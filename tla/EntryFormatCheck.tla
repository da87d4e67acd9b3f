-------------------------- MODULE EntryFormatCheck --------------------------
(***************************************************************************)
(* EntryFormat on bounded inputs, for TLC: the facts that                  *)
(* ClientProofs proves, on a fragment for every combination of the         *)
(* cases the conversions distinguish.                                      *)
(***************************************************************************)
EXTENDS Integers, Sequences

F == INSTANCE EntryFormat WITH
    Uuid <- {"entry", "icon", "none"}, NullUuid <- "none", Root <- "root",
    Text <- {"text"}, Name <- {"a", "b"}, Data <- {"data"}, Empty <- "empty",
    Pooled <- "pooled", Tag <- {"tag"}, Blank <- "blank", Carried <- {"rest"},
    Key <- {"k"}, ZeroTime <- 0, Error <- "error"

\* Times of a fragment; `modified` may lack, the expiry may lack or be a fraction.
SampleTimes ==
    {[created |-> {2000}, modified |-> m, accessed |-> {3000}, moved |-> {1000},
      expiry |-> y, expires |-> b] :
        m \in {{}, {4000}}, y \in {{}, {5000}, {5500}}, b \in BOOLEAN}

\* One fragment for every combination, with the history h.
Samples(h) ==
    {[garbled |-> FALSE, uuid |-> "entry", times |-> t,
      strings |-> [n \in {"a"} |-> [text |-> "text", mark |-> k]],
      binaries |-> b, tags |-> g, icon |-> i,
      customData |-> [n \in {"b"} |-> [text |-> "text", modified |-> c]],
      previous |-> i, carried |-> "rest", history |-> h] :
        t \in SampleTimes, k \in {"none", "ProtectInMemory", "Protected"},
        b \in {[n \in {"a", "b"} |-> IF n = "a" THEN "data" ELSE d] :
                   d \in {"data", "empty", "pooled"}},
        g \in {{}, {"tag", "blank"}}, i \in {{}, {"icon"}, {"none"}},
        c \in {{}, {6000}, {6500}}}

\* A fragment and the same with one version of each kind of times in its history.
AFragment == CHOOSE x \in Samples(<<>>) : F!Readable(x)
Fragments ==
    Samples(<<>>) \union
        {[AFragment EXCEPT !.history = <<[AFragment EXCEPT !.times = t], AFragment>>] :
            t \in SampleTimes}

Back(e) == F!toCanonical(F!ToInnerXML(e))

\* Written and read twice is written and read once (RoundTripSettles).
ASSUME SettlesOnSamples ==
    \A x \in Fragments : F!Readable(x) =>
        LET e == Back(F!FromInnerXML(x)) IN Back(e) = e

\* An export with whole seconds comes back as it was, but for the server's time
\* (PushedIsPulled).
ASSUME PulledOnSamples ==
    \A x \in Fragments :
        /\ F!Readable(x)
        /\ \A y \in {x} \union {x.history[i] : i \in DOMAIN x.history} :
              /\ y.times.expiry = {5000}
              /\ y.customData["b"].modified # {6500}
        => LET got == F!decryptToFragmentWithParent("k",
                          F!encodeFragmentToBlob("k", "root", x), 7999)
           IN  F!FromInnerXML(got.fragment) =
                   [F!FromInnerXML(x) EXCEPT !.times.modified = 7000]

\* An entry that expires but has no expiry comes back with one, its modification time:
\* the case PushedIsPulled leaves out.
ASSUME ExpiryAppears ==
    \E x \in Fragments :
        /\ F!Readable(x) /\ F!FromInnerXML(x).times.expiresAt = {}
        /\ Back(F!FromInnerXML(x)).times.expiresAt # {}

\* Another key opens nothing, and what does not parse is not sent.
ASSUME RefusedOnSamples ==
    \A x \in Fragments :
        LET blob == F!encodeFragmentToBlob("k", "root", x)
        IN  IF F!Readable(x)
            THEN /\ F!decryptToFragmentWithParent("other", blob, 0) = "error"
                 /\ F!DecryptEntry({"other"}, blob) = "error"
                 /\ F!DecryptEntry({}, blob) = "error"
            ELSE blob = "error"

=============================================================================
