---------------------------- MODULE ClientProofs ----------------------------
(***************************************************************************)
(* Theorems about two parts of the desktop client: what the conversions of   *)
(* EntryFormat keep, for every entry and group, and the daemon's scheduling  *)
(* (Daemon), for any number of databases and callbacks.                      *)
(***************************************************************************)
EXTENDS EntryFormat, Daemon, TLAPS

-----------------------------------------------------------------------------
(* EntryFormat *)

\* A version as KeePassXC exports it: every time is there and is a whole second.
WholeSeconds(x) ==
    /\ ReadableVersion(x)
    /\ x.times.expiry # {}
    /\ \A f \in {"created", "modified", "accessed", "moved", "expiry"} :
        \A t \in x.times[f] : formatKdbxTime(t) = t
    /\ \A n \in DOMAIN x.customData : \A t \in x.customData[n].modified : formatKdbxTime(t) = t

\* An entry as KeePassXC exports it.
Exported(x) == WholeSeconds(x) /\ \A i \in DOMAIN x.history : WholeSeconds(x.history[i])

\* An entry as it comes back from the file it was written to.
ThroughTheFile(e) == toCanonical(ToInnerXML(e))

LEMMA TheOfOne == ASSUME NEW x PROVE The({x}) = x
  BY DEF The

LEMMA WholeIsKept == ASSUME NEW t \in Time
  PROVE  /\ formatKdbxTime(t) \in Time
         /\ formatKdbxTime(formatKdbxTime(t)) = formatKdbxTime(t)
  BY SMT DEF Time, formatKdbxTime

-----------------------------------------------------------------------------
(***************************************************************************)
(* The parts of a version that is written and read back.                   *)
(***************************************************************************)
LEMMA TimesReadBack ==
  ASSUME NEW t \in Times
  PROVE  /\ ReadableTimes(writeTimes(t))
         /\ timesToCanonical(writeTimes(t)) =
              [created |-> formatKdbxTime(t.created), modified |-> formatKdbxTime(t.modified),
               accessed |-> formatKdbxTime(t.accessed), moved |-> formatKdbxTime(t.moved),
               expires |-> t.expires,
               expiresAt |-> IF t.expires
                             THEN {formatKdbxTime(IF t.expiresAt = {} THEN t.modified
                                                  ELSE The(t.expiresAt))}
                             ELSE {}]
<1>1. /\ The({formatKdbxTime(t.created)}) = formatKdbxTime(t.created)
      /\ The({formatKdbxTime(t.modified)}) = formatKdbxTime(t.modified)
      /\ The({formatKdbxTime(t.accessed)}) = formatKdbxTime(t.accessed)
      /\ The({formatKdbxTime(t.moved)}) = formatKdbxTime(t.moved)
  BY TheOfOne
<1> QED
  BY <1>1 DEF ReadableTimes, writeTimes, timesToCanonical

LEMMA TimesTyped ==
  ASSUME NEW t \in Times
  PROVE  timesToCanonical(writeTimes(t)) \in Times
<1> DEFINE exp == IF t.expiresAt = {} THEN t.modified ELSE The(t.expiresAt)
<1>1. /\ t.created \in Time /\ t.modified \in Time /\ t.accessed \in Time /\ t.moved \in Time
      /\ t.expires \in BOOLEAN /\ t.expiresAt \in Optional(Time)
  BY DEF Times
<1>2. exp \in Time
  <2>1. CASE t.expiresAt = {}
    BY <1>1, <2>1
  <2>2. CASE t.expiresAt # {}
    <3>1. PICK x \in Time : t.expiresAt = {x}
      BY <1>1, <2>2 DEF Optional
    <3> QED
      BY <2>2, <3>1, TheOfOne
  <2> QED
    BY <2>1, <2>2
<1>3. /\ formatKdbxTime(t.created) \in Time /\ formatKdbxTime(t.modified) \in Time
      /\ formatKdbxTime(t.accessed) \in Time /\ formatKdbxTime(t.moved) \in Time
      /\ formatKdbxTime(exp) \in Time
  BY <1>1, <1>2, WholeIsKept
<1>4. (IF t.expires THEN {formatKdbxTime(exp)} ELSE {}) \in Optional(Time)
  BY <1>3 DEF Optional
<1> HIDE DEF exp
<1>5. timesToCanonical(writeTimes(t)) =
        [created |-> formatKdbxTime(t.created), modified |-> formatKdbxTime(t.modified),
         accessed |-> formatKdbxTime(t.accessed), moved |-> formatKdbxTime(t.moved),
         expires |-> t.expires, expiresAt |-> IF t.expires THEN {formatKdbxTime(exp)} ELSE {}]
  BY TimesReadBack DEF exp
<1> QED
  BY <1>1, <1>3, <1>4, <1>5 DEF Times

LEMMA TimesSettle ==
  ASSUME NEW t \in Times
  PROVE  LET u == timesToCanonical(writeTimes(t)) IN timesToCanonical(writeTimes(u)) = u
<1> DEFINE u == timesToCanonical(writeTimes(t))
           exp == IF t.expiresAt = {} THEN t.modified ELSE The(t.expiresAt)
<1>1. u \in Times
  BY TimesTyped
<1>2. u = [created |-> formatKdbxTime(t.created), modified |-> formatKdbxTime(t.modified),
           accessed |-> formatKdbxTime(t.accessed), moved |-> formatKdbxTime(t.moved),
           expires |-> t.expires,
           expiresAt |-> IF t.expires THEN {formatKdbxTime(exp)} ELSE {}]
  BY TimesReadBack
<1>3. /\ t.created \in Time /\ t.modified \in Time /\ t.accessed \in Time /\ t.moved \in Time
      /\ t.expires \in BOOLEAN /\ t.expiresAt \in Optional(Time)
  BY DEF Times
<1>4. exp \in Time
  <2>1. CASE t.expiresAt = {}
    BY <1>3, <2>1
  <2>2. CASE t.expiresAt # {}
    <3>1. PICK x \in Time : t.expiresAt = {x}
      BY <1>3, <2>2 DEF Optional
    <3> QED
      BY <2>2, <3>1, TheOfOne
  <2> QED
    BY <2>1, <2>2
<1> HIDE DEF u, exp
<1>5. timesToCanonical(writeTimes(u)) =
        [created |-> formatKdbxTime(u.created), modified |-> formatKdbxTime(u.modified),
         accessed |-> formatKdbxTime(u.accessed), moved |-> formatKdbxTime(u.moved),
         expires |-> u.expires,
         expiresAt |-> IF u.expires
                       THEN {formatKdbxTime(IF u.expiresAt = {} THEN u.modified
                                            ELSE The(u.expiresAt))}
                       ELSE {}]
  BY <1>1, TimesReadBack
<1>6. /\ formatKdbxTime(u.created) = u.created /\ formatKdbxTime(u.modified) = u.modified
      /\ formatKdbxTime(u.accessed) = u.accessed /\ formatKdbxTime(u.moved) = u.moved
  BY <1>2, <1>3, WholeIsKept
<1>7. (IF u.expires THEN {formatKdbxTime(IF u.expiresAt = {} THEN u.modified
                                         ELSE The(u.expiresAt))} ELSE {}) = u.expiresAt
  <2>1. CASE t.expires
    <3>1. u.expires /\ u.expiresAt = {formatKdbxTime(exp)} /\ u.expiresAt # {}
      BY <1>2, <2>1
    <3>2. The(u.expiresAt) = formatKdbxTime(exp)
      BY <3>1, TheOfOne
    <3> QED
      BY <1>4, <3>1, <3>2, WholeIsKept
  <2>2. CASE ~t.expires
    BY <1>2, <2>2
  <2> QED
    BY <2>1, <2>2
<1> QED
  BY <1>2, <1>5, <1>6, <1>7 DEF u

LEMMA StringsReadBack ==
  ASSUME NEW ss \in Named(String)
  PROVE  LET w == [n \in DOMAIN ss |-> writeString(ss[n])] IN
         [n \in DOMAIN w |-> [text |-> w[n].text, protected |-> w[n].mark # "none"]] = ss
<1> DEFINE w == [n \in DOMAIN ss |-> writeString(ss[n])]
           r == [n \in DOMAIN w |-> [text |-> w[n].text, protected |-> w[n].mark # "none"]]
<1>1. PICK N \in SUBSET Name : ss \in [N -> String]
  BY DEF Named
<1>2. DOMAIN r = N /\ DOMAIN ss = N
  BY <1>1
<1>3. ASSUME NEW n \in N PROVE r[n] = ss[n]
  <2>1. ss[n] \in String
    BY <1>1
  <2>2. /\ w[n] = writeString(ss[n])
        /\ r[n] = [text |-> w[n].text, protected |-> w[n].mark # "none"]
    BY <1>2
  <2>3. ss[n] = [text |-> ss[n].text, protected |-> ss[n].protected]
        /\ ss[n].protected \in BOOLEAN
    BY <2>1 DEF String
  <2>4. /\ w[n].text = ss[n].text
        /\ w[n].mark = IF ss[n].protected THEN "ProtectInMemory" ELSE "none"
    BY <2>2 DEF writeString
  <2>5. (w[n].mark # "none") = ss[n].protected
    BY <2>3, <2>4
  <2>6. r[n] = [text |-> ss[n].text, protected |-> ss[n].protected]
    BY <2>2, <2>4, <2>5
  <2> QED
    BY <2>3, <2>6
<1> QED
  BY <1>1, <1>2, <1>3

LEMMA CustomDataSettles ==
  ASSUME NEW cd \in Named(CustomDataItem)
  PROVE  /\ writeCustomData(cd) \in Named(CustomDataItem)
         /\ writeCustomData(writeCustomData(cd)) = writeCustomData(cd)
<1> DEFINE w == writeCustomData(cd)
<1>1. PICK N \in SUBSET Name : cd \in [N -> CustomDataItem]
  BY DEF Named
<1>2. /\ DOMAIN w = N /\ DOMAIN cd = N
      /\ \A n \in N : w[n] = [text |-> cd[n].text,
                              modified |-> {formatKdbxTime(t) : t \in cd[n].modified}]
  BY <1>1 DEF writeCustomData
<1>3. ASSUME NEW n \in N
      PROVE  /\ w[n] \in CustomDataItem
             /\ {formatKdbxTime(t) : t \in w[n].modified} = w[n].modified
  <2>1. cd[n].text \in Text /\ cd[n].modified \in Optional(Time)
    BY <1>1 DEF CustomDataItem
  <2>2. w[n].text = cd[n].text /\ w[n].modified = {formatKdbxTime(t) : t \in cd[n].modified}
    BY <1>2
  <2>3. CASE cd[n].modified = {}
    <3>1. w[n].modified = {}
      BY <2>2, <2>3
    <3> QED
      BY <1>2, <2>1, <2>2, <3>1 DEF CustomDataItem, Optional
  <2>4. CASE cd[n].modified # {}
    <3>1. PICK t \in Time : cd[n].modified = {t}
      BY <2>1, <2>4 DEF Optional
    <3>2. w[n].modified = {formatKdbxTime(t)}
      BY <2>2, <3>1
    <3>3. formatKdbxTime(t) \in Time /\ formatKdbxTime(formatKdbxTime(t)) = formatKdbxTime(t)
      BY WholeIsKept
    <3>4. {formatKdbxTime(u) : u \in w[n].modified} = w[n].modified
      BY <3>2, <3>3
    <3> QED
      BY <1>2, <2>1, <2>2, <3>2, <3>3, <3>4 DEF CustomDataItem, Optional
  <2> QED
    BY <2>3, <2>4
<1>4. w \in [N -> CustomDataItem]
  <2>1. w = [n \in N |-> w[n]]
    BY <1>1, <1>2 DEF writeCustomData
  <2> QED
    BY <1>3, <2>1
<1>5. writeCustomData(w) = [n \in N |-> [text |-> w[n].text, modified |-> w[n].modified]]
  BY <1>2, <1>3 DEF writeCustomData
<1>6. \A n \in N : [text |-> w[n].text, modified |-> w[n].modified] = w[n]
  BY <1>3 DEF CustomDataItem
<1> QED
  BY <1>4, <1>5, <1>6 DEF Named

\* What is read back of a version that was written to the file.
LEMMA VersionReadBack ==
  ASSUME NEW H, NEW e \in EntryWith(H)
  PROVE  /\ ReadableVersion(writeVersion(e))
         /\ versionToCanonical(writeVersion(e)) =
              [v |-> SchemaVersion, uuid |-> e.uuid,
               times |-> timesToCanonical(writeTimes(e.times)), strings |-> e.strings,
               binaries |-> [n \in {m \in DOMAIN e.binaries :
                                      e.binaries[m] \notin {Empty, Pooled}} |-> e.binaries[n]],
               tags |-> e.tags \ {Blank}, icon |-> e.icon \ {NullUuid},
               customData |-> writeCustomData(e.customData),
               previous |-> e.previous \ {NullUuid}, carried |-> e.carried, parent |-> Root,
               history |-> <<>>]
<1> DEFINE w == writeVersion(e)
<1>1. /\ e.times \in Times /\ e.strings \in Named(String)
  BY DEF EntryWith
<1>2. /\ w.garbled = FALSE /\ w.uuid = e.uuid /\ w.times = writeTimes(e.times)
      /\ w.strings = [n \in DOMAIN e.strings |-> writeString(e.strings[n])]
      /\ w.binaries = e.binaries /\ w.tags = e.tags /\ w.icon = e.icon
      /\ w.customData = writeCustomData(e.customData) /\ w.previous = e.previous
      /\ w.carried = e.carried
  BY DEF writeVersion
<1> HIDE DEF w
<1>3. ReadableVersion(w)
  BY <1>1, <1>2, TimesReadBack DEF ReadableVersion
<1>4. [n \in DOMAIN w.strings |->
         [text |-> w.strings[n].text, protected |-> w.strings[n].mark # "none"]] = e.strings
  <2>1. LET v == [n \in DOMAIN e.strings |-> writeString(e.strings[n])] IN
        [n \in DOMAIN v |-> [text |-> v[n].text, protected |-> v[n].mark # "none"]] = e.strings
    BY <1>1, StringsReadBack
  <2> QED
    BY <1>2, <2>1
<1>5. versionToCanonical(w) =
              [v |-> SchemaVersion, uuid |-> e.uuid,
               times |-> timesToCanonical(writeTimes(e.times)), strings |-> e.strings,
               binaries |-> [n \in {m \in DOMAIN e.binaries :
                                      e.binaries[m] \notin {Empty, Pooled}} |-> e.binaries[n]],
               tags |-> e.tags \ {Blank}, icon |-> e.icon \ {NullUuid},
               customData |-> writeCustomData(e.customData),
               previous |-> e.previous \ {NullUuid}, carried |-> e.carried, parent |-> Root,
               history |-> <<>>]
  BY <1>2, <1>4 DEF versionToCanonical
<1> QED
  BY <1>3, <1>5 DEF w

LEMMA VersionTyped ==
  ASSUME NEW H, NEW e \in EntryWith(H)
  PROVE  versionToCanonical(writeVersion(e)) \in Version
<1> DEFINE b == [n \in {m \in DOMAIN e.binaries : e.binaries[m] \notin {Empty, Pooled}} |->
                   e.binaries[n]]
<1>1. /\ e.uuid \in Uuid /\ e.times \in Times /\ e.strings \in Named(String)
      /\ e.binaries \in Named(Data \union {Empty}) /\ e.tags \in SUBSET (Tag \union {Blank})
      /\ e.icon \in Optional(Uuid) /\ e.customData \in Named(CustomDataItem)
      /\ e.previous \in Optional(Uuid) /\ e.carried \in Carried
  BY DEF EntryWith
<1>2. b \in Named(Data \union {Empty})
  <2>1. PICK N \in SUBSET Name : e.binaries \in [N -> Data \union {Empty}]
    BY <1>1 DEF Named
  <2> DEFINE M == {m \in DOMAIN e.binaries : e.binaries[m] \notin {Empty, Pooled}}
  <2>2. M \in SUBSET Name /\ \A n \in M : e.binaries[n] \in Data \union {Empty}
    BY <2>1
  <2>3. b \in [M -> Data \union {Empty}]
    BY <2>2
  <2> QED
    BY <2>2, <2>3 DEF Named
<1>3. \A o \in Optional(Uuid) : o \ {NullUuid} \in Optional(Uuid)
  BY DEF Optional
<1>4. e.tags \ {Blank} \in SUBSET (Tag \union {Blank})
  BY <1>1
<1>5. /\ timesToCanonical(writeTimes(e.times)) \in Times
      /\ writeCustomData(e.customData) \in Named(CustomDataItem)
  BY <1>1, TimesTyped, CustomDataSettles
<1>6. SchemaVersion \in Nat
  BY DEF SchemaVersion
<1> HIDE DEF b
<1>7. versionToCanonical(writeVersion(e)) =
              [v |-> SchemaVersion, uuid |-> e.uuid,
               times |-> timesToCanonical(writeTimes(e.times)), strings |-> e.strings,
               binaries |-> b, tags |-> e.tags \ {Blank}, icon |-> e.icon \ {NullUuid},
               customData |-> writeCustomData(e.customData),
               previous |-> e.previous \ {NullUuid}, carried |-> e.carried, parent |-> Root,
               history |-> <<>>]
  BY VersionReadBack DEF b
<1> QED
  BY <1>1, <1>2, <1>3, <1>4, <1>5, <1>6, <1>7 DEF Version, EntryWith

LEMMA VersionSettles ==
  ASSUME NEW H, NEW e \in EntryWith(H)
  PROVE  LET f == versionToCanonical(writeVersion(e)) IN versionToCanonical(writeVersion(f)) = f
<1> DEFINE f == versionToCanonical(writeVersion(e))
           kept(b) == [n \in {m \in DOMAIN b : b[m] \notin {Empty, Pooled}} |-> b[n]]
<1>1. f \in EntryWith({<<>>})
  BY VersionTyped DEF Version
<1>2. f = [v |-> SchemaVersion, uuid |-> e.uuid,
           times |-> timesToCanonical(writeTimes(e.times)), strings |-> e.strings,
           binaries |-> kept(e.binaries), tags |-> e.tags \ {Blank},
           icon |-> e.icon \ {NullUuid}, customData |-> writeCustomData(e.customData),
           previous |-> e.previous \ {NullUuid}, carried |-> e.carried, parent |-> Root,
           history |-> <<>>]
  BY VersionReadBack
<1> HIDE DEF f
<1>3. versionToCanonical(writeVersion(f)) =
          [v |-> SchemaVersion, uuid |-> f.uuid,
           times |-> timesToCanonical(writeTimes(f.times)), strings |-> f.strings,
           binaries |-> kept(f.binaries), tags |-> f.tags \ {Blank},
           icon |-> f.icon \ {NullUuid}, customData |-> writeCustomData(f.customData),
           previous |-> f.previous \ {NullUuid}, carried |-> f.carried, parent |-> Root,
           history |-> <<>>]
  BY <1>1, VersionReadBack
<1>4. timesToCanonical(writeTimes(f.times)) = f.times
  <2>1. e.times \in Times
    BY DEF EntryWith
  <2> QED
    BY <1>2, <2>1, TimesSettle
<1>5. writeCustomData(f.customData) = f.customData
  <2>1. e.customData \in Named(CustomDataItem)
    BY DEF EntryWith
  <2> QED
    BY <1>2, <2>1, CustomDataSettles
<1>6. kept(f.binaries) = f.binaries
  <2>1. f.binaries = kept(e.binaries)
    BY <1>2
  <2>2. {m \in DOMAIN f.binaries : f.binaries[m] \notin {Empty, Pooled}} = DOMAIN f.binaries
    BY <2>1
  <2> QED
    BY <2>1, <2>2
<1>7. /\ f.tags \ {Blank} = f.tags
      /\ f.icon \ {NullUuid} = f.icon /\ f.previous \ {NullUuid} = f.previous
  BY <1>2
<1> HIDE DEF kept
<1>8. f = [v |-> SchemaVersion, uuid |-> f.uuid, times |-> f.times, strings |-> f.strings,
           binaries |-> f.binaries, tags |-> f.tags, icon |-> f.icon,
           customData |-> f.customData, previous |-> f.previous, carried |-> f.carried,
           parent |-> Root, history |-> <<>>]
  BY <1>2
<1>9. versionToCanonical(writeVersion(f)) = f
  BY <1>3, <1>4, <1>5, <1>6, <1>7, <1>8
<1> QED
  BY <1>9 DEF f

-----------------------------------------------------------------------------
(***************************************************************************)
(* Whole entries, with their history.                                      *)
(***************************************************************************)
LEMMA EntryReadBack ==
  ASSUME NEW e \in CanonicalEntry
  PROVE  /\ Readable(ToInnerXML(e))
         /\ ThroughTheFile(e) =
              [versionToCanonical(writeVersion(e)) EXCEPT
                  !.history = [i \in DOMAIN e.history |->
                                 versionToCanonical(writeVersion(e.history[i]))]]
<1> DEFINE x == ToInnerXML(e)
           h == [i \in DOMAIN e.history |-> writeVersion(e.history[i])]
<1>1. x = [writeVersion(e) EXCEPT !.history = h] /\ "history" \in DOMAIN writeVersion(e)
  BY DEF ToInnerXML, writeVersion
<1>2. /\ x.garbled = writeVersion(e).garbled /\ x.uuid = writeVersion(e).uuid
      /\ x.times = writeVersion(e).times /\ x.strings = writeVersion(e).strings
      /\ x.binaries = writeVersion(e).binaries /\ x.tags = writeVersion(e).tags
      /\ x.icon = writeVersion(e).icon /\ x.customData = writeVersion(e).customData
      /\ x.previous = writeVersion(e).previous /\ x.carried = writeVersion(e).carried
      /\ x.history = h
  BY <1>1
<1>3. e \in EntryWith(Seq(Version)) /\ e.history \in Seq(Version)
  BY DEF CanonicalEntry, EntryWith
<1>4. \A i \in DOMAIN e.history : e.history[i] \in EntryWith({<<>>})
  BY <1>3 DEF Version
<1>5. ReadableVersion(writeVersion(e)) /\ \A i \in DOMAIN h : ReadableVersion(h[i])
  BY <1>3, <1>4, VersionReadBack
<1> HIDE DEF h, x
<1>6. Readable(x)
  BY <1>2, <1>5 DEF Readable, ReadableVersion
<1>7. versionToCanonical(x) = versionToCanonical(writeVersion(e))
  BY <1>2 DEF versionToCanonical
<1>8. toCanonical(x) = [versionToCanonical(writeVersion(e)) EXCEPT
                          !.history = [i \in DOMAIN h |-> versionToCanonical(h[i])]]
  BY <1>2, <1>7 DEF toCanonical
<1>9. [i \in DOMAIN h |-> versionToCanonical(h[i])] =
        [i \in DOMAIN e.history |-> versionToCanonical(writeVersion(e.history[i]))]
  BY DEF h
<1> QED
  BY <1>6, <1>8, <1>9 DEF x, ThroughTheFile

\* One trip through the file settles an entry: written and read a second time it is
\* the same, with its history (ToInnerXML and FromInnerXML).
THEOREM RoundTripSettles ==
  ASSUME NEW e \in CanonicalEntry
  PROVE  /\ ThroughTheFile(e) \in CanonicalEntry
         /\ ThroughTheFile(ThroughTheFile(e)) = ThroughTheFile(e)
<1> DEFINE rb(z) == versionToCanonical(writeVersion(z))
           h == [i \in DOMAIN e.history |-> rb(e.history[i])]
           f == ThroughTheFile(e)
<1>1. e \in EntryWith(Seq(Version)) /\ e.history \in Seq(Version)
  BY DEF CanonicalEntry, EntryWith
<1>2. \A i \in DOMAIN e.history : e.history[i] \in EntryWith({<<>>})
  BY <1>1 DEF Version
<1>3. rb(e) \in Version /\ rb(rb(e)) = rb(e)
  BY <1>1, VersionTyped, VersionSettles
<1>4. \A i \in DOMAIN e.history : h[i] \in Version /\ rb(h[i]) = h[i]
  BY <1>2, VersionTyped, VersionSettles
<1>5. h \in Seq(Version)
  <2>1. DOMAIN e.history = 1..Len(e.history) /\ Len(e.history) \in Nat
    BY <1>1
  <2>2. h \in [1..Len(e.history) -> Version]
    BY <1>4, <2>1
  <2> QED
    BY <2>1, <2>2
<1>6. f = [rb(e) EXCEPT !.history = h]
  BY EntryReadBack
<1> HIDE DEF h, f
<1>7. f \in CanonicalEntry
  BY <1>3, <1>5, <1>6 DEF Version, CanonicalEntry, EntryWith
<1>8. /\ f.history = h
      /\ f.uuid = rb(e).uuid /\ f.times = rb(e).times /\ f.strings = rb(e).strings
      /\ f.binaries = rb(e).binaries /\ f.tags = rb(e).tags /\ f.icon = rb(e).icon
      /\ f.customData = rb(e).customData /\ f.previous = rb(e).previous
      /\ f.carried = rb(e).carried
  BY <1>3, <1>6 DEF Version, EntryWith
<1>9. writeVersion(f) = writeVersion(rb(e))
  BY <1>8 DEF writeVersion
<1>10. [i \in DOMAIN f.history |-> rb(f.history[i])] = h
  <2>1. DOMAIN h = DOMAIN e.history /\ h = [i \in DOMAIN h |-> h[i]]
    BY DEF h
  <2> QED
    BY <1>4, <1>8, <2>1
<1>11. ThroughTheFile(f) =
         [rb(f) EXCEPT !.history = [i \in DOMAIN f.history |-> rb(f.history[i])]]
  BY <1>7, EntryReadBack
<1>12. rb(f) = rb(e)
  BY <1>3, <1>9
<1> QED
  BY <1>6, <1>7, <1>10, <1>11, <1>12 DEF f

-----------------------------------------------------------------------------
(***************************************************************************)
(* What one device exports, pushes and another one pulls.                  *)
(***************************************************************************)
LEMMA ReadTimesTyped ==
  ASSUME NEW t \in xmlTimes, ReadableTimes(t)
  PROVE  timesToCanonical(t) \in Times
<1>1. \A o \in Optional(Time) : o # {} => The(o) \in Time
  <2> SUFFICES ASSUME NEW o \in Optional(Time), o # {} PROVE The(o) \in Time
    OBVIOUS
  <2>1. PICK y \in Time : o = {y}
    BY DEF Optional
  <2> QED
    BY <2>1, TheOfOne
<1>2. /\ t.created \in Optional(Time) /\ t.modified \in Optional(Time)
      /\ t.accessed \in Optional(Time) /\ t.moved \in Optional(Time)
      /\ t.expiry \in Optional(Time) /\ t.expires \in BOOLEAN
  BY DEF xmlTimes
<1>3. (IF t.expires THEN t.expiry ELSE {}) \in Optional(Time)
  BY <1>2 DEF Optional
<1>4. /\ The(t.created) \in Time /\ The(t.modified) \in Time
      /\ The(t.accessed) \in Time /\ The(t.moved) \in Time
  BY <1>1, <1>2 DEF ReadableTimes
<1> QED
  BY <1>2, <1>3, <1>4 DEF timesToCanonical, Times

LEMMA ReadVersionTyped ==
  ASSUME NEW H, NEW x \in xmlEntryWith(H), ReadableVersion(x)
  PROVE  versionToCanonical(x) \in Version
<1> DEFINE b == [n \in {m \in DOMAIN x.binaries : x.binaries[m] \notin {Empty, Pooled}} |->
                   x.binaries[n]]
           ss == [n \in DOMAIN x.strings |->
                    [text |-> x.strings[n].text, protected |-> x.strings[n].mark # "none"]]
<1>1. /\ x.uuid \in Uuid /\ x.times \in xmlTimes /\ x.strings \in Named(xmlValue)
      /\ x.binaries \in Named(Data \union {Empty, Pooled})
      /\ x.tags \in SUBSET (Tag \union {Blank})
      /\ x.icon \in Optional(Uuid) /\ x.customData \in Named(CustomDataItem)
      /\ x.previous \in Optional(Uuid) /\ x.carried \in Carried
  BY DEF xmlEntryWith
<1>2. b \in Named(Data \union {Empty})
  <2>1. PICK N \in SUBSET Name : x.binaries \in [N -> Data \union {Empty, Pooled}]
    BY <1>1 DEF Named
  <2> DEFINE M == {m \in DOMAIN x.binaries : x.binaries[m] \notin {Empty, Pooled}}
  <2>2. M \in SUBSET Name /\ \A n \in M : x.binaries[n] \in Data \union {Empty}
    BY <2>1
  <2>3. b \in [M -> Data \union {Empty}]
    BY <2>2
  <2> QED
    BY <2>2, <2>3 DEF Named
<1>3. ss \in Named(String)
  <2>1. PICK N \in SUBSET Name : x.strings \in [N -> xmlValue]
    BY <1>1 DEF Named
  <2>2. \A n \in N : x.strings[n].text \in Text /\ (x.strings[n].mark # "none") \in BOOLEAN
    BY <2>1 DEF xmlValue
  <2>3. DOMAIN x.strings = N
    BY <2>1
  <2>4. \A n \in N : [text |-> x.strings[n].text, protected |-> x.strings[n].mark # "none"]
                       \in String
    BY <2>2 DEF String
  <2>5. ss \in [N -> String]
    BY <2>3, <2>4
  <2> QED
    BY <2>5 DEF Named
<1>4. \A o \in Optional(Uuid) : o \ {NullUuid} \in Optional(Uuid)
  BY DEF Optional
<1>5. x.tags \ {Blank} \in SUBSET (Tag \union {Blank})
  BY <1>1
<1>6. timesToCanonical(x.times) \in Times
  BY <1>1, ReadTimesTyped DEF ReadableVersion
<1>7. SchemaVersion \in Nat
  BY DEF SchemaVersion
<1>8. versionToCanonical(x) =
        [v |-> SchemaVersion, uuid |-> x.uuid, times |-> timesToCanonical(x.times),
         strings |-> ss, binaries |-> b, tags |-> x.tags \ {Blank},
         icon |-> x.icon \ {NullUuid}, customData |-> x.customData,
         previous |-> x.previous \ {NullUuid}, carried |-> x.carried, parent |-> Root,
         history |-> <<>>]
  BY DEF versionToCanonical
<1> HIDE DEF b, ss
<1> QED
  BY <1>1, <1>2, <1>3, <1>4, <1>5, <1>6, <1>7, <1>8 DEF Version, EntryWith

LEMMA ExportedTimesReadBack ==
  ASSUME NEW H, NEW x \in xmlEntryWith(H), WholeSeconds(x), NEW m \in Time
  PROVE  LET t == timesToCanonical(x.times) IN
         timesToCanonical(writeTimes([t EXCEPT !.modified = m])) =
             [t EXCEPT !.modified = formatKdbxTime(m)]
<1> DEFINE t == timesToCanonical(x.times)
           u == [t EXCEPT !.modified = m]
<1>1. x.times \in xmlTimes /\ ReadableTimes(x.times)
  BY DEF xmlEntryWith, WholeSeconds, ReadableVersion
<1>2. t \in Times
  BY <1>1, ReadTimesTyped
<1>3. /\ x.times.created \in Optional(Time) /\ x.times.accessed \in Optional(Time)
      /\ x.times.moved \in Optional(Time) /\ x.times.expiry \in Optional(Time)
      /\ x.times.expires \in BOOLEAN
  BY <1>1 DEF xmlTimes
<1>4. PICK c \in Time, a \in Time, p \in Time, y \in Time :
        /\ x.times.created = {c} /\ x.times.accessed = {a} /\ x.times.moved = {p}
        /\ x.times.expiry = {y}
  BY <1>1, <1>3 DEF Optional, ReadableTimes, WholeSeconds
<1>5. /\ formatKdbxTime(c) = c /\ formatKdbxTime(a) = a /\ formatKdbxTime(p) = p
      /\ formatKdbxTime(y) = y
  <2>1. /\ x.times["created"] = {c} /\ x.times["accessed"] = {a} /\ x.times["moved"] = {p}
        /\ x.times["expiry"] = {y}
    BY <1>4
  <2>2. \A f \in {"created", "modified", "accessed", "moved", "expiry"} :
          \A z \in x.times[f] : formatKdbxTime(z) = z
    BY DEF WholeSeconds
  <2> QED
    BY <2>1, <2>2
<1>6. /\ t.created = c /\ t.accessed = a /\ t.moved = p /\ t.expires = x.times.expires
      /\ t.expiresAt = IF x.times.expires THEN {y} ELSE {}
  BY <1>4, TheOfOne DEF timesToCanonical
<1> HIDE DEF t
<1>7. u \in Times /\ u.modified = m /\ u.created = c /\ u.accessed = a /\ u.moved = p
      /\ u.expires = x.times.expires /\ u.expiresAt = t.expiresAt
  BY <1>2, <1>6 DEF Times
<1> HIDE DEF u
<1>8. timesToCanonical(writeTimes(u)) =
        [created |-> c, modified |-> formatKdbxTime(m), accessed |-> a, moved |-> p,
         expires |-> u.expires,
         expiresAt |-> IF u.expires
                       THEN {formatKdbxTime(IF u.expiresAt = {} THEN u.modified
                                            ELSE The(u.expiresAt))}
                       ELSE {}]
  <2>1. timesToCanonical(writeTimes(u)) =
        [created |-> formatKdbxTime(u.created), modified |-> formatKdbxTime(u.modified),
         accessed |-> formatKdbxTime(u.accessed), moved |-> formatKdbxTime(u.moved),
         expires |-> u.expires,
         expiresAt |-> IF u.expires
                       THEN {formatKdbxTime(IF u.expiresAt = {} THEN u.modified
                                            ELSE The(u.expiresAt))}
                       ELSE {}]
    BY <1>7, TimesReadBack
  <2>2. /\ formatKdbxTime(u.created) = c /\ formatKdbxTime(u.modified) = formatKdbxTime(m)
        /\ formatKdbxTime(u.accessed) = a /\ formatKdbxTime(u.moved) = p
    BY <1>5, <1>7
  <2> QED
    BY <2>1, <2>2
<1>9. (IF u.expires THEN {formatKdbxTime(IF u.expiresAt = {} THEN u.modified
                                         ELSE The(u.expiresAt))} ELSE {}) = t.expiresAt
  <2>1. CASE x.times.expires
    <3>1. u.expires /\ u.expiresAt = {y} /\ u.expiresAt # {} /\ t.expiresAt = {y}
      BY <1>6, <1>7, <2>1
    <3>2. The(u.expiresAt) = y
      BY <3>1, TheOfOne
    <3> QED
      BY <1>5, <3>1, <3>2
  <2>2. CASE ~x.times.expires
    BY <1>6, <1>7, <2>2
  <2> QED
    BY <2>1, <2>2
<1>10. timesToCanonical(writeTimes(u)) =
         [created |-> c, modified |-> formatKdbxTime(m), accessed |-> a, moved |-> p,
          expires |-> u.expires, expiresAt |-> t.expiresAt]
  BY <1>8, <1>9
<1>11. [t EXCEPT !.modified = formatKdbxTime(m)] =
         [created |-> c, modified |-> formatKdbxTime(m), accessed |-> a, moved |-> p,
          expires |-> t.expires, expiresAt |-> t.expiresAt]
  BY <1>2, <1>6 DEF Times
<1>12. u.expires = t.expires
  BY <1>6, <1>7
<1> QED
  BY <1>10, <1>11, <1>12 DEF u, t

LEMMA ExportedCustomData ==
  ASSUME NEW H, NEW x \in xmlEntryWith(H), WholeSeconds(x)
  PROVE  writeCustomData(x.customData) = x.customData
<1> DEFINE cd == x.customData
<1>1. cd \in Named(CustomDataItem)
  BY DEF xmlEntryWith
<1>2. PICK N \in SUBSET Name : cd \in [N -> CustomDataItem]
  BY <1>1 DEF Named
<1>3. \A n \in N : \A t \in cd[n].modified : formatKdbxTime(t) = t
  BY <1>2 DEF WholeSeconds
<1> HIDE DEF cd
<1>4. \A n \in N : {formatKdbxTime(t) : t \in cd[n].modified} = cd[n].modified
  BY <1>3
<1>5. writeCustomData(cd) = [n \in N |-> [text |-> cd[n].text, modified |-> cd[n].modified]]
  BY <1>2, <1>4 DEF writeCustomData
<1>6. \A n \in N : [text |-> cd[n].text, modified |-> cd[n].modified] = cd[n]
  BY <1>2 DEF CustomDataItem
<1> QED
  BY <1>2, <1>5, <1>6 DEF cd

\* The entry e holds what was read of the exported version x, dated m.
HoldsDated(e, x, m) ==
    /\ e.uuid = x.uuid
    /\ e.times = [timesToCanonical(x.times) EXCEPT !.modified = m]
    /\ e.strings = versionToCanonical(x).strings
    /\ e.binaries = versionToCanonical(x).binaries
    /\ e.tags = versionToCanonical(x).tags
    /\ e.icon = versionToCanonical(x).icon
    /\ e.customData = x.customData
    /\ e.previous = versionToCanonical(x).previous
    /\ e.carried = x.carried

\* A version that was exported, and perhaps dated anew, placed and given a history.
LEMMA ExportedVersionReadBack ==
  ASSUME NEW H, NEW x \in xmlEntryWith(H), WholeSeconds(x), NEW m \in Time,
         NEW G, NEW e \in EntryWith(G), HoldsDated(e, x, m)
  PROVE  versionToCanonical(writeVersion(e)) =
           [versionToCanonical(x) EXCEPT !.times.modified = formatKdbxTime(m)]
<1> DEFINE c == versionToCanonical(x)
           kept(b) == [n \in {i \in DOMAIN b : b[i] \notin {Empty, Pooled}} |-> b[n]]
<1>1. c = [v |-> SchemaVersion, uuid |-> x.uuid, times |-> timesToCanonical(x.times),
           strings |-> c.strings, binaries |-> kept(x.binaries), tags |-> x.tags \ {Blank},
           icon |-> x.icon \ {NullUuid}, customData |-> x.customData,
           previous |-> x.previous \ {NullUuid}, carried |-> x.carried, parent |-> Root,
           history |-> <<>>]
  BY DEF versionToCanonical
<1>2. versionToCanonical(writeVersion(e)) =
          [v |-> SchemaVersion, uuid |-> e.uuid,
           times |-> timesToCanonical(writeTimes(e.times)), strings |-> e.strings,
           binaries |-> kept(e.binaries), tags |-> e.tags \ {Blank},
           icon |-> e.icon \ {NullUuid}, customData |-> writeCustomData(e.customData),
           previous |-> e.previous \ {NullUuid}, carried |-> e.carried, parent |-> Root,
           history |-> <<>>]
  BY VersionReadBack
<1>3. timesToCanonical(writeTimes(e.times)) =
        [timesToCanonical(x.times) EXCEPT !.modified = formatKdbxTime(m)]
  <2>1. LET t == timesToCanonical(x.times) IN
        timesToCanonical(writeTimes([t EXCEPT !.modified = m])) =
             [t EXCEPT !.modified = formatKdbxTime(m)]
    BY ExportedTimesReadBack
  <2> QED
    BY <2>1 DEF HoldsDated
<1>4. writeCustomData(e.customData) = x.customData
  BY ExportedCustomData DEF HoldsDated
<1>5. /\ e.uuid = x.uuid /\ e.strings = c.strings /\ e.binaries = c.binaries
      /\ e.tags = c.tags /\ e.icon = c.icon /\ e.customData = x.customData
      /\ e.previous = c.previous /\ e.carried = x.carried
      /\ e.times = [timesToCanonical(x.times) EXCEPT !.modified = m]
  BY DEF HoldsDated
<1>6. /\ c.binaries = kept(x.binaries) /\ c.tags = x.tags \ {Blank}
      /\ c.icon = x.icon \ {NullUuid} /\ c.previous = x.previous \ {NullUuid}
  BY DEF versionToCanonical
<1> HIDE DEF c
<1>7. kept(kept(x.binaries)) = kept(x.binaries)
  <2> DEFINE k == kept(x.binaries)
  <2>1. {i \in DOMAIN k : k[i] \notin {Empty, Pooled}} = DOMAIN k
    OBVIOUS
  <2> QED
    BY <2>1
<1>8. /\ e.tags \ {Blank} = c.tags /\ e.icon \ {NullUuid} = c.icon
      /\ e.previous \ {NullUuid} = c.previous
  BY <1>5, <1>6
<1>9. kept(e.binaries) = c.binaries
  BY <1>5, <1>6, <1>7
<1> HIDE DEF kept
<1>10. versionToCanonical(writeVersion(e)) =
          [v |-> SchemaVersion, uuid |-> x.uuid,
           times |-> [timesToCanonical(x.times) EXCEPT !.modified = formatKdbxTime(m)],
           strings |-> c.strings, binaries |-> c.binaries, tags |-> c.tags,
           icon |-> c.icon, customData |-> x.customData,
           previous |-> c.previous, carried |-> x.carried, parent |-> Root, history |-> <<>>]
  BY <1>2, <1>3, <1>4, <1>8, <1>9, <1>5
<1>11. [c EXCEPT !.times.modified = formatKdbxTime(m)] =
          [v |-> SchemaVersion, uuid |-> x.uuid,
           times |-> [timesToCanonical(x.times) EXCEPT !.modified = formatKdbxTime(m)],
           strings |-> c.strings, binaries |-> c.binaries, tags |-> c.tags,
           icon |-> c.icon, customData |-> x.customData,
           previous |-> c.previous, carried |-> x.carried, parent |-> Root, history |-> <<>>]
  BY <1>1
<1> QED
  BY <1>10, <1>11 DEF c

\* An entry exported in one file, pushed, pulled and read back from another file is
\* the same entry in the same folder, with its history, its attributes' protection and
\* its plug-in data; only its modification time is the server's
\* (encodeFragmentToBlob, decryptToFragmentWithParent).
THEOREM PushedIsPulled ==
  ASSUME NEW key, NEW parent \in Uuid \union {Root}, NEW x \in xmlEntry, Exported(x),
         NEW modAt \in Time
  PROVE  LET blob == encodeFragmentToBlob(key, parent, x)
             got == decryptToFragmentWithParent(key, blob, modAt)
         IN  /\ got.parent = parent
             /\ FromInnerXML(got.fragment) =
                  [FromInnerXML(x) EXCEPT !.times.modified = formatKdbxTime(modAt)]
<1> DEFINE c == versionToCanonical(x)
           h == [i \in DOMAIN x.history |-> versionToCanonical(x.history[i])]
           sent == [toCanonical(x) EXCEPT !.parent = parent, !.v = SchemaVersion]
           e == [sent EXCEPT !.times.modified = modAt]
           rb(z) == versionToCanonical(writeVersion(z))
<1>1. x \in xmlEntryWith(Seq(xmlVersion)) /\ x.history \in Seq(xmlVersion)
  BY DEF xmlEntry, xmlEntryWith
<1>2. /\ WholeSeconds(x) /\ ReadableVersion(x)
      /\ \A i \in DOMAIN x.history :
           /\ x.history[i] \in xmlEntryWith(Seq({Blank}))
           /\ WholeSeconds(x.history[i]) /\ ReadableVersion(x.history[i])
  BY <1>1 DEF Exported, WholeSeconds, xmlVersion
<1>3. Readable(x)
  BY <1>2 DEF Readable
<1>4. c \in Version /\ \A i \in DOMAIN x.history : h[i] \in Version
  BY <1>1, <1>2, ReadVersionTyped
<1>5. h \in Seq(Version)
  <2>1. DOMAIN x.history = 1..Len(x.history) /\ Len(x.history) \in Nat
    BY <1>1
  <2>2. h \in [1..Len(x.history) -> Version]
    BY <1>4, <2>1
  <2> QED
    BY <2>1, <2>2
<1>6. toCanonical(x) = [c EXCEPT !.history = h]
  BY DEF toCanonical
<1>7. c.times \in Times /\ c.times = timesToCanonical(x.times)
  BY <1>4 DEF Version, EntryWith, versionToCanonical
<1> HIDE DEF c, h
<1>8. /\ e \in EntryWith(Seq(Version)) /\ e \in CanonicalEntry
      /\ e.uuid = c.uuid /\ e.times = [c.times EXCEPT !.modified = modAt]
      /\ e.strings = c.strings /\ e.binaries = c.binaries /\ e.tags = c.tags
      /\ e.icon = c.icon /\ e.customData = c.customData /\ e.previous = c.previous
      /\ e.carried = c.carried /\ e.history = h
  <2>1. [c.times EXCEPT !.modified = modAt] \in Times
    BY <1>7 DEF Times
  <2>2. SchemaVersion \in Nat
    BY DEF SchemaVersion
  <2>3. /\ DOMAIN c = {"v", "uuid", "times", "strings", "binaries", "tags", "icon",
                       "customData", "previous", "carried", "parent", "history"}
    BY <1>4 DEF Version, EntryWith
  <2>4. e = [c EXCEPT !.history = h, !.parent = parent, !.v = SchemaVersion,
                      !.times = [c.times EXCEPT !.modified = modAt]]
    BY <1>6, <2>3
  <2>5. /\ e.uuid = c.uuid /\ e.times = [c.times EXCEPT !.modified = modAt]
        /\ e.strings = c.strings /\ e.binaries = c.binaries /\ e.tags = c.tags
        /\ e.icon = c.icon /\ e.customData = c.customData /\ e.previous = c.previous
        /\ e.carried = c.carried /\ e.history = h
    BY <2>3, <2>4
  <2>6. e \in EntryWith(Seq(Version))
    <3> DEFINE E == EntryWith(Seq(Version))
    <3>1. PICK p \in E : p = [c EXCEPT !.history = h]
      BY <1>4, <1>5 DEF Version, EntryWith
    <3>2. PICK q \in E : q = [p EXCEPT !.parent = parent]
      BY <2>1 DEF EntryWith
    <3>3. PICK r \in E : r = [q EXCEPT !.v = SchemaVersion]
      BY <2>2 DEF EntryWith
    <3>4. PICK z \in Times : z = [c.times EXCEPT !.modified = modAt]
      BY <2>1
    <3>5. [r EXCEPT !.times = z] \in E
      BY DEF EntryWith
    <3>6. e = [r EXCEPT !.times = z]
      BY <2>3, <2>4, <3>1, <3>2, <3>3, <3>4
    <3> QED BY <3>5, <3>6
  <2> QED
    BY <2>5, <2>6 DEF CanonicalEntry
<1>9. /\ encodeFragmentToBlob(key, parent, x) =
           [key |-> key, plaintext |-> [format |-> "canonical", body |-> sent]]
  BY <1>3 DEF encodeFragmentToBlob, EncryptBlob, EncodeCanonical, FromInnerXML
<1>10. sent.v = SchemaVersion /\ sent.parent = parent
  <2>1. {"v", "parent"} \subseteq DOMAIN c
    BY <1>4 DEF Version, EntryWith
  <2> QED
    BY <1>6, <2>1
<1> DEFINE got == decryptToFragmentWithParent(key, encodeFragmentToBlob(key, parent, x), modAt)
<1>11. got = [fragment |-> ToInnerXML(e), parent |-> parent]
  <2> DEFINE b == encodeFragmentToBlob(key, parent, x)
  <2>1. b.key = key /\ b.plaintext.format = "canonical" /\ b.plaintext.body = sent
    BY <1>9
  <2> HIDE DEF b, sent
  <2>2. Opens(key, b) /\ Decodable("canonical", b.plaintext)
    BY <1>10, <2>1 DEF Opens, Decodable, SchemaVersion
  <2>3. decryptToFragmentWithParent(key, b, modAt) =
          [fragment |-> ToInnerXML([sent EXCEPT !.times.modified = modAt]), parent |-> parent]
    BY <1>10, <2>1, <2>2 DEF decryptToFragmentWithParent
  <2> QED
    BY <2>3 DEF b
<1> HIDE DEF e, sent, got
<1>12. FromInnerXML(ToInnerXML(e)) =
         [rb(e) EXCEPT !.history = [i \in DOMAIN h |-> rb(h[i])]]
  BY <1>8, EntryReadBack DEF FromInnerXML, ThroughTheFile
<1>13. rb(e) = [c EXCEPT !.times.modified = formatKdbxTime(modAt)]
  <2>1. /\ c.uuid = x.uuid /\ c.customData = x.customData /\ c.carried = x.carried
    BY DEF c, versionToCanonical
  <2>2. HoldsDated(e, x, modAt)
    BY <1>7, <1>8, <2>1 DEF HoldsDated, c
  <2>3. versionToCanonical(writeVersion(e)) =
          [versionToCanonical(x) EXCEPT !.times.modified = formatKdbxTime(modAt)]
    BY <1>1, <1>2, <1>8, <2>2, ExportedVersionReadBack
  <2> QED
    BY <2>3 DEF c
<1>14. \A i \in DOMAIN h : rb(h[i]) = h[i]
  <2> SUFFICES ASSUME NEW i \in DOMAIN h PROVE rb(h[i]) = h[i]
    OBVIOUS
  <2> DEFINE y == x.history[i]
             d == versionToCanonical(y)
  <2>1. /\ i \in DOMAIN x.history /\ h[i] = d
    BY DEF h
  <2>2. y \in xmlEntryWith(Seq({Blank})) /\ WholeSeconds(y) /\ d \in Version
    BY <1>2, <1>4, <2>1
  <2>3. d \in EntryWith({<<>>}) /\ d.times \in Times /\ d.times.modified \in Time
    BY <2>2 DEF Version, EntryWith, Times
  <2>4. /\ d.uuid = y.uuid /\ d.times = timesToCanonical(y.times)
        /\ d.customData = y.customData /\ d.carried = y.carried
    BY DEF versionToCanonical
  <2>5. formatKdbxTime(d.times.modified) = d.times.modified
    <3>1. y.times.modified \in Optional(Time) /\ y.times.modified # {}
      BY <2>2 DEF xmlEntryWith, xmlTimes, WholeSeconds, ReadableVersion, ReadableTimes
    <3>2. PICK t \in Time : y.times.modified = {t}
      BY <3>1 DEF Optional
    <3>3. d.times.modified = t
      BY <2>4, <3>2, TheOfOne DEF timesToCanonical
    <3>4. y.times["modified"] = {t}
      BY <3>2
    <3>5. formatKdbxTime(t) = t
      BY <2>2, <3>4 DEF WholeSeconds
    <3> QED
      BY <3>3, <3>5
  <2> HIDE DEF y
  <2>6. d.times = [timesToCanonical(y.times) EXCEPT !.modified = d.times.modified]
    BY <2>3, <2>4 DEF Times
  <2>7. rb(d) = [d EXCEPT !.times.modified = formatKdbxTime(d.times.modified)]
    <3>1. HoldsDated(d, y, d.times.modified)
      BY <2>4, <2>6 DEF HoldsDated
    <3> QED
      BY <2>2, <2>3, <3>1, ExportedVersionReadBack
  <2>8. [d EXCEPT !.times.modified = d.times.modified] = d
    BY <2>3 DEF EntryWith, Times
  <2> QED
    BY <2>1, <2>5, <2>7, <2>8
<1>15. [i \in DOMAIN h |-> rb(h[i])] = h
  <2>1. h = [i \in DOMAIN h |-> h[i]]
    BY <1>5
  <2> QED
    BY <1>14, <2>1
<1>16. FromInnerXML(x) = [c EXCEPT !.history = h]
  BY <1>3, <1>6 DEF FromInnerXML
<1>17. [[c EXCEPT !.times.modified = formatKdbxTime(modAt)] EXCEPT !.history = h] =
         [[c EXCEPT !.history = h] EXCEPT !.times.modified = formatKdbxTime(modAt)]
  BY <1>4 DEF Version, EntryWith
<1>18. rb(e) = [c EXCEPT !.times.modified = formatKdbxTime(modAt)]
  BY <1>13
<1> HIDE DEF rb
<1>19. got.parent = parent /\ got.fragment = ToInnerXML(e)
  BY <1>11
<1>20. FromInnerXML(got.fragment) =
         [FromInnerXML(x) EXCEPT !.times.modified = formatKdbxTime(modAt)]
  BY <1>12, <1>15, <1>16, <1>17, <1>18, <1>19
<1> QED
  BY <1>19, <1>20 DEF got

\* The phone reads what a desktop client pushed as the entry that client read from its
\* file, in the folder it was pushed with (encodeFragmentToBlob, DecryptEntry).
THEOREM PhoneReadsDesktop ==
  ASSUME NEW key, NEW parent, NEW x \in xmlEntry, Readable(x)
  PROVE  DecryptEntry({key}, encodeFragmentToBlob(key, parent, x)) =
           [FromInnerXML(x) EXCEPT !.parent = parent]
<1> DEFINE e == [FromInnerXML(x) EXCEPT !.parent = parent]
           sent == [e EXCEPT !.v = SchemaVersion]
           b == encodeFragmentToBlob(key, parent, x)
<1>1. b = [key |-> key, plaintext |-> [format |-> "canonical", body |-> sent]]
  BY DEF encodeFragmentToBlob, EncryptBlob, EncodeCanonical
<1>2. FromInnerXML(x) = toCanonical(x)
  BY DEF FromInnerXML
<1>3. toCanonical(x).v = SchemaVersion /\ {"v", "parent"} \subseteq DOMAIN toCanonical(x)
  BY DEF toCanonical, versionToCanonical
<1>4. e.v = SchemaVersion /\ "v" \in DOMAIN e
  BY <1>2, <1>3
<1>5. e = [z \in DOMAIN e |-> e[z]]
  OBVIOUS
<1> HIDE DEF e
<1>6. sent = e /\ sent.v = SchemaVersion
  BY <1>4, <1>5
<1> HIDE DEF sent, b
<1>7. b.key = key /\ b.plaintext.format = "canonical" /\ b.plaintext.body = sent
  BY <1>1
<1>8. Opens(key, b) /\ Decodable("canonical", b.plaintext)
  BY <1>6, <1>7 DEF Opens, Decodable, SchemaVersion
<1>9. The({key}) = key /\ {key} # {}
  BY TheOfOne
<1>10. DecryptEntry({key}, b) = sent
  BY <1>7, <1>8, <1>9 DEF DecryptEntry
<1> QED
  BY <1>6, <1>10 DEF b, e

\* A blob of the old format is read alike by both: the desktop client's fragment, parsed,
\* is the phone's entry with the server's time (the two branches for '<').
THEOREM LegacyIsReadAlike ==
  ASSUME NEW key, NEW x \in xmlEntry, Readable(x), NEW modAt \in Time
  PROVE  LET blob == EncryptBlob(key, [format |-> "legacy", body |-> x])
             got == decryptToFragmentWithParent(key, blob, modAt)
         IN  /\ got.parent = Root
             /\ FromInnerXML(got.fragment) =
                  [DecryptEntry({key}, blob) EXCEPT !.times.modified = formatKdbxTime(modAt)]
<1> DEFINE blob == EncryptBlob(key, [format |-> "legacy", body |-> x])
           got == decryptToFragmentWithParent(key, blob, modAt)
           f == rewriteLastModificationTime(x, modAt)
           m == formatKdbxTime(modAt)
<1>1. blob.key = key /\ blob.plaintext.format = "legacy" /\ blob.plaintext.body = x
  BY DEF EncryptBlob
<1> HIDE DEF blob
<1>2. Opens(key, blob) /\ ~Decodable("canonical", blob.plaintext)
  BY <1>1 DEF Opens, Decodable
<1>3. got = [fragment |-> f, parent |-> Root]
  BY <1>1, <1>2 DEF decryptToFragmentWithParent
<1>4. DecryptEntry({key}, blob) = FromInnerXML(x)
  <2>1. The({key}) = key /\ {key} # {}
    BY TheOfOne
  <2> QED
    BY <1>1, <1>2, <2>1 DEF DecryptEntry
<1>5. x.times \in xmlTimes /\ ReadableTimes(x.times) /\ ReadableVersion(x)
  BY DEF xmlEntry, xmlEntryWith, Readable, ReadableVersion
<1>6. f = [x EXCEPT !.times = [x.times EXCEPT !.modified = {m}]]
  BY DEF rewriteLastModificationTime
<1>7. /\ f.garbled = x.garbled /\ f.uuid = x.uuid /\ f.strings = x.strings
      /\ f.binaries = x.binaries /\ f.tags = x.tags /\ f.icon = x.icon
      /\ f.customData = x.customData /\ f.previous = x.previous /\ f.carried = x.carried
      /\ f.history = x.history /\ f.times = [x.times EXCEPT !.modified = {m}]
  BY <1>6 DEF xmlEntry, xmlEntryWith
<1> HIDE DEF f, m, got
<1>8. /\ f.times.created = x.times.created /\ f.times.accessed = x.times.accessed
      /\ f.times.moved = x.times.moved /\ f.times.expiry = x.times.expiry
      /\ f.times.expires = x.times.expires /\ f.times.modified = {m}
  BY <1>5, <1>7 DEF xmlTimes
<1>9. Readable(f)
  BY <1>5, <1>7, <1>8 DEF Readable, ReadableVersion, ReadableTimes
<1>10. timesToCanonical(f.times) = [timesToCanonical(x.times) EXCEPT !.modified = m]
  <2>1. The({m}) = m
    BY TheOfOne
  <2> QED
    BY <1>8, <2>1 DEF timesToCanonical
<1>11. versionToCanonical(f) = [versionToCanonical(x) EXCEPT !.times.modified = m]
  <2> DEFINE ss == [n \in DOMAIN x.strings |->
                      [text |-> x.strings[n].text, protected |-> x.strings[n].mark # "none"]]
             bs == [n \in {i \in DOMAIN x.binaries : x.binaries[i] \notin {Empty, Pooled}} |->
                      x.binaries[n]]
             tg == x.tags \ {Blank}
             ic == x.icon \ {NullUuid}
             pr == x.previous \ {NullUuid}
             rest(t) == [v |-> SchemaVersion, uuid |-> x.uuid, times |-> t, strings |-> ss,
                         binaries |-> bs, tags |-> tg, icon |-> ic,
                         customData |-> x.customData, previous |-> pr,
                         carried |-> x.carried, parent |-> Root, history |-> <<>>]
  <2>1. versionToCanonical(x) = rest(timesToCanonical(x.times))
    BY DEF versionToCanonical
  <2>2. versionToCanonical(f) = rest(timesToCanonical(f.times))
    BY <1>7 DEF versionToCanonical
  <2> HIDE DEF ss, bs, tg, ic, pr
  <2>3. \A t : rest([t EXCEPT !.modified = m]) = [rest(t) EXCEPT !.times.modified = m]
    OBVIOUS
  <2> HIDE DEF rest
  <2> QED
    BY <1>10, <2>1, <2>2, <2>3
<1>12. "times" \in DOMAIN versionToCanonical(x) /\ "history" \in DOMAIN versionToCanonical(x)
  BY DEF versionToCanonical
<1>13. toCanonical(f) = [toCanonical(x) EXCEPT !.times.modified = m]
  <2> DEFINE h == [i \in DOMAIN x.history |-> versionToCanonical(x.history[i])]
  <2>1. toCanonical(x) = [versionToCanonical(x) EXCEPT !.history = h]
    BY DEF toCanonical
  <2>2. toCanonical(f) = [versionToCanonical(f) EXCEPT !.history = h]
    BY <1>7 DEF toCanonical
  <2> HIDE DEF h
  <2> QED
    BY <1>11, <1>12, <2>1, <2>2
<1>14. FromInnerXML(f) = toCanonical(f) /\ FromInnerXML(x) = toCanonical(x)
  BY <1>9 DEF FromInnerXML
<1>15. got.parent = Root /\ got.fragment = f
  BY <1>3
<1>16. FromInnerXML(got.fragment) = [DecryptEntry({key}, blob) EXCEPT !.times.modified = m]
  BY <1>4, <1>13, <1>14, <1>15
<1> QED
  BY <1>15, <1>16 DEF got, blob, m

\* Entries and groups never pass for each other: on either client the blob of one is
\* an error where the other is expected (the envelope's first byte).
THEOREM KindsAreNotMixed ==
  ASSUME NEW key, NEW e \in CanonicalEntry, NEW g \in CanonicalGroup, NEW modAt \in Time
  PROVE  LET entry == EncryptBlob(key, EncodeCanonical(e))
             group == EncryptBlob(key, EncodeGroup(g))
         IN  /\ decryptToGroup(key, entry) = Error
             /\ DecryptGroup({key}, entry) = Error
             /\ decryptToFragmentWithParent(key, group, modAt) = Error
             /\ DecryptEntry({key}, group) = Error
<1> DEFINE entry == EncryptBlob(key, EncodeCanonical(e))
           group == EncryptBlob(key, EncodeGroup(g))
<1>1. entry.plaintext.format = "canonical" /\ group.plaintext.format = "group"
  BY DEF EncryptBlob, EncodeCanonical, EncodeGroup
<1> HIDE DEF entry, group
<1>2. ~Decodable("group", entry.plaintext) /\ ~Decodable("canonical", group.plaintext)
  BY <1>1 DEF Decodable
<1>3. decryptToGroup(key, entry) = Error /\ DecryptGroup({key}, entry) = Error
  BY <1>2 DEF decryptToGroup, DecryptGroup
<1>4. /\ decryptToFragmentWithParent(key, group, modAt) = Error
      /\ DecryptEntry({key}, group) = Error
  BY <1>1, <1>2 DEF decryptToFragmentWithParent, DecryptEntry
<1> QED
  BY <1>3, <1>4 DEF entry, group

\* A group with times of whole seconds that is pushed, pulled, written for the merge and
\* read back is the same group; whether it is searched is the receiving file's own
\* (encodeGroupToBlob, decryptToGroup, mergeGroupTree, writeGroupHeader, buildGroup).
THEOREM GroupSurvives ==
  ASSUME NEW key, NEW g \in FileGroup, NEW local \in FileGroup, NEW now \in Time,
         \A t \in {g.created, g.modified, g.moved} : t # ZeroTime /\ formatKdbxTime(t) = t
  PROVE  LET pulled == decryptToGroup(key, encodeGroupToBlob(key, g))
         IN  buildGroup(writeGroupHeader(withLocalSearch(pulled, local), now)) =
               [g EXCEPT !.search = local.search]
<1> DEFINE pulled == decryptToGroup(key, encodeGroupToBlob(key, g))
           staged == withLocalSearch(pulled, local)
           x == writeGroupHeader(staged, now)
           body == [v |-> SchemaVersion, uuid |-> g.uuid, name |-> g.name, notes |-> g.notes,
                    parent |-> g.parent, icon |-> g.icon, customIcon |-> {},
                    created |-> g.created, modified |-> g.modified, moved |-> g.moved]
<1>1. encodeGroupToBlob(key, g) =
        [key |-> key, plaintext |-> [format |-> "group", body |-> body]]
  BY DEF encodeGroupToBlob, EncryptBlob, EncodeGroup
<1>2. pulled = [uuid |-> g.uuid, parent |-> g.parent, name |-> g.name, notes |-> g.notes,
                icon |-> g.icon, created |-> g.created, modified |-> g.modified,
                moved |-> g.moved, search |-> {}]
  <2> DEFINE b == encodeGroupToBlob(key, g)
  <2>1. b.key = key /\ b.plaintext.format = "group" /\ b.plaintext.body = body
    BY <1>1
  <2> HIDE DEF b
  <2>2. Opens(key, b) /\ Decodable("group", b.plaintext)
    BY <2>1 DEF Opens, Decodable, SchemaVersion
  <2>3. decryptToGroup(key, b) =
          [uuid |-> g.uuid, parent |-> g.parent, name |-> g.name, notes |-> g.notes,
           icon |-> g.icon, created |-> g.created, modified |-> g.modified,
           moved |-> g.moved, search |-> {}]
    BY <2>1, <2>2 DEF decryptToGroup
  <2> QED
    BY <2>3 DEF b
<1> HIDE DEF pulled, body
<1>3. staged = [uuid |-> g.uuid, parent |-> g.parent, name |-> g.name, notes |-> g.notes,
                icon |-> g.icon, created |-> g.created, modified |-> g.modified,
                moved |-> g.moved, search |-> local.search]
  BY <1>2 DEF withLocalSearch
<1> HIDE DEF staged
<1>4. /\ isoOrNow(staged.created, now) = {g.created}
      /\ isoOrNow(staged.modified, now) = {g.modified}
      /\ isoOrNow(staged.moved, now) = {g.moved}
  BY <1>3 DEF isoOrNow
<1>5. x = [uuid |-> g.uuid, parent |-> g.parent, name |-> g.name, notes |-> g.notes,
           icon |-> g.icon, created |-> {g.created}, modified |-> {g.modified},
           moved |-> {g.moved}, search |-> local.search]
  BY <1>3, <1>4 DEF writeGroupHeader
<1> HIDE DEF x
<1>6. /\ parseKdbxTimeOrZero(x.created) = g.created
      /\ parseKdbxTimeOrZero(x.modified) = g.modified
      /\ parseKdbxTimeOrZero(x.moved) = g.moved
  <2>1. /\ The({g.created}) = g.created /\ The({g.modified}) = g.modified
        /\ The({g.moved}) = g.moved
    BY TheOfOne
  <2> QED
    BY <1>5, <2>1 DEF parseKdbxTimeOrZero
<1>7. buildGroup(x) =
        [uuid |-> g.uuid, parent |-> g.parent, name |-> g.name, notes |-> g.notes,
         icon |-> g.icon, created |-> g.created, modified |-> g.modified,
         moved |-> g.moved, search |-> local.search]
  BY <1>5, <1>6 DEF buildGroup
<1>8. [g EXCEPT !.search = local.search] =
        [uuid |-> g.uuid, parent |-> g.parent, name |-> g.name, notes |-> g.notes,
         icon |-> g.icon, created |-> g.created, modified |-> g.modified,
         moved |-> g.moved, search |-> local.search]
  BY DEF FileGroup
<1> QED
  BY <1>7, <1>8 DEF x, staged, pulled

-----------------------------------------------------------------------------
(* Daemon *)

USE DEF Busy

\* syncMu is held by exactly the runLoop that is between its lock and its unlock.
MutexInv == \A w \in Db : syncMu = w <=> runner[w] \in {"check"} \cup Busy

\* A loop that has ended leaves no sync that could still use the keys: either
\* it stopped after the signal, and what a late callback starts turns back at
\* its first look at the context, or it never started, and has no callbacks.
EndedInv ==
  \A w \in Db :
    /\ loop[w] = "start" => runner[w] = "none" /\ ~timer[w] /\ callbacks[w] = 0
    /\ loop[w] = "wait" => cancelled
    /\ loop[w] = "done" =>
         \/ cancelled /\ runner[w] \in {"none", "work", "after"}
         \/ runner[w] = "none" /\ ~timer[w] /\ callbacks[w] = 0

\* The keys are overwritten when all loops have ended.
ZeroedInv == zeroed => \A w \in Db : loop[w] = "done"

IInv == TypeOK /\ MutexInv /\ EndedInv /\ ZeroedInv

-----------------------------------------------------------------------------

\* A request only touches the coalescer of its database, and leaves a round to
\* come there.
LEMMA RequestEffect ==
  ASSUME TypeOK, NEW w \in Db, request(w)
  PROVE  /\ running' \in [Db -> BOOLEAN]
         /\ pending' \in [Db -> BOOLEAN]
         /\ runner' \in [Db -> {"none", "work", "lock", "check", "after"} \cup Busy]
         /\ \A v \in Db : running'[v] <=> runner'[v] # "none"
         /\ \A v \in Db : pending'[v] => running'[v]
         /\ \A v \in Db \ {w} : runner'[v] = runner[v] /\ pending'[v] = pending[v]
         /\ runner'[w] = IF runner[w] = "none" THEN "work" ELSE runner[w]
         /\ pending'[w] \/ runner'[w] = "work"
         /\ pending[w] => pending'[w]
         /\ runner[w] = "none" => ~pending'[w]
  <1>1. CASE running[w]
    <2>1. pending' = [pending EXCEPT ![w] = TRUE] /\ running' = running /\ runner' = runner
      BY <1>1 DEF request
    <2>2. runner[w] # "none"
      BY <1>1 DEF TypeOK
    <2>3. pending' \in [Db -> BOOLEAN] /\ pending'[w]
      BY <2>1 DEF TypeOK
    <2>4. \A v \in Db \ {w} : pending'[v] = pending[v]
      BY <2>1 DEF TypeOK
    <2>5. \A v \in Db : pending'[v] => running'[v]
      BY <1>1, <2>1, <2>4 DEF TypeOK
    <2>6. QED
      BY <2>1, <2>2, <2>3, <2>4, <2>5 DEF TypeOK
  <1>2. CASE ~running[w]
    <2>1. /\ running' = [running EXCEPT ![w] = TRUE]
          /\ runner' = [runner EXCEPT ![w] = "work"]
          /\ pending' = pending
      BY <1>2 DEF request
    <2>2. runner[w] = "none" /\ ~pending[w]
      BY <1>2 DEF TypeOK
    <2>3. running' \in [Db -> BOOLEAN] /\ running'[w]
      BY <2>1 DEF TypeOK
    <2>4. \A v \in Db \ {w} : running'[v] = running[v]
      BY <2>1 DEF TypeOK
    <2>5. /\ runner' \in [Db -> {"none", "work", "lock", "check", "after"} \cup Busy]
          /\ runner'[w] = "work"
          /\ \A v \in Db \ {w} : runner'[v] = runner[v]
      BY <2>1 DEF TypeOK
    <2>6. \A v \in Db : /\ running'[v] <=> runner'[v] # "none"
                       /\ pending'[v] => running'[v]
      BY <2>1, <2>2, <2>3, <2>4, <2>5 DEF TypeOK
    <2>7. QED
      BY <2>1, <2>2, <2>3, <2>5, <2>6 DEF TypeOK
  <1>3. QED
    BY <1>1, <1>2

\* The daemon starts in the invariant.
LEMMA InitIInv == Init => IInv
  <1> SUFFICES ASSUME Init PROVE IInv
    OBVIOUS
  <1>1. callbacks \in [Db -> 0 .. MaxCallbacks]
    BY CallbackAssumption DEF Init
  <1>2. TypeOK
    BY <1>1 DEF Init, TypeOK
  <1>3. MutexInv /\ EndedInv /\ ZeroedInv
    BY NoDbAssumption DEF Init, MutexInv, EndedInv, ZeroedInv
  <1>4. QED
    BY <1>2, <1>3 DEF IInv

\* Every step keeps the variables typed and the coalescer consistent.
LEMMA StepType == TypeOK /\ [Next]_vars => TypeOK'
  <1> SUFFICES ASSUME TypeOK, [Next]_vars PROVE TypeOK'
    OBVIOUS
  <1> USE DEF TypeOK, triggers, coalescer, history
  <1>1. ASSUME NEW w \in Db, LoopStep(w) PROVE TypeOK'
    <2>1. CASE NoWatcher(w)
      BY <2>1 DEF NoWatcher
    <2>2. CASE InitialSync(w)
      BY <2>2, RequestEffect DEF InitialSync
    <2>3. CASE Poll(w)
      BY <2>3, RequestEffect DEF Poll
    <2>4. CASE startDebounce(w)
      BY <2>4 DEF startDebounce
    <2>5. CASE Stop(w)
      BY <2>5 DEF Stop
    <2>6. CASE wait(w)
      BY <2>6 DEF wait
    <2>7. QED
      BY <1>1, <2>1, <2>2, <2>3, <2>4, <2>5, <2>6 DEF LoopStep
  <1>2. ASSUME NEW w \in Db, TimerStep(w) PROVE TypeOK'
    <2>1. CASE Fire(w)
      BY <2>1, CallbackAssumption DEF Fire
    <2>2. CASE requestSync(w)
      <3>1. callbacks' \in [Db -> 0 .. MaxCallbacks]
        BY <2>2, CallbackAssumption DEF requestSync
      <3>2. QED
        BY <2>2, <3>1, RequestEffect DEF requestSync
    <2>3. QED
      BY <1>2, <2>1, <2>2 DEF TimerStep
  <1>3. ASSUME NEW w \in Db, RunnerStep(w) PROVE TypeOK'
    <2>1. CASE Enter(w)
      BY <2>1 DEF Enter, Goto
    <2>2. CASE Lock(w)
      BY <2>2 DEF Lock, Goto
    <2>3. CASE Check(w)
      BY <2>3 DEF Check, Goto
    <2>4. CASE Pull(w)
      <3>1. event' \in [Db -> BOOLEAN]
        <4> DEFINE b == w \in Watched
        <4>1. b \in BOOLEAN
          OBVIOUS
        <4>2. event' = event \/ event' = [event EXCEPT ![w] = b]
          BY <2>4 DEF Pull
        <4> HIDE DEF b
        <4>3. QED
          BY <4>1, <4>2
      <3>2. QED
        BY <2>4, <3>1 DEF Pull, Goto
    <2>5. CASE Export(w)
      BY <2>5 DEF Export, Goto
    <2>6. CASE Return(w)
      BY <2>6 DEF Return, Goto
    <2>7. CASE runLoop(w)
      BY <2>7 DEF runLoop
    <2>8. QED
      BY <1>3, <2>1, <2>2, <2>3, <2>4, <2>5, <2>6, <2>7 DEF RunnerStep
  <1>4. ASSUME NEW w \in Db, Save(w) PROVE TypeOK'
    BY <1>4 DEF Save
  <1>5. CASE Signal
    BY <1>5 DEF Signal
  <1>6. CASE zeroKeys
    BY <1>6 DEF zeroKeys
  <1>7. CASE UNCHANGED vars
    BY <1>7 DEF vars
  <1>8. QED
    BY <1>1, <1>2, <1>3, <1>4, <1>5, <1>6, <1>7 DEF Next

\* Every step keeps syncMu with the runLoop that is inside it.
LEMMA StepMutex == TypeOK /\ MutexInv /\ [Next]_vars => MutexInv'
  <1> SUFFICES ASSUME TypeOK, MutexInv, [Next]_vars PROVE MutexInv'
    OBVIOUS
  <1> USE DEF TypeOK, MutexInv
  <1>1. ASSUME NEW w \in Db, request(w), UNCHANGED syncMu PROVE MutexInv'
    BY <1>1, RequestEffect
  <1>2. ASSUME NEW w \in Db, LoopStep(w) PROVE MutexInv'
    BY <1>1, <1>2 DEF LoopStep, NoWatcher, InitialSync, Poll, startDebounce, Stop,
                      wait, coalescer
  <1>3. ASSUME NEW w \in Db, TimerStep(w) PROVE MutexInv'
    BY <1>1, <1>3 DEF TimerStep, Fire, requestSync, coalescer
  <1>4. ASSUME NEW w \in Db, RunnerStep(w) PROVE MutexInv'
    <2>1. CASE Enter(w)
      BY <2>1 DEF Enter, Goto
    <2>2. CASE Lock(w)
      BY <2>2, NoDbAssumption DEF Lock, Goto
    <2>3. CASE Check(w)
      BY <2>3, NoDbAssumption DEF Check, Goto
    <2>4. CASE Pull(w)
      BY <2>4 DEF Pull, Goto
    <2>5. CASE Export(w)
      BY <2>5 DEF Export, Goto
    <2>6. CASE Return(w)
      BY <2>6, NoDbAssumption DEF Return, Goto
    <2>7. CASE runLoop(w)
      BY <2>7 DEF runLoop
    <2>8. QED
      BY <1>4, <2>1, <2>2, <2>3, <2>4, <2>5, <2>6, <2>7 DEF RunnerStep
  <1>5. ASSUME NEW w \in Db, Save(w) PROVE MutexInv'
    BY <1>5 DEF Save, coalescer
  <1>6. CASE Signal \/ zeroKeys \/ UNCHANGED vars
    BY <1>6 DEF Signal, zeroKeys, vars, coalescer
  <1>7. QED
    BY <1>2, <1>3, <1>4, <1>5, <1>6 DEF Next

\* Every step leaves a loop that has ended without a sync that uses keys.
LEMMA StepEnded == TypeOK /\ EndedInv /\ [Next]_vars => EndedInv'
  <1> SUFFICES ASSUME TypeOK, EndedInv, [Next]_vars PROVE EndedInv'
    OBVIOUS
  <1> USE DEF TypeOK, EndedInv, triggers, coalescer
  <1>1. ASSUME NEW w \in Db, LoopStep(w) PROVE EndedInv'
    <2>1. CASE NoWatcher(w)
      BY <2>1 DEF NoWatcher
    <2>2. CASE InitialSync(w)
      BY <2>2, RequestEffect DEF InitialSync
    <2>3. CASE Poll(w)
      BY <2>3, RequestEffect DEF Poll
    <2>4. CASE startDebounce(w)
      BY <2>4 DEF startDebounce
    <2>5. CASE Stop(w)
      BY <2>5 DEF Stop
    <2>6. CASE wait(w)
      BY <2>6 DEF wait
    <2>7. QED
      BY <1>1, <2>1, <2>2, <2>3, <2>4, <2>5, <2>6 DEF LoopStep
  <1>2. ASSUME NEW w \in Db, TimerStep(w) PROVE EndedInv'
    <2>1. CASE Fire(w)
      BY <2>1 DEF Fire
    <2>2. CASE requestSync(w)
      BY <2>2, RequestEffect DEF requestSync
    <2>3. QED
      BY <1>2, <2>1, <2>2 DEF TimerStep
  <1>3. ASSUME NEW w \in Db, RunnerStep(w) PROVE EndedInv'
    BY <1>3 DEF RunnerStep, Enter, Lock, Check, Pull, Export, Return, runLoop, Goto
  <1>4. ASSUME NEW w \in Db, Save(w) PROVE EndedInv'
    BY <1>4 DEF Save
  <1>5. CASE Signal \/ zeroKeys \/ UNCHANGED vars
    BY <1>5 DEF Signal, zeroKeys, vars
  <1>6. QED
    BY <1>1, <1>2, <1>3, <1>4, <1>5 DEF Next

\* No loop starts again once all have ended.
LEMMA StepZeroed == TypeOK /\ ZeroedInv /\ [Next]_vars => ZeroedInv'
  <1> SUFFICES ASSUME TypeOK, ZeroedInv, [Next]_vars PROVE ZeroedInv'
    OBVIOUS
  <1>1. CASE zeroKeys
    BY <1>1 DEF zeroKeys, ZeroedInv
  <1>2. \/ zeroKeys
        \/ /\ UNCHANGED zeroed
           /\ \A w \in Db : loop[w] = "done" => loop'[w] = "done"
    BY DEF TypeOK, Next, LoopStep, TimerStep, RunnerStep, NoWatcher, InitialSync, Poll,
           startDebounce, Stop, wait, Fire, requestSync, Enter, Lock, Check, Pull, Export,
           Return, runLoop, Save, Signal, vars
  <1>3. QED
    BY <1>1, <1>2 DEF ZeroedInv

\* The four parts together are inductive.
LEMMA StepIInv == IInv /\ [Next]_vars => IInv'
  BY StepType, StepMutex, StepEnded, StepZeroed DEF IInv

\* What the mutex, the coalescers and the shutdown keep true in every reachable
\* state (daemon.go:120-124, 184-206, 400-404, 470-480).
THEOREM Invariance == Spec => []IInv
  BY InitIInv, StepIInv, PTL DEF Spec

\* Every reachable state of the daemon is well typed: in particular a second
\* runLoop is never started for a database (daemon.go:184-195).
THEOREM TypeCorrect == Spec => []TypeOK
  <1>1. IInv => TypeOK
    BY DEF IInv
  <1>2. QED
    BY <1>1, Invariance, PTL

\* The keys are overwritten only when no sync runs and none can start.
THEOREM KeysSafe == Spec => []KeysOutliveSyncs
  <1>1. IInv => KeysOutliveSyncs
    BY DEF IInv, EndedInv, ZeroedInv, KeysOutliveSyncs
  <1>2. QED
    BY <1>1, Invariance, PTL

-----------------------------------------------------------------------------
(* No change is lost *)

\* Every step leaves an unread change with something that will read it.
LEMMA StepComing == IInv /\ ChangesAreComing /\ [Next]_vars => ChangesAreComing'
  <1> SUFFICES ASSUME IInv, ChangesAreComing, [Next]_vars PROVE ChangesAreComing'
    OBVIOUS
  <1> USE WatchedAssumption
      DEF IInv, TypeOK, ChangesAreComing, Coming, triggers, coalescer, history
  <1>1. ASSUME NEW w \in Db, LoopStep(w) PROVE ChangesAreComing'
    <2>1. CASE NoWatcher(w)
      BY <2>1 DEF NoWatcher
    <2>2. CASE InitialSync(w)
      BY <2>2, RequestEffect DEF InitialSync
    <2>3. CASE Poll(w)
      BY <2>3, RequestEffect DEF Poll
    <2>4. CASE startDebounce(w)
      BY <2>4 DEF startDebounce
    <2>5. CASE Stop(w)
      BY <2>5 DEF Stop
    <2>6. CASE wait(w)
      BY <2>6 DEF wait
    <2>7. QED
      BY <1>1, <2>1, <2>2, <2>3, <2>4, <2>5, <2>6 DEF LoopStep
  <1>2. ASSUME NEW w \in Db, TimerStep(w) PROVE ChangesAreComing'
    <2>1. CASE Fire(w)
      BY <2>1 DEF Fire
    <2>2. CASE requestSync(w)
      BY <2>2, RequestEffect DEF requestSync
    <2>3. QED
      BY <1>2, <2>1, <2>2 DEF TimerStep
  <1>3. ASSUME NEW w \in Db, RunnerStep(w) PROVE ChangesAreComing'
    <2>1. CASE Enter(w)
      BY <2>1 DEF Enter, Goto
    <2>2. CASE Lock(w)
      BY <2>2 DEF Lock, Goto
    <2>3. CASE Check(w)
      BY <2>3 DEF Check, Goto
    <2>4. CASE Pull(w)
      BY <2>4 DEF Pull, Goto
    <2>5. CASE Export(w)
      BY <2>5 DEF Export, Goto
    <2>6. CASE Return(w)
      BY <2>6 DEF Return, Goto
    <2>7. CASE runLoop(w)
      BY <2>7 DEF runLoop
    <2>8. QED
      BY <1>3, <2>1, <2>2, <2>3, <2>4, <2>5, <2>6, <2>7 DEF RunnerStep
  <1>4. ASSUME NEW w \in Db, Save(w) PROVE ChangesAreComing'
    BY <1>4 DEF Save
  <1>5. CASE Signal \/ zeroKeys \/ UNCHANGED vars
    BY <1>5 DEF Signal, zeroKeys, vars
  <1>6. QED
    BY <1>1, <1>2, <1>3, <1>4, <1>5 DEF Next

\* A change that no export has read is on its way to one, whatever requests,
\* timers and runs of this and of other databases do in between.
THEOREM NoChangeLost == Spec => []ChangesAreComing
  <1>1. Init => ChangesAreComing
    BY WatchedAssumption DEF Init, ChangesAreComing
  <1>2. QED
    BY <1>1, StepComing, Invariance, PTL DEF Spec

-----------------------------------------------------------------------------
(* The goroutines implement the queue *)

\* The two values of SyncQueue that are not variables of Daemon.
Wanted == {w \in Db : pending[w] \/ runner[w] \in {"work", "lock", "check"}}

Active == IF syncMu # NoDb /\ runner[syncMu] \in Busy THEN syncMu ELSE NoDb

USE DEF Queue!vars, Queue!Next

\* A request is an Ask of the queue.
LEMMA RequestAsks ==
  ASSUME IInv, NEW w \in Db, request(w), UNCHANGED <<syncMu, cancelled>>
  PROVE  Queue!Ask(w)
  <1> USE DEF IInv, TypeOK
  <1>1. Wanted' = Wanted \cup {w}
    BY RequestEffect DEF Wanted
  <1>2. Active' = Active
    BY RequestEffect DEF Active
  <1>3. QED
    BY <1>1, <1>2 DEF Queue!Ask, Wanted, Active

\* A step that changes neither the coalescer, nor the mutex, nor the context
\* is none for the queue.
LEMMA OtherStep ==
  ASSUME UNCHANGED <<coalescer, syncMu, cancelled>>
  PROVE  UNCHANGED Queue!vars
  BY DEF coalescer

\* Each step of a runLoop is a step of the queue, or none.
LEMMA RunnerStepQueue ==
  ASSUME IInv, NEW w \in Db, RunnerStep(w)
  PROVE  [Queue!Next]_Queue!vars
  <1> USE NoDbAssumption DEF IInv, TypeOK, MutexInv, Goto
  <1>1. ASSUME Wanted' = Wanted, Active' = Active, UNCHANGED cancelled
        PROVE  UNCHANGED Queue!vars
    BY <1>1 DEF Wanted, Active
  <1>2. ASSUME Wanted' = Wanted \ {w}, Active' = Active, cancelled, UNCHANGED cancelled
        PROVE  Queue!Drop(w)
    BY <1>2 DEF Wanted, Active, Queue!Drop
  <1>3. CASE Enter(w)
    <2>1. Active' = Active
      BY <1>3 DEF Enter, Active
    <2>2. CASE cancelled /\ ~pending[w]
      <3>1. Wanted' = Wanted \ {w}
        BY <1>3, <2>2 DEF Enter, Wanted
      <3>2. QED
        BY <1>2, <1>3, <2>1, <2>2, <3>1 DEF Enter
    <2>3. CASE ~cancelled \/ pending[w]
      <3>1. Wanted' = Wanted
        BY <1>3, <2>3 DEF Enter, Wanted
      <3>2. QED
        BY <1>1, <1>3, <2>1, <3>1 DEF Enter
    <2>4. QED
      BY <2>2, <2>3
  <1>4. CASE Lock(w)
    <2>1. Wanted' = Wanted
      BY <1>4 DEF Lock, Wanted
    <2>2. Active' = Active
      BY <1>4 DEF Lock, Active
    <2>3. QED
      BY <1>1, <1>4, <2>1, <2>2 DEF Lock
  <1>5. CASE Check(w)
    <2>1. syncMu = w /\ Active = NoDb
      BY <1>5 DEF Check, Active
    <2>2. CASE ~cancelled
      <3>1. Active' = w
        BY <1>5, <2>1, <2>2 DEF Check, Active
      <3>2. w \in Wanted /\ Wanted' \in {Wanted, Wanted \ {w}}
        <4>1. CASE pending[w]
          BY <1>5, <2>2, <4>1 DEF Check, Wanted
        <4>2. CASE ~pending[w]
          <5>1. Wanted' = Wanted \ {w}
            BY <1>5, <2>2, <4>2 DEF Check, Wanted
          <5>2. QED
            BY <1>5, <5>1 DEF Check, Wanted
        <4>3. QED
          BY <4>1, <4>2
      <3>3. Queue!Take(w)
        BY <1>5, <2>1, <2>2, <3>1, <3>2 DEF Check, Queue!Take, Wanted, Active
      <3>4. QED
        BY <3>3
    <2>3. CASE cancelled
      <3>1. Active' = Active
        BY <1>5, <2>1, <2>3 DEF Check, Active
      <3>2. CASE pending[w]
        <4>1. Wanted' = Wanted
          BY <1>5, <2>3, <3>2 DEF Check, Wanted
        <4>2. QED
          BY <1>1, <1>5, <3>1, <4>1 DEF Check
      <3>3. CASE ~pending[w]
        <4>1. Wanted' = Wanted \ {w}
          BY <1>5, <2>3, <3>3 DEF Check, Wanted
        <4>2. QED
          BY <1>2, <1>5, <2>3, <3>1, <4>1 DEF Check
      <3>4. QED
        BY <3>2, <3>3
    <2>4. QED
      BY <2>2, <2>3
  <1>6. CASE Pull(w) \/ Export(w)
    <2>1. Wanted' = Wanted
      BY <1>6 DEF Pull, Export, Wanted
    <2>2. Active' = Active
      BY <1>6 DEF Pull, Export, Active
    <2>3. QED
      BY <1>1, <1>6, <2>1, <2>2 DEF Pull, Export
  <1>7. CASE Return(w)
    <2>1. Wanted' = Wanted
      BY <1>7 DEF Return, Wanted
    <2>2. Active = w /\ Active' = NoDb
      BY <1>7 DEF Return, Active
    <2>3. Queue!Finish
      BY <1>7, <2>1, <2>2 DEF Return, Queue!Finish, Wanted, Active
    <2>4. QED
      BY <2>3
  <1>8. CASE runLoop(w)
    <2>1. Wanted' = Wanted
      BY <1>8 DEF runLoop, Wanted
    <2>2. Active' = Active
      BY <1>8 DEF runLoop, Active
    <2>3. QED
      BY <1>1, <1>8, <2>1, <2>2 DEF runLoop
  <1>9. QED
    BY <1>3, <1>4, <1>5, <1>6, <1>7, <1>8 DEF RunnerStep

\* The goroutines, timers and locks implement the queue: syncs exclude each
\* other, none starts after the signal, and a request is dropped only then.
THEOREM DaemonImplementsQueue == Spec => ImplementsQueue
  <1>1. Init => Queue!Init
    BY DEF Init, Queue!Init
  <1>2. IInv /\ [Next]_vars => [Queue!Next]_Queue!vars
    <2> SUFFICES ASSUME IInv, [Next]_vars PROVE [Queue!Next]_Queue!vars
      OBVIOUS
    <2>1. ASSUME NEW w \in Db, LoopStep(w) PROVE [Queue!Next]_Queue!vars
      <3>1. CASE InitialSync(w) \/ Poll(w)
        BY <3>1, RequestAsks DEF InitialSync, Poll
      <3>2. CASE NoWatcher(w) \/ startDebounce(w) \/ Stop(w) \/ wait(w)
        BY <3>2, OtherStep DEF NoWatcher, startDebounce, Stop, wait
      <3>3. QED
        BY <2>1, <3>1, <3>2 DEF LoopStep
    <2>2. ASSUME NEW w \in Db, TimerStep(w) PROVE [Queue!Next]_Queue!vars
      BY <2>2, RequestAsks, OtherStep DEF TimerStep, Fire, requestSync
    <2>3. ASSUME NEW w \in Db, Save(w) PROVE [Queue!Next]_Queue!vars
      BY <2>3, OtherStep DEF Save
    <2>4. CASE Signal
      BY <2>4 DEF Signal, Queue!Close, coalescer
    <2>5. CASE zeroKeys \/ UNCHANGED vars
      BY <2>5, OtherStep DEF zeroKeys, vars, coalescer
    <2>6. QED
      BY <2>1, <2>2, <2>3, <2>4, <2>5, RunnerStepQueue DEF Next
  <1>3. QED
    BY <1>1, <1>2, Invariance, PTL DEF Spec, ImplementsQueue, Queue!Spec

=============================================================================
