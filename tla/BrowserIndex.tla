---------------------------- MODULE BrowserIndex ----------------------------
(***************************************************************************)
(* What the browser extension is told of a database: which entries are in  *)
(* the index, with which addresses and under which path, and how the index *)
(* is cut into pages of a bounded size (browser_index.go).                 *)
(*                                                                         *)
(* A group table maps each group but the root to its parent and its search *)
(* flag, {} where it inherits.  An address is the kind of its text and     *)
(* where it leads; of the fields only the addresses and their marks are    *)
(* kept.                                                                   *)
(***************************************************************************)
EXTENDS Integers, Sequences, FiniteSetsExt

\* The empty reference.  No table holds it.
Root == "root"

\* So far the parents are followed, in case they form a ring.
maxGroupDepth == 64

Refs(tbl, group) == DOMAIN tbl \union {tbl[g].parent : g \in DOMAIN tbl} \union {group}

\* The nearest explicit flag decides; the root and a group that is unknown are searched.
groupSearchable(tbl, group) ==
    LET look[depth \in 0..maxGroupDepth, ref \in Refs(tbl, group)] ==
            IF depth = maxGroupDepth \/ ref \notin DOMAIN tbl THEN TRUE
            ELSE IF tbl[ref].search # {} THEN TRUE \in tbl[ref].search
            ELSE look[depth + 1, tbl[ref].parent]
    IN  look[0, group]

\* The groups from the outermost to this one, as far as they are known.
groupPath(tbl, group) ==
    LET climb[depth \in 0..maxGroupDepth, ref \in Refs(tbl, group)] ==
            IF depth = maxGroupDepth \/ ref \notin DOMAIN tbl THEN <<>>
            ELSE Append(climb[depth + 1, tbl[ref].parent], ref)
    IN  climb[0, group]

-----------------------------------------------------------------------------
\* The address a text can be opened as, if any: a web address as it is, a host without
\* a scheme with https.  Placeholders, other schemes and empty texts are none.
normalizeURL(raw) ==
    CASE raw.kind \in {"http", "https"} -> {[scheme |-> raw.kind, host |-> raw.host]}
      [] raw.kind = "bare" -> {[scheme |-> "https", host |-> raw.host]}
      [] OTHER -> {}

\* Only the attribute Protected counts as a mark here.
parseEntryFields(strings) ==
    [n \in DOMAIN strings |->
        [value |-> strings[n].value, protected |-> strings[n].mark = "Protected"]]

\* The entry's own address, which comes first, and the additional ones, each once.
extractURLs(fields) ==
    LET own == UNION {normalizeURL(fields[n].value) : n \in DOMAIN fields \cap {"URL"}}
        more == {n \in DOMAIN fields \ {"URL"} :
                    ~fields[n].protected /\ n \in {"KP2A_URL", "Additional URL"}}
    IN  [own |-> own, more |-> UNION {normalizeURL(fields[n].value) : n \in more} \ own]

\* Entries of searched groups that have a title or an address.
buildIndex(entries, tbl) ==
    {[uuid |-> e.uuid, urls |-> extractURLs(parseEntryFields(e.strings)),
      group |-> groupPath(tbl, e.parent)] :
        e \in {f \in entries :
                  /\ groupSearchable(tbl, f.parent)
                  /\ \/ f.titled
                     \/ LET urls == extractURLs(parseEntryFields(f.strings))
                        IN  urls.own \union urls.more # {}}}

-----------------------------------------------------------------------------
\* Where the page that begins at the offset ends: before the first entry, other than the
\* one at the offset, that would take it over the limit.  Positions count from 0.
paginate(sizes, offset, limit) ==
    LET total[i \in offset..Len(sizes)] ==
            IF i = offset THEN 0 ELSE total[i - 1] + sizes[i]
        over == {i \in (offset + 1)..(Len(sizes) - 1) : total[i + 1] > limit}
    IN  Min(over \union {Len(sizes)})

=============================================================================
