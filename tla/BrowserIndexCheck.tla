------------------------- MODULE BrowserIndexCheck --------------------------
(***************************************************************************)
(* BrowserIndex on bounded inputs, for TLC: every table of three groups,   *)
(* rings and unknown parents among them, and every short index.            *)
(***************************************************************************)
EXTENDS Integers, Sequences, FiniteSets

I == INSTANCE BrowserIndex

Groups == {"a", "b", "c"}
Tables == [Groups -> [parent : Groups \union {I!Root, "gone"},
                      search : {{}, {TRUE}, {FALSE}}]]

\* The n-th ancestor, or the first that is not in the table.
Ancestor(tbl, group, n) ==
    LET up[i \in 0..n] ==
            IF i = 0 THEN group
            ELSE IF up[i - 1] \in Groups THEN tbl[up[i - 1]].parent ELSE up[i - 1]
    IN  up[n]

\* An entry is left out just when the nearest group above it that says anything says no
\* (groupSearchable; the depth it stops at is never reached but in a ring).
ASSUME NearestFlagDecides ==
    \A tbl \in Tables :
        I!groupSearchable(tbl, "a") =
            ~\E n \in 0..Cardinality(Groups) :
                /\ Ancestor(tbl, "a", n) \in Groups
                /\ tbl[Ancestor(tbl, "a", n)].search = {FALSE}
                /\ \A i \in 0..(n - 1) : tbl[Ancestor(tbl, "a", i)].search = {}

\* A path leads to the group it is of, each group in the one before it; it repeats a
\* group only where the parents form a ring, and then it has the greatest depth
\* (groupPath).
ASSUME PathsLeadDown ==
    \A tbl \in {t \in Tables : \A g \in Groups : t[g].search = {}} :
        LET path == I!groupPath(tbl, "a")
        IN  /\ path[Len(path)] = "a"
            /\ \A i \in 1..(Len(path) - 1) : tbl[path[i + 1]].parent = path[i]
            /\ Len(path) <= Cardinality(Groups) \/ Len(path) = I!maxGroupDepth

Indexes == UNION {[1..n -> {1, 2, 5}] : n \in 0..5}

\* Pages read one after the other come to the end; each has an entry, is within the limit
\* unless it has but one, and could not have held the next (paginate).
ASSUME PagesTile ==
    \A sizes \in Indexes, limit \in 0..6 :
        \A offset \in 0..Len(sizes) :
            LET next == I!paginate(sizes, offset, limit)
                size[i \in offset..Len(sizes)] ==
                    IF i = offset THEN 0 ELSE size[i - 1] + sizes[i]
            IN  /\ next \in offset..Len(sizes)
                /\ offset < Len(sizes) => next > offset
                /\ size[next] <= limit \/ next <= offset + 1
                /\ next < Len(sizes) => size[next + 1] > limit

=============================================================================
