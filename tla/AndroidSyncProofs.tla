-------------------------- MODULE AndroidSyncProofs --------------------------
(***************************************************************************)
(* Proofs about AndroidSync, for any runs, groups, entries and bounds:       *)
(* types, that no edit is lost or taken for pushed, that a probe that skips   *)
(* is right, and that a telephone with nothing to do shows what the server    *)
(* has.                                                                      *)
(***************************************************************************)
EXTENDS AndroidSync, FiniteSetTheorems, TLAPS

Files == [Uuid -> Object]

-----------------------------------------------------------------------------
(* What a run does with the decoded file *)

\* Decoding leaves out what is in the bin.
LEMMA ReadFile ==
  ASSUME NEW f \in Files
  PROVE /\ read(f) \in Files
        /\ \A o \in Uuid :
             /\ read(f)[o].entry = IF Present(f, o) /\ ~InBin(f, o) THEN f[o].entry ELSE None
             /\ \/ read(f)[o].dead \in {0, f[o].dead}
                \/ Present(f, o) /\ read(f)[o].dead = f[o].entry.loc
<1> DEFINE alive(o) == Present(f, o) /\ ~InBin(f, o)
           entry(o) == IF alive(o) THEN f[o].entry ELSE None
           dead(o) == IF o \in Entry /\ alive(o) THEN 0
                      ELSE IF o \in Group \/ f[o].dead # 0 THEN f[o].dead
                      ELSE IF Present(f, o) THEN f[o].entry.loc ELSE 0
<1>1. read(f) = [o \in Uuid |-> [entry |-> entry(o), dead |-> dead(o)]]
  BY DEF read
<1>2. ASSUME NEW o \in Uuid
      PROVE /\ entry(o) \in Local \cup {None} /\ dead(o) \in Nat
            /\ \/ dead(o) \in {0, f[o].dead}
               \/ Present(f, o) /\ dead(o) = f[o].entry.loc
  <2>1. f[o] \in Object
    BY DEF Files
  <2>2. f[o].dead \in Nat /\ (f[o].entry # None => f[o].entry \in Local)
    BY <2>1 DEF Object
  <2>3. f[o].entry # None => f[o].entry.loc \in Nat
    BY <2>2 DEF Local
  <2> QED BY <2>2, <2>3 DEF Present
<1>3. \A o \in Uuid : entry(o) = IF Present(f, o) /\ ~InBin(f, o) THEN f[o].entry ELSE None
  OBVIOUS
<1> HIDE DEF entry, dead
<1>4. \A o \in Uuid : [entry |-> entry(o), dead |-> dead(o)] \in Object
  BY <1>2 DEF Object
<1> QED BY <1>1, <1>2, <1>3, <1>4 DEF Files

\* An entry of the written file is one of the state, perhaps in the root.
LEMMA PlacedTypes ==
  ASSUME NEW db \in Files, NEW state \in Files, NEW o \in Uuid
  PROVE \/ Placed(db, state, o) = None
        \/ /\ state[o].entry # None
           /\ Placed(db, state, o) \in Local
           /\ Placed(db, state, o).data = state[o].entry.data
           /\ Placed(db, state, o).mod = state[o].entry.mod
           /\ Placed(db, state, o).loc = state[o].entry.loc
           /\ o \in Group => Placed(db, state, o).place = state[o].entry.place
           /\ o \in Entry =>
                Placed(db, state, o).place = resolveParent(db, state, state[o].entry.place)
                /\ o \notin Swept(db, state)
        \/ /\ o \in Group /\ db[o].entry # None /\ Placed(db, state, o) = db[o].entry
<1> DEFINE now == state[o].entry
           p == resolveParent(db, state, now.place)
           e == [now EXCEPT !.place = p]
<1>1. now # None => now \in Local
  BY DEF Files, Object
<1>2. CASE o \in Group
  BY <1>1, <1>2, ObjectAssumption DEF Placed
<1>3. CASE o \in Entry
  <2>1. o \notin Group /\ o \notin Erased(db, state)
    BY <1>3, ObjectAssumption DEF Erased
  <2>2. Placed(db, state, o) = IF now = None \/ o \in Swept(db, state) THEN None ELSE e
    BY <2>1 DEF Placed
  <2>3. ASSUME now # None
        PROVE /\ e \in Local /\ e.place = p
              /\ e.data = now.data /\ e.mod = now.mod /\ e.loc = now.loc
    <3>1. p \in Place
      BY FolderAssumption, <1>1, <2>3 DEF resolveParent, Place, Local
    <3> HIDE DEF p, now
    <3> QED BY <1>1, <2>3, <3>1 DEF Local
  <2> HIDE DEF e
  <2> QED BY <2>1, <2>2, <2>3
<1> QED BY <1>2, <1>3 DEF Uuid

\* Writing back gives a file.
LEMMA WrittenFile ==
  ASSUME NEW db \in Files, NEW state \in Files
  PROVE /\ applyToDatabase(db, state) \in Files
        /\ \A o \in Uuid : /\ applyToDatabase(db, state)[o].entry = Placed(db, state, o)
                           /\ applyToDatabase(db, state)[o].dead \in {db[o].dead, state[o].dead}
        /\ \A e \in Entry :
             Placed(db, state, e) # None /\ Placed(db, state, e).place \in Group =>
               Placed(db, state, Placed(db, state, e).place) # None
<1> DEFINE dead(o) == IF state[o].dead # 0 THEN state[o].dead ELSE db[o].dead
<1>1. applyToDatabase(db, state) =
        [o \in Uuid |-> [entry |-> Placed(db, state, o), dead |-> dead(o)]]
  BY DEF applyToDatabase
<1>2. ASSUME NEW o \in Uuid
      PROVE /\ Placed(db, state, o) \in Local \cup {None} /\ dead(o) \in Nat
            /\ dead(o) \in {db[o].dead, state[o].dead}
  <2>1. db[o] \in Object /\ state[o] \in Object
    BY DEF Files
  <2> QED BY <2>1, PlacedTypes DEF Object
<1> HIDE DEF dead
<1>3. \A o \in Uuid : [entry |-> Placed(db, state, o), dead |-> dead(o)] \in Object
  BY <1>2 DEF Object
<1>4. applyToDatabase(db, state) \in Files
  BY <1>1, <1>3 DEF Files
<1>5. ASSUME NEW e \in Entry, Placed(db, state, e) # None, Placed(db, state, e).place \in Group
      PROVE Placed(db, state, Placed(db, state, e).place) # None
  <2> DEFINE g == Placed(db, state, e).place
             p == state[e].entry.place
  <2>1. /\ state[e].entry # None /\ g = resolveParent(db, state, p)
        /\ e \notin Swept(db, state)
    BY <1>5, PlacedTypes, ObjectAssumption DEF Uuid
  <2>2. g \notin Erased(db, state)
    BY <2>1 DEF Swept
  <2> HIDE DEF g
  <2>3. g \in Group /\ (Present(db, g) \/ state[g].entry # None)
    <3>1. g \in Group
      BY <1>5 DEF g
    <3> QED BY <2>1, <3>1, FolderAssumption DEF resolveParent
  <2> QED BY <2>2, <2>3 DEF Placed, Present, g
<1> QED BY <1>1, <1>2, <1>4, <1>5

\* What is taken over from the server is an object.
LEMMA TakenTypes ==
  ASSUME NEW c \in Content
  PROVE /\ Taken(c) \in Object
        /\ Taken(c).entry # None =>
             /\ ~c.deleted /\ Taken(c).entry.place = c.place /\ Taken(c).entry.data = c.data
             /\ Taken(c).entry.mod = c.mod /\ Taken(c).entry.loc = c.loc
        /\ Taken(c).dead \in {0, c.mod}
<1>1. CASE c.deleted
  BY <1>1 DEF Taken, Object, Content
<1>2. CASE ~c.deleted
  <2> DEFINE e == [place |-> c.place, data |-> c.data, mod |-> c.mod, loc |-> c.loc]
  <2>1. e \in Local
    BY DEF Content, Local
  <2>2. Taken(c) = [entry |-> e, dead |-> 0]
    BY <1>2 DEF Taken
  <2>3. e.place = c.place /\ e.data = c.data /\ e.mod = c.mod /\ e.loc = c.loc
    OBVIOUS
  <2> HIDE DEF e
  <2> QED BY <1>2, <2>1, <2>2, <2>3 DEF Object
<1> QED BY <1>1, <1>2

\* What is due of a state.
LEMMA DueTypes ==
  ASSUME NEW state, NEW synced
  PROVE /\ Due(state, synced) \subseteq Uuid \X BOOLEAN
        /\ \A o \in Uuid :
             /\ <<o, FALSE>> \in Due(state, synced) <=>
                  state[o].entry # None /\ synced[o] < state[o].entry.mod
             /\ <<o, TRUE>> \in Due(state, synced) <=>
                  state[o].dead # 0 /\ synced[o] < state[o].dead
<1> DEFINE alive == {p \in Uuid : state[p].entry # None /\ synced[p] < state[p].entry.mod}
           dead == {p \in Uuid : state[p].dead # 0 /\ synced[p] < state[p].dead}
<1>1. Due(state, synced) = {<<o, FALSE>> : o \in alive} \cup {<<o, TRUE>> : o \in dead}
  BY DEF Due
<1>2. \A o \in Uuid : /\ o \in alive <=> state[o].entry # None /\ synced[o] < state[o].entry.mod
                      /\ o \in dead <=> state[o].dead # 0 /\ synced[o] < state[o].dead
  OBVIOUS
<1>3. alive \subseteq Uuid /\ dead \subseteq Uuid
  OBVIOUS
<1> HIDE DEF alive, dead
<1>4. Due(state, synced) \subseteq Uuid \X BOOLEAN
  <2>1. \A o \in Uuid, b \in BOOLEAN : <<o, b>> \in Uuid \X BOOLEAN
    OBVIOUS
  <2>2. \A o \in alive : <<o, FALSE>> \in Uuid \X BOOLEAN
    BY <1>3, <2>1
  <2>3. \A o \in dead : <<o, TRUE>> \in Uuid \X BOOLEAN
    BY <1>3, <2>1
  <2> QED BY <1>1, <2>2, <2>3
<1>5. ASSUME NEW o \in Uuid
      PROVE /\ <<o, FALSE>> \in Due(state, synced) <=> o \in alive
            /\ <<o, TRUE>> \in Due(state, synced) <=> o \in dead
  <2>1. \A p : (<<p, FALSE>> = <<o, FALSE>> <=> p = o) /\ (<<p, TRUE>> = <<o, TRUE>> <=> p = o)
    OBVIOUS
  <2>2. \A p : <<p, FALSE>> # <<o, TRUE>> /\ <<p, TRUE>> # <<o, FALSE>>
    OBVIOUS
  <2> QED BY <1>1, <2>1, <2>2
<1> QED BY <1>2, <1>4, <1>5

-----------------------------------------------------------------------------
(* The inductive invariant.  Its parts speak of any number seq, time clock   *)
(* and function settled, so that they can be used before and after a step.   *)

\* Times are of the past, a payload is as old as the edit that made it, and groups are
\* in no group.
Timely(o, x, now) ==
  /\ x.dead <= now
  /\ x.entry # None =>
       /\ x.entry.data = x.entry.mod /\ x.entry.mod <= now /\ x.entry.loc <= now
       /\ o \in Group => x.entry.place \notin Group

TimelyContent(o, c, now) ==
  /\ c.mod <= now /\ c.loc <= now
  /\ ~c.deleted => c.data = c.mod /\ (o \in Group => c.place \notin Group)

ServerFits ==
  /\ seq \in Nat /\ clock \in Nat
  /\ latest \in [Uuid -> Store!Version] /\ settled \in [Uuid -> Nat]
  /\ \A o \in Uuid : /\ settled[o] <= clock /\ latest[o].content.mod <= settled[o]
                     /\ TimelyContent(o, latest[o].content, clock)

\* An entry is in a group that is there.
GroupsPresent(f) ==
  \A e \in Entry : Present(f, e) /\ f[e].entry.place \in Group => Present(f, f[e].entry.place)

FileFits(f, now) == f \in Files /\ GroupsPresent(f) /\ \A o \in Uuid : Timely(o, f[o], now)

SyncFits(s, n, got) ==
  s \in Persisted /\ s.lastSeq <= n /\ \A o \in Uuid : s.syncedAt[o] <= got[o]

PhoneFits ==
  /\ FileFits(file, clock) /\ SyncFits(persisted, seq, settled)
  /\ broken \in BOOLEAN /\ unchanged \in BOOLEAN

\* What the run has is sent or to be sent.
Sends(r, got) ==
  \A o \in Uuid : r.state[o].entry # None =>
    <<o, FALSE>> \in r.due \/ r.state[o].entry.mod <= got[o]

\* What a run has taken for synchronised the server got; what it writes back has been
\* sent, if it was to be sent.
RunFits(r, n, now, got) ==
  /\ r \in Runs /\ SyncFits(r.sync, n, got)
  /\ \A o \in Uuid : Timely(o, r.db[o], now) /\ Timely(o, r.state[o], now)
  /\ \A o \in Uuid : <<o, FALSE>> \in r.due => r.state[o].entry # None
  /\ r.at \in {"push", "write", "writing"} => Sends(r, got)
  /\ r.at \in {"write", "writing"} => r.due = {}

RunsFit == run \in [Thread -> Runs] /\ \A t \in Thread : RunFits(run[t], seq, clock, settled)

HistoryTypes == edited \in [Uuid -> Nat] /\ missed \subseteq Uuid /\ apart \subseteq Uuid

\* Run r works on the decoded file.
Decoded(r) == r.at \in {"load", "pull", "push", "write", "writing"}

\* The run has the edit of o.
Has(r, o) == Decoded(r) => r.state[o].entry # None /\ r.state[o].entry.data = edited[o]

\* The file and every run that has decoded it show the edit, until it is settled.
Shows(o) ==
  /\ ~broken /\ Present(file, o) /\ ~InBin(file, o) /\ file[o].entry.data = edited[o]
  /\ \A t \in Thread : Has(run[t], o)

EditKept(o) == o \notin missed /\ edited[o] # 0 => edited[o] <= settled[o] \/ Shows(o)

EditedInv == \A o \in Uuid : EditKept(o)

\* NoEditLost alone does not tell what a run will write over the file; it will not be
\* an edit's end because all that is written back was sent.
PhoneInv == ServerFits /\ PhoneFits /\ RunsFit /\ HistoryTypes /\ EditedInv

LEMMA PhoneInvTypes == PhoneInv => TypeOK
BY DEF PhoneInv, ServerFits, PhoneFits, FileFits, SyncFits, GroupsPresent, RunsFit, HistoryTypes,
       TypeOK, Files

\* A time recorded as synchronised is one the server got, and payloads are times.
LEMMA PhoneInvForgets == PhoneInv => NothingForgotten
<1> SUFFICES ASSUME PhoneInv, NEW o \in Uuid, Present(file, o),
                    persisted.syncedAt[o] >= file[o].entry.mod
             PROVE file[o].entry.data <= settled[o]
  BY DEF NothingForgotten
<1>1. file[o].entry \in Local /\ persisted.syncedAt[o] \in Nat /\ settled[o] \in Nat
  BY DEF PhoneInv, PhoneFits, FileFits, SyncFits, ServerFits, Files, Object, Present, Persisted
<1>2. file[o].entry.data = file[o].entry.mod /\ persisted.syncedAt[o] <= settled[o]
  BY DEF PhoneInv, PhoneFits, FileFits, SyncFits, Timely, Present
<1> QED BY <1>1, <1>2 DEF Local

LEMMA PhoneInvLoses == PhoneInv => NoEditLost
BY DEF PhoneInv, EditedInv, EditKept, Shows, NoEditLost

-----------------------------------------------------------------------------
(* Server, clock and what was settled only grow                              *)

Later(n, now, got, n2, now2, got2) ==
  /\ n \in Nat /\ n2 \in Nat /\ n <= n2
  /\ now \in Nat /\ now2 \in Nat /\ now <= now2
  /\ got \in [Uuid -> Nat] /\ got2 \in [Uuid -> Nat]
  /\ \A o \in Uuid : got[o] <= got2[o]

Grows == Later(seq, clock, settled, seq', clock', settled')

LEMMA TimelyLater ==
  ASSUME NEW now \in Nat, NEW now2 \in Nat, now <= now2,
         NEW o \in Uuid, NEW x \in Object, Timely(o, x, now)
  PROVE Timely(o, x, now2)
BY DEF Timely, Object, Local

LEMMA SyncFitsLater ==
  ASSUME NEW n, NEW now, NEW got, NEW n2, NEW now2, NEW got2,
         Later(n, now, got, n2, now2, got2), NEW s, SyncFits(s, n, got)
  PROVE SyncFits(s, n2, got2)
<1>1. s \in Persisted /\ s.lastSeq \in Nat /\ \A o \in Uuid : s.syncedAt[o] \in Nat
  BY DEF SyncFits, Persisted
<1>2. s.lastSeq <= n2
  BY <1>1 DEF SyncFits, Later
<1>3. \A o \in Uuid : s.syncedAt[o] <= got2[o]
  BY <1>1 DEF SyncFits, Later
<1> QED BY <1>1, <1>2, <1>3 DEF SyncFits

LEMMA RunFitsLater ==
  ASSUME NEW n, NEW now, NEW got, NEW n2, NEW now2, NEW got2,
         Later(n, now, got, n2, now2, got2), NEW r, RunFits(r, n, now, got)
  PROVE RunFits(r, n2, now2, got2)
<1>1. /\ r \in Runs /\ r.db \in Files /\ r.state \in Files
      /\ \A o \in Uuid : r.db[o] \in Object /\ r.state[o] \in Object
  BY DEF RunFits, Runs, Files
<1>2. SyncFits(r.sync, n2, got2)
  BY SyncFitsLater DEF RunFits
<1>3. \A o \in Uuid : Timely(o, r.db[o], now2) /\ Timely(o, r.state[o], now2)
  BY <1>1, TimelyLater DEF RunFits, Later
<1>4. ASSUME NEW o \in Uuid, r.state[o].entry # None, r.state[o].entry.mod <= got[o]
      PROVE r.state[o].entry.mod <= got2[o]
  <2>1. r.state[o].entry.mod \in Nat /\ got[o] \in Nat /\ got2[o] \in Nat
    BY <1>1, <1>4 DEF Object, Local, Later
  <2> QED BY <1>4, <2>1 DEF Later
<1> QED BY <1>1, <1>2, <1>3, <1>4 DEF RunFits, Sends

\* What files and bookkeeping are stays what it is.
LEMMA PhoneFitsLater ==
  ASSUME PhoneFits, Grows, UNCHANGED <<file, persisted>>,
         broken' \in BOOLEAN, unchanged' \in BOOLEAN
  PROVE PhoneFits'
<1>1. SyncFits(persisted, seq', settled')
  BY SyncFitsLater DEF PhoneFits, Grows
<1>2. \A o \in Uuid : Timely(o, file[o], clock')
  BY TimelyLater DEF PhoneFits, FileFits, Files, Grows, Later
<1> QED BY <1>1, <1>2 DEF PhoneFits, FileFits

\* A step of one run.
LEMMA OneRunFits ==
  ASSUME RunsFit, Grows, NEW t \in Thread, NEW r, RunFits(r, seq', clock', settled'),
         run' = [run EXCEPT ![t] = r]
  PROVE RunsFit'
<1>1. r \in Runs
  BY DEF RunFits
<1>2. \A u \in Thread : run'[u] = IF u = t THEN r ELSE run[u]
  BY DEF RunsFit
<1>3. \A u \in Thread : RunFits(run[u], seq', clock', settled')
  BY RunFitsLater DEF RunsFit, Grows
<1> QED BY <1>1, <1>2, <1>3 DEF RunsFit

LEMMA NoRunFits ==
  ASSUME RunsFit, Grows, UNCHANGED run
  PROVE RunsFit'
BY RunFitsLater DEF RunsFit, Grows

\* While the file stays, an edit is kept by what the run still has of it.
LEMMA EditsKept ==
  ASSUME EditedInv, RunsFit, HistoryTypes, Grows, UNCHANGED <<file, broken, edited, missed>>,
         NEW t \in Thread, NEW r, run' = [run EXCEPT ![t] = r],
         \A o \in Uuid : o \notin missed /\ edited[o] # 0 /\ Shows(o) =>
           edited[o] <= settled'[o] \/ Has(r, o)
  PROVE EditedInv'
<1>1. SUFFICES ASSUME NEW o \in Uuid, o \notin missed, edited[o] # 0
      PROVE (edited[o] <= settled[o] \/ Shows(o))'
  BY DEF EditedInv, EditKept
<1>2. edited[o] \in Nat /\ settled[o] \in Nat /\ settled'[o] \in Nat /\ settled[o] <= settled'[o]
  BY DEF HistoryTypes, Grows, Later
<1>3. CASE edited[o] <= settled[o]
  BY <1>2, <1>3
<1>4. CASE Shows(o) /\ Has(r, o)
  <2>1. \A u \in Thread : run'[u] = IF u = t THEN r ELSE run[u]
    BY DEF RunsFit
  <2>2. \A u \in Thread : Has(run'[u], o)
    BY <1>4, <2>1 DEF Shows
  <2> QED BY <1>4, <2>2 DEF Shows, Has
<1> QED BY <1>1, <1>3, <1>4 DEF EditedInv, EditKept

-----------------------------------------------------------------------------
(* Runs                                                                      *)

LEMMA SameGrows ==
  ASSUME ServerFits, UNCHANGED <<seq, latest, settled, clock>>
  PROVE Grows /\ ServerFits'
BY DEF ServerFits, Grows, Later

\* A run without a file.
LEMMA EmptyRunFits ==
  ASSUME NEW n \in Nat, NEW now \in Nat, NEW got \in [Uuid -> Nat], NEW r \in Runs,
         SyncFits(r.sync, n, got), r.at \in {"idle", "save", "stamp"},
         r.db = Idle.db, r.state = Idle.state, r.due = {}
  PROVE RunFits(r, n, now, got) /\ ~Decoded(r)
<1>1. \A o \in Uuid : /\ r.db[o] = [entry |-> None, dead |-> 0]
                      /\ r.state[o] = [entry |-> None, dead |-> 0]
  BY DEF Idle
<1>2. \A o \in Uuid : Timely(o, r.db[o], now) /\ Timely(o, r.state[o], now)
  BY <1>1 DEF Timely
<1> QED BY <1>2 DEF RunFits, Decoded

LEMMA IdleFits ==
  ASSUME NEW n \in Nat, NEW now \in Nat, NEW got \in [Uuid -> Nat]
  PROVE /\ RunFits(Idle, n, now, got) /\ ~Decoded(Idle)
        /\ RunFits([Idle EXCEPT !.at = "stamp"], n, now, got)
        /\ ~Decoded([Idle EXCEPT !.at = "stamp"])
<1>1. Idle \in Runs /\ Idle.at = "idle" /\ Idle.due = {} /\ SyncFits(Idle.sync, n, got)
  BY DEF Idle, Runs, Step, Object, Persisted, SyncFits
<1> DEFINE r == [Idle EXCEPT !.at = "stamp"]
<1>2. /\ r \in Runs /\ r.at = "stamp" /\ r.due = {} /\ r.db = Idle.db /\ r.state = Idle.state
      /\ r.sync = Idle.sync
  BY <1>1 DEF Runs, Step
<1> HIDE DEF r
<1>3. RunFits(r, n, now, got) /\ ~Decoded(r)
  BY <1>1, <1>2, EmptyRunFits
<1>4. RunFits(Idle, n, now, got) /\ ~Decoded(Idle)
  BY <1>1, EmptyRunFits
<1> QED BY <1>3, <1>4 DEF r

LEMMA SavingFits ==
  ASSUME NEW n \in Nat, NEW now \in Nat, NEW got \in [Uuid -> Nat], NEW r,
         SyncFits(r.sync, n, got)
  PROVE /\ RunFits(Saving(r), n, now, got) /\ ~Decoded(Saving(r))
        /\ Saving(r).at = "save" /\ Saving(r).sync = r.sync
<1> DEFINE q == Saving(r)
           s == r.sync
<1>1. Idle \in Runs /\ Idle.due = {}
  BY DEF Idle, Runs, Step, Object, Persisted
<1>2. s \in Persisted /\ q = [Idle EXCEPT !.at = "save", !.sync = s]
  BY DEF SyncFits, Saving
<1> HIDE DEF q, s
<1>3. /\ q \in Runs /\ q.at = "save" /\ q.sync = s /\ q.due = {}
      /\ q.db = Idle.db /\ q.state = Idle.state
  BY <1>1, <1>2 DEF Runs, Step
<1>4. SyncFits(q.sync, n, got)
  BY <1>3 DEF s
<1>5. RunFits(q, n, now, got) /\ ~Decoded(q)
  BY <1>3, <1>4, EmptyRunFits
<1> QED BY <1>3, <1>5 DEF q, s

\* Where a run goes on after a pull or a push.
LEMMA PushingFits ==
  ASSUME NEW n \in Nat, NEW now \in Nat, NEW got \in [Uuid -> Nat], NEW r \in Runs,
         SyncFits(r.sync, n, got),
         \A o \in Uuid : Timely(o, r.db[o], now) /\ Timely(o, r.state[o], now),
         \A o \in Uuid : <<o, FALSE>> \in r.due => r.state[o].entry # None,
         Sends(r, got)
  PROVE /\ RunFits(Pushing(r), n, now, got)
        /\ \A o \in Uuid : r.state[o].entry # None /\ r.state[o].entry.data = edited[o] =>
             Has(Pushing(r), o)
<1>1. ASSUME NEW a \in {"push", "write"}, a = "write" => r.due = {}
      PROVE /\ RunFits([r EXCEPT !.at = a], n, now, got)
            /\ [r EXCEPT !.at = a].state = r.state
  <2> DEFINE q == [r EXCEPT !.at = a]
  <2>1. /\ q \in Runs /\ q.at = a /\ q.sync = r.sync /\ q.db = r.db /\ q.state = r.state
        /\ q.due = r.due
    BY DEF Runs, Step
  <2> HIDE DEF q
  <2>2. RunFits(q, n, now, got)
    BY <1>1, <2>1 DEF RunFits, Sends
  <2> QED BY <2>1, <2>2 DEF q
<1>2. CASE r.due # {}
  <2>1. Pushing(r) = [r EXCEPT !.at = "push"]
    BY <1>2 DEF Pushing
  <2> QED BY <1>1, <2>1 DEF Has
<1>3. CASE r.due = {} /\ r.pulled
  <2>1. Pushing(r) = [r EXCEPT !.at = "write"]
    BY <1>3 DEF Pushing
  <2> QED BY <1>1, <1>3, <2>1 DEF Has
<1>4. CASE r.due = {} /\ ~r.pulled
  <2>1. Pushing(r) = Saving(r)
    BY <1>4 DEF Pushing
  <2> QED BY <2>1, SavingFits DEF Has
<1> QED BY <1>2, <1>3, <1>4

\* A step of a run that leaves server and file alone, and has what it had of an edit.
LEMMA RunStepFits ==
  ASSUME PhoneInv, UNCHANGED <<seq, latest, settled, clock, file, broken, persisted, edited, missed>>,
         unchanged' \in BOOLEAN, apart' \subseteq Uuid,
         NEW t \in Thread, NEW r, run' = [run EXCEPT ![t] = r],
         RunFits(r, seq, clock, settled),
         \A o \in Uuid : o \notin missed /\ edited[o] # 0 /\ Shows(o) =>
           edited[o] <= settled[o] \/ Has(r, o)
  PROVE PhoneInv'
<1>1. Grows /\ ServerFits'
  BY SameGrows DEF PhoneInv
<1>2. PhoneFits'
  BY <1>1, PhoneFitsLater DEF PhoneInv, PhoneFits
<1>3. RunsFit'
  BY <1>1, OneRunFits DEF PhoneInv
<1>4. HistoryTypes'
  BY DEF PhoneInv, HistoryTypes
<1>5. EditedInv'
  BY <1>1, EditsKept DEF PhoneInv
<1> QED BY <1>1, <1>2, <1>3, <1>4, <1>5 DEF PhoneInv

\* What the invariant says of one run and of the server.
LEMMA RunFacts ==
  ASSUME PhoneInv, NEW t \in Thread
  PROVE /\ run[t] \in Runs /\ RunFits(run[t], seq, clock, settled)
        /\ run[t].db \in Files /\ run[t].state \in Files /\ run[t].sync \in Persisted
        /\ run[t].due \subseteq Uuid \X BOOLEAN
        /\ SyncFits(run[t].sync, seq, settled)
        /\ seq \in Nat /\ clock \in Nat /\ settled \in [Uuid -> Nat]
BY DEF PhoneInv, RunsFit, Runs, Files, RunFits, ServerFits

LEMMA OpenFits ==
  ASSUME PhoneInv, NEW t \in Thread, Open(t)
  PROVE PhoneInv'
<1> DEFINE r == [Idle EXCEPT !.at = "load", !.db = file, !.state = read(file)]
<1>1. /\ run' = [run EXCEPT ![t] = r] /\ apart' \subseteq Uuid /\ unchanged' \in BOOLEAN
      /\ UNCHANGED <<seq, latest, settled, clock, file, broken, persisted, edited, missed>>
  BY DEF Open, Continue, server, phone, PhoneInv, HistoryTypes, PhoneFits
<1>2. /\ file \in Files /\ \A o \in Uuid : Timely(o, file[o], clock)
      /\ seq \in Nat /\ clock \in Nat /\ settled \in [Uuid -> Nat]
  BY DEF PhoneInv, PhoneFits, FileFits, ServerFits
<1>3. /\ read(file) \in Files
      /\ \A o \in Uuid :
           /\ read(file)[o].entry = IF Present(file, o) /\ ~InBin(file, o)
                                    THEN file[o].entry ELSE None
           /\ \/ read(file)[o].dead \in {0, file[o].dead}
              \/ Present(file, o) /\ read(file)[o].dead = file[o].entry.loc
  BY <1>2, ReadFile
<1>4. \A o \in Uuid : Timely(o, read(file)[o], clock)
  BY <1>2, <1>3 DEF Timely, Present
<1>5. Idle \in Runs /\ Idle.due = {} /\ SyncFits(Idle.sync, seq, settled)
  BY <1>2, IdleFits DEF Idle, Runs, Step, Object, Persisted, SyncFits
<1>6. /\ r \in Runs /\ r.at = "load" /\ r.db = file /\ r.state = read(file)
      /\ r.sync = Idle.sync /\ r.due = {}
  <2> DEFINE st == read(file)
  <2>1. st \in Files
    BY <1>3
  <2> HIDE DEF st
  <2>2. /\ [Idle EXCEPT !.at = "load", !.db = file, !.state = st] \in Runs
        /\ [Idle EXCEPT !.at = "load", !.db = file, !.state = st].at = "load"
        /\ [Idle EXCEPT !.at = "load", !.db = file, !.state = st].db = file
        /\ [Idle EXCEPT !.at = "load", !.db = file, !.state = st].state = st
        /\ [Idle EXCEPT !.at = "load", !.db = file, !.state = st].sync = Idle.sync
        /\ [Idle EXCEPT !.at = "load", !.db = file, !.state = st].due = {}
    BY <1>2, <1>5, <2>1 DEF Runs, Step, Files
  <2> QED BY <2>2 DEF st
<1> HIDE DEF r
<1>7. RunFits(r, seq, clock, settled)
  BY <1>2, <1>4, <1>5, <1>6 DEF RunFits
<1>8. \A o \in Uuid : o \notin missed /\ edited[o] # 0 /\ Shows(o) => Has(r, o)
  BY <1>3, <1>6 DEF Shows, Has, Present
<1> QED BY <1>1, <1>7, <1>8, RunStepFits

LEMMA loadFits ==
  ASSUME PhoneInv, NEW t \in Thread, load(t)
  PROVE PhoneInv'
<1> DEFINE r == [run[t] EXCEPT !.at = "pull", !.sync = persisted]
<1>1. /\ run' = [run EXCEPT ![t] = r] /\ apart' \subseteq Uuid /\ unchanged' \in BOOLEAN
      /\ UNCHANGED <<seq, latest, settled, clock, file, broken, persisted, edited, missed>>
      /\ run[t].at = "load"
  BY DEF load, Continue, server, phone, history, PhoneInv, HistoryTypes, PhoneFits
<1>2. SyncFits(persisted, seq, settled)
  BY DEF PhoneInv, PhoneFits
<1>3. /\ r \in Runs /\ r.at = "pull" /\ r.db = run[t].db /\ r.state = run[t].state
      /\ r.sync = persisted /\ r.due = run[t].due
  BY <1>2, RunFacts DEF Runs, Step, SyncFits
<1> HIDE DEF r
<1>4. RunFits(r, seq, clock, settled)
  BY <1>2, <1>3, RunFacts DEF RunFits
<1>5. \A o \in Uuid : Shows(o) => Has(r, o)
  BY <1>1, <1>3 DEF Shows, Has, Decoded
<1> QED BY <1>1, <1>4, <1>5, RunStepFits

LEMMA pullFits ==
  ASSUME PhoneInv, NEW t \in Thread, pull(t)
  PROVE PhoneInv'
<1> DEFINE q == run[t]
           since == q.sync.lastSeq
           taken == {o \in Uuid : latest[o].seq > since /\ ~Kept(q.state[o], latest[o].content)}
           state == [o \in Uuid |-> IF o \in taken THEN Taken(latest[o].content)
                                    ELSE q.state[o]]
           synced == [o \in Uuid |-> IF o \in taken THEN latest[o].content.mod
                                     ELSE q.sync.syncedAt[o]]
           sync == [lastSeq |-> seq, syncedAt |-> synced]
           due == Due(state, synced)
           pulled == taken # {}
           r == [q EXCEPT !.state = state, !.pulled = pulled, !.sync = sync, !.due = due]
<1>1. /\ run' = [run EXCEPT ![t] = Pushing(r)] /\ apart' \subseteq Uuid /\ unchanged' \in BOOLEAN
      /\ UNCHANGED <<seq, latest, settled, clock, file, broken, persisted, edited, missed>>
      /\ q.at = "pull"
  BY DEF pull, Continue, server, phone, history, PhoneInv, HistoryTypes, PhoneFits
<1>2. /\ q \in Runs /\ q.db \in Files /\ q.state \in Files /\ q.sync \in Persisted
      /\ SyncFits(q.sync, seq, settled) /\ RunFits(q, seq, clock, settled)
      /\ seq \in Nat /\ clock \in Nat /\ settled \in [Uuid -> Nat]
  BY RunFacts
<1>3. \A o \in Uuid : /\ latest[o].content \in Content /\ latest[o].content.mod \in Nat
                      /\ latest[o].content.mod <= settled[o]
                      /\ TimelyContent(o, latest[o].content, clock)
  BY DEF PhoneInv, ServerFits, Store!Version, Content
<1>4. taken \subseteq Uuid
  OBVIOUS
<1>5. \A o \in taken : ~Kept(q.state[o], latest[o].content)
  OBVIOUS
<1> HIDE DEF q, taken
<1>6. ASSUME NEW o \in Uuid
      PROVE state[o] \in Object /\ Timely(o, state[o], clock)
  <2>1. CASE o \in taken
    BY <1>2, <1>3, <2>1, TakenTypes DEF Timely, TimelyContent
  <2>2. CASE o \notin taken
    BY <1>2, <2>2 DEF RunFits, Files
  <2> QED BY <2>1, <2>2
<1>7. \A o \in Uuid : synced[o] \in Nat /\ synced[o] <= settled[o]
  BY <1>2, <1>3 DEF Persisted, SyncFits
<1>8. \A o \in Uuid : o \notin taken => state[o] = q.state[o]
  OBVIOUS
<1>9. state \in Files
  BY <1>6 DEF Files
<1>10. synced \in [Uuid -> Nat]
  BY <1>7
<1> HIDE DEF state, synced
<1>11. sync \in Persisted /\ SyncFits(sync, seq, settled)
  BY <1>2, <1>7, <1>10 DEF Persisted, SyncFits
<1>12. /\ due \subseteq Uuid \X BOOLEAN
       /\ \A o \in Uuid : <<o, FALSE>> \in due <=>
            state[o].entry # None /\ synced[o] < state[o].entry.mod
  BY DueTypes
<1> HIDE DEF sync, due, pulled
<1>13. /\ r \in Runs /\ r.db = q.db /\ r.state = state /\ r.sync = sync /\ r.due = due
  <2>1. pulled \in BOOLEAN
    BY DEF pulled
  <2> QED BY <1>2, <1>9, <1>11, <1>12, <2>1 DEF Runs, Files
<1> HIDE DEF r
<1>14. Sends(r, settled)
  <2>1. ASSUME NEW o \in Uuid, state[o].entry # None, ~(<<o, FALSE>> \in due)
        PROVE state[o].entry.mod <= settled[o]
    <3>1. state[o].entry.mod \in Nat /\ synced[o] \in Nat /\ settled[o] \in Nat
      BY <1>2, <1>6, <1>7, <2>1 DEF Object, Local
    <3>2. ~(synced[o] < state[o].entry.mod)
      BY <1>12, <2>1
    <3>3. synced[o] <= settled[o]
      BY <1>7
    <3> QED BY <3>1, <3>2, <3>3
  <2> QED BY <1>13, <2>1 DEF Sends
<1>15. /\ RunFits(Pushing(r), seq, clock, settled)
       /\ \A o \in Uuid : r.state[o].entry # None /\ r.state[o].entry.data = edited[o] =>
            Has(Pushing(r), o)
  <2>1. \A o \in Uuid : Timely(o, r.db[o], clock) /\ Timely(o, r.state[o], clock)
    BY <1>2, <1>6, <1>13 DEF RunFits
  <2> QED BY <1>2, <1>11, <1>12, <1>13, <1>14, <2>1, PushingFits
<1>16. ASSUME NEW o \in Uuid, edited[o] # 0, Shows(o)
       PROVE edited[o] <= settled[o] \/ Has(Pushing(r), o)
  <2>1. q.state[o].entry # None /\ q.state[o].entry.data = edited[o]
    BY <1>1, <1>16 DEF Shows, Has, Decoded, q
  <2>2. CASE o \notin taken
    BY <1>8, <1>13, <1>15, <2>1, <2>2
  <2>3. CASE o \in taken
    <3>1. /\ q.state[o].entry.data = q.state[o].entry.mod /\ q.state[o].entry.mod \in Nat
      BY <1>2, <2>1 DEF RunFits, Timely, Files, Object, Local
    <3>2. q.state[o].entry.mod <= latest[o].content.mod
      BY <1>3, <1>5, <2>1, <2>3, <3>1 DEF Kept
    <3> QED BY <1>2, <1>3, <2>1, <3>1, <3>2
  <2> QED BY <2>2, <2>3
<1> QED BY <1>1, <1>15, <1>16, RunStepFits

-----------------------------------------------------------------------------
(* Writes to the server                                                      *)

LEMMA WriteFits ==
  ASSUME ServerFits, NEW o \in Uuid, NEW c \in Content, Store!Write(o, c),
         clock' \in {clock, clock + 1}, TimelyContent(o, c, clock'),
         settled' = [settled EXCEPT ![o] = laterTime(@, c.mod)]
  PROVE /\ ServerFits' /\ Grows /\ seq' = seq + 1
        /\ c.mod <= settled'[o]
<1> DEFINE v == [uuid |-> o, content |-> c, seq |-> seq + 1]
           top == laterTime(settled[o], c.mod)
<1>1. /\ seq \in Nat /\ clock \in Nat /\ latest \in [Uuid -> Store!Version]
      /\ settled \in [Uuid -> Nat] /\ c.mod \in Nat /\ c.loc \in Nat
  BY DEF ServerFits, Content
<1>2. seq' = seq + 1 /\ latest' = [latest EXCEPT ![o] = v]
  BY DEF Store!Write
<1>3. v \in Store!Version /\ v.content = c
  BY <1>1 DEF Store!Version
<1>4. /\ settled' = [settled EXCEPT ![o] = top] /\ top \in Nat
      /\ settled[o] <= top /\ c.mod <= top
      /\ top \in {settled[o], c.mod}
  BY <1>1 DEF laterTime
<1>5. clock' \in Nat /\ clock <= clock'
  BY <1>1
<1> HIDE DEF v, top
<1>6. /\ latest' \in [Uuid -> Store!Version] /\ settled' \in [Uuid -> Nat] /\ seq' \in Nat
      /\ latest'[o] = v /\ settled'[o] = top
      /\ \A p \in Uuid : p # o => latest'[p] = latest[p] /\ settled'[p] = settled[p]
  BY <1>1, <1>2, <1>3, <1>4
<1>7. Grows
  BY <1>1, <1>2, <1>4, <1>5, <1>6 DEF Grows, Later
<1>8. ASSUME NEW p \in Uuid
      PROVE (/\ settled[p] <= clock /\ latest[p].content.mod <= settled[p]
             /\ TimelyContent(p, latest[p].content, clock))'
  <2>1. CASE p = o
    <3>1. settled[o] \in Nat /\ settled[o] <= clock
      BY <1>1 DEF ServerFits
    <3>2. top <= clock'
      BY <1>1, <1>4, <1>5, <3>1 DEF TimelyContent
    <3> QED BY <1>3, <1>4, <1>6, <2>1, <3>2
  <2>2. CASE p # o
    <3>1. /\ settled[p] <= clock /\ latest[p].content.mod <= settled[p]
          /\ TimelyContent(p, latest[p].content, clock)
      BY DEF ServerFits
    <3>2. /\ settled[p] \in Nat /\ latest[p].content.mod \in Nat
          /\ latest[p].content.loc \in Nat
      BY <1>1 DEF Store!Version, Content
    <3>3. TimelyContent(p, latest[p].content, clock')
      BY <1>1, <1>5, <3>1, <3>2 DEF TimelyContent
    <3>4. settled[p] <= clock'
      BY <1>1, <1>5, <3>1, <3>2
    <3> QED BY <1>6, <2>2, <3>1, <3>3, <3>4
  <2> QED BY <2>1, <2>2
<1>9. ServerFits'
  BY <1>1, <1>5, <1>6, <1>8 DEF ServerFits
<1> QED BY <1>2, <1>4, <1>6, <1>7, <1>9

\* What a run sends is of its state.
LEMMA PushedFits ==
  ASSUME PhoneInv, NEW t \in Thread, run[t].at = "push", NEW x \in Nextup(t)
  PROVE /\ x \in run[t].due
        /\ \E o \in Uuid, b \in BOOLEAN :
             /\ x = <<o, b>> /\ x[1] = o
             /\ Pushed(t, x) \in Content /\ TimelyContent(o, Pushed(t, x), clock)
             /\ b = FALSE => run[t].state[o].entry # None
                             /\ Pushed(t, x).mod = run[t].state[o].entry.mod
<1>1. x \in run[t].due
  BY DEF Nextup
<1>2. PICK o \in Uuid, b \in BOOLEAN : x = <<o, b>>
  BY <1>1, RunFacts
<1>3. x[1] = o /\ x[2] = b
  BY <1>2
<1> DEFINE l == run[t].state[o]
<1>4. l \in Object /\ Timely(o, l, clock)
  BY RunFacts DEF RunFits, Files
<1>5. b = FALSE => l.entry # None
  BY <1>1, <1>2, RunFacts DEF RunFits
<1>6. Pushed(t, x) = IF b THEN Tombstone(l.dead)
                     ELSE [deleted |-> FALSE, place |-> l.entry.place, data |-> l.entry.data,
                           mod |-> l.entry.mod, loc |-> l.entry.loc]
  BY <1>3 DEF Pushed
<1> HIDE DEF l
<1>7. CASE b
  <2>1. Tombstone(l.dead) \in Content /\ TimelyContent(o, Tombstone(l.dead), clock)
    <3>1. l.dead \in Nat /\ l.dead <= clock /\ clock \in Nat
      BY <1>4, RunFacts DEF Object, Timely
    <3> QED BY <3>1 DEF Tombstone, Content, TimelyContent, Place
  <2> QED BY <1>1, <1>2, <1>3, <1>6, <1>7, <2>1
<1>8. CASE ~b
  <2> DEFINE c == [deleted |-> FALSE, place |-> l.entry.place, data |-> l.entry.data,
                   mod |-> l.entry.mod, loc |-> l.entry.loc]
  <2>1. l.entry # None /\ l.entry \in Local
    BY <1>4, <1>5, <1>8 DEF Object
  <2>2. c \in Content /\ TimelyContent(o, c, clock) /\ c.mod = l.entry.mod
    BY <1>4, <2>1 DEF Content, Local, TimelyContent, Timely
  <2>3. Pushed(t, x) = c
    BY <1>6, <1>8
  <2> HIDE DEF c
  <2> QED BY <1>1, <1>2, <1>3, <2>1, <2>2, <2>3 DEF l
<1> QED BY <1>7, <1>8

\* A run sends something, and goes on as r or ends.
LEMMA SendFits ==
  ASSUME PhoneInv, NEW t \in Thread, run[t].at = "push", NEW x \in Nextup(t), Send(t, x)
  PROVE /\ ServerFits' /\ Grows /\ PhoneFits' /\ HistoryTypes' /\ seq' = seq + 1
        /\ UNCHANGED <<file, broken, edited, missed>>
        /\ x \in run[t].due
        /\ \E o \in Uuid, b \in BOOLEAN :
             /\ x = <<o, b>> /\ x[1] = o
             /\ Pushed(t, x).mod \in Nat /\ Pushed(t, x).mod <= settled'[o]
             /\ b = FALSE => run[t].state[o].entry # None
                             /\ run[t].state[o].entry.mod <= settled'[o]
<1>1. PICK o \in Uuid, b \in BOOLEAN :
        /\ x = <<o, b>> /\ x[1] = o
        /\ Pushed(t, x) \in Content /\ TimelyContent(o, Pushed(t, x), clock)
        /\ b = FALSE => run[t].state[o].entry # None
                        /\ Pushed(t, x).mod = run[t].state[o].entry.mod
  BY PushedFits
<1>2. /\ Store!Write(o, Pushed(t, x))
      /\ settled' = [settled EXCEPT ![o] = laterTime(@, Pushed(t, x).mod)]
      /\ clock' = clock /\ UNCHANGED <<file, broken, persisted, unchanged, edited, missed>>
      /\ apart' \subseteq apart \cup {o}
  BY <1>1 DEF Send, phone
<1> DEFINE c == Pushed(t, x)
<1>3. c \in Content /\ c.mod \in Nat /\ TimelyContent(o, c, clock')
  BY <1>1, <1>2 DEF Content
<1>4. Store!Write(o, c) /\ settled' = [settled EXCEPT ![o] = laterTime(@, c.mod)]
  BY <1>2
<1> HIDE DEF c
<1>5. ServerFits' /\ Grows /\ seq' = seq + 1 /\ c.mod <= settled'[o]
  BY <1>2, <1>3, <1>4, WriteFits DEF PhoneInv
<1>6. PhoneFits'
  BY <1>2, <1>5, PhoneFitsLater DEF PhoneInv, PhoneFits
<1>7. HistoryTypes'
  BY <1>2 DEF PhoneInv, HistoryTypes
<1> QED BY <1>1, <1>2, <1>3, <1>5, <1>6, <1>7, PushedFits DEF c

LEMMA AnswerLostFits ==
  ASSUME PhoneInv, NEW t \in Thread, AnswerLost(t)
  PROVE PhoneInv'
<1>1. PICK x \in Nextup(t) : Send(t, x)
  BY DEF AnswerLost
<1>2. run[t].at = "push" /\ run' = [run EXCEPT ![t] = Idle]
  BY DEF AnswerLost, Continue
<1>3. /\ ServerFits' /\ Grows /\ PhoneFits' /\ HistoryTypes'
      /\ UNCHANGED <<file, broken, edited, missed>>
  BY <1>1, <1>2, SendFits
<1>4. RunFits(Idle, seq', clock', settled') /\ ~Decoded(Idle)
  BY <1>3, IdleFits DEF Grows, Later
<1>5. RunsFit'
  BY <1>2, <1>3, <1>4, OneRunFits DEF PhoneInv
<1>6. EditedInv'
  <2>1. \A o \in Uuid : Has(Idle, o)
    BY <1>4 DEF Has
  <2> QED BY <1>2, <1>3, <2>1, EditsKept DEF PhoneInv
<1> QED BY <1>3, <1>5, <1>6 DEF PhoneInv

LEMMA pushFits ==
  ASSUME PhoneInv, NEW t \in Thread, push(t)
  PROVE PhoneInv'
<1>0. PICK x \in Nextup(t) :
        LET synced == [run[t].sync.syncedAt EXCEPT ![x[1]] = Pushed(t, x).mod] IN
        /\ Send(t, x)
        /\ Continue(t, Pushing([run[t] EXCEPT !.due = @ \ {x},
                                  !.sync = [lastSeq |-> seq + 1, syncedAt |-> synced]]))
  BY DEF push
<1>1. PICK q : q = run[t]
  OBVIOUS
<1>2. PICK m : m = Pushed(t, x).mod
  OBVIOUS
<1>3. q.at = "push" /\ Send(t, x)
  BY <1>0, <1>1 DEF push
<1>4. PICK o \in Uuid, b \in BOOLEAN :
        /\ x = <<o, b>> /\ x[1] = o /\ m \in Nat /\ m <= settled'[o]
        /\ b = FALSE => q.state[o].entry # None /\ q.state[o].entry.mod <= settled'[o]
  BY <1>1, <1>2, <1>3, SendFits
<1>5. /\ ServerFits' /\ Grows /\ PhoneFits' /\ HistoryTypes' /\ seq' = seq + 1
      /\ UNCHANGED <<file, broken, edited, missed>>
  BY <1>1, <1>3, SendFits
<1>6. /\ seq \in Nat /\ seq' \in Nat /\ clock' \in Nat /\ settled' \in [Uuid -> Nat]
      /\ settled \in [Uuid -> Nat] /\ \A p \in Uuid : settled[p] <= settled'[p]
  BY <1>5 DEF Grows, Later
<1>7. /\ q \in Runs /\ q.db \in Files /\ q.state \in Files /\ q.sync \in Persisted
      /\ RunFits(q, seq', clock', settled') /\ RunFits(q, seq, clock, settled)
  BY <1>1, <1>5, RunFacts, RunFitsLater DEF Grows
<1> DEFINE synced == [q.sync.syncedAt EXCEPT ![o] = m]
           sync == [lastSeq |-> seq + 1, syncedAt |-> synced]
           due == q.due \ {x}
           r == [q EXCEPT !.due = due, !.sync = sync]
<1>8. run' = [run EXCEPT ![t] = Pushing(r)]
  BY <1>0, <1>1, <1>2, <1>4 DEF Continue
<1>9. /\ synced \in [Uuid -> Nat] /\ synced[o] = m
      /\ \A p \in Uuid : p # o => synced[p] = q.sync.syncedAt[p]
  BY <1>4, <1>7 DEF Persisted
<1> HIDE DEF synced
<1>10. \A p \in Uuid : synced[p] <= settled'[p]
  BY <1>4, <1>7, <1>9 DEF RunFits, SyncFits
<1>11. sync \in Persisted /\ SyncFits(sync, seq', settled')
  <2>1. sync.lastSeq = seq + 1 /\ sync.syncedAt = synced /\ seq + 1 \in Nat
    BY <1>6
  <2>2. sync \in Persisted
    BY <1>6, <1>9 DEF Persisted
  <2> QED BY <1>5, <1>6, <1>10, <2>1, <2>2 DEF SyncFits
<1> HIDE DEF sync
<1>12. /\ r \in Runs /\ r.db = q.db /\ r.state = q.state /\ r.sync = sync /\ r.due = due
  <2>1. due \subseteq Uuid \X BOOLEAN
    BY <1>7 DEF Runs
  <2> HIDE DEF due
  <2> QED BY <1>7, <1>11, <2>1 DEF Runs
<1> HIDE DEF r
<1>13. Sends(r, settled')
  <2>1. ASSUME NEW p \in Uuid, q.state[p].entry # None
        PROVE <<p, FALSE>> \in due \/ q.state[p].entry.mod <= settled'[p]
    <3>1. CASE p = o /\ b = FALSE
      BY <1>4, <3>1
    <3>2. CASE ~(p = o /\ b = FALSE)
      <4>1. <<p, FALSE>> # x
        BY <1>4, <3>2
      <4> QED BY <1>3, <1>7, <2>1, <4>1 DEF RunFits, Sends
    <3> QED BY <3>1, <3>2
  <2> QED BY <1>12, <2>1 DEF Sends
<1>14. /\ RunFits(Pushing(r), seq', clock', settled')
       /\ \A p \in Uuid : r.state[p].entry # None /\ r.state[p].entry.data = edited[p] =>
            Has(Pushing(r), p)
  <2>1. \A p \in Uuid : Timely(p, r.db[p], clock') /\ Timely(p, r.state[p], clock')
    BY <1>7, <1>12 DEF RunFits
  <2>2. \A p \in Uuid : <<p, FALSE>> \in r.due => r.state[p].entry # None
    BY <1>7, <1>12 DEF RunFits
  <2> QED BY <1>6, <1>11, <1>12, <1>13, <2>1, <2>2, PushingFits
<1>15. RunsFit'
  BY <1>5, <1>8, <1>14, OneRunFits DEF PhoneInv
<1>16. EditedInv'
  <2>1. ASSUME NEW p \in Uuid, Shows(p)
        PROVE Has(Pushing(r), p)
    <3>1. q.state[p].entry # None /\ q.state[p].entry.data = edited[p]
      BY <1>1, <1>3, <2>1 DEF Shows, Has, Decoded
    <3> QED BY <1>12, <1>14, <3>1
  <2> QED BY <1>5, <1>8, <2>1, EditsKept DEF PhoneInv
<1> QED BY <1>5, <1>15, <1>16 DEF PhoneInv

-----------------------------------------------------------------------------
(* Writing the file back, and failing                                        *)

LEMMA RequestFailsFits ==
  ASSUME PhoneInv, NEW t \in Thread, RequestFails(t)
  PROVE PhoneInv'
<1>1. /\ run' = [run EXCEPT ![t] = Idle] /\ apart' \subseteq Uuid /\ unchanged' \in BOOLEAN
      /\ UNCHANGED <<seq, latest, settled, clock, file, broken, persisted, edited, missed>>
  BY DEF RequestFails, Continue, server, phone, history, PhoneInv, HistoryTypes, PhoneFits
<1>2. RunFits(Idle, seq, clock, settled) /\ \A o \in Uuid : Has(Idle, o)
  BY RunFacts, IdleFits DEF Has
<1> QED BY <1>1, <1>2, RunStepFits

LEMMA fingerprintFits ==
  ASSUME PhoneInv, NEW t \in Thread, fingerprint(t)
  PROVE PhoneInv'
<1>1. /\ run' = [run EXCEPT ![t] = Idle] /\ apart' \subseteq Uuid /\ unchanged' \in BOOLEAN
      /\ UNCHANGED <<seq, latest, settled, clock, file, broken, persisted, edited, missed>>
  BY DEF fingerprint, Continue, server, history, PhoneInv, HistoryTypes, PhoneFits
<1>2. RunFits(Idle, seq, clock, settled) /\ \A o \in Uuid : Has(Idle, o)
  BY RunFacts, IdleFits DEF Has
<1> QED BY <1>1, <1>2, RunStepFits

LEMMA CrashFits ==
  ASSUME PhoneInv, Crash
  PROVE PhoneInv'
<1>1. /\ run' = [t \in Thread |-> Idle]
      /\ UNCHANGED <<seq, latest, settled, clock, file, broken, persisted, unchanged,
                     edited, missed, apart>>
  BY DEF Crash, server, phone, history
<1>2. /\ seq \in Nat /\ clock \in Nat /\ settled \in [Uuid -> Nat] /\ Grows /\ ServerFits'
  BY <1>1, SameGrows DEF PhoneInv, ServerFits
<1>3. RunFits(Idle, seq, clock, settled) /\ ~Decoded(Idle)
  BY <1>2, IdleFits
<1>4. RunsFit'
  <2>1. Idle \in Runs
    BY <1>3 DEF RunFits
  <2> QED BY <1>1, <1>3, <2>1 DEF RunsFit
<1>5. PhoneFits' /\ HistoryTypes'
  BY <1>1, <1>2, PhoneFitsLater DEF PhoneInv, PhoneFits, HistoryTypes
<1>6. EditedInv'
  <2>1. \A o \in Uuid : Has(Idle, o)
    BY <1>3 DEF Has
  <2>2. ASSUME NEW o \in Uuid, Shows(o)
        PROVE Shows(o)'
    BY <1>1, <2>1, <2>2 DEF Shows, Has
  <2> QED BY <1>1, <2>2 DEF PhoneInv, EditedInv, EditKept
<1> QED BY <1>2, <1>4, <1>5, <1>6 DEF PhoneInv

\* When a run writes the file back, the server has got every edit.
LEMMA AllSettled ==
  ASSUME PhoneInv, NEW t \in Thread, run[t].at \in {"write", "writing"},
         NEW o \in Uuid, o \notin missed, edited[o] # 0
  PROVE edited[o] <= settled[o]
<1> SUFFICES ASSUME Shows(o) PROVE edited[o] <= settled[o]
  BY DEF PhoneInv, EditedInv, EditKept
<1>1. run[t].state[o].entry # None /\ run[t].state[o].entry.data = edited[o]
  BY DEF Shows, Has, Decoded
<1>2. /\ <<o, FALSE>> \notin run[t].due /\ Sends(run[t], settled)
      /\ run[t].state[o].entry.data = run[t].state[o].entry.mod
  BY <1>1, RunFacts DEF RunFits, Timely
<1> QED BY <1>1, <1>2 DEF Sends

LEMMA TruncateFits ==
  ASSUME PhoneInv, NEW t \in Thread, Truncate(t)
  PROVE PhoneInv'
<1> DEFINE r == [run[t] EXCEPT !.at = "writing"]
<1>1. /\ run' = [run EXCEPT ![t] = r] /\ broken' = TRUE /\ unchanged' = FALSE
      /\ UNCHANGED <<seq, latest, settled, clock, file, persisted, edited, missed, apart>>
      /\ run[t].at = "write"
  BY DEF Truncate, Continue, server, history
<1>2. Grows /\ ServerFits'
  BY <1>1, SameGrows DEF PhoneInv
<1>3. PhoneFits' /\ HistoryTypes'
  BY <1>1, <1>2, PhoneFitsLater DEF PhoneInv, HistoryTypes
<1>4. RunFits(r, seq, clock, settled)
  <2>1. /\ r \in Runs /\ r.at = "writing" /\ r.db = run[t].db /\ r.state = run[t].state
        /\ r.sync = run[t].sync /\ r.due = run[t].due
    BY RunFacts DEF Runs, Step
  <2> HIDE DEF r
  <2> QED BY <1>1, <2>1, RunFacts DEF RunFits, Sends
<1>5. RunsFit'
  BY <1>1, <1>2, <1>4, OneRunFits DEF PhoneInv
<1>6. EditedInv'
  BY <1>1, AllSettled DEF EditedInv, EditKept
<1> QED BY <1>2, <1>3, <1>5, <1>6 DEF PhoneInv

\* What is written back is as old as what was decoded or taken over.
LEMMA WrittenFits ==
  ASSUME NEW now \in Nat, NEW db \in Files, NEW state \in Files,
         \A o \in Uuid : Timely(o, db[o], now) /\ Timely(o, state[o], now)
  PROVE FileFits(applyToDatabase(db, state), now)
<1> DEFINE f == applyToDatabase(db, state)
<1>1. /\ f \in Files
      /\ \A o \in Uuid : f[o].entry = Placed(db, state, o) /\ f[o].dead \in {db[o].dead, state[o].dead}
  BY WrittenFile
<1>2. \A e \in Entry : Placed(db, state, e) # None /\ Placed(db, state, e).place \in Group =>
        Placed(db, state, Placed(db, state, e).place) # None
  BY WrittenFile
<1> HIDE DEF f
<1>3. GroupsPresent(f)
  BY <1>1, <1>2 DEF GroupsPresent, Present, Uuid
<1>4. ASSUME NEW o \in Uuid
      PROVE Timely(o, f[o], now)
  <2>1. f[o].dead <= now
    BY <1>1 DEF Timely
  <2>2. CASE f[o].entry = None
    BY <2>1, <2>2 DEF Timely
  <2>3. CASE f[o].entry # None
    BY <1>1, <2>1, <2>3, PlacedTypes DEF Timely
  <2> QED BY <2>2, <2>3
<1> QED BY <1>1, <1>3, <1>4 DEF FileFits, f

LEMMA writeAtomicFits ==
  ASSUME PhoneInv, NEW t \in Thread, writeAtomic(t)
  PROVE PhoneInv'
<1>1. /\ run' = [run EXCEPT ![t] = Saving(run[t])] /\ broken' = FALSE /\ unchanged' = FALSE
      /\ file' = applyToDatabase(run[t].db, run[t].state)
      /\ UNCHANGED <<seq, latest, settled, clock, persisted, edited, missed>>
      /\ run[t].at = "writing" /\ apart' = apart \cup Astray(run[t].db, run[t].state)
  BY DEF writeAtomic, Continue, server
<1>2. Grows /\ ServerFits'
  BY <1>1, SameGrows DEF PhoneInv
<1>3. FileFits(file', clock)
  BY <1>1, RunFacts, WrittenFits DEF RunFits
<1>4. PhoneFits'
  BY <1>1, <1>3 DEF PhoneInv, PhoneFits
<1>5. HistoryTypes'
  <2>1. Astray(run[t].db, run[t].state) \subseteq Uuid
    BY DEF Astray
  <2> QED BY <1>1, <2>1 DEF PhoneInv, HistoryTypes
<1>6. RunFits(Saving(run[t]), seq, clock, settled)
  BY RunFacts, SavingFits
<1>7. RunsFit'
  BY <1>1, <1>2, <1>6, OneRunFits DEF PhoneInv
<1>8. EditedInv'
  BY <1>1, AllSettled DEF EditedInv, EditKept
<1> QED BY <1>2, <1>4, <1>5, <1>7, <1>8 DEF PhoneInv

LEMMA saveFits ==
  ASSUME PhoneInv, NEW t \in Thread, save(t)
  PROVE PhoneInv'
<1> DEFINE r == [Idle EXCEPT !.at = "stamp"]
<1>1. /\ run' = [run EXCEPT ![t] = r] /\ persisted' = run[t].sync
      /\ UNCHANGED <<seq, latest, settled, clock, file, broken, unchanged, edited, missed, apart>>
  BY DEF save, Continue, server, history
<1>2. Grows /\ ServerFits'
  BY <1>1, SameGrows DEF PhoneInv
<1>3. PhoneFits' /\ HistoryTypes'
  BY <1>1, RunFacts DEF PhoneInv, PhoneFits, HistoryTypes
<1>4. RunFits(r, seq, clock, settled) /\ ~Decoded(r)
  BY RunFacts, IdleFits
<1> HIDE DEF r
<1>5. RunsFit'
  BY <1>1, <1>2, <1>4, OneRunFits DEF PhoneInv
<1>6. EditedInv'
  <2>1. \A o \in Uuid : Has(r, o)
    BY <1>4 DEF Has
  <2> QED BY <1>1, <1>2, <2>1, EditsKept DEF PhoneInv
<1> QED BY <1>2, <1>3, <1>5, <1>6 DEF PhoneInv

-----------------------------------------------------------------------------
(* The user                                                                  *)

\* One object of the file is changed.
LEMMA ChangedFile ==
  ASSUME FileFits(file, clock), clock \in Nat, NEW o \in Uuid, NEW x \in Object,
         Timely(o, x, clock + 1), o \in Group => x.entry # None,
         o \in Entry /\ x.entry # None /\ x.entry.place \in Group =>
           Present(file, x.entry.place)
  PROVE LET f == [file EXCEPT ![o] = x]
        IN /\ FileFits(f, clock + 1) /\ f[o] = x
           /\ \A p \in Uuid : p # o => f[p] = file[p]
<1> DEFINE f == [file EXCEPT ![o] = x]
<1>1. f \in Files /\ f[o] = x /\ \A p \in Uuid : p # o => f[p] = file[p]
  BY DEF FileFits, Files
<1> SUFFICES FileFits(f, clock + 1)
  BY <1>1
<1> HIDE DEF f
<1>2. ASSUME NEW p \in Uuid
      PROVE Timely(p, f[p], clock + 1)
  <2>1. clock + 1 \in Nat /\ clock <= clock + 1
    OBVIOUS
  <2>2. p # o => f[p] \in Object /\ Timely(p, f[p], clock)
    BY <1>1 DEF FileFits, Files
  <2> QED BY <1>1, <2>1, <2>2, TimelyLater
<1>3. ASSUME NEW e \in Entry, Present(f, e), f[e].entry.place \in Group
      PROVE Present(f, f[e].entry.place)
  <2> DEFINE g == f[e].entry.place
  <2>1. e \in Uuid /\ g \in Uuid /\ g # e
    BY <1>3, ObjectAssumption DEF Uuid
  <2>2. Present(file, g)
    BY <1>1, <1>3, <2>1 DEF FileFits, GroupsPresent, Present
  <2> HIDE DEF g
  <2>3. g \in Group
    BY <1>3 DEF g
  <2>4. Present(f, g)
    BY <1>1, <2>1, <2>2, <2>3 DEF Present
  <2> QED BY <2>4 DEF g
<1> QED BY <1>1, <1>2, <1>3 DEF FileFits, GroupsPresent

LEMMA EntryChanged ==
  ASSUME file \in Files, NEW o \in Uuid, NEW e \in Local
  PROVE LET x == [entry |-> e, dead |-> file[o].dead]
        IN [file EXCEPT ![o].entry = e] = [file EXCEPT ![o] = x] /\ x \in Object
<1>1. file[o] \in Object
  BY DEF Files
<1>2. /\ [file[o] EXCEPT !.entry = e] = [entry |-> e, dead |-> file[o].dead]
      /\ file[o].dead \in Nat
  BY <1>1 DEF Object
<1>3. [file EXCEPT ![o].entry = e] = [file EXCEPT ![o] = [file[o] EXCEPT !.entry = e]]
  OBVIOUS
<1> QED BY <1>2, <1>3 DEF Object

\* Entries stay out of the bin when neither they nor a group got there.
LEMMA BinStays ==
  ASSUME NEW f, NEW o \in Uuid, \A p \in Uuid : p # o => f[p] = file[p],
         NEW p \in Uuid, p # o, InBin(f, p),
         file[p].entry.place # o \/ (f[o].entry # None /\ f[o].entry.place = Bin =>
                                     file[o].entry # None /\ file[o].entry.place = Bin)
  PROVE InBin(file, p)
<1>1. f[p] = file[p]
  OBVIOUS
<1> QED BY <1>1 DEF InBin, Present, Uuid

\* A save of the file that keeps edits, or is an edit.
LEMMA SaveFits ==
  ASSUME PhoneInv, NEW o \in Uuid, NEW what, NEW f, SaveFile(what, o, f),
         FileFits(f, clock + 1), edited' \in [Uuid -> Nat], apart' \subseteq Uuid,
         settled' \in [Uuid -> Nat],
         \A p \in Uuid : settled[p] <= settled'[p] /\ settled'[p] <= clock + 1,
         NEW S \in SUBSET Uuid,
         \A p \in Uuid : p \notin S => f[p] = file[p] /\ edited'[p] = edited[p]
                                       /\ (InBin(f, p) => InBin(file, p)),
         \A p \in S : p \notin missed' /\ edited'[p] # 0 /\ Running = {} =>
           \/ /\ f[p].entry # None /\ f[p].entry.data = edited'[p] /\ ~InBin(f, p)
           \/ p \notin missed /\ ~Shows(p) /\ edited'[p] = edited[p],
         \A p \in S : p = o \/ edited'[p] = 0,
         Running # {} => edited'[o] = 0 \/ o \in missed'
  PROVE PhoneInv'
<1>1. /\ clock' = clock + 1 /\ unchanged' = FALSE /\ file' = f /\ broken = FALSE
      /\ UNCHANGED <<seq, latest, faults, broken, persisted, run>>
      /\ missed' = IF Running # {} THEN missed \cup {o} ELSE missed
  BY DEF SaveFile, PhoneInv, PhoneFits
<1>2. Grows
  BY <1>1 DEF Grows, Later, PhoneInv, ServerFits
<1>3. ServerFits'
  <2>1. ASSUME NEW p \in Uuid
        PROVE /\ settled'[p] <= clock' /\ latest[p].content.mod <= settled'[p]
              /\ TimelyContent(p, latest[p].content, clock')
    <3>1. /\ settled[p] \in Nat /\ settled'[p] \in Nat /\ clock \in Nat
          /\ latest[p].content.mod \in Nat /\ latest[p].content.loc \in Nat
          /\ latest[p].content.mod <= settled[p] /\ TimelyContent(p, latest[p].content, clock)
      BY DEF PhoneInv, ServerFits, Store!Version, Content
    <3> QED BY <1>1, <3>1 DEF TimelyContent
  <2> QED BY <1>1, <1>2, <2>1 DEF PhoneInv, ServerFits, Grows, Later
<1>4. PhoneFits'
  <2>1. SyncFits(persisted, seq', settled')
    BY <1>2, SyncFitsLater DEF Grows, PhoneInv, PhoneFits
  <2> QED BY <1>1, <2>1 DEF PhoneInv, PhoneFits
<1>5. RunsFit'
  BY <1>1, <1>2, NoRunFits DEF PhoneInv
<1>6. HistoryTypes'
  BY <1>1 DEF PhoneInv, HistoryTypes
<1>7. Running = {} => \A t \in Thread, p \in Uuid : ~Decoded(run[t]) 
  BY DEF Running, Decoded
<1>8. ASSUME NEW p \in Uuid, p \notin missed', edited'[p] # 0
      PROVE edited'[p] <= settled'[p] \/ Shows(p)'
  <2>1. /\ edited[p] \in Nat /\ edited'[p] \in Nat /\ settled[p] \in Nat /\ settled'[p] \in Nat
        /\ settled[p] <= settled'[p]
    BY DEF PhoneInv, HistoryTypes, ServerFits
  <2>2. CASE p \notin S
    <3>1. EditKept(p) /\ edited'[p] = edited[p] /\ p \notin missed
      BY <1>1, <1>8, <2>2 DEF PhoneInv, EditedInv
    <3>2. CASE edited[p] <= settled[p]
      BY <2>1, <3>1, <3>2
    <3>3. CASE Shows(p)
      <4>1. /\ ~broken' /\ Present(file', p) /\ ~InBin(f, p) /\ f[p].entry.data = edited'[p]
        BY <1>1, <2>2, <3>1, <3>3 DEF Shows, Present
      <4>2. \A t \in Thread : Has(run[t], p)'
        BY <1>1, <3>1, <3>3 DEF Shows, Has, Decoded
      <4> QED BY <1>1, <4>1, <4>2 DEF Shows, InBin, Present
    <3> QED BY <1>8, <3>1, <3>2, <3>3 DEF EditKept
  <2>3. CASE p \in S
    <3>1. p = o /\ Running = {}
      BY <1>8, <2>3
    <3>2. CASE f[p].entry # None /\ f[p].entry.data = edited'[p] /\ ~InBin(f, p)
      <4>1. \A t \in Thread : Has(run[t], p)'
        BY <1>1, <1>7, <3>1 DEF Has, Decoded
      <4> QED BY <1>1, <3>2, <4>1 DEF Shows, InBin, Present
    <3>3. CASE p \notin missed /\ ~Shows(p) /\ edited'[p] = edited[p]
      BY <1>8, <2>1, <3>3 DEF PhoneInv, EditedInv, EditKept
    <3> QED BY <1>8, <2>3, <3>1, <3>2, <3>3
  <2> QED BY <2>2, <2>3
<1>9. EditedInv'
  BY <1>8 DEF EditedInv, EditKept
<1> QED BY <1>3, <1>4, <1>5, <1>6, <1>9 DEF PhoneInv

\* What the invariant says of the file.
LEMMA FileFacts ==
  ASSUME PhoneInv
  PROVE /\ FileFits(file, clock) /\ file \in Files /\ clock \in Nat
        /\ edited \in [Uuid -> Nat] /\ missed \subseteq Uuid /\ apart \subseteq Uuid
        /\ settled \in [Uuid -> Nat]
        /\ \A p \in Uuid : settled[p] <= clock
        /\ \A p \in Uuid : file[p] \in Object /\ Timely(p, file[p], clock)
        /\ \A p \in Uuid : Present(file, p) => file[p].entry \in Local
BY DEF PhoneInv, PhoneFits, FileFits, ServerFits, HistoryTypes, Files, Object, Present

\* The times a step of the user leaves alone.
LEMMA SettledStays ==
  ASSUME PhoneInv, UNCHANGED settled
  PROVE /\ settled' \in [Uuid -> Nat]
        /\ \A p \in Uuid : settled[p] <= settled'[p] /\ settled'[p] <= clock + 1
BY FileFacts

\* What an edit changes of an entry.
LEMMA EditedEntry ==
  ASSUME NEW old \in Local, NEW n \in Nat
  PROVE LET e == [old EXCEPT !.data = n, !.mod = n]
        IN e \in Local /\ e.data = n /\ e.mod = n /\ e.loc = old.loc /\ e.place = old.place
BY DEF Local

\* The file after an edit.
LEMMA EditedFile ==
  ASSUME PhoneInv, NEW o \in Uuid, Edit(o)
  PROVE \E f : /\ SaveFile("edit", o, f) /\ FileFits(f, clock + 1)
               /\ f[o].entry # None /\ f[o].entry.place = file[o].entry.place
               /\ f[o].entry.data = clock + 1 /\ f[o].entry.mod = clock + 1
               /\ f[o].dead = file[o].dead
               /\ \A q \in Uuid : q # o => f[q] = file[q]
<1> DEFINE old == file[o].entry
           e == [old EXCEPT !.data = clock + 1, !.mod = clock + 1]
           x == [entry |-> e, dead |-> file[o].dead]
           f == [file EXCEPT ![o] = x]
<1>1. Present(file, o) /\ SaveFile("edit", o, [file EXCEPT ![o].entry = e])
  BY DEF Edit
<1>2. /\ old \in Local /\ clock \in Nat /\ Timely(o, file[o], clock) /\ file[o] \in Object
      /\ file \in Files /\ FileFits(file, clock)
  BY <1>1, FileFacts
<1>3. /\ e \in Local /\ e.data = clock + 1 /\ e.mod = clock + 1
      /\ e.loc = old.loc /\ e.place = old.place
  <2>1. clock + 1 \in Nat
    BY <1>2
  <2> HIDE DEF old
  <2> QED BY <1>2, <2>1, EditedEntry
<1>4. old # None /\ e # None
  BY <1>2, <1>3, NoneIsNotLocal
<1> HIDE DEF e
<1>5. [file EXCEPT ![o].entry = e] = f /\ x \in Object
  BY <1>2, <1>3, EntryChanged
<1>6. x.entry = e /\ x.dead = file[o].dead
  OBVIOUS
<1> HIDE DEF x
<1>7. Timely(o, x, clock + 1)
  BY <1>2, <1>3, <1>4, <1>6 DEF Timely, Object, Local
<1>8. o \in Entry /\ x.entry.place \in Group => Present(file, x.entry.place)
  BY <1>1, <1>2, <1>3, <1>6 DEF FileFits, GroupsPresent
<1>9. FileFits(f, clock + 1) /\ f[o] = x /\ \A p \in Uuid : p # o => f[p] = file[p]
  BY <1>2, <1>4, <1>5, <1>6, <1>7, <1>8, ChangedFile
<1>10. SaveFile("edit", o, f)
  BY <1>1, <1>5, Zenon
<1> HIDE DEF f
<1> QED BY <1>3, <1>4, <1>6, <1>9, <1>10

LEMMA EditFits ==
  ASSUME PhoneInv, NEW o \in Uuid, Edit(o)
  PROVE PhoneInv'
<1>1. /\ Present(file, o) /\ ~InBin(file, o) /\ UNCHANGED <<apart, settled>>
      /\ edited' = [edited EXCEPT ![o] = IF Running = {} THEN clock + 1 ELSE 0]
  BY DEF Edit
<1>2. PICK f : /\ SaveFile("edit", o, f) /\ FileFits(f, clock + 1)
               /\ f[o].entry # None /\ f[o].entry.place = file[o].entry.place
               /\ f[o].entry.data = clock + 1
               /\ \A q \in Uuid : q # o => f[q] = file[q]
  BY EditedFile
<1>3. /\ edited' \in [Uuid -> Nat] /\ apart' \subseteq Uuid
      /\ edited'[o] = IF Running = {} THEN clock + 1 ELSE 0
      /\ \A p \in Uuid : p # o => edited'[p] = edited[p]
  BY <1>1, FileFacts
<1>4. ASSUME NEW p \in Uuid, InBin(f, p)
      PROVE InBin(file, p)
  BY <1>1, <1>2, <1>4 DEF InBin, Present, Uuid
<1>5. ~InBin(f, o)
  BY <1>1, <1>4
<1> DEFINE S == {o}
<1>6. /\ S \in SUBSET Uuid
      /\ \A p \in Uuid : p \notin S => f[p] = file[p] /\ edited'[p] = edited[p]
                                       /\ (InBin(f, p) => InBin(file, p))
      /\ \A p \in S : p = o \/ edited'[p] = 0
  BY <1>2, <1>3, <1>4
<1>7. \A p \in S : p \notin missed' /\ edited'[p] # 0 /\ Running = {} =>
          \/ f[p].entry # None /\ f[p].entry.data = edited'[p] /\ ~InBin(f, p)
          \/ p \notin missed /\ ~Shows(p) /\ edited'[p] = edited[p]
  BY <1>2, <1>3, <1>5
<1>8. Running # {} => edited'[o] = 0 \/ o \in missed'
  BY <1>3
<1> HIDE DEF S
<1>9. SaveFile("edit", o, f) /\ FileFits(f, clock + 1)
  BY <1>2
<1>10. /\ settled' \in [Uuid -> Nat]
       /\ \A p \in Uuid : settled[p] <= settled'[p] /\ settled'[p] <= clock + 1
  BY <1>1, SettledStays
<1>11. edited' \in [Uuid -> Nat] /\ apart' \subseteq Uuid
  BY <1>3
<1> QED BY <1>6, <1>7, <1>8, <1>9, <1>10, <1>11, SaveFits

\* Another place in the file.
LEMMA Relocated ==
  ASSUME PhoneInv, NEW o \in Uuid, Present(file, o), NEW p \in Place, NEW what,
         Relocate(what, o, p), o \in Group => p \notin Group,
         o \in Entry /\ p \in Group => Present(file, p)
  PROVE \E f : /\ SaveFile(what, o, f) /\ FileFits(f, clock + 1)
               /\ f[o].entry # None /\ f[o].entry.place = p
               /\ f[o].entry.data = file[o].entry.data
               /\ f[o].entry.mod = file[o].entry.mod
               /\ f[o].entry.loc = clock + 1 /\ f[o].dead = file[o].dead
               /\ \A q \in Uuid : q # o => f[q] = file[q]
<1> DEFINE old == file[o].entry
           e == [old EXCEPT !.place = p, !.loc = clock + 1]
           x == [entry |-> e, dead |-> file[o].dead]
           f == [file EXCEPT ![o] = x]
<1>1. SaveFile(what, o, [file EXCEPT ![o].entry = e])
  BY DEF Relocate
<1>2. /\ old \in Local /\ clock \in Nat /\ Timely(o, file[o], clock) /\ file[o] \in Object
      /\ file \in Files /\ FileFits(file, clock)
  BY FileFacts
<1>3. /\ e \in Local /\ e.data = old.data /\ e.mod = old.mod
      /\ e.loc = clock + 1 /\ e.place = p
  <2>1. PICK n \in Nat : n = clock + 1
    BY <1>2
  <2>2. PICK l \in Local : l = old
    BY <1>2
  <2>3. e = [l EXCEPT !.place = p, !.loc = n]
    BY <2>1, <2>2
  <2> HIDE DEF old, e
  <2>4. /\ e \in Local /\ e.data = l.data /\ e.mod = l.mod /\ e.loc = n /\ e.place = p
    BY <2>3 DEF Local
  <2> QED BY <2>1, <2>2, <2>4
<1>4. old # None /\ e # None
  BY <1>2, <1>3, NoneIsNotLocal
<1> HIDE DEF e
<1>5. [file EXCEPT ![o].entry = e] = f /\ x \in Object
  BY <1>2, <1>3, EntryChanged
<1>6. x.entry = e /\ x.dead = file[o].dead
  OBVIOUS
<1> HIDE DEF x
<1>7. Timely(o, x, clock + 1)
  BY <1>2, <1>3, <1>4, <1>6 DEF Timely, Object, Local
<1>8. FileFits(f, clock + 1) /\ f[o] = x /\ \A q \in Uuid : q # o => f[q] = file[q]
  BY <1>2, <1>3, <1>4, <1>5, <1>6, <1>7, ChangedFile
<1>10. SaveFile(what, o, f)
  BY <1>1, <1>5, Zenon
<1> HIDE DEF f
<1> QED BY <1>3, <1>4, <1>6, <1>8, <1>10

LEMMA MoveFits ==
  ASSUME PhoneInv, NEW e \in Entry, NEW p \in Folder, Move(e, p)
  PROVE PhoneInv'
<1>1. /\ Present(file, e) /\ ~InBin(file, e) /\ Relocate("move", e, p)
      /\ p \in Group => Present(file, p) /\ ~InBin(file, p)
      /\ UNCHANGED <<apart, edited, settled>>
  BY DEF Move
<1>2. e \in Uuid /\ e \notin Group /\ p \in Place /\ p # Bin
  BY ObjectAssumption, BinAssumption DEF Uuid, Place
<1>3. PICK f : /\ SaveFile("move", e, f) /\ FileFits(f, clock + 1)
               /\ f[e].entry # None /\ f[e].entry.place = p
               /\ f[e].entry.data = file[e].entry.data
               /\ \A q \in Uuid : q # e => f[q] = file[q]
  BY <1>1, <1>2, Relocated
<1>4. ~InBin(f, e)
  BY <1>1, <1>2, <1>3 DEF InBin, Present, Uuid
<1>5. \A q \in Uuid : q # e /\ InBin(f, q) => InBin(file, q)
  BY <1>2, <1>3 DEF InBin, Present, Uuid
<1>6. edited' \in [Uuid -> Nat] /\ apart' \subseteq Uuid
  BY <1>1, FileFacts
<1>7. missed' = IF Running # {} THEN missed \cup {e} ELSE missed
  BY <1>3 DEF SaveFile
<1>8. ASSUME e \notin missed', edited'[e] # 0, Running = {}
      PROVE \/ f[e].entry # None /\ f[e].entry.data = edited'[e] /\ ~InBin(f, e)
            \/ e \notin missed /\ ~Shows(e) /\ edited'[e] = edited[e]
  BY <1>1, <1>3, <1>4, <1>7, <1>8 DEF Shows
<1> DEFINE S == {e}
<1>9. /\ S \in SUBSET Uuid
      /\ \A q \in Uuid : q \notin S => f[q] = file[q] /\ edited'[q] = edited[q]
                                       /\ (InBin(f, q) => InBin(file, q))
      /\ \A q \in S : q = e \/ edited'[q] = 0
      /\ \A q \in S : q \notin missed' /\ edited'[q] # 0 /\ Running = {} =>
           \/ f[q].entry # None /\ f[q].entry.data = edited'[q] /\ ~InBin(f, q)
           \/ q \notin missed /\ ~Shows(q) /\ edited'[q] = edited[q]
  BY <1>1, <1>2, <1>3, <1>5, <1>8
<1>10. Running # {} => e \in missed'
  BY <1>7
<1> HIDE DEF S
<1> QED BY <1>1, <1>2, <1>3, <1>6, <1>9, <1>10, SettledStays, SaveFits

LEMMA RestoreFits ==
  ASSUME PhoneInv, NEW o \in Uuid, Restore(o)
  PROVE PhoneInv'
<1>1. /\ Present(file, o) /\ file[o].entry.place = Bin /\ Relocate("restore", o, Root)
      /\ apart' = apart \cup Inside(o) \cup {o} /\ UNCHANGED <<edited, settled>>
  BY DEF Restore
<1>2. Root \in Place /\ Root \notin Group /\ Root # Bin /\ InBin(file, o)
  BY <1>1, FolderAssumption, BinAssumption DEF Place, InBin
<1>3. PICK f : /\ SaveFile("restore", o, f) /\ FileFits(f, clock + 1)
               /\ f[o].entry # None /\ f[o].entry.place = Root
               /\ f[o].entry.data = file[o].entry.data
               /\ \A q \in Uuid : q # o => f[q] = file[q]
  BY <1>1, <1>2, Relocated
<1>4. \A q \in Uuid : q # o /\ InBin(f, q) => InBin(file, q)
  BY <1>2, <1>3 DEF InBin, Present, Uuid
<1>5. edited' \in [Uuid -> Nat] /\ apart' \subseteq Uuid
  BY <1>1, FileFacts DEF Inside, Uuid
<1>6. missed' = IF Running # {} THEN missed \cup {o} ELSE missed
  BY <1>3 DEF SaveFile
<1> DEFINE S == {o}
<1>7. /\ S \in SUBSET Uuid
      /\ \A q \in Uuid : q \notin S => f[q] = file[q] /\ edited'[q] = edited[q]
                                       /\ (InBin(f, q) => InBin(file, q))
      /\ \A q \in S : q = o \/ edited'[q] = 0
      /\ \A q \in S : q \notin missed' /\ edited'[q] # 0 /\ Running = {} =>
           q \notin missed /\ ~Shows(q) /\ edited'[q] = edited[q]
  BY <1>1, <1>2, <1>3, <1>4, <1>6 DEF Shows
<1>8. Running # {} => o \in missed'
  BY <1>6
<1> HIDE DEF S
<1> QED BY <1>1, <1>3, <1>5, <1>7, <1>8, SettledStays, SaveFits

LEMMA TrashFits ==
  ASSUME PhoneInv, NEW o \in Uuid, Trash(o)
  PROVE PhoneInv'
<1> DEFINE gone == Inside(o) \cup {o}
<1>1. /\ Present(file, o) /\ ~InBin(file, o) /\ Relocate("trash", o, Bin)
      /\ edited' = [x \in Uuid |-> IF x \in gone THEN 0 ELSE edited[x]]
      /\ settled' = [x \in Uuid |-> IF x \in gone \cap Entry THEN clock + 1 ELSE settled[x]]
      /\ apart' = apart \cup Inside(o)
                  \cup (IF o \in Group \/ file[o].dead # 0 THEN {o} ELSE {})
  BY DEF Trash
<1>2. Bin \in Place /\ Bin \notin Group
  BY FolderAssumption, BinAssumption DEF Place
<1>3. PICK f : /\ SaveFile("trash", o, f) /\ FileFits(f, clock + 1)
               /\ f[o].entry # None /\ f[o].entry.place = Bin
               /\ f[o].entry.data = file[o].entry.data
               /\ \A q \in Uuid : q # o => f[q] = file[q]
  BY <1>1, <1>2, Relocated
<1>4. gone \subseteq Uuid /\ o \in gone
  BY DEF Inside, Uuid
<1>5. ASSUME NEW q \in Uuid, q \notin gone, InBin(f, q)
      PROVE InBin(file, q)
  <2>1. q # o /\ f[q] = file[q] /\ file[q].entry # None
    BY <1>3, <1>5 DEF InBin, Present
  <2>2. o \in Group => file[q].entry.place # o
    <3>1. CASE q \in Entry
      BY <1>5, <2>1, <3>1 DEF Inside, Present
    <3>2. CASE q \in Group
      BY <2>1, <3>2, FileFacts DEF Timely
    <3> QED BY <3>1, <3>2 DEF Uuid
  <2> QED BY <1>3, <1>5, <2>1, <2>2 DEF InBin, Present, Uuid
<1>6. /\ edited' \in [Uuid -> Nat] /\ apart' \subseteq Uuid
      /\ \A q \in gone : edited'[q] = 0
      /\ \A q \in Uuid : q \notin gone => edited'[q] = edited[q]
  BY <1>1, <1>4, FileFacts
<1>7. /\ settled' \in [Uuid -> Nat]
      /\ \A q \in Uuid : settled[q] <= settled'[q] /\ settled'[q] <= clock + 1
  <2>1. clock \in Nat /\ settled \in [Uuid -> Nat] /\ \A q \in Uuid : settled[q] <= clock
    BY FileFacts
  <2> HIDE DEF gone
  <2>2. \A q \in Uuid : settled'[q] = IF q \in gone \cap Entry THEN clock + 1 ELSE settled[q]
    BY <1>1
  <2> QED BY <1>1, <2>1, <2>2
<1> HIDE DEF gone
<1>8. \A q \in Uuid : q \notin gone => f[q] = file[q] /\ edited'[q] = edited[q]
                                       /\ (InBin(f, q) => InBin(file, q))
  BY <1>3, <1>4, <1>5, <1>6
<1> QED BY <1>3, <1>4, <1>6, <1>7, <1>8, SaveFits

LEMMA PurgeFits ==
  ASSUME PhoneInv, NEW e \in Entry, Purge(e)
  PROVE PhoneInv'
<1> DEFINE x == [entry |-> None, dead |-> clock + 1]
           f == [file EXCEPT ![e] = x]
<1>1. /\ SaveFile("purge", e, f) /\ UNCHANGED <<apart, settled>>
      /\ edited' = [edited EXCEPT ![e] = 0]
  BY DEF Purge
<1>2. FileFits(file, clock) /\ clock \in Nat /\ e \in Uuid /\ e \notin Group
  BY FileFacts, ObjectAssumption DEF Uuid
<1>3. x \in Object /\ x.entry = None /\ Timely(e, x, clock + 1)
  BY <1>2 DEF Object, Timely
<1> HIDE DEF x
<1>4. FileFits(f, clock + 1) /\ \A q \in Uuid : q # e => f[q] = file[q]
  BY <1>2, <1>3, ChangedFile
<1> HIDE DEF f
<1>5. \A q \in Uuid : q # e /\ InBin(f, q) => InBin(file, q)
  BY <1>2, <1>4 DEF InBin, Present, Uuid
<1>6. /\ edited' \in [Uuid -> Nat] /\ apart' \subseteq Uuid /\ edited'[e] = 0
      /\ \A q \in Uuid : q # e => edited'[q] = edited[q]
  BY <1>1, <1>2, FileFacts
<1> DEFINE S == {e}
<1>7. /\ S \in SUBSET Uuid
      /\ \A q \in Uuid : q \notin S => f[q] = file[q] /\ edited'[q] = edited[q]
                                       /\ (InBin(f, q) => InBin(file, q))
      /\ \A q \in S : q = e \/ edited'[q] = 0
      /\ \A q \in S : q \notin missed' /\ edited'[q] # 0 /\ Running = {} =>
           \/ f[q].entry # None /\ f[q].entry.data = edited'[q] /\ ~InBin(f, q)
           \/ q \notin missed /\ ~Shows(q) /\ edited'[q] = edited[q]
      /\ Running # {} => edited'[e] = 0 \/ e \in missed'
  BY <1>2, <1>4, <1>5, <1>6
<1> HIDE DEF S
<1> QED BY <1>1, <1>2, <1>4, <1>6, <1>7, SettledStays, SaveFits

-----------------------------------------------------------------------------
(* Other devices, and the theorems                                           *)

LEMMA WriteOtherFits ==
  ASSUME PhoneInv, NEW o \in Uuid, NEW c \in Content, NEW what,
         TimelyContent(o, c, clock + 1), WriteOther(what, o, c)
  PROVE PhoneInv'
<1>1. /\ clock' = clock + 1 /\ Store!Write(o, c)
      /\ settled' = [settled EXCEPT ![o] = laterTime(@, c.mod)]
      /\ UNCHANGED <<file, broken, persisted, unchanged, run, edited, missed>>
      /\ apart' \subseteq Uuid
  BY DEF WriteOther, phone, PhoneInv, HistoryTypes
<1>2. ServerFits' /\ Grows
  BY <1>1, WriteFits DEF PhoneInv
<1>3. PhoneFits' /\ HistoryTypes'
  BY <1>1, <1>2, PhoneFitsLater DEF PhoneInv, PhoneFits, HistoryTypes
<1>4. RunsFit'
  BY <1>1, <1>2, NoRunFits DEF PhoneInv
<1>5. EditedInv'
  <2>1. ASSUME NEW p \in Uuid, p \notin missed, edited[p] # 0
        PROVE edited[p] <= settled'[p] \/ Shows(p)'
    <3>1. /\ edited[p] \in Nat /\ settled[p] \in Nat /\ settled'[p] \in Nat
          /\ settled[p] <= settled'[p]
      BY <1>2 DEF PhoneInv, HistoryTypes, Grows, Later
    <3>2. Shows(p) => Shows(p)'
      BY <1>1 DEF Shows, Has, Decoded, InBin, Present
    <3> QED BY <2>1, <3>1, <3>2 DEF PhoneInv, EditedInv, EditKept
  <2> QED BY <1>1, <2>1 DEF EditedInv, EditKept
<1> QED BY <1>2, <1>3, <1>4, <1>5 DEF PhoneInv

LEMMA OtherFits ==
  ASSUME PhoneInv, OtherStep
  PROVE PhoneInv'
<1>1. PICK o \in Uuid :
        LET c == latest[o].content
            alive == [c EXCEPT !.deleted = FALSE, !.place = IF c.deleted THEN Root ELSE @]
        IN \/ WriteOther("edit", o, [alive EXCEPT !.data = clock + 1, !.mod = clock + 1])
           \/ o \in Entry /\ ~c.deleted
              /\ \E p \in Folder \ {c.place} :
                   WriteOther("move", o, [c EXCEPT !.place = p, !.loc = clock + 1])
           \/ ~c.deleted /\ WriteOther("delete", o, Tombstone(clock + 1))
  BY DEF OtherStep
<1>2. PICK c : c = latest[o].content
  OBVIOUS
<1>3. c \in Content /\ clock \in Nat /\ TimelyContent(o, c, clock)
  BY <1>2 DEF PhoneInv, ServerFits, Store!Version
<1>4. PICK n \in Nat : n = clock + 1
  BY <1>3
<1>5. c.mod <= n /\ c.loc <= n
  BY <1>3, <1>4 DEF TimelyContent, Content
<1> DEFINE alive == [c EXCEPT !.deleted = FALSE, !.place = IF c.deleted THEN Root ELSE @]
           newer == [alive EXCEPT !.data = n, !.mod = n]
<1>6. \/ WriteOther("edit", o, newer)
      \/ o \in Entry /\ ~c.deleted
         /\ \E p \in Folder : WriteOther("move", o, [c EXCEPT !.place = p, !.loc = n])
      \/ ~c.deleted /\ WriteOther("delete", o, Tombstone(n))
  BY <1>1, <1>2, <1>4
<1>7. newer \in Content /\ TimelyContent(o, newer, n)
  <2>1. PICK q : q = IF c.deleted THEN Root ELSE c.place
    OBVIOUS
  <2>2. q \in Place /\ (o \in Group => q \notin Group)
    BY <1>3, <2>1, FolderAssumption DEF Content, Place, TimelyContent
  <2>3. alive = [c EXCEPT !.deleted = FALSE, !.place = q]
    BY <1>3, <2>1 DEF Content
  <2>4. /\ alive \in Content /\ alive.deleted = FALSE /\ alive.place = q /\ alive.loc = c.loc
    BY <1>3, <2>2, <2>3 DEF Content
  <2> HIDE DEF alive
  <2>5. /\ newer \in Content /\ newer.deleted = FALSE /\ newer.place = q /\ newer.loc = c.loc
        /\ newer.data = n /\ newer.mod = n
    BY <2>4 DEF Content
  <2> HIDE DEF newer
  <2> QED BY <1>5, <2>2, <2>5 DEF TimelyContent
<1> HIDE DEF newer
<1>8. ASSUME NEW p \in Folder, ~c.deleted, o \in Entry
      PROVE /\ [c EXCEPT !.place = p, !.loc = n] \in Content
            /\ TimelyContent(o, [c EXCEPT !.place = p, !.loc = n], n)
  <2> DEFINE d == [c EXCEPT !.place = p, !.loc = n]
  <2>1. p \in Place /\ o \notin Group
    BY <1>8, ObjectAssumption DEF Place
  <2>2. /\ d \in Content /\ d.deleted = c.deleted /\ d.data = c.data /\ d.mod = c.mod
        /\ d.loc = n
    BY <1>3, <2>1 DEF Content
  <2> HIDE DEF d
  <2>3. TimelyContent(o, d, n)
    BY <1>3, <1>5, <1>8, <2>1, <2>2 DEF TimelyContent
  <2> QED BY <2>2, <2>3 DEF d
<1>9. Tombstone(n) \in Content /\ TimelyContent(o, Tombstone(n), n)
  BY DEF Tombstone, Content, Place, TimelyContent
<1>10. ASSUME NEW d \in Content, NEW what, TimelyContent(o, d, n), WriteOther(what, o, d)
       PROVE PhoneInv'
  BY <1>4, <1>10, WriteOtherFits
<1> QED BY <1>6, <1>7, <1>8, <1>9, <1>10

\* In the first state the objects have numbers below the newest one.
LEMMA InitSeq ==
  ASSUME Init
  PROVE /\ seq \in Nat
        /\ \E n \in [Uuid -> 1 .. seq] : latest = [o \in Uuid |->
             [uuid |-> o, seq |-> n[o], content |->
               [deleted |-> FALSE, place |-> IF o \in Group THEN Root ELSE home[o], data |-> 1,
                mod |-> 1, loc |-> 1]]]
<1> DEFINE N == Cardinality(Uuid)
           n == CHOOSE f \in [Uuid -> 1 .. seq] : \A o, p \in Uuid : f[o] = f[p] => o = p
<1>1. N \in Nat /\ ExistsBijection(1 .. N, Uuid)
  BY FiniteAssumption, FS_CardinalityType DEF Uuid
<1>2. \E f \in [Uuid -> 1 .. N] : \A o, p \in Uuid : f[o] = f[p] => o = p
  <2>1. PICK g \in [1 .. N -> Uuid] : \A u \in Uuid : \E i \in 1 .. N : g[i] = u
    BY <1>1 DEF ExistsBijection, Bijection, Surjection
  <2> DEFINE f == [u \in Uuid |-> CHOOSE i \in 1 .. N : g[i] = u]
  <2>2. \A u \in Uuid : f[u] \in 1 .. N /\ g[f[u]] = u
    BY <2>1
  <2>3. f \in [Uuid -> 1 .. N]
    BY <2>2
  <2> HIDE DEF f
  <2> QED BY <2>2, <2>3
<1>3. seq = N
  BY DEF Init
<1>4. n \in [Uuid -> 1 .. seq]
  BY <1>2, <1>3
<1>5. latest = [o \in Uuid |-> [uuid |-> o, seq |-> n[o], content |->
        [deleted |-> FALSE, place |-> IF o \in Group THEN Root ELSE home[o], data |-> 1,
         mod |-> 1, loc |-> 1]]]
  BY DEF Init
<1> HIDE DEF n, N
<1> QED BY <1>1, <1>3, <1>4, <1>5

LEMMA InitFits == Init => PhoneInv
<1> SUFFICES ASSUME Init PROVE PhoneInv
  OBVIOUS
<1>1. PICK n \in [Uuid -> 1 .. seq] : latest = [o \in Uuid |->
        [uuid |-> o, seq |-> n[o], content |->
          [deleted |-> FALSE, place |-> IF o \in Group THEN Root ELSE home[o], data |-> 1,
           mod |-> 1, loc |-> 1]]]
  BY InitSeq
<1>2. seq \in Nat
  BY InitSeq
<1> DEFINE c(o) == [deleted |-> FALSE, place |-> IF o \in Group THEN Root ELSE home[o],
                    data |-> 1, mod |-> 1, loc |-> 1]
           v(o) == [uuid |-> o, seq |-> n[o], content |-> c(o)]
           e(o) == [place |-> latest[o].content.place, data |-> 1, mod |-> 1, loc |-> 1]
           x(o) == [dead |-> 0, entry |-> e(o)]
<1>3. latest = [o \in Uuid |-> v(o)]
  BY <1>1
<1>4. /\ file = [o \in Uuid |-> x(o)]
      /\ clock = 1 /\ broken = FALSE /\ unchanged = TRUE
      /\ persisted = [lastSeq |-> seq, syncedAt |-> [o \in Uuid |-> 1]]
      /\ run = [t \in Thread |-> Idle]
      /\ settled = [o \in Uuid |-> 1] /\ edited = [o \in Uuid |-> 0]
      /\ missed = {} /\ apart = {}
  BY DEF Init
<1>5. ASSUME NEW o \in Uuid
      PROVE /\ c(o) \in Content /\ TimelyContent(o, c(o), 1) /\ c(o).mod = 1 /\ ~c(o).deleted
            /\ v(o) \in Store!Version /\ v(o).content = c(o)
  <2>1. PICK q : q = IF o \in Group THEN Root ELSE home[o]
    OBVIOUS
  <2>2. q \in Place /\ (o \in Group => q \notin Group)
    BY <2>1, FolderAssumption, ObjectAssumption DEF Place, Uuid
  <2>3. c(o) \in Content /\ TimelyContent(o, c(o), 1) /\ c(o).mod = 1 /\ ~c(o).deleted
    BY <2>1, <2>2 DEF Content, TimelyContent
  <2>4. n[o] \in Nat \ {0}
    BY <1>1, <1>2
  <2> HIDE DEF c
  <2> QED BY <2>3, <2>4 DEF Store!Version
<1> HIDE DEF c, v
<1>6. \A o \in Uuid : /\ latest[o] \in Store!Version /\ latest[o].content = c(o)
                      /\ latest[o].content \in Content
  BY <1>3, <1>5
<1>7. ServerFits
  <2>1. latest \in [Uuid -> Store!Version]
    BY <1>3, <1>5
  <2> QED BY <1>2, <1>4, <1>5, <1>6, <2>1 DEF ServerFits
<1>8. ASSUME NEW o \in Uuid
      PROVE x(o) \in Object /\ Timely(o, x(o), 1) /\ x(o).entry # None
  <2>1. PICK q \in Place : q = latest[o].content.place /\ (o \in Group => q \notin Group)
    BY <1>5, <1>6 DEF Content, TimelyContent, Place
  <2>2. e(o) = [place |-> q, data |-> 1, mod |-> 1, loc |-> 1]
    BY <2>1
  <2>3. e(o) \in Local /\ e(o).place = q /\ e(o).data = 1 /\ e(o).mod = 1 /\ e(o).loc = 1
    BY <2>2 DEF Local
  <2> HIDE DEF e
  <2>4. e(o) # None
    BY <2>3, NoneIsNotLocal
  <2>5. x(o) \in Object /\ x(o).entry = e(o) /\ x(o).dead = 0
    BY <2>3 DEF Object
  <2> HIDE DEF x
  <2> QED BY <2>1, <2>3, <2>4, <2>5 DEF Timely
<1> HIDE DEF x
<1>9. file \in Files /\ \A o \in Uuid : Timely(o, file[o], 1) /\ file[o].entry # None
  BY <1>4, <1>8 DEF Files
<1>10. SyncFits(persisted, seq, settled)
  BY <1>2, <1>4 DEF SyncFits, Persisted
<1>11. PhoneFits
  BY <1>4, <1>9, <1>10 DEF PhoneFits, FileFits, GroupsPresent, Present, Uuid
<1>12. RunsFit
  <2>1. RunFits(Idle, seq, clock, settled)
    BY <1>2, <1>4, IdleFits
  <2> QED BY <1>4, <2>1 DEF RunsFit, RunFits
<1>13. HistoryTypes /\ EditedInv
  BY <1>4 DEF HistoryTypes, EditedInv, EditKept
<1> QED BY <1>7, <1>11, <1>12, <1>13 DEF PhoneInv

LEMMA PhoneInvStep == PhoneInv /\ [Next]_vars => PhoneInv'
<1> SUFFICES ASSUME PhoneInv, [Next]_vars PROVE PhoneInv'
  OBVIOUS
<1>1. CASE UserStep
  BY <1>1, EditFits, TrashFits, RestoreFits, PurgeFits, MoveFits DEF UserStep
<1>2. CASE OtherStep
  BY <1>2, OtherFits
<1>3. CASE Crash
  BY <1>3, CrashFits
<1>4. ASSUME NEW t \in Thread, RunStep(t)
      PROVE PhoneInv'
  BY <1>4, OpenFits, loadFits, pullFits, pushFits, TruncateFits, writeAtomicFits, saveFits,
     fingerprintFits, RequestFailsFits, AnswerLostFits DEF RunStep
<1>5. CASE UNCHANGED vars
  <2>1. ServerFits' /\ Grows
    BY <1>5, SameGrows DEF PhoneInv, vars
  <2>2. PhoneFits' /\ HistoryTypes'
    BY <1>5, <2>1, PhoneFitsLater DEF PhoneInv, PhoneFits, HistoryTypes, vars
  <2>3. RunsFit'
    BY <1>5, <2>1, NoRunFits DEF PhoneInv, vars
  <2>4. EditedInv'
    BY <1>5 DEF PhoneInv, EditedInv, EditKept, Shows, Has, Decoded, InBin, Present, vars
  <2> QED BY <2>1, <2>2, <2>3, <2>4 DEF PhoneInv
<1> QED BY <1>1, <1>2, <1>3, <1>4, <1>5 DEF Next

LEMMA PhoneInvHolds == Spec => []PhoneInv
BY InitFits, PhoneInvStep, PTL DEF Spec

-----------------------------------------------------------------------------
(* File and server in step, and probes that skip                             *)
(*                                                                           *)
(* Of one object, what its newest version L, the bookkeeping p, the file as   *)
(* it is read x, a state y and a run r tell of each other; m is whether it    *)
(* was saved while a run was under way.                                       *)

\* The object would be pushed after the given time.
DueAt(x, time) ==
  \/ x.entry # None /\ time < x.entry.mod
  \/ x.dead # 0 /\ time < x.dead

\* It shows what a version has.
Agrees(x, c) ==
  IF c.deleted THEN x.entry = None
  ELSE x.entry # None /\ x.entry.mod = c.mod

\* What was read of the server is recorded, and nothing later.
SyncTells(s, L, o) ==
  /\ s.syncedAt[o] <= L.content.mod
  /\ L.seq <= s.lastSeq => s.syncedAt[o] = L.content.mod

ShowsOrDue(x, s, L, o) ==
  L.seq <= s.lastSeq => DueAt(x, s.syncedAt[o]) \/ Agrees(x, L.content)

\* The file has what a run decoded, or the user saved something newer since.
Same(x, y) ==
  /\ x.entry = None <=> y.entry = None
  /\ x.dead = y.dead
  /\ x.entry # None => x.entry.mod = y.entry.mod

Newer(x, y, time) ==
  /\ DueAt(x, time)
  /\ y.entry # None => DueAt(x, y.entry.mod)
  /\ y.dead # 0 => DueAt(x, y.dead)

Follows(x, y, time, m) ==
  /\ Same(x, y) \/ Newer(x, y, time)
  /\ ~m => Same(x, y)

\* What a run's state leaves out the decoded file has not, or has in the bin.
FromFile(o, d, y, L) ==
  /\ y.entry = None /\ y.dead = 0 =>
       /\ o \in Entry => d.dead = 0
       /\ o \in Group => d.entry = None \/ d.entry.place = Bin
  /\ o \in Group => d.dead <= L.content.mod

Loaded(r, o, L, p, x, m) ==
  /\ Follows(x, r.state[o], p.syncedAt[o], m)
  /\ ShowsOrDue(r.state[o], p, L, o)
  /\ o \in Group => r.state[o].dead = r.db[o].dead

\* What is not to be sent is recorded.
Recorded(r, o, p) ==
  LET y == r.state[o]
      time == r.sync.syncedAt[o] IN
  /\ y.entry # None => <<o, FALSE>> \in r.due \/ y.entry.mod <= time
  /\ y.dead # 0 => <<o, TRUE>> \in r.due \/ y.dead <= time
  /\ o \in Group /\ y.dead = 0 => r.db[o].dead <= time
  /\ p.lastSeq <= r.sync.lastSeq

\* What is to be sent is newer than what the server has, but for the deletion of a
\* group that is there, and what is not to be sent the server has.
InPush(r, o, L, x, m) ==
  LET y == r.state[o]
      time == r.sync.syncedAt[o] IN
  /\ ~r.pulled => Follows(x, y, time, m)
  /\ L.seq <= r.sync.lastSeq /\ time <= L.content.mod
  /\ <<o, FALSE>> \in r.due => y.entry # None /\ L.content.mod < y.entry.mod
  /\ <<o, TRUE>> \in r.due => y.dead # 0 /\ (y.entry = None => L.content.mod < y.dead)
  /\ <<o, FALSE>> \notin r.due /\ <<o, TRUE>> \notin r.due =>
       time = L.content.mod /\ Agrees(y, L.content)

InWrite(r, o, L) ==
  /\ SyncTells(r.sync, L, o)
  /\ L.seq <= r.sync.lastSeq => Agrees(r.state[o], L.content)

InSave(r, o, L, x, m) ==
  /\ SyncTells(r.sync, L, o)
  /\ ShowsOrDue(x, r.sync, L, o)
  /\ ~m => ~DueAt(x, r.sync.syncedAt[o])

RunTells(r, o, L, p, x, m) ==
  /\ Decoded(r) => FromFile(o, r.db[o], r.state[o], L)
  /\ r.at \in {"load", "pull"} => Loaded(r, o, L, p, x, m)
  /\ r.at = "pull" => r.sync = p
  /\ r.at \in {"push", "write", "writing"} => Recorded(r, o, p)
  /\ r.at = "push" => InPush(r, o, L, x, m)
  /\ r.at \in {"write", "writing"} => InWrite(r, o, L)
  /\ r.at = "save" => InSave(r, o, L, x, m)
  /\ r.at = "stamp" /\ ~m => ~DueAt(x, p.syncedAt[o])

PhoneTells(o, L, p, x, m) ==
  /\ SyncTells(p, L, o)
  /\ ~broken => /\ ShowsOrDue(x, p, L, o)
                /\ unchanged /\ ~m => ~DueAt(x, p.syncedAt[o])
  /\ o \in Group => file[o].dead <= L.content.mod

Told(o) ==
  /\ latest[o].content.mod # 0
  /\ PhoneTells(o, latest[o], persisted, read(file)[o], o \in missed)
  /\ \A t \in Thread :
       RunTells(run[t], o, latest[o], persisted, read(file)[o], o \in missed)

SeqBound == \A o \in Uuid : latest[o].seq <= seq

\* Once runs overlap, everything is apart.
Alone == apart # Uuid => \A t, u \in Running : t = u

SkipInv == SeqBound /\ Alone /\ \A o \in Uuid \ apart : Told(o)

\* With the invariant, a probe that finds nothing to do is right ...
LEMMA SkipInvSkips == PhoneInv /\ SkipInv => SkipIsSafe
<1> SUFFICES ASSUME PhoneInv, SkipInv, unchanged, ~broken,
                    NEW x \in Due(read(file), persisted.syncedAt), x[1] \notin missed \cup apart
             PROVE FALSE
  BY DEF SkipIsSafe, nothingToSync
<1>0. x \in Uuid \X BOOLEAN
  BY DueTypes
<1>1. PICK o \in Uuid, b \in BOOLEAN : x = <<o, b>>
  BY <1>0
<1>2. o \notin missed /\ o \notin apart
  BY <1>1
<1>3. ~DueAt(read(file)[o], persisted.syncedAt[o])
  BY <1>2 DEF SkipInv, Told, PhoneTells
<1>4. DueAt(read(file)[o], persisted.syncedAt[o])
  BY <1>1, DueTypes DEF DueAt
<1> QED BY <1>3, <1>4

\* ... and what is not to be sent is what the server has.
LEMMA SkipInvInStep == PhoneInv /\ SkipInv => InStep
<1> SUFFICES ASSUME PhoneInv, SkipInv, persisted.lastSeq = seq, ~broken,
                    Due(read(file), persisted.syncedAt) = {}, NEW o \in Uuid \ apart
             PROVE IF latest[o].content.deleted THEN read(file)[o].entry = None
                   ELSE /\ read(file)[o].entry # None
                        /\ read(file)[o].entry.data = latest[o].content.data
  BY DEF InStep
<1> DEFINE x == read(file)[o]
           c == latest[o].content
<1>1. ~DueAt(x, persisted.syncedAt[o])
  BY DueTypes DEF DueAt
<1>2. latest[o].seq <= persisted.lastSeq
  BY DEF SkipInv, SeqBound
<1>3. Agrees(x, c)
  BY <1>1, <1>2 DEF SkipInv, Told, PhoneTells, ShowsOrDue
<1>4. x.entry # None => x.entry = file[o].entry
  BY FileFacts, ReadFile
<1>5. x.entry # None => x.entry.data = x.entry.mod
  BY <1>4, FileFacts DEF Timely
<1>6. ~c.deleted => c.data = c.mod
  BY DEF PhoneInv, ServerFits, TimelyContent
<1> HIDE DEF x, c
<1> QED BY <1>3, <1>5, <1>6 DEF Agrees, x, c

-----------------------------------------------------------------------------
(* Lemmas about one object                                                   *)

LEMMA SameDue ==
  ASSUME NEW x, NEW y, Same(x, y), NEW time
  PROVE DueAt(x, time) <=> DueAt(y, time)
BY DEF Same, DueAt

LEMMA SameAgrees ==
  ASSUME NEW x, NEW y, Same(x, y), NEW c
  PROVE Agrees(x, c) <=> Agrees(y, c)
BY DEF Same, Agrees

\* An object that the user left alone, or made newer than all that is recorded, still
\* follows what a run decoded.
LEMMA FollowsLater ==
  ASSUME NEW x, NEW z \in Object, NEW y \in Object, NEW time \in Nat, NEW now \in Nat,
         NEW m \in BOOLEAN, NEW m2 \in BOOLEAN, Follows(x, y, time, m),
         (Same(x, z) /\ (m => m2)) \/ (DueAt(z, now) /\ m2),
         time <= now, y.entry # None => y.entry.mod <= now, y.dead <= now
  PROVE Follows(z, y, time, m2)
<1>1. CASE Same(x, z)
  BY <1>1 DEF Same, Follows, Newer, DueAt
<1>2. CASE DueAt(z, now) /\ m2
  <2>1. ASSUME NEW n \in Nat, n <= now
        PROVE DueAt(z, n)
    BY <1>2, <2>1 DEF DueAt, Object, Local
  <2>2. y.dead \in Nat /\ (y.entry # None => y.entry.mod \in Nat)
    BY DEF Object, Local
  <2> QED BY <1>2, <2>1, <2>2 DEF Follows, Newer
<1> QED BY <1>1, <1>2

-----------------------------------------------------------------------------
(* Runs: a step of one of them                                               *)

LEMMA RunsAlone ==
  ASSUME PhoneInv, Alone, NEW o \in Uuid, o \notin apart,
         NEW t \in Thread, NEW u \in Thread, u # t, run[t].at # "idle"
  PROVE run[u].at = "idle"
BY DEF Alone, Running

LEMMA IdleTells ==
  ASSUME NEW r, r.at = "idle", NEW o, NEW L, NEW p, NEW x, NEW m
  PROVE RunTells(r, o, L, p, x, m)
BY DEF RunTells, Decoded

\* It is enough to look at the run that takes the step.
LEMMA OneRunTells ==
  ASSUME PhoneInv, PhoneInv', Alone, SeqBound', NEW t \in Thread, NEW r,
         run' = [run EXCEPT ![t] = r], run[t].at # "idle", apart \subseteq apart',
         \A o \in Uuid \ apart' :
           /\ latest'[o].content.mod # 0
           /\ PhoneTells(o, latest[o], persisted, read(file)[o], o \in missed)'
           /\ RunTells(r, o, latest'[o], persisted', read(file')[o], o \in missed')
  PROVE SkipInv'
<1>1. \A u \in Thread : run'[u] = IF u = t THEN r ELSE run[u]
  BY DEF PhoneInv, RunsFit
<1>2. Alone'
  <2> SUFFICES ASSUME apart' # Uuid, NEW u \in Running', NEW v \in Running'
               PROVE u = v
    BY DEF Alone
  <2>1. apart # Uuid
    BY DEF PhoneInv, HistoryTypes
  <2>2. \A w \in Running' : w = t
    BY <1>1, <2>1 DEF Alone, Running
  <2> QED BY <2>2
<1>3. ASSUME NEW o \in Uuid \ apart'
      PROVE Told(o)'
  <2>1. run[t].at # "idle" /\ o \notin apart
    OBVIOUS
  <2>2. \A u \in Thread : RunTells(run'[u], o, latest'[o], persisted', read(file')[o], o \in missed')
    BY <1>1, <2>1, RunsAlone, IdleTells
  <2> QED BY <2>2 DEF Told
<1> QED BY <1>2, <1>3 DEF SkipInv

\* The run that takes the step stops.
LEMMA StoppedTells ==
  ASSUME PhoneInv, PhoneInv', SkipInv, NEW t \in Thread, run' = [run EXCEPT ![t] = Idle],
         run[t].at # "idle", SeqBound', apart \subseteq apart',
         \A o \in Uuid \ apart' :
           /\ latest'[o].content.mod # 0
           /\ PhoneTells(o, latest[o], persisted, read(file)[o], o \in missed)'
  PROVE SkipInv'
<1>1. Idle.at = "idle"
  BY DEF Idle
<1> QED BY <1>1, IdleTells, OneRunTells DEF SkipInv

-----------------------------------------------------------------------------
(* Decoding                                                                  *)

\* What decoding makes of an object: entries in the bin are deletions, and what is live
\* has none but for a group.
LEMMA ReadObject ==
  ASSUME NEW f \in Files, NEW o \in Uuid
  PROVE LET x == read(f)[o]
            alive == Present(f, o) /\ ~InBin(f, o)
        IN /\ x.entry = IF alive THEN f[o].entry ELSE None
           /\ o \in Group => x.dead = f[o].dead
           /\ o \in Entry /\ alive => x.dead = 0
           /\ o \in Entry /\ ~alive /\ f[o].dead # 0 => x.dead = f[o].dead
           /\ o \in Entry /\ ~alive /\ f[o].dead = 0 =>
                x.dead = IF Present(f, o) THEN f[o].entry.loc ELSE 0
<1> DEFINE alive == Present(f, o) /\ ~InBin(f, o)
           dead == IF o \in Entry /\ alive THEN 0
                   ELSE IF o \in Group \/ f[o].dead # 0 THEN f[o].dead
                   ELSE IF Present(f, o) THEN f[o].entry.loc ELSE 0
<1>1. /\ read(f)[o].entry = IF alive THEN f[o].entry ELSE None
      /\ read(f)[o].dead = dead
  BY DEF read
<1>2. o \in Group => o \notin Entry
  BY ObjectAssumption
<1> QED BY <1>1, <1>2

\* What was in the file and is not read was in the bin.
LEMMA ReadFromFile ==
  ASSUME FileFits(file, clock), NEW o \in Uuid, NEW L,
         o \in Group => file[o].dead <= L.content.mod
  PROVE FromFile(o, file[o], read(file)[o], L)
<1>1. file \in Files /\ Timely(o, file[o], clock)
  BY DEF FileFits
<1>2. ASSUME read(file)[o].entry = None, read(file)[o].dead = 0, o \in Entry
      PROVE file[o].dead = 0
  <2>1. file[o].entry # None => file[o].entry \in Local
    BY <1>1 DEF Files, Object
  <2>2. o \notin Group
    BY <1>2, ObjectAssumption
  <2> QED BY <1>1, <1>2, <2>1, <2>2, ReadObject, NoneIsNotLocal DEF Present
<1>3. ASSUME read(file)[o].entry = None, o \in Group
      PROVE file[o].entry = None \/ file[o].entry.place = Bin
  <2>1. file[o].entry # None => file[o].entry \in Local
    BY <1>1 DEF Files, Object
  <2>2. ~Present(file, o) \/ InBin(file, o)
    BY <1>1, <1>3, <2>1, ReadObject, NoneIsNotLocal DEF Present
  <2> QED BY <1>1, <1>3, <2>2 DEF InBin, Present, Timely
<1> QED BY <1>2, <1>3 DEF FromFile

LEMMA OpenTells ==
  ASSUME PhoneInv, PhoneInv', SkipInv, NEW t \in Thread, Open(t)
  PROVE SkipInv'
<1> DEFINE r == [Idle EXCEPT !.at = "load", !.db = file, !.state = read(file)]
<1>1. /\ run' = [run EXCEPT ![t] = r] /\ ~broken
      /\ apart' = IF Running # {} THEN Uuid ELSE apart
      /\ UNCHANGED <<seq, latest, file, broken, persisted, unchanged, missed>>
  BY DEF Open, Continue, server, phone
<1>2. r.at = "load" /\ r.db = file /\ r.state = read(file)
  BY DEF Idle
<1> HIDE DEF r
<1>3. SeqBound'
  BY <1>1 DEF SkipInv, SeqBound
<1>4. ASSUME NEW o \in Uuid \ apart'
      PROVE Told(o)'
  <2>1. Running = {} /\ o \notin apart /\ Told(o)
    BY <1>1 DEF SkipInv
  <2>2. PhoneTells(o, latest[o], persisted, read(file)[o], o \in missed)'
    BY <1>1, <2>1 DEF Told, PhoneTells
  <2>3. FromFile(o, file[o], read(file)[o], latest[o])
    <3>1. o \in Group => file[o].dead <= latest[o].content.mod
      BY <2>1 DEF Told, PhoneTells
    <3> QED BY <3>1, ReadFromFile, FileFacts
  <2>4. Loaded(r, o, latest[o], persisted, read(file)[o], o \in missed)
    <3>1. ShowsOrDue(read(file)[o], persisted, latest[o], o)
      BY <1>1, <2>1 DEF Told, PhoneTells
    <3>2. o \in Group => read(file)[o].dead = file[o].dead
      BY FileFacts, ReadObject
    <3> QED BY <1>2, <3>1, <3>2 DEF Loaded, Follows, Same
  <2>5. RunTells(r, o, latest[o], persisted, read(file)[o], o \in missed)
    BY <1>2, <2>3, <2>4 DEF RunTells
  <2>6. \A u \in Thread : run'[u] = IF u = t THEN r ELSE run[u]
    BY <1>1 DEF PhoneInv, RunsFit
  <2>7. \A u \in Thread : RunTells(run'[u], o, latest[o], persisted, read(file)[o], o \in missed)
    <3>1. \A u \in Thread : run[u].at = "idle"
      BY <2>1 DEF Running
    <3> QED BY <2>5, <2>6, <3>1, IdleTells
  <2> QED BY <1>1, <2>1, <2>2, <2>7 DEF Told
<1>5. Alone'
  <2> SUFFICES ASSUME apart' # Uuid, NEW u \in Running', NEW v \in Running'
               PROVE u = v
    BY DEF Alone
  <2>1. \A w \in Thread : w # t => run'[w] = run[w]
    BY <1>1 DEF PhoneInv, RunsFit
  <2> QED BY <1>1, <2>1 DEF Running
<1> QED BY <1>3, <1>4, <1>5 DEF SkipInv

LEMMA loadTells ==
  ASSUME PhoneInv, PhoneInv', SkipInv, NEW t \in Thread, load(t)
  PROVE SkipInv'
<1> DEFINE r == [run[t] EXCEPT !.at = "pull", !.sync = persisted]
<1>1. /\ run' = [run EXCEPT ![t] = r] /\ run[t].at = "load"
      /\ UNCHANGED <<seq, latest, file, broken, persisted, unchanged, missed, apart>>
  BY DEF load, Continue, server, phone, history
<1>2. r.at = "pull" /\ r.db = run[t].db /\ r.state = run[t].state /\ r.sync = persisted
  BY RunFacts DEF Runs
<1> HIDE DEF r
<1>3. ASSUME NEW o \in Uuid \ apart'
      PROVE /\ latest'[o].content.mod # 0
            /\ PhoneTells(o, latest[o], persisted, read(file)[o], o \in missed)'
            /\ RunTells(r, o, latest'[o], persisted', read(file')[o], o \in missed')
  <2>1. Told(o)
    BY <1>1 DEF SkipInv
  <2>2. RunTells(run[t], o, latest[o], persisted, read(file)[o], o \in missed)
    BY <2>1 DEF Told
  <2>3. RunTells(r, o, latest[o], persisted, read(file)[o], o \in missed)
    BY <1>1, <1>2, <2>2 DEF RunTells, Decoded, Loaded
  <2> QED BY <1>1, <2>1, <2>3 DEF Told, PhoneTells
<1>4. SeqBound'
  BY <1>1 DEF SkipInv, SeqBound
<1> QED BY <1>1, <1>3, <1>4, OneRunTells DEF SkipInv

LEMMA fingerprintTells ==
  ASSUME PhoneInv, PhoneInv', SkipInv, NEW t \in Thread, fingerprint(t)
  PROVE SkipInv'
<1>1. /\ run' = [run EXCEPT ![t] = Idle] /\ run[t].at = "stamp"
      /\ UNCHANGED <<seq, latest, file, broken, persisted, missed, apart>>
  BY DEF fingerprint, Continue, server, history
<1>2. ASSUME NEW o \in Uuid \ apart'
      PROVE /\ latest'[o].content.mod # 0
            /\ PhoneTells(o, latest[o], persisted, read(file)[o], o \in missed)'
  <2>1. Told(o)
    BY <1>1 DEF SkipInv
  <2>2. RunTells(run[t], o, latest[o], persisted, read(file)[o], o \in missed)
    BY <2>1 DEF Told
  <2>3. o \notin missed => ~DueAt(read(file)[o], persisted.syncedAt[o])
    BY <1>1, <2>2 DEF RunTells
  <2> QED BY <1>1, <2>1, <2>3 DEF Told, PhoneTells
<1>3. SeqBound'
  BY <1>1 DEF SkipInv, SeqBound
<1> QED BY <1>1, <1>2, <1>3, StoppedTells

LEMMA RequestFailsTells ==
  ASSUME PhoneInv, PhoneInv', SkipInv, NEW t \in Thread, RequestFails(t)
  PROVE SkipInv'
<1>1. /\ run' = [run EXCEPT ![t] = Idle] /\ run[t].at # "idle"
      /\ UNCHANGED <<seq, latest, file, broken, unchanged, persisted, missed, apart>>
  BY DEF RequestFails, Continue, server, history, phone
<1>2. ASSUME NEW o \in Uuid \ apart'
      PROVE /\ latest'[o].content.mod # 0
            /\ PhoneTells(o, latest[o], persisted, read(file)[o], o \in missed)'
  BY <1>1 DEF SkipInv, Told, PhoneTells
<1>3. SeqBound'
  BY <1>1 DEF SkipInv, SeqBound
<1> QED BY <1>1, <1>2, <1>3, StoppedTells

LEMMA CrashTells ==
  ASSUME PhoneInv, PhoneInv', SkipInv, Crash
  PROVE SkipInv'
<1>1. /\ run' = [t \in Thread |-> Idle]
      /\ UNCHANGED <<seq, latest, file, broken, unchanged, persisted, missed, apart>>
  BY DEF Crash, server, history, phone
<1>2. \A t \in Thread : run'[t] = Idle /\ run'[t].at = "idle"
  BY <1>1 DEF Idle
<1>3. ASSUME NEW o \in Uuid \ apart'
      PROVE Told(o)'
  <2>1. Told(o)
    BY <1>1 DEF SkipInv
  <2>2. \A t \in Thread : RunTells(run'[t], o, latest'[o], persisted', read(file')[o], o \in missed')
    BY <1>2, IdleTells
  <2> QED BY <1>1, <2>1, <2>2 DEF Told, PhoneTells
<1>4. SeqBound' /\ Alone'
  BY <1>1, <1>2 DEF SkipInv, SeqBound, Alone, Running
<1> QED BY <1>3, <1>4 DEF SkipInv

-----------------------------------------------------------------------------
(* Pulling and pushing                                                       *)

\* Where a run goes on after a pull or a push.
LEMMA PushingTells ==
  ASSUME NEW r \in Runs, NEW o \in Uuid, NEW L, NEW p, NEW x, NEW m,
         L.content.mod \in Nat, FromFile(o, r.db[o], r.state[o], L),
         Recorded(r, o, p), InPush(r, o, L, x, m)
  PROVE RunTells(Pushing(r), o, L, p, x, m)
<1> DEFINE y == r.state[o]
           time == r.sync.syncedAt[o]
<1>0. y \in Object /\ time \in Nat
  BY DEF Runs, Persisted
<1>1. CASE r.due # {}
  <2> DEFINE q == [r EXCEPT !.at = "push"]
  <2>1. /\ Pushing(r) = q /\ q.at = "push" /\ q.db = r.db /\ q.state = r.state
        /\ q.sync = r.sync /\ q.due = r.due /\ q.pulled = r.pulled
    BY <1>1 DEF Pushing, Runs
  <2> HIDE DEF q
  <2>2. Recorded(q, o, p)
    BY <2>1 DEF Recorded
  <2>3. InPush(q, o, L, x, m)
    BY <2>1 DEF InPush
  <2> QED BY <2>1, <2>2, <2>3 DEF RunTells, Decoded
<1>2. CASE r.due = {}
  <2>1. SyncTells(r.sync, L, o) /\ Agrees(y, L.content) /\ ~DueAt(y, time)
    <3>1. time = L.content.mod /\ Agrees(y, L.content)
      BY <1>2 DEF InPush
    <3>2. (y.entry # None => y.entry.mod <= time) /\ (y.dead # 0 => y.dead <= time)
      BY <1>2 DEF Recorded
    <3>3. (y.entry # None => y.entry.mod \in Nat) /\ y.dead \in Nat
      BY <1>0 DEF Object, Local
    <3>4. ~DueAt(y, time)
      BY <1>0, <3>2, <3>3 DEF DueAt
    <3> QED BY <1>0, <3>1, <3>4 DEF SyncTells
  <2>2. CASE r.pulled
    <3> DEFINE q == [r EXCEPT !.at = "write"]
    <3>1. /\ Pushing(r) = q /\ q.at = "write" /\ q.db = r.db /\ q.state = r.state
          /\ q.sync = r.sync /\ q.due = r.due
      BY <1>2, <2>2 DEF Pushing, Runs
    <3> HIDE DEF q
    <3>2. Recorded(q, o, p)
      BY <3>1 DEF Recorded
    <3> QED BY <2>1, <3>1, <3>2 DEF RunTells, Decoded, InWrite
  <2>3. CASE ~r.pulled
    <3>1. Pushing(r) = Saving(r)
      BY <1>2, <2>3 DEF Pushing
    <3>2. Saving(r).at = "save" /\ Saving(r).sync = r.sync
      BY DEF Saving, Idle
    <3>3. Same(x, y) \/ Newer(x, y, time)
      BY <2>3 DEF InPush, Follows
    <3>4. DueAt(x, time) \/ Agrees(x, L.content)
      BY <2>1, <3>3, SameAgrees DEF Newer
    <3>5. ~m => ~DueAt(x, time)
      <4>1. ~m => Same(x, y)
        BY <2>3 DEF InPush, Follows
      <4> QED BY <2>1, <4>1, SameDue
    <3>6. InSave(Saving(r), o, L, x, m)
      BY <2>1, <3>2, <3>4, <3>5 DEF InSave, ShowsOrDue
    <3> QED BY <3>1, <3>2, <3>6 DEF RunTells, Decoded
  <2> QED BY <2>2, <2>3
<1> QED BY <1>1, <1>2

\* What a pull makes of one object.
LEMMA PulledTells ==
  ASSUME NEW r \in Runs, NEW o \in Uuid, NEW L \in Store!Version, NEW p \in Persisted,
         NEW x, NEW m, NEW n \in Nat, L.seq <= n, p.lastSeq <= n, L.content.mod # 0,
         FromFile(o, r.db[o], r.state[o], L), Loaded(r, o, L, p, x, m), SyncTells(p, L, o),
         NEW q \in Runs, q.db = r.db, q.sync.lastSeq = n,
         NEW taken, q.pulled = (taken # {}),
         o \in taken <=> L.seq > p.lastSeq /\ ~Kept(r.state[o], L.content),
         q.state[o] = IF o \in taken THEN Taken(L.content) ELSE r.state[o],
         q.sync.syncedAt[o] = IF o \in taken THEN L.content.mod ELSE p.syncedAt[o],
         q.due = Due(q.state, q.sync.syncedAt)
  PROVE /\ FromFile(o, q.db[o], q.state[o], L) /\ Recorded(q, o, p)
        /\ InPush(q, o, L, x, m)
<1> DEFINE y == q.state[o]
           time == q.sync.syncedAt[o]
           c == L.content
<1>1. /\ y \in Object /\ r.state[o] \in Object /\ r.db[o] \in Object /\ time \in Nat
      /\ c \in Content /\ c.mod \in Nat /\ p.syncedAt[o] \in Nat /\ p.lastSeq \in Nat
      /\ L.seq \in Nat
  BY DEF Runs, Persisted, Store!Version, Content
<1>2. (y.entry # None => y.entry.mod \in Nat) /\ y.dead \in Nat /\ r.db[o].dead \in Nat
  BY <1>1 DEF Object, Local
<1>3. /\ <<o, FALSE>> \in q.due <=> y.entry # None /\ time < y.entry.mod
      /\ <<o, TRUE>> \in q.due <=> y.dead # 0 /\ time < y.dead
  <2>1. ASSUME NEW s, NEW at
        PROVE /\ <<o, FALSE>> \in Due(s, at) <=> s[o].entry # None /\ at[o] < s[o].entry.mod
              /\ <<o, TRUE>> \in Due(s, at) <=> s[o].dead # 0 /\ at[o] < s[o].dead
    BY DueTypes
  <2> QED BY <2>1
<1>4. o \in Group => r.db[o].dead <= c.mod
  BY DEF FromFile
<1>5. CASE o \in taken
  <2>1. y = Taken(c) /\ time = c.mod /\ q.pulled
    BY <1>5
  <2>2. Agrees(y, c) /\ (y.entry # None => y.entry.mod = c.mod)
        /\ (y.dead # 0 => y.dead = c.mod) /\ (y.entry = None => y.dead # 0)
    <3>1. CASE c.deleted
      BY <2>1, <3>1 DEF Taken, Agrees
    <3>2. CASE ~c.deleted
      <4>1. y.entry # None /\ y.entry.mod = c.mod /\ y.dead = 0
        <5>1. y.entry \in Local
          BY <1>1, <2>1, <3>2 DEF Taken, Content, Local
        <5> QED BY <2>1, <3>2, <5>1, NoneIsNotLocal DEF Taken
      <4> QED BY <3>2, <4>1 DEF Agrees
    <3> QED BY <3>1, <3>2
  <2> HIDE DEF y, time, c
  <2>3. FromFile(o, q.db[o], y, L)
    BY <1>4, <2>2 DEF FromFile, c
  <2>4. <<o, FALSE>> \notin q.due /\ <<o, TRUE>> \notin q.due
    BY <1>1, <1>3, <2>1, <2>2
  <2>5. Recorded(q, o, p)
    BY <1>1, <1>2, <1>4, <2>1, <2>2 DEF Recorded, y, time
  <2>6. InPush(q, o, L, x, m)
    BY <1>1, <2>1, <2>2, <2>4 DEF InPush, y, time, c
  <2> QED BY <2>3, <2>5, <2>6 DEF y
<1>6. CASE o \notin taken
  <2>1. y = r.state[o] /\ time = p.syncedAt[o]
    BY <1>6
  <2> HIDE DEF y, time, c
  <2>2. Follows(x, y, time, m) /\ ShowsOrDue(y, p, L, o) /\ (o \in Group => y.dead = r.db[o].dead)
    BY <2>1 DEF Loaded
  <2>3. Recorded(q, o, p)
    <3>1. o \in Group /\ y.dead = 0 => q.db[o].dead <= time
      BY <1>1, <2>2
    <3>2. /\ y.entry # None => <<o, FALSE>> \in q.due \/ y.entry.mod <= time
          /\ y.dead # 0 => <<o, TRUE>> \in q.due \/ y.dead <= time
      BY <1>1, <1>2, <1>3
    <3> QED BY <3>1, <3>2 DEF Recorded, y, time
  <2>4. time <= c.mod
    BY <2>1 DEF SyncTells, c
  <2>5. CASE L.seq > p.lastSeq
    <3>1. y.entry # None /\ y.entry.mod > c.mod
      BY <1>6, <2>1, <2>5 DEF Kept, c
    <3>2. <<o, FALSE>> \in q.due
      BY <1>1, <1>2, <1>3, <2>4, <3>1
    <3>3. InPush(q, o, L, x, m)
      BY <1>1, <1>2, <1>3, <2>2, <2>4, <3>1, <3>2 DEF InPush, y, time, c
    <3> QED BY <2>1, <2>3, <3>3 DEF y
  <2>6. CASE L.seq <= p.lastSeq
    <3>1. time = c.mod
      BY <2>1, <2>6 DEF SyncTells, c
    <3>2. DueAt(y, time) \/ Agrees(y, c)
      BY <2>1, <2>2, <2>6 DEF ShowsOrDue, c
    <3>3. <<o, FALSE>> \notin q.due /\ <<o, TRUE>> \notin q.due => Agrees(y, c)
      BY <1>3, <3>2 DEF DueAt
    <3>4. InPush(q, o, L, x, m)
      BY <1>1, <1>2, <1>3, <2>2, <2>4, <3>1, <3>3 DEF InPush, y, time, c
    <3> QED BY <2>1, <2>3, <3>4 DEF y
  <2> QED BY <1>1, <2>5, <2>6
<1> QED BY <1>5, <1>6

\* The run that a pull makes.
LEMMA PulledRun ==
  ASSUME PhoneInv, NEW t \in Thread, pull(t)
  PROVE \E q \in Runs, taken \in SUBSET Uuid :
          /\ run[t].at = "pull" /\ run' = [run EXCEPT ![t] = Pushing(q)]
          /\ q.db = run[t].db /\ q.sync.lastSeq = seq /\ q.pulled = (taken # {})
          /\ q.due = Due(q.state, q.sync.syncedAt)
          /\ \A o \in Uuid :
               /\ o \in taken <=> /\ latest[o].seq > run[t].sync.lastSeq
                                  /\ ~Kept(run[t].state[o], latest[o].content)
               /\ q.state[o] = IF o \in taken THEN Taken(latest[o].content)
                               ELSE run[t].state[o]
               /\ q.sync.syncedAt[o] = IF o \in taken THEN latest[o].content.mod
                                       ELSE run[t].sync.syncedAt[o]
<1> DEFINE p == run[t]
           taken == {o \in Uuid : latest[o].seq > p.sync.lastSeq /\ ~Kept(p.state[o], latest[o].content)}
           state == [o \in Uuid |-> IF o \in taken THEN Taken(latest[o].content)
                                    ELSE p.state[o]]
           synced == [o \in Uuid |-> IF o \in taken THEN latest[o].content.mod
                                     ELSE p.sync.syncedAt[o]]
           sync == [lastSeq |-> seq, syncedAt |-> synced]
           due == Due(state, synced)
           pulled == taken # {}
           q == [p EXCEPT !.state = state, !.pulled = pulled, !.sync = sync, !.due = due]
<1>1. p.at = "pull" /\ run' = [run EXCEPT ![t] = Pushing(q)]
  BY DEF pull, Continue
<1>2. p \in Runs /\ p.state \in Files /\ p.sync \in Persisted /\ seq \in Nat
  BY RunFacts
<1>3. \A o \in Uuid : latest[o].content \in Content /\ latest[o].content.mod \in Nat
  BY DEF PhoneInv, ServerFits, Store!Version, Content
<1>4. /\ taken \in SUBSET Uuid
      /\ \A o \in Uuid : o \in taken <=> /\ latest[o].seq > p.sync.lastSeq
                                         /\ ~Kept(p.state[o], latest[o].content)
  OBVIOUS
<1> HIDE DEF p, taken
<1>5. /\ \A o \in Uuid : state[o] = IF o \in taken THEN Taken(latest[o].content) ELSE p.state[o]
      /\ \A o \in Uuid : synced[o] = IF o \in taken THEN latest[o].content.mod
                                     ELSE p.sync.syncedAt[o]
  OBVIOUS
<1>6. state \in Files
  BY <1>2, <1>3, TakenTypes DEF Files
<1>7. synced \in [Uuid -> Nat]
  BY <1>2, <1>3 DEF Persisted
<1> HIDE DEF state, synced
<1>8. sync \in Persisted /\ sync.lastSeq = seq /\ sync.syncedAt = synced
  BY <1>2, <1>7 DEF Persisted
<1>9. due \subseteq Uuid \X BOOLEAN
  BY DueTypes
<1>10. pulled \in BOOLEAN
  OBVIOUS
<1>11. due = Due(state, synced) /\ pulled = (taken # {})
  OBVIOUS
<1> HIDE DEF sync, due, pulled
<1>12. /\ q \in Runs /\ q.db = p.db /\ q.state = state /\ q.sync = sync /\ q.due = due
       /\ q.pulled = pulled
  BY <1>2, <1>6, <1>8, <1>9, <1>10 DEF Runs, Files
<1> HIDE DEF q
<1>13. /\ q.sync.lastSeq = seq /\ q.due = Due(q.state, q.sync.syncedAt)
  BY <1>8, <1>11, <1>12
<1>14. \A o \in Uuid :
         /\ q.state[o] = IF o \in taken THEN Taken(latest[o].content) ELSE p.state[o]
         /\ q.sync.syncedAt[o] = IF o \in taken THEN latest[o].content.mod
                                 ELSE p.sync.syncedAt[o]
  BY <1>5, <1>8, <1>12
<1> USE DEF p
<1> q \in Runs
  BY <1>12
<1> taken \in SUBSET Uuid
  BY <1>4
<1> WITNESS q \in Runs, taken \in SUBSET Uuid
<1> QED BY <1>1, <1>4, <1>11, <1>12, <1>13, <1>14

\* What the invariant says of the newest version of an object.
LEMMA LatestFacts ==
  ASSUME PhoneInv, NEW o \in Uuid
  PROVE /\ latest[o] \in Store!Version /\ latest[o].seq \in Nat
        /\ latest[o].content \in Content /\ latest[o].content.mod \in Nat
        /\ latest[o].content.mod <= clock
<1>1. /\ latest[o] \in Store!Version /\ latest[o].seq \in Nat /\ settled[o] \in Nat
      /\ latest[o].content \in Content /\ latest[o].content.mod \in Nat /\ clock \in Nat
  BY DEF PhoneInv, ServerFits, Store!Version, Content
<1>2. latest[o].content.mod <= settled[o] /\ settled[o] <= clock
  BY DEF PhoneInv, ServerFits
<1> QED BY <1>1, <1>2

LEMMA pullTells ==
  ASSUME PhoneInv, PhoneInv', SkipInv, NEW t \in Thread, pull(t)
  PROVE SkipInv'
<1>1. PICK q \in Runs, taken \in SUBSET Uuid :
        /\ run[t].at = "pull" /\ run' = [run EXCEPT ![t] = Pushing(q)]
        /\ q.db = run[t].db /\ q.sync.lastSeq = seq /\ q.pulled = (taken # {})
        /\ q.due = Due(q.state, q.sync.syncedAt)
        /\ \A o \in Uuid :
             /\ o \in taken <=> /\ latest[o].seq > run[t].sync.lastSeq
                                /\ ~Kept(run[t].state[o], latest[o].content)
             /\ q.state[o] = IF o \in taken THEN Taken(latest[o].content)
                             ELSE run[t].state[o]
             /\ q.sync.syncedAt[o] = IF o \in taken THEN latest[o].content.mod
                                     ELSE run[t].sync.syncedAt[o]
  BY PulledRun
<1>2. UNCHANGED <<seq, latest, file, broken, persisted, unchanged, missed, apart>>
  BY DEF pull, server, phone, history
<1>3. /\ run[t] \in Runs /\ seq \in Nat
      /\ persisted \in Persisted /\ persisted.lastSeq <= seq
  BY RunFacts DEF PhoneInv, PhoneFits, SyncFits
<1>4. ASSUME NEW o \in Uuid \ apart
      PROVE RunTells(Pushing(q), o, latest[o], persisted, read(file)[o], o \in missed)
  <2>1. Told(o) /\ latest[o].seq <= seq
    BY DEF SkipInv, SeqBound
  <2>2. RunTells(run[t], o, latest[o], persisted, read(file)[o], o \in missed)
    BY <2>1 DEF Told
  <2>3. run[t].sync = persisted
    BY <1>1, <2>2 DEF RunTells
  <2>4. /\ FromFile(o, run[t].db[o], run[t].state[o], latest[o])
        /\ Loaded(run[t], o, latest[o], persisted, read(file)[o], o \in missed)
    BY <1>1, <2>2 DEF RunTells, Decoded
  <2>5. SyncTells(persisted, latest[o], o) /\ latest[o].content.mod # 0
    BY <2>1 DEF Told, PhoneTells
  <2>6. /\ latest[o] \in Store!Version /\ latest[o].content.mod \in Nat
    BY LatestFacts
  <2>7. /\ o \in taken <=> latest[o].seq > persisted.lastSeq /\ ~Kept(run[t].state[o], latest[o].content)
        /\ q.state[o] = IF o \in taken THEN Taken(latest[o].content) ELSE run[t].state[o]
        /\ q.sync.syncedAt[o] = IF o \in taken THEN latest[o].content.mod
                                ELSE persisted.syncedAt[o]
    BY <1>1, <2>3
  <2>8. /\ FromFile(o, q.db[o], q.state[o], latest[o]) /\ Recorded(q, o, persisted)
        /\ InPush(q, o, latest[o], read(file)[o], o \in missed)
    BY <1>1, <1>3, <2>1, <2>4, <2>5, <2>6, <2>7, PulledTells
  <2> QED BY <2>6, <2>8, PushingTells
<1>5. ASSUME NEW o \in Uuid \ apart'
      PROVE /\ latest'[o].content.mod # 0
            /\ PhoneTells(o, latest[o], persisted, read(file)[o], o \in missed)'
            /\ RunTells(Pushing(q), o, latest'[o], persisted', read(file')[o], o \in missed')
  <2>1. Told(o) /\ o \in Uuid \ apart
    BY <1>2 DEF SkipInv
  <2> QED BY <1>2, <1>4, <2>1 DEF Told, PhoneTells
<1>6. SeqBound'
  BY <1>2 DEF SkipInv, SeqBound
<1> QED BY <1>1, <1>2, <1>5, <1>6, OneRunTells DEF SkipInv

\* A newer version disturbs no record of an older one.
LEMMA NewerTells ==
  ASSUME NEW o \in Uuid, NEW L \in Store!Version, NEW L2 \in Store!Version, NEW n \in Nat,
         L2.seq = n + 1, L.content.mod <= L2.content.mod,
         NEW p \in Persisted, p.lastSeq <= n, SyncTells(p, L, o)
  PROVE SyncTells(p, L2, o) /\ \A x : ShowsOrDue(x, p, L2, o)
<1>1. /\ p.lastSeq \in Nat /\ p.syncedAt[o] \in Nat /\ L.content.mod \in Nat
      /\ L2.content.mod \in Nat
  BY DEF Persisted, Store!Version, Content
<1>2. ~(L2.seq <= p.lastSeq)
  BY <1>1
<1>3. p.syncedAt[o] <= L2.content.mod
  BY <1>1 DEF SyncTells
<1> QED BY <1>2, <1>3 DEF SyncTells, ShowsOrDue

\* What a write to the server leaves of what the phone tells.
LEMMA WrittenTells ==
  ASSUME PhoneInv, SkipInv, NEW o \in Uuid, NEW c \in Content, Store!Write(o, c),
         UNCHANGED <<file, broken, persisted, unchanged, missed>>, apart \subseteq apart',
         o \notin apart' => latest[o].content.mod <= c.mod
  PROVE /\ SeqBound'
        /\ latest'[o].content = c /\ latest'[o].seq = seq + 1 /\ latest'[o] \in Store!Version
        /\ \A q \in Uuid : q # o => latest'[q] = latest[q]
        /\ \A q \in Uuid \ apart' :
             /\ latest'[q].content.mod # 0
             /\ PhoneTells(q, latest[q], persisted, read(file)[q], q \in missed)'
<1> DEFINE v == [uuid |-> o, content |-> c, seq |-> seq + 1]
<1>1. /\ seq' = seq + 1 /\ latest' = [latest EXCEPT ![o] = v]
      /\ seq \in Nat /\ latest \in [Uuid -> Store!Version]
  BY DEF Store!Write, PhoneInv, ServerFits
<1>2. v \in Store!Version /\ v.content = c /\ v.seq = seq + 1
  BY <1>1 DEF Store!Version
<1> HIDE DEF v
<1>3. latest'[o] = v /\ \A q \in Uuid : q # o => latest'[q] = latest[q]
  BY <1>1
<1>4. SeqBound'
  <2>1. \A q \in Uuid : latest[q].seq \in Nat /\ latest[q].seq <= seq
    BY LatestFacts DEF SkipInv, SeqBound
  <2> QED BY <1>1, <1>2, <1>3, <2>1 DEF SeqBound
<1>5. ASSUME NEW q \in Uuid \ apart'
      PROVE /\ latest'[q].content.mod # 0
            /\ PhoneTells(q, latest[q], persisted, read(file)[q], q \in missed)'
  <2>1. Told(q)
    BY DEF SkipInv
  <2>2. CASE q # o
    BY <1>3, <2>1, <2>2 DEF Told, PhoneTells
  <2>3. CASE q = o
    <3>1. /\ PhoneTells(o, latest[o], persisted, read(file)[o], o \in missed)
          /\ latest[o].content.mod <= c.mod /\ latest[o].content.mod # 0
      BY <2>1, <2>3 DEF Told
    <3>0. c.mod # 0
      BY <3>1, LatestFacts DEF Content
    <3>2. persisted \in Persisted /\ persisted.lastSeq <= seq
      BY DEF PhoneInv, PhoneFits, SyncFits
    <3>3. SyncTells(persisted, latest[o], o)
      BY <3>1 DEF PhoneTells
    <3>4. SyncTells(persisted, v, o) /\ \A x : ShowsOrDue(x, persisted, v, o)
      BY <1>1, <1>2, <3>1, <3>2, <3>3, LatestFacts, NewerTells
    <3>5. o \in Group => file[o].dead <= v.content.mod
      <4>1. /\ file[o].dead \in Nat /\ latest[o].content.mod \in Nat /\ c.mod \in Nat
        BY LatestFacts, FileFacts DEF Object, Content
      <4>2. o \in Group => file[o].dead <= latest[o].content.mod
        BY <3>1 DEF PhoneTells
      <4> QED BY <1>2, <3>1, <4>1, <4>2
    <3> QED BY <1>2, <1>3, <2>3, <3>0, <3>1, <3>4, <3>5 DEF PhoneTells
  <2> QED BY <2>2, <2>3
<1> QED BY <1>2, <1>3, <1>4, <1>5

\* Another device writes what no run has pulled.
LEMMA RunKeepsTelling ==
  ASSUME NEW r \in Runs, NEW o \in Uuid, NEW L \in Store!Version, NEW L2 \in Store!Version,
         NEW p \in Persisted, NEW x, NEW m, NEW n \in Nat,
         RunTells(r, o, L, p, x, m), r.at # "push",
         L2.seq = n + 1, L.content.mod <= L2.content.mod, p.lastSeq <= n, r.sync.lastSeq <= n,
         SyncTells(p, L, o)
  PROVE RunTells(r, o, L2, p, x, m)
<1>0. r.sync \in Persisted
  BY DEF Runs
<1>1. SyncTells(p, L2, o) /\ \A z : ShowsOrDue(z, p, L2, o)
  BY NewerTells
<1>2. SyncTells(r.sync, L, o) => SyncTells(r.sync, L2, o) /\ \A z : ShowsOrDue(z, r.sync, L2, o)
  BY <1>0, NewerTells
<1>3. ~(L2.seq <= r.sync.lastSeq)
  BY <1>0 DEF Persisted
<1>4. Decoded(r) => FromFile(o, r.db[o], r.state[o], L2)
  <2>1. r.db[o].dead \in Nat /\ L.content.mod \in Nat /\ L2.content.mod \in Nat
    BY DEF Runs, Object, Store!Version, Content
  <2> QED BY <2>1 DEF RunTells, FromFile
<1>5. r.at \in {"load", "pull"} => Loaded(r, o, L2, p, x, m)
  BY <1>1 DEF RunTells, Loaded
<1>6. r.at \in {"write", "writing"} => InWrite(r, o, L2)
  BY <1>2, <1>3 DEF RunTells, InWrite
<1>7. r.at = "save" => InSave(r, o, L2, x, m)
  BY <1>2 DEF RunTells, InSave
<1> QED BY <1>4, <1>5, <1>6, <1>7 DEF RunTells

LEMMA WriteOtherTells ==
  ASSUME PhoneInv, SkipInv, NEW o \in Uuid, NEW c \in Content, NEW what,
         latest[o].content.mod <= c.mod, WriteOther(what, o, c)
  PROVE SkipInv'
<1>1. /\ Store!Write(o, c)
      /\ UNCHANGED <<file, broken, persisted, unchanged, missed, run>>
      /\ apart' = apart \cup (IF \E t \in Thread : run[t].at = "push" THEN {o} ELSE {})
  BY DEF WriteOther, phone
<1>2. /\ SeqBound'
      /\ latest'[o].content = c /\ latest'[o].seq = seq + 1 /\ latest'[o] \in Store!Version
      /\ \A q \in Uuid : q # o => latest'[q] = latest[q]
      /\ \A q \in Uuid \ apart' :
           /\ latest'[q].content.mod # 0
           /\ PhoneTells(q, latest[q], persisted, read(file)[q], q \in missed)'
  BY <1>1, WrittenTells
<1>3. ASSUME NEW q \in Uuid \ apart', NEW t \in Thread
      PROVE RunTells(run[t], q, latest'[q], persisted, read(file)[q], q \in missed)
  <2>1. RunTells(run[t], q, latest[q], persisted, read(file)[q], q \in missed)
    BY <1>1 DEF SkipInv, Told
  <2>2. CASE q # o
    BY <1>2, <2>1, <2>2
  <2>3. CASE q = o
    <3>1. run[t].at # "push"
      BY <1>1, <2>3
    <3>2. /\ run[t] \in Runs /\ run[t].sync.lastSeq <= seq /\ seq \in Nat
          /\ persisted \in Persisted /\ persisted.lastSeq <= seq
      BY RunFacts DEF SyncFits, PhoneInv, PhoneFits
    <3>3. SyncTells(persisted, latest[o], o)
      BY <1>1, <2>3 DEF SkipInv, Told, PhoneTells
    <3> DEFINE L == latest[o]
               L2 == latest'[o]
               x == read(file)[o]
               m == o \in missed
    <3>4. L \in Store!Version /\ L.content.mod <= L2.content.mod
      BY <1>2, LatestFacts
    <3>5. RunTells(run[t], o, L, persisted, x, m)
      BY <2>1, <2>3
    <3>6. L2 \in Store!Version /\ L2.seq = seq + 1 /\ SyncTells(persisted, L, o)
      BY <1>2, <3>3
    <3> HIDE DEF L, L2, x, m
    <3>7. RunTells(run[t], o, L2, persisted, x, m)
      BY <3>1, <3>2, <3>4, <3>5, <3>6, RunKeepsTelling
    <3> QED BY <2>3, <3>7 DEF L2, x, m
  <2> QED BY <2>2, <2>3
<1>4. \A q \in Uuid \ apart' : Told(q)'
  BY <1>1, <1>2, <1>3 DEF Told
<1>5. Alone'
  BY <1>1 DEF SkipInv, Alone, Running, PhoneInv, HistoryTypes
<1> QED BY <1>2, <1>4, <1>5 DEF SkipInv

\* What other devices write is no older than what the server has.
LEMMA OtherTells ==
  ASSUME PhoneInv, SkipInv, OtherStep
  PROVE SkipInv'
<1>1. PICK o \in Uuid :
        LET c == latest[o].content
            alive == [c EXCEPT !.deleted = FALSE, !.place = IF c.deleted THEN Root ELSE @]
        IN \/ WriteOther("edit", o, [alive EXCEPT !.data = clock + 1, !.mod = clock + 1])
           \/ o \in Entry /\ ~c.deleted
              /\ \E p \in Folder \ {c.place} :
                   WriteOther("move", o, [c EXCEPT !.place = p, !.loc = clock + 1])
           \/ ~c.deleted /\ WriteOther("delete", o, Tombstone(clock + 1))
  BY DEF OtherStep
<1>2. PICK c : c = latest[o].content
  OBVIOUS
<1>3. c \in Content /\ clock \in Nat /\ c.mod \in Nat /\ c.mod <= clock
  BY <1>2, LatestFacts DEF PhoneInv, ServerFits
<1>4. PICK n \in Nat : n = clock + 1
  BY <1>3
<1> DEFINE alive == [c EXCEPT !.deleted = FALSE, !.place = IF c.deleted THEN Root ELSE @]
           newer == [alive EXCEPT !.data = n, !.mod = n]
<1>5. \/ WriteOther("edit", o, newer)
      \/ \E p \in Folder : WriteOther("move", o, [c EXCEPT !.place = p, !.loc = n])
      \/ WriteOther("delete", o, Tombstone(n))
  BY <1>1, <1>2, <1>4
<1>6. newer \in Content /\ newer.mod = n
  <2>1. PICK q : q = IF c.deleted THEN Root ELSE c.place
    OBVIOUS
  <2>2. q \in Place
    BY <1>3, <2>1, FolderAssumption DEF Content, Place
  <2>3. alive = [c EXCEPT !.deleted = FALSE, !.place = q]
    BY <1>3, <2>1 DEF Content
  <2>4. alive \in Content
    BY <1>3, <2>2, <2>3 DEF Content
  <2> HIDE DEF alive
  <2> QED BY <2>4 DEF Content
<1> HIDE DEF newer
<1>7. ASSUME NEW p \in Folder
      PROVE [c EXCEPT !.place = p, !.loc = n] \in Content /\ [c EXCEPT !.place = p, !.loc = n].mod = c.mod
  BY <1>3 DEF Content, Place
<1>8. Tombstone(n) \in Content /\ Tombstone(n).mod = n
  BY DEF Tombstone, Content, Place
<1>9. ASSUME NEW d \in Content, NEW what, d.mod \in {n, c.mod}, WriteOther(what, o, d)
      PROVE SkipInv'
  <2>1. latest[o].content.mod <= d.mod
    BY <1>2, <1>3, <1>4, <1>9
  <2> QED BY <1>9, <2>1, WriteOtherTells
<1>10. CASE WriteOther("edit", o, newer)
  BY <1>6, <1>9, <1>10
<1>11. ASSUME NEW p \in Folder, WriteOther("move", o, [c EXCEPT !.place = p, !.loc = n])
       PROVE SkipInv'
  <2> DEFINE d == [c EXCEPT !.place = p, !.loc = n]
  <2>1. d \in Content /\ d.mod = c.mod /\ WriteOther("move", o, d)
    BY <1>7, <1>11
  <2> HIDE DEF d
  <2> QED BY <1>9, <2>1
<1>12. CASE WriteOther("delete", o, Tombstone(n))
  BY <1>8, <1>9, <1>12
<1> QED BY <1>5, <1>10, <1>11, <1>12

\* What a run sends is newer than what the server has, or the object is apart.
LEMMA SentNewer ==
  ASSUME PhoneInv, SkipInv, NEW t \in Thread, run[t].at = "push",
         NEW o \in Uuid, NEW b \in BOOLEAN, <<o, b>> \in Nextup(t), Send(t, <<o, b>>)
  PROVE LET c == Pushed(t, <<o, b>>)
            y == run[t].state[o]
        IN /\ <<o, b>> \in run[t].due
           /\ c \in Content /\ Store!Write(o, c) /\ apart \subseteq apart'
           /\ UNCHANGED <<file, broken, persisted, unchanged, missed>>
           /\ o \notin apart' =>
                /\ latest[o].content.mod < c.mod /\ Agrees(y, c)
                /\ b = TRUE => y.entry = None /\ y.dead # 0 /\ y.dead = c.mod
                /\ b = FALSE => y.entry # None /\ y.entry.mod = c.mod
<1> DEFINE c == Pushed(t, <<o, b>>)
           y == run[t].state[o]
<1>1. <<o, b>> \in run[t].due
  BY DEF Nextup
<1>2. c \in Content /\ (b = FALSE => y.entry # None /\ c.mod = y.entry.mod)
  <2>1. PICK p \in Uuid, d \in BOOLEAN :
          /\ <<o, b>> = <<p, d>> /\ c \in Content
          /\ d = FALSE => run[t].state[p].entry # None /\ c.mod = run[t].state[p].entry.mod
    BY PushedFits
  <2> QED BY <2>1
<1>3. /\ Store!Write(o, c) /\ UNCHANGED <<file, broken, persisted, unchanged, missed>>
      /\ apart' = apart \cup IF b /\ y.entry # None THEN {o} ELSE {}
  BY DEF Send, phone
<1>4. c = IF b THEN Tombstone(y.dead)
          ELSE [deleted |-> FALSE, place |-> y.entry.place, data |-> y.entry.data,
                mod |-> y.entry.mod, loc |-> y.entry.loc]
  BY DEF Pushed
<1> HIDE DEF c, y
<1>5. ASSUME o \notin apart'
      PROVE /\ latest[o].content.mod < c.mod /\ Agrees(y, c)
            /\ b = TRUE => y.entry = None /\ y.dead # 0 /\ y.dead = c.mod
            /\ b = FALSE => y.entry # None /\ y.entry.mod = c.mod
  <2>1. InPush(run[t], o, latest[o], read(file)[o], o \in missed)
    BY <1>3, <1>5 DEF SkipInv, Told, RunTells
  <2>2. CASE b = TRUE
    <3>1. y.entry = None
      BY <1>3, <1>5, <2>2
    <3>2. y.dead # 0 /\ latest[o].content.mod < y.dead
      BY <1>1, <2>1, <2>2, <3>1 DEF InPush, y
    <3>3. c.deleted /\ c.mod = y.dead
      BY <1>4, <2>2 DEF Tombstone
    <3> QED BY <2>2, <3>1, <3>2, <3>3 DEF Agrees
  <2>3. CASE b = FALSE
    <3>1. latest[o].content.mod < y.entry.mod /\ y.entry # None
      BY <1>1, <2>1, <2>3 DEF InPush, y
    <3>2. ~c.deleted /\ c.mod = y.entry.mod
      BY <1>4, <2>3
    <3> QED BY <2>3, <3>1, <3>2 DEF Agrees
  <2> QED BY <2>2, <2>3
<1> QED BY <1>1, <1>2, <1>3, <1>5 DEF c, y

LEMMA AnswerLostTells ==
  ASSUME PhoneInv, PhoneInv', SkipInv, NEW t \in Thread, AnswerLost(t)
  PROVE SkipInv'
<1>1. PICK z \in Nextup(t) : Send(t, z)
  BY DEF AnswerLost
<1>2. run[t].at = "push" /\ run' = [run EXCEPT ![t] = Idle]
  BY DEF AnswerLost, Continue
<1>3. PICK o \in Uuid, b \in BOOLEAN : z = <<o, b>>
  BY <1>1, <1>2, PushedFits
<1> DEFINE c == Pushed(t, <<o, b>>)
<1>4. /\ c \in Content /\ Store!Write(o, c) /\ apart \subseteq apart'
      /\ UNCHANGED <<file, broken, persisted, unchanged, missed>>
      /\ o \notin apart' => latest[o].content.mod < c.mod
  BY <1>1, <1>2, <1>3, SentNewer
<1>5. o \notin apart' => latest[o].content.mod <= c.mod
  BY <1>4, LatestFacts DEF Content
<1> HIDE DEF c
<1>6. /\ SeqBound'
      /\ \A q \in Uuid \ apart' :
           /\ latest'[q].content.mod # 0
           /\ PhoneTells(q, latest[q], persisted, read(file)[q], q \in missed)'
  BY <1>4, <1>5, WrittenTells
<1> QED BY <1>2, <1>4, <1>6, StoppedTells

\* A run that sent one of the object's two.
LEMMA SentTells ==
  ASSUME NEW r \in Runs, NEW o \in Uuid, NEW b \in BOOLEAN,
         NEW L \in Store!Version, NEW L2 \in Store!Version,
         NEW p \in Persisted, NEW x, NEW m, NEW n \in Nat, p.lastSeq <= n,
         FromFile(o, r.db[o], r.state[o], L), Recorded(r, o, p), InPush(r, o, L, x, m),
         <<o, b>> \in r.due, L2.seq = n + 1, L.content.mod < L2.content.mod,
         Agrees(r.state[o], L2.content),
         b = TRUE => /\ r.state[o].entry = None /\ r.state[o].dead # 0
                     /\ r.state[o].dead = L2.content.mod,
         b = FALSE => r.state[o].entry # None /\ r.state[o].entry.mod = L2.content.mod,
         NEW q \in Runs, q.db = r.db, q.state = r.state, q.pulled = r.pulled,
         q.due = r.due \ {<<o, b>>}, q.sync.lastSeq = n + 1,
         q.sync.syncedAt[o] = L2.content.mod
  PROVE /\ FromFile(o, q.db[o], q.state[o], L2) /\ Recorded(q, o, p)
        /\ InPush(q, o, L2, x, m)
<1> DEFINE y == r.state[o]
           old == r.sync.syncedAt[o]
           time == q.sync.syncedAt[o]
           c == L2.content
<1>1. /\ y \in Object /\ r.db[o] \in Object /\ old \in Nat /\ time \in Nat
      /\ L.content.mod \in Nat /\ c.mod \in Nat /\ p.lastSeq \in Nat /\ L2.seq \in Nat
  BY DEF Runs, Persisted, Store!Version, Content
<1>2. (y.entry # None => y.entry.mod \in Nat) /\ y.dead \in Nat /\ r.db[o].dead \in Nat
  BY <1>1 DEF Object, Local
<1>3. /\ y = q.state[o] /\ q.db[o] = r.db[o] /\ time = c.mod /\ L.content.mod < c.mod
      /\ old <= L.content.mod /\ Agrees(y, c)
      /\ b = TRUE => y.entry = None /\ y.dead # 0 /\ y.dead = time
      /\ b = FALSE => y.entry # None /\ y.entry.mod = time
  BY DEF InPush
<1>4. /\ <<o, FALSE>> \in q.due <=> <<o, FALSE>> \in r.due /\ b = TRUE
      /\ <<o, TRUE>> \in q.due <=> <<o, TRUE>> \in r.due /\ b = FALSE
  BY Zenon
<1>5. /\ <<o, FALSE>> \in r.due => y.entry # None
      /\ <<o, TRUE>> \in r.due => y.dead # 0
      /\ ~r.pulled => Follows(x, y, old, m)
  BY DEF InPush
<1>6. /\ y.entry # None => <<o, FALSE>> \in r.due \/ y.entry.mod <= old
      /\ y.dead # 0 => <<o, TRUE>> \in r.due \/ y.dead <= old
      /\ o \in Group /\ y.dead = 0 => r.db[o].dead <= old
      /\ p.lastSeq <= r.sync.lastSeq
  BY DEF Recorded
<1>7. o \in Group => r.db[o].dead <= L.content.mod
  BY DEF FromFile
<1>8. FromFile(o, q.db[o], q.state[o], L2)
  <2>1. o \in Group => r.db[o].dead <= c.mod
    BY <1>1, <1>2, <1>3, <1>7
  <2> QED BY <1>3, <2>1 DEF FromFile, c
<1> HIDE DEF y, old, time, c
<1>9. Recorded(q, o, p)
  <2>1. y.entry # None => y.entry.mod <= time
    <3>1. y.entry # None => b = FALSE
      BY <1>3
    <3> QED BY <1>2, <1>3, <3>1
  <2>2. y.dead # 0 => <<o, TRUE>> \in q.due \/ y.dead <= time
    <3>1. CASE b = TRUE
      BY <1>1, <1>3, <3>1
    <3>2. CASE b = FALSE
      <4>1. y.dead <= old => y.dead <= time
        BY <1>1, <1>2, <1>3
      <4> QED BY <1>4, <1>6, <3>2, <4>1
    <3> QED BY <3>1, <3>2
  <2>3. o \in Group /\ y.dead = 0 => r.db[o].dead <= time
    BY <1>1, <1>2, <1>3, <1>6
  <2>4. p.lastSeq <= q.sync.lastSeq
    BY <1>1
  <2> QED BY <1>3, <2>1, <2>2, <2>3, <2>4 DEF Recorded, time
<1>10. ASSUME Follows(x, y, old, m)
       PROVE Follows(x, y, time, m)
  <2>1. ASSUME Newer(x, y, old)
        PROVE Newer(x, y, time)
    <3>1. CASE b = TRUE
      BY <1>3, <2>1, <3>1 DEF Newer
    <3>2. CASE b = FALSE
      BY <1>3, <2>1, <3>2 DEF Newer
    <3> QED BY <3>1, <3>2
  <2> QED BY <1>10, <2>1 DEF Follows
<1>11. InPush(q, o, L2, x, m)
  <2>1. ~q.pulled => Follows(x, y, time, m)
    BY <1>5, <1>10
  <2>2. L2.seq <= q.sync.lastSeq /\ time <= c.mod
    BY <1>1, <1>3
  <2>3. <<o, FALSE>> \notin q.due
    BY <1>3, <1>4, <1>5
  <2>4. <<o, TRUE>> \in q.due => y.dead # 0 /\ y.entry # None
    BY <1>3, <1>4, <1>5
  <2> QED BY <1>3, <2>1, <2>2, <2>3, <2>4 DEF InPush, time, c
<1> QED BY <1>8, <1>9, <1>11

\* A run that sent another object.
LEMMA OtherSent ==
  ASSUME NEW r \in Runs, NEW o \in Uuid, NEW L \in Store!Version,
         NEW p \in Persisted, NEW x, NEW m, NEW n \in Nat, p.lastSeq <= n,
         r.sync.lastSeq <= n,
         FromFile(o, r.db[o], r.state[o], L), Recorded(r, o, p), InPush(r, o, L, x, m),
         NEW q \in Runs, q.db = r.db, q.state = r.state, q.pulled = r.pulled,
         \A b \in BOOLEAN : <<o, b>> \in q.due <=> <<o, b>> \in r.due,
         q.sync.lastSeq = n + 1, q.sync.syncedAt[o] = r.sync.syncedAt[o]
  PROVE /\ FromFile(o, q.db[o], q.state[o], L) /\ Recorded(q, o, p)
        /\ InPush(q, o, L, x, m)
<1>1. p.lastSeq \in Nat /\ r.sync.lastSeq \in Nat /\ L.seq \in Nat
  BY DEF Runs, Persisted, Store!Version
<1>2. p.lastSeq <= q.sync.lastSeq
  BY <1>1
<1>3. L.seq <= r.sync.lastSeq => L.seq <= q.sync.lastSeq
  BY <1>1
<1> QED BY <1>2, <1>3 DEF Recorded, InPush

\* The run that a push makes.
LEMMA PushedRun ==
  ASSUME PhoneInv, NEW t \in Thread, push(t)
  PROVE \E q \in Runs, o \in Uuid, b \in BOOLEAN :
          /\ run[t].at = "push" /\ <<o, b>> \in Nextup(t) /\ Send(t, <<o, b>>)
          /\ run' = [run EXCEPT ![t] = Pushing(q)]
          /\ q.db = run[t].db /\ q.state = run[t].state /\ q.pulled = run[t].pulled
          /\ q.due = run[t].due \ {<<o, b>>} /\ q.sync.lastSeq = seq + 1
          /\ q.sync.syncedAt[o] = Pushed(t, <<o, b>>).mod
          /\ \A u \in Uuid : u # o => q.sync.syncedAt[u] = run[t].sync.syncedAt[u]
<1>1. PICK x \in Nextup(t) :
        LET synced == [run[t].sync.syncedAt EXCEPT ![x[1]] = Pushed(t, x).mod] IN
        /\ Send(t, x)
        /\ Continue(t, Pushing([run[t] EXCEPT !.due = @ \ {x},
                                  !.sync = [lastSeq |-> seq + 1, syncedAt |-> synced]]))
  BY DEF push
<1>2. PICK p : p = run[t]
  OBVIOUS
<1>3. PICK m : m = Pushed(t, x).mod
  OBVIOUS
<1>4. p.at = "push"
  BY <1>2 DEF push
<1>5. PICK o \in Uuid, b \in BOOLEAN : x = <<o, b>> /\ x[1] = o /\ Pushed(t, x) \in Content
  BY <1>2, <1>4, PushedFits
<1>6. m \in Nat
  BY <1>3, <1>5 DEF Content
<1>7. p \in Runs /\ p.sync \in Persisted /\ seq \in Nat
  BY <1>2, RunFacts
<1> DEFINE synced == [p.sync.syncedAt EXCEPT ![o] = m]
           sync == [lastSeq |-> seq + 1, syncedAt |-> synced]
           due == p.due \ {x}
           q == [p EXCEPT !.due = due, !.sync = sync]
<1>8. run' = [run EXCEPT ![t] = Pushing(q)]
  BY <1>1, <1>2, <1>3, <1>5 DEF Continue
<1>9. /\ synced \in [Uuid -> Nat] /\ synced[o] = m
      /\ \A u \in Uuid : u # o => synced[u] = p.sync.syncedAt[u]
  BY <1>6, <1>7 DEF Persisted
<1> HIDE DEF synced
<1>10. sync \in Persisted /\ sync.lastSeq = seq + 1 /\ sync.syncedAt = synced
  BY <1>7, <1>9 DEF Persisted
<1>11. due \subseteq Uuid \X BOOLEAN /\ due = p.due \ {<<o, b>>}
  BY <1>5, <1>7 DEF Runs
<1> HIDE DEF sync, due
<1>12. /\ q \in Runs /\ q.db = p.db /\ q.state = p.state /\ q.sync = sync /\ q.due = due
       /\ q.pulled = p.pulled
  BY <1>7, <1>10, <1>11 DEF Runs
<1> HIDE DEF q
<1>13. /\ run[t].at = "push" /\ <<o, b>> \in Nextup(t) /\ Send(t, <<o, b>>)
       /\ q.db = run[t].db /\ q.state = run[t].state /\ q.pulled = run[t].pulled
       /\ q.due = run[t].due \ {<<o, b>>} /\ q.sync.lastSeq = seq + 1
       /\ q.sync.syncedAt[o] = Pushed(t, <<o, b>>).mod
       /\ \A u \in Uuid : u # o => q.sync.syncedAt[u] = run[t].sync.syncedAt[u]
  BY <1>1, <1>2, <1>3, <1>4, <1>5, <1>9, <1>10, <1>11, <1>12
<1> q \in Runs
  BY <1>12
<1> WITNESS q \in Runs, o \in Uuid, b \in BOOLEAN
<1> QED BY <1>8, <1>13

LEMMA pushTells ==
  ASSUME PhoneInv, PhoneInv', SkipInv, NEW t \in Thread, push(t)
  PROVE SkipInv'
<1>1. PICK q \in Runs, o \in Uuid, b \in BOOLEAN :
        /\ run[t].at = "push" /\ <<o, b>> \in Nextup(t) /\ Send(t, <<o, b>>)
        /\ run' = [run EXCEPT ![t] = Pushing(q)]
        /\ q.db = run[t].db /\ q.state = run[t].state /\ q.pulled = run[t].pulled
        /\ q.due = run[t].due \ {<<o, b>>} /\ q.sync.lastSeq = seq + 1
        /\ q.sync.syncedAt[o] = Pushed(t, <<o, b>>).mod
        /\ \A u \in Uuid : u # o => q.sync.syncedAt[u] = run[t].sync.syncedAt[u]
  BY PushedRun
<1> DEFINE c == Pushed(t, <<o, b>>)
<1>2. /\ <<o, b>> \in run[t].due
      /\ c \in Content /\ Store!Write(o, c) /\ apart \subseteq apart'
      /\ UNCHANGED <<file, broken, persisted, unchanged, missed>>
      /\ o \notin apart' =>
           /\ latest[o].content.mod < c.mod /\ Agrees(run[t].state[o], c)
           /\ b = TRUE => /\ run[t].state[o].entry = None /\ run[t].state[o].dead # 0
                          /\ run[t].state[o].dead = c.mod
           /\ b = FALSE => run[t].state[o].entry # None /\ run[t].state[o].entry.mod = c.mod
  BY <1>1, SentNewer
<1>3. o \notin apart' => latest[o].content.mod <= c.mod
  BY <1>2, LatestFacts DEF Content
<1>4. q.sync.syncedAt[o] = c.mod
  BY <1>1
<1> HIDE DEF c
<1>5. /\ SeqBound'
      /\ latest'[o].content = c /\ latest'[o].seq = seq + 1 /\ latest'[o] \in Store!Version
      /\ \A u \in Uuid : u # o => latest'[u] = latest[u]
      /\ \A u \in Uuid \ apart' :
           /\ latest'[u].content.mod # 0
           /\ PhoneTells(u, latest[u], persisted, read(file)[u], u \in missed)'
  BY <1>2, <1>3, WrittenTells
<1>6. /\ run[t] \in Runs /\ run[t].sync.lastSeq <= seq /\ seq \in Nat
      /\ persisted \in Persisted /\ persisted.lastSeq <= seq
  BY RunFacts DEF SyncFits, PhoneInv, PhoneFits
<1>7. ASSUME NEW u \in Uuid \ apart'
      PROVE RunTells(Pushing(q), u, latest'[u], persisted, read(file)[u], u \in missed)
  <2> DEFINE x == read(file)[u]
             m == u \in missed
             L == latest[u]
             L2 == latest'[u]
  <2>1. RunTells(run[t], u, L, persisted, x, m)
    BY <1>2 DEF SkipInv, Told
  <2>2. L \in Store!Version /\ L2 \in Store!Version /\ L2.content.mod \in Nat
    <3>1. L \in Store!Version
      BY LatestFacts
    <3>2. L2 \in Store!Version
      BY <1>5, <3>1
    <3> QED BY <3>1, <3>2 DEF Store!Version, Content
  <2>3. u # o => L2 = L
    BY <1>5
  <2>4. u = o => L2.content = c /\ L2.seq = seq + 1 /\ L.content.mod < c.mod
    BY <1>2, <1>5
  <2> HIDE DEF x, m, L, L2
  <2>5. /\ FromFile(u, run[t].db[u], run[t].state[u], L)
        /\ Recorded(run[t], u, persisted) /\ InPush(run[t], u, L, x, m)
    BY <1>1, <2>1 DEF RunTells, Decoded
  <2>6. CASE u = o
    <3>1. L2.content = c /\ L2.seq = seq + 1 /\ L.content.mod < L2.content.mod
      BY <2>4, <2>6
    <3>2. /\ Agrees(run[t].state[u], L2.content) /\ q.sync.syncedAt[u] = L2.content.mod
          /\ b = TRUE => /\ run[t].state[u].entry = None /\ run[t].state[u].dead # 0
                         /\ run[t].state[u].dead = L2.content.mod
          /\ b = FALSE => /\ run[t].state[u].entry # None
                          /\ run[t].state[u].entry.mod = L2.content.mod
      BY <1>2, <1>4, <2>6, <3>1
    <3>3. <<u, b>> \in run[t].due /\ q.due = run[t].due \ {<<u, b>>}
      BY <1>1, <1>2, <2>6
    <3>4. /\ FromFile(u, q.db[u], q.state[u], L2) /\ Recorded(q, u, persisted)
          /\ InPush(q, u, L2, x, m)
      <4>1. PICK r \in Runs : r = run[t]
        BY <1>6
      <4>2. q.db = r.db /\ q.state = r.state /\ q.pulled = r.pulled /\ q.sync.lastSeq = seq + 1
        BY <1>1, <4>1
      <4>3. <<u, b>> \in r.due /\ q.due = r.due \ {<<u, b>>}
        BY <3>3, <4>1
      <4>4. /\ Agrees(r.state[u], L2.content)
            /\ b = TRUE => /\ r.state[u].entry = None /\ r.state[u].dead # 0
                           /\ r.state[u].dead = L2.content.mod
            /\ b = FALSE => r.state[u].entry # None /\ r.state[u].entry.mod = L2.content.mod
        BY <3>2, <4>1
      <4>5. FromFile(u, r.db[u], r.state[u], L) /\ Recorded(r, u, persisted) /\ InPush(r, u, L, x, m)
        BY <2>5, <4>1
      <4>6. persisted \in Persisted /\ persisted.lastSeq <= seq /\ seq \in Nat
        BY <1>6
      <4>7. q.sync.syncedAt[u] = L2.content.mod
        BY <3>2
      <4> QED BY <2>2, <3>1, <4>2, <4>3, <4>4, <4>5, <4>6, <4>7, SentTells
    <3>5. RunTells(Pushing(q), u, L2, persisted, x, m)
      BY <2>2, <3>4, PushingTells
    <3> QED BY <3>5 DEF L2, x, m
  <2>7. CASE u # o
    <3>1. \A d \in BOOLEAN : <<u, d>> \in q.due <=> <<u, d>> \in run[t].due
      BY <1>1, <2>7
    <3>2. q.sync.syncedAt[u] = run[t].sync.syncedAt[u]
      BY <1>1, <2>7
    <3>3. /\ FromFile(u, q.db[u], q.state[u], L) /\ Recorded(q, u, persisted)
          /\ InPush(q, u, L, x, m)
      BY <1>1, <1>6, <2>2, <2>5, <3>1, <3>2, OtherSent
    <3>4. RunTells(Pushing(q), u, L, persisted, x, m)
      BY <2>2, <2>3, <2>7, <3>3, PushingTells
    <3> QED BY <2>3, <2>7, <3>4 DEF L2, x, m
  <2> QED BY <2>6, <2>7
<1>8. ASSUME NEW u \in Uuid \ apart'
      PROVE /\ latest'[u].content.mod # 0
            /\ PhoneTells(u, latest[u], persisted, read(file)[u], u \in missed)'
            /\ RunTells(Pushing(q), u, latest'[u], persisted', read(file')[u], u \in missed')
  BY <1>2, <1>5, <1>7
<1> QED BY <1>1, <1>2, <1>5, <1>8, OneRunTells DEF SkipInv

-----------------------------------------------------------------------------
(* Writing back and keeping the books                                        *)

\* What a run wrote is read as what it had, but for what went astray.
LEMMA ReadWritten ==
  ASSUME NEW db \in Files, NEW state \in Files, NEW o \in Uuid, o \notin Astray(db, state),
         NEW L, FromFile(o, db[o], state[o], L), NEW time \in Nat,
         state[o].entry # None => state[o].entry.mod <= time,
         state[o].dead # 0 => state[o].dead <= time,
         o \in Group /\ state[o].dead = 0 => db[o].dead <= time
  PROVE LET x == read(applyToDatabase(db, state))[o]
            y == state[o]
        IN /\ x.entry = None <=> y.entry = None
           /\ x.entry # None => x.entry.mod = y.entry.mod
           /\ ~DueAt(x, time)
<1> DEFINE f == applyToDatabase(db, state)
           x == read(f)[o]
           y == state[o]
<1>1. /\ f \in Files /\ f[o].entry = Placed(db, state, o)
      /\ f[o].dead = IF y.dead # 0 THEN y.dead ELSE db[o].dead
  BY WrittenFile DEF applyToDatabase
<1>2. y.entry # None => x.entry # None
  BY DEF Astray
<1>3. /\ y \in Object /\ db[o] \in Object /\ y.dead \in Nat /\ db[o].dead \in Nat
      /\ y.entry # None => y.entry \in Local /\ y.entry.mod \in Nat
  BY DEF Files, Object, Local
<1> HIDE DEF f
<1>4. /\ x.entry = IF Present(f, o) /\ ~InBin(f, o) THEN f[o].entry ELSE None
      /\ o \in Group => x.dead = f[o].dead
      /\ o \in Entry /\ Present(f, o) /\ ~InBin(f, o) => x.dead = 0
      /\ o \in Entry /\ ~Present(f, o) => x.dead = f[o].dead
  <2>1. f[o].dead \in Nat
    BY <1>1, <1>3
  <2> QED BY <1>1, <2>1, ReadObject DEF InBin
<1>5. y.entry # None => /\ x.entry = Placed(db, state, o) /\ Present(f, o) /\ ~InBin(f, o)
                        /\ Placed(db, state, o).mod = y.entry.mod
  <2> SUFFICES ASSUME y.entry # None
               PROVE /\ x.entry = Placed(db, state, o) /\ Present(f, o) /\ ~InBin(f, o)
                     /\ Placed(db, state, o).mod = y.entry.mod
    OBVIOUS
  <2>1. Present(f, o) /\ ~InBin(f, o) /\ x.entry = Placed(db, state, o)
    BY <1>1, <1>2, <1>4
  <2>2. Placed(db, state, o) # None
    BY <1>2, <2>1
  <2>3. \/ Placed(db, state, o).mod = y.entry.mod
        \/ o \in Group /\ Placed(db, state, o) = y.entry
    BY <2>2, PlacedTypes DEF Placed
  <2> QED BY <2>1, <2>3
<1>6. y.entry = None => x.entry = None
  <2> SUFFICES ASSUME y.entry = None PROVE x.entry = None
    OBVIOUS
  <2>1. CASE o \in Entry
    <3>1. Placed(db, state, o) = None
      BY <2>1, ObjectAssumption DEF Placed, Erased
    <3> QED BY <1>1, <1>4, <3>1
  <2>2. CASE o \in Group
    <3>1. Placed(db, state, o) = IF o \in Erased(db, state) THEN None ELSE db[o].entry
      BY <2>2 DEF Placed
    <3>2. CASE Placed(db, state, o) = None
      BY <1>1, <1>4, <3>2
    <3>3. CASE Placed(db, state, o) # None
      <4>1. y.dead = 0 /\ Placed(db, state, o) = db[o].entry
        BY <2>2, <3>1, <3>3 DEF Erased, Present
      <4>2. f[o].entry.place = Bin /\ Present(f, o)
        BY <1>1, <2>2, <3>3, <4>1 DEF FromFile, Present
      <4> QED BY <1>4, <4>2 DEF InBin
    <3> QED BY <3>2, <3>3
  <2> QED BY <2>1, <2>2 DEF Uuid
<1>7. x.dead # 0 => x.dead <= time
  <2>1. CASE o \in Group
    BY <1>1, <1>3, <1>4, <2>1
  <2>2. CASE o \in Entry /\ y.entry # None
    BY <1>4, <1>5, <2>2
  <2>3. CASE o \in Entry /\ y.entry = None
    <3>1. Placed(db, state, o) = None
      BY <2>3, ObjectAssumption DEF Placed, Erased
    <3>2. x.dead = f[o].dead
      BY <1>1, <1>4, <2>3, <3>1 DEF Present
    <3>3. y.dead = 0 => db[o].dead = 0
      BY <2>3 DEF FromFile
    <3> QED BY <1>1, <3>2, <3>3
  <2> QED BY <2>1, <2>2, <2>3 DEF Uuid
<1>8. x.dead \in Nat /\ (x.entry # None => x.entry.mod = y.entry.mod)
  <2>1. x \in Object
    BY <1>1, ReadFile DEF Files
  <2> QED BY <1>5, <1>6, <2>1 DEF Object
<1> HIDE DEF x, y
<1>9. ~DueAt(x, time)
  <2>1. x.entry # None => ~(time < x.entry.mod)
    BY <1>2, <1>3, <1>6, <1>8 DEF y
  <2>2. x.dead # 0 => ~(time < x.dead)
    BY <1>7, <1>8
  <2> QED BY <2>1, <2>2 DEF DueAt
<1> QED BY <1>2, <1>6, <1>8, <1>9 DEF x, y, f

LEMMA TruncateTells ==
  ASSUME PhoneInv, PhoneInv', SkipInv, NEW t \in Thread, Truncate(t)
  PROVE SkipInv'
<1> DEFINE r == [run[t] EXCEPT !.at = "writing"]
<1>1. /\ run' = [run EXCEPT ![t] = r] /\ run[t].at = "write" /\ broken' = TRUE
      /\ UNCHANGED <<seq, latest, file, persisted, missed, apart>>
  BY DEF Truncate, Continue, server, history
<1>2. /\ r.at = "writing" /\ r.db = run[t].db /\ r.state = run[t].state /\ r.sync = run[t].sync
      /\ r.due = run[t].due
  BY RunFacts DEF Runs
<1> HIDE DEF r
<1>3. ASSUME NEW o \in Uuid \ apart'
      PROVE /\ latest'[o].content.mod # 0
            /\ PhoneTells(o, latest[o], persisted, read(file)[o], o \in missed)'
            /\ RunTells(r, o, latest'[o], persisted', read(file')[o], o \in missed')
  <2>1. Told(o)
    BY <1>1 DEF SkipInv
  <2>2. RunTells(run[t], o, latest[o], persisted, read(file)[o], o \in missed)
    BY <2>1 DEF Told
  <2>3. RunTells(r, o, latest[o], persisted, read(file)[o], o \in missed)
    BY <1>1, <1>2, <2>2 DEF RunTells, Decoded, Recorded, InWrite
  <2> QED BY <1>1, <2>1, <2>3 DEF Told, PhoneTells
<1>4. SeqBound'
  BY <1>1 DEF SkipInv, SeqBound
<1> QED BY <1>1, <1>3, <1>4, OneRunTells DEF SkipInv

LEMMA writeAtomicTells ==
  ASSUME PhoneInv, PhoneInv', SkipInv, NEW t \in Thread, writeAtomic(t)
  PROVE SkipInv'
<1> DEFINE q == run[t]
           r == Saving(q)
<1>1. /\ run' = [run EXCEPT ![t] = r] /\ q.at = "writing" /\ broken' = FALSE /\ unchanged' = FALSE
      /\ file' = applyToDatabase(q.db, q.state)
      /\ apart' = apart \cup Astray(q.db, q.state)
      /\ UNCHANGED <<seq, latest, persisted, missed>>
  BY DEF writeAtomic, Continue, server
<1>2. r.at = "save" /\ r.sync = q.sync
  BY DEF Saving, Idle
<1>3. /\ q \in Runs /\ q.db \in Files /\ q.state \in Files /\ q.sync \in Persisted /\ q.due = {}
  BY <1>1, RunFacts DEF RunFits
<1>4. q.at # "idle" /\ persisted.lastSeq \in Nat
  BY <1>1 DEF PhoneInv, PhoneFits, SyncFits, Persisted
<1> HIDE DEF q, r
<1>5. ASSUME NEW o \in Uuid \ apart'
      PROVE /\ latest'[o].content.mod # 0
            /\ PhoneTells(o, latest[o], persisted, read(file)[o], o \in missed)'
            /\ RunTells(r, o, latest'[o], persisted', read(file')[o], o \in missed')
  <2> DEFINE L == latest[o]
             y == q.state[o]
             x == read(file')[o]
             time == q.sync.syncedAt[o]
  <2>1. Told(o) /\ o \notin Astray(q.db, q.state)
    BY <1>1 DEF SkipInv
  <2>2. RunTells(q, o, L, persisted, read(file)[o], o \in missed)
    BY <2>1 DEF Told, q
  <2>3. FromFile(o, q.db[o], y, L) /\ Recorded(q, o, persisted) /\ InWrite(q, o, L)
    BY <1>1, <2>2 DEF RunTells, Decoded
  <2>4. /\ y.entry # None => y.entry.mod <= time
        /\ y.dead # 0 => y.dead <= time
        /\ o \in Group /\ y.dead = 0 => q.db[o].dead <= time
        /\ persisted.lastSeq <= q.sync.lastSeq
    BY <1>3, <2>3 DEF Recorded
  <2>5. SyncTells(q.sync, L, o) /\ (L.seq <= q.sync.lastSeq => Agrees(y, L.content))
    BY <2>3 DEF InWrite
  <2>6. time \in Nat /\ L.content.mod \in Nat /\ L.seq \in Nat /\ q.sync.lastSeq \in Nat
        /\ y.dead \in Nat /\ q.db[o].dead \in Nat
    BY <1>3, LatestFacts DEF Persisted, Files, Object
  <2>7. /\ x.entry = None <=> y.entry = None
        /\ x.entry # None => x.entry.mod = y.entry.mod
        /\ ~DueAt(x, time)
    <3>1. PICK db \in Files, state \in Files : db = q.db /\ state = q.state
      BY <1>3
    <3>2. FromFile(o, db[o], state[o], L) /\ o \notin Astray(db, state) /\ y = state[o]
      BY <2>1, <2>3, <3>1
    <3>3. /\ state[o].entry # None => state[o].entry.mod <= time
          /\ state[o].dead # 0 => state[o].dead <= time
          /\ o \in Group /\ state[o].dead = 0 => db[o].dead <= time
      BY <2>4, <3>1
    <3>4. x = read(applyToDatabase(db, state))[o]
      BY <1>1, <3>1
    <3> HIDE DEF x, y, L, time
    <3> QED BY <2>6, <3>2, <3>3, <3>4, ReadWritten
  <2>8. L.seq <= q.sync.lastSeq => Agrees(x, L.content)
    BY <2>5, <2>7 DEF Agrees
  <2>9. InSave(r, o, L, x, o \in missed)
    BY <1>2, <2>5, <2>7, <2>8 DEF InSave, ShowsOrDue
  <2>10. ShowsOrDue(x, persisted, L, o)
    BY <1>4, <2>4, <2>6, <2>8 DEF ShowsOrDue
  <2>11. o \in Group => file'[o].dead <= L.content.mod
    <3>1. file'[o].dead = IF y.dead # 0 THEN y.dead ELSE q.db[o].dead
      BY <1>1 DEF applyToDatabase
    <3>2. time <= L.content.mod /\ (o \in Group => q.db[o].dead <= L.content.mod)
      BY <2>3, <2>5 DEF SyncTells, FromFile
    <3>3. y.dead # 0 => y.dead <= L.content.mod
      BY <2>4, <2>6, <3>2
    <3> QED BY <3>1, <3>2, <3>3
  <2>12. RunTells(r, o, L, persisted, x, o \in missed)
    BY <1>2, <2>9 DEF RunTells, Decoded
  <2> QED BY <1>1, <2>1, <2>10, <2>11, <2>12 DEF Told, PhoneTells
<1>6. SeqBound'
  BY <1>1 DEF SkipInv, SeqBound
<1> QED BY <1>1, <1>4, <1>5, <1>6, OneRunTells DEF SkipInv, q

LEMMA saveTells ==
  ASSUME PhoneInv, PhoneInv', SkipInv, NEW t \in Thread, save(t)
  PROVE SkipInv'
<1> DEFINE r == [Idle EXCEPT !.at = "stamp"]
<1>1. /\ run' = [run EXCEPT ![t] = r] /\ persisted' = run[t].sync /\ run[t].at = "save"
      /\ UNCHANGED <<seq, latest, file, broken, unchanged, missed, apart>>
  BY DEF save, Continue, server, history
<1>2. r.at = "stamp"
  BY DEF Idle
<1> HIDE DEF r
<1>3. ASSUME NEW o \in Uuid \ apart'
      PROVE /\ latest'[o].content.mod # 0
            /\ PhoneTells(o, latest[o], persisted, read(file)[o], o \in missed)'
            /\ RunTells(r, o, latest'[o], persisted', read(file')[o], o \in missed')
  <2>1. Told(o)
    BY <1>1 DEF SkipInv
  <2>2. InSave(run[t], o, latest[o], read(file)[o], o \in missed)
    BY <1>1, <2>1 DEF Told, RunTells
  <2>3. RunTells(r, o, latest[o], persisted', read(file)[o], o \in missed)
    BY <1>1, <1>2, <2>2 DEF RunTells, Decoded, InSave
  <2> QED BY <1>1, <2>1, <2>2, <2>3 DEF Told, PhoneTells, InSave
<1>4. SeqBound'
  BY <1>1 DEF SkipInv, SeqBound
<1> QED BY <1>1, <1>3, <1>4, OneRunTells DEF SkipInv

-----------------------------------------------------------------------------
(* Saves of the user                                                         *)

LEMMA DueEarlier ==
  ASSUME NEW z \in Object, NEW now \in Nat, NEW time \in Nat, time <= now, DueAt(z, now)
  PROVE DueAt(z, time)
BY DEF DueAt, Object, Local

\* A run goes on knowing an object that the user left alone, or changed while it was
\* under way.
LEMMA RunFollows ==
  ASSUME NEW r \in Runs, NEW o \in Uuid, NEW L, NEW p \in Persisted, NEW x, NEW z \in Object,
         NEW m \in BOOLEAN, NEW m2 \in BOOLEAN, NEW now \in Nat,
         RunTells(r, o, L, p, x, m), Timely(o, r.state[o], now),
         p.syncedAt[o] <= now, r.sync.syncedAt[o] <= now,
         (Same(x, z) /\ (m => m2)) \/ (DueAt(z, now) /\ m2)
  PROVE RunTells(r, o, L, p, z, m2)
<1>1. /\ r.state[o] \in Object /\ p.syncedAt[o] \in Nat /\ r.sync.syncedAt[o] \in Nat
      /\ r.state[o].entry # None => r.state[o].entry.mod <= now
      /\ r.state[o].dead <= now
  BY DEF Runs, Persisted, Timely
<1>2. \A time \in Nat : time <= now /\ Follows(x, r.state[o], time, m) =>
        Follows(z, r.state[o], time, m2)
  BY <1>1, FollowsLater
<1>3. r.at \in {"load", "pull"} => Loaded(r, o, L, p, z, m2)
  BY <1>1, <1>2 DEF RunTells, Loaded
<1>4. r.at = "push" => InPush(r, o, L, z, m2)
  BY <1>1, <1>2 DEF RunTells, InPush
<1>5. ASSUME NEW time \in Nat, time <= now
      PROVE /\ DueAt(x, time) => DueAt(z, time)
            /\ ~m2 => ~m /\ (DueAt(z, time) => DueAt(x, time))
  BY <1>5, DueEarlier, SameDue
<1>6. ASSUME NEW s, s.syncedAt[o] \in Nat, s.syncedAt[o] <= now, ShowsOrDue(x, s, L, o)
      PROVE ShowsOrDue(z, s, L, o)
  <2>1. CASE Same(x, z)
    BY <1>6, <2>1, SameDue, SameAgrees DEF ShowsOrDue
  <2>2. CASE DueAt(z, now)
    BY <1>6, <2>2, DueEarlier DEF ShowsOrDue
  <2> QED BY <2>1, <2>2
<1>7. r.at = "save" => InSave(r, o, L, z, m2)
  <2> SUFFICES ASSUME r.at = "save" PROVE InSave(r, o, L, z, m2)
    OBVIOUS
  <2>1. InSave(r, o, L, x, m)
    BY DEF RunTells
  <2>2. ShowsOrDue(z, r.sync, L, o)
    BY <1>1, <1>6, <2>1 DEF InSave
  <2>3. ~m2 => ~DueAt(z, r.sync.syncedAt[o])
    BY <1>1, <1>5, <2>1 DEF InSave
  <2> QED BY <2>1, <2>2, <2>3 DEF InSave
<1>8. r.at = "stamp" /\ ~m2 => ~DueAt(z, p.syncedAt[o])
  BY <1>1, <1>5 DEF RunTells
<1> QED BY <1>3, <1>4, <1>7, <1>8 DEF RunTells

\* A save keeps the invariant if it leaves every object as it is read, or makes it
\* newer than all that is recorded of it.
LEMMA SaveTells ==
  ASSUME PhoneInv, PhoneInv', SkipInv, NEW u \in Uuid, NEW what, NEW f, SaveFile(what, u, f),
         apart \subseteq apart',
         \A o \in Uuid \ apart' :
           /\ o \in Group => f[o].dead = file[o].dead
           /\ Same(read(file)[o], read(f)[o]) \/ (o = u /\ DueAt(read(f)[o], clock))
  PROVE SkipInv'
<1>1. /\ ~broken /\ unchanged' = FALSE /\ file' = f
      /\ UNCHANGED <<seq, latest, broken, persisted, run>>
      /\ missed' = IF Running # {} THEN missed \cup {u} ELSE missed
  BY DEF SaveFile
<1>2. /\ clock \in Nat /\ persisted \in Persisted
      /\ \A o \in Uuid : /\ persisted.syncedAt[o] \in Nat /\ settled[o] \in Nat
                         /\ persisted.syncedAt[o] <= settled[o] /\ settled[o] <= clock
  BY FileFacts DEF PhoneInv, PhoneFits, SyncFits, Persisted
<1>3. SeqBound' /\ Alone'
  BY <1>1 DEF SkipInv, SeqBound, Alone, Running, PhoneInv, HistoryTypes
<1>4. ASSUME NEW o \in Uuid \ apart'
      PROVE Told(o)'
  <2> DEFINE L == latest[o]
             x == read(file)[o]
             z == read(f)[o]
             m == o \in missed
             m2 == o \in missed'
  <2>1. Told(o)
    BY DEF SkipInv
  <2>2. z \in Object
    BY <1>1, ReadFile DEF PhoneInv, PhoneFits, FileFits, Files
  <2>3. /\ m \in BOOLEAN /\ m2 \in BOOLEAN /\ (m => m2)
        /\ o = u /\ Running # {} => m2
    BY <1>1
  <2>4. Same(x, z) \/ (o = u /\ DueAt(z, clock))
    OBVIOUS
  <2>5. PhoneTells(o, latest[o], persisted, read(file)[o], o \in missed)'
    <3>1. PhoneTells(o, L, persisted, x, m)
      BY <2>1 DEF Told
    <3>2. ShowsOrDue(z, persisted, L, o)
      <4>1. ShowsOrDue(x, persisted, L, o)
        BY <1>1, <3>1 DEF PhoneTells
      <4>2. CASE Same(x, z)
        <5> HIDE DEF x, z, L
        <5> QED BY <4>1, <4>2, SameDue, SameAgrees DEF ShowsOrDue
      <4>3. CASE DueAt(z, clock)
        <5> HIDE DEF z
        <5>1. persisted.syncedAt[o] \in Nat /\ persisted.syncedAt[o] <= clock
          BY <1>2
        <5>2. DueAt(z, persisted.syncedAt[o])
          BY <1>2, <2>2, <4>3, <5>1, DueEarlier
        <5> QED BY <5>2 DEF ShowsOrDue
      <4> QED BY <2>4, <4>2, <4>3
    <3>3. o \in Group => f[o].dead <= L.content.mod
      BY <3>1 DEF PhoneTells
    <3> QED BY <1>1, <3>1, <3>2, <3>3 DEF PhoneTells
  <2>6. ASSUME NEW t \in Thread
        PROVE RunTells(run[t], o, L, persisted, z, m2)
    <3>1. CASE run[t].at = "idle"
      BY <3>1, IdleTells
    <3>2. CASE run[t].at # "idle"
      <4>1. RunTells(run[t], o, L, persisted, x, m)
        BY <2>1 DEF Told
      <4>2. Running # {}
        BY <3>2 DEF Running
      <4>3. (Same(x, z) /\ (m => m2)) \/ (DueAt(z, clock) /\ m2)
        BY <2>3, <2>4, <4>2
      <4>4. /\ run[t] \in Runs /\ Timely(o, run[t].state[o], clock)
            /\ run[t].sync.syncedAt[o] \in Nat /\ run[t].sync.syncedAt[o] <= settled[o]
        BY RunFacts DEF RunFits, SyncFits, Persisted
      <4>5. persisted.syncedAt[o] <= clock /\ run[t].sync.syncedAt[o] <= clock
        BY <1>2, <4>4
      <4> HIDE DEF L, x, z, m, m2
      <4>6. PICK r \in Runs : r = run[t]
        BY <4>4
      <4>7. PICK b \in BOOLEAN, b2 \in BOOLEAN : b = m /\ b2 = m2
        BY <2>3
      <4>8. RunTells(r, o, L, persisted, x, b) /\ Timely(o, r.state[o], clock)
        BY <4>1, <4>4, <4>6, <4>7
      <4>9. persisted.syncedAt[o] <= clock /\ r.sync.syncedAt[o] <= clock
        BY <4>5, <4>6
      <4>10. (Same(x, z) /\ (b => b2)) \/ (DueAt(z, clock) /\ b2)
        BY <4>3, <4>7
      <4>11. RunTells(r, o, L, persisted, z, b2)
        BY <1>2, <2>2, <4>8, <4>9, <4>10, RunFollows
      <4> QED BY <4>6, <4>7, <4>11
    <3> QED BY <3>1, <3>2
  <2>7. latest[o].content.mod # 0
    BY <2>1 DEF Told
  <2> QED BY <1>1, <2>5, <2>6, <2>7 DEF Told
<1> QED BY <1>3, <1>4 DEF SkipInv

\* What is left in its place is read as before.
LEMMA ReadSame ==
  ASSUME NEW f \in Files, NEW g \in Files, NEW o \in Uuid, g[o] = f[o], InBin(g, o) <=> InBin(f, o)
  PROVE Same(read(f)[o], read(g)[o])
<1>1. Present(g, o) <=> Present(f, o)
  BY DEF Present
<1>2. read(f)[o] = read(g)[o]
  BY <1>1 DEF read
<1> QED BY <1>2 DEF Same

LEMMA EditTells ==
  ASSUME PhoneInv, PhoneInv', SkipInv, NEW o \in Uuid, Edit(o)
  PROVE SkipInv'
<1>1. Present(file, o) /\ ~InBin(file, o) /\ UNCHANGED apart
  BY DEF Edit
<1>2. PICK f : /\ SaveFile("edit", o, f) /\ FileFits(f, clock + 1)
               /\ f[o].entry # None /\ f[o].entry.place = file[o].entry.place
               /\ f[o].entry.data = clock + 1 /\ f[o].entry.mod = clock + 1
               /\ f[o].dead = file[o].dead
               /\ \A q \in Uuid : q # o => f[q] = file[q]
  BY EditedFile
<1>3. file \in Files /\ f \in Files /\ clock \in Nat
  BY <1>2, FileFacts DEF FileFits
<1>4. \A q \in Uuid : InBin(f, q) <=> InBin(file, q)
  BY <1>1, <1>2 DEF InBin, Present, Uuid
<1>5. \A q \in Uuid : q # o => Same(read(file)[q], read(f)[q])
  BY <1>2, <1>3, <1>4, ReadSame
<1>6. DueAt(read(f)[o], clock)
  <2>1. read(f)[o].entry = f[o].entry
    BY <1>1, <1>2, <1>3, <1>4, ReadObject DEF Present
  <2>2. clock < clock + 1
    BY <1>3
  <2> QED BY <1>2, <2>1, <2>2 DEF DueAt
<1>7. \A q \in Uuid \ apart' :
        /\ q \in Group => f[q].dead = file[q].dead
        /\ Same(read(file)[q], read(f)[q]) \/ (q = o /\ DueAt(read(f)[q], clock))
  BY <1>2, <1>5, <1>6
<1> QED BY <1>1, <1>2, <1>7, SaveTells

LEMMA MoveTells ==
  ASSUME PhoneInv, PhoneInv', SkipInv, NEW e \in Entry, NEW p \in Folder, Move(e, p)
  PROVE SkipInv'
<1>1. /\ Present(file, e) /\ ~InBin(file, e) /\ Relocate("move", e, p)
      /\ p \in Group => Present(file, p) /\ ~InBin(file, p)
      /\ UNCHANGED apart
  BY DEF Move
<1>2. e \in Uuid /\ e \notin Group /\ p \in Place /\ p # Bin
  BY ObjectAssumption, BinAssumption DEF Uuid, Place
<1>3. PICK f : /\ SaveFile("move", e, f) /\ FileFits(f, clock + 1)
               /\ f[e].entry # None /\ f[e].entry.place = p
               /\ f[e].entry.mod = file[e].entry.mod
               /\ \A q \in Uuid : q # e => f[q] = file[q]
  BY <1>1, <1>2, Relocated
<1>4. file \in Files /\ f \in Files
  BY <1>3, FileFacts DEF FileFits
<1>5. \A q \in Uuid : q # e => (InBin(f, q) <=> InBin(file, q))
  BY <1>2, <1>3 DEF InBin, Present, Uuid
<1>6. \A q \in Uuid : q # e => Same(read(file)[q], read(f)[q])
  BY <1>3, <1>4, <1>5, ReadSame
<1>7. Same(read(file)[e], read(f)[e])
  <2>1. ~InBin(f, e)
    BY <1>1, <1>2, <1>3 DEF InBin, Present, Uuid
  <2>2. read(f)[e].entry = f[e].entry /\ read(f)[e].dead = 0
    BY <1>2, <1>3, <1>4, <2>1, ReadObject DEF Present
  <2>3. read(file)[e].entry = file[e].entry /\ read(file)[e].dead = 0
    BY <1>1, <1>2, <1>4, ReadObject
  <2> QED BY <1>1, <1>3, <2>2, <2>3 DEF Same, Present
<1>8. \A q \in Uuid \ apart' :
        /\ q \in Group => f[q].dead = file[q].dead
        /\ Same(read(file)[q], read(f)[q]) \/ (q = e /\ DueAt(read(f)[q], clock))
  BY <1>2, <1>3, <1>6, <1>7
<1> QED BY <1>1, <1>2, <1>3, <1>8, SaveTells

\* A change of one object, in or out of the bin, is one of what was inside it.
LEMMA InBinElsewhere ==
  ASSUME PhoneInv, NEW o \in Uuid, NEW f, f[o].entry # None,
         \A q \in Uuid : q # o => f[q] = file[q],
         NEW q \in Uuid, q # o, q \notin Inside(o)
  PROVE InBin(f, q) <=> InBin(file, q)
<1>1. f[q] = file[q]
  OBVIOUS
<1>2. file[q].entry # None /\ file[q].entry.place \in Group => file[q].entry.place # o
  <2>1. CASE q \in Entry
    BY <2>1 DEF Inside, Present
  <2>2. CASE q \in Group
    BY <2>2, FileFacts DEF Timely
  <2> QED BY <2>1, <2>2 DEF Uuid
<1> QED BY <1>1, <1>2 DEF InBin, Present, Uuid

LEMMA RestoreTells ==
  ASSUME PhoneInv, PhoneInv', SkipInv, NEW o \in Uuid, Restore(o)
  PROVE SkipInv'
<1>1. /\ Present(file, o) /\ Relocate("restore", o, Root)
      /\ apart' = apart \cup Inside(o) \cup {o}
  BY DEF Restore
<1>2. Root \in Place /\ Root \notin Group
  BY FolderAssumption DEF Place
<1>3. PICK f : /\ SaveFile("restore", o, f) /\ FileFits(f, clock + 1)
               /\ f[o].entry # None
               /\ \A q \in Uuid : q # o => f[q] = file[q]
  BY <1>1, <1>2, Relocated
<1>4. file \in Files /\ f \in Files
  BY <1>3, FileFacts DEF FileFits
<1>5. ASSUME NEW q \in Uuid \ apart'
      PROVE f[q] = file[q] /\ Same(read(file)[q], read(f)[q])
  <2>1. q # o /\ q \notin Inside(o)
    BY <1>1
  <2>2. InBin(f, q) <=> InBin(file, q)
    BY <1>3, <2>1, InBinElsewhere
  <2> QED BY <1>3, <1>4, <2>1, <2>2, ReadSame
<1> QED BY <1>1, <1>3, <1>5, SaveTells

LEMMA TrashTells ==
  ASSUME PhoneInv, PhoneInv', SkipInv, NEW o \in Uuid, Trash(o)
  PROVE SkipInv'
<1>1. /\ Present(file, o) /\ ~InBin(file, o) /\ Relocate("trash", o, Bin)
      /\ apart' = apart \cup Inside(o)
                  \cup (IF o \in Group \/ file[o].dead # 0 THEN {o} ELSE {})
  BY DEF Trash
<1>2. Bin \in Place /\ Bin \notin Group
  BY FolderAssumption, BinAssumption DEF Place
<1>3. PICK f : /\ SaveFile("trash", o, f) /\ FileFits(f, clock + 1)
               /\ f[o].entry # None /\ f[o].entry.place = Bin
               /\ f[o].entry.loc = clock + 1 /\ f[o].dead = file[o].dead
               /\ \A q \in Uuid : q # o => f[q] = file[q]
  BY <1>1, <1>2, Relocated
<1>4. file \in Files /\ f \in Files /\ clock \in Nat
  BY <1>3, FileFacts DEF FileFits
<1>5. ASSUME NEW q \in Uuid \ apart', q # o
      PROVE f[q] = file[q] /\ Same(read(file)[q], read(f)[q])
  <2>1. q \notin Inside(o)
    BY <1>1
  <2>2. InBin(f, q) <=> InBin(file, q)
    BY <1>3, <1>5, <2>1, InBinElsewhere
  <2> QED BY <1>3, <1>4, <1>5, <2>2, ReadSame
<1>6. ASSUME o \notin apart'
      PROVE DueAt(read(f)[o], clock) /\ o \notin Group
  <2>1. o \in Entry /\ o \notin Group /\ f[o].dead = 0
    BY <1>1, <1>3, <1>6 DEF Uuid
  <2>2. Present(f, o) /\ InBin(f, o)
    BY <1>3 DEF InBin, Present
  <2>3. read(f)[o].dead = clock + 1
    BY <1>3, <1>4, <2>1, <2>2, ReadObject
  <2>4. clock < clock + 1 /\ clock + 1 # 0
    BY <1>4
  <2> QED BY <2>1, <2>3, <2>4 DEF DueAt
<1>7. \A q \in Uuid \ apart' :
        /\ q \in Group => f[q].dead = file[q].dead
        /\ Same(read(file)[q], read(f)[q]) \/ (q = o /\ DueAt(read(f)[q], clock))
  BY <1>5, <1>6
<1> QED BY <1>1, <1>3, <1>7, SaveTells

LEMMA PurgeTells ==
  ASSUME PhoneInv, PhoneInv', SkipInv, NEW e \in Entry, Purge(e)
  PROVE SkipInv'
<1> DEFINE x == [entry |-> None, dead |-> clock + 1]
           f == [file EXCEPT ![e] = x]
<1>1. SaveFile("purge", e, f) /\ UNCHANGED apart
  BY DEF Purge
<1>2. file \in Files /\ clock \in Nat /\ e \in Uuid /\ e \notin Group
  BY FileFacts, ObjectAssumption DEF Uuid
<1>3. x \in Object /\ x.entry = None /\ x.dead = clock + 1
  BY <1>2 DEF Object
<1> HIDE DEF x
<1>4. f \in Files /\ f[e] = x /\ \A q \in Uuid : q # e => f[q] = file[q]
  BY <1>2, <1>3 DEF Files
<1> HIDE DEF f
<1>5. \A q \in Uuid : q # e => (InBin(f, q) <=> InBin(file, q))
  BY <1>2, <1>4 DEF InBin, Present, Uuid
<1>6. \A q \in Uuid : q # e => Same(read(file)[q], read(f)[q])
  BY <1>2, <1>4, <1>5, ReadSame
<1>7. DueAt(read(f)[e], clock)
  <2>1. ~Present(f, e) /\ f[e].dead = clock + 1 /\ clock + 1 # 0 /\ clock < clock + 1
    BY <1>2, <1>3, <1>4 DEF Present
  <2>2. read(f)[e].dead = clock + 1
    BY <1>2, <1>4, <2>1, ReadObject
  <2> QED BY <2>1, <2>2 DEF DueAt
<1>8. \A q \in Uuid \ apart' :
        /\ q \in Group => f[q].dead = file[q].dead
        /\ Same(read(file)[q], read(f)[q]) \/ (q = e /\ DueAt(read(f)[q], clock))
  BY <1>2, <1>4, <1>6, <1>7
<1> QED BY <1>1, <1>2, <1>8, SaveTells

LEMMA SkipInvInit == Init => SkipInv
<1> SUFFICES ASSUME Init PROVE SkipInv
  OBVIOUS
<1>1. PhoneInv
  BY InitFits
<1>2. /\ unchanged = TRUE
      /\ persisted = [lastSeq |-> seq, syncedAt |-> [o \in Uuid |-> 1]]
      /\ run = [t \in Thread |-> Idle]
  BY DEF Init
<1>3. PICK n \in [Uuid -> 1 .. seq] : latest = [o \in Uuid |->
        [uuid |-> o, seq |-> n[o], content |->
          [deleted |-> FALSE, place |-> IF o \in Group THEN Root ELSE home[o], data |-> 1,
           mod |-> 1, loc |-> 1]]]
  BY InitSeq
<1>4. ASSUME NEW o \in Uuid
      PROVE /\ ~latest[o].content.deleted /\ latest[o].content.mod = 1
            /\ latest[o].seq \in 1 .. seq
            /\ Present(file, o) /\ file[o].entry.mod = 1 /\ file[o].dead = 0
            /\ file[o].entry.place # Bin
            /\ o \in Group => file[o].entry.place = Root
            /\ file[o].entry.place = Root \/ file[o].entry.place \in Group
  <2>1. /\ latest[o].content.deleted = FALSE /\ latest[o].content.mod = 1
        /\ latest[o].content.place = IF o \in Group THEN Root ELSE home[o]
        /\ latest[o].seq = n[o]
    BY <1>3
  <2>2. PICK p : p = latest[o].content.place
    OBVIOUS
  <2>3. (o \in Group => p = Root) /\ (p = Root \/ p \in Group)
    BY <2>1, <2>2, ObjectAssumption DEF Uuid
  <2>4. p # Bin
    BY <2>3, FolderAssumption, BinAssumption
  <2>5. file[o] = [dead |-> 0, entry |-> [place |-> p, data |-> 1, mod |-> 1, loc |-> 1]]
    BY <2>2 DEF Init
  <2>6. Present(file, o)
    <3> DEFINE e == [place |-> p, data |-> 1, mod |-> 1, loc |-> 1]
    <3>1. e \in Local
      BY <2>3, FolderAssumption DEF Local, Place
    <3> HIDE DEF e
    <3>2. e # None
      BY <3>1, NoneIsNotLocal
    <3> QED BY <2>5, <3>2 DEF Present, e
  <2> QED BY <2>1, <2>3, <2>4, <2>5, <2>6
<1>5. ASSUME NEW o \in Uuid
      PROVE Told(o)
  <2> DEFINE x == read(file)[o]
  <2>1. ~InBin(file, o)
    BY <1>4, FolderAssumption, BinAssumption DEF InBin, Uuid
  <2>2. x.entry = file[o].entry /\ x.dead = 0
    BY <1>1, <1>4, <2>1, ReadObject, FileFacts DEF Uuid
  <2>3. x.entry # None /\ x.entry.mod = 1 /\ x.dead = 0
    BY <1>4, <2>2 DEF Present
  <2>4. persisted.syncedAt[o] = 1 /\ persisted.lastSeq = seq
    BY <1>2
  <2> HIDE DEF x
  <2>5. ~DueAt(x, persisted.syncedAt[o]) /\ Agrees(x, latest[o].content)
    BY <1>4, <2>3, <2>4 DEF DueAt, Agrees
  <2>6. SyncTells(persisted, latest[o], o)
    BY <1>4, <2>4 DEF SyncTells
  <2>7. o \in Group => file[o].dead <= latest[o].content.mod
    BY <1>4
  <2>8. PhoneTells(o, latest[o], persisted, x, o \in missed)
    BY <2>5, <2>6, <2>7 DEF PhoneTells, ShowsOrDue
  <2>9. \A t \in Thread : RunTells(run[t], o, latest[o], persisted, x, o \in missed)
    BY <1>2, IdleTells DEF Idle
  <2>10. latest[o].content.mod # 0
    BY <1>4
  <2> QED BY <2>8, <2>9, <2>10 DEF Told, x
<1>6. SeqBound
  <2>1. seq \in Nat
    BY <1>1 DEF PhoneInv, ServerFits
  <2> QED BY <1>4, <2>1 DEF SeqBound
<1>7. Alone
  BY <1>2 DEF Alone, Running, Idle
<1> QED BY <1>5, <1>6, <1>7 DEF SkipInv

LEMMA SkipInvStep ==
  ASSUME PhoneInv, PhoneInv', SkipInv, [Next]_vars
  PROVE SkipInv'
<1>1. CASE UserStep
  BY <1>1, EditTells, TrashTells, RestoreTells, PurgeTells, MoveTells DEF UserStep
<1>2. CASE OtherStep
  BY <1>2, OtherTells
<1>3. CASE Crash
  BY <1>3, CrashTells
<1>4. ASSUME NEW t \in Thread, RunStep(t)
      PROVE SkipInv'
  BY <1>4, OpenTells, loadTells, pullTells, pushTells, TruncateTells, writeAtomicTells,
     saveTells, fingerprintTells, RequestFailsTells, AnswerLostTells DEF RunStep
<1>5. CASE UNCHANGED vars
  <2>1. UNCHANGED <<seq, latest, persisted, run, file, broken, unchanged, missed, apart>>
    BY <1>5 DEF vars
  <2>2. SeqBound' /\ Alone'
    BY <2>1 DEF SkipInv, SeqBound, Alone, Running
  <2>3. read(file)' = read(file)
    BY <2>1 DEF read, InBin, Present
  <2>4. ASSUME NEW o \in Uuid \ apart'
        PROVE Told(o)'
    <3>1. Told(o)
      BY <2>1 DEF SkipInv
    <3> QED BY <2>1, <2>3, <3>1 DEF Told, PhoneTells
  <2> QED BY <2>2, <2>4 DEF SkipInv
<1> QED BY <1>1, <1>2, <1>3, <1>4, <1>5 DEF Next

LEMMA SkipInvHolds == Spec => [](PhoneInv /\ SkipInv)
<1>1. Init => PhoneInv /\ SkipInv
  BY InitFits, SkipInvInit
<1>2. PhoneInv /\ SkipInv /\ [Next]_vars => (PhoneInv /\ SkipInv)'
  BY PhoneInvStep, SkipInvStep
<1> QED BY <1>1, <1>2, PTL DEF Spec

\* Types: every run's copy of the file and of the bookkeeping is one the file may
\* be overwritten with, and an entry is in a group that is there.
THEOREM TypeCorrect == Spec => []TypeOK
BY PhoneInvHolds, PhoneInvTypes, PTL

\* However app and worker overlap, fail and overwrite the file, no time they record
\* as synchronised hides an edit that the server did not get.
THEOREM NothingIsForgotten == Spec => []NothingForgotten
BY PhoneInvHolds, PhoneInvForgets, PTL

\* An edit made between two runs is in the file or on the server, also when the process
\* dies between the truncation and the write: a run that writes has pushed all edits.
THEOREM EditsSurvive == Spec => []NoEditLost
BY PhoneInvHolds, PhoneInvLoses, PTL

\* A probe that finds file and server as they were is right to skip the run, whatever
\* runs failed and processes died before: nothing that was saved between runs is left to
\* push.  Objects in apart are excepted, which are all once two runs have overlapped.
THEOREM SkipsAreSafe == Spec => []SkipIsSafe
BY SkipInvHolds, SkipInvSkips, PTL

\* When there is nothing to pull and nothing to push the file shows of each object what
\* the server has, however runs one after the other have ended, but for those in apart.
THEOREM StaysInStep == Spec => []InStep
BY SkipInvHolds, SkipInvInStep, PTL

==============================================================================
