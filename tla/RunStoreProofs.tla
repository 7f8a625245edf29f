--------------------------- MODULE RunStoreProofs ---------------------------
(***************************************************************************)
(* Theorems about RunStore, for every set of runs, processes, commands,    *)
(* events and attempts, and every bound.                                   *)
(***************************************************************************)
EXTENDS RunStore, TLAPS

-----------------------------------------------------------------------------
(* Helpers *)

\* The snapshot the reducer computes has its type.
LEMMA ApplyType ==
    ASSUME NEW s \in Snapshot, NEW e, e.kind \in ModelKinds => e.attempt \in Attempts
    PROVE  Apply(s, e) \in Snapshot
<1>1. s.last + 1 \in Nat
  BY DEF Snapshot
<1>2. (IF e.kind \in {"ModelPrepared", "ModelRetried"} THEN e.attempt
       ELSE IF e.kind = "ModelSettled" THEN None ELSE s.attempt) \in Attempts \cup {None}
  BY DEF Snapshot, ModelKinds
<1>3. (IF e.kind = "ModelInFlight" THEN TRUE
       ELSE IF e.kind \in {"ModelRetried", "ModelSettled"} THEN FALSE
       ELSE s.inFlight) \in BOOLEAN
  BY DEF Snapshot
<1>4. (IF e.kind \in Terminals THEN e.kind ELSE s.terminal) \in Terminals \cup {None}
  BY DEF Snapshot
<1>5. QED
  BY <1>1, <1>2, <1>3, <1>4, Zenon DEF Apply, Snapshot

\* Reading the lagging snapshot keeps its type.
LEMMA PersistedType ==
    ASSUME TypeOK, NEW r \in Runs
    PROVE  Persisted(r) \in Snapshot
  BY ZenonT(60) DEF Persisted, TypeOK, Snapshot

\* append stores an event of the log's type, and keeps its kind and attempt.
LEMMA StoredType ==
    ASSUME NEW l \in Lease, NEW e \in PendingEvent
    PROVE  /\ Stored(l, e) \in StoredEvent
           /\ Stored(l, e).kind = e.kind
           /\ Stored(l, e).by = l.epoch
           /\ Stored(l, e).kind \in ModelKinds => Stored(l, e).attempt \in Attempts
  BY DEF Stored, Lease, PendingEvent, StoredEvent, ModelKinds, Terminals

\* The row update of acquire keeps the type of a row.
LEMMA RowLeased ==
    ASSUME NEW w \in Row, NEW n \in 0..MaxEpoch, NEW o \in Nat, NEW p \in Pids
    PROVE  [w EXCEPT !.epoch = n, !.owner = o, !.pid = p] \in Row
  BY DEF Row

-----------------------------------------------------------------------------
(* Type correctness *)

\* Every column of the run tables, every lease a process holds and every event
\* on its way keeps its type through all operations of SqliteRunStore.
THEOREM TypeCorrect == Spec => []TypeOK
<1>1. Init => TypeOK
  BY BoundAssumption DEF Init, TypeOK, Row, NoRow, Snapshot, BlankSnapshot, Creation, NoCreation
<1>2. TypeOK /\ [Next]_vars => TypeOK'
  <2> SUFFICES ASSUME TypeOK, [Next]_vars PROVE TypeOK'
    OBVIOUS
  <2>1. ASSUME NEW c \in Commands, NEW d \in Digests, NEW r \in Runs, ReserveCreation(c, d, r)
        PROVE  TypeOK'
    BY <2>1 DEF TypeOK, ReserveCreation, Creation
  <2>2. ASSUME NEW p \in Pids, NEW r \in Runs, NEW root \in BOOLEAN,
               NEW from \in Runs \cup {None}, NEW w \in Workspaces,
               CreateRun(p, r, root, from, w)
        PROVE  TypeOK'
    <3> DEFINE e == [id |-> "run_created", kind |-> "RunCreated", attempt |-> None, by |-> 1]
               rw == [epoch |-> 1, last |-> 1, terminal |-> FALSE,
                      owner |-> owners, pid |-> p,
                      attempt |-> None, inFlight |-> FALSE,
                      isRoot |-> root, from |-> from, ws |-> w]
    <3>1. e \in StoredEvent
      BY BoundAssumption DEF StoredEvent
    <3>2. rw \in Row
      BY BoundAssumption DEF Row, TypeOK
    <3>3. Apply(BlankSnapshot, e) \in Snapshot
      <4>1. BlankSnapshot \in Snapshot
        BY DEF BlankSnapshot, Snapshot
      <4>2. e.kind \notin ModelKinds
        BY DEF ModelKinds
      <4>3. QED
        BY <4>1, <4>2, ApplyType
    <3>4. row' = [row EXCEPT ![r] = rw] /\ log' = [log EXCEPT ![r] = <<e>>]
          /\ snap' = [snap EXCEPT ![r] = [seq |-> 1, body |-> Apply(BlankSnapshot, e)]]
          /\ held' = held \cup {NewLease(r, 1, p)}
      BY <2>2 DEF CreateRun, InsertRun, NewLease
    <3>5. NewLease(r, 1, p) \in Lease
      BY BoundAssumption DEF NewLease, Lease, TypeOK
    <3>6. creations' \in [Commands -> Creation]
      BY <2>2 DEF CreateRun, ConsumeIntent, TypeOK, Creation
    <3>7. row' \in [Runs -> Row] /\ log' \in [Runs -> Seq(StoredEvent)]
      BY <3>1, <3>2, <3>4 DEF TypeOK
    <3>8. snap' \in [Runs -> [seq : Nat, body : Snapshot]]
      BY <3>3, <3>4 DEF TypeOK
    <3>9. runs' \subseteq Runs /\ alive' \subseteq Pids /\ owners' \in Nat /\ held' \subseteq Lease
      BY <2>2, <3>4, <3>5 DEF CreateRun, InsertRun, TypeOK
    <3>10. QED
      BY <3>6, <3>7, <3>8, <3>9 DEF TypeOK
  <2>3. ASSUME NEW p \in Pids, NEW r \in Runs, AcquireRun(p, r)
        PROVE  TypeOK'
    <3>1. row[r] \in Row /\ row[r].epoch + 1 \in 1..MaxEpoch
      BY <2>3, BoundAssumption DEF AcquireRun, TypeOK, Row
    <3>2. NewLease(r, row[r].epoch + 1, p) \in Lease
      BY <3>1 DEF NewLease, Lease, TypeOK
    <3> DEFINE rw == [row[r] EXCEPT !.epoch = row[r].epoch + 1, !.owner = owners, !.pid = p]
    <3>3. row' = [row EXCEPT ![r] = rw] /\ held' = held \cup {NewLease(r, row[r].epoch + 1, p)}
      BY <2>3 DEF AcquireRun, NewLease
    <3>4. row' \in [Runs -> Row]
      <4>1. owners \in Nat /\ row[r].epoch + 1 \in 0..MaxEpoch
        BY <3>1 DEF TypeOK
      <4>2. rw \in Row
        BY <3>1, <4>1, RowLeased
      <4>3. QED
        BY <3>3, <4>2 DEF TypeOK
    <3>5. QED
      BY <2>3, <3>2, <3>3, <3>4 DEF TypeOK, AcquireRun
  <2>4. ASSUME NEW l \in held, NEW e \in PendingEvent, AppendEvent(l, e)
        PROVE  TypeOK'
    <3> DEFINE r == l.run
               s == Stored(l, e)
               next == Apply(Persisted(r), s)
    <3>1. /\ l \in Lease /\ r \in Runs /\ row[r] \in Row
          /\ snap[r] \in [seq : Nat, body : Snapshot]
      BY DEF TypeOK, Lease
    <3>2. s \in StoredEvent /\ next \in Snapshot
      BY <3>1, StoredType, PersistedType, ApplyType
    <3>3. log' \in [Runs -> Seq(StoredEvent)]
      BY <2>4, <3>1, <3>2 DEF AppendEvent, TypeOK
    <3>4. row[r].last + 1 \in Nat
      BY <3>1 DEF Row
    <3>5. ASSUME AdvanceSnapshot(r, s)
          PROVE  row' \in [Runs -> Row] /\ snap' \in [Runs -> [seq : Nat, body : Snapshot]]
      <4>1. [row[r] EXCEPT !.last = row[r].last + 1] \in Row
        BY <3>1, <3>4 DEF Row
      <4>2. [snap[r] EXCEPT !.seq = row[r].last + 1] \in [seq : Nat, body : Snapshot]
        BY <3>1, <3>4
      <4>3. QED
        BY <3>1, <3>5, <4>1, <4>2 DEF AdvanceSnapshot, TypeOK
    <3>6. ASSUME MaterializeSnapshot(r, s, next)
          PROVE  row' \in [Runs -> Row] /\ snap' \in [Runs -> [seq : Nat, body : Snapshot]]
      <4> HIDE DEF s, next
      <4> DEFINE o == IF s.kind \in Terminals THEN None ELSE row[r].owner
                 p == IF s.kind \in Terminals THEN None ELSE row[r].pid
                 t == s.kind \in Terminals
                 rw == [row[r] EXCEPT !.last = row[r].last + 1, !.terminal = t,
                                      !.owner = o, !.pid = p,
                                      !.attempt = next.attempt, !.inFlight = next.inFlight]
      <4>1. /\ next.attempt \in Attempts \cup {None} /\ next.inFlight \in BOOLEAN
            /\ [seq |-> next.last, body |-> next] \in [seq : Nat, body : Snapshot]
        BY <3>2 DEF Snapshot
      <4>2. o \in Nat \cup {None} /\ p \in Pids \cup {None} /\ t \in BOOLEAN
        BY <3>1 DEF Row
      <4>3. rw \in Row
        <5> HIDE DEF o, p, t, r
        <5> QED
          BY <3>1, <3>4, <4>1, <4>2 DEF Row
      <4>4. row' = [row EXCEPT ![r] = rw] /\ snap' = [snap EXCEPT ![r] = [seq |-> next.last, body |-> next]]
        BY <3>6 DEF IsTerminal, MaterializeSnapshot
      <4>5. QED
        BY <4>1, <4>3, <4>4 DEF TypeOK
    <3>7. QED
      BY <2>4, <3>3, <3>5, <3>6 DEF AppendEvent, TypeOK
  <2>5. ASSUME NEW l \in held, ReleaseRun(l)
        PROVE  TypeOK'
    <3>1. l.run \in Runs /\ row[l.run] \in Row
      BY DEF TypeOK, Lease
    <3>2. [row[l.run] EXCEPT !.owner = None, !.pid = None] \in Row
      BY <3>1 DEF Row
    <3>3. QED
      BY <2>5, <3>1, <3>2 DEF ReleaseRun, TypeOK
  <2>6. ASSUME NEW l \in held, DropLease(l)
        PROVE  TypeOK'
    BY <2>6 DEF DropLease, TypeOK
  <2>7. ASSUME NEW p \in Pids, Crash(p)
        PROVE  TypeOK'
    BY <2>7 DEF Crash, TypeOK
  <2>8. ASSUME NEW p \in Pids, Spawn(p)
        PROVE  TypeOK'
    BY <2>8 DEF Spawn, TypeOK
  <2>9. CASE UNCHANGED vars
    BY <2>9 DEF vars, TypeOK
  <2>10. QED
    BY <2>1, <2>2, <2>3, <2>4, <2>5, <2>6, <2>7, <2>8, <2>9 DEF Next
<1>3. QED
  BY <1>1, <1>2, PTL DEF Spec

-----------------------------------------------------------------------------
(* Leases *)

\* A run without a row is blank, a run with one has an epoch, and a lease in
\* memory is a lease of an existing run in a live process.
LeaseInv ==
    /\ \A r \in Runs \ runs : row[r] = NoRow /\ log[r] = <<>>
    /\ \A r \in runs : row[r].epoch > 0
    /\ \A l \in held : l.run \in runs /\ l.pid \in alive

\* No append changes the epoch of its run.
LEMMA AppendKeepsEpoch ==
    ASSUME TypeOK, NEW l, l.run \in Runs, NEW e, AppendEvent(l, e)
    PROVE  row'[l.run].epoch = row[l.run].epoch
<1>1. row[l.run] \in Row /\ row \in [Runs -> Row]
  BY DEF TypeOK
<1>2. CASE AdvanceSnapshot(l.run, Stored(l, e))
  BY <1>1, <1>2 DEF AdvanceSnapshot, Row
<1>3. ASSUME NEW next, MaterializeSnapshot(l.run, Stored(l, e), next)
      PROVE  row'[l.run].epoch = row[l.run].epoch
  BY <1>1, <1>3 DEF IsTerminal, MaterializeSnapshot, Row
<1>4. QED
  BY <1>2, <1>3 DEF AppendEvent

\* LeaseInv holds initially and every step of the store or of a process keeps it.
THEOREM LeasesWellFormed == Spec => []LeaseInv
<1>1. Init => LeaseInv
  BY DEF Init, LeaseInv
<1>2. TypeOK /\ LeaseInv /\ [Next]_vars => LeaseInv'
  <2> SUFFICES ASSUME TypeOK, LeaseInv, [Next]_vars PROVE LeaseInv'
    OBVIOUS
  <2>1. ASSUME NEW c \in Commands, NEW d \in Digests, NEW r \in Runs, ReserveCreation(c, d, r)
        PROVE  LeaseInv'
    BY <2>1 DEF LeaseInv, ReserveCreation
  <2>2. ASSUME NEW p \in Pids, NEW r \in Runs, NEW root \in BOOLEAN,
               NEW from \in Runs \cup {None}, NEW w \in Workspaces,
               CreateRun(p, r, root, from, w)
        PROVE  LeaseInv'
    <3>1. row'[r].epoch = 1
      BY <2>2 DEF CreateRun, InsertRun, TypeOK
    <3>2. \A q \in Runs \ {r} : row'[q] = row[q] /\ log'[q] = log[q]
      BY <2>2 DEF CreateRun, InsertRun, TypeOK
    <3>3. runs' = runs \cup {r} /\ alive' = alive /\ p \in alive
          /\ held' = held \cup {NewLease(r, 1, p)}
      BY <2>2 DEF CreateRun, InsertRun
    <3>4. \A q \in Runs \ runs' : row'[q] = NoRow /\ log'[q] = <<>>
      BY <3>2, <3>3 DEF LeaseInv
    <3>5. \A q \in runs' : row'[q].epoch > 0
      BY <3>1, <3>2, <3>3 DEF LeaseInv, TypeOK
    <3>6. \A l \in held' : l.run \in runs' /\ l.pid \in alive'
      BY <3>3 DEF LeaseInv, NewLease
    <3>7. QED
      BY <3>4, <3>5, <3>6 DEF LeaseInv
  <2>3. ASSUME NEW p \in Pids, NEW r \in Runs, AcquireRun(p, r)
        PROVE  LeaseInv'
    <3>1. row'[r].epoch = row[r].epoch + 1 /\ row[r].epoch \in Nat
      BY <2>3, BoundAssumption DEF AcquireRun, NewLease, TypeOK, Row
    <3>2. \A q \in Runs \ {r} : row'[q] = row[q]
      BY <2>3 DEF AcquireRun, TypeOK
    <3>3. runs' = runs /\ alive' = alive /\ log' = log /\ r \in runs /\ p \in alive
          /\ held' = held \cup {NewLease(r, row[r].epoch + 1, p)}
      BY <2>3 DEF AcquireRun
    <3>4. ASSUME NEW q \in runs' PROVE row'[q].epoch > 0
      <4>1. CASE q = r
        BY <3>1, <4>1
      <4>2. CASE q # r
        BY <3>2, <3>3, <4>2 DEF LeaseInv, TypeOK
      <4>3. QED
        BY <4>1, <4>2
    <3>5. \A l \in held' : l.run \in runs' /\ l.pid \in alive'
      BY <3>3 DEF LeaseInv, NewLease
    <3>6. QED
      BY <3>2, <3>3, <3>4, <3>5 DEF LeaseInv
  <2>4. ASSUME NEW l \in held, NEW e \in PendingEvent, AppendEvent(l, e)
        PROVE  LeaseInv'
    <3>1. l.run \in runs /\ l.run \in Runs /\ row[l.run] \in Row
      BY <2>4 DEF AppendEvent, TypeOK
    <3>2. row'[l.run].epoch = row[l.run].epoch
      BY <2>4, <3>1, AppendKeepsEpoch
    <3>3. \A q \in Runs \ {l.run} : row'[q] = row[q] /\ log'[q] = log[q]
      BY <2>4, <3>1 DEF AppendEvent, AdvanceSnapshot, IsTerminal, MaterializeSnapshot, TypeOK
    <3>4. UNCHANGED <<runs, alive, held>>
      BY <2>4 DEF AppendEvent
    <3>5. QED
      BY <3>1, <3>2, <3>3, <3>4 DEF LeaseInv, TypeOK
  <2>5. ASSUME NEW l \in held, ReleaseRun(l)
        PROVE  LeaseInv'
    <3>1. l.run \in runs /\ l.run \in Runs
      BY <2>5 DEF ReleaseRun, TypeOK
    <3>2. row'[l.run].epoch = row[l.run].epoch
      BY <2>5, <3>1 DEF ReleaseRun, TypeOK, Row
    <3>3. \A q \in Runs \ {l.run} : row'[q] = row[q]
      BY <2>5, <3>1 DEF ReleaseRun, TypeOK
    <3>4. UNCHANGED <<runs, alive, held, log>>
      BY <2>5 DEF ReleaseRun
    <3>5. QED
      BY <3>1, <3>2, <3>3, <3>4 DEF LeaseInv, TypeOK
  <2>6. ASSUME NEW l \in held, DropLease(l)
        PROVE  LeaseInv'
    BY <2>6 DEF DropLease, LeaseInv
  <2>7. ASSUME NEW p \in Pids, Crash(p)
        PROVE  LeaseInv'
    BY <2>7 DEF Crash, LeaseInv
  <2>8. ASSUME NEW p \in Pids, Spawn(p)
        PROVE  LeaseInv'
    BY <2>8 DEF Spawn, LeaseInv
  <2>9. CASE UNCHANGED vars
    BY <2>9 DEF vars, LeaseInv
  <2>10. QED
    BY <2>1, <2>2, <2>3, <2>4, <2>5, <2>6, <2>7, <2>8, <2>9 DEF Next
<1>3. QED
  BY <1>1, <1>2, TypeCorrect, PTL DEF Spec

\* A live worker loses a lease that append accepts only by releasing it or by
\* ending its run: acquire asks for a dead recorded pid, and the pid recorded
\* for a lease in memory is alive.
THEOREM LeaseNeverStolen == Spec => LeaseNotStolen
<1> DEFINE Stays ==
      \A l \in held \cap held' :
          LeaseMatches(l) /\ ~LeaseMatches(l)' =>
              \/ ReleaseRun(l)
              \/ row'[l.run].terminal /\ log'[l.run] # log[l.run]
<1>1. TypeOK /\ LeaseInv /\ [Next]_vars => [Stays]_vars
  <2> SUFFICES ASSUME TypeOK, LeaseInv, [Next]_vars,
                      NEW l \in held \cap held', LeaseMatches(l), ~LeaseMatches(l)'
               PROVE  \/ ReleaseRun(l)
                      \/ row'[l.run].terminal /\ log'[l.run] # log[l.run]
    BY Zenon
  <2>0. l.run \in runs /\ l.run \in Runs /\ l.pid \in alive /\ row'[l.run] # row[l.run]
    BY DEF LeaseInv, LeaseMatches, TypeOK
  <2>1. ASSUME NEW c \in Commands, NEW d \in Digests, NEW r \in Runs, ReserveCreation(c, d, r)
        PROVE  FALSE
    BY <2>0, <2>1 DEF ReserveCreation
  <2>2. ASSUME NEW p \in Pids, NEW r \in Runs, NEW root \in BOOLEAN,
               NEW from \in Runs \cup {None}, NEW w \in Workspaces,
               CreateRun(p, r, root, from, w)
        PROVE  FALSE
    <3>1. l.run # r
      BY <2>0, <2>2 DEF CreateRun, InsertRun
    <3>2. row'[l.run] = row[l.run]
      BY <2>0, <2>2, <3>1 DEF CreateRun, InsertRun, TypeOK
    <3>3. QED
      BY <2>0, <3>2
  <2>3. ASSUME NEW p \in Pids, NEW r \in Runs, AcquireRun(p, r)
        PROVE  FALSE
    <3>1. l.run # r
      BY <2>0, <2>3 DEF AcquireRun, OwnerIsGone, LeaseMatches
    <3>2. row'[l.run] = row[l.run]
      BY <2>0, <2>3, <3>1 DEF AcquireRun, TypeOK
    <3>3. QED
      BY <2>0, <3>2
  <2>4. ASSUME NEW k \in held, NEW e \in PendingEvent, AppendEvent(k, e)
        PROVE  row'[l.run].terminal /\ log'[l.run] # log[l.run]
    <3>1. k.run = l.run
      <4>1. CASE k.run # l.run
        <5>1. row'[l.run] = row[l.run]
          BY <2>0, <2>4, <4>1 DEF AppendEvent, AdvanceSnapshot, IsTerminal, MaterializeSnapshot, TypeOK
        <5>2. QED
          BY <2>0, <5>1
      <4>2. QED
        BY <4>1
    <3>2. log'[l.run] # log[l.run]
      <4>1. log'[l.run] = Append(log[l.run], Stored(k, e)) /\ log[l.run] \in Seq(StoredEvent)
        BY <2>0, <2>4, <3>1 DEF AppendEvent, TypeOK
      <4>2. Len(log'[l.run]) # Len(log[l.run])
        BY <4>1
      <4>3. QED
        BY <4>2
    <3>3. row[l.run] \in Row
      BY <2>0 DEF TypeOK
    <3>4. ~AdvanceSnapshot(l.run, Stored(k, e))
      <4>1. CASE AdvanceSnapshot(l.run, Stored(k, e))
        <5>1. /\ row'[l.run].epoch = row[l.run].epoch
              /\ row'[l.run].owner = row[l.run].owner
              /\ row'[l.run].pid = row[l.run].pid
          BY <2>0, <3>3, <4>1 DEF AdvanceSnapshot, TypeOK, Row
        <5>2. QED
          BY <5>1 DEF LeaseMatches
      <4>2. QED
        BY <4>1
    <3>5. CASE MaterializeSnapshot(l.run, Stored(k, e), Apply(Persisted(l.run), Stored(k, e)))
      <4>1. CASE Stored(k, e).kind \in Terminals
        <5>1. row'[l.run].terminal
          BY <2>0, <3>3, <3>5, <4>1 DEF IsTerminal, MaterializeSnapshot, TypeOK, Row
        <5>2. QED
          BY <3>2, <5>1
      <4>2. CASE Stored(k, e).kind \notin Terminals
        <5>1. /\ row'[l.run].epoch = row[l.run].epoch
              /\ row'[l.run].owner = row[l.run].owner
              /\ row'[l.run].pid = row[l.run].pid
          BY <2>0, <3>3, <3>5, <4>2 DEF IsTerminal, MaterializeSnapshot, TypeOK, Row
        <5>2. QED
          BY <5>1 DEF LeaseMatches
      <4>3. QED
        BY <4>1, <4>2
    <3>6. QED
      BY <2>4, <3>1, <3>4, <3>5 DEF AppendEvent
  <2>5. ASSUME NEW k \in held, ReleaseRun(k)
        PROVE  ReleaseRun(l)
    <3>1. k.run = l.run
      <4>1. CASE k.run # l.run
        <5>1. row'[l.run] = row[l.run]
          BY <2>0, <2>5, <4>1 DEF ReleaseRun, TypeOK
        <5>2. QED
          BY <2>0, <5>1
      <4>2. QED
        BY <4>1
    <3>2. QED
      BY <2>5, <3>1 DEF ReleaseRun
  <2>6. ASSUME NEW k \in held, DropLease(k)
        PROVE  FALSE
    BY <2>0, <2>6 DEF DropLease
  <2>7. ASSUME NEW p \in Pids, Crash(p)
        PROVE  FALSE
    BY <2>0, <2>7 DEF Crash
  <2>8. ASSUME NEW p \in Pids, Spawn(p)
        PROVE  FALSE
    BY <2>0, <2>8 DEF Spawn
  <2>9. CASE UNCHANGED vars
    BY <2>0, <2>9 DEF vars
  <2>10. QED
    BY <2>1, <2>2, <2>3, <2>4, <2>5, <2>6, <2>7, <2>8, <2>9 DEF Next
<1>2. QED
  BY <1>1, TypeCorrect, LeasesWellFormed, PTL DEF Spec, LeaseNotStolen

-----------------------------------------------------------------------------
(* Fencing and recovery *)

\* The epochs along a log never decrease: a superseded lease appends nothing.
THEOREM Fencing == Spec => []TermsNeverOverlap
<1>1. Init => TermsNeverOverlap
  BY DEF Init, TermsNeverOverlap
<1>2. TypeOK /\ LeaseInv /\ TermsNeverOverlap /\ [Next]_vars => TermsNeverOverlap'
  <2> SUFFICES ASSUME TypeOK, LeaseInv, TermsNeverOverlap, [Next]_vars
               PROVE  TermsNeverOverlap'
    OBVIOUS
  <2>0. ASSUME runs' = runs, log' = log, \A q \in runs : row'[q].epoch = row[q].epoch
        PROVE  TermsNeverOverlap'
    BY <2>0 DEF TermsNeverOverlap
  <2>1. ASSUME NEW c \in Commands, NEW d \in Digests, NEW r \in Runs, ReserveCreation(c, d, r)
        PROVE  TermsNeverOverlap'
    BY <2>0, <2>1 DEF ReserveCreation
  <2>2. ASSUME NEW p \in Pids, NEW r \in Runs, NEW root \in BOOLEAN,
               NEW from \in Runs \cup {None}, NEW w \in Workspaces,
               CreateRun(p, r, root, from, w)
        PROVE  TermsNeverOverlap'
    <3> DEFINE e == [id |-> "run_created", kind |-> "RunCreated", attempt |-> None, by |-> 1]
    <3>1. log'[r] = <<e>> /\ row'[r].epoch = 1
      BY <2>2 DEF CreateRun, InsertRun, TypeOK
    <3>2. \A q \in Runs \ {r} : row'[q] = row[q] /\ log'[q] = log[q]
      BY <2>2 DEF CreateRun, InsertRun, TypeOK
    <3>3. runs' = runs \cup {r} /\ runs \subseteq Runs
      BY <2>2 DEF CreateRun, InsertRun, TypeOK
    <3>4. DOMAIN log'[r] = {1} /\ log'[r][1].by = 1
      BY <3>1
    <3>5. QED
      BY <3>1, <3>2, <3>3, <3>4 DEF TermsNeverOverlap
  <2>3. ASSUME NEW p \in Pids, NEW r \in Runs, AcquireRun(p, r)
        PROVE  TermsNeverOverlap'
    <3>1. row'[r].epoch = row[r].epoch + 1 /\ row[r].epoch \in Nat
      BY <2>3, BoundAssumption DEF AcquireRun, NewLease, TypeOK, Row
    <3>2. \A q \in Runs \ {r} : row'[q] = row[q]
      BY <2>3 DEF AcquireRun, TypeOK
    <3>3. runs' = runs /\ log' = log /\ runs \subseteq Runs
      BY <2>3 DEF AcquireRun, TypeOK
    <3>4. \A i \in DOMAIN log[r] : log[r][i].by \in Nat
      <4>1. log[r] \in Seq(StoredEvent)
        BY DEF TypeOK
      <4>2. \A i \in DOMAIN log[r] : log[r][i] \in StoredEvent
        BY <4>1
      <4>3. QED
        BY <4>2, BoundAssumption DEF StoredEvent
    <3>5. QED
      BY <3>1, <3>2, <3>3, <3>4 DEF TermsNeverOverlap
  <2>4. ASSUME NEW l \in held, NEW e \in PendingEvent, AppendEvent(l, e)
        PROVE  TermsNeverOverlap'
    <3> DEFINE r == l.run
               s == Stored(l, e)
    <3>1. r \in runs /\ r \in Runs /\ l \in Lease
      BY <2>4 DEF AppendEvent, TypeOK
    <3>2. s.by = row[r].epoch
      BY <2>4, <3>1, StoredType DEF AppendEvent, LeaseMatches
    <3>3. row'[r].epoch = row[r].epoch
      BY <2>4, <3>1, AppendKeepsEpoch
    <3>4. \A q \in Runs \ {r} : row'[q] = row[q] /\ log'[q] = log[q]
      BY <2>4, <3>1 DEF AppendEvent, AdvanceSnapshot, IsTerminal, MaterializeSnapshot, TypeOK
    <3>5. log'[r] = Append(log[r], s) /\ log[r] \in Seq(StoredEvent) /\ runs' = runs
      BY <2>4, <3>1 DEF AppendEvent, TypeOK
    <3> HIDE DEF r, s
    <3>6. /\ DOMAIN log[r] = 1..Len(log[r])
          /\ DOMAIN log'[r] = 1..(Len(log[r]) + 1)
          /\ Len(log[r]) \in Nat
          /\ \A i \in 1..Len(log[r]) : log'[r][i] = log[r][i]
          /\ log'[r][Len(log[r]) + 1] = s
      BY <3>5
    <3>7. \A i \in DOMAIN log'[r] : log'[r][i].by <= row[r].epoch
      <4>1. row[r].epoch \in Nat
        BY <3>1, BoundAssumption DEF TypeOK, Row
      <4>2. QED
        BY <3>1, <3>2, <3>6, <4>1, SMTT(30) DEF TermsNeverOverlap
    <3>8. \A i, j \in DOMAIN log'[r] : i < j => log'[r][i].by <= log'[r][j].by
      <4>1. SUFFICES ASSUME NEW i \in DOMAIN log'[r], NEW j \in DOMAIN log'[r], i < j
                     PROVE  log'[r][i].by <= log'[r][j].by
        OBVIOUS
      <4>2. CASE j = Len(log[r]) + 1
        BY <3>2, <3>6, <3>7, <4>2
      <4>3. CASE j # Len(log[r]) + 1
        <5>1. i \in DOMAIN log[r] /\ j \in DOMAIN log[r]
          BY <3>6, <4>1, <4>3
        <5>2. QED
          BY <3>1, <3>6, <4>1, <5>1 DEF TermsNeverOverlap
      <4>4. QED
        BY <4>2, <4>3
    <3>9. ASSUME NEW q \in runs', NEW i \in DOMAIN log'[q]
          PROVE  /\ log'[q][i].by <= row'[q].epoch
                 /\ \A j \in DOMAIN log'[q] : i < j => log'[q][i].by <= log'[q][j].by
      <4>1. CASE q = r
        BY <3>3, <3>7, <3>8, <3>9, <4>1
      <4>2. CASE q # r
        BY <3>4, <3>5, <3>9, <4>2 DEF TermsNeverOverlap, TypeOK
      <4>3. QED
        BY <4>1, <4>2
    <3>10. QED
      BY <3>9 DEF TermsNeverOverlap
  <2>5. ASSUME NEW l \in held, ReleaseRun(l)
        PROVE  TermsNeverOverlap'
    <3>1. l.run \in Runs /\ row \in [Runs -> Row] /\ row[l.run] \in Row /\ runs \subseteq Runs
      BY DEF TypeOK, Lease
    <3>2. \A q \in runs : row'[q].epoch = row[q].epoch
      BY <2>5, <3>1 DEF ReleaseRun, Row
    <3>3. QED
      BY <2>0, <2>5, <3>2 DEF ReleaseRun
  <2>6. ASSUME NEW l \in held, DropLease(l)
        PROVE  TermsNeverOverlap'
    BY <2>0, <2>6 DEF DropLease
  <2>7. ASSUME NEW p \in Pids, Crash(p)
        PROVE  TermsNeverOverlap'
    BY <2>0, <2>7 DEF Crash
  <2>8. ASSUME NEW p \in Pids, Spawn(p)
        PROVE  TermsNeverOverlap'
    BY <2>0, <2>8 DEF Spawn
  <2>9. CASE UNCHANGED vars
    BY <2>0, <2>9 DEF vars
  <2>10. QED
    BY <2>1, <2>2, <2>3, <2>4, <2>5, <2>6, <2>7, <2>8, <2>9 DEF Next
<1>3. QED
  BY <1>1, <1>2, TypeCorrect, LeasesWellFormed, PTL DEF Spec

\* A reserved creation keeps its intent exactly until its run exists, so a
\* process that crashed in between can be finished once and only once.
THEOREM IntentRecoverable == Spec => []IntentIffUncreated
<1>1. Init => IntentIffUncreated
  BY DEF Init, IntentIffUncreated
<1>2. TypeOK /\ IntentIffUncreated /\ [Next]_vars => IntentIffUncreated'
  <2> SUFFICES ASSUME TypeOK, IntentIffUncreated, [Next]_vars
               PROVE  IntentIffUncreated'
    OBVIOUS
  <2>0. ASSUME runs' = runs, creations' = creations
        PROVE  IntentIffUncreated'
    BY <2>0 DEF IntentIffUncreated
  <2>1. ASSUME NEW c \in Commands, NEW d \in Digests, NEW r \in Runs, ReserveCreation(c, d, r)
        PROVE  IntentIffUncreated'
    BY <2>1 DEF ReserveCreation, IntentIffUncreated, TypeOK
  <2>2. ASSUME NEW p \in Pids, NEW r \in Runs, NEW root \in BOOLEAN,
               NEW from \in Runs \cup {None}, NEW w \in Workspaces,
               CreateRun(p, r, root, from, w)
        PROVE  IntentIffUncreated'
    <3>1. runs' = runs \cup {r} /\ r \notin runs
      BY <2>2 DEF CreateRun, InsertRun
    <3>2. SUFFICES ASSUME NEW c \in Commands, creations'[c] # NoCreation
                   PROVE  creations'[c].intent <=> creations'[c].run \notin runs'
      BY DEF IntentIffUncreated
    <3>3. creations[c] \in Creation /\ NoCreation.run = None /\ NoCreation.intent = FALSE
      BY DEF TypeOK, NoCreation
    <3>4. CASE creations[c].run = r
      <4>1. creations'[c] = [creations[c] EXCEPT !.intent = FALSE]
        BY <2>2, <3>4 DEF CreateRun, ConsumeIntent
      <4>2. creations'[c].intent = FALSE /\ creations'[c].run = r
        BY <3>3, <3>4, <4>1 DEF Creation
      <4>3. QED
        BY <3>1, <4>2
    <3>5. CASE creations[c].run # r
      <4>1. creations'[c] = creations[c]
        BY <2>2, <3>5 DEF CreateRun, ConsumeIntent
      <4>2. QED
        BY <3>1, <3>2, <3>5, <4>1 DEF IntentIffUncreated
    <3>6. QED
      BY <3>4, <3>5
  <2>3. ASSUME NEW p \in Pids, NEW r \in Runs, AcquireRun(p, r)
        PROVE  IntentIffUncreated'
    BY <2>0, <2>3 DEF AcquireRun
  <2>4. ASSUME NEW l \in held, NEW e \in PendingEvent, AppendEvent(l, e)
        PROVE  IntentIffUncreated'
    BY <2>0, <2>4 DEF AppendEvent
  <2>5. ASSUME NEW l \in held, ReleaseRun(l)
        PROVE  IntentIffUncreated'
    BY <2>0, <2>5 DEF ReleaseRun
  <2>6. ASSUME NEW l \in held, DropLease(l)
        PROVE  IntentIffUncreated'
    BY <2>0, <2>6 DEF DropLease
  <2>7. ASSUME NEW p \in Pids, Crash(p) \/ Spawn(p)
        PROVE  IntentIffUncreated'
    BY <2>0, <2>7 DEF Crash, Spawn
  <2>8. CASE UNCHANGED vars
    BY <2>0, <2>8 DEF vars
  <2>9. QED
    BY <2>1, <2>2, <2>3, <2>4, <2>5, <2>6, <2>7, <2>8 DEF Next
<1>3. QED
  BY <1>1, <1>2, TypeCorrect, PTL DEF Spec
=============================================================================
