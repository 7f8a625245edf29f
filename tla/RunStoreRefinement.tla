------------------------- MODULE RunStoreRefinement -------------------------
(***************************************************************************)
(* What the store promises to its clients, for every value of the          *)
(* constants: it implements RunLedger, a lagging snapshot is the result of *)
(* the log, and continuations descend from closed runs.                    *)
(***************************************************************************)
EXTENDS RunStoreProofs, WellFoundedInduction

-----------------------------------------------------------------------------
(* The ledger *)

\* The store with its leases, snapshots and crashing processes implements the
\* append-only ledger: create opens a ledger, acquire begins a term, append
\* writes one entry in the term of its lease, and everything else stutters.
THEOREM StoreImplementsLedger == Spec => ImplementsLedger
<1>1. Init => Ledger!Init
  BY DEF Init, Ledger!Init, NoRow
<1>2. TypeOK /\ LeaseInv /\ [Next]_vars => [Ledger!Next]_(Ledger!vars)
  <2> SUFFICES ASSUME TypeOK, LeaseInv, [Next]_vars
               PROVE  Ledger!Next \/ UNCHANGED Ledger!vars
    OBVIOUS
  <2>0. ASSUME log' = log, row' = row
        PROVE  UNCHANGED Ledger!vars
    BY <2>0 DEF Ledger!vars
  <2>1. ASSUME NEW c \in Commands, NEW d \in Digests, NEW r \in Runs, ReserveCreation(c, d, r)
        PROVE  UNCHANGED Ledger!vars
    BY <2>0, <2>1 DEF ReserveCreation
  <2>2. ASSUME NEW p \in Pids, NEW r \in Runs, NEW root \in BOOLEAN,
               NEW from \in Runs \cup {None}, NEW w \in Workspaces,
               CreateRun(p, r, root, from, w)
        PROVE  Ledger!Open(r)
    <3> DEFINE e == [id |-> "run_created", kind |-> "RunCreated", attempt |-> None, by |-> 1]
    <3>1. e \in StoredEvent /\ e.kind \notin Terminals /\ e.by = 1
      BY BoundAssumption DEF StoredEvent, Terminals
    <3>2. row[r] = NoRow
      BY <2>2 DEF CreateRun, LeaseInv
    <3>3. log' = [log EXCEPT ![r] = <<e>>]
      BY <2>2 DEF CreateRun, InsertRun
    <3>4. /\ row'[r].epoch = 1 /\ row'[r].terminal = FALSE
          /\ \A q \in Runs \ {r} : row'[q] = row[q]
      BY <2>2 DEF CreateRun, InsertRun, TypeOK
    <3>5. [q \in Runs |-> row[q].epoch]' = [[q \in Runs |-> row[q].epoch] EXCEPT ![r] = 1]
      BY <3>4
    <3>6. [q \in Runs |-> row[q].terminal]' = [q \in Runs |-> row[q].terminal]
      <4>1. row[r].terminal = FALSE
        BY <3>2 DEF NoRow
      <4>2. \A q \in Runs : row'[q].terminal = row[q].terminal
        BY <3>4, <4>1, Zenon
      <4> QED
        BY <4>2
    <3>7. [q \in Runs |-> row[q].epoch][r] = 0
      BY <3>2 DEF NoRow
    <3> HIDE DEF e
    <3> QED
      BY <3>1, <3>3, <3>5, <3>6, <3>7 DEF Ledger!Open
  <2>3. ASSUME NEW p \in Pids, NEW r \in Runs, AcquireRun(p, r)
        PROVE  Ledger!TakeOver(r)
    <3>1. /\ row'[r].epoch = row[r].epoch + 1 /\ row'[r].terminal = row[r].terminal
          /\ \A q \in Runs \ {r} : row'[q] = row[q]
      BY <2>3 DEF AcquireRun, NewLease, TypeOK, Row
    <3>2. log' = log /\ row[r].epoch > 0 /\ ~row[r].terminal
      BY <2>3 DEF AcquireRun, LeaseInv
    <3>3. [q \in Runs |-> row[q].epoch]'
            = [[q \in Runs |-> row[q].epoch] EXCEPT ![r] = row[r].epoch + 1]
      BY <3>1
    <3>4. [q \in Runs |-> row[q].terminal]' = [q \in Runs |-> row[q].terminal]
      BY <3>1
    <3> QED
      BY <3>2, <3>3, <3>4 DEF Ledger!TakeOver
  <2>4. ASSUME NEW l \in held, NEW e \in PendingEvent, AppendEvent(l, e)
        PROVE  Ledger!Write(l.run)
    <3> DEFINE r == l.run
               s == Stored(l, e)
               final == {x \in StoredEvent : x.kind \in Terminals}
    <3>1. r \in Runs /\ row[r] \in Row /\ l \in Lease /\ s \in StoredEvent /\ s.kind = e.kind
      BY <2>4, StoredType DEF AppendEvent, TypeOK
    <3>2. log' = [log EXCEPT ![r] = Append(@, s)] /\ ~row[r].terminal
      BY <2>4 DEF AppendEvent
    <3>3. row[r].epoch > 0 /\ s.by = row[r].epoch
      BY <2>4, <3>1, StoredType DEF AppendEvent, LeaseInv, LeaseMatches
    <3>4. row'[r].epoch = row[r].epoch
      BY <2>4, <3>1, AppendKeepsEpoch
    <3>5. \A q \in Runs \ {r} : row'[q] = row[q]
      BY <2>4, <3>1 DEF AppendEvent, AdvanceSnapshot, MaterializeSnapshot, TypeOK
    <3>6. row'[r].terminal = (s \in final)
      <4>1. CASE ProjectionNeutral(e) /\ AdvanceSnapshot(r, s)
        <5>1. row'[r].terminal = row[r].terminal
          BY <3>1, <4>1 DEF AdvanceSnapshot, TypeOK, Row
        <5>2. s \notin final
          BY <3>1, <4>1 DEF ProjectionNeutral, Terminals
        <5>3. row[r].terminal = FALSE
          <6>1. row[r].terminal \in BOOLEAN
            BY <3>1 DEF Row
          <6> QED
            BY <3>2, <6>1, Zenon
        <5>4. (s \in final) = FALSE
          <6> HIDE DEF s, final
          <6> QED
            BY <5>2
        <5> QED
          BY <5>1, <5>3, <5>4, Zenon
      <4>2. CASE ~ProjectionNeutral(e) /\ MaterializeSnapshot(r, s, Apply(Persisted(r), s))
        <5>1. row'[r].terminal = (s.kind \in Terminals)
          <6> HIDE DEF s
          <6> QED
            BY <3>1, <4>2 DEF MaterializeSnapshot, IsTerminal, TypeOK, Row
        <5> QED
          BY <3>1, <5>1
      <4> QED
        BY <2>4, <4>1, <4>2 DEF AppendEvent
    <3>7. [q \in Runs |-> row[q].epoch]' = [q \in Runs |-> row[q].epoch]
      BY <3>4, <3>5
    <3>8. [q \in Runs |-> row[q].terminal]'
            = [[q \in Runs |-> row[q].terminal] EXCEPT ![r] = s \in final]
      BY <3>5, <3>6
    <3>9. [q \in Runs |-> row[q].epoch][r] = row[r].epoch
          /\ [q \in Runs |-> row[q].terminal][r] = row[r].terminal
      BY <3>1
    <3> HIDE DEF s, r
    <3>10. r = l.run
      BY DEF r
    <3> QED
      BY <3>1, <3>2, <3>3, <3>7, <3>8, <3>9, <3>10, Zenon DEF Ledger!Write
  <2>5. ASSUME NEW l \in held, ReleaseRun(l)
        PROVE  UNCHANGED Ledger!vars
    <3>1. l.run \in Runs
      BY DEF TypeOK, Lease
    <3>2. \A q \in Runs : row'[q].epoch = row[q].epoch /\ row'[q].terminal = row[q].terminal
      BY <2>5, <3>1 DEF ReleaseRun, TypeOK, Row
    <3> QED
      BY <2>5, <3>2 DEF ReleaseRun, Ledger!vars
  <2>6. ASSUME NEW l \in held, DropLease(l)
        PROVE  UNCHANGED Ledger!vars
    BY <2>0, <2>6 DEF DropLease
  <2>7. ASSUME NEW p \in Pids, Crash(p) \/ Spawn(p)
        PROVE  UNCHANGED Ledger!vars
    BY <2>0, <2>7 DEF Crash, Spawn
  <2>8. CASE UNCHANGED vars
    BY <2>0, <2>8 DEF vars
  <2>9. ASSUME NEW l \in held PROVE l.run \in Runs
    BY DEF TypeOK, Lease
  <2> QED
    BY <2>1, <2>2, <2>3, <2>4, <2>5, <2>6, <2>7, <2>8, <2>9 DEF Next, Ledger!Next
<1>3. QED
  BY <1>1, <1>2, TypeCorrect, LeasesWellFormed, PTL
     DEF Spec, ImplementsLedger, Ledger!Spec

-----------------------------------------------------------------------------
(* Replay *)

\* The consistency checks of read_persisted_snapshot hold for every run, and the
\* body of a closed run holds the outcome its last event carries.
ReadableInv ==
    \A r \in runs :
        /\ PersistedReadable(r)
        /\ Len(log[r]) = row[r].last /\ Len(log[r]) > 0
        /\ snap[r].body.terminal # None => log[r][Len(log[r])].kind = snap[r].body.terminal

\* f lists the snapshots that the reducer goes through on the log of r.
Replays(f, r) ==
    /\ f \in [0..Len(log[r]) -> Snapshot]
    /\ f[0] = BlankSnapshot
    /\ \A i \in 1..Len(log[r]) : Accepts(f[i - 1], log[r][i]) /\ f[i] = Apply(f[i - 1], log[r][i])

\* The reducer accepts the log of every run, event by event, and ends in the
\* snapshot that read_persisted_snapshot returns.
ReplayInv == \A r \in runs : \E f : Replays(f, r) /\ f[Len(log[r])] = Persisted(r)

\* What an append does to the projections of its run: a delta moves only the
\* sequence, any other event replaces the body.
LEMMA AppendEffect ==
    ASSUME TypeOK, NEW l \in held, NEW e \in PendingEvent, AppendEvent(l, e),
           PersistedReadable(l.run)
    PROVE  LET r == l.run
               s == Stored(l, e)
           IN  /\ r \in runs /\ r \in Runs
               /\ s \in StoredEvent
               /\ log' = [log EXCEPT ![r] = Append(@, s)]
               /\ \A q \in Runs \ {r} : row'[q] = row[q] /\ snap'[q] = snap[q]
               /\ row'[r].last = row[r].last + 1
               /\ row'[r].isRoot = row[r].isRoot /\ row'[r].from = row[r].from
               /\ row'[r].ws = row[r].ws
               /\ Accepts(Persisted(r), s)
               /\ [snap'[r].body EXCEPT !.last = snap'[r].seq] = Apply(Persisted(r), s)
               /\ PersistedReadable(r)'
               /\ snap'[r].body.terminal = Apply(Persisted(r), s).terminal
<1> DEFINE r == l.run
           s == Stored(l, e)
           next == Apply(Persisted(r), s)
<1>1. /\ r \in runs /\ r \in Runs /\ row[r] \in Row /\ l \in Lease
      /\ snap[r] \in [seq : Nat, body : Snapshot] /\ snap[r].body \in Snapshot
      /\ row \in [Runs -> Row] /\ snap \in [Runs -> [seq : Nat, body : Snapshot]]
  BY DEF AppendEvent, TypeOK, Lease
<1>2. s \in StoredEvent /\ s.kind = e.kind /\ Persisted(r) \in Snapshot /\ next \in Snapshot
  BY <1>1, StoredType, PersistedType, ApplyType
<1>3. log' = [log EXCEPT ![r] = Append(@, s)]
  BY DEF AppendEvent
<1>4. /\ Persisted(r).last = snap[r].seq /\ Persisted(r).attempt = snap[r].body.attempt
      /\ Persisted(r).inFlight = snap[r].body.inFlight
      /\ Persisted(r).terminal = snap[r].body.terminal
  BY <1>1 DEF Persisted, Snapshot
<1>5. snap[r].body.terminal = None
  BY <1>1 DEF AppendEvent, PersistedReadable
<1> DEFINE Goal ==
      /\ \A q \in Runs \ {r} : row'[q] = row[q] /\ snap'[q] = snap[q]
      /\ row'[r].last = row[r].last + 1
      /\ row'[r].isRoot = row[r].isRoot /\ row'[r].from = row[r].from
      /\ row'[r].ws = row[r].ws
      /\ Accepts(Persisted(r), s)
      /\ [snap'[r].body EXCEPT !.last = snap'[r].seq] = next
      /\ PersistedReadable(r)'
      /\ snap'[r].body.terminal = next.terminal
<1>6. ASSUME ProjectionNeutral(e) /\ AdvanceSnapshot(r, s) PROVE Goal
  <2>1. s.kind = "Delta"
    BY <1>2, <1>6 DEF ProjectionNeutral
  <2>2. /\ snap'[r].body = snap[r].body /\ snap'[r].seq = row[r].last + 1
        /\ row'[r] = [row[r] EXCEPT !.last = row[r].last + 1]
        /\ \A q \in Runs \ {r} : row'[q] = row[q] /\ snap'[q] = snap[q]
    BY <1>1, <1>6 DEF AdvanceSnapshot
  <2>3. /\ row'[r].last = row[r].last + 1 /\ row'[r].terminal = row[r].terminal
        /\ row'[r].attempt = row[r].attempt /\ row'[r].inFlight = row[r].inFlight
        /\ row'[r].isRoot = row[r].isRoot /\ row'[r].from = row[r].from
        /\ row'[r].ws = row[r].ws
    BY <1>1, <2>2 DEF Row
  <2>4. Accepts(Persisted(r), s)
    BY <1>4, <1>5, <1>6, <2>1 DEF Accepts, AdvanceSnapshot, PersistedReadable
  <2>5. next = [Persisted(r) EXCEPT !.last = snap[r].seq + 1]
    <3> HIDE DEF s
    <3> QED
      BY <1>2, <1>4, <2>1 DEF Apply, Snapshot, Terminals
  <2>6. next.terminal = snap[r].body.terminal
    BY <1>2, <1>4, <2>5 DEF Snapshot
  <2>7. snap[r].seq = row[r].last
    BY DEF PersistedReadable
  <2>8. [snap'[r].body EXCEPT !.last = snap'[r].seq] = next
    BY <1>1, <2>2, <2>5, <2>7 DEF Persisted, Snapshot
  <2>9. PersistedReadable(r)'
    BY <1>1, <2>2, <2>3, <2>7 DEF PersistedReadable, Snapshot
  <2> QED
    BY <2>2, <2>3, <2>4, <2>6, <2>8, <2>9
<1>7. ASSUME ~ProjectionNeutral(e) /\ MaterializeSnapshot(r, s, next) PROVE Goal
  <2> HIDE DEF s, next
  <2>1. /\ snap'[r].seq = next.last /\ snap'[r].body = next
        /\ \A q \in Runs \ {r} : row'[q] = row[q] /\ snap'[q] = snap[q]
    BY <1>1, <1>7 DEF MaterializeSnapshot
  <2>2. /\ row'[r].last = row[r].last + 1 /\ row'[r].terminal = (s.kind \in Terminals)
        /\ row'[r].attempt = next.attempt /\ row'[r].inFlight = next.inFlight
        /\ row'[r].isRoot = row[r].isRoot /\ row'[r].from = row[r].from
        /\ row'[r].ws = row[r].ws
    BY <1>1, <1>7 DEF MaterializeSnapshot, IsTerminal, Row
  <2>3. Accepts(Persisted(r), s)
    BY <1>7 DEF MaterializeSnapshot
  <2>4. next.last = row[r].last + 1
    BY <1>4 DEF PersistedReadable, Apply, next
  <2>5. (next.terminal # None) = (s.kind \in Terminals)
    BY <1>4, <1>5, NoneAssumption DEF Apply, next
  <2>6. [snap'[r].body EXCEPT !.last = snap'[r].seq] = next
    BY <1>2, <2>1 DEF Snapshot
  <2>7. PersistedReadable(r)'
    BY <1>2, <2>1, <2>2, <2>4, <2>5 DEF PersistedReadable, Snapshot
  <2> QED
    BY <2>1, <2>2, <2>3, <2>6, <2>7
<1>8. Goal
  BY <1>6, <1>7 DEF AppendEvent
<1> QED
  BY <1>1, <1>2, <1>3, <1>8

\* Leases and processes: a step that neither creates a run nor appends an event
\* touches no log, no snapshot and no column but the epoch and the owner.
LeaseOnly ==
    /\ runs' = runs /\ log' = log /\ snap' = snap
    /\ \A q \in Runs :
          /\ row'[q].last = row[q].last /\ row'[q].terminal = row[q].terminal
          /\ row'[q].attempt = row[q].attempt /\ row'[q].inFlight = row[q].inFlight
          /\ row'[q].isRoot = row[q].isRoot /\ row'[q].from = row[q].from
          /\ row'[q].ws = row[q].ws

\* The operations of the store, by what they write.
LEMMA StepCases ==
    ASSUME TypeOK, [Next]_vars
    PROVE  \/ \E p \in Pids, r \in Runs, root \in BOOLEAN, from \in Runs \cup {None},
                 w \in Workspaces : CreateRun(p, r, root, from, w)
           \/ \E l \in held, e \in PendingEvent : AppendEvent(l, e)
           \/ LeaseOnly
<1>1. ASSUME NEW p \in Pids, NEW r \in Runs, AcquireRun(p, r)
      PROVE  LeaseOnly
  BY <1>1 DEF AcquireRun, LeaseOnly, TypeOK, Row
<1>2. ASSUME NEW l \in held, ReleaseRun(l)
      PROVE  LeaseOnly
  <2>1. l.run \in Runs
    BY DEF TypeOK, Lease
  <2> QED
    BY <1>2, <2>1 DEF ReleaseRun, LeaseOnly, TypeOK, Row
<1>3. ASSUME runs' = runs, log' = log, snap' = snap, row' = row
      PROVE  LeaseOnly
  BY <1>3 DEF LeaseOnly
<1> QED
  BY <1>1, <1>2, <1>3 DEF Next, vars, ReserveCreation, DropLease, Crash, Spawn

\* The first event of a run.
Created == [id |-> "run_created", kind |-> "RunCreated", attempt |-> None, by |-> 1]

\* The reducer accepts it, and it does nothing but advance the sequence.
LEMMA CreatedReduces ==
    /\ Accepts(BlankSnapshot, Created)
    /\ Apply(BlankSnapshot, Created)
          = [last |-> 1, attempt |-> None, inFlight |-> FALSE, terminal |-> None]
    /\ BlankSnapshot \in Snapshot /\ Apply(BlankSnapshot, Created) \in Snapshot
<1>1. Created.kind = "RunCreated" /\ Created.kind \notin Terminals
  BY DEF Created, Terminals
<1>2. /\ BlankSnapshot.last = 0 /\ BlankSnapshot.attempt = None
      /\ BlankSnapshot.inFlight = FALSE /\ BlankSnapshot.terminal = None
  BY DEF BlankSnapshot
<1>3. Accepts(BlankSnapshot, Created)
  BY <1>1, <1>2 DEF Accepts
<1>4. BlankSnapshot \in Snapshot
  BY DEF BlankSnapshot, Snapshot
<1>5. Apply(BlankSnapshot, Created) \in Snapshot
  <2>1. Created.kind \notin ModelKinds
    BY <1>1 DEF ModelKinds
  <2> QED
    BY <1>4, <2>1, ApplyType
<1>6. /\ Apply(BlankSnapshot, Created).last = 1
      /\ Apply(BlankSnapshot, Created).attempt = None
      /\ Apply(BlankSnapshot, Created).inFlight = FALSE
      /\ Apply(BlankSnapshot, Created).terminal = None
  BY <1>1, <1>2 DEF Apply
<1>7. Apply(BlankSnapshot, Created)
        = [last |-> 1, attempt |-> None, inFlight |-> FALSE, terminal |-> None]
  BY <1>5, <1>6 DEF Snapshot
<1> QED
  BY <1>3, <1>4, <1>5, <1>7

\* What create inserts.
Creates(r, root, from, w) ==
    /\ runs' = runs \cup {r} /\ r \notin runs
    /\ \A q \in Runs \ {r} : row'[q] = row[q] /\ snap'[q] = snap[q] /\ log'[q] = log[q]
    /\ log'[r] = <<Created>>
    /\ snap'[r] = [seq |-> 1, body |-> Apply(BlankSnapshot, Created)]
    /\ row'[r].last = 1 /\ row'[r].terminal = FALSE
    /\ row'[r].attempt = None /\ row'[r].inFlight = FALSE
    /\ row'[r].isRoot = root /\ row'[r].from = from /\ row'[r].ws = w

\* A created run starts with RunCreated, and no other run is touched.
LEMMA CreateEffect ==
    ASSUME TypeOK, NEW p \in Pids, NEW r \in Runs, NEW root \in BOOLEAN,
           NEW from \in Runs \cup {None}, NEW w \in Workspaces, CreateRun(p, r, root, from, w)
    PROVE  Creates(r, root, from, w)
<1>1. /\ runs' = runs \cup {r} /\ r \notin runs
      /\ \A q \in Runs \ {r} : row'[q] = row[q] /\ snap'[q] = snap[q] /\ log'[q] = log[q]
  BY DEF CreateRun, InsertRun, TypeOK
<1>2. /\ row'[r].last = 1 /\ row'[r].terminal = FALSE
      /\ row'[r].attempt = None /\ row'[r].inFlight = FALSE
      /\ row'[r].isRoot = root /\ row'[r].from = from /\ row'[r].ws = w
  BY DEF CreateRun, InsertRun, TypeOK
<1>3. log'[r] = <<Created>> /\ snap'[r] = [seq |-> 1, body |-> Apply(BlankSnapshot, Created)]
  BY DEF CreateRun, InsertRun, TypeOK, Created
<1> QED
  BY <1>1, <1>2, <1>3 DEF Creates

\* acquire, load and append never meet a run whose snapshot they refuse: the
\* columns of its row, the sequence of its snapshot and the JSON body agree,
\* however many deltas the body lags behind.
THEOREM SnapshotsReadable == Spec => []ReadableInv
<1>1. Init => ReadableInv
  BY DEF Init, ReadableInv
<1>2. TypeOK /\ ReadableInv /\ [Next]_vars => ReadableInv'
  <2> SUFFICES ASSUME TypeOK, ReadableInv, [Next]_vars, NEW q \in runs'
               PROVE  /\ PersistedReadable(q)'
                      /\ Len(log'[q]) = row'[q].last /\ Len(log'[q]) > 0
                      /\ snap'[q].body.terminal # None
                            => log'[q][Len(log'[q])].kind = snap'[q].body.terminal
    BY DEF ReadableInv
  <2>0. ASSUME q \in runs, row'[q] = row[q], snap'[q] = snap[q], log'[q] = log[q]
        PROVE  /\ PersistedReadable(q)'
               /\ Len(log'[q]) = row'[q].last /\ Len(log'[q]) > 0
               /\ snap'[q].body.terminal # None
                     => log'[q][Len(log'[q])].kind = snap'[q].body.terminal
    BY <2>0 DEF ReadableInv, PersistedReadable
  <2>1. ASSUME NEW p \in Pids, NEW r \in Runs, NEW root \in BOOLEAN,
               NEW from \in Runs \cup {None}, NEW w \in Workspaces,
               CreateRun(p, r, root, from, w)
        PROVE  /\ PersistedReadable(q)'
               /\ Len(log'[q]) = row'[q].last /\ Len(log'[q]) > 0
               /\ snap'[q].body.terminal # None
                     => log'[q][Len(log'[q])].kind = snap'[q].body.terminal
    <3>0. Creates(r, root, from, w)
      BY <2>1, CreateEffect, Zenon
    <3>1. CASE q # r
      <4>1. q \in runs /\ q \in Runs
        BY <3>0, <3>1 DEF TypeOK, Creates
      <4> QED
        BY <2>0, <3>0, <3>1, <4>1 DEF Creates
    <3>2. CASE q = r
      <4>1. /\ snap'[r] = [seq |-> 1, body |-> Apply(BlankSnapshot, Created)]
            /\ log'[r] = <<Created>> /\ row'[r].last = 1 /\ row'[r].terminal = FALSE
            /\ row'[r].attempt = None /\ row'[r].inFlight = FALSE
        BY <3>0 DEF Creates
      <4>2. /\ snap'[r].body.last = 1 /\ snap'[r].body.terminal = None
            /\ snap'[r].body.attempt = None /\ snap'[r].body.inFlight = FALSE
            /\ snap'[r].seq = 1 /\ Len(log'[r]) = 1
        BY <4>1, CreatedReduces
      <4>3. (snap'[r].body.terminal # None) = row'[r].terminal
        BY <4>1, <4>2
      <4>4. snap'[r].body.inFlight = row'[r].inFlight
        BY <4>1, <4>2, Zenon
      <4>5. PersistedReadable(r)'
        BY <4>1, <4>2, <4>3, <4>4 DEF PersistedReadable
      <4> QED
        BY <3>2, <4>1, <4>2, <4>5
    <3> QED
      BY <3>1, <3>2
  <2>2. ASSUME NEW l \in held, NEW e \in PendingEvent, AppendEvent(l, e)
        PROVE  /\ PersistedReadable(q)'
               /\ Len(log'[q]) = row'[q].last /\ Len(log'[q]) > 0
               /\ snap'[q].body.terminal # None
                     => log'[q][Len(log'[q])].kind = snap'[q].body.terminal
    <3> DEFINE r == l.run
               s == Stored(l, e)
    <3>1. r \in runs /\ PersistedReadable(r)
      BY <2>2 DEF AppendEvent, ReadableInv
    <3>2. q \in runs /\ q \in Runs
      BY <2>2 DEF AppendEvent, TypeOK
    <3>3. CASE q # r
      BY <2>0, <2>2, <3>1, <3>2, <3>3, AppendEffect, ZenonT(60) DEF TypeOK
    <3>4. CASE q = r
      <4> HIDE DEF s
      <4>1. /\ PersistedReadable(r)' /\ row'[r].last = row[r].last + 1
            /\ log' = [log EXCEPT ![r] = Append(@, s)] /\ s \in StoredEvent
            /\ snap'[r].body.terminal = Apply(Persisted(r), s).terminal
            /\ Accepts(Persisted(r), s)
        BY <2>2, <3>1, AppendEffect DEF s
      <4>2. log[r] \in Seq(StoredEvent) /\ row[r] \in Row /\ log'[r] = Append(log[r], s)
        BY <3>1, <4>1 DEF TypeOK
      <4>3. Len(log'[r]) = row'[r].last /\ Len(log'[r]) > 0 /\ log'[r][Len(log'[r])] = s
        BY <3>1, <4>1, <4>2 DEF ReadableInv
      <4>4. snap'[r].body.terminal # None => s.kind = snap'[r].body.terminal
        BY <4>1 DEF Apply, Accepts
      <4> QED
        BY <3>4, <4>1, <4>3, <4>4
    <3> QED
      BY <3>3, <3>4
  <2>3. CASE LeaseOnly
    <3>1. q \in runs /\ q \in Runs
      BY <2>3 DEF LeaseOnly, TypeOK
    <3> QED
      BY <2>3, <3>1 DEF LeaseOnly, ReadableInv, PersistedReadable
  <2> QED
    BY <2>1, <2>2, <2>3, StepCases
<1>3. QED
  BY <1>1, <1>2, TypeCorrect, PTL DEF Spec

\* Replaying a run is exact: the reducer accepts its log from the first event to
\* the last, and what it computes is the snapshot the database keeps, at the
\* sequence of its column, deltas included.
THEOREM ReplayExact == Spec => []ReplayInv
<1>1. Init => ReplayInv
  BY DEF Init, ReplayInv
<1>2. TypeOK /\ ReadableInv /\ ReplayInv /\ [Next]_vars => ReplayInv'
  <2> SUFFICES ASSUME TypeOK, ReadableInv, ReplayInv, [Next]_vars, NEW q \in runs'
               PROVE  \E f : Replays(f, q)' /\ f[Len(log'[q])] = Persisted(q)'
    BY Zenon DEF ReplayInv
  <2>0. ASSUME q \in runs, snap'[q] = snap[q], log'[q] = log[q]
        PROVE  \E f : Replays(f, q)' /\ f[Len(log'[q])] = Persisted(q)'
    <3>1. PICK f : Replays(f, q) /\ f[Len(log[q])] = Persisted(q)
      BY <2>0 DEF ReplayInv
    <3>2. Replays(f, q)' /\ f[Len(log'[q])] = Persisted(q)'
      BY <2>0, <3>1 DEF Replays, Persisted
    <3> QED
      BY <3>2
  <2>1. ASSUME NEW p \in Pids, NEW r \in Runs, NEW root \in BOOLEAN,
               NEW from \in Runs \cup {None}, NEW w \in Workspaces,
               CreateRun(p, r, root, from, w)
        PROVE  \E f : Replays(f, q)' /\ f[Len(log'[q])] = Persisted(q)'
    <3>0. Creates(r, root, from, w)
      BY <2>1, CreateEffect, Zenon
    <3>1. CASE q # r
      <4>1. q \in runs /\ q \in Runs
        BY <3>0, <3>1 DEF TypeOK, Creates
      <4> QED
        BY <2>0, <3>0, <3>1, <4>1 DEF Creates
    <3>2. CASE q = r
      <4> DEFINE f == [i \in 0..1 |-> IF i = 0 THEN BlankSnapshot
                                      ELSE Apply(BlankSnapshot, Created)]
      <4>1. log'[r] = <<Created>> /\ snap'[r] = [seq |-> 1, body |-> Apply(BlankSnapshot, Created)]
        BY <3>0 DEF Creates
      <4>2. f[0] = BlankSnapshot /\ f[1] = Apply(BlankSnapshot, Created) /\ f \in [0..1 -> Snapshot]
        BY CreatedReduces
      <4> HIDE DEF f
      <4>3. Len(log'[r]) = 1 /\ log'[r][1] = Created
        BY <4>1
      <4>4. Persisted(r)' = f[1]
        <5>1. snap'[r].seq = 1 /\ snap'[r].body = f[1] /\ f[1] \in Snapshot /\ f[1].last = 1
          BY <4>1, <4>2, CreatedReduces
        <5>2. [f[1] EXCEPT !.last = 1] = f[1]
          BY <5>1 DEF Snapshot
        <5> QED
          BY <5>1, <5>2 DEF Persisted
      <4>5. Replays(f, r)'
        <5>1. ASSUME NEW i \in 1..1
              PROVE  Accepts(f[i - 1], log'[r][i]) /\ f[i] = Apply(f[i - 1], log'[r][i])
          <6>1. i = 1 /\ i - 1 = 0
            OBVIOUS
          <6> QED
            BY <4>2, <4>3, <6>1, CreatedReduces
        <5> QED
          BY <4>2, <4>3, <5>1 DEF Replays
      <4> QED
        BY <3>2, <4>3, <4>4, <4>5
    <3> QED
      BY <3>1, <3>2
  <2>2. ASSUME NEW l \in held, NEW e \in PendingEvent, AppendEvent(l, e)
        PROVE  \E f : Replays(f, q)' /\ f[Len(log'[q])] = Persisted(q)'
    <3> DEFINE r == l.run
               s == Stored(l, e)
               n == Len(log[r])
    <3>1. r \in runs /\ PersistedReadable(r)
      BY <2>2 DEF AppendEvent, ReadableInv
    <3>2. q \in runs /\ q \in Runs
      BY <2>2 DEF AppendEvent, TypeOK
    <3>3. CASE q # r
      <4>1. log'[q] = log[q]
        BY <2>2, <3>1, <3>2, <3>3, AppendEffect DEF TypeOK
      <4> QED
        BY <2>0, <2>2, <3>1, <3>2, <3>3, <4>1, AppendEffect
    <3>4. CASE q = r
      <4> HIDE DEF s
      <4>1. /\ log' = [log EXCEPT ![r] = Append(@, s)] /\ s \in StoredEvent
            /\ Accepts(Persisted(r), s)
            /\ [snap'[r].body EXCEPT !.last = snap'[r].seq] = Apply(Persisted(r), s)
        BY <2>2, <3>1, AppendEffect DEF s
      <4>2. log[r] \in Seq(StoredEvent) /\ log'[r] = Append(log[r], s)
        BY <3>1, <4>1 DEF TypeOK
      <4>3. /\ n \in Nat /\ Len(log'[r]) = n + 1 /\ log'[r][n + 1] = s
            /\ \A i \in 1..n : log'[r][i] = log[r][i]
        BY <4>2
      <4>4. PICK f : Replays(f, r) /\ f[n] = Persisted(r)
        BY <3>1 DEF ReplayInv
      <4> DEFINE g == [i \in 0..(n + 1) |-> IF i = n + 1 THEN Apply(Persisted(r), s) ELSE f[i]]
      <4>5. Apply(Persisted(r), s) \in Snapshot
        <5>1. Persisted(r) \in Snapshot
          BY <3>1, PersistedType DEF TypeOK
        <5>2. l \in Lease
          BY DEF TypeOK
        <5> QED
          BY <5>1, <5>2, StoredType, ApplyType DEF s
      <4> HIDE DEF n
      <4>6. f \in [0..n -> Snapshot] /\ f[0] = BlankSnapshot
            /\ \A i \in 1..n : Accepts(f[i - 1], log[r][i]) /\ f[i] = Apply(f[i - 1], log[r][i])
        BY <4>4 DEF Replays, n
      <4>7. /\ g \in [0..(n + 1) -> Snapshot] /\ g[0] = BlankSnapshot
            /\ g[n + 1] = Apply(Persisted(r), s) /\ g[n] = Persisted(r)
        BY <4>3, <4>4, <4>5, <4>6
      <4>8. ASSUME NEW i \in 1..(n + 1)
            PROVE  Accepts(g[i - 1], log'[r][i]) /\ g[i] = Apply(g[i - 1], log'[r][i])
        <5>1. CASE i = n + 1
          <6>1. g[i - 1] = Persisted(r)
            BY <4>3, <4>7, <5>1
          <6> QED
            BY <4>1, <4>3, <4>7, <5>1, <6>1
        <5>2. CASE i # n + 1
          <6>1. i \in 1..n /\ i - 1 \in 0..n /\ i - 1 # n + 1
            BY <4>3, <5>2
          <6>2. g[i] = f[i] /\ g[i - 1] = f[i - 1] /\ log'[r][i] = log[r][i]
            BY <4>3, <5>2, <6>1
          <6> QED
            BY <4>6, <6>1, <6>2
        <5> QED
          BY <5>1, <5>2
      <4> HIDE DEF g
      <4> PICK h : h = g
        OBVIOUS
      <4>9. Replays(h, r)'
        BY <4>3, <4>7, <4>8 DEF Replays
      <4>10. h[Len(log'[r])] = Persisted(r)'
        BY <4>1, <4>3, <4>7 DEF Persisted
      <4> QED
        BY <3>4, <4>9, <4>10
    <3> QED
      BY <3>3, <3>4
  <2>3. CASE LeaseOnly
    BY <2>0, <2>3 DEF LeaseOnly
  <2> QED
    BY <2>1, <2>2, <2>3, StepCases
<1>3. QED
  BY <1>1, <1>2, TypeCorrect, SnapshotsReadable, PTL DEF Spec

\* The order of the natural numbers is well founded.
Less == {p \in Nat \X Nat : p[1] < p[2]}

LEMMA LessWellFounded == IsWellFoundedOn(Less, Nat)
  BY NatLessThanWellFounded DEF OpToRel, Less

\* What stands in for induction: a non-empty set of natural numbers has a least one.
LEMMA LeastNatural ==
    ASSUME NEW T, T \subseteq Nat, T # {}
    PROVE  \E m \in T : \A n \in T : ~(n < m)
<1>1. PICK m \in T : \A n \in T : ~(<<n, m>> \in Less)
  BY LessWellFounded, WFMin
<1>2. ASSUME NEW n \in T PROVE ~(n < m)
  <2>1. n \in Nat /\ m \in Nat /\ <<n, m>> \notin Less
    BY <1>1
  <2> QED
    BY <2>1 DEF Less
<1> QED
  BY <1>2

\* reduce_events computes the last of the snapshots that a replay goes through.
LEMMA ReduceReplays ==
    ASSUME NEW r, log[r] \in Seq(StoredEvent), NEW f, Replays(f, r)
    PROVE  Reduce(log[r]) = f[Len(log[r])]
<1> DEFINE l == log[r]
           k == Len(l)
           Folds(a) == a = [n \in 0..k |-> IF n = 0 THEN BlankSnapshot ELSE Apply(a[n - 1], l[n])]
           after == CHOOSE a : Folds(a)
<1>1. k \in Nat
  OBVIOUS
<1>2. /\ f \in [0..k -> Snapshot] /\ f[0] = BlankSnapshot
      /\ \A n \in 1..k : f[n] = Apply(f[n - 1], l[n])
  BY DEF Replays
<1>3. Reduce(l) = after[k]
  BY DEF Reduce
<1> HIDE DEF k, l
<1>4. Folds(f)
  BY <1>1, <1>2
<1>5. Folds(after)
  <2> HIDE DEF Folds
  <2> QED
    BY <1>4
<1> HIDE DEF after
<1>6. /\ after[0] = BlankSnapshot
      /\ \A n \in 1..k : after[n] = Apply(after[n - 1], l[n])
  BY <1>1, <1>5
<1> DEFINE Differ == {n \in 0..k : after[n] # f[n]}
<1>7. ASSUME Differ # {} PROVE FALSE
  <2>1. PICK m \in Differ : \A n \in Differ : ~(n < m)
    <3>1. Differ \subseteq Nat
      BY <1>1
    <3> HIDE DEF Differ
    <3> QED
      BY <1>7, <3>1, LeastNatural
  <2>2. m \in 1..k /\ m - 1 \in 0..k /\ m - 1 < m
    BY <1>1, <1>2, <1>6, <2>1
  <2>3. after[m - 1] = f[m - 1]
    BY <2>1, <2>2
  <2> QED
    BY <1>2, <1>6, <2>1, <2>2, <2>3
<1>8. k \in 0..k
  BY <1>1
<1> QED
  BY <1>3, <1>7, <1>8 DEF k, l

\* The store never locks itself out of a run: what replay_from_conn computes from
\* the log agrees with the row and with the lagging snapshot, so its comparisons
\* succeed, for any number of runs, processes, takeovers and events.
THEOREM ReplayNeverRefused == Spec => []SnapshotIsReplay
<1>1. TypeOK /\ ReadableInv /\ ReplayInv => SnapshotIsReplay
  <2> SUFFICES ASSUME TypeOK, ReadableInv, ReplayInv, NEW r \in runs
               PROVE  Replayable(r)
    BY DEF SnapshotIsReplay
  <2>1. log[r] \in Seq(StoredEvent) /\ snap[r] \in [seq : Nat, body : Snapshot]
    BY DEF TypeOK
  <2>2. Reduce(log[r]) = Persisted(r)
    BY <2>1, ReduceReplays DEF ReplayInv
  <2>3. /\ Persisted(r).last = snap[r].seq
        /\ Persisted(r).terminal = snap[r].body.terminal
    BY <2>1 DEF Persisted, Snapshot
  <2>4. PersistedReadable(r)
    BY DEF ReadableInv
  <2> QED
    BY <2>2, <2>3, <2>4 DEF Replayable, PersistedReadable
<1> QED
  BY <1>1, TypeCorrect, SnapshotsReadable, ReplayExact, PTL

-----------------------------------------------------------------------------
(* Continuations *)

\* s is a root run in workspace w whose log is closed by a settled outcome.
ClosedSource(s, w) ==
    /\ s \in runs
    /\ row[s].isRoot /\ row[s].ws = w
    /\ row[s].terminal /\ snap[s].body.terminal = "Settled"
    /\ log[s][Len(log[s])].kind = "Settled"

\* The inductive form of LineageClosed: the row and the snapshot of the source
\* say with its log that it is closed.
LineageInv ==
    /\ \A r \in runs : row[r].from # None => ClosedSource(row[r].from, row[r].ws)
    /\ \A S \in SUBSET runs : S # {} => \E r \in S : row[r].from \notin S

\* The transcript a continuation was built from never grows again, and the
\* cursor of validate_continuation_lineage ends: create checks the source once,
\* and neither appends nor takeovers nor crashes can undo what it saw.
THEOREM LineageStaysClosed == Spec => []LineageClosed
<1>1. Init => LineageInv
  BY DEF Init, LineageInv
<1>2. TypeOK /\ ReadableInv /\ LineageInv /\ [Next]_vars => LineageInv'
  <2> SUFFICES ASSUME TypeOK, ReadableInv, LineageInv, [Next]_vars
               PROVE  LineageInv'
    OBVIOUS
  <2>1. ASSUME NEW p \in Pids, NEW r \in Runs, NEW root \in BOOLEAN,
               NEW from \in Runs \cup {None}, NEW w \in Workspaces,
               CreateRun(p, r, root, from, w)
        PROVE  LineageInv'
    <3>0. Creates(r, root, from, w)
      BY <2>1, CreateEffect, Zenon
    <3>1. from # None => ClosedSource(from, w)
      <4> SUFFICES ASSUME from # None PROVE ClosedSource(from, w)
        OBVIOUS
      <4>1. ContinuationSource(from, w)
        BY <2>1, Zenon DEF CreateRun, ValidContinuation
      <4>2. from \in runs /\ from \in Runs /\ row[from].isRoot /\ row[from].ws = w
        BY <4>1 DEF ContinuationSource, TypeOK
      <4>3. Persisted(from).terminal = "Settled"
        BY <4>1 DEF ContinuationSource, Replayable
      <4>4. snap[from].body.terminal = "Settled"
        BY <4>2, <4>3 DEF Persisted, TypeOK, Snapshot
      <4>5. snap[from].body.terminal # None
        BY <4>4, NoneAssumption DEF Terminals
      <4>6. log[from][Len(log[from])].kind = "Settled"
        BY <4>2, <4>4, <4>5 DEF ReadableInv
      <4>7. row[from].terminal
        BY <4>2, <4>5 DEF ReadableInv, PersistedReadable
      <4> QED
        BY <4>2, <4>4, <4>6, <4>7 DEF ClosedSource
    <3>2. ASSUME NEW s, NEW v, ClosedSource(s, v) PROVE ClosedSource(s, v)'
      <4>1. s \in runs /\ s \in Runs \ {r}
        BY <3>0, <3>2 DEF ClosedSource, Creates, TypeOK
      <4> QED
        BY <3>0, <3>2, <4>1 DEF ClosedSource, Creates
    <3>3. ASSUME NEW q \in runs', row'[q].from # None
          PROVE  ClosedSource(row[q].from, row[q].ws)'
      <4>1. CASE q = r
        <5>1. row'[q].from = from /\ row'[q].ws = w /\ from # None
          BY <3>0, <3>3, <4>1 DEF Creates
        <5>2. ClosedSource(from, w)'
          BY <3>1, <3>2, <5>1
        <5> QED
          BY <5>1, <5>2 DEF ClosedSource
      <4>2. CASE q # r
        <5>1. q \in runs /\ row'[q] = row[q]
          BY <3>0, <4>2 DEF Creates, TypeOK
        <5>2. PICK s, v : s = row[q].from /\ v = row[q].ws
          OBVIOUS
        <5>3. ClosedSource(s, v)'
          BY <3>2, <3>3, <5>1, <5>2 DEF LineageInv
        <5> QED
          BY <5>1, <5>2, <5>3 DEF ClosedSource
      <4> QED
        BY <4>1, <4>2
    <3>4. ASSUME NEW S \in SUBSET runs', S # {} PROVE \E q \in S : row'[q].from \notin S
      <4>1. \A q \in runs : row'[q] = row[q] /\ row[q].from \in runs \cup {None}
        BY <3>0 DEF Creates, TypeOK, LineageInv, ClosedSource
      <4>2. r \notin runs /\ runs' = runs \cup {r} /\ r # None /\ row'[r].from = from
        BY <3>0, NoneAssumption DEF Creates
      <4>3. from # r /\ None \notin runs'
        BY <2>1, <3>1, <4>2, NoneAssumption DEF ClosedSource, TypeOK
      <4>4. CASE S \subseteq {r}
        <5>1. S = {r}
          BY <3>4, <4>4
        <5> QED
          BY <4>2, <4>3, <5>1
      <4>5. CASE ~(S \subseteq {r})
        <5>1. S \ {r} \in SUBSET runs /\ S \ {r} # {}
          BY <4>2, <4>5
        <5>2. PICK q \in S \ {r} : row[q].from \notin S \ {r}
          BY <5>1 DEF LineageInv
        <5>3. q \in runs /\ row'[q].from = row[q].from /\ row[q].from # r
          BY <4>1, <4>2, <5>1, <5>2
        <5> QED
          BY <5>2, <5>3
      <4> QED
        BY <4>4, <4>5
    <3> QED
      BY <3>3, <3>4 DEF LineageInv
  <2>2. ASSUME runs' = runs,
               \A q \in runs : row'[q].from = row[q].from /\ row'[q].ws = row[q].ws,
               \A s, v : ClosedSource(s, v) => ClosedSource(s, v)'
        PROVE  LineageInv'
    <3>1. ASSUME NEW r \in runs', row'[r].from # None
          PROVE  ClosedSource(row[r].from, row[r].ws)'
      <4>1. PICK s, v : s = row[r].from /\ v = row[r].ws
        OBVIOUS
      <4>2. ClosedSource(s, v)'
        BY <2>2, <3>1, <4>1 DEF LineageInv
      <4> QED
        BY <2>2, <4>1, <4>2 DEF ClosedSource
    <3>2. \A S \in SUBSET runs' : S # {} => \E r \in S : row'[r].from \notin S
      BY <2>2 DEF LineageInv
    <3> QED
      BY <3>1, <3>2 DEF LineageInv
  <2>3. ASSUME NEW l \in held, NEW e \in PendingEvent, AppendEvent(l, e)
        PROVE  LineageInv'
    <3> DEFINE r == l.run
    <3>1. r \in runs /\ PersistedReadable(r) /\ ~row[r].terminal /\ runs' = runs
      BY <2>3 DEF AppendEvent, ReadableInv
    <3>2. /\ \A q \in Runs \ {r} : row'[q] = row[q] /\ snap'[q] = snap[q]
          /\ row'[r].from = row[r].from /\ row'[r].ws = row[r].ws
          /\ log' = [log EXCEPT ![r] = Append(@, Stored(l, e))]
      BY <2>3, <3>1, AppendEffect
    <3>3. \A q \in Runs \ {r} : log'[q] = log[q]
      BY <3>1, <3>2 DEF TypeOK
    <3>4. \A q \in runs : row'[q].from = row[q].from /\ row'[q].ws = row[q].ws
      BY <3>1, <3>2 DEF TypeOK
    <3>5. ASSUME NEW s, NEW v, ClosedSource(s, v) PROVE ClosedSource(s, v)'
      <4>1. s \in runs /\ s \in Runs \ {r}
        BY <3>1, <3>5 DEF ClosedSource, TypeOK
      <4> QED
        BY <3>1, <3>2, <3>3, <3>5, <4>1 DEF ClosedSource
    <3> QED
      BY <2>2, <3>1, <3>4, <3>5
  <2>4. CASE LeaseOnly
    <3>1. \A q \in runs : row'[q].from = row[q].from /\ row'[q].ws = row[q].ws
      BY <2>4 DEF LeaseOnly, TypeOK
    <3>2. ASSUME NEW s, NEW v, ClosedSource(s, v) PROVE ClosedSource(s, v)'
      BY <2>4, <3>2 DEF ClosedSource, LeaseOnly, TypeOK
    <3> QED
      BY <2>2, <2>4, <3>1, <3>2 DEF LeaseOnly
  <2> QED
    BY <2>1, <2>3, <2>4, StepCases
<1>3. LineageInv => LineageClosed
  BY DEF LineageInv, LineageClosed, ClosedSource, Last
<1>4. QED
  BY <1>1, <1>2, <1>3, TypeCorrect, SnapshotsReadable, PTL DEF Spec

=============================================================================
