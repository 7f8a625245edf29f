------------------------------ MODULE RunStore ------------------------------
(***************************************************************************)
(* The durable run store of crates/state (run_store.rs, a SQLite database  *)
(* shared by every DSE process of the user) and its in-memory twin in      *)
(* crates/runtime/src/store.rs.  Every operation is one IMMEDIATE          *)
(* transaction, so it is one atomic step here; an operation that returns   *)
(* an error rolls back, so it is no step at all.                           *)
(*                                                                         *)
(* A run is an append-only event log, the row of its projections (epoch,   *)
(* lease owner, last sequence, terminal flag, pending model attempt) and a *)
(* snapshot that streaming deltas leave behind the log.  A process writes  *)
(* under a lease.  Processes crash, and the operating system reuses pids.  *)
(***************************************************************************)
EXTENDS Integers, Sequences, SequencesExt

CONSTANTS
    Runs,        \* run ids
    Pids,        \* operating system process ids
    Commands,    \* ids of the commands that create root runs
    Digests,     \* SHA-256 digests of those commands
    Workspaces,  \* workspaces a run may be bound to
    Attempts,    \* model attempt ids
    EventIds,    \* ids of the events a writer publishes
    None,        \* SQL NULL
    MaxEpoch,    \* bound on the execution epochs of a run
    MaxEvents    \* bound on the length of a run's log

Terminals == {"Settled", "RecoveryRequired"}

ASSUME NoneAssumption ==
    /\ None \notin Runs \cup Attempts \cup Digests \cup Pids \cup Terminals
    /\ None \notin Nat

ASSUME BoundAssumption == MaxEpoch \in Nat \ {0} /\ MaxEvents \in Nat

ASSUME EventIdAssumption == {"run_created", "terminal"} \cap EventIds = {}

VARIABLES
    alive,       \* pids for which process_is_alive holds
    runs,        \* run ids that have a row in agent_runs
    row,         \* the rows of agent_runs
    log,         \* agent_run_events, by sequence
    snap,        \* agent_run_snapshots: column last_sequence and the JSON body
    creations,   \* agent_run_creations
    held,        \* leases in the memory of live processes, superseded ones too
    owners       \* number of lease owner ids handed out so far

vars == <<alive, runs, row, log, snap, creations, held, owners>>

-----------------------------------------------------------------------------
(* Data *)

ModelKinds == {"ModelPrepared", "ModelInFlight", "Delta", "ModelRetried", "ModelSettled"}

\* A pending event.  "Other" stands for the events that touch neither the
\* pending model request nor the terminal outcome.  Terminal has a fixed id.
PendingEvent ==
    [id : EventIds, kind : ModelKinds, attempt : Attempts]
        \cup [id : EventIds, kind : {"Other"}, attempt : {None}]
        \cup [id : {"terminal"}, kind : Terminals, attempt : {None}]

\* A stored event.  Field `by' is auxiliary: the epoch of the lease that
\* appended it, which the database does not keep.
StoredEvent ==
    [id : EventIds \cup {"run_created", "terminal"},
     kind : ModelKinds \cup {"RunCreated", "Other"} \cup Terminals,
     attempt : Attempts \cup {None},
     by : 1..MaxEpoch]

\* What the runs of this module observe of a RunSnapshot.
Snapshot ==
    [last : Nat,
     attempt : Attempts \cup {None},
     inFlight : BOOLEAN,
     terminal : Terminals \cup {None}]

Lease == [run : Runs, epoch : 1..MaxEpoch, owner : Nat, pid : Pids]

\* isRoot, from and ws are fixed at creation: the run has no parent, the run it
\* continues, the workspace it is bound to.
Row ==
    [epoch : 0..MaxEpoch, last : Nat, terminal : BOOLEAN,
     owner : Nat \cup {None}, pid : Pids \cup {None},
     attempt : Attempts \cup {None}, inFlight : BOOLEAN,
     isRoot : BOOLEAN, from : Runs \cup {None}, ws : Workspaces \cup {None}]

Creation == [sha : Digests \cup {None}, run : Runs \cup {None}, intent : BOOLEAN]

NoCreation == [sha |-> None, run |-> None, intent |-> FALSE]

NoRow == [epoch |-> 0, last |-> 0, terminal |-> FALSE, owner |-> None, pid |-> None,
          attempt |-> None, inFlight |-> FALSE, isRoot |-> TRUE, from |-> None, ws |-> None]

BlankSnapshot == [last |-> 0, attempt |-> None, inFlight |-> FALSE, terminal |-> None]

-----------------------------------------------------------------------------
(* The reducer, restricted to the pending model request and the outcome *)

\* apply_event accepts e after the prefix that produced s.
Accepts(s, e) ==
    /\ s.terminal = None
    /\ e.kind = "ModelPrepared" => s.attempt = None
    /\ e.kind = "ModelInFlight" => s.attempt = e.attempt /\ ~s.inFlight
    /\ e.kind = "Delta" => s.attempt = e.attempt /\ s.inFlight
    /\ e.kind \in {"ModelRetried", "ModelSettled"} => s.attempt # None /\ s.inFlight

\* The snapshot after e.  ModelRetried is ModelRequestFailed with a Retry
\* disposition: it replaces the attempt by the next one, prepared.
Apply(s, e) ==
    [last |-> s.last + 1,
     attempt |-> IF e.kind \in {"ModelPrepared", "ModelRetried"} THEN e.attempt
                 ELSE IF e.kind = "ModelSettled" THEN None ELSE s.attempt,
     inFlight |-> IF e.kind = "ModelInFlight" THEN TRUE
                  ELSE IF e.kind \in {"ModelRetried", "ModelSettled"} THEN FALSE
                  ELSE s.inFlight,
     terminal |-> IF e.kind \in Terminals THEN e.kind ELSE s.terminal]

\* reduce_events: the canonical snapshot of a whole log.
Reduce(l) ==
    LET after[n \in 0..Len(l)] ==
            IF n = 0 THEN BlankSnapshot ELSE Apply(after[n - 1], l[n])
    IN  after[Len(l)]

\* Faulty variant: the end of a response is taken for one more delta.
NeutralUntilNextRequest(e) == e.kind \in {"Delta", "ModelSettled"}

\* Streaming deltas do not rewrite the snapshot.
ProjectionNeutral(e) == e.kind = "Delta"

\* read_persisted_snapshot: the JSON body at the sequence of its column.
Persisted(r) == [snap[r].body EXCEPT !.last = snap[r].seq]

\* The consistency checks of read_persisted_snapshot and replay_from_conn.
\* acquire, load and continuation refuse a run for which they fail.
PersistedReadable(r) ==
    /\ snap[r].seq = row[r].last
    /\ snap[r].body.last <= snap[r].seq
    /\ (snap[r].body.terminal # None) = row[r].terminal
    /\ snap[r].body.attempt = row[r].attempt
    /\ snap[r].body.inFlight = row[r].inFlight

Replayable(r) ==
    /\ Reduce(log[r]).last = row[r].last
    /\ (Reduce(log[r]).terminal # None) = row[r].terminal
    /\ PersistedReadable(r)
    /\ Persisted(r) = Reduce(log[r])

-----------------------------------------------------------------------------
(* Leases *)

\* new_lease: the caller's pid and a fresh owner id.
NewLease(r, e, p) == [run |-> r, epoch |-> e, owner |-> owners, pid |-> p]

\* Faulty variant: a lease is recognised by the pid of its process alone.
PidMatches(l) == row[l.run].pid = l.pid

\* The three columns that append and release compare.
LeaseMatches(l) ==
    /\ row[l.run].epoch = l.epoch
    /\ row[l.run].owner = l.owner
    /\ row[l.run].pid = l.pid

-----------------------------------------------------------------------------
(* Operations *)

\* reserve_creation.  A known command id returns its stored reservation or a
\* conflict, neither of which changes the table; run_id is UNIQUE in it.
ReserveCreation(c, d, r) ==
    /\ creations[c] = NoCreation
    /\ r \notin runs
    /\ \A k \in Commands : creations[k].run # r
    /\ creations' = [creations EXCEPT ![c] = [sha |-> d, run |-> r, intent |-> TRUE]]
    /\ UNCHANGED <<alive, runs, row, log, snap, held, owners>>

\* Faulty variant: a run that still executes may be continued.
RunningSource(s, w) == s \in runs /\ Replayable(s) /\ row[s].isRoot /\ row[s].ws = w

\* Whether s may be continued in workspace w: validate_continuation_request on
\* s, and validate_continuation_lineage on one ancestor.
ContinuationSource(s, w) ==
    /\ s \in runs
    /\ Replayable(s)
    /\ row[s].isRoot
    /\ Reduce(log[s]).terminal = "Settled"
    /\ row[s].ws = w

LineageMember(a, w) ==
    /\ a \in runs
    /\ Replayable(a)
    /\ row[a].isRoot
    /\ row[a].ws = w
    /\ row[a].terminal

\* The runs a continuation of s descends from, s excluded: the cursor of
\* validate_continuation_lineage followed until it is NULL or meets a run again.
Ancestors[r \in Runs \cup {None}, seen \in SUBSET Runs] ==
    IF r = None \/ r \in seen THEN seen
    ELSE Ancestors[row[r].from, seen \cup {r}]

ValidContinuation(s, w) ==
    /\ ContinuationSource(s, w)
    /\ \A a \in Ancestors[row[s].from, {}] : a # s /\ LineageMember(a, w)

\* The row, log and snapshot that create inserts.
InsertRun(p, r, root, from, w) ==
    LET e == [id |-> "run_created", kind |-> "RunCreated", attempt |-> None, by |-> 1]
    IN  /\ row' = [row EXCEPT ![r] =
                     [epoch |-> 1, last |-> 1, terminal |-> FALSE,
                      owner |-> owners, pid |-> p,
                      attempt |-> None, inFlight |-> FALSE,
                      isRoot |-> root, from |-> from, ws |-> w]]
        /\ log' = [log EXCEPT ![r] = <<e>>]
        /\ snap' = [snap EXCEPT ![r] = [seq |-> 1, body |-> Apply(BlankSnapshot, e)]]
        /\ runs' = runs \cup {r}

\* Faulty variant: the intent of the reservation survives its run.
ConsumeNothing(r) == creations' = creations

\* The creation intent of r is consumed.
ConsumeIntent(r) ==
    creations' = [c \in Commands |->
                    IF creations[c].run = r
                    THEN [creations[c] EXCEPT !.intent = FALSE] ELSE creations[c]]

\* create: row, RunCreated event, snapshot, lease of epoch 1, and the creation
\* intent of that run id consumed, in one transaction.
CreateRun(p, r, root, from, w) ==
    /\ p \in alive
    /\ r \notin runs
    /\ from # None => root /\ ValidContinuation(from, w)
    /\ InsertRun(p, r, root, from, w)
    /\ ConsumeIntent(r)
    /\ held' = held \cup {NewLease(r, 1, p)}
    /\ owners' = owners + 1
    /\ UNCHANGED alive

\* Faulty variant: whoever asks for a run gets it.
OwnerMayBeRunning(r) == TRUE

\* No process runs under the recorded pid.
OwnerIsGone(r) == row[r].pid \notin alive

\* acquire: refused while the recorded pid is alive, whoever runs under it;
\* a terminal run is returned without a lease.
AcquireRun(p, r) ==
    /\ p \in alive
    /\ r \in runs
    /\ Replayable(r)
    /\ ~row[r].terminal
    /\ OwnerIsGone(r)
    /\ row[r].epoch < MaxEpoch
    /\ LET l == NewLease(r, row[r].epoch + 1, p)
       IN  /\ row' = [row EXCEPT ![r] = [@ EXCEPT !.epoch = l.epoch, !.owner = l.owner, !.pid = p]]
           /\ held' = held \cup {l}
    /\ owners' = owners + 1
    /\ UNCHANGED <<alive, runs, log, snap, creations>>

\* The id of a pending event is not in the log; a retry of a stored event
\* returns it, and different content under a stored id is a conflict.
NewEventId(l, e) == \A i \in DOMAIN log[l.run] : log[l.run][i].id # e.id

\* A delta advances the sequence of row and snapshot and leaves the JSON body.
AdvanceSnapshot(r, s) ==
    /\ row[r].attempt = s.attempt
    /\ row[r].inFlight
    /\ snap[r].seq = row[r].last
    /\ snap' = [snap EXCEPT ![r] = [@ EXCEPT !.seq = row[r].last + 1]]
    /\ row' = [row EXCEPT ![r] = [@ EXCEPT !.last = row[r].last + 1]]

\* Faulty variant: a run that needs recovery is not marked terminal.
SettledOnly(e) == e.kind = "Settled"

\* RuntimeEventKind::is_terminal.
IsTerminal(e) == e.kind \in Terminals

\* Any other event is reduced into a new snapshot; a terminal one frees the lease.
MaterializeSnapshot(r, s, next) ==
    /\ PersistedReadable(r)
    /\ Accepts(Persisted(r), s)
    /\ snap' = [snap EXCEPT ![r] = [seq |-> next.last, body |-> next]]
    /\ row' = [row EXCEPT ![r] =
                 [@ EXCEPT !.last = row[r].last + 1,
                           !.terminal = IsTerminal(s),
                           !.owner = IF IsTerminal(s) THEN None ELSE row[r].owner,
                           !.pid = IF IsTerminal(s) THEN None ELSE row[r].pid,
                           !.attempt = next.attempt,
                           !.inFlight = next.inFlight]]

\* The event as append stores it.
Stored(l, e) == [id |-> e.id, kind |-> e.kind, attempt |-> e.attempt, by |-> l.epoch]

\* append: dedup by id, then terminal, then the lease, then the reducer.
AppendEvent(l, e) ==
    /\ l \in held
    /\ l.run \in runs
    /\ NewEventId(l, e)
    /\ ~row[l.run].terminal
    /\ LeaseMatches(l)
    /\ Len(log[l.run]) < MaxEvents
    /\ \/ /\ ProjectionNeutral(e)
          /\ AdvanceSnapshot(l.run, Stored(l, e))
       \/ /\ ~ProjectionNeutral(e)
          /\ MaterializeSnapshot(l.run, Stored(l, e), Apply(Persisted(l.run), Stored(l, e)))
    /\ log' = [log EXCEPT ![l.run] = Append(@, Stored(l, e))]
    /\ UNCHANGED <<alive, runs, creations, held, owners>>

\* release: only the exact lease of the row frees it.
ReleaseRun(l) ==
    /\ l \in held
    /\ l.run \in runs
    /\ LeaseMatches(l)
    /\ row' = [row EXCEPT ![l.run] = [@ EXCEPT !.owner = None, !.pid = None]]
    /\ UNCHANGED <<alive, runs, log, snap, creations, held, owners>>

-----------------------------------------------------------------------------
(* The processes around the store *)

\* A worker ends and its copy of the lease with it.
DropLease(l) ==
    /\ l \in held
    /\ held' = held \ {l}
    /\ UNCHANGED <<alive, runs, row, log, snap, creations, owners>>

\* A process dies: its memory is gone, the database is not.
Crash(p) ==
    /\ p \in alive
    /\ alive' = alive \ {p}
    /\ held' = {l \in held : l.pid # p}
    /\ UNCHANGED <<runs, row, log, snap, creations, owners>>

\* The operating system starts a process, of DSE or not, under a free pid.
Spawn(p) ==
    /\ p \notin alive
    /\ alive' = alive \cup {p}
    /\ UNCHANGED <<runs, row, log, snap, creations, held, owners>>

-----------------------------------------------------------------------------
Init ==
    /\ alive = Pids
    /\ runs = {}
    /\ row = [r \in Runs |-> NoRow]
    /\ log = [r \in Runs |-> <<>>]
    /\ snap = [r \in Runs |-> [seq |-> 0, body |-> BlankSnapshot]]
    /\ creations = [c \in Commands |-> NoCreation]
    /\ held = {}
    /\ owners = 0

Next ==
    \/ \E c \in Commands, d \in Digests, r \in Runs : ReserveCreation(c, d, r)
    \/ \E p \in Pids, r \in Runs, root \in BOOLEAN, from \in Runs \cup {None}, w \in Workspaces :
          CreateRun(p, r, root, from, w)
    \/ \E p \in Pids, r \in Runs : AcquireRun(p, r)
    \/ \E l \in held, e \in PendingEvent : AppendEvent(l, e)
    \/ \E l \in held : ReleaseRun(l) \/ DropLease(l)
    \/ \E p \in Pids : Crash(p) \/ Spawn(p)

Spec == Init /\ [][Next]_vars

-----------------------------------------------------------------------------
(* Properties *)

\* Every variable has its type.
TypeOK ==
    /\ alive \subseteq Pids
    /\ runs \subseteq Runs
    /\ row \in [Runs -> Row]
    /\ log \in [Runs -> Seq(StoredEvent)]
    /\ snap \in [Runs -> [seq : Nat, body : Snapshot]]
    /\ creations \in [Commands -> Creation]
    /\ held \subseteq Lease
    /\ owners \in Nat

\* The store never locks itself out of a run: whatever was appended, streamed
\* past the snapshot, taken over or released, replay_from_conn's comparison of
\* the log with the row and with the lagging snapshot succeeds.
SnapshotIsReplay == \A r \in runs : Replayable(r)

\* Fencing: the epochs under which the events of a run were appended never
\* decrease along its log, so once a new owner has written, no event of a
\* superseded lease follows.
TermsNeverOverlap ==
    \A r \in runs : \A i \in DOMAIN log[r] :
        /\ log[r][i].by <= row[r].epoch
        /\ \A j \in DOMAIN log[r] : i < j => log[r][i].by <= log[r][j].by

\* A live worker is never robbed: it loses a lease that append accepts only by
\* releasing it or by ending the run, whatever other processes acquire and
\* whichever pids are reused.
LeaseNotStolen ==
    [][\A l \in held \cap held' :
          LeaseMatches(l) /\ ~LeaseMatches(l)' =>
              \/ ReleaseRun(l)
              \/ row'[l.run].terminal /\ log'[l.run] # log[l.run]]_vars

\* A crash between reserve_creation and create is recoverable exactly once: a
\* reservation still has its intent if and only if its run was never created.
IntentIffUncreated ==
    \A c \in Commands :
        creations[c] # NoCreation => (creations[c].intent <=> creations[c].run \notin runs)

\* A continuation continues, in its own workspace, a root run whose log is
\* closed, and so do the runs it descends from: the transcripts it was built
\* from can never grow behind its back.  No set of runs descends only from
\* itself, so the lineage has no cycle.
LineageClosed ==
    /\ \A r \in runs :
          LET s == row[r].from
          IN  s # None => /\ s \in runs
                          /\ row[s].isRoot /\ row[s].ws = row[r].ws
                          /\ Last(log[s]).kind = "Settled"
    /\ \A S \in SUBSET runs : S # {} => \E r \in S : row[r].from \notin S

\* RunStore implements RunLedger.
Ledger == INSTANCE RunLedger WITH
    Entries <- StoredEvent,
    Final <- {e \in StoredEvent : e.kind \in Terminals},
    ledger <- log,
    term <- [r \in Runs |-> row[r].epoch],
    closed <- [r \in Runs |-> row[r].terminal]

\* The database, with its leases, snapshots and crashing processes, is one
\* append-only ledger per run, written in terms and closed once.
ImplementsLedger == Ledger!Spec
=============================================================================
