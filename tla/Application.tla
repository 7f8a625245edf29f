---------------------------- MODULE Application -----------------------------
(***************************************************************************)
(* The command service of crates/app/src/lib.rs: requests that create,     *)
(* resume, control and watch runs, the process-local registry of active    *)
(* runs, the monitor that retires a launch, and the wake-ups in between.   *)
(*                                                                         *)
(* A request is a task of its own and stops at every await.  A launch is   *)
(* the background task AgentRuntime spawns for a run; what it does with    *)
(* the run is the subject of AgentLoop and appears here as the events it   *)
(* commits: creation, proposal, acceptance, a failed verification, the     *)
(* rejection that follows it, commands and the end; a steer stands for     *)
(* every event that only lengthens the log.  The store is the subject of   *)
(* RunStore and appears here as one append-only log and one lease per run. *)
(*                                                                         *)
(* A completion candidate is the place of its proposal in the log.         *)
(***************************************************************************)
EXTENDS Integers, SequencesExt, FiniteSets

CONSTANTS
    Runs,          \* run identities
    HostRuns,      \* runs whose task asks for the acceptance of the host
    Callers,       \* tasks that wait for an answer of the application
    None,          \* no run
    Outcomes,      \* how a run may end by itself
    Commands,      \* the kinds of command that Client sends
    MaxSent,       \* bound: commands that are sent, retries included
    MaxFailed,     \* bound: verifications of a run that fail
    MaxFaults      \* bound: requests whose caller goes away and restarts of the process

Creations == {"start", "continue", "recover"}
Controls == {"steer", "cancel", "accept"}
Kinds == Creations \cup Controls \cup {"resume"}

ASSUME ApplicationAssumption ==
    /\ HostRuns \subseteq Runs /\ None \notin Runs
    /\ Outcomes \subseteq {"Completed", "Recovery"} /\ Outcomes # {}
    /\ Commands \subseteq Kinds \ {"continue"}
    /\ {MaxSent, MaxFailed, MaxFaults} \subseteq Nat

VARIABLES
    log,           \* per run: the committed events, empty before RunCreated
    lease,         \* per run: the launch that holds the writer lease, 0 for none
    reserved,      \* runs whose creation command has a durable reservation
    launch,        \* the launches of this process, in order
    active,        \* the registry: per run a launch, 0 for no entry
    monitors,      \* launches with a live monitor task
    req,           \* per caller: its request
    asked,         \* the control commands of clients, how often each was sent and
                   \* the candidate it accepts; the identity of a command is its place
    spent          \* commands sent and faults so far

appVars == <<log, lease, reserved, launch, active, monitors, req, asked, spent>>

Terminals == {"Completed", "Recovery", "Cancelled"}

\* An event, with the identity of the command it is the receipt of.
Event(kind, id) == [kind |-> kind, id |-> id]

Idle == [kind |-> "none", run |-> None, source |-> None, id |-> 0, after |-> 0, pc |-> "idle",
         seen |-> 0, launch |-> 0, rung |-> FALSE, answer |-> "none"]

AppInit ==
    /\ log = [r \in Runs |-> <<>>]
    /\ lease = [r \in Runs |-> 0]
    /\ reserved = {}
    /\ launch = <<>>
    /\ active = [r \in Runs |-> 0]
    /\ monitors = {}
    /\ req = [c \in Callers |-> Idle]
    /\ asked = <<>>
    /\ spent = [sent |-> 0, faults |-> 0]

-----------------------------------------------------------------------------
(***************************************************************************)
(* What a replayed log says of its run.                                    *)
(***************************************************************************)

Has(s, kind) == \E i \in DOMAIN s: s[i].kind = kind

Ended(s) == s # <<>> /\ Last(s).kind \in Terminals

\* snapshot.pending_completion is the candidate proposed at i; it stays pending
\* when it is accepted and when its verification fails.
Offers(s, i) ==
    /\ s[i].kind = "proposed"
    /\ \A j \in i + 1..Len(s): s[j].kind \notin {"proposed", "rejected"} \cup Terminals

Pending(s) == \E i \in DOMAIN s: Offers(s, i)

\* The pending candidate, 0 for none.
Offer(s) == IF Pending(s) THEN CHOOSE i \in DOMAIN s: Offers(s, i) ELSE 0

Since(s, i, kind) == \E j \in i + 1..Len(s): s[j].kind = kind

\* RunCompletion::Answered: a candidate the host has not accepted.
Answered(s) == \E i \in DOMAIN s: Offers(s, i) /\ ~Since(s, i, "accepted")

\* last_host_verification_failure is about the pending candidate, whose rejection
\* has not been committed.
Failing(s) == \E i \in DOMAIN s: Offers(s, i) /\ Since(s, i, "failed")

Receipt(s, id) == \E i \in DOMAIN s: s[i].id = id

\* The replay a request loaded: the log is append-only.
Loaded(q) == SubSeq(log[q.run], 1, q.seen)

-----------------------------------------------------------------------------
(***************************************************************************)
(* Steps of a request.                                                     *)
(***************************************************************************)

\* The waits on StoreWatch that are registered: a wake reaches them.
Armed == {"check", "sleep", "drowse"}

\* StoreWatch::wake.
Wake(q) == [c \in Callers |-> IF q[c].pc \in Armed THEN [q[c] EXCEPT !.rung = TRUE] ELSE q[c]]

Goto(c, pc) == req' = [req EXCEPT ![c].pc = pc]

\* The answer; a RunView or the events say how far they go.
Reply(q, a) ==
    [Idle EXCEPT !.kind = q.kind, !.run = q.run, !.id = q.id, !.after = q.after, !.pc = "done", !.answer = a,
                 !.seen = IF a \in {"run", "events"} THEN q.seen ELSE 0]

Answer(c, a) == req' = [req EXCEPT ![c] = Reply(@, a)]

\* A load of the run, and where it leads or what it answers.
Replay(c) == [req[c] EXCEPT !.seen = Len(log[req[c].run])]

Load(c, pc) == req' = [req EXCEPT ![c] = [Replay(c) EXCEPT !.pc = pc]]

View(c, a) == req' = [req EXCEPT ![c] = Reply(Replay(c), a)]

at(c, pc) == req[c].pc = pc

runOf(c) == req[c].run

durable == <<log, lease, reserved>>
process == <<launch, active, monitors>>

NewRequest(kind, r, source, id, after) ==
    [Idle EXCEPT !.kind = kind, !.run = r, !.source = source, !.id = id, !.after = after,
                 !.pc = IF kind \in {"start", "recover"} THEN "reserve"
                        ELSE IF kind = "wait" THEN "read" ELSE IF kind = "get" THEN "get" ELSE "load"]

Free(c) == req[c].pc \in {"idle", "done"}

Begin(c, kind, r, source, id, after) ==
    /\ Free(c)
    /\ req' = [req EXCEPT ![c] = NewRequest(kind, r, source, id, after)]
    /\ UNCHANGED <<durable, process>>

Send == spent.sent < MaxSent /\ spent' = [spent EXCEPT !.sent = @ + 1]

\* execute: a creation command has a run of its own; recover repeats one that
\* was reserved.
Create(c, kind, r, source) ==
    /\ IF kind = "recover" THEN r \in reserved
       ELSE r \notin reserved /\ \A d \in Callers: req[d].run # r
    /\ Begin(c, kind, r, source, 0, 0) /\ Send
    /\ UNCHANGED asked

Resume(c, r) == log[r] # <<>> /\ Begin(c, "resume", r, None, 0, 0) /\ Send /\ UNCHANGED asked

Query(c, r) == log[r] # <<>> /\ Begin(c, "get", r, None, 0, 0) /\ Send /\ UNCHANGED asked

\* A control command is new, or one that was sent before under its old identity.
Control(c, kind, r, id, about) ==
    /\ log[r] # <<>>
    /\ IF id \in DOMAIN asked
       THEN /\ asked[id].kind = kind /\ asked[id].run = r
            /\ asked' = [asked EXCEPT ![id].copies = @ + 1]
       ELSE asked' = Append(asked, [kind |-> kind, run |-> r, copies |-> 1, about |-> about])
    /\ Begin(c, kind, r, None, id, 0) /\ Send

\* wait_events.
Watch(c, r, after) == log[r] # <<>> /\ Begin(c, "wait", r, None, 0, after) /\ UNCHANGED asked

\* start, continue_run and recover_creation: a creation command that was
\* reserved before loads its run first.
Reserve(c) ==
    /\ at(c, "reserve")
    /\ reserved' = reserved \cup {runOf(c)}
    /\ IF runOf(c) \notin reserved THEN Goto(c, "compose")
       ELSE IF log[runOf(c)] # <<>> THEN View(c, "run") ELSE Goto(c, "compose")
    /\ UNCHANGED <<log, lease, process, asked, spent>>

\* continuation_source: only a settled terminal run is continued.
LoadSource(c) ==
    /\ at(c, "load") /\ req[c].kind = "continue"
    /\ LET s == log[req[c].source]
       IN  IF Ended(s) /\ Last(s).kind # "Recovery" THEN Goto(c, "reserve") ELSE Answer(c, "invalid")
    /\ UNCHANGED <<durable, process, asked, spent>>

\* resume: a terminal run is answered, an active one refused.
LoadResume(c) ==
    /\ at(c, "load") /\ req[c].kind = "resume"
    /\ IF Ended(log[runOf(c)]) THEN View(c, "run") ELSE Load(c, "busy")
    /\ UNCHANGED <<durable, process, asked, spent>>

CheckBusy(c) ==
    /\ at(c, "busy")
    /\ IF active[runOf(c)] # 0 THEN Answer(c, "running") ELSE Goto(c, "compose")
    /\ UNCHANGED <<durable, process, asked, spent>>

\* The first load of steer, interrupt, cancel and resolve_interaction.
LoadControl(c) ==
    /\ at(c, "load") /\ req[c].kind \in {"steer", "cancel"}
    /\ LET s == log[runOf(c)]
       IN  IF Receipt(s, req[c].id) THEN Answer(c, "accepted")
           ELSE IF Ended(s) THEN Answer(c, "terminal") ELSE Goto(c, "find")
    /\ UNCHANGED <<durable, process, asked, spent>>

\* Both loads of accept_completion: next is where an open proposal leads.
LoadProposal(c, pc, next) ==
    /\ at(c, pc) /\ req[c].kind = "accept"
    /\ LET s == log[runOf(c)]
       IN  IF Receipt(s, req[c].id)
           THEN IF Pending(s) THEN Load(c, "rejoin") ELSE Answer(c, "accepted")
           ELSE IF Ended(s) THEN Answer(c, "terminal")
           ELSE IF ~Pending(s) THEN Answer(c, "notPending") ELSE Load(c, next)
    /\ UNCHANGED <<durable, process, asked, spent>>

\* The launch that proposed must be retired first.  The wait is registered
\* before the registry is read.
Retire(c) ==
    /\ at(c, "retire")
    /\ IF active[runOf(c)] = 0 THEN Goto(c, "reload")
       ELSE req' = [req EXCEPT ![c] = [@ EXCEPT !.pc = "drowse", !.rung = FALSE]]
    /\ UNCHANGED <<durable, process, asked, spent>>

Rouse(c) ==
    /\ at(c, "drowse") /\ req[c].rung /\ Goto(c, "retire")
    /\ UNCHANGED <<durable, process, asked, spent>>

\* Faulty variant: a retried acceptance is only acknowledged.
RejoinNothing(c) == at(c, "rejoin") /\ Answer(c, "accepted") /\ UNCHANGED <<durable, process, asked, spent>>

\* resume_after_committed_host_acceptance.
Rejoin(c) ==
    /\ at(c, "rejoin")
    /\ IF active[runOf(c)] # 0 THEN Answer(c, "accepted") ELSE Goto(c, "compose")
    /\ UNCHANGED <<durable, process, asked, spent>>

-----------------------------------------------------------------------------
(***************************************************************************)
(* Launching: composition, the ready handshake and the registry.           *)
(***************************************************************************)

\* ready: the answer of the store.  gate: RuntimeRun.launch was sent or dropped.
\* told: the last committed event was given to the sink.  ack: the command to
\* acknowledge then.
NewLaunch(r, kind, expected, queue) ==
    [run |-> r, create |-> kind \in Creations, expected |-> expected, queue |-> queue,
     st |-> "acquire", ready |-> "none", gate |-> FALSE, told |-> TRUE, ack |-> 0,
     goal |-> "none"]

\* A launch whose task ended: its queue is gone.
Closed(x, ready) ==
    [NewLaunch(x.run, "none", 0, <<>>) EXCEPT !.st = "over", !.ready = ready, !.gate = TRUE]

\* queue_completion_acceptance puts the acceptance before everything else; a
\* retry of a committed acceptance sends nothing.
FirstCommand(q) ==
    IF q.kind = "accept" /\ ~Receipt(Loaded(q), q.id)
    THEN <<[kind |-> "accept", id |-> q.id]>> ELSE <<>>

\* RunComposition::start, resume and continue_run, and the spawn of run_launch.
Compose(c) ==
    /\ at(c, "compose")
    /\ launch' = Append(launch, NewLaunch(runOf(c), req[c].kind, req[c].seen, FirstCommand(req[c])))
    /\ req' = [req EXCEPT ![c] = [@ EXCEPT !.pc = "ready", !.launch = Len(launch) + 1]]
    /\ UNCHANGED <<durable, active, monitors, asked, spent>>

\* The composition refuses: the workspace, the tools or the model do not fit.
Unfit(c) == at(c, "compose") /\ Answer(c, "unfit") /\ UNCHANGED <<durable, process, asked, spent>>

\* What a failed activation means to each command.
Failed(c, error) ==
    IF req[c].kind \in Creations /\ error = "exists" THEN Goto(c, "get")
    ELSE IF req[c].kind = "accept" /\ error = "running" /\ Receipt(Loaded(req[c]), req[c].id)
    THEN Answer(c, "accepted") ELSE Answer(c, error)

\* RuntimeRun::ready: the gate opens once the store has answered.
AwaitReady(c) ==
    /\ at(c, "ready")
    /\ LET l == req[c].launch IN
        /\ launch[l].ready # "none"
        /\ launch' = [launch EXCEPT ![l].gate = TRUE]
        /\ IF launch[l].ready = "ok" THEN Goto(c, "register") ELSE Failed(c, launch[l].ready)
    /\ UNCHANGED <<durable, active, monitors, asked, spent>>

\* Where a launch works on its run.
Working == {"gated", "drain", "loop", "review", "reject", "leave", "end"}

Over(l) == launch[l].st = "over"

\* AgentControl: a command of a launch whose task ended is refused.
Sent(ls, l, command) ==
    IF Over(l) THEN ls ELSE [ls EXCEPT ![l].queue = Append(@, command)]

Stop == [kind |-> "cancel", id |-> 0]

\* control.cancel() of an activation that lost the registry race.
StopLoser(l) == Sent(launch, l, Stop)

\* activate, under the lock of the registry, and spawn_monitor.
Register(c) ==
    /\ at(c, "register")
    /\ LET l == req[c].launch IN
        /\ monitors' = monitors \cup {l}
        /\ IF active[runOf(c)] # 0
           THEN launch' = StopLoser(l) /\ Failed(c, "running") /\ UNCHANGED active
           ELSE /\ active' = [active EXCEPT ![runOf(c)] = l]
                /\ IF req[c].kind # "accept" THEN Goto(c, "get")
                   ELSE IF FirstCommand(req[c]) = <<>> THEN Answer(c, "accepted") ELSE Goto(c, "acked")
                /\ UNCHANGED launch
    /\ UNCHANGED <<durable, asked, spent>>

Get(c) ==
    /\ at(c, "get") /\ View(c, "run")
    /\ UNCHANGED <<durable, process, asked, spent>>

\* Only the entry with the monitor's own launch token is removed.
Retired(l) == [active EXCEPT ![launch[l].run] = IF @ = l THEN 0 ELSE @]

\* Faulty variant: nobody is told that the launch was retired.
MonitorSilent(l) ==
    /\ l \in monitors /\ Over(l)
    /\ active' = Retired(l)
    /\ monitors' = monitors \ {l}
    /\ UNCHANGED <<durable, launch, req, asked, spent>>

\* spawn_monitor: the launch ended.
Monitor(l) ==
    /\ l \in monitors /\ Over(l)
    /\ active' = Retired(l)
    /\ monitors' = monitors \ {l}
    /\ req' = Wake(req)
    /\ UNCHANGED <<durable, launch, asked, spent>>

-----------------------------------------------------------------------------
(***************************************************************************)
(* Controlling and watching a run.                                         *)
(***************************************************************************)

\* control: the command goes to the active launch, if there is one.
SendControl(c) ==
    /\ at(c, "find")
    /\ LET l == active[runOf(c)] IN
        IF l = 0 \/ (l # 0 /\ Over(l)) THEN Goto(c, "race") /\ UNCHANGED launch
        ELSE /\ launch' = Sent(launch, l, [kind |-> req[c].kind, id |-> req[c].id])
             /\ req' = [req EXCEPT ![c] = [@ EXCEPT !.pc = "acked", !.launch = l]]
    /\ UNCHANGED <<durable, active, monitors, asked, spent>>

\* Faulty variant: a command that is not acknowledged at once is given up.
Impatient(c) == at(c, "acked") /\ Goto(c, "race") /\ UNCHANGED <<durable, process, asked, spent>>

\* The sender of the acknowledgement was dropped with the queue.
Unacknowledged(c) ==
    /\ at(c, "acked") /\ Over(req[c].launch)
    /\ Goto(c, "race")
    /\ UNCHANGED <<durable, process, asked, spent>>

\* control_after_race.
AfterRace(c) ==
    /\ at(c, "race")
    /\ LET s == log[runOf(c)]
       IN  Answer(c, IF Receipt(s, req[c].id) THEN "accepted"
                     ELSE IF Ended(s) THEN "terminal" ELSE "notActive")
    /\ UNCHANGED <<durable, process, asked, spent>>

\* wait_events: register, then read the store.  A commit between the two reads
\* of the store is found by the second, so they are one step.
Read(c) ==
    /\ at(c, "read")
    /\ LET s == log[runOf(c)]
           found == Len(s) > req[c].after \/ Ended(s)
       IN  IF found THEN View(c, "events")
           ELSE req' = [req EXCEPT ![c] = [Replay(c) EXCEPT !.rung = FALSE, !.pc = "check"]]
    /\ UNCHANGED <<durable, process, asked, spent>>

\* Nothing new: sleep while a launch is active.
CheckActive(c) ==
    /\ at(c, "check")
    /\ IF active[runOf(c)] # 0 THEN Goto(c, "sleep")
       ELSE Answer(c, IF Pending(Loaded(req[c])) THEN "events" ELSE "recovery")
    /\ UNCHANGED <<durable, process, asked, spent>>

Wakes(c) == at(c, "sleep") /\ req[c].rung /\ Goto(c, "read") /\ UNCHANGED <<durable, process, asked, spent>>

-----------------------------------------------------------------------------
(***************************************************************************)
(* The launched task.                                                      *)
(***************************************************************************)

Refuse(l, error) ==
    /\ launch' = [launch EXCEPT ![l] = Closed(@, error)]
    /\ UNCHANGED <<durable, req>>

\* The replayed events wake everybody although the launch ends here.
Withdraw(l, ready) ==
    /\ launch' = [launch EXCEPT ![l] = Closed(@, ready)]
    /\ req' = Wake(req)
    /\ UNCHANGED durable

\* The launch holds the lease; the created or replayed events wake everybody.
Hold(l) ==
    /\ lease' = [lease EXCEPT ![launch[l].run] = l]
    /\ launch' = [launch EXCEPT ![l] = [@ EXCEPT !.ready = "ok", !.st = "gated"]]
    /\ req' = Wake(req)

\* resume_with_accounting_baseline: the run advanced since the request loaded it.
ReplayAdvanced(l) == Len(log[launch[l].run]) # launch[l].expected

\* run_launch: create or acquire the run, then say so.
Acquire(l) ==
    LET r == launch[l].run s == log[r] IN
    /\ launch[l].st = "acquire"
    /\ IF launch[l].create
       THEN IF s # <<>> THEN Refuse(l, "exists")
            ELSE Hold(l) /\ log' = [log EXCEPT ![r] = <<Event("created", 0)>>] /\ UNCHANGED reserved
       ELSE IF Ended(s) THEN Withdraw(l, "ok")
            ELSE IF lease[r] # 0 THEN Refuse(l, "running")
            ELSE IF ReplayAdvanced(l) THEN Withdraw(l, "advanced")
            ELSE Hold(l) /\ UNCHANGED <<log, reserved>>
    /\ UNCHANGED <<active, monitors, asked, spent>>

\* How the Agent loop takes up the run: see AgentLoop.  A rejection that was missing is
\* repaired; a candidate goes to its host or to its review.  A run whose candidate was
\* rejected goes on, or ends if that is what the rejection asks for.
Boot(l) ==
    LET s == log[launch[l].run]
        go(st, goal) == launch' = [launch EXCEPT ![l] = [@ EXCEPT !.st = st, !.goal = goal]]
    IN
    /\ launch[l].st = "gated" /\ launch[l].gate
    /\ IF Has(s, "cancel") THEN go("end", "Cancelled")
       ELSE IF Failing(s) THEN go("reject", "none")
       ELSE IF Answered(s) /\ launch[l].run \in HostRuns THEN go("drain", "none")
       ELSE IF Pending(s) THEN go("review", "none")
       ELSE go("loop", "none") \/ (Has(s, "rejected") /\ go("end", "Completed"))
    /\ UNCHANGED <<durable, active, monitors, req, asked, spent>>

\* publish: one event is committed, and the sink is told next.
Commit(l, event, st, goal) ==
    /\ log' = [log EXCEPT ![launch[l].run] = Append(@, event)]
    /\ launch' = [launch EXCEPT ![l] = [@ EXCEPT !.st = st, !.goal = goal, !.told = FALSE,
                                                 !.ack = event.id]]

\* The task takes its next step only after the sink was told.
Ready(l, sts) == launch[l].st \in sts /\ launch[l].told

\* NotifyingSink::emit, then the acknowledgement of the command.
Acknowledged(q, id, a) ==
    [c \in Callers |-> IF q[c].pc = "acked" /\ q[c].id = id /\ id # 0
                       THEN Reply(q[c], a) ELSE q[c]]

Emit(l) ==
    /\ ~launch[l].told
    /\ launch' = [launch EXCEPT ![l] = IF @.st = "last" THEN Closed(@, "ok")
                                       ELSE [@ EXCEPT !.told = TRUE, !.ack = 0]]
    /\ req' = Acknowledged(Wake(req), launch[l].ack, "accepted")
    /\ UNCHANGED <<durable, active, monitors, asked, spent>>

\* handle_control: the next command of the queue.  An acceptance must be about the
\* candidate that is pending.
Handle(l) ==
    LET m == Head(launch[l].queue)
        s == log[launch[l].run]
        rest == [launch[l] EXCEPT !.queue = Tail(@)]
        commits == ~Receipt(s, m.id) \/ m.id = 0
    IN
    /\ Ready(l, {"drain", "loop"}) /\ launch[l].queue # <<>>
    /\ IF commits /\ (m.kind = "accept" => Pending(s) /\ asked[m.id].about = Offer(s))
       THEN /\ log' = [log EXCEPT ![launch[l].run] =
                           Append(@, Event(IF m.kind = "accept" THEN "accepted" ELSE m.kind, m.id))]
            /\ launch' = [launch EXCEPT ![l] = [rest EXCEPT !.told = FALSE, !.ack = m.id,
                              !.st = IF m.kind = "cancel" THEN "end" ELSE @,
                              !.goal = IF m.kind = "cancel" THEN "Cancelled" ELSE @]]
            /\ UNCHANGED req
       ELSE /\ launch' = [launch EXCEPT ![l] = rest]
            /\ req' = Acknowledged(req, m.id, IF commits THEN "notPending" ELSE "accepted")
            /\ UNCHANGED log
    /\ UNCHANGED <<lease, reserved, active, monitors, asked, spent>>

\* The model answers: a task with a host waits for it, another one is reviewed.
Propose(l) ==
    /\ Ready(l, {"loop"})
    /\ Commit(l, Event("proposed", 0), IF launch[l].run \in HostRuns THEN "leave" ELSE "review", "none")
    /\ UNCHANGED <<lease, reserved, active, monitors, req, asked, spent>>

\* The queued commands were handled: without an acceptance the run waits on.
Drained(l) ==
    /\ Ready(l, {"drain"}) /\ launch[l].queue = <<>>
    /\ launch' = [launch EXCEPT ![l].st = IF Answered(log[launch[l].run]) THEN "leave" ELSE "review"]
    /\ UNCHANGED <<durable, active, monitors, req, asked, spent>>

\* accept_completion_candidate: the evidence is there, or the review ends the run.  No
\* command is taken meanwhile.
Review(l) ==
    /\ Ready(l, {"review"})
    /\ \E o \in Outcomes: launch' = [launch EXCEPT ![l] = [@ EXCEPT !.st = "end", !.goal = o]]
    /\ UNCHANGED <<durable, active, monitors, req, asked, spent>>

\* run_host_verifier: HostVerificationCommitted without a receipt.
FailVerification(l) ==
    LET s == log[launch[l].run] IN
    /\ Ready(l, {"review"})
    /\ Cardinality({i \in DOMAIN s: s[i].kind = "failed"}) < MaxFailed
    /\ Commit(l, Event("failed", 0), "reject", "none")
    /\ UNCHANGED <<lease, reserved, active, monitors, req, asked, spent>>

\* CompletionRejected: the run has another turn if an effective change of the workspace
\* is asked for and a model request is left, and is blocked otherwise.
RejectCandidate(l) ==
    /\ Ready(l, {"reject"})
    /\ \/ Commit(l, Event("rejected", 0), "loop", "none")
       \/ Commit(l, Event("rejected", 0), "end", "Completed")
    /\ UNCHANGED <<lease, reserved, active, monitors, req, asked, spent>>

\* Faulty variant: a waiting run keeps its lease.
LeaveHolding(l) ==
    /\ Ready(l, {"leave"})
    /\ launch' = [launch EXCEPT ![l] = Closed(@, "ok")]
    /\ UNCHANGED <<durable, active, monitors, req, asked, spent>>

\* finalize: a waiting run gives up the lease, another one commits its terminal
\* event, which ends the lease with it.
Leave(l) ==
    /\ Ready(l, {"leave"})
    /\ lease' = [lease EXCEPT ![launch[l].run] = 0]
    /\ launch' = [launch EXCEPT ![l] = Closed(@, "ok")]
    /\ UNCHANGED <<log, reserved, active, monitors, req, asked, spent>>

End(l) ==
    /\ Ready(l, {"end"})
    /\ Commit(l, Event(launch[l].goal, 0), "last", launch[l].goal)
    /\ lease' = [lease EXCEPT ![launch[l].run] = 0]
    /\ UNCHANGED <<reserved, active, monitors, req, asked, spent>>

-----------------------------------------------------------------------------
(***************************************************************************)
(* Faults and the specification.                                           *)
(***************************************************************************)

\* Faulty variant: nothing guards an activation.
DroppedUnguarded(l) == [launch EXCEPT ![l].gate = TRUE]

\* Drop of PendingActivation and of RuntimeRun: the launch is told to stop.
Dropped(l) == [Sent(launch, l, Stop) EXCEPT ![l].gate = TRUE]

\* The caller goes away: its future is dropped where it waits.
Abort(c) ==
    /\ spent.faults < MaxFaults
    /\ req[c].pc \notin {"idle", "done"}
    /\ launch' = IF req[c].pc \in {"ready", "register"} THEN Dropped(req[c].launch) ELSE launch
    /\ req' = [req EXCEPT ![c] = Idle]
    /\ spent' = [spent EXCEPT !.faults = @ + 1]
    /\ UNCHANGED <<durable, active, monitors, asked>>

\* The process dies: only the store remains, and its leases are void.
Restart ==
    /\ spent.faults < MaxFaults
    /\ spent' = [spent EXCEPT !.faults = @ + 1]
    /\ lease' = [r \in Runs |-> 0]
    /\ launch' = [l \in DOMAIN launch |-> Closed(launch[l], "none")]
    /\ active' = [r \in Runs |-> 0]
    /\ monitors' = {}
    /\ req' = [c \in Callers |-> Idle]
    /\ UNCHANGED <<log, reserved, asked>>

RequestStep(c) ==
    \/ Reserve(c) \/ LoadResume(c) \/ CheckBusy(c) \/ LoadControl(c)
    \/ LoadProposal(c, "load", "retire") \/ Retire(c)
    \/ LoadProposal(c, "reload", "compose") \/ Rejoin(c) \/ Compose(c) \/ Unfit(c)
    \/ AwaitReady(c) \/ Register(c) \/ Get(c) \/ SendControl(c) \/ Unacknowledged(c) \/ AfterRace(c)
    \/ Rouse(c)

\* The steps of a continuation and of a follower, which only RunClient asks for.
FollowStep(c) == LoadSource(c) \/ Read(c) \/ CheckActive(c) \/ Wakes(c)

LaunchStep(l) ==
    \/ Acquire(l) \/ Boot(l) \/ Emit(l) \/ Handle(l) \/ Propose(l) \/ Drained(l)
    \/ Review(l) \/ FailVerification(l) \/ RejectCandidate(l) \/ Leave(l) \/ End(l)

AppStep ==
    \/ \E c \in Callers: RequestStep(c)
    \/ \E l \in DOMAIN launch: LaunchStep(l) \/ Monitor(l)

\* Clients that only send commands.
Client(c) ==
    \E kind \in Commands, r \in Runs:
        \/ kind \in {"start", "recover"} /\ Create(c, kind, r, None)
        \/ kind = "resume" /\ Resume(c, r)
        \/ kind \in Controls /\ \E id \in 1..Len(asked) + 1:
               Control(c, kind, r, id, IF kind = "accept" THEN Offer(log[r]) ELSE 0)

AppNext == AppStep \/ Restart \/ \E c \in Callers: Abort(c) \/ Client(c)

AppSpec == AppInit /\ [][AppNext]_appVars

\* The task of a launch, then the monitor that waits for its end.
TaskStep(l) == l \in DOMAIN launch /\ (LaunchStep(l) \/ Monitor(l))

\* Tasks are scheduled, and a launch that is waited for goes on by itself; no
\* client has to send anything.
AppFairness ==
    /\ \A c \in Callers: WF_appVars(RequestStep(c))
    /\ \A l \in 1..MaxSent: WF_appVars(TaskStep(l))

AppFairSpec == AppSpec /\ AppFairness

-----------------------------------------------------------------------------
(***************************************************************************)
(* Properties.                                                             *)
(***************************************************************************)

\* Well-formed state: what refers to a launch refers to one of this process, and
\* an entry of the registry to one of its run.
AppTypeOK ==
    /\ \A r \in Runs: lease[r] \in 0..Len(launch) /\ active[r] \in 0..Len(launch)
    /\ \A r \in Runs: active[r] # 0 => launch[active[r]].run = r
    /\ monitors \subseteq DOMAIN launch
    /\ \A c \in Callers: req[c].launch \in 0..Len(launch)
    /\ \A l \in DOMAIN launch: launch[l].ready \in {"none", "ok", "exists", "running", "advanced"}

\* run_launch and finalize: the launch that works on a run is the one that holds
\* its lease.  It takes the lease before it works, and gives it up, or ends it
\* with the terminal event, on every way out; so no two launches work on one run,
\* and no lease is left behind by a launch that is over.
OneWorker ==
    \A r \in Runs, l \in DOMAIN launch:
        lease[r] = l <=> launch[l].run = r /\ launch[l].st \in Working

\* activate, PendingActivation and spawn_monitor: a launch that works on its run
\* can be reached through the registry, is about to be registered, or was told
\* to stop; an aborted request leaves no run behind that nobody can control.
NoOrphan ==
    \A l \in DOMAIN launch:
        launch[l].st \in {"drain", "loop", "review", "reject"} =>
            \/ active[launch[l].run] = l
            \/ \E c \in Callers: req[c].launch = l /\ at(c, "register")
            \/ Stop \in Range(launch[l].queue)

\* control and control_after_race: a steer or a cancel that was sent once and
\* answered with an error is not in the log, neither then nor later.
RefusedStaysOut ==
    \A c \in Callers:
        req[c].kind \in {"steer", "cancel"} /\ req[c].answer \in {"terminal", "notActive"} =>
            asked[req[c].id].copies > 1 \/ ~Receipt(log[runOf(c)], req[c].id)

\* wait_events, accept_completion and control: no request waits for ever, so no
\* wake-up of StoreWatch is lost and no acknowledgement stays away.
Served == \A c \in Callers: ~Free(c) ~> Free(c)

\* The candidate that command id accepted was judged: its verifier rejected it, or the
\* run has ended.
Judged(s, id) ==
    \E i \in DOMAIN s: s[i].id = id /\ \E j \in i + 1..Len(s): s[j].kind \in Terminals \cup {"rejected"}

\* Somebody was told that the candidate is accepted, and it has not been judged.
Unjudged ==
    \E c \in Callers:
        req[c].kind = "accept" /\ req[c].answer = "accepted" /\ ~Judged(log[runOf(c)], req[c].id)

\* accept_completion and resume_after_committed_host_acceptance: once acceptances are
\* answered and the faults are over, the runs end or their accepted candidates are
\* rejected, without any further command; also when an earlier process died between the
\* acceptance, the failed verification and its rejection.
AcceptedJudged == spent.faults = MaxFaults /\ Unjudged ~> ~Unjudged

=============================================================================
