-------------------------- MODULE WriterLifecycle ---------------------------
(***************************************************************************)
(* The life of an isolated writer: what crates/runtime/src/agent.rs makes  *)
(* durable around the Git operations of GitWorkspace, from the start of    *)
(* the agent tool call to the terminal of the root run, what the canonical *)
(* reducer of store.rs refuses of it, and how a resumed run picks it up.   *)
(*                                                                         *)
(* Each writer belongs to a root run of its own; two of them are two       *)
(* processes that share the repository.  A step of the runtime is one      *)
(* append to the run's log or one call of the orchestrator; the rest of    *)
(* the Agent loop is the subject of AgentLoop and appears here as the      *)
(* terminal the root wants (RootEnds).                                     *)
(***************************************************************************)
EXTENDS GitWorkspace

CONSTANTS
    MayStop,      \* a cancel or the deadline may stop the root run: a subset of
                  \* {"cancelled", "timeout"}
    Ends,         \* how the writer's child run may end
    MaxCrashes    \* bound: crashes of a process

\* The cleanup plans: WriterCleanupPlan.
Plans == [mode: {"remove", "retain"}, commit: Commits \cup {None},
          scope: Works \cup {"empty", "sealed", None}, sealed: BOOLEAN]

ASSUME LifecycleAssumption ==
    /\ MayStop \subseteq {"cancelled", "timeout"}
    /\ Ends \subseteq {"completed", "failed", "lost"}
    /\ MaxCrashes \in Nat
    /\ None \notin Plans

VARIABLES
    life,         \* per writer: the durable AgentTaskLifecycle and its root run
    pc,           \* per writer: where the runtime of its root run is
    halt,         \* per writer: parent_terminal, then terminal_after_result
    goal,         \* per writer: the terminal the run is about to publish
    refused,      \* per writer: the events the reducer refused
    crashes       \* crashes so far

lifeVars == <<life, pc, halt, goal, refused, crashes>>
vars == <<gitVars, lifeVars>>

\* Terminals that are RecoveryRequired, by what their action id names.
Recoveries == {"tool", "child", "integration", "cleanup"}
Terminals == {"completed", "cancelled", "failed"} \cup Recoveries

\* tool: the pending agent tool.  stage: the last of AgentTaskPrepared,
\* AgentWorkspaceCreated and ChildStarted.  child: the child's own run.
\* rev, expected, delivered: root workspace states.  control: a durable cancel.
NewLife == [tool |-> "none", stage |-> "none", child |-> "none", seal |-> "none",
            result |-> "none", integ |-> "none", rev |-> None, delivered |-> None,
            plan |-> None, cleanup |-> "none", finished |-> "none", outcome |-> "none",
            control |-> FALSE, terminal |-> "none"]

PCs == {"idle", "prepare", "bind", "bound", "create", "start", "child", "stopping", "collect",
        "seal", "sealing", "sealed", "result", "integrate", "begin", "integrating", "settle",
        "failed", "plan", "clean", "cleaned", "finish", "answer", "root", "final", "end",
        "down", "done"}

Init ==
    /\ GitInit
    /\ life = [w \in Writers |-> NewLife]
    /\ pc = [w \in Writers |-> "idle"]
    /\ halt = [w \in Writers |-> None]
    /\ goal = [w \in Writers |-> None]
    /\ refused = [w \in Writers |-> {}]
    /\ crashes = 0

-----------------------------------------------------------------------------
(***************************************************************************)
(* The canonical reducer: which event it accepts in which lifecycle.       *)
(***************************************************************************)

\* After a durable cancel only these may follow.
Settlements == {"ToolOutcomeCommitted", "AgentWorkspaceCreated", "AgentSealCommitted",
                "AgentResultCollected", "AgentIntegrationFailed", "AgentIntegrationCommitted",
                "AgentCleanupPrepared", "AgentCleanupCommitted", "ChildFinished", "Terminal"}

Open(l, event) == l.terminal = "none" /\ (l.control => event \in Settlements)

\* The order of the events up to the integration.
AcceptsTask(l) == l.tool = "inflight" /\ l.stage = "none"

AcceptsWorkspace(l) == l.stage = "prepared"

AcceptsChild(l) == l.stage = "created"

AcceptsSealing(l) == l.stage = "started" /\ l.seal = "none" /\ l.result = "none"

AcceptsSeal(l) == l.seal = "prepared" /\ l.result = "none"

\* AgentResultCollected and validate_collected_agent_result: a success needs a
\* committed seal, and a failure the runtime reports never carries one.
AcceptsResult(l, end) ==
    /\ l.stage # "none" /\ l.result = "none"
    /\ (end = "completed") = (l.seal = "committed")
    /\ end = "completed" => l.stage = "started"

AcceptsIntegrating(l) == l.seal = "committed" /\ l.result = "completed" /\ l.integ = "none"

AcceptsStart(l) == l.integ = "prepared"

AcceptsIntegration(l) == l.integ = "started"

\* validate_writer_cleanup_plan and the order of AgentCleanupPrepared.
AcceptsPlan(l, plan) ==
    /\ l.result # "none" /\ l.plan = None
    /\ IF l.integ = "committed" THEN l.finished # "none" /\ l.tool = "done"
       ELSE l.finished = "none" /\ (l.result = "completed" => l.integ \in {"conflict", "recovery"})
    /\ plan.mode = "remove" => plan.sealed = (l.seal = "committed")

\* expected_finished_outcome.
Finished(l) ==
    IF l.cleanup = "retained" THEN "cleanup"
    ELSE IF l.result = "lost" THEN "child"
    ELSE IF l.result = "failed" \/ l.integ = "conflict" THEN "blocked"
    ELSE IF l.integ = "recovery" THEN "integration" ELSE "completed"

AcceptsFinish(l) ==
    /\ l.result # "none" /\ l.finished = "none"
    /\ l.integ # "committed" => l.cleanup # "none"
    /\ l.result = "completed" => l.integ \in {"committed", "conflict", "recovery"}

\* ToolOutcomeCommitted of the agent tool.  state is the observed root state,
\* None when the outcome does not settle one.
Unintegrated(l) == l.integ # "committed" /\ l.finished \in Recoveries

AcceptsOutcome(l, effect, state) ==
    /\ l.tool = "inflight" /\ l.finished # "none"
    /\ IF state = None
       THEN \/ effect = "notApplied" /\ (l.result # "completed" \/ l.integ \in {"conflict", "recovery"})
            \/ effect = "indeterminate" /\ Unintegrated(l)
       ELSE l.integ = "committed" /\ state = l.delivered

\* Terminal: no unsettled writer, the durable cancel, and
\* validate_terminal_agent_cleanup.
AcceptsTerminal(l, t) ==
    /\ l.stage # "none" => l.finished # "none" /\ l.cleanup # "none"
    /\ l.control => t \in {"cancelled"} \cup Recoveries
    /\ l.cleanup = "retained" => t = "cleanup"

-----------------------------------------------------------------------------
(***************************************************************************)
(* How the runtime proceeds.                                               *)
(***************************************************************************)

\* Append an event that turns the lifecycle into l, and go to step.  A refused
\* append ends the lifecycle early with Failed, which becomes the result of the
\* tool call (finalize publishes its own failure).
Publish(w, event, accepted, l, step) ==
    IF accepted /\ Open(life[w], event)
    THEN /\ life' = [life EXCEPT ![w] = l]
         /\ pc' = [pc EXCEPT ![w] = step]
         /\ UNCHANGED <<halt, goal, refused>>
    ELSE /\ refused' = [refused EXCEPT ![w] = @ \cup {event}]
         /\ IF life[w].integ = "committed" /\ life[w].finished # "none"
            THEN /\ goal' = [goal EXCEPT ![w] = "failed"]
                 /\ pc' = [pc EXCEPT ![w] = "end"]
                 /\ UNCHANGED halt
            ELSE /\ halt' = [halt EXCEPT ![w] = "failed"]
                 /\ pc' = [pc EXCEPT ![w] = "answer"]
                 /\ UNCHANGED goal
         /\ UNCHANGED life

\* A step of the runtime that appends nothing.
Advance(w, step) ==
    /\ pc' = [pc EXCEPT ![w] = step]
    /\ UNCHANGED <<life, halt, goal, refused>>

\* The orchestrator has answered.
Answered(w) == op[w].at = "idle"

\* prepare_writer, and ToolExecutionStarted.
Launch(w) ==
    /\ pc[w] = "idle"
    /\ PlanWriter(w)
    /\ life' = [life EXCEPT ![w] = [life[w] EXCEPT !.tool = "inflight", !.rev = Revision]]
    /\ pc' = [pc EXCEPT ![w] = "prepare"]
    /\ UNCHANGED <<root, headLock, lease, res, op, acts, halt, goal, refused, crashes>>

Prepare(w) ==
    /\ pc[w] = "prepare"
    /\ Publish(w, "AgentTaskPrepared", AcceptsTask(life[w]),
               [life[w] EXCEPT !.stage = "prepared"], "bind")
    /\ UNCHANGED <<gitVars, crashes>>

Bind(w) ==
    /\ pc[w] = "bind"
    /\ BindStart(w)
    /\ Advance(w, "bound")
    /\ UNCHANGED crashes

\* finish_bound_writer_failure forgets that the parent was stopped.
BoundFailure(w) ==
    /\ pc' = [pc EXCEPT ![w] = "failed"]
    /\ halt' = [halt EXCEPT ![w] = None]
    /\ UNCHANGED <<life, goal, refused>>

\* After bind_writer: AgentWorkspaceCreated and ChildStarted are published when
\* they are missing, and a child run that already ended is not run again.
AfterBind(l) == IF l.stage = "prepared" THEN "create"
                ELSE IF l.child \in {"completed", "failed", "lost"} THEN "collect"
                ELSE IF l.stage = "created" THEN "start" ELSE "child"

Bound(w) ==
    /\ pc[w] = "bound" /\ Answered(w)
    /\ IF op[w].ret = "ok" THEN Advance(w, AfterBind(life[w])) ELSE BoundFailure(w)
    /\ UNCHANGED <<gitVars, crashes>>

Create(w) ==
    LET l == [life[w] EXCEPT !.stage = "created"]
    IN  /\ pc[w] = "create"
        /\ Publish(w, "AgentWorkspaceCreated", AcceptsWorkspace(life[w]), l, AfterBind(l))
        /\ UNCHANGED <<gitVars, crashes>>

Start(w) ==
    /\ pc[w] = "start"
    /\ Publish(w, "ChildStarted", AcceptsChild(life[w]),
               [life[w] EXCEPT !.stage = "started"], "child")
    /\ UNCHANGED <<gitVars, crashes>>

-----------------------------------------------------------------------------
(***************************************************************************)
(* The child run, which writes in its worktree while its parent waits.     *)
(***************************************************************************)

ChildWrites(w) ==
    /\ pc[w] \in {"child", "stopping"}
    /\ life[w].child \in {"none", "running"}
    /\ res[w].path /\ res[w].work = "clean"
    /\ \E work \in {"draft", "stray"} : res' = [res EXCEPT ![w] = [res[w] EXCEPT !.work = work]]
    /\ life' = [life EXCEPT ![w] = [life[w] EXCEPT !.child = "running"]]
    /\ UNCHANGED <<root, headLock, lease, base, op, acts, pc, halt, goal, refused, crashes>>

\* The child's own Terminal; a stopped child may have completed before.
ChildEnds(w) ==
    /\ pc[w] \in {"child", "stopping"}
    /\ life[w].child \in {"none", "running"}
    /\ \E end \in Ends : life' = [life EXCEPT ![w] = [life[w] EXCEPT !.child = end]]
    /\ UNCHANGED <<gitVars, pc, halt, goal, refused, crashes>>

\* A cancel is made durable, the deadline is not; either stops the child.
StopRoot(w) ==
    \E t \in MayStop :
        /\ pc[w] = "child"
        /\ halt' = [halt EXCEPT ![w] = IF t = "cancelled" THEN t ELSE "failed"]
        /\ life' = [life EXCEPT ![w] = [life[w] EXCEPT !.control = (t = "cancelled")]]
        /\ pc' = [pc EXCEPT ![w] = "stopping"]
        /\ UNCHANGED <<gitVars, goal, refused, crashes>>

Join(w) ==
    /\ pc[w] \in {"child", "stopping"}
    /\ life[w].child \in {"completed", "failed", "lost"}
    /\ Advance(w, "collect")
    /\ UNCHANGED <<gitVars, crashes>>

Collect(w) ==
    /\ pc[w] = "collect"
    /\ Advance(w, IF life[w].child = "completed" THEN "seal" ELSE "failed")
    /\ UNCHANGED <<gitVars, crashes>>

-----------------------------------------------------------------------------
(***************************************************************************)
(* finish_writer_lifecycle: seal, collect, integrate.                      *)
(***************************************************************************)

PrepareSeal(w) ==
    /\ pc[w] = "seal"
    /\ Publish(w, "AgentSealPrepared", AcceptsSealing(life[w]),
               [life[w] EXCEPT !.seal = "prepared"], "sealing")
    /\ UNCHANGED <<gitVars, crashes>>

Seal(w) ==
    /\ pc[w] = "sealing"
    /\ SealStart(w)
    /\ Advance(w, "sealed")
    /\ UNCHANGED crashes

CommitSeal(w) ==
    /\ pc[w] = "sealed" /\ Answered(w)
    /\ IF op[w].ret = "ok"
       THEN Publish(w, "AgentSealCommitted", AcceptsSeal(life[w]),
                    [life[w] EXCEPT !.seal = "committed"], "result")
       ELSE BoundFailure(w)
    /\ UNCHANGED <<gitVars, crashes>>

CollectResult(w) ==
    /\ pc[w] = "result"
    /\ Publish(w, "AgentResultCollected", AcceptsResult(life[w], "completed"),
               [life[w] EXCEPT !.result = "completed"], "integrate")
    /\ UNCHANGED <<gitVars, crashes>>

\* The root workspace state of the log is the one the integration expects.
PrepareIntegration(w) ==
    /\ pc[w] = "integrate"
    /\ Publish(w, "AgentIntegrationPrepared", AcceptsIntegrating(life[w]),
               [life[w] EXCEPT !.integ = "prepared"], "begin")
    /\ UNCHANGED <<gitVars, crashes>>

StartIntegration(w) ==
    /\ pc[w] = "begin"
    /\ Publish(w, "AgentIntegrationStarted", AcceptsStart(life[w]),
               [life[w] EXCEPT !.integ = "started"], "integrating")
    /\ UNCHANGED <<gitVars, crashes>>

Integrate(w) ==
    /\ pc[w] = "integrating"
    /\ IntegrateStart(w, life[w].rev)
    /\ Advance(w, "settle")
    /\ UNCHANGED crashes

SettleIntegration(w) ==
    /\ pc[w] = "settle" /\ Answered(w)
    /\ IF op[w].ret = "ok"
       THEN Publish(w, "AgentIntegrationCommitted", AcceptsIntegration(life[w]),
                    [life[w] EXCEPT !.integ = "committed", !.delivered = op[w].rev], "finish")
       ELSE Publish(w, "AgentIntegrationFailed", AcceptsIntegration(life[w]),
                    [life[w] EXCEPT !.integ = op[w].ret], "plan")
    /\ UNCHANGED <<gitVars, crashes>>

-----------------------------------------------------------------------------
(***************************************************************************)
(* collect_failed_writer, cleanup_writer, resume_writer_cleanup and the    *)
(* end of the child.                                                       *)
(***************************************************************************)

CollectFailure(w) ==
    LET end == IF life[w].child = "lost" THEN "lost" ELSE "failed"
    IN  /\ pc[w] = "failed"
        /\ Publish(w, "AgentResultCollected", AcceptsResult(life[w], end),
                   [life[w] EXCEPT !.result = end], "plan")
        /\ UNCHANGED <<gitVars, crashes>>

\* Faulty variant: the cleanup runs before its plan is durable.
PlanCleanupLate(w) ==
    /\ pc[w] = "plan"
    /\ CleanupStart(w, InspectCleanup(w, life[w].seal = "committed",
                       /\ life[w].integ = "none" /\ life[w].stage = "started"
                       /\ life[w].seal # "none"))
    /\ Advance(w, "cleaned")
    /\ UNCHANGED crashes

\* writer_cleanup_context: the Seal phase is that of a started child with a
\* prepared seal and no integration.
PlanCleanup(w) ==
    LET l == life[w]
        plan == InspectCleanup(w, l.seal = "committed",
                               l.integ = "none" /\ l.stage = "started" /\ l.seal # "none")
    IN  /\ pc[w] = "plan"
        /\ Publish(w, "AgentCleanupPrepared", AcceptsPlan(l, plan), [l EXCEPT !.plan = plan], "clean")
        /\ UNCHANGED <<gitVars, crashes>>

Clean(w) ==
    /\ pc[w] = "clean"
    /\ CleanupStart(w, life[w].plan)
    /\ Advance(w, "cleaned")
    /\ UNCHANGED crashes

\* The cleanup of an integrated writer is part of finalize, which turns a
\* retained one into the terminal.
CommitCleanup(w) ==
    LET l == [life[w] EXCEPT !.cleanup = op[w].ret]
        closing == life[w].integ = "committed"
    IN  /\ pc[w] = "cleaned" /\ Answered(w)
        /\ life' = [life EXCEPT ![w] = l]
        /\ pc' = [pc EXCEPT ![w] = IF closing THEN "end" ELSE "finish"]
        /\ goal' = [goal EXCEPT ![w] = IF closing /\ op[w].ret = "retained" THEN "cleanup" ELSE @]
        /\ UNCHANGED <<gitVars, halt, refused, crashes>>

\* ChildFinished.  A failed writer lets RecoveryRequired win over the stop of
\* its parent, a completed one lets the stop win.
FinishChild(w) ==
    LET l == [life[w] EXCEPT !.finished = Finished(life[w])]
        own == IF l.finished \in Recoveries THEN l.finished ELSE None
    IN  /\ pc[w] = "finish"
        /\ AcceptsFinish(life[w])
        /\ life' = [life EXCEPT ![w] = l]
        /\ halt' = [halt EXCEPT ![w] = IF @ = None \/ (l.result # "completed" /\ own # None)
                                       THEN own ELSE @]
        /\ pc' = [pc EXCEPT ![w] = "answer"]
        /\ UNCHANGED <<gitVars, goal, refused, crashes>>

-----------------------------------------------------------------------------
(***************************************************************************)
(* The end of the tool call and of the root run.                           *)
(***************************************************************************)

\* The tail of execute_call: the outcome of the agent tool and the root state
\* it settles.
Effect(w) == IF halt[w] # None THEN "indeterminate"
             ELSE IF life[w].finished = "completed" THEN "applied" ELSE "notApplied"

\* Faulty variant: every outcome settles the observed root state.
SettledAlways(w) == Revision

Settled(w) == IF Effect(w) = "notApplied" \/ (halt[w] \in Recoveries /\ Unintegrated(life[w]))
              THEN None ELSE Revision

AnswerTool(w) ==
    LET l == [life[w] EXCEPT !.tool = "done", !.outcome = Effect(w)]
        ok == AcceptsOutcome(life[w], Effect(w), Settled(w))
    IN  /\ pc[w] = "answer"
        /\ life' = IF ok THEN [life EXCEPT ![w] = l] ELSE life
        /\ refused' = IF ok THEN refused
                      ELSE [refused EXCEPT ![w] = @ \cup {"ToolOutcomeCommitted"}]
        /\ goal' = [goal EXCEPT ![w] = IF ~ok THEN "failed" ELSE halt[w]]
        /\ pc' = [pc EXCEPT ![w] = IF ok /\ halt[w] = None THEN "root" ELSE "final"]
        /\ halt' = [halt EXCEPT ![w] = None]
        /\ UNCHANGED <<gitVars, crashes>>

\* The rest of the Agent loop, up to the terminal it wants.
RootEnds(w) ==
    /\ pc[w] = "root"
    /\ \E t \in {"completed", "failed"} \cup (MayStop \ {"timeout"}) :
        /\ goal' = [goal EXCEPT ![w] = t]
        /\ life' = [life EXCEPT ![w] = [life[w] EXCEPT !.control = (t = "cancelled")]]
    /\ pc' = [pc EXCEPT ![w] = "final"]
    /\ UNCHANGED <<gitVars, halt, refused, crashes>>

\* finalize: cleanup_integrated_writers first.
Finalize(w) ==
    /\ pc[w] = "final"
    /\ Advance(w, IF life[w].integ = "committed" /\ life[w].cleanup = "none"
                  THEN IF life[w].plan = None THEN "plan" ELSE "clean"
                  ELSE "end")
    /\ UNCHANGED <<gitVars, crashes>>

\* A refused terminal is reported as terminal_persist_failed, and the run is
\* left without one.
PublishTerminal(w) ==
    /\ pc[w] = "end"
    /\ IF AcceptsTerminal(life[w], goal[w])
       THEN /\ life' = [life EXCEPT ![w] = [life[w] EXCEPT !.terminal = goal[w]]]
            /\ pc' = [pc EXCEPT ![w] = "done"]
            /\ UNCHANGED refused
       ELSE /\ refused' = [refused EXCEPT ![w] = @ \cup {"Terminal"}]
            /\ pc' = [pc EXCEPT ![w] = "down"]
            /\ UNCHANGED life
    /\ goal' = [goal EXCEPT ![w] = None]
    /\ UNCHANGED <<gitVars, halt, crashes>>

-----------------------------------------------------------------------------
(***************************************************************************)
(* Crash and resume.                                                       *)
(***************************************************************************)

Crash(w) ==
    /\ pc[w] \notin {"idle", "down", "done"}
    /\ crashes < MaxCrashes
    /\ crashes' = crashes + 1
    /\ GitCrash(w)
    /\ pc' = [pc EXCEPT ![w] = "down"]
    /\ halt' = [halt EXCEPT ![w] = None]
    /\ goal' = [goal EXCEPT ![w] = None]
    /\ UNCHANGED <<life, refused>>

\* Faulty variant: a planned cleanup counts as executed.
ContinuePastPlan(l) ==
    LET cleaning == IF l.plan = None THEN "plan" ELSE "finish"
    IN  IF l.result = "none"
        THEN IF l.seal = "committed" THEN "result" ELSE IF l.seal = "prepared" THEN "sealing"
             ELSE "bind"
        ELSE IF l.result # "completed" \/ l.integ \in {"conflict", "recovery"} THEN cleaning
        ELSE IF l.integ = "none" THEN "integrate"
        ELSE IF l.integ = "prepared" THEN "begin"
        ELSE IF l.integ = "started" THEN "integrating" ELSE "finish"

\* recover_writer_lifecycle and finish_writer_lifecycle: where a lifecycle
\* that is not finished goes on.
Continue(l) ==
    LET cleaning == IF l.cleanup # "none" THEN "finish" ELSE IF l.plan = None THEN "plan" ELSE "clean"
    IN  IF l.result = "none"
        THEN IF l.seal = "committed" THEN "result" ELSE IF l.seal = "prepared" THEN "sealing"
             ELSE "bind"
        ELSE IF l.result # "completed" \/ l.integ \in {"conflict", "recovery"} THEN cleaning
        ELSE IF l.integ = "none" THEN "integrate"
        ELSE IF l.integ = "prepared" THEN "begin"
        ELSE IF l.integ = "started" THEN "integrating" ELSE "finish"

\* A started tool whose effect is unknown, and a durable cancel, end the run
\* before the lifecycle is looked at.
Resume(w) ==
    LET l == life[w]
        ambiguous == l.tool = "inflight" /\
                     (l.stage = "none" \/ l.finished \notin {"none", "completed"})
        stop == IF ambiguous THEN "tool" ELSE IF l.control THEN "cancelled" ELSE None
    IN  /\ pc[w] = "down"
        /\ goal' = [goal EXCEPT ![w] = stop]
        /\ pc' = [pc EXCEPT ![w] = IF stop # None THEN "final"
                                   ELSE IF l.tool = "done" THEN "root"
                                   ELSE IF l.finished # "none" THEN "answer" ELSE Continue(l)]
        /\ UNCHANGED <<gitVars, life, halt, refused, crashes>>

RuntimeStep(w) ==
    \/ Launch(w) \/ Prepare(w) \/ Bind(w) \/ Bound(w) \/ Create(w) \/ Start(w)
    \/ ChildWrites(w) \/ ChildEnds(w) \/ Join(w) \/ Collect(w)
    \/ PrepareSeal(w) \/ Seal(w) \/ CommitSeal(w) \/ CollectResult(w)
    \/ PrepareIntegration(w) \/ StartIntegration(w) \/ Integrate(w) \/ SettleIntegration(w)
    \/ CollectFailure(w) \/ PlanCleanup(w) \/ Clean(w) \/ CommitCleanup(w) \/ FinishChild(w)
    \/ AnswerTool(w) \/ RootEnds(w) \/ Finalize(w) \/ PublishTerminal(w)
    \/ GitStep(w) /\ UNCHANGED lifeVars

Next ==
    \/ \E w \in Writers : RuntimeStep(w) \/ Resume(w) \/ StopRoot(w) \/ Crash(w)
    \/ UserStep /\ UNCHANGED lifeVars

Spec == Init /\ [][Next]_vars

\* The scheduler runs a worker that can go on; someone resumes a run that has
\* no terminal.  Nothing is assumed of the user, of crashes or of stops.
Fairness == \A w \in Writers : WF_vars(RuntimeStep(w)) /\ WF_vars(Resume(w))

FairSpec == Spec /\ Fairness

-----------------------------------------------------------------------------
(***************************************************************************)
(* Properties.                                                             *)
(***************************************************************************)

\* The shape of the repository, the durable lifecycles and the runtimes.
TypeOK ==
    /\ GitTypeOK
    /\ pc \in [Writers -> PCs]
    /\ halt \in [Writers -> Terminals \cup {None}]
    /\ goal \in [Writers -> Terminals \cup {None}]
    /\ \A w \in Writers : life[w].plan \in Plans \cup {None}
    /\ crashes \in 0..MaxCrashes

\* The sealed commit of w is part of the target branch.
Delivered(w) == base[w] # None /\ IsPrefix(Final(w), root.main)

\* What the parent run was told of w.
Verdict(w) == IF life[w].integ = "committed" THEN "integrated"
              ELSE IF life[w].result \in {"failed", "lost"} THEN "dropped"
              ELSE IF life[w].integ = "conflict" THEN "conflict"
              ELSE IF life[w].integ = "recovery" THEN "unknown" ELSE "open"

Promise == INSTANCE WriterPromise WITH
               line <- root.main, verdict <- [w \in Writers |-> Verdict(w)]

\* Writers implement WriterPromise: the target branch only grows, a writer adds
\* its commit at most once and never after its verdict, although the CAS of the
\* ref, the files and the durable events are separate steps (workspace.rs:1544,
\* agent.rs:2870).
ImplementsPromise == Promise!PromiseSpec

\* While an integration writes the files of the root, the branch stays where
\* the CAS put it: HEAD.lock keeps every commit and switch of the user away
\* (workspace.rs:1564-1600).
HeadStill ==
    \A w \in Writers : op[w].at \in {"intApply", "intValidate"} =>
        /\ root.head = "main" /\ root.main = Final(w)
        /\ headLock = Marker("integration", w)

\* A cleanup reported as removed left neither branch, worktree nor tombstone,
\* nor a HEAD.lock that would block the user (runtime.rs:50-116).
CleanReport ==
    \A w \in Writers : life[w].cleanup = "removed" =>
        /\ ~WorktreePresent(w) /\ ~BranchPresent(w) /\ ~res[w].tomb
        /\ headLock \notin {Marker("cleanup", w), Marker("integration", w)}

\* A writer's branch or worktree is taken away only under a durable plan that
\* names exactly this commit (agent.rs:3205, workspace.rs:1240).
WriteAhead ==
    [][\A w \in Writers :
        (BranchPresent(w) /\ res'[w].branch = None) \/ (res[w].reg /\ ~res'[w].reg) =>
            /\ life[w].plan # None /\ life[w].plan.mode = "remove"
            /\ BranchPresent(w) => res[w].branch = life[w].plan.commit]_vars

\* A checkout of the writer's branch elsewhere that was finished before the
\* cleanup settled still has its branch, unless a crash interrupted the cleanup
\* (workspace.rs:2891; a resumed cleanup does not restore the branch).
ForeignKept ==
    \A w \in Writers : life[w].cleanup # "none" /\ res[w].foreign = "yes" =>
        BranchPresent(w) \/ crashes > 0

\* Nobody but the user changes the user's uncommitted files, whatever step of an
\* integration or a cleanup they meet (workspace.rs:1597).
UserFilesKept ==
    [][root.edited \in {"apart", "overlap"} /\ root'.edited # root.edited => acts' # acts]_vars

\* Files of the root that lag behind the branch are explained: an integration
\* is in flight or was reported as unknown, so that they are recovered or
\* looked at (workspace.rs:1505).  It may be reported as a conflict only after a
\* crash or when another process may take HEAD.lock behind the CAS.
LagExplained ==
    root.head = "main" /\ root.checkout # root.main =>
        \E w \in Writers :
            /\ \/ life[w].integ \in {"started", "recovery"}
               \/ life[w].integ = "conflict" /\ (crashes > 0 \/ "lock" \in UserActs)
            /\ root.main = Final(w)

\* A writer that was started ends: its root run reaches a terminal, whatever
\* step a crash interrupted, and whatever others did to its branch and worktree
\* (agent.rs:2388, agent.rs:3882).  Nothing is claimed once both have happened:
\* a crash after a retained cleanup leaves a run that cannot end.
Settles ==
    \A w \in Writers : [](pc[w] = "prepare" => <>(pc[w] = "done" \/ (crashes > 0 /\ acts > 0)))

\* The runtime never appends an event that the reducer refuses: the order of
\* agent.rs and the checks of store.rs agree, on resumed runs too, as long as
\* nobody else touches the repository and nothing stops the root run (MayStop =
\* {}).  After a cancel or a deadline the reducer does refuse events, and the run of
\* a cancelled writer, where Settles is violated, shows what follows.
NothingRefused == acts = 0 => \A w \in Writers : refused[w] = {}

=============================================================================
