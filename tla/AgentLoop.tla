----------------------------- MODULE AgentLoop ------------------------------
(***************************************************************************)
(* The Agent loop of crates/runtime/src/agent.rs: one worker that drives a *)
(* root run without child agents from its durable snapshot to a terminal   *)
(* outcome, and is restarted from that snapshot after a crash.             *)
(*                                                                         *)
(* A step ends where the worker waits: at an append to the store, at an    *)
(* answer of the model, a tool or the user.  Between two steps the process *)
(* may die, clients may send commands, the deadline may pass and someone   *)
(* else may edit the workspace.  Losing the lease is the subject of        *)
(* RunStore; here one worker at a time holds it.                           *)
(***************************************************************************)
EXTENDS RunReducer, SequencesExt

CONSTANTS
    Commands,     \* steer, stop and resolve commands that clients may send
    Acceptances,  \* ids of the commands that accept a completion
    Good,         \* the revisions on which the task's verifier passes
    CallLists,    \* the tool calls an answer of the model may hold
    Interactive,  \* environment.interactive
    HasDeadline,  \* the run has a wall clock limit
    MayBlind,     \* the workspace revision may be unobservable
    MaxRequests,  \* limits.max_model_requests
    MaxTurns,     \* limits.max_turns
    MaxCalls,     \* limits.max_tool_calls
    MaxCopies,    \* bound: copies of a command a client sends
    MaxCrashes,   \* bound: crashes of the process
    MaxResumes,   \* bound: times the run is resumed
    MaxEdits      \* bound: edits of the workspace by others

ASSUME LoopAssumption ==
    /\ Good \subseteq Revisions
    /\ CallLists \subseteq Seq(CallKinds)
    /\ {Interactive, HasDeadline, MayBlind} \subseteq BOOLEAN
    /\ {MaxRequests, MaxTurns, MaxCalls, MaxCopies, MaxCrashes, MaxResumes,
        MaxEdits} \subseteq Nat

VARIABLES
    snap,         \* the durable snapshot
    w,            \* the worker: its program counter and volatile state
    inbox,        \* its queue of control commands
    world,        \* the revision the workspace really has
    late,         \* the deadline has passed
    env,          \* crashes, resumes, edits and copies sent so far; blind: an
                  \* observation of the workspace may fail
    did,          \* how often each request, tool call and verification began
    acked,        \* commands acknowledged as accepted, in order
    refused       \* types of the events the store refused

vars == <<snap, w, inbox, world, late, env, did, acked, refused>>

PCs == {"boot", "bootDrain", "loop", "edge", "turn", "prepare", "compacted", "backoff", "send",
        "stream", "act", "sync", "propose", "call", "gate", "authorized", "ask", "wait",
        "recheck", "start", "running", "settle", "flush", "review", "judge", "verify",
        "checking", "sealing", "reject", "close", "decide", "final", "down", "done"}

Goals == Terminals \cup {"Awaiting"}

NoDecision == [candidate |-> None, ws |-> None, proof |-> None, consent |-> None]

\* live: the model port is the real one, not ReplayOnlyModelPort.  spare: the
\* permit reserved for the terminal request.  replay: recovery_output is set.
\* after: terminal_after_result.
Worker(pc, live, spare, replay) ==
    [pc |-> pc, live |-> live, spare |-> spare, replay |-> replay, goal |-> None,
     outcome |-> None, after |-> None, wrote |-> FALSE, verdict |-> None,
     decision |-> NoDecision]

-----------------------------------------------------------------------------
(* Helpers *)

Go(pc) == [w EXCEPT !.pc = pc]

\* run_until_terminal returns the state `goal'.
End(goal) == [w EXCEPT !.pc = "final", !.goal = goal, !.outcome = None, !.after = None]

\* A tool call ends with outcome [op, effect]; `after' is the terminal state
\* the run takes once the outcome is committed, if any.
Outcome(op, effect, after) ==
    [w EXCEPT !.pc = "settle", !.outcome = [op |-> op, effect |-> effect], !.after = after]

Rejected == Outcome("Rejected", "NotApplied", None)

\* publish: the worker continues as v if the store takes the event, as err if
\* the reducer refuses it.
PublishOr(type, fits, s, v, err) ==
    IF Open(snap, type) /\ fits
    THEN snap' = s /\ w' = v /\ UNCHANGED refused
    ELSE snap' = snap /\ w' = err /\ refused' = refused \cup {type}

Publish(type, fits, s, v) == PublishOr(type, fits, s, v, End("Failed"))

\* observe_workspace_revision
Observed == {world} \cup (IF env.blind THEN {Unknown} ELSE {})

\* reconcile_workspace, then v.
Reconcile(v, err) ==
    \E rev \in Observed :
        LET ws == NextWorkspace(snap, rev, FALSE)
        IN  IF ws = snap.ws
            THEN w' = v /\ UNCHANGED <<snap, refused>>
            ELSE PublishOr("WorkspaceObserved", WorkspaceObservedFits(snap, ws),
                           WorkspaceObserved(snap, ws), v, err)

\* RuntimeBudget: requests granted, the spare permit included.
Granted == snap.requests + (IF w.spare THEN 1 ELSE 0)

HasUnreserved == Granted < MaxRequests

\* Faulty variant: the generation that the verification itself took counts as a
\* change of the workspace.
ConsentForExactState == snap.candidate \in snap.consents /\ snap.candidate.ws = snap.ws

\* current_host_acceptance with host_verifier_advanced_same_revision.
CurrentConsent ==
    /\ snap.candidate \in snap.consents
    /\ \/ snap.candidate.ws = snap.ws
       \/ /\ "Verifier" \in Contract
          /\ snap.candidate.ws.gen + 1 = snap.ws.gen
          /\ snap.candidate.ws.rev = snap.ws.rev
          /\ snap.ws \in snap.proofs

Count(f, i) == [f EXCEPT ![i] = @ + 1]

at(pc) == w.pc = pc

env_same == UNCHANGED <<inbox, world, late, env>>

quiet == env_same /\ UNCHANGED <<did, acked>>

-----------------------------------------------------------------------------
(* Restart: the first part of run_until_terminal *)

\* Faulty variant: a verification that was running may run again.
AmbiguousEffect ==
    \/ snap.model.st = "InFlight"
    \/ snap.tool.st = "InFlight"

\* recovery_ambiguity: a physical effect began and its result is not known.
Ambiguous ==
    \/ snap.model.st = "InFlight"
    \/ snap.tool.st = "InFlight"
    \/ snap.check.st = "InFlight"

\* A candidate whose failed verification is committed and its rejection is not.
RejectionMissing ==
    snap.failure # None /\ snap.failure.turn = snap.candidate.turn

\* CompletionRejected has consumed the response that would be replayed.
ResponseRejected ==
    /\ snap.model.st = "None"
    /\ w.replay
    /\ snap.rejection # None
    /\ snap.rejection.turn = snap.turns

\* The worker goes on after a rejection, or the run is blocked.
AfterRejection(change) ==
    IF change /\ HasUnreserved THEN [Go("loop") EXCEPT !.replay = FALSE] ELSE End("Blocked")

Recover ==
    /\ at("boot")
    /\ w' = IF Ambiguous THEN End("RecoveryRequired")
            ELSE IF snap.control # None THEN End(TerminalFor(snap.control))
            ELSE IF snap.stopped THEN End("Failed")
            ELSE IF snap.candidate # None
                 THEN IF RejectionMissing THEN Go("reject")
                      ELSE IF "Host" \in Contract /\ ~CurrentConsent THEN Go("bootDrain")
                      ELSE Go("review")
            ELSE IF ResponseRejected THEN AfterRejection(snap.rejection.change)
            ELSE Go("loop")
    /\ quiet /\ UNCHANGED <<snap, refused>>

\* The queued commands are handled; without an acceptance the run waits on.
RecoveredControls ==
    /\ at("bootDrain") /\ inbox = <<>>
    /\ w' = IF CurrentConsent THEN Go("review") ELSE End("Awaiting")
    /\ quiet /\ UNCHANGED <<snap, refused>>

-----------------------------------------------------------------------------
(* The head of the loop *)

\* safe_fresh_boundary
SafeBoundary ==
    /\ ~w.replay
    /\ snap.model.st = "None" /\ snap.tool.st = "None"
    /\ snap.candidate = None /\ snap.check.st = "None"

ControlsDrained ==
    /\ at("loop") /\ inbox = <<>>
    /\ w' = IF late THEN End("Failed") ELSE Go("edge")
    /\ quiet /\ UNCHANGED <<snap, refused>>

\* flush_pending_steers at the boundary, after the tool calls of an answer, or
\* in place of a completion.
ApplySteer ==
    /\ \/ at("edge") /\ SafeBoundary
       \/ at("flush")
    /\ snap.steers # <<>>
    /\ Publish("SteerApplied", SteerAppliedFits(snap), SteerApplied(snap), w)
    /\ quiet

ReconcileAtBoundary ==
    /\ at("edge")
    /\ IF ~SafeBoundary
       THEN w' = Go("turn") /\ UNCHANGED <<snap, refused>>
       ELSE snap.steers = <<>> /\ Reconcile(Go("turn"), End("Failed"))
    /\ quiet

SteersFlushed ==
    /\ at("flush") /\ snap.steers = <<>>
    /\ w' = Go("loop")
    /\ quiet /\ UNCHANGED <<snap, refused>>

-----------------------------------------------------------------------------
(* model_turn and execute_model_attempt *)

\* Faulty variant: recovery_output is read and not taken.
ReplayAgain == Go("act")

ReplayAnswer == [Go("act") EXCEPT !.replay = FALSE]

BeginTurn ==
    /\ at("turn")
    /\ w' = IF w.replay THEN ReplayAnswer
            ELSE IF snap.model.st # "None"
                 THEN Go(IF snap.model.tries > 0 THEN "backoff" ELSE "send")
            ELSE Go("prepare")
    /\ quiet /\ UNCHANGED <<snap, refused>>

\* The last turn, and the last request of the budget, offer no tools.
TerminalTurn == snap.turns + 1 >= MaxTurns \/ ~HasUnreserved

CompactContext ==
    /\ at("prepare")
    /\ Publish("ContextCompactionCommitted", ContextCompactionCommittedFits(snap), snap,
               Go("compacted"))
    /\ quiet

\* The context exceeds the hard limit, compacted or not.
ContextLimitExceeded ==
    /\ w.pc \in {"prepare", "compacted"}
    /\ w' = End("Failed")
    /\ quiet /\ UNCHANGED <<snap, refused>>

PrepareModelRequest ==
    /\ w.pc \in {"prepare", "compacted"}
    /\ IF TerminalTurn /\ ~w.spare
       THEN w' = End("Failed") /\ UNCHANGED <<snap, refused>>
       ELSE Publish("ModelRequestPrepared", ModelRequestPreparedFits(snap),
                    ModelRequestPrepared(snap, ~TerminalTurn),
                    [Go("send") EXCEPT !.spare = @ /\ ~TerminalTurn])
    /\ quiet

RetryDelayOver ==
    /\ at("backoff")
    /\ w' = Go("send")
    /\ quiet /\ UNCHANGED <<snap, refused>>

\* The request goes out after the store knows that it may have gone out.
SendModelRequest ==
    /\ at("send")
    /\ Publish("ModelRequestInFlight", ModelRequestInFlightFits(snap), ModelRequestInFlight(snap),
               Go("stream"))
    /\ did' = IF w'.pc = "stream" /\ w.live
              THEN [did EXCEPT !.sent = Count(@, snap.requests)] ELSE did
    /\ env_same /\ UNCHANGED acked

\* The stream ends with a complete answer: final text, tool calls, or something
\* the loop does not accept.
Answer ==
    \E kind \in {"Stop", "Blank", "Calls", "Invalid"}, calls \in CallLists \cup {<<>>} :
        /\ at("stream") /\ w.live
        /\ kind = "Calls" <=> calls # <<>>
        /\ Publish("ModelResponseCommitted", ModelResponseCommittedFits(snap),
                   ModelResponseCommitted(snap, kind, calls), Go("act"))
        /\ quiet

\* The streamed deltas do not add up to the answer.
AnswerDiffers ==
    /\ at("stream") /\ w.live
    /\ w' = End("Failed")
    /\ quiet /\ UNCHANGED <<snap, refused>>

\* Faulty variant: a retry needs no permit.
RetriesFreely(f) == ~MustStop(snap, f)

\* plan_model_failure
Retries(f) == ~MustStop(snap, f) /\ HasUnreserved

\* The attempt fails: an error, a broken or silent stream, or the refusal of
\* ReplayOnlyModelPort.
AttemptFails ==
    \E f \in [code : Codes, retryable : BOOLEAN] :
        /\ at("stream")
        /\ ~w.live => ~f.retryable
        /\ Publish("ModelRequestFailed", ModelRequestFailedFits(snap, f, Retries(f)),
                   ModelRequestFailed(snap, f, Retries(f)),
                   IF Retries(f) THEN Go("backoff") ELSE End("Failed"))
        /\ quiet

-----------------------------------------------------------------------------
(* The answer *)

ActOnAnswer ==
    /\ at("act")
    /\ w' = CASE snap.output.kind = "Invalid" -> End("Failed")
              [] snap.output.kind = "Calls" ->
                    IF snap.output.offered THEN Go("call") ELSE End("Failed")
              [] snap.output.kind \in {"Stop", "Blank"} ->
                    IF snap.steers # <<>> THEN Go("flush")
                    ELSE IF snap.output.kind = "Blank" THEN End("Failed") ELSE Go("sync")
    /\ quiet /\ UNCHANGED <<snap, refused>>

ReconcileBeforeProposal ==
    /\ at("sync")
    /\ Reconcile(Go("propose"), End("Failed"))
    /\ quiet

ProposeCompletion ==
    /\ at("propose")
    /\ LET cand == [turn |-> snap.turns, ws |-> snap.ws]
       IN  Publish("CompletionProposed", CompletionProposedFits(snap, cand),
                   CompletionProposed(snap, cand),
                   IF "Host" \in Contract THEN End("Awaiting") ELSE Go("review"))
    /\ quiet

-----------------------------------------------------------------------------
(* execute_call, for each call of the answer in turn *)

\* Faulty variant: one call more than the limit.
CallsOverspent == snap.calls > MaxCalls

CallsSpent == snap.calls >= MaxCalls

NextCall ==
    /\ at("call")
    /\ IF snap.settled = Len(snap.output.calls)
       THEN w' = Go("flush") /\ UNCHANGED <<snap, refused>>
       ELSE IF snap.tool.st # "None"
       THEN w' = Go("gate") /\ UNCHANGED <<snap, refused>>
       ELSE IF CallsSpent
       THEN w' = End("Failed") /\ UNCHANGED <<snap, refused>>
       ELSE Publish("ToolPrepared", ToolPreparedFits(snap), ToolPrepared(snap), Go("gate"))
    /\ quiet

\* The policy, the arguments, the actor's authority, the tool's preflight or
\* the authorization itself turn the call down.
RejectCall ==
    /\ at("gate")
    /\ snap.tool.st = "Prepared" /\ snap.tool.auth = "None" /\ snap.tool.talk = "None"
    /\ w' = Rejected
    /\ quiet /\ UNCHANGED <<snap, refused>>

\* A committed decision is used again after a restart.
Authorize ==
    /\ at("gate") /\ Executable(snap.tool.kind)
    /\ IF snap.tool.auth # "None"
       THEN w' = Go("authorized") /\ UNCHANGED <<snap, refused>>
       ELSE \E disposition \in {"Allow", "Ask", "Deny"} :
               Publish("ToolAuthorizationCommitted", ToolAuthorizationCommittedFits(snap),
                       ToolAuthorizationCommitted(snap, disposition), Go("authorized"))
    /\ quiet

ActOnAuthorization ==
    /\ at("authorized")
    /\ w' = IF snap.tool.auth = "Allow" THEN Go("recheck")
            ELSE IF snap.tool.auth = "Ask" /\ Interactive THEN Go("ask")
            ELSE Rejected
    /\ quiet /\ UNCHANGED <<snap, refused>>

\* request_user_input
AskQuestion ==
    /\ at("gate") /\ ~Executable(snap.tool.kind)
    /\ w' = IF Interactive THEN Go("ask") ELSE Rejected
    /\ quiet /\ UNCHANGED <<snap, refused>>

\* The worker after the user's answer a.
Replied(a) ==
    IF Executable(snap.tool.kind)
    THEN IF a = "Approved" THEN Go("recheck") ELSE Rejected
    ELSE IF a = "Answered" THEN Outcome("Finished", "NotApplied", None) ELSE Rejected

\* wait_for_interaction: an interaction of before the restart is taken up.
RequestInteraction ==
    /\ at("ask")
    /\ IF snap.tool.talk = "None"
       THEN Publish("InteractionRequested", InteractionRequestedFits(snap),
                    InteractionRequested(snap), Go("wait"))
       ELSE /\ w' = IF snap.tool.talk = "Open" THEN Go("wait") ELSE Replied(snap.tool.talk)
            /\ UNCHANGED <<snap, refused>>
    /\ quiet

\* The authorized revision is observed again before the tool may start.
RecheckRevision ==
    /\ at("recheck")
    /\ \E rev \in Observed :
          w' = IF snap.tool.st = "Prepared" /\ snap.tool.seen # Unknown /\ rev # snap.tool.seen
               THEN Outcome("Stale", "NotApplied", None)
               ELSE Go("start")
    /\ quiet /\ UNCHANGED <<snap, refused>>

\* The tool runs after the store knows that it may have run.
StartTool ==
    /\ at("start")
    /\ LET running == [Go("running") EXCEPT !.wrote = FALSE]
       IN  IF snap.tool.st = "InFlight"
           THEN w' = running /\ UNCHANGED <<snap, refused>>
           ELSE Publish("ToolExecutionStarted", ToolExecutionStartedFits(snap),
                        ToolExecutionStarted(snap), running)
    /\ did' = IF w'.pc = "running" THEN [did EXCEPT !.ran = Count(@, snap.calls)] ELSE did
    /\ env_same /\ UNCHANGED acked

ToolWrites ==
    /\ at("running") /\ MayWrite(snap.tool.kind)
    /\ world' \in Revisions
    /\ w' = [w EXCEPT !.wrote = TRUE]
    /\ UNCHANGED <<snap, inbox, late, env, did, acked, refused>>

\* Tools and transports report what they know of their side effect.
ToolReturns ==
    /\ at("running")
    /\ \E effect \in IF MayWrite(snap.tool.kind)
                    THEN {"Applied", "Indeterminate"} \cup (IF w.wrote THEN {} ELSE {"NotApplied"})
                    ELSE {"NotApplicable"} :
          w' = Outcome("Finished", effect, None)
    /\ quiet /\ UNCHANGED <<snap, refused>>

\* An outcome of a write that ran carries the observed workspace state.
CommitOutcome ==
    /\ at("settle")
    /\ \E rev \in Observed :
          LET ws == IF MayWrite(snap.tool.kind) /\ snap.tool.st = "InFlight"
                    THEN NextWorkspace(snap, rev, TRUE) ELSE None
          IN  Publish("ToolOutcomeCommitted", ToolOutcomeCommittedFits(snap, w.outcome, ws),
                      ToolOutcomeCommitted(snap, ws),
                      IF w.after # None THEN End(w.after)
                      ELSE [Go("call") EXCEPT !.outcome = None, !.wrote = FALSE])
    /\ quiet

-----------------------------------------------------------------------------
(* handle_control *)

\* The places where the worker takes commands from its queue.
Listening == {"bootDrain", "loop", "backoff", "stream", "wait", "running"}

\* Faulty variant: a call that waits for the user is settled as rejected.
RejectedByEnd(after) == Outcome("Rejected", "NotApplied", after)

\* The outcome of a call that the end of the run cuts off.
CutOff(after) ==
    IF at("running")
    THEN Outcome("Cancelled", IF MayWrite(snap.tool.kind) THEN "Indeterminate"
                              ELSE "NotApplicable", after)
    ELSE IF Executable(snap.tool.kind) THEN Outcome("NeverRun", "NotApplied", after)
    ELSE Outcome("Cancelled", "Indeterminate", after)

\* The worker after ControlEffect::Terminal.
StopAs(goal) == IF w.pc \in {"wait", "running"} THEN CutOff(goal) ELSE End(goal)

\* The worker after ControlEffect::InteractionResolved.
ReplyAs(a) == IF at("wait") THEN Replied(a) ELSE w

Acknowledge(c) == acked' = IF snap' # snap THEN Append(acked, c) ELSE acked

\* The command id has a receipt: the same command is acknowledged again, a
\* different one is turned down.
HandleRepeated(c) ==
    /\ Committed(snap, c)
    /\ w' = IF c \notin snap.receipts THEN w
            ELSE IF c.kind \in Stops THEN StopAs(TerminalFor(c.kind))
            ELSE IF c.kind = "Resolve" THEN ReplyAs(c.answer)
            ELSE w
    /\ UNCHANGED <<snap, refused, acked>>

HandleSteer(c) ==
    /\ c.kind = "Steer" /\ ~Committed(snap, c)
    /\ Publish("SteerQueued", SteerQueuedFits(snap, c), SteerQueued(snap, c), w)
    /\ Acknowledge(c)

HandleStop(c) ==
    /\ c.kind \in Stops /\ ~Committed(snap, c)
    /\ IF snap.control # None
       THEN w' = StopAs(TerminalFor(snap.control)) /\ UNCHANGED <<snap, refused>>
       ELSE Publish("ControlRequested", ControlRequestedFits(snap, c), ControlRequested(snap, c),
                    StopAs(TerminalFor(c.kind)))
    /\ Acknowledge(c)

\* An answer for another interaction, or of the wrong type, changes nothing.
HandleResolve(c) ==
    /\ c.kind = "Resolve" /\ ~Committed(snap, c)
    /\ IF snap.tool.talk = "Open" /\ c.call = snap.calls /\ c.answer \in Answers(snap.tool.kind)
       THEN Publish("InteractionResolved", InteractionResolvedFits(snap, c),
                    InteractionResolved(snap, c), ReplyAs(c.answer))
       ELSE UNCHANGED <<w, snap, refused>>
    /\ Acknowledge(c)

\* The workspace is observed; a changed one makes the acceptance stale.
HandleAccept(c) ==
    /\ c.kind = "Accept" /\ ~Committed(snap, c)
    /\ IF snap.candidate = None \/ c.candidate.turn # snap.candidate.turn \/ "Host" \notin Contract
       THEN UNCHANGED <<w, snap, refused, acked>>
       ELSE \E rev \in Observed :
              LET ws == NextWorkspace(snap, rev, FALSE)
              IN  IF ws # snap.ws
                  THEN /\ Publish("WorkspaceObserved", WorkspaceObservedFits(snap, ws),
                                  WorkspaceObserved(snap, ws), w)
                       /\ UNCHANGED acked
                  ELSE IF c.candidate # snap.candidate \/ c.candidate.ws # snap.ws
                  THEN UNCHANGED <<w, snap, refused, acked>>
                  ELSE /\ Publish("HostCompletionAccepted", HostCompletionAcceptedFits(snap, c),
                                  HostCompletionAccepted(snap, c), w)
                       /\ Acknowledge(c)

HandleControl ==
    /\ w.pc \in Listening /\ inbox # <<>>
    /\ inbox' = Tail(inbox)
    /\ LET c == Head(inbox)
       IN  HandleRepeated(c) \/ HandleSteer(c) \/ HandleStop(c) \/ HandleResolve(c) \/ HandleAccept(c)
    /\ UNCHANGED <<world, late, env, did>>

\* Faulty variant: nothing but the user ends the wait for an answer.
Timed == {"backoff", "stream", "running"}

\* The waits that also watch the clock.
WatchesClock == {"backoff", "stream", "wait", "running"}

\* timeout_terminal; the loop looks at the deadline in ControlsDrained.
DeadlineExpires ==
    /\ late /\ w.pc \in WatchesClock
    /\ w' = StopAs("Failed")
    /\ quiet /\ UNCHANGED <<snap, refused>>

-----------------------------------------------------------------------------
(* accept_completion_candidate and run_host_verifier; no command is taken here *)

Blocked == End("Blocked")

ReconcileForReview ==
    /\ at("review")
    /\ Reconcile(Go("judge"), Blocked)
    /\ quiet

\* The receipts of the decision: the current acceptance of the host, and the
\* evidence for the current workspace if there is some.
Judge ==
    /\ at("judge")
    /\ LET repeated == /\ snap.failure # None
                       /\ snap.failure.change
                       /\ snap.failure.ws.rev = snap.ws.rev
           rejected == snap.rejection # None /\ snap.rejection.turn = snap.candidate.turn
           decision == [NoDecision EXCEPT
                          !.candidate = snap.candidate,
                          !.consent = IF CurrentConsent THEN snap.candidate ELSE None,
                          !.proof = IF snap.ws \in snap.proofs THEN snap.ws ELSE None]
       IN  w' = IF rejected \/ repeated \/ ("Host" \in Contract /\ ~CurrentConsent) THEN Blocked
                ELSE [w EXCEPT !.decision = decision,
                               !.pc = IF "Verifier" \in Contract /\ decision.proof = None
                                      THEN "verify" ELSE "close"]
    /\ quiet /\ UNCHANGED <<snap, refused>>

PrepareVerification ==
    /\ at("verify") /\ snap.check.st = "None"
    /\ PublishOr("HostVerificationPrepared", HostVerificationPreparedFits(snap),
                 HostVerificationPrepared(snap), w, Blocked)
    /\ quiet

\* The pending verification is for the workspace as it is now.
CheckIsCurrent == snap.check.ws = snap.ws

\* The verifier runs after the store knows that it may have run.
StartVerification ==
    /\ at("verify") /\ snap.check.st # "None"
    /\ IF ~CheckIsCurrent
       THEN w' = Blocked /\ UNCHANGED <<snap, refused>>
       ELSE IF snap.check.st = "InFlight"
       THEN w' = Go("checking") /\ UNCHANGED <<snap, refused>>
       ELSE PublishOr("HostVerificationStarted", HostVerificationStartedFits(snap),
                      HostVerificationStarted(snap), Go("checking"), Blocked)
    /\ did' = IF w'.pc = "checking"
              THEN [did EXCEPT !.verified = Count(@, snap.candidate.turn)] ELSE did
    /\ env_same /\ UNCHANGED acked

\* The verifier judges the workspace it finds, or breaks down.
VerifierReturns ==
    /\ at("checking")
    /\ \E verdict \in {IF world \in Good THEN "Passed" ELSE "Failed", "Broken"} :
          w' = [Go("sealing") EXCEPT !.verdict = [verdict |-> verdict, rev |-> world]]
    /\ quiet /\ UNCHANGED <<snap, refused>>

CommitVerification ==
    /\ at("sealing")
    /\ \E rev \in Observed :
          LET after == NextWorkspace(snap, rev, TRUE)
              done  == [w EXCEPT !.verdict = None]
          IN  PublishOr("HostVerificationCommitted", HostVerificationCommittedFits(snap, after),
                        HostVerificationCommitted(snap, w.verdict, after),
                        IF Seals(snap, w.verdict, after)
                        THEN [done EXCEPT !.pc = "close", !.decision.proof = after]
                        ELSE [done EXCEPT !.pc = "reject", !.decision = NoDecision],
                        Blocked)
    /\ quiet

RejectCompletion ==
    /\ at("reject")
    /\ PublishOr("CompletionRejected", CompletionRejectedFits(snap), CompletionRejected(snap),
                 AfterRejection(snap.failure.change), Blocked)
    /\ quiet

ReconcileAfterVerification ==
    /\ at("close")
    /\ IF "Verifier" \in Contract
       THEN Reconcile(Go("decide"), Blocked)
       ELSE w' = Go("decide") /\ UNCHANGED <<snap, refused>>
    /\ quiet

\* The evidence is not compared with the workspace again: the reducer does that.
Decide ==
    /\ at("decide")
    /\ w' = IF "Host" \in Contract /\ w.decision.consent.ws.rev # snap.ws.rev THEN Blocked
            ELSE [End("Completed") EXCEPT !.decision.ws = snap.ws]
    /\ quiet /\ UNCHANGED <<snap, refused>>

-----------------------------------------------------------------------------
(* finalize *)

Down == Worker("down", TRUE, FALSE, FALSE)

\* A run that waits for the host keeps its log open and gives up the lease.
AwaitHost ==
    /\ at("final") /\ w.goal = "Awaiting"
    /\ w' = Down
    /\ inbox' = <<>>
    /\ UNCHANGED <<snap, world, late, env, did, acked, refused>>

\* A spent request budget may replace a completion.  If the store refuses the
\* terminal event the lease is released and the run can be resumed.
PublishTerminal ==
    /\ at("final") /\ w.goal # "Awaiting"
    /\ \E outcome \in {w.goal} \cup (IF w.goal = "Completed" THEN {"Failed"} ELSE {}) :
          PublishOr("Terminal", TerminalFits(snap, outcome, w.decision), Terminal(snap, outcome),
                    [Down EXCEPT !.pc = "done"], Down)
    /\ inbox' = <<>>
    /\ UNCHANGED <<world, late, env, did, acked>>

-----------------------------------------------------------------------------
(* Clients, the host and the rest of the world *)

Active == w.pc \notin {"down", "done"}

\* AgentApplication::control: a command goes to the active worker unless the
\* store has its receipt.  A client answers the interaction it sees.
Send ==
    \E c \in Commands :
        /\ Active /\ snap.terminal = None
        /\ ~Committed(snap, c)
        /\ env.copies[c] < MaxCopies
        /\ c.kind = "Resolve" => c.call = snap.calls /\ snap.tool.talk # "None"
        /\ inbox' = Append(inbox, c)
        /\ env' = [env EXCEPT !.copies = Count(@, c)]
        /\ UNCHANGED <<snap, w, world, late, did, acked, refused>>

\* resume_needs_live_model
NeedsLiveModel ==
    /\ snap.terminal = None /\ ~snap.stopped
    /\ IF snap.candidate # None
       THEN RejectionMissing /\ snap.failure.change
       ELSE snap.model.st # "InFlight" /\ snap.tool.st # "InFlight"

\* The terminal request is in the log already.
TerminalRequestAdmitted ==
    \/ snap.model.st # "None" /\ ~snap.model.offered
    \/ snap.current /\ ~snap.output.offered

\* run_launch of a resumed run, with the commands queued before it starts.
Launch(queue) ==
    /\ at("down") /\ snap.terminal = None /\ env.resumes < MaxResumes
    /\ w' = Worker("boot", NeedsLiveModel,
                   ~TerminalRequestAdmitted /\ snap.requests < MaxRequests, snap.current)
    /\ inbox' = queue
    /\ env' = [env EXCEPT !.resumes = @ + 1]
    /\ UNCHANGED <<snap, world, late, did, acked, refused>>

Resume == Launch(<<>>)

\* AgentApplication::accept_completion resumes the run with the command.
AcceptCompletion ==
    \E id \in Acceptances :
        LET c == [id |-> id, kind |-> "Accept", candidate |-> snap.candidate]
        IN  /\ snap.candidate # None
            /\ ~Committed(snap, c)
            /\ Launch(<<c>>)

Crash ==
    /\ Active /\ env.crashes < MaxCrashes
    /\ w' = Down
    /\ inbox' = <<>>
    /\ env' = [env EXCEPT !.crashes = @ + 1]
    /\ UNCHANGED <<snap, world, late, did, acked, refused>>

Edit ==
    /\ snap.terminal = None /\ env.edits < MaxEdits
    /\ world' \in Revisions \ {world}
    /\ env' = [env EXCEPT !.edits = @ + 1]
    /\ UNCHANGED <<snap, w, inbox, late, did, acked, refused>>

DeadlinePasses ==
    /\ HasDeadline /\ ~late /\ snap.terminal = None
    /\ late' = TRUE
    /\ UNCHANGED <<snap, w, inbox, world, env, did, acked, refused>>

-----------------------------------------------------------------------------
(* Specification *)

Init ==
    /\ world \in Revisions
    /\ snap = NewSnapshot([gen |-> 0, rev |-> world])
    /\ w = Worker("loop", TRUE, 0 < MaxRequests, FALSE)
    /\ inbox = <<>>
    /\ late = FALSE
    /\ env \in [crashes: {0}, resumes: {0}, edits: {0}, copies: [Commands -> {0}],
               blind: {FALSE, MayBlind}]
    /\ did = [sent |-> [i \in 1..MaxRequests |-> 0], ran |-> [i \in 1..MaxCalls |-> 0],
              verified |-> [i \in 1..MaxRequests |-> 0]]
    /\ acked = <<>>
    /\ refused = {}

\* Steps the worker takes without waiting for anybody.
Proceed ==
    \/ Recover \/ RecoveredControls
    \/ ControlsDrained \/ ApplySteer \/ ReconcileAtBoundary \/ SteersFlushed
    \/ BeginTurn \/ CompactContext \/ ContextLimitExceeded \/ PrepareModelRequest
    \/ SendModelRequest \/ ActOnAnswer \/ ReconcileBeforeProposal \/ ProposeCompletion
    \/ NextCall \/ RejectCall \/ Authorize \/ ActOnAuthorization \/ AskQuestion
    \/ RequestInteraction \/ RecheckRevision \/ StartTool \/ CommitOutcome
    \/ ReconcileForReview \/ Judge \/ PrepareVerification \/ StartVerification
    \/ CommitVerification \/ RejectCompletion \/ ReconcileAfterVerification \/ Decide
    \/ AwaitHost \/ PublishTerminal
    \/ HandleControl \/ DeadlineExpires

\* What the worker waits for: the model, the tool, the verifier, the clock.
Attempt == Answer \/ AnswerDiffers \/ AttemptFails

Next ==
    \/ Proceed \/ Attempt \/ RetryDelayOver \/ ToolWrites \/ ToolReturns \/ VerifierReturns
    \/ Send \/ Resume \/ AcceptCompletion \/ Crash \/ Edit \/ DeadlinePasses

Spec == Init /\ [][Next]_vars

\* The worker's own steps are code that runs; a verifier has a time limit
\* (VERIFIER_GATE_TIMEOUT_MS).
Fairness == WF_vars(Proceed) /\ WF_vars(VerifierReturns)

FairSpec == Spec /\ Fairness

\* The model and the tools answer in the end, with an error if need be; only
\* the user may never answer.
Answering == WF_vars(Attempt) /\ WF_vars(RetryDelayOver) /\ WF_vars(ToolReturns)

-----------------------------------------------------------------------------
(* Properties *)

IsCandidate(x) == x.turn \in 1..MaxRequests /\ x.ws \in Workspace

\* The snapshot and the worker have the shape their structs give them, and the
\* requests and the calls stay within the limits of the run.  The turns do not:
\* a restart after a steer that replaces the final answer reserves another
\* terminal request, which is one turn more than max_turns.
TypeOK ==
    /\ snap.turns \in 0..snap.requests /\ snap.requests \in 0..MaxRequests
    /\ snap.calls \in 0..MaxCalls
    /\ snap.model.st \in {"None", "Prepared", "InFlight"} /\ snap.model.tries \in 0..MaxRetries
    /\ snap.model.primary \in Codes \cup {None}
    /\ {snap.stopped, snap.current, snap.model.offered, snap.output.offered} \subseteq BOOLEAN
    /\ snap.output.kind \in {"None", "Stop", "Blank", "Calls", "Invalid"}
    /\ snap.output.calls \in Seq(CallKinds) /\ snap.settled \in 0..Len(snap.output.calls)
    /\ snap.tool \in [st : {"None", "Prepared", "InFlight"}, kind : CallKinds,
                      auth : {"None", "Allow", "Ask", "Deny"}, seen : Revisions \cup {Unknown},
                      talk : {"None", "Open", "Approved", "Denied", "Answered", "Dismissed"}]
    /\ snap.ws \in Workspace
    /\ snap.check \in [st : {"None", "Prepared", "InFlight"}, ws : Workspace]
    /\ snap.candidate # None => IsCandidate(snap.candidate)
    /\ \A x \in snap.consents : IsCandidate(x)
    /\ snap.proofs \subseteq Workspace
    /\ snap.terminal \in Terminals \cup {None} /\ snap.control \in Stops \cup {None}
    /\ w.pc \in PCs /\ w.goal \in Goals \cup {None} /\ w.after \in Terminals \cup {None}
    /\ {w.live, w.spare, w.replay, w.wrote, late} \subseteq BOOLEAN
    /\ world \in Revisions

\* However often the process dies and is restarted, a model request goes out,
\* a tool runs and a verifier runs at most once: recovery_ambiguity sends a
\* restarted run to RecoveryRequired when an effect may have happened.
AtMostOnce ==
    /\ \A i \in DOMAIN did.sent : did.sent[i] <= 1
    /\ \A i \in DOMAIN did.ran : did.ran[i] <= 1
    /\ \A i \in DOMAIN did.verified : did.verified[i] <= 1

\* The loop and the reducer agree: as long as nobody else edits the workspace,
\* its revision can be observed and clients do not send a command twice, the
\* loop never publishes an event that apply_event refuses.  Interference from
\* outside shows only at the events that carry or compare a revision.
LoopFitsReducer ==
    /\ env.edits = 0 /\ ~env.blind /\ (\A c \in Commands : env.copies[c] <= 1) => refused = {}
    /\ (\A c \in Commands : env.copies[c] <= 1)
          => refused \subseteq {"ToolOutcomeCommitted", "HostVerificationPrepared", "Terminal"}

\* A completed run really meets its contract: the verifier passes on the
\* revision the run ended with, and the host accepted the final answer for
\* exactly that revision.
CompletedIsProven ==
    snap.terminal = "Completed" =>
        /\ "Verifier" \in Contract => snap.ws.rev \in Good
        /\ "Host" \in Contract =>
              \E k \in DOMAIN acked :
                 /\ acked[k].kind = "Accept"
                 /\ acked[k].candidate.turn = snap.turns
                 /\ acked[k].candidate.ws.rev = snap.ws.rev

\* The host is asked once: a run whose completion was accepted never goes back
\* to waiting for an acceptance, whatever crashes between the acceptance, the
\* verification and the outcome.
AcceptanceSticks ==
    at("final") /\ w.goal = "Awaiting" /\ env.edits = 0 /\ ~env.blind
        => \A k \in DOMAIN acked :
              acked[k].kind = "Accept" => acked[k].candidate # snap.candidate

\* An acknowledged interrupt or cancel decides the outcome of the run, crashes
\* included; only an effect of unknown result overrides it.
StopWins ==
    \A k \in DOMAIN acked :
        acked[k].kind \in Stops =>
            snap.terminal \in {None, TerminalFor(acked[k].kind), "RecoveryRequired"}

\* A tool starts only if its authorization allows it or the user was asked and
\* approved this very call; answers to other calls do not count.
NoUnapprovedRun ==
    [][did'.ran # did.ran =>
         \/ snap.tool.auth = "Allow"
         \/ /\ snap.tool.auth = "Ask"
            /\ \E k \in DOMAIN acked : /\ acked[k].kind = "Resolve"
                                       /\ acked[k].call = snap.calls
                                       /\ acked[k].answer = "Approved"]_vars

\* Acknowledged steers are applied in the order of their acknowledgements,
\* none twice and none skipped, across restarts: the steers applied, then the
\* ones that wait, stand one for one for the acknowledged ones.
SteersFifo ==
    LET queue   == snap.applied \o snap.steers
        steered == {k \in DOMAIN acked : acked[k].kind = "Steer"}
    IN  \E f \in [DOMAIN queue -> steered] :
           /\ \A i, j \in DOMAIN queue : i < j => f[i] < f[j]
           /\ steered = {f[i] : i \in DOMAIN queue}
           /\ \A i \in DOMAIN queue : queue[i] = acked[f[i]].id

\* The requests of a run, retries included, leave room for the final request
\* that the budget has set aside.
BudgetKept == Granted <= MaxRequests

\* The worker ends once a stop is in its queue or the deadline has passed,
\* even if the model, a tool and the user are silent for ever.
EndsWhenTold == (late \/ \E k \in DOMAIN inbox : inbox[k].kind \in Stops) ~> ~Active

\* If the model and the tools answer, the worker always comes to an end or to a
\* question that waits for the user, also when it replays an answer after a
\* crash.
LoopEnds == Answering => []<>(~Active \/ at("wait"))

=============================================================================
