-------------------------- MODULE AgentLoopProofs ---------------------------
(***************************************************************************)
(* What a run of AgentLoop promises, for every value of the constants: an  *)
(* acknowledged stop decides its outcome, no effect happens twice, no tool *)
(* runs unapproved, a completed run meets its contract and the loop        *)
(* publishes nothing that the reducer refuses, through commands, crashes   *)
(* and restarts.  The types and the coherence of the snapshot with the     *)
(* worker come from AgentLoopTypes.                                        *)
(***************************************************************************)
EXTENDS AgentLoopTypes, SequenceTheorems

-----------------------------------------------------------------------------
(* The inductive invariants *)

\* An acknowledged stop is in the snapshot, and an outcome respects it.
StopInv ==
    /\ \A k \in DOMAIN acked : acked[k].kind \in Stops => snap.control = acked[k].kind
    /\ snap.terminal # None /\ snap.control # None
          => snap.terminal \in {TerminalFor(snap.control), "RecoveryRequired"}

\* Requests go out in their order, and one that is prepared has not gone out.
SentInv ==
    \A i \in 1..MaxRequests :
        /\ did.sent[i] <= 1
        /\ i > snap.requests => did.sent[i] = 0
        /\ i = snap.requests /\ snap.model.st = "Prepared" => did.sent[i] = 0

\* So do tool calls; a worker that may start one has none that is running.
RanInv ==
    /\ \A i \in 1..MaxCalls :
          /\ did.ran[i] <= 1
          /\ i > snap.calls => did.ran[i] = 0
          /\ i = snap.calls /\ snap.tool.st = "Prepared" => did.ran[i] = 0
    /\ snap.tool.st = "InFlight"
          => w.pc \in {"boot", "running", "settle", "final", "down", "done"}

\* A candidate is verified once: a verification leaves a generation of the
\* workspace that the candidate was not proposed for, or a rejection.
VerifiedInv ==
    /\ \A i \in 1..MaxRequests :
          /\ did.verified[i] <= 1
          /\ i > snap.turns => did.verified[i] = 0
          /\ i = snap.turns /\ did.verified[i] # 0 =>
                IF snap.candidate = None
                THEN snap.rejection # None /\ snap.rejection.turn = snap.turns
                ELSE \/ snap.check.st = "InFlight"
                     \/ snap.check.st = "None" /\ snap.candidate.ws.gen < snap.ws.gen
    /\ snap.candidate # None => snap.candidate.ws.gen <= snap.ws.gen
    /\ snap.check.st = "InFlight"
          => w.pc \in {"boot", "checking", "sealing", "final", "down", "done"}

\* An approval in the snapshot was acknowledged for the pending call; only a
\* tool that can be executed gets as far as its start.
ApprovedInv ==
    /\ snap.tool.talk = "Approved" =>
          \E k \in DOMAIN acked : /\ acked[k].kind = "Resolve"
                                  /\ acked[k].call = snap.calls
                                  /\ acked[k].answer = "Approved"
    /\ w.pc \in {"authorized", "recheck", "start", "running"} => Executable(snap.tool.kind)

\* Evidence is about a revision that passes, consents were acknowledged, and a
\* completed run has the ones its contract asks for.
ProvenInv ==
    /\ \A p \in snap.proofs : p.rev \in Good
    /\ w.pc = "sealing" /\ w.verdict.verdict = "Passed" => w.verdict.rev \in Good
    /\ \A x \in snap.consents :
          \E k \in DOMAIN acked : acked[k].kind = "Accept" /\ acked[k].candidate = x
    /\ snap.terminal = "Completed" =>
          /\ "Verifier" \in Contract => snap.ws \in snap.proofs
          /\ "Host" \in Contract =>
                \E x \in snap.consents : x.turn = snap.turns /\ x.ws.rev = snap.ws.rev

\* Nobody but the run changes the workspace, and it can be observed.
Calm == env.edits = 0 /\ ~env.blind

\* The verification of the candidate took the one generation since.
Sealed ==
    /\ "Verifier" \in Contract
    /\ snap.candidate.ws.gen + 1 = snap.ws.gen
    /\ snap.candidate.ws.rev = snap.ws.rev
    /\ snap.ws \in snap.proofs

\* The worker goes about a turn.
Working == {"loop", "edge", "turn"} \cup Requesting \cup Acting

Verifying == {"verify", "checking", "sealing"}

\* Acceptances are kept, and none is for a candidate to come.  In a calm world
\* the candidate stays the one for the current workspace: its verification
\* seals it or makes its rejection due.
AcceptInv ==
    /\ \A k \in DOMAIN acked : acked[k].kind = "Accept" => acked[k].candidate \in snap.consents
    /\ \A x \in snap.consents :
          x.turn = snap.turns /\ snap.candidate = None
             => snap.rejection # None /\ snap.rejection.turn = snap.turns
    /\ w.pc \in Working => snap.candidate = None
    /\ Calm =>
          /\ w.pc = "propose" \/ snap.candidate # None => snap.ws.rev = world
          /\ snap.candidate # None => snap.ws = snap.candidate.ws \/ Sealed \/ RejectionMissing
          /\ w.pc \in Verifying => snap.ws = snap.candidate.ws /\ "Verifier" \in Contract
          /\ w.pc = "final" /\ w.goal = "Awaiting" => snap.candidate \notin snap.consents

\* Clients send no command twice.
Once == \A c \in Commands : env.copies[c] <= 1

\* A run that is over, told to stop or out of requests is wound up: nothing but
\* the outcome of its call and its own outcome is published.  The outcome is the
\* one the stop asks for.
WindingUp == {"boot", "final", "down", "done"}

StopsInv ==
    /\ snap.terminal # None => w.pc = "done"
    /\ snap.stopped => w.pc \in WindingUp
    /\ w.pc = "settle" => w.after # "Completed"
    /\ snap.control # None =>
          /\ w.pc \in WindingUp \cup {"settle"}
          /\ w.pc = "settle" => w.after = TerminalFor(snap.control)
          /\ w.pc = "final" /\ refused = {}
                => w.goal \in {TerminalFor(snap.control), "RecoveryRequired"}

\* The request, the answer and the rejection that each place of the worker is about.
TurnInv ==
    /\ w.pc \in {"bootDrain", "loop", "edge", "turn"} => snap.model.st # "InFlight"
    /\ w.pc \in {"prepare", "compacted"} => snap.model.st = "None"
    /\ w.pc \in {"backoff", "send"} => snap.model.st = "Prepared"
    /\ w.pc = "stream" => snap.model.st = "InFlight"
    /\ w.pc = "boot" => w.replay = snap.current
    /\ w.replay \/ snap.tool.st # "None" => snap.current
    /\ w.pc \in {"loop", "edge"} /\ ~w.replay => snap.tool.st = "None"
    /\ w.pc \in {"prepare", "compacted"} => snap.tool.st = "None" /\ snap.steers = <<>>
    /\ w.pc = "turn" /\ ~w.replay /\ snap.model.st = "None"
          => snap.tool.st = "None" /\ snap.steers = <<>>
    /\ w.pc \in Acting \ {"flush"} => snap.current
    /\ w.pc = "flush" => snap.tool.st = "None"
    /\ w.pc \in {"sync", "propose"} => snap.output.kind = "Stop" /\ snap.steers = <<>>
    /\ snap.output.kind # "Calls" => snap.output.calls = <<>>
    /\ snap.candidate # None => snap.output.kind = "Stop"
    /\ snap.rejection # None => snap.rejection.turn <= snap.turns
    /\ snap.rejection # None /\ snap.rejection.turn = snap.turns =>
          /\ snap.model.st = "None" /\ snap.output.kind = "Stop"
          /\ w.pc \notin Acting
          /\ w.pc \in {"loop", "edge", "turn"} => ~w.replay

\* The user has approved of what needs an approval.
MayStart(t) ==
    /\ Executable(t.kind)
    /\ \/ t.auth = "Allow" /\ t.talk = "None"
       \/ t.auth = "Ask" /\ t.talk = "Approved"

\* What validate_tool_outcome asks of an outcome, apart from the workspace.
OutcomeDue(t, o, wrote) ==
    /\ t.st = "InFlight" => o.op \notin {"Rejected", "Stale", "NeverRun"}
    /\ t.st = "Prepared" /\ t.talk = "None" => o.op \in {"Rejected", "Stale"}
    /\ t.talk = "Open" => o.op \in {"NeverRun", "Cancelled"}
    /\ t.talk = "Approved" /\ t.st = "Prepared" => o.op = "Stale"
    /\ Executable(t.kind) /\ t.talk \in {"Denied", "Dismissed"} => o.op \in {"Rejected", "Stale"}
    /\ t.kind = "read" => o.effect \notin {"Applied", "Indeterminate"}
    /\ MayWrite(t.kind) /\ t.st = "Prepared" => o.effect = "NotApplied"
    /\ t.st = "InFlight" /\ o.effect = "NotApplied" => ~wrote

\* The state of the pending call at each place of the worker.
ToolInv ==
    /\ w.pc \in {"gate", "authorized", "ask", "wait", "recheck", "start"} => snap.tool.st = "Prepared"
    /\ w.pc = "running" => snap.tool.st = "InFlight"
    /\ w.pc = "settle" => snap.tool.st # "None"
    /\ snap.tool.st = "None" => snap.tool.talk = "None"
    /\ snap.tool.talk \in {"None", "Open"} \cup Answers(snap.tool.kind)
    /\ snap.tool.talk # "None" => Interactive /\ (Executable(snap.tool.kind) => snap.tool.auth = "Ask")
    /\ w.pc \in {"ask", "wait"} => Interactive /\ (Executable(snap.tool.kind) => snap.tool.auth = "Ask")
    /\ w.pc = "wait" => snap.tool.talk = "Open"
    /\ snap.tool.st = "InFlight" => MayStart(snap.tool)
    /\ Once =>
          /\ w.pc \in {"recheck", "start"} => MayStart(snap.tool)
          /\ w.pc = "settle" => OutcomeDue(snap.tool, w.outcome, w.wrote)

\* Without copies, an answer on its way is new.
InboxInv ==
    /\ \A i \in DOMAIN inbox :
          inbox[i].kind = "Resolve" => inbox[i] \in Commands /\ env.copies[inbox[i]] > 0
    /\ Once =>
          \A i \in DOMAIN inbox : inbox[i].kind = "Resolve" =>
             /\ inbox[i] \notin snap.receipts
             /\ \A j \in DOMAIN inbox : inbox[j] = inbox[i] => j = i

\* The decision the worker is about to take, once the evidence is there.
Decided == [w.decision EXCEPT !.ws = snap.ws]

\* A verification in progress is about the workspace as it is.  In a calm world
\* only a tool that is running changes it, and a decision stays right.
ReviewInv ==
    /\ w.pc \in {"checking", "sealing"} => snap.check.st = "InFlight" /\ snap.check.ws = snap.ws
    /\ w.pc = "reject" => RejectionMissing
    /\ Calm =>
          /\ \/ snap.ws.rev = world
             \/ /\ snap.tool.st = "InFlight" /\ MayWrite(snap.tool.kind)
                /\ w.pc \in {"running", "settle"} => w.wrote
          /\ w.pc \in Verifying =>
                /\ w.decision.candidate = snap.candidate
                /\ "Host" \in Contract => w.decision.consent = snap.candidate
                                          /\ snap.candidate \in snap.consents
          /\ w.pc \in {"close", "decide"} => DecisionFits(snap, Decided)
          /\ w.pc = "final" /\ w.goal = "Completed" => DecisionFits(snap, w.decision)

\* All of it, and the part of it that speaks of the worker's place.
PlaceInv == StopsInv /\ TurnInv /\ ToolInv /\ ReviewInv

FitsInv == LoopFitsReducer /\ StopsInv /\ TurnInv /\ ToolInv /\ InboxInv /\ ReviewInv

-----------------------------------------------------------------------------
(* What each action does to the snapshot *)

\* A terminal outcome is final: nothing is published after it.
LEMMA Frozen ==
    ASSUME [Next]_vars, snap.terminal # None
    PROVE  snap' = snap
<1>1. \A type, fits, s, v, err : PublishOr(type, fits, s, v, err) => snap' = snap
  BY DEF PublishOr, Open
<1>2. \A v, err : Reconcile(v, err) => snap' = snap
  BY <1>1 DEF Reconcile
<1>3. ASSUME NEW c PROVE HandleRepeated(c) \/ HandleSteer(c) \/ HandleStop(c) \/ HandleResolve(c)
                         \/ HandleAccept(c) => snap' = snap
  BY <1>1 DEF HandleRepeated, HandleSteer, HandleStop, HandleResolve, HandleAccept, Publish
<1>4. CASE \/ Recover \/ RecoveredControls \/ ControlsDrained \/ ApplySteer
           \/ ReconcileAtBoundary \/ SteersFlushed \/ BeginTurn \/ CompactContext
           \/ ContextLimitExceeded \/ PrepareModelRequest \/ SendModelRequest \/ ActOnAnswer
           \/ ReconcileBeforeProposal \/ ProposeCompletion
  BY <1>1, <1>2, <1>4
     DEF Recover, RecoveredControls, ControlsDrained, ApplySteer, ReconcileAtBoundary,
         SteersFlushed, BeginTurn, CompactContext, ContextLimitExceeded, PrepareModelRequest,
         SendModelRequest, ActOnAnswer, ReconcileBeforeProposal, ProposeCompletion, Publish
<1>5. CASE \/ NextCall \/ RejectCall \/ Authorize \/ ActOnAuthorization \/ AskQuestion
           \/ RequestInteraction \/ RecheckRevision \/ StartTool \/ CommitOutcome
           \/ ToolWrites \/ ToolReturns
  BY <1>1, <1>5
     DEF NextCall, RejectCall, Authorize, ActOnAuthorization, AskQuestion, RequestInteraction,
         RecheckRevision, StartTool, CommitOutcome, ToolWrites, ToolReturns, Publish
<1>6. CASE \/ ReconcileForReview \/ Judge \/ PrepareVerification \/ StartVerification
           \/ CommitVerification \/ RejectCompletion \/ ReconcileAfterVerification \/ Decide
           \/ AwaitHost \/ PublishTerminal \/ VerifierReturns
  BY <1>1, <1>2, <1>6
     DEF ReconcileForReview, Judge, PrepareVerification, StartVerification, CommitVerification,
         RejectCompletion, ReconcileAfterVerification, Decide, AwaitHost, PublishTerminal,
         VerifierReturns
<1>7. CASE HandleControl \/ DeadlineExpires
  BY <1>3, <1>7 DEF HandleControl, DeadlineExpires
<1>8. CASE Attempt \/ RetryDelayOver
  BY <1>1, <1>8 DEF Attempt, Answer, AnswerDiffers, AttemptFails, RetryDelayOver, Publish
<1>9. CASE Send \/ Resume \/ AcceptCompletion \/ Crash \/ Edit \/ DeadlinePasses
  BY <1>9 DEF Send, Resume, AcceptCompletion, Launch, Crash, Edit, DeadlinePasses
<1>10. CASE UNCHANGED vars
  BY <1>10 DEF vars
<1> QED
  BY <1>4, <1>5, <1>6, <1>7, <1>8, <1>9, <1>10 DEF Next, Proceed

\* Where Go, End and Outcome put the worker.
LEMMA Places ==
    ASSUME w \in WorkerType
    PROVE  /\ \A p : Go(p).pc = p /\ Go(p).verdict = w.verdict
           /\ \A g : End(g).pc = "final"
           /\ \A op, effect, after : Outcome(op, effect, after).pc = "settle"
  BY DEF Go, End, Outcome, WorkerType

\* Where `End` goes, and with which goal.
LEMMA EndPlace ==
    ASSUME w \in WorkerType
    PROVE  \A g : End(g).pc = "final" /\ End(g).goal = g
  BY DEF End, WorkerType

\* reconcile_workspace changes at most the workspace state, and never takes its
\* generation back.
LEMMA ReconcileEffect ==
    ASSUME LoopInv, NEW v, NEW e, Reconcile(v, e)
    PROVE  Keeps(snap, snap', {"ws"}) /\ snap.ws.gen <= snap'.ws.gen /\ w' \in {v, e}
<1>1. snap \in Snap /\ snap.ws.gen \in Nat
  BY DEF LoopInv, Sound, Snap, Workspace
<1>2. PICK rev \in Observed :
        LET ws == NextWorkspace(snap, rev, FALSE)
        IN  \/ snap' = snap /\ w' = v
            \/ snap' = WorkspaceObserved(snap, ws) /\ w' = v
            \/ snap' = snap /\ w' = e
  BY DEF Reconcile, PublishOr
<1>3. PICK ws \in Workspace : ws = NextWorkspace(snap, rev, FALSE) /\ snap.ws.gen <= ws.gen
  <2>1. rev \in Revisions \cup {Unknown}
    BY ObservedType
  <2>2. /\ NextWorkspace(snap, rev, FALSE) \in Workspace
        /\ snap.ws.gen <= NextWorkspace(snap, rev, FALSE).gen
    BY <1>1, <2>1 DEF NextWorkspace, Workspace
  <2> QED
    BY <2>2, Zenon
<1>4. ASSUME snap' = snap PROVE Keeps(snap, snap', {"ws"}) /\ snap.ws.gen <= snap'.ws.gen
  BY <1>1, <1>4 DEF Keeps, Fields
<1>5. ASSUME snap' = WorkspaceObserved(snap, ws)
      PROVE  Keeps(snap, snap', {"ws"}) /\ snap.ws.gen <= snap'.ws.gen
  <2>1. Keeps(snap, snap', {"ws"}) /\ snap'.ws = ws
    BY <1>1, <1>5, ObservedEvent
  <2> QED
    BY <1>3, <1>5, <2>1
<1>6. w' \in {v, e}
  BY DEF Reconcile, PublishOr
<1> QED
  BY <1>2, <1>3, <1>4, <1>5, <1>6

\* Steps that publish nothing.
Unpublished ==
    \/ Recover \/ RecoveredControls \/ ControlsDrained \/ SteersFlushed \/ BeginTurn
    \/ CompactContext \/ ContextLimitExceeded \/ RetryDelayOver \/ AnswerDiffers \/ ActOnAnswer
    \/ RejectCall \/ ActOnAuthorization \/ AskQuestion \/ RecheckRevision \/ ToolWrites
    \/ ToolReturns \/ DeadlineExpires \/ Judge \/ VerifierReturns \/ Decide \/ AwaitHost
    \/ Send \/ Resume \/ AcceptCompletion \/ Crash \/ Edit \/ DeadlinePasses
    \/ UNCHANGED vars

\* They change neither the snapshot nor what is counted and acknowledged.
LEMMA UnpublishedEffect ==
    ASSUME Unpublished
    PROVE  snap' = snap /\ did' = did /\ acked' = acked
<1>1. CASE \/ Recover \/ RecoveredControls \/ ControlsDrained \/ SteersFlushed \/ BeginTurn
           \/ CompactContext \/ ContextLimitExceeded \/ RetryDelayOver \/ AnswerDiffers
           \/ ActOnAnswer \/ RejectCall \/ ActOnAuthorization \/ AskQuestion
  BY <1>1 DEF Recover, RecoveredControls, ControlsDrained, SteersFlushed, BeginTurn,
              CompactContext, Publish, PublishOr, ContextLimitExceeded, RetryDelayOver,
              AnswerDiffers, ActOnAnswer, RejectCall, ActOnAuthorization, AskQuestion, quiet
<1>2. CASE \/ RecheckRevision \/ ToolWrites \/ ToolReturns \/ DeadlineExpires \/ Judge
           \/ VerifierReturns \/ Decide \/ AwaitHost
  BY <1>2 DEF RecheckRevision, ToolWrites, ToolReturns, DeadlineExpires, Judge,
              VerifierReturns, Decide, AwaitHost, quiet
<1>3. CASE \/ Send \/ Resume \/ AcceptCompletion \/ Crash \/ Edit \/ DeadlinePasses
           \/ UNCHANGED vars
  BY <1>3 DEF Send, Resume, AcceptCompletion, Launch, Crash, Edit, DeadlinePasses, vars
<1> QED
  BY <1>1, <1>2, <1>3 DEF Unpublished

\* The steps that publish something, other than commands and the outcome: what
\* they change in the snapshot, how often what has begun.
Appends ==
    \/ ApplySteer \/ ReconcileAtBoundary \/ PrepareModelRequest \/ SendModelRequest \/ Answer
    \/ AttemptFails \/ ReconcileBeforeProposal \/ ProposeCompletion \/ NextCall \/ Authorize
    \/ RequestInteraction \/ StartTool \/ CommitOutcome \/ ReconcileForReview
    \/ PrepareVerification \/ StartVerification \/ CommitVerification \/ RejectCompletion
    \/ ReconcileAfterVerification

\* Every step is of one of these kinds.
LEMMA StepKinds ==
    ASSUME [Next]_vars
    PROVE  Unpublished \/ Appends \/ HandleControl \/ PublishTerminal
  BY DEF Next, Proceed, Attempt, Unpublished, Appends

\* Steers, retries and observations.
LEMMA HeadEffect ==
    ASSUME LoopInv
    PROVE  /\ ApplySteer => Keeps(snap, snap', {"steers", "applied", "current", "receipts"})
           /\ \/ ReconcileAtBoundary \/ ReconcileBeforeProposal \/ ReconcileForReview
              \/ ReconcileAfterVerification
              => Keeps(snap, snap', {"ws"}) /\ snap.ws.gen <= snap'.ws.gen
<1>1. snap \in Snap /\ snap.ws.gen \in Nat
  BY DEF LoopInv, Sound, Snap, Workspace
<1>2. ASSUME ApplySteer PROVE Keeps(snap, snap', {"steers", "applied", "current", "receipts"})
  BY <1>1, <1>2 DEF ApplySteer, Publish, PublishOr, SteerApplied, Keeps, Fields, Snap
<1>3. ASSUME snap' = snap PROVE Keeps(snap, snap', {"ws"}) /\ snap.ws.gen <= snap'.ws.gen
  BY <1>1, <1>3 DEF Keeps, Fields
<1> QED
  BY <1>2, <1>3, ReconcileEffect
     DEF ReconcileAtBoundary, ReconcileBeforeProposal, ReconcileForReview,
         ReconcileAfterVerification

\* A request is prepared.
LEMMA PrepareEffect ==
    ASSUME LoopInv, PrepareModelRequest
    PROVE  \/ snap' = snap
           \/ /\ Keeps(snap, snap', {"turns", "requests", "current", "stopped", "model"})
              /\ snap'.turns = snap.turns + 1 /\ snap'.requests = snap.requests + 1
              /\ snap.candidate = None
<1>1. snap \in Snap /\ (~TerminalTurn) \in BOOLEAN
  BY DEF LoopInv, Sound
<1>2. ASSUME ModelRequestPreparedFits(snap), snap' = ModelRequestPrepared(snap, ~TerminalTurn)
      PROVE  /\ Keeps(snap, snap', {"turns", "requests", "current", "stopped", "model"})
             /\ snap'.turns = snap.turns + 1 /\ snap'.requests = snap.requests + 1
             /\ snap.candidate = None
  <2>1. snap.candidate = None
    BY <1>2 DEF ModelRequestPreparedFits, AtBoundary
  <2> QED
    BY <1>1, <1>2, <2>1, PreparedEvent
<1> QED
  BY <1>2 DEF PrepareModelRequest, Publish, PublishOr

\* It goes out after the store knows that it may have gone out.
LEMMA SendEffect ==
    ASSUME LoopInv, SendModelRequest
    PROVE  \/ snap' = snap /\ did' = did
           \/ /\ snap.model.st = "Prepared"
              /\ Keeps(snap, snap', {"model"}) /\ snap'.model.st = "InFlight"
              /\ did' \in {did, [did EXCEPT !.sent = Count(did.sent, snap.requests)]}
<1>1. snap \in Snap /\ w \in WorkerType
  BY DEF LoopInv, Sound
<1>2. CASE ModelRequestInFlightFits(snap) /\ snap' = ModelRequestInFlight(snap)
  <2>1. snap.model.st = "Prepared"
    BY <1>2 DEF ModelRequestInFlightFits
  <2>2. did' \in {did, [did EXCEPT !.sent = Count(did.sent, snap.requests)]}
    BY DEF SendModelRequest
  <2>3. Keeps(snap, snap', {"model"}) /\ snap'.model.st = "InFlight"
    BY <1>1, <1>2, InFlightEvent
  <2> QED
    BY <2>1, <2>2, <2>3
<1>3. CASE snap' = snap /\ w' = End("Failed")
  <2>1. w'.pc = "final"
    BY <1>1, <1>3, Places
  <2> QED
    BY <1>3, <2>1 DEF SendModelRequest
<1> QED
  BY <1>2, <1>3 DEF SendModelRequest, Publish, PublishOr

\* It is answered, or it fails.
LEMMA AttemptEffect ==
    ASSUME LoopInv, Answer \/ AttemptFails
    PROVE  \/ snap' = snap
           \/ /\ Keeps(snap, snap', {"model", "output", "current", "settled"})
              /\ snap'.model.st = "None"
           \/ /\ Keeps(snap, snap', {"requests", "current", "model"})
              /\ snap'.model.st = "Prepared" /\ snap'.requests = snap.requests + 1
           \/ Keeps(snap, snap', {"current", "stopped", "model"}) /\ snap'.model.st = "None"
<1>1. snap \in Snap
  BY DEF LoopInv, Sound
<1>2. CASE Answer
  <2>1. PICK kind \in {"Stop", "Blank", "Calls", "Invalid"}, calls \in CallLists \cup {<<>>} :
          snap' = snap \/ snap' = ModelResponseCommitted(snap, kind, calls)
    BY <1>2 DEF Answer, Publish, PublishOr
  <2>2. calls \in Seq(CallKinds)
    <3>1. <<>> \in Seq(CallKinds)
      OBVIOUS
    <3> QED
      BY <3>1, LoopAssumption
  <2> QED
    BY <1>1, <2>1, <2>2, ResponseEvent
<1>3. CASE AttemptFails
  <2>1. PICK f \in [code : Codes, retryable : BOOLEAN] :
          \/ snap' = snap
          \/ /\ ModelRequestFailedFits(snap, f, Retries(f))
             /\ snap' = ModelRequestFailed(snap, f, Retries(f))
    BY <1>3 DEF AttemptFails, Publish, PublishOr
  <2>2. \/ snap' = snap
        \/ snap.model.st = "InFlight" /\ ~MustStop(snap, f) /\ snap' = Retried(snap, f)
        \/ snap' = GivenUp(snap)
    BY <2>1 DEF ModelRequestFailed, ModelRequestFailedFits, Retries
  <2> QED
    BY <1>1, <2>2, RetriedEvent, GivenUpEvent
<1> QED
  BY <1>2, <1>3

\* A completion is proposed for the workspace state of the snapshot.
LEMMA ProposeEffect ==
    ASSUME LoopInv, ProposeCompletion
    PROVE  \/ snap' = snap
           \/ /\ Keeps(snap, snap', {"candidate"})
              /\ snap'.candidate = [turn |-> snap.turns, ws |-> snap.ws] /\ snap'.candidate # None
              /\ snap.candidate = None
              /\ snap.rejection # None => snap.rejection.turn # snap.turns
<1>1. snap \in Snap
  BY DEF LoopInv, Sound
<1> DEFINE cand == [turn |-> snap.turns, ws |-> snap.ws]
<1>2. ASSUME CompletionProposedFits(snap, cand), snap' = CompletionProposed(snap, cand)
      PROVE  /\ Keeps(snap, snap', {"candidate"})
             /\ snap'.candidate = cand /\ snap'.candidate # None
             /\ snap.candidate = None
             /\ snap.rejection # None => snap.rejection.turn # snap.turns
  <2>1. snap.candidate = None /\ (snap.rejection # None => snap.rejection.turn # snap.turns)
    BY <1>2 DEF CompletionProposedFits
  <2> QED
    BY <1>1, <1>2, <2>1, ProposedEvent
<1> QED
  BY <1>2 DEF ProposeCompletion, Publish, PublishOr

\* A call is taken up, authorized and asked about.
LEMMA CallEffect ==
    ASSUME LoopInv, NextCall \/ Authorize \/ RequestInteraction
    PROVE  \/ snap' = snap
           \/ /\ Keeps(snap, snap', {"calls", "tool"}) /\ snap'.calls = snap.calls + 1
              /\ snap'.tool.st = "Prepared" /\ snap'.tool.talk = "None" /\ NextCall
           \/ /\ Keeps(snap, snap', {"tool"}) /\ snap'.tool.st = "Prepared"
              /\ snap.tool.st = "Prepared" /\ snap'.tool.kind = snap.tool.kind
              /\ snap'.tool.talk \in {snap.tool.talk, "Open"}
<1>1. snap \in Snap
  BY DEF LoopInv, Sound
<1>2. CASE NextCall
  <2>1. snap' = snap \/ (ToolPreparedFits(snap) /\ snap' = ToolPrepared(snap))
    BY <1>2 DEF NextCall, Publish, PublishOr
  <2> QED
    BY <1>1, <1>2, <2>1, ToolPreparedEvent
<1>3. CASE Authorize \/ RequestInteraction
  <2>1. PICK d \in {"Allow", "Ask", "Deny"} :
          \/ snap' = snap
          \/ snap' = ToolAuthorizationCommitted(snap, d) /\ ToolAuthorizationCommittedFits(snap)
          \/ snap' = InteractionRequested(snap) /\ InteractionRequestedFits(snap)
    BY <1>3 DEF Authorize, RequestInteraction, Publish, PublishOr
  <2>2. ASSUME snap' # snap
        PROVE  /\ Keeps(snap, snap', {"tool"}) /\ snap.tool.st = "Prepared"
               /\ snap'.tool.kind = snap.tool.kind /\ snap'.tool.talk \in {snap.tool.talk, "Open"}
    BY <1>1, <2>1, <2>2, CallEvent
  <2>3. ASSUME snap' # snap PROVE snap'.tool.st = "Prepared"
    <3>1. snap'.tool.st = snap.tool.st
      <4>1. snap.tool \in ToolState
        BY <1>1 DEF Snap
      <4>2. CASE snap' = ToolAuthorizationCommitted(snap, d)
        <5>1. snap'.tool = [[snap.tool EXCEPT !.auth = d] EXCEPT !.seen = snap.ws.rev]
          BY <1>1, <4>2 DEF ToolAuthorizationCommitted, Snap
        <5> QED
          BY <4>1, <5>1 DEF ToolState
      <4>3. CASE snap' = InteractionRequested(snap)
        BY <1>1, <4>1, <4>3 DEF InteractionRequested, Snap, ToolState
      <4> QED
        BY <2>1, <2>3, <4>2, <4>3
    <3> QED
      BY <2>2, <2>3, <3>1
  <2> QED
    BY <2>2, <2>3
<1> QED
  BY <1>2, <1>3

\* A tool starts after the store knows that it may have started.
LEMMA StartToolEffect ==
    ASSUME LoopInv, StartTool
    PROVE  \/ snap' = snap /\ did' = did /\ w'.pc = "final"
           \/ snap' = snap /\ snap.tool.st = "InFlight"
           \/ /\ Keeps(snap, snap', {"tool"}) /\ ToolExecutionStartedFits(snap)
              /\ snap'.tool.st = "InFlight" /\ snap'.tool.kind = snap.tool.kind
              /\ snap'.tool.talk = snap.tool.talk
              /\ w'.pc = "running"
              /\ did' = [did EXCEPT !.ran = Count(did.ran, snap.calls)]
<1>1. snap \in Snap /\ w \in WorkerType
  BY DEF LoopInv, Sound
<1>2. CASE snap' = snap /\ w' = End("Failed")
  <2>1. w'.pc = "final"
    BY <1>1, <1>2, Places
  <2> QED
    BY <1>2, <2>1 DEF StartTool
<1>3. CASE /\ ToolExecutionStartedFits(snap) /\ snap' = ToolExecutionStarted(snap)
           /\ w' = [Go("running") EXCEPT !.wrote = FALSE]
  <2>1. w'.pc = "running"
    <3>1. Go("running") \in WorkerType /\ Go("running").pc = "running"
      BY <1>1, GoWorker DEF PCs
    <3> QED
      BY <1>3, <3>1 DEF WorkerType
  <2>2. /\ Keeps(snap, snap', {"tool"})
        /\ snap'.tool.st = "InFlight" /\ snap'.tool.kind = snap.tool.kind
        /\ snap'.tool.talk = snap.tool.talk
    BY <1>1, <1>3 DEF ToolExecutionStarted, Keeps, Fields, Snap, ToolState
  <2>3. did' = [did EXCEPT !.ran = Count(did.ran, snap.calls)]
    BY <2>1 DEF StartTool
  <2> QED
    BY <1>3, <2>1, <2>2, <2>3
<1> QED
  BY <1>2, <1>3 DEF StartTool, Publish, PublishOr

\* An outcome settles the call.
LEMMA OutcomeEffect ==
    ASSUME LoopInv, CommitOutcome
    PROVE  \/ snap' = snap
           \/ /\ Keeps(snap, snap', {"tool", "settled", "ws"}) /\ snap'.tool = IdleTool
              /\ snap.ws.gen <= snap'.ws.gen
<1>1. snap \in Snap /\ snap.ws.gen \in Nat
  BY DEF LoopInv, Sound, Snap, Workspace
<1>2. PICK rev \in Observed :
        LET ws == IF MayWrite(snap.tool.kind) /\ snap.tool.st = "InFlight"
                  THEN NextWorkspace(snap, rev, TRUE) ELSE None
        IN  \/ snap' = snap
            \/ /\ ToolOutcomeCommittedFits(snap, w.outcome, ws)
               /\ snap' = ToolOutcomeCommitted(snap, ws)
  BY DEF CommitOutcome, Publish, PublishOr
<1>3. NextWorkspace(snap, rev, TRUE) \in Workspace
  <2>1. rev \in Revisions \cup {Unknown}
    BY ObservedType
  <2> QED
    BY <1>1, <2>1 DEF NextWorkspace, Workspace
<1>4. PICK ws \in Workspace \cup {None} :
        \/ snap' = snap
        \/ /\ ToolOutcomeCommittedFits(snap, w.outcome, ws)
           /\ snap' = ToolOutcomeCommitted(snap, ws)
  BY <1>2, <1>3, Zenon
<1>5. ASSUME ToolOutcomeCommittedFits(snap, w.outcome, ws), snap' = ToolOutcomeCommitted(snap, ws)
      PROVE  /\ Keeps(snap, snap', {"tool", "settled", "ws"}) /\ snap'.tool = IdleTool
             /\ snap.ws.gen <= snap'.ws.gen
  <2>1. /\ Keeps(snap, snap', {"tool", "settled", "ws"}) /\ snap'.tool = IdleTool
        /\ snap'.ws = IF ws = None THEN snap.ws ELSE ws
        /\ ws # None => ws.gen = snap.ws.gen + 1
    BY <1>1, <1>5, OutcomeEvent
  <2> QED
    BY <1>1, <2>1
<1> QED
  BY <1>4, <1>5

\* A verification is prepared for the workspace the candidate was proposed for,
\* and starts after the store knows that it may have started.
LEMMA CheckEffect ==
    ASSUME LoopInv, PrepareVerification \/ StartVerification
    PROVE  \/ snap' = snap /\ did' = did
           \/ snap' = snap /\ snap.check.st = "InFlight" /\ w.pc = "verify"
           \/ /\ Keeps(snap, snap', {"check"}) /\ snap'.check.st = "Prepared" /\ did' = did
              /\ snap.check.st = "None" /\ snap.candidate # None /\ snap.candidate.ws = snap.ws
           \/ /\ Keeps(snap, snap', {"check"}) /\ snap'.check.st = "InFlight"
              /\ snap.check.st = "Prepared" /\ w'.pc = "checking"
              /\ did' = [did EXCEPT !.verified = Count(did.verified, snap.candidate.turn)]
<1>1. snap \in Snap /\ w \in WorkerType
  BY DEF LoopInv, Sound
<1>2. CASE PrepareVerification
  <2>1. did' = did
    BY <1>2 DEF PrepareVerification, quiet
  <2>2. ASSUME HostVerificationPreparedFits(snap), snap' = HostVerificationPrepared(snap)
        PROVE  /\ Keeps(snap, snap', {"check"}) /\ snap'.check.st = "Prepared"
               /\ snap.check.st = "None" /\ snap.candidate # None /\ snap.candidate.ws = snap.ws
    BY <1>1, <2>2 DEF HostVerificationPreparedFits, HostVerificationPrepared, Keeps, Fields, Snap
  <2> QED
    BY <1>2, <2>1, <2>2 DEF PrepareVerification, PublishOr
<1>3. CASE StartVerification
  <2>1. Blocked.pc = "final" /\ Go("checking").pc = "checking"
    BY <1>1, Places DEF Blocked
  <2>2. CASE snap' = snap /\ w' = Blocked
    BY <1>3, <2>1, <2>2 DEF StartVerification
  <2>3. CASE snap' = snap /\ snap.check.st = "InFlight"
    BY <1>3, <2>3 DEF StartVerification, at
  <2>4. CASE HostVerificationStartedFits(snap) /\ snap' = HostVerificationStarted(snap)
             /\ w' = Go("checking")
    <3>1. Keeps(snap, snap', {"check"}) /\ snap'.check.st = "InFlight"
          /\ snap.check.st = "Prepared"
      BY <1>1, <2>4
         DEF HostVerificationStartedFits, HostVerificationStarted, Keeps, Fields, Snap, CheckState
    <3>2. did' = [did EXCEPT !.verified = Count(did.verified, snap.candidate.turn)]
      BY <1>3, <2>1, <2>4 DEF StartVerification
    <3> QED
      BY <2>1, <2>4, <3>1, <3>2
  <2> QED
    BY <1>3, <2>2, <2>3, <2>4 DEF StartVerification, PublishOr
<1> QED
  BY <1>2, <1>3

\* A verdict becomes evidence for the next generation of the workspace, or a
\* failure of the candidate.
LEMMA VerdictEffect ==
    ASSUME LoopInv, CommitVerification
    PROVE  \/ snap' = snap /\ w'.pc = "final"
           \/ /\ Keeps(snap, snap', {"ws", "check", "proofs", "rejection", "failure"})
              /\ snap'.check.st = "None" /\ snap'.ws.gen = snap.ws.gen + 1
              /\ snap.candidate # None
              /\ \/ snap'.proofs = snap.proofs
                 \/ /\ snap'.proofs = snap.proofs \cup {snap'.ws}
                    /\ w.verdict.verdict = "Passed" /\ w.verdict.rev = snap'.ws.rev
<1>1. snap \in Snap /\ snap.ws.gen \in Nat /\ Coherent(snap)
  BY DEF LoopInv, Sound, Snap, Workspace
<1>2. PICK rev \in Observed :
        LET after == NextWorkspace(snap, rev, TRUE)
        IN  \/ snap' = snap /\ w' = Blocked
            \/ /\ HostVerificationCommittedFits(snap, after)
               /\ snap' = HostVerificationCommitted(snap, w.verdict, after)
  BY DEF CommitVerification, PublishOr
<1>3. NextWorkspace(snap, rev, TRUE) \in Workspace
  <2>1. rev \in Revisions \cup {Unknown}
    BY ObservedType
  <2> QED
    BY <1>1, <2>1 DEF NextWorkspace, Workspace
<1>4. PICK after \in Workspace :
        \/ snap' = snap /\ w' = Blocked
        \/ /\ HostVerificationCommittedFits(snap, after)
           /\ snap' = HostVerificationCommitted(snap, w.verdict, after)
  BY <1>2, <1>3, Zenon
<1>5. ASSUME HostVerificationCommittedFits(snap, after),
             snap' = HostVerificationCommitted(snap, w.verdict, after)
      PROVE  /\ Keeps(snap, snap', {"ws", "check", "proofs", "rejection", "failure"})
             /\ snap'.check.st = "None" /\ snap'.ws.gen = snap.ws.gen + 1
             /\ snap.candidate # None
             /\ \/ snap'.proofs = snap.proofs
                \/ /\ snap'.proofs = snap.proofs \cup {snap'.ws}
                   /\ w.verdict.verdict = "Passed" /\ w.verdict.rev = snap'.ws.rev
  <2>1. /\ Keeps(snap, snap', {"ws", "check", "proofs", "rejection", "failure"})
        /\ snap'.ws = after /\ snap'.check.st = "None" /\ snap.candidate # None
        /\ IF Seals(snap, w.verdict, after) THEN snap'.proofs = snap.proofs \cup {after}
           ELSE snap'.proofs = snap.proofs
    BY <1>1, <1>5, VerifiedEvent
  <2>2. after.gen = snap.ws.gen + 1
    BY <1>5 DEF HostVerificationCommittedFits
  <2> QED
    BY <2>1, <2>2 DEF Seals
<1>6. Blocked.pc = "final"
  BY Places DEF Blocked, LoopInv, Sound
<1> QED
  BY <1>4, <1>5, <1>6

\* A failed candidate is taken back.
LEMMA RejectEffect ==
    ASSUME LoopInv, RejectCompletion
    PROVE  \/ snap' = snap
           \/ /\ Keeps(snap, snap', {"rejection", "candidate"}) /\ snap'.candidate = None
              /\ snap'.rejection # None /\ snap'.rejection.turn = snap.turns
              /\ snap.candidate # None
<1>1. snap \in Snap /\ Coherent(snap)
  BY DEF LoopInv, Sound
<1>2. ASSUME CompletionRejectedFits(snap), snap' = CompletionRejected(snap)
      PROVE  /\ Keeps(snap, snap', {"rejection", "candidate"}) /\ snap'.candidate = None
             /\ snap'.rejection # None /\ snap'.rejection.turn = snap.turns
             /\ snap.candidate # None
  <2>1. snap.candidate # None /\ snap.failure.turn = snap.turns
    BY <1>1, <1>2 DEF CompletionRejectedFits, Coherent
  <2> QED
    BY <1>1, <1>2, <2>1, RejectedEvent
<1> QED
  BY <1>2 DEF RejectCompletion, PublishOr

\* A command: its receipt and, once, its effect.
LEMMA ControlEffect ==
    ASSUME LoopInv, HandleControl
    PROVE  \/ snap' = snap /\ acked' = acked
           \/ Keeps(snap, snap', {"ws"}) /\ acked' = acked /\ snap.ws.gen <= snap'.ws.gen
           \/ \E c \in Command :
                 /\ acked' = Append(acked, c) /\ snap.terminal = None
                 /\ \/ /\ c.kind = "Steer" /\ Keeps(snap, snap', {"steers", "receipts"})
                       /\ snap'.steers = Append(snap.steers, c.id)
                    \/ /\ c.kind \in Stops /\ snap.control = None /\ snap'.control = c.kind
                       /\ Keeps(snap, snap', {"control", "receipts"})
                    \/ /\ c.kind = "Resolve" /\ c.call = snap.calls
                       /\ Keeps(snap, snap', {"tool", "receipts"})
                       /\ snap'.tool.st = snap.tool.st /\ snap'.tool.kind = snap.tool.kind
                       /\ snap'.tool.talk = c.answer
                    \/ /\ c.kind = "Accept" /\ c.candidate = snap.candidate
                       /\ Keeps(snap, snap', {"consents", "receipts"})
                       /\ snap'.consents = snap.consents \cup {c.candidate}
<1>1. snap \in Snap /\ snap.ws.gen \in Nat
  BY DEF LoopInv, Sound, Snap, Workspace
<1>2. PICK c : /\ c = Head(inbox)
               /\ \/ HandleRepeated(c) \/ HandleSteer(c) \/ HandleStop(c) \/ HandleResolve(c)
                  \/ HandleAccept(c)
  BY DEF HandleControl
<1>3. c \in Command
  BY <1>2 DEF LoopInv, World, HandleControl
<1>4. CASE HandleRepeated(c)
  BY <1>4 DEF HandleRepeated
<1>5. CASE HandleSteer(c)
  <2>1. ASSUME snap' = SteerQueued(snap, c), snap' # snap, snap.terminal = None
        PROVE  /\ c.kind = "Steer" /\ Keeps(snap, snap', {"steers", "receipts"})
               /\ snap'.steers = Append(snap.steers, c.id) /\ acked' = Append(acked, c)
    BY <1>1, <1>5, <2>1 DEF HandleSteer, SteerQueued, Acknowledge, Keeps, Fields, Snap
  <2>2. snap' = snap => acked' = acked
    BY <1>5 DEF HandleSteer, Acknowledge
  <2>3. snap' = snap \/ (snap' = SteerQueued(snap, c) /\ snap.terminal = None)
    BY <1>5 DEF HandleSteer, Publish, PublishOr, Open
  <2> QED
    BY <1>3, <2>1, <2>2, <2>3
<1>6. CASE HandleStop(c)
  <2>1. ASSUME snap' = ControlRequested(snap, c), snap' # snap, ControlRequestedFits(snap, c)
        PROVE  /\ c.kind \in Stops /\ snap.control = None /\ snap'.control = c.kind
               /\ Keeps(snap, snap', {"control", "receipts"}) /\ acked' = Append(acked, c)
    <3>1. c.kind \in Stops /\ snap.control = None /\ acked' = Append(acked, c)
      BY <1>6, <2>1 DEF HandleStop, ControlRequestedFits, Acknowledge
    <3> QED
      BY <1>1, <1>3, <2>1, <3>1, StopEvent
  <2>2. snap' = snap => acked' = acked
    BY <1>6 DEF HandleStop, Acknowledge
  <2>3. \/ snap' = snap
        \/ /\ snap' = ControlRequested(snap, c) /\ ControlRequestedFits(snap, c)
           /\ snap.terminal = None
    BY <1>6 DEF HandleStop, Publish, PublishOr, Open
  <2> QED
    BY <1>3, <2>1, <2>2, <2>3
<1>7. CASE HandleResolve(c)
  <2>1. ASSUME snap' = InteractionResolved(snap, c), snap' # snap, InteractionResolvedFits(snap, c)
        PROVE  /\ c.kind = "Resolve" /\ c.call = snap.calls
               /\ Keeps(snap, snap', {"tool", "receipts"})
               /\ snap'.tool.st = snap.tool.st /\ snap'.tool.kind = snap.tool.kind
               /\ snap'.tool.talk = c.answer
               /\ acked' = Append(acked, c)
    <3>1. c.kind = "Resolve" /\ c.call = snap.calls /\ acked' = Append(acked, c)
      BY <1>7, <2>1 DEF HandleResolve, InteractionResolvedFits, Acknowledge
    <3> QED
      BY <1>1, <1>3, <2>1, <3>1, ResolvedEvent
  <2>2. snap' = snap => acked' = acked
    BY <1>7 DEF HandleResolve, Acknowledge
  <2>3. \/ snap' = snap
        \/ /\ snap' = InteractionResolved(snap, c) /\ InteractionResolvedFits(snap, c)
           /\ snap.terminal = None
    BY <1>7 DEF HandleResolve, Publish, PublishOr, Open
  <2> QED
    BY <1>3, <2>1, <2>2, <2>3
<1>8. CASE HandleAccept(c)
  <2>1. ASSUME NEW rev \in Observed, snap' = WorkspaceObserved(snap, NextWorkspace(snap, rev, FALSE))
        PROVE  Keeps(snap, snap', {"ws"}) /\ snap.ws.gen <= snap'.ws.gen
    <3>1. rev \in Revisions \cup {Unknown}
      BY ObservedType
    <3>2. PICK ws \in Workspace : ws = NextWorkspace(snap, rev, FALSE) /\ snap.ws.gen <= ws.gen
      <4>1. /\ NextWorkspace(snap, rev, FALSE) \in Workspace
            /\ snap.ws.gen <= NextWorkspace(snap, rev, FALSE).gen
        BY <1>1, <3>1 DEF NextWorkspace, Workspace
      <4> QED
        BY <4>1, Zenon
    <3>3. snap' = WorkspaceObserved(snap, ws)
      BY <2>1, <3>2, Zenon
    <3> QED
      BY <1>1, <3>2, <3>3, ObservedEvent
  <2>2. ASSUME snap' = HostCompletionAccepted(snap, c), HostCompletionAcceptedFits(snap, c),
               acked' = IF snap' # snap THEN Append(acked, c) ELSE acked
        PROVE  /\ c.candidate = snap.candidate /\ acked' = Append(acked, c)
               /\ Keeps(snap, snap', {"consents", "receipts"})
               /\ snap'.consents = snap.consents \cup {c.candidate}
    <3>1. /\ Keeps(snap, snap', {"consents", "receipts"})
          /\ snap'.consents = snap.consents \cup {snap.candidate}
          /\ snap'.receipts = snap.receipts \cup {c} /\ c \notin snap.receipts
      BY <1>1, <1>3, <2>2, AcceptedEvent
    <3>2. snap' # snap
      BY <3>1
    <3>3. c.candidate = snap.candidate
      BY <2>2 DEF HostCompletionAcceptedFits
    <3> QED
      BY <2>2, <3>1, <3>2, <3>3
  <2>3. \/ snap' = snap /\ acked' = acked
        \/ /\ \E rev \in Observed : snap' = WorkspaceObserved(snap, NextWorkspace(snap, rev, FALSE))
           /\ acked' = acked
        \/ /\ snap' = HostCompletionAccepted(snap, c) /\ HostCompletionAcceptedFits(snap, c)
           /\ acked' = IF snap' # snap THEN Append(acked, c) ELSE acked
           /\ snap.terminal = None
    BY <1>8 DEF HandleAccept, Publish, PublishOr, Open, Acknowledge
  <2>4. c.kind = "Accept"
    BY <1>8 DEF HandleAccept
  <2> QED
    BY <1>3, <2>1, <2>2, <2>3, <2>4
<1> QED
  BY <1>2, <1>4, <1>5, <1>6, <1>7, <1>8

\* The outcome: one that the reducer takes.
LEMMA OutcomePublished ==
    ASSUME LoopInv, PublishTerminal
    PROVE  \/ snap' = snap
           \/ \E outcome \in Terminals :
                 /\ Keeps(snap, snap', {"terminal"}) /\ snap'.terminal = outcome
                 /\ TerminalFits(snap, outcome, w.decision)
<1>1. snap \in Snap /\ w.goal \in Terminals
  BY DEF LoopInv, Sound, PublishTerminal, Placed, at, Goals
<1>2. PICK outcome \in Terminals :
        snap' = snap \/ (snap' = Terminal(snap, outcome) /\ TerminalFits(snap, outcome, w.decision))
  BY <1>1 DEF PublishTerminal, PublishOr, Terminals
<1> QED
  BY <1>1, <1>2, TerminalEvent

-----------------------------------------------------------------------------
(* A stop decides the outcome *)

\* Appending keeps what is in a sequence.
LEMMA AppendKeeps ==
    ASSUME NEW S, NEW q \in Seq(S), NEW c \in S
    PROVE  /\ DOMAIN Append(q, c) = 1..Len(q) + 1 /\ DOMAIN q = 1..Len(q) /\ Len(q) \in Nat
           /\ \A k \in DOMAIN q : k \in DOMAIN Append(q, c) /\ Append(q, c)[k] = q[k]
           /\ Append(q, c)[Len(q) + 1] = c
  OBVIOUS

\* Only a command changes what is acknowledged and the pending stop, and only
\* the outcome ends the run.
LEMMA AppendsFrame ==
    ASSUME LoopInv, Appends
    PROVE  /\ acked' = acked /\ snap'.control = snap.control /\ snap'.terminal = snap.terminal
           /\ snap'.consents = snap.consents
<1>1. acked' = acked
  BY DEF Appends, ApplySteer, ReconcileAtBoundary, PrepareModelRequest, SendModelRequest, Answer,
         AttemptFails, ReconcileBeforeProposal, ProposeCompletion, NextCall, Authorize,
         RequestInteraction, StartTool, CommitOutcome, ReconcileForReview, PrepareVerification,
         StartVerification, CommitVerification, RejectCompletion, ReconcileAfterVerification, quiet
<1>2. PICK F : /\ snap' = snap \/ Keeps(snap, snap', F)
               /\ {"control", "terminal", "consents"} \cap F = {}
  <2>1. CASE \/ ApplySteer \/ ReconcileAtBoundary \/ ReconcileBeforeProposal \/ ReconcileForReview
             \/ ReconcileAfterVerification
    BY <2>1, HeadEffect
  <2>2. CASE PrepareModelRequest \/ SendModelRequest \/ Answer \/ AttemptFails
    BY <2>2, PrepareEffect, SendEffect, AttemptEffect
  <2>3. CASE ProposeCompletion \/ NextCall \/ Authorize \/ RequestInteraction
    BY <2>3, ProposeEffect, CallEffect
  <2>4. CASE StartTool \/ CommitOutcome
    BY <2>4, StartToolEffect, OutcomeEffect
  <2>5. CASE PrepareVerification \/ StartVerification \/ CommitVerification \/ RejectCompletion
    BY <2>5, CheckEffect, VerdictEffect, RejectEffect
  <2> QED
    BY <2>1, <2>2, <2>3, <2>4, <2>5 DEF Appends
<1> QED
  BY <1>1, <1>2 DEF Keeps, Fields

\* Every step keeps the promise of a stop.
LEMMA StopStep ==
    ASSUME LoopInv, StopInv, [Next]_vars
    PROVE  StopInv'
<1>1. CASE Unpublished
  BY <1>1, UnpublishedEffect DEF StopInv
<1>2. CASE Appends
  BY <1>2, AppendsFrame DEF StopInv
<1>3. CASE HandleControl
  <2>1. CASE snap' = snap /\ acked' = acked
    BY <2>1 DEF StopInv
  <2>2. CASE Keeps(snap, snap', {"ws"}) /\ acked' = acked
    BY <2>2 DEF StopInv, Keeps, Fields
  <2>3. ASSUME NEW c \in Command, acked' = Append(acked, c), snap.terminal = None,
               Keeps(snap, snap', {"steers", "control", "tool", "consents", "receipts"}),
               \/ snap'.control = snap.control /\ c.kind \notin Stops
               \/ c.kind \in Stops /\ snap.control = None /\ snap'.control = c.kind
        PROVE  StopInv'
    <3>1. acked \in Seq(Command)
      BY DEF LoopInv, World
    <3>2. snap'.terminal = None
      BY <2>3 DEF Keeps, Fields
    <3>3. ASSUME NEW k \in DOMAIN acked', acked'[k].kind \in Stops
          PROVE  snap'.control = acked'[k].kind
      <4>1. CASE k \in DOMAIN acked
        <5>1. acked'[k] = acked[k]
          BY <2>3, <3>1, <4>1, AppendKeeps
        <5>2. snap.control = acked[k].kind /\ acked[k].kind # None
          BY <3>3, <4>1, <5>1, ReducerAssumption DEF StopInv, Stops
        <5> QED
          BY <2>3, <5>1, <5>2
      <4>2. CASE k \notin DOMAIN acked
        <5>1. acked'[k] = c
          BY <2>3, <3>1, <3>3, <4>2, AppendKeeps
        <5> QED
          BY <2>3, <3>3, <5>1
      <4> QED
        BY <4>1, <4>2
    <3> QED
      BY <3>2, <3>3 DEF StopInv
  <2>4. CASE \E c \in Command :
                 /\ acked' = Append(acked, c) /\ snap.terminal = None
                 /\ \/ c.kind = "Steer" /\ Keeps(snap, snap', {"steers", "receipts"})
                    \/ /\ c.kind \in Stops /\ snap.control = None /\ snap'.control = c.kind
                       /\ Keeps(snap, snap', {"control", "receipts"})
                    \/ c.kind = "Resolve" /\ Keeps(snap, snap', {"tool", "receipts"})
                    \/ c.kind = "Accept" /\ Keeps(snap, snap', {"consents", "receipts"})
    <3>1. PICK c \in Command :
                 /\ acked' = Append(acked, c) /\ snap.terminal = None
                 /\ \/ c.kind = "Steer" /\ Keeps(snap, snap', {"steers", "receipts"})
                    \/ /\ c.kind \in Stops /\ snap.control = None /\ snap'.control = c.kind
                       /\ Keeps(snap, snap', {"control", "receipts"})
                    \/ c.kind = "Resolve" /\ Keeps(snap, snap', {"tool", "receipts"})
                    \/ c.kind = "Accept" /\ Keeps(snap, snap', {"consents", "receipts"})
      BY <2>4
    <3>2. Keeps(snap, snap', {"steers", "control", "tool", "consents", "receipts"})
      BY <3>1 DEF Keeps
    <3>3. \/ snap'.control = snap.control /\ c.kind \notin Stops
          \/ c.kind \in Stops /\ snap.control = None /\ snap'.control = c.kind
      BY <3>1 DEF Keeps, Fields, Stops
    <3> QED
      BY <2>3, <3>1, <3>2, <3>3
  <2> QED
    BY <1>3, <2>1, <2>2, <2>4, ControlEffect
<1>4. CASE PublishTerminal
  <2>1. acked' = acked
    BY <1>4 DEF PublishTerminal
  <2>2. ASSUME NEW outcome \in Terminals, Keeps(snap, snap', {"terminal"}),
               snap'.terminal = outcome, TerminalFits(snap, outcome, w.decision)
        PROVE  StopInv'
    BY <2>1, <2>2 DEF StopInv, Keeps, Fields, TerminalFits
  <2>3. CASE snap' = snap
    BY <2>1, <2>3 DEF StopInv
  <2> QED
    BY <1>4, <2>2, <2>3, OutcomePublished
<1> QED
  BY <1>1, <1>2, <1>3, <1>4, StepKinds

\* An acknowledged interrupt or cancel decides the outcome of the run, whatever
\* happens before the outcome; only an effect of unknown result overrides it.
THEOREM AcknowledgedStopWins == Spec => []StopWins
<1>1. Init => StopInv
  BY DEF Init, StopInv, NewSnapshot
<1>2. LoopInv /\ StopInv /\ [Next]_vars => StopInv'
  BY StopStep
<1>3. LoopInv /\ StopInv => StopWins
  <2> SUFFICES ASSUME LoopInv, StopInv, NEW k \in DOMAIN acked, acked[k].kind \in Stops
               PROVE  snap.terminal \in {None, TerminalFor(acked[k].kind), "RecoveryRequired"}
    BY DEF StopWins
  <2>1. snap.control = acked[k].kind /\ snap.control # None
    BY ReducerAssumption DEF StopInv, Stops
  <2> QED
    BY <2>1 DEF StopInv
<1> QED
  BY <1>1, <1>2, <1>3, LoopCoherent, PTL DEF Spec

-----------------------------------------------------------------------------
(* No effect happens twice *)

\* The counters of AtMostOnce move only with the steps they count.
LEMMA CounterFrame ==
    ASSUME [Next]_vars
    PROVE  /\ ~SendModelRequest /\ ~StartTool /\ ~StartVerification => did' = did
           /\ SendModelRequest => \/ did' = did
                                  \/ did' = [did EXCEPT !.sent = Count(did.sent, snap.requests)]
           /\ StartTool => \/ did' = did
                           \/ did' = [did EXCEPT !.ran = Count(did.ran, snap.calls)]
           /\ StartVerification =>
                 \/ did' = did
                 \/ did' = [did EXCEPT !.verified = Count(did.verified, snap.candidate.turn)]
<1>1. CASE Unpublished
  <2>1. did' = did
    BY <1>1, UnpublishedEffect
  <2> QED
    BY <2>1
<1>2. CASE Appends
  BY <1>2 DEF Appends, ApplySteer, ReconcileAtBoundary, PrepareModelRequest, SendModelRequest,
         Answer, AttemptFails, ReconcileBeforeProposal, ProposeCompletion, NextCall, Authorize,
         RequestInteraction, StartTool, CommitOutcome, ReconcileForReview, PrepareVerification,
         StartVerification, CommitVerification, RejectCompletion, ReconcileAfterVerification, quiet
<1>3. CASE HandleControl \/ PublishTerminal
  <2>1. did' = did
    BY <1>3 DEF HandleControl, PublishTerminal
  <2> QED
    BY <2>1
<1> QED
  BY <1>1, <1>2, <1>3, StepKinds

\* A command or an outcome of the run leaves model requests and the
\* verification alone.
LEMMA ControlFrame ==
    ASSUME LoopInv, HandleControl \/ PublishTerminal
    PROVE  \/ snap' = snap
           \/ /\ Keeps(snap, snap', {"ws", "steers", "control", "tool", "consents", "receipts",
                                     "terminal"})
              /\ snap.ws.gen <= snap'.ws.gen
              /\ snap'.tool.st = snap.tool.st /\ snap'.tool.kind = snap.tool.kind
<1>0. snap.ws.gen \in Nat
  BY DEF LoopInv, Sound, Snap, Workspace
<1>1. CASE HandleControl
  <2>1. CASE Keeps(snap, snap', {"ws"}) /\ snap.ws.gen <= snap'.ws.gen
    BY <2>1 DEF Keeps, Fields
  <2>2. CASE \/ Keeps(snap, snap', {"steers", "receipts"})
             \/ Keeps(snap, snap', {"control", "receipts"})
             \/ Keeps(snap, snap', {"consents", "receipts"})
    BY <1>0, <2>2 DEF Keeps, Fields
  <2>3. CASE /\ Keeps(snap, snap', {"tool", "receipts"})
             /\ snap'.tool.st = snap.tool.st /\ snap'.tool.kind = snap.tool.kind
    BY <1>0, <2>3 DEF Keeps, Fields
  <2> QED
    BY <1>1, <2>1, <2>2, <2>3, ControlEffect
<1>2. CASE PublishTerminal
  <2>1. CASE Keeps(snap, snap', {"terminal"})
    BY <1>0, <2>1 DEF Keeps, Fields
  <2> QED
    BY <1>2, <2>1, OutcomePublished
<1> QED
  BY <1>1, <1>2

\* What a step may do to the pending model request.
LEMMA RequestMoves ==
    ASSUME LoopInv, [Next]_vars, ~SendModelRequest
    PROVE  \/ snap'.requests = snap.requests /\ snap'.model = snap.model
           \/ snap'.requests = snap.requests + 1
           \/ snap'.requests = snap.requests /\ snap'.model.st # "Prepared"
<1>1. CASE Unpublished
  BY <1>1, UnpublishedEffect
<1>2. CASE HandleControl \/ PublishTerminal
  BY <1>2, ControlFrame DEF Keeps, Fields
<1>3. CASE \/ ApplySteer \/ ReconcileAtBoundary \/ ReconcileBeforeProposal \/ ReconcileForReview
           \/ ReconcileAfterVerification
  BY <1>3, HeadEffect DEF Keeps, Fields
<1>4. CASE PrepareModelRequest
  BY <1>4, PrepareEffect
<1>5. CASE Answer \/ AttemptFails
  BY <1>5, AttemptEffect DEF Keeps, Fields
<1>6. CASE ProposeCompletion
  BY <1>6, ProposeEffect DEF Keeps, Fields
<1>7. CASE NextCall \/ Authorize \/ RequestInteraction
  BY <1>7, CallEffect DEF Keeps, Fields
<1>8. CASE StartTool \/ CommitOutcome
  BY <1>8, StartToolEffect, OutcomeEffect DEF Keeps, Fields
<1>9. CASE PrepareVerification \/ StartVerification
  BY <1>9, CheckEffect DEF Keeps, Fields
<1>10. CASE CommitVerification \/ RejectCompletion
  BY <1>10, VerdictEffect, RejectEffect DEF Keeps, Fields
<1> QED
  BY <1>1, <1>2, <1>3, <1>4, <1>5, <1>6, <1>7, <1>8, <1>9, <1>10, StepKinds DEF Appends

\* Every step keeps the requests apart.
LEMMA SentStep ==
    ASSUME LoopInv, SentInv, [Next]_vars
    PROVE  SentInv'
<1>1. /\ snap.requests \in Nat /\ MaxRequests \in Nat
      /\ did.sent \in [1..MaxRequests -> Nat] /\ did \in Did
  BY LoopAssumption DEF LoopInv, Sound, Snap, World, Did
<1>2. CASE ~SendModelRequest
  <2>1. did'.sent = did.sent
    BY <1>1, <1>2, CounterFrame DEF Did
  <2> QED
    BY <1>1, <1>2, <2>1, RequestMoves DEF SentInv
<1>3. CASE SendModelRequest
  <2>1. CASE snap' = snap /\ did' = did
    BY <2>1 DEF SentInv
  <2>2. ASSUME snap.model.st = "Prepared", Keeps(snap, snap', {"model"}),
               snap'.model.st = "InFlight",
               did' \in {did, [did EXCEPT !.sent = Count(did.sent, snap.requests)]}
        PROVE  SentInv'
    <3>1. did'.sent \in {did.sent, Count(did.sent, snap.requests)}
      BY <1>1, <2>2 DEF Did
    <3>2. snap'.requests = snap.requests
      BY <2>2 DEF Keeps, Fields
    <3>3. ASSUME NEW i \in 1..MaxRequests
          PROVE  \/ did'.sent[i] = did.sent[i]
                 \/ i = snap.requests /\ did'.sent[i] = did.sent[i] + 1
      <4>1. Count(did.sent, snap.requests)[i]
              = IF i = snap.requests THEN did.sent[i] + 1 ELSE did.sent[i]
        BY <1>1, CountType
      <4> QED
        BY <3>1, <4>1
    <3> QED
      BY <1>1, <2>2, <3>2, <3>3 DEF SentInv
  <2> QED
    BY <1>3, <2>1, <2>2, SendEffect
<1> QED
  BY <1>2, <1>3

\* What a step may do to the pending tool call.
LEMMA CallMoves ==
    ASSUME LoopInv, [Next]_vars, ~StartTool
    PROVE  \/ /\ snap'.calls = snap.calls /\ snap'.tool.st = snap.tool.st
              /\ snap'.tool.kind = snap.tool.kind
           \/ snap'.calls = snap.calls + 1 /\ snap'.tool.st = "Prepared" /\ NextCall
           \/ snap'.calls = snap.calls /\ snap'.tool = IdleTool /\ CommitOutcome
<1>1. CASE Unpublished
  BY <1>1, UnpublishedEffect
<1>2. CASE HandleControl \/ PublishTerminal
  BY <1>2, ControlFrame DEF Keeps, Fields
<1>3. CASE \/ ApplySteer \/ ReconcileAtBoundary \/ ReconcileBeforeProposal \/ ReconcileForReview
           \/ ReconcileAfterVerification
  BY <1>3, HeadEffect DEF Keeps, Fields
<1>4. CASE PrepareModelRequest \/ SendModelRequest
  BY <1>4, PrepareEffect, SendEffect DEF Keeps, Fields
<1>5. CASE Answer \/ AttemptFails
  BY <1>5, AttemptEffect DEF Keeps, Fields
<1>6. CASE ProposeCompletion
  BY <1>6, ProposeEffect DEF Keeps, Fields
<1>7. CASE NextCall \/ Authorize \/ RequestInteraction
  BY <1>7, CallEffect DEF Keeps, Fields
<1>8. CASE CommitOutcome
  BY <1>8, OutcomeEffect DEF Keeps, Fields
<1>9. CASE PrepareVerification \/ StartVerification
  BY <1>9, CheckEffect DEF Keeps, Fields
<1>10. CASE CommitVerification \/ RejectCompletion
  BY <1>10, VerdictEffect, RejectEffect DEF Keeps, Fields
<1> QED
  BY <1>1, <1>2, <1>3, <1>4, <1>5, <1>6, <1>7, <1>8, <1>9, <1>10, StepKinds DEF Appends

\* Where a worker can be while its tool runs, or after it died there.
Running == {"boot", "running", "settle", "final", "down", "done"}

\* From there it settles the call, or it ends, or it is started again.
LEMMA RunningPlaces ==
    ASSUME LoopInv, [Next]_vars, w.pc \in Running, snap.tool.st = "InFlight"
    PROVE  w'.pc \in Running \/ CommitOutcome
<1>1. w \in WorkerType /\ Ambiguous
  BY DEF LoopInv, Sound, Ambiguous
<1>2. CASE Recover
  BY <1>1, <1>2, Places DEF Recover, Running
<1>3. CASE \/ RecoveredControls \/ ControlsDrained \/ ApplySteer \/ ReconcileAtBoundary
           \/ SteersFlushed \/ BeginTurn \/ CompactContext \/ ContextLimitExceeded
           \/ PrepareModelRequest \/ SendModelRequest \/ ActOnAnswer \/ ReconcileBeforeProposal
           \/ ProposeCompletion \/ Attempt \/ RetryDelayOver
  BY <1>3 DEF RecoveredControls, ControlsDrained, ApplySteer, ReconcileAtBoundary,
              SteersFlushed, BeginTurn, CompactContext, ContextLimitExceeded,
              PrepareModelRequest, SendModelRequest, ActOnAnswer, ReconcileBeforeProposal,
              ProposeCompletion, Attempt, Answer, AnswerDiffers, AttemptFails, RetryDelayOver,
              at, Running
<1>4. CASE \/ NextCall \/ RejectCall \/ Authorize \/ ActOnAuthorization \/ AskQuestion
           \/ RequestInteraction \/ RecheckRevision \/ StartTool
  BY <1>4 DEF NextCall, RejectCall, Authorize, ActOnAuthorization, AskQuestion,
              RequestInteraction, RecheckRevision, StartTool, at, Running
<1>5. CASE \/ ReconcileForReview \/ Judge \/ PrepareVerification \/ StartVerification
           \/ CommitVerification \/ RejectCompletion \/ ReconcileAfterVerification \/ Decide
           \/ VerifierReturns
  BY <1>5 DEF ReconcileForReview, Judge, PrepareVerification, StartVerification,
              CommitVerification, RejectCompletion, ReconcileAfterVerification, Decide,
              VerifierReturns, at, Running
<1>6. CASE ToolWrites
  BY <1>1, <1>6 DEF ToolWrites, WorkerType, at, Running
<1>7. CASE ToolReturns
  BY <1>1, <1>7, Places DEF ToolReturns, Running
<1>8. CASE HandleControl \/ DeadlineExpires
  <2>1. w.pc = "running"
    BY <1>8 DEF HandleControl, DeadlineExpires, Listening, WatchesClock, Running
  <2>2. \A g : StopAs(g).pc = "settle"
    BY <1>1, <2>1, Places DEF StopAs, CutOff, at
  <2>3. \A a : ReplyAs(a) = w
    BY <2>1 DEF ReplyAs, at
  <2>4. \/ w' = w \/ w' = End("Failed") \/ (\E g : w' = StopAs(g)) \/ (\E a : w' = ReplyAs(a))
    BY <1>8 DEF HandleControl, DeadlineExpires, HandleRepeated, HandleSteer, HandleStop,
                HandleResolve, HandleAccept, Publish, PublishOr
  <2> QED
    BY <1>1, <2>1, <2>2, <2>3, <2>4, Places DEF Running
<1>9. CASE AwaitHost \/ PublishTerminal \/ Crash
  BY <1>9 DEF AwaitHost, PublishTerminal, PublishOr, Crash, Down, Worker, Running
<1>10. CASE Resume \/ AcceptCompletion
  <2>1. PICK live, spare, replay : w' = Worker("boot", live, spare, replay)
    BY <1>10, Zenon DEF Resume, AcceptCompletion, Launch
  <2> QED
    BY <2>1 DEF Worker, Running
<1>11. CASE Send \/ Edit \/ DeadlinePasses \/ UNCHANGED vars
  BY <1>11 DEF Send, Edit, DeadlinePasses, vars
<1> QED
  BY <1>2, <1>3, <1>4, <1>5, <1>6, <1>7, <1>8, <1>9, <1>10, <1>11 DEF Next, Proceed

\* Every step keeps the tool calls apart.
LEMMA RanStep ==
    ASSUME LoopInv, RanInv, [Next]_vars
    PROVE  RanInv'
<1>1. /\ snap.calls \in Nat /\ MaxCalls \in Nat
      /\ did.ran \in [1..MaxCalls -> Nat] /\ did \in Did
  BY LoopAssumption DEF LoopInv, Sound, Snap, World, Did
<1>2. CASE ~StartTool
  <2>1. did'.ran = did.ran
    BY <1>1, <1>2, CounterFrame DEF Did
  <2>2. \A i \in 1..MaxCalls :
          /\ did'.ran[i] <= 1
          /\ i > snap'.calls => did'.ran[i] = 0
          /\ i = snap'.calls /\ snap'.tool.st = "Prepared" => did'.ran[i] = 0
    BY <1>1, <1>2, <2>1, CallMoves DEF RanInv, IdleTool
  <2>3. snap'.tool.st = "InFlight" => w'.pc \in Running
    <3>1. ASSUME snap'.tool.st = "InFlight"
          PROVE  snap.tool.st = "InFlight" /\ (CommitOutcome => snap' = snap)
      BY <1>2, <3>1, CallMoves, OutcomeEffect DEF IdleTool
    <3>2. CASE CommitOutcome
      <4>1. w \in WorkerType
        BY DEF LoopInv, Sound
      <4>2. snap' = snap => w'.pc = "final"
        <5>1. ASSUME snap' = snap, \E rev : ToolOutcomeCommittedFits(snap, w.outcome, rev)
                                   /\ snap' = ToolOutcomeCommitted(snap, rev)
              PROVE  FALSE
          <6>1. snap'.settled = snap.settled + 1 /\ snap.settled \in Nat
            BY <5>1 DEF ToolOutcomeCommitted, LoopInv, Sound, Snap
          <6> QED
            BY <5>1, <6>1
        <5>2. \/ w' = End("Failed")
              \/ \E rev : ToolOutcomeCommittedFits(snap, w.outcome, rev)
                          /\ snap' = ToolOutcomeCommitted(snap, rev)
          BY <3>2 DEF CommitOutcome, Publish, PublishOr
        <5> QED
          BY <4>1, <5>1, <5>2, Places
      <4> QED
        BY <3>1, <3>2, <4>2 DEF Running
    <3>3. CASE ~CommitOutcome
      BY <3>1, <3>3, RunningPlaces DEF RanInv, Running
    <3> QED
      BY <3>2, <3>3
  <2> QED
    BY <2>2, <2>3 DEF RanInv, Running
<1>3. CASE StartTool
  <2>1. w.pc = "start" /\ snap.tool.st # "InFlight"
    BY <1>3 DEF StartTool, at, RanInv
  <2>2. CASE snap' = snap /\ did' = did /\ w'.pc = "final"
    BY <2>1, <2>2 DEF RanInv
  <2>3. ASSUME Keeps(snap, snap', {"tool"}), snap.tool.st = "Prepared",
               snap'.tool.st = "InFlight", w'.pc = "running",
               did' = [did EXCEPT !.ran = Count(did.ran, snap.calls)]
        PROVE  RanInv'
    <3>1. did'.ran = Count(did.ran, snap.calls)
      BY <1>1, <2>3 DEF Did
    <3>2. snap'.calls = snap.calls
      BY <2>3 DEF Keeps, Fields
    <3>3. \A i \in 1..MaxCalls : did'.ran[i] = IF i = snap.calls THEN did.ran[i] + 1 ELSE did.ran[i]
      BY <1>1, <3>1, CountType
    <3> QED
      BY <1>1, <2>3, <3>2, <3>3 DEF RanInv
  <2> QED
    BY <1>3, <2>1, <2>2, <2>3, StartToolEffect DEF ToolExecutionStartedFits
<1> QED
  BY <1>2, <1>3

\* What a step may do to the candidate and its verification.
LEMMA CandidateMoves ==
    ASSUME LoopInv, [Next]_vars, ~PrepareVerification, ~StartVerification
    PROVE  \/ /\ snap'.turns = snap.turns /\ snap'.candidate = snap.candidate
              /\ snap'.rejection = snap.rejection /\ snap'.check = snap.check
              /\ snap.ws.gen <= snap'.ws.gen
           \/ /\ snap'.turns = snap.turns + 1 /\ snap.candidate = None /\ snap'.candidate = None
              /\ snap'.check = snap.check
           \/ /\ snap'.turns = snap.turns /\ snap.candidate = None
              /\ snap'.candidate = [turn |-> snap.turns, ws |-> snap.ws] /\ snap'.candidate # None
              /\ snap.rejection # None => snap.rejection.turn # snap.turns
              /\ snap'.ws = snap.ws /\ snap'.check = snap.check
           \/ /\ snap'.turns = snap.turns /\ snap.candidate # None
              /\ snap'.candidate = snap.candidate
              /\ snap'.check.st = "None" /\ snap'.ws.gen = snap.ws.gen + 1
           \/ /\ snap'.turns = snap.turns /\ snap.candidate # None /\ snap'.candidate = None
              /\ snap'.rejection # None /\ snap'.rejection.turn = snap.turns
              /\ snap'.check = snap.check
<1>0. snap.ws.gen \in Nat
  BY DEF LoopInv, Sound, Snap, Workspace
<1>1. CASE Unpublished
  BY <1>0, <1>1, UnpublishedEffect
<1>2. CASE HandleControl \/ PublishTerminal
  BY <1>0, <1>2, ControlFrame DEF Keeps, Fields
<1>3. CASE \/ ApplySteer \/ ReconcileAtBoundary \/ ReconcileBeforeProposal \/ ReconcileForReview
           \/ ReconcileAfterVerification
  BY <1>0, <1>3, HeadEffect DEF Keeps, Fields
<1>4. CASE PrepareModelRequest
  BY <1>0, <1>4, PrepareEffect DEF Keeps, Fields
<1>5. CASE SendModelRequest \/ Answer \/ AttemptFails
  BY <1>0, <1>5, AttemptEffect, SendEffect DEF Keeps, Fields
<1>6. CASE ProposeCompletion
  BY <1>0, <1>6, ProposeEffect DEF Keeps, Fields
<1>7. CASE NextCall \/ Authorize \/ RequestInteraction
  BY <1>0, <1>7, CallEffect DEF Keeps, Fields
<1>8. CASE StartTool \/ CommitOutcome
  BY <1>0, <1>8, StartToolEffect, OutcomeEffect DEF Keeps, Fields
<1>9. CASE CommitVerification
  BY <1>0, <1>9, VerdictEffect DEF Keeps, Fields
<1>10. CASE RejectCompletion
  BY <1>0, <1>10, RejectEffect DEF Keeps, Fields
<1> QED
  BY <1>1, <1>2, <1>3, <1>4, <1>5, <1>6, <1>7, <1>8, <1>9, <1>10, StepKinds DEF Appends

\* Where a worker can be while its verifier runs, or after it died there.
Checking == {"boot", "checking", "sealing", "final", "down", "done"}

\* From there it commits the verdict, or it ends, or it is started again.
LEMMA CheckingPlaces ==
    ASSUME LoopInv, [Next]_vars, w.pc \in Checking, snap.check.st = "InFlight"
    PROVE  w'.pc \in Checking \/ CommitVerification
<1>1. w \in WorkerType /\ Ambiguous
  BY DEF LoopInv, Sound, Ambiguous
<1>2. CASE Recover
  BY <1>1, <1>2, Places DEF Recover, Checking
<1>3. CASE \/ RecoveredControls \/ ControlsDrained \/ ApplySteer \/ ReconcileAtBoundary
           \/ SteersFlushed \/ BeginTurn \/ CompactContext \/ ContextLimitExceeded
           \/ PrepareModelRequest \/ SendModelRequest \/ ActOnAnswer \/ ReconcileBeforeProposal
           \/ ProposeCompletion \/ Attempt \/ RetryDelayOver
  BY <1>3 DEF RecoveredControls, ControlsDrained, ApplySteer, ReconcileAtBoundary,
              SteersFlushed, BeginTurn, CompactContext, ContextLimitExceeded,
              PrepareModelRequest, SendModelRequest, ActOnAnswer, ReconcileBeforeProposal,
              ProposeCompletion, Attempt, Answer, AnswerDiffers, AttemptFails, RetryDelayOver,
              at, Checking
<1>4. CASE \/ NextCall \/ RejectCall \/ Authorize \/ ActOnAuthorization \/ AskQuestion
           \/ RequestInteraction \/ RecheckRevision \/ StartTool \/ ToolWrites \/ ToolReturns
           \/ CommitOutcome \/ HandleControl \/ DeadlineExpires
  BY <1>4 DEF NextCall, RejectCall, Authorize, ActOnAuthorization, AskQuestion,
              RequestInteraction, RecheckRevision, StartTool, ToolWrites, ToolReturns,
              CommitOutcome, HandleControl, DeadlineExpires, Listening, WatchesClock, at, Checking
<1>5. CASE \/ ReconcileForReview \/ Judge \/ PrepareVerification \/ StartVerification
           \/ RejectCompletion \/ ReconcileAfterVerification \/ Decide
  BY <1>5 DEF ReconcileForReview, Judge, PrepareVerification, StartVerification,
              RejectCompletion, ReconcileAfterVerification, Decide, at, Checking
<1>6. CASE VerifierReturns
  <2>1. PICK v : w' = [Go("sealing") EXCEPT !.verdict = v]
    BY <1>6 DEF VerifierReturns
  <2> QED
    BY <1>1, <2>1 DEF Go, WorkerType, Checking
<1>7. CASE AwaitHost \/ PublishTerminal \/ Crash
  BY <1>7 DEF AwaitHost, PublishTerminal, PublishOr, Crash, Down, Worker, Checking
<1>8. CASE Resume \/ AcceptCompletion
  <2>1. PICK live, spare, replay : w' = Worker("boot", live, spare, replay)
    BY <1>8, Zenon DEF Resume, AcceptCompletion, Launch
  <2> QED
    BY <2>1 DEF Worker, Checking
<1>9. CASE Send \/ Edit \/ DeadlinePasses \/ UNCHANGED vars
  BY <1>9 DEF Send, Edit, DeadlinePasses, vars
<1> QED
  BY <1>2, <1>3, <1>4, <1>5, <1>6, <1>7, <1>8, <1>9 DEF Next, Proceed

\* Every step keeps the verifications apart.
LEMMA VerifiedStep ==
    ASSUME LoopInv, VerifiedInv, [Next]_vars
    PROVE  VerifiedInv'
<1>1. /\ snap.turns \in Nat /\ MaxRequests \in Nat /\ snap.ws.gen \in Nat
      /\ did.verified \in [1..MaxRequests -> Nat] /\ did \in Did
      /\ snap.candidate # None => snap.candidate.ws.gen \in Nat
  BY LoopAssumption DEF LoopInv, Sound, Snap, World, Did, Workspace, Candidate
<1>2. /\ snap.candidate # None => snap.candidate.turn = snap.turns
      /\ snap.check.st # "None" => snap.candidate # None
      /\ snap.check.st \in {"None", "Prepared", "InFlight"}
  BY DEF LoopInv, Sound, Coherent, Snap, CheckState
<1>3. CASE ~PrepareVerification /\ ~StartVerification
  <2>1. did'.verified = did.verified
    BY <1>1, <1>3, CounterFrame DEF Did
  <2>2. /\ \A i \in 1..MaxRequests :
              /\ did'.verified[i] <= 1
              /\ i > snap'.turns => did'.verified[i] = 0
              /\ i = snap'.turns /\ did'.verified[i] # 0 =>
                    IF snap'.candidate = None
                    THEN snap'.rejection # None /\ snap'.rejection.turn = snap'.turns
                    ELSE \/ snap'.check.st = "InFlight"
                         \/ snap'.check.st = "None" /\ snap'.candidate.ws.gen < snap'.ws.gen
        /\ snap'.candidate # None => snap'.candidate.ws.gen <= snap'.ws.gen
    <3>1. CASE /\ snap'.turns = snap.turns /\ snap'.candidate = snap.candidate
               /\ snap'.rejection = snap.rejection /\ snap'.check = snap.check
               /\ snap.ws.gen <= snap'.ws.gen
      <4>1. snap'.ws.gen \in Nat
        BY LoopInvStep DEF LoopInv, Sound, Snap, Workspace
      <4> QED
        BY <1>1, <2>1, <3>1, <4>1 DEF VerifiedInv
    <3>2. CASE snap'.turns = snap.turns + 1 /\ snap.candidate = None /\ snap'.candidate = None
      BY <1>1, <2>1, <3>2 DEF VerifiedInv
    <3>3. CASE /\ snap'.turns = snap.turns /\ snap.candidate = None
               /\ snap'.candidate = [turn |-> snap.turns, ws |-> snap.ws]
               /\ snap'.candidate # None
               /\ snap.rejection # None => snap.rejection.turn # snap.turns
               /\ snap'.ws = snap.ws
      <4>1. \A i \in 1..MaxRequests : i = snap.turns => did.verified[i] = 0
        BY <1>1, <3>3 DEF VerifiedInv
      <4>2. snap'.candidate.ws = snap.ws
        BY <3>3
      <4> QED
        BY <1>1, <2>1, <3>3, <4>1, <4>2 DEF VerifiedInv
    <3>4. CASE /\ snap'.turns = snap.turns /\ snap.candidate # None
               /\ snap'.candidate = snap.candidate
               /\ snap'.check.st = "None" /\ snap'.ws.gen = snap.ws.gen + 1
      BY <1>1, <2>1, <3>4 DEF VerifiedInv
    <3>5. CASE /\ snap'.turns = snap.turns /\ snap.candidate # None /\ snap'.candidate = None
               /\ snap'.rejection # None /\ snap'.rejection.turn = snap.turns
      BY <1>1, <2>1, <3>5 DEF VerifiedInv
    <3> QED
      BY <1>3, <3>1, <3>2, <3>3, <3>4, <3>5, CandidateMoves
  <2>3. snap'.check.st = "InFlight" => w'.pc \in Checking
    <3> SUFFICES ASSUME snap'.check.st = "InFlight"
                 PROVE  w'.pc \in Checking
      OBVIOUS
    <3>1. snap.check.st = "InFlight"
      BY <1>2, <1>3, CandidateMoves
    <3>2. CASE CommitVerification
      BY <3>2, VerdictEffect DEF Checking
    <3> QED
      BY <3>1, <3>2, CheckingPlaces DEF VerifiedInv, Checking
  <2> QED
    BY <2>2, <2>3 DEF VerifiedInv, Checking
<1>4. CASE PrepareVerification \/ StartVerification
  <2>1. w.pc = "verify" /\ snap.check.st # "InFlight"
    BY <1>4 DEF PrepareVerification, StartVerification, at, VerifiedInv
  <2>2. CASE snap' = snap /\ did' = did
    BY <2>1, <2>2 DEF VerifiedInv
  <2>3. CASE /\ Keeps(snap, snap', {"check"}) /\ snap'.check.st = "Prepared" /\ did' = did
             /\ snap.check.st = "None" /\ snap.candidate # None /\ snap.candidate.ws = snap.ws
    <3>1. \A i \in 1..MaxRequests : i = snap.turns => did.verified[i] = 0
      BY <1>1, <2>3 DEF VerifiedInv
    <3>2. /\ snap'.turns = snap.turns /\ snap'.candidate = snap.candidate
          /\ snap'.rejection = snap.rejection /\ snap'.ws = snap.ws
      BY <2>3 DEF Keeps, Fields
    <3> QED
      BY <1>1, <2>3, <3>1, <3>2 DEF VerifiedInv
  <2>4. CASE /\ Keeps(snap, snap', {"check"}) /\ snap'.check.st = "InFlight"
             /\ snap.check.st = "Prepared" /\ w'.pc = "checking"
             /\ did' = [did EXCEPT !.verified = Count(did.verified, snap.candidate.turn)]
    <3>1. \A i \in 1..MaxRequests : i = snap.turns => did.verified[i] = 0
      BY <1>1, <1>2, <2>4 DEF VerifiedInv
    <3>2. /\ snap'.turns = snap.turns /\ snap'.candidate = snap.candidate
          /\ snap'.rejection = snap.rejection /\ snap'.ws = snap.ws
      BY <2>4 DEF Keeps, Fields
    <3>3. did'.verified = Count(did.verified, snap.turns)
      BY <1>1, <1>2, <2>4 DEF Did
    <3>4. \A i \in 1..MaxRequests :
            did'.verified[i] = IF i = snap.turns THEN did.verified[i] + 1 ELSE did.verified[i]
      BY <1>1, <3>3, CountType
    <3> QED
      BY <1>1, <1>2, <2>4, <3>1, <3>2, <3>4 DEF VerifiedInv
  <2> QED
    BY <1>4, <2>1, <2>2, <2>3, <2>4, CheckEffect
<1> QED
  BY <1>3, <1>4

\* However often the process dies and is restarted, a model request goes out, a
\* tool runs and a verifier runs at most once.
THEOREM EffectsAtMostOnce == Spec => []AtMostOnce
<1>1. Init => SentInv /\ RanInv /\ VerifiedInv
  <2> SUFFICES ASSUME Init PROVE SentInv /\ RanInv /\ VerifiedInv
    OBVIOUS
  <2>1. /\ snap.candidate = None /\ snap.tool.st = "None" /\ snap.check.st = "None"
        /\ snap.model.st = "None" /\ snap.turns = 0
    BY DEF Init, NewSnapshot, IdleTool, NoCheck, IdleModel
  <2>2. /\ did.sent = [i \in 1..MaxRequests |-> 0] /\ did.ran = [i \in 1..MaxCalls |-> 0]
        /\ did.verified = [i \in 1..MaxRequests |-> 0]
    BY DEF Init
  <2> QED
    BY <2>1, <2>2 DEF SentInv, RanInv, VerifiedInv
<1>2. LoopInv /\ SentInv /\ RanInv /\ VerifiedInv /\ [Next]_vars => (SentInv /\ RanInv /\ VerifiedInv)'
  BY SentStep, RanStep, VerifiedStep
<1>3. LoopInv /\ SentInv /\ RanInv /\ VerifiedInv => AtMostOnce
  <2> SUFFICES ASSUME LoopInv, SentInv, RanInv, VerifiedInv
               PROVE  AtMostOnce
    OBVIOUS
  <2>1. /\ DOMAIN did.sent = 1..MaxRequests /\ DOMAIN did.ran = 1..MaxCalls
        /\ DOMAIN did.verified = 1..MaxRequests
    BY DEF LoopInv, World, Did
  <2> QED
    BY <2>1 DEF AtMostOnce, SentInv, RanInv, VerifiedInv
<1> QED
  BY <1>1, <1>2, <1>3, LoopCoherent, PTL DEF Spec

-----------------------------------------------------------------------------
(* No tool runs unapproved *)

\* Where a worker stands once it was decided that a call may be executed.
Cleared == {"authorized", "recheck", "start", "running"}

\* It comes there with a tool that can be executed, and to the point where it
\* commits a verdict with one from the verifier.
LEMMA ClearedPlaces ==
    ASSUME LoopInv, ApprovedInv, [Next]_vars, w'.pc \in Cleared \cup {"sealing"}
    PROVE  \/ /\ w'.pc \in Cleared /\ Executable(snap.tool.kind)
              /\ ~NextCall /\ ~CommitOutcome
           \/ w'.pc = "sealing" /\ (w' = w \/ VerifierReturns)
<1>1. w \in WorkerType
  BY DEF LoopInv, Sound
<1>2. w.pc \in Cleared => Executable(snap.tool.kind)
  BY DEF ApprovedInv, Cleared
<1>3. CASE \/ Recover \/ RecoveredControls \/ ControlsDrained \/ SteersFlushed \/ BeginTurn
  <2>1. \A p : [Go(p) EXCEPT !.replay = FALSE].pc = p
    BY <1>1 DEF Go, WorkerType
  <2>2. CASE Recover
    <3>1. \/ \E g : w' = End(g)
          \/ w' \in {Go("reject"), Go("bootDrain"), Go("review"), Go("loop")}
          \/ w' = [Go("loop") EXCEPT !.replay = FALSE]
      BY <2>2 DEF Recover, AfterRejection
    <3> QED
      BY <1>1, <2>1, <3>1, Places DEF Cleared
  <2>3. CASE RecoveredControls \/ ControlsDrained \/ SteersFlushed \/ BeginTurn
    <3>1. \/ \E g : w' = End(g)
          \/ w' \in {Go("review"), Go("edge"), Go("loop"), Go("backoff"), Go("send"), Go("prepare")}
          \/ w' = [Go("act") EXCEPT !.replay = FALSE]
      BY <2>3 DEF RecoveredControls, ControlsDrained, SteersFlushed, BeginTurn, ReplayAnswer
    <3> QED
      BY <1>1, <2>1, <3>1, Places, ZenonT(60) DEF Cleared
  <2> QED
    BY <1>3, <2>2, <2>3
<1>4. CASE \/ ApplySteer \/ ReconcileAtBoundary \/ CompactContext \/ ContextLimitExceeded
           \/ PrepareModelRequest \/ SendModelRequest \/ ActOnAnswer \/ ReconcileBeforeProposal
           \/ ProposeCompletion \/ Attempt \/ RetryDelayOver
  <2>1. CASE ApplySteer
    <3>1. w'.pc \in {"edge", "flush", "final"}
      BY <1>1, <2>1, Places DEF ApplySteer, Publish, PublishOr, at
    <3> QED
      BY <3>1 DEF Cleared
  <2>2. CASE ReconcileAtBoundary \/ ReconcileBeforeProposal
    <3>1. w' \in {Go("turn"), Go("propose"), End("Failed")}
      BY <2>2, ReconcileEffect DEF ReconcileAtBoundary, ReconcileBeforeProposal
    <3> QED
      BY <1>1, <3>1, Places DEF Cleared
  <2>3. CASE \/ CompactContext \/ ContextLimitExceeded \/ SendModelRequest \/ ProposeCompletion
             \/ Attempt \/ RetryDelayOver
    <3>1. w'.pc \in {"compacted", "final", "stream", "review", "act", "backoff", "send"}
      BY <1>1, <2>3, Places
         DEF CompactContext, ContextLimitExceeded, SendModelRequest, ProposeCompletion, Attempt,
             Answer, AnswerDiffers, AttemptFails, RetryDelayOver, Publish, PublishOr
    <3> QED
      BY <3>1 DEF Cleared
  <2>4. CASE PrepareModelRequest
    <3>1. w'.pc \in {"final", "send"}
      <4>1. PICK x : x = (Go("send").spare /\ ~TerminalTurn)
        BY Zenon
      <4>2. w' = End("Failed") \/ w' = [Go("send") EXCEPT !.spare = x]
        BY <2>4, <4>1, Zenon DEF PrepareModelRequest, Publish, PublishOr
      <4>3. [Go("send") EXCEPT !.spare = x].pc = "send"
        BY <1>1 DEF Go, WorkerType
      <4>4. End("Failed").pc = "final"
        BY <1>1, Places
      <4> QED
        BY <4>2, <4>3, <4>4, Zenon
    <3> QED
      BY <3>1 DEF Cleared
  <2>5. CASE ActOnAnswer
    <3>1. snap.output.kind \in {"Stop", "Blank", "Calls", "Invalid"}
      BY <2>5 DEF ActOnAnswer, at, LoopInv, Sound, Placed, Snap, Output
    <3>2. w'.pc \in {"final", "call", "flush", "sync"}
      BY <1>1, <2>5, <3>1, Places DEF ActOnAnswer
    <3> QED
      BY <3>2 DEF Cleared
  <2> QED
    BY <1>4, <2>1, <2>2, <2>3, <2>4, <2>5
<1>5. CASE NextCall \/ RejectCall \/ AskQuestion
  <2>1. w'.pc \in {"flush", "gate", "final", "settle", "ask"}
    BY <1>1, <1>5, Places DEF NextCall, RejectCall, AskQuestion, Publish, PublishOr, Rejected
  <2> QED
    BY <2>1 DEF Cleared
<1>6. CASE Authorize
  <2>1. w'.pc \in {"authorized", "final"} /\ w.pc = "gate"
    BY <1>1, <1>6, Places DEF Authorize, Publish, PublishOr, at
  <2> QED
    BY <1>6, <2>1 DEF Authorize, NextCall, CommitOutcome, at, Cleared
<1>7. CASE \/ ActOnAuthorization \/ RecheckRevision \/ StartTool \/ ToolWrites \/ ToolReturns
  <2>1. w.pc \in Cleared /\ ~NextCall /\ ~CommitOutcome
    BY <1>7 DEF ActOnAuthorization, RecheckRevision, StartTool, ToolWrites, ToolReturns,
                NextCall, CommitOutcome, at, Cleared
  <2>2. w'.pc # "sealing"
    <3>1. CASE ActOnAuthorization \/ RecheckRevision \/ ToolReturns
      BY <1>1, <3>1, Places DEF ActOnAuthorization, RecheckRevision, ToolReturns, Rejected
    <3>2. CASE StartTool
      <4>1. [Go("running") EXCEPT !.wrote = FALSE].pc = "running"
        BY <1>1 DEF Go, WorkerType
      <4> QED
        BY <1>1, <3>2, <4>1, Places DEF StartTool, Publish, PublishOr
    <3>3. CASE ToolWrites
      BY <1>1, <3>3 DEF ToolWrites, WorkerType, at
    <3> QED
      BY <1>7, <3>1, <3>2, <3>3
  <2> QED
    BY <1>2, <2>1, <2>2
<1>8. \A a : /\ Replied(a).pc \in Cleared => Executable(snap.tool.kind)
            /\ Replied(a).pc # "sealing"
  BY <1>1, Places DEF Replied, Rejected, Cleared
<1>9. CASE RequestInteraction
  <2>1. w' = Go("wait") \/ w' = End("Failed") \/ (\E a : w' = Replied(a))
    BY <1>9 DEF RequestInteraction, Publish, PublishOr
  <2>2. w.pc = "ask"
    BY <1>9 DEF RequestInteraction, at
  <2> QED
    BY <1>1, <1>8, <2>1, <2>2, Places DEF Cleared, NextCall, CommitOutcome, at
<1>10. CASE CommitOutcome
  <2>1. [Go("call") EXCEPT !.outcome = None, !.wrote = FALSE].pc = "call"
    BY <1>1 DEF Go, WorkerType
  <2>2. w'.pc \in {"final", "call"}
    BY <1>1, <1>10, <2>1, Places DEF CommitOutcome, Publish, PublishOr
  <2> QED
    BY <2>2 DEF Cleared
<1>11. CASE HandleControl \/ DeadlineExpires
  <2>1. \A g : StopAs(g).pc \in {"settle", "final"}
    BY <1>1, Places DEF StopAs, CutOff
  <2>2. \/ w' = w \/ w' = End("Failed") \/ (\E g : w' = StopAs(g)) \/ (\E a : w' = ReplyAs(a))
    BY <1>11 DEF HandleControl, DeadlineExpires, HandleRepeated, HandleSteer, HandleStop,
                 HandleResolve, HandleAccept, Publish, PublishOr
  <2>3. w.pc \in {"bootDrain", "loop", "backoff", "stream", "wait", "running"}
    BY <1>11 DEF HandleControl, DeadlineExpires, Listening, WatchesClock
  <2>4. \A a : ReplyAs(a) = w \/ ReplyAs(a) = Replied(a)
    BY DEF ReplyAs
  <2>5. w'.pc \in Cleared /\ Executable(snap.tool.kind)
    BY <1>1, <1>2, <1>8, <2>1, <2>2, <2>3, <2>4, Places DEF Cleared
  <2> QED
    BY <2>3, <2>5 DEF NextCall, CommitOutcome, at
<1>12. CASE \/ ReconcileForReview \/ Judge \/ PrepareVerification \/ StartVerification
            \/ RejectCompletion \/ ReconcileAfterVerification \/ Decide \/ CommitVerification
  <2>1. w'.pc \in (Reviewing \ {"sealing"}) \cup {"loop", "final"}
    <3>1. CASE ReconcileForReview \/ ReconcileAfterVerification
      <4>1. w' \in {Go("judge"), Go("decide"), Blocked}
        BY <3>1, ReconcileEffect DEF ReconcileForReview, ReconcileAfterVerification
      <4> QED
        BY <1>1, <4>1, Places DEF Blocked, Reviewing
    <3>2. CASE Judge
      <4> DEFINE decision == [NoDecision EXCEPT
                                !.candidate = snap.candidate,
                                !.consent = IF CurrentConsent THEN snap.candidate ELSE None,
                                !.proof = IF snap.ws \in snap.proofs THEN snap.ws ELSE None]
      <4> HIDE DEF decision
      <4>1. \/ w' = Blocked
            \/ \E p \in {"verify", "close"} : w' = [w EXCEPT !.decision = decision, !.pc = p]
        BY <3>2 DEF Judge, decision
      <4>2. w'.pc \in {"verify", "close", "final"}
        BY <1>1, <4>1, Places DEF Blocked, WorkerType
      <4> QED
        BY <4>2 DEF Reviewing
    <3>3. CASE PrepareVerification \/ StartVerification
      BY <1>1, <3>3, Places
         DEF PrepareVerification, StartVerification, PublishOr, Blocked, Reviewing, at
    <3>4. CASE CommitVerification
      <4>1. \E after :
               \/ w' = Blocked
               \/ w' = [[w EXCEPT !.verdict = None] EXCEPT !.pc = "close", !.decision.proof = after]
               \/ w' = [[w EXCEPT !.verdict = None] EXCEPT !.pc = "reject", !.decision = NoDecision]
        BY <3>4, Zenon DEF CommitVerification, PublishOr
      <4>2. w'.pc \in {"close", "reject", "final"}
        BY <1>1, <4>1, Places DEF Blocked, WorkerType
      <4> QED
        BY <4>2 DEF Reviewing
    <3>5. CASE RejectCompletion
      <4>1. [Go("loop") EXCEPT !.replay = FALSE].pc = "loop"
        BY <1>1 DEF Go, WorkerType
      <4> QED
        BY <1>1, <3>5, <4>1, Places DEF RejectCompletion, PublishOr, AfterRejection, Blocked
    <3>6. CASE Decide
      <4>1. PICK d : w' = Blocked \/ w' = [End("Completed") EXCEPT !.decision = d]
        BY <3>6 DEF Decide
      <4> QED
        BY <1>1, <4>1, Places, ZenonT(60) DEF Blocked, End, WorkerType
    <3> QED
      BY <1>12, <3>1, <3>2, <3>3, <3>4, <3>5, <3>6
  <2> QED
    BY <2>1 DEF Cleared, Reviewing
<1>13. CASE AwaitHost \/ PublishTerminal \/ Crash
  BY <1>13 DEF AwaitHost, PublishTerminal, PublishOr, Crash, Down, Worker, Cleared
<1>14. CASE Resume \/ AcceptCompletion
  <2>1. PICK live, spare, replay : w' = Worker("boot", live, spare, replay)
    BY <1>14, Zenon DEF Resume, AcceptCompletion, Launch
  <2> QED
    BY <2>1 DEF Worker, Cleared
<1>15. CASE Send \/ Edit \/ DeadlinePasses \/ UNCHANGED vars
  <2>1. w' = w
    BY <1>15 DEF Send, Edit, DeadlinePasses, vars
  <2> QED
    BY <1>2, <2>1 DEF NextCall, CommitOutcome, at, Cleared
<1>16. CASE VerifierReturns
  <2>1. PICK v : w' = [Go("sealing") EXCEPT !.verdict = v]
    BY <1>16 DEF VerifierReturns
  <2> QED
    BY <1>1, <1>16, <2>1 DEF Go, WorkerType
<1> QED
  BY <1>3, <1>4, <1>5, <1>6, <1>7, <1>9, <1>10, <1>11, <1>12, <1>13, <1>14, <1>15, <1>16
     DEF Next, Proceed

\* Only an answer of the user approves a call.
LEMMA TalkMoves ==
    ASSUME LoopInv, [Next]_vars, ~HandleControl
    PROVE  /\ acked' = acked
           /\ \/ snap'.calls = snap.calls /\ snap'.tool.talk = snap.tool.talk
              \/ snap'.tool.talk # "Approved"
<1>1. CASE Unpublished
  BY <1>1, UnpublishedEffect
<1>2. CASE PublishTerminal
  <2>1. acked' = acked
    BY <1>2 DEF PublishTerminal
  <2> QED
    BY <1>2, <2>1, OutcomePublished DEF Keeps, Fields
<1>3. CASE Appends
  <2>1. acked' = acked
    BY <1>3, AppendsFrame
  <2>2. CASE \/ ApplySteer \/ ReconcileAtBoundary \/ ReconcileBeforeProposal
             \/ ReconcileForReview \/ ReconcileAfterVerification
    BY <2>1, <2>2, HeadEffect DEF Keeps, Fields
  <2>3. CASE PrepareModelRequest \/ SendModelRequest
    BY <2>1, <2>3, PrepareEffect, SendEffect DEF Keeps, Fields
  <2>4. CASE Answer \/ AttemptFails
    BY <2>1, <2>4, AttemptEffect DEF Keeps, Fields
  <2>5. CASE ProposeCompletion
    BY <2>1, <2>5, ProposeEffect DEF Keeps, Fields
  <2>6. CASE NextCall \/ Authorize \/ RequestInteraction
    BY <2>1, <2>6, CallEffect DEF Keeps, Fields
  <2>7. CASE StartTool \/ CommitOutcome
    BY <2>1, <2>7, StartToolEffect, OutcomeEffect DEF Keeps, Fields, IdleTool
  <2>8. CASE PrepareVerification \/ StartVerification
    BY <2>1, <2>8, CheckEffect DEF Keeps, Fields
  <2>9. CASE CommitVerification \/ RejectCompletion
    BY <2>1, <2>9, VerdictEffect, RejectEffect DEF Keeps, Fields
  <2> QED
    BY <1>3, <2>2, <2>3, <2>4, <2>5, <2>6, <2>7, <2>8, <2>9 DEF Appends
<1> QED
  BY <1>1, <1>2, <1>3, StepKinds

\* An acknowledgement is never taken back.
LEMMA AckedGrows ==
    ASSUME LoopInv, [Next]_vars
    PROVE  \A k \in DOMAIN acked : k \in DOMAIN acked' /\ acked'[k] = acked[k]
<1>1. acked \in Seq(Command)
  BY DEF LoopInv, World
<1>2. CASE HandleControl
  <2>1. acked' = acked \/ \E c \in Command : acked' = Append(acked, c)
    BY <1>2, ControlEffect
  <2> QED
    BY <1>1, <2>1, AppendKeeps
<1>3. CASE ~HandleControl
  BY <1>3, TalkMoves
<1> QED
  BY <1>2, <1>3

\* Every step keeps approvals acknowledged.
LEMMA ApprovedStep ==
    ASSUME LoopInv, ApprovedInv, [Next]_vars
    PROVE  ApprovedInv'
<1>1. acked \in Seq(Command)
  BY DEF LoopInv, World
<1>2. ASSUME snap'.calls = snap.calls, snap'.tool.talk = snap.tool.talk, snap'.tool.talk = "Approved"
      PROVE  \E k \in DOMAIN acked' : /\ acked'[k].kind = "Resolve"
                                      /\ acked'[k].call = snap'.calls
                                      /\ acked'[k].answer = "Approved"
  BY <1>2, AckedGrows DEF ApprovedInv
<1>3. ASSUME snap'.tool.talk = "Approved"
      PROVE  \E k \in DOMAIN acked' : /\ acked'[k].kind = "Resolve"
                                      /\ acked'[k].call = snap'.calls
                                      /\ acked'[k].answer = "Approved"
  <2>1. CASE ~HandleControl
    BY <1>2, <1>3, <2>1, TalkMoves
  <2>2. CASE HandleControl
    <3>1. ASSUME NEW c \in Command, acked' = Append(acked, c), c.kind = "Resolve",
                 c.call = snap.calls, Keeps(snap, snap', {"tool", "receipts"}),
                 snap'.tool.talk = c.answer
          PROVE  \E k \in DOMAIN acked' : /\ acked'[k].kind = "Resolve"
                                          /\ acked'[k].call = snap'.calls
                                          /\ acked'[k].answer = "Approved"
      <4>1. Len(acked) + 1 \in DOMAIN acked' /\ acked'[Len(acked) + 1] = c
        BY <1>1, <3>1, AppendKeeps
      <4>2. snap'.calls = snap.calls
        BY <3>1 DEF Keeps, Fields
      <4> QED
        BY <1>3, <3>1, <4>1, <4>2
    <3>2. CASE \/ snap' = snap
               \/ Keeps(snap, snap', {"ws"})
               \/ Keeps(snap, snap', {"steers", "receipts"})
               \/ Keeps(snap, snap', {"control", "receipts"})
               \/ Keeps(snap, snap', {"consents", "receipts"})
      <4>1. snap'.calls = snap.calls /\ snap'.tool.talk = snap.tool.talk
        BY <3>2 DEF Keeps, Fields
      <4> QED
        BY <1>2, <1>3, <4>1
    <3> QED
      BY <2>2, <3>1, <3>2, ControlEffect
  <2> QED
    BY <2>1, <2>2
<1>4. ASSUME w'.pc \in Cleared PROVE Executable(snap'.tool.kind)
  <2>1. Executable(snap.tool.kind) /\ ~NextCall /\ ~CommitOutcome
    BY <1>4, ClearedPlaces DEF Cleared
  <2>2. CASE StartTool
    BY <2>1, <2>2, StartToolEffect
  <2>3. CASE ~StartTool
    BY <2>1, <2>3, CallMoves
  <2> QED
    BY <2>2, <2>3
<1> QED
  BY <1>3, <1>4 DEF ApprovedInv, Cleared

\* A tool starts only if its authorization allows it or the user was asked and
\* approved this very call, through restarts and late answers to other calls.
THEOREM StartsApproved == Spec => NoUnapprovedRun
<1> DEFINE Approved == \/ snap.tool.auth = "Allow"
                       \/ /\ snap.tool.auth = "Ask"
                          /\ \E k \in DOMAIN acked : /\ acked[k].kind = "Resolve"
                                                     /\ acked[k].call = snap.calls
                                                     /\ acked[k].answer = "Approved"
<1>1. Init => ApprovedInv /\ RanInv
  <2> SUFFICES ASSUME Init PROVE ApprovedInv /\ RanInv
    OBVIOUS
  <2>1. snap.tool = IdleTool /\ snap.calls = 0
    BY DEF Init, NewSnapshot
  <2>2. w.pc = "loop"
    BY DEF Init, Worker
  <2>3. did.ran = [i \in 1..MaxCalls |-> 0]
    BY DEF Init
  <2> QED
    BY <2>1, <2>2, <2>3 DEF ApprovedInv, RanInv, IdleTool
<1>2. LoopInv /\ ApprovedInv /\ RanInv /\ [Next]_vars => (ApprovedInv /\ RanInv)'
  BY ApprovedStep, RanStep
<1>3. ASSUME LoopInv, ApprovedInv, RanInv, [Next]_vars, did'.ran # did.ran
      PROVE  Approved
  <2>1. StartTool
    <3>1. did \in Did
      BY <1>3 DEF LoopInv, World
    <3> QED
      BY <1>3, <3>1, CounterFrame DEF Did
  <2>2. w.pc = "start"
    BY <2>1 DEF StartTool, at
  <2>3. Executable(snap.tool.kind) /\ snap.tool.st # "InFlight"
    BY <1>3, <2>2 DEF ApprovedInv, RanInv
  <2>4. ToolExecutionStartedFits(snap)
    BY <1>3, <2>1, <2>3, StartToolEffect
  <2> QED
    BY <1>3, <2>3, <2>4 DEF ToolExecutionStartedFits, ApprovedInv
<1>4. LoopInv /\ ApprovedInv /\ RanInv /\ [Next]_vars => [did'.ran # did.ran => Approved]_vars
  BY <1>3
<1> QED
  BY <1>1, <1>2, <1>4, LoopCoherent, PTL DEF Spec, NoUnapprovedRun

-----------------------------------------------------------------------------
(* A completed run meets its contract *)

\* Evidence is added only by a passing verdict.
LEMMA ProofMoves ==
    ASSUME LoopInv, [Next]_vars
    PROVE  \/ snap'.proofs = snap.proofs
           \/ /\ snap'.proofs = snap.proofs \cup {snap'.ws} /\ CommitVerification
              /\ w.verdict.verdict = "Passed" /\ w.verdict.rev = snap'.ws.rev
<1>1. CASE Unpublished
  BY <1>1, UnpublishedEffect
<1>2. CASE HandleControl \/ PublishTerminal
  BY <1>2, ControlFrame DEF Keeps, Fields
<1>3. CASE \/ ApplySteer \/ ReconcileAtBoundary \/ ReconcileBeforeProposal \/ ReconcileForReview
           \/ ReconcileAfterVerification
  BY <1>3, HeadEffect DEF Keeps, Fields
<1>4. CASE PrepareModelRequest \/ SendModelRequest
  BY <1>4, PrepareEffect, SendEffect DEF Keeps, Fields
<1>5. CASE Answer \/ AttemptFails
  BY <1>5, AttemptEffect DEF Keeps, Fields
<1>6. CASE ProposeCompletion
  BY <1>6, ProposeEffect DEF Keeps, Fields
<1>7. CASE NextCall \/ Authorize \/ RequestInteraction
  BY <1>7, CallEffect DEF Keeps, Fields
<1>8. CASE StartTool \/ CommitOutcome
  BY <1>8, StartToolEffect, OutcomeEffect DEF Keeps, Fields
<1>9. CASE PrepareVerification \/ StartVerification
  BY <1>9, CheckEffect DEF Keeps, Fields
<1>10. CASE CommitVerification
  BY <1>10, VerdictEffect DEF Keeps, Fields
<1>11. CASE RejectCompletion
  BY <1>11, RejectEffect DEF Keeps, Fields
<1> QED
  BY <1>1, <1>2, <1>3, <1>4, <1>5, <1>6, <1>7, <1>8, <1>9, <1>10, <1>11, StepKinds DEF Appends

\* A consent is added only by an acknowledged acceptance.
LEMMA ConsentMoves ==
    ASSUME LoopInv, [Next]_vars
    PROVE  \/ snap'.consents = snap.consents
           \/ \E c \in Command : /\ acked' = Append(acked, c) /\ c.kind = "Accept"
                                 /\ snap'.consents = snap.consents \cup {c.candidate}
<1>1. CASE Unpublished
  BY <1>1, UnpublishedEffect
<1>2. CASE Appends
  BY <1>2, AppendsFrame
<1>3. CASE PublishTerminal
  BY <1>3, OutcomePublished DEF Keeps, Fields
<1>4. CASE HandleControl
  <2>1. CASE \/ snap' = snap
             \/ Keeps(snap, snap', {"ws"})
             \/ Keeps(snap, snap', {"steers", "receipts"})
             \/ Keeps(snap, snap', {"control", "receipts"})
             \/ Keeps(snap, snap', {"tool", "receipts"})
    BY <2>1 DEF Keeps, Fields
  <2> QED
    BY <1>4, <2>1, ControlEffect
<1> QED
  BY <1>1, <1>2, <1>3, <1>4, StepKinds

\* The outcome of the run is written once.
LEMMA OutcomeMoves ==
    ASSUME LoopInv, [Next]_vars
    PROVE  \/ snap' = snap
           \/ snap'.terminal = None
           \/ /\ Keeps(snap, snap', {"terminal"})
              /\ snap'.terminal = "Completed" => DecisionFits(snap, w.decision)
<1>1. CASE snap.terminal # None
  BY <1>1, Frozen
<1>2. CASE snap.terminal = None
  <2>1. CASE Unpublished
    BY <2>1, UnpublishedEffect
  <2>2. CASE Appends
    BY <1>2, <2>2, AppendsFrame
  <2>3. CASE PublishTerminal
    BY <2>3, OutcomePublished DEF TerminalFits
  <2>4. CASE HandleControl
    <3>1. CASE \/ snap' = snap
               \/ Keeps(snap, snap', {"ws"})
               \/ Keeps(snap, snap', {"steers", "receipts"})
               \/ Keeps(snap, snap', {"control", "receipts"})
               \/ Keeps(snap, snap', {"tool", "receipts"})
               \/ Keeps(snap, snap', {"consents", "receipts"})
      BY <1>2, <3>1 DEF Keeps, Fields
    <3> QED
      BY <2>4, <3>1, ControlEffect
  <2> QED
    BY <2>1, <2>2, <2>3, <2>4, StepKinds
<1> QED
  BY <1>1, <1>2

\* Every step keeps evidence true and consents acknowledged.
LEMMA ProvenStep ==
    ASSUME LoopInv, ApprovedInv, ProvenInv, [Next]_vars
    PROVE  ProvenInv'
<1>1. \A p \in snap'.proofs : p.rev \in Good
  <2>1. ASSUME CommitVerification, w.verdict.verdict = "Passed", w.verdict.rev = snap'.ws.rev
        PROVE  snap'.ws.rev \in Good
    BY <2>1 DEF CommitVerification, at, ProvenInv
  <2> QED
    BY <2>1, ProofMoves DEF ProvenInv
<1>2. ASSUME w'.pc = "sealing", w'.verdict.verdict = "Passed" PROVE w'.verdict.rev \in Good
  <2>1. CASE w' = w
    BY <1>2, <2>1 DEF ProvenInv
  <2>2. CASE VerifierReturns
    <3>1. PICK verdict \in {IF world \in Good THEN "Passed" ELSE "Failed", "Broken"} :
            w' = [Go("sealing") EXCEPT !.verdict = [verdict |-> verdict, rev |-> world]]
      BY <2>2 DEF VerifierReturns
    <3>2. w'.verdict = [verdict |-> verdict, rev |-> world]
      BY <3>1 DEF Go, LoopInv, Sound, WorkerType
    <3> QED
      BY <1>2, <3>1, <3>2
  <2> QED
    BY <1>2, <2>1, <2>2, ClearedPlaces DEF Cleared
<1>3. \A x \in snap'.consents :
        \E k \in DOMAIN acked' : acked'[k].kind = "Accept" /\ acked'[k].candidate = x
  <2>1. ASSUME NEW x \in snap.consents
        PROVE  \E k \in DOMAIN acked' : acked'[k].kind = "Accept" /\ acked'[k].candidate = x
    BY AckedGrows DEF ProvenInv
  <2>2. ASSUME NEW c \in Command, acked' = Append(acked, c), c.kind = "Accept"
        PROVE  \E k \in DOMAIN acked' : acked'[k].kind = "Accept"
                                        /\ acked'[k].candidate = c.candidate
    <3>1. acked \in Seq(Command)
      BY DEF LoopInv, World
    <3>2. Len(acked) + 1 \in DOMAIN acked' /\ acked'[Len(acked) + 1] = c
      BY <2>2, <3>1, AppendKeeps
    <3> QED
      BY <2>2, <3>2
  <2> QED
    BY <2>1, <2>2, ConsentMoves
<1>4. ASSUME snap'.terminal = "Completed"
      PROVE  /\ "Verifier" \in Contract => snap'.ws \in snap'.proofs
             /\ "Host" \in Contract =>
                   \E x \in snap'.consents : x.turn = snap'.turns /\ x.ws.rev = snap'.ws.rev
  <2>1. CASE snap' = snap
    BY <1>4, <2>1 DEF ProvenInv
  <2>2. CASE Keeps(snap, snap', {"terminal"}) /\ DecisionFits(snap, w.decision)
    <3>1. /\ snap'.ws = snap.ws /\ snap'.proofs = snap.proofs /\ snap'.consents = snap.consents
          /\ snap'.turns = snap.turns
      BY <2>2 DEF Keeps, Fields
    <3>2. snap.candidate # None /\ snap.candidate.turn = snap.turns
      BY <2>2 DEF DecisionFits, LoopInv, Sound, Coherent
    <3> QED
      BY <2>2, <3>1, <3>2 DEF DecisionFits
  <2>3. snap'.terminal # None
    BY <1>4, ReducerAssumption DEF Terminals
  <2> QED
    BY <1>4, <2>1, <2>2, <2>3, OutcomeMoves
<1> QED
  BY <1>1, <1>2, <1>3, <1>4 DEF ProvenInv

\* A completed run really meets its contract: the verifier passes on the revision
\* the run ended with, and the host accepted the final answer for exactly that
\* revision, whatever edits, crashes and restarts came before.
THEOREM CompletionMeetsContract == Spec => []CompletedIsProven
<1>1. Init => ApprovedInv /\ ProvenInv
  <2> SUFFICES ASSUME Init PROVE ApprovedInv /\ ProvenInv
    OBVIOUS
  <2>1. /\ snap.tool = IdleTool /\ snap.proofs = {} /\ snap.consents = {}
        /\ snap.terminal = None
    BY DEF Init, NewSnapshot
  <2>2. w.pc = "loop"
    BY DEF Init, Worker
  <2>3. None # "Completed"
    BY ReducerAssumption DEF Terminals
  <2> QED
    BY <2>1, <2>2, <2>3 DEF ApprovedInv, ProvenInv, IdleTool
<1>2. LoopInv /\ ApprovedInv /\ ProvenInv /\ [Next]_vars => (ApprovedInv /\ ProvenInv)'
  BY ApprovedStep, ProvenStep
<1>3. LoopInv /\ ProvenInv => CompletedIsProven
  <2> SUFFICES ASSUME LoopInv, ProvenInv, snap.terminal = "Completed"
               PROVE  /\ "Verifier" \in Contract => snap.ws.rev \in Good
                      /\ "Host" \in Contract =>
                            \E k \in DOMAIN acked :
                               /\ acked[k].kind = "Accept"
                               /\ acked[k].candidate.turn = snap.turns
                               /\ acked[k].candidate.ws.rev = snap.ws.rev
    BY DEF CompletedIsProven
  <2> QED
    BY DEF ProvenInv
<1> QED
  BY <1>1, <1>2, <1>3, LoopCoherent, PTL DEF Spec

-----------------------------------------------------------------------------
(* Steers keep their order *)

\* The entries of queue are the ids of the steers of log, in their order.
Echoes(queue, log) ==
    LET steered == {k \in DOMAIN log : log[k].kind = "Steer"}
    IN  \E f \in [DOMAIN queue -> steered] :
           /\ \A i, j \in DOMAIN queue : i < j => f[i] < f[j]
           /\ steered = {f[i] : i \in DOMAIN queue}
           /\ \A i \in DOMAIN queue : queue[i] = log[f[i]].id

\* A command of another kind leaves the steers of the log alone.
LEMMA EchoStays ==
    ASSUME NEW log \in Seq(Command), NEW c \in Command, c.kind # "Steer",
           NEW queue \in Seq(Names), Echoes(queue, log)
    PROVE  Echoes(queue, Append(log, c))
<1> DEFINE more == Append(log, c)
           S(q) == {k \in DOMAIN q : q[k].kind = "Steer"}
<1>1. /\ DOMAIN more = 1..Len(log) + 1 /\ DOMAIN log = 1..Len(log) /\ Len(log) \in Nat
      /\ \A k \in DOMAIN log : k \in DOMAIN more /\ more[k] = log[k]
      /\ more[Len(log) + 1] = c
  BY AppendKeeps
<1> HIDE DEF more
<1>2. S(more) = S(log)
  BY <1>1
<1>3. PICK f \in [DOMAIN queue -> S(log)] :
           /\ \A i, j \in DOMAIN queue : i < j => f[i] < f[j]
           /\ S(log) = {f[i] : i \in DOMAIN queue}
           /\ \A i \in DOMAIN queue : queue[i] = log[f[i]].id
  BY DEF Echoes
<1>4. \A i \in DOMAIN queue : queue[i] = more[f[i]].id
  BY <1>1, <1>3
<1>5. f \in [DOMAIN queue -> S(more)] /\ S(more) = {f[i] : i \in DOMAIN queue}
  BY <1>2, <1>3
<1>6. Echoes(queue, more)
  BY <1>3, <1>4, <1>5 DEF Echoes
<1> QED
  BY <1>6 DEF more

\* A steer is the last one in both.
LEMMA EchoGrows ==
    ASSUME NEW log \in Seq(Command), NEW c \in Command, c.kind = "Steer",
           NEW queue \in Seq(Names), Echoes(queue, log)
    PROVE  Echoes(Append(queue, c.id), Append(log, c))
<1> DEFINE more == Append(log, c)
           last == Len(log) + 1
           long == Append(queue, c.id)
           end == Len(queue) + 1
           S(q) == {k \in DOMAIN q : q[k].kind = "Steer"}
<1>0. c.id \in Names
  BY DEF Command, Names
<1>1. /\ DOMAIN more = 1..last /\ DOMAIN log = 1..last - 1 /\ last \in Nat \ {0}
      /\ \A k \in DOMAIN log : k \in DOMAIN more /\ more[k] = log[k]
      /\ more[last] = c
  BY AppendKeeps
<1>2. /\ DOMAIN long = 1..end /\ DOMAIN queue = 1..end - 1 /\ end \in Nat \ {0}
      /\ \A k \in DOMAIN queue : k \in DOMAIN long /\ long[k] = queue[k]
      /\ long[end] = c.id
  BY <1>0, AppendKeeps
<1> HIDE DEF more, last, long, end
<1>3. S(more) = S(log) \cup {last}
  <2>1. DOMAIN more = DOMAIN log \cup {last} /\ more[last].kind = "Steer"
    BY <1>1
  <2> QED
    BY <1>1, <2>1
<1>4. PICK f \in [DOMAIN queue -> S(log)] :
           /\ \A i, j \in DOMAIN queue : i < j => f[i] < f[j]
           /\ S(log) = {f[i] : i \in DOMAIN queue}
           /\ \A i \in DOMAIN queue : queue[i] = log[f[i]].id
  BY DEF Echoes
<1> DEFINE g == [i \in DOMAIN long |-> IF i = end THEN last ELSE f[i]]
<1>5. \A i \in DOMAIN long : i # end => i \in DOMAIN queue /\ g[i] = f[i] /\ g[i] \in 1..last - 1
                                         /\ f[i] \in S(log)
  BY <1>1, <1>2, <1>4
<1>6. g[end] = last /\ end \in DOMAIN long
  BY <1>2
<1>7. g \in [DOMAIN long -> S(more)]
  BY <1>3, <1>5, <1>6
<1>8. ASSUME NEW i \in DOMAIN long, NEW j \in DOMAIN long, i < j PROVE g[i] < g[j]
  <2>1. i # end
    BY <1>2, <1>8
  <2>2. CASE j = end
    BY <1>1, <1>5, <1>6, <2>1, <2>2
  <2>3. CASE j # end
    BY <1>4, <1>5, <1>8, <2>1, <2>3
  <2> QED
    BY <2>2, <2>3
<1>9. S(more) = {g[i] : i \in DOMAIN long}
  <2>1. \A i \in DOMAIN queue : i \in DOMAIN long /\ i # end
    BY <1>2
  <2>2. \A x \in S(log) : \E i \in DOMAIN long : x = g[i]
    BY <1>4, <1>5, <2>1
  <2>3. \A i \in DOMAIN long : g[i] \in S(log) \cup {last}
    BY <1>5, <1>6
  <2> HIDE DEF g
  <2> QED
    BY <1>3, <1>6, <2>2, <2>3
<1>10. ASSUME NEW i \in DOMAIN long PROVE long[i] = more[g[i]].id
  <2>1. CASE i = end
    BY <1>1, <1>2, <1>6, <2>1
  <2>2. CASE i # end
    <3>1. long[i] = queue[i] /\ queue[i] = log[f[i]].id /\ g[i] = f[i] /\ f[i] \in DOMAIN log
      BY <1>2, <1>4, <1>5, <2>2
    <3> QED
      BY <1>1, <3>1
  <2> QED
    BY <2>1, <2>2
<1>11. Echoes(long, more)
  <2> HIDE DEF g
  <2> QED
    BY <1>7, <1>8, <1>9, <1>10 DEF Echoes
<1> QED
  BY <1>11 DEF long, more

\* Steers move from the queue to the answered ones only, and only in order.
LEMMA SteersMove ==
    ASSUME LoopInv, Appends
    PROVE  snap'.applied \o snap'.steers = snap.applied \o snap.steers
<1>1. CASE ApplySteer
  <2>1. snap.steers \in Seq(Names) /\ snap.applied \in Seq(Names) /\ snap.steers # <<>>
    BY <1>1 DEF ApplySteer, LoopInv, Sound, Snap
  <2>2. CASE snap' = snap
    BY <2>2
  <2>3. CASE snap' = SteerApplied(snap)
    <3>1. /\ snap'.applied = Append(snap.applied, Head(snap.steers))
          /\ snap'.steers = Tail(snap.steers)
      BY <2>3 DEF SteerApplied, LoopInv, Sound, Snap
    <3>2. ASSUME NEW a \in Seq(Names), NEW b \in Seq(Names), b # <<>>
          PROVE  Append(a, Head(b)) \o Tail(b) = a \o b
      <4> DEFINE u == Append(a, Head(b))
                 v == Tail(b)
      <4>1. /\ u \in Seq(Names) /\ Len(u) = Len(a) + 1 /\ u[Len(a) + 1] = b[1]
            /\ \A i \in 1..Len(a) : u[i] = a[i]
        BY <3>2, HeadTailProperties, AppendProperties
      <4>2. /\ v \in Seq(Names) /\ Len(b) = Len(v) + 1
            /\ \A i \in 1..Len(v) : v[i] = b[i + 1]
        BY <3>2, HeadTailProperties
      <4> HIDE DEF u, v
      <4>3. /\ u \o v \in Seq(Names) /\ Len(u \o v) = Len(u) + Len(v)
            /\ \A i \in 1..Len(u) + Len(v) :
                  (u \o v)[i] = IF i <= Len(u) THEN u[i] ELSE v[i - Len(u)]
        BY <4>1, <4>2, ConcatProperties
      <4>4. /\ a \o b \in Seq(Names) /\ Len(a \o b) = Len(a) + Len(b)
            /\ \A i \in 1..Len(a) + Len(b) :
                  (a \o b)[i] = IF i <= Len(a) THEN a[i] ELSE b[i - Len(a)]
        BY ConcatProperties
      <4>5. Len(a) \in Nat /\ Len(v) \in Nat
        BY <4>2
      <4> DEFINE x == u \o v
                 y == a \o b
      <4>6. /\ x \in Seq(Names) /\ y \in Seq(Names)
            /\ Len(x) = Len(a) + 1 + Len(v) /\ Len(y) = Len(a) + 1 + Len(v)
            /\ \A i \in 1..Len(a) + 1 + Len(v) :
                  /\ x[i] = IF i <= Len(a) + 1 THEN u[i] ELSE v[i - (Len(a) + 1)]
                  /\ y[i] = IF i <= Len(a) THEN a[i] ELSE b[i - Len(a)]
        BY <4>1, <4>2, <4>3, <4>4, <4>5
      <4> HIDE DEF x, y
      <4>7. ASSUME NEW i \in 1..Len(a) + 1 + Len(v) PROVE x[i] = y[i]
        <5>1. CASE i <= Len(a)
          <6>1. i <= Len(a) + 1 /\ i \in 1..Len(a)
            BY <4>5, <5>1
          <6>2. x[i] = u[i] /\ y[i] = a[i]
            BY <4>6, <5>1, <6>1
          <6> QED
            BY <4>1, <6>1, <6>2
        <5>2. CASE i = Len(a) + 1
          <6>1. ~(i <= Len(a)) /\ i - Len(a) = 1 /\ i <= Len(a) + 1
            BY <4>5, <5>2
          <6>2. x[i] = u[i] /\ y[i] = b[i - Len(a)]
            BY <4>6, <6>1
          <6> QED
            BY <4>1, <5>2, <6>1, <6>2
        <5>3. CASE i > Len(a) + 1
          <6>1. /\ i - (Len(a) + 1) \in 1..Len(v) /\ i - (Len(a) + 1) + 1 = i - Len(a)
                /\ ~(i <= Len(a)) /\ ~(i <= Len(a) + 1)
            BY <4>5, <5>3
          <6>2. x[i] = v[i - (Len(a) + 1)] /\ y[i] = b[i - Len(a)]
            BY <4>6, <6>1
          <6>3. v[i - (Len(a) + 1)] = b[i - (Len(a) + 1) + 1]
            BY <4>2, <6>1
          <6> QED
            BY <6>1, <6>2, <6>3
        <5> QED
          BY <4>5, <5>1, <5>2, <5>3
      <4>8. x = y
        BY <4>6, <4>7, SeqEqual
      <4> QED
        BY <4>8 DEF u, v, x, y
    <3> QED
      BY <2>1, <3>1, <3>2
  <2> QED
    BY <1>1, <2>2, <2>3 DEF ApplySteer, Publish, PublishOr
<1>2. CASE ~ApplySteer
  <2>1. PICK F : /\ snap' = snap \/ Keeps(snap, snap', F)
                 /\ {"steers", "applied"} \cap F = {}
    <3>1. CASE \/ ReconcileAtBoundary \/ ReconcileBeforeProposal \/ ReconcileForReview
               \/ ReconcileAfterVerification
      BY <3>1, HeadEffect
    <3>2. CASE PrepareModelRequest \/ SendModelRequest \/ Answer \/ AttemptFails
      BY <3>2, PrepareEffect, SendEffect, AttemptEffect
    <3>3. CASE ProposeCompletion \/ NextCall \/ Authorize \/ RequestInteraction
      BY <3>3, ProposeEffect, CallEffect
    <3>4. CASE StartTool \/ CommitOutcome
      BY <3>4, StartToolEffect, OutcomeEffect
    <3>5. CASE PrepareVerification \/ StartVerification \/ CommitVerification \/ RejectCompletion
      BY <3>5, CheckEffect, VerdictEffect, RejectEffect
    <3> QED
      BY <1>2, <3>1, <3>2, <3>3, <3>4, <3>5 DEF Appends
  <2>2. snap'.applied = snap.applied /\ snap'.steers = snap.steers
    BY <2>1 DEF Keeps, Fields
  <2> QED
    BY <2>2
<1> QED
  BY <1>1, <1>2

\* Every step keeps the order.
LEMMA SteerStep ==
    ASSUME LoopInv, SteersFifo, [Next]_vars
    PROVE  SteersFifo'
<1>1. /\ snap.applied \in Seq(Names) /\ snap.steers \in Seq(Names)
      /\ snap.applied \o snap.steers \in Seq(Names) /\ acked \in Seq(Command)
  BY DEF LoopInv, Sound, Snap, World
<1>2. Echoes(snap.applied \o snap.steers, acked)
  BY DEF SteersFifo, Echoes
<1>3. SUFFICES Echoes(snap'.applied \o snap'.steers, acked')
  BY DEF SteersFifo, Echoes
<1>4. CASE Unpublished
  BY <1>2, <1>4, UnpublishedEffect
<1>5. CASE Appends
  BY <1>2, <1>5, SteersMove, AppendsFrame
<1>6. CASE PublishTerminal
  <2>1. acked' = acked
    BY <1>6 DEF PublishTerminal
  <2>2. snap'.applied = snap.applied /\ snap'.steers = snap.steers
    BY <1>6, OutcomePublished DEF Keeps, Fields
  <2> QED
    BY <1>2, <2>1, <2>2
<1>7. CASE HandleControl
  <2>1. CASE /\ snap'.applied = snap.applied /\ snap'.steers = snap.steers
             /\ acked' = acked
    BY <1>2, <2>1
  <2>2. ASSUME NEW c \in Command, c.kind = "Steer", acked' = Append(acked, c),
               snap'.applied = snap.applied, snap'.steers = Append(snap.steers, c.id)
        PROVE  Echoes(snap'.applied \o snap'.steers, acked')
    <3>1. c.id \in Names
      BY DEF Command, Names
    <3>2. \A a, b \in Seq(Names) : \A x \in Names : a \o Append(b, x) = Append(a \o b, x)
      OBVIOUS
    <3>3. snap'.applied \o snap'.steers = Append(snap.applied \o snap.steers, c.id)
      BY <1>1, <2>2, <3>1, <3>2
    <3> QED
      BY <1>1, <1>2, <2>2, <3>3, EchoGrows
  <2>3. ASSUME NEW c \in Command, c.kind # "Steer", acked' = Append(acked, c),
               snap'.applied = snap.applied, snap'.steers = snap.steers
        PROVE  Echoes(snap'.applied \o snap'.steers, acked')
    BY <1>1, <1>2, <2>3, EchoStays
  <2>4. \/ /\ snap'.applied = snap.applied /\ snap'.steers = snap.steers
           /\ acked' = acked
        \/ \E c \in Command :
              /\ acked' = Append(acked, c) /\ snap'.applied = snap.applied
              /\ IF c.kind = "Steer" THEN snap'.steers = Append(snap.steers, c.id)
                                     ELSE snap'.steers = snap.steers
    BY <1>7, ControlEffect DEF Keeps, Fields, Stops
  <2> QED
    BY <2>1, <2>2, <2>3, <2>4
<1> QED
  BY <1>4, <1>5, <1>6, <1>7, StepKinds

\* Acknowledged steers are applied in the order of their acknowledgements, none
\* twice and none skipped, through crashes and restarts: flush_pending_steers
\* takes them from the head of the durable queue that handle_control appends to.
THEOREM SteersKeepOrder == Spec => []SteersFifo
<1>1. Init => SteersFifo
  <2> SUFFICES ASSUME Init PROVE SteersFifo
    OBVIOUS
  <2>1. snap.applied = <<>> /\ snap.steers = <<>> /\ acked = <<>>
    BY DEF Init, NewSnapshot
  <2>2. DOMAIN (snap.applied \o snap.steers) = {} /\ DOMAIN acked = {}
    BY <2>1
  <2> DEFINE f == [i \in {} |-> i]
  <2>3. f \in [{} -> {}]
    OBVIOUS
  <2> QED
    BY <2>2, <2>3 DEF SteersFifo
<1>2. LoopInv /\ SteersFifo /\ [Next]_vars => SteersFifo'
  BY SteerStep
<1> QED
  BY <1>1, <1>2, LoopCoherent, PTL DEF Spec

-----------------------------------------------------------------------------
(* An acceptance sticks *)

\* The worker stops, and not to wait for the host.
Stopping == w'.pc = "final" /\ w'.goal # "Awaiting"

\* A worker about a turn stays about it, stops, or comes to its proposal.
LEMMA TurnPlaces ==
    ASSUME LoopInv,
           \/ ControlsDrained \/ ApplySteer \/ ReconcileAtBoundary \/ SteersFlushed \/ BeginTurn
           \/ CompactContext \/ ContextLimitExceeded \/ PrepareModelRequest \/ SendModelRequest
           \/ Attempt \/ RetryDelayOver \/ ActOnAnswer
    PROVE  w.pc \in Working /\ (w'.pc \in Working \ {"propose"} \/ Stopping)
<1>1. w \in WorkerType
  BY DEF LoopInv, Sound
<1>2. \A p : Go(p).pc = p
  BY <1>1, Places
<1>3. End("Failed").pc = "final" /\ End("Failed").goal = "Failed"
  BY <1>1, EndPlace
<1>4. CASE ControlsDrained \/ SteersFlushed \/ BeginTurn \/ CompactContext \/ ContextLimitExceeded
           \/ RetryDelayOver
  <2>1. w.pc \in {"loop", "flush", "turn", "prepare", "compacted", "backoff"}
    BY <1>4 DEF ControlsDrained, SteersFlushed, BeginTurn, CompactContext, ContextLimitExceeded,
                RetryDelayOver, at
  <2>2. w' \in {Go("edge"), Go("loop"), [Go("act") EXCEPT !.replay = FALSE], Go("backoff"),
                Go("send"), Go("prepare"), Go("compacted"), End("Failed")}
    BY <1>4 DEF ControlsDrained, SteersFlushed, BeginTurn, CompactContext, Publish, PublishOr,
                ContextLimitExceeded, RetryDelayOver, ReplayAnswer
  <2>3. \/ w'.pc \in {"edge", "loop", "act", "backoff", "send", "prepare", "compacted"}
        \/ w'.pc = "final" /\ w'.goal = "Failed"
    <3>1. w' = [Go("act") EXCEPT !.replay = FALSE] => w'.pc = "act"
      BY <1>1 DEF Go, WorkerType
    <3>2. w' # [Go("act") EXCEPT !.replay = FALSE] =>
            w' \in {Go("edge"), Go("loop"), Go("backoff"), Go("send"), Go("prepare"),
                    Go("compacted"), End("Failed")}
      BY <2>2
    <3> QED
      BY <1>2, <1>3, <3>1, <3>2
  <2> QED
    BY <2>1, <2>3 DEF Working, Requesting, Acting, Stopping
<1>5. CASE ApplySteer \/ SendModelRequest
  BY <1>2, <1>3, <1>5
     DEF ApplySteer, SendModelRequest, Publish, PublishOr, at, Working, Requesting, Acting,
         Stopping
<1>6. CASE ReconcileAtBoundary
  <2>1. w' = Go("turn") \/ w' = End("Failed")
    BY <1>6 DEF ReconcileAtBoundary, Reconcile, PublishOr
  <2> QED
    BY <1>2, <1>3, <1>6, <2>1
       DEF ReconcileAtBoundary, at, Working, Requesting, Acting, Stopping
<1>7. CASE PrepareModelRequest
  <2>1. w' = [Go("send") EXCEPT !.spare = w.spare /\ ~TerminalTurn] \/ w' = End("Failed")
    BY <1>1, <1>7 DEF PrepareModelRequest, Publish, PublishOr, Go, WorkerType
  <2>2. w.pc \in {"prepare", "compacted"}
    BY <1>7 DEF PrepareModelRequest
  <2>3. w' = [Go("send") EXCEPT !.spare = w.spare /\ ~TerminalTurn] => w'.pc = "send"
    BY <1>1 DEF Go, WorkerType
  <2>4. w'.pc = "send" \/ (w'.pc = "final" /\ w'.goal = "Failed")
    BY <1>3, <2>1, <2>3
  <2> QED
    BY <2>2, <2>4 DEF Working, Requesting, Acting, Stopping
<1>8. CASE Attempt
  <2>1. w.pc = "stream" /\ w' \in {Go("act"), Go("backoff"), End("Failed")}
    BY <1>8 DEF Attempt, Answer, AnswerDiffers, AttemptFails, Publish, PublishOr, at
  <2> QED
    BY <1>2, <1>3, <2>1 DEF Working, Requesting, Acting, Stopping
<1>9. CASE ActOnAnswer
  <2>1. snap.output.kind \in {"Stop", "Blank", "Calls", "Invalid"}
    BY <1>9 DEF ActOnAnswer, LoopInv, Sound, Placed, Snap, Output, at
  <2>2. w.pc = "act" /\ w' \in {Go("call"), Go("flush"), Go("sync"), End("Failed")}
    BY <1>9, <2>1 DEF ActOnAnswer, at
  <2> QED
    BY <1>2, <1>3, <2>2 DEF Working, Requesting, Acting, Stopping
<1> QED
  BY <1>4, <1>5, <1>6, <1>7, <1>8, <1>9

\* So does one about a tool call.
LEMMA CallPlaces ==
    ASSUME LoopInv,
           \/ NextCall \/ RejectCall \/ Authorize \/ ActOnAuthorization \/ AskQuestion
           \/ RequestInteraction \/ RecheckRevision \/ StartTool \/ ToolWrites \/ ToolReturns
           \/ CommitOutcome \/ DeadlineExpires
    PROVE  w.pc \in Working /\ (w'.pc \in Working \ {"propose"} \/ Stopping)
<1>1. w \in WorkerType
  BY DEF LoopInv, Sound
<1>2. \A p : Go(p).pc = p
  BY <1>1, Places
<1>3. \A g : End(g).pc = "final" /\ End(g).goal = g
  BY <1>1, EndPlace
<1>4. \A op, effect, after : Outcome(op, effect, after).pc = "settle"
  BY <1>1, Places
<1>5. Rejected.pc = "settle" /\ \A a : Replied(a).pc \in {"recheck", "settle"}
  BY <1>2, <1>4 DEF Rejected, Replied
<1>6. CASE NextCall \/ Authorize \/ RequestInteraction
  <2>1. w.pc \in {"call", "gate", "ask"}
    BY <1>6 DEF NextCall, Authorize, RequestInteraction, at
  <2>2. \/ w' \in {Go("flush"), Go("gate"), Go("authorized"), Go("wait"), End("Failed")}
        \/ \E a : w' = Replied(a)
    BY <1>6 DEF NextCall, Authorize, RequestInteraction, Publish, PublishOr
  <2> QED
    BY <1>2, <1>3, <1>5, <2>1, <2>2 DEF Working, Requesting, Acting, Stopping
<1>7. CASE RejectCall \/ ActOnAuthorization \/ AskQuestion \/ RecheckRevision
  <2>1. w.pc \in {"gate", "authorized", "recheck"}
    BY <1>7 DEF RejectCall, ActOnAuthorization, AskQuestion, RecheckRevision, at
  <2>2. w' \in {Rejected, Go("recheck"), Go("ask"), Go("start"), Outcome("Stale", "NotApplied", None)}
    BY <1>7 DEF RejectCall, ActOnAuthorization, AskQuestion, RecheckRevision
  <2> QED
    BY <1>2, <1>4, <1>5, <2>1, <2>2 DEF Working, Requesting, Acting, Stopping
<1>8. CASE StartTool
  <2>1. w' = [Go("running") EXCEPT !.wrote = FALSE] => w'.pc = "running"
    BY <1>1 DEF Go, WorkerType
  <2>2. w.pc = "start" /\ w' \in {[Go("running") EXCEPT !.wrote = FALSE], End("Failed")}
    BY <1>8 DEF StartTool, Publish, PublishOr, at
  <2>3. w'.pc = "running" \/ (w'.pc = "final" /\ w'.goal = "Failed")
    BY <1>3, <2>1, <2>2
  <2> QED
    BY <2>2, <2>3 DEF Working, Requesting, Acting, Stopping
<1>9. CASE ToolWrites \/ ToolReturns
  <2>1. w' = [w EXCEPT !.wrote = TRUE] => w'.pc = w.pc
    BY <1>1 DEF WorkerType
  <2>2. w.pc = "running"
    BY <1>9 DEF ToolWrites, ToolReturns, at
  <2>3. w'.pc \in {"running", "settle"}
    BY <1>4, <1>9, <2>1, <2>2 DEF ToolWrites, ToolReturns
  <2> QED
    BY <2>2, <2>3 DEF Working, Requesting, Acting
<1>10. CASE CommitOutcome
  <2>1. w' = [Go("call") EXCEPT !.outcome = None, !.wrote = FALSE] => w'.pc = "call"
    BY <1>1 DEF Go, WorkerType
  <2>2. \/ w' = End("Failed")
        \/ w.after # None /\ w' = End(w.after)
        \/ w' = [Go("call") EXCEPT !.outcome = None, !.wrote = FALSE]
    BY <1>10 DEF CommitOutcome, Publish, PublishOr
  <2>3. w.after # None => w.after # "Awaiting"
    BY <1>1 DEF WorkerType, Terminals
  <2>4. w.pc = "settle"
    BY <1>10 DEF CommitOutcome, at
  <2>5. w'.pc = "call" \/ (w'.pc = "final" /\ w'.goal # "Awaiting")
    BY <1>3, <2>1, <2>2, <2>3
  <2> QED
    BY <2>4, <2>5 DEF Working, Requesting, Acting, Stopping
<1>11. CASE DeadlineExpires
  <2>1. w.pc \in WatchesClock /\ w' = StopAs("Failed")
    BY <1>11 DEF DeadlineExpires
  <2> QED
    BY <1>3, <1>4, <2>1 DEF StopAs, CutOff, WatchesClock, Working, Requesting, Acting, Stopping
<1> QED
  BY <1>6, <1>7, <1>8, <1>9, <1>10, <1>11

\* A command leaves the worker where it is, stops it, or answers its question.
LEMMA ControlPlaces ==
    ASSUME LoopInv, HandleControl
    PROVE  /\ w.pc \in (Working \ {"propose"}) \cup {"bootDrain"}
           /\ \/ w' = w
              \/ w.pc \in Working /\ w'.pc \in Working \ {"propose"}
              \/ Stopping
<1>1. w \in WorkerType
  BY DEF LoopInv, Sound
<1>2. \A p : Go(p).pc = p
  BY <1>1, Places
<1>3. \A g : End(g).pc = "final" /\ End(g).goal = g
  BY <1>1, EndPlace
<1>4. \A op, effect, after : Outcome(op, effect, after).pc = "settle"
  BY <1>1, Places
<1>5. \A a : Replied(a).pc \in {"recheck", "settle"}
  BY <1>2, <1>4 DEF Rejected, Replied
<1>6. w.pc \in (Working \ {"propose"}) \cup {"bootDrain"}
  <2>1. w.pc \in {"bootDrain", "loop", "backoff", "stream", "wait", "running"}
    BY DEF HandleControl, Listening
  <2> QED
    BY <2>1 DEF Working, Requesting, Acting
<1>7. \/ w' = w
      \/ \E kind : w' = StopAs(TerminalFor(kind))
      \/ \E a : w' = ReplyAs(a)
      \/ w' = End("Failed")
  BY Zenon DEF HandleControl, HandleRepeated, HandleSteer, HandleStop, HandleResolve, HandleAccept,
         Publish, PublishOr
<1>8. \A kind : TerminalFor(kind) # "Awaiting"
  BY DEF TerminalFor
<1>9. ASSUME NEW kind, w' = StopAs(TerminalFor(kind))
      PROVE  (w.pc \in Working /\ w'.pc \in Working \ {"propose"}) \/ Stopping
  BY <1>3, <1>4, <1>8, <1>9 DEF StopAs, CutOff, Working, Requesting, Acting, Stopping
<1>10. ASSUME NEW a, w' = ReplyAs(a)
       PROVE  w' = w \/ (w.pc \in Working /\ w'.pc \in Working \ {"propose"})
  <2>1. w' = w \/ (w.pc = "wait" /\ w'.pc \in {"recheck", "settle"})
    <3>1. w' = w \/ (w.pc = "wait" /\ w' = Replied(a))
      BY <1>10 DEF ReplyAs, at
    <3> QED
      BY <1>5, <3>1
  <2> QED
    BY <2>1 DEF Working, Requesting, Acting
<1> QED
  BY <1>3, <1>6, <1>7, <1>9, <1>10 DEF Stopping

\* A restarted worker goes about a turn only if no candidate is pending.
LEMMA RecoverPlaces ==
    ASSUME LoopInv, Recover
    PROVE  \/ w'.pc \in {"reject", "bootDrain", "review"}
           \/ w'.pc = "loop" /\ snap.candidate = None
           \/ Stopping
<1>1. w \in WorkerType
  BY DEF LoopInv, Sound
<1>2. /\ \A p : Go(p).pc = p
      /\ \A g : End(g).pc = "final" /\ End(g).goal = g
  BY <1>1, Places, EndPlace
<1>3. \A kind : TerminalFor(kind) # "Awaiting"
  BY DEF TerminalFor
<1>4. \/ w' \in {Go("reject"), Go("bootDrain"), Go("review")}
      \/ /\ snap.candidate = None
         /\ w' \in {Go("loop"), [Go("loop") EXCEPT !.replay = FALSE], End("Blocked")}
      \/ w' \in {End("RecoveryRequired"), End(TerminalFor(snap.control)), End("Failed")}
  BY DEF Recover, AfterRejection
<1>5. w' = [Go("loop") EXCEPT !.replay = FALSE] => w'.pc = "loop"
  BY <1>1 DEF Go, WorkerType
<1>6. \/ w'.pc \in {"reject", "bootDrain", "review"}
      \/ snap.candidate = None /\ w'.pc = "loop"
      \/ w'.pc = "final" /\ w'.goal # "Awaiting"
  <2>1. CASE w' = [Go("loop") EXCEPT !.replay = FALSE] /\ snap.candidate = None
    BY <1>5, <2>1
  <2>2. CASE \/ w' \in {Go("reject"), Go("bootDrain"), Go("review")}
             \/ snap.candidate = None /\ w' \in {Go("loop"), End("Blocked")}
             \/ w' \in {End("RecoveryRequired"), End(TerminalFor(snap.control)), End("Failed")}
    BY <1>2, <1>3, <2>2
  <2> QED
    BY <1>4, <2>1, <2>2
<1> QED
  BY <1>6 DEF Stopping

\* A worker that reviews a candidate goes on with it, stops, or rejects it.  It
\* comes to a verification because the workspace has no evidence.
LEMMA ReviewPlaces ==
    ASSUME LoopInv,
           \/ ReconcileForReview \/ Judge \/ PrepareVerification \/ StartVerification
           \/ VerifierReturns \/ CommitVerification \/ RejectCompletion
           \/ ReconcileAfterVerification \/ Decide
    PROVE  /\ w.pc \in Reviewing
           /\ \/ Stopping
              \/ w'.pc \in Reviewing
              \/ RejectCompletion /\ w'.pc = "loop" /\ snap'.candidate = None
           /\ w'.pc \in Verifying =>
                 \/ Judge /\ "Verifier" \in Contract /\ snap.ws \notin snap.proofs
                 \/ w.pc \in Verifying /\ (PrepareVerification \/ StartVerification \/ VerifierReturns)
<1>1. w \in WorkerType /\ snap \in Snap
  BY DEF LoopInv, Sound
<1>2. /\ \A p : Go(p).pc = p
      /\ \A g : End(g).pc = "final" /\ End(g).goal = g
  BY <1>1, Places, EndPlace
<1>3. CASE ReconcileForReview \/ ReconcileAfterVerification \/ Decide
  <2>1. w.pc \in {"review", "close", "decide"}
    BY <1>3 DEF ReconcileForReview, ReconcileAfterVerification, Decide, at
  <2>2. \/ w' \in {Go("judge"), Go("decide"), End("Blocked")}
        \/ w' = [End("Completed") EXCEPT !.decision.ws = snap.ws]
    BY <1>3 DEF ReconcileForReview, ReconcileAfterVerification, Decide, Reconcile, PublishOr, Blocked
  <2>3. w' = [End("Completed") EXCEPT !.decision.ws = snap.ws]
          => w'.pc = "final" /\ w'.goal = "Completed"
    BY <1>1 DEF End, WorkerType
  <2>4. w'.pc \in {"judge", "decide"} \/ (w'.pc = "final" /\ w'.goal # "Awaiting")
    <3>1. CASE w' \in {Go("judge"), Go("decide"), End("Blocked")}
      BY <1>2, <3>1
    <3> QED
      BY <2>2, <2>3, <3>1
  <2> QED
    BY <2>1, <2>4 DEF Reviewing, Verifying, Stopping
<1>4. CASE Judge
  <2>1. w.pc = "judge"
    BY <1>4 DEF Judge, at
  <2> DEFINE d == [NoDecision EXCEPT
                     !.candidate = snap.candidate,
                     !.consent = IF CurrentConsent THEN snap.candidate ELSE None,
                     !.proof = IF snap.ws \in snap.proofs THEN snap.ws ELSE None]
             p == IF "Verifier" \in Contract /\ d.proof = None THEN "verify" ELSE "close"
  <2>2. w' = End("Blocked") \/ w' = [w EXCEPT !.decision = d, !.pc = p]
    BY <1>4 DEF Judge, Blocked
  <2>3. d.proof = None => snap.ws \notin snap.proofs
    BY <1>1, ReducerAssumption DEF NoDecision, Snap
  <2> HIDE DEF d
  <2>4. p = "close" \/ (p = "verify" /\ "Verifier" \in Contract /\ snap.ws \notin snap.proofs)
    BY <2>3
  <2> HIDE DEF p
  <2>5. w' = [w EXCEPT !.decision = d, !.pc = p] => w'.pc = p
    BY <1>1 DEF WorkerType
  <2>6. w' = End("Blocked") => w'.pc = "final" /\ w'.goal = "Blocked"
    BY <1>2
  <2>7. \/ w'.pc = "close"
        \/ w'.pc = "verify" /\ "Verifier" \in Contract /\ snap.ws \notin snap.proofs
        \/ w'.pc = "final" /\ w'.goal = "Blocked"
    BY <2>2, <2>4, <2>5, <2>6
  <2> QED
    BY <1>4, <2>1, <2>7 DEF Reviewing, Verifying, Stopping
<1>5. CASE PrepareVerification \/ StartVerification
  <2>1. w.pc = "verify" /\ w' \in {w, Go("checking"), End("Blocked")}
    BY <1>5 DEF PrepareVerification, StartVerification, PublishOr, Blocked, at
  <2>2. w'.pc \in {"verify", "checking"} \/ (w'.pc = "final" /\ w'.goal = "Blocked")
    BY <1>2, <2>1
  <2> QED
    BY <1>5, <2>1, <2>2 DEF Reviewing, Verifying, Stopping
<1>6. CASE VerifierReturns
  <2>1. PICK v : w' = [Go("sealing") EXCEPT !.verdict = v]
    BY <1>6 DEF VerifierReturns
  <2>2. w.pc = "checking" /\ w'.pc = "sealing"
    BY <1>1, <1>6, <2>1 DEF Go, WorkerType, VerifierReturns, at
  <2> QED
    BY <1>6, <2>2 DEF Reviewing, Verifying
<1>7. CASE CommitVerification
  <2>1. w.pc = "sealing"
    BY <1>7, Zenon DEF CommitVerification, at
  <2>2. PICK after :
          \/ w' = End("Blocked")
          \/ w' = [[w EXCEPT !.verdict = None] EXCEPT !.pc = "close", !.decision.proof = after]
          \/ w' = [[w EXCEPT !.verdict = None] EXCEPT !.pc = "reject", !.decision = NoDecision]
    <3>1. PICK rev \in Observed :
            LET after == NextWorkspace(snap, rev, TRUE)
            IN  \/ w' = Blocked
                \/ w' = IF Seals(snap, w.verdict, after)
                        THEN [[w EXCEPT !.verdict = None] EXCEPT !.pc = "close",
                                                                 !.decision.proof = after]
                        ELSE [[w EXCEPT !.verdict = None] EXCEPT !.pc = "reject",
                                                                 !.decision = NoDecision]
      BY <1>7, Zenon DEF CommitVerification, PublishOr
    <3> QED
      BY <3>1, Zenon DEF Blocked
  <2>3. w' = [[w EXCEPT !.verdict = None] EXCEPT !.pc = "close", !.decision.proof = after]
          => w'.pc = "close"
    BY <1>1 DEF WorkerType
  <2>4. w' = [[w EXCEPT !.verdict = None] EXCEPT !.pc = "reject", !.decision = NoDecision]
          => w'.pc = "reject"
    BY <1>1 DEF WorkerType
  <2>5. w' = End("Blocked") => w'.pc = "final" /\ w'.goal = "Blocked"
    BY <1>2
  <2>6. w'.pc \in {"close", "reject"} \/ (w'.pc = "final" /\ w'.goal = "Blocked")
    BY <2>2, <2>3, <2>4, <2>5
  <2> QED
    BY <2>1, <2>6 DEF Reviewing, Verifying, Stopping
<1>8. CASE RejectCompletion
  <2>1. w.pc = "reject"
    BY <1>8 DEF RejectCompletion, at
  <2>2. \/ w' = End("Blocked")
        \/ w' = [Go("loop") EXCEPT !.replay = FALSE] /\ snap' = CompletionRejected(snap)
    BY <1>8 DEF RejectCompletion, PublishOr, AfterRejection, Blocked
  <2>3. w' = [Go("loop") EXCEPT !.replay = FALSE] => w'.pc = "loop"
    BY <1>1 DEF Go, WorkerType
  <2>4. snap' = CompletionRejected(snap) => snap'.candidate = None
    BY <1>1 DEF CompletionRejected, Snap
  <2>5. w' = End("Blocked") => w'.pc = "final" /\ w'.goal = "Blocked"
    BY <1>2
  <2>6. \/ w'.pc = "loop" /\ snap'.candidate = None
        \/ w'.pc = "final" /\ w'.goal = "Blocked"
    BY <2>2, <2>3, <2>4, <2>5
  <2> QED
    BY <1>8, <2>1, <2>6 DEF Reviewing, Verifying, Stopping
<1> QED
  BY <1>3, <1>4, <1>5, <1>6, <1>7, <1>8

\* In a calm world nothing is observed that the snapshot does not have, unless a
\* tool wrote it.
LEMMA CalmReconcile ==
    ASSUME LoopInv, Calm, NEW v, NEW e, Reconcile(v, e)
    PROVE  /\ snap.ws.rev = world => snap' = snap
           /\ snap'.ws.rev = world \/ w' = e
<1>1. snap \in Snap /\ snap.ws \in Workspace /\ world \in Revisions /\ Observed = {world}
  BY DEF LoopInv, Sound, Snap, World, Calm, Observed
<1> DEFINE ws == NextWorkspace(snap, world, FALSE)
<1>2. ws.rev = world /\ (snap.ws.rev = world => ws = snap.ws)
  BY <1>1, ReducerAssumption DEF NextWorkspace, Workspace
<1>3. IF ws = snap.ws
      THEN snap' = snap
      ELSE snap' = WorkspaceObserved(snap, ws) \/ w' = e
  BY <1>1 DEF Reconcile, PublishOr
<1>4. snap' = WorkspaceObserved(snap, ws) => snap'.ws = ws
  BY <1>1 DEF WorkspaceObserved, Snap
<1> HIDE DEF ws
<1> QED
  BY <1>2, <1>3, <1>4

\* Nor does a command observe it.
LEMMA CalmControl ==
    ASSUME LoopInv, Calm, snap.candidate # None => snap.ws.rev = world, HandleControl
    PROVE  snap'.ws = snap.ws
<1>1. snap \in Snap /\ snap.ws \in Workspace /\ world \in Revisions /\ Observed = {world}
  BY DEF LoopInv, Sound, Snap, World, Calm, Observed
<1>2. snap.ws.rev = world => NextWorkspace(snap, world, FALSE) = snap.ws
  BY <1>1, ReducerAssumption DEF NextWorkspace, Workspace
<1>3. PICK c : \/ HandleRepeated(c) \/ HandleSteer(c) \/ HandleStop(c) \/ HandleResolve(c)
               \/ HandleAccept(c)
  BY DEF HandleControl
<1>4. \/ snap' = snap
      \/ snap' = SteerQueued(snap, c)
      \/ snap' = ControlRequested(snap, c)
      \/ snap' = InteractionResolved(snap, c)
      \/ snap' = HostCompletionAccepted(snap, c)
  <2>1. CASE HandleAccept(c)
    BY <1>1, <1>2, <2>1 DEF HandleAccept, Publish, PublishOr
  <2>2. CASE HandleRepeated(c) \/ HandleSteer(c) \/ HandleStop(c) \/ HandleResolve(c)
    BY <2>2 DEF HandleRepeated, HandleSteer, HandleStop, HandleResolve, Publish, PublishOr
  <2> QED
    BY <1>3, <2>1, <2>2
<1> QED
  BY <1>1, <1>4 DEF SteerQueued, ControlRequested, InteractionResolved, HostCompletionAccepted, Snap

\* The world is calm as long as it was calm, and only tools change it then.
LEMMA CalmFrame ==
    ASSUME LoopInv, [Next]_vars, Calm'
    PROVE  /\ Calm
           /\ world' = world \/ ToolWrites
<1>1. CASE \/ Recover \/ RecoveredControls \/ ControlsDrained \/ ApplySteer
           \/ ReconcileAtBoundary \/ SteersFlushed \/ BeginTurn \/ CompactContext
           \/ ContextLimitExceeded \/ PrepareModelRequest \/ SendModelRequest \/ ActOnAnswer
           \/ ReconcileBeforeProposal \/ ProposeCompletion \/ Attempt \/ RetryDelayOver
  BY <1>1 DEF Recover, RecoveredControls, ControlsDrained, ApplySteer, ReconcileAtBoundary,
              SteersFlushed, BeginTurn, CompactContext, ContextLimitExceeded,
              PrepareModelRequest, SendModelRequest, ActOnAnswer, ReconcileBeforeProposal,
              ProposeCompletion, Attempt, Answer, AnswerDiffers, AttemptFails, RetryDelayOver,
              quiet, env_same, Calm
<1>2. CASE \/ NextCall \/ RejectCall \/ Authorize \/ ActOnAuthorization \/ AskQuestion
           \/ RequestInteraction \/ RecheckRevision \/ StartTool \/ ToolReturns
           \/ CommitOutcome \/ DeadlineExpires
  BY <1>2 DEF NextCall, RejectCall, Authorize, ActOnAuthorization, AskQuestion,
              RequestInteraction, RecheckRevision, StartTool, ToolReturns, CommitOutcome,
              DeadlineExpires, quiet, env_same, Calm
<1>3. CASE \/ ReconcileForReview \/ Judge \/ PrepareVerification \/ StartVerification
           \/ CommitVerification \/ RejectCompletion \/ ReconcileAfterVerification \/ Decide
           \/ VerifierReturns
  <2>1. UNCHANGED <<world, env>>
    BY <1>3, Zenon
       DEF ReconcileForReview, Judge, PrepareVerification, StartVerification,
           CommitVerification, RejectCompletion, ReconcileAfterVerification, Decide,
           VerifierReturns, quiet, env_same
  <2> QED
    BY <2>1 DEF Calm
<1>4. CASE HandleControl \/ AwaitHost \/ PublishTerminal \/ ToolWrites \/ DeadlinePasses
           \/ UNCHANGED vars
  <2>1. env' = env /\ (world' = world \/ ToolWrites)
    BY <1>4 DEF HandleControl, AwaitHost, PublishTerminal, ToolWrites, DeadlinePasses, vars
  <2> QED
    BY <2>1 DEF Calm
<1>5. CASE Send \/ Resume \/ AcceptCompletion \/ Crash
  <2>1. world' = world /\ \/ \E x : env' = [env EXCEPT !.copies = x]
                          \/ \E x : env' = [env EXCEPT !.resumes = x]
                          \/ \E x : env' = [env EXCEPT !.crashes = x]
    BY <1>5, Zenon DEF Send, Resume, AcceptCompletion, Launch, Crash
  <2>2. env'.edits = env.edits /\ env'.blind = env.blind
    BY <2>1 DEF LoopInv, World, Env
  <2> QED
    BY <2>1, <2>2 DEF Calm
<1>6. CASE Edit
  <2>1. env'.edits = env.edits + 1 /\ env.edits \in Nat
    BY <1>6 DEF Edit, LoopInv, World, Env
  <2> QED
    BY <2>1 DEF Calm
<1> QED
  BY <1>1, <1>2, <1>3, <1>4, <1>5, <1>6 DEF Next, Proceed

\* An acceptance stays recorded, for a candidate that is still pending or was
\* rejected in its own turn.
LEMMA ConsentsKept ==
    ASSUME LoopInv, AcceptInv, [Next]_vars
    PROVE  /\ \A k \in DOMAIN acked' :
                 acked'[k].kind = "Accept" => acked'[k].candidate \in snap'.consents
           /\ \A x \in snap'.consents :
                 x.turn = snap'.turns /\ snap'.candidate = None
                    => snap'.rejection # None /\ snap'.rejection.turn = snap'.turns
<1>1. /\ acked \in Seq(Command) /\ snap.turns \in Nat
      /\ \A x \in snap.consents : x.turn \in 1..snap.turns
  BY DEF LoopInv, Sound, Coherent, Snap, World
<1>2. \/ acked' = acked /\ snap'.consents = snap.consents
      \/ \E c \in Command : /\ acked' = Append(acked, c)
                            /\ \/ c.kind # "Accept" /\ snap'.consents = snap.consents
                               \/ /\ snap'.consents = snap.consents \cup {c.candidate}
                                  /\ c.candidate = snap.candidate
                                  /\ snap'.candidate = snap.candidate
  <2>1. CASE Unpublished
    BY <2>1, UnpublishedEffect
  <2>2. CASE Appends
    BY <2>2, AppendsFrame
  <2>3. CASE PublishTerminal
    <3>1. acked' = acked
      BY <2>3 DEF PublishTerminal
    <3> QED
      BY <2>3, <3>1, OutcomePublished DEF Keeps, Fields
  <2>4. CASE HandleControl
    BY <2>4, ControlEffect DEF Keeps, Fields, Stops
  <2> QED
    BY <2>1, <2>2, <2>3, <2>4, StepKinds
<1>3. ASSUME NEW k \in DOMAIN acked', acked'[k].kind = "Accept"
      PROVE  acked'[k].candidate \in snap'.consents
  <2>1. CASE acked' = acked /\ snap'.consents = snap.consents
    BY <1>3, <2>1 DEF AcceptInv
  <2>2. ASSUME NEW c \in Command, acked' = Append(acked, c), snap.consents \subseteq snap'.consents,
               c.kind = "Accept" => c.candidate \in snap'.consents
        PROVE  acked'[k].candidate \in snap'.consents
    <3>1. CASE k \in DOMAIN acked
      <4>1. acked'[k] = acked[k]
        BY <1>1, <2>2, <3>1, AppendKeeps
      <4> QED
        BY <1>3, <2>2, <3>1, <4>1 DEF AcceptInv
    <3>2. CASE k \notin DOMAIN acked
      <4>1. acked'[k] = c
        BY <1>1, <1>3, <2>2, <3>2, AppendKeeps
      <4> QED
        BY <1>3, <2>2, <4>1
    <3> QED
      BY <3>1, <3>2
  <2> QED
    BY <1>2, <2>1, <2>2
<1>4. ASSUME NEW x \in snap'.consents, x.turn = snap'.turns, snap'.candidate = None
      PROVE  snap'.rejection # None /\ snap'.rejection.turn = snap'.turns
  <2>1. x \in snap.consents
    <3>1. snap'.consents \in SUBSET Candidate
      BY LoopInvStep DEF LoopInv, Sound, Snap
    <3>2. x # snap'.candidate
      BY <1>4, <3>1, ReducerAssumption
    <3> QED
      BY <1>2, <1>4, <3>2
  <2>2. CASE PrepareVerification \/ StartVerification
    <3>1. /\ snap'.turns = snap.turns /\ snap'.candidate = snap.candidate
          /\ snap'.rejection = snap.rejection
      BY <2>2, CheckEffect DEF Keeps, Fields
    <3> QED
      BY <1>4, <2>1, <3>1 DEF AcceptInv
  <2>3. CASE ~PrepareVerification /\ ~StartVerification
    BY <1>1, <1>4, <2>1, <2>3, CandidateMoves DEF AcceptInv
  <2> QED
    BY <2>2, <2>3
<1> QED
  BY <1>3, <1>4

\* The steps of a turn leave no candidate behind.
LEMMA TurnStep ==
    ASSUME LoopInv, AcceptInv, w.pc \in Working, snap'.candidate = snap.candidate,
           w'.pc \in Working \ {"propose"} \/ Stopping
    PROVE  /\ w'.pc \in Working => snap'.candidate = None
           /\ w'.pc # "propose" /\ snap'.candidate = None /\ w'.pc \notin Verifying
           /\ ~(w'.pc = "final" /\ w'.goal = "Awaiting")
<1>1. snap'.candidate = None
  BY DEF AcceptInv
<1> QED
  BY <1>1 DEF Stopping, Working, Requesting, Acting, Verifying

\* Every step keeps the candidate, its acceptance and the workspace together.
LEMMA AcceptStep ==
    ASSUME LoopInv, AcceptInv, [Next]_vars
    PROVE  AcceptInv'
<1> DEFINE
      Settled ==
        /\ w'.pc \in Working => snap'.candidate = None
        /\ Calm' =>
              /\ w'.pc = "propose" \/ snap'.candidate # None => snap'.ws.rev = world'
              /\ snap'.candidate # None
                    => snap'.ws = snap'.candidate.ws \/ Sealed' \/ RejectionMissing'
              /\ w'.pc \in Verifying => snap'.ws = snap'.candidate.ws /\ "Verifier" \in Contract
              /\ w'.pc = "final" /\ w'.goal = "Awaiting" => snap'.candidate \notin snap'.consents
<1>1. SUFFICES Settled
  BY ConsentsKept DEF AcceptInv
<1>2. w \in WorkerType /\ snap \in Snap
  BY DEF LoopInv, Sound
<1>3. Calm' => Calm /\ (world' = world \/ ToolWrites)
  BY CalmFrame
<1>4. ASSUME snap'.candidate = None, w'.pc # "propose", w'.pc \notin Verifying,
             ~(w'.pc = "final" /\ w'.goal = "Awaiting")
      PROVE  Settled
  BY <1>4
<1>5. ASSUME snap'.candidate = snap.candidate, snap'.ws = snap.ws, snap'.proofs = snap.proofs,
             snap'.failure = snap.failure, ~ToolWrites,
             w'.pc \notin Working, w'.pc \notin Verifying,
             ~(w'.pc = "final" /\ w'.goal = "Awaiting")
      PROVE  Settled
  <2>1. w'.pc # "propose"
    BY <1>5 DEF Working, Acting
  <2> QED
    BY <1>3, <1>5, <2>1 DEF AcceptInv, Sealed, RejectionMissing
<1>6. CASE \/ ControlsDrained \/ ApplySteer \/ ReconcileAtBoundary \/ SteersFlushed \/ BeginTurn
           \/ CompactContext \/ ContextLimitExceeded \/ PrepareModelRequest \/ SendModelRequest
           \/ Attempt \/ RetryDelayOver \/ ActOnAnswer
  <2>1. snap'.candidate = snap.candidate
    <3>1. CASE \/ ControlsDrained \/ SteersFlushed \/ BeginTurn \/ CompactContext
               \/ ContextLimitExceeded \/ AnswerDiffers \/ RetryDelayOver \/ ActOnAnswer
      BY <3>1, UnpublishedEffect DEF Unpublished
    <3>2. CASE ApplySteer \/ ReconcileAtBoundary
      BY <3>2, HeadEffect DEF Keeps, Fields
    <3>3. CASE PrepareModelRequest \/ SendModelRequest \/ Answer \/ AttemptFails
      BY <3>3, PrepareEffect, SendEffect, AttemptEffect DEF Keeps, Fields
    <3> QED
      BY <1>6, <3>1, <3>2, <3>3 DEF Attempt
  <2> QED
    BY <1>4, <1>6, <2>1, TurnPlaces, TurnStep
<1>7. CASE \/ NextCall \/ RejectCall \/ Authorize \/ ActOnAuthorization \/ AskQuestion
           \/ RequestInteraction \/ RecheckRevision \/ StartTool \/ ToolWrites \/ ToolReturns
           \/ CommitOutcome \/ DeadlineExpires
  <2>1. snap'.candidate = snap.candidate
    <3>1. CASE \/ RejectCall \/ ActOnAuthorization \/ AskQuestion \/ RecheckRevision
               \/ ToolWrites \/ ToolReturns \/ DeadlineExpires
      BY <3>1, UnpublishedEffect DEF Unpublished
    <3>2. CASE NextCall \/ Authorize \/ RequestInteraction
      BY <3>2, CallEffect DEF Keeps, Fields
    <3>3. CASE StartTool \/ CommitOutcome
      BY <3>3, StartToolEffect, OutcomeEffect DEF Keeps, Fields
    <3> QED
      BY <1>7, <3>1, <3>2, <3>3
  <2> QED
    BY <1>4, <1>7, <2>1, CallPlaces, TurnStep
<1>8. CASE HandleControl
  <2>1. /\ snap'.candidate = snap.candidate /\ snap'.proofs = snap.proofs
        /\ snap'.failure = snap.failure
    BY <1>8, ControlFrame DEF Keeps, Fields
  <2>2. CASE w.pc \in Working
    <3>1. w'.pc \in Working \ {"propose"} \/ Stopping
      BY <1>8, <2>2, ControlPlaces
    <3> QED
      BY <1>4, <2>1, <2>2, <3>1, TurnStep
  <2>3. CASE w.pc = "bootDrain"
    <3>1. /\ w'.pc \notin Working /\ w'.pc \notin Verifying
          /\ ~(w'.pc = "final" /\ w'.goal = "Awaiting")
      BY <1>8, <2>3, ControlPlaces DEF Stopping, Working, Requesting, Acting, Verifying
    <3>2. world' = world /\ ~ToolWrites
      BY <1>8, <2>3 DEF HandleControl, ToolWrites, at
    <3>3. CASE Calm
      <4>1. snap'.ws = snap.ws
        BY <1>8, <3>3, CalmControl DEF AcceptInv
      <4> QED
        BY <1>5, <2>1, <3>1, <3>2, <4>1
    <3>4. CASE ~Calm
      BY <1>3, <3>1, <3>4
    <3> QED
      BY <3>3, <3>4
  <2> QED
    BY <1>8, <2>2, <2>3, ControlPlaces
<1>9. CASE Recover
  <2>1. snap' = snap /\ ~ToolWrites
    BY <1>9 DEF Recover, ToolWrites, at
  <2>2. CASE w'.pc \in {"reject", "bootDrain", "review"} \/ Stopping
    <3>1. /\ w'.pc \notin Working /\ w'.pc \notin Verifying
          /\ ~(w'.pc = "final" /\ w'.goal = "Awaiting")
      BY <2>2 DEF Stopping, Working, Requesting, Acting, Verifying
    <3> QED
      BY <1>5, <2>1, <3>1
  <2>3. CASE w'.pc = "loop" /\ snap.candidate = None
    BY <1>4, <2>1, <2>3 DEF Verifying
  <2> QED
    BY <1>9, <2>2, <2>3, RecoverPlaces
<1>10. CASE RecoveredControls
  <2>1. snap' = snap /\ w.pc = "bootDrain" /\ ~ToolWrites /\ world' = world
    BY <1>10 DEF RecoveredControls, ToolWrites, at, quiet, env_same
  <2>2. CASE w' = Go("review")
    <3>1. w'.pc = "review"
      BY <1>2, <2>2, Places
    <3> QED
      BY <1>5, <2>1, <3>1 DEF Working, Requesting, Acting, Verifying
  <2>3. CASE w' = End("Awaiting") /\ ~CurrentConsent
    <3>1. w'.pc = "final"
      BY <1>2, <2>3, Places
    <3>2. ASSUME Calm, snap.candidate \in snap.consents PROVE FALSE
      <4>1. snap.candidate # None
        BY <1>2, <3>2, ReducerAssumption DEF Snap
      <4>2. ~RejectionMissing
        BY <2>1, <4>1 DEF LoopInv, Sound, Placed, RejectionMissing
      <4> QED
        BY <2>3, <3>2, <4>1, <4>2 DEF AcceptInv, Sealed, CurrentConsent
    <3>3. w'.pc \notin Working /\ w'.pc \notin Verifying /\ w'.pc # "propose"
      BY <3>1 DEF Working, Requesting, Acting, Verifying
    <3> QED
      BY <1>3, <2>1, <3>2, <3>3 DEF AcceptInv, Sealed, RejectionMissing
  <2> QED
    BY <1>10, <2>2, <2>3 DEF RecoveredControls
<1>11. CASE ReconcileBeforeProposal
  <2>1. /\ w.pc = "sync" /\ Reconcile(Go("propose"), End("Failed"))
        /\ world' = world
    BY <1>11 DEF ReconcileBeforeProposal, at, quiet, env_same
  <2>2. snap.candidate = None /\ snap'.candidate = snap.candidate
    BY <1>11, <2>1, HeadEffect DEF AcceptInv, Working, Acting, Keeps, Fields
  <2>3. /\ Go("propose").pc = "propose"
        /\ End("Failed").pc = "final" /\ End("Failed").goal = "Failed"
    BY <1>2, Places, EndPlace
  <2>4. w' = Go("propose") \/ w' = End("Failed")
    BY <2>1 DEF Reconcile, PublishOr
  <2>5. CASE w' = End("Failed")
    BY <1>4, <2>2, <2>3, <2>5 DEF Verifying
  <2>6. CASE w' = Go("propose")
    <3>1. w'.pc = "propose" /\ w' # End("Failed")
      BY <2>3, <2>6
    <3>2. Calm' => snap'.ws.rev = world'
      BY <1>3, <2>1, <3>1, CalmReconcile
    <3> QED
      BY <2>2, <3>1, <3>2 DEF Verifying
  <2> QED
    BY <2>4, <2>5, <2>6
<1>12. CASE ProposeCompletion
  <2>1. w.pc = "propose" /\ world' = world
    BY <1>12 DEF ProposeCompletion, at, quiet, env_same
  <2>2. snap.candidate = None
    BY <2>1 DEF AcceptInv, Working, Acting
  <2>3. /\ \A p : Go(p).pc = p
        /\ \A g : End(g).pc = "final" /\ End(g).goal = g
    BY <1>2, Places, EndPlace
  <2>4. w' \in {End("Awaiting"), Go("review"), End("Failed")} /\ (w' = End("Failed") \/ snap' # snap)
    <3>1. ASSUME snap' = CompletionProposed(snap, [turn |-> snap.turns, ws |-> snap.ws]),
                 CompletionProposedFits(snap, [turn |-> snap.turns, ws |-> snap.ws])
          PROVE  snap' # snap
      BY <1>2, <2>2, <3>1, ProposedEvent
    <3> QED
      BY <1>12, <3>1 DEF ProposeCompletion, Publish, PublishOr
  <2>5. CASE snap' = snap
    <3>1. w'.pc = "final" /\ w'.goal = "Failed"
      BY <2>3, <2>4, <2>5
    <3> QED
      BY <1>4, <2>2, <2>5, <3>1 DEF Verifying
  <2>6. CASE /\ Keeps(snap, snap', {"candidate"})
             /\ snap'.candidate = [turn |-> snap.turns, ws |-> snap.ws]
             /\ snap.rejection # None => snap.rejection.turn # snap.turns
    <3>1. snap'.ws = snap.ws /\ snap'.consents = snap.consents
      BY <2>6 DEF Keeps, Fields
    <3>2. snap'.candidate.turn = snap.turns /\ snap'.candidate.ws = snap.ws
      BY <2>6
    <3>3. snap'.candidate \notin snap.consents
      BY <2>2, <2>6, <3>2 DEF AcceptInv
    <3>4. w'.pc \in {"final", "review"}
      BY <2>3, <2>4
    <3>5. w'.pc \notin Working /\ w'.pc \notin Verifying
      BY <3>4 DEF Working, Requesting, Acting, Verifying
    <3>6. Calm => snap.ws.rev = world
      BY <2>1 DEF AcceptInv
    <3>7. ~ToolWrites
      BY <2>1 DEF ToolWrites, at
    <3> QED
      BY <1>3, <2>1, <3>1, <3>2, <3>3, <3>5, <3>6, <3>7
  <2> QED
    BY <1>12, <2>5, <2>6, ProposeEffect
<1>13. CASE \/ ReconcileForReview \/ Judge \/ PrepareVerification \/ StartVerification
            \/ VerifierReturns \/ CommitVerification \/ RejectCompletion
            \/ ReconcileAfterVerification \/ Decide
  <2>1. snap.candidate # None /\ w.pc \in Reviewing /\ ~ToolWrites
    <3>1. w.pc \in Reviewing
      BY <1>13, ReviewPlaces
    <3>2. ~ToolWrites
      BY <3>1 DEF Reviewing, ToolWrites, at
    <3> QED
      BY <3>1, <3>2 DEF LoopInv, Sound, Placed
  <2>2. CASE RejectCompletion /\ w'.pc = "loop" /\ snap'.candidate = None
    BY <1>4, <2>2 DEF Verifying
  <2>3. CASE w'.pc \in Reviewing \/ Stopping
    <3>1. w'.pc \notin Working /\ ~(w'.pc = "final" /\ w'.goal = "Awaiting")
      BY <2>3 DEF Reviewing, Stopping, Working, Requesting, Acting
    <3>2. CASE ~Calm
      BY <1>3, <3>1, <3>2
    <3>3. CASE Calm /\ (ReconcileForReview \/ ReconcileAfterVerification \/ Judge \/ Decide)
      <4>1. snap' = snap
        <5>1. CASE Judge \/ Decide
          BY <5>1, UnpublishedEffect DEF Unpublished
        <5>2. CASE ReconcileForReview \/ ReconcileAfterVerification
          <6>1. snap.ws.rev = world
            BY <2>1, <3>3 DEF AcceptInv
          <6>2. snap' = snap \/ \E v, e : Reconcile(v, e)
            BY <5>2 DEF ReconcileForReview, ReconcileAfterVerification
          <6> QED
            BY <3>3, <6>1, <6>2, CalmReconcile
        <5> QED
          BY <3>3, <5>1, <5>2
      <4>2. CASE w'.pc \notin Verifying
        BY <1>5, <2>1, <3>1, <4>1, <4>2
      <4>3. CASE w'.pc \in Verifying
        <5>1. Judge /\ "Verifier" \in Contract /\ snap.ws \notin snap.proofs
          BY <1>13, <3>3, <4>3, ReviewPlaces
             DEF ReconcileForReview, ReconcileAfterVerification, Judge, Decide, Verifying, at
        <5>2. ~RejectionMissing
          BY <2>1, <5>1 DEF LoopInv, Sound, Placed, RejectionMissing, Judge, at
        <5>3. snap.ws = snap.candidate.ws
          BY <2>1, <3>3, <5>1, <5>2 DEF AcceptInv, Sealed
        <5> QED
          BY <1>3, <2>1, <3>1, <4>1, <5>1, <5>3 DEF AcceptInv, Working, Acting
      <4> QED
        BY <4>2, <4>3
    <3>4. CASE Calm /\ (PrepareVerification \/ StartVerification \/ VerifierReturns)
      <4>1. /\ snap'.candidate = snap.candidate /\ snap'.ws = snap.ws
            /\ snap'.proofs = snap.proofs /\ snap'.failure = snap.failure
        <5>1. CASE VerifierReturns
          BY <5>1, UnpublishedEffect DEF Unpublished
        <5>2. CASE PrepareVerification \/ StartVerification
          BY <5>2, CheckEffect DEF Keeps, Fields
        <5> QED
          BY <3>4, <5>1, <5>2
      <4>2. snap.ws = snap.candidate.ws /\ "Verifier" \in Contract
        BY <3>4 DEF AcceptInv, PrepareVerification, StartVerification, VerifierReturns, at, Verifying
      <4> QED
        BY <1>3, <2>1, <3>1, <4>1, <4>2 DEF AcceptInv, Working, Acting
    <3>5. CASE Calm /\ CommitVerification
      <4>1. w.pc = "sealing" /\ world' = world /\ Observed = {world} /\ world \in Revisions
        BY <3>5, Zenon DEF CommitVerification, at, quiet, env_same, Calm, Observed, LoopInv, World
      <4> DEFINE after == NextWorkspace(snap, world, TRUE)
      <4>2. snap.ws.rev = world /\ snap.ws = snap.candidate.ws /\ "Verifier" \in Contract
        BY <2>1, <3>5, <4>1 DEF AcceptInv, Verifying
      <4>3. after \in Workspace /\ after.gen = snap.ws.gen + 1 /\ after.rev = world
        BY <1>2, <4>1 DEF NextWorkspace, Workspace, Snap
      <4>4. \/ snap' = snap
            \/ /\ HostVerificationCommittedFits(snap, after)
               /\ snap' = HostVerificationCommitted(snap, w.verdict, after)
        BY <3>5, <4>1, Zenon DEF CommitVerification, PublishOr
      <4> HIDE DEF after
      <4>5. w'.pc \notin Verifying
        <5>1. ~Judge /\ ~PrepareVerification /\ ~StartVerification /\ ~VerifierReturns
          BY <4>1 DEF Judge, PrepareVerification, StartVerification, VerifierReturns, at
        <5> QED
          BY <1>13, <5>1, ReviewPlaces
      <4>6. CASE snap' = snap
        BY <1>5, <2>1, <3>1, <4>5, <4>6
      <4>7. CASE /\ HostVerificationCommittedFits(snap, after)
                 /\ snap' = HostVerificationCommitted(snap, w.verdict, after)
        <5>1. /\ Keeps(snap, snap', {"ws", "check", "proofs", "rejection", "failure"})
              /\ snap'.ws = after
              /\ \/ after \in snap'.proofs
                 \/ snap'.failure # None /\ snap'.failure.turn = snap.candidate.turn
          BY <1>2, <4>3, <4>7, VerifiedEvent DEF LoopInv, Sound
        <5>2. snap'.candidate = snap.candidate
          BY <5>1 DEF Keeps, Fields
        <5>3. Sealed' \/ RejectionMissing'
          BY <4>2, <4>3, <5>1, <5>2 DEF Sealed, RejectionMissing
        <5>4. snap'.ws.rev = world'
          BY <4>1, <4>3, <5>1
        <5> QED
          BY <3>1, <4>5, <5>3, <5>4
      <4> QED
        BY <4>4, <4>6, <4>7
    <3>6. CASE Calm /\ RejectCompletion
      <4>1. w'.pc \notin Verifying
        <5>1. ~Judge /\ ~PrepareVerification /\ ~StartVerification /\ ~VerifierReturns
          BY <3>6 DEF RejectCompletion, Judge, PrepareVerification, StartVerification,
                      VerifierReturns, at
        <5> QED
          BY <1>13, <5>1, ReviewPlaces
      <4>2. CASE snap' = snap
        BY <1>5, <2>1, <3>1, <4>1, <4>2
      <4>3. CASE snap'.candidate = None
        <5>1. w'.pc # "propose"
          BY <3>1 DEF Working, Acting
        <5> QED
          BY <1>4, <3>1, <4>1, <4>3, <5>1
      <4> QED
        BY <3>6, <4>2, <4>3, RejectEffect
    <3> QED
      BY <1>13, <3>2, <3>3, <3>4, <3>5, <3>6
  <2> QED
    BY <1>13, <2>2, <2>3, ReviewPlaces
<1>14. CASE AwaitHost \/ PublishTerminal \/ Crash \/ Resume \/ AcceptCompletion
  <2>1. w'.pc \in {"down", "done", "boot"}
    <3>1. CASE AwaitHost \/ PublishTerminal \/ Crash
      BY <3>1 DEF AwaitHost, PublishTerminal, PublishOr, Crash, Down, Worker
    <3>2. CASE Resume \/ AcceptCompletion
      <4>1. PICK live, spare, replay : w' = Worker("boot", live, spare, replay)
        BY <3>2, Zenon DEF Resume, AcceptCompletion, Launch
      <4> QED
        BY <4>1 DEF Worker
    <3> QED
      BY <1>14, <3>1, <3>2
  <2>2. /\ snap'.candidate = snap.candidate /\ snap'.ws = snap.ws
        /\ snap'.proofs = snap.proofs /\ snap'.failure = snap.failure
    <3>1. CASE PublishTerminal
      BY <3>1, OutcomePublished DEF Keeps, Fields
    <3>2. CASE AwaitHost \/ Crash \/ Resume \/ AcceptCompletion
      BY <3>2, UnpublishedEffect DEF Unpublished
    <3> QED
      BY <1>14, <3>1, <3>2
  <2>3. ~ToolWrites
    <3>1. ASSUME ToolWrites PROVE FALSE
      <4>1. w.pc = "running" /\ w' = [w EXCEPT !.wrote = TRUE]
        BY <3>1 DEF ToolWrites, at
      <4>2. w'.pc = "running"
        BY <1>2, <4>1 DEF WorkerType
      <4> QED
        BY <2>1, <4>2
    <3> QED
      BY <3>1
  <2>4. /\ w'.pc \notin Working /\ w'.pc \notin Verifying
        /\ ~(w'.pc = "final" /\ w'.goal = "Awaiting")
    BY <2>1 DEF Working, Requesting, Acting, Verifying
  <2> QED
    BY <1>5, <2>2, <2>3, <2>4
<1>15. CASE Send \/ Edit \/ DeadlinePasses \/ UNCHANGED vars
  <2>1. snap' = snap /\ w' = w
    BY <1>15 DEF Send, Edit, DeadlinePasses, vars
  <2>2. Calm' => world' = world
    <3>1. CASE Edit
      <4>1. env'.edits = env.edits + 1 /\ env.edits \in Nat
        BY <3>1 DEF Edit, LoopInv, World, Env
      <4> QED
        BY <4>1 DEF Calm
    <3>2. CASE Send \/ DeadlinePasses \/ UNCHANGED vars
      BY <3>2 DEF Send, DeadlinePasses, vars
    <3> QED
      BY <1>15, <3>1, <3>2
  <2> QED
    BY <1>3, <2>1, <2>2 DEF AcceptInv, Sealed, RejectionMissing
<1> QED
  BY <1>6, <1>7, <1>8, <1>9, <1>10, <1>11, <1>12, <1>13, <1>14, <1>15 DEF Next, Proceed

\* The host is asked once: as long as nobody else edits the workspace, a run whose
\* completion was accepted never goes back to waiting for an acceptance, whatever
\* crashes between the acceptance, the verification and the outcome.
THEOREM HostIsAskedOnce == Spec => []AcceptanceSticks
<1>1. Init => AcceptInv
  <2> SUFFICES ASSUME Init PROVE AcceptInv
    OBVIOUS
  <2>1. snap.candidate = None /\ snap.consents = {} /\ acked = <<>>
    BY DEF Init, NewSnapshot
  <2>2. w.pc = "loop"
    BY DEF Init, Worker
  <2> QED
    BY <2>1, <2>2 DEF AcceptInv, Verifying
<1>2. LoopInv /\ AcceptInv /\ [Next]_vars => AcceptInv'
  BY AcceptStep
<1>3. AcceptInv => AcceptanceSticks
  BY DEF AcceptInv, AcceptanceSticks, Calm, at
<1> QED
  BY <1>1, <1>2, <1>3, LoopCoherent, PTL DEF Spec

-----------------------------------------------------------------------------
(* The loop and the reducer agree *)

\* What Go, End and Outcome change in the worker.
LEMMA Moves ==
    ASSUME w \in WorkerType
    PROVE  /\ \A p : LET v == Go(p) IN
                 /\ v.pc = p /\ v.replay = w.replay /\ v.wrote = w.wrote /\ v.decision = w.decision
                 /\ v.after = w.after /\ v.goal = w.goal /\ v.outcome = w.outcome
           /\ \A g : LET v == End(g) IN
                 /\ v.pc = "final" /\ v.goal = g
                 /\ v.replay = w.replay /\ v.wrote = w.wrote /\ v.decision = w.decision
           /\ \A op, effect, after : LET v == Outcome(op, effect, after) IN
                 /\ v.pc = "settle" /\ v.after = after
                 /\ v.outcome.op = op /\ v.outcome.effect = effect
                 /\ v.replay = w.replay /\ v.wrote = w.wrote /\ v.decision = w.decision
<1>1. ASSUME NEW p PROVE LET v == Go(p) IN
                 /\ v.pc = p /\ v.replay = w.replay /\ v.wrote = w.wrote /\ v.decision = w.decision
                 /\ v.after = w.after /\ v.goal = w.goal /\ v.outcome = w.outcome
  BY DEF Go, WorkerType
<1>2. ASSUME NEW g PROVE LET v == End(g) IN
                 /\ v.pc = "final" /\ v.goal = g
                 /\ v.replay = w.replay /\ v.wrote = w.wrote /\ v.decision = w.decision
  BY DEF End, WorkerType
<1>3. ASSUME NEW op, NEW effect, NEW after PROVE LET v == Outcome(op, effect, after) IN
                 /\ v.pc = "settle" /\ v.after = after
                 /\ v.outcome.op = op /\ v.outcome.effect = effect
                 /\ v.replay = w.replay /\ v.wrote = w.wrote /\ v.decision = w.decision
  BY DEF Outcome, WorkerType
<1> QED
  BY <1>1, <1>2, <1>3

\* The worker gives up: nothing is pending at its place any more.
LEMMA HaltStep ==
    ASSUME LoopInv, PlaceInv, snap' = snap, env' = env, world' = world, NEW g, w' = End(g),
           w.pc # "done",
           \/ snap.control = None \/ refused' # {}
           \/ g \in {TerminalFor(snap.control), "RecoveryRequired"},
           g # "Completed"
    PROVE  PlaceInv'
<1>1. w \in WorkerType /\ snap \in Snap
  BY DEF LoopInv, Sound
<1>2. w'.pc = "final" /\ w'.goal = g /\ w'.replay = w.replay
  BY <1>1, Moves
<1>3. StopsInv'
  BY <1>2 DEF PlaceInv, StopsInv, WindingUp
<1>4. TurnInv'
  BY <1>2 DEF PlaceInv, TurnInv, Acting
<1>5. ToolInv'
  BY <1>2 DEF PlaceInv, ToolInv, Once
<1>6. ReviewInv'
  BY <1>2 DEF PlaceInv, ReviewInv, Calm, Verifying
<1> QED
  BY <1>3, <1>4, <1>5, <1>6 DEF PlaceInv

\* Between its start and its end, the worker may publish.
LEMMA OpenPlaces ==
    ASSUME PlaceInv, w.pc \notin WindingUp \cup {"settle"}, NEW type
    PROVE  Open(snap, type) /\ snap.control = None /\ snap.terminal = None /\ ~snap.stopped
  BY DEF PlaceInv, StopsInv, WindingUp, Open

\* An observation is never refused there.
LEMMA ReconcileFits ==
    ASSUME LoopInv, PlaceInv, w.pc \notin WindingUp \cup {"settle"}, NEW v, NEW e, Reconcile(v, e)
    PROVE  /\ w' = v /\ refused' = refused
           /\ snap'.terminal = snap.terminal /\ snap'.control = snap.control
           /\ snap'.stopped = snap.stopped /\ Keeps(snap, snap', {"ws"})
           /\ Calm => snap'.ws.rev = world /\ (snap.ws.rev = world => snap' = snap)
<1>1. \A type : Open(snap, type)
  BY OpenPlaces
<1>2. PICK rev \in Observed :
        LET ws == NextWorkspace(snap, rev, FALSE)
        IN  IF ws = snap.ws THEN w' = v /\ UNCHANGED <<snap, refused>>
            ELSE PublishOr("WorkspaceObserved", WorkspaceObservedFits(snap, ws),
                           WorkspaceObserved(snap, ws), v, e)
  BY Zenon DEF Reconcile
<1> DEFINE ws == NextWorkspace(snap, rev, FALSE)
<1>3. WorkspaceObservedFits(snap, ws)
  BY DEF WorkspaceObservedFits, NextWorkspace
<1>4. w' = v /\ refused' = refused /\ ((snap' = snap /\ ws = snap.ws) \/ snap' = WorkspaceObserved(snap, ws))
  BY <1>1, <1>2, <1>3, Zenon DEF PublishOr
<1>5. Keeps(snap, snap', {"ws"})
  BY ReconcileEffect
<1>6. snap \in Snap /\ ws.rev = rev
  BY DEF LoopInv, Sound, NextWorkspace
<1>7. snap'.ws = ws
  BY <1>4, <1>6 DEF WorkspaceObserved, Snap
<1>8. Calm => snap'.ws.rev = world
  BY <1>6, <1>7 DEF Calm, Observed
<1> QED
  BY <1>4, <1>5, <1>8, CalmReconcile DEF Keeps, Fields

\* The head of the loop.
LEMMA HeadFits ==
    ASSUME LoopInv, AcceptInv, PlaceInv,
           ControlsDrained \/ ApplySteer \/ ReconcileAtBoundary \/ SteersFlushed \/ BeginTurn
    PROVE  PlaceInv' /\ refused' = refused
<1>1. w \in WorkerType /\ snap \in Snap
  BY DEF LoopInv, Sound
<1>2. /\ w.pc \in {"loop", "edge", "flush", "turn"} /\ w.pc \in Working
      /\ env' = env /\ world' = world
  BY DEF ControlsDrained, ApplySteer, ReconcileAtBoundary, SteersFlushed, BeginTurn, at, quiet,
         env_same, Working, Acting
<1>3. \A type : Open(snap, type) /\ snap.control = None
  BY <1>2, OpenPlaces DEF WindingUp
<1>4. snap.candidate = None /\ snap.check.st = "None"
  BY <1>2 DEF AcceptInv, LoopInv, Sound, Coherent
<1>5. ~w.replay \/ w.pc # "flush"
  BY DEF LoopInv, Sound, Placed, Acting
<1>6. CASE ControlsDrained
  <2>1. snap' = snap /\ refused' = refused /\ w.pc = "loop"
    BY <1>6 DEF ControlsDrained, at
  <2>2. CASE w' = End("Failed")
    BY <1>2, <1>3, <2>1, <2>2, HaltStep
  <2>3. CASE w' = Go("edge")
    <3>1. w'.pc = "edge" /\ w'.replay = w.replay
      BY <1>1, <2>3, Moves
    <3>2. StopsInv' /\ TurnInv'
      BY <2>1, <3>1 DEF PlaceInv, StopsInv, TurnInv, Acting, WindingUp
    <3>3. ToolInv' /\ ReviewInv'
      BY <1>2, <2>1, <3>1 DEF PlaceInv, ToolInv, ReviewInv, Once, Calm, Verifying
    <3> QED
      BY <2>1, <3>2, <3>3 DEF PlaceInv
  <2> QED
    BY <1>6, <2>2, <2>3 DEF ControlsDrained
<1>7. CASE ApplySteer
  <2>1. w' = w /\ refused' = refused /\ snap' = SteerApplied(snap)
    BY <1>3, <1>7 DEF ApplySteer, Publish, PublishOr, SteerAppliedFits
  <2>2. Keeps(snap, snap', {"steers", "applied", "current"}) /\ snap'.current = FALSE
    BY <1>1, <2>1 DEF SteerApplied, Keeps, Fields, Snap
  <2>3. snap.tool.st = "None" /\ ~w.replay /\ w.pc \in {"edge", "flush"}
    BY <1>5, <1>7 DEF ApplySteer, SafeBoundary, PlaceInv, TurnInv, at
  <2>4. StopsInv' /\ TurnInv'
    BY <2>1, <2>2, <2>3 DEF PlaceInv, StopsInv, TurnInv, Acting, WindingUp, Keeps, Fields
  <2>5. ToolInv' /\ ReviewInv'
    BY <1>2, <2>1, <2>2, <2>3 DEF PlaceInv, ToolInv, ReviewInv, Once, Calm, Verifying, Keeps, Fields
  <2> QED
    BY <2>1, <2>4, <2>5 DEF PlaceInv
<1>8. CASE ReconcileAtBoundary
  <2>0. w.pc = "edge"
    BY <1>8 DEF ReconcileAtBoundary, at
  <2>1. /\ w' = Go("turn") /\ refused' = refused /\ Keeps(snap, snap', {"ws"})
        /\ SafeBoundary => snap.steers = <<>>
        /\ snap' = snap \/ (Calm => snap'.ws.rev = world)
    <3>1. CASE SafeBoundary
      <4>1. snap.steers = <<>> /\ Reconcile(Go("turn"), End("Failed"))
        BY <1>8, <3>1 DEF ReconcileAtBoundary
      <4> QED
        BY <1>2, <4>1, ReconcileFits DEF WindingUp
    <3>2. CASE ~SafeBoundary
      BY <1>8, <3>2 DEF ReconcileAtBoundary, Keeps, Fields
    <3> QED
      BY <3>1, <3>2
  <2>2. w'.pc = "turn" /\ w'.replay = w.replay /\ w'.wrote = w.wrote
    BY <1>1, <2>1, Moves
  <2>3. ~w.replay /\ snap.model.st = "None" => snap.tool.st = "None" /\ snap.steers = <<>>
    <3>1. ~w.replay => snap.tool.st = "None"
      BY <2>0 DEF PlaceInv, TurnInv
    <3>2. ~w.replay /\ snap.model.st = "None" => SafeBoundary
      BY <1>4, <3>1 DEF SafeBoundary
    <3> QED
      BY <2>1, <3>1, <3>2
  <2>4. StopsInv' /\ TurnInv'
    BY <2>0, <2>1, <2>2, <2>3 DEF PlaceInv, StopsInv, TurnInv, Acting, WindingUp, Keeps, Fields
  <2>5. ToolInv' /\ ReviewInv'
    BY <1>2, <2>0, <2>1, <2>2
       DEF PlaceInv, ToolInv, ReviewInv, Once, Calm, Verifying, Keeps, Fields
  <2> QED
    BY <2>1, <2>4, <2>5 DEF PlaceInv
<1>9. CASE SteersFlushed \/ BeginTurn
  <2>1. /\ snap' = snap /\ refused' = refused
        /\ \/ w.pc = "flush" /\ w' = Go("loop")
           \/ w.pc = "turn" /\ w.replay /\ w' = [Go("act") EXCEPT !.replay = FALSE]
           \/ w.pc = "turn" /\ ~w.replay /\ snap.model.st = "None" /\ w' = Go("prepare")
           \/ /\ w.pc = "turn" /\ ~w.replay /\ snap.model.st # "None"
              /\ w' = Go("backoff") \/ w' = Go("send")
    BY <1>9 DEF SteersFlushed, BeginTurn, ReplayAnswer, at
  <2>2. w' = [Go("act") EXCEPT !.replay = FALSE] => w'.pc = "act" /\ ~w'.replay /\ w'.wrote = w.wrote
    BY <1>1 DEF Go, WorkerType
  <2>3. \/ w.pc = "flush" /\ w'.pc = "loop" /\ w'.replay = w.replay
        \/ w.pc = "turn" /\ w.replay /\ w'.pc = "act" /\ ~w'.replay
        \/ w.pc = "turn" /\ ~w.replay /\ snap.model.st = "None" /\ w'.pc = "prepare" /\ ~w'.replay
        \/ w.pc = "turn" /\ snap.model.st # "None" /\ w'.pc \in {"backoff", "send"} /\ ~w'.replay
    BY <1>1, <2>1, <2>2, Moves
  <2>4. snap.model.st \in {"None", "Prepared", "InFlight"} /\ (w.pc = "flush" => snap.model.st = "None")
    BY <1>1 DEF Snap, ModelState, LoopInv, Sound, Placed, Acting
  <2>5. StopsInv'
    BY <1>3, <2>1, <2>3 DEF PlaceInv, StopsInv, WindingUp
  <2>6. TurnInv'
    BY <1>5, <2>1, <2>3, <2>4 DEF PlaceInv, TurnInv, Acting
  <2>7. ToolInv' /\ ReviewInv'
    BY <1>2, <2>1, <2>3 DEF PlaceInv, ToolInv, ReviewInv, Once, Calm, Verifying
  <2> QED
    BY <2>1, <2>5, <2>6, <2>7 DEF PlaceInv
<1> QED
  BY <1>6, <1>7, <1>8, <1>9

\* A model request, from its preparation to its answer.
LEMMA RequestFits ==
    ASSUME LoopInv, AcceptInv, PlaceInv,
           \/ CompactContext \/ ContextLimitExceeded \/ PrepareModelRequest \/ SendModelRequest
           \/ RetryDelayOver \/ Attempt
    PROVE  PlaceInv' /\ refused' = refused
<1>1. w \in WorkerType /\ snap \in Snap
  BY DEF LoopInv, Sound
<1>2. /\ w.pc \in Requesting /\ w.pc \in Working /\ env' = env /\ world' = world
  BY DEF CompactContext, ContextLimitExceeded, PrepareModelRequest, SendModelRequest,
         RetryDelayOver, Attempt, Answer, AnswerDiffers, AttemptFails, at, quiet, env_same,
         Working, Requesting
<1>3. (\A type : Open(snap, type)) /\ snap.control = None /\ w.pc # "done"
  BY <1>2, OpenPlaces DEF WindingUp, Requesting
<1>4. snap.candidate = None /\ snap.check.st = "None" /\ ~w.replay
  BY <1>2 DEF AcceptInv, LoopInv, Sound, Coherent, Placed
<1>5. ASSUME snap' = snap, refused' = refused, NEW g, w' = End(g), g # "Completed"
      PROVE  PlaceInv' /\ refused' = refused
  BY <1>2, <1>3, <1>5, HaltStep
<1>6. CASE ContextLimitExceeded \/ AnswerDiffers
  BY <1>5, <1>6 DEF ContextLimitExceeded, AnswerDiffers
<1>7. CASE CompactContext \/ RetryDelayOver
  <2>1. /\ snap' = snap /\ refused' = refused
        /\ \/ w.pc = "prepare" /\ w' = Go("compacted")
           \/ w.pc = "backoff" /\ w' = Go("send")
    <3>1. CompactContext => ContextCompactionCommittedFits(snap) /\ ~snap.stopped
      BY <1>2, <1>3, <1>4 DEF CompactContext, ContextCompactionCommittedFits, AtBoundary, PlaceInv,
                              TurnInv, StopsInv, at, WindingUp
    <3> QED
      BY <1>3, <1>7, <3>1 DEF CompactContext, RetryDelayOver, Publish, PublishOr, at
  <2>2. \/ w.pc = "prepare" /\ w'.pc = "compacted" /\ w'.replay = w.replay
        \/ w.pc = "backoff" /\ w'.pc = "send" /\ w'.replay = w.replay
    BY <1>1, <2>1, Moves
  <2>3. StopsInv' /\ TurnInv'
    BY <1>3, <1>4, <2>1, <2>2 DEF PlaceInv, StopsInv, TurnInv, Acting, WindingUp
  <2>4. ToolInv' /\ ReviewInv'
    BY <1>2, <2>1, <2>2 DEF PlaceInv, ToolInv, ReviewInv, Once, Calm, Verifying
  <2> QED
    BY <2>1, <2>3, <2>4 DEF PlaceInv
<1>8. CASE PrepareModelRequest
  <2>1. w.pc \in {"prepare", "compacted"}
    BY <1>8 DEF PrepareModelRequest
  <2>2. ModelRequestPreparedFits(snap) /\ snap.tool.st = "None"
    BY <1>3, <1>4, <2>1 DEF ModelRequestPreparedFits, AtBoundary, PlaceInv, TurnInv
  <2>3. CASE w' = End("Failed") /\ snap' = snap /\ refused' = refused
    BY <1>5, <2>3
  <2>4. CASE /\ snap' = ModelRequestPrepared(snap, ~TerminalTurn) /\ refused' = refused
             /\ w' = [Go("send") EXCEPT !.spare = @ /\ ~TerminalTurn]
    <3>1. /\ Keeps(snap, snap', {"turns", "requests", "current", "stopped", "model"})
          /\ snap'.turns = snap.turns + 1 /\ snap'.model.st = "Prepared" /\ snap'.stopped = FALSE
      <4>1. (~TerminalTurn) \in BOOLEAN
        OBVIOUS
      <4>2. /\ Keeps(snap, snap', {"turns", "requests", "current", "stopped", "model"})
            /\ snap'.turns = snap.turns + 1 /\ snap'.model.st = "Prepared"
        BY <1>1, <2>4, <4>1, PreparedEvent
      <4>3. snap'.stopped = FALSE
        BY <1>1, <2>4 DEF ModelRequestPrepared, Snap
      <4> QED
        BY <4>2, <4>3
    <3>2. w'.pc = "send" /\ w'.replay = w.replay
      BY <1>1, <2>4 DEF Go, WorkerType
    <3>3. snap.turns \in Nat /\ (snap.rejection # None => snap.rejection.turn \in Nat)
      BY <1>1 DEF Snap, Rejection
    <3>4. StopsInv' /\ TurnInv'
      BY <1>3, <1>4, <2>2, <3>1, <3>2, <3>3
         DEF PlaceInv, StopsInv, TurnInv, Acting, WindingUp, Keeps, Fields
    <3>5. ToolInv' /\ ReviewInv'
      BY <1>2, <2>2, <3>1, <3>2
         DEF PlaceInv, ToolInv, ReviewInv, Once, Calm, Verifying, Keeps, Fields
    <3> QED
      BY <2>4, <3>4, <3>5 DEF PlaceInv
  <2> QED
    BY <1>3, <1>8, <2>2, <2>3, <2>4 DEF PrepareModelRequest, Publish, PublishOr
<1>9. CASE SendModelRequest
  <2>1. w.pc = "send" /\ snap.model.st = "Prepared"
    BY <1>9 DEF SendModelRequest, at, PlaceInv, TurnInv
  <2>2. snap' = ModelRequestInFlight(snap) /\ refused' = refused /\ w' = Go("stream")
    BY <1>3, <1>9, <2>1 DEF SendModelRequest, Publish, PublishOr, ModelRequestInFlightFits
  <2>3. /\ Keeps(snap, snap', {"model"}) /\ snap'.model.st = "InFlight"
        /\ w'.pc = "stream" /\ w'.replay = w.replay
    BY <1>1, <2>2, InFlightEvent, Moves
  <2>4. StopsInv' /\ TurnInv'
    BY <1>3, <1>4, <2>1, <2>3 DEF PlaceInv, StopsInv, TurnInv, Acting, WindingUp, Keeps, Fields
  <2>5. ToolInv' /\ ReviewInv'
    BY <1>2, <2>1, <2>3 DEF PlaceInv, ToolInv, ReviewInv, Once, Calm, Verifying, Keeps, Fields
  <2> QED
    BY <2>2, <2>4, <2>5 DEF PlaceInv
<1>10. ASSUME Answer \/ AttemptFails
       PROVE  /\ w.pc = "stream" /\ snap.model.st = "InFlight" /\ snap.tool.st = "None"
              /\ snap.rejection # None => snap.rejection.turn # snap.turns
  <2>1. w.pc = "stream"
    BY <1>10 DEF Answer, AttemptFails, at
  <2> QED
    BY <2>1 DEF PlaceInv, TurnInv, LoopInv, Sound, Coherent
<1>11. CASE Answer
  <2>1. PICK kind \in {"Stop", "Blank", "Calls", "Invalid"}, calls \in CallLists \cup {<<>>} :
           /\ kind = "Calls" <=> calls # <<>>
           /\ Publish("ModelResponseCommitted", ModelResponseCommittedFits(snap),
                      ModelResponseCommitted(snap, kind, calls), Go("act"))
    BY <1>11 DEF Answer
  <2>2. snap' = ModelResponseCommitted(snap, kind, calls) /\ refused' = refused /\ w' = Go("act")
    BY <1>3, <1>10, <1>11, <2>1 DEF Publish, PublishOr, ModelResponseCommittedFits
  <2>3. calls \in Seq(CallKinds)
    <3>1. <<>> \in Seq(CallKinds)
      OBVIOUS
    <3> QED
      BY <3>1, LoopAssumption
  <2>4. /\ Keeps(snap, snap', {"model", "output", "current", "settled"})
        /\ snap'.model.st = "None" /\ snap'.current = TRUE
        /\ snap'.output.kind = kind /\ snap'.output.calls = calls
    <3>1. /\ Keeps(snap, snap', {"model", "output", "current", "settled"})
          /\ snap'.model.st = "None" /\ snap'.current = TRUE
      BY <1>1, <2>2, <2>3, ResponseEvent, Zenon
    <3>2. snap'.output = [kind |-> kind, calls |-> calls, offered |-> snap.model.offered]
      BY <1>1, <2>2 DEF ModelResponseCommitted, Snap
    <3> QED
      BY <3>1, <3>2
  <2>5. w'.pc = "act" /\ w'.replay = w.replay
    BY <1>1, <2>2, Moves
  <2>6. StopsInv' /\ TurnInv'
    BY <1>3, <1>4, <1>10, <1>11, <2>1, <2>4, <2>5
       DEF PlaceInv, StopsInv, TurnInv, Acting, WindingUp, Keeps, Fields
  <2>7. ToolInv' /\ ReviewInv'
    BY <1>2, <1>10, <1>11, <2>4, <2>5
       DEF PlaceInv, ToolInv, ReviewInv, Once, Calm, Verifying, Keeps, Fields
  <2> QED
    BY <2>2, <2>6, <2>7 DEF PlaceInv
<1>12. CASE AttemptFails
  <2>1. PICK f \in [code : Codes, retryable : BOOLEAN] :
           Publish("ModelRequestFailed", ModelRequestFailedFits(snap, f, Retries(f)),
                   ModelRequestFailed(snap, f, Retries(f)),
                   IF Retries(f) THEN Go("backoff") ELSE End("Failed"))
    BY <1>12 DEF AttemptFails
  <2>2. ModelRequestFailedFits(snap, f, Retries(f))
    BY <1>10, <1>12 DEF ModelRequestFailedFits, Retries
  <2>3. /\ refused' = refused
        /\ \/ Retries(f) /\ snap' = Retried(snap, f) /\ w' = Go("backoff")
           \/ snap' = GivenUp(snap) /\ w' = End("Failed")
    BY <1>3, <2>1, <2>2, Zenon DEF Publish, PublishOr, ModelRequestFailed
  <2>4. CASE Retries(f) /\ snap' = Retried(snap, f) /\ w' = Go("backoff")
    <3>1. Keeps(snap, snap', {"requests", "current", "model"}) /\ snap'.model.st = "Prepared"
      BY <1>1, <1>10, <1>12, <2>4, RetriedEvent DEF Retries
    <3>2. w'.pc = "backoff" /\ w'.replay = w.replay
      BY <1>1, <2>4, Moves
    <3>3. StopsInv' /\ TurnInv'
      BY <1>3, <1>4, <1>10, <1>12, <3>1, <3>2
         DEF PlaceInv, StopsInv, TurnInv, Acting, WindingUp, Keeps, Fields
    <3>4. ToolInv' /\ ReviewInv'
      BY <1>2, <1>10, <1>12, <3>1, <3>2
         DEF PlaceInv, ToolInv, ReviewInv, Once, Calm, Verifying, Keeps, Fields
    <3> QED
      BY <2>3, <3>3, <3>4 DEF PlaceInv
  <2>5. CASE snap' = GivenUp(snap) /\ w' = End("Failed")
    <3>1. Keeps(snap, snap', {"current", "stopped", "model"}) /\ snap'.model.st = "None"
      BY <1>1, <2>5, GivenUpEvent
    <3>2. w'.pc = "final" /\ w'.goal = "Failed" /\ w'.replay = w.replay
      BY <1>1, <2>5, Moves
    <3>3. StopsInv' /\ TurnInv'
      BY <1>3, <1>4, <1>10, <1>12, <3>1, <3>2
         DEF PlaceInv, StopsInv, TurnInv, Acting, WindingUp, Keeps, Fields
    <3>4. ToolInv' /\ ReviewInv'
      BY <1>2, <1>10, <1>12, <3>1, <3>2
         DEF PlaceInv, ToolInv, ReviewInv, Once, Calm, Verifying, Keeps, Fields
    <3> QED
      BY <2>3, <3>3, <3>4 DEF PlaceInv
  <2> QED
    BY <2>3, <2>4, <2>5
<1> QED
  BY <1>6, <1>7, <1>8, <1>9, <1>11, <1>12 DEF Attempt

\* A complete answer, up to the proposal of a completion.
LEMMA AnswerFits ==
    ASSUME LoopInv, AcceptInv, PlaceInv,
           ActOnAnswer \/ ReconcileBeforeProposal \/ ProposeCompletion
    PROVE  PlaceInv' /\ refused' = refused
<1>1. w \in WorkerType /\ snap \in Snap
  BY DEF LoopInv, Sound
<1>2. /\ w.pc \in {"act", "sync", "propose"} /\ env' = env /\ world' = world
  BY DEF ActOnAnswer, ReconcileBeforeProposal, ProposeCompletion, at, quiet, env_same
<1>3. (\A type : Open(snap, type)) /\ snap.control = None
  BY <1>2, OpenPlaces DEF WindingUp
<1>4. /\ snap.candidate = None /\ snap.check.st = "None" /\ ~w.replay /\ snap.model.st = "None"
      /\ snap.current /\ (snap.rejection # None => snap.rejection.turn # snap.turns)
  <2>1. w.pc \in Acting \ {"flush"} /\ w.pc \in Working
    BY <1>2 DEF Acting, Working
  <2> QED
    BY <2>1 DEF AcceptInv, LoopInv, Sound, Coherent, Placed, PlaceInv, TurnInv
<1>5. snap.output.kind \in {"Stop", "Blank"} => snap.tool.st = "None"
  <2>1. snap.output.kind \in {"Stop", "Blank"} => Len(snap.output.calls) = 0
    BY DEF PlaceInv, TurnInv
  <2> QED
    BY <1>1, <2>1 DEF LoopInv, Sound, Coherent, Snap
<1>6. CASE ActOnAnswer
  <2>1. snap' = snap /\ refused' = refused /\ w.pc = "act"
    BY <1>6 DEF ActOnAnswer, at
  <2>2. \/ w' = End("Failed")
        \/ w' = Go("call")
        \/ w' = Go("flush") /\ snap.tool.st = "None"
        \/ w' = Go("sync") /\ snap.output.kind = "Stop" /\ snap.steers = <<>>
    <3>1. snap.output.kind \in {"Stop", "Blank", "Calls", "Invalid"}
      BY <1>1, <2>1 DEF LoopInv, Sound, Placed, Snap, Output
    <3>2. CASE snap.output.kind = "Invalid"
      BY <1>6, <3>2 DEF ActOnAnswer
    <3>3. CASE snap.output.kind = "Calls"
      BY <1>6, <3>3 DEF ActOnAnswer
    <3>4. CASE snap.output.kind \in {"Stop", "Blank"}
      <4>1. w' = IF snap.steers # <<>> THEN Go("flush")
                 ELSE IF snap.output.kind = "Blank" THEN End("Failed") ELSE Go("sync")
        BY <1>6, <3>4 DEF ActOnAnswer
      <4> QED
        BY <1>5, <3>4, <4>1
    <3> QED
      BY <3>1, <3>2, <3>3, <3>4
  <2>3. CASE w' = End("Failed")
    BY <1>2, <1>3, <2>1, <2>3, HaltStep
  <2>4. CASE w' # End("Failed")
    <3>1. /\ w'.replay = w.replay
          /\ \/ w'.pc = "call"
             \/ w'.pc = "flush" /\ snap.tool.st = "None"
             \/ w'.pc = "sync" /\ snap.output.kind = "Stop" /\ snap.steers = <<>>
      BY <1>1, <2>2, <2>4, Moves
    <3>2. StopsInv' /\ TurnInv'
      BY <1>3, <1>4, <2>1, <3>1 DEF PlaceInv, StopsInv, TurnInv, Acting, WindingUp
    <3>3. ToolInv' /\ ReviewInv'
      BY <1>2, <2>1, <3>1 DEF PlaceInv, ToolInv, ReviewInv, Once, Calm, Verifying
    <3> QED
      BY <2>1, <3>2, <3>3 DEF PlaceInv
  <2> QED
    BY <2>3, <2>4
<1>7. CASE ReconcileBeforeProposal
  <2>1. w.pc = "sync" /\ Reconcile(Go("propose"), End("Failed"))
    BY <1>7 DEF ReconcileBeforeProposal, at
  <2>2. /\ w' = Go("propose") /\ refused' = refused /\ Keeps(snap, snap', {"ws"})
        /\ Calm => snap'.ws.rev = world
    BY <2>1, ReconcileFits DEF WindingUp
  <2>3. w'.pc = "propose" /\ w'.replay = w.replay
    BY <1>1, <2>2, Moves
  <2>4. StopsInv' /\ TurnInv'
    BY <1>3, <1>4, <2>1, <2>2, <2>3 DEF PlaceInv, StopsInv, TurnInv, Acting, WindingUp, Keeps, Fields
  <2>5. ToolInv' /\ ReviewInv'
    BY <1>2, <2>1, <2>2, <2>3
       DEF PlaceInv, ToolInv, ReviewInv, Once, Calm, Verifying, Keeps, Fields
  <2> QED
    BY <2>2, <2>4, <2>5 DEF PlaceInv
<1>8. CASE ProposeCompletion
  <2> DEFINE cand == [turn |-> snap.turns, ws |-> snap.ws]
  <2>1. w.pc = "propose"
    BY <1>8 DEF ProposeCompletion, at
  <2>2. snap.output.kind = "Stop" /\ snap.steers = <<>>
    BY <2>1 DEF PlaceInv, TurnInv
  <2>3. CompletionProposedFits(snap, cand)
    BY <1>3, <1>4, <1>5, <2>2 DEF CompletionProposedFits
  <2>4. /\ snap' = CompletionProposed(snap, cand) /\ refused' = refused
        /\ w' \in {End("Awaiting"), Go("review")}
    BY <1>3, <1>8, <2>3 DEF ProposeCompletion, Publish, PublishOr
  <2>5. Keeps(snap, snap', {"candidate"})
    BY <1>1, <2>4 DEF CompletionProposed, Keeps, Fields, Snap
  <2>6. /\ \/ w'.pc = "review"
           \/ w'.pc = "final" /\ w'.goal = "Awaiting"
        /\ w'.replay = w.replay
    BY <1>1, <2>4, Moves
  <2>7. StopsInv' /\ TurnInv'
    <3>1. StopsInv'
      BY <1>3, <2>5, <2>6, OpenPlaces, <2>1 DEF StopsInv, WindingUp, Keeps, Fields
    <3>2. TurnInv'
      BY <1>4, <2>2, <2>5, <2>6 DEF PlaceInv, TurnInv, Acting, Keeps, Fields
    <3> QED
      BY <3>1, <3>2
  <2>8. ToolInv' /\ ReviewInv'
    BY <1>2, <1>5, <2>2, <2>5, <2>6
       DEF PlaceInv, ToolInv, ReviewInv, Once, Calm, Verifying, Keeps, Fields
  <2> QED
    BY <2>4, <2>7, <2>8 DEF PlaceInv
<1> QED
  BY <1>6, <1>7, <1>8

\* The gate of a tool call: policy, authorization and the user.
LEMMA GateFits ==
    ASSUME LoopInv, RanInv, ApprovedInv, PlaceInv,
           \/ NextCall \/ RejectCall \/ Authorize \/ ActOnAuthorization \/ AskQuestion
           \/ RequestInteraction \/ RecheckRevision
    PROVE  PlaceInv' /\ refused' = refused
<1>1. w \in WorkerType /\ snap \in Snap /\ snap.tool \in ToolState
  BY DEF LoopInv, Sound, Snap
<1>2. /\ w.pc \in {"call", "gate", "authorized", "ask", "recheck"} /\ env' = env /\ world' = world
  BY DEF NextCall, RejectCall, Authorize, ActOnAuthorization, AskQuestion, RequestInteraction,
         RecheckRevision, at, quiet, env_same
<1>3. (\A type : Open(snap, type)) /\ snap.control = None
  BY <1>2, OpenPlaces DEF WindingUp
<1>4. /\ ~w.replay /\ snap.model.st = "None" /\ snap.current
      /\ snap.rejection # None => snap.rejection.turn # snap.turns
  <2>1. w.pc \in Acting \ {"flush"}
    BY <1>2 DEF Acting
  <2> QED
    BY <2>1 DEF LoopInv, Sound, Placed, PlaceInv, TurnInv
<1>5. /\ w.pc # "call" => snap.tool.st = "Prepared"
      /\ snap.tool.st \in {"None", "Prepared"}
  BY <1>1, <1>2 DEF PlaceInv, ToolInv, RanInv, ToolState
<1>6. ASSUME Keeps(snap, snap', {"calls", "tool"}), snap'.tool.st # "InFlight", w'.replay = w.replay,
             w'.pc \in {"gate", "authorized", "ask", "wait", "recheck", "start", "settle"},
             w'.pc = "settle" => w'.after = None
      PROVE  StopsInv' /\ TurnInv' /\ ReviewInv'
  <2>1. StopsInv'
    BY <1>2, <1>3, <1>6, OpenPlaces, ReducerAssumption DEF StopsInv, WindingUp, Keeps, Fields, Terminals
  <2>2. TurnInv'
    BY <1>4, <1>6 DEF PlaceInv, TurnInv, Acting, Keeps, Fields
  <2>3. ReviewInv'
    BY <1>2, <1>5, <1>6 DEF PlaceInv, ReviewInv, Calm, Verifying, Keeps, Fields
  <2> QED
    BY <2>1, <2>2, <2>3
<1>7. ASSUME snap' = snap, w'.replay = w.replay, w'.pc = "settle", snap.tool.st = "Prepared",
             OutcomeDue(snap.tool, w'.outcome, w'.wrote), refused' = refused, w'.after = None
      PROVE  PlaceInv' /\ refused' = refused
  <2>1. StopsInv' /\ TurnInv' /\ ReviewInv'
    BY <1>5, <1>6, <1>7 DEF Keeps, Fields
  <2>2. ToolInv'
    BY <1>2, <1>7 DEF PlaceInv, ToolInv, Once
  <2> QED
    BY <1>7, <2>1, <2>2 DEF PlaceInv
<1>8. ASSUME snap' = snap, w' = Rejected, snap.tool.st = "Prepared", refused' = refused,
             snap.tool.talk \in {"None", "Denied", "Dismissed"}
      PROVE  PlaceInv' /\ refused' = refused
  <2>1. w'.pc = "settle" /\ w'.outcome.op = "Rejected" /\ w'.outcome.effect = "NotApplied"
        /\ w'.replay = w.replay /\ w'.after = None
    BY <1>1, <1>8, Moves DEF Rejected
  <2>2. OutcomeDue(snap.tool, w'.outcome, w'.wrote)
    BY <1>8, <2>1 DEF OutcomeDue
  <2> QED
    BY <1>7, <1>8, <2>1, <2>2
<1>9. CASE NextCall
  <2>1. w.pc = "call"
    BY <1>9 DEF NextCall, at
  <2>2. CASE snap.settled = Len(snap.output.calls)
    <3>1. w' = Go("flush") /\ snap' = snap /\ refused' = refused
      BY <1>9, <2>2 DEF NextCall
    <3>2. w'.pc = "flush" /\ w'.replay = w.replay
      BY <1>1, <3>1, Moves
    <3>3. snap.tool.st = "None"
      BY <1>1, <2>2 DEF LoopInv, Sound, Coherent, Snap
    <3>4. StopsInv' /\ TurnInv'
      BY <1>3, <1>4, <2>1, <3>1, <3>2, <3>3 DEF PlaceInv, StopsInv, TurnInv, Acting, WindingUp
    <3>5. ToolInv' /\ ReviewInv'
      BY <1>2, <2>1, <3>1, <3>2, <3>3 DEF PlaceInv, ToolInv, ReviewInv, Once, Calm, Verifying
    <3> QED
      BY <3>1, <3>4, <3>5 DEF PlaceInv
  <2>3. CASE snap.settled # Len(snap.output.calls) /\ snap.tool.st # "None"
    <3>1. w' = Go("gate") /\ snap' = snap /\ refused' = refused
      BY <1>9, <2>3 DEF NextCall
    <3>2. w'.pc = "gate" /\ w'.replay = w.replay
      BY <1>1, <3>1, Moves
    <3>3. StopsInv' /\ TurnInv' /\ ReviewInv'
      BY <1>5, <1>6, <3>1, <3>2 DEF Keeps, Fields
    <3>4. ToolInv'
      BY <1>2, <1>5, <2>1, <2>3, <3>1, <3>2 DEF PlaceInv, ToolInv, Once
    <3> QED
      BY <3>1, <3>3, <3>4 DEF PlaceInv
  <2>4. CASE snap.settled # Len(snap.output.calls) /\ snap.tool.st = "None" /\ CallsSpent
    <3>1. w' = End("Failed") /\ snap' = snap /\ refused' = refused
      BY <1>9, <2>4 DEF NextCall
    <3> QED
      BY <1>2, <1>3, <3>1, HaltStep
  <2>5. CASE snap.settled # Len(snap.output.calls) /\ snap.tool.st = "None" /\ ~CallsSpent
    <3>1. ToolPreparedFits(snap)
      <4>1. snap.settled \in Nat /\ Len(snap.output.calls) \in Nat
            /\ snap.settled <= Len(snap.output.calls)
        BY <1>1 DEF LoopInv, Sound, Coherent, Snap, Output
      <4> QED
        BY <2>5, <4>1 DEF ToolPreparedFits
    <3>2. w' = Go("gate") /\ snap' = ToolPrepared(snap) /\ refused' = refused
      BY <1>3, <1>9, <2>5, <3>1 DEF NextCall, Publish, PublishOr
    <3>3. /\ Keeps(snap, snap', {"calls", "tool"})
          /\ snap'.tool.st = "Prepared" /\ snap'.tool.talk = "None"
      BY <1>1, <3>1, <3>2, ToolPreparedEvent
    <3>4. w'.pc = "gate" /\ w'.replay = w.replay
      BY <1>1, <3>2, Moves
    <3>5. StopsInv' /\ TurnInv' /\ ReviewInv'
      BY <1>6, <3>3, <3>4
    <3>6. ToolInv'
      BY <1>2, <2>1, <3>3, <3>4 DEF ToolInv, Once
    <3> QED
      BY <3>2, <3>5, <3>6 DEF PlaceInv
  <2> QED
    BY <2>2, <2>3, <2>4, <2>5
<1>10. CASE RejectCall
  <2>1. snap' = snap /\ w' = Rejected /\ refused' = refused /\ snap.tool.talk = "None" /\ w.pc = "gate"
    BY <1>10 DEF RejectCall, at
  <2> QED
    BY <1>5, <1>8, <2>1
<1>11. CASE Authorize
  <2>1. w.pc = "gate" /\ Executable(snap.tool.kind)
    BY <1>11 DEF Authorize, at
  <2>2. CASE snap.tool.auth # "None"
    <3>1. w' = Go("authorized") /\ snap' = snap /\ refused' = refused
      BY <1>11, <2>2 DEF Authorize
    <3>2. w'.pc = "authorized" /\ w'.replay = w.replay
      BY <1>1, <3>1, Moves
    <3>3. StopsInv' /\ TurnInv' /\ ReviewInv'
      BY <1>5, <1>6, <3>1, <3>2 DEF Keeps, Fields
    <3>4. ToolInv'
      BY <1>2, <1>5, <2>1, <3>1, <3>2 DEF PlaceInv, ToolInv, Once
    <3> QED
      BY <3>1, <3>3, <3>4 DEF PlaceInv
  <2>3. CASE snap.tool.auth = "None"
    <3>1. ToolAuthorizationCommittedFits(snap)
      BY <1>5, <2>1, <2>3 DEF ToolAuthorizationCommittedFits
    <3>2. PICK disposition \in {"Allow", "Ask", "Deny"} :
             /\ snap' = ToolAuthorizationCommitted(snap, disposition)
             /\ w' = Go("authorized") /\ refused' = refused
      BY <1>3, <1>11, <2>3, <3>1 DEF Authorize, Publish, PublishOr
    <3>3. Keeps(snap, snap', {"tool"}) /\ snap'.tool = [snap.tool EXCEPT !.auth = disposition, !.seen = snap.ws.rev]
      BY <1>1, <3>2 DEF ToolAuthorizationCommitted, Keeps, Fields, Snap, ToolState
    <3>4. /\ snap'.tool.st = snap.tool.st /\ snap'.tool.kind = snap.tool.kind
          /\ snap'.tool.talk = snap.tool.talk
      BY <1>1, <3>3 DEF ToolState
    <3>5. snap.tool.talk = "None"
      BY <2>1, <2>3 DEF PlaceInv, ToolInv
    <3>6. w'.pc = "authorized" /\ w'.replay = w.replay
      BY <1>1, <3>2, Moves
    <3>7. StopsInv' /\ TurnInv' /\ ReviewInv'
      BY <1>5, <1>6, <2>1, <3>3, <3>4, <3>6 DEF Keeps, Fields
    <3>8. ToolInv'
      BY <1>2, <1>5, <2>1, <3>4, <3>5, <3>6 DEF ToolInv, Once
    <3> QED
      BY <3>2, <3>7, <3>8 DEF PlaceInv
  <2> QED
    BY <2>2, <2>3
<1>12. ASSUME snap' = snap, refused' = refused, snap.tool.st = "Prepared", NEW p, w' = Go(p),
              \/ p = "recheck" /\ MayStart(snap.tool)
              \/ p = "start" /\ (Once => MayStart(snap.tool))
              \/ p = "ask" /\ Interactive /\ (Executable(snap.tool.kind) => snap.tool.auth = "Ask")
              \/ /\ p = "wait" /\ (Executable(snap.tool.kind) => snap.tool.auth = "Ask")
                 /\ snap.tool.talk = "Open"
       PROVE  PlaceInv' /\ refused' = refused
  <2>1. w'.pc = p /\ w'.replay = w.replay
    BY <1>1, <1>12, Moves
  <2>2. StopsInv' /\ TurnInv' /\ ReviewInv'
    BY <1>6, <1>12, <2>1 DEF Keeps, Fields
  <2>3. ToolInv'
    BY <1>2, <1>12, <2>1 DEF PlaceInv, ToolInv, Once
  <2> QED
    BY <1>12, <2>2, <2>3 DEF PlaceInv
<1>13. ASSUME snap' = snap, refused' = refused, snap.tool.st = "Prepared",
              w' = Replied(snap.tool.talk), snap.tool.talk \notin {"None", "Open"}
       PROVE  PlaceInv' /\ refused' = refused
  <2>1. CASE Executable(snap.tool.kind) /\ snap.tool.talk = "Approved"
    <3>1. w' = Go("recheck") /\ MayStart(snap.tool)
      BY <1>13, <2>1 DEF Replied, MayStart, PlaceInv, ToolInv
    <3> QED
      BY <1>12, <1>13, <3>1
  <2>2. CASE ~Executable(snap.tool.kind) /\ snap.tool.talk = "Answered"
    <3>1. w' = Outcome("Finished", "NotApplied", None)
      BY <1>13, <2>2 DEF Replied
    <3>2. w'.pc = "settle" /\ w'.outcome.op = "Finished" /\ w'.outcome.effect = "NotApplied"
          /\ w'.replay = w.replay /\ w'.after = None
      BY <1>1, <3>1, Moves
    <3>3. OutcomeDue(snap.tool, w'.outcome, w'.wrote)
      BY <1>13, <2>2, <3>2 DEF OutcomeDue, Executable
    <3> QED
      BY <1>7, <1>13, <3>2, <3>3
  <2>3. CASE snap.tool.talk \in {"Denied", "Dismissed"}
    <3>1. w' = Rejected
      BY <1>13, <2>3 DEF Replied
    <3> QED
      BY <1>8, <1>13, <2>3, <3>1
  <2> QED
    BY <1>13, <2>1, <2>2, <2>3 DEF PlaceInv, ToolInv, Answers
<1>14. CASE ActOnAuthorization
  <2>1. w.pc = "authorized" /\ snap' = snap /\ refused' = refused
    BY <1>14 DEF ActOnAuthorization, at
  <2>2. Executable(snap.tool.kind)
    BY <2>1 DEF ApprovedInv
  <2>3. CASE snap.tool.auth = "Allow"
    <3>1. w' = Go("recheck")
      BY <1>14, <2>3 DEF ActOnAuthorization
    <3>2. MayStart(snap.tool)
      BY <2>2, <2>3 DEF MayStart, PlaceInv, ToolInv
    <3> QED
      BY <1>5, <1>12, <2>1, <3>1, <3>2
  <2>4. CASE snap.tool.auth = "Ask" /\ Interactive
    <3>1. w' = Go("ask")
      BY <1>14, <2>4 DEF ActOnAuthorization
    <3> QED
      BY <1>5, <1>12, <2>1, <2>4, <3>1
  <2>5. CASE snap.tool.auth # "Allow" /\ ~(snap.tool.auth = "Ask" /\ Interactive)
    <3>1. w' = Rejected
      BY <1>14, <2>5 DEF ActOnAuthorization
    <3>2. snap.tool.talk = "None"
      BY <2>2, <2>5 DEF PlaceInv, ToolInv
    <3> QED
      BY <1>5, <1>8, <2>1, <3>1, <3>2
  <2> QED
    BY <2>3, <2>4, <2>5
<1>15. CASE AskQuestion
  <2>1. w.pc = "gate" /\ snap' = snap /\ refused' = refused /\ ~Executable(snap.tool.kind)
    BY <1>15 DEF AskQuestion, at
  <2>2. CASE Interactive
    <3>1. w' = Go("ask")
      BY <1>15, <2>2 DEF AskQuestion
    <3> QED
      BY <1>5, <1>12, <2>1, <2>2, <3>1
  <2>3. CASE ~Interactive
    <3>1. w' = Rejected /\ snap.tool.talk = "None"
      BY <1>15, <2>3 DEF AskQuestion, PlaceInv, ToolInv
    <3> QED
      BY <1>5, <1>8, <2>1, <3>1
  <2> QED
    BY <2>2, <2>3
<1>16. CASE RequestInteraction
  <2>1. w.pc = "ask" /\ Interactive /\ (Executable(snap.tool.kind) => snap.tool.auth = "Ask")
    BY <1>16 DEF RequestInteraction, at, PlaceInv, ToolInv
  <2>2. CASE snap.tool.talk = "None"
    <3>1. InteractionRequestedFits(snap)
      BY <1>5, <2>1, <2>2 DEF InteractionRequestedFits
    <3>2. w' = Go("wait") /\ snap' = InteractionRequested(snap) /\ refused' = refused
      BY <1>3, <1>16, <2>2, <3>1 DEF RequestInteraction, Publish, PublishOr
    <3>3. Keeps(snap, snap', {"tool"}) /\ snap'.tool = [snap.tool EXCEPT !.talk = "Open"]
      BY <1>1, <3>2 DEF InteractionRequested, Keeps, Fields, Snap, ToolState
    <3>4. /\ snap'.tool.st = snap.tool.st /\ snap'.tool.kind = snap.tool.kind
          /\ snap'.tool.talk = "Open" /\ snap'.tool.auth = snap.tool.auth
      BY <1>1, <3>3 DEF ToolState
    <3>5. w'.pc = "wait" /\ w'.replay = w.replay
      BY <1>1, <3>2, Moves
    <3>6. StopsInv' /\ TurnInv' /\ ReviewInv'
      BY <1>5, <1>6, <2>1, <3>3, <3>4, <3>5 DEF Keeps, Fields
    <3>7. ToolInv'
      BY <1>2, <1>5, <2>1, <3>4, <3>5 DEF ToolInv, Once, Answers
    <3> QED
      BY <3>2, <3>6, <3>7 DEF PlaceInv
  <2>3. CASE snap.tool.talk = "Open"
    <3>1. w' = Go("wait") /\ snap' = snap /\ refused' = refused
      BY <1>16, <2>3 DEF RequestInteraction
    <3> QED
      BY <1>5, <1>12, <2>1, <2>3, <3>1
  <2>4. CASE snap.tool.talk \notin {"None", "Open"}
    <3>1. w' = Replied(snap.tool.talk) /\ snap' = snap /\ refused' = refused
      BY <1>16, <2>4 DEF RequestInteraction
    <3> QED
      BY <1>5, <1>13, <2>1, <2>4, <3>1
  <2> QED
    BY <2>2, <2>3, <2>4
<1>17. CASE RecheckRevision
  <2>1. /\ w.pc = "recheck" /\ snap' = snap /\ refused' = refused
        /\ w' = Outcome("Stale", "NotApplied", None) \/ w' = Go("start")
    BY <1>17 DEF RecheckRevision, at
  <2>2. CASE w' = Go("start")
    BY <1>5, <1>12, <2>1, <2>2 DEF PlaceInv, ToolInv
  <2>3. CASE w' = Outcome("Stale", "NotApplied", None)
    <3>1. w'.pc = "settle" /\ w'.outcome.op = "Stale" /\ w'.outcome.effect = "NotApplied"
          /\ w'.replay = w.replay /\ w'.after = None
      BY <1>1, <2>3, Moves
    <3>2. Once => OutcomeDue(snap.tool, w'.outcome, w'.wrote)
      BY <1>5, <2>1, <3>1 DEF OutcomeDue, MayStart, PlaceInv, ToolInv
    <3>3. StopsInv' /\ TurnInv' /\ ReviewInv'
      BY <1>5, <1>6, <2>1, <3>1 DEF Keeps, Fields
    <3>4. ToolInv'
      BY <1>2, <1>5, <2>1, <3>1, <3>2 DEF PlaceInv, ToolInv, Once
    <3> QED
      BY <2>1, <3>3, <3>4 DEF PlaceInv
  <2> QED
    BY <2>1, <2>2, <2>3
<1> QED
  BY <1>9, <1>10, <1>11, <1>14, <1>15, <1>16, <1>17

\* The end of the run cuts off what the worker waits for.
LEMMA StopFits ==
    ASSUME LoopInv, PlaceInv, w.pc \in Listening, env' = env, world' = world,
           NEW goal \in {"Failed", "Interrupted", "Cancelled"}, w' = StopAs(goal),
           Keeps(snap, snap', {"control", "receipts"}),
           snap'.control # None => goal = TerminalFor(snap'.control)
    PROVE  PlaceInv'
<1>1. w \in WorkerType /\ snap \in Snap
  BY DEF LoopInv, Sound
<1>2. snap.terminal = None /\ ~snap.stopped
  BY OpenPlaces DEF Listening, WindingUp
<1>3. CASE w.pc \notin {"wait", "running"}
  <2>1. w' = End(goal)
    BY <1>3 DEF StopAs
  <2>2. w'.pc = "final" /\ w'.goal = goal /\ w'.replay = w.replay
    BY <1>1, <2>1, Moves
  <2>3. StopsInv'
    BY <1>2, <2>2 DEF StopsInv, WindingUp, Keeps, Fields
  <2>4. TurnInv'
    BY <2>2 DEF PlaceInv, TurnInv, Acting, Keeps, Fields
  <2>5. ToolInv' /\ ReviewInv'
    BY <2>2 DEF PlaceInv, ToolInv, ReviewInv, Once, Calm, Verifying, Keeps, Fields
  <2> QED
    BY <2>3, <2>4, <2>5 DEF PlaceInv
<1>4. CASE w.pc \in {"wait", "running"}
  <2>1. PICK op, effect : /\ w' = Outcome(op, effect, goal)
                          /\ \/ /\ w.pc = "running" /\ op = "Cancelled"
                                /\ effect = IF MayWrite(snap.tool.kind) THEN "Indeterminate"
                                            ELSE "NotApplicable"
                             \/ /\ w.pc = "wait" /\ Executable(snap.tool.kind)
                                /\ op = "NeverRun" /\ effect = "NotApplied"
                             \/ /\ w.pc = "wait" /\ ~Executable(snap.tool.kind)
                                /\ op = "Cancelled" /\ effect = "Indeterminate"
    BY <1>4 DEF StopAs, CutOff, at
  <2>2. /\ w'.pc = "settle" /\ w'.after = goal /\ w'.replay = w.replay
        /\ w'.outcome.op = op /\ w'.outcome.effect = effect /\ w'.wrote = w.wrote
    BY <1>1, <2>1, Moves
  <2>3. StopsInv'
    BY <1>2, <2>2 DEF StopsInv, WindingUp, Keeps, Fields
  <2>4. TurnInv'
    BY <1>4, <2>2 DEF PlaceInv, TurnInv, Acting, Keeps, Fields
  <2>5. OutcomeDue(snap.tool, w'.outcome, w'.wrote)
    BY <1>4, <2>1, <2>2 DEF OutcomeDue, PlaceInv, ToolInv, MayStart, MayWrite, Executable
  <2>6. snap.tool.st # "None" /\ snap'.tool = snap.tool
    BY <1>4 DEF PlaceInv, ToolInv, Keeps, Fields
  <2>7. ToolInv'
    BY <2>2, <2>5, <2>6 DEF PlaceInv, ToolInv, Once
  <2>8. ReviewInv'
    BY <1>4, <2>2 DEF PlaceInv, ReviewInv, ToolInv, Calm, Verifying, Keeps, Fields
  <2> QED
    BY <2>3, <2>4, <2>7, <2>8 DEF PlaceInv
<1> QED
  BY <1>3, <1>4

\* A tool runs.
LEMMA RunFits ==
    ASSUME LoopInv, ApprovedInv, PlaceInv, StartTool \/ ToolWrites \/ ToolReturns \/ DeadlineExpires
    PROVE  PlaceInv' /\ (Once => refused' = refused)
           /\ refused' \subseteq refused \cup {"ToolExecutionStarted"}
<1>1. w \in WorkerType /\ snap \in Snap /\ snap.tool \in ToolState
  BY DEF LoopInv, Sound, Snap
<1>2. w.pc \in {"start"} \cup Listening /\ env' = env
  BY DEF StartTool, ToolWrites, ToolReturns, DeadlineExpires, WatchesClock, Listening, at, quiet,
         env_same
<1>3. (\A type : Open(snap, type)) /\ snap.control = None
  BY <1>2, OpenPlaces DEF WindingUp, Listening
<1>4. CASE StartTool
  <2>1. w.pc = "start" /\ world' = world
    BY <1>4 DEF StartTool, at, env_same
  <2>2. /\ snap.tool.st = "Prepared" /\ Executable(snap.tool.kind)
        /\ Once => ToolExecutionStartedFits(snap)
    BY <2>1 DEF PlaceInv, ToolInv, ApprovedInv, MayStart, ToolExecutionStartedFits
  <2>3. \/ /\ snap' = snap /\ w' = End("Failed") /\ ~ToolExecutionStartedFits(snap)
           /\ refused' = refused \cup {"ToolExecutionStarted"}
        \/ /\ snap' = ToolExecutionStarted(snap) /\ w' = [Go("running") EXCEPT !.wrote = FALSE]
           /\ refused' = refused /\ ToolExecutionStartedFits(snap)
    BY <1>3, <1>4, <2>2 DEF StartTool, Publish, PublishOr
  <2>4. CASE snap' = snap /\ w' = End("Failed")
    BY <1>2, <1>3, <2>1, <2>2, <2>3, <2>4, HaltStep
  <2>5. CASE /\ snap' = ToolExecutionStarted(snap) /\ w' = [Go("running") EXCEPT !.wrote = FALSE]
             /\ refused' = refused /\ ToolExecutionStartedFits(snap)
    <3>1. Keeps(snap, snap', {"tool"}) /\ snap'.tool = [snap.tool EXCEPT !.st = "InFlight"]
      BY <1>1, <2>5 DEF ToolExecutionStarted, Keeps, Fields, Snap, ToolState
    <3>2. /\ snap'.tool.st = "InFlight" /\ snap'.tool.kind = snap.tool.kind
          /\ snap'.tool.talk = snap.tool.talk /\ snap'.tool.auth = snap.tool.auth
      BY <1>1, <3>1 DEF ToolState
    <3>3. w'.pc = "running" /\ w'.replay = w.replay
      BY <1>1, <2>5 DEF Go, WorkerType
    <3>4. MayStart(snap'.tool)
      BY <2>2, <2>5, <3>2 DEF MayStart, ToolExecutionStartedFits
    <3>5. StopsInv'
      BY <1>3, <2>1, <3>1, <3>3, OpenPlaces DEF StopsInv, WindingUp, Keeps, Fields
    <3>6. TurnInv'
      BY <2>1, <3>1, <3>3 DEF PlaceInv, TurnInv, Acting, Keeps, Fields
    <3>7. ToolInv'
      BY <2>1, <3>2, <3>3, <3>4 DEF PlaceInv, ToolInv, Once, Answers
    <3>8. ReviewInv'
      BY <1>2, <2>1, <2>2, <3>1, <3>3 DEF PlaceInv, ReviewInv, Calm, Verifying, Keeps, Fields
    <3> QED
      BY <2>5, <3>5, <3>6, <3>7, <3>8 DEF PlaceInv
  <2> QED
    BY <2>3, <2>4, <2>5
<1>5. CASE ToolWrites
  <2>1. /\ w.pc = "running" /\ MayWrite(snap.tool.kind) /\ snap' = snap /\ refused' = refused
        /\ w' = [w EXCEPT !.wrote = TRUE]
    BY <1>5 DEF ToolWrites, at
  <2>2. w'.pc = "running" /\ w'.replay = w.replay /\ w'.wrote = TRUE
    BY <1>1, <2>1 DEF WorkerType
  <2>3. StopsInv' /\ TurnInv'
    BY <1>3, <2>1, <2>2 DEF PlaceInv, StopsInv, TurnInv, Acting, WindingUp
  <2>4. ToolInv'
    BY <1>2, <2>1, <2>2 DEF PlaceInv, ToolInv, Once
  <2>5. ReviewInv'
    BY <1>2, <2>1, <2>2 DEF PlaceInv, ToolInv, ReviewInv, Calm, Verifying
  <2> QED
    BY <2>1, <2>3, <2>4, <2>5 DEF PlaceInv
<1>6. CASE ToolReturns
  <2>1. PICK effect : /\ w' = Outcome("Finished", effect, None)
                      /\ MayWrite(snap.tool.kind) /\ w.wrote => effect # "NotApplied"
                      /\ ~MayWrite(snap.tool.kind) => effect = "NotApplicable"
    BY <1>6 DEF ToolReturns
  <2>2. w.pc = "running" /\ snap' = snap /\ refused' = refused /\ world' = world
    BY <1>6 DEF ToolReturns, at, quiet, env_same
  <2>3. /\ w'.pc = "settle" /\ w'.replay = w.replay /\ w'.wrote = w.wrote /\ w'.after = None
        /\ w'.outcome.op = "Finished" /\ w'.outcome.effect = effect
    BY <1>1, <2>1, Moves
  <2>4. OutcomeDue(snap.tool, w'.outcome, w'.wrote)
    BY <2>1, <2>2, <2>3 DEF OutcomeDue, PlaceInv, ToolInv, MayStart, MayWrite
  <2>5. StopsInv' /\ TurnInv'
    BY <1>3, <2>2, <2>3, ReducerAssumption DEF PlaceInv, StopsInv, TurnInv, Acting, WindingUp, Terminals
  <2>6. ToolInv'
    BY <1>2, <2>2, <2>3, <2>4 DEF PlaceInv, ToolInv, Once
  <2>7. ReviewInv'
    BY <1>2, <2>2, <2>3 DEF PlaceInv, ReviewInv, Calm, Verifying
  <2> QED
    BY <2>2, <2>5, <2>6, <2>7 DEF PlaceInv
<1>7. CASE DeadlineExpires
  <2>1. /\ w.pc \in Listening /\ w' = StopAs("Failed") /\ snap' = snap /\ refused' = refused
        /\ world' = world
    BY <1>7 DEF DeadlineExpires, WatchesClock, Listening, quiet, env_same
  <2> QED
    BY <1>2, <1>3, <2>1, StopFits DEF Keeps, Fields
<1> QED
  BY <1>4, <1>5, <1>6, <1>7

\* Its outcome is settled.
LEMMA SettleFits ==
    ASSUME LoopInv, PlaceInv, CommitOutcome
    PROVE  /\ PlaceInv'
           /\ refused' \subseteq refused \cup {"ToolOutcomeCommitted"}
           /\ Once /\ Calm => refused' = refused
<1>1. w \in WorkerType /\ snap \in Snap /\ snap.tool \in ToolState /\ snap.ws \in Workspace
  BY DEF LoopInv, Sound, Snap
<1>2. w.pc = "settle" /\ env' = env /\ world' = world
  BY DEF CommitOutcome, at, quiet, env_same
<1>3. /\ Open(snap, "ToolOutcomeCommitted")
      /\ snap.terminal = None /\ ~snap.stopped
      /\ snap.control # None => w.after = TerminalFor(snap.control) /\ w.after # None
  BY <1>2, ReducerAssumption DEF PlaceInv, StopsInv, WindingUp, Open, Settlement, TerminalFor,
                                 Terminals
<1>4. PICK rev \in Observed :
         LET ws == IF MayWrite(snap.tool.kind) /\ snap.tool.st = "InFlight"
                   THEN NextWorkspace(snap, rev, TRUE) ELSE None
         IN  Publish("ToolOutcomeCommitted", ToolOutcomeCommittedFits(snap, w.outcome, ws),
                     ToolOutcomeCommitted(snap, ws),
                     IF w.after # None THEN End(w.after)
                     ELSE [Go("call") EXCEPT !.outcome = None, !.wrote = FALSE])
  BY Zenon DEF CommitOutcome
<1> DEFINE ws == IF MayWrite(snap.tool.kind) /\ snap.tool.st = "InFlight"
                 THEN NextWorkspace(snap, rev, TRUE) ELSE None
           after == NextWorkspace(snap, rev, TRUE)
<1>5. after.gen = snap.ws.gen + 1 /\ after.rev = rev /\ after # None /\ after \in Workspace
  <2>1. rev \in Revisions \cup {Unknown}
    BY ObservedType
  <2>2. after \in Workspace
    BY <1>1, <2>1 DEF NextWorkspace, Workspace
  <2> QED
    BY <2>2, ReducerAssumption DEF NextWorkspace
<1>6. Calm => rev = world
  BY DEF Calm, Observed
<1> HIDE DEF after
<1>7. ws = IF MayWrite(snap.tool.kind) /\ snap.tool.st = "InFlight" THEN after ELSE None
  BY DEF after
<1> HIDE DEF ws
<1>8. Once /\ Calm => ToolOutcomeCommittedFits(snap, w.outcome, ws)
  <2> SUFFICES ASSUME Once, Calm PROVE ToolOutcomeCommittedFits(snap, w.outcome, ws)
    OBVIOUS
  <2>1. snap.tool.st # "None" /\ OutcomeDue(snap.tool, w.outcome, w.wrote)
    BY <1>2 DEF PlaceInv, ToolInv
  <2>2. snap.tool.st \in {"None", "Prepared", "InFlight"}
    BY <1>1 DEF ToolState
  <2>3. \/ snap.ws.rev = world
        \/ snap.tool.st = "InFlight" /\ MayWrite(snap.tool.kind) /\ w.wrote
    BY <1>2 DEF PlaceInv, ReviewInv
  <2>4. /\ ws = None => ~(MayWrite(snap.tool.kind) /\ snap.tool.st = "InFlight")
        /\ ws # None => /\ MayWrite(snap.tool.kind) /\ snap.tool.st = "InFlight"
                        /\ ws.gen = snap.ws.gen + 1 /\ ws.rev = world
    BY <1>5, <1>6, <1>7
  <2> QED
    BY <2>1, <2>2, <2>3, <2>4 DEF ToolOutcomeCommittedFits, OutcomeDue
<1>9. \/ /\ snap' = snap /\ w' = End("Failed") /\ refused' = refused \cup {"ToolOutcomeCommitted"}
         /\ ~ToolOutcomeCommittedFits(snap, w.outcome, ws)
      \/ /\ snap' = ToolOutcomeCommitted(snap, ws) /\ refused' = refused
         /\ ToolOutcomeCommittedFits(snap, w.outcome, ws)
         /\ w' = IF w.after # None THEN End(w.after)
                 ELSE [Go("call") EXCEPT !.outcome = None, !.wrote = FALSE]
  BY <1>3, <1>4, Zenon DEF Publish, PublishOr, ws
<1>10. CASE snap' = snap /\ w' = End("Failed") /\ refused' = refused \cup {"ToolOutcomeCommitted"}
  <2>1. refused' # {}
    BY <1>10
  <2> QED
    BY <1>2, <1>8, <1>9, <1>10, <2>1, HaltStep
<1>11. CASE /\ snap' = ToolOutcomeCommitted(snap, ws) /\ refused' = refused
            /\ ToolOutcomeCommittedFits(snap, w.outcome, ws)
            /\ w' = IF w.after # None THEN End(w.after)
                    ELSE [Go("call") EXCEPT !.outcome = None, !.wrote = FALSE]
  <2>1. ws \in Workspace \cup {None}
    BY <1>5, <1>7
  <2>2. /\ Keeps(snap, snap', {"tool", "settled", "ws"}) /\ snap'.tool = IdleTool
        /\ snap'.ws = IF ws = None THEN snap.ws ELSE ws
    BY <1>1, <1>11, <2>1, OutcomeEvent
  <2>3. snap'.tool.st = "None" /\ snap'.tool.talk = "None"
    BY <2>2 DEF IdleTool
  <2>4. w' = [Go("call") EXCEPT !.outcome = None, !.wrote = FALSE] => w'.pc = "call" /\ w'.replay = w.replay
    BY <1>1 DEF Go, WorkerType
  <2>5. /\ w'.replay = w.replay
        /\ \/ w'.pc = "call" /\ snap.control = None
           \/ w'.pc = "final" /\ w'.goal = w.after
    BY <1>1, <1>3, <1>11, <2>4, Moves
  <2>6. w.after # "Completed"
    BY <1>2 DEF PlaceInv, StopsInv
  <2>7. StopsInv'
    BY <1>3, <2>2, <2>5 DEF StopsInv, WindingUp, Keeps, Fields
  <2>8. TurnInv'
    BY <1>2, <2>2, <2>3, <2>5 DEF PlaceInv, TurnInv, Acting, Keeps, Fields
  <2>9. ToolInv'
    BY <2>3, <2>5 DEF ToolInv, Once
  <2>10. Calm => snap'.ws.rev = world
    BY <1>2, <1>5, <1>6, <1>7, <2>2 DEF PlaceInv, ReviewInv
  <2>11. ReviewInv'
    BY <1>2, <2>2, <2>5, <2>6, <2>10 DEF PlaceInv, ReviewInv, Calm, Verifying, Keeps, Fields
  <2> QED
    BY <1>11, <2>7, <2>8, <2>9, <2>11 DEF PlaceInv
<1> QED
  BY <1>9, <1>10, <1>11

\* A command is handled.  Without copies, an answer is new.
LEMMA ControlFits ==
    ASSUME LoopInv, PlaceInv, InboxInv, HandleControl
    PROVE  PlaceInv' /\ refused' = refused
<1>1. w \in WorkerType /\ snap \in Snap /\ snap.tool \in ToolState
  BY DEF LoopInv, Sound, Snap
<1>2. w.pc \in Listening /\ env' = env /\ world' = world
  BY DEF HandleControl
<1>3. (\A type : Open(snap, type)) /\ snap.control = None
  BY <1>2, OpenPlaces DEF WindingUp, Listening
<1>4. PICK c : /\ c = Head(inbox) /\ inbox # <<>>
               /\ \/ HandleRepeated(c) \/ HandleSteer(c) \/ HandleStop(c) \/ HandleResolve(c)
                  \/ HandleAccept(c)
  BY DEF HandleControl
<1>5. c \in Command /\ 1 \in DOMAIN inbox /\ c = inbox[1]
  BY <1>4 DEF LoopInv, World
<1>6. ASSUME w' = w, Keeps(snap, snap', {"ws", "consents", "steers", "receipts"}),
             snap'.ws = snap.ws \/ (Calm => snap'.ws.rev = world)
      PROVE  PlaceInv'
  <2>1. StopsInv' /\ TurnInv'
    BY <1>2, <1>3, <1>6 DEF PlaceInv, StopsInv, TurnInv, Acting, WindingUp, Listening, Keeps, Fields
  <2>2. ToolInv'
    BY <1>2, <1>6 DEF PlaceInv, ToolInv, Once, Keeps, Fields
  <2>3. ReviewInv'
    BY <1>2, <1>6 DEF PlaceInv, ReviewInv, Calm, Verifying, Listening, Keeps, Fields
  <2> QED
    BY <2>1, <2>2, <2>3 DEF PlaceInv
<1>7. ASSUME Keeps(snap, snap', {"tool", "receipts"}), snap'.tool.st = "Prepared",
             snap.tool.st = "Prepared",
             w.pc = "wait", w'.pc \in {"recheck", "settle"}, w'.replay = w.replay,
             w'.pc = "settle" => w'.after = None
      PROVE  StopsInv' /\ TurnInv' /\ ReviewInv'
  <2>1. StopsInv'
    BY <1>3, <1>7, OpenPlaces, ReducerAssumption
       DEF StopsInv, WindingUp, Keeps, Fields, Terminals
  <2>2. TurnInv'
    BY <1>7 DEF PlaceInv, TurnInv, Acting, Keeps, Fields
  <2>3. ReviewInv'
    BY <1>2, <1>7 DEF PlaceInv, ReviewInv, Calm, Verifying, Keeps, Fields
  <2> QED
    BY <2>1, <2>2, <2>3
<1>8. ASSUME NEW a, w' = Replied(a)
      PROVE  \/ /\ w'.pc = "recheck" /\ w'.replay = w.replay
                /\ Executable(snap.tool.kind) /\ a = "Approved"
             \/ /\ w'.pc = "settle" /\ w'.replay = w.replay /\ w'.after = None
                /\ w'.outcome.effect = "NotApplied"
                /\ \/ w'.outcome.op = "Rejected" /\ ~(Executable(snap.tool.kind) /\ a = "Approved")
                                                 /\ ~(~Executable(snap.tool.kind) /\ a = "Answered")
                   \/ w'.outcome.op = "Finished" /\ ~Executable(snap.tool.kind) /\ a = "Answered"
  BY <1>1, <1>8, Moves DEF Replied, Rejected
<1>9. w.pc = "wait" => /\ snap.tool.st = "Prepared" /\ Interactive /\ snap.tool.talk = "Open"
                       /\ Executable(snap.tool.kind) => snap.tool.auth = "Ask"
  BY DEF PlaceInv, ToolInv
<1>10. CASE HandleRepeated(c)
  <2>1. snap' = snap /\ refused' = refused /\ Keeps(snap, snap', {})
    BY <1>10 DEF HandleRepeated, Keeps
  <2>2. CASE w' = w
    BY <1>6, <2>1, <2>2 DEF Keeps, Fields
  <2>3. CASE c.kind \in Stops /\ w' = StopAs(TerminalFor(c.kind))
    <3>1. TerminalFor(c.kind) \in {"Failed", "Interrupted", "Cancelled"}
      BY DEF TerminalFor
    <3> QED
      BY <1>2, <1>3, <2>1, <2>3, <3>1, StopFits DEF Keeps, Fields
  <2>4. CASE /\ c.kind = "Resolve" /\ c \in snap.receipts
             /\ w.pc = "wait" /\ w' = Replied(c.answer)
    <3>1. ~Once
      BY <1>5, <2>4 DEF InboxInv
    <3>2. StopsInv' /\ TurnInv' /\ ReviewInv' /\ w'.pc \in {"recheck", "settle"}
      BY <1>7, <1>8, <1>9, <2>1, <2>4 DEF Keeps, Fields
    <3>3. ToolInv'
      BY <1>2, <1>9, <2>1, <2>4, <3>1, <3>2 DEF PlaceInv, ToolInv, Once
    <3> QED
      BY <2>1, <3>2, <3>3 DEF PlaceInv
  <2> QED
    BY <1>10, <2>2, <2>3, <2>4 DEF HandleRepeated, ReplyAs, at
<1>11. CASE HandleSteer(c)
  <2>1. SteerQueuedFits(snap, c)
    BY <1>11 DEF HandleSteer, SteerQueuedFits
  <2>2. w' = w /\ snap' = SteerQueued(snap, c) /\ refused' = refused
    BY <1>3, <1>11, <2>1 DEF HandleSteer, Publish, PublishOr
  <2>3. Keeps(snap, snap', {"steers", "receipts"})
    BY <1>1, <2>2 DEF SteerQueued, Keeps, Fields, Snap
  <2> QED
    BY <1>6, <2>2, <2>3 DEF Keeps, Fields
<1>12. CASE HandleStop(c)
  <2>1. ControlRequestedFits(snap, c) /\ c.kind \in Stops
    BY <1>3, <1>12 DEF HandleStop, ControlRequestedFits
  <2>2. /\ w' = StopAs(TerminalFor(c.kind)) /\ snap' = ControlRequested(snap, c)
        /\ refused' = refused
    BY <1>3, <1>12, <2>1 DEF HandleStop, Publish, PublishOr
  <2>3. Keeps(snap, snap', {"control", "receipts"}) /\ snap'.control = c.kind
    BY <1>1, <1>5, <2>1, <2>2, StopEvent
  <2>4. TerminalFor(c.kind) \in {"Failed", "Interrupted", "Cancelled"}
    BY DEF TerminalFor
  <2> QED
    BY <1>2, <2>2, <2>3, <2>4, StopFits
<1>13. CASE HandleResolve(c)
  <2>1. CASE w' = w /\ snap' = snap /\ refused' = refused
    BY <1>6, <2>1 DEF Keeps
  <2>2. CASE snap.tool.talk = "Open" /\ c.call = snap.calls /\ c.answer \in Answers(snap.tool.kind)
    <3>1. InteractionResolvedFits(snap, c)
      BY <1>13, <2>2 DEF HandleResolve, InteractionResolvedFits
    <3>2. w' = ReplyAs(c.answer) /\ snap' = InteractionResolved(snap, c) /\ refused' = refused
      BY <1>3, <1>13, <2>2, <3>1 DEF HandleResolve, Publish, PublishOr
    <3>3. /\ Keeps(snap, snap', {"tool", "receipts"})
          /\ snap'.tool.st = snap.tool.st /\ snap'.tool.kind = snap.tool.kind
          /\ snap'.tool.auth = snap.tool.auth /\ snap'.tool.talk = c.answer
      BY <1>1, <1>5, <3>1, <3>2, ResolvedEvent
    <3>4. snap.tool.st = "Prepared"
      BY <1>1, <2>2 DEF PlaceInv, ToolInv, MayStart, ToolState
    <3>5. /\ Interactive /\ (Executable(snap.tool.kind) => snap.tool.auth = "Ask")
          /\ c.answer \notin {"None", "Open"}
      BY <2>2 DEF PlaceInv, ToolInv, Answers
    <3>6. CASE w.pc # "wait"
      <4>1. w' = w /\ w.pc # "running"
        BY <3>2, <3>4, <3>6 DEF ReplyAs, at, PlaceInv, ToolInv
      <4>2. StopsInv' /\ TurnInv'
        BY <1>2, <1>3, <3>3, <4>1
           DEF PlaceInv, StopsInv, TurnInv, Acting, WindingUp, Listening, Keeps, Fields
      <4>3. ToolInv'
        BY <1>2, <2>2, <3>3, <3>4, <3>5, <3>6, <4>1 DEF ToolInv, Listening
      <4>4. ReviewInv'
        BY <1>2, <3>3, <3>4, <4>1
           DEF PlaceInv, ReviewInv, Calm, Verifying, Listening, Keeps, Fields
      <4> QED
        BY <3>2, <4>2, <4>3, <4>4 DEF PlaceInv
    <3>7. CASE w.pc = "wait"
      <4>1. w' = Replied(c.answer)
        BY <3>2, <3>7 DEF ReplyAs, at
      <4>2. StopsInv' /\ TurnInv' /\ ReviewInv' /\ w'.pc \in {"recheck", "settle"}
        BY <1>7, <1>8, <3>3, <3>4, <3>7, <4>1
      <4>3. w'.pc = "recheck" => MayStart(snap'.tool)
        BY <1>8, <3>3, <3>5, <4>1 DEF MayStart
      <4>4. w'.pc = "settle" => OutcomeDue(snap'.tool, w'.outcome, w'.wrote)
        BY <1>8, <2>2, <3>3, <3>4, <3>5, <4>1 DEF OutcomeDue, Answers, Executable
      <4>5. ToolInv'
        BY <2>2, <3>3, <3>4, <3>5, <4>2, <4>3, <4>4 DEF ToolInv, Once
      <4> QED
        BY <3>2, <4>2, <4>5 DEF PlaceInv
    <3> QED
      BY <3>6, <3>7
  <2> QED
    BY <1>13, <2>1, <2>2 DEF HandleResolve
<1>14. CASE HandleAccept(c)
  <2>1. CASE w' = w /\ snap' = snap /\ refused' = refused
    BY <1>6, <2>1 DEF Keeps
  <2>2. ASSUME NEW rev \in Observed, w' = w, refused' = refused,
               snap' = WorkspaceObserved(snap, NextWorkspace(snap, rev, FALSE))
        PROVE  PlaceInv' /\ refused' = refused
    <3>1. snap'.ws = NextWorkspace(snap, rev, FALSE) /\ Keeps(snap, snap', {"ws"})
      BY <1>1, <2>2 DEF WorkspaceObserved, Snap, Keeps, Fields
    <3>2. Calm => snap'.ws.rev = world
      BY <3>1 DEF NextWorkspace, Calm, Observed
    <3> QED
      BY <1>6, <2>2, <3>1, <3>2 DEF Keeps, Fields
  <2>3. CASE /\ w' = w /\ snap' = HostCompletionAccepted(snap, c) /\ refused' = refused
    <3>1. Keeps(snap, snap', {"consents", "receipts"})
      BY <1>1, <2>3 DEF HostCompletionAccepted, Snap, Keeps, Fields
    <3> QED
      BY <1>6, <2>3, <3>1 DEF Keeps, Fields
  <2>4. \A rev : LET ws == NextWorkspace(snap, rev, FALSE) IN WorkspaceObservedFits(snap, ws)
    BY DEF WorkspaceObservedFits, NextWorkspace
  <2>5. \/ w' = w /\ snap' = snap /\ refused' = refused
        \/ \E rev \in Observed :
             /\ w' = w /\ refused' = refused
             /\ snap' = WorkspaceObserved(snap, NextWorkspace(snap, rev, FALSE))
        \/ /\ w' = w /\ snap' = HostCompletionAccepted(snap, c) /\ refused' = refused
    BY <1>3, <1>14, <2>4 DEF HandleAccept, Publish, PublishOr, HostCompletionAcceptedFits
  <2> QED
    BY <2>1, <2>2, <2>3, <2>5
<1> QED
  BY <1>4, <1>10, <1>11, <1>12, <1>13, <1>14

\* A candidate is pending with no tool call.
LEMMA NoCallPending ==
    ASSUME LoopInv, snap.output.calls = <<>>
    PROVE  snap.tool.st = "None"
<1>1. snap.settled \in Nat /\ Len(snap.output.calls) = 0
  BY DEF LoopInv, Sound, Snap
<1> QED
  BY <1>1 DEF LoopInv, Sound, Coherent

\* The review of a completion.
LEMMA ReviewFits ==
    ASSUME LoopInv, AcceptInv, PlaceInv,
           \/ ReconcileForReview \/ Judge \/ PrepareVerification \/ StartVerification
           \/ VerifierReturns \/ CommitVerification \/ RejectCompletion
           \/ ReconcileAfterVerification \/ Decide
    PROVE  /\ PlaceInv'
           /\ refused' \subseteq refused \cup {"HostVerificationPrepared"}
           /\ Calm => refused' = refused
<1>1. /\ w \in WorkerType /\ snap \in Snap /\ w.decision \in Decision /\ snap.ws \in Workspace
      /\ snap.candidate \in Candidate \cup {None}
  BY DEF LoopInv, Sound, Snap, WorkerType
<1>2. w.pc \in Reviewing /\ env' = env /\ world' = world
  BY Zenon DEF ReconcileForReview, Judge, PrepareVerification, StartVerification, VerifierReturns,
         CommitVerification, RejectCompletion, ReconcileAfterVerification, Decide, at, quiet,
         env_same, Reviewing
<1>3. (\A type : Open(snap, type)) /\ snap.control = None /\ w.pc # "done"
  BY <1>2, OpenPlaces DEF WindingUp, Reviewing
<1>4. /\ snap.candidate # None /\ snap.candidate.turn = snap.turns /\ snap.model.st = "None"
      /\ snap.output.kind = "Stop" /\ snap.tool.st = "None"
      /\ Calm => snap.ws.rev = world
  <2>1. snap.candidate # None /\ snap.candidate.turn = snap.turns /\ snap.model.st = "None"
    BY <1>2 DEF LoopInv, Sound, Placed, Coherent
  <2>2. snap.output.kind = "Stop" /\ snap.output.calls = <<>>
    BY <2>1 DEF PlaceInv, TurnInv
  <2> QED
    BY <2>1, <2>2, NoCallPending DEF AcceptInv
<1>5. ASSUME Keeps(snap, snap', {"ws", "check", "proofs", "failure", "rejection"}),
             snap'.rejection \in {snap.rejection, None}, w'.pc \in Reviewing, w'.replay = w.replay
      PROVE  StopsInv' /\ TurnInv' /\ ToolInv'
  <2>1. StopsInv'
    BY <1>2, <1>3, <1>5, OpenPlaces DEF StopsInv, WindingUp, Reviewing, Keeps, Fields
  <2>2. TurnInv'
    BY <1>5 DEF PlaceInv, TurnInv, Acting, Reviewing, Keeps, Fields
  <2>3. ToolInv'
    BY <1>4, <1>5 DEF PlaceInv, ToolInv, Once, Reviewing, Keeps, Fields
  <2> QED
    BY <2>1, <2>2, <2>3
<1>6. ASSUME snap' = snap, w' = Blocked PROVE PlaceInv'
  BY <1>2, <1>3, <1>6, HaltStep DEF Blocked
<1>7. CASE ReconcileForReview
  <2>1. Reconcile(Go("judge"), Blocked)
    BY <1>7 DEF ReconcileForReview
  <2>2. /\ w' = Go("judge") /\ refused' = refused /\ Keeps(snap, snap', {"ws"})
        /\ Calm => snap'.ws.rev = world
    BY <1>2, <2>1, ReconcileFits DEF WindingUp, Reviewing
  <2>3. w'.pc = "judge" /\ w'.replay = w.replay
    BY <1>1, <2>2, Moves
  <2>4. StopsInv' /\ TurnInv' /\ ToolInv'
    BY <1>5, <2>2, <2>3 DEF Reviewing, Keeps, Fields
  <2>5. ReviewInv'
    BY <1>2, <2>2, <2>3 DEF ReviewInv, Calm, Verifying
  <2> QED
    BY <2>2, <2>4, <2>5 DEF PlaceInv
<1>8. CASE Judge
  <2> DEFINE d == [NoDecision EXCEPT
                     !.candidate = snap.candidate,
                     !.consent = IF CurrentConsent THEN snap.candidate ELSE None,
                     !.proof = IF snap.ws \in snap.proofs THEN snap.ws ELSE None]
             p == IF "Verifier" \in Contract /\ d.proof = None THEN "verify" ELSE "close"
  <2>1. /\ snap' = snap /\ refused' = refused
        /\ \/ w' = Blocked
           \/ ("Host" \in Contract => CurrentConsent) /\ w' = [w EXCEPT !.decision = d, !.pc = p]
    BY <1>8 DEF Judge
  <2>2. CASE w' = Blocked
    BY <1>6, <2>1, <2>2
  <2>3. CASE ("Host" \in Contract => CurrentConsent) /\ w' = [w EXCEPT !.decision = d, !.pc = p]
    <3>0. d \in Decision
      BY <1>1 DEF Decision, NoDecision
    <3>1. /\ d.candidate = snap.candidate
          /\ CurrentConsent => d.consent = snap.candidate
          /\ d.proof # None => d.proof = snap.ws /\ snap.ws \in snap.proofs
      BY DEF NoDecision
    <3>2. p \in {"verify", "close"} /\ (p = "close" /\ "Verifier" \in Contract => d.proof # None)
      OBVIOUS
    <3> HIDE DEF d, p
    <3>3. w'.pc = p /\ w'.decision = d /\ w'.replay = w.replay
      BY <1>1, <2>3 DEF WorkerType
    <3>4. StopsInv' /\ TurnInv' /\ ToolInv'
      BY <1>5, <2>1, <3>2, <3>3 DEF Reviewing, Keeps, Fields
    <3>5. /\ Decided'.candidate = d.candidate /\ Decided'.ws = snap'.ws
          /\ Decided'.proof = d.proof /\ Decided'.consent = d.consent
      BY <3>0, <3>3 DEF Decided, Decision
    <3>6. p = "close" => DecisionFits(snap, Decided')
      BY <1>4, <2>1, <2>3, <3>1, <3>2, <3>5 DEF DecisionFits, CurrentConsent
    <3>7. p = "verify" => /\ w'.decision.candidate = snap.candidate
                          /\ "Host" \in Contract => w'.decision.consent = snap.candidate
                                                    /\ snap.candidate \in snap.consents
      BY <2>3, <3>1, <3>3 DEF CurrentConsent
    <3>8. ReviewInv'
      BY <1>2, <1>4, <2>1, <3>2, <3>3, <3>6, <3>7 DEF ReviewInv, Calm, Verifying
    <3> QED
      BY <2>1, <3>4, <3>8 DEF PlaceInv
  <2> QED
    BY <2>1, <2>2, <2>3
<1>9. CASE PrepareVerification
  <2>1. w.pc = "verify" /\ snap.check.st = "None"
    BY <1>9 DEF PrepareVerification, at
  <2>2. Calm => HostVerificationPreparedFits(snap)
    BY <1>4, <2>1 DEF HostVerificationPreparedFits, AcceptInv, Verifying
  <2>3. \/ /\ snap' = snap /\ w' = Blocked /\ ~HostVerificationPreparedFits(snap)
           /\ refused' = refused \cup {"HostVerificationPrepared"}
        \/ /\ snap' = HostVerificationPrepared(snap) /\ w' = w /\ refused' = refused
           /\ HostVerificationPreparedFits(snap)
    BY <1>3, <1>9 DEF PrepareVerification, PublishOr
  <2>4. CASE /\ snap' = HostVerificationPrepared(snap) /\ w' = w /\ refused' = refused
             /\ HostVerificationPreparedFits(snap)
    <3>1. Keeps(snap, snap', {"check"})
      BY <1>1, <2>4, CheckEvent
    <3>2. StopsInv' /\ TurnInv' /\ ToolInv'
      BY <1>2, <1>5, <2>4, <3>1 DEF Keeps, Fields
    <3>3. ReviewInv'
      BY <1>2, <2>1, <2>4, <3>1 DEF PlaceInv, ReviewInv, Calm, Verifying, Keeps, Fields
    <3> QED
      BY <2>4, <3>2, <3>3 DEF PlaceInv
  <2> QED
    BY <1>6, <2>2, <2>3, <2>4
<1>10. CASE StartVerification
  <2>1. w.pc = "verify" /\ snap.check.st # "None" /\ snap.check \in CheckState
    BY <1>1, <1>10 DEF StartVerification, at, Snap
  <2>2. \/ snap' = snap /\ refused' = refused /\ w' = Blocked
        \/ /\ snap' = snap /\ refused' = refused /\ w' = Go("checking")
           /\ snap.check.ws = snap.ws /\ snap.check.st = "InFlight"
        \/ /\ snap' = HostVerificationStarted(snap) /\ refused' = refused /\ w' = Go("checking")
           /\ HostVerificationStartedFits(snap)
    <3>1. snap.check.st = "Prepared" /\ CheckIsCurrent => HostVerificationStartedFits(snap)
      BY DEF HostVerificationStartedFits, CheckIsCurrent
    <3>2. snap.check.st \in {"Prepared", "InFlight"}
      BY <2>1 DEF CheckState
    <3> QED
      BY <1>3, <1>10, <3>1, <3>2 DEF StartVerification, PublishOr, CheckIsCurrent
  <2>3. CASE snap' = snap /\ w' = Blocked
    BY <1>6, <2>2, <2>3
  <2>4. ASSUME Keeps(snap, snap', {"check"}), snap'.check.ws = snap.ws, snap'.check.st = "InFlight",
               w' = Go("checking")
        PROVE  PlaceInv'
    <3>1. w'.pc = "checking" /\ w'.replay = w.replay /\ w'.decision = w.decision
      BY <1>1, <2>4, Moves
    <3>2. StopsInv' /\ TurnInv' /\ ToolInv'
      BY <1>2, <1>5, <2>4, <3>1 DEF Reviewing, Keeps, Fields
    <3>3. ReviewInv'
      BY <1>2, <1>4, <2>1, <2>4, <3>1 DEF PlaceInv, ReviewInv, Calm, Verifying, Keeps, Fields
    <3> QED
      BY <3>2, <3>3 DEF PlaceInv
  <2>5. ASSUME snap' = HostVerificationStarted(snap), HostVerificationStartedFits(snap)
        PROVE  /\ Keeps(snap, snap', {"check"}) /\ snap'.check.ws = snap.ws
               /\ snap'.check.st = "InFlight"
    <3>1. Keeps(snap, snap', {"check"}) /\ snap'.check.ws = snap.ws
      BY <1>1, <2>5, CheckEvent
    <3>2. snap'.check = [snap.check EXCEPT !.st = "InFlight"]
      BY <1>1, <2>5 DEF HostVerificationStarted, Snap
    <3> QED
      BY <2>1, <3>1, <3>2 DEF CheckState
  <2> QED
    BY <2>2, <2>3, <2>4, <2>5 DEF Keeps
<1>11. CASE VerifierReturns
  <2>1. PICK v : w' = [Go("sealing") EXCEPT !.verdict = v]
    BY <1>11 DEF VerifierReturns
  <2>2. w.pc = "checking" /\ snap' = snap /\ refused' = refused
    BY <1>11 DEF VerifierReturns, at
  <2>3. w'.pc = "sealing" /\ w'.replay = w.replay /\ w'.decision = w.decision
    BY <1>1, <2>1 DEF Go, WorkerType
  <2>4. StopsInv' /\ TurnInv' /\ ToolInv'
    BY <1>5, <2>2, <2>3 DEF Reviewing, Keeps
  <2>5. ReviewInv'
    BY <1>2, <1>4, <2>2, <2>3 DEF PlaceInv, ReviewInv, Calm, Verifying
  <2> QED
    BY <2>2, <2>4, <2>5 DEF PlaceInv
<1>12. CASE CommitVerification
  <2>1. w.pc = "sealing" /\ snap.check.st = "InFlight" /\ snap.check.ws = snap.ws
    <3>1. w.pc = "sealing"
      BY <1>12, Zenon DEF CommitVerification, at
    <3> QED
      BY <3>1 DEF PlaceInv, ReviewInv
  <2>2. PICK rev \in Observed :
          LET after == NextWorkspace(snap, rev, TRUE)
              done  == [w EXCEPT !.verdict = None]
          IN  PublishOr("HostVerificationCommitted", HostVerificationCommittedFits(snap, after),
                        HostVerificationCommitted(snap, w.verdict, after),
                        IF Seals(snap, w.verdict, after)
                        THEN [done EXCEPT !.pc = "close", !.decision.proof = after]
                        ELSE [done EXCEPT !.pc = "reject", !.decision = NoDecision],
                        Blocked)
    BY <1>12, Zenon DEF CommitVerification
  <2> DEFINE after == NextWorkspace(snap, rev, TRUE)
             done  == [w EXCEPT !.verdict = None]
  <2>3. after \in Workspace /\ after.gen = snap.ws.gen + 1 /\ after.rev = rev
    <3>1. rev \in Revisions \cup {Unknown}
      BY ObservedType
    <3> QED
      BY <1>1, <3>1 DEF NextWorkspace, Workspace
  <2>4. HostVerificationCommittedFits(snap, after)
    BY <2>1, <2>3 DEF HostVerificationCommittedFits
  <2>5. /\ snap' = HostVerificationCommitted(snap, w.verdict, after) /\ refused' = refused
        /\ w' = IF Seals(snap, w.verdict, after)
                THEN [done EXCEPT !.pc = "close", !.decision.proof = after]
                ELSE [done EXCEPT !.pc = "reject", !.decision = NoDecision]
    BY <1>3, <2>2, <2>4, Zenon DEF PublishOr
  <2> HIDE DEF after
  <2>6. /\ Keeps(snap, snap', {"ws", "check", "proofs", "rejection", "failure"})
        /\ snap'.ws = after
        /\ IF Seals(snap, w.verdict, after)
           THEN snap'.proofs = snap.proofs \cup {after} /\ snap'.rejection = None
           ELSE /\ snap'.rejection = snap.rejection /\ snap'.failure # None
                /\ snap'.failure.turn = snap.candidate.turn
    <3>1. Coherent(snap)
      BY DEF LoopInv, Sound
    <3> QED
      BY <1>1, <2>3, <2>4, <2>5, <3>1, VerifiedEvent
  <2>7. Calm => snap'.ws.rev = world
    BY <2>3, <2>6 DEF Calm, Observed
  <2>8. CASE Seals(snap, w.verdict, after)
    <3>1. w' = [done EXCEPT !.pc = "close", !.decision.proof = after]
      BY <2>5, <2>8
    <3>2. /\ w'.pc = "close" /\ w'.replay = w.replay
          /\ w'.decision = [w.decision EXCEPT !.proof = after]
      BY <1>1, <3>1 DEF WorkerType
    <3>3. /\ Decided'.candidate = w.decision.candidate /\ Decided'.ws = snap'.ws
          /\ Decided'.proof = after /\ Decided'.consent = w.decision.consent
      BY <1>1, <3>2 DEF Decided, Decision
    <3>4. StopsInv' /\ TurnInv' /\ ToolInv'
      BY <1>5, <2>6, <2>8, <3>2 DEF Reviewing
    <3>5. after.rev = snap.ws.rev
      BY <2>8 DEF Seals
    <3>6. Calm => DecisionFits(snap', Decided')
      <4> SUFFICES ASSUME Calm PROVE DecisionFits(snap', Decided')
        OBVIOUS
      <4>1. /\ w.decision.candidate = snap.candidate
            /\ "Host" \in Contract => w.decision.consent = snap.candidate
                                      /\ snap.candidate \in snap.consents
            /\ snap.ws = snap.candidate.ws /\ "Verifier" \in Contract
        BY <2>1 DEF PlaceInv, ReviewInv, AcceptInv, Verifying
      <4>2. /\ snap'.candidate = snap.candidate /\ snap'.consents = snap.consents
            /\ after \in snap'.proofs
        BY <2>6, <2>8 DEF Keeps, Fields
      <4> QED
        BY <1>4, <2>3, <2>6, <3>3, <3>5, <4>1, <4>2 DEF DecisionFits
    <3>7. snap'.candidate = snap.candidate
      BY <2>6 DEF Keeps, Fields
    <3>8. ReviewInv'
      BY <1>2, <2>7, <3>2, <3>6 DEF ReviewInv, Calm, Verifying
    <3> QED
      BY <2>5, <3>4, <3>8 DEF PlaceInv
  <2>9. CASE ~Seals(snap, w.verdict, after)
    <3>1. w' = [done EXCEPT !.pc = "reject", !.decision = NoDecision]
      BY <2>5, <2>9
    <3>2. w'.pc = "reject" /\ w'.replay = w.replay
      BY <1>1, <3>1 DEF WorkerType
    <3>3. StopsInv' /\ TurnInv' /\ ToolInv'
      BY <1>5, <2>6, <2>9, <3>2 DEF Reviewing
    <3>4. RejectionMissing'
      BY <2>6, <2>9 DEF RejectionMissing, Keeps, Fields
    <3>5. ReviewInv'
      BY <1>2, <2>7, <3>2, <3>4 DEF ReviewInv, Calm, Verifying
    <3> QED
      BY <2>5, <3>3, <3>5 DEF PlaceInv
  <2> QED
    BY <2>8, <2>9
<1>13. CASE RejectCompletion
  <2>1. w.pc = "reject" /\ RejectionMissing
    BY <1>13 DEF RejectCompletion, at, PlaceInv, ReviewInv
  <2>2. CompletionRejectedFits(snap)
    BY <1>4, <2>1 DEF CompletionRejectedFits, RejectionMissing
  <2>3. /\ snap' = CompletionRejected(snap) /\ refused' = refused
        /\ \/ w' = [Go("loop") EXCEPT !.replay = FALSE]
           \/ w' = End("Blocked")
    BY <1>3, <1>13, <2>2 DEF RejectCompletion, PublishOr, AfterRejection
  <2>4. /\ Keeps(snap, snap', {"rejection", "candidate"}) /\ snap'.candidate = None
        /\ snap'.rejection # None /\ snap'.rejection.turn = snap.failure.turn
        /\ snap.failure.turn = snap.turns
    BY <1>1, <1>4, <2>1, <2>2, <2>3, RejectedEvent DEF RejectionMissing
  <2>5. w' = [Go("loop") EXCEPT !.replay = FALSE] => w'.pc = "loop" /\ w'.replay = FALSE
    BY <1>1 DEF Go, WorkerType
  <2>6. \/ w'.pc = "loop" /\ w'.replay = FALSE
        \/ w'.pc = "final" /\ w'.goal = "Blocked" /\ w'.replay = w.replay
    BY <1>1, <2>3, <2>5, Moves
  <2>7. snap.turns \in Nat
    BY <1>1 DEF Snap
  <2>8. StopsInv'
    BY <1>3, <2>1, <2>4, <2>6, OpenPlaces DEF StopsInv, WindingUp, Keeps, Fields
  <2>9. TurnInv'
    BY <1>4, <2>4, <2>6, <2>7 DEF PlaceInv, TurnInv, Acting, Keeps, Fields
  <2>10. ToolInv' /\ ReviewInv'
    BY <1>2, <1>4, <2>4, <2>6 DEF PlaceInv, ToolInv, ReviewInv, Once, Calm, Verifying, Keeps, Fields
  <2> QED
    BY <2>3, <2>8, <2>9, <2>10 DEF PlaceInv
<1>14. CASE ReconcileAfterVerification
  <2>1. /\ w.pc = "close"
        /\ \/ Reconcile(Go("decide"), Blocked)
           \/ w' = Go("decide") /\ snap' = snap /\ refused' = refused
    BY <1>14 DEF ReconcileAfterVerification, at
  <2>2. /\ w' = Go("decide") /\ refused' = refused /\ Keeps(snap, snap', {"ws"})
        /\ Calm => snap' = snap
    <3>1. CASE Reconcile(Go("decide"), Blocked)
      BY <1>2, <1>4, <3>1, ReconcileFits DEF WindingUp, Reviewing
    <3> QED
      BY <2>1, <3>1 DEF Keeps
  <2>3. w'.pc = "decide" /\ w'.replay = w.replay /\ w'.decision = w.decision
    BY <1>1, <2>2, Moves
  <2>4. StopsInv' /\ TurnInv' /\ ToolInv'
    BY <1>5, <2>2, <2>3 DEF Reviewing, Keeps, Fields
  <2>5. Calm => DecisionFits(snap', Decided')
    BY <2>1, <2>2, <2>3 DEF PlaceInv, ReviewInv, Decided
  <2>6. ReviewInv'
    BY <1>2, <1>4, <2>2, <2>3, <2>5 DEF ReviewInv, Calm, Verifying
  <2> QED
    BY <2>2, <2>4, <2>6 DEF PlaceInv
<1>15. CASE Decide
  <2>1. /\ w.pc = "decide" /\ snap' = snap /\ refused' = refused
        /\ \/ w' = Blocked
           \/ w' = [End("Completed") EXCEPT !.decision.ws = snap.ws]
    BY <1>15 DEF Decide, at
  <2>2. CASE w' = Blocked
    BY <1>6, <2>1, <2>2
  <2>3. CASE w' = [End("Completed") EXCEPT !.decision.ws = snap.ws]
    <3>1. /\ w'.pc = "final" /\ w'.goal = "Completed" /\ w'.replay = w.replay
          /\ w'.decision = Decided
      BY <1>1, <2>3 DEF End, WorkerType, Decided
    <3>2. Calm => DecisionFits(snap, w'.decision)
      BY <2>1, <3>1 DEF PlaceInv, ReviewInv
    <3>3. StopsInv' /\ TurnInv'
      BY <1>3, <2>1, <3>1, OpenPlaces DEF PlaceInv, StopsInv, TurnInv, WindingUp, Acting
    <3>4. ToolInv'
      BY <2>1, <3>1 DEF PlaceInv, ToolInv, Once
    <3>5. ReviewInv'
      BY <1>2, <1>4, <2>1, <3>1, <3>2 DEF ReviewInv, Calm, Verifying
    <3> QED
      BY <2>1, <3>3, <3>4, <3>5 DEF PlaceInv
  <2> QED
    BY <2>1, <2>2, <2>3
<1> QED
  BY <1>7, <1>8, <1>9, <1>10, <1>11, <1>12, <1>13, <1>14, <1>15

\* A worker starts again.
LEMMA RecoverFits ==
    ASSUME LoopInv, PlaceInv, Recover \/ RecoveredControls
    PROVE  PlaceInv' /\ refused' = refused
<1>1. w \in WorkerType /\ snap \in Snap
  BY DEF LoopInv, Sound
<1>2. /\ w.pc \in {"boot", "bootDrain"} /\ snap' = snap /\ refused' = refused
      /\ env' = env /\ world' = world
  BY DEF Recover, RecoveredControls, at, quiet, env_same
<1>3. snap.terminal = None
  BY <1>2 DEF PlaceInv, StopsInv
<1>4. ASSUME NEW g, w' = End(g), g # "Completed",
             snap.control = None \/ g \in {TerminalFor(snap.control), "RecoveryRequired"}
      PROVE  PlaceInv'
  BY <1>2, <1>4, HaltStep
<1>5. ASSUME snap.control = None, ~snap.stopped,
             snap.model.st # "InFlight", snap.tool.st # "InFlight",
             w'.replay = w.replay \/ w'.replay = FALSE,
             \/ w'.pc = "reject" /\ RejectionMissing
             \/ w'.pc \in {"bootDrain", "review"}
             \/ /\ w'.pc = "loop" /\ (~w'.replay => snap.tool.st = "None")
                /\ w'.replay /\ snap.rejection # None => snap.rejection.turn # snap.turns
      PROVE  PlaceInv'
  <2>1. StopsInv'
    BY <1>2, <1>3, <1>5 DEF StopsInv
  <2>2. TurnInv'
    BY <1>2, <1>5 DEF PlaceInv, TurnInv, Acting
  <2>3. ToolInv'
    BY <1>2, <1>5 DEF PlaceInv, ToolInv, Once
  <2>4. RejectionMissing => RejectionMissing'
    BY <1>2 DEF RejectionMissing
  <2>5. ReviewInv'
    BY <1>2, <1>5, <2>4 DEF PlaceInv, ReviewInv, Calm, Verifying
  <2> QED
    BY <2>1, <2>2, <2>3, <2>5 DEF PlaceInv
<1>6. CASE RecoveredControls
  <2>1. w.pc = "bootDrain" /\ (w' = Go("review") \/ w' = End("Awaiting"))
    BY <1>6 DEF RecoveredControls, at
  <2>2. snap.control = None /\ ~snap.stopped
    BY <2>1, OpenPlaces DEF WindingUp
  <2>3. CASE w' = End("Awaiting")
    BY <1>2, <1>4, <2>2, <2>3
  <2>4. CASE w' = Go("review")
    <3>1. w'.pc = "review" /\ w'.replay = w.replay
      BY <1>1, <2>4, Moves
    <3>2. StopsInv' /\ TurnInv'
      BY <1>2, <1>3, <2>2, <3>1 DEF PlaceInv, StopsInv, TurnInv, Acting
    <3>3. ToolInv' /\ ReviewInv'
      BY <1>2, <2>1, <3>1 DEF PlaceInv, ToolInv, ReviewInv, Once, Calm, Verifying
    <3> QED
      BY <1>2, <3>2, <3>3 DEF PlaceInv
  <2> QED
    BY <2>1, <2>3, <2>4
<1>7. CASE Recover
  <2>1. w.pc = "boot" /\ w.replay = snap.current
    BY <1>7 DEF Recover, at, PlaceInv, TurnInv
  <2>2. CASE Ambiguous
    BY <1>2, <1>4, <1>7, <2>2 DEF Recover
  <2>3. CASE ~Ambiguous /\ snap.control # None
    <3>1. w' = End(TerminalFor(snap.control)) /\ TerminalFor(snap.control) # "Completed"
      BY <1>7, <2>3 DEF Recover, TerminalFor
    <3> QED
      BY <1>2, <1>4, <3>1
  <2>4. CASE ~Ambiguous /\ snap.control = None /\ snap.stopped
    BY <1>2, <1>4, <1>7, <2>4 DEF Recover
  <2>5. CASE ~Ambiguous /\ snap.control = None /\ ~snap.stopped
    <3>1. snap.model.st # "InFlight" /\ snap.tool.st # "InFlight"
      BY <2>5 DEF Ambiguous
    <3>2. \/ w' = Go("reject") /\ RejectionMissing
          \/ w' = Go("bootDrain") \/ w' = Go("review")
          \/ ResponseRejected /\ w' = [Go("loop") EXCEPT !.replay = FALSE]
          \/ w' = End("Blocked")
          \/ ~ResponseRejected /\ w' = Go("loop")
      BY <1>7, <2>5 DEF Recover, AfterRejection
    <3>3. w' = [Go("loop") EXCEPT !.replay = FALSE] => w'.pc = "loop" /\ w'.replay = FALSE
      BY <1>1 DEF Go, WorkerType
    <3>4. CASE w' = End("Blocked")
      BY <1>2, <1>4, <2>5, <3>4
    <3>5. CASE ResponseRejected /\ w' = [Go("loop") EXCEPT !.replay = FALSE]
      <4>1. snap.output.calls = <<>>
        BY <3>5 DEF ResponseRejected, PlaceInv, TurnInv
      <4> QED
        BY <1>2, <1>5, <2>5, <3>1, <3>3, <3>5, <4>1, NoCallPending
    <3>6. CASE ~ResponseRejected /\ w' = Go("loop")
      <4>1. w'.pc = "loop" /\ w'.replay = w.replay
        BY <1>1, <3>6, Moves
      <4>2. ~w.replay => snap.tool.st = "None"
        BY <2>1 DEF PlaceInv, TurnInv
      <4>3. w.replay /\ snap.rejection # None => snap.rejection.turn # snap.turns
        BY <3>6 DEF ResponseRejected, PlaceInv, TurnInv
      <4> QED
        BY <1>2, <1>5, <2>5, <3>1, <4>1, <4>2, <4>3
    <3>7. CASE (w' = Go("reject") /\ RejectionMissing) \/ w' = Go("bootDrain") \/ w' = Go("review")
      <4>1. /\ w'.replay = w.replay
            /\ (w'.pc = "reject" /\ RejectionMissing) \/ w'.pc \in {"bootDrain", "review"}
        BY <1>1, <3>7, Moves
      <4> QED
        BY <1>2, <1>5, <2>5, <3>1, <4>1
    <3> QED
      BY <3>2, <3>4, <3>5, <3>6, <3>7
  <2> QED
    BY <2>2, <2>3, <2>4, <2>5
<1> QED
  BY <1>6, <1>7

\* The worker is gone.
LEMMA DownFits ==
    ASSUME LoopInv, PlaceInv, w' = Down, snap' = snap, world' = world, w.pc # "done",
           Calm' => Calm
    PROVE  PlaceInv'
<1>1. snap.terminal = None
  BY DEF PlaceInv, StopsInv
<1>2. w'.pc = "down" /\ w'.replay = FALSE
  BY DEF Down, Worker
<1>3. StopsInv' /\ TurnInv'
  BY <1>1, <1>2 DEF PlaceInv, StopsInv, TurnInv, WindingUp, Acting
<1>4. ToolInv' /\ ReviewInv'
  BY <1>2 DEF PlaceInv, ToolInv, ReviewInv, Verifying
<1> QED
  BY <1>3, <1>4 DEF PlaceInv

\* The outcome of the run.
LEMMA FinalFits ==
    ASSUME LoopInv, PlaceInv, AwaitHost \/ PublishTerminal
    PROVE  /\ PlaceInv'
           /\ refused' \subseteq refused \cup {"Terminal"}
           /\ Calm /\ refused = {} => refused' = refused
<1>1. snap \in Snap /\ w.pc = "final" /\ env' = env /\ world' = world
  BY DEF LoopInv, Sound, AwaitHost, PublishTerminal, at
<1>2. snap.terminal = None /\ Open(snap, "Terminal")
  BY <1>1 DEF PlaceInv, StopsInv, Open, Settlement
<1>3. Calm' => Calm
  BY <1>1 DEF Calm
<1>4. CASE AwaitHost
  <2>1. w' = Down /\ snap' = snap /\ refused' = refused
    BY <1>4 DEF AwaitHost
  <2> QED
    BY <1>1, <1>3, <2>1, DownFits
<1>5. CASE PublishTerminal
  <2>1. PICK outcome \in {w.goal} \cup (IF w.goal = "Completed" THEN {"Failed"} ELSE {}) :
          PublishOr("Terminal", TerminalFits(snap, outcome, w.decision), Terminal(snap, outcome),
                    [Down EXCEPT !.pc = "done"], Down)
    BY <1>5, Zenon DEF PublishTerminal
  <2>2. Calm /\ refused = {} => TerminalFits(snap, outcome, w.decision)
    <3> SUFFICES ASSUME Calm, refused = {} PROVE TerminalFits(snap, outcome, w.decision)
      OBVIOUS
    <3>1. snap.control # None => w.goal \in {TerminalFor(snap.control), "RecoveryRequired"}
      BY <1>1 DEF PlaceInv, StopsInv
    <3>2. snap.control # None => w.goal # "Completed"
      BY <3>1 DEF TerminalFor
    <3>3. snap.control # None => outcome \in {TerminalFor(snap.control), "RecoveryRequired"}
      BY <3>1, <3>2
    <3>4. outcome = "Completed" => DecisionFits(snap, w.decision)
      BY <1>1 DEF PlaceInv, ReviewInv
    <3> QED
      BY <3>3, <3>4 DEF TerminalFits
  <2>3. \/ /\ snap' = snap /\ w' = Down /\ refused' = refused \cup {"Terminal"}
           /\ ~TerminalFits(snap, outcome, w.decision)
        \/ /\ snap' = Terminal(snap, outcome) /\ w' = [Down EXCEPT !.pc = "done"]
           /\ refused' = refused
    BY <1>2, <2>1 DEF PublishOr
  <2>4. CASE snap' = snap /\ w' = Down
    BY <1>1, <1>3, <2>2, <2>3, <2>4, DownFits
  <2>5. CASE /\ snap' = Terminal(snap, outcome) /\ w' = [Down EXCEPT !.pc = "done"]
             /\ refused' = refused
    <3>1. Keeps(snap, snap', {"terminal"})
      BY <1>1, <2>5 DEF Terminal, Keeps, Fields, Snap
    <3>2. w'.pc = "done" /\ w'.replay = FALSE
      BY <2>5 DEF Down, Worker
    <3>3. StopsInv' /\ TurnInv'
      BY <3>1, <3>2 DEF PlaceInv, StopsInv, TurnInv, WindingUp, Acting, Keeps, Fields
    <3>4. ToolInv' /\ ReviewInv'
      BY <1>1, <3>1, <3>2 DEF PlaceInv, ToolInv, ReviewInv, Verifying, Calm, Keeps, Fields
    <3> QED
      BY <2>5, <3>3, <3>4 DEF PlaceInv
  <2> QED
    BY <2>3, <2>4, <2>5
<1> QED
  BY <1>4, <1>5

\* Clients, the host, crashes and others.
LEMMA OutsideFits ==
    ASSUME LoopInv, PlaceInv,
           \/ Send \/ Resume \/ AcceptCompletion \/ Crash \/ Edit \/ DeadlinePasses
           \/ UNCHANGED vars
    PROVE  PlaceInv' /\ refused' = refused /\ (Once' => Once) /\ (Calm' => Calm /\ world' = world)
<1>1. env \in Env
  BY DEF LoopInv, World
<1>2. snap' = snap /\ refused' = refused
  BY DEF Send, Resume, AcceptCompletion, Launch, Crash, Edit, DeadlinePasses, vars
<1>3. (Once' => Once) /\ (Calm' => Calm /\ world' = world)
  <2>1. CASE Send
    <3>1. PICK c \in Commands : env' = [env EXCEPT !.copies = Count(env.copies, c)] /\ world' = world
      BY <2>1, Zenon DEF Send
    <3>2. /\ env'.edits = env.edits /\ env'.blind = env.blind
          /\ env'.copies = Count(env.copies, c)
      BY <1>1, <3>1 DEF Env
    <3>3. \A x \in Commands : env.copies[x] <= env'.copies[x] /\ env.copies[x] \in Nat
          /\ env'.copies[x] \in Nat
      BY <1>1, <3>2 DEF Count, Env
    <3> QED
      BY <3>1, <3>2, <3>3 DEF Once, Calm
  <2>2. CASE Resume \/ AcceptCompletion \/ Crash
    <3>1. world' = world /\ \/ \E x : env' = [env EXCEPT !.resumes = x]
                            \/ \E x : env' = [env EXCEPT !.crashes = x]
      BY <2>2, Zenon DEF Resume, AcceptCompletion, Launch, Crash
    <3>2. env'.edits = env.edits /\ env'.blind = env.blind /\ env'.copies = env.copies
      BY <1>1, <3>1 DEF Env
    <3> QED
      BY <3>1, <3>2 DEF Once, Calm
  <2>3. CASE Edit
    <3>1. env'.edits = env.edits + 1 /\ env.edits \in Nat /\ env'.copies = env.copies
      BY <1>1, <2>3 DEF Edit, Env
    <3> QED
      BY <3>1 DEF Once, Calm
  <2>4. CASE DeadlinePasses \/ UNCHANGED vars
    BY <2>4 DEF DeadlinePasses, vars, Once, Calm
  <2> QED
    BY <2>1, <2>2, <2>3, <2>4
<1>4. ASSUME w' = w PROVE PlaceInv'
  <2>1. StopsInv' /\ TurnInv' /\ ToolInv'
    BY <1>2, <1>3, <1>4 DEF PlaceInv, StopsInv, TurnInv, ToolInv
  <2>2. ReviewInv'
    BY <1>2, <1>3, <1>4 DEF PlaceInv, ReviewInv, RejectionMissing, Decided
  <2> QED
    BY <2>1, <2>2 DEF PlaceInv
<1>5. CASE Send \/ Edit \/ DeadlinePasses \/ UNCHANGED vars
  BY <1>2, <1>3, <1>4, <1>5 DEF Send, Edit, DeadlinePasses, vars
<1>6. CASE Crash
  BY <1>2, <1>3, <1>6, DownFits DEF Crash, Active
<1>7. CASE Resume \/ AcceptCompletion
  <2>1. PICK live, spare : w' = Worker("boot", live, spare, snap.current)
    BY <1>7, Zenon DEF Resume, AcceptCompletion, Launch
  <2>2. w.pc = "down" /\ snap.terminal = None
    BY <1>7 DEF Resume, AcceptCompletion, Launch, at
  <2>3. w'.pc = "boot" /\ w'.replay = snap.current
    BY <2>1 DEF Worker
  <2>4. StopsInv' /\ TurnInv'
    BY <1>2, <2>2, <2>3 DEF PlaceInv, StopsInv, TurnInv, WindingUp, Acting
  <2>5. ToolInv' /\ ReviewInv'
    BY <1>2, <1>3, <2>3 DEF PlaceInv, ToolInv, ReviewInv, Verifying
  <2> QED
    BY <1>2, <1>3, <2>4, <2>5 DEF PlaceInv
<1> QED
  BY <1>5, <1>6, <1>7

\* Clients and the host.
Outside ==
    \/ Send \/ Resume \/ AcceptCompletion \/ Crash \/ Edit \/ DeadlinePasses \/ UNCHANGED vars

\* Nobody else counts copies, and few touch the queue of commands.
LEMMA QueueFrame ==
    ASSUME [Next]_vars
    PROVE  /\ Outside \/ env' = env
           /\ \/ inbox' = inbox \/ inbox' = <<>> \/ HandleControl \/ Send
              \/ Resume \/ AcceptCompletion
<1>1. CASE \/ Recover \/ RecoveredControls \/ ControlsDrained \/ ApplySteer
           \/ ReconcileAtBoundary \/ SteersFlushed \/ BeginTurn \/ CompactContext
           \/ ContextLimitExceeded \/ PrepareModelRequest \/ SendModelRequest \/ ActOnAnswer
           \/ ReconcileBeforeProposal \/ ProposeCompletion \/ Attempt \/ RetryDelayOver
  BY <1>1 DEF Recover, RecoveredControls, ControlsDrained, ApplySteer, ReconcileAtBoundary,
              SteersFlushed, BeginTurn, CompactContext, ContextLimitExceeded,
              PrepareModelRequest, SendModelRequest, ActOnAnswer, ReconcileBeforeProposal,
              ProposeCompletion, Attempt, Answer, AnswerDiffers, AttemptFails, RetryDelayOver,
              quiet, env_same
<1>2. CASE \/ NextCall \/ RejectCall \/ Authorize \/ ActOnAuthorization \/ AskQuestion
           \/ RequestInteraction \/ RecheckRevision \/ StartTool \/ ToolWrites \/ ToolReturns
           \/ CommitOutcome \/ DeadlineExpires
  BY <1>2 DEF NextCall, RejectCall, Authorize, ActOnAuthorization, AskQuestion,
              RequestInteraction, RecheckRevision, StartTool, ToolWrites, ToolReturns,
              CommitOutcome, DeadlineExpires, quiet, env_same
<1>3. CASE \/ ReconcileForReview \/ Judge \/ PrepareVerification \/ StartVerification
           \/ CommitVerification \/ RejectCompletion \/ ReconcileAfterVerification \/ Decide
           \/ VerifierReturns
  BY <1>3, Zenon
     DEF ReconcileForReview, Judge, PrepareVerification, StartVerification, CommitVerification,
         RejectCompletion, ReconcileAfterVerification, Decide, VerifierReturns, quiet, env_same
<1>4. CASE HandleControl \/ AwaitHost \/ PublishTerminal
  BY <1>4 DEF HandleControl, AwaitHost, PublishTerminal
<1>5. CASE Outside
  BY <1>5 DEF Outside, Crash, Edit, DeadlinePasses, vars
<1> QED
  BY <1>1, <1>2, <1>3, <1>4, <1>5 DEF Next, Proceed, Outside

\* Only a command that is handled leaves a receipt.
LEMMA ReceiptMoves ==
    ASSUME LoopInv, [Next]_vars
    PROVE  \/ snap'.receipts = snap.receipts
           \/ HandleControl /\ snap'.receipts = snap.receipts \cup {Head(inbox)}
<1>1. snap \in Snap
  BY DEF LoopInv, Sound
<1>2. CASE Unpublished
  BY <1>2, UnpublishedEffect
<1>3. CASE PublishTerminal
  BY <1>3, OutcomePublished DEF Keeps, Fields
<1>4. CASE Appends
  <2>1. CASE ApplySteer
    <3>1. snap' = snap \/ snap' = SteerApplied(snap)
      BY <2>1 DEF ApplySteer, Publish, PublishOr
    <3> QED
      BY <1>1, <3>1 DEF SteerApplied, Snap
  <2>2. CASE ~ApplySteer
    <3>1. PICK F : (snap' = snap \/ Keeps(snap, snap', F)) /\ "receipts" \notin F
      <4>1. CASE \/ ReconcileAtBoundary \/ ReconcileBeforeProposal \/ ReconcileForReview
                 \/ ReconcileAfterVerification
        BY <4>1, HeadEffect
      <4>2. CASE PrepareModelRequest \/ SendModelRequest \/ Answer \/ AttemptFails
        BY <4>2, PrepareEffect, SendEffect, AttemptEffect
      <4>3. CASE ProposeCompletion \/ NextCall \/ Authorize \/ RequestInteraction
        BY <4>3, ProposeEffect, CallEffect
      <4>4. CASE StartTool \/ CommitOutcome
        BY <4>4, StartToolEffect, OutcomeEffect
      <4>5. CASE PrepareVerification \/ StartVerification \/ CommitVerification \/ RejectCompletion
        BY <4>5, CheckEffect, VerdictEffect, RejectEffect
      <4> QED
        BY <1>4, <2>2, <4>1, <4>2, <4>3, <4>4, <4>5 DEF Appends
    <3> QED
      BY <3>1 DEF Keeps, Fields
  <2> QED
    BY <2>1, <2>2
<1>5. CASE HandleControl
  <2>1. PICK c : /\ c = Head(inbox)
                 /\ \/ HandleRepeated(c) \/ HandleSteer(c) \/ HandleStop(c) \/ HandleResolve(c)
                    \/ HandleAccept(c)
    BY <1>5 DEF HandleControl
  <2>2. \/ snap' = snap
        \/ snap' = SteerQueued(snap, c)
        \/ snap' = ControlRequested(snap, c)
        \/ snap' = InteractionResolved(snap, c)
        \/ snap' = HostCompletionAccepted(snap, c)
        \/ \E ws : snap' = WorkspaceObserved(snap, ws)
    <3>1. CASE HandleAccept(c)
      BY <3>1, Zenon DEF HandleAccept, Publish, PublishOr
    <3>2. CASE HandleRepeated(c) \/ HandleSteer(c) \/ HandleStop(c) \/ HandleResolve(c)
      BY <3>2 DEF HandleRepeated, HandleSteer, HandleStop, HandleResolve, Publish, PublishOr
    <3> QED
      BY <2>1, <3>1, <3>2
  <2>3. snap'.receipts = snap.receipts \/ snap'.receipts = snap.receipts \cup {c}
    BY <1>1, <2>2 DEF SteerQueued, ControlRequested, InteractionResolved, HostCompletionAccepted,
                      WorkspaceObserved, Snap
  <2> QED
    BY <1>5, <2>1, <2>3
<1> QED
  BY <1>2, <1>3, <1>4, <1>5, StepKinds

\* Every step keeps the answers on their way new.
LEMMA InboxStep ==
    ASSUME LoopInv, InboxInv, [Next]_vars, Once' => Once
    PROVE  InboxInv'
<1>1. inbox \in Seq(Command) /\ env \in Env /\ DOMAIN inbox = 1..Len(inbox) /\ Len(inbox) \in Nat
  BY DEF LoopInv, World
<1>2. CASE inbox' = <<>>
  BY <1>2 DEF InboxInv
<1>3. CASE Resume \/ AcceptCompletion
  <2>1. \A i \in DOMAIN inbox' : inbox'[i].kind = "Accept"
    <3>1. CASE inbox' = <<>>
      BY <3>1
    <3>2. ASSUME NEW id, inbox' = <<[id |-> id, kind |-> "Accept", candidate |-> snap.candidate]>>
          PROVE  \A i \in DOMAIN inbox' : inbox'[i].kind = "Accept"
      BY <3>2
    <3>3. \/ inbox' = <<>>
          \/ \E id : inbox' = <<[id |-> id, kind |-> "Accept", candidate |-> snap.candidate]>>
      BY <1>3, Zenon DEF Resume, AcceptCompletion, Launch
    <3> QED
      BY <3>1, <3>2, <3>3
  <2> QED
    BY <2>1 DEF InboxInv
<1>4. CASE Send
  <2>1. PICK c \in Commands :
          /\ ~Committed(snap, c) /\ inbox' = Append(inbox, c) /\ snap' = snap
          /\ env' = [env EXCEPT !.copies = Count(env.copies, c)]
    BY <1>4, Zenon DEF Send
  <2>2. c \notin snap.receipts /\ c \in Command
    BY <2>1 DEF Committed, Command
  <2>3. env'.copies = Count(env.copies, c)
    BY <1>1, <2>1 DEF Env
  <2>4. /\ \A x \in Commands : env.copies[x] \in Nat /\ env'.copies[x] \in Nat
                               /\ env.copies[x] <= env'.copies[x]
        /\ env'.copies[c] = env.copies[c] + 1
    BY <1>1, <2>3 DEF Count, Env
  <2>5. /\ DOMAIN inbox' = 1..Len(inbox) + 1
        /\ \A k \in DOMAIN inbox : inbox'[k] = inbox[k]
        /\ inbox'[Len(inbox) + 1] = c
    BY <1>1, <2>1, <2>2, AppendKeeps
  <2>6. ASSUME NEW i \in DOMAIN inbox', inbox'[i].kind = "Resolve"
        PROVE  inbox'[i] \in Commands /\ env'.copies[inbox'[i]] > 0
    <3>1. CASE i \in DOMAIN inbox
      BY <2>4, <2>5, <2>6, <3>1 DEF InboxInv
    <3>2. CASE i = Len(inbox) + 1
      BY <2>4, <2>5, <3>2
    <3> QED
      BY <1>1, <2>5, <3>1, <3>2
  <2>7. ASSUME Once', NEW i \in DOMAIN inbox', inbox'[i].kind = "Resolve"
        PROVE  /\ inbox'[i] \notin snap'.receipts
               /\ \A j \in DOMAIN inbox' : inbox'[j] = inbox'[i] => j = i
    <3>1. Once
      BY <2>7
    <3>2. env.copies[c] = 0
      BY <2>4, <2>7 DEF Once
    <3>3. \A k \in DOMAIN inbox : inbox[k].kind = "Resolve" => inbox[k] # c
      BY <3>2 DEF InboxInv
    <3>4. inbox'[i] \notin snap'.receipts
      <4>1. CASE i \in DOMAIN inbox
        BY <2>1, <2>5, <2>7, <3>1, <4>1 DEF InboxInv
      <4>2. CASE i = Len(inbox) + 1
        BY <2>1, <2>2, <2>5, <4>2
      <4> QED
        BY <1>1, <2>5, <4>1, <4>2
    <3>5. ASSUME NEW j \in DOMAIN inbox', inbox'[j] = inbox'[i] PROVE j = i
      <4>1. CASE i \in DOMAIN inbox /\ j \in DOMAIN inbox
        BY <2>5, <2>7, <3>1, <3>5, <4>1 DEF InboxInv
      <4>2. CASE i \in DOMAIN inbox /\ j = Len(inbox) + 1
        BY <2>5, <2>7, <3>3, <3>5, <4>2
      <4>3. CASE i = Len(inbox) + 1 /\ j \in DOMAIN inbox
        BY <2>5, <2>7, <3>3, <3>5, <4>3
      <4> QED
        BY <1>1, <2>5, <4>1, <4>2, <4>3
    <3> QED
      BY <3>4, <3>5
  <2> QED
    BY <2>6, <2>7 DEF InboxInv
<1>5. CASE HandleControl
  <2>1. inbox # <<>> /\ inbox' = Tail(inbox) /\ env' = env
    BY <1>5 DEF HandleControl
  <2>2. /\ \A i \in DOMAIN inbox' : i + 1 \in DOMAIN inbox /\ inbox'[i] = inbox[i + 1]
                                    /\ i \in Nat /\ i + 1 # 1
        /\ 1 \in DOMAIN inbox /\ Head(inbox) = inbox[1]
    BY <1>1, <2>1
  <2>3. snap'.receipts \subseteq snap.receipts \cup {inbox[1]}
    BY <2>2, ReceiptMoves
  <2>4. ASSUME NEW i \in DOMAIN inbox', inbox'[i].kind = "Resolve"
        PROVE  inbox'[i] \in Commands /\ env'.copies[inbox'[i]] > 0
    BY <2>1, <2>2, <2>4 DEF InboxInv
  <2>5. ASSUME Once', NEW i \in DOMAIN inbox', inbox'[i].kind = "Resolve"
        PROVE  /\ inbox'[i] \notin snap'.receipts
               /\ \A j \in DOMAIN inbox' : inbox'[j] = inbox'[i] => j = i
    <3>1. /\ inbox[i + 1] \notin snap.receipts
          /\ \A j \in DOMAIN inbox : inbox[j] = inbox[i + 1] => j = i + 1
      BY <2>2, <2>5 DEF InboxInv
    <3>2. inbox[1] # inbox[i + 1]
      BY <2>2, <3>1
    <3>3. ASSUME NEW j \in DOMAIN inbox', inbox'[j] = inbox'[i] PROVE j = i
      <4>1. j + 1 = i + 1 /\ j \in Nat /\ i \in Nat
        BY <2>2, <3>1, <3>3
      <4> QED
        BY <4>1
    <3> QED
      BY <2>2, <2>3, <3>1, <3>2, <3>3
  <2> QED
    BY <2>4, <2>5 DEF InboxInv
<1>6. CASE inbox' = inbox /\ ~HandleControl
  <2>1. snap'.receipts = snap.receipts
    BY <1>6, ReceiptMoves
  <2>2. env'.copies = env.copies \/ Send
    <3>1. CASE Outside
      <4>1. CASE Resume \/ AcceptCompletion \/ Crash \/ Edit
        <5>1. \/ \E x : env' = [env EXCEPT !.resumes = x]
              \/ \E x : env' = [env EXCEPT !.crashes = x]
              \/ \E x : env' = [env EXCEPT !.edits = x]
          BY <4>1, Zenon DEF Resume, AcceptCompletion, Launch, Crash, Edit
        <5> QED
          BY <1>1, <5>1 DEF Env
      <4> QED
        BY <3>1, <4>1 DEF Outside, DeadlinePasses, vars
    <3> QED
      BY <3>1, QueueFrame
  <2>3. CASE env'.copies = env.copies
    BY <1>6, <2>1, <2>3 DEF InboxInv, Once
  <2> QED
    BY <1>4, <2>2, <2>3
<1> QED
  BY <1>2, <1>3, <1>4, <1>5, <1>6, QueueFrame

\* Every step keeps the loop and the reducer in agreement.
LEMMA FitsStep ==
    ASSUME LoopInv, AcceptInv, RanInv, ApprovedInv, FitsInv, [Next]_vars
    PROVE  FitsInv'
<1> DEFINE Foreign == {"ToolOutcomeCommitted", "HostVerificationPrepared", "Terminal"}
           Agrees == /\ PlaceInv'
                     /\ Once => refused' \subseteq refused \cup Foreign
                     /\ Once /\ Calm /\ refused = {} => refused' = {}
<1>1. PlaceInv /\ InboxInv /\ LoopFitsReducer
  BY DEF FitsInv, PlaceInv
<1>2. Agrees
  <2>1. ASSUME PlaceInv', refused' = refused PROVE Agrees
    BY <2>1
  <2>2. CASE ControlsDrained \/ ApplySteer \/ ReconcileAtBoundary \/ SteersFlushed \/ BeginTurn
    BY <1>1, <2>1, <2>2, HeadFits
  <2>3. CASE \/ CompactContext \/ ContextLimitExceeded \/ PrepareModelRequest \/ SendModelRequest
             \/ RetryDelayOver \/ Attempt
    BY <1>1, <2>1, <2>3, RequestFits
  <2>4. CASE ActOnAnswer \/ ReconcileBeforeProposal \/ ProposeCompletion
    BY <1>1, <2>1, <2>4, AnswerFits
  <2>5. CASE \/ NextCall \/ RejectCall \/ Authorize \/ ActOnAuthorization \/ AskQuestion
             \/ RequestInteraction \/ RecheckRevision
    BY <1>1, <2>1, <2>5, GateFits
  <2>6. CASE StartTool \/ ToolWrites \/ ToolReturns \/ DeadlineExpires
    <3>1. PlaceInv' /\ (Once => refused' = refused)
      BY <1>1, <2>6, RunFits
    <3> QED
      BY <3>1
  <2>7. CASE CommitOutcome
    <3>1. /\ PlaceInv' /\ refused' \subseteq refused \cup {"ToolOutcomeCommitted"}
          /\ Once /\ Calm => refused' = refused
      BY <1>1, <2>7, SettleFits
    <3> QED
      BY <3>1
  <2>8. CASE HandleControl
    BY <1>1, <2>1, <2>8, ControlFits
  <2>9. CASE \/ ReconcileForReview \/ Judge \/ PrepareVerification \/ StartVerification
             \/ VerifierReturns \/ CommitVerification \/ RejectCompletion
             \/ ReconcileAfterVerification \/ Decide
    <3>1. /\ PlaceInv' /\ refused' \subseteq refused \cup {"HostVerificationPrepared"}
          /\ Calm => refused' = refused
      BY <1>1, <2>9, ReviewFits
    <3> QED
      BY <3>1
  <2>10. CASE Recover \/ RecoveredControls
    BY <1>1, <2>1, <2>10, RecoverFits
  <2>11. CASE AwaitHost \/ PublishTerminal
    <3>1. /\ PlaceInv' /\ refused' \subseteq refused \cup {"Terminal"}
          /\ Calm /\ refused = {} => refused' = refused
      BY <1>1, <2>11, FinalFits
    <3> QED
      BY <3>1
  <2>12. CASE Outside
    <3>1. PlaceInv' /\ refused' = refused
      BY <1>1, <2>12, OutsideFits DEF Outside
    <3> QED
      BY <2>1, <3>1
  <2> HIDE DEF Agrees
  <2> QED
    BY <2>2, <2>3, <2>4, <2>5, <2>6, <2>7, <2>8, <2>9, <2>10, <2>11, <2>12
       DEF Next, Proceed, Outside
<1>3. (Once' => Once) /\ (Calm' => Calm)
  <2>1. CASE Outside
    BY <1>1, <2>1, OutsideFits DEF Outside
  <2>2. CASE env' = env
    BY <2>2 DEF Once, Calm
  <2> QED
    BY <2>1, <2>2, QueueFrame
<1>4. InboxInv'
  BY <1>1, <1>3, InboxStep
<1>5. LoopFitsReducer'
  BY <1>1, <1>2, <1>3 DEF LoopFitsReducer, Once, Calm
<1> QED
  BY <1>2, <1>4, <1>5 DEF FitsInv, PlaceInv

\* The loop and the reducer agree: as long as nobody else edits the workspace,
\* its revision can be observed and clients do not send a command twice, the loop
\* publishes nothing that apply_event refuses, whatever crashes and restarts.
\* Edits by others and blind observations show only at the events that carry or
\* compare a revision.
THEOREM LoopNeverRefused == Spec => []LoopFitsReducer
<1> DEFINE Inv == AcceptInv /\ RanInv /\ ApprovedInv /\ FitsInv
<1>1. Init => Inv
  <2> SUFFICES ASSUME Init PROVE Inv
    OBVIOUS
  <2>1. /\ snap.candidate = None /\ snap.consents = {} /\ snap.tool = IdleTool /\ snap.calls = 0
        /\ snap.model = IdleModel /\ snap.current = FALSE /\ snap.output = NoOutput
        /\ snap.rejection = None /\ snap.control = None /\ snap.stopped = FALSE
        /\ snap.terminal = None /\ snap.ws = [gen |-> 0, rev |-> world]
    BY DEF Init, NewSnapshot
  <2>2. w.pc = "loop" /\ w.replay = FALSE
    BY DEF Init, Worker
  <2>3. did.ran = [i \in 1..MaxCalls |-> 0] /\ acked = <<>> /\ inbox = <<>> /\ refused = {}
    BY DEF Init
  <2>4. /\ snap.tool.st = "None" /\ snap.tool.talk = "None" /\ snap.model.st = "None"
        /\ snap.output.calls = <<>> /\ snap.ws.rev = world
    BY <2>1 DEF IdleTool, IdleModel, NoOutput
  <2>5. AcceptInv /\ RanInv /\ ApprovedInv
    BY <2>1, <2>2, <2>3, <2>4 DEF AcceptInv, RanInv, ApprovedInv, Verifying
  <2>6. StopsInv /\ TurnInv
    BY <2>1, <2>2, <2>4 DEF StopsInv, TurnInv, Acting
  <2>7. ToolInv /\ InboxInv
    BY <2>2, <2>3, <2>4 DEF ToolInv, InboxInv
  <2>8. ReviewInv /\ LoopFitsReducer
    BY <2>2, <2>3, <2>4 DEF ReviewInv, LoopFitsReducer, Verifying
  <2> QED
    BY <2>5, <2>6, <2>7, <2>8 DEF FitsInv
<1>2. LoopInv /\ Inv /\ [Next]_vars => Inv'
  BY AcceptStep, RanStep, ApprovedStep, FitsStep
<1>3. Inv => LoopFitsReducer
  BY DEF FitsInv
<1> QED
  BY <1>1, <1>2, <1>3, LoopCoherent, PTL DEF Spec

=============================================================================
