----------------------------- MODULE RunReducer -----------------------------
(***************************************************************************)
(* The canonical reducer of crates/runtime/src/store.rs: which event may   *)
(* follow a prefix of a run's log, and the snapshot after it.  The store   *)
(* runs it before it appends an event, so an event the reducer refuses is  *)
(* never committed; the runtime runs it again on its live copy, and a      *)
(* restarted runtime starts from its result.                               *)
(*                                                                         *)
(* For an event type E, E(s, ..) is the snapshot after the event and       *)
(* EFits(s, ..) the condition under which apply_event accepts it.  A run   *)
(* here is a root run without child agents.                                *)
(***************************************************************************)
EXTENDS Integers, Sequences

CONSTANTS
    Contract,     \* the acceptance criteria of the task, a subset of {"Host", "Verifier"}
    Revisions,    \* contents the workspace may have (Known revisions)
    Unknown,      \* the revision when the workspace cannot be observed
    Codes,        \* codes of model failures
    None,         \* Rust's Option::None
    MaxRetries    \* limits.max_model_retries

ASSUME ContractAssumption == Contract \subseteq {"Host", "Verifier"} /\ Contract # {}

Workspace == [gen : Nat, rev : Revisions \cup {Unknown}]

Stops == {"Interrupt", "Cancel"}

\* TerminalState; the failures are told apart only where the reducer does.
Terminals == {"Completed", "Failed", "Blocked", "Interrupted", "Cancelled", "RecoveryRequired"}

\* A candidate is [turn, ws]: the response that proposes it, the workspace it
\* was proposed for.
Candidate == [turn : Nat, ws : Workspace]

\* A failed verification of the candidate of a turn, and the rejection of that
\* candidate; change: the model is asked for another change.
Failure == [turn : Nat, ws : Workspace, change : BOOLEAN]

Rejection == [turn : Nat, change : BOOLEAN]

ASSUME ReducerAssumption ==
    /\ Unknown \notin Revisions
    /\ None \notin Codes \cup Stops \cup Terminals
    /\ None \notin Workspace \cup Candidate \cup Failure \cup Rejection
    /\ MaxRetries \in Nat

CallKinds == {"read", "write", "question"}

\* write tools are MayWrite; read tools and request_user_input are ReadOnly.
MayWrite(kind) == kind = "write"

Executable(kind) == kind # "question"

-----------------------------------------------------------------------------
(* The snapshot *)

\* A response, a prepared request and a tool call are told apart by the turn,
\* the request and the call number they have in the run.
IdleModel == [st |-> "None", tries |-> 0, offered |-> FALSE, primary |-> None]

NoOutput == [kind |-> "None", calls |-> <<>>, offered |-> FALSE]

IdleTool == [st |-> "None", kind |-> "read", auth |-> "None", seen |-> Unknown, talk |-> "None"]

NoCheck(ws) == [st |-> "None", ws |-> ws]

NewSnapshot(ws) ==
    [turns |-> 0, requests |-> 0, calls |-> 0,
     model |-> IdleModel, stopped |-> FALSE,
     output |-> NoOutput, current |-> FALSE, settled |-> 0,
     tool |-> IdleTool, ws |-> ws,
     candidate |-> None, consents |-> {}, check |-> NoCheck(ws), proofs |-> {},
     failure |-> None, rejection |-> None,
     steers |-> <<>>, applied |-> <<>>, control |-> None, receipts |-> {},
     terminal |-> None]

\* Events that may follow a durable stop request.
Settlement == {"ToolOutcomeCommitted", "Terminal"}

\* The checks apply_event makes before it looks at the payload.
Open(s, type) ==
    /\ s.terminal = None
    /\ s.control # None => type \in Settlement
    /\ s.stopped => type = "Terminal"

-----------------------------------------------------------------------------
(* Model requests *)

\* validate_model_request_safe_boundary
AtBoundary(s) ==
    /\ s.tool.st = "None"
    /\ s.candidate = None
    /\ s.check.st = "None"
    /\ s.steers = <<>>
    /\ s.control = None

ModelRequestPreparedFits(s) == s.model.st = "None" /\ AtBoundary(s)

ModelRequestPrepared(s, offered) ==
    [s EXCEPT !.turns = @ + 1,
              !.requests = @ + 1,
              !.current = FALSE,
              !.stopped = FALSE,
              !.model = [st |-> "Prepared", tries |-> 0, offered |-> offered, primary |-> None]]

ContextCompactionCommittedFits(s) == s.model.st = "None" /\ AtBoundary(s) /\ ~s.stopped

ModelRequestInFlightFits(s) == s.model.st = "Prepared"

ModelRequestInFlight(s) == [s EXCEPT !.model.st = "InFlight"]

\* The failure that the attempts of one request are compared with.
Primary(s, code) == IF s.model.primary = None THEN code ELSE s.model.primary

\* retry_policy_stop_reason: a failed attempt [code, retryable] must not be
\* repeated.  retryable also says that no part of an answer was seen.
MustStop(s, f) ==
    \/ ~f.retryable
    \/ f.code # Primary(s, f.code)
    \/ s.model.tries >= MaxRetries

ModelRequestFailedFits(s, f, retry) ==
    /\ s.model.st = "InFlight"
    /\ retry => ~MustStop(s, f)

\* The next attempt is prepared.
Retried(s, f) ==
    [s EXCEPT !.requests = @ + 1,
              !.current = FALSE,
              !.model = [@ EXCEPT !.st = "Prepared", !.tries = s.model.tries + 1,
                                  !.primary = Primary(s, f.code)]]

GivenUp(s) == [s EXCEPT !.current = FALSE, !.stopped = TRUE, !.model = IdleModel]

ModelRequestFailed(s, f, retry) == IF retry THEN Retried(s, f) ELSE GivenUp(s)

ModelResponseCommittedFits(s) == s.model.st = "InFlight"

ModelResponseCommitted(s, kind, calls) ==
    [s EXCEPT !.model = IdleModel,
              !.output = [kind |-> kind, calls |-> calls, offered |-> s.model.offered],
              !.current = TRUE,
              !.settled = 0]

-----------------------------------------------------------------------------
(* Tool calls *)

\* validate_tool_preparation_binding: the first unsettled call of the answer.
ToolPreparedFits(s) == s.tool.st = "None" /\ s.settled < Len(s.output.calls)

ToolPrepared(s) ==
    [s EXCEPT !.calls = @ + 1,
              !.tool = [IdleTool EXCEPT !.st = "Prepared", !.kind = s.output.calls[s.settled + 1]]]

ToolAuthorizationCommittedFits(s) ==
    s.tool.st = "Prepared" /\ s.tool.auth = "None" /\ Executable(s.tool.kind)

\* The decision binds the workspace state of the snapshot.
ToolAuthorizationCommitted(s, disposition) ==
    [s EXCEPT !.tool.auth = disposition, !.tool.seen = s.ws.rev]

InteractionRequestedFits(s) ==
    /\ s.tool.st = "Prepared"
    /\ s.tool.talk = "None"
    /\ Executable(s.tool.kind) => s.tool.auth = "Ask"

InteractionRequested(s) == [s EXCEPT !.tool.talk = "Open"]

\* validate_response: the answers each kind of prompt takes.
Answers(kind) == IF Executable(kind) THEN {"Approved", "Denied", "Dismissed"}
                 ELSE {"Answered", "Dismissed"}

Committed(s, c) == \E r \in s.receipts : r.id = c.id

\* c names its interaction by the number of the call it belongs to.
InteractionResolvedFits(s, c) ==
    /\ s.tool.talk = "Open"
    /\ c.call = s.calls
    /\ c.answer \in Answers(s.tool.kind)
    /\ ~Committed(s, c)

InteractionResolved(s, c) ==
    [s EXCEPT !.tool.talk = c.answer, !.receipts = @ \cup {c}]

\* Faulty variant: the start of a tool does not look at its interaction.
StartsWhenAuthorized(s) ==
    s.tool.st = "Prepared" /\ (Executable(s.tool.kind) => s.tool.auth \in {"Allow", "Ask"})

ToolExecutionStartedFits(s) ==
    /\ s.tool.st = "Prepared"
    /\ s.tool.talk \in {"None", "Approved"}
    /\ Executable(s.tool.kind) =>
          \/ s.tool.auth = "Allow" /\ s.tool.talk = "None"
          \/ s.tool.auth = "Ask" /\ s.tool.talk = "Approved"

ToolExecutionStarted(s) == [s EXCEPT !.tool.st = "InFlight"]

\* An outcome is its operation status and its side effect.  "Rejected" and
\* "Stale" (AuthorizationStale) are preflight rejections; "NeverRun" is
\* cancelled_before_execution_outcome.
Operations == {"Rejected", "Stale", "NeverRun", "Cancelled", "Finished"}

\* ws is the workspace state that settles the call, None if it keeps it.
ToolOutcomeCommittedFits(s, o, ws) ==
    /\ s.tool.st # "None"
    /\ s.tool.st = "InFlight" => o.op \notin {"Rejected", "Stale", "NeverRun"}
    /\ s.tool.st = "Prepared" /\ s.tool.talk = "None" => o.op \in {"Rejected", "Stale"}
    /\ s.tool.talk = "Open" => o.op \in {"NeverRun", "Cancelled"}
    /\ s.tool.talk = "Approved" /\ s.tool.st = "Prepared" => o.op = "Stale"
    /\ Executable(s.tool.kind) /\ s.tool.talk \in {"Denied", "Dismissed"}
          => o.op \in {"Rejected", "Stale"}
    /\ s.tool.kind = "read" => o.effect \notin {"Applied", "Indeterminate"}
    /\ IF MayWrite(s.tool.kind)
       THEN /\ ws = None => s.tool.st = "Prepared" /\ o.effect = "NotApplied"
            /\ ws # None => s.tool.st = "InFlight" /\ ws.gen = s.ws.gen + 1
       ELSE ws = None
    /\ ws # None /\ Unknown \notin {ws.rev, s.ws.rev} /\ ws.rev # s.ws.rev
          => o.effect # "NotApplied"

ToolOutcomeCommitted(s, ws) ==
    [s EXCEPT !.tool = IdleTool,
              !.settled = @ + 1,
              !.ws = IF ws = None THEN @ ELSE ws]

-----------------------------------------------------------------------------
(* The workspace and the completion of the task *)

\* The generation advances unless two Known revisions agree.
NextWorkspace(s, rev, force) ==
    [gen |-> IF force \/ rev = Unknown \/ rev # s.ws.rev THEN s.ws.gen + 1 ELSE s.ws.gen,
     rev |-> rev]

WorkspaceObservedFits(s, ws) == ws = NextWorkspace(s, ws.rev, FALSE)

WorkspaceObserved(s, ws) == [s EXCEPT !.ws = ws]

\* The answer is current, final and not rejected, and nothing is pending.
CompletionProposedFits(s, cand) ==
    /\ s.current
    /\ s.model.st = "None" /\ s.tool.st = "None"
    /\ s.steers = <<>> /\ s.control = None
    /\ s.output.kind = "Stop"
    /\ cand = [turn |-> s.turns, ws |-> s.ws]
    /\ s.rejection # None => s.rejection.turn # cand.turn
    /\ s.candidate = None

CompletionProposed(s, cand) == [s EXCEPT !.candidate = cand]

HostCompletionAcceptedFits(s, c) ==
    /\ "Host" \in Contract
    /\ s.candidate # None
    /\ c.candidate = s.candidate
    /\ c.candidate.ws = s.ws
    /\ ~Committed(s, c)

HostCompletionAccepted(s, c) ==
    [s EXCEPT !.consents = @ \cup {c.candidate}, !.receipts = @ \cup {c}]

HostVerificationPreparedFits(s) ==
    /\ s.check.st = "None"
    /\ "Verifier" \in Contract
    /\ s.candidate # None
    /\ s.candidate.ws = s.ws

HostVerificationPrepared(s) == [s EXCEPT !.check = [st |-> "Prepared", ws |-> s.ws]]

HostVerificationStartedFits(s) == s.check.st = "Prepared" /\ s.check.ws = s.ws

HostVerificationStarted(s) == [s EXCEPT !.check.st = "InFlight"]

\* Faulty variant: a passing verdict is sealed for whatever workspace is there
\* when it comes back.
SealsVerdict(s, v, after) == v.verdict = "Passed"

\* seal_evidence_receipt: the verifier passed on the revision that the snapshot
\* has and that the workspace still has.
Seals(s, v, after) ==
    v.verdict = "Passed" /\ v.rev = s.ws.rev /\ v.rev = after.rev /\ v.rev # Unknown

\* EvidenceSealRejection::required_transition: only an exact failure asks the
\* model for another change.
AsksForChange(s, v, after) ==
    v.verdict = "Failed" /\ v.rev = s.ws.rev /\ v.rev = after.rev /\ v.rev # Unknown

HostVerificationCommittedFits(s, after) ==
    s.check.st = "InFlight" /\ s.check.ws = s.ws /\ after.gen = s.ws.gen + 1

HostVerificationCommitted(s, v, after) ==
    LET done == [s EXCEPT !.ws = after, !.check = NoCheck(after)]
    IN  IF Seals(s, v, after)
        THEN [done EXCEPT !.proofs = @ \cup {after}, !.rejection = None, !.failure = None]
        ELSE [done EXCEPT !.failure = [turn |-> s.candidate.turn, ws |-> after,
                                       change |-> AsksForChange(s, v, after)]]

CompletionRejectedFits(s) ==
    /\ s.candidate # None
    /\ s.failure # None
    /\ s.failure.turn = s.candidate.turn

CompletionRejected(s) ==
    [s EXCEPT !.rejection = [turn |-> s.failure.turn, change |-> s.failure.change],
              !.candidate = None]

-----------------------------------------------------------------------------
(* Commands and the outcome *)

SteerQueuedFits(s, c) == ~Committed(s, c)

\* Faulty variant: a new steer overtakes the ones that wait.
SteerQueuedFirst(s, c) ==
    [s EXCEPT !.steers = <<c.id>> \o @, !.receipts = @ \cup {c}]

SteerQueued(s, c) ==
    [s EXCEPT !.steers = Append(@, c.id), !.receipts = @ \cup {c}]

SteerAppliedFits(s) == s.steers # <<>>

SteerApplied(s) ==
    [s EXCEPT !.applied = Append(@, Head(s.steers)),
              !.steers = Tail(@),
              !.current = FALSE]

ControlRequestedFits(s, c) == s.control = None /\ ~Committed(s, c)

\* Faulty variant: the receipt of a stop is kept and the stop itself is not.
StopForgotten(s, c) == [s EXCEPT !.receipts = @ \cup {c}]

ControlRequested(s, c) == [s EXCEPT !.control = c.kind, !.receipts = @ \cup {c}]

TerminalFor(action) == IF action = "Interrupt" THEN "Interrupted" ELSE "Cancelled"

\* validate_completion_decision.  d holds the candidate and the workspace
\* decided on, the evidence receipt and the host receipt it cites.
DecisionFits(s, d) ==
    /\ s.candidate # None
    /\ d.candidate = s.candidate
    /\ d.ws = s.ws
    /\ "Verifier" \in Contract => d.proof \in s.proofs /\ d.proof = s.ws
    /\ "Host" \in Contract =>
          /\ d.consent \in s.consents
          /\ d.consent.turn = s.candidate.turn
          /\ \/ d.consent.ws = s.ws
             \/ /\ "Verifier" \in Contract
                /\ d.consent.ws = s.candidate.ws
                /\ d.consent.ws.gen + 1 = s.ws.gen
                /\ d.consent.ws.rev = s.ws.rev

TerminalFits(s, outcome, d) ==
    /\ s.control # None => outcome \in {TerminalFor(s.control), "RecoveryRequired"}
    /\ outcome = "Completed" => DecisionFits(s, d)

Terminal(s, outcome) == [s EXCEPT !.terminal = outcome]

=============================================================================
