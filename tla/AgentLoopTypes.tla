--------------------------- MODULE AgentLoopTypes ---------------------------
(***************************************************************************)
(* The types of AgentLoop and the coherence of its snapshot with the place *)
(* where the worker stands, for every value of the constants.  The other   *)
(* theorems about the loop are in AgentLoopProofs.                         *)
(***************************************************************************)
EXTENDS AgentLoop, TLAPS

-----------------------------------------------------------------------------
(* Types *)

ModelState ==
    [st : {"None", "Prepared", "InFlight"}, tries : 0..MaxRetries, offered : BOOLEAN,
     primary : Codes \cup {None}]

Output ==
    [kind : {"None", "Stop", "Blank", "Calls", "Invalid"}, calls : Seq(CallKinds),
     offered : BOOLEAN]

ToolState ==
    [st : {"None", "Prepared", "InFlight"}, kind : CallKinds,
     auth : {"None", "Allow", "Ask", "Deny"}, seen : Revisions \cup {Unknown},
     talk : {"None", "Open", "Approved", "Denied", "Answered", "Dismissed"}]

CheckState == [st : {"None", "Prepared", "InFlight"}, ws : Workspace]

\* The commands of the clients and the acceptances of the host.
Command == Commands \cup [id : Acceptances, kind : {"Accept"}, candidate : Candidate]

Names == {c.id : c \in Commands} \cup Acceptances

Snap ==
    [turns : Nat, requests : Nat, calls : Nat,
     model : ModelState, stopped : BOOLEAN,
     output : Output, current : BOOLEAN, settled : Nat,
     tool : ToolState, ws : Workspace,
     candidate : Candidate \cup {None}, consents : SUBSET Candidate,
     check : CheckState, proofs : SUBSET Workspace,
     failure : Failure \cup {None}, rejection : Rejection \cup {None},
     steers : Seq(Names), applied : Seq(Names),
     control : Stops \cup {None}, receipts : SUBSET Command,
     terminal : Terminals \cup {None}]

Verdict == [verdict : {"Passed", "Failed", "Broken"}, rev : Revisions]

ToolOutcome ==
    [op : Operations, effect : {"Applied", "NotApplied", "NotApplicable", "Indeterminate"}]

Decision ==
    [candidate : Candidate \cup {None}, ws : Workspace \cup {None},
     proof : Workspace \cup {None}, consent : Candidate \cup {None}]

WorkerType ==
    [pc : PCs, live : BOOLEAN, spare : BOOLEAN, replay : BOOLEAN,
     goal : Goals \cup {None}, outcome : ToolOutcome \cup {None},
     after : Terminals \cup {None}, wrote : BOOLEAN, verdict : Verdict \cup {None},
     decision : Decision]

Env ==
    [crashes : Nat, resumes : Nat, edits : Nat, copies : [Commands -> Nat], blind : BOOLEAN]

Did ==
    [sent : [1..MaxRequests -> Nat], ran : [1..MaxCalls -> Nat], verified : [1..MaxRequests -> Nat]]

-----------------------------------------------------------------------------
(* Coherence *)

\* The worker prepares, sends or awaits a model request.
Requesting == {"prepare", "compacted", "backoff", "send", "stream"}

\* It works on a complete answer.
Acting ==
    {"act", "sync", "propose", "call", "gate", "authorized", "ask", "wait", "recheck", "start",
     "running", "settle", "flush"}

\* It decides on a completion.
Reviewing == {"review", "judge", "verify", "checking", "sealing", "reject", "close", "decide"}

\* What is pending in a snapshot: a model request, a tool call and a completion
\* exclude each other; the tool call belongs to the answer, a verification to the
\* candidate, and the candidate to the last turn.  A failed verification of the
\* last turn leaves its candidate to be rejected, or the candidate is rejected.
Coherent(s) ==
    /\ s.model.st # "None" => s.tool.st = "None" /\ s.candidate = None /\ ~s.current
    /\ s.model.st # "None" \/ s.current => s.turns > 0
    /\ s.current => s.output.kind # "None"
    /\ s.turns <= s.requests
    /\ s.settled <= Len(s.output.calls)
    /\ s.tool.st # "None" => s.settled < Len(s.output.calls)
    /\ s.check.st # "None" => s.candidate # None
    /\ s.candidate # None => s.candidate.turn = s.turns /\ s.turns > 0
    /\ \A x \in s.consents : x.turn \in 1..s.turns
    /\ s.failure # None => s.failure.turn <= s.turns
    /\ s.failure # None /\ s.failure.turn = s.turns =>
          IF s.candidate # None THEN s.check.st = "None"
          ELSE s.rejection # None /\ s.rejection.turn = s.turns

\* Worker v stands where snapshot s lets it stand.
Placed(s, v) ==
    /\ v.replay => s.model.st = "None"
    /\ v.replay \/ v.pc = "act" => s.output.kind # "None"
    /\ v.pc \in Requesting \cup Acting => ~v.replay
    /\ v.pc \in Acting \cup Reviewing => s.model.st = "None"
    /\ v.pc \in Reviewing => s.candidate # None
    /\ v.pc = "final" => v.goal \in Goals
    /\ s.candidate # None /\ s.failure # None /\ s.failure.turn = s.candidate.turn
          => v.pc \in {"boot", "reject", "final", "down", "done"}
    /\ s.calls <= MaxCalls
    /\ s.requests + (IF v.spare THEN 1 ELSE 0) <= MaxRequests

Sound(s, v) == s \in Snap /\ Coherent(s) /\ v \in WorkerType /\ Placed(s, v)

\* The rest of the state.
World ==
    /\ inbox \in Seq(Command)
    /\ world \in Revisions
    /\ late \in BOOLEAN
    /\ env \in Env
    /\ did \in Did
    /\ acked \in Seq(Command)

LoopInv == Sound(snap, w) /\ World

-----------------------------------------------------------------------------
(* The events *)

Fields ==
    {"turns", "requests", "calls", "model", "stopped", "output", "current", "settled", "tool",
     "ws", "candidate", "consents", "check", "proofs", "failure", "rejection", "steers",
     "applied", "control", "receipts", "terminal"}

\* Snapshot t differs from s at most in the fields F.
Keeps(s, t, F) == \A f \in Fields \ F : t[f] = s[f]

\* Each event of the reducer: its result is a snapshot, differs from the one
\* before in the fields the event is about, and stays coherent.

\* ModelRequestPrepared opens a turn with a fresh request.
LEMMA PreparedEvent ==
    ASSUME NEW s \in Snap, NEW o \in BOOLEAN, NEW t, t = ModelRequestPrepared(s, o)
    PROVE  /\ t \in Snap
           /\ Keeps(s, t, {"turns", "requests", "current", "stopped", "model"})
           /\ t.turns = s.turns + 1 /\ t.requests = s.requests + 1
           /\ t.current = FALSE /\ t.model.st = "Prepared"
           /\ ModelRequestPreparedFits(s) /\ Coherent(s) => Coherent(t)
<1>1. [st |-> "Prepared", tries |-> 0, offered |-> o, primary |-> None] \in ModelState
  BY ReducerAssumption DEF ModelState
<1>2. s.turns + 1 \in Nat /\ s.requests + 1 \in Nat
  BY DEF Snap
<1>3. t \in Snap
  BY <1>1, <1>2 DEF Snap, ModelRequestPrepared
<1>4. Keeps(s, t, {"turns", "requests", "current", "stopped", "model"})
  BY DEF Keeps, Fields, Snap, ModelRequestPrepared
<1>5. /\ t.turns = s.turns + 1 /\ t.requests = s.requests + 1
      /\ t.current = FALSE /\ t.model.st = "Prepared"
  BY DEF Snap, ModelRequestPrepared
<1>6. ASSUME ModelRequestPreparedFits(s), Coherent(s) PROVE Coherent(t)
  <2>1. s.turns \in Nat /\ s.requests \in Nat /\ s.consents \subseteq Candidate
        /\ (s.failure # None => s.failure.turn \in Nat)
    BY DEF Snap, Failure
  <2>2. \A x \in Candidate : x.turn \in Nat
    BY DEF Candidate
  <2> QED
    BY <1>4, <1>5, <1>6, <2>1, <2>2
       DEF Keeps, Fields, Coherent, ModelRequestPreparedFits, AtBoundary
<1> QED
  BY <1>3, <1>4, <1>5, <1>6

\* ModelRequestInFlight marks the prepared request.
LEMMA InFlightEvent ==
    ASSUME NEW s \in Snap, NEW t, t = ModelRequestInFlight(s)
    PROVE  /\ t \in Snap
           /\ Keeps(s, t, {"model"}) /\ t.model.st = "InFlight"
           /\ ModelRequestInFlightFits(s) /\ Coherent(s) => Coherent(t)
<1>1. [s.model EXCEPT !.st = "InFlight"] \in ModelState
  BY DEF ModelState, Snap
<1>2. t \in Snap
  BY <1>1 DEF Snap, ModelRequestInFlight
<1>3. Keeps(s, t, {"model"}) /\ t.model.st = "InFlight"
  BY DEF Keeps, Fields, Snap, ModelState, ModelRequestInFlight
<1>4. ASSUME ModelRequestInFlightFits(s), Coherent(s) PROVE Coherent(t)
  BY <1>3, <1>4 DEF Keeps, Fields, Coherent, ModelRequestInFlightFits
<1> QED
  BY <1>2, <1>3, <1>4

\* ModelRequestFailed with a retry prepares the next attempt.
LEMMA RetriedEvent ==
    ASSUME NEW s \in Snap, NEW f \in [code : Codes, retryable : BOOLEAN],
           NEW t, t = Retried(s, f), s.model.st = "InFlight", ~MustStop(s, f)
    PROVE  /\ t \in Snap
           /\ Keeps(s, t, {"requests", "current", "model"})
           /\ t.requests = s.requests + 1
           /\ t.current = FALSE /\ t.model.st = "Prepared"
           /\ Coherent(s) => Coherent(t)
<1>1. s.model \in ModelState /\ s.requests + 1 \in Nat
  BY DEF Snap
<1>2. Primary(s, f.code) \in Codes \cup {None}
  BY <1>1 DEF Primary, ModelState
<1>3. s.model.tries + 1 \in 0..MaxRetries
  BY <1>1, ReducerAssumption DEF MustStop, ModelState
<1> DEFINE m == [s.model EXCEPT !.st = "Prepared", !.tries = @ + 1, !.primary = Primary(s, f.code)]
<1>4. m \in ModelState /\ m.st = "Prepared"
  BY <1>1, <1>2, <1>3 DEF ModelState
<1>5. t = [s EXCEPT !.requests = @ + 1, !.current = FALSE, !.model = m]
  BY Zenon DEF Retried
<1> HIDE DEF m
<1>6. t \in Snap
  BY <1>1, <1>4, <1>5, ZenonT(60) DEF Snap
<1>7. Keeps(s, t, {"requests", "current", "model"})
  BY <1>5 DEF Keeps, Fields, Snap
<1>8. t.requests = s.requests + 1 /\ t.current = FALSE /\ t.model.st = "Prepared"
  BY <1>4, <1>5 DEF Snap
<1>9. ASSUME Coherent(s) PROVE Coherent(t)
  <2>1. s.turns \in Nat /\ s.requests \in Nat
    BY DEF Snap
  <2> QED
    BY <1>7, <1>8, <1>9, <2>1 DEF Keeps, Fields, Coherent
<1> QED
  BY <1>6, <1>7, <1>8, <1>9

\* ModelRequestFailed without a retry stops the run.
LEMMA GivenUpEvent ==
    ASSUME NEW s \in Snap, NEW t, t = GivenUp(s)
    PROVE  /\ t \in Snap
           /\ Keeps(s, t, {"current", "stopped", "model"})
           /\ t.current = FALSE /\ t.model.st = "None"
           /\ Coherent(s) => Coherent(t)
<1>1. t = [s EXCEPT !.current = FALSE, !.stopped = TRUE, !.model = IdleModel]
  BY DEF GivenUp
<1>2. IdleModel \in ModelState /\ IdleModel.st = "None"
  BY ReducerAssumption DEF IdleModel, ModelState
<1>3. t \in Snap
  BY <1>1, <1>2 DEF Snap
<1>4. Keeps(s, t, {"current", "stopped", "model"}) /\ t.current = FALSE /\ t.model.st = "None"
  BY <1>1, <1>2 DEF Keeps, Fields, Snap
<1>5. ASSUME Coherent(s) PROVE Coherent(t)
  BY <1>4, <1>5 DEF Keeps, Fields, Coherent
<1> QED
  BY <1>3, <1>4, <1>5

\* ModelResponseCommitted ends the request with an answer.
LEMMA ResponseEvent ==
    ASSUME NEW s \in Snap, NEW kind \in {"Stop", "Blank", "Calls", "Invalid"},
           NEW calls \in Seq(CallKinds), NEW t, t = ModelResponseCommitted(s, kind, calls)
    PROVE  /\ t \in Snap
           /\ Keeps(s, t, {"model", "output", "current", "settled"})
           /\ t.model.st = "None" /\ t.current = TRUE /\ t.settled = 0 /\ t.output.kind # "None"
           /\ ModelResponseCommittedFits(s) /\ Coherent(s) => Coherent(t)
<1> DEFINE o == [kind |-> kind, calls |-> calls, offered |-> s.model.offered]
<1>1. IdleModel \in ModelState /\ IdleModel.st = "None"
  BY ReducerAssumption DEF IdleModel, ModelState
<1>2. o \in Output /\ o.calls = calls /\ o.kind = kind
  BY DEF Output, Snap, ModelState
<1>3. t = [s EXCEPT !.model = IdleModel, !.output = o, !.current = TRUE, !.settled = 0]
  BY DEF ModelResponseCommitted
<1> HIDE DEF o
<1>4. t \in Snap
  <2>1. 0 \in Nat
    OBVIOUS
  <2> QED
    BY <1>1, <1>2, <1>3, <2>1, ZenonT(60) DEF Snap
<1>5. Keeps(s, t, {"model", "output", "current", "settled"})
  BY <1>3 DEF Keeps, Fields, Snap
<1>6. t.model.st = "None" /\ t.current = TRUE /\ t.settled = 0 /\ t.output.kind # "None"
  BY <1>1, <1>2, <1>3 DEF Snap
<1>7. ASSUME ModelResponseCommittedFits(s), Coherent(s) PROVE Coherent(t)
  <2>1. t.output.calls = calls /\ Len(calls) \in Nat /\ t.settled <= Len(calls)
    BY <1>2, <1>3, <1>6 DEF Snap
  <2> QED
    BY <1>5, <1>6, <1>7, <2>1 DEF Keeps, Fields, Coherent, ModelResponseCommittedFits
<1> QED
  BY <1>4, <1>5, <1>6, <1>7

\* ToolPrepared takes up the next call of the answer.
LEMMA ToolPreparedEvent ==
    ASSUME NEW s \in Snap, NEW t, t = ToolPrepared(s), ToolPreparedFits(s)
    PROVE  /\ t \in Snap
           /\ Keeps(s, t, {"calls", "tool"})
           /\ t.calls = s.calls + 1
           /\ t.tool.st = "Prepared" /\ t.tool.auth = "None" /\ t.tool.talk = "None"
           /\ s.model.st = "None" /\ Coherent(s) => Coherent(t)
<1> DEFINE u == [IdleTool EXCEPT !.st = "Prepared", !.kind = s.output.calls[s.settled + 1]]
<1>1. s.output.calls[s.settled + 1] \in CallKinds
  BY DEF ToolPreparedFits, Snap, Output
<1>2. u \in ToolState /\ u.st = "Prepared" /\ u.auth = "None" /\ u.talk = "None"
  BY <1>1 DEF IdleTool, ToolState
<1>3. t = [s EXCEPT !.calls = @ + 1, !.tool = u]
  BY DEF ToolPrepared
<1> HIDE DEF u
<1>4. s.calls + 1 \in Nat
  BY DEF Snap
<1>5. t \in Snap
  BY <1>2, <1>3, <1>4 DEF Snap
<1>6. Keeps(s, t, {"calls", "tool"}) /\ t.calls = s.calls + 1 /\ t.tool = u
  BY <1>3 DEF Keeps, Fields, Snap
<1>7. ASSUME s.model.st = "None", Coherent(s) PROVE Coherent(t)
  BY <1>6, <1>7 DEF Keeps, Fields, Coherent, ToolPreparedFits
<1> QED
  BY <1>2, <1>5, <1>6, <1>7

\* An authorization, a question and the start of a tool change only the call.
LEMMA CallEvent ==
    ASSUME NEW s \in Snap, NEW t, NEW disposition \in {"Allow", "Ask", "Deny"},
           \/ t = ToolAuthorizationCommitted(s, disposition) /\ ToolAuthorizationCommittedFits(s)
           \/ t = InteractionRequested(s) /\ InteractionRequestedFits(s)
           \/ t = ToolExecutionStarted(s) /\ ToolExecutionStartedFits(s)
    PROVE  /\ t \in Snap
           /\ Keeps(s, t, {"tool"})
           /\ s.tool.st = "Prepared" /\ t.tool.st # "None" /\ t.tool.kind = s.tool.kind
           /\ t.tool.talk \in {s.tool.talk, "Open"}
           /\ Coherent(s) => Coherent(t)
<1>1. s.tool \in ToolState /\ s.ws.rev \in Revisions \cup {Unknown} /\ s.tool.st = "Prepared"
  BY DEF Snap, Workspace, ToolAuthorizationCommittedFits, InteractionRequestedFits,
         ToolExecutionStartedFits
<1>2. PICK u \in ToolState : /\ t = [s EXCEPT !.tool = u] /\ u.st # "None" /\ u.kind = s.tool.kind
                            /\ u.talk \in {s.tool.talk, "Open"}
  <2>1. CASE t = ToolAuthorizationCommitted(s, disposition)
    <3> DEFINE u == [s.tool EXCEPT !.auth = disposition, !.seen = s.ws.rev]
    <3>1. u \in ToolState /\ u.st # "None" /\ u.kind = s.tool.kind /\ u.talk = s.tool.talk
      BY <1>1 DEF ToolState
    <3>2. t = [s EXCEPT !.tool = u]
      BY <1>1, <2>1 DEF ToolAuthorizationCommitted, Snap, ToolState
    <3> QED
      BY <3>1, <3>2
  <2>2. CASE t = InteractionRequested(s)
    <3> DEFINE u == [s.tool EXCEPT !.talk = "Open"]
    <3>1. u \in ToolState /\ u.st # "None" /\ u.kind = s.tool.kind /\ u.talk = "Open"
      BY <1>1 DEF ToolState
    <3>2. t = [s EXCEPT !.tool = u]
      BY <2>2 DEF InteractionRequested
    <3> QED
      BY <3>1, <3>2
  <2>3. CASE t = ToolExecutionStarted(s)
    <3> DEFINE u == [s.tool EXCEPT !.st = "InFlight"]
    <3>1. u \in ToolState /\ u.st # "None" /\ u.kind = s.tool.kind /\ u.talk = s.tool.talk
      BY <1>1 DEF ToolState
    <3>2. t = [s EXCEPT !.tool = u]
      BY <2>3 DEF ToolExecutionStarted
    <3> QED
      BY <3>1, <3>2
  <2> QED
    BY <2>1, <2>2, <2>3
<1>3. t \in Snap
  BY <1>2 DEF Snap
<1>4. Keeps(s, t, {"tool"}) /\ t.tool = u
  BY <1>2 DEF Keeps, Fields, Snap
<1>5. ASSUME Coherent(s) PROVE Coherent(t)
  BY <1>1, <1>2, <1>4, <1>5 DEF Keeps, Fields, Coherent
<1> QED
  BY <1>1, <1>2, <1>3, <1>4, <1>5

\* InteractionResolved records the answer of the user.
LEMMA ResolvedEvent ==
    ASSUME NEW s \in Snap, NEW c \in Command, NEW t, t = InteractionResolved(s, c),
           InteractionResolvedFits(s, c)
    PROVE  /\ t \in Snap
           /\ Keeps(s, t, {"tool", "receipts"})
           /\ t.tool.st = s.tool.st /\ t.tool.kind = s.tool.kind /\ t.tool.auth = s.tool.auth
           /\ t.tool.talk = c.answer /\ c.answer # "Open"
           /\ Coherent(s) => Coherent(t)
<1> DEFINE u == [s.tool EXCEPT !.talk = c.answer]
           v == s.receipts \cup {c}
<1>1. s.tool \in ToolState /\ c.answer \in {"Approved", "Denied", "Answered", "Dismissed"}
  BY DEF Snap, InteractionResolvedFits, Answers
<1>2. /\ u \in ToolState /\ u.st = s.tool.st /\ u.kind = s.tool.kind /\ u.auth = s.tool.auth
      /\ u.talk = c.answer
  BY <1>1 DEF ToolState
<1>3. v \in SUBSET Command
  BY DEF Snap
<1>4. t = [s EXCEPT !.tool = u, !.receipts = v]
  BY DEF InteractionResolved
<1> HIDE DEF u, v
<1>5. t \in Snap
  BY <1>2, <1>3, <1>4 DEF Snap
<1>6. Keeps(s, t, {"tool", "receipts"}) /\ t.tool = u
  BY <1>4 DEF Keeps, Fields, Snap
<1>7. ASSUME Coherent(s) PROVE Coherent(t)
  BY <1>2, <1>6, <1>7 DEF Keeps, Fields, Coherent
<1> QED
  BY <1>1, <1>2, <1>5, <1>6, <1>7

\* ToolOutcomeCommitted settles the call.
LEMMA OutcomeEvent ==
    ASSUME NEW s \in Snap, NEW o, NEW ws \in Workspace \cup {None}, NEW t,
           t = ToolOutcomeCommitted(s, ws), ToolOutcomeCommittedFits(s, o, ws)
    PROVE  /\ t \in Snap
           /\ Keeps(s, t, {"tool", "settled", "ws"})
           /\ t.tool = IdleTool /\ t.settled = s.settled + 1
           /\ t.ws = IF ws = None THEN s.ws ELSE ws
           /\ ws # None => ws.gen = s.ws.gen + 1
           /\ Coherent(s) => Coherent(t)
<1> DEFINE v == IF ws = None THEN s.ws ELSE ws
           n == s.settled + 1
<1>1. IdleTool \in ToolState /\ IdleTool.st = "None"
  BY DEF IdleTool, ToolState, CallKinds
<1>2. v \in Workspace /\ n \in Nat
  BY DEF Snap
<1>3. t = [s EXCEPT !.tool = IdleTool, !.settled = n, !.ws = v]
  BY DEF ToolOutcomeCommitted
<1>4. ws # None => ws.gen = s.ws.gen + 1
  BY DEF ToolOutcomeCommittedFits
<1> HIDE DEF v, n
<1>5. t \in Snap
  BY <1>1, <1>2, <1>3, ZenonT(60) DEF Snap
<1>6. Keeps(s, t, {"tool", "settled", "ws"}) /\ t.tool = IdleTool /\ t.settled = n /\ t.ws = v
  BY <1>3 DEF Keeps, Fields, Snap
<1>7. ASSUME Coherent(s) PROVE Coherent(t)
  <2>1. s.settled \in Nat /\ Len(s.output.calls) \in Nat /\ s.tool.st # "None"
    BY DEF Snap, Output, ToolOutcomeCommittedFits
  <2>2. t.settled = s.settled + 1
    BY <1>6 DEF n
  <2> QED
    BY <1>1, <1>6, <1>7, <2>1, <2>2 DEF Keeps, Fields, Coherent
<1> QED
  BY <1>4, <1>5, <1>6, <1>7 DEF v, n

\* WorkspaceObserved replaces the workspace state.
LEMMA ObservedEvent ==
    ASSUME NEW s \in Snap, NEW ws \in Workspace, NEW t, t = WorkspaceObserved(s, ws)
    PROVE  /\ t \in Snap
           /\ Keeps(s, t, {"ws"}) /\ t.ws = ws
           /\ Coherent(s) => Coherent(t)
<1>1. t \in Snap
  BY DEF Snap, WorkspaceObserved
<1>2. Keeps(s, t, {"ws"}) /\ t.ws = ws
  BY DEF Keeps, Fields, Snap, WorkspaceObserved
<1>3. ASSUME Coherent(s) PROVE Coherent(t)
  BY <1>2, <1>3 DEF Keeps, Fields, Coherent
<1> QED
  BY <1>1, <1>2, <1>3

\* CompletionProposed makes the current answer the candidate.
LEMMA ProposedEvent ==
    ASSUME NEW s \in Snap, NEW cand, NEW t, t = CompletionProposed(s, cand),
           CompletionProposedFits(s, cand)
    PROVE  /\ t \in Snap
           /\ Keeps(s, t, {"candidate"})
           /\ t.candidate = [turn |-> s.turns, ws |-> s.ws] /\ t.candidate \in Candidate
           /\ t.candidate # None
           /\ Coherent(s) => Coherent(t) /\ ~(s.failure # None /\ s.failure.turn = s.turns)
<1>1. cand = [turn |-> s.turns, ws |-> s.ws] /\ cand \in Candidate /\ cand # None
  BY ReducerAssumption DEF Snap, Candidate, CompletionProposedFits
<1>2. cand.turn = s.turns
  BY <1>1
<1>3. t \in Snap
  BY <1>1 DEF Snap, CompletionProposed
<1>4. Keeps(s, t, {"candidate"}) /\ t.candidate = cand
  BY DEF Keeps, Fields, Snap, CompletionProposed
<1>5. ASSUME Coherent(s) PROVE Coherent(t) /\ ~(s.failure # None /\ s.failure.turn = s.turns)
  <2>1. s.current /\ s.model.st = "None" /\ s.candidate = None
        /\ (s.rejection # None => s.rejection.turn # s.turns)
    BY <1>2 DEF CompletionProposedFits
  <2>2. ~(s.failure # None /\ s.failure.turn = s.turns) /\ s.turns > 0
    BY <1>5, <2>1 DEF Coherent
  <2>3. Coherent(t)
    BY <1>1, <1>2, <1>4, <1>5, <2>1, <2>2 DEF Keeps, Fields, Coherent
  <2> QED
    BY <2>2, <2>3
<1> QED
  BY <1>1, <1>3, <1>4, <1>5

\* HostCompletionAccepted records the consent of the host.
LEMMA AcceptedEvent ==
    ASSUME NEW s \in Snap, NEW c \in Command, NEW t, t = HostCompletionAccepted(s, c),
           HostCompletionAcceptedFits(s, c)
    PROVE  /\ t \in Snap
           /\ Keeps(s, t, {"consents", "receipts"})
           /\ t.consents = s.consents \cup {s.candidate} /\ t.receipts = s.receipts \cup {c}
           /\ c \notin s.receipts
           /\ Coherent(s) => Coherent(t)
<1> DEFINE x == s.consents \cup {c.candidate}
           v == s.receipts \cup {c}
<1>1. s.candidate \in Candidate /\ c.candidate = s.candidate
  BY DEF Snap, HostCompletionAcceptedFits
<1>2. x \in SUBSET Candidate /\ v \in SUBSET Command
  BY <1>1 DEF Snap
<1>3. t = [s EXCEPT !.consents = x, !.receipts = v]
  BY DEF HostCompletionAccepted
<1>4. c \notin s.receipts
  BY DEF HostCompletionAcceptedFits, Committed
<1> HIDE DEF x, v
<1>5. t \in Snap
  BY <1>2, <1>3 DEF Snap
<1>6. Keeps(s, t, {"consents", "receipts"}) /\ t.consents = x /\ t.receipts = v
  BY <1>3 DEF Keeps, Fields, Snap
<1>7. ASSUME Coherent(s) PROVE Coherent(t)
  <2>1. s.candidate.turn = s.turns /\ s.turns > 0 /\ s.turns \in Nat
    BY <1>7 DEF Coherent, Snap, HostCompletionAcceptedFits
  <2>2. \A y \in t.consents : y.turn \in 1..s.turns
    BY <1>1, <1>6, <1>7, <2>1 DEF Coherent, x
  <2> QED
    BY <1>6, <1>7, <2>2 DEF Keeps, Fields, Coherent
<1> QED
  BY <1>1, <1>4, <1>5, <1>6, <1>7 DEF x, v

\* HostVerificationPrepared and HostVerificationStarted change only the pending
\* verification.
LEMMA CheckEvent ==
    ASSUME NEW s \in Snap, NEW t,
           \/ t = HostVerificationPrepared(s) /\ HostVerificationPreparedFits(s)
           \/ t = HostVerificationStarted(s) /\ HostVerificationStartedFits(s)
    PROVE  /\ t \in Snap
           /\ Keeps(s, t, {"check"})
           /\ t.check.st # "None" /\ t.check.ws = s.ws
           /\ Coherent(s) /\ ~(s.failure # None /\ s.failure.turn = s.turns) => Coherent(t)
<1>1. PICK u \in CheckState : t = [s EXCEPT !.check = u] /\ u.st # "None" /\ u.ws = s.ws
  <2>1. CASE t = HostVerificationPrepared(s) /\ HostVerificationPreparedFits(s)
    <3> DEFINE u == [st |-> "Prepared", ws |-> s.ws]
    <3>1. u \in CheckState /\ u.st # "None" /\ u.ws = s.ws
      BY DEF CheckState, Snap
    <3>2. t = [s EXCEPT !.check = u]
      BY <2>1 DEF HostVerificationPrepared
    <3> QED
      BY <3>1, <3>2
  <2>2. CASE t = HostVerificationStarted(s) /\ HostVerificationStartedFits(s)
    <3> DEFINE u == [s.check EXCEPT !.st = "InFlight"]
    <3>1. u \in CheckState /\ u.st # "None" /\ u.ws = s.ws
      BY <2>2 DEF CheckState, Snap, HostVerificationStartedFits
    <3>2. t = [s EXCEPT !.check = u]
      BY <2>2 DEF HostVerificationStarted
    <3> QED
      BY <3>1, <3>2
  <2> QED
    BY <2>1, <2>2
<1>2. t \in Snap
  BY <1>1 DEF Snap
<1>3. Keeps(s, t, {"check"}) /\ t.check = u
  BY <1>1 DEF Keeps, Fields, Snap
<1>4. ASSUME Coherent(s), ~(s.failure # None /\ s.failure.turn = s.turns) PROVE Coherent(t)
  <2>1. s.candidate # None
    BY <1>4 DEF Coherent, HostVerificationPreparedFits, HostVerificationStartedFits
  <2> QED
    BY <1>3, <1>4, <2>1 DEF Keeps, Fields, Coherent
<1> QED
  BY <1>1, <1>2, <1>3, <1>4

\* HostVerificationCommitted ends the verification, with evidence or a failure.
LEMMA VerifiedEvent ==
    ASSUME NEW s \in Snap, NEW v, NEW after \in Workspace, NEW t,
           t = HostVerificationCommitted(s, v, after), HostVerificationCommittedFits(s, after),
           Coherent(s)
    PROVE  /\ t \in Snap
           /\ Keeps(s, t, {"ws", "check", "proofs", "rejection", "failure"})
           /\ t.ws = after /\ t.check.st = "None"
           /\ s.candidate \in Candidate /\ s.candidate # None
           /\ IF Seals(s, v, after)
              THEN t.proofs = s.proofs \cup {after} /\ t.rejection = None /\ t.failure = None
              ELSE /\ t.proofs = s.proofs /\ t.rejection = s.rejection
                   /\ t.failure \in Failure /\ t.failure # None
                   /\ t.failure.turn = s.candidate.turn
           /\ Coherent(t)
<1>1. s.candidate \in Candidate /\ s.candidate # None /\ s.candidate.turn = s.turns
      /\ s.candidate.turn \in Nat /\ s.turns > 0
  BY DEF Coherent, HostVerificationCommittedFits, Snap, Candidate
<1> DEFINE u == NoCheck(after)
           p == s.proofs \cup {after}
           f == [turn |-> s.candidate.turn, ws |-> after, change |-> AsksForChange(s, v, after)]
<1>2. u \in CheckState /\ u.st = "None"
  BY DEF NoCheck, CheckState
<1>3. p \in SUBSET Workspace
  BY DEF Snap
<1>4. f \in Failure /\ f.turn = s.candidate.turn /\ f # None
  <2>1. AsksForChange(s, v, after) \in BOOLEAN
    BY DEF AsksForChange
  <2>2. f \in Failure /\ f.turn = s.candidate.turn
    BY <1>1, <2>1 DEF Failure
  <2> QED
    BY <2>2, ReducerAssumption
<1>5. CASE Seals(s, v, after)
  <2>1. t = [[s EXCEPT !.ws = after, !.check = u] EXCEPT !.proofs = p, !.rejection = None,
                                                         !.failure = None]
    <3>1. [s EXCEPT !.ws = after, !.check = u].proofs = s.proofs
      BY DEF Snap
    <3> QED
      BY <1>5, <3>1 DEF HostVerificationCommitted
  <2> HIDE DEF u, p
  <2>2. t \in Snap
    BY <1>2, <1>3, <2>1, ZenonT(60) DEF Snap
  <2>3. /\ Keeps(s, t, {"ws", "check", "proofs", "rejection", "failure"})
        /\ t.ws = after /\ t.check = u /\ t.proofs = p /\ t.rejection = None /\ t.failure = None
    BY <2>1 DEF Keeps, Fields, Snap
  <2>4. Coherent(t)
    BY <1>2, <2>3 DEF Keeps, Fields, Coherent
  <2> QED
    BY <1>1, <1>2, <1>5, <2>2, <2>3, <2>4 DEF p
<1>6. CASE ~Seals(s, v, after)
  <2>1. t = [[s EXCEPT !.ws = after, !.check = u] EXCEPT !.failure = f]
    BY <1>6 DEF HostVerificationCommitted
  <2> HIDE DEF u, f
  <2>2. t \in Snap
    BY <1>2, <1>4, <2>1 DEF Snap
  <2>3. /\ Keeps(s, t, {"ws", "check", "failure"})
        /\ t.ws = after /\ t.check = u /\ t.failure = f
    BY <2>1 DEF Keeps, Fields, Snap
  <2>4. Keeps(s, t, {"ws", "check", "proofs", "rejection", "failure"})
        /\ t.proofs = s.proofs /\ t.rejection = s.rejection
    BY <2>3 DEF Keeps, Fields
  <2>5. Coherent(t)
    BY <1>1, <1>2, <1>4, <2>3 DEF Keeps, Fields, Coherent
  <2> QED
    BY <1>1, <1>2, <1>4, <1>6, <2>2, <2>3, <2>4, <2>5
<1> QED
  BY <1>5, <1>6

\* CompletionRejected takes the candidate back.
LEMMA RejectedEvent ==
    ASSUME NEW s \in Snap, NEW t, t = CompletionRejected(s), CompletionRejectedFits(s)
    PROVE  /\ t \in Snap
           /\ Keeps(s, t, {"rejection", "candidate"})
           /\ t.candidate = None /\ t.rejection # None /\ t.rejection.turn = s.failure.turn
           /\ Coherent(s) => Coherent(t)
<1> DEFINE r == [turn |-> s.failure.turn, change |-> s.failure.change]
<1>1. s.failure \in Failure /\ s.failure.turn \in Nat
  BY DEF Snap, Failure, CompletionRejectedFits
<1>2. r \in Rejection /\ r.turn = s.failure.turn /\ r # None
  BY <1>1, ReducerAssumption DEF Failure, Rejection
<1>3. t = [s EXCEPT !.rejection = r, !.candidate = None]
  BY DEF CompletionRejected
<1> HIDE DEF r
<1>4. t \in Snap
  BY <1>2, <1>3 DEF Snap
<1>5. Keeps(s, t, {"rejection", "candidate"}) /\ t.candidate = None /\ t.rejection = r
  BY <1>3 DEF Keeps, Fields, Snap
<1>6. ASSUME Coherent(s) PROVE Coherent(t)
  <2>1. s.candidate.turn = s.turns /\ s.failure.turn = s.turns /\ s.check.st = "None"
    BY <1>6 DEF Coherent, CompletionRejectedFits
  <2> QED
    BY <1>2, <1>5, <1>6, <2>1 DEF Keeps, Fields, Coherent
<1> QED
  BY <1>2, <1>4, <1>5, <1>6

\* Steers queue up and are applied; the answer before an applied steer is not
\* current any more.
LEMMA SteerEvent ==
    ASSUME NEW s \in Snap, NEW c \in Command, NEW t,
           \/ t = SteerQueued(s, c)
           \/ t = SteerApplied(s) /\ SteerAppliedFits(s)
    PROVE  /\ t \in Snap
           /\ Keeps(s, t, {"steers", "applied", "current", "receipts"})
           /\ t.current => s.current
           /\ Coherent(s) => Coherent(t)
<1>1. CASE t = SteerQueued(s, c)
  <2> DEFINE q == Append(s.steers, c.id)
             v == s.receipts \cup {c}
  <2>1. c.id \in Names
    BY DEF Command, Names
  <2>2. q \in Seq(Names) /\ v \in SUBSET Command
    BY <2>1 DEF Snap
  <2>3. t = [s EXCEPT !.steers = q, !.receipts = v]
    BY <1>1 DEF SteerQueued
  <2> HIDE DEF q, v
  <2>4. t \in Snap
    BY <2>2, <2>3 DEF Snap
  <2>5. Keeps(s, t, {"steers", "receipts"})
    BY <2>3 DEF Keeps, Fields, Snap
  <2>6. Keeps(s, t, {"steers", "applied", "current", "receipts"}) /\ t.current = s.current
    BY <2>5 DEF Keeps, Fields
  <2>7. ASSUME Coherent(s) PROVE Coherent(t)
    BY <2>5, <2>7 DEF Keeps, Fields, Coherent
  <2> QED
    BY <2>4, <2>6, <2>7
<1>2. CASE t = SteerApplied(s) /\ SteerAppliedFits(s)
  <2> DEFINE q == Append(s.applied, Head(s.steers))
             v == Tail(s.steers)
  <2>1. s.steers \in Seq(Names) /\ s.steers # <<>> /\ s.applied \in Seq(Names)
    BY <1>2 DEF Snap, SteerAppliedFits
  <2>2. Head(s.steers) \in Names /\ v \in Seq(Names)
    BY <2>1
  <2>3. q \in Seq(Names)
    BY <2>1, <2>2
  <2>4. t = [s EXCEPT !.applied = q, !.steers = v, !.current = FALSE]
    BY <1>2 DEF SteerApplied
  <2> HIDE DEF q, v
  <2>5. t \in Snap
    BY <2>2, <2>3, <2>4 DEF Snap
  <2>6. Keeps(s, t, {"steers", "applied", "current"}) /\ t.current = FALSE
    BY <2>4 DEF Keeps, Fields, Snap
  <2>7. Keeps(s, t, {"steers", "applied", "current", "receipts"})
    BY <2>6 DEF Keeps, Fields
  <2>8. ASSUME Coherent(s) PROVE Coherent(t)
    BY <2>6, <2>8 DEF Keeps, Fields, Coherent
  <2> QED
    BY <2>5, <2>6, <2>7, <2>8
<1> QED
  BY <1>1, <1>2

\* ControlRequested records the stop.
LEMMA StopEvent ==
    ASSUME NEW s \in Snap, NEW c \in Command, c.kind \in Stops, NEW t, t = ControlRequested(s, c)
    PROVE  /\ t \in Snap
           /\ Keeps(s, t, {"control", "receipts"})
           /\ t.control = c.kind /\ t.receipts = s.receipts \cup {c}
           /\ Coherent(s) => Coherent(t)
<1>1. s.receipts \cup {c} \in SUBSET Command
  BY DEF Snap
<1>2. t \in Snap
  BY <1>1 DEF ControlRequested, Snap
<1>3. Keeps(s, t, {"control", "receipts"}) /\ t.control = c.kind /\ t.receipts = s.receipts \cup {c}
  BY DEF Keeps, Fields, Snap, ControlRequested
<1>4. ASSUME Coherent(s) PROVE Coherent(t)
  BY <1>3, <1>4 DEF Keeps, Fields, Coherent
<1> QED
  BY <1>2, <1>3, <1>4

\* Terminal records the outcome.
LEMMA TerminalEvent ==
    ASSUME NEW s \in Snap, NEW outcome \in Terminals, NEW t, t = Terminal(s, outcome)
    PROVE  /\ t \in Snap
           /\ Keeps(s, t, {"terminal"}) /\ t.terminal = outcome
           /\ Coherent(s) => Coherent(t)
<1>1. t \in Snap
  BY DEF Terminal, Snap
<1>2. Keeps(s, t, {"terminal"}) /\ t.terminal = outcome
  BY DEF Keeps, Fields, Snap, Terminal
<1>3. ASSUME Coherent(s) PROVE Coherent(t)
  BY <1>2, <1>3 DEF Keeps, Fields, Coherent
<1> QED
  BY <1>1, <1>2, <1>3

-----------------------------------------------------------------------------
(* The worker *)

\* Where the worker goes when it simply goes on.
LEMMA GoWorker ==
    ASSUME w \in WorkerType, NEW p \in PCs
    PROVE  Go(p) \in WorkerType /\ Go(p) = [w EXCEPT !.pc = p] /\ Go(p).pc = p
           /\ Go(p).replay = w.replay /\ Go(p).spare = w.spare /\ Go(p).verdict = w.verdict
           /\ Go(p).decision = w.decision
  BY DEF Go, WorkerType

\* A worker that ends its run may do so anywhere.
LEMMA EndWorker ==
    ASSUME w \in WorkerType, NEW g \in Goals
    PROVE  End(g) \in WorkerType /\ End(g).pc = "final" /\ End(g).goal = g
           /\ End(g).replay = w.replay /\ End(g).spare = w.spare
           /\ End(g).decision = w.decision
  BY DEF End, WorkerType, PCs

\* A worker may end its run wherever it stands.
LEMMA EndSound ==
    ASSUME NEW s, Sound(s, w), NEW g \in Goals
    PROVE  Sound(s, End(g))
<1>1. w \in WorkerType
  BY DEF Sound
<1>2. End(g) \in WorkerType /\ End(g).pc = "final" /\ End(g).goal = g
      /\ End(g).replay = w.replay /\ End(g).spare = w.spare
  BY <1>1, EndWorker
<1> QED
  BY <1>2 DEF Sound, Placed, Requesting, Acting, Reviewing

\* A worker that works on an answer may go on working on it, or settle the call.
LEMMA OutcomeWorker ==
    ASSUME w \in WorkerType, NEW op \in Operations,
           NEW effect \in {"Applied", "NotApplied", "NotApplicable", "Indeterminate"},
           NEW after \in Terminals \cup {None}
    PROVE  Outcome(op, effect, after) \in WorkerType
           /\ Outcome(op, effect, after).pc = "settle"
           /\ Outcome(op, effect, after).replay = w.replay
           /\ Outcome(op, effect, after).spare = w.spare
<1>1. [op |-> op, effect |-> effect] \in ToolOutcome /\ "settle" \in PCs
  BY DEF ToolOutcome, PCs
<1> QED
  BY <1>1 DEF Outcome, WorkerType

\* A worker that works on an answer may settle the pending call.
LEMMA OutcomeSound ==
    ASSUME NEW s, Sound(s, w), w.pc \in Acting, NEW op \in Operations,
           NEW effect \in {"Applied", "NotApplied", "NotApplicable", "Indeterminate"},
           NEW after \in Terminals \cup {None}
    PROVE  Sound(s, Outcome(op, effect, after))
<1>1. w \in WorkerType
  BY DEF Sound
<1> DEFINE v == Outcome(op, effect, after)
<1>2. v \in WorkerType /\ v.pc = "settle" /\ v.replay = w.replay /\ v.spare = w.spare
  BY <1>1, OutcomeWorker
<1> HIDE DEF v
<1>3. "settle" \in Acting /\ "settle" \notin Reviewing
      /\ Acting \cap {"boot", "reject", "final", "down", "done"} = {}
  BY DEF Acting, Reviewing
<1>4. Sound(s, v)
  BY <1>2, <1>3 DEF Sound, Placed
<1> QED
  BY <1>4 DEF v

\* It may go on to another step of working on the answer.
LEMMA GoSound ==
    ASSUME NEW s, Sound(s, w), NEW p \in Acting \ {"act"}, w.pc \in Acting
    PROVE  Sound(s, Go(p))
<1>1. w \in WorkerType /\ p \in PCs
  BY DEF Sound, Acting, PCs
<1>2. Go(p) \in WorkerType /\ Go(p).pc = p /\ Go(p).replay = w.replay /\ Go(p).spare = w.spare
  BY <1>1, GoWorker
<1>3. p \notin Reviewing \cup {"final"} /\ w.pc \notin {"boot", "reject", "final", "down", "done"}
  BY DEF Acting, Reviewing
<1> QED
  BY <1>2, <1>3 DEF Sound, Placed

\* A worker that decides on a completion may go on deciding on it.
LEMMA ReviewSound ==
    ASSUME NEW s, Sound(s, w), NEW p \in Reviewing, w.pc \in Reviewing,
           s.failure = None \/ s.failure.turn # s.candidate.turn \/ p = "reject"
    PROVE  Sound(s, Go(p))
<1>1. w \in WorkerType /\ p \in PCs
  BY DEF Sound, Reviewing, PCs
<1>2. Go(p) \in WorkerType /\ Go(p).pc = p /\ Go(p).replay = w.replay /\ Go(p).spare = w.spare
  BY <1>1, GoWorker
<1>3. p \notin Requesting \cup Acting /\ p \notin {"act", "final"}
  BY DEF Requesting, Acting, Reviewing
<1> QED
  BY <1>2, <1>3 DEF Sound, Placed

\* Counting keeps a function of counters one.
LEMMA CountType ==
    ASSUME NEW S, NEW f \in [S -> Nat], NEW i
    PROVE  /\ Count(f, i) \in [S -> Nat]
           /\ \A j \in S : Count(f, i)[j] = IF j = i THEN f[j] + 1 ELSE f[j]
<1>1. CASE i \in S
  <2>1. f[i] + 1 \in Nat
    BY <1>1
  <2> QED
    BY <1>1, <2>1 DEF Count
<1>2. CASE i \notin S
  <2>1. Count(f, i) = f
    BY <1>2 DEF Count
  <2> QED
    BY <1>2, <2>1
<1> QED
  BY <1>1, <1>2

\* A step of the worker alone.
LEMMA QuietStep ==
    ASSUME LoopInv, quiet, Sound(snap', w')
    PROVE  LoopInv'
  BY DEF LoopInv, World, quiet, env_same

\* An observed workspace state has its type.
LEMMA NextWorkspaceType ==
    ASSUME NEW s \in Snap, NEW rev \in Revisions \cup {Unknown}, NEW force \in BOOLEAN
    PROVE  NextWorkspace(s, rev, force) \in Workspace
           /\ NextWorkspace(s, rev, force).rev = rev
           /\ NextWorkspace(s, rev, force).gen \in {s.ws.gen, s.ws.gen + 1}
           /\ force => NextWorkspace(s, rev, force).gen = s.ws.gen + 1
<1>1. s.ws.gen \in Nat
  BY DEF Snap, Workspace
<1> QED
  BY <1>1 DEF NextWorkspace, Workspace

\* What observe_workspace_revision may return.
LEMMA ObservedType ==
    ASSUME LoopInv, NEW rev \in Observed
    PROVE  rev \in Revisions \cup {Unknown}
  BY DEF LoopInv, World, Observed

\* reconcile_workspace lets the worker go where it could go anyway.
LEMMA ReconcileSound ==
    ASSUME LoopInv, NEW v, NEW e, Sound(snap, v), Sound(snap, e), Reconcile(v, e)
    PROVE  Sound(snap', w')
<1>1. PICK rev \in Observed :
        LET ws == NextWorkspace(snap, rev, FALSE)
        IN  \/ snap' = snap /\ w' = v
            \/ snap' = WorkspaceObserved(snap, ws) /\ w' = v
            \/ snap' = snap /\ w' = e
  BY DEF Reconcile, PublishOr
<1>2. snap \in Snap /\ Coherent(snap)
  BY DEF LoopInv, Sound
<1>3. NextWorkspace(snap, rev, FALSE) \in Workspace
  <2>1. rev \in Revisions \cup {Unknown} /\ snap.ws.gen \in Nat
    BY <1>2, ObservedType DEF Snap, Workspace
  <2> QED
    BY <2>1 DEF NextWorkspace, Workspace
<1>4. CASE snap' = WorkspaceObserved(snap, NextWorkspace(snap, rev, FALSE)) /\ w' = v
  <2>1. snap' \in Snap /\ Coherent(snap') /\ Keeps(snap, snap', {"ws"})
    BY <1>2, <1>3, <1>4, ObservedEvent
  <2> QED
    BY <1>4, <2>1 DEF Sound, Placed, Keeps, Fields
<1> QED
  BY <1>1, <1>4

-----------------------------------------------------------------------------
(* The steps of the worker *)

\* After a restart the worker goes where the snapshot sends it.
LEMMA RecoverStep ==
    ASSUME LoopInv, Recover \/ RecoveredControls
    PROVE  LoopInv'
<1>1. snap \in Snap /\ w \in WorkerType /\ Coherent(snap) /\ Sound(snap, w)
  BY DEF LoopInv, Sound
<1>2. \A g \in Goals : Sound(snap, End(g))
  BY <1>1, EndSound
<1>3. {"RecoveryRequired", "Failed", "Blocked", "Awaiting"} \subseteq Goals
      /\ (snap.control # None => TerminalFor(snap.control) \in Goals)
  BY DEF Goals, Terminals, TerminalFor
<1>4. CASE Recover
  <2>1. snap' = snap /\ quiet
    BY <1>4 DEF Recover
  <2>2. CASE w' = Go("reject") /\ snap.candidate # None
    <3>1. "reject" \in PCs /\ "reject" \notin Requesting \cup Acting
      BY DEF PCs, Requesting, Acting
    <3>2. w' \in WorkerType /\ w'.pc = "reject" /\ w'.replay = w.replay /\ w'.spare = w.spare
      BY <1>1, <2>2, <3>1, GoWorker
    <3> QED
      BY <1>1, <2>1, <2>2, <3>1, <3>2, QuietStep DEF Sound, Placed, Coherent
  <2>3. CASE /\ w' = Go("bootDrain") \/ w' = Go("review")
             /\ snap.candidate # None /\ ~RejectionMissing
    <3>1. /\ {"bootDrain", "review"} \subseteq PCs
          /\ {"bootDrain", "review"} \cap (Requesting \cup Acting) = {}
      BY DEF PCs, Requesting, Acting
    <3>2. w' \in WorkerType /\ w'.pc \in {"bootDrain", "review"} /\ w'.replay = w.replay
          /\ w'.spare = w.spare
      BY <1>1, <2>3, <3>1, GoWorker
    <3> QED
      BY <1>1, <2>1, <2>3, <3>1, <3>2, QuietStep DEF Sound, Placed, Coherent, RejectionMissing
  <2>4. CASE /\ w' = Go("loop") \/ w' = [Go("loop") EXCEPT !.replay = FALSE]
             /\ snap.candidate = None
    <3>1. "loop" \in PCs /\ "loop" \notin Requesting \cup Acting \cup Reviewing
      BY DEF PCs, Requesting, Acting, Reviewing
    <3>2. Go("loop") \in WorkerType /\ Go("loop").pc = "loop" /\ Go("loop").replay = w.replay
          /\ Go("loop").spare = w.spare
      BY <1>1, <3>1, GoWorker
    <3>3. w' \in WorkerType /\ w'.pc = "loop" /\ (w'.replay => w.replay) /\ w'.spare = w.spare
      BY <2>4, <3>2 DEF WorkerType
    <3> QED
      BY <1>1, <2>1, <2>4, <3>1, <3>3, QuietStep DEF Sound, Placed
  <2>5. CASE \E g \in Goals : w' = End(g)
    BY <1>2, <2>1, <2>5, QuietStep
  <2> QED
    BY <1>3, <1>4, <2>2, <2>3, <2>4, <2>5 DEF Recover, AfterRejection
<1>5. CASE RecoveredControls
  <2>1. snap' = snap /\ quiet /\ w.pc = "bootDrain"
    BY <1>5 DEF RecoveredControls, at
  <2>2. CASE CurrentConsent /\ w' = Go("review")
    <3>1. snap.candidate # None
      BY <1>1, <2>2, ReducerAssumption DEF CurrentConsent, Snap
    <3>2. "review" \in PCs /\ "review" \notin Requesting \cup Acting
      BY DEF PCs, Requesting, Acting
    <3>3. w' \in WorkerType /\ w'.pc = "review" /\ w'.replay = w.replay /\ w'.spare = w.spare
      BY <1>1, <2>2, <3>2, GoWorker
    <3> QED
      BY <1>1, <2>1, <3>1, <3>2, <3>3, QuietStep DEF Sound, Placed, Coherent
  <2> QED
    BY <1>2, <1>3, <1>5, <2>1, <2>2, QuietStep DEF RecoveredControls
<1> QED
  BY <1>4, <1>5

\* A worker that neither acts nor reviews may go on to the head of the loop and
\* to the next turn.
LEMMA HeadStep ==
    ASSUME LoopInv, \/ ControlsDrained \/ ReconcileAtBoundary \/ SteersFlushed
                    \/ BeginTurn \/ ContextLimitExceeded \/ RetryDelayOver \/ AnswerDiffers
    PROVE  LoopInv'
<1>1. snap \in Snap /\ w \in WorkerType /\ Coherent(snap) /\ Sound(snap, w)
  BY DEF LoopInv, Sound
<1>2. Sound(snap, End("Failed"))
  BY <1>1, EndSound DEF Goals, Terminals
<1>3. ASSUME NEW p \in {"loop", "edge", "turn"}, w.pc \in {"loop", "edge", "flush"}
      PROVE  Sound(snap, Go(p))
  <2>1. p \in PCs /\ p \notin Requesting \cup Acting \cup Reviewing
    BY DEF PCs, Requesting, Acting, Reviewing
  <2>2. Go(p) \in WorkerType /\ Go(p).pc = p /\ Go(p).replay = w.replay /\ Go(p).spare = w.spare
    BY <1>1, <2>1, GoWorker
  <2> QED
    BY <1>1, <1>3, <2>1, <2>2 DEF Sound, Placed
<1>4. ASSUME NEW p \in {"prepare", "backoff", "send"}, w.pc \in {"turn", "backoff"}, ~w.replay
      PROVE  Sound(snap, Go(p))
  <2>1. p \in PCs /\ p \notin Acting \cup Reviewing
    BY DEF PCs, Acting, Reviewing
  <2>2. Go(p) \in WorkerType /\ Go(p).pc = p /\ Go(p).replay = w.replay /\ Go(p).spare = w.spare
    BY <1>1, <2>1, GoWorker
  <2> QED
    BY <1>1, <1>4, <2>1, <2>2 DEF Sound, Placed
<1>5. CASE ControlsDrained
  BY <1>2, <1>3, <1>5, QuietStep DEF ControlsDrained, at
<1>6. CASE ReconcileAtBoundary
  <2>1. Sound(snap, Go("turn")) /\ quiet
    BY <1>3, <1>6 DEF ReconcileAtBoundary, at
  <2>2. (snap' = snap /\ w' = Go("turn")) \/ Reconcile(Go("turn"), End("Failed"))
    BY <1>6 DEF ReconcileAtBoundary
  <2>3. Sound(snap', w')
    BY <1>2, <2>1, <2>2, ReconcileSound
  <2> QED
    BY <2>1, <2>3, QuietStep
<1>7. CASE SteersFlushed
  BY <1>3, <1>7, QuietStep DEF SteersFlushed, at
<1>8. CASE BeginTurn
  <2>1. snap' = snap /\ quiet /\ w.pc = "turn"
    BY <1>8 DEF BeginTurn, at
  <2>2. CASE w.replay
    <3>1. w' = [Go("act") EXCEPT !.replay = FALSE]
      BY <1>8, <2>2 DEF BeginTurn, ReplayAnswer
    <3>2. "act" \in PCs /\ "act" \notin Reviewing
      BY DEF PCs, Reviewing
    <3>3. Go("act") \in WorkerType /\ Go("act").pc = "act" /\ Go("act").spare = w.spare
      BY <1>1, <3>2, GoWorker
    <3>4. w' \in WorkerType /\ w'.pc = "act" /\ w'.replay = FALSE /\ w'.spare = w.spare
      BY <3>1, <3>3 DEF WorkerType
    <3>5. Sound(snap, w')
      BY <1>1, <2>1, <2>2, <3>2, <3>4 DEF Sound, Placed
    <3> QED
      BY <2>1, <3>5, QuietStep
  <2>3. CASE ~w.replay
    <3>1. w' \in {Go("prepare"), Go("backoff"), Go("send")}
      BY <1>8, <2>3 DEF BeginTurn
    <3> QED
      BY <1>4, <2>1, <2>3, <3>1, QuietStep
  <2> QED
    BY <2>2, <2>3
<1>9. CASE ContextLimitExceeded \/ AnswerDiffers
  BY <1>2, <1>9, QuietStep DEF ContextLimitExceeded, AnswerDiffers
<1>10. CASE RetryDelayOver
  <2>1. snap' = snap /\ quiet /\ w.pc = "backoff" /\ w' = Go("send")
    BY <1>10 DEF RetryDelayOver, at
  <2>2. ~w.replay
    BY <1>1, <2>1 DEF Sound, Placed, Requesting
  <2> QED
    BY <1>4, <2>1, <2>2, QuietStep
<1> QED
  BY <1>5, <1>6, <1>7, <1>8, <1>9, <1>10

\* Compaction, the preparation of a request and its attempts.
LEMMA RequestStep ==
    ASSUME LoopInv, \/ CompactContext \/ PrepareModelRequest \/ SendModelRequest \/ Answer
                    \/ AttemptFails
    PROVE  LoopInv'
<1>1. snap \in Snap /\ w \in WorkerType /\ Coherent(snap) /\ Sound(snap, w)
  BY DEF LoopInv, Sound
<1>2. Sound(snap, End("Failed"))
  BY <1>1, EndSound DEF Goals, Terminals
<1>3. ASSUME NEW p \in {"compacted", "send", "stream", "backoff", "act"}
      PROVE  Go(p) \in WorkerType /\ Go(p).pc = p /\ Go(p).replay = w.replay
             /\ Go(p).spare = w.spare
  <2>1. p \in PCs
    BY DEF PCs
  <2> QED
    BY <1>1, <2>1, GoWorker
<1>4. /\ {"compacted", "send", "stream", "backoff"} \subseteq Requesting
      /\ "act" \in Acting /\ "act" \notin Reviewing
      /\ Requesting \cap (Acting \cup Reviewing \cup {"boot", "reject", "final", "down", "done"}) = {}
  BY DEF Requesting, Acting, Reviewing
<1>5. MaxRequests \in Nat /\ snap.requests \in Nat
  BY <1>1, LoopAssumption DEF Snap
<1>6. CASE CompactContext
  <2>1. quiet /\ w.pc = "prepare" /\ snap' = snap /\ w' \in {Go("compacted"), End("Failed")}
    BY <1>6 DEF CompactContext, Publish, PublishOr, at
  <2>2. Sound(snap, Go("compacted"))
    BY <1>1, <1>3, <1>4, <2>1 DEF Sound, Placed, Requesting
  <2> QED
    BY <1>2, <2>1, <2>2, QuietStep
<1>7. CASE PrepareModelRequest
  <2>1. quiet /\ w.pc \in {"prepare", "compacted"}
    BY <1>7 DEF PrepareModelRequest
  <2>2. CASE snap' = snap /\ w' = End("Failed")
    BY <1>2, <2>1, <2>2, QuietStep
  <2>3. CASE /\ ModelRequestPreparedFits(snap)
             /\ snap' = ModelRequestPrepared(snap, ~TerminalTurn)
             /\ w' = [Go("send") EXCEPT !.spare = @ /\ ~TerminalTurn]
             /\ ~(TerminalTurn /\ ~w.spare)
    <3>1. (~TerminalTurn) \in BOOLEAN /\ w.spare \in BOOLEAN
      BY <1>1 DEF WorkerType
    <3>2. /\ snap' \in Snap /\ Coherent(snap')
          /\ Keeps(snap, snap', {"turns", "requests", "current", "stopped", "model"})
          /\ snap'.requests = snap.requests + 1
      BY <1>1, <2>3, <3>1, PreparedEvent
    <3>3. PICK b \in BOOLEAN : b = (w.spare /\ ~TerminalTurn)
      BY Zenon
    <3>8. /\ w' \in WorkerType /\ w'.pc = "send" /\ w'.replay = w.replay /\ w'.spare = b
      <4>1. w' = [Go("send") EXCEPT !.spare = b]
        BY <1>3, <2>3, <3>3, Zenon
      <4> QED
        BY <1>3, <4>1 DEF WorkerType
    <3>4. ~w.replay
      BY <1>1, <2>1 DEF Sound, Placed, Requesting
    <3>5. snap'.requests + (IF w'.spare THEN 1 ELSE 0) <= MaxRequests
      <4>1. CASE TerminalTurn
        <5>1. w.spare /\ b = FALSE
          BY <2>3, <3>3, <4>1
        <5> QED
          BY <1>1, <1>5, <3>2, <3>8, <5>1 DEF Sound, Placed
      <4>2. CASE ~TerminalTurn
        <5>1. b = w.spare
          BY <3>1, <3>3, <4>2
        <5> QED
          BY <1>5, <3>2, <3>8, <4>2, <5>1 DEF TerminalTurn, HasUnreserved, Granted
      <4> QED
        BY <4>1, <4>2
    <3>6. snap.candidate = None /\ snap'.candidate = None /\ snap'.calls = snap.calls
      BY <2>3, <3>2 DEF ModelRequestPreparedFits, AtBoundary, Keeps, Fields
    <3>7. Sound(snap', w')
      BY <1>1, <1>4, <3>2, <3>4, <3>5, <3>6, <3>8 DEF Sound, Placed
    <3> QED
      BY <2>1, <3>7, QuietStep
  <2> QED
    BY <1>7, <2>2, <2>3 DEF PrepareModelRequest, Publish, PublishOr
<1>8. CASE SendModelRequest
  <2>1. w.pc = "send" /\ env_same /\ acked' = acked
    BY <1>8 DEF SendModelRequest, at
  <2>2. Sound(snap', w')
    <3>1. CASE snap' = snap /\ w' = End("Failed")
      BY <1>2, <3>1
    <3>2. CASE ModelRequestInFlightFits(snap) /\ snap' = ModelRequestInFlight(snap)
               /\ w' = Go("stream")
      <4>1. snap' \in Snap /\ Coherent(snap') /\ Keeps(snap, snap', {"model"})
        BY <1>1, <3>2, InFlightEvent
      <4> QED
        BY <1>1, <1>3, <1>4, <2>1, <3>2, <4>1 DEF Sound, Placed, Keeps, Fields
    <3> QED
      BY <1>8, <3>1, <3>2 DEF SendModelRequest, Publish, PublishOr
  <2>3. did' \in Did
    <3>1. did \in Did
      BY DEF LoopInv, World
    <3>2. Count(did.sent, snap.requests) \in [1..MaxRequests -> Nat]
      BY <3>1, CountType DEF Did
    <3>3. did' = did \/ did' = [did EXCEPT !.sent = Count(did.sent, snap.requests)]
      BY <1>8 DEF SendModelRequest
    <3> QED
      BY <3>1, <3>2, <3>3 DEF Did
  <2> QED
    BY <2>1, <2>2, <2>3 DEF LoopInv, World, env_same
<1>9. CASE Answer
  <2>1. PICK kind \in {"Stop", "Blank", "Calls", "Invalid"}, calls \in CallLists \cup {<<>>} :
          /\ w.pc = "stream" /\ quiet
          /\ \/ snap' = snap /\ w' = End("Failed")
             \/ /\ ModelResponseCommittedFits(snap)
                /\ snap' = ModelResponseCommitted(snap, kind, calls)
                /\ w' = Go("act")
    BY <1>9 DEF Answer, Publish, PublishOr, at
  <2>2. CASE ModelResponseCommittedFits(snap) /\ w' = Go("act")
             /\ snap' = ModelResponseCommitted(snap, kind, calls)
    <3>1. calls \in Seq(CallKinds)
      <4>1. <<>> \in Seq(CallKinds)
        OBVIOUS
      <4> QED
        BY <4>1, LoopAssumption
    <3>2. /\ snap' \in Snap /\ Coherent(snap') /\ snap'.model.st = "None"
          /\ Keeps(snap, snap', {"model", "output", "current", "settled"})
          /\ snap'.output.kind # "None"
      BY <1>1, <2>2, <3>1, ResponseEvent, ZenonT(60)
    <3>3. ~w.replay /\ snap.candidate = None
      BY <1>1, <2>1, <2>2 DEF Sound, Placed, Requesting, Coherent, ModelResponseCommittedFits
    <3>4. Sound(snap', w')
      BY <1>1, <1>3, <1>4, <2>2, <3>2, <3>3 DEF Sound, Placed, Keeps, Fields
    <3> QED
      BY <2>1, <3>4, QuietStep
  <2> QED
    BY <1>2, <2>1, <2>2, QuietStep
<1>10. CASE AttemptFails
  <2>1. PICK f \in [code : Codes, retryable : BOOLEAN] :
          /\ w.pc = "stream" /\ quiet
          /\ \/ snap' = snap /\ w' = End("Failed")
             \/ /\ ModelRequestFailedFits(snap, f, Retries(f))
                /\ snap' = ModelRequestFailed(snap, f, Retries(f))
                /\ w' = IF Retries(f) THEN Go("backoff") ELSE End("Failed")
    BY <1>10 DEF AttemptFails, Publish, PublishOr, at
  <2>2. CASE /\ ModelRequestFailedFits(snap, f, Retries(f))
             /\ snap' = ModelRequestFailed(snap, f, Retries(f))
             /\ w' = IF Retries(f) THEN Go("backoff") ELSE End("Failed")
    <3>1. ~w.replay /\ snap.candidate = None
      BY <1>1, <2>1, <2>2 DEF Sound, Placed, Requesting, Coherent, ModelRequestFailedFits
    <3>2. CASE Retries(f)
      <4>1. /\ w' = Go("backoff") /\ snap' = Retried(snap, f)
            /\ snap.model.st = "InFlight" /\ ~MustStop(snap, f)
        BY <2>2, <3>2 DEF ModelRequestFailed, ModelRequestFailedFits
      <4>2. /\ snap' \in Snap /\ Coherent(snap')
            /\ Keeps(snap, snap', {"requests", "current", "model"})
            /\ snap'.requests = snap.requests + 1
        BY <1>1, <4>1, RetriedEvent
      <4>3. snap'.requests + (IF w.spare THEN 1 ELSE 0) <= MaxRequests
        BY <1>5, <3>2, <4>2 DEF Retries, HasUnreserved, Granted
      <4>4. Sound(snap', w')
        BY <1>1, <1>3, <1>4, <3>1, <4>1, <4>2, <4>3 DEF Sound, Placed, Keeps, Fields
      <4> QED
        BY <2>1, <4>4, QuietStep
    <3>3. CASE ~Retries(f)
      <4>1. w' = End("Failed") /\ snap' = GivenUp(snap) /\ "Failed" \in Goals
        BY <2>2, <3>3 DEF ModelRequestFailed, Goals, Terminals
      <4>2. /\ snap' \in Snap /\ Coherent(snap') /\ snap'.model.st = "None"
            /\ Keeps(snap, snap', {"current", "stopped", "model"})
        BY <1>1, <4>1, GivenUpEvent
      <4>3. w' \in WorkerType /\ w'.pc = "final" /\ w'.replay = w.replay /\ w'.spare = w.spare
            /\ w'.goal \in Goals
        BY <1>1, <4>1, EndWorker
      <4>4. "final" \notin Requesting \cup Acting \cup Reviewing
        BY DEF Requesting, Acting, Reviewing
      <4>5. Sound(snap', w')
        BY <1>1, <3>1, <4>2, <4>3, <4>4 DEF Sound, Placed, Keeps, Fields
      <4> QED
        BY <2>1, <4>5, QuietStep
    <3> QED
      BY <3>2, <3>3
  <2> QED
    BY <1>2, <2>1, <2>2, QuietStep
<1> QED
  BY <1>6, <1>7, <1>8, <1>9, <1>10

\* What the worker does with an answer, up to the proposal of a completion.
LEMMA AnswerStep ==
    ASSUME LoopInv, \/ ApplySteer \/ ActOnAnswer \/ ReconcileBeforeProposal
                    \/ ProposeCompletion
    PROVE  LoopInv'
<1>1. snap \in Snap /\ w \in WorkerType /\ Coherent(snap) /\ Sound(snap, w)
  BY DEF LoopInv, Sound
<1>2. Sound(snap, End("Failed")) /\ Sound(snap, End("Awaiting"))
  BY <1>1, EndSound DEF Goals, Terminals
<1>3. {"act", "call", "flush", "sync", "propose"} \subseteq Acting
  BY DEF Acting
<1>4. ASSUME NEW p \in Acting \ {"act"}, w.pc \in Acting PROVE Sound(snap, Go(p))
  BY <1>1, <1>4, GoSound
<1>5. CASE ApplySteer
  <2>1. quiet /\ w.pc \in {"edge", "flush"}
    BY <1>5 DEF ApplySteer, at
  <2>2. CASE SteerAppliedFits(snap) /\ snap' = SteerApplied(snap) /\ w' = w
    <3>1. \E c : c \in Command
      <4>1. snap.steers \in Seq(Names) /\ snap.steers # <<>>
        BY <1>1, <2>2 DEF Snap, SteerAppliedFits
      <4>2. Head(snap.steers) \in Names
        BY <4>1
      <4>3. Acceptances # {} \/ Commands # {}
        BY <4>2 DEF Names
      <4> QED
        <5>1. CASE Commands # {}
          BY <5>1 DEF Command
        <5>2. CASE Acceptances # {}
          <6>1. PICK id \in Acceptances : TRUE
            BY <5>2
          <6>2. [turn |-> 0, ws |-> snap.ws] \in Candidate
            BY <1>1 DEF Snap, Candidate
          <6>3. [id |-> id, kind |-> "Accept", candidate |-> [turn |-> 0, ws |-> snap.ws]]
                \in Command
            BY <6>1, <6>2 DEF Command
          <6> QED
            BY <6>3
        <5> QED
          BY <4>3, <5>1, <5>2
    <3>2. snap' \in Snap /\ Coherent(snap')
          /\ Keeps(snap, snap', {"steers", "applied", "current", "receipts"})
      BY <1>1, <2>2, <3>1, SteerEvent
    <3>3. Sound(snap', w')
      BY <1>1, <2>2, <3>2 DEF Sound, Placed, Keeps, Fields
    <3> QED
      BY <2>1, <3>3, QuietStep
  <2> QED
    BY <1>2, <1>5, <2>1, <2>2, QuietStep DEF ApplySteer, Publish, PublishOr
<1>6. CASE ActOnAnswer
  <2>1. snap' = snap /\ quiet /\ w.pc = "act"
    BY <1>6 DEF ActOnAnswer, at
  <2>2. snap.output.kind \in {"Stop", "Blank", "Calls", "Invalid"}
    BY <1>1, <2>1 DEF Sound, Placed, Snap, Output
  <2> QED
    BY <1>2, <1>3, <1>4, <1>6, <2>1, <2>2, QuietStep DEF ActOnAnswer
<1>7. CASE ReconcileBeforeProposal
  <2>1. quiet /\ w.pc = "sync" /\ Reconcile(Go("propose"), End("Failed"))
    BY <1>7 DEF ReconcileBeforeProposal, at
  <2>2. Sound(snap', w')
    BY <1>2, <1>3, <1>4, <2>1, ReconcileSound
  <2> QED
    BY <2>1, <2>2, QuietStep
<1>8. CASE ProposeCompletion
  <2> DEFINE cand == [turn |-> snap.turns, ws |-> snap.ws]
  <2>1. quiet /\ w.pc = "propose"
    BY <1>8 DEF ProposeCompletion, at
  <2>2. CASE CompletionProposedFits(snap, cand) /\ snap' = CompletionProposed(snap, cand)
             /\ w' = IF "Host" \in Contract THEN End("Awaiting") ELSE Go("review")
    <3>1. /\ snap' \in Snap /\ Keeps(snap, snap', {"candidate"}) /\ snap'.candidate # None
          /\ Coherent(snap') /\ ~(snap.failure # None /\ snap.failure.turn = snap.turns)
          /\ snap'.candidate.turn = snap.turns
      BY <1>1, <2>2, ProposedEvent
    <3>2. {"Awaiting"} \subseteq Goals /\ "review" \in PCs
      BY DEF Goals, PCs
    <3>3. /\ w' \in WorkerType /\ w'.pc \in {"final", "review"}
          /\ w'.replay = w.replay /\ w'.spare = w.spare /\ (w'.pc = "final" => w'.goal \in Goals)
      BY <1>1, <2>2, <3>2, GoWorker, EndWorker
    <3>4. {"final", "review"} \cap (Requesting \cup Acting) = {}
      BY DEF Requesting, Acting
    <3>5. snap.model.st = "None"
      BY <2>2 DEF CompletionProposedFits
    <3>6. Sound(snap', w')
      BY <1>1, <3>1, <3>3, <3>4, <3>5 DEF Sound, Placed, Keeps, Fields
    <3> QED
      BY <2>1, <3>6, QuietStep
  <2> QED
    BY <1>2, <1>8, <2>1, <2>2, QuietStep DEF ProposeCompletion, Publish, PublishOr
<1> QED
  BY <1>5, <1>6, <1>7, <1>8

\* The gates of a tool call: budget, policy, authorization, the user, staleness.
LEMMA GateStep ==
    ASSUME LoopInv, \/ NextCall \/ RejectCall \/ Authorize \/ ActOnAuthorization \/ AskQuestion
                    \/ RequestInteraction \/ RecheckRevision
    PROVE  LoopInv'
<1>1. snap \in Snap /\ w \in WorkerType /\ Coherent(snap) /\ Sound(snap, w)
  BY DEF LoopInv, Sound
<1>2. Sound(snap, End("Failed"))
  BY <1>1, EndSound DEF Goals, Terminals
<1>3. /\ {"call", "gate", "authorized", "ask", "wait", "recheck", "start", "flush"} \subseteq Acting
      /\ Acting \cap {"boot", "reject", "final", "down", "done"} = {}
  BY DEF Acting
<1>4. ASSUME NEW p \in Acting \ {"act"}, w.pc \in Acting PROVE Sound(snap, Go(p))
  BY <1>1, <1>4, GoSound
<1>5. ASSUME w.pc \in Acting
      PROVE  /\ Sound(snap, Rejected) /\ Sound(snap, Outcome("Stale", "NotApplied", None))
             /\ Sound(snap, Outcome("Finished", "NotApplied", None))
  BY <1>1, <1>5, OutcomeSound DEF Operations, Rejected
<1>6. ASSUME w.pc \in Acting, NEW p \in Acting \ {"act"}, w' = Go(p), snap' \in Snap, Coherent(snap'),
             Keeps(snap, snap', {"calls", "tool"}), snap'.calls <= MaxCalls
      PROVE  Sound(snap', w')
  <2>1. Sound(snap, w')
    BY <1>4, <1>6
  <2> QED
    BY <1>6, <2>1 DEF Sound, Placed, Keeps, Fields
<1>7. CASE NextCall
  <2>1. quiet /\ w.pc = "call"
    BY <1>7 DEF NextCall, at
  <2>2. CASE snap' = snap /\ w' \in {Go("flush"), Go("gate"), End("Failed")}
    BY <1>2, <1>3, <1>4, <2>1, <2>2, QuietStep
  <2>3. CASE ~CallsSpent /\ ToolPreparedFits(snap) /\ snap' = ToolPrepared(snap)
             /\ w' = Go("gate")
    <3>1. snap.model.st = "None"
      BY <1>1, <1>3, <2>1 DEF Sound, Placed
    <3>2. snap' \in Snap /\ Coherent(snap') /\ Keeps(snap, snap', {"calls", "tool"})
          /\ snap'.calls = snap.calls + 1
      BY <1>1, <2>3, <3>1, ToolPreparedEvent
    <3>3. snap'.calls <= MaxCalls
      <4>1. snap.calls \in Nat /\ MaxCalls \in Nat
        BY <1>1, LoopAssumption DEF Snap
      <4> QED
        BY <2>3, <3>2, <4>1 DEF CallsSpent
    <3> QED
      BY <1>3, <1>6, <2>1, <2>3, <3>2, <3>3, QuietStep
  <2> QED
    BY <1>7, <2>2, <2>3 DEF NextCall, Publish, PublishOr
<1>8. CASE RejectCall
  BY <1>3, <1>5, <1>8, QuietStep DEF RejectCall, at
<1>9. CASE Authorize
  <2>1. quiet /\ w.pc = "gate"
    BY <1>9 DEF Authorize, at
  <2>2. CASE snap' = snap /\ w' \in {Go("authorized"), End("Failed")}
    BY <1>2, <1>3, <1>4, <2>1, <2>2, QuietStep
  <2>3. ASSUME NEW disposition \in {"Allow", "Ask", "Deny"}, ToolAuthorizationCommittedFits(snap),
               snap' = ToolAuthorizationCommitted(snap, disposition), w' = Go("authorized")
        PROVE  LoopInv'
    <3>1. snap' \in Snap /\ Coherent(snap') /\ Keeps(snap, snap', {"tool"})
      BY <1>1, <2>3, CallEvent
    <3>2. Keeps(snap, snap', {"calls", "tool"}) /\ snap'.calls <= MaxCalls
      BY <1>1, <3>1 DEF Keeps, Fields, Sound, Placed
    <3> QED
      BY <1>3, <1>6, <2>1, <2>3, <3>1, <3>2, QuietStep
  <2> QED
    BY <1>9, <2>2, <2>3 DEF Authorize, Publish, PublishOr
<1>10. CASE ActOnAuthorization
  BY <1>3, <1>4, <1>5, <1>10, QuietStep DEF ActOnAuthorization, at
<1>11. CASE AskQuestion
  BY <1>3, <1>4, <1>5, <1>11, QuietStep DEF AskQuestion, at
<1>12. CASE RequestInteraction
  <2>1. quiet /\ w.pc = "ask"
    BY <1>12 DEF RequestInteraction, at
  <2>2. CASE snap' = snap /\ w' \in {Go("wait"), Replied(snap.tool.talk), End("Failed")}
    <3>1. Sound(snap, Replied(snap.tool.talk))
      BY <1>3, <1>4, <1>5, <2>1 DEF Replied
    <3> QED
      BY <1>2, <1>3, <1>4, <2>1, <2>2, <3>1, QuietStep
  <2>3. CASE InteractionRequestedFits(snap) /\ snap' = InteractionRequested(snap)
             /\ w' = Go("wait")
    <3>1. snap' \in Snap /\ Coherent(snap') /\ Keeps(snap, snap', {"tool"})
      BY <1>1, <2>3, CallEvent
    <3>2. Keeps(snap, snap', {"calls", "tool"}) /\ snap'.calls <= MaxCalls
      BY <1>1, <3>1 DEF Keeps, Fields, Sound, Placed
    <3> QED
      BY <1>3, <1>6, <2>1, <2>3, <3>1, <3>2, QuietStep
  <2> QED
    BY <1>12, <2>2, <2>3 DEF RequestInteraction, Publish, PublishOr
<1>13. CASE RecheckRevision
  BY <1>3, <1>4, <1>5, <1>13, QuietStep DEF RecheckRevision, at
<1> QED
  BY <1>7, <1>8, <1>9, <1>10, <1>11, <1>12, <1>13

\* A tool starts, writes, returns, and its outcome is committed.
LEMMA ToolStep ==
    ASSUME LoopInv, StartTool \/ ToolWrites \/ ToolReturns \/ CommitOutcome
    PROVE  LoopInv'
<1>1. snap \in Snap /\ w \in WorkerType /\ Coherent(snap) /\ Sound(snap, w)
  BY DEF LoopInv, Sound
<1>2. \A g \in Goals : Sound(snap, End(g))
  BY <1>1, EndSound
<1>3. "Failed" \in Goals /\ Terminals \subseteq Goals /\ {"running", "call"} \subseteq PCs
  BY DEF Goals, Terminals, PCs
<1>4. /\ {"start", "running", "settle", "call"} \subseteq Acting /\ Acting \cap Reviewing = {}
      /\ Acting \cap {"boot", "reject", "final", "down", "done"} = {}
  BY DEF Acting, Reviewing
<1>5. CASE StartTool
  <2> DEFINE running == [Go("running") EXCEPT !.wrote = FALSE]
  <2>1. w.pc = "start" /\ env_same /\ acked' = acked
    BY <1>5 DEF StartTool, at
  <2>2. /\ running \in WorkerType /\ running.pc = "running"
        /\ running.replay = w.replay /\ running.spare = w.spare
    <3>1. Go("running") \in WorkerType /\ Go("running").pc = "running"
          /\ Go("running").replay = w.replay /\ Go("running").spare = w.spare
      BY <1>1, <1>3, GoWorker
    <3> QED
      BY <3>1 DEF WorkerType
  <2>3. Sound(snap', w')
    <3>1. CASE snap' = snap /\ w' = End("Failed")
      BY <1>2, <1>3, <3>1
    <3>2. CASE snap' = snap /\ w' = running
      <4> HIDE DEF running
      <4> QED
        BY <1>1, <1>4, <2>1, <2>2, <3>2 DEF Sound, Placed
    <3>3. CASE ToolExecutionStartedFits(snap) /\ snap' = ToolExecutionStarted(snap)
               /\ w' = running
      <4>1. snap' \in Snap /\ Coherent(snap') /\ Keeps(snap, snap', {"tool"})
        BY <1>1, <3>3, CallEvent
      <4> HIDE DEF running
      <4> QED
        BY <1>1, <1>4, <2>1, <2>2, <3>3, <4>1 DEF Sound, Placed, Keeps, Fields
    <3> QED
      BY <1>5, <3>1, <3>2, <3>3 DEF StartTool, Publish, PublishOr
  <2>4. did' \in Did
    <3>1. did \in Did
      BY DEF LoopInv, World
    <3>2. Count(did.ran, snap.calls) \in [1..MaxCalls -> Nat]
      BY <3>1, CountType DEF Did
    <3>3. did' = did \/ did' = [did EXCEPT !.ran = Count(did.ran, snap.calls)]
      BY <1>5 DEF StartTool
    <3> QED
      BY <3>1, <3>2, <3>3 DEF Did
  <2> QED
    BY <2>1, <2>3, <2>4 DEF LoopInv, World, env_same
<1>6. CASE ToolWrites
  <2>1. w' = [w EXCEPT !.wrote = TRUE] /\ snap' = snap
    BY <1>6 DEF ToolWrites
  <2>2. w' \in WorkerType /\ w'.pc = w.pc /\ w'.replay = w.replay /\ w'.spare = w.spare
    BY <1>1, <2>1 DEF WorkerType
  <2>3. Sound(snap', w')
    BY <1>1, <2>1, <2>2 DEF Sound, Placed
  <2> QED
    BY <1>6, <2>3 DEF ToolWrites, LoopInv, World
<1>7. CASE ToolReturns
  <2>1. PICK effect \in {"Applied", "Indeterminate", "NotApplied", "NotApplicable"} :
           w' = Outcome("Finished", effect, None) /\ quiet /\ snap' = snap /\ w.pc = "running"
    BY <1>7 DEF ToolReturns, at
  <2>2. Sound(snap, w')
    BY <1>1, <1>4, <2>1, OutcomeSound DEF Operations
  <2> QED
    BY <2>1, <2>2, QuietStep
<1>8. CASE CommitOutcome
  <2>1. w.pc = "settle" /\ quiet
    BY <1>8 DEF CommitOutcome, at
  <2>2. CASE snap' = snap /\ w' = End("Failed")
    BY <1>2, <1>3, <2>1, <2>2, QuietStep
  <2>3. ASSUME NEW ws \in Workspace \cup {None}, ToolOutcomeCommittedFits(snap, w.outcome, ws),
               snap' = ToolOutcomeCommitted(snap, ws),
               w' = IF w.after # None THEN End(w.after)
                    ELSE [Go("call") EXCEPT !.outcome = None, !.wrote = FALSE]
        PROVE  LoopInv'
    <3>1. snap' \in Snap /\ Coherent(snap') /\ Keeps(snap, snap', {"tool", "settled", "ws"})
      BY <1>1, <2>3, OutcomeEvent
    <3>2. CASE w.after # None
      <4>1. w.after \in Goals
        BY <1>1, <1>3, <3>2 DEF WorkerType
      <4>2. Sound(snap, w')
        BY <1>2, <2>3, <3>2, <4>1
      <4>3. Sound(snap', w')
        BY <3>1, <4>2 DEF Sound, Placed, Keeps, Fields
      <4> QED
        BY <2>1, <4>3, QuietStep
    <3>3. CASE w.after = None
      <4>1. Go("call") \in WorkerType /\ Go("call").pc = "call"
            /\ Go("call").replay = w.replay /\ Go("call").spare = w.spare
        BY <1>1, <1>3, GoWorker
      <4>2. w' \in WorkerType /\ w'.pc = "call" /\ w'.replay = w.replay /\ w'.spare = w.spare
        BY <2>3, <3>3, <4>1 DEF WorkerType
      <4>3. Sound(snap', w')
        BY <1>1, <1>4, <2>1, <3>1, <4>2 DEF Sound, Placed, Keeps, Fields
      <4> QED
        BY <2>1, <4>3, QuietStep
    <3> QED
      BY <3>2, <3>3
  <2>4. PICK rev \in Observed :
          LET ws == IF MayWrite(snap.tool.kind) /\ snap.tool.st = "InFlight"
                    THEN NextWorkspace(snap, rev, TRUE) ELSE None
          IN  \/ snap' = snap /\ w' = End("Failed")
              \/ /\ ToolOutcomeCommittedFits(snap, w.outcome, ws)
                 /\ snap' = ToolOutcomeCommitted(snap, ws)
                 /\ w' = IF w.after # None THEN End(w.after)
                         ELSE [Go("call") EXCEPT !.outcome = None, !.wrote = FALSE]
    BY <1>8 DEF CommitOutcome, Publish, PublishOr
  <2>5. NextWorkspace(snap, rev, TRUE) \in Workspace
    <3>1. rev \in Revisions \cup {Unknown} /\ snap.ws.gen \in Nat
      BY <1>1, ObservedType DEF Snap, Workspace
    <3> QED
      BY <3>1 DEF NextWorkspace, Workspace
  <2> QED
    BY <2>2, <2>3, <2>4, <2>5
<1> QED
  BY <1>5, <1>6, <1>7, <1>8

-----------------------------------------------------------------------------
(* The steps that answer a command or the clock *)

\* Where a stop and an answer of the user send the worker.
LEMMA StopSound ==
    ASSUME NEW s, Sound(s, w), NEW g \in Terminals
    PROVE  Sound(s, StopAs(g))
<1>1. g \in Goals /\ {"wait", "running"} \subseteq Acting
  BY DEF Goals, Acting
<1>2. Sound(s, End(g))
  BY <1>1, EndSound
<1>3. ASSUME w.pc \in Acting PROVE Sound(s, CutOff(g))
  BY <1>3, OutcomeSound DEF CutOff, Operations
<1> QED
  BY <1>1, <1>2, <1>3 DEF StopAs

\* An answer of the user lets the call go on, or settles it.
LEMMA ReplySound ==
    ASSUME NEW s, Sound(s, w), NEW a
    PROVE  Sound(s, ReplyAs(a))
<1>1. {"wait", "recheck"} \subseteq Acting \ {"act"}
  BY DEF Acting
<1>2. ASSUME w.pc = "wait" PROVE Sound(s, Replied(a))
  <2>1. Sound(s, Go("recheck"))
    BY <1>1, <1>2, GoSound
  <2>2. Sound(s, Rejected) /\ Sound(s, Outcome("Finished", "NotApplied", None))
    BY <1>1, <1>2, OutcomeSound DEF Operations, Rejected
  <2> QED
    BY <2>1, <2>2 DEF Replied
<1> QED
  BY <1>2 DEF ReplyAs, at

\* A command changes the queue, what it is about, and what was acknowledged.
LEMMA ControlStep ==
    ASSUME LoopInv, HandleControl
    PROVE  LoopInv'
<1>1. snap \in Snap /\ w \in WorkerType /\ Coherent(snap) /\ Sound(snap, w)
  BY DEF LoopInv, Sound
<1>2. PICK c : /\ c = Head(inbox)
               /\ \/ HandleRepeated(c) \/ HandleSteer(c) \/ HandleStop(c) \/ HandleResolve(c)
                  \/ HandleAccept(c)
  BY DEF HandleControl
<1>3. inbox \in Seq(Command) /\ inbox # <<>> /\ inbox' = Tail(inbox)
  BY DEF LoopInv, World, HandleControl
<1>4. c \in Command /\ inbox' \in Seq(Command)
  BY <1>2, <1>3
<1>5. Sound(snap, End("Failed")) /\ Sound(snap, w)
  BY <1>1, EndSound DEF Goals, Terminals
<1>6. \A k \in Stops : TerminalFor(k) \in Terminals
  BY DEF TerminalFor, Terminals
<1>7. acked' \in {acked, Append(acked, c)}
  BY <1>2 DEF HandleRepeated, HandleSteer, HandleStop, HandleResolve, HandleAccept, Acknowledge
<1>8. Sound(snap', w')
  <2>1. CASE snap' = snap /\ w' \in {w, End("Failed"), ReplyAs(c.answer)}
    BY <1>5, <2>1, ReplySound
  <2>2. ASSUME NEW k \in Stops, snap' = snap, w' = StopAs(TerminalFor(k))
        PROVE  Sound(snap', w')
    BY <1>1, <1>6, <2>2, StopSound
  <2>3. CASE HandleRepeated(c)
    BY <2>1, <2>2, <2>3 DEF HandleRepeated
  <2>4. CASE HandleSteer(c)
    <3>1. CASE snap' = SteerQueued(snap, c) /\ w' = w
      <4>1. snap' \in Snap /\ Coherent(snap')
            /\ Keeps(snap, snap', {"steers", "applied", "current", "receipts"})
        BY <1>1, <1>4, <3>1, SteerEvent
      <4> QED
        BY <1>1, <3>1, <4>1 DEF Sound, Placed, Keeps, Fields
    <3> QED
      BY <2>1, <2>4, <3>1 DEF HandleSteer, Publish, PublishOr
  <2>5. CASE HandleStop(c)
    <3>1. CASE snap' = ControlRequested(snap, c) /\ w' = StopAs(TerminalFor(c.kind))
      <4>1. c.kind \in Stops
        BY <2>5 DEF HandleStop
      <4>2. snap' \in Snap /\ Coherent(snap') /\ Keeps(snap, snap', {"control", "receipts"})
        BY <1>1, <1>4, <3>1, <4>1, StopEvent
      <4>3. Sound(snap, w')
        BY <1>1, <1>6, <3>1, <4>1, StopSound
      <4> QED
        BY <4>2, <4>3 DEF Sound, Placed, Keeps, Fields
    <3>2. snap.control # None => snap.control \in Stops
      BY <1>1 DEF Snap
    <3> QED
      BY <2>1, <2>2, <2>5, <3>1, <3>2 DEF HandleStop, Publish, PublishOr
  <2>6. CASE HandleResolve(c)
    <3>1. CASE InteractionResolvedFits(snap, c) /\ snap' = InteractionResolved(snap, c)
               /\ w' = ReplyAs(c.answer)
      <4>1. snap' \in Snap /\ Coherent(snap') /\ Keeps(snap, snap', {"tool", "receipts"})
        BY <1>1, <1>4, <3>1, ResolvedEvent
      <4>2. Sound(snap, w')
        BY <1>1, <3>1, ReplySound
      <4> QED
        BY <4>1, <4>2 DEF Sound, Placed, Keeps, Fields
    <3> QED
      BY <2>1, <2>6, <3>1 DEF HandleResolve, Publish, PublishOr
  <2>7. CASE HandleAccept(c)
    <3>1. ASSUME NEW ws \in Workspace, snap' = WorkspaceObserved(snap, ws), w' = w
          PROVE  Sound(snap', w')
      <4>1. snap' \in Snap /\ Coherent(snap') /\ Keeps(snap, snap', {"ws"})
        BY <1>1, <3>1, ObservedEvent
      <4> QED
        BY <1>1, <3>1, <4>1 DEF Sound, Placed, Keeps, Fields
    <3>2. CASE HostCompletionAcceptedFits(snap, c) /\ snap' = HostCompletionAccepted(snap, c)
               /\ w' = w
      <4>1. snap' \in Snap /\ Coherent(snap') /\ Keeps(snap, snap', {"consents", "receipts"})
        BY <1>1, <1>4, <3>2, AcceptedEvent
      <4> QED
        BY <1>1, <3>2, <4>1 DEF Sound, Placed, Keeps, Fields
    <3>3. ASSUME NEW rev \in Observed PROVE NextWorkspace(snap, rev, FALSE) \in Workspace
      <4>1. rev \in Revisions \cup {Unknown} /\ snap.ws.gen \in Nat
        BY <1>1, ObservedType DEF Snap, Workspace
      <4> QED
        BY <4>1 DEF NextWorkspace, Workspace
    <3> QED
      BY <2>1, <2>7, <3>1, <3>2, <3>3 DEF HandleAccept, Publish, PublishOr
  <2> QED
    BY <1>2, <2>3, <2>4, <2>5, <2>6, <2>7
<1>9. acked' \in Seq(Command)
  BY <1>4, <1>7 DEF LoopInv, World
<1> QED
  BY <1>4, <1>8, <1>9 DEF LoopInv, World, HandleControl

\* The deadline ends the run as a stop does.
LEMMA DeadlineStep ==
    ASSUME LoopInv, DeadlineExpires
    PROVE  LoopInv'
<1>1. quiet /\ snap' = snap /\ w' = StopAs("Failed") /\ "Failed" \in Terminals
  BY DEF DeadlineExpires, Terminals
<1>2. Sound(snap', w')
  BY <1>1, StopSound DEF LoopInv
<1> QED
  BY <1>1, <1>2, QuietStep

-----------------------------------------------------------------------------
(* The steps that decide on a completion *)

\* From the review of a candidate to the start of its verification.
LEMMA ReviewStep ==
    ASSUME LoopInv, \/ ReconcileForReview \/ Judge \/ PrepareVerification \/ StartVerification
                    \/ VerifierReturns
    PROVE  LoopInv'
<1>1. snap \in Snap /\ w \in WorkerType /\ Coherent(snap) /\ Sound(snap, w) /\ world \in Revisions
  BY DEF LoopInv, Sound, World
<1>2. Sound(snap, Blocked)
  BY <1>1, EndSound DEF Goals, Terminals, Blocked
<1>3. /\ {"review", "judge", "verify", "checking", "sealing", "close"} \subseteq Reviewing
      /\ Reviewing \subseteq PCs /\ Reviewing \cap (Requesting \cup Acting) = {}
      /\ Reviewing \cap {"act", "boot", "final", "down", "done"} = {}
  BY DEF Requesting, Acting, Reviewing, PCs
<1>4. ASSUME w.pc \in Reviewing \ {"reject"}
      PROVE  /\ ~w.replay \/ snap.output.kind # "None"
             /\ snap.model.st = "None" /\ snap.candidate \in Candidate /\ snap.candidate # None
             /\ ~(snap.failure # None /\ snap.failure.turn = snap.candidate.turn)
             /\ ~(snap.failure # None /\ snap.failure.turn = snap.turns)
  <2>1. snap.candidate # None /\ snap.candidate.turn = snap.turns
    BY <1>1, <1>4 DEF Sound, Placed, Coherent
  <2> QED
    BY <1>1, <1>3, <1>4, <2>1 DEF Sound, Placed, Snap
<1>5. ASSUME NEW v \in WorkerType, v.pc \in Reviewing, v.replay = w.replay, v.spare = w.spare,
             w.pc \in Reviewing \ {"reject"}
      PROVE  Sound(snap, v)
  BY <1>1, <1>3, <1>4, <1>5 DEF Sound, Placed
<1>6. ASSUME NEW p \in Reviewing, w.pc \in Reviewing \ {"reject"}
      PROVE  Sound(snap, Go(p))
  BY <1>1, <1>3, <1>5, <1>6, GoWorker
<1>7. CASE ReconcileForReview
  <2>1. quiet /\ w.pc = "review" /\ Reconcile(Go("judge"), Blocked)
    BY <1>7 DEF ReconcileForReview, at
  <2>2. Sound(snap', w')
    BY <1>2, <1>3, <1>6, <2>1, ReconcileSound
  <2> QED
    BY <2>1, <2>2, QuietStep
<1>8. CASE Judge
  <2> DEFINE decision == [NoDecision EXCEPT
                            !.candidate = snap.candidate,
                            !.consent = IF CurrentConsent THEN snap.candidate ELSE None,
                            !.proof = IF snap.ws \in snap.proofs THEN snap.ws ELSE None]
  <2>1. quiet /\ snap' = snap /\ w.pc = "judge"
    BY <1>8 DEF Judge, at
  <2>2. decision \in Decision
    BY <1>1 DEF NoDecision, Decision, Snap
  <2> HIDE DEF decision
  <2>3. \/ w' = Blocked
        \/ \E p \in {"verify", "close"} : w' = [w EXCEPT !.decision = decision, !.pc = p]
    BY <1>8 DEF Judge, decision
  <2>4. ASSUME NEW p \in {"verify", "close"}, w' = [w EXCEPT !.decision = decision, !.pc = p]
        PROVE  Sound(snap, w')
    <3>1. p \in PCs /\ p \in Reviewing
      BY <1>3
    <3>2. w' \in WorkerType /\ w'.pc = p /\ w'.replay = w.replay /\ w'.spare = w.spare
      BY <1>1, <2>2, <2>4, <3>1 DEF WorkerType
    <3> QED
      BY <1>3, <1>5, <2>1, <3>1, <3>2
  <2> QED
    BY <1>2, <2>1, <2>3, <2>4, QuietStep
<1>9. CASE PrepareVerification
  <2>1. quiet /\ w.pc = "verify"
    BY <1>9 DEF PrepareVerification, at
  <2>2. CASE snap' = snap /\ w' = Blocked
    BY <1>2, <2>1, <2>2, QuietStep
  <2>3. CASE HostVerificationPreparedFits(snap) /\ snap' = HostVerificationPrepared(snap)
             /\ w' = w
    <3>1. snap' \in Snap /\ Keeps(snap, snap', {"check"}) /\ Coherent(snap')
      BY <1>1, <1>3, <1>4, <2>1, <2>3, CheckEvent
    <3>2. Sound(snap', w')
      BY <1>1, <2>3, <3>1 DEF Sound, Placed, Keeps, Fields
    <3> QED
      BY <2>1, <3>2, QuietStep
  <2> QED
    BY <1>9, <2>2, <2>3 DEF PrepareVerification, PublishOr
<1>10. CASE StartVerification
  <2>1. env_same /\ acked' = acked /\ w.pc = "verify"
    BY <1>10 DEF StartVerification, at
  <2>2. Sound(snap', w')
    <3>1. Sound(snap, Go("checking"))
      BY <1>3, <1>6, <2>1
    <3>2. CASE HostVerificationStartedFits(snap) /\ snap' = HostVerificationStarted(snap)
               /\ w' = Go("checking")
      <4>1. snap' \in Snap /\ Keeps(snap, snap', {"check"}) /\ Coherent(snap')
        BY <1>1, <1>3, <1>4, <2>1, <3>2, CheckEvent
      <4> QED
        BY <3>1, <3>2, <4>1 DEF Sound, Placed, Keeps, Fields
    <3> QED
      BY <1>2, <1>10, <3>1, <3>2 DEF StartVerification, PublishOr
  <2>3. did' \in Did
    <3>1. did \in Did
      BY DEF LoopInv, World
    <3>2. Count(did.verified, snap.candidate.turn) \in [1..MaxRequests -> Nat]
      <4>1. did.verified \in [1..MaxRequests -> Nat]
        BY <3>1 DEF Did
      <4> QED
        BY <4>1, CountType
    <3>3. did' = did \/ did' = [did EXCEPT !.verified = Count(did.verified, snap.candidate.turn)]
      BY <1>10 DEF StartVerification
    <3> QED
      BY <3>1, <3>2, <3>3 DEF Did
  <2> QED
    BY <2>1, <2>2, <2>3 DEF LoopInv, World, env_same
<1>11. CASE VerifierReturns
  <2>1. PICK verdict \in {"Passed", "Failed", "Broken"} :
          w' = [Go("sealing") EXCEPT !.verdict = [verdict |-> verdict, rev |-> world]]
    BY <1>11 DEF VerifierReturns
  <2>2. quiet /\ snap' = snap /\ w.pc = "checking"
    BY <1>11 DEF VerifierReturns, at
  <2>3. [verdict |-> verdict, rev |-> world] \in Verdict
    BY <1>1 DEF Verdict
  <2>4. Go("sealing") \in WorkerType /\ Go("sealing").pc = "sealing"
        /\ Go("sealing").replay = w.replay /\ Go("sealing").spare = w.spare
    BY <1>1, <1>3, GoWorker
  <2>5. w' \in WorkerType /\ w'.pc = "sealing" /\ w'.replay = w.replay /\ w'.spare = w.spare
    BY <2>1, <2>3, <2>4 DEF WorkerType
  <2>6. Sound(snap, w')
    BY <1>3, <1>5, <2>2, <2>5
  <2> QED
    BY <2>2, <2>6, QuietStep
<1> QED
  BY <1>7, <1>8, <1>9, <1>10, <1>11

\* From the verdict to the decision.
LEMMA SealStep ==
    ASSUME LoopInv, \/ CommitVerification \/ RejectCompletion \/ ReconcileAfterVerification
                    \/ Decide
    PROVE  LoopInv'
<1>1. snap \in Snap /\ w \in WorkerType /\ Coherent(snap) /\ Sound(snap, w)
  BY DEF LoopInv, Sound
<1>2. Sound(snap, Blocked) /\ "Completed" \in Goals
  BY <1>1, EndSound DEF Goals, Terminals, Blocked
<1>3. /\ {"sealing", "reject", "close", "decide"} \subseteq Reviewing
      /\ Reviewing \subseteq PCs /\ Reviewing \cap (Requesting \cup Acting) = {}
      /\ Reviewing \cap {"act", "boot", "final", "down", "done"} = {}
      /\ {"loop", "final"} \cap (Requesting \cup Acting \cup Reviewing) = {}
      /\ {"loop", "final"} \subseteq PCs
  BY DEF Requesting, Acting, Reviewing, PCs
<1>4. CASE CommitVerification
  <2>1. quiet /\ w.pc = "sealing"
    BY <1>4 DEF CommitVerification, at
  <2>2. PICK rev \in Observed :
          LET after == NextWorkspace(snap, rev, TRUE)
              done  == [w EXCEPT !.verdict = None]
          IN  \/ snap' = snap /\ w' = Blocked
              \/ /\ HostVerificationCommittedFits(snap, after)
                 /\ snap' = HostVerificationCommitted(snap, w.verdict, after)
                 /\ w' = IF Seals(snap, w.verdict, after)
                         THEN [done EXCEPT !.pc = "close", !.decision.proof = after]
                         ELSE [done EXCEPT !.pc = "reject", !.decision = NoDecision]
    BY <1>4 DEF CommitVerification, PublishOr
  <2>3. PICK after \in Workspace : after = NextWorkspace(snap, rev, TRUE)
    <3>1. rev \in Revisions \cup {Unknown} /\ snap.ws.gen \in Nat
      BY <1>1, ObservedType DEF Snap, Workspace
    <3>2. NextWorkspace(snap, rev, TRUE) \in Workspace
      BY <3>1 DEF NextWorkspace, Workspace
    <3> QED
      BY <3>2, Zenon
  <2>4. CASE snap' = snap /\ w' = Blocked
    BY <1>2, <2>1, <2>4, QuietStep
  <2>5. CASE /\ HostVerificationCommittedFits(snap, after)
             /\ snap' = HostVerificationCommitted(snap, w.verdict, after)
             /\ w' = IF Seals(snap, w.verdict, after)
                     THEN [[w EXCEPT !.verdict = None] EXCEPT !.pc = "close",
                                                              !.decision.proof = after]
                     ELSE [[w EXCEPT !.verdict = None] EXCEPT !.pc = "reject",
                                                              !.decision = NoDecision]
    <3>1. /\ snap' \in Snap /\ Coherent(snap') /\ snap.candidate # None
          /\ Keeps(snap, snap', {"ws", "check", "proofs", "rejection", "failure"})
          /\ Seals(snap, w.verdict, after) => snap'.failure = None
      BY <1>1, <2>5, VerifiedEvent
    <3>2. [w.decision EXCEPT !.proof = after] \in Decision /\ NoDecision \in Decision
      BY <1>1 DEF WorkerType, Decision, NoDecision
    <3>3. /\ w' \in WorkerType /\ w'.replay = w.replay /\ w'.spare = w.spare
          /\ w'.pc \in {"close", "reject"}
          /\ w'.pc = "close" => Seals(snap, w.verdict, after)
      <4>1. CASE Seals(snap, w.verdict, after)
        <5>1. w' = [w EXCEPT !.verdict = None, !.pc = "close",
                             !.decision = [w.decision EXCEPT !.proof = after]]
          BY <1>1, <2>5, <4>1 DEF WorkerType
        <5> QED
          BY <1>1, <1>3, <3>2, <4>1, <5>1 DEF WorkerType
      <4>2. CASE ~Seals(snap, w.verdict, after)
        <5>1. w' = [w EXCEPT !.verdict = None, !.pc = "reject", !.decision = NoDecision]
          BY <1>1, <2>5, <4>2 DEF WorkerType
        <5> QED
          BY <1>1, <1>3, <3>2, <4>2, <5>1 DEF WorkerType
      <4> QED
        BY <4>1, <4>2
    <3>4. Sound(snap', w')
      BY <1>1, <1>3, <2>1, <3>1, <3>3 DEF Sound, Placed, Keeps, Fields
    <3> QED
      BY <2>1, <3>4, QuietStep
  <2> QED
    BY <2>2, <2>3, <2>4, <2>5
<1>5. CASE RejectCompletion
  <2>1. quiet /\ w.pc = "reject"
    BY <1>5 DEF RejectCompletion, at
  <2>2. CASE snap' = snap /\ w' = Blocked
    BY <1>2, <2>1, <2>2, QuietStep
  <2>3. CASE /\ CompletionRejectedFits(snap) /\ snap' = CompletionRejected(snap)
             /\ w' \in {[Go("loop") EXCEPT !.replay = FALSE], End("Blocked")}
    <3>1. /\ snap' \in Snap /\ Coherent(snap') /\ snap'.candidate = None
          /\ Keeps(snap, snap', {"rejection", "candidate"})
      BY <1>1, <2>3, RejectedEvent
    <3>2. /\ Go("loop") \in WorkerType /\ Go("loop").pc = "loop" /\ Go("loop").spare = w.spare
      BY <1>1, <1>3, GoWorker
    <3>3. Sound(snap, End("Blocked")) /\ End("Blocked").pc = "final"
      BY <1>1, <1>2, EndWorker DEF Blocked, Goals, Terminals
    <3>4. CASE w' = [Go("loop") EXCEPT !.replay = FALSE]
      <4>1. w' \in WorkerType /\ w'.pc = "loop" /\ w'.replay = FALSE /\ w'.spare = w.spare
        BY <3>2, <3>4 DEF WorkerType
      <4>2. Sound(snap', w')
        BY <1>1, <1>3, <3>1, <4>1 DEF Sound, Placed, Keeps, Fields
      <4> QED
        BY <2>1, <4>2, QuietStep
    <3>5. CASE w' = End("Blocked")
      <4>1. Sound(snap', w')
        BY <1>3, <3>1, <3>3, <3>5 DEF Sound, Placed, Keeps, Fields
      <4> QED
        BY <2>1, <4>1, QuietStep
    <3> QED
      BY <2>3, <3>4, <3>5
  <2> QED
    BY <1>5, <2>2, <2>3 DEF RejectCompletion, PublishOr, AfterRejection
<1>6. ASSUME w.pc = "close" PROVE Sound(snap, Go("decide"))
  <2>1. Go("decide") \in WorkerType /\ Go("decide").pc = "decide"
        /\ Go("decide").replay = w.replay /\ Go("decide").spare = w.spare
    BY <1>1, <1>3, GoWorker
  <2> QED
    BY <1>1, <1>3, <1>6, <2>1 DEF Sound, Placed
<1>7. CASE ReconcileAfterVerification
  <2>1. quiet /\ w.pc = "close"
    BY <1>7 DEF ReconcileAfterVerification, at
  <2>2. (snap' = snap /\ w' = Go("decide")) \/ Reconcile(Go("decide"), Blocked)
    BY <1>7 DEF ReconcileAfterVerification
  <2>3. Sound(snap', w')
    BY <1>2, <1>6, <2>1, <2>2, ReconcileSound
  <2> QED
    BY <2>1, <2>3, QuietStep
<1>8. CASE Decide
  <2>1. quiet /\ snap' = snap
    BY <1>8 DEF Decide
  <2>2. CASE w' = Blocked
    BY <1>2, <2>1, <2>2, QuietStep
  <2>3. CASE w' = [End("Completed") EXCEPT !.decision.ws = snap.ws]
    <3>1. End("Completed") \in WorkerType /\ End("Completed").pc = "final"
          /\ End("Completed").goal \in Goals /\ End("Completed").replay = w.replay /\ End("Completed").spare = w.spare
      BY <1>1, <1>2, EndWorker
    <3>2. PICK e \in WorkerType : e = End("Completed")
      BY <3>1
    <3>3. [e.decision EXCEPT !.ws = snap.ws] \in Decision
      BY <1>1 DEF WorkerType, Decision, Snap
    <3>4. w' = [e EXCEPT !.decision = [e.decision EXCEPT !.ws = snap.ws]]
      BY <2>3, <3>2 DEF WorkerType
    <3>5. w' \in WorkerType /\ w'.pc = "final" /\ w'.replay = w.replay /\ w'.spare = w.spare
          /\ w'.goal \in Goals
      BY <3>1, <3>2, <3>3, <3>4 DEF WorkerType
    <3>6. Sound(snap, w')
      BY <1>1, <1>3, <3>5 DEF Sound, Placed
    <3> QED
      BY <2>1, <3>6, QuietStep
  <2> QED
    BY <1>8, <2>2, <2>3 DEF Decide
<1> QED
  BY <1>4, <1>5, <1>7, <1>8

-----------------------------------------------------------------------------
(* The end of a launch, the next launch, and the rest of the world *)

\* A worker that is down needs nothing of the snapshot but its budgets.
LEMMA DownSound ==
    ASSUME Sound(snap, w), NEW v \in {Down, [Down EXCEPT !.pc = "done"]}
    PROVE  Sound(snap, v)
<1>1. PICK p \in {"down", "done"} :
        v = [pc |-> p, live |-> TRUE, spare |-> FALSE, replay |-> FALSE, goal |-> None,
             outcome |-> None, after |-> None, wrote |-> FALSE, verdict |-> None,
             decision |-> NoDecision]
  <2>1. CASE v = Down
    BY <2>1, Zenon DEF Down, Worker
  <2>2. CASE v = [Down EXCEPT !.pc = "done"]
    BY <2>2 DEF Down, Worker
  <2> QED
    BY <2>1, <2>2
<1>2. p \in PCs /\ p \notin Requesting \cup Acting \cup Reviewing \cup {"final"}
  BY DEF PCs, Requesting, Acting, Reviewing
<1>3. v \in WorkerType
  <2>1. NoDecision \in Decision
    BY DEF NoDecision, Decision
  <2> QED
    BY <1>1, <1>2, <2>1, Zenon DEF WorkerType
<1>4. v.pc = p /\ v.replay = FALSE /\ v.spare = FALSE
  BY <1>1, Zenon
<1>5. snap.requests + 0 <= MaxRequests
  BY LoopAssumption DEF Sound, Placed, Snap
<1> QED
  BY <1>2, <1>3, <1>4, <1>5 DEF Sound, Placed

\* The worker waits for the host, publishes the outcome, or dies.
LEMMA FinishStep ==
    ASSUME LoopInv, AwaitHost \/ PublishTerminal \/ Crash
    PROVE  LoopInv'
<1>1. snap \in Snap /\ w \in WorkerType /\ Coherent(snap) /\ Sound(snap, w)
  BY DEF LoopInv, Sound
<1>2. Sound(snap, Down) /\ Sound(snap, [Down EXCEPT !.pc = "done"])
  BY <1>1, DownSound
<1>3. inbox' = <<>> /\ <<>> \in Seq(Command)
  BY DEF AwaitHost, PublishTerminal, Crash
<1>4. CASE AwaitHost
  BY <1>2, <1>3, <1>4 DEF AwaitHost, LoopInv, World
<1>5. CASE PublishTerminal
  <2>1. Sound(snap', w')
    <3>1. CASE snap' = snap /\ w' = Down
      BY <1>2, <3>1
    <3>2. ASSUME NEW outcome \in Terminals, snap' = Terminal(snap, outcome),
                 w' = [Down EXCEPT !.pc = "done"]
          PROVE  Sound(snap', w')
      <4>1. snap' \in Snap /\ Coherent(snap') /\ Keeps(snap, snap', {"terminal"})
        BY <1>1, <3>2, TerminalEvent
      <4> QED
        BY <1>2, <3>2, <4>1 DEF Sound, Placed, Keeps, Fields
    <3>3. PICK outcome : /\ outcome \in {w.goal, "Failed"}
                         /\ \/ snap' = snap /\ w' = Down
                            \/ /\ snap' = Terminal(snap, outcome)
                               /\ w' = [Down EXCEPT !.pc = "done"]
      BY <1>5 DEF PublishTerminal, PublishOr
    <3>4. w.goal \in Terminals
      BY <1>1, <1>5 DEF PublishTerminal, at, Sound, Placed, Goals
    <3> QED
      BY <3>1, <3>2, <3>3, <3>4 DEF Terminals
  <2> QED
    BY <1>3, <1>5, <2>1 DEF PublishTerminal, LoopInv, World
<1>6. CASE Crash
  <2>1. env' \in Env
    <3>1. env \in Env /\ env' = [env EXCEPT !.crashes = @ + 1]
      BY <1>6 DEF Crash, LoopInv, World
    <3> QED
      BY <3>1 DEF Env
  <2> QED
    BY <1>2, <1>3, <1>6, <2>1 DEF Crash, LoopInv, World
<1> QED
  BY <1>4, <1>5, <1>6

\* A launch from the durable snapshot.
LEMMA LaunchStep ==
    ASSUME LoopInv, Resume \/ AcceptCompletion
    PROVE  LoopInv'
<1>1. snap \in Snap /\ w \in WorkerType /\ Coherent(snap) /\ Sound(snap, w)
  BY DEF LoopInv, Sound
<1>2. PICK queue \in Seq(Command) : Launch(queue)
  <2>1. CASE Resume
    <3>1. <<>> \in Seq(Command)
      OBVIOUS
    <3> QED
      BY <2>1, <3>1 DEF Resume
  <2>2. CASE AcceptCompletion
    <3>1. PICK id \in Acceptances :
            /\ snap.candidate # None
            /\ Launch(<<[id |-> id, kind |-> "Accept", candidate |-> snap.candidate]>>)
      BY <2>2 DEF AcceptCompletion
    <3>2. [id |-> id, kind |-> "Accept", candidate |-> snap.candidate] \in Command
      BY <1>1, <3>1 DEF Command, Snap
    <3>3. <<[id |-> id, kind |-> "Accept", candidate |-> snap.candidate]>> \in Seq(Command)
      BY <3>2
    <3> QED
      BY <3>1, <3>3
  <2> QED
    BY <2>1, <2>2
<1>3. PICK live \in BOOLEAN, spare \in BOOLEAN :
        /\ spare => snap.requests < MaxRequests
        /\ w' = Worker("boot", live, spare, snap.current)
  <2>1. /\ NeedsLiveModel \in BOOLEAN
        /\ (~TerminalRequestAdmitted /\ snap.requests < MaxRequests) \in BOOLEAN
    BY DEF NeedsLiveModel
  <2> QED
    BY <1>2, <2>1, Zenon DEF Launch
<1>4. snap.current \in BOOLEAN /\ snap.requests \in Nat /\ MaxRequests \in Nat
  BY <1>1, LoopAssumption DEF Snap
<1>5. w' \in WorkerType /\ w'.pc = "boot" /\ w'.replay = snap.current /\ w'.spare = spare
  <2>1. NoDecision \in Decision /\ "boot" \in PCs
    BY DEF NoDecision, Decision, PCs
  <2> QED
    BY <1>3, <1>4, <2>1 DEF Worker, WorkerType
<1>6. snap.requests + (IF spare THEN 1 ELSE 0) <= MaxRequests
  <2>1. CASE spare = TRUE
    BY <1>3, <1>4, <2>1
  <2>2. CASE spare = FALSE
    <3>1. snap.requests + (IF w.spare THEN 1 ELSE 0) <= MaxRequests
      BY <1>1 DEF Sound, Placed
    <3> QED
      BY <1>4, <2>2, <3>1
  <2> QED
    BY <2>1, <2>2
<1>7. "boot" \notin Requesting \cup Acting \cup Reviewing
  BY DEF Requesting, Acting, Reviewing
<1>8. snap' = snap /\ Sound(snap, w')
  <2>1. snap' = snap
    BY <1>2 DEF Launch
  <2>2. snap.current => snap.model.st = "None" /\ snap.output.kind # "None"
    BY <1>1 DEF Coherent
  <2>3. w'.replay => snap.current
    BY <1>5
  <2>4. snap.requests + (IF w'.spare THEN 1 ELSE 0) <= MaxRequests
    BY <1>5, <1>6
  <2> QED
    BY <1>1, <1>5, <1>7, <2>1, <2>2, <2>3, <2>4 DEF Sound, Placed
<1>9. env' \in Env
  <2>1. env \in Env /\ env' = [env EXCEPT !.resumes = @ + 1]
    BY <1>2, Zenon DEF Launch, LoopInv, World
  <2> QED
    BY <2>1 DEF Env
<1> QED
  BY <1>2, <1>8, <1>9 DEF Launch, LoopInv, World

\* Clients, other processes and the clock.
LEMMA OutsideStep ==
    ASSUME LoopInv, Send \/ Edit \/ DeadlinePasses
    PROVE  LoopInv'
<1>1. CASE Send
  <2>1. PICK c \in Commands : inbox' = Append(inbox, c) /\ env' = [env EXCEPT !.copies = Count(@, c)]
    BY <1>1 DEF Send
  <2>2. inbox' \in Seq(Command)
    BY <2>1 DEF LoopInv, World, Command
  <2>3. env' \in Env
    <3>1. env \in Env /\ env.copies \in [Commands -> Nat]
      BY DEF LoopInv, World, Env
    <3>2. Count(env.copies, c) \in [Commands -> Nat]
      BY <3>1, CountType
    <3>3. env' = [env EXCEPT !.copies = Count(env.copies, c)]
      BY <2>1
    <3> QED
      BY <3>1, <3>2, <3>3 DEF Env
  <2> QED
    BY <1>1, <2>2, <2>3 DEF Send, LoopInv, World
<1>2. CASE Edit
  <2>1. env' \in Env /\ world' \in Revisions
    BY <1>2, SMTT(30) DEF Edit, LoopInv, World, Env
  <2> QED
    BY <1>2, <2>1 DEF Edit, LoopInv, World
<1>3. CASE DeadlinePasses
  BY <1>3 DEF DeadlinePasses, LoopInv, World
<1> QED
  BY <1>1, <1>2, <1>3

-----------------------------------------------------------------------------
(* The theorems *)

\* A new run is coherent.
LEMMA InitSound == Init => LoopInv
<1> SUFFICES ASSUME Init PROVE LoopInv
  OBVIOUS
<1> DEFINE ws == [gen |-> 0, rev |-> world]
<1>1. world \in Revisions /\ snap = NewSnapshot(ws)
  BY DEF Init
<1>2. ws \in Workspace
  BY <1>1 DEF Workspace
<1> HIDE DEF ws
<1>3. /\ IdleModel \in ModelState /\ IdleModel.st = "None"
      /\ NoOutput \in Output /\ NoOutput.calls = <<>>
      /\ IdleTool \in ToolState /\ IdleTool.st = "None"
      /\ NoCheck(ws) \in CheckState /\ NoCheck(ws).st = "None"
  BY <1>2, ReducerAssumption
     DEF IdleModel, ModelState, NoOutput, Output, IdleTool, ToolState, CallKinds, NoCheck, CheckState
<1>4. snap \in Snap
  <2>1. <<>> \in Seq(Names) /\ 0 \in Nat
    OBVIOUS
  <2> QED
    BY <1>1, <1>2, <1>3, <2>1 DEF NewSnapshot, Snap
<1>5. /\ snap.model = IdleModel /\ snap.tool = IdleTool /\ snap.check = NoCheck(ws)
      /\ snap.output = NoOutput /\ snap.turns = 0 /\ snap.requests = 0 /\ snap.calls = 0
      /\ snap.settled = 0 /\ snap.current = FALSE /\ snap.candidate = None
      /\ snap.failure = None /\ snap.consents = {}
  BY <1>1 DEF NewSnapshot
<1>6. Coherent(snap)
  <2>1. Len(snap.output.calls) = 0
    BY <1>3, <1>5
  <2> QED
    BY <1>3, <1>5, <2>1 DEF Coherent
<1>7. PICK spare \in BOOLEAN : /\ spare = (0 < MaxRequests)
                               /\ w = Worker("loop", TRUE, spare, FALSE)
  <2>1. (0 < MaxRequests) \in BOOLEAN
    OBVIOUS
  <2> QED
    BY <2>1, Zenon DEF Init
<1>8. w \in WorkerType /\ w.pc = "loop" /\ w.replay = FALSE /\ w.spare = spare
  <2>1. NoDecision \in Decision /\ "loop" \in PCs
    BY DEF NoDecision, Decision, PCs
  <2> QED
    BY <1>7, <2>1 DEF Worker, WorkerType
<1>9. Placed(snap, w)
  <2>1. "loop" \notin Requesting \cup Acting \cup Reviewing
    BY DEF Requesting, Acting, Reviewing
  <2>2. MaxRequests \in Nat /\ MaxCalls \in Nat
    BY LoopAssumption
  <2>3. 0 + (IF spare THEN 1 ELSE 0) <= MaxRequests
    <3>1. CASE spare = TRUE
      <4>1. 0 < MaxRequests
        BY <1>7, <3>1
      <4> QED
        BY <2>2, <3>1, <4>1
    <3>2. CASE spare = FALSE
      BY <2>2, <3>2
    <3> QED
      BY <3>1, <3>2
  <2> QED
    BY <1>5, <1>8, <2>1, <2>2, <2>3 DEF Placed
<1>10. World
  <2>1. env \in Env
    <3>1. PICK b \in BOOLEAN : env.blind = b
      BY LoopAssumption DEF Init
    <3> QED
      BY <3>1, LoopAssumption DEF Init, Env
  <2>2. did \in Did
    BY DEF Init, Did
  <2>3. <<>> \in Seq(Command)
    OBVIOUS
  <2> QED
    BY <1>1, <2>1, <2>2, <2>3 DEF Init, World
<1> QED
  BY <1>4, <1>6, <1>8, <1>9, <1>10 DEF LoopInv, Sound

\* Every step of the run keeps it coherent.
LEMMA LoopInvStep == LoopInv /\ [Next]_vars => LoopInv'
<1> SUFFICES ASSUME LoopInv, [Next]_vars PROVE LoopInv'
  OBVIOUS
<1>1. CASE Proceed
  BY <1>1, RecoverStep, HeadStep, RequestStep, AnswerStep, GateStep, ToolStep, ControlStep,
     DeadlineStep, ReviewStep, SealStep, FinishStep DEF Proceed
<1>2. CASE Attempt \/ RetryDelayOver \/ ToolWrites \/ ToolReturns \/ VerifierReturns
  BY <1>2, HeadStep, RequestStep, ToolStep, ReviewStep DEF Attempt
<1>3. CASE Send \/ Resume \/ AcceptCompletion \/ Crash \/ Edit \/ DeadlinePasses
  BY <1>3, OutsideStep, LaunchStep, FinishStep
<1>4. CASE UNCHANGED vars
  BY <1>4 DEF vars, LoopInv, World
<1> QED
  BY <1>1, <1>2, <1>3, <1>4 DEF Next

\* The worker of a run and its durable snapshot stay in step, through commands,
\* crashes and restarts: what is pending fits the place where the worker stands.
THEOREM LoopCoherent == Spec => []LoopInv
<1>1. Init => LoopInv
  BY InitSound
<1>2. LoopInv /\ [Next]_vars => LoopInv'
  BY LoopInvStep
<1> QED
  BY <1>1, <1>2, PTL DEF Spec

\* The snapshot and the worker have the shape their structs give them, and the
\* requests and calls stay within the limits of the run.
THEOREM LoopTypeOK == Spec => []TypeOK
<1>1. LoopInv => TypeOK
  <2> SUFFICES ASSUME LoopInv PROVE TypeOK
    OBVIOUS
  <2>1. snap \in Snap /\ w \in WorkerType /\ Coherent(snap) /\ Placed(snap, w) /\ World
    BY DEF LoopInv, Sound
  <2>2. /\ snap.turns \in Nat /\ snap.requests \in Nat /\ snap.calls \in Nat /\ snap.settled \in Nat
        /\ MaxRequests \in Nat /\ MaxCalls \in Nat /\ Len(snap.output.calls) \in Nat
    BY <2>1, LoopAssumption DEF Snap, Output
  <2>3. snap.requests <= MaxRequests
    BY <2>1, <2>2 DEF Placed
  <2>4. /\ snap.turns \in 0..snap.requests /\ snap.requests \in 0..MaxRequests
        /\ snap.calls \in 0..MaxCalls /\ snap.settled \in 0..Len(snap.output.calls)
    BY <2>1, <2>2, <2>3 DEF Coherent, Placed
  <2>5. /\ snap.model \in ModelState /\ snap.output \in Output /\ snap.tool \in ToolState
        /\ snap.ws \in Workspace /\ snap.check \in CheckState
        /\ snap.proofs \subseteq Workspace
        /\ snap.terminal \in Terminals \cup {None} /\ snap.control \in Stops \cup {None}
        /\ snap.stopped \in BOOLEAN /\ snap.current \in BOOLEAN
    BY <2>1 DEF Snap
  <2>6. snap.candidate # None => IsCandidate(snap.candidate)
    BY <2>1, <2>2, <2>3 DEF IsCandidate, Coherent, Snap, Candidate
  <2>7. \A x \in snap.consents : IsCandidate(x)
    <3> SUFFICES ASSUME NEW x \in snap.consents PROVE IsCandidate(x)
      OBVIOUS
    <3>1. x.turn \in 1..snap.turns /\ snap.turns <= snap.requests
      BY <2>1 DEF Coherent
    <3>2. x.ws \in Workspace
      BY <2>1 DEF Snap, Candidate
    <3> QED
      BY <2>2, <2>3, <3>1, <3>2 DEF IsCandidate
  <2>8. /\ w.pc \in PCs /\ w.goal \in Goals \cup {None} /\ w.after \in Terminals \cup {None}
        /\ {w.live, w.spare, w.replay, w.wrote, late} \subseteq BOOLEAN
        /\ world \in Revisions
    BY <2>1 DEF WorkerType, World
  <2>9. /\ snap.model.st \in {"None", "Prepared", "InFlight"} /\ snap.model.tries \in 0..MaxRetries
        /\ snap.model.primary \in Codes \cup {None}
        /\ snap.model.offered \in BOOLEAN
    BY <2>5 DEF ModelState
  <2>10. /\ snap.output.kind \in {"None", "Stop", "Blank", "Calls", "Invalid"}
         /\ snap.output.calls \in Seq(CallKinds) /\ snap.output.offered \in BOOLEAN
    BY <2>5 DEF Output
  <2>11. {snap.stopped, snap.current, snap.model.offered, snap.output.offered} \subseteq BOOLEAN
    BY <2>5, <2>9, <2>10
  <2> QED
    BY <2>4, <2>5, <2>6, <2>7, <2>8, <2>9, <2>10, <2>11 DEF TypeOK, ToolState, CheckState
<1> QED
  BY <1>1, LoopCoherent, PTL

\* Retries, restarts and replayed answers included, the run never holds more
\* permits than max_model_requests: the request set aside for the final answer
\* is not lent out.
THEOREM LoopKeepsBudget == Spec => []BudgetKept
<1>1. LoopInv => BudgetKept
  BY DEF LoopInv, Sound, Placed, BudgetKept, Granted
<1> QED
  BY <1>1, LoopCoherent, PTL

=============================================================================
