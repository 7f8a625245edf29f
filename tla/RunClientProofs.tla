-------------------------- MODULE RunClientProofs ---------------------------
(***************************************************************************)
(* The safety properties of RunClient, for every number of runs, commands, *)
(* faults and places in the channel.                                       *)
(***************************************************************************)
EXTENDS RunClient, ApplicationProofs

-----------------------------------------------------------------------------
(* The inductive invariant *)

Stops == {"off", "ask", "wait", "record", "send", "finish"}

Launching == {"submit", "recover", "open", "resume", "accept"}

Clients ==
    [current : Runs \cup {None}, latest : Runs \cup {None}, pending : Runs \cup {None},
     offer : Nat, cursor : [Runs -> Nat], monitored : SUBSET Runs, restart : SUBSET Runs]

Followers == [st : Stops, from : Nat, next : Nat, upto : Nat]

Screens ==
    [on : BOOLEAN, op : Launching \cup {"none", "steer", "cancel"}, run : Runs \cup {None},
     loading : BOOLEAN, fresh : BOOLEAN]

Misleading == Runs \X {"unseen", "replayed"}

ClientTyped ==
    /\ client \in Clients
    /\ mon \in [Runs -> Followers]
    /\ channel \in Seq(Runs \X Nat)
    /\ shown \in [Runs -> Nat]
    /\ ui \in Screens
    /\ misled \subseteq Misleading

\* Where a request of a kind can be.
InPlace(kind, pc) ==
    \/ kind \in Creations /\ pc \in {"load", "reserve", "compose", "ready", "register", "get", "done"}
    \/ kind = "resume" /\ pc \in {"load", "busy", "compose", "ready", "register", "get", "done"}
    \/ kind = "accept" /\ pc \in {"load", "retire", "drowse", "reload", "rejoin", "compose", "ready", "register",
                                  "acked", "race", "done"}
    \/ kind \in {"steer", "cancel"} /\ pc \in {"load", "find", "acked", "race", "done"}
    \/ kind = "get" /\ pc \in {"get", "done"}
    \/ kind = "wait" /\ pc \in {"read", "check", "sleep", "done"}
    \/ kind = "none" /\ pc = "idle"

\* A creation that is past its reservation; rs: the reserved runs.
Holds(q, rs) ==
    q.kind \in Creations /\ (q.pc \notin {"load", "reserve", "done"} \/ q.answer = "run") => q.run \in rs

\* A run is reserved before it is composed, and so before it has a log.
Booked ==
    /\ \A c \in Callers : InPlace(req[c].kind, req[c].pc) /\ Holds(req[c], reserved)
    /\ \A l \in DOMAIN launch : launch[l].st = "acquire" /\ launch[l].create => launch[l].run \in reserved
    /\ \A r \in Runs : log[r] # <<>> => r \in reserved

\* A client that knows of no run.
Blank(k) ==
    k.current = None /\ k.pending = None /\ k.monitored = {} /\ \A r \in Runs : k.cursor[r] = 0

\* What the UI awaits; a UI that is gone awaits nothing, and a fresh one knows
\* of no run.
Awaited ==
    /\ ui.op # "none" => ui.on /\ ui.run \in Runs
    /\ ui.op \in {"submit", "recover"} => req[Ui].kind \in Creations /\ req[Ui].run = ui.run
    /\ ui.op \in {"open", "resume", "accept"} => log[ui.run] # <<>>
    /\ ui.fresh => Blank(client) /\ ui.op = "none"

\* A run that is followed, or was.
Followed ==
    /\ client.monitored = {r \in Runs : mon[r].st # "off"}
    /\ \A r \in Runs :
          /\ client.cursor[r] # 0 \/ mon[r].st # "off" => r \in reserved
          /\ mon[r].st \in {"record", "send"} => mon[r].next # 0

\* Event n of run r has been shown, or is on its way.
Delivered(r, n) == n <= shown[r] \/ \E i \in DOMAIN channel : channel[i] = <<r, n>>

\* A monitor asks for what follows the last event it has sent.  The cursor of a
\* run whose monitor may be started again is not ahead of the projection either.
Keeping(r) ==
    /\ mon[r].st = "wait" => req[r].after = client.cursor[r]
    /\ mon[r].st = "record" => mon[r].next = client.cursor[r] + 1
    /\ mon[r].st = "send" => mon[r].next = client.cursor[r]
    /\ ui.on /\ mon[r].st \in {"ask", "wait", "record", "finish"} => Delivered(r, client.cursor[r])
    /\ ui.on /\ mon[r].st = "send" => Delivered(r, mon[r].next - 1)
    /\ ui.on /\ mon[r].st = "off" /\ (client.pending = r \/ (ui.op = "accept" /\ ui.run = r))
          => Delivered(r, client.cursor[r])

\* The run that a launch will follow is followed from its first event.
Starting ==
    /\ ui.op \in {"submit", "recover", "open", "resume"} =>
          client.cursor[ui.run] = 0 /\ mon[ui.run].st = "off"
    /\ ui.op \in {"open", "resume"} => channel = <<>> /\ client.monitored = {}

Delivering == Starting /\ \A r \in Runs : Keeping(r)

UiInv == ClientTyped /\ Awaited /\ Followed /\ (Patient => Delivering) /\ GapFree

ClientInv == AppInv /\ Booked /\ UiInv

-----------------------------------------------------------------------------
(* Steps of a request *)

\* The request of c moves on to q: the same question at another place.
Moves(c, q) ==
    /\ q \in Request /\ req' = [req EXCEPT ![c] = q]
    /\ q.kind = req[c].kind /\ q.run = req[c].run /\ q.id = req[c].id /\ q.after = req[c].after

\* The ways in which a request moves on.
LEMMA GotoMoves ==
    ASSUME Typed, NEW c \in Callers, NEW pc \in PCs, Goto(c, pc)
    PROVE  \E q : /\ Moves(c, q) /\ q.pc = pc
                  /\ q.launch = req[c].launch /\ q.seen = req[c].seen /\ q.answer = req[c].answer
<1> DEFINE q == [req[c] EXCEPT !.pc = pc]
<1>1. req[c] \in Request
  BY Parts
<1>2. req' = [req EXCEPT ![c] = q]
  BY DEF Goto
<1>3. /\ q \in Request /\ q.kind = req[c].kind /\ q.run = req[c].run /\ q.id = req[c].id
      /\ q.after = req[c].after /\ q.pc = pc
      /\ q.launch = req[c].launch /\ q.seen = req[c].seen /\ q.answer = req[c].answer
  BY <1>1 DEF Request
<1> HIDE DEF q
<1> QED
  BY <1>2, <1>3 DEF Moves

LEMMA ReplayFields ==
    ASSUME Typed, NEW c \in Callers, req[c].run \in Runs
    PROVE  LET z == Replay(c) IN
           /\ z \in Request /\ z.kind = req[c].kind /\ z.run = req[c].run /\ z.id = req[c].id
           /\ z.after = req[c].after /\ z.pc = req[c].pc /\ z.seen = Len(log[req[c].run])
           /\ z.launch = req[c].launch /\ z.answer = req[c].answer
<1>1. req[c] \in Request /\ Len(log[req[c].run]) \in Nat
  BY Parts DEF Typed
<1> QED
  BY <1>1 DEF Replay, Request

LEMMA LoadMoves ==
    ASSUME Typed, NEW c \in Callers, NEW pc \in PCs, Load(c, pc), req[c].run \in Runs
    PROVE  \E q : /\ Moves(c, q) /\ q.pc = pc
                  /\ q.launch = req[c].launch /\ q.seen = Len(log[req[c].run]) /\ q.answer = req[c].answer
<1> DEFINE z == Replay(c) q == [z EXCEPT !.pc = pc]
<1>1. /\ z \in Request /\ z.kind = req[c].kind /\ z.run = req[c].run /\ z.id = req[c].id
      /\ z.after = req[c].after /\ z.seen = Len(log[req[c].run])
      /\ z.launch = req[c].launch /\ z.answer = req[c].answer
  BY ReplayFields
<1>2. req' = [req EXCEPT ![c] = q]
  BY DEF Load
<1> HIDE DEF z
<1>3. /\ q \in Request /\ q.kind = z.kind /\ q.run = z.run /\ q.id = z.id /\ q.after = z.after /\ q.pc = pc
      /\ q.launch = z.launch /\ q.seen = z.seen /\ q.answer = z.answer
  BY <1>1 DEF Request
<1> HIDE DEF q
<1> QED
  BY <1>1, <1>2, <1>3 DEF Moves

\* The parts of an answer that Replies does not name.
LEMMA ReplyFields ==
    ASSUME NEW q \in Request, NEW a \in Answers
    PROVE  LET p == Reply(q, a) IN
           /\ p.after = q.after /\ p.seen \in {0, q.seen}
           /\ a \in {"run", "events"} => p.seen = q.seen
  BY DEF Reply, Idle

LEMMA AnswerMoves ==
    ASSUME Typed, NEW c \in Callers, NEW a \in Answers, Answer(c, a)
    PROVE  \E q : /\ Moves(c, q) /\ q.pc = "done" /\ q.answer = a /\ q.launch = 0
                  /\ q.seen \in {0, req[c].seen} /\ (a \in {"run", "events"} => q.seen = req[c].seen)
<1> DEFINE q == Reply(req[c], a)
<1>1. req[c] \in Request
  BY Parts
<1>2. req' = [req EXCEPT ![c] = q]
  BY DEF Answer
<1>3. /\ q \in Request /\ q.kind = req[c].kind /\ q.run = req[c].run /\ q.id = req[c].id
      /\ q.pc = "done" /\ q.launch = 0 /\ q.answer = a
  BY <1>1, Replies
<1>4. q.after = req[c].after /\ q.seen \in {0, req[c].seen} /\ (a \in {"run", "events"} => q.seen = req[c].seen)
  BY <1>1, ReplyFields
<1> HIDE DEF q
<1> QED
  BY <1>2, <1>3, <1>4 DEF Moves

LEMMA ViewMoves ==
    ASSUME Typed, NEW c \in Callers, NEW a \in {"run", "events"}, View(c, a), req[c].run \in Runs
    PROVE  \E q : /\ Moves(c, q) /\ q.pc = "done" /\ q.answer = a /\ q.launch = 0
                  /\ q.seen = Len(log[req[c].run])
<1> DEFINE z == Replay(c) q == Reply(z, a)
<1>1. /\ z \in Request /\ z.kind = req[c].kind /\ z.run = req[c].run /\ z.id = req[c].id
      /\ z.after = req[c].after /\ z.seen = Len(log[req[c].run])
  BY ReplayFields
<1>2. req' = [req EXCEPT ![c] = q]
  BY DEF View
<1>0. a \in Answers
  BY DEF Answers
<1> HIDE DEF z
<1>3. /\ q \in Request /\ q.kind = z.kind /\ q.run = z.run /\ q.id = z.id
      /\ q.pc = "done" /\ q.launch = 0 /\ q.answer = a
  BY <1>0, <1>1, Replies
<1>4. q.after = z.after /\ q.seen = z.seen
  BY <1>0, <1>1, ReplyFields
<1> HIDE DEF q
<1> QED
  BY <1>1, <1>2, <1>3, <1>4 DEF Moves

\* A wait that is registered.
LEMMA DrowseMoves ==
    ASSUME Typed, NEW c \in Callers, req' = [req EXCEPT ![c] = [@ EXCEPT !.pc = "drowse", !.rung = FALSE]]
    PROVE  \E q : /\ Moves(c, q) /\ q.pc = "drowse" /\ q.launch = req[c].launch
                  /\ q.seen = req[c].seen /\ q.answer = req[c].answer
<1> DEFINE q == [req[c] EXCEPT !.pc = "drowse", !.rung = FALSE]
<1>1. req[c] \in Request
  BY Parts
<1>2. req' = [req EXCEPT ![c] = q]
  OBVIOUS
<1>3. /\ q \in Request /\ q.kind = req[c].kind /\ q.run = req[c].run /\ q.id = req[c].id
      /\ q.after = req[c].after /\ q.pc = "drowse" /\ q.launch = req[c].launch
      /\ q.seen = req[c].seen /\ q.answer = req[c].answer
  BY <1>1 DEF Request, PCs
<1> HIDE DEF q
<1> QED
  BY <1>2, <1>3 DEF Moves

LEMMA CheckMoves ==
    ASSUME Typed, NEW c \in Callers, req[c].run \in Runs,
           req' = [req EXCEPT ![c] = [Replay(c) EXCEPT !.rung = FALSE, !.pc = "check"]]
    PROVE  \E q : /\ Moves(c, q) /\ q.pc = "check" /\ q.answer = req[c].answer /\ q.launch = req[c].launch
                  /\ q.seen = Len(log[req[c].run])
<1> DEFINE z == Replay(c) q == [z EXCEPT !.rung = FALSE, !.pc = "check"]
<1>1. req' = [req EXCEPT ![c] = q]
  OBVIOUS
<1>2. /\ z \in Request /\ z.kind = req[c].kind /\ z.run = req[c].run /\ z.id = req[c].id
      /\ z.after = req[c].after /\ z.launch = req[c].launch /\ z.answer = req[c].answer
      /\ z.seen = Len(log[req[c].run])
  BY ReplayFields
<1> HIDE DEF z
<1>3. /\ q \in Request /\ q.kind = z.kind /\ q.run = z.run /\ q.id = z.id /\ q.seen = z.seen
      /\ q.after = z.after /\ q.pc = "check" /\ q.launch = z.launch /\ q.answer = z.answer
  BY <1>2 DEF Request, PCs
<1> HIDE DEF q
<1> QED
  BY <1>1, <1>2, <1>3 DEF Moves

\* What a step of a request leaves of the launches, but for their gates and queues.
SameLaunches ==
    /\ DOMAIN launch' = DOMAIN launch
    /\ \A l \in DOMAIN launch : /\ launch'[l].run = launch[l].run /\ launch'[l].st = launch[l].st
                                /\ launch'[l].create = launch[l].create

\* The request of c moves on and changes nothing that a client can see.
Onward(c) ==
    /\ UNCHANGED <<log, lease, asked, spent>> /\ reserved \subseteq reserved'
    /\ \E q : Moves(c, q) /\ InPlace(q.kind, q.pc) /\ Holds(q, reserved')

\* Requests that only look around.
LEMMA LooksOnward ==
    ASSUME AppInv, Booked, NEW c \in Callers,
           \/ Reserve(c) \/ LoadSource(c) \/ LoadResume(c) \/ CheckBusy(c)
           \/ LoadProposal(c, "load", "retire") \/ LoadProposal(c, "reload", "compose") \/ Retire(c) \/ Rouse(c)
           \/ Rejoin(c) \/ Unfit(c) \/ Get(c) \/ Read(c) \/ CheckActive(c) \/ Wakes(c)
           \/ LoadControl(c) \/ Unacknowledged(c) \/ AfterRace(c)
    PROVE  Onward(c) /\ launch' = launch
<1> USE DEF PCs, Answers, Readiness, at, durable, process, runOf
<1>1. Typed /\ InPlace(req[c].kind, req[c].pc)
  BY DEF AppInv, Booked
<1>2. (req[c].pc # "idle" => req[c].run \in Runs) /\ (req[c].pc # "done" => req[c].answer = "none")
  BY DEF AppInv, Coherent, Placed
<1>3. CASE Reserve(c)
  <2>1. /\ req[c].pc = "reserve" /\ req[c].kind \in Creations /\ req[c].run \in reserved'
        /\ UNCHANGED <<log, lease, asked, spent, launch>> /\ reserved \subseteq reserved'
    BY <1>1, <1>3 DEF Reserve, InPlace
  <2>2. Goto(c, "compose") \/ View(c, "run")
    BY <1>3 DEF Reserve
  <2> QED
    BY <1>1, <1>2, <2>1, <2>2, GotoMoves, ViewMoves DEF Onward, Moves, Holds, InPlace
<1>4. CASE LoadSource(c)
  <2>1. req[c].pc = "load" /\ req[c].kind \in Creations /\ UNCHANGED <<durable, process, asked, spent>>
    BY <1>4 DEF LoadSource, Creations
  <2>2. Goto(c, "reserve") \/ Answer(c, "invalid")
    BY <1>4 DEF LoadSource
  <2> QED
    BY <1>1, <1>2, <2>1, <2>2, GotoMoves, AnswerMoves DEF Onward, Moves, Holds, InPlace
<1>5. CASE LoadResume(c)
  <2>1. req[c].pc = "load" /\ req[c].kind = "resume" /\ UNCHANGED <<durable, process, asked, spent>>
    BY <1>5 DEF LoadResume
  <2>2. View(c, "run") \/ Load(c, "busy")
    BY <1>5 DEF LoadResume
  <2> QED
    BY <1>1, <1>2, <2>1, <2>2, LoadMoves, ViewMoves DEF Onward, Moves, Holds, InPlace, Creations
<1>6. CASE CheckBusy(c)
  <2>1. req[c].kind = "resume" /\ UNCHANGED <<durable, process, asked, spent>>
    BY <1>1, <1>6 DEF CheckBusy, InPlace
  <2>2. Answer(c, "running") \/ Goto(c, "compose")
    BY <1>6 DEF CheckBusy
  <2> QED
    BY <1>1, <2>1, <2>2, GotoMoves, AnswerMoves DEF Onward, Moves, Holds, InPlace, Creations
<1>7. ASSUME NEW pc \in {"load", "reload"}, NEW next \in {"retire", "compose"}, LoadProposal(c, pc, next)
      PROVE  Onward(c) /\ launch' = launch
  <2>1. req[c].pc # "idle" /\ req[c].kind = "accept" /\ UNCHANGED <<durable, process, asked, spent>>
    BY <1>7 DEF LoadProposal
  <2>2. (\E to \in {"rejoin", "retire", "compose"} : Load(c, to))
        \/ \E a \in {"accepted", "terminal", "notPending"} : Answer(c, a)
    BY <1>7 DEF LoadProposal
  <2> QED
    BY <1>1, <1>2, <2>1, <2>2, LoadMoves, AnswerMoves DEF Onward, Moves, Holds, InPlace, Creations
<1>8. CASE Retire(c)
  <2>1. req[c].pc = "retire" /\ req[c].kind = "accept" /\ UNCHANGED <<durable, process, asked, spent>>
    BY <1>1, <1>8 DEF Retire, InPlace
  <2>2. CASE Goto(c, "reload")
    BY <1>1, <2>1, <2>2, GotoMoves DEF Onward, Moves, Holds, InPlace, Creations
  <2>3. CASE req' = [req EXCEPT ![c] = [@ EXCEPT !.pc = "drowse", !.rung = FALSE]]
    <3>1. \E q : Moves(c, q) /\ q.pc = "drowse"
      BY <1>1, <2>3, DrowseMoves
    <3> QED
      BY <2>1, <3>1 DEF Onward, Moves, Holds, InPlace, Creations
  <2> QED
    BY <1>8, <2>2, <2>3 DEF Retire
<1>9. CASE Rouse(c)
  <2>1. req[c].kind = "accept" /\ Goto(c, "retire") /\ UNCHANGED <<durable, process, asked, spent>>
    BY <1>1, <1>9 DEF Rouse, InPlace
  <2> QED
    BY <1>1, <2>1, GotoMoves DEF Onward, Moves, Holds, InPlace, Creations
<1>10. CASE Rejoin(c)
  <2>1. req[c].kind = "accept" /\ UNCHANGED <<durable, process, asked, spent>>
    BY <1>1, <1>10 DEF Rejoin, InPlace
  <2>2. Answer(c, "accepted") \/ Goto(c, "compose")
    BY <1>10 DEF Rejoin
  <2> QED
    BY <1>1, <2>1, <2>2, GotoMoves, AnswerMoves DEF Onward, Moves, Holds, InPlace, Creations
<1>11. CASE Unfit(c) \/ Get(c)
  <2>1. /\ req[c].kind \in Creations \cup {"resume", "accept", "get"} /\ req[c].pc \in {"compose", "get"}
        /\ UNCHANGED <<durable, process, asked, spent>> /\ (Answer(c, "unfit") \/ View(c, "run"))
    BY <1>1, <1>11 DEF Unfit, Get, InPlace
  <2> QED
    BY <1>1, <1>2, <2>1, AnswerMoves, ViewMoves DEF Booked, Onward, Moves, Holds, InPlace
<1>12. CASE Read(c)
  <2>1. req[c].pc = "read" /\ req[c].kind = "wait" /\ UNCHANGED <<durable, process, asked, spent>>
    BY <1>1, <1>12 DEF Read, InPlace
  <2>2. CASE View(c, "events")
    BY <1>1, <1>2, <2>1, <2>2, ViewMoves DEF Onward, Moves, Holds, InPlace, Creations
  <2>3. CASE req' = [req EXCEPT ![c] = [Replay(c) EXCEPT !.rung = FALSE, !.pc = "check"]]
    <3>1. \E q : Moves(c, q) /\ q.pc = "check"
      BY <1>1, <1>2, <2>1, <2>3, CheckMoves
    <3> QED
      BY <2>1, <3>1 DEF Onward, Moves, Holds, InPlace, Creations
  <2> QED
    BY <1>12, <2>2, <2>3 DEF Read
<1>13. CASE CheckActive(c) \/ Wakes(c)
  <2>1. req[c].kind = "wait" /\ UNCHANGED <<durable, process, asked, spent>>
    BY <1>1, <1>13 DEF CheckActive, Wakes, InPlace
  <2>2. (\E to \in {"sleep", "read"} : Goto(c, to)) \/ \E a \in {"events", "recovery"} : Answer(c, a)
    BY <1>13 DEF CheckActive, Wakes
  <2> QED
    BY <1>1, <2>1, <2>2, GotoMoves, AnswerMoves DEF Onward, Moves, Holds, InPlace, Creations
<1>14. CASE LoadControl(c)
  <2>1. req[c].kind \in {"steer", "cancel"} /\ UNCHANGED <<durable, process, asked, spent>>
    BY <1>14 DEF LoadControl
  <2>2. Goto(c, "find") \/ \E a \in {"accepted", "terminal"} : Answer(c, a)
    BY <1>14 DEF LoadControl
  <2> QED
    BY <1>1, <2>1, <2>2, GotoMoves, AnswerMoves DEF Onward, Moves, Holds, InPlace, Creations
<1>15. CASE Unacknowledged(c) \/ AfterRace(c)
  <2>1. req[c].kind \in {"steer", "cancel", "accept"} /\ UNCHANGED <<durable, process, asked, spent>>
    BY <1>1, <1>15 DEF Unacknowledged, AfterRace, InPlace
  <2>2. Goto(c, "race") \/ \E a \in {"accepted", "terminal", "notActive"} : Answer(c, a)
    BY <1>15 DEF Unacknowledged, AfterRace
  <2> QED
    BY <1>1, <2>1, <2>2, GotoMoves, AnswerMoves DEF Onward, Moves, Holds, InPlace, Creations
<1> QED
  BY <1>3, <1>4, <1>5, <1>6, <1>7, <1>8, <1>9, <1>10, <1>11, <1>12, <1>13, <1>14, <1>15

\* A request whose activation failed.
LEMMA FailedMoves ==
    ASSUME Typed, NEW c \in Callers, NEW error \in Readiness, Failed(c, error)
    PROVE  \/ /\ req[c].kind \in Creations
              /\ \E q : /\ Moves(c, q) /\ q.pc = "get"
                        /\ q.launch = req[c].launch /\ q.answer = req[c].answer
           \/ \E q : /\ Moves(c, q) /\ q.pc = "done"
                     /\ q.answer \in {error, "accepted"}
<1>1. "get" \in PCs /\ {error, "accepted"} \subseteq Answers
  BY DEF PCs, Answers
<1>2. CASE req[c].kind \in Creations /\ Goto(c, "get")
  BY <1>1, <1>2, GotoMoves
<1>3. ASSUME NEW a \in {error, "accepted"}, Answer(c, a)
      PROVE  \E q : Moves(c, q) /\ q.pc = "done" /\ q.answer \in {error, "accepted"}
  BY <1>1, <1>3, AnswerMoves
<1> QED
  BY <1>2, <1>3 DEF Failed

\* Requests that open the gate of their launch, register it or send it a command.
LEMMA CallsOnward ==
    ASSUME AppInv, Booked, NEW c \in Callers, AwaitReady(c) \/ Register(c) \/ SendControl(c)
    PROVE  Onward(c) /\ SameLaunches
<1>1. Typed /\ InPlace(req[c].kind, req[c].pc) /\ Len(launch) \in Nat /\ DOMAIN launch = 1 .. Len(launch)
      /\ req[c] \in Request
  BY Parts DEF AppInv, Booked
<1>0. req[c].pc \in {"ready", "register"} /\ req[c].kind \in Creations => req[c].run \in reserved
  BY DEF Booked, Holds
<1>2. CASE AwaitReady(c)
  <2> DEFINE l == req[c].launch
  <2>1. req[c].pc = "ready" /\ req[c].kind \in Creations \cup {"resume", "accept"} /\ l \in DOMAIN launch
    BY <1>1, <1>2 DEF AwaitReady, at, InPlace, AppInv, Coherent, Placed
  <2>2. /\ launch' = [launch EXCEPT ![l].gate = TRUE] /\ UNCHANGED <<log, lease, reserved, asked, spent>>
        /\ Goto(c, "register") \/ Failed(c, launch[l].ready)
    BY <1>2 DEF AwaitReady, durable
  <2>3. SameLaunches
    BY <1>1, <2>1, <2>2, OpenedExtends DEF SameLaunches, Typed
  <2>4. CASE Goto(c, "register")
    <3>1. \E q : Moves(c, q) /\ q.pc = "register"
      BY <1>1, <2>4, GotoMoves DEF PCs
    <3> QED
      BY <1>0, <2>1, <2>2, <2>3, <3>1 DEF Onward, Moves, Holds, InPlace
  <2>5. CASE Failed(c, launch[l].ready)
    <3>0. launch[l].ready \in Readiness
      <4>1. launch[l] \in Launches
        BY <1>1, <2>1, Parts
      <4> QED
        BY <4>1 DEF Launches
    <3>1. \E q : Moves(c, q) /\ (q.pc = "done" \/ (q.pc = "get" /\ req[c].kind \in Creations))
      BY <1>1, <2>5, <3>0, FailedMoves
    <3> QED
      BY <1>0, <2>1, <2>2, <2>3, <3>1 DEF Onward, Moves, Holds, InPlace
  <2> QED
    BY <2>2, <2>4, <2>5
<1>3. CASE Register(c)
  <2> DEFINE l == req[c].launch
  <2>1. /\ req[c].pc = "register" /\ req[c].kind \in Creations \cup {"resume", "accept"} /\ l \in DOMAIN launch
        /\ UNCHANGED <<log, lease, reserved, asked, spent>>
    BY <1>1, <1>3 DEF Register, at, InPlace, AppInv, Coherent, Placed, durable
  <2>2. launch' = Sent(launch, l, Stop) \/ launch' = launch
    BY <1>3 DEF Register, StopLoser
  <2>3. SameLaunches
    BY <1>1, <2>1, <2>2, StopMessage, SentExtends DEF SameLaunches, Extended
  <2>4. CASE Failed(c, "running")
    <3>1. \E q : Moves(c, q) /\ (q.pc = "done" \/ (q.pc = "get" /\ req[c].kind \in Creations))
      BY <1>1, <2>4, FailedMoves DEF Readiness
    <3> QED
      BY <1>0, <2>1, <2>3, <3>1 DEF Onward, Moves, Holds, InPlace
  <2>5. CASE req[c].kind # "accept" /\ Goto(c, "get")
    <3>1. \E q : Moves(c, q) /\ q.pc = "get"
      BY <1>1, <2>5, GotoMoves DEF PCs
    <3> QED
      BY <1>0, <2>1, <2>3, <2>5, <3>1 DEF Onward, Moves, Holds, InPlace
  <2>6. CASE req[c].kind = "accept" /\ (Answer(c, "accepted") \/ Goto(c, "acked"))
    <3>1. \E q : Moves(c, q) /\ q.pc \in {"done", "acked"}
      BY <1>1, <2>6, GotoMoves, AnswerMoves DEF PCs, Answers
    <3> QED
      BY <2>1, <2>3, <2>6, <3>1 DEF Onward, Moves, Holds, InPlace, Creations
  <2> QED
    BY <1>3, <2>4, <2>5, <2>6 DEF Register
<1>4. CASE SendControl(c)
  <2> DEFINE l == active[req[c].run] m == [kind |-> req[c].kind, id |-> req[c].id]
  <2>1. /\ req[c].pc = "find" /\ req[c].kind \in {"steer", "cancel"} /\ req[c].run \in Runs
        /\ UNCHANGED <<log, lease, reserved, asked, spent>>
    BY <1>1, <1>4 DEF SendControl, at, InPlace, AppInv, Coherent, Placed, durable
  <2>2. CASE Goto(c, "race") /\ UNCHANGED launch
    <3>1. \E q : Moves(c, q) /\ q.pc = "race"
      BY <1>1, <2>2, GotoMoves DEF PCs
    <3> QED
      BY <2>1, <2>2, <3>1 DEF Onward, Moves, Holds, InPlace, SameLaunches, Creations
  <2>3. CASE /\ l # 0 /\ launch' = Sent(launch, l, m)
             /\ req' = [req EXCEPT ![c] = [@ EXCEPT !.pc = "acked", !.launch = l]]
    <3>1. l \in DOMAIN launch /\ l \in Nat /\ m \in Message
      BY <1>1, <2>1, <2>3 DEF AppInv, Registered, Typed, Message, Controls, Request
    <3>2. SameLaunches
      <4> HIDE DEF l, m
      <4>1. launch' = Sent(launch, l, m)
        BY <2>3
      <4> QED
        BY <1>1, <3>1, <4>1, SentExtends DEF SameLaunches, Extended
    <3>3. \E q : Moves(c, q) /\ q.pc = "acked"
      <4> DEFINE q == [req[c] EXCEPT !.pc = "acked", !.launch = l]
      <4>1. req' = [req EXCEPT ![c] = q]
        BY <2>3
      <4>2. /\ q \in Request /\ q.kind = req[c].kind /\ q.run = req[c].run /\ q.id = req[c].id
            /\ q.after = req[c].after /\ q.pc = "acked"
        <5> HIDE DEF l
        <5> QED
          BY <1>1, <3>1 DEF Request, PCs
      <4> HIDE DEF q
      <4> QED
        BY <4>1, <4>2 DEF Moves
    <3> QED
      BY <2>1, <3>2, <3>3 DEF Onward, Moves, Holds, InPlace, Creations
  <2> QED
    BY <1>4, <2>2, <2>3 DEF SendControl, runOf
<1> QED
  BY <1>2, <1>3, <1>4

\* A request that gets a launch.
LEMMA ComposesOnward ==
    ASSUME AppInv, Booked, NEW c \in Callers, Compose(c)
    PROVE  LET n == Len(launch) + 1 IN
           /\ Onward(c) /\ DOMAIN launch' = 1 .. n
           /\ \A l \in DOMAIN launch : launch'[l] = launch[l]
           /\ launch'[n].run = req[c].run /\ launch'[n].create = (req[c].kind \in Creations)
           /\ launch'[n].st = "acquire"
<1> DEFINE x == NewLaunch(req[c].run, req[c].kind, req[c].seen, FirstCommand(req[c]))
           n == Len(launch) + 1
<1>1. /\ Typed /\ InPlace(req[c].kind, req[c].pc) /\ Len(launch) \in Nat /\ launch \in Seq(Launches)
      /\ req[c].pc = "compose"
  BY Parts DEF AppInv, Booked, Typed, Compose, at
<1>2. /\ launch' = Append(launch, x) /\ UNCHANGED <<log, lease, reserved, asked, spent>>
      /\ req' = [req EXCEPT ![c] = [@ EXCEPT !.pc = "ready", !.launch = n]]
  BY DEF Compose, durable, runOf
<1>3. x.run = req[c].run /\ x.create = (req[c].kind \in Creations) /\ x.st = "acquire"
  BY DEF NewLaunch
<1> HIDE DEF x
<1>4. DOMAIN launch' = 1 .. n /\ (\A l \in DOMAIN launch : launch'[l] = launch[l]) /\ launch'[n] = x
  BY <1>1, <1>2
<1>5. \E q : Moves(c, q) /\ q.pc = "ready"
  <2> DEFINE q == [req[c] EXCEPT !.pc = "ready", !.launch = n]
  <2>1. req' = [req EXCEPT ![c] = q]
    BY <1>2
  <2>2. req[c] \in Request /\ n \in Nat
    BY <1>1, Parts
  <2>3. /\ q \in Request /\ q.kind = req[c].kind /\ q.run = req[c].run /\ q.id = req[c].id
        /\ q.after = req[c].after /\ q.pc = "ready"
    <3> HIDE DEF n
    <3> QED
      BY <2>2 DEF Request, PCs
  <2> HIDE DEF q
  <2> QED
    BY <2>1, <2>3 DEF Moves
<1>6. Onward(c)
  <2>1. req[c].kind \in Creations => req[c].run \in reserved
    BY <1>1 DEF Booked, Holds
  <2> QED
    BY <1>1, <1>2, <1>5, <2>1 DEF Onward, Moves, Holds, InPlace
<1> QED
  BY <1>3, <1>4, <1>6

-----------------------------------------------------------------------------
(* Steps of a launch *)

\* What a client can see of a wake-up and of an acknowledgement.
Rung(q, p) == Nudged(q, p) /\ p.after = q.after

LEMMA WakeRings ==
    ASSUME NEW q \in [Callers -> Request]
    PROVE  Wake(q) \in [Callers -> Request] /\ \A c \in Callers : Rung(q[c], Wake(q)[c])
<1>1. ASSUME NEW c \in Callers PROVE Wake(q)[c].after = q[c].after
  <2> DEFINE z == q[c] p == [z EXCEPT !.rung = TRUE]
  <2>1. z \in Request
    OBVIOUS
  <2>2. p.after = z.after
    <3> HIDE DEF z
    <3> QED
      BY <2>1 DEF Request
  <2>3. Wake(q)[c] = p \/ Wake(q)[c] = z
    BY DEF Wake
  <2> HIDE DEF p
  <2> QED
    BY <2>2, <2>3
<1> QED
  BY <1>1, WakeNudges DEF Rung

LEMMA AcknowledgementRings ==
    ASSUME NEW q \in [Callers -> Request], NEW id, NEW a \in {"accepted", "notPending"}
    PROVE  /\ Acknowledged(q, id, a) \in [Callers -> Request]
           /\ \A c \in Callers : Rung(q[c], Acknowledged(q, id, a)[c])
<1>1. ASSUME NEW c \in Callers PROVE Acknowledged(q, id, a)[c].after = q[c].after
  <2>1. Reply(q[c], a).after = q[c].after
    BY ReplyFields DEF Answers
  <2>2. Acknowledged(q, id, a)[c] = Reply(q[c], a) \/ Acknowledged(q, id, a)[c] = q[c]
    BY DEF Acknowledged
  <2> QED
    BY <2>1, <2>2
<1> QED
  BY <1>1, AcknowledgedNudges DEF Rung

\* Requests around a step of launch l.
LEMMA LaunchRings ==
    ASSUME AppInv, NEW l \in DOMAIN launch, LaunchStep(l) \/ Monitor(l)
    PROVE  req' \in [Callers -> Request] /\ \A c \in Callers : Rung(req[c], req'[c])
<1>1. req \in [Callers -> Request]
  BY DEF AppInv, Typed
<1>2. \/ req' = req \/ req' = Wake(req)
      \/ \E id : \E a \in {"accepted", "notPending"} : req' = Acknowledged(req, id, a)
      \/ \E id : req' = Acknowledged(Wake(req), id, "accepted")
  BY DEF LaunchStep, Acquire, Refuse, Withdraw, Hold, Boot, Emit, Handle, Propose, Drained, Review,
         FailVerification, RejectCandidate, Leave, End, Monitor
<1>3. CASE req' = req
  BY <1>1, <1>3 DEF Rung, Nudged
<1>4. CASE req' = Wake(req)
  BY <1>1, <1>4, WakeRings
<1>5. ASSUME NEW id, NEW a \in {"accepted", "notPending"}, req' = Acknowledged(req, id, a)
      PROVE  req' \in [Callers -> Request] /\ \A c \in Callers : Rung(req[c], req'[c])
  BY <1>1, <1>5, AcknowledgementRings
<1>6. ASSUME NEW id, req' = Acknowledged(Wake(req), id, "accepted")
      PROVE  req' \in [Callers -> Request] /\ \A c \in Callers : Rung(req[c], req'[c])
  <2> DEFINE w == Wake(req)
  <2>1. w \in [Callers -> Request] /\ \A c \in Callers : Rung(req[c], w[c])
    BY <1>1, WakeRings
  <2>2. req' = Acknowledged(w, id, "accepted")
    BY <1>6
  <2> HIDE DEF w
  <2>3. req' \in [Callers -> Request] /\ \A c \in Callers : Rung(w[c], req'[c])
    BY <2>1, <2>2, AcknowledgementRings
  <2> QED
    BY <2>1, <2>3 DEF Rung, Nudged
<1> QED
  BY <1>2, <1>3, <1>4, <1>5, <1>6

\* Logs around a step of launch l: none is lost, and a new one was reserved.
Lasting ==
    \A r \in Runs : /\ log[r] # <<>> => log'[r] # <<>>
                    /\ log'[r] # <<>> => log[r] # <<>> \/ r \in reserved

LEMMA LaunchLasts ==
    ASSUME AppInv, Booked, NEW l \in DOMAIN launch, LaunchStep(l) \/ Monitor(l)
    PROVE  Lasting /\ UNCHANGED <<reserved, asked, spent>>
<1> DEFINE r == launch[l].run
<1>0. UNCHANGED <<reserved, asked, spent>>
  BY DEF LaunchStep, Acquire, Refuse, Withdraw, Hold, Boot, Emit, Handle, Propose, Drained, Review,
         FailVerification, RejectCandidate, Leave, End, Monitor, Commit, durable
<1>1. r \in Runs /\ log \in [Runs -> Seq(Events)] /\ log[r] \in Seq(Events)
  BY Parts DEF AppInv, Typed
<1>2. CASE log' = log
  BY <1>0, <1>2 DEF Lasting
<1>3. CASE launch[l].st = "acquire" /\ launch[l].create /\ log' = [log EXCEPT ![r] = <<Event("created", 0)>>]
  <2>1. r \in reserved
    BY <1>3 DEF Booked
  <2>2. log'[r] # <<>> /\ \A t \in Runs : t # r => log'[t] = log[t]
    BY <1>1, <1>3
  <2> QED
    BY <1>0, <2>1, <2>2 DEF Lasting
<1>4. CASE launch[l].st \in Working /\ \E e : log' = [log EXCEPT ![r] = Append(@, e)]
  <2>1. log[r] # <<>>
    <3>1. lease[r] = l /\ l # 0
      BY <1>1, <1>4, Parts DEF AppInv, Leased
    <3> QED
      BY <1>1, <3>1 DEF AppInv, Leased
  <2>2. PICK e : log' = [log EXCEPT ![r] = Append(@, e)]
    BY <1>4
  <2>3. log'[r] = Append(log[r], e) /\ \A t \in Runs : t # r => log'[t] = log[t]
    BY <1>1, <2>2
  <2>4. Append(log[r], e) # <<>>
    <3> DEFINE s == log[r] S == Events \cup {e}
    <3>1. s \in Seq(S) /\ e \in S
      BY <1>1
    <3> HIDE DEF s, S
    <3>2. Append(s, e) # <<>>
      BY <3>1
    <3> QED
      BY <3>2 DEF s
  <2> QED
    BY <1>0, <2>1, <2>3, <2>4 DEF Lasting
<1>5. \/ log' = log
      \/ launch[l].st = "acquire" /\ launch[l].create /\ log' = [log EXCEPT ![r] = <<Event("created", 0)>>]
      \/ launch[l].st \in Working /\ \E e : log' = [log EXCEPT ![r] = Append(@, e)]
  <2>1. Acquire(l) => \/ log' = log
                      \/ /\ launch[l].st = "acquire" /\ launch[l].create
                         /\ log' = [log EXCEPT ![r] = <<Event("created", 0)>>]
    BY DEF Acquire, Refuse, Withdraw, Hold, durable
  <2>2. Boot(l) \/ Emit(l) \/ Drained(l) \/ Review(l) \/ Leave(l) \/ Monitor(l) => log' = log
    BY DEF Boot, Emit, Drained, Review, Leave, Monitor, durable
  <2>3. Handle(l) => log' = log \/ (launch[l].st \in Working /\ \E e : log' = [log EXCEPT ![r] = Append(@, e)])
    BY DEF Handle, Ready, Working
  <2>4. Propose(l) \/ FailVerification(l) \/ RejectCandidate(l) \/ End(l)
          => launch[l].st \in Working /\ \E e : log' = [log EXCEPT ![r] = Append(@, e)]
    BY DEF Propose, FailVerification, RejectCandidate, End, Commit, Ready, Working
  <2> QED
    BY <2>1, <2>2, <2>3, <2>4 DEF LaunchStep
<1> QED
  BY <1>0, <1>2, <1>3, <1>4, <1>5

\* A launch that waits for its run was waiting for it before.
LEMMA LaunchWaits ==
    ASSUME AppInv, NEW l \in DOMAIN launch, LaunchStep(l) \/ Monitor(l)
    PROVE  /\ DOMAIN launch' = DOMAIN launch
           /\ \A k \in DOMAIN launch : launch'[k].st = "acquire" => launch'[k] = launch[k] \/
                 (/\ launch[k].st = "acquire" /\ launch'[k].run = launch[k].run
                  /\ launch'[k].create = launch[k].create)
<1> DEFINE z == launch[l]
<1>1. launch \in Seq(Launches) /\ z \in Launches
  BY Parts DEF AppInv, Typed
<1>2. CASE UNCHANGED launch
  BY <1>2
<1>3. ASSUME NEW x, launch' = [launch EXCEPT ![l] = x],
             x.st = "acquire" => z.st = "acquire" /\ x.run = z.run /\ x.create = z.create
      PROVE  /\ DOMAIN launch' = DOMAIN launch
             /\ \A k \in DOMAIN launch : launch'[k].st = "acquire" => launch'[k] = launch[k] \/
                   (/\ launch[k].st = "acquire" /\ launch'[k].run = launch[k].run
                    /\ launch'[k].create = launch[k].create)
  BY <1>1, <1>3
<1>4. \A ready : Closed(z, ready).st = "over"
  BY DEF Closed, NewLaunch
<1>5. ASSUME NEW ready, launch' = [launch EXCEPT ![l] = Closed(z, ready)]
      PROVE  \E x : /\ launch' = [launch EXCEPT ![l] = x]
                    /\ x.st = "acquire" => z.st = "acquire" /\ x.run = z.run /\ x.create = z.create
  BY <1>4, <1>5
<1>6. CASE Acquire(l)
  <2>1. CASE \E ready : launch' = [launch EXCEPT ![l] = Closed(z, ready)]
    BY <1>3, <1>5, <2>1
  <2>2. CASE Hold(l)
    <3> DEFINE x == [z EXCEPT !.ready = "ok", !.st = "gated"]
    <3>1. x.st = "gated" /\ launch' = [launch EXCEPT ![l] = x]
      BY <1>1, <2>2 DEF Hold, Launches
    <3> HIDE DEF x
    <3> QED
      BY <1>3, <3>1
  <2> QED
    BY <1>6, <2>1, <2>2 DEF Acquire, Refuse, Withdraw
<1>7. CASE Boot(l)
  <2>0. PICK st \in {"end", "drain", "loop", "review", "reject"} :
            \E goal : launch' = [launch EXCEPT ![l] = [z EXCEPT !.st = st, !.goal = goal]]
    BY <1>7 DEF Boot
  <2>1. PICK goal : launch' = [launch EXCEPT ![l] = [z EXCEPT !.st = st, !.goal = goal]]
    BY <2>0
  <2> DEFINE x == [z EXCEPT !.st = st, !.goal = goal]
  <2>2. x.st = st /\ launch' = [launch EXCEPT ![l] = x]
    BY <1>1, <2>1 DEF Launches
  <2> HIDE DEF x
  <2> QED
    BY <1>3, <2>2
<1>8. CASE Emit(l)
  <2> DEFINE x == [z EXCEPT !.told = TRUE, !.ack = 0]
  <2>1. launch' = [launch EXCEPT ![l] = Closed(z, "ok")] \/ launch' = [launch EXCEPT ![l] = x]
    BY <1>8 DEF Emit
  <2>2. x.st = z.st /\ x.run = z.run /\ x.create = z.create
    <3> HIDE DEF z
    <3> QED
      BY <1>1 DEF Launches
  <2> HIDE DEF x
  <2> QED
    BY <1>3, <1>5, <2>1, <2>2
<1>9. CASE Handle(l)
  <2>1. z.st \in {"drain", "loop"}
    BY <1>9 DEF Handle, Ready
  <2> DEFINE m == Head(z.queue) rest == [z EXCEPT !.queue = Tail(@)]
             x == [rest EXCEPT !.told = FALSE, !.ack = m.id,
                               !.st = IF m.kind = "cancel" THEN "end" ELSE @,
                               !.goal = IF m.kind = "cancel" THEN "Cancelled" ELSE @]
  <2>2. launch' = [launch EXCEPT ![l] = x] \/ launch' = [launch EXCEPT ![l] = rest]
    BY <1>9 DEF Handle
  <2>3. rest.st = z.st /\ DOMAIN rest = DOMAIN z
    <3> HIDE DEF z
    <3> QED
      BY <1>1 DEF Launches
  <2>4. x.st # "acquire"
    <3>1. "st" \in DOMAIN rest /\ rest.st # "acquire"
      <4>1. "st" \in DOMAIN z
        BY <1>1 DEF Launches
      <4> QED
        BY <2>1, <2>3, <4>1
    <3> HIDE DEF rest
    <3> QED
      BY <3>1
  <2> HIDE DEF x, rest
  <2> QED
    BY <1>3, <2>1, <2>2, <2>3, <2>4
<1>10. CASE Propose(l) \/ FailVerification(l) \/ RejectCandidate(l) \/ End(l)
  <2>1. \E e, goal : \E st \in Stages \ {"acquire"} : Commit(l, e, st, goal)
    <3>0. {"leave", "review", "reject", "loop", "end", "last"} \subseteq Stages \ {"acquire"}
      BY DEF Stages, Working
    <3>1. CASE Propose(l)
      <4>1. PICK st \in {"leave", "review"} : Commit(l, Event("proposed", 0), st, "none")
        BY <3>1 DEF Propose
      <4> QED
        BY <3>0, <4>1, Zenon
    <3>2. CASE FailVerification(l)
      <4>1. Commit(l, Event("failed", 0), "reject", "none")
        BY <3>2 DEF FailVerification
      <4> QED
        BY <3>0, <4>1, Zenon
    <3>3. CASE RejectCandidate(l)
      <4>1. \/ Commit(l, Event("rejected", 0), "loop", "none")
            \/ Commit(l, Event("rejected", 0), "end", "Completed")
        BY <3>3 DEF RejectCandidate
      <4> QED
        BY <3>0, <4>1, Zenon
    <3>4. CASE End(l)
      <4>1. Commit(l, Event(z.goal, 0), "last", z.goal)
        BY <3>4 DEF End
      <4> QED
        BY <3>0, <4>1, Zenon
    <3> QED
      BY <1>10, <3>1, <3>2, <3>3, <3>4
  <2>3. PICK e, goal : \E st \in Stages \ {"acquire"} : Commit(l, e, st, goal)
    BY <2>1
  <2>4. PICK st \in Stages \ {"acquire"} : Commit(l, e, st, goal)
    BY <2>3
  <2> DEFINE x == [z EXCEPT !.st = st, !.goal = goal, !.told = FALSE, !.ack = e.id]
  <2>2. x.st = st /\ launch' = [launch EXCEPT ![l] = x]
    BY <1>1, <2>4 DEF Launches, Commit
  <2> HIDE DEF x
  <2> QED
    BY <1>3, <2>2
<1>11. CASE Drained(l) \/ Review(l)
  <2>1. PICK goal : \/ \E st \in {"leave", "review"} : launch' = [launch EXCEPT ![l] = [z EXCEPT !.st = st]]
                    \/ launch' = [launch EXCEPT ![l] = [z EXCEPT !.st = "end", !.goal = goal]]
    BY <1>11 DEF Drained, Review
  <2>2. CASE launch' = [launch EXCEPT ![l] = [z EXCEPT !.st = "end", !.goal = goal]]
    <3> DEFINE x == [z EXCEPT !.st = "end", !.goal = goal]
    <3>1. x.st = "end" /\ launch' = [launch EXCEPT ![l] = x]
      BY <1>1, <2>2 DEF Launches
    <3> HIDE DEF x
    <3> QED
      BY <1>3, <3>1
  <2>3. ASSUME NEW st \in {"leave", "review"}, launch' = [launch EXCEPT ![l] = [z EXCEPT !.st = st]]
        PROVE  \E x : launch' = [launch EXCEPT ![l] = x] /\ x.st # "acquire"
    <3> DEFINE x == [z EXCEPT !.st = st]
    <3>1. x.st = st /\ launch' = [launch EXCEPT ![l] = x]
      BY <1>1, <2>3 DEF Launches
    <3> HIDE DEF x
    <3> QED
      BY <3>1
  <2> QED
    BY <1>3, <2>1, <2>2, <2>3
<1>12. CASE Leave(l)
  BY <1>3, <1>5, <1>12 DEF Leave
<1>13. CASE Monitor(l)
  BY <1>2, <1>13 DEF Monitor
<1> QED
  BY <1>6, <1>7, <1>8, <1>9, <1>10, <1>11, <1>12, <1>13 DEF LaunchStep

-----------------------------------------------------------------------------
(* The application under its clients *)

\* What a step of the application leaves to the clients.
Kept ==
    /\ reserved \subseteq reserved'
    /\ \A r \in Runs : log[r] # <<>> => log'[r] # <<>>
    /\ \A c \in Callers : /\ req'[c].kind = req[c].kind /\ req'[c].run = req[c].run
                          /\ req'[c].after = req[c].after

\* A request that moves on.
LEMMA OnwardKeeps ==
    ASSUME AppInv, Booked, NEW c \in Callers, Onward(c),
           \A l \in DOMAIN launch' : launch'[l].st = "acquire" /\ launch'[l].create => launch'[l].run \in reserved'
    PROVE  Booked' /\ Kept
<1>1. PICK q : Moves(c, q) /\ InPlace(q.kind, q.pc) /\ Holds(q, reserved')
  BY DEF Onward
<1>2. req'[c] = q /\ \A d \in Callers : d # c => req'[d] = req[d]
  BY <1>1 DEF Moves, AppInv, Typed
<1>3. UNCHANGED log /\ reserved \subseteq reserved'
  BY DEF Onward
<1>4. Kept
  BY <1>1, <1>2, <1>3 DEF Kept, Moves
<1>5. ASSUME NEW d \in Callers
      PROVE  InPlace(req'[d].kind, req'[d].pc) /\ Holds(req'[d], reserved')
  <2>1. CASE d = c
    BY <1>1, <1>2, <2>1
  <2>2. CASE d # c
    <3>1. req'[d] = req[d]
      BY <1>2, <2>2
    <3> QED
      BY <1>3, <3>1 DEF Booked, Holds
  <2> QED
    BY <2>1, <2>2
<1>6. \A r \in Runs : log'[r] # <<>> => r \in reserved'
  BY <1>3 DEF Booked
<1> QED
  BY <1>4, <1>5, <1>6 DEF Booked

LEMMA ApplicationKeeps ==
    ASSUME AppInv, Booked, AppStep \/ \E c \in Callers : FollowStep(c)
    PROVE  AppInv' /\ Booked' /\ Kept
<1>1. ASSUME NEW c \in Callers, RequestStep(c) \/ FollowStep(c) PROVE AppInv' /\ Booked' /\ Kept
  <2>1. AppInv'
    BY <1>1, RequestStepKeeps, LookingActions DEF FollowStep
  <2>2. CASE AwaitReady(c) \/ Register(c) \/ SendControl(c)
    <3>1. Onward(c) /\ SameLaunches
      BY <2>2, CallsOnward
    <3>2. \A l \in DOMAIN launch' : launch'[l].st = "acquire" /\ launch'[l].create => launch'[l].run \in reserved'
      BY <3>1 DEF SameLaunches, Onward, Booked
    <3> QED
      BY <2>1, <3>1, <3>2, OnwardKeeps
  <2>3. CASE Compose(c)
    <3> DEFINE n == Len(launch) + 1
    <3>1. /\ Onward(c) /\ DOMAIN launch' = 1 .. n
          /\ \A l \in DOMAIN launch : launch'[l] = launch[l]
          /\ launch'[n].run = req[c].run /\ launch'[n].create = (req[c].kind \in Creations)
      BY <2>3, ComposesOnward
    <3>2. req[c].pc = "compose" /\ Len(launch) \in Nat /\ DOMAIN launch = 1 .. Len(launch)
      BY <2>3, Parts DEF Compose, at, AppInv
    <3>3. launch'[n].create => launch'[n].run \in reserved
      BY <3>1, <3>2 DEF Booked, Holds
    <3>4. \A l \in DOMAIN launch' : launch'[l].st = "acquire" /\ launch'[l].create => launch'[l].run \in reserved
      <4>1. \A l \in DOMAIN launch' : l \in DOMAIN launch \/ l = n
        BY <3>1, <3>2
      <4> HIDE DEF n
      <4> QED
        BY <3>1, <3>3, <4>1 DEF Booked
    <3>5. \A l \in DOMAIN launch' : launch'[l].st = "acquire" /\ launch'[l].create => launch'[l].run \in reserved'
      BY <3>1, <3>4 DEF Onward
    <3> QED
      BY <2>1, <3>1, <3>5, OnwardKeeps
  <2>4. CASE \/ Reserve(c) \/ LoadSource(c) \/ LoadResume(c) \/ CheckBusy(c)
             \/ LoadProposal(c, "load", "retire") \/ LoadProposal(c, "reload", "compose") \/ Retire(c) \/ Rouse(c)
             \/ Rejoin(c) \/ Unfit(c) \/ Get(c) \/ Read(c) \/ CheckActive(c) \/ Wakes(c)
             \/ LoadControl(c) \/ Unacknowledged(c) \/ AfterRace(c)
    <3>1. Onward(c) /\ launch' = launch
      BY <2>4, LooksOnward
    <3>2. \A l \in DOMAIN launch' : launch'[l].st = "acquire" /\ launch'[l].create => launch'[l].run \in reserved'
      BY <3>1 DEF Onward, Booked
    <3> QED
      BY <2>1, <3>1, <3>2, OnwardKeeps
  <2> QED
    BY <1>1, <2>2, <2>3, <2>4 DEF RequestStep, FollowStep
<1>2. ASSUME NEW l \in DOMAIN launch, LaunchStep(l) \/ Monitor(l) PROVE AppInv' /\ Booked' /\ Kept
  <2>1. AppInv'
    BY <1>2, LaunchStepKeeps, MonitorKeeps
  <2>2. req' \in [Callers -> Request] /\ \A c \in Callers : Rung(req[c], req'[c])
    BY <1>2, LaunchRings
  <2>3. Lasting /\ UNCHANGED reserved
    BY <1>2, LaunchLasts
  <2>4. /\ DOMAIN launch' = DOMAIN launch
        /\ \A k \in DOMAIN launch : launch'[k].st = "acquire" => launch'[k] = launch[k] \/
              (/\ launch[k].st = "acquire" /\ launch'[k].run = launch[k].run
               /\ launch'[k].create = launch[k].create)
    BY <1>2, LaunchWaits
  <2>5. Kept
    BY <2>2, <2>3 DEF Kept, Lasting, Rung, Nudged
  <2>6. ASSUME NEW c \in Callers
        PROVE  InPlace(req'[c].kind, req'[c].pc) /\ Holds(req'[c], reserved')
    <3>1. Nudged(req[c], req'[c]) /\ InPlace(req[c].kind, req[c].pc)
      BY <2>2 DEF Rung, Booked
    <3>2. InPlace(req'[c].kind, req'[c].pc)
      BY <3>1 DEF Nudged, InPlace
    <3>3. req'[c].kind = req[c].kind /\ req'[c].run = req[c].run /\ (req'[c].pc = "compose" => req[c].pc = "compose")
      BY <3>1 DEF Nudged
    <3> QED
      BY <2>3, <3>1, <3>2, <3>3 DEF Booked, Holds, Nudged
  <2>7. \A k \in DOMAIN launch' : launch'[k].st = "acquire" /\ launch'[k].create => launch'[k].run \in reserved'
    BY <2>3, <2>4 DEF Booked
  <2>8. \A r \in Runs : log'[r] # <<>> => r \in reserved'
    BY <2>3 DEF Lasting, Booked
  <2>9. Booked'
    BY <2>6, <2>7, <2>8 DEF Booked
  <2> QED
    BY <2>1, <2>5, <2>9
<1> QED
  BY <1>1, <1>2 DEF AppStep

-----------------------------------------------------------------------------
(* Requests of the UI and of the monitors *)

\* Everybody but c keeps its request, and c has one with these parts.
Asks(c, kind, r, after) ==
    /\ req'[c].kind = kind /\ req'[c].run = r /\ req'[c].after = after
    /\ \A d \in Callers : d # c => req'[d] = req[d]

LEMMA Begins ==
    ASSUME AppInv, Booked, NEW c \in Callers, NEW kind \in Kinds \cup {"wait", "get"}, NEW r \in Runs,
           NEW source \in Runs \cup {None}, NEW id \in Nat, NEW after \in Nat,
           Begin(c, kind, r, source, id, after)
    PROVE  Booked' /\ Asks(c, kind, r, after) /\ UNCHANGED <<log, reserved>>
<1> DEFINE pc == IF kind \in {"start", "recover"} THEN "reserve"
                 ELSE IF kind = "wait" THEN "read" ELSE IF kind = "get" THEN "get" ELSE "load"
           q == NewRequest(kind, r, source, id, after)
<1>1. q = [Idle EXCEPT !.kind = kind, !.run = r, !.source = source, !.id = id, !.after = after, !.pc = pc]
  BY DEF NewRequest
<1>2. q.kind = kind /\ q.run = r /\ q.pc = pc /\ q.after = after /\ q.answer = "none"
  <2> HIDE DEF pc
  <2> QED
    BY <1>1 DEF Idle
<1>3. req' = [req EXCEPT ![c] = q] /\ UNCHANGED <<log, lease, reserved, launch>>
  BY DEF Begin, durable, process
<1>4. InPlace(kind, pc) /\ (kind \in Creations => pc \in {"load", "reserve"})
  BY DEF InPlace, Kinds, Controls, Creations
<1> HIDE DEF q, pc
<1>5. req'[c] = q /\ \A d \in Callers : d # c => req'[d] = req[d]
  BY <1>3 DEF AppInv, Typed
<1>6. InPlace(q.kind, q.pc) /\ Holds(q, reserved)
  BY <1>2, <1>4 DEF Holds
<1>7. \A d \in Callers : InPlace(req'[d].kind, req'[d].pc) /\ Holds(req'[d], reserved')
  BY <1>3, <1>5, <1>6 DEF Booked
<1> QED
  BY <1>2, <1>3, <1>5, <1>7 DEF Asks, Booked

\* An answer that is taken.
LEMMA Rests ==
    ASSUME AppInv, Booked, NEW c \in Callers, at(c, "done"), req' = [req EXCEPT ![c] = Idle],
           UNCHANGED <<durable, process, asked>>
    PROVE  AppInv' /\ Booked' /\ Asks(c, "none", None, 0) /\ UNCHANGED <<log, reserved>>
<1>1. /\ UNCHANGED <<log, lease, reserved, launch, active, monitors, asked>> /\ reserved' \subseteq Runs
      /\ req[c].pc # "register" /\ Len(launch) \in Nat
  BY Parts DEF durable, process, at, AppInv, Typed
<1>2. Placed(Idle, launch, log, asked) /\ KeptOut(Idle, launch, log, asked) /\ Idle.kind \notin Controls
  BY <1>1, IdleRequest DEF Placed, KeptOut, Controls
<1>3. AppInv'
  BY <1>1, <1>2, IdleRequest, RequestAlone
<1>4. req'[c] = Idle /\ \A d \in Callers : d # c => req'[d] = req[d]
  BY DEF AppInv, Typed
<1>5. Idle.run = None /\ Idle.after = 0
  BY DEF Idle
<1>6. InPlace(Idle.kind, Idle.pc) /\ Holds(Idle, reserved)
  BY IdleRequest DEF InPlace, Holds, Creations
<1>7. \A d \in Callers : InPlace(req'[d].kind, req'[d].pc) /\ Holds(req'[d], reserved')
  BY <1>1, <1>4, <1>6 DEF Booked
<1> QED
  BY <1>1, <1>3, <1>4, <1>5, <1>7, IdleRequest DEF Asks, Booked

LEMMA Unmoved ==
    ASSUME AppInv, Booked, UNCHANGED appVars
    PROVE  AppInv' /\ Booked' /\ UNCHANGED <<log, reserved, req>>
  BY DEF appVars, AppInv, Typed, Coherent, Leased, Registered, Attended, Reached, at, Withheld, Single, Booked

LEMMA Reboots ==
    ASSUME AppInv, Booked, Restart
    PROVE  AppInv' /\ Booked'
<1>1. /\ req' = [c \in Callers |-> Idle] /\ UNCHANGED <<log, reserved>>
      /\ launch' = [l \in DOMAIN launch |-> Closed(launch[l], "none")]
  BY DEF Restart
<1>2. AppInv'
  BY RestartKeeps
<1>3. \A c \in Callers : InPlace(req'[c].kind, req'[c].pc) /\ Holds(req'[c], reserved')
  BY <1>1, IdleRequest DEF InPlace, Holds, Creations
<1>4. \A l \in DOMAIN launch' : launch'[l].st = "over"
  <2>1. \A l \in DOMAIN launch : Closed(launch[l], "none").st = "over"
    BY Parts, ClosedFields DEF AppInv, Readiness
  <2> QED
    BY <1>1, <2>1
<1> QED
  BY <1>1, <1>2, <1>3, <1>4 DEF Booked

-----------------------------------------------------------------------------
(* TuiRunClientState *)

\* A candidate that is taken away.
LEMMA DismissedFields ==
    ASSUME NEW k \in Clients, NEW r
    PROVE  LET j == Dismissed(k, r) IN
           /\ j \in Clients /\ j.cursor = k.cursor /\ j.monitored = k.monitored /\ j.restart = k.restart
           /\ j.current = k.current /\ j.latest = k.latest /\ j.pending = Unless(r, k.pending)
           /\ k.pending # r => j = k
<1> DEFINE x == [k EXCEPT !.pending = None, !.offer = 0]
<1>1. /\ x \in Clients /\ x.cursor = k.cursor /\ x.monitored = k.monitored /\ x.restart = k.restart
      /\ x.current = k.current /\ x.latest = k.latest /\ x.pending = None
  BY DEF Clients
<1>2. Dismissed(k, r) = IF k.pending = r THEN x ELSE k
  BY DEF Dismissed
<1> HIDE DEF x
<1> QED
  BY <1>1, <1>2 DEF Unless

LEMMA RecordFields ==
    ASSUME NEW k \in Clients, NEW r \in Runs, NEW n \in Nat
    PROVE  LET j == RecordEvent(k, r, n) IN
           /\ j \in Clients /\ j.cursor = [k.cursor EXCEPT ![r] = n]
           /\ j.monitored = k.monitored /\ j.restart = k.restart
           /\ j.current \in {k.current, None} /\ j.pending \in {k.pending, r, None}
<1> DEFINE j == [k EXCEPT !.cursor[r] = n]
           u == Dismissed(j, r)
           a == [j EXCEPT !.pending = r, !.offer = n, !.current = Unless(r, @), !.latest = None]
           c == [u EXCEPT !.current = Unless(r, @), !.latest = r]
           d == [u EXCEPT !.current = Unless(r, @), !.latest = None]
<1>1. /\ j \in Clients /\ j.cursor = [k.cursor EXCEPT ![r] = n] /\ j.monitored = k.monitored
      /\ j.restart = k.restart /\ j.current = k.current /\ j.pending = k.pending
  BY DEF Clients
<1>2. RecordEvent(k, r, n) \in {a, u, c, d, j}
  BY DEF RecordEvent
<1> HIDE DEF j
<1>3. /\ u \in Clients /\ u.cursor = j.cursor /\ u.monitored = j.monitored /\ u.restart = j.restart
      /\ u.current = j.current /\ u.pending \in {j.pending, None}
  BY <1>1, DismissedFields DEF Unless
<1> HIDE DEF u
<1>4. ASSUME NEW x \in {a, c, d}
      PROVE  /\ x \in Clients /\ x.cursor = j.cursor /\ x.monitored = j.monitored /\ x.restart = j.restart
             /\ x.current \in {j.current, None} /\ x.pending \in {j.pending, r, None}
  <2> DEFINE uc == Unless(r, j.current)
  <2>2. /\ a = [j EXCEPT !.pending = r, !.offer = n, !.current = uc, !.latest = None]
        /\ c = [u EXCEPT !.current = uc, !.latest = r]
        /\ d = [u EXCEPT !.current = uc, !.latest = None]
    BY <1>1, <1>3 DEF Clients
  <2>3. uc \in {j.current, None}
    BY DEF Unless
  <2> HIDE DEF uc
  <2>4. CASE x = a
    BY <1>1, <2>2, <2>3, <2>4 DEF Clients
  <2>6. CASE x = c
    BY <1>1, <1>3, <2>2, <2>3, <2>6 DEF Clients
  <2>7. CASE x = d
    BY <1>1, <1>3, <2>2, <2>3, <2>7 DEF Clients
  <2> QED
    BY <2>4, <2>6, <2>7
<1> HIDE DEF a, c, d
<1> QED
  BY <1>1, <1>2, <1>3, <1>4

\* The candidate of a view, whatever part of the log it shows.
LEMMA OfferPlace ==
    ASSUME NEW s, DOMAIN s \subseteq Nat
    PROVE  Offer(s) \in Nat
<1>1. CASE Pending(s)
  <2> DEFINE P(i) == Offers(s, i)
  <2>1. Offer(s) = CHOOSE i \in DOMAIN s : P(i)
    BY <1>1 DEF Offer
  <2>2. \E i \in DOMAIN s : P(i)
    BY <1>1 DEF Pending
  <2> HIDE DEF P
  <2>3. (CHOOSE i \in DOMAIN s : P(i)) \in DOMAIN s
    BY <2>2
  <2> QED
    BY <2>1, <2>3
<1>2. CASE ~Pending(s)
  BY <1>2 DEF Offer
<1> QED
  BY <1>1, <1>2

LEMMA ObserveFields ==
    ASSUME NEW k \in Clients, NEW r \in Runs, NEW s, DOMAIN s \subseteq Nat
    PROVE  LET j == ObserveRun(k, r, s) IN
           /\ j \in Clients /\ j.cursor = k.cursor /\ j.monitored = k.monitored /\ j.restart = k.restart
           /\ j.pending \in {r, None}
<1> DEFINE j == IF k.pending = r THEN k ELSE Dismissed(k, k.pending)
           u == Dismissed(j, r)
           uc == Unless(r, k.current)
           latest == IF Continues(s) THEN r ELSE None
           n == Offer(s)
           a == [u EXCEPT !.current = uc, !.latest = latest]
           b == [j EXCEPT !.pending = r, !.offer = n, !.current = uc, !.latest = None]
           c == [j EXCEPT !.current = r]
<1>1. /\ j \in Clients /\ j.cursor = k.cursor /\ j.monitored = k.monitored /\ j.restart = k.restart
      /\ j.current = k.current /\ j.pending \in {r, None}
  BY DismissedFields DEF Unless
<1> HIDE DEF j
<1>2. /\ u \in Clients /\ u.cursor = j.cursor /\ u.monitored = j.monitored /\ u.restart = j.restart
      /\ u.current = j.current /\ u.pending \in {r, None}
  BY <1>1, DismissedFields DEF Unless
<1> HIDE DEF u
<1>3. uc \in {k.current, None} /\ latest \in {r, None} /\ n \in Nat
  BY OfferPlace DEF Unless
<1>4. ObserveRun(k, r, s) \in {a, b, c}
  <2>1. u.current = k.current /\ j.current = k.current
    BY <1>1, <1>2
  <2>2. a = [u EXCEPT !.current = Unless(r, @), !.latest = IF Continues(s) THEN r ELSE None]
    BY <1>2, <2>1 DEF Clients
  <2>3. b = [j EXCEPT !.pending = r, !.offer = Offer(s), !.current = Unless(r, @), !.latest = None]
    BY <1>1, <2>1 DEF Clients
  <2> HIDE DEF a, b
  <2> QED
    BY <2>2, <2>3 DEF ObserveRun, j, u
<1> HIDE DEF uc, latest, n
<1>5. ASSUME NEW x \in {a, b, c}
      PROVE  /\ x \in Clients /\ x.cursor = k.cursor /\ x.monitored = k.monitored /\ x.restart = k.restart
             /\ x.pending \in {r, None}
  <2>1. CASE x = a
    BY <1>1, <1>2, <1>3, <2>1 DEF Clients
  <2>2. CASE x = b
    BY <1>1, <1>3, <2>2 DEF Clients
  <2>3. CASE x = c
    BY <1>1, <2>3 DEF Clients
  <2> QED
    BY <2>1, <2>2, <2>3
<1> HIDE DEF a, b, c
<1> QED
  BY <1>4, <1>5

LEMMA MonitoredFields ==
    ASSUME NEW k \in Clients, NEW r \in Runs
    PROVE  LET j == Monitored(k, r) IN
           /\ j \in Clients /\ j.cursor = k.cursor /\ j.pending = k.pending /\ j.current = k.current
           /\ j.monitored = k.monitored \cup {r} /\ j.offer = k.offer
  BY DEF Monitored, Clients

-----------------------------------------------------------------------------
(* The monitors *)

\* A step of the monitor of run r, which takes nothing back.
LEMMA FollowerKeeps ==
    ASSUME ClientInv, NEW r \in Runs, mon[r].st # "off", AppInv', Booked',
           UNCHANGED <<log, reserved, shown, ui>>,
           \A d \in Callers : d # r => req'[d] = req[d],
           mon' \in [Runs -> Followers], \A s \in Runs : s # r => mon'[s] = mon[s],
           client' \in Clients, client'.monitored = {s \in Runs : mon'[s].st # "off"},
           \A s \in Runs : s # r => client'.cursor[s] = client.cursor[s],
           client'.pending \in {client.pending, r, None},
           channel' \in Seq(Runs \X Nat), \A s \in Runs, n \in Nat : Delivered(s, n) => Delivered(s, n)',
           GapFree', misled' \subseteq Misleading,
           mon'[r].st \in {"record", "send"} => mon'[r].next # 0, Patient => Keeping(r)'
    PROVE  ClientInv'
<1>1. Ui \in Callers /\ Ui # r /\ None # r /\ None \notin Runs
  BY ClientAssumption, ApplicationAssumption
<1>2. r \in client.monitored /\ r \in reserved
  BY DEF ClientInv, UiInv, Followed
<1>3. ~ui.fresh
  BY <1>2 DEF ClientInv, UiInv, Awaited, Blank
<1>4. ClientTyped'
  BY DEF ClientTyped, ClientInv, UiInv
<1>5. Awaited'
  BY <1>1, <1>3 DEF Awaited, ClientInv, UiInv
<1>6. Followed'
  <2>1. ASSUME NEW s \in Runs, s # r
        PROVE  /\ client'.cursor[s] # 0 \/ mon'[s].st # "off" => s \in reserved'
               /\ mon'[s].st \in {"record", "send"} => mon'[s].next # 0
    BY <2>1 DEF ClientInv, UiInv, Followed
  <2> QED
    BY <1>2, <2>1 DEF Followed
<1>7. ASSUME Patient PROVE Delivering'
  <2>1. Starting /\ \A s \in Runs : Keeping(s)
    BY <1>7 DEF ClientInv, UiInv, Delivering
  <2>2. Starting'
    <3>1. ui.op \notin {"open", "resume"}
      BY <1>2, <2>1 DEF Starting
    <3>2. ui.op \in {"submit", "recover"} => ui.run \in Runs /\ ui.run # r
      BY <2>1 DEF Starting, ClientInv, UiInv, Awaited
    <3> QED
      BY <2>1, <3>1, <3>2 DEF Starting
  <2>3. ASSUME NEW s \in Runs, s # r PROVE Keeping(s)'
    <3>1. /\ mon'[s] = mon[s] /\ req'[s] = req[s] /\ client'.cursor[s] = client.cursor[s] /\ ui' = ui
          /\ client'.pending = s => client.pending = s
      BY <1>1, <2>3, ClientAssumption
    <3>2. client.cursor[s] \in Nat /\ (mon[s].st = "send" => mon[s].next - 1 \in Nat)
      <4>1. mon[s] \in Followers /\ client \in Clients
        BY DEF ClientInv, UiInv, ClientTyped
      <4>2. mon[s].st = "send" => mon[s].next # 0
        BY DEF ClientInv, UiInv, Followed
      <4>3. mon[s].next \in Nat
        BY <4>1 DEF Followers
      <4>4. client.cursor[s] \in Nat
        BY <4>1 DEF Clients
      <4> QED
        BY <4>2, <4>3, <4>4
    <3>3. /\ Delivered(s, client.cursor[s]) => Delivered(s, client.cursor[s])'
          /\ mon[s].st = "send" /\ Delivered(s, mon[s].next - 1) => Delivered(s, mon[s].next - 1)'
      <4> DEFINE n == client.cursor[s] m == mon[s].next - 1
      <4>1. ASSUME NEW k \in Nat, Delivered(s, k)
            PROVE  k <= shown'[s] \/ \E i \in DOMAIN channel' : channel'[i] = <<s, k>>
        BY <4>1 DEF Delivered
      <4>2. n \in Nat /\ (mon[s].st = "send" => m \in Nat) /\ n' = n /\ m' = m
        BY <3>1, <3>2
      <4> HIDE DEF n, m
      <4>3. Delivered(s, n) => Delivered(s, n)'
        BY <4>1, <4>2 DEF Delivered
      <4>4. mon[s].st = "send" /\ Delivered(s, m) => Delivered(s, m)'
        BY <4>1, <4>2 DEF Delivered
      <4> QED
        BY <4>3, <4>4 DEF n, m
    <3>4. Keeping(s)
      BY <2>1
    <3> QED
      BY <3>1, <3>3, <3>4 DEF Keeping
  <2> QED
    BY <1>7, <2>2, <2>3 DEF Delivering
<1> QED
  BY <1>4, <1>5, <1>6, <1>7 DEF ClientInv, UiInv

\* What the invariant says of a monitor and of its run.
LEMMA FollowerParts ==
    ASSUME ClientInv, NEW r \in Runs
    PROVE  /\ r \in Callers /\ Ui \in Callers /\ Ui # r
           /\ mon \in [Runs -> Followers] /\ mon[r] \in Followers /\ mon[r].next \in Nat /\ mon[r].upto \in Nat
           /\ client \in Clients /\ client.cursor[r] \in Nat /\ req[r] \in Request /\ shown[r] \in Nat
           /\ Patient => Keeping(r)
<1>1. r \in Callers /\ Ui \in Callers /\ Ui # r
  BY ClientAssumption
<1>2. /\ mon \in [Runs -> Followers] /\ client \in Clients /\ req \in [Callers -> Request]
      /\ shown \in [Runs -> Nat]
  BY DEF ClientInv, UiInv, ClientTyped, AppInv, Typed
<1>3. mon[r].next \in Nat /\ mon[r].upto \in Nat
  BY <1>2 DEF Followers
<1>4. client.cursor[r] \in Nat
  BY <1>2 DEF Clients
<1>5. Patient => Keeping(r)
  BY DEF ClientInv, UiInv, Delivering
<1> QED
  BY <1>1, <1>2, <1>3, <1>4, <1>5

\* The monitor of run r turns to another place.
LEMMA FollowerTurns ==
    ASSUME ClientInv, NEW r \in Runs, NEW st \in Stops, mon' = [mon EXCEPT ![r].st = st]
    PROVE  /\ mon' \in [Runs -> Followers] /\ mon'[r].st = st /\ mon'[r].next = mon[r].next
           /\ \A s \in Runs : s # r => mon'[s] = mon[s]
<1> DEFINE z == mon[r] x == [z EXCEPT !.st = st]
<1>1. mon \in [Runs -> Followers] /\ z \in Followers
  BY FollowerParts
<1>2. mon' = [mon EXCEPT ![r] = x]
  OBVIOUS
<1>3. x \in Followers /\ x.st = st /\ x.next = z.next
  <2> HIDE DEF z
  <2> QED
    BY <1>1 DEF Followers
<1> HIDE DEF x
<1> QED
  BY <1>1, <1>2, <1>3

\* A monitor that stays on keeps its mark.
LEMMA StaysMonitored ==
    ASSUME ClientInv, NEW r \in Runs, mon[r].st # "off", mon'[r].st # "off",
           \A s \in Runs : s # r => mon'[s] = mon[s]
    PROVE  client.monitored = {s \in Runs : mon'[s].st # "off"}
  BY DEF ClientInv, UiInv, Followed

\* Nothing happens to the channel and to the projection.
LEMMA StaysDelivered ==
    ASSUME ClientInv, UNCHANGED <<channel, shown>>
    PROVE  /\ channel' \in Seq(Runs \X Nat) /\ GapFree'
           /\ \A s \in Runs, n \in Nat : Delivered(s, n) <=> Delivered(s, n)'
  BY DEF ClientInv, UiInv, ClientTyped, GapFree, Delivered

LEMMA MonitorAskKeeps ==
    ASSUME ClientInv, NEW r \in Runs, MonitorAsk(r) PROVE ClientInv'
<1>1. /\ r \in Callers /\ client \in Clients /\ client.cursor[r] \in Nat /\ (Patient => Keeping(r))
  BY FollowerParts
<1>2. /\ mon[r].st = "ask" /\ log[r] # <<>> /\ Begin(r, "wait", r, None, 0, client.cursor[r]) /\ asked' = asked
      /\ mon' = [mon EXCEPT ![r].st = "wait"] /\ UNCHANGED <<client, channel, shown, ui, misled>>
  BY DEF MonitorAsk, Watch
<1>3. /\ AppInv /\ Booked /\ None \in Runs \cup {None} /\ 0 \in Nat /\ Founded("wait", r)
      /\ "wait" \in (Kinds \cup {"wait", "get"}) \ Controls
  BY <1>2 DEF ClientInv, Founded, Controls
<1>4. AppInv'
  BY <1>1, <1>2, <1>3, BeginKeeps
<1>5. Booked' /\ Asks(r, "wait", r, client.cursor[r]) /\ UNCHANGED <<log, reserved>>
  BY <1>1, <1>2, <1>3, Begins
<1>6. /\ mon' \in [Runs -> Followers] /\ mon'[r].st = "wait" /\ mon'[r].next = mon[r].next
      /\ \A s \in Runs : s # r => mon'[s] = mon[s]
  BY <1>2, FollowerTurns DEF Stops
<1>7. client.monitored = {s \in Runs : mon'[s].st # "off"}
  BY <1>2, <1>6, StaysMonitored
<1>8. Patient => Keeping(r)'
  BY <1>1, <1>2, <1>5, <1>6 DEF Keeping, Delivered, Asks
<1> QED
  BY <1>1, <1>2, <1>4, <1>5, <1>6, <1>7, <1>8, FollowerKeeps, StaysDelivered
     DEF Asks, ClientInv, UiInv, ClientTyped

LEMMA MonitorTakeKeeps ==
    ASSUME ClientInv, NEW r \in Runs, MonitorTake(r) PROVE ClientInv'
<1> DEFINE q == req[r]
           x == [st |-> "record", from |-> q.after + 1, next |-> q.after + 1, upto |-> q.seen]
           y == [Off EXCEPT !.st = "finish"]
<1>1. /\ r \in Callers /\ client \in Clients /\ client.cursor[r] \in Nat /\ (Patient => Keeping(r))
      /\ mon \in [Runs -> Followers] /\ q \in Request
  BY FollowerParts
<1>2. /\ mon[r].st = "wait" /\ at(r, "done") /\ req' = [req EXCEPT ![r] = Idle]
      /\ UNCHANGED <<durable, process, asked, client, channel, shown, ui>>
      /\ mon' = [mon EXCEPT ![r] = x] \/ mon' = [mon EXCEPT ![r] = y]
      /\ misled' \in {misled, misled \cup {<<r, "unseen">>}}
  BY DEF MonitorTake
<1>3. /\ AppInv' /\ Booked' /\ Asks(r, "none", None, 0) /\ UNCHANGED <<log, reserved>>
  BY <1>1, <1>2, Rests DEF ClientInv
<1>4. /\ x \in Followers /\ x.st = "record" /\ x.next = q.after + 1 /\ x.next # 0
      /\ y \in Followers /\ y.st = "finish"
  BY <1>1 DEF Followers, Stops, Off, Request
<1> HIDE DEF x, y
<1>5. /\ mon' \in [Runs -> Followers] /\ mon'[r] \in {x, y}
      /\ \A s \in Runs : s # r => mon'[s] = mon[s]
  BY <1>1, <1>2, <1>4
<1>6. client.monitored = {s \in Runs : mon'[s].st # "off"}
  BY <1>2, <1>4, <1>5, StaysMonitored
<1>7. Patient => Keeping(r)'
  BY <1>1, <1>2, <1>4, <1>5 DEF Keeping, Delivered
<1>8. misled' \subseteq Misleading
  <2>1. misled \subseteq Misleading
    BY DEF ClientInv, UiInv, ClientTyped
  <2> QED
    BY <1>2, <2>1 DEF Misleading
<1> QED
  BY <1>1, <1>2, <1>3, <1>4, <1>5, <1>6, <1>7, <1>8, FollowerKeeps, StaysDelivered
     DEF Asks, ClientInv, UiInv, ClientTyped

LEMMA MonitorRecordKeeps ==
    ASSUME ClientInv, NEW r \in Runs, MonitorRecord(r) PROVE ClientInv'
<1> DEFINE n == mon[r].next
<1>1. /\ r \in Callers /\ client \in Clients /\ client.cursor[r] \in Nat /\ (Patient => Keeping(r))
      /\ n \in Nat /\ shown[r] \in Nat
  BY FollowerParts
<1>2. /\ mon[r].st = "record" /\ client' = RecordEvent(client, r, n)
      /\ mon' = [mon EXCEPT ![r].st = "send"] /\ UNCHANGED <<appVars, channel, shown, ui>>
      /\ misled' \subseteq misled \cup Misleading
  BY DEF MonitorRecord, Misleading
<1>3. /\ client' \in Clients /\ client'.cursor = [client.cursor EXCEPT ![r] = n]
      /\ client'.monitored = client.monitored /\ client'.pending \in {client.pending, r, None}
  BY <1>1, <1>2, RecordFields
<1>4. /\ mon' \in [Runs -> Followers] /\ mon'[r].st = "send" /\ mon'[r].next = n
      /\ \A s \in Runs : s # r => mon'[s] = mon[s]
  BY <1>2, FollowerTurns DEF Stops
<1>5. client.monitored = {s \in Runs : mon'[s].st # "off"}
  BY <1>2, <1>4, StaysMonitored
<1>6. n # 0
  BY <1>2 DEF ClientInv, UiInv, Followed
<1>7. /\ client'.cursor[r] = n /\ \A s \in Runs : s # r => client'.cursor[s] = client.cursor[s]
  BY <1>1, <1>3 DEF Clients
<1>8. Patient => Keeping(r)'
  <2>1. SUFFICES ASSUME Patient PROVE Keeping(r)'
    OBVIOUS
  <2>2. n - 1 = client.cursor[r] /\ (ui.on => Delivered(r, client.cursor[r]))
    BY <1>1, <1>2, <2>1 DEF Keeping
  <2>3. ui'.on => Delivered(r, mon[r].next - 1)'
    BY <1>2, <1>4, <2>2 DEF Delivered
  <2> QED
    BY <1>4, <1>7, <2>3 DEF Keeping
<1>9. AppInv' /\ Booked' /\ UNCHANGED <<log, reserved, req>>
  BY <1>2, Unmoved DEF ClientInv
<1> QED
  BY <1>2, <1>3, <1>4, <1>5, <1>6, <1>7, <1>8, <1>9, FollowerKeeps, StaysDelivered, SMTT(30)
     DEF ClientInv, UiInv, ClientTyped

\* Event n of run r goes into the channel after its predecessor.
LEMMA Appends ==
    ASSUME ClientInv, NEW r \in Runs, NEW n \in Nat, n # 0, Patient => Delivered(r, n - 1),
           channel' = Append(channel, <<r, n>>), UNCHANGED shown
    PROVE  /\ channel' \in Seq(Runs \X Nat) /\ GapFree'
           /\ \A s \in Runs, m \in Nat : Delivered(s, m) => Delivered(s, m)'
           /\ Delivered(r, n)'
<1> DEFINE e == <<r, n>> k == Len(channel) + 1
<1>1. channel \in Seq(Runs \X Nat) /\ e \in Runs \X Nat /\ shown \in [Runs -> Nat]
  BY DEF ClientInv, UiInv, ClientTyped
<1> HIDE DEF e
<1>2. /\ channel' \in Seq(Runs \X Nat) /\ DOMAIN channel' = 1 .. k /\ channel'[k] = e
      /\ DOMAIN channel = 1 .. k - 1 /\ k \in Nat /\ k # 0
      /\ \A i \in DOMAIN channel : i \in DOMAIN channel' /\ channel'[i] = channel[i]
  BY <1>1 DEF e
<1> HIDE DEF k
<1>3. \A s \in Runs, m \in Nat : Delivered(s, m) => Delivered(s, m)'
  BY <1>2 DEF Delivered
<1>4. Delivered(r, n)'
  BY <1>2 DEF Delivered, e
<1>5. ASSUME Patient, NEW i \in DOMAIN channel'
      PROVE  LET s == channel'[i][1] m == channel'[i][2]
             IN  m <= shown[s] + 1 \/ \E j \in 1 .. i - 1 : channel'[j] = <<s, m - 1>>
  <2>1. CASE i = k
    <3>1. channel'[i][1] = r /\ channel'[i][2] = n
      BY <1>2, <2>1 DEF e
    <3>2. shown[r] \in Nat
      BY <1>1
    <3>3. n - 1 <= shown[r] \/ \E j \in 1 .. k - 1 : channel'[j] = <<r, n - 1>>
      BY <1>2, <1>5 DEF Delivered
    <3> QED
      BY <2>1, <3>1, <3>2, <3>3, SMTT(30)
  <2>2. CASE i # k
    <3>1. i \in DOMAIN channel /\ channel'[i] = channel[i]
      BY <1>2, <2>2
    <3>2. \A j \in 1 .. i - 1 : channel'[j] = channel[j]
      BY <1>2, <3>1
    <3> QED
      BY <1>5, <3>1, <3>2 DEF ClientInv, UiInv, GapFree
  <2> QED
    BY <2>1, <2>2
<1>6. GapFree'
  BY <1>5 DEF GapFree
<1> QED
  BY <1>2, <1>3, <1>4, <1>6

LEMMA MonitorSendKeeps ==
    ASSUME ClientInv, NEW r \in Runs, MonitorSend(r) PROVE ClientInv'
<1> DEFINE z == mon[r]
<1>0. PICK n \in Nat : n = z.next
  BY FollowerParts
<1> DEFINE x == [z EXCEPT !.st = "record", !.next = n + 1]
           y == [Off EXCEPT !.st = IF LastBatch(r) \/ ~ui.on THEN "finish" ELSE "ask"]
<1>1. /\ client \in Clients /\ client.cursor[r] \in Nat /\ (Patient => Keeping(r))
      /\ mon \in [Runs -> Followers] /\ z \in Followers
  BY FollowerParts
<1>2. /\ z.st = "send" /\ UNCHANGED <<appVars, client, shown, ui, misled>>
      /\ channel' = IF ui.on THEN Append(channel, <<r, n>>) ELSE channel
      /\ mon' = [mon EXCEPT ![r] = Sending(r)]
  BY <1>0 DEF MonitorSend
<1>3. /\ x \in Followers /\ x.st = "record" /\ x.next = n + 1
      /\ y \in Followers /\ y.st \in {"finish", "ask"}
  <2>1. y \in Followers /\ y.st \in {"finish", "ask"}
    BY DEF Followers, Stops, Off
  <2> DEFINE m == n + 1
  <2>2. m \in Nat /\ x = [z EXCEPT !.st = "record", !.next = m] /\ z \in Followers
    BY <1>1
  <2> HIDE DEF z, y, m, x
  <2>3. x \in Followers /\ x.st = "record" /\ x.next = m
    BY <2>2 DEF Followers, Stops
  <2> QED
    BY <2>1, <2>3 DEF m
<1>4. Sending(r) = IF ui.on /\ z.next < z.upto THEN x ELSE y
  BY <1>0 DEF Sending
<1> HIDE DEF x, y
<1>5. /\ mon' \in [Runs -> Followers] /\ ((ui.on /\ mon'[r] = x) \/ mon'[r] = y)
      /\ \A s \in Runs : s # r => mon'[s] = mon[s]
  BY <1>1, <1>2, <1>3, <1>4
<1>6. client.monitored = {s \in Runs : mon'[s].st # "off"}
  BY <1>2, <1>3, <1>5, StaysMonitored
<1>7. n # 0
  BY <1>0, <1>2 DEF ClientInv, UiInv, Followed
<1>8. Patient => n = client.cursor[r] /\ (ui.on => Delivered(r, n - 1))
  BY <1>0, <1>1, <1>2 DEF Keeping
<1>9. /\ channel' \in Seq(Runs \X Nat) /\ GapFree'
      /\ \A s \in Runs, m \in Nat : Delivered(s, m) => Delivered(s, m)'
      /\ ui.on => Delivered(r, n)'
  <2>1. CASE ui.on
    <3>1. channel' = Append(channel, <<r, n>>) /\ UNCHANGED shown /\ (Patient => Delivered(r, n - 1))
      BY <1>2, <1>8, <2>1
    <3> QED
      BY <1>7, <3>1, Appends
  <2>2. CASE ~ui.on
    BY <1>2, <2>2, StaysDelivered
  <2> QED
    BY <2>1, <2>2
<1>10. Patient => Keeping(r)'
  <2>1. SUFFICES ASSUME Patient PROVE Keeping(r)'
    OBVIOUS
  <2>2. client'.cursor[r] = n /\ ui' = ui
    BY <1>2, <1>8, <2>1
  <2>3. ui'.on => Delivered(r, client.cursor[r])'
    BY <1>9, <2>2 DEF Delivered
  <2> QED
    BY <1>3, <1>5, <2>2, <2>3 DEF Keeping
<1>11. AppInv' /\ Booked' /\ UNCHANGED <<log, reserved, req>>
  BY <1>2, Unmoved DEF ClientInv
<1>12. mon'[r].st \in {"record", "send"} => mon'[r].next # 0
  BY <1>3, <1>5
<1> QED
  BY <1>1, <1>2, <1>5, <1>6, <1>9, <1>10, <1>11, <1>12, FollowerKeeps DEF ClientInv, UiInv, ClientTyped

LEMMA MonitorFinishKeeps ==
    ASSUME ClientInv, NEW r \in Runs, MonitorFinish(r) PROVE ClientInv'
<1> DEFINE j == [client EXCEPT !.restart = @ \ {r}] k == [client EXCEPT !.monitored = @ \ {r}]
<1>1. /\ client \in Clients /\ client.cursor[r] \in Nat /\ (Patient => Keeping(r))
      /\ mon \in [Runs -> Followers]
  BY FollowerParts
<1>2. mon[r].st = "finish" /\ UNCHANGED <<appVars, channel, shown, ui, misled>>
  BY DEF MonitorFinish
<1>3. AppInv' /\ Booked' /\ UNCHANGED <<log, reserved, req>>
  BY <1>2, Unmoved DEF ClientInv
<1>4. /\ j \in Clients /\ j.cursor = client.cursor /\ j.pending = client.pending /\ j.monitored = client.monitored
      /\ k \in Clients /\ k.cursor = client.cursor /\ k.pending = client.pending
      /\ k.monitored = client.monitored \ {r}
  BY <1>1 DEF Clients
<1>5. /\ Off \in Followers /\ Off.st = "off" /\ Off.next = 0
  BY DEF Off, Followers, Stops
<1>6. \/ client' = j /\ mon' = [mon EXCEPT ![r].st = "ask"]
      \/ client' = k /\ mon' = [mon EXCEPT ![r] = Off]
  BY DEF MonitorFinish
<1> HIDE DEF j, k
<1>7. CASE client' = j /\ mon' = [mon EXCEPT ![r].st = "ask"]
  <2>1. /\ mon' \in [Runs -> Followers] /\ mon'[r].st = "ask"
        /\ \A s \in Runs : s # r => mon'[s] = mon[s]
    BY <1>7, FollowerTurns DEF Stops
  <2>2. client'.monitored = {s \in Runs : mon'[s].st # "off"}
    BY <1>2, <1>4, <1>7, <2>1, StaysMonitored
  <2>3. Patient => Keeping(r)'
    BY <1>1, <1>2, <1>4, <1>7, <2>1 DEF Keeping, Delivered
  <2> QED
    BY <1>2, <1>3, <1>4, <1>7, <2>1, <2>2, <2>3, FollowerKeeps, StaysDelivered DEF ClientInv, UiInv, ClientTyped
<1>8. CASE client' = k /\ mon' = [mon EXCEPT ![r] = Off]
  <2>1. /\ mon' \in [Runs -> Followers] /\ mon'[r].st = "off"
        /\ \A s \in Runs : s # r => mon'[s] = mon[s]
    BY <1>1, <1>5, <1>8
  <2>2. client'.monitored = {s \in Runs : mon'[s].st # "off"}
    BY <1>4, <1>8, <2>1 DEF ClientInv, UiInv, Followed
  <2>3. Patient => Keeping(r)'
    BY <1>1, <1>2, <1>4, <1>8, <2>1 DEF Keeping, Delivered
  <2> QED
    BY <1>2, <1>3, <1>4, <1>8, <2>1, <2>2, <2>3, FollowerKeeps, StaysDelivered DEF ClientInv, UiInv, ClientTyped
<1> QED
  BY <1>6, <1>7, <1>8

LEMMA MonitorStepKeeps ==
    ASSUME ClientInv, NEW r \in Runs, MonitorStep(r) PROVE ClientInv'
  BY MonitorAskKeeps, MonitorTakeKeeps, MonitorRecordKeeps, MonitorSendKeeps, MonitorFinishKeeps DEF MonitorStep

-----------------------------------------------------------------------------
(* The event loop *)

\* A step of the application itself.
LEMMA ApplicationStepKeeps == ASSUME ClientInv, Application PROVE ClientInv'
<1>1. AppInv' /\ Booked' /\ Kept
  BY ApplicationKeeps DEF ClientInv, Application
<1>2. UNCHANGED <<client, mon, channel, shown, ui, misled>> /\ Ui \in Callers /\ Runs \subseteq Callers
  BY ClientAssumption DEF Application, clientVars
<1>3. ClientTyped'
  BY <1>2 DEF ClientTyped, ClientInv, UiInv
<1>4. Awaited'
  BY <1>1, <1>2 DEF Awaited, Kept, ClientInv, UiInv
<1>5. Followed'
  BY <1>1, <1>2 DEF Followed, Kept, ClientInv, UiInv
<1>6. ASSUME Patient PROVE Delivering'
  <2>1. Starting'
    BY <1>2, <1>6 DEF Starting, Delivering, ClientInv, UiInv
  <2>2. ASSUME NEW r \in Runs PROVE Keeping(r)'
    <3>1. Keeping(r) /\ req'[r].after = req[r].after
      BY <1>1, <1>2, <1>6 DEF Kept, Delivering, ClientInv, UiInv
    <3> QED
      BY <1>2, <3>1 DEF Keeping, Delivered
  <2> QED
    BY <2>1, <2>2 DEF Delivering
<1>7. GapFree'
  BY <1>2 DEF GapFree, ClientInv, UiInv
<1> QED
  BY <1>1, <1>3, <1>4, <1>5, <1>6, <1>7 DEF ClientInv, UiInv

LEMMA RebootKeeps == ASSUME ClientInv, Reboot PROVE ClientInv'
<1>1. /\ AppInv' /\ Booked'
  BY Reboots DEF ClientInv, Reboot
<1>2. /\ client' = NewClient /\ mon' = [r \in Runs |-> Off] /\ channel' = <<>>
      /\ shown' = [r \in Runs |-> 0] /\ ui' = NewUi /\ misled' = {}
  BY DEF Reboot
<1>3. NewClient \in Clients /\ Off \in Followers /\ NewUi \in Screens
  BY DEF NewClient, Clients, Off, Followers, Stops, NewUi, Screens
<1>4. ClientTyped'
  BY <1>2, <1>3 DEF ClientTyped
<1>5. ui'.op = "none" /\ Awaited'
  BY <1>2 DEF Awaited, NewUi, NewClient, Blank
<1>6. Followed'
  BY <1>2 DEF Followed, NewClient, Off
<1>7. Delivering'
  <2>1. ASSUME NEW r \in Runs PROVE Keeping(r)'
    BY <1>2, <1>5 DEF Keeping, Delivered, NewClient, Off
  <2> QED
    BY <1>5, <2>1 DEF Delivering, Starting
<1>8. GapFree'
  BY <1>2 DEF GapFree
<1> QED
  BY <1>1, <1>4, <1>5, <1>6, <1>7, <1>8 DEF ClientInv, UiInv

LEMMA NewRootKeeps == ASSUME ClientInv, NewRoot PROVE ClientInv'
<1>1. /\ client' = [client EXCEPT !.latest = None, !.pending = None, !.offer = 0]
      /\ UNCHANGED <<appVars, mon, channel, shown, ui, misled>>
  BY DEF NewRoot
<1>2. AppInv' /\ Booked' /\ UNCHANGED <<log, reserved, req>>
  BY <1>1, Unmoved DEF ClientInv
<1>3. client \in Clients /\ None \notin Runs
  BY ApplicationAssumption DEF ClientInv, UiInv, ClientTyped
<1>4. /\ client' \in Clients /\ client'.cursor = client.cursor /\ client'.monitored = client.monitored
      /\ client'.pending = None
  BY <1>1, <1>3 DEF Clients
<1>5. client'.current = client.current
  BY <1>1, <1>3 DEF Clients
<1>6. ClientTyped'
  BY <1>1, <1>4 DEF ClientTyped, ClientInv, UiInv
<1>7. Awaited'
  BY <1>1, <1>2, <1>4, <1>5 DEF Awaited, Blank, ClientInv, UiInv
<1>8. Followed'
  BY <1>1, <1>2, <1>4 DEF Followed, ClientInv, UiInv
<1>9. ASSUME Patient PROVE Delivering'
  <2>1. Starting'
    BY <1>1, <1>4, <1>9 DEF Starting, Delivering, ClientInv, UiInv
  <2>2. ASSUME NEW r \in Runs PROVE Keeping(r)'
    <3>1. Keeping(r)
      BY <1>9 DEF Delivering, ClientInv, UiInv
    <3> QED
      BY <1>1, <1>2, <1>3, <1>4, <3>1 DEF Keeping, Delivered
  <2> QED
    BY <2>1, <2>2 DEF Delivering
<1>10. GapFree'
  BY <1>1 DEF GapFree, ClientInv, UiInv
<1> QED
  BY <1>2, <1>6, <1>7, <1>8, <1>9, <1>10 DEF ClientInv, UiInv

\* The first event of the channel is shown, or was shown before.
LEMMA Shows ==
    ASSUME ClientInv, channel # <<>>, channel' = Tail(channel), NEW r \in Runs, NEW n \in Nat,
           Head(channel) = <<r, n>>, shown' \in [Runs -> Nat],
           \A s \in Runs : shown[s] <= shown'[s], n <= shown'[r]
    PROVE  /\ channel' \in Seq(Runs \X Nat) /\ GapFree'
           /\ \A s \in Runs, m \in Nat : Delivered(s, m) => Delivered(s, m)'
<1> DEFINE k == Len(channel)
<1>1. channel \in Seq(Runs \X Nat) /\ shown \in [Runs -> Nat]
  BY DEF ClientInv, UiInv, ClientTyped
<1>2. /\ channel' \in Seq(Runs \X Nat) /\ DOMAIN channel' = 1 .. k - 1 /\ channel[1] = <<r, n>>
      /\ DOMAIN channel = 1 .. k /\ k \in Nat /\ k # 0
      /\ \A i \in 1 .. k - 1 : channel'[i] = channel[i + 1]
  BY <1>1
<1> HIDE DEF k
<1>3. \A i \in 2 .. k : i - 1 \in 1 .. k - 1 /\ channel'[i - 1] = channel[i]
  <2>1. ASSUME NEW i \in 2 .. k, NEW j, j = i - 1 PROVE j \in 1 .. k - 1 /\ channel'[j] = channel[i]
    <3>1. j \in 1 .. k - 1 /\ j + 1 = i
      BY <1>2, <2>1
    <3> QED
      BY <1>2, <3>1
  <2> QED
    BY <2>1
<1>4. ASSUME NEW s \in Runs, NEW m \in Nat, Delivered(s, m) PROVE Delivered(s, m)'
  <2>1. shown[s] \in Nat /\ shown'[s] \in Nat /\ shown[s] <= shown'[s]
    BY <1>1
  <2>2. CASE m <= shown[s]
    BY <2>1, <2>2 DEF Delivered
  <2>3. CASE m > shown[s]
    <3>1. PICK i \in DOMAIN channel : channel[i] = <<s, m>>
      BY <1>4, <2>1, <2>3 DEF Delivered
    <3>2. CASE i = 1
      <4>1. s = r /\ m = n
        BY <1>2, <3>1, <3>2
      <4> QED
        BY <4>1 DEF Delivered
    <3>3. CASE i # 1
      <4>1. i - 1 \in DOMAIN channel' /\ channel'[i - 1] = <<s, m>>
        BY <1>2, <1>3, <3>1, <3>3, SMTT(30)
      <4> QED
        BY <4>1 DEF Delivered
    <3> QED
      BY <3>2, <3>3
  <2> QED
    BY <2>1, <2>2, <2>3
<1>5. ASSUME Patient, NEW i \in DOMAIN channel'
      PROVE  LET s == channel'[i][1] m == channel'[i][2]
             IN  m <= shown'[s] + 1 \/ \E j \in 1 .. i - 1 : channel'[j] = <<s, m - 1>>
  <2>1. i \in Nat /\ i + 1 \in DOMAIN channel /\ channel'[i] = channel[i + 1]
    BY <1>2, SMTT(30)
  <2>2. PICK s \in Runs, m \in Nat : channel[i + 1] = <<s, m>>
    BY <1>1, <2>1
  <2>3. m <= shown[s] + 1 \/ \E j \in 1 .. i : channel[j] = <<s, m - 1>>
    <3>1. LET t == channel[i + 1][1] l == channel[i + 1][2]
          IN  l <= shown[t] + 1 \/ \E j \in 1 .. (i + 1) - 1 : channel[j] = <<t, l - 1>>
      BY <1>5, <2>1 DEF ClientInv, UiInv, GapFree
    <3> QED
      BY <2>1, <2>2, <3>1
  <2>4. shown[s] \in Nat /\ shown'[s] \in Nat /\ shown[s] <= shown'[s]
    BY <1>1
  <2>5. m <= shown'[s] + 1 \/ \E j \in 1 .. i - 1 : channel'[j] = <<s, m - 1>>
    <3>1. CASE m <= shown[s] + 1
      BY <2>4, <3>1
    <3>2. ASSUME NEW j \in 1 .. i, channel[j] = <<s, m - 1>>
          PROVE  m <= shown'[s] + 1 \/ \E l \in 1 .. i - 1 : channel'[l] = <<s, m - 1>>
      <4>1. CASE j = 1
        <5>1. s = r /\ m - 1 = n
          BY <1>2, <3>2, <4>1
        <5> QED
          BY <2>4, <5>1
      <4>2. CASE j # 1
        <5>1. j \in 2 .. k /\ j - 1 \in 1 .. i - 1
          BY <1>2, <2>1, <4>2
        <5> QED
          BY <1>3, <3>2, <5>1
      <4> QED
        BY <4>1, <4>2
    <3> QED
      BY <2>3, <3>1, <3>2
  <2>6. channel'[i][1] = s /\ channel'[i][2] = m
    BY <2>1, <2>2
  <2> QED
    BY <2>5, <2>6
<1>6. GapFree'
  BY <1>5 DEF GapFree
<1> QED
  BY <1>2, <1>4, <1>6

\* The UI while it awaits nothing, and its projection.
LEMMA PresentKeeps == ASSUME ClientInv, Present PROVE ClientInv'
<1>1. /\ ui.on /\ ui.op = "none" /\ channel # <<>> /\ channel' = Tail(channel)
      /\ UNCHANGED <<appVars, client, mon, misled>>
  BY DEF Present, UiIdle
<1>2. channel \in Seq(Runs \X Nat) /\ shown \in [Runs -> Nat] /\ ui \in Screens
  BY DEF ClientInv, UiInv, ClientTyped
<1>3. PICK r \in Runs, n \in Nat : Head(channel) = <<r, n>>
  <2>1. Head(channel) \in Runs \X Nat
    BY <1>1, <1>2
  <2> QED
    BY <2>1
<1>4. \/ n <= shown[r] /\ UNCHANGED <<shown, ui>>
      \/ /\ n = shown[r] + 1 /\ shown' = [shown EXCEPT ![r] = n]
         /\ ui' = [ui EXCEPT !.loading = Loading(r, n)]
      \/ n > shown[r] + 1 /\ ui' = [ui EXCEPT !.on = FALSE] /\ UNCHANGED shown
  <2>1. Head(channel)[1] = r /\ Head(channel)[2] = n /\ shown[r] \in Nat
    BY <1>2, <1>3
  <2> QED
    BY <2>1 DEF Present
<1>5. AppInv' /\ Booked' /\ UNCHANGED <<log, reserved, req>>
  BY <1>1, Unmoved DEF ClientInv
<1>6. Loading(r, n) \in BOOLEAN
  BY <1>2 DEF Loading, Screens
<1>7. /\ ui' \in Screens /\ ui'.op = "none" /\ ui'.fresh = ui.fresh /\ shown' \in [Runs -> Nat]
      /\ n <= shown[r] + 1 => ui'.on
  <2>1. CASE n <= shown[r] /\ UNCHANGED <<shown, ui>>
    BY <1>1, <1>2, <2>1
  <2>2. CASE /\ n = shown[r] + 1 /\ shown' = [shown EXCEPT ![r] = n]
             /\ ui' = [ui EXCEPT !.loading = Loading(r, n)]
    <3>1. PICK b \in BOOLEAN : ui' = [ui EXCEPT !.loading = b]
      BY <1>6, <2>2, Zenon
    <3> QED
      BY <1>1, <1>2, <2>2, <3>1 DEF Screens
  <2>3. CASE n > shown[r] + 1 /\ ui' = [ui EXCEPT !.on = FALSE] /\ UNCHANGED shown
    <3>1. ~(n <= shown[r] + 1) /\ shown' \in [Runs -> Nat]
      BY <1>2, <2>3
    <3>2. ui' \in Screens /\ ui'.op = "none" /\ ui'.fresh = ui.fresh
      BY <1>1, <1>2, <2>3 DEF Screens
    <3> QED
      BY <3>1, <3>2
  <2> QED
    BY <1>4, <2>1, <2>2, <2>3
<1>8. channel' \in Seq(Runs \X Nat)
  BY <1>1, <1>2
<1>9. ClientTyped'
  BY <1>1, <1>7, <1>8 DEF ClientTyped, ClientInv, UiInv
<1>10. Awaited'
  BY <1>1, <1>7 DEF Awaited, ClientInv, UiInv
<1>11. Followed'
  BY <1>1, <1>5 DEF Followed, ClientInv, UiInv
<1>12. ASSUME Patient PROVE Delivering' /\ GapFree'
  <2>1. n <= shown[r] + 1
    <3>1. 1 \in DOMAIN channel /\ channel[1] = <<r, n>>
      BY <1>1, <1>2, <1>3
    <3> QED
      BY <1>12, <3>1 DEF GapFree, ClientInv, UiInv
  <2>2. (\A s \in Runs : shown[s] <= shown'[s]) /\ n <= shown'[r]
    BY <1>2, <1>4, <2>1
  <2>3. GapFree' /\ \A s \in Runs, m \in Nat : Delivered(s, m) => Delivered(s, m)'
    BY <1>1, <1>3, <1>7, <2>2, Shows
  <2>4. ASSUME NEW s \in Runs PROVE Keeping(s)'
    <3>1. PICK k \in Nat : k = client.cursor[s]
      BY FollowerParts
    <3>2. Keeping(s) /\ mon[s].next \in Nat
      BY <1>12, FollowerParts
    <3>3. CASE mon[s].st = "send"
      <4>1. mon[s].next # 0
        BY <3>3 DEF ClientInv, UiInv, Followed
      <4>2. PICK m \in Nat : m = mon[s].next - 1
        BY <3>2, <4>1
      <4>3. Delivered(s, m) /\ mon[s].next = client.cursor[s]
        BY <1>1, <3>2, <3>3, <4>2 DEF Keeping
      <4>4. Delivered(s, mon[s].next - 1)'
        BY <1>1, <2>3, <4>2, <4>3 DEF Delivered
      <4> QED
        BY <1>1, <3>3, <4>3, <4>4 DEF Keeping
    <3>4. CASE mon[s].st # "send"
      <4>1. Delivered(s, k) => Delivered(s, client.cursor[s])'
        BY <1>1, <2>3, <3>1 DEF Delivered
      <4> QED
        BY <1>1, <1>5, <1>7, <3>1, <3>2, <3>4, <4>1 DEF Keeping
    <3> QED
      BY <3>3, <3>4
  <2>5. Starting'
    BY <1>7 DEF Starting
  <2> QED
    BY <2>3, <2>4, <2>5 DEF Delivering
<1>13. GapFree'
  BY <1>12 DEF GapFree
<1> QED
  BY <1>5, <1>9, <1>10, <1>11, <1>12, <1>13 DEF ClientInv, UiInv

LEMMA AwaitFields ==
    ASSUME ui \in Screens, NEW op \in Launching \cup {"steer", "cancel"}, NEW r \in Runs, Await(op, r)
    PROVE  ui' \in Screens /\ ui'.on = ui.on /\ ui'.op = op /\ ui'.run = r /\ ui'.fresh = FALSE
  BY DEF Await, Screens

\* The UI sends a request about run r.
LEMMA AskingKeeps ==
    ASSUME ClientInv, UiIdle, AppInv', Booked', UNCHANGED <<log, reserved, mon, channel, shown, misled>>,
           NEW op \in Launching \cup {"steer", "cancel"}, NEW r \in Runs, NEW kind, Await(op, r),
           Asks(Ui, kind, r, 0),
           op \in {"submit", "recover"} => kind \in Creations,
           op \in {"open", "resume", "accept"} => log[r] # <<>>,
           client' \in Clients, client'.monitored = client.monitored, client'.pending = client.pending,
           \A s \in Runs : client'.cursor[s] \in {client.cursor[s], 0},
           Patient => \A s \in Runs : client'.cursor[s] = client.cursor[s] \/ mon[s].st = "off",
           Patient /\ op \in {"submit", "recover", "open", "resume"} => client'.cursor[r] = 0 /\ mon[r].st = "off",
           op = "accept" => client.pending = r,
           Patient /\ op \in {"open", "resume"} => channel = <<>> /\ client.monitored = {}
    PROVE  ClientInv'
<1>1. ui.on /\ ui.op = "none" /\ ui \in Screens /\ Ui \notin Runs /\ Callers = Runs \cup {Ui}
  BY ClientAssumption DEF UiIdle, ClientInv, UiInv, ClientTyped
<1>2. ui' \in Screens /\ ui'.on /\ ui'.op = op /\ ui'.run = r /\ ~ui'.fresh
  BY <1>1, AwaitFields
<1>3. ClientTyped'
  BY <1>2 DEF ClientTyped, ClientInv, UiInv
<1>4. Awaited'
  BY <1>2 DEF Awaited, Asks
<1>5. Followed'
  BY DEF Followed, ClientInv, UiInv
<1>6. ASSUME Patient PROVE Delivering'
  <2>1. Starting'
    BY <1>2, <1>6 DEF Starting
  <2>2. ASSUME NEW s \in Runs PROVE Keeping(s)'
    <3>1. Keeping(s) /\ shown[s] \in Nat
      BY <1>6, FollowerParts
    <3>2. req'[s] = req[s]
      BY <1>1 DEF Asks
    <3>3. CASE client'.cursor[s] = client.cursor[s]
      BY <1>1, <1>2, <3>1, <3>2, <3>3 DEF Keeping, Delivered
    <3>4. CASE client'.cursor[s] = 0 /\ mon[s].st = "off"
      BY <3>1, <3>4 DEF Keeping, Delivered
    <3> QED
      BY <1>6, <3>3, <3>4
  <2> QED
    BY <2>1, <2>2 DEF Delivering
<1>7. GapFree'
  BY DEF GapFree, ClientInv, UiInv
<1> QED
  BY <1>3, <1>4, <1>5, <1>6, <1>7 DEF ClientInv, UiInv

\* Control(Ui, kind, r, Len(asked) + 1, about), the way the UI sends a command.
LEMMA CommandBegins ==
    ASSUME AppInv, Booked, NEW kind \in Controls, NEW r \in Runs, NEW about \in Nat,
           Control(Ui, kind, r, Len(asked) + 1, about)
    PROVE  /\ AppInv' /\ Booked' /\ Asks(Ui, kind, r, 0) /\ log[r] # <<>> /\ UNCHANGED <<log, reserved>>
<1>1. Ui \in Callers /\ Len(asked) \in Nat
  BY ClientAssumption, Parts DEF AppInv
<1>2. Len(asked) + 1 \in 1 .. Len(asked) + 1 /\ Len(asked) + 1 \in Nat /\ 0 \in Nat
  BY <1>1
<1>3. AppInv'
  BY <1>1, <1>2, ControlKeeps
<1>4. Begin(Ui, kind, r, None, Len(asked) + 1, 0) /\ log[r] # <<>>
  BY DEF Control
<1>5. kind \in Kinds \cup {"wait", "get"} /\ None \in Runs \cup {None}
  BY DEF Kinds
<1>6. Booked' /\ Asks(Ui, kind, r, 0) /\ UNCHANGED <<log, reserved>>
  BY <1>1, <1>2, <1>4, <1>5, Begins
<1> QED
  BY <1>3, <1>4, <1>6

\* A creation or a query of the UI.
LEMMA QuestionBegins ==
    ASSUME AppInv, Booked, NEW kind \in Creations \cup {"resume", "get"}, NEW r \in Runs,
           NEW source \in Runs \cup {None}, Begin(Ui, kind, r, source, 0, 0), asked' = asked, Founded(kind, r)
    PROVE  /\ AppInv' /\ Booked' /\ Asks(Ui, kind, r, 0) /\ UNCHANGED <<log, reserved>>
<1>1. /\ Ui \in Callers /\ 0 \in Nat /\ kind \in Kinds \cup {"wait", "get"}
      /\ kind \in (Kinds \cup {"wait", "get"}) \ Controls
  BY ClientAssumption DEF Kinds, Creations, Controls
<1>2. AppInv'
  BY <1>1, BeginKeeps
<1>3. Booked' /\ Asks(Ui, kind, r, 0) /\ UNCHANGED <<log, reserved>>
  BY <1>1, Begins
<1> QED
  BY <1>2, <1>3

LEMMA CommandKeeps ==
    ASSUME ClientInv, NEW op \in {"steer", "cancel"}, Command(op) PROVE ClientInv'
<1> DEFINE r == client.current
<1>1. /\ UiIdle /\ client \in Clients /\ r \in Runs /\ Control(Ui, op, r, Len(asked) + 1, 0) /\ Await(op, r)
      /\ UNCHANGED <<client, mon, channel, shown, misled>> /\ op \in Controls
  BY DEF Command, ClientInv, UiInv, ClientTyped, Clients, Controls
<1>a. PICK a \in Nat : a = 0
  OBVIOUS
<1>b. Control(Ui, op, r, Len(asked) + 1, a)
  BY <1>1, <1>a
<1>2. AppInv' /\ Booked' /\ Asks(Ui, op, r, 0) /\ UNCHANGED <<log, reserved>>
  BY <1>1, <1>b, CommandBegins DEF ClientInv
<1> HIDE DEF r
<1> QED
  BY <1>1, <1>2, AskingKeeps

LEMMA AcceptKeeps == ASSUME ClientInv, Accept PROVE ClientInv'
<1>1. PICK r \in Runs : r = client.pending
  BY DEF Accept, ClientInv, UiInv, ClientTyped, Clients
<1>2. /\ UiIdle /\ client \in Clients /\ client.offer \in Nat
      /\ Control(Ui, "accept", r, Len(asked) + 1, client.offer) /\ Await("accept", r)
      /\ UNCHANGED <<client, mon, channel, shown, misled>> /\ "accept" \in Controls /\ "accept" \in Launching
  BY <1>1 DEF Accept, ClientInv, UiInv, ClientTyped, Clients, Controls, Launching
<1>3. AppInv' /\ Booked' /\ Asks(Ui, "accept", r, 0) /\ log[r] # <<>> /\ UNCHANGED <<log, reserved>>
  BY <1>2, CommandBegins DEF ClientInv
<1> QED
  BY <1>1, <1>2, <1>3, AskingKeeps

LEMMA SubmitKeeps == ASSUME ClientInv, Submit PROVE ClientInv'
<1>1. /\ UiIdle /\ client \in Clients /\ client.latest \in Runs \cup {None}
      /\ UNCHANGED <<client, mon, channel, shown, misled>> /\ "submit" \in Launching
  BY DEF Submit, ClientInv, UiInv, ClientTyped, Clients, Launching
<1>2. PICK r \in Runs : /\ \E kind \in {"start", "continue"}, source \in Runs \cup {None} : Create(Ui, kind, r, source)
                        /\ Await("submit", r)
  BY <1>1 DEF Submit
<1>3. PICK kind \in {"start", "continue"}, source \in Runs \cup {None} : Create(Ui, kind, r, source)
  BY <1>2
<1>4. kind \in Creations /\ Begin(Ui, kind, r, source, 0, 0) /\ asked' = asked /\ r \notin reserved
  BY <1>3 DEF Create, Creations
<1>5. AppInv' /\ Booked' /\ Asks(Ui, kind, r, 0) /\ UNCHANGED <<log, reserved>>
  BY <1>4, QuestionBegins DEF ClientInv, Founded
<1>6. client.cursor[r] = 0 /\ mon[r].st = "off"
  BY <1>4 DEF ClientInv, UiInv, Followed
<1> QED
  BY <1>1, <1>2, <1>4, <1>5, <1>6, AskingKeeps

LEMMA RecoverKeeps == ASSUME ClientInv, Recover PROVE ClientInv'
<1>1. /\ UiIdle /\ ui.fresh /\ client \in Clients /\ UNCHANGED <<client, mon, channel, shown, misled>>
      /\ "recover" \in Launching /\ "recover" \in Creations
  BY DEF Recover, ClientInv, UiInv, ClientTyped, Launching, Creations
<1>2. \A r \in Runs : client.cursor[r] = 0 /\ mon[r].st = "off"
  BY <1>1 DEF ClientInv, UiInv, Awaited, Blank, Followed
<1>3. ASSUME NEW r \in reserved, Create(Ui, "recover", r, None), Await("recover", r) PROVE ClientInv'
  <2>1. r \in Runs
    BY <1>3 DEF ClientInv, AppInv, Typed
  <2>2. Begin(Ui, "recover", r, None, 0, 0) /\ asked' = asked /\ None \in Runs \cup {None}
    BY <1>3 DEF Create
  <2>3. AppInv' /\ Booked' /\ Asks(Ui, "recover", r, 0) /\ UNCHANGED <<log, reserved>>
    BY <1>1, <2>1, <2>2, QuestionBegins DEF ClientInv, Founded
  <2> QED
    BY <1>1, <1>2, <1>3, <2>1, <2>3, AskingKeeps
<1>4. CASE ui' = [ui EXCEPT !.fresh = FALSE] /\ UNCHANGED appVars
  <2>1. ui \in Screens /\ ui.on /\ ui.op = "none"
    BY <1>1 DEF UiIdle, ClientInv, UiInv, ClientTyped
  <2>2. ui' \in Screens /\ ui'.on /\ ui'.op = "none" /\ ~ui'.fresh
    BY <1>4, <2>1 DEF Screens
  <2>3. AppInv' /\ Booked' /\ UNCHANGED <<log, reserved, req>>
    BY <1>4, Unmoved DEF ClientInv
  <2>4. ClientTyped'
    BY <1>1, <2>2 DEF ClientTyped, ClientInv, UiInv
  <2>5. Awaited'
    BY <2>2 DEF Awaited
  <2>6. Followed'
    BY <1>1, <2>3 DEF Followed, ClientInv, UiInv
  <2>7. GapFree'
    BY <1>1 DEF GapFree, ClientInv, UiInv
  <2>8. ASSUME NEW s \in Runs, Patient PROVE Keeping(s)'
    <3>1. Keeping(s)
      BY <2>8, FollowerParts
    <3> QED
      BY <1>1, <2>1, <2>2, <2>3, <3>1 DEF Keeping, Delivered
  <2>9. Starting'
    BY <2>2 DEF Starting
  <2> QED
    BY <2>3, <2>4, <2>5, <2>6, <2>7, <2>8, <2>9 DEF ClientInv, UiInv, Delivering
<1> QED
  BY <1>3, <1>4 DEF Recover

LEMMA OpenKeeps == ASSUME ClientInv, NEW r \in Runs, Open(r) PROVE ClientInv'
<1>1. /\ UiIdle /\ client \in Clients /\ client' = [client EXCEPT !.cursor[r] = 0]
      /\ UNCHANGED <<mon, channel, shown, misled>> /\ "open" \in Launching /\ Await("open", r)
      /\ Patient => channel = <<>> /\ client.monitored = {}
  BY DEF Open, Waited, ClientInv, UiInv, ClientTyped, Launching
<1>2. Begin(Ui, "get", r, None, 0, 0) /\ asked' = asked /\ log[r] # <<>> /\ None \in Runs \cup {None}
  BY DEF Open, Query
<1>3. AppInv' /\ Booked' /\ Asks(Ui, "get", r, 0) /\ UNCHANGED <<log, reserved>>
  BY <1>2, QuestionBegins DEF ClientInv, Founded
<1>4. /\ client' \in Clients /\ client'.monitored = client.monitored /\ client'.pending = client.pending
      /\ client'.cursor = [client.cursor EXCEPT ![r] = 0]
  BY <1>1 DEF Clients
<1>5. client'.cursor[r] = 0 /\ \A s \in Runs : s # r => client'.cursor[s] = client.cursor[s]
  BY <1>1, <1>4 DEF Clients
<1>6. Patient => mon[r].st = "off"
  BY <1>1 DEF ClientInv, UiInv, Followed
<1> QED
  BY <1>1, <1>2, <1>3, <1>4, <1>5, <1>6, AskingKeeps

LEMMA OpenResumeKeeps == ASSUME ClientInv, OpenResume PROVE ClientInv'
<1>1. /\ ui.op = "open" /\ Begin(Ui, "resume", ui.run, None, 0, 0) /\ ui' = [ui EXCEPT !.op = "resume"]
      /\ UNCHANGED <<asked, client, mon, channel, shown, misled>>
  BY DEF OpenResume
<1>2. PICK r \in Runs : r = ui.run
  BY <1>1 DEF ClientInv, UiInv, Awaited
<1>3. /\ ui \in Screens /\ ui.on /\ ~ui.fresh /\ log[r] # <<>> /\ None \in Runs \cup {None}
      /\ Ui \notin Runs /\ Callers = Runs \cup {Ui}
  BY <1>1, <1>2, ClientAssumption DEF ClientInv, UiInv, Awaited, ClientTyped
<1>4. AppInv' /\ Booked' /\ Asks(Ui, "resume", r, 0) /\ UNCHANGED <<log, reserved>>
  BY <1>1, <1>2, <1>3, QuestionBegins DEF ClientInv, Founded
<1>5. ui' \in Screens /\ ui'.on /\ ui'.op = "resume" /\ ui'.run = r /\ ~ui'.fresh
  BY <1>1, <1>2, <1>3 DEF Screens, Launching
<1>6. ClientTyped'
  BY <1>1, <1>5 DEF ClientTyped, ClientInv, UiInv
<1>7. Awaited'
  BY <1>3, <1>4, <1>5 DEF Awaited
<1>8. Followed'
  BY <1>1, <1>4 DEF Followed, ClientInv, UiInv
<1>9. ASSUME Patient PROVE Delivering'
  <2>1. Starting'
    BY <1>1, <1>2, <1>5, <1>9 DEF Starting, Delivering, ClientInv, UiInv
  <2>2. ASSUME NEW s \in Runs PROVE Keeping(s)'
    <3>1. Keeping(s) /\ req'[s] = req[s]
      BY <1>3, <1>4, <1>9, FollowerParts DEF Asks
    <3> QED
      BY <1>1, <1>3, <1>5, <3>1 DEF Keeping, Delivered
  <2> QED
    BY <2>1, <2>2 DEF Delivering
<1>10. GapFree'
  BY <1>1 DEF GapFree, ClientInv, UiInv
<1> QED
  BY <1>4, <1>6, <1>7, <1>8, <1>9, <1>10 DEF ClientInv, UiInv

\* The UI takes an answer and awaits nothing any more.
LEMMA Returns ==
    ASSUME ClientInv, NEW op, Returned(op), op # "none", req' = Resting,
           UNCHANGED <<durable, process, asked>>
    PROVE  /\ AppInv' /\ Booked' /\ Asks(Ui, "none", None, 0) /\ UNCHANGED <<log, reserved>>
           /\ \A s \in Runs : req'[s] = req[s]
           /\ ui \in Screens /\ ui.on /\ ui.run \in Runs /\ ~ui.fresh /\ ui.op = op /\ req[Ui].pc = "done"
<1>1. Ui \in Callers /\ Ui \notin Runs /\ Runs \subseteq Callers
  BY ClientAssumption
<1>2. /\ AppInv' /\ Booked' /\ Asks(Ui, "none", None, 0) /\ UNCHANGED <<log, reserved>>
  BY <1>1, Rests DEF Returned, Resting, ClientInv
<1>3. \A s \in Runs : req'[s] = req[s]
  BY <1>1, <1>2 DEF Asks
<1> QED
  BY <1>2, <1>3 DEF Returned, at, ClientInv, UiInv, Awaited, ClientTyped

LEMMA BackFields ==
    ASSUME ui \in Screens
    PROVE  /\ Back \in Screens /\ Back.on = ui.on /\ Back.op = "none" /\ Back.run = None /\ Back.fresh = ui.fresh
  BY DEF Back, Screens

\* The UI goes back to its loop and starts no monitor.
LEMMA BackKeeps ==
    ASSUME ClientInv, NEW op, Returned(op), op # "none", req' = Resting,
           UNCHANGED <<durable, process, asked, client, mon, channel, shown, misled>>,
           ui' \in Screens, ui'.op = "none", ui'.fresh = ui.fresh
    PROVE  ClientInv'
<1>1. /\ AppInv' /\ Booked' /\ UNCHANGED <<log, reserved>> /\ ui.on /\ ~ui.fresh
      /\ \A s \in Runs : req'[s] = req[s]
  BY Returns
<1>2. ClientTyped'
  BY DEF ClientTyped, ClientInv, UiInv
<1>3. Awaited'
  BY <1>1 DEF Awaited
<1>4. Followed'
  BY <1>1 DEF Followed, ClientInv, UiInv
<1>5. ASSUME Patient PROVE Delivering'
  <2>1. ASSUME NEW s \in Runs PROVE Keeping(s)'
    <3>1. Keeping(s)
      BY <1>5, FollowerParts
    <3> QED
      BY <1>1, <3>1 DEF Keeping, Delivered
  <2> QED
    BY <2>1 DEF Delivering, Starting
<1>6. GapFree'
  BY DEF GapFree, ClientInv, UiInv
<1> QED
  BY <1>1, <1>2, <1>3, <1>4, <1>5, <1>6 DEF ClientInv, UiInv

LEMMA CommandReturnedKeeps == ASSUME ClientInv, CommandReturned PROVE ClientInv'
<1> DEFINE b == (ui.op = "cancel" => req[Ui].answer = "accepted")
<1>1. PICK op \in {"steer", "cancel"} : Returned(op)
  BY DEF CommandReturned
<1>2. /\ req' = Resting /\ UNCHANGED <<durable, process, asked, client, mon, channel, shown, misled>>
      /\ ui' = [Back EXCEPT !.on = b] /\ op # "none"
  BY DEF CommandReturned
<1>3. ui \in Screens /\ b \in BOOLEAN
  BY DEF ClientInv, UiInv, ClientTyped
<1>4. Back \in Screens /\ Back.op = "none" /\ Back.fresh = ui.fresh
  BY <1>3, BackFields
<1> HIDE DEF b
<1>5. ui' \in Screens /\ ui'.op = "none" /\ ui'.fresh = ui.fresh
  BY <1>2, <1>3, <1>4 DEF Screens
<1> QED
  BY <1>1, <1>2, <1>5, BackKeeps

\* The UI goes back to its loop and follows run r.
LEMMA AdoptingKeeps ==
    ASSUME ClientInv, NEW op, Returned(op), op # "none", req' = Resting, NEW r \in Runs, r \in reserved,
           UNCHANGED <<durable, process, asked, channel, misled>>,
           ui' \in Screens, ui'.op = "none", ui'.fresh = ui.fresh,
           client' \in Clients, client'.cursor = client.cursor,
           \A s \in Runs : s # r /\ client'.pending = s => client.pending = s,
           mon' \in [Runs -> Followers], \A s \in Runs : s # r => mon'[s] = mon[s],
           client'.monitored = {s \in Runs : mon'[s].st # "off"},
           mon'[r] = mon[r] \/ (mon[r].st = "off" /\ mon'[r].st = "ask"),
           shown' \in [Runs -> Nat],
           shown' # shown => (Patient => channel = <<>> /\ client.monitored = {} /\ client'.pending \in {r, None}),
           Patient /\ mon[r].st = "off" => Delivered(r, client.cursor[r])'
    PROVE  ClientInv'
<1>1. /\ AppInv' /\ Booked' /\ UNCHANGED <<log, reserved>> /\ ui.on /\ ~ui.fresh
      /\ \A s \in Runs : req'[s] = req[s]
  BY Returns
<1>2. ClientTyped'
  BY DEF ClientTyped, ClientInv, UiInv
<1>3. Awaited'
  BY <1>1 DEF Awaited
<1>4. Followed'
  BY <1>1 DEF Followed, ClientInv, UiInv
<1>5. ASSUME Patient PROVE Delivering' /\ GapFree'
  <2>0. None \notin Runs
    BY ApplicationAssumption
  <2>1. CASE shown' = shown
    <3>1. ASSUME NEW s \in Runs PROVE Keeping(s)'
      <4>1. Keeping(s)
        BY <1>5, FollowerParts
      <4>2. CASE s # r
        BY <1>1, <2>1, <4>1, <4>2 DEF Keeping, Delivered
      <4>3. CASE s = r /\ mon'[r] = mon[r]
        BY <1>1, <1>5, <2>1, <4>1, <4>3 DEF Keeping, Delivered
      <4>4. CASE s = r /\ mon[r].st = "off" /\ mon'[r].st = "ask"
        BY <1>5, <4>4 DEF Keeping
      <4> QED
        BY <4>2, <4>3, <4>4
    <3>2. GapFree'
      BY <2>1 DEF GapFree, ClientInv, UiInv
    <3> QED
      BY <3>1, <3>2 DEF Delivering, Starting
  <2>2. CASE shown' # shown
    <3>1. channel' = <<>> /\ \A s \in Runs : mon[s].st = "off"
      BY <1>5, <2>2 DEF ClientInv, UiInv, Followed
    <3>2. ASSUME NEW s \in Runs PROVE Keeping(s)'
      <4>1. CASE s # r
        BY <1>5, <2>0, <2>2, <3>1, <4>1 DEF Keeping
      <4>2. CASE s = r
        BY <1>5, <3>1, <4>2 DEF Keeping
      <4> QED
        BY <4>1, <4>2
    <3>3. GapFree'
      BY <3>1 DEF GapFree
    <3> QED
      BY <3>2, <3>3 DEF Delivering, Starting
  <2> QED
    BY <2>1, <2>2
<1>6. GapFree'
  BY <1>5 DEF GapFree
<1> QED
  BY <1>1, <1>2, <1>3, <1>4, <1>5, <1>6 DEF ClientInv, UiInv

LEMMA SpawnedFields ==
    ASSUME ClientInv, NEW r \in Runs, NEW k, k.monitored = client.monitored
    PROVE  LET m == Spawned(k, r) IN
           /\ m \in [Runs -> Followers] /\ \A s \in Runs : s # r => m[s] = mon[s]
           /\ m[r] = mon[r] \/ (mon[r].st = "off" /\ m[r].st = "ask")
           /\ client.monitored \cup {r} = {s \in Runs : m[s].st # "off"}
<1> DEFINE x == [Off EXCEPT !.st = "ask"] m == Spawned(k, r)
<1>1. mon \in [Runs -> Followers] /\ client.monitored = {s \in Runs : mon[s].st # "off"}
  BY DEF ClientInv, UiInv, ClientTyped, Followed
<1>2. x \in Followers /\ x.st = "ask"
  BY DEF Off, Followers, Stops
<1> HIDE DEF x
<1>3. CASE r \in client.monitored
  <2>1. m = mon
    BY <1>3 DEF Spawned
  <2> QED
    BY <1>1, <1>3, <2>1
<1>4. CASE r \notin client.monitored
  <2>1. m = [mon EXCEPT ![r] = x]
    BY <1>4 DEF Spawned, x
  <2>2. mon[r].st = "off"
    BY <1>1, <1>4
  <2> HIDE DEF m
  <2>3. m \in [Runs -> Followers] /\ m[r] = x /\ \A s \in Runs : s # r => m[s] = mon[s]
    BY <1>1, <1>2, <2>1
  <2>4. client.monitored \cup {r} = {s \in Runs : m[s].st # "off"}
    BY <1>1, <1>2, <2>3
  <2> QED
    BY <1>2, <2>2, <2>3, <2>4 DEF m
<1> QED
  BY <1>3, <1>4

LEMMA LaunchedKeeps == ASSUME ClientInv, Launched PROVE ClientInv'
<1>1. PICK op \in {"submit", "recover", "open", "resume"} :
        /\ Returned(op)
        /\ IF req[Ui].answer = "run"
           THEN /\ Adopt(ui.run, Loaded(req[Ui]))
                /\ ui' = [Back EXCEPT !.loading = op = "submit" \/ ActiveView(ui.run, Loaded(req[Ui]))]
                /\ shown' = IF op \in {"open", "resume"} THEN [r \in Runs |-> 0] ELSE shown
           ELSE ui' = [Back EXCEPT !.on = op # "recover"] /\ UNCHANGED <<client, mon, shown>>
  BY DEF Launched
<1>2. req' = Resting /\ UNCHANGED <<durable, process, asked, channel, misled>> /\ op # "none"
  BY DEF Launched
<1>3. /\ ui \in Screens /\ ui.run \in Runs /\ ui.op = op /\ UNCHANGED <<log, reserved>>
  BY <1>1, <1>2, Returns
<1>4. Back \in Screens /\ Back.op = "none" /\ Back.fresh = ui.fresh
  BY <1>3, BackFields
<1>5. CASE req[Ui].answer # "run"
  <2> DEFINE b == (op # "recover")
  <2>1. ui' = [Back EXCEPT !.on = b] /\ b \in BOOLEAN /\ UNCHANGED <<client, mon, shown>>
    BY <1>1, <1>5
  <2> HIDE DEF b
  <2>2. ui' \in Screens /\ ui'.op = "none" /\ ui'.fresh = ui.fresh
    BY <1>4, <2>1 DEF Screens
  <2> QED
    BY <1>1, <1>2, <2>1, <2>2, BackKeeps
<1>6. CASE req[Ui].answer = "run"
  <2>1. PICK r \in Runs : r = ui.run
    BY <1>3
  <2> DEFINE s == Loaded(req[Ui]) b == (op = "submit" \/ ActiveView(r, s)) k == ObserveRun(client, r, s)
  <2>2. /\ ui' = [Back EXCEPT !.loading = b] /\ b \in BOOLEAN /\ Adopt(r, s)
        /\ shown' = IF op \in {"open", "resume"} THEN [t \in Runs |-> 0] ELSE shown
    BY <1>1, <1>6, <2>1
  <2>3. \/ client' = k /\ mon' = mon
        \/ client' = Monitored(k, r) /\ mon' = Spawned(k, r)
    BY <2>2 DEF Adopt
  <2> HIDE DEF b
  <2>4. ui' \in Screens /\ ui'.op = "none" /\ ui'.fresh = ui.fresh
    BY <1>4, <2>2 DEF Screens
  <2>5. client \in Clients /\ mon \in [Runs -> Followers] /\ shown \in [Runs -> Nat]
        /\ client.monitored = {t \in Runs : mon[t].st # "off"}
    BY DEF ClientInv, UiInv, ClientTyped, Followed
  <2>6. /\ k \in Clients /\ k.cursor = client.cursor /\ k.monitored = client.monitored
        /\ k.pending \in {r, None}
    <3>1. DOMAIN s \subseteq Nat
      <4>1. Ui \in Callers /\ req[Ui].run \in Runs
        BY <1>1, ClientAssumption DEF Returned, at, ClientInv, AppInv, Coherent, Placed
      <4>2. log[req[Ui].run] \in Seq(Events) /\ req[Ui] \in Request
        BY <4>1, Parts DEF ClientInv, AppInv, Typed
      <4>3. req[Ui].seen \in Nat
        BY <4>2 DEF Request
      <4> QED
        BY <4>2, <4>3 DEF Loaded
    <3> QED
      BY <2>5, <3>1, ObserveFields
  <2> HIDE DEF k
  <2>7. /\ client' \in Clients /\ client'.cursor = client.cursor /\ client'.pending \in {r, None}
        /\ client'.monitored = {t \in Runs : mon'[t].st # "off"}
        /\ mon' \in [Runs -> Followers] /\ \A t \in Runs : t # r => mon'[t] = mon[t]
        /\ mon'[r] = mon[r] \/ (mon[r].st = "off" /\ mon'[r].st = "ask")
    <3>1. CASE client' = k /\ mon' = mon
      BY <2>5, <2>6, <3>1
    <3>2. CASE client' = Monitored(k, r) /\ mon' = Spawned(k, r)
      <4>1. /\ client' \in Clients /\ client'.cursor = k.cursor /\ client'.pending = k.pending
            /\ client'.monitored = k.monitored \cup {r}
        BY <2>6, <3>2, MonitoredFields
      <4>2. /\ mon' \in [Runs -> Followers] /\ \A t \in Runs : t # r => mon'[t] = mon[t]
            /\ mon'[r] = mon[r] \/ (mon[r].st = "off" /\ mon'[r].st = "ask")
            /\ client.monitored \cup {r} = {t \in Runs : mon'[t].st # "off"}
        BY <2>6, <3>2, SpawnedFields
      <4> QED
        BY <2>6, <4>1, <4>2
    <3> QED
      BY <2>3, <3>1, <3>2
  <2>8. r \in reserved
    <3>1. CASE op \in {"submit", "recover"}
      BY <1>3, <1>6, <2>1, <3>1, ClientAssumption DEF ClientInv, UiInv, Awaited, Booked, Holds
    <3>2. CASE op \in {"open", "resume"}
      BY <1>3, <2>1, <3>2 DEF ClientInv, UiInv, Awaited, Booked
    <3> QED
      BY <3>1, <3>2
  <2>9. shown' \in [Runs -> Nat]
    BY <2>2, <2>5
  <2>10. ASSUME Patient
         PROVE  /\ shown' # shown => channel = <<>> /\ client.monitored = {}
                /\ Delivered(r, client.cursor[r])'
    <3>1. client.cursor[r] = 0 /\ (op \in {"open", "resume"} => channel = <<>> /\ client.monitored = {})
      BY <1>3, <2>1, <2>10 DEF ClientInv, UiInv, Delivering, Starting
    <3> QED
      BY <2>2, <2>7, <2>9, <3>1 DEF Delivered
  <2>11. None \notin Runs
    BY ApplicationAssumption
  <2> QED
    BY <1>1, <1>2, <2>4, <2>7, <2>8, <2>9, <2>10, <2>11, AdoptingKeeps
<1> QED
  BY <1>5, <1>6

LEMMA AcceptReturnedKeeps == ASSUME ClientInv, AcceptReturned PROVE ClientInv'
<1>1. /\ Returned("accept") /\ req' = Resting /\ UNCHANGED <<durable, process, asked, channel, shown, misled>>
  BY DEF AcceptReturned
<1>2. ui \in Screens /\ ui.run \in Runs /\ ui.op = "accept" /\ ui.on /\ UNCHANGED <<log, reserved>>
  BY <1>1, Returns
<1>3. Back \in Screens /\ Back.op = "none" /\ Back.fresh = ui.fresh
  BY <1>2, BackFields
<1>4. CASE req[Ui].answer # "accepted"
  <2>1. ui' = Back /\ UNCHANGED <<client, mon>>
    BY <1>4 DEF AcceptReturned
  <2> QED
    BY <1>1, <1>3, <2>1, BackKeeps
<1>5. CASE req[Ui].answer = "accepted"
  <2>1. PICK r \in Runs : r = ui.run
    BY <1>2
  <2> DEFINE i == IF client.offer = asked[req[Ui].id].about THEN Dismissed(client, r) ELSE client
             p == i.pending
             j == [i EXCEPT !.current = r]
  <2>2. client' = Monitored(j, r) /\ mon' = Spawned(client, r) /\ ui' = [Back EXCEPT !.loading = TRUE]
    BY <1>5, <2>1 DEF AcceptReturned
  <2>30. client \in Clients /\ shown \in [Runs -> Nat] /\ client.pending \in Runs \cup {None}
    BY DEF ClientInv, UiInv, ClientTyped, Clients
  <2>3. /\ client \in Clients /\ shown \in [Runs -> Nat] /\ client.pending \in Runs \cup {None}
        /\ p \in {client.pending, None} /\ i \in Clients /\ i.cursor = client.cursor
        /\ i.monitored = client.monitored
    BY <2>30, DismissedFields DEF Unless
  <2> HIDE DEF i
  <2>4. /\ j \in Clients /\ j.cursor = client.cursor /\ j.monitored = client.monitored /\ j.pending = p
    BY <2>3 DEF Clients
  <2> HIDE DEF j
  <2>5. /\ client' \in Clients /\ client'.cursor = j.cursor /\ client'.pending = j.pending
        /\ client'.monitored = j.monitored \cup {r}
    BY <2>2, <2>4, MonitoredFields
  <2>6. /\ mon' \in [Runs -> Followers] /\ \A t \in Runs : t # r => mon'[t] = mon[t]
        /\ mon'[r] = mon[r] \/ (mon[r].st = "off" /\ mon'[r].st = "ask")
        /\ client.monitored \cup {r} = {t \in Runs : mon'[t].st # "off"}
    BY <2>2, SpawnedFields
  <2>7. ui' \in Screens /\ ui'.op = "none" /\ ui'.fresh = ui.fresh
    BY <1>3, <2>2 DEF Screens
  <2>8. r \in reserved
    BY <1>2, <2>1 DEF ClientInv, UiInv, Awaited, Booked
  <2>9. ASSUME Patient, mon[r].st = "off" PROVE Delivered(r, client.cursor[r])'
    <3>1. Delivered(r, client.cursor[r])
      BY <1>2, <2>1, <2>9, FollowerParts DEF Keeping
    <3> QED
      BY <1>1, <2>4, <2>5, <3>1 DEF Delivered
  <2>10. None \notin Runs
    BY ApplicationAssumption
  <2> QED
    BY <1>1, <2>3, <2>4, <2>5, <2>6, <2>7, <2>8, <2>9, <2>10, AdoptingKeeps
<1> QED
  BY <1>4, <1>5

-----------------------------------------------------------------------------
(* Every step keeps the invariant *)

LEMMA ClientInitInv == Init => ClientInv
<1>1. SUFFICES ASSUME AppInit, ClientInit PROVE ClientInv
  BY DEF Init
<1>2. AppInv /\ log = [r \in Runs |-> <<>>] /\ launch = <<>> /\ req = [c \in Callers |-> Idle] /\ reserved = {}
  BY <1>1, AppInitInv DEF AppInit
<1>3. Booked
  BY <1>2, IdleRequest DEF Booked, InPlace, Holds, Creations
<1>4. /\ client = NewClient /\ mon = [r \in Runs |-> Off] /\ channel = <<>>
      /\ shown = [r \in Runs |-> 0] /\ ui = NewUi /\ misled = {}
  BY <1>1 DEF ClientInit
<1>5. NewClient \in Clients /\ Off \in Followers /\ NewUi \in Screens
  BY DEF NewClient, Clients, Off, Followers, Stops, NewUi, Screens
<1>6. ClientTyped
  BY <1>4, <1>5 DEF ClientTyped
<1>7. ui.op = "none" /\ Awaited
  BY <1>4 DEF Awaited, NewUi, NewClient, Blank
<1>8. Followed
  BY <1>4 DEF Followed, NewClient, Off
<1>9. Delivering
  <2>1. ASSUME NEW r \in Runs PROVE Keeping(r)
    BY <1>4, <1>7 DEF Keeping, Delivered, NewClient, Off
  <2> QED
    BY <1>7, <2>1 DEF Delivering, Starting
<1>10. GapFree
  BY <1>4 DEF GapFree
<1> QED
  BY <1>2, <1>3, <1>6, <1>7, <1>8, <1>9, <1>10 DEF ClientInv, UiInv

LEMMA ClientNextInv == ClientInv /\ [Next]_vars => ClientInv'
<1>1. SUFFICES ASSUME ClientInv, [Next]_vars PROVE ClientInv'
  OBVIOUS
<1>2. CASE UNCHANGED vars
  <2>1. UNCHANGED appVars /\ UNCHANGED clientVars
    BY <1>2 DEF vars
  <2>2. AppInv' /\ Booked' /\ UNCHANGED <<log, reserved, req>>
    BY <1>1, <2>1, Unmoved DEF ClientInv
  <2>3. UNCHANGED <<client, mon, channel, shown, ui, misled>>
    BY <2>1 DEF clientVars
  <2>4. ClientTyped' /\ Awaited' /\ Followed' /\ GapFree'
    <3>1. ClientTyped /\ Awaited /\ Followed /\ GapFree
      BY <1>1 DEF ClientInv, UiInv
    <3>2. ClientTyped'
      BY <2>3, <3>1 DEF ClientTyped
    <3>3. Awaited'
      BY <2>2, <2>3, <3>1 DEF Awaited, Blank
    <3>4. Followed'
      BY <2>2, <2>3, <3>1 DEF Followed
    <3>5. GapFree'
      BY <2>3, <3>1 DEF GapFree
    <3> QED
      BY <3>2, <3>3, <3>4, <3>5
  <2>5. Patient => Delivering'
    <3>1. SUFFICES ASSUME Patient PROVE Delivering'
      OBVIOUS
    <3>2. Starting /\ \A r \in Runs : Keeping(r)
      BY <1>1, <3>1 DEF ClientInv, UiInv, Delivering
    <3>3. ASSUME NEW r \in Runs PROVE Keeping(r)'
      <4>1. Keeping(r)
        BY <3>2
      <4> QED
        BY <2>2, <2>3, <4>1 DEF Keeping, Delivered
    <3>4. Starting'
      BY <2>2, <2>3, <3>2 DEF Starting
    <3> QED
      BY <3>3, <3>4 DEF Delivering
  <2> QED
    BY <2>2, <2>4, <2>5 DEF ClientInv, UiInv
<1>3. CASE UserActs
  BY <1>1, <1>3, SubmitKeeps, AcceptKeeps, NewRootKeeps, CommandKeeps, OpenKeeps DEF UserActs
<1>4. CASE UiReturns
  BY <1>1, <1>4, OpenResumeKeeps, LaunchedKeeps, AcceptReturnedKeeps, CommandReturnedKeeps DEF UiReturns
<1>5. CASE Application \/ Reboot \/ Recover \/ Present \/ \E r \in Runs : MonitorStep(r)
  BY <1>1, <1>5, ApplicationStepKeeps, RebootKeeps, RecoverKeeps, PresentKeeps, MonitorStepKeeps
<1> QED
  BY <1>1, <1>2, <1>3, <1>4, <1>5 DEF Next

-----------------------------------------------------------------------------
(* One root: the inductive invariant *)

\* Where a launch can still add to the log of its run.
Live == {"gated", "drain", "loop", "review", "reject", "end"}

\* The replay of r has made the client lose sight of it.
Strayed(r) == <<r, "replayed">> \in misled

EventOf(kind) == IF kind = "accept" THEN "accepted" ELSE kind

\* A terminal event is the last one.
Final(s) == \A i \in DOMAIN s : s[i].kind \in Terminals => i = Len(s)

\* Event e in the log of run r is the receipt of a command about r.
Credited(e, r, as) == e.id # 0 => as[e.id].run = r /\ e.kind = EventOf(as[e.id].kind)

\* A candidate that its host has not accepted has no successor, is not judged and is
\* not even verified.
Untouched(s) ==
    \A i, j \in DOMAIN s :
        s[i].kind = "proposed" /\ i < j /\ s[j].kind \in {"proposed", "failed", "rejected"}
            => Since(s, i, "accepted")

\* A launch has commands about its run and acknowledges what it has committed.
Supplied(x, lg, as) ==
    /\ \A i \in DOMAIN x.queue : x.queue[i].id # 0 => as[x.queue[i].id].run = x.run
    /\ x.ack # 0 => Receipt(lg[x.run], x.ack)
    /\ x.ready = "ok" \/ x.st = "last" => lg[x.run] # <<>>
    /\ x.st = "acquire" => x.ready = "none"

\* A request names the run of its command, and what it has seen is in the log.
Traced(q, lg, as) ==
    /\ q.kind \in Controls => as[q.id].run = q.run
    /\ q.pc # "idle" => q.seen <= Len(lg[q.run])
    /\ q.pc = "rejoin" => Receipt(lg[q.run], q.id)
    /\ q.pc = "register" => lg[q.run] # <<>>

Filed ==
    /\ \A r \in Runs : Final(log[r]) /\ (lease[r] # 0 => ~Ended(log[r]))
    /\ \A r \in Runs : \A i \in DOMAIN log[r] : Credited(log[r][i], r, asked)
    /\ \A l \in DOMAIN launch : Supplied(launch[l], log, asked)
    /\ \A c \in Callers : Traced(req[c], log, asked)

\* Launch x works on a candidate the host has accepted, or on none.
Unbound(x, lg) == x.st \in {"loop", "review", "reject"} => ~HostAnswered(x.run, lg[x.run])

\* What is done with the candidates of a run that has a host.
Judging ==
    /\ \A r \in HostRuns : Untouched(log[r])
    /\ \A l \in DOMAIN launch : Unbound(launch[l], log)

\* A launch is awaited by the UI or entered in the registry.
Attached(l) ==
    /\ launch[l].st = "acquire" =>
          /\ req[Ui].pc = "ready" /\ req[Ui].launch = l
          /\ launch[l].create = (req[Ui].kind \in Creations)
    /\ launch[l].st \notin {"acquire", "over"} =>
          active[launch[l].run] = l \/ (req[Ui].pc \in {"ready", "register"} /\ req[Ui].launch = l)

\* The registry has no entry for the run of a launch that is not registered yet.
Entered ==
    /\ \A r \in Runs : active[r] # 0 => log[r] # <<>>
    /\ req[Ui].pc \in {"reload", "compose", "ready", "register"} => active[req[Ui].run] = 0
    /\ \A l \in DOMAIN launch : Attached(l)

\* The monitor of run c asks about c, and what it has to send is in the log.
Tracks(c) ==
    /\ req[c].kind \in {"none", "wait"} /\ (req[c].kind = "wait" => req[c].run = c)
    /\ mon[c].st = "wait" => req[c].kind = "wait"
    /\ mon[c].st \in {"record", "send"} => mon[c].next <= mon[c].upto /\ mon[c].upto <= Len(log[c])

\* The request of the UI is the operation it awaits; the others follow their runs.
Asking ==
    /\ ui.op = "none" => req[Ui].pc = "idle" /\ req[Ui].kind = "none" /\ ui.run = None
    /\ ui.op # "none" => req[Ui].pc # "idle" /\ req[Ui].run = ui.run
    /\ ui.op = "submit" => req[Ui].kind \in {"start", "continue"}
    /\ ui.op = "recover" => req[Ui].kind = "recover"
    /\ ui.op = "open" => req[Ui].kind = "get"
    /\ ui.op \notin {"none", "submit", "recover", "open"} => req[Ui].kind = ui.op
    /\ ui.op \in Launching => client.current = None
    /\ \A c \in Runs : Tracks(c)

\* The run a resumption has not taken up yet.
Resuming ==
    /\ ui.op = "resume"
    /\ req[Ui].pc \in {"load", "busy", "compose"} \/ (req[Ui].pc = "ready" /\ launch[req[Ui].launch].st = "acquire")

\* The candidate proposed at i waits for its host.
Stands(s, i) == i \in DOMAIN s /\ Offers(s, i) /\ ~Since(s, i, "accepted")

\* The UI accepts a candidate of run r, and the acceptance is in the log.
Taken(r) == ui.op = "accept" /\ ui.run = r /\ Receipt(log[r], req[Ui].id)

\* The acceptance of the UI is the first command of the launch that it awaits.
Carried(l) ==
    \A i \in DOMAIN launch[l].queue :
        launch[l].queue[i].kind = "accept" =>
            /\ i = 1 /\ ui.op = "accept" /\ launch[l].queue[i].id = req[Ui].id
            /\ req[Ui].pc \in {"ready", "register", "acked"} /\ req[Ui].launch = l
            /\ ~Receipt(log[ui.run], req[Ui].id)

\* Where the acceptance of the UI cannot be in the log yet.
Unsettled ==
    \/ req[Ui].pc \in {"load", "retire", "drowse", "reload", "rejoin", "compose"}
    \/ /\ req[Ui].pc = "ready"
       /\ launch[req[Ui].launch].st = "acquire" \/ launch[req[Ui].launch].ready \notin {"none", "ok"}

\* An acceptance is about the candidate that waits, until it is in the log, and the
\* UI learns whether it is.
Accepting ==
    ui.op = "accept" =>
        /\ ui.run \in HostRuns
        /\ Unsettled => ~Receipt(log[ui.run], req[Ui].id)
        /\ req[Ui].pc = "done" =>
              IF req[Ui].answer = "accepted" THEN Taken(ui.run) ELSE Strayed(ui.run) \/ ~Taken(ui.run)
        /\ Strayed(ui.run) \/ Ended(log[ui.run]) \/ Taken(ui.run)
              \/ Stands(log[ui.run], asked[req[Ui].id].about)

\* What the client offers to accept waits for its host, or has just been accepted.
Offering ==
    client.pending # None =>
        /\ client.pending \in HostRuns
        /\ \/ Strayed(client.pending) \/ Ended(log[client.pending])
           \/ Stands(log[client.pending], client.offer)
           \/ Taken(client.pending) /\ client.offer = asked[req[Ui].id].about

\* A view that says that its run waits for its host is still right; so is any view of
\* a run that is opened.
Viewing ==
    /\ ui.op \in {"open", "submit", "recover", "resume"} /\ req[Ui].pc = "done"
    /\ ui.op = "open" \/ (req[Ui].answer = "run" /\ HostAnswered(ui.run, Loaded(req[Ui])))
    => Strayed(ui.run) \/ req[Ui].seen = Len(log[ui.run])

\* Only an acceptance is at work on a run that waits for its host.
Held(l) ==
    launch[l].st \in Live /\ HostAnswered(launch[l].run, log[launch[l].run]) =>
        Strayed(launch[l].run) \/ (ui.op = "accept" /\ ui.run = launch[l].run /\ ~Taken(ui.run))

Proposals ==
    /\ Offering /\ Accepting /\ Viewing
    /\ Resuming => Strayed(ui.run) \/ Ended(log[ui.run]) \/ ~HostAnswered(ui.run, log[ui.run])
    /\ \A l \in DOMAIN launch : Carried(l) /\ Held(l)

\* The UI awaits launch l, or an answer that makes its run the root.
Awaits(l) ==
    /\ ui.run = launch[l].run
    /\ \/ /\ ui.op \in {"submit", "recover", "resume", "accept"}
          /\ req[Ui].pc \in {"ready", "register"} /\ req[Ui].launch = l
       \/ ui.op \in {"submit", "recover", "resume"} /\ req[Ui].pc = "get"
       \/ /\ ui.op \in {"submit", "recover", "resume"} /\ req[Ui].pc = "done"
          /\ req[Ui].answer = "run" /\ ~HostAnswered(req[Ui].run, Loaded(req[Ui]))
       \/ ui.op = "accept" /\ req[Ui].pc = "acked" /\ req[Ui].launch = l
       \/ ui.op = "accept" /\ req[Ui].pc = "done" /\ req[Ui].answer = "accepted"

Adopted ==
    \A l \in DOMAIN launch :
        launch[l].st \in Live => Strayed(launch[l].run) \/ client.current = launch[l].run \/ Awaits(l)

RootInv == Filed /\ Judging /\ Entered /\ Asking /\ Proposals /\ Adopted

-----------------------------------------------------------------------------
(* What a log says, and what it says when it grows *)

LEMMA LogGrows ==
    ASSUME NEW s \in Seq(Events), NEW e \in Events
    PROVE  LET t == Append(s, e) IN
           /\ \A id : Receipt(t, id) <=> Receipt(s, id) \/ e.id = id
           /\ Ended(t) <=> e.kind \in Terminals
           /\ Final(s) /\ ~Ended(s) => Final(t)
           /\ Len(s) <= Len(t) /\ t # <<>>
           /\ \A n \in 0 .. Len(s) : SubSeq(t, 1, n) = SubSeq(s, 1, n)
<1> DEFINE t == Append(s, e)
<1>1. /\ t \in Seq(Events) /\ Len(t) = Len(s) + 1 /\ Len(s) \in Nat /\ DOMAIN s = 1 .. Len(s)
      /\ DOMAIN t = 1 .. Len(s) + 1 /\ t[Len(s) + 1] = e /\ t # <<>>
      /\ \A i \in 1 .. Len(s) : t[i] = s[i]
  OBVIOUS
<1>2. \A n \in 0 .. Len(s) : SubSeq(t, 1, n) = SubSeq(s, 1, n)
  OBVIOUS
<1> HIDE DEF t
<1>4. \A id : Receipt(t, id) <=> Receipt(s, id) \/ e.id = id
  BY <1>1 DEF Receipt
<1>5. Ended(t) <=> e.kind \in Terminals
  BY <1>1 DEF Ended, Last
<1>6. ASSUME Final(s), ~Ended(s) PROVE Final(t)
  <2>1. \A i \in DOMAIN s : s[i].kind \notin Terminals
    BY <1>1, <1>6 DEF Final, Ended, Last
  <2> QED
    BY <1>1, <2>1 DEF Final
<1> QED
  BY <1>1, <1>2, <1>4, <1>5, <1>6 DEF t

\* A run has one candidate.
LEMMA OneOffer ==
    ASSUME NEW s \in Seq(Events)
    PROVE  /\ \A i \in DOMAIN s : Offers(s, i) => Pending(s) /\ Offer(s) = i
           /\ \A i : Stands(s, i) => Answered(s) /\ Pending(s) /\ Offer(s) = i
           /\ Answered(s) => Stands(s, Offer(s))
<1>1. DOMAIN s = 1 .. Len(s) /\ Len(s) \in Nat
  OBVIOUS
<1>2. ASSUME NEW i \in DOMAIN s, NEW j \in DOMAIN s, Offers(s, i), Offers(s, j), i < j PROVE FALSE
  <2>1. j \in i + 1 .. Len(s) /\ s[j].kind = "proposed"
    BY <1>1, <1>2 DEF Offers
  <2> QED
    BY <1>2, <2>1 DEF Offers
<1>3. \A i, j \in DOMAIN s : Offers(s, i) /\ Offers(s, j) => i = j
  <2>1. \A i, j \in DOMAIN s : i < j \/ j < i \/ i = j
    BY <1>1
  <2> QED
    BY <1>2, <2>1
<1>4. Pending(s) => Offer(s) \in DOMAIN s /\ Offers(s, Offer(s))
  BY OfferType
<1>5. \A i \in DOMAIN s : Offers(s, i) => Pending(s) /\ Offer(s) = i
  BY <1>3, <1>4 DEF Pending
<1>6. \A i : Stands(s, i) => Answered(s) /\ Pending(s) /\ Offer(s) = i
  BY <1>5 DEF Stands, Answered
<1>7. Answered(s) => Stands(s, Offer(s))
  BY <1>5 DEF Stands, Answered
<1> QED
  BY <1>5, <1>6, <1>7

\* A candidate that waits for its host, when the log grows.
LEMMA StandsGrow ==
    ASSUME NEW s \in Seq(Events), NEW e \in Events, NEW t, t = Append(s, e)
    PROVE  /\ \A i : Stands(s, i) /\ e.kind \notin {"proposed", "rejected", "accepted"} \cup Terminals => Stands(t, i)
           /\ Answered(t) => e.kind = "proposed" \/ (Answered(s) /\ e.kind \notin {"rejected", "accepted"} \cup Terminals)
<1> DEFINE n == Len(s)
<1>1. /\ Len(t) = n + 1 /\ n \in Nat /\ DOMAIN s = 1 .. n /\ DOMAIN t = 1 .. n + 1 /\ t[n + 1] = e
      /\ \A i \in 1 .. n : t[i] = s[i]
  OBVIOUS
<1>0. Len(s) = n
  OBVIOUS
<1> HIDE DEF n
<1>2. ASSUME NEW i, Stands(s, i), e.kind \notin {"proposed", "rejected", "accepted"} \cup Terminals PROVE Stands(t, i)
  <2>1. i \in 1 .. n /\ t[i].kind = "proposed"
    BY <1>1, <1>2 DEF Stands, Offers
  <2>2. ASSUME NEW j \in i + 1 .. n + 1
        PROVE  t[j].kind \notin {"proposed", "rejected", "accepted"} \cup Terminals
    <3>1. CASE j = n + 1
      BY <1>1, <1>2, <3>1
    <3>2. CASE j # n + 1
      <4>1. j \in i + 1 .. n /\ t[j] = s[j]
        BY <1>1, <2>1, <2>2, <3>2
      <4> QED
        BY <1>0, <1>2, <4>1 DEF Stands, Offers, Since
    <3> QED
      BY <3>1, <3>2
  <2> QED
    BY <1>1, <2>1, <2>2 DEF Stands, Offers, Since
<1>3. ASSUME NEW i \in DOMAIN t, Offers(t, i), ~Since(t, i, "accepted"), e.kind # "proposed"
      PROVE  Answered(s) /\ e.kind \notin {"rejected", "accepted"} \cup Terminals
  <2>1. i # n + 1
    BY <1>1, <1>3 DEF Offers
  <2>2. i \in 1 .. n /\ s[i].kind = "proposed"
    BY <1>1, <1>3, <2>1 DEF Offers
  <2>3. n + 1 \in i + 1 .. n + 1
    BY <1>1, <2>2
  <2>4. e.kind \notin {"rejected", "accepted"} \cup Terminals
    BY <1>1, <1>3, <2>3 DEF Offers, Since
  <2>5. ASSUME NEW j \in i + 1 .. n PROVE s[j].kind \notin {"proposed", "rejected", "accepted"} \cup Terminals
    <3>1. j \in i + 1 .. n + 1 /\ t[j] = s[j]
      BY <1>1, <2>2
    <3> QED
      BY <1>1, <1>3, <3>1 DEF Offers, Since
  <2> QED
    BY <1>0, <1>1, <2>2, <2>4, <2>5 DEF Answered, Offers, Since
<1> QED
  BY <1>2, <1>3 DEF Answered

\* What Untouched says of a log that has not ended, and how it lasts.
LEMMA UntouchedStands ==
    ASSUME NEW s \in Seq(Events), Untouched(s), Final(s), ~Ended(s),
           NEW i \in DOMAIN s, s[i].kind = "proposed", ~Since(s, i, "accepted")
    PROVE  Stands(s, i)
<1>1. DOMAIN s = 1 .. Len(s) /\ Len(s) \in Nat
  OBVIOUS
<1>2. ASSUME NEW j \in i + 1 .. Len(s) PROVE s[j].kind \notin {"proposed", "rejected"} \cup Terminals
  <2>1. j \in DOMAIN s /\ i < j
    BY <1>1
  <2>2. s[j].kind \notin {"proposed", "rejected"}
    BY <2>1 DEF Untouched
  <2>3. s[j].kind \in Terminals => Ended(s)
    BY <1>1, <2>1 DEF Final, Ended, Last
  <2> QED
    BY <2>2, <2>3
<1> QED
  BY <1>2 DEF Stands, Offers

LEMMA UntouchedFailing ==
    ASSUME NEW s \in Seq(Events), Untouched(s), Failing(s) PROVE ~Answered(s)
<1>1. SUFFICES ASSUME Answered(s) PROVE FALSE
  OBVIOUS
<1>2. PICK i \in DOMAIN s : Offers(s, i) /\ Since(s, i, "failed")
  BY DEF Failing
<1>3. Stands(s, i)
  BY <1>1, <1>2, OneOffer
<1>4. PICK j \in i + 1 .. Len(s) : s[j].kind = "failed"
  BY <1>2 DEF Since
<1>5. j \in DOMAIN s /\ i < j /\ s[i].kind = "proposed"
  BY <1>2, <1>4 DEF Offers
<1> QED
  BY <1>3, <1>4, <1>5 DEF Untouched, Stands

LEMMA UntouchedGrows ==
    ASSUME NEW s \in Seq(Events), NEW e \in Events, NEW t, t = Append(s, e), Untouched(s), Final(s), ~Ended(s),
           e.kind \in {"proposed", "failed", "rejected"} => ~Answered(s)
    PROVE  Untouched(t)
<1> DEFINE n == Len(s)
<1>1. /\ Len(t) = n + 1 /\ n \in Nat /\ DOMAIN s = 1 .. n /\ DOMAIN t = 1 .. n + 1 /\ t[n + 1] = e
      /\ \A i \in 1 .. n : t[i] = s[i]
  OBVIOUS
<1>0. Len(s) = n
  OBVIOUS
<1> HIDE DEF n
<1>2. ASSUME NEW i \in 1 .. n, Since(s, i, "accepted") PROVE Since(t, i, "accepted")
  <2>1. PICK k \in i + 1 .. n : s[k].kind = "accepted"
    BY <1>0, <1>2 DEF Since
  <2>2. k \in i + 1 .. n + 1 /\ t[k] = s[k]
    BY <1>1, <2>1
  <2> QED
    BY <1>1, <2>1, <2>2 DEF Since
<1>3. SUFFICES ASSUME NEW i \in DOMAIN t, NEW j \in DOMAIN t, t[i].kind = "proposed", i < j,
                      t[j].kind \in {"proposed", "failed", "rejected"}
               PROVE  Since(t, i, "accepted")
  BY DEF Untouched
<1>4. i \in 1 .. n /\ s[i].kind = "proposed"
  BY <1>1, <1>3
<1>5. CASE j # n + 1
  <2>1. j \in 1 .. n /\ t[j] = s[j]
    BY <1>1, <1>5
  <2> QED
    BY <1>1, <1>2, <1>3, <1>4, <2>1 DEF Untouched
<1>6. CASE j = n + 1
  <2>1. ~Answered(s)
    BY <1>1, <1>3, <1>6
  <2>2. Since(s, i, "accepted")
    <3>1. SUFFICES ASSUME ~Since(s, i, "accepted") PROVE FALSE
      OBVIOUS
    <3>2. Stands(s, i)
      BY <1>1, <1>4, <3>1, UntouchedStands
    <3> QED
      BY <2>1, <3>2, OneOffer
  <2> QED
    BY <1>2, <1>4, <2>2
<1> QED
  BY <1>5, <1>6

LEMMA ReplayedPart ==
    ASSUME NEW s \in Seq(Events), NEW n \in 0 .. Len(s), NEW t, t = SubSeq(s, 1, n)
    PROVE  /\ t \in Seq(Events) /\ (n = Len(s) => t = s)
           /\ \A id : Receipt(t, id) => Receipt(s, id)
           /\ n # 0 => t # <<>> /\ n \in DOMAIN s /\ Last(t) = s[n]
           /\ Final(s) /\ Ended(t) => Ended(s)
<1>1. /\ t \in Seq(Events) /\ Len(t) = n /\ n \in Nat /\ DOMAIN t = 1 .. n
      /\ Len(s) \in Nat /\ DOMAIN s = 1 .. Len(s) /\ \A i \in 1 .. n : t[i] = s[i] /\ i \in DOMAIN s
  OBVIOUS
<1>2. n # 0 => t # <<>> /\ n \in DOMAIN s /\ Last(t) = s[n]
  BY <1>1 DEF Last
<1>3. \A id : Receipt(t, id) => Receipt(s, id)
  BY <1>1 DEF Receipt
<1>5. n = Len(s) => t = s
  OBVIOUS
<1>4. ASSUME Final(s), Ended(t) PROVE Ended(s)
  <2>1. n # 0
    BY <1>1, <1>4 DEF Ended
  <2>2. s[n].kind \in Terminals /\ n \in DOMAIN s
    BY <1>2, <1>4, <2>1 DEF Ended
  <2>3. n = Len(s)
    BY <1>4, <2>2 DEF Final
  <2> QED
    BY <1>1, <2>1, <2>2, <2>3 DEF Ended, Last
<1> QED
  BY <1>1, <1>2, <1>3, <1>4, <1>5

-----------------------------------------------------------------------------
(* Steps of a launch *)

\* A request that is woken or acknowledged keeps what it has seen, or its answer
\* shows nothing.
Sighted(q, p) == p.seen = q.seen \/ p.seen = 0

\* No acceptance waits in the queue of x.
Plain(x) == \A i \in DOMAIN x.queue : x.queue[i].kind # "accept"

\* Event e in the log of run r is an acceptance that launch l, which becomes x, carried, of
\* the candidate that is pending.
Granted(l, r, e, x) ==
    /\ Plain(x) /\ asked[e.id].about = Offer(log[r])
    /\ \E i \in DOMAIN launch[l].queue : launch[l].queue[i].kind = "accept" /\ launch[l].queue[i].id = e.id

\* What the log of run r may gain from a step of launch l, which becomes x: candidates
\* are made and judged in the loop, and accepted by a command that is about them.
Adds(l, r, x) ==
    \/ log'[r] = log[r]
    \/ \E e \in Events :
          /\ log'[r] = Append(log[r], e) /\ ~Ended(log[r]) /\ Credited(e, r, asked)
          /\ launch[l].st \in Live \/ (log[r] = <<>> /\ e.kind = "created")
          /\ e.kind = "proposed" /\ r \in HostRuns => x.st \notin Live
          /\ e.kind \in {"proposed", "failed", "rejected"} => launch[l].st \in {"loop", "review", "reject"}
          /\ e.kind = "accepted" => Granted(l, r, e, x)

\* The acknowledgement of an acceptance.
Acks ==
    req[Ui].kind = "accept" /\ req[Ui].pc = "acked" /\ req'[Ui].pc = "done" =>
        IF req'[Ui].answer = "accepted" THEN Receipt(log'[req[Ui].run], req[Ui].id)
        ELSE Strayed(req[Ui].run) /\ Plain(launch'[req[Ui].launch])

\* Logs keep what they say.
Grown ==
    \A r \in Runs :
        /\ log'[r] \in Seq(Events) /\ Len(log[r]) \in Nat /\ Len(log[r]) <= Len(log'[r])
        /\ \A id : Receipt(log[r], id) => Receipt(log'[r], id)
        /\ log[r] # <<>> => log'[r] # <<>>
        /\ \A n \in 0 .. Len(log[r]) : SubSeq(log'[r], 1, n) = SubSeq(log[r], 1, n)

LEMMA LogsGrow ==
    ASSUME Typed, NEW l \in DOMAIN launch, NEW r \in Runs, NEW x, Adds(l, r, x),
           \A t \in Runs : t # r => log'[t] = log[t]
    PROVE  Grown
<1>1. \A t \in Runs : log[t] \in Seq(Events) /\ Len(log[t]) \in Nat
  BY Parts
<1>2. ASSUME NEW t \in Runs, log'[t] = log[t]
      PROVE  /\ log'[t] \in Seq(Events) /\ Len(log[t]) \in Nat /\ Len(log[t]) <= Len(log'[t])
             /\ \A id : Receipt(log[t], id) => Receipt(log'[t], id)
             /\ log[t] # <<>> => log'[t] # <<>>
             /\ \A n \in 0 .. Len(log[t]) : SubSeq(log'[t], 1, n) = SubSeq(log[t], 1, n)
  BY <1>1, <1>2
<1>3. ASSUME NEW e \in Events, log'[r] = Append(log[r], e)
      PROVE  /\ log'[r] \in Seq(Events) /\ Len(log[r]) \in Nat /\ Len(log[r]) <= Len(log'[r])
             /\ \A id : Receipt(log[r], id) => Receipt(log'[r], id)
             /\ log[r] # <<>> => log'[r] # <<>>
             /\ \A n \in 0 .. Len(log[r]) : SubSeq(log'[r], 1, n) = SubSeq(log[r], 1, n)
  <2> DEFINE s == log[r] t == Append(s, e)
  <2>1. s \in Seq(Events) /\ Len(s) \in Nat /\ t \in Seq(Events)
    BY <1>1
  <2>2. /\ \A id : Receipt(t, id) <=> Receipt(s, id) \/ e.id = id
        /\ Len(s) <= Len(t) /\ t # <<>>
        /\ \A n \in 0 .. Len(s) : SubSeq(t, 1, n) = SubSeq(s, 1, n)
    BY <2>1, LogGrows
  <2>3. log'[r] = t
    BY <1>3
  <2> HIDE DEF s, t
  <2>4. s = log[r]
    BY DEF s
  <2> QED
    BY <2>1, <2>2, <2>3, <2>4
<1> QED
  BY <1>2, <1>3 DEF Grown, Adds

\* What a launch and a request were supplied with lasts.
LEMMA SupplyLasts ==
    ASSUME Grown, NEW x \in Launches, Supplied(x, log, asked)
    PROVE  Supplied(x, log', asked)
<1>1. x.run \in Runs
  BY DEF Launches
<1> QED
  BY <1>1 DEF Supplied, Grown

LEMMA TraceLasts ==
    ASSUME Grown, NEW q \in Request, q.pc # "idle" => q.run \in Runs, Traced(q, log, asked),
           NEW p \in Request, Nudged(q, p), Sighted(q, p)
    PROVE  Traced(p, log', asked)
<1>1. /\ p.kind = q.kind /\ p.run = q.run /\ p.id = q.id /\ (p.pc = q.pc \/ (q.pc = "acked" /\ p.pc = "done"))
      /\ p.seen \in Nat /\ q.seen \in Nat
  BY DEF Nudged, Request
<1>2. CASE q.pc = "idle"
  BY <1>1, <1>2 DEF Traced
<1>3. CASE q.pc # "idle"
  <2>1. Len(log'[q.run]) \in Nat /\ Len(log[q.run]) \in Nat /\ Len(log[q.run]) <= Len(log'[q.run])
    BY <1>3 DEF Grown
  <2>2. p.seen <= Len(log'[q.run])
    BY <1>1, <1>3, <2>1 DEF Traced, Sighted
  <2> QED
    BY <1>1, <1>3, <2>2 DEF Traced, Grown
<1> QED
  BY <1>2, <1>3

\* The request of the UI and the log it has loaded from.
LEMMA UiParts ==
    ASSUME ClientInv, RootInv
    PROVE  /\ Ui \in Callers /\ Ui \notin Runs /\ Callers = Runs \cup {Ui} /\ None \notin Runs
           /\ AppInv /\ Typed /\ Booked /\ client \in Clients /\ ui \in Screens
           /\ req[Ui] \in Request /\ req[Ui].seen \in Nat
           /\ InPlace(req[Ui].kind, req[Ui].pc) /\ Placed(req[Ui], launch, log, asked)
           /\ Traced(req[Ui], log, asked)
           /\ req[Ui].pc # "idle" => req[Ui].run \in Runs /\ req[Ui].run = ui.run /\ ui.run \in Runs
           /\ Len(launch) \in Nat /\ DOMAIN launch = 1 .. Len(launch)
           /\ \A l \in DOMAIN launch : launch[l] \in Launches /\ launch[l].run \in Runs
<1>1. Ui \in Callers /\ Ui \notin Runs /\ Callers = Runs \cup {Ui} /\ None \notin Runs
  BY ClientAssumption, ApplicationAssumption
<1>2. AppInv /\ Typed /\ Booked /\ client \in Clients /\ ui \in Screens
  BY DEF ClientInv, UiInv, ClientTyped, AppInv
<1>3. req[Ui] \in Request /\ InPlace(req[Ui].kind, req[Ui].pc) /\ Placed(req[Ui], launch, log, asked)
      /\ Traced(req[Ui], log, asked)
  BY <1>1, <1>2, Parts DEF AppInv, Coherent, Booked, RootInv, Filed
<1>4. req[Ui].seen \in Nat
  BY <1>3 DEF Request
<1>5. req[Ui].pc # "idle" => req[Ui].run \in Runs /\ req[Ui].run = ui.run
  BY <1>3 DEF Placed, RootInv, Asking
<1> QED
  BY <1>1, <1>2, <1>3, <1>4, <1>5, Parts

\* Launch l becomes x: only a launch at work adds to a log, and a launch gets to
\* work from "acquire" only on a run that does not wait for its host, or to accept.
Becomes(l, x) ==
    /\ launch' = [launch EXCEPT ![l] = x] /\ x \in Launches /\ x.run = launch[l].run
    /\ x.st = "acquire" => launch[l].st = "acquire" /\ x.create = launch[l].create
    /\ x.st # "over" => launch[l].st # "over"
    /\ x.st \in Live /\ launch[l].st \notin Live =>
          /\ launch[l].st = "acquire"
          /\ \/ ~Answered(log'[x.run])
             \/ log' = log /\ ~launch[l].create /\ ~Ended(log[x.run])
    /\ x.ready \notin {"none", "ok"} => launch[l].st = "acquire" \/ x.ready = launch[l].ready
    /\ x.queue = launch[l].queue \/ Plain(x)
    /\ Supplied(x, log', asked) /\ Unbound(x, log')

\* The logs and leases around a step of launch l on run r.
LEMMA LaunchFiles ==
    ASSUME ClientInv, RootInv, NEW l \in DOMAIN launch, NEW r \in Runs, r = launch[l].run,
           NEW x, Becomes(l, x), Adds(l, r, x), Grown, asked' = asked,
           \A t \in Runs : t # r => log'[t] = log[t] /\ lease'[t] = lease[t],
           lease'[r] # 0 => ~Ended(log'[r]),
           req' \in [Callers -> Request],
           \A c \in Callers : Rung(req[c], req'[c]) /\ Sighted(req[c], req'[c])
    PROVE  Filed'
<1>0. /\ Filed /\ Typed /\ \A t \in Runs : log[t] \in Seq(Events)
  BY UiParts, Parts DEF RootInv
<1>1. ASSUME NEW t \in Runs
      PROVE  /\ Final(log'[t]) /\ (lease'[t] # 0 => ~Ended(log'[t]))
             /\ \A i \in DOMAIN log'[t] : Credited(log'[t][i], t, asked)
  <2>1. CASE log'[t] = log[t]
    BY <1>0, <2>1 DEF Filed
  <2>2. CASE t = r /\ log'[r] # log[r]
    <3>1. PICK e \in Events : log'[r] = Append(log[r], e) /\ ~Ended(log[r]) /\ Credited(e, r, asked)
      BY <2>2 DEF Adds
    <3>2. Final(log'[r])
      BY <1>0, <2>2, <3>1, LogGrows DEF Filed
    <3>3. ASSUME NEW i \in DOMAIN log'[r] PROVE Credited(log'[r][i], r, asked)
      <4>1. log'[r][i] = e \/ (i \in DOMAIN log[r] /\ log'[r][i] = log[r][i])
        BY <1>0, <3>1
      <4> QED
        BY <1>0, <3>1, <4>1 DEF Filed
    <3> QED
      BY <2>2, <3>2, <3>3
  <2> QED
    BY <2>1, <2>2
<1>2. ASSUME NEW k \in DOMAIN launch' PROVE Supplied(launch'[k], log', asked)
  <2>1. launch \in Seq(Launches) /\ k \in DOMAIN launch
    BY <1>0 DEF Typed, Becomes
  <2>2. CASE k = l
    BY <2>1, <2>2 DEF Becomes
  <2>3. CASE k # l
    <3>1. launch'[k] = launch[k] /\ launch[k] \in Launches /\ Supplied(launch[k], log, asked)
      BY <1>0, <2>1, <2>3 DEF Becomes, Filed
    <3> QED
      BY <3>1, SupplyLasts
  <2> QED
    BY <2>2, <2>3
<1>3. ASSUME NEW c \in Callers PROVE Traced(req'[c], log', asked)
  <2>1. /\ req[c] \in Request /\ req'[c] \in Request /\ Traced(req[c], log, asked)
        /\ Nudged(req[c], req'[c]) /\ Sighted(req[c], req'[c])
    BY <1>0, Parts DEF Filed, Rung
  <2>2. req[c].pc # "idle" => req[c].run \in Runs
    BY UiParts DEF AppInv, Coherent, Placed
  <2> QED
    BY <2>1, <2>2, TraceLasts
<1> QED
  BY <1>1, <1>2, <1>3 DEF Filed

LEMMA LaunchEnters ==
    ASSUME ClientInv, RootInv, NEW l \in DOMAIN launch, NEW x, Becomes(l, x), Grown, active' = active,
           Rung(req[Ui], req'[Ui])
    PROVE  Entered'
<1>0. /\ Entered /\ launch \in Seq(Launches) /\ Typed /\ InPlace(req[Ui].kind, req[Ui].pc)
  BY UiParts DEF RootInv, Typed
<1>1. /\ req'[Ui].kind = req[Ui].kind /\ req'[Ui].run = req[Ui].run
      /\ \/ req'[Ui].pc = req[Ui].pc /\ req'[Ui].launch = req[Ui].launch
         \/ req[Ui].pc = "acked" /\ req'[Ui].pc = "done"
  BY DEF Rung, Nudged
<1>2. ASSUME NEW k \in DOMAIN launch' PROVE Attached(k)'
  <2>1. k \in DOMAIN launch /\ Attached(k)
    BY <1>0 DEF Becomes, Entered
  <2>2. /\ launch'[k].run = launch[k].run
        /\ launch'[k].st = "acquire" => launch[k].st = "acquire" /\ launch'[k].create = launch[k].create
        /\ launch'[k].st # "over" => launch[k].st # "over"
    BY <1>0, <2>1 DEF Becomes
  <2> QED
    BY <1>1, <2>1, <2>2 DEF Attached
<1>3. \A r \in Runs : active[r] # 0 => log'[r] # <<>>
  BY <1>0 DEF Entered, Grown
<1> QED
  BY <1>0, <1>1, <1>2, <1>3 DEF Entered

LEMMA LaunchAsking ==
    ASSUME ClientInv, RootInv, Grown, UNCHANGED <<client, mon, ui>>, \A c \in Callers : Rung(req[c], req'[c])
    PROVE  Asking'
<1>0. Asking /\ Callers = Runs \cup {Ui} /\ \A r \in Runs : mon[r] \in Followers
  BY UiParts DEF RootInv, ClientInv, UiInv, ClientTyped
<1>1. \A c \in Callers : /\ req'[c].kind = req[c].kind /\ req'[c].run = req[c].run
                         /\ req'[c].pc = req[c].pc \/ (req[c].pc = "acked" /\ req'[c].pc = "done")
  BY DEF Rung, Nudged
<1>2. ASSUME NEW c \in Runs PROVE Tracks(c)'
  <2>1. mon[c].upto \in Nat /\ Len(log[c]) \in Nat /\ Len(log'[c]) \in Nat /\ Len(log[c]) <= Len(log'[c])
    BY <1>0 DEF Grown, Followers
  <2> QED
    BY <1>0, <1>1, <2>1 DEF Asking, Tracks
<1>3. /\ ui'.op = "none" => req'[Ui].pc = "idle" /\ req'[Ui].kind = "none" /\ ui'.run = None
      /\ ui'.op # "none" => req'[Ui].pc # "idle" /\ req'[Ui].run = ui'.run
      /\ ui'.op = "submit" => req'[Ui].kind \in {"start", "continue"}
      /\ ui'.op = "recover" => req'[Ui].kind = "recover"
      /\ ui'.op = "open" => req'[Ui].kind = "get"
      /\ ui'.op \notin {"none", "submit", "recover", "open"} => req'[Ui].kind = ui'.op
      /\ ui'.op \in Launching => client'.current = None
  BY <1>0, <1>1 DEF Asking
<1> QED
  BY <1>2, <1>3 DEF Asking

\* An answer the UI has loaded stays as it is.
LEMMA AnswerLasts ==
    ASSUME ClientInv, RootInv, Grown, Rung(req[Ui], req'[Ui]), Sighted(req[Ui], req'[Ui]),
           req[Ui].pc = "done" => req'[Ui].seen = req[Ui].seen
    PROVE  req[Ui].pc = "done" => Loaded(req[Ui])' = Loaded(req[Ui])
<1> SUFFICES ASSUME req[Ui].pc = "done" PROVE Loaded(req[Ui])' = Loaded(req[Ui])
  OBVIOUS
<1>1. /\ req[Ui].run \in Runs /\ req'[Ui].run = req[Ui].run /\ req'[Ui].seen = req[Ui].seen
      /\ req[Ui].seen \in Nat /\ req[Ui].seen <= Len(log[req[Ui].run])
  BY UiParts DEF Rung, Nudged, Traced
<1>2. req[Ui].seen \in 0 .. Len(log[req[Ui].run])
  BY <1>1 DEF Grown
<1> QED
  BY <1>1, <1>2 DEF Loaded, Grown

\* A launch at work on a run that the UI has not got to yet: the client was misled.
LEMMA AtWorkBefore ==
    ASSUME ClientInv, RootInv, NEW l \in DOMAIN launch, launch[l].st \in Live,
           \/ ui.op = "open" \/ Resuming,
           ui.run = launch[l].run
    PROVE  Strayed(ui.run)
<1>1. Adopted /\ Asking
  BY DEF RootInv
<1>2. ui.op \in Launching /\ ui.run \in Runs /\ None \notin Runs /\ client.current = None
  BY <1>1, UiParts DEF Launching, Resuming, Asking
<1>3. ~Awaits(l)
  BY DEF Awaits, Resuming, Live
<1> QED
  BY <1>1, <1>2, <1>3 DEF Adopted

\* The log of a run grows by a step of the launch at work on it.
LEMMA OnlyWorker ==
    ASSUME ClientInv, RootInv, NEW l \in DOMAIN launch, NEW r \in Runs, r = launch[l].run,
           NEW x, Adds(l, r, x), \A t \in Runs : t # r => log'[t] = log[t],
           NEW k \in DOMAIN launch, launch[k].st \in Live, log'[launch[k].run] # log[launch[k].run]
    PROVE  k = l
<1>1. launch[k].run = r /\ Leased /\ k # 0
  BY UiParts DEF AppInv
<1>2. lease[r] = k
  BY <1>1 DEF Leased, Live, Working
<1>3. log[r] # <<>>
  BY <1>1, <1>2 DEF Leased
<1>4. launch[l].st \in Live
  BY <1>1, <1>3 DEF Adds
<1> QED
  BY <1>1, <1>2, <1>4 DEF Leased, Live, Working

\* A launch judges no candidate that waits for its host.
LEMMA LaunchJudging ==
    ASSUME ClientInv, RootInv, NEW l \in DOMAIN launch, NEW r \in Runs, r = launch[l].run,
           NEW x, Becomes(l, x), Adds(l, r, x), \A t \in Runs : t # r => log'[t] = log[t]
    PROVE  Judging'
<1>0. /\ Judging /\ Filed /\ HostRuns \subseteq Runs /\ launch \in Seq(Launches)
      /\ \A t \in Runs : log[t] \in Seq(Events)
  BY UiParts, Parts, ApplicationAssumption DEF RootInv, Typed
<1>1. ASSUME NEW t \in HostRuns PROVE Untouched(log'[t])
  <2>1. CASE log'[t] = log[t]
    BY <1>0, <2>1 DEF Judging
  <2>2. CASE log'[t] # log[t]
    <3>1. t = r /\ r \in HostRuns
      BY <1>0, <2>2
    <3>2. PICK e \in Events :
             /\ log'[r] = Append(log[r], e) /\ ~Ended(log[r])
             /\ e.kind \in {"proposed", "failed", "rejected"} => launch[l].st \in {"loop", "review", "reject"}
      BY <2>2, <3>1 DEF Adds
    <3>3. e.kind \in {"proposed", "failed", "rejected"} => ~Answered(log[r])
      BY <1>0, <3>1, <3>2 DEF Judging, Unbound, HostAnswered
    <3>4. Untouched(log[r]) /\ Final(log[r]) /\ log[r] \in Seq(Events)
      BY <1>0, <3>1 DEF Judging, Filed
    <3> QED
      BY <3>1, <3>2, <3>3, <3>4, UntouchedGrows
  <2> QED
    BY <2>1, <2>2
<1>2. ASSUME NEW k \in DOMAIN launch' PROVE Unbound(launch'[k], log')
  <2>1. k \in DOMAIN launch
    BY <1>0 DEF Becomes
  <2>2. CASE k = l
    BY <1>0, <2>2 DEF Becomes
  <2>3. CASE k # l
    <3>1. launch'[k] = launch[k] /\ Unbound(launch[k], log)
      BY <1>0, <2>1, <2>3 DEF Becomes, Judging
    <3>2. launch[k].st \in Live => log'[launch[k].run] = log[launch[k].run]
      BY <2>1, <2>3, OnlyWorker
    <3> QED
      BY <3>1, <3>2 DEF Unbound, Live
  <2> QED
    BY <2>2, <2>3
<1> QED
  BY <1>1, <1>2 DEF Judging

\* The acceptance of the UI reaches the log: the launch that carries it has done it.
LEMMA ReceiptGiven ==
    ASSUME ClientInv, RootInv, NEW l \in DOMAIN launch, NEW r \in Runs, r = launch[l].run,
           NEW x, Adds(l, r, x), \A t \in Runs : t # r => log'[t] = log[t],
           ui.op = "accept", ~Receipt(log[ui.run], req[Ui].id), Receipt(log'[ui.run], req[Ui].id)
    PROVE  /\ ui.run = r /\ req[Ui].launch = l /\ req[Ui].pc \in {"ready", "register", "acked"}
           /\ launch[l].st \in Live /\ Plain(x) /\ ~Answered(log'[r])
<1>0. /\ Asking /\ Proposals /\ ui.run \in Runs /\ req[Ui].kind = "accept" /\ req[Ui].pc # "idle"
      /\ log[r] \in Seq(Events)
  BY UiParts, Parts DEF RootInv, Asking
<1>1. ui.run = r /\ log'[r] # log[r]
  BY <1>0
<1>2. PICK e \in Events :
         /\ log'[r] = Append(log[r], e) /\ Credited(e, r, asked)
         /\ launch[l].st \in Live \/ (log[r] = <<>> /\ e.kind = "created")
         /\ e.kind = "accepted" =>
               /\ Plain(x)
               /\ \E i \in DOMAIN launch[l].queue : launch[l].queue[i].kind = "accept" /\ launch[l].queue[i].id = e.id
  BY <1>1 DEF Adds, Granted
<1>3. e.id = req[Ui].id
  BY <1>0, <1>1, <1>2, LogGrows
<1>4. req[Ui].id # 0 /\ asked[req[Ui].id].kind = "accept"
  BY <1>0, UiParts DEF Placed, Controls
<1>5. e.kind = "accepted"
  BY <1>2, <1>3, <1>4 DEF Credited, EventOf
<1>6. PICK i \in DOMAIN launch[l].queue : launch[l].queue[i].kind = "accept"
  BY <1>2, <1>5
<1>7. req[Ui].launch = l /\ req[Ui].pc \in {"ready", "register", "acked"}
  BY <1>0, <1>6 DEF Proposals, Carried
<1>8. ~Answered(log'[r])
  BY <1>0, <1>2, <1>5, StandsGrow
<1> QED
  BY <1>1, <1>2, <1>5, <1>7, <1>8

\* A candidate waits for its host until the UI has accepted it, or its run ends.
LEMMA StandingLasts ==
    ASSUME ClientInv, RootInv, NEW l \in DOMAIN launch, NEW r \in Runs, r = launch[l].run,
           NEW x, Adds(l, r, x), \A t \in Runs : t # r => log'[t] = log[t],
           UNCHANGED <<asked, ui>>, Rung(req[Ui], req'[Ui]),
           NEW t \in HostRuns, NEW i, Stands(log[t], i)
    PROVE  Stands(log'[t], i) \/ Ended(log'[t]) \/ (Taken(t)' /\ i = asked[req[Ui].id].about)
<1>0. /\ Asking /\ Proposals /\ Judging /\ Filed /\ HostRuns \subseteq Runs
      /\ \A u \in Runs : log[u] \in Seq(Events)
  BY UiParts, Parts, ApplicationAssumption DEF RootInv
<1>1. CASE log'[t] = log[t]
  BY <1>1
<1>2. CASE log'[t] # log[t]
  <2>1. t = r /\ r \in HostRuns
    BY <1>0, <1>2
  <2>2. PICK e \in Events :
           /\ log'[r] = Append(log[r], e) /\ Credited(e, r, asked)
           /\ e.kind \in {"proposed", "failed", "rejected"} => launch[l].st \in {"loop", "review", "reject"}
           /\ e.kind = "accepted" =>
                 /\ asked[e.id].about = Offer(log[r])
                 /\ \E j \in DOMAIN launch[l].queue :
                        launch[l].queue[j].kind = "accept" /\ launch[l].queue[j].id = e.id
    BY <1>2, <2>1 DEF Adds, Granted
  <2>3. Answered(log[r]) /\ Offer(log[r]) = i
    BY <1>0, <2>1, OneOffer
  <2>4. e.kind \notin {"proposed", "failed", "rejected"}
    BY <1>0, <2>1, <2>2, <2>3 DEF Judging, Unbound, HostAnswered
  <2>5. CASE e.kind \in Terminals
    BY <1>0, <2>1, <2>2, <2>5, LogGrows
  <2>6. CASE e.kind = "accepted"
    <3>1. PICK j \in DOMAIN launch[l].queue :
             launch[l].queue[j].kind = "accept" /\ launch[l].queue[j].id = e.id
      BY <2>2, <2>6
    <3>2. ui.op = "accept" /\ e.id = req[Ui].id
      BY <1>0, <3>1 DEF Proposals, Carried
    <3>3. req[Ui].kind = "accept" /\ req[Ui].pc # "idle"
      BY <1>0, <3>2 DEF Asking
    <3>4. req[Ui].id # 0 /\ asked[req[Ui].id].run = ui.run
      BY <3>3, UiParts DEF Placed, Traced, Controls
    <3>5. ui.run = r
      BY <2>2, <3>2, <3>4 DEF Credited
    <3>6. Receipt(log'[r], e.id)
      BY <1>0, <2>2, LogGrows
    <3>7. req'[Ui].id = req[Ui].id
      BY DEF Rung, Nudged
    <3> QED
      BY <2>1, <2>2, <2>3, <2>6, <3>2, <3>5, <3>6, <3>7 DEF Taken
  <2>7. CASE e.kind \notin Terminals \cup {"accepted"}
    BY <1>0, <2>1, <2>2, <2>4, <2>7, StandsGrow
  <2> QED
    BY <2>5, <2>6, <2>7
<1> QED
  BY <1>1, <1>2

\* What a launch makes of the runs that wait for their host.
LEMMA LaunchProposals ==
    ASSUME ClientInv, RootInv, NEW l \in DOMAIN launch, NEW r \in Runs, r = launch[l].run,
           NEW x, Becomes(l, x), Adds(l, r, x), Grown, \A t \in Runs : t # r => log'[t] = log[t],
           UNCHANGED <<asked, client, ui, misled>>, Rung(req[Ui], req'[Ui]), Sighted(req[Ui], req'[Ui]),
           req[Ui].pc = "done" => req'[Ui].seen = req[Ui].seen, Acks
    PROVE  Proposals'
<1>0. /\ Proposals /\ Asking /\ Entered /\ launch \in Seq(Launches) /\ HostRuns \subseteq Runs
      /\ InPlace(req[Ui].kind, req[Ui].pc) /\ Awaited
      /\ \A t \in Runs : log[t] \in Seq(Events)
      /\ \A t : Strayed(t)' <=> Strayed(t)
  BY UiParts, Parts, ApplicationAssumption DEF RootInv, Typed, ClientInv, UiInv, Strayed
<1>1. /\ req'[Ui].kind = req[Ui].kind /\ req'[Ui].run = req[Ui].run /\ req'[Ui].id = req[Ui].id
      /\ \/ req'[Ui].pc = req[Ui].pc /\ req'[Ui].launch = req[Ui].launch /\ req'[Ui].answer = req[Ui].answer
         \/ req[Ui].pc = "acked" /\ req'[Ui].pc = "done"
      /\ req[Ui].pc # "idle" => req[Ui].run = ui.run /\ ui.run \in Runs
      /\ ui.op = "accept" => req[Ui].kind = "accept" /\ req[Ui].pc # "idle"
  BY <1>0, UiParts DEF Rung, Nudged, Asking
<1>2. DOMAIN launch' = DOMAIN launch /\ launch'[l] = x /\ \A k \in DOMAIN launch : k # l => launch'[k] = launch[k]
  BY <1>0 DEF Becomes
<1>3. \A t \in Runs : /\ Taken(t) => Taken(t)'
                      /\ Ended(log[t]) => Ended(log'[t])
  <2>1. ASSUME NEW t \in Runs, Ended(log[t]) PROVE log'[t] = log[t]
    BY <2>1 DEF Adds
  <2> QED
    BY <1>1, <2>1 DEF Taken, Grown
\* What the client offers.
<1>4. Offering'
  <2> SUFFICES ASSUME client.pending # None
               PROVE  /\ client.pending \in HostRuns
                      /\ \/ Strayed(client.pending) \/ Ended(log'[client.pending])
                         \/ Stands(log'[client.pending], client.offer)
                         \/ Taken(client.pending)' /\ client.offer = asked[req[Ui].id].about
    BY <1>0, <1>1 DEF Offering
  <2>1. PICK p \in HostRuns : p = client.pending
    BY <1>0 DEF Proposals, Offering
  <2>2. \/ Strayed(p) \/ Ended(log[p]) \/ Stands(log[p], client.offer)
        \/ Taken(p) /\ client.offer = asked[req[Ui].id].about
    BY <1>0, <2>1 DEF Proposals, Offering
  <2>3. Stands(log[p], client.offer)
            => Stands(log'[p], client.offer) \/ Ended(log'[p]) \/ (Taken(p)' /\ client.offer = asked[req[Ui].id].about)
    BY StandingLasts
  <2>4. \/ Strayed(p) \/ Ended(log'[p]) \/ Stands(log'[p], client.offer)
        \/ Taken(p)' /\ client.offer = asked[req[Ui].id].about
    BY <1>0, <1>3, <2>2, <2>3
  <2> QED
    BY <2>1, <2>4 DEF Taken
\* What the UI accepts.
<1>5. Accepting'
  <2> SUFFICES ASSUME ui.op = "accept"
               PROVE  /\ ui.run \in HostRuns
                      /\ Unsettled' => ~Receipt(log'[ui.run], req[Ui].id)
                      /\ req'[Ui].pc = "done" =>
                            IF req'[Ui].answer = "accepted" THEN Taken(ui.run)' ELSE Strayed(ui.run) \/ ~Taken(ui.run)'
                      /\ Strayed(ui.run) \/ Ended(log'[ui.run]) \/ Taken(ui.run)'
                            \/ Stands(log'[ui.run], asked[req[Ui].id].about)
    BY <1>0, <1>1 DEF Accepting
  <2>1. PICK p \in HostRuns : p = ui.run
    BY <1>0 DEF Proposals, Accepting
  <2>2. Taken(p)' <=> Receipt(log'[p], req[Ui].id)
    BY <1>1, <2>1 DEF Taken
  <2>3. Taken(p) <=> Receipt(log[p], req[Ui].id)
    BY <2>1 DEF Taken
  <2>4. Strayed(p) \/ Ended(log'[p]) \/ Taken(p)' \/ Stands(log'[p], asked[req[Ui].id].about)
    <3>1. Strayed(p) \/ Ended(log[p]) \/ Taken(p) \/ Stands(log[p], asked[req[Ui].id].about)
      BY <1>0, <2>1 DEF Proposals, Accepting
    <3>2. CASE Stands(log[p], asked[req[Ui].id].about)
      BY <3>2, StandingLasts
    <3> QED
      BY <1>0, <1>3, <3>1, <3>2
  <2>5. ASSUME req'[Ui].pc = "done"
        PROVE  IF req'[Ui].answer = "accepted" THEN Taken(p)' ELSE Strayed(p) \/ ~Taken(p)'
    <3>1. CASE req[Ui].pc = "acked"
      BY <1>1, <2>1, <2>2, <2>5, <3>1 DEF Acks
    <3>2. CASE req[Ui].pc = "done" /\ req'[Ui].answer = req[Ui].answer
      <4>1. IF req[Ui].answer = "accepted" THEN Taken(p) ELSE Strayed(p) \/ ~Taken(p)
        BY <1>0, <2>1, <3>2 DEF Proposals, Accepting
      <4>2. ~Taken(p) => ~Taken(p)'
        BY <2>1, <2>2, <2>3, <3>2, ReceiptGiven
      <4> QED
        BY <1>0, <1>3, <3>2, <4>1, <4>2
    <3> QED
      BY <1>1, <2>5, <3>1, <3>2
  <2>6. ASSUME Unsettled', Receipt(log'[p], req[Ui].id) PROVE FALSE
    <3>1. req'[Ui].pc = req[Ui].pc /\ req'[Ui].launch = req[Ui].launch
      BY <1>1, <2>6 DEF Unsettled
    <3>2. ASSUME Unsettled
          PROVE  req[Ui].launch = l /\ req[Ui].pc = "ready" /\ launch[l].st \in Live
      <4>1. ~Receipt(log[p], req[Ui].id)
        BY <1>0, <2>1, <3>2 DEF Proposals, Accepting
      <4> QED
        BY <2>1, <2>6, <3>2, <4>1, ReceiptGiven DEF Unsettled
    <3>3. CASE req[Ui].pc # "ready"
      BY <2>6, <3>1, <3>2, <3>3 DEF Unsettled
    <3>4. CASE req[Ui].pc = "ready"
      <4>1. req[Ui].launch \in DOMAIN launch
        BY <3>4, UiParts DEF Placed
      <4>2. Unsettled
        BY <1>2, <2>6, <3>1, <3>4, <4>1 DEF Unsettled, Becomes
      <4>3. launch[l].st \in Live /\ req[Ui].launch = l
        BY <3>2, <4>2
      <4>4. Sound(launch[l], log, asked)
        BY UiParts DEF AppInv, Coherent
      <4> QED
        BY <3>4, <4>2, <4>3, <4>4 DEF Unsettled, Sound, Live
    <3> QED
      BY <3>3, <3>4
  <2> QED
    BY <2>1, <2>4, <2>5, <2>6
\* What the UI has been shown.
<1>6. Viewing'
  <2> SUFFICES ASSUME ui.op \in {"open", "submit", "recover", "resume"}, req'[Ui].pc = "done",
                      ui.op = "open" \/ (req'[Ui].answer = "run" /\ HostAnswered(ui.run, Loaded(req[Ui])')),
                      ~Strayed(ui.run)
               PROVE  req'[Ui].seen = Len(log'[ui.run])
    BY <1>0 DEF Viewing, HostAnswered
  <2>1. req[Ui].pc = "done" /\ ui.run \in Runs /\ req'[Ui].answer = req[Ui].answer
    BY <1>0, <1>1 DEF Asking, InPlace, Creations
  <2>2. Loaded(req[Ui])' = Loaded(req[Ui]) /\ req'[Ui].seen = req[Ui].seen
    BY <2>1, AnswerLasts
  <2>3. req[Ui].seen = Len(log[ui.run])
    BY <1>0, <2>1, <2>2 DEF Proposals, Viewing
  <2>4. CASE log'[ui.run] = log[ui.run]
    BY <2>2, <2>3, <2>4
  <2>5. CASE log'[ui.run] # log[ui.run]
    <3>1. ui.run = r /\ (launch[l].st \in Live \/ log[r] = <<>>)
      BY <2>1, <2>5 DEF Adds
    <3>2. CASE ui.op = "open"
      BY <1>0, <3>1, <3>2, AtWorkBefore DEF Awaited
    <3>3. CASE HostAnswered(ui.run, Loaded(req[Ui]))
      <4>1. Loaded(req[Ui]) = log[r] /\ log[r] \in Seq(Events)
        BY <1>0, <1>1, <2>1, <2>3, <3>1 DEF Loaded
      <4>2. HostAnswered(r, log[r]) /\ log[r] # <<>>
        BY <3>1, <3>3, <4>1 DEF HostAnswered, Answered
      <4> QED
        BY <1>0, <3>1, <4>2 DEF Proposals, Held
    <3> QED
      BY <2>2, <3>2, <3>3
  <2> QED
    BY <2>4, <2>5
<1>7. Resuming' => Strayed(ui.run) \/ Ended(log'[ui.run]) \/ ~HostAnswered(ui.run, log'[ui.run])
  <2> SUFFICES ASSUME Resuming', ~Strayed(ui.run), ~Ended(log'[ui.run]), HostAnswered(ui.run, log'[ui.run])
               PROVE  FALSE
    OBVIOUS
  <2>1. Resuming /\ ui.run \in Runs
    <3>1. /\ ui.op = "resume" /\ req'[Ui].pc = req[Ui].pc /\ req'[Ui].launch = req[Ui].launch
          /\ req[Ui].pc \in {"load", "busy", "compose", "ready"}
      BY <1>1 DEF Resuming
    <3>2. req[Ui].pc = "ready" => req[Ui].launch \in DOMAIN launch
      BY UiParts DEF Placed
    <3>3. \A k \in DOMAIN launch : launch'[k].st = "acquire" => launch[k].st = "acquire"
      BY <1>0 DEF Becomes
    <3> QED
      BY <1>1, <3>1, <3>2, <3>3 DEF Resuming
  <2>2. ~HostAnswered(ui.run, log[ui.run])
    BY <1>0, <1>3, <2>1 DEF Proposals
  <2>3. ui.run = r /\ log'[r] # log[r]
    BY <2>1, <2>2
  <2>4. PICK e \in Events :
           /\ log'[r] = Append(log[r], e)
           /\ e.kind \in {"proposed", "failed", "rejected"} => launch[l].st \in {"loop", "review", "reject"}
    BY <2>3 DEF Adds
  <2>5. e.kind = "proposed"
    BY <1>0, <2>2, <2>3, <2>4, StandsGrow DEF HostAnswered
  <2> QED
    BY <2>1, <2>3, <2>4, <2>5, AtWorkBefore DEF Live
<1>8. ASSUME NEW k \in DOMAIN launch PROVE Carried(k)'
  <2> SUFFICES ASSUME NEW i \in DOMAIN launch'[k].queue, launch'[k].queue[i].kind = "accept"
               PROVE  /\ i = 1 /\ ui.op = "accept" /\ launch'[k].queue[i].id = req[Ui].id
                      /\ req'[Ui].pc \in {"ready", "register", "acked"} /\ req'[Ui].launch = k
                      /\ ~Receipt(log'[ui.run], req[Ui].id)
    BY <1>1 DEF Carried
  <2>1. ~Plain(launch'[k]) /\ launch'[k].queue = launch[k].queue
    BY <1>2 DEF Plain, Becomes
  <2>2. /\ i = 1 /\ ui.op = "accept" /\ launch'[k].queue[i].id = req[Ui].id
        /\ req[Ui].pc \in {"ready", "register", "acked"} /\ req[Ui].launch = k
        /\ ~Receipt(log[ui.run], req[Ui].id)
    BY <1>0, <2>1 DEF Proposals, Carried
  <2>3. ~Receipt(log'[ui.run], req[Ui].id)
    <3>1. SUFFICES ASSUME Receipt(log'[ui.run], req[Ui].id) PROVE FALSE
      OBVIOUS
    <3>2. k = l /\ Plain(x)
      BY <2>2, <3>1, ReceiptGiven
    <3> QED
      BY <1>2, <2>1, <3>2
  <2>4. req'[Ui].pc # "done"
    BY <1>1, <2>1, <2>2, <2>3 DEF Acks
  <2> QED
    BY <1>1, <2>2, <2>3, <2>4
<1>9. ASSUME NEW k \in DOMAIN launch PROVE Held(k)'
  <2>1. /\ launch'[k].run = launch[k].run /\ launch[k].run \in Runs
        /\ k # l => launch'[k] = launch[k]
    BY <1>0, <1>2, UiParts DEF Becomes
  <2> SUFFICES ASSUME launch'[k].st \in Live, HostAnswered(launch[k].run, log'[launch[k].run]),
                      ~Strayed(launch[k].run)
               PROVE  ui.op = "accept" /\ ui.run = launch[k].run /\ ~Taken(ui.run)'
    BY <1>0, <2>1 DEF Held, HostAnswered
  <2>2. CASE launch[k].st \in Live
    <3>1. CASE HostAnswered(launch[k].run, log[launch[k].run])
      <4>1. ui.op = "accept" /\ ui.run = launch[k].run /\ ~Taken(ui.run)
        BY <1>0, <2>2, <3>1 DEF Proposals, Held
      <4>2. SUFFICES ASSUME Taken(ui.run)' PROVE FALSE
        BY <4>1
      <4>3. ~Answered(log'[r]) /\ ui.run = r
        BY <1>1, <4>1, <4>2, ReceiptGiven DEF Taken
      <4> QED
        BY <4>1, <4>3 DEF HostAnswered
    <3>2. CASE ~HostAnswered(launch[k].run, log[launch[k].run])
      <4>1. k = l /\ log'[r] # log[r] /\ r \in HostRuns /\ ~Answered(log[r]) /\ Answered(log'[r])
        BY <2>1, <2>2, <3>2, OnlyWorker DEF HostAnswered
      <4>2. PICK e \in Events :
               log'[r] = Append(log[r], e) /\ (e.kind = "proposed" /\ r \in HostRuns => x.st \notin Live)
        BY <4>1 DEF Adds
      <4>3. e.kind = "proposed"
        BY <1>0, <4>1, <4>2, StandsGrow
      <4> QED
        BY <1>2, <4>1, <4>2, <4>3
    <3> QED
      BY <3>1, <3>2
  <2>3. CASE launch[k].st \notin Live
    <3>1. k = l /\ x.st \in Live /\ launch[l].st = "acquire" /\ x.run = r
      BY <1>2, <2>1, <2>3 DEF Becomes
    <3>2. log' = log /\ ~launch[l].create /\ ~Ended(log[r])
      BY <2>3, <3>1 DEF Becomes, HostAnswered
    <3>3. req[Ui].pc = "ready" /\ req[Ui].launch = l /\ req[Ui].kind \notin Creations
      BY <1>0, <3>1, <3>2 DEF Entered, Attached
    <3>4. req[Ui].run = r /\ ui.run = r
      BY <3>3, UiParts DEF Placed
    <3>5. ui.op \in {"resume", "accept"}
      <4>1. req[Ui].kind \in {"resume", "accept"}
        BY <1>0, <3>3 DEF InPlace
      <4> QED
        BY <1>0, <4>1, UiParts DEF Asking, Screens, Launching, Creations
    <3>6. ui.op # "resume"
      BY <1>0, <3>1, <3>2, <3>3, <3>4 DEF Proposals, Resuming
    <3>7. ~Receipt(log[ui.run], req[Ui].id)
      BY <1>0, <3>1, <3>3, <3>5, <3>6 DEF Proposals, Accepting, Unsettled
    <3> QED
      BY <1>1, <3>1, <3>2, <3>4, <3>5, <3>6, <3>7 DEF Taken
  <2> QED
    BY <2>2, <2>3
<1> QED
  BY <1>0, <1>2, <1>4, <1>5, <1>6, <1>7, <1>8, <1>9 DEF Proposals

LEMMA LaunchAdopted ==
    ASSUME ClientInv, RootInv, NEW l \in DOMAIN launch, NEW x, Becomes(l, x), Grown,
           UNCHANGED <<client, ui, misled>>, Rung(req[Ui], req'[Ui]), Sighted(req[Ui], req'[Ui]),
           req[Ui].pc = "done" => req'[Ui].seen = req[Ui].seen, Acks
    PROVE  Adopted'
<1>0. /\ Adopted /\ Asking /\ Entered /\ launch \in Seq(Launches) /\ InPlace(req[Ui].kind, req[Ui].pc)
  BY UiParts DEF RootInv, Typed
<1>1. /\ req'[Ui].kind = req[Ui].kind /\ req'[Ui].run = req[Ui].run
      /\ \/ req'[Ui].pc = req[Ui].pc /\ req'[Ui].launch = req[Ui].launch /\ req'[Ui].answer = req[Ui].answer
         \/ req[Ui].pc = "acked" /\ req'[Ui].pc = "done"
  BY DEF Rung, Nudged
<1> SUFFICES ASSUME NEW k \in DOMAIN launch, launch'[k].st \in Live, ~Strayed(launch[k].run),
                    client.current # launch[k].run
             PROVE  Awaits(k)'
  <2>1. DOMAIN launch' = DOMAIN launch /\ \A k \in DOMAIN launch : launch'[k].run = launch[k].run
    BY <1>0 DEF Becomes
  <2> QED
    BY <2>1 DEF Adopted, Strayed
<1>2. launch'[k].run = launch[k].run /\ (k # l => launch'[k] = launch[k]) /\ launch'[l] = x
  BY <1>0 DEF Becomes
<1>3. CASE launch[k].st \in Live
  <2>1. Awaits(k)
    BY <1>0, <1>3 DEF Adopted
  <2>2. CASE req[Ui].pc = "acked" /\ req'[Ui].pc = "done"
    <3>1. ui.op = "accept" /\ req[Ui].run = launch[k].run /\ req[Ui].kind = "accept"
      BY <1>0, <2>1, <2>2 DEF Awaits, Asking
    <3>2. req'[Ui].answer = "accepted"
      BY <2>2, <3>1 DEF Acks
    <3> QED
      BY <1>2, <2>1, <2>2, <3>1, <3>2 DEF Awaits
  <2>3. CASE req'[Ui].pc = req[Ui].pc /\ req'[Ui].launch = req[Ui].launch /\ req'[Ui].answer = req[Ui].answer
    <3>1. req[Ui].pc = "done" => Loaded(req[Ui])' = Loaded(req[Ui])
      BY AnswerLasts
    <3> QED
      BY <1>1, <1>2, <2>1, <2>3, <3>1 DEF Awaits, HostAnswered
  <2> QED
    BY <1>1, <2>2, <2>3
<1>4. CASE launch[k].st \notin Live
  <2>1. k = l /\ launch[l].st = "acquire"
    BY <1>2, <1>4 DEF Becomes
  <2>2. req[Ui].pc = "ready" /\ req[Ui].launch = l
    BY <1>0, <2>1 DEF Entered, Attached
  <2>3. ui.run = launch[l].run
    BY <2>2, UiParts DEF Placed
  <2>4. ui.op \in {"submit", "recover", "resume", "accept"}
    <3>1. req[Ui].kind \in Creations \cup {"resume", "accept"}
      BY <1>0, <2>2 DEF InPlace
    <3> QED
      BY <1>0, <2>2, <3>1, UiParts DEF Asking, Screens, Launching, Creations
  <2> QED
    BY <1>1, <1>2, <2>1, <2>2, <2>3, <2>4 DEF Awaits
<1> QED
  BY <1>3, <1>4

\* Requests around a step of a launch.
LEMMA WakeSights ==
    ASSUME NEW q \in [Callers -> Request], NEW c \in Callers
    PROVE  Wake(q)[c].seen = q[c].seen /\ Wake(q)[c].pc = q[c].pc /\ Wake(q)[c].id = q[c].id
<1> DEFINE z == q[c] p == [z EXCEPT !.rung = TRUE]
<1>1. z \in Request
  OBVIOUS
<1>2. p.seen = z.seen /\ p.pc = z.pc /\ p.id = z.id
  <2> HIDE DEF z
  <2> QED
    BY <1>1 DEF Request
<1>3. Wake(q)[c] = p \/ Wake(q)[c] = z
  BY DEF Wake
<1> HIDE DEF p
<1> QED
  BY <1>2, <1>3

LEMMA AcknowledgementSights ==
    ASSUME NEW q \in [Callers -> Request], NEW id, NEW a \in {"accepted", "notPending"}, NEW c \in Callers
    PROVE  LET p == Acknowledged(q, id, a)[c] IN
           \/ p = q[c]
           \/ /\ q[c].pc = "acked" /\ q[c].id = id /\ id # 0
              /\ p.seen = 0 /\ p.pc = "done" /\ p.answer = a
<1>1. Reply(q[c], a).seen = 0
  BY DEF Reply, Idle
<1>2. Reply(q[c], a).pc = "done" /\ Reply(q[c], a).answer = a
  BY Replies DEF Answers
<1> QED
  BY <1>1, <1>2 DEF Acknowledged

\* The requests see what they have seen, and only a command that is acknowledged
\* gets its answer.
Heard ==
    \A c \in Callers :
        /\ Sighted(req[c], req'[c]) /\ (req[c].pc = "done" => req'[c].seen = req[c].seen)
        /\ Rung(req[c], req'[c])

LEMMA NothingHeard == ASSUME AppInv, req' = req \/ req' = Wake(req) PROVE Heard /\ Acks
<1>1. req \in [Callers -> Request] /\ Ui \in Callers
  BY ClientAssumption DEF AppInv, Typed
<1>2. CASE req' = req
  BY <1>2 DEF Heard, Acks, Sighted, Rung, Nudged
<1>3. CASE req' = Wake(req)
  BY <1>1, <1>3, WakeSights, WakeRings DEF Heard, Acks, Sighted
<1> QED
  BY <1>2, <1>3

LEMMA AnswerHeard ==
    ASSUME AppInv, NEW w, w = req \/ w = Wake(req), NEW id, NEW a \in {"accepted", "notPending"},
           req' = Acknowledged(w, id, a),
           id # 0 /\ req[Ui].id = id /\ req[Ui].kind = "accept" /\ req[Ui].pc = "acked" =>
               IF a = "accepted" THEN Receipt(log'[req[Ui].run], id)
               ELSE Strayed(req[Ui].run) /\ Plain(launch'[req[Ui].launch])
    PROVE  Heard /\ Acks
<1>1. req \in [Callers -> Request] /\ Ui \in Callers
  BY ClientAssumption DEF AppInv, Typed
<1>2. /\ w \in [Callers -> Request]
      /\ \A c \in Callers : /\ Rung(req[c], w[c]) /\ w[c].seen = req[c].seen
                            /\ w[c].pc = req[c].pc /\ w[c].id = req[c].id
  <2>1. CASE w = req
    BY <1>1, <2>1 DEF Rung, Nudged
  <2>2. CASE w = Wake(req)
    BY <1>1, <2>2, WakeRings, WakeSights
  <2> QED
    BY <2>1, <2>2
<1>3. \A c \in Callers : Rung(w[c], req'[c])
  BY <1>2, AcknowledgementRings
<1>4. \A c \in Callers : \/ req'[c] = w[c]
                         \/ /\ w[c].pc = "acked" /\ w[c].id = id /\ id # 0
                            /\ req'[c].seen = 0 /\ req'[c].pc = "done" /\ req'[c].answer = a
  BY <1>2, AcknowledgementSights
<1>5. Heard
  <2>1. ASSUME NEW c \in Callers PROVE Rung(req[c], req'[c])
    BY <1>2, <1>3 DEF Rung, Nudged
  <2>2. ASSUME NEW c \in Callers
        PROVE  Sighted(req[c], req'[c]) /\ (req[c].pc = "done" => req'[c].seen = req[c].seen)
    BY <1>2, <1>4 DEF Sighted
  <2> QED
    BY <2>1, <2>2 DEF Heard
<1>6. Acks
  BY <1>1, <1>2, <1>4 DEF Acks
<1> QED
  BY <1>5, <1>6

\* The receipt of the acceptance that the UI awaits.
LEMMA AcceptanceFiled ==
    ASSUME ClientInv, RootInv, NEW r \in Runs, NEW id, id # 0, Receipt(log[r], id),
           req[Ui].kind = "accept", req[Ui].id = id
    PROVE  req[Ui].run = r
<1>1. PICK i \in DOMAIN log[r] : log[r][i].id = id
  BY DEF Receipt
<1>2. asked[id].run = r
  BY <1>1 DEF RootInv, Filed, Credited
<1>3. asked[id].run = req[Ui].run
  BY UiParts DEF Traced, Controls
<1> QED
  BY <1>2, <1>3

\* A step of launch l.
LEMMA LaunchRoots ==
    ASSUME ClientInv, RootInv, NEW l \in DOMAIN launch, NEW x, Becomes(l, x), Adds(l, launch[l].run, x),
           \A t \in Runs : t # launch[l].run => log'[t] = log[t] /\ lease'[t] = lease[t],
           lease'[launch[l].run] # 0 => ~Ended(log'[launch[l].run]),
           UNCHANGED <<active, asked, client, mon, ui, misled>>, req' \in [Callers -> Request], Heard, Acks
    PROVE  RootInv'
<1>1. PICK r \in Runs : r = launch[l].run
  BY UiParts
<1>2. Adds(l, r, x) /\ (\A t \in Runs : t # r => log'[t] = log[t] /\ lease'[t] = lease[t])
      /\ (lease'[r] # 0 => ~Ended(log'[r])) /\ (\A t \in Runs : t # r => log'[t] = log[t])
  BY <1>1
<1>3. Grown
  BY <1>2, LogsGrow, UiParts
<1>4. /\ \A c \in Callers : Rung(req[c], req'[c]) /\ Sighted(req[c], req'[c])
      /\ Rung(req[Ui], req'[Ui]) /\ Sighted(req[Ui], req'[Ui])
      /\ req[Ui].pc = "done" => req'[Ui].seen = req[Ui].seen
      /\ \A c \in Callers : Rung(req[c], req'[c])
  BY UiParts DEF Heard
<1>5. Filed' /\ Judging'
  BY <1>1, <1>2, <1>3, <1>4, LaunchFiles, LaunchJudging
<1>6. Entered'
  BY <1>3, <1>4, LaunchEnters
<1>7. Asking'
  BY <1>3, <1>4, LaunchAsking
<1>8. Proposals'
  BY <1>1, <1>2, <1>3, <1>4, LaunchProposals
<1>9. Adopted'
  BY <1>3, <1>4, LaunchAdopted
<1> QED
  BY <1>5, <1>6, <1>7, <1>8, <1>9 DEF RootInv

\* A launch whose task ends.
LEMMA ClosingRoots ==
    ASSUME ClientInv, RootInv, NEW l \in DOMAIN launch, NEW ready \in Readiness,
           launch' = [launch EXCEPT ![l] = Closed(launch[l], ready)],
           ready = "ok" => log[launch[l].run] # <<>>, ready \in {"none", "ok"} \/ launch[l].st = "acquire",
           UNCHANGED <<log, active, asked, client, mon, ui, misled>>, req' \in [Callers -> Request], Heard, Acks,
           lease' = lease \/ lease' = [lease EXCEPT ![launch[l].run] = 0]
    PROVE  RootInv'
<1> DEFINE z == launch[l] x == Closed(z, ready) r == launch[l].run
<1>1. z \in Launches /\ r \in Runs /\ lease \in [Runs -> Nat] /\ Filed
  BY UiParts DEF Typed, RootInv
<1>2. x \in Launches /\ x.run = r /\ x.st = "over" /\ x.queue = <<>> /\ x.ready = ready
  BY <1>1, ClosedFields
<1>3. x.ack = 0
  BY DEF Closed, NewLaunch
<1>4. launch' = [launch EXCEPT ![l] = x]
  OBVIOUS
<1> HIDE DEF x
<1>5. Becomes(l, x)
  BY <1>2, <1>3, <1>4 DEF Becomes, Supplied, Unbound, Plain, Live
<1>6. Adds(l, r, x)
  BY DEF Adds
<1>7. /\ \A t \in Runs : t # r => log'[t] = log[t] /\ lease'[t] = lease[t]
      /\ lease'[r] # 0 => ~Ended(log'[r])
  BY <1>1 DEF Filed
<1> QED
  BY <1>5, <1>6, <1>7, LaunchRoots

\* A launch that goes on: its run, its readiness and its creation stay, its queue
\* only gets shorter, and it acknowledges what it has committed.
Continuing(z, x) ==
    /\ x \in Launches /\ x.run = z.run /\ x.ready = z.ready /\ x.create = z.create
    /\ \A i \in DOMAIN x.queue : \E j \in DOMAIN z.queue : x.queue[i] = z.queue[j]
    /\ x.queue = z.queue \/ Plain(x)
    /\ \/ x.st = z.st
       \/ z.st \in Live /\ x.st \in {"drain", "loop", "review", "reject", "end", "leave"}
       \/ z.st = "end" /\ x.st = "last"

LEMMA ContinuingRoots ==
    ASSUME ClientInv, RootInv, NEW l \in DOMAIN launch, NEW x, Continuing(launch[l], x),
           launch' = [launch EXCEPT ![l] = x], Adds(l, launch[l].run, x), Unbound(x, log'),
           log \in [Runs -> Seq(Events)],
           x.ack \in {0, launch[l].ack} \/ Receipt(log'[launch[l].run], x.ack),
           \A t \in Runs : t # launch[l].run => log'[t] = log[t] /\ lease'[t] = lease[t],
           lease'[launch[l].run] # 0 => ~Ended(log'[launch[l].run]),
           UNCHANGED <<active, asked, client, mon, ui, misled>>, req' \in [Callers -> Request], Heard, Acks
    PROVE  RootInv'
<1> DEFINE z == launch[l]
<1>1. PICK r \in Runs : r = z.run
  BY UiParts
<1>2. z \in Launches /\ Supplied(z, log, asked) /\ Typed
  BY UiParts DEF RootInv, Filed
<1>3. Adds(l, r, x) /\ \A t \in Runs : t # r => log'[t] = log[t]
  BY <1>1
<1>4. Grown
  BY <1>2, <1>3, LogsGrow
<1>5. Supplied(z, log', asked)
  BY <1>2, <1>4, SupplyLasts
<1>6. x.st = "last" => log'[r] # <<>>
  <2>1. z.st = "end" => lease[r] = l /\ l # 0
    BY <1>1, UiParts DEF AppInv, Leased, Working
  <2>2. z.st = "end" => log[r] # <<>>
    BY <1>1, <2>1, UiParts DEF AppInv, Leased
  <2>3. z.st = "last" => log'[r] # <<>>
    BY <1>1, <1>5 DEF Supplied
  <2> QED
    BY <1>1, <1>4, <2>2, <2>3 DEF Continuing, Grown, Live
<1>7. Supplied(x, log', asked)
  <2>1. x.ready = "ok" \/ x.st = "last" => log'[x.run] # <<>>
    BY <1>1, <1>5, <1>6 DEF Supplied, Continuing
  <2>2. x.st = "acquire" => x.ready = "none"
    BY <1>5 DEF Supplied, Continuing
  <2>3. x.ack # 0 => Receipt(log'[x.run], x.ack)
    BY <1>5 DEF Supplied, Continuing
  <2>4. ASSUME NEW i \in DOMAIN x.queue
        PROVE  x.queue[i].id # 0 => asked[x.queue[i].id].run = x.run
    BY <1>5 DEF Supplied, Continuing
  <2> QED
    BY <2>1, <2>2, <2>3, <2>4 DEF Supplied
<1>8. Becomes(l, x)
  BY <1>7 DEF Becomes, Continuing, Live
<1> QED
  BY <1>8, LaunchRoots

\* run_launch takes up its run, or is refused.
LEMMA AcquireRoots ==
    ASSUME ClientInv, RootInv, NEW l \in DOMAIN launch, Acquire(l), AppInv', UNCHANGED clientVars
    PROVE  RootInv'
<1> DEFINE z == launch[l] r == launch[l].run s == log[r]
<1>1. /\ z.st = "acquire" /\ z \in Launches /\ r \in Runs /\ s \in Seq(Events) /\ Supplied(z, log, asked)
      /\ log \in [Runs -> Seq(Events)] /\ lease \in [Runs -> Nat] /\ AppInv /\ Typed
      /\ UNCHANGED <<active, asked, client, mon, ui, misled>> /\ req' \in [Callers -> Request]
  BY UiParts, Parts DEF Acquire, RootInv, Filed, Typed, AppInv, clientVars
<1>2. ASSUME Hold(l), log' = log \/ (s = <<>> /\ log' = [log EXCEPT ![r] = <<Event("created", 0)>>]),
             log' = log => ~z.create /\ ~Ended(s) /\ s # <<>>
      PROVE  RootInv'
  <2> DEFINE x == [z EXCEPT !.ready = "ok", !.st = "gated"] e == Event("created", 0)
  <2>1. /\ x \in Launches /\ x.run = r /\ x.ready = "ok" /\ x.st = "gated" /\ x.create = z.create
        /\ x.queue = z.queue /\ x.ack = z.ack
    <3>1. r = z.run
      OBVIOUS
    <3> HIDE DEF z
    <3> QED
      BY <1>1, <3>1 DEF Launches, Readiness, Stages, Working
  <2>2. /\ launch' = [launch EXCEPT ![l] = x] /\ req' = Wake(req) /\ lease' = [lease EXCEPT ![r] = l]
    BY <1>2 DEF Hold
  <2> HIDE DEF x
  <2>3. e \in Events /\ e.kind = "created" /\ e.id = 0
    BY DEF Event, Events
  <2>4. ASSUME log' # log PROVE s = <<>> /\ log'[r] = Append(s, e) /\ ~Ended(s)
    <3>1. s = <<>> /\ log' = [log EXCEPT ![r] = <<e>>]
      BY <1>2, <2>4
    <3>2. log'[r] = <<e>>
      BY <1>1, <3>1
    <3>3. Append(<<>>, e) = <<e>>
      OBVIOUS
    <3> HIDE DEF e, r
    <3> QED
      BY <3>1, <3>2, <3>3 DEF Ended
  <2>5. Adds(l, r, x)
    <3>1. CASE log' = log
      BY <3>1 DEF Adds
    <3>2. CASE log' # log
      <4>1. log'[r] = Append(log[r], e) /\ log[r] = <<>> /\ ~Ended(log[r])
        BY <2>4, <3>2
      <4>2. Credited(e, r, asked)
        BY <2>3 DEF Credited
      <4> HIDE DEF e, r
      <4> QED
        BY <2>3, <4>1, <4>2 DEF Adds
    <3> QED
      BY <3>1, <3>2
  <2>6. /\ \A t \in Runs : t # r => log'[t] = log[t] /\ lease'[t] = lease[t]
        /\ \A t \in Runs : t # r => log'[t] = log[t]
    BY <1>1, <1>2, <2>2
  <2>7. Grown
    BY <1>1, <2>5, <2>6, LogsGrow
  <2>8. Supplied(z, log', asked)
    BY <1>1, <2>7, SupplyLasts
  <2>9. log'[r] # <<>> /\ ~Ended(log'[r]) /\ (log' # log => ~Answered(log'[r]))
    <3>1. CASE log' = log
      BY <1>2, <3>1
    <3>2. CASE log' # log
      <4>1. /\ Answered(log'[r]) => Answered(s) \/ e.kind = "proposed"
            /\ Ended(log'[r]) <=> e.kind \in Terminals
            /\ log'[r] # <<>>
        <5>1. log'[r] = Append(s, e) /\ s \in Seq(Events) /\ e \in Events
          BY <1>1, <2>3, <2>4, <3>2
        <5> HIDE DEF e, s, r
        <5> QED
          BY <5>1, LogGrows, StandsGrow
      <4>2. ~Answered(s)
        BY <2>4, <3>2 DEF Answered
      <4> QED
        BY <2>3, <4>1, <4>2 DEF Terminals
    <3> QED
      BY <3>1, <3>2
  <2>10. Supplied(x, log', asked)
    BY <2>1, <2>8, <2>9 DEF Supplied
  <2>11. Becomes(l, x)
    BY <1>1, <1>2, <2>1, <2>2, <2>9, <2>10 DEF Becomes, Unbound, Live
  <2>12. Heard /\ Acks
    BY <1>1, <2>2, NothingHeard
  <2> QED
    BY <1>1, <2>5, <2>6, <2>9, <2>11, <2>12, LaunchRoots
<1>3. ASSUME NEW ready \in Readiness, launch' = [launch EXCEPT ![l] = Closed(launch[l], ready)],
             ready = "ok" => Ended(s), UNCHANGED durable, req' = req \/ req' = Wake(req)
      PROVE  RootInv'
  <2>1. Heard /\ Acks
    BY <1>1, <1>3, NothingHeard
  <2>2. (ready = "ok" => log[launch[l].run] # <<>>) /\ UNCHANGED <<log, lease>>
    BY <1>3 DEF Ended, durable
  <2> QED
    BY <1>1, <1>3, <2>1, <2>2, ClosingRoots
<1>4. {"exists", "ok", "running", "advanced"} \subseteq Readiness
  BY DEF Readiness
<1>5. CASE Refuse(l, "exists") \/ Refuse(l, "running")
  BY <1>3, <1>4, <1>5 DEF Refuse
<1>6. CASE (Ended(s) /\ Withdraw(l, "ok")) \/ Withdraw(l, "advanced")
  BY <1>3, <1>4, <1>6 DEF Withdraw
<1>7. CASE /\ s = <<>> /\ Hold(l) /\ log' = [log EXCEPT ![r] = <<Event("created", 0)>>]
  <2>1. log'[r] = <<Event("created", 0)>> /\ log[r] = <<>>
    BY <1>1, <1>7
  <2>2. log' # log
    <3>1. <<Event("created", 0)>> # <<>>
      OBVIOUS
    <3> HIDE DEF r
    <3> QED
      BY <2>1, <3>1
  <2> QED
    BY <1>2, <1>7, <2>2
<1>8. CASE ~z.create /\ ~Ended(s) /\ Hold(l) /\ log' = log
  <2>1. s # <<>>
    BY <1>1, <1>8 DEF AppInv, Coherent, Sound
  <2> QED
    BY <1>2, <1>8, <2>1
<1> QED
  BY <1>5, <1>6, <1>7, <1>8 DEF Acquire

\* A launch that goes on without a word to the log.
LEMMA QuietRoots ==
    ASSUME ClientInv, RootInv, NEW l \in DOMAIN launch, NEW x \in Launches, GoesOn(launch[l], x),
           launch[l].st \notin {"gated", "drain", "review"} => x.st = launch[l].st,
           x.st = launch[l].st \/ x.st \in {"drain", "loop", "review", "reject", "end", "leave"},
           x.st = launch[l].st \/ Unbound(x, log),
           launch' = [launch EXCEPT ![l] = x], x.ack \in {0, launch[l].ack},
           UNCHANGED <<log, lease, active, asked, client, mon, ui, misled>>,
           req' \in [Callers -> Request], Heard, Acks
    PROVE  RootInv'
<1> DEFINE z == launch[l]
<1>1. /\ z \in Launches /\ z.run \in Runs /\ z.queue \in Seq(Message) /\ Filed
      /\ log \in [Runs -> Seq(Events)]
  BY UiParts DEF Launches, RootInv, Typed
<1>2. /\ \A i \in DOMAIN x.queue : \E j \in DOMAIN z.queue : x.queue[i] = z.queue[j]
      /\ x.queue = z.queue \/ Plain(x)
  <2>1. CASE x.queue = z.queue
    BY <2>1
  <2>2. CASE z.queue # <<>> /\ x.queue = Tail(z.queue)
    <3>1. \A i \in DOMAIN x.queue : i + 1 \in DOMAIN z.queue /\ x.queue[i] = z.queue[i + 1] /\ i + 1 # 1
      BY <1>1, <2>2
    <3>2. \A j \in DOMAIN z.queue : z.queue[j].kind = "accept" => j = 1
      BY DEF RootInv, Proposals, Carried
    <3> QED
      BY <3>1, <3>2 DEF Plain
  <2> QED
    BY <2>1, <2>2 DEF GoesOn
<1>3. Continuing(z, x)
  BY <1>2 DEF Continuing, GoesOn, Live
<1>4. Adds(l, z.run, x) /\ Unbound(x, log')
  <2>1. Unbound(z, log) /\ x.run = z.run
    BY DEF RootInv, Judging, GoesOn
  <2> QED
    BY <2>1 DEF Adds, Unbound
<1>5. /\ \A t \in Runs : t # z.run => log'[t] = log[t] /\ lease'[t] = lease[t]
      /\ lease'[z.run] # 0 => ~Ended(log'[z.run])
  BY <1>1 DEF Filed
<1> QED
  BY <1>1, <1>3, <1>4, <1>5, ContinuingRoots

LEMMA BootRoots ==
    ASSUME ClientInv, RootInv, NEW l \in DOMAIN launch, Boot(l), AppInv', UNCHANGED clientVars
    PROVE  RootInv'
<1>1. PICK st \in {"end", "drain", "loop", "review", "reject"}, goal \in Terminals \cup {"none"} :
          /\ launch' = [launch EXCEPT ![l] = [launch[l] EXCEPT !.st = st, !.goal = goal]]
          /\ st = "end" => goal \in Terminals
          /\ st = "reject" => Failing(log[launch[l].run])
          /\ st \in {"review", "loop"} => ~(Answered(log[launch[l].run]) /\ launch[l].run \in HostRuns)
  BY DEF Boot, Terminals
<1>2. /\ launch[l].st = "gated" /\ launch[l].gate /\ launch[l] \in Launches
      /\ UNCHANGED <<log, lease, active, req, asked, client, mon, ui, misled>>
      /\ req' \in [Callers -> Request] /\ AppInv
  BY UiParts DEF Boot, durable, AppInv, Typed, clientVars
<1> DEFINE z == launch[l] x == [z EXCEPT !.st = st, !.goal = goal]
<1>3. st \in Stages
  BY DEF Stages, Working
<1>4. /\ x \in Launches /\ x.run = z.run /\ x.ready = z.ready /\ x.create = z.create
      /\ x.gate = z.gate /\ x.queue = z.queue /\ x.st = st /\ x.goal = goal /\ x.ack = z.ack
  <2>1. z \in Launches
    BY <1>2
  <2> HIDE DEF z
  <2> QED
    BY <1>3, <2>1 DEF Launches
<1>5. launch' = [launch EXCEPT ![l] = x]
  BY <1>1
<1> HIDE DEF x
<1>6. GoesOn(launch[l], x)
  BY <1>1, <1>2, <1>4 DEF GoesOn, Working
<1>7. Heard /\ Acks
  BY <1>2, NothingHeard
\* A candidate whose verification failed was accepted by its host.
<1>8. Unbound(x, log)
  <2>1. launch[l].run \in HostRuns => Untouched(log[launch[l].run]) /\ log[launch[l].run] \in Seq(Events)
    BY UiParts, Parts DEF RootInv, Judging
  <2>2. st = "reject" => ~(Answered(log[launch[l].run]) /\ launch[l].run \in HostRuns)
    BY <1>1, <2>1, UntouchedFailing
  <2> QED
    BY <1>1, <1>4, <2>2 DEF Unbound, HostAnswered
<1> QED
  BY <1>2, <1>4, <1>5, <1>6, <1>7, <1>8, QuietRoots

LEMMA EmitRoots ==
    ASSUME ClientInv, RootInv, NEW l \in DOMAIN launch, Emit(l), AppInv', UNCHANGED clientVars
    PROVE  RootInv'
<1> DEFINE z == launch[l] x == [z EXCEPT !.told = TRUE, !.ack = 0]
<1>1. /\ UNCHANGED <<log, lease, active, asked, client, mon, ui, misled>> /\ z \in Launches /\ AppInv
      /\ req' = Acknowledged(Wake(req), z.ack, "accepted") /\ req' \in [Callers -> Request]
      /\ Supplied(z, log, asked) /\ z.run \in Runs
  BY UiParts DEF Emit, durable, AppInv, Typed, clientVars, RootInv, Filed
<1>2. Heard /\ Acks
  <2>1. z.ack # 0 /\ req[Ui].id = z.ack /\ req[Ui].kind = "accept" => Receipt(log'[req[Ui].run], z.ack)
    BY <1>1, AcceptanceFiled DEF Supplied
  <2> QED
    BY <1>1, <2>1, AnswerHeard
<1>3. CASE z.st = "last"
  <2>1. launch' = [launch EXCEPT ![l] = Closed(z, "ok")]
    BY <1>3 DEF Emit
  <2>2. "ok" \in Readiness /\ log[z.run] # <<>>
    BY <1>1, <1>3 DEF Readiness, Supplied
  <2> QED
    BY <1>1, <1>2, <2>1, <2>2, ClosingRoots
<1>4. CASE z.st # "last"
  <2>1. launch' = [launch EXCEPT ![l] = x]
    BY <1>4 DEF Emit
  <2>2. /\ x \in Launches /\ x.run = z.run /\ x.ready = z.ready /\ x.create = z.create
        /\ x.gate = z.gate /\ x.queue = z.queue /\ x.st = z.st /\ x.goal = z.goal /\ x.ack = 0
    <3> HIDE DEF z
    <3> QED
      BY <1>1 DEF Launches
  <2>3. z.st = "end" => z.goal \in Terminals
    BY <1>1 DEF AppInv, Coherent, Sound
  <2> HIDE DEF x
  <2>4. GoesOn(z, x)
    BY <1>1, <2>2, <2>3 DEF GoesOn
  <2> QED
    BY <1>1, <1>2, <2>1, <2>2, <2>4, QuietRoots
<1> QED
  BY <1>3, <1>4

LEMMA DrainedRoots ==
    ASSUME ClientInv, RootInv, NEW l \in DOMAIN launch, Drained(l), AppInv', UNCHANGED clientVars
    PROVE  RootInv'
<1>1. /\ launch[l].st = "drain" /\ launch[l] \in Launches /\ AppInv
      /\ UNCHANGED <<log, lease, active, req, asked, client, mon, ui, misled>> /\ req' \in [Callers -> Request]
  BY UiParts DEF Drained, Ready, durable, AppInv, Typed, clientVars
<1> DEFINE z == launch[l]
<1>2. PICK st \in {"leave", "review"} :
          /\ launch' = [launch EXCEPT ![l] = [z EXCEPT !.st = st]]
          /\ st = "review" => ~Answered(log[z.run])
  BY DEF Drained
<1> DEFINE x == [z EXCEPT !.st = st]
<1>3. st \in Stages
  BY DEF Stages, Working
<1>4. /\ x \in Launches /\ x.run = z.run /\ x.ready = z.ready /\ x.create = z.create
      /\ x.gate = z.gate /\ x.queue = z.queue /\ x.st = st /\ x.ack = z.ack
  <2>1. z \in Launches
    BY <1>1
  <2> HIDE DEF z
  <2> QED
    BY <1>3, <2>1 DEF Launches
<1>5. launch' = [launch EXCEPT ![l] = x]
  BY <1>2
<1> HIDE DEF x
<1>6. GoesOn(launch[l], x)
  BY <1>1, <1>2, <1>4 DEF GoesOn, Working
<1>7. Heard /\ Acks
  BY <1>1, NothingHeard
<1>8. Unbound(x, log)
  BY <1>2, <1>4 DEF Unbound, HostAnswered
<1> QED
  BY <1>1, <1>4, <1>5, <1>6, <1>7, <1>8, QuietRoots

\* accept_completion_candidate: the review ends the run.
LEMMA ReviewRoots ==
    ASSUME ClientInv, RootInv, NEW l \in DOMAIN launch, Review(l), AppInv', UNCHANGED clientVars
    PROVE  RootInv'
<1>1. /\ launch[l].st = "review" /\ launch[l] \in Launches /\ AppInv
      /\ UNCHANGED <<log, lease, active, req, asked, client, mon, ui, misled>> /\ req' \in [Callers -> Request]
  BY UiParts DEF Review, Ready, durable, AppInv, Typed, clientVars
<1> DEFINE z == launch[l]
<1>2. PICK o \in Outcomes : launch' = [launch EXCEPT ![l] = [z EXCEPT !.st = "end", !.goal = o]]
  BY DEF Review
<1>3. o \in Terminals /\ "end" \in Stages
  BY ApplicationAssumption DEF Terminals, Stages, Working
<1> DEFINE x == [z EXCEPT !.st = "end", !.goal = o]
<1>4. /\ x \in Launches /\ x.run = z.run /\ x.ready = z.ready /\ x.create = z.create
      /\ x.gate = z.gate /\ x.queue = z.queue /\ x.st = "end" /\ x.goal = o /\ x.ack = z.ack
  <2>1. z \in Launches
    BY <1>1
  <2> HIDE DEF z
  <2> QED
    BY <1>3, <2>1 DEF Launches
<1>5. launch' = [launch EXCEPT ![l] = x]
  BY <1>2
<1> HIDE DEF x
<1>6. GoesOn(launch[l], x) /\ Unbound(x, log)
  BY <1>1, <1>3, <1>4 DEF GoesOn, Working, Unbound
<1>7. Heard /\ Acks
  BY <1>1, NothingHeard
<1> QED
  BY <1>1, <1>4, <1>5, <1>6, <1>7, QuietRoots

LEMMA LeaveRoots ==
    ASSUME ClientInv, RootInv, NEW l \in DOMAIN launch, Leave(l), AppInv', UNCHANGED clientVars
    PROVE  RootInv'
<1>1. /\ launch[l].st = "leave" /\ UNCHANGED <<log, active, req, asked, client, mon, ui, misled>>
      /\ lease' = [lease EXCEPT ![launch[l].run] = 0] /\ launch' = [launch EXCEPT ![l] = Closed(launch[l], "ok")]
      /\ AppInv /\ req' \in [Callers -> Request] /\ launch[l].run \in Runs
  BY UiParts DEF Leave, Ready, AppInv, Typed, clientVars
<1>2. lease[launch[l].run] = l /\ l # 0
  BY <1>1, UiParts DEF AppInv, Leased, Working
<1>3. log[launch[l].run] # <<>> /\ "ok" \in Readiness
  BY <1>1, <1>2 DEF AppInv, Leased, Readiness
<1>4. Heard /\ Acks
  BY <1>1, NothingHeard
<1> QED
  BY <1>1, <1>3, <1>4, ClosingRoots

\* A launch at work commits event e and goes on as x.
LEMMA CommittingRoots ==
    ASSUME ClientInv, RootInv, NEW l \in DOMAIN launch, launch[l].st \in Live, NEW r \in Runs, r = launch[l].run,
           NEW x, Continuing(launch[l], x), launch' = [launch EXCEPT ![l] = x],
           NEW e \in Events, Credited(e, r, asked), log' = [log EXCEPT ![r] = Append(log[r], e)], x.ack = e.id,
           e.kind = "proposed" /\ r \in HostRuns => x.st \notin Live,
           e.kind \in {"proposed", "failed", "rejected"} => launch[l].st \in {"loop", "review", "reject"},
           e.kind = "accepted" => Granted(l, r, e, x),
           x.st \in {"loop", "review", "reject"} => launch[l].st \in {"loop", "review", "reject"},
           \/ lease' = lease /\ e.kind \notin Terminals
           \/ lease' = [lease EXCEPT ![r] = 0],
           UNCHANGED <<active, asked, client, mon, ui, misled>>, req' \in [Callers -> Request], Heard, Acks
    PROVE  RootInv'
<1>1. log \in [Runs -> Seq(Events)] /\ lease \in [Runs -> Nat] /\ Filed /\ AppInv /\ l # 0 /\ l \in DOMAIN launch
  BY UiParts DEF Typed, RootInv
<1>2. lease[r] = l
  BY <1>1 DEF AppInv, Leased, Live, Working
<1>3. ~Ended(log[r])
  BY <1>1, <1>2 DEF Filed
<1>4. log'[r] = Append(log[r], e) /\ log[r] \in Seq(Events) /\ \A t \in Runs : t # r => log'[t] = log[t]
  BY <1>1
<1>5. (Ended(log'[r]) <=> e.kind \in Terminals) /\ Receipt(log'[r], e.id)
  BY <1>4, LogGrows
<1>6. Adds(l, r, x)
  BY <1>3, <1>4 DEF Adds
<1>7. /\ \A t \in Runs : t # r => lease'[t] = lease[t]
      /\ lease'[r] # 0 => ~Ended(log'[r])
  BY <1>1, <1>5
<1>8. Unbound(x, log')
  <2> SUFFICES ASSUME x.st \in {"loop", "review", "reject"}, r \in HostRuns, Answered(log'[r]) PROVE FALSE
    BY DEF Unbound, HostAnswered, Continuing
  <2>1. ~Answered(log[r])
    BY DEF RootInv, Judging, Unbound, HostAnswered
  <2> QED
    BY <1>4, <2>1, StandsGrow DEF Live
<1> QED
  BY <1>1, <1>4, <1>5, <1>6, <1>7, <1>8, ContinuingRoots

\* What publish makes of its launch.
LEMMA CommitContinues ==
    ASSUME ClientInv, RootInv, NEW l \in DOMAIN launch, launch[l].st \in Live,
           NEW e \in Events, e.id = 0, NEW st \in {"loop", "review", "reject", "leave", "end", "last"},
           st = "last" => launch[l].st = "end",
           NEW goal \in Terminals \cup {"none"}, Commit(l, e, st, goal)
    PROVE  /\ log' = [log EXCEPT ![launch[l].run] = Append(log[launch[l].run], e)]
           /\ \E x : /\ launch' = [launch EXCEPT ![l] = x] /\ Continuing(launch[l], x)
                     /\ x.ack = 0 /\ x.st = st
<1> DEFINE z == launch[l] x == [z EXCEPT !.st = st, !.goal = goal, !.told = FALSE, !.ack = 0]
<1>1. z \in Launches /\ st \in Stages
  BY UiParts DEF Stages, Working
<1>2. launch' = [launch EXCEPT ![l] = x] /\ log' = [log EXCEPT ![launch[l].run] = Append(log[launch[l].run], e)]
  BY DEF Commit
<1>3. /\ x \in Launches /\ x.run = z.run /\ x.ready = z.ready /\ x.create = z.create
      /\ x.queue = z.queue /\ x.st = st /\ x.ack = 0
  <2> HIDE DEF z
  <2> QED
    BY <1>1 DEF Launches
<1> HIDE DEF x
<1>4. Continuing(z, x)
  BY <1>3 DEF Continuing
<1> QED
  BY <1>2, <1>3, <1>4

\* A candidate is made, or judged.
LEMMA CandidateRoots ==
    ASSUME ClientInv, RootInv, NEW l \in DOMAIN launch, launch[l].st \in {"loop", "review", "reject"},
           NEW e \in Events, e.id = 0, e.kind \in {"proposed", "failed", "rejected"},
           NEW st \in {"loop", "review", "reject", "leave", "end"}, NEW goal \in Terminals \cup {"none"},
           Commit(l, e, st, goal), e.kind = "proposed" /\ launch[l].run \in HostRuns => st = "leave",
           UNCHANGED <<lease, active, req, asked>>, AppInv', UNCHANGED clientVars
    PROVE  RootInv'
<1>3. /\ UNCHANGED <<client, mon, ui, misled>> /\ AppInv /\ req' \in [Callers -> Request] /\ launch[l].run \in Runs
  BY UiParts DEF AppInv, Typed, clientVars
<1>4. launch[l].st \in Live /\ "leave" \notin Live /\ st # "last"
  BY DEF Live
<1>5. PICK x : /\ launch' = [launch EXCEPT ![l] = x] /\ Continuing(launch[l], x)
               /\ x.ack = 0 /\ x.st = st
  BY <1>4, CommitContinues
<1>6. log' = [log EXCEPT ![launch[l].run] = Append(log[launch[l].run], e)]
  BY <1>4, CommitContinues
<1>7. Credited(e, launch[l].run, asked) /\ e.kind \notin Terminals /\ e.kind # "accepted"
  BY DEF Credited, Terminals
<1>8. Heard /\ Acks
  BY <1>3, NothingHeard
<1>9. PICK r \in Runs : r = launch[l].run
  BY <1>3
<1>10. /\ e.kind = "proposed" /\ r \in HostRuns => x.st \notin Live
       /\ e.kind = "accepted" => Granted(l, r, e, x)
       /\ lease' = lease /\ x.ack = e.id /\ UNCHANGED <<active, asked, client, mon, ui, misled>>
  BY <1>3, <1>4, <1>5, <1>7, <1>9
<1> QED
  BY <1>3, <1>4, <1>5, <1>6, <1>7, <1>8, <1>9, <1>10, CommittingRoots

LEMMA ProposeRoots ==
    ASSUME ClientInv, RootInv, NEW l \in DOMAIN launch, Propose(l), AppInv', UNCHANGED clientVars
    PROVE  RootInv'
<1> DEFINE e == Event("proposed", 0)
<1>1. e \in Events /\ e.id = 0 /\ e.kind = "proposed"
  BY DEF Event, Events
<1>2. PICK st \in {"leave", "review"} : Commit(l, e, st, "none") /\ (launch[l].run \in HostRuns => st = "leave")
  BY DEF Propose
<1>3. launch[l].st = "loop" /\ UNCHANGED <<lease, active, req, asked>>
  BY DEF Propose, Ready
<1> HIDE DEF e
<1> QED
  BY <1>1, <1>2, <1>3, CandidateRoots

LEMMA FailVerificationRoots ==
    ASSUME ClientInv, RootInv, NEW l \in DOMAIN launch, FailVerification(l), AppInv', UNCHANGED clientVars
    PROVE  RootInv'
<1> DEFINE e == Event("failed", 0)
<1>1. e \in Events /\ e.id = 0 /\ e.kind = "failed"
  BY DEF Event, Events
<1>2. Commit(l, e, "reject", "none") /\ launch[l].st = "review" /\ UNCHANGED <<lease, active, req, asked>>
  BY DEF FailVerification, Ready
<1> HIDE DEF e
<1> QED
  BY <1>1, <1>2, CandidateRoots

LEMMA RejectCandidateRoots ==
    ASSUME ClientInv, RootInv, NEW l \in DOMAIN launch, RejectCandidate(l), AppInv', UNCHANGED clientVars
    PROVE  RootInv'
<1> DEFINE e == Event("rejected", 0)
<1>1. e \in Events /\ e.id = 0 /\ e.kind = "rejected"
  BY DEF Event, Events
<1>2. PICK st \in {"loop", "end"}, goal \in Terminals \cup {"none"} : Commit(l, e, st, goal)
  BY DEF RejectCandidate, Terminals
<1>3. launch[l].st = "reject" /\ UNCHANGED <<lease, active, req, asked>>
  BY DEF RejectCandidate, Ready
<1> HIDE DEF e
<1> QED
  BY <1>1, <1>2, <1>3, CandidateRoots

LEMMA EndRoots ==
    ASSUME ClientInv, RootInv, NEW l \in DOMAIN launch, End(l), AppInv', UNCHANGED clientVars
    PROVE  RootInv'
<1> DEFINE z == launch[l] r == launch[l].run e == Event(z.goal, 0)
<1>1. /\ z.st = "end" /\ UNCHANGED <<active, req, asked, client, mon, ui, misled>>
      /\ lease' = [lease EXCEPT ![r] = 0] /\ Commit(l, e, "last", z.goal)
      /\ AppInv /\ req' \in [Callers -> Request] /\ r \in Runs
  BY UiParts DEF End, Ready, AppInv, Typed, clientVars
<1>2. z.goal \in Terminals /\ z.st \in Live
  BY <1>1 DEF AppInv, Coherent, Sound, Live
<1>3. e \in Events /\ e.id = 0 /\ e.kind \in Terminals
  BY <1>2 DEF Event, Events
<1> HIDE DEF e
<1>5. PICK x : /\ launch' = [launch EXCEPT ![l] = x] /\ Continuing(launch[l], x)
               /\ x.ack = 0 /\ x.st = "last"
  BY <1>1, <1>2, <1>3, CommitContinues
<1>6. log' = [log EXCEPT ![r] = Append(log[r], e)]
  BY <1>1, <1>2, <1>3, CommitContinues
<1>7. Credited(e, r, asked) /\ e.kind \notin {"proposed", "failed", "rejected", "accepted"}
  BY <1>3 DEF Credited, Terminals
<1>8. Heard /\ Acks
  BY <1>1, NothingHeard
<1> QED
  BY <1>1, <1>2, <1>3, <1>5, <1>6, <1>7, <1>8, CommittingRoots

\* handle_control: an acceptance finds the candidate it is about, unless the client was
\* misled.
LEMMA HandleRoots ==
    ASSUME ClientInv, RootInv, NEW l \in DOMAIN launch, Handle(l), AppInv', UNCHANGED clientVars
    PROVE  RootInv'
<1> DEFINE z == launch[l] m == Head(z.queue) t == Tail(z.queue) r == launch[l].run
<1>1. /\ z \in Launches /\ z.queue # <<>> /\ z.st \in {"drain", "loop"} /\ r \in Runs
      /\ UNCHANGED <<lease, active, asked, client, mon, ui, misled>>
      /\ AppInv /\ req' \in [Callers -> Request] /\ Supplied(z, log, asked) /\ Sound(z, log, asked)
  BY UiParts DEF Handle, Ready, AppInv, Typed, clientVars, RootInv, Filed, Coherent
<1>2. /\ t \in Seq(Message) /\ m \in Message /\ z.queue \in Seq(Message)
      /\ 1 \in DOMAIN z.queue /\ m = z.queue[1]
      /\ \A i \in DOMAIN t : i + 1 \in DOMAIN z.queue /\ t[i] = z.queue[i + 1]
  <2>1. z.queue \in Seq(Message)
    BY <1>1 DEF Launches
  <2> HIDE DEF z
  <2> QED
    BY <1>1, <2>1
<1>3. launch \in Seq(Launches) /\ req \in [Callers -> Request]
  BY <1>1 DEF AppInv, Typed
<1>4. m.id # 0 => asked[m.id].run = r /\ asked[m.id].kind = m.kind
  BY <1>1, <1>2 DEF Supplied, Sound, Known
<1>5. lease[r] = l /\ l # 0 /\ ~Ended(log[r])
  <2>1. lease[r] = l /\ l # 0
    BY <1>1, UiParts DEF AppInv, Leased, Working
  <2> QED
    BY <1>1, <2>1 DEF RootInv, Filed
<1>6. /\ \A i \in DOMAIN z.queue : z.queue[i].kind = "accept" => i = 1
      /\ m.kind = "accept" =>
            /\ ui.op = "accept" /\ m.id = req[Ui].id /\ req[Ui].launch = l
            /\ ~Receipt(log[ui.run], m.id)
  BY <1>2 DEF RootInv, Proposals, Carried
<1> DEFINE y == [z EXCEPT !.queue = t]
           commits == ~Receipt(log[r], m.id) \/ m.id = 0
           fits == m.kind = "accept" => Pending(log[r]) /\ asked[m.id].about = Offer(log[r])
<1>9. \A i \in DOMAIN t : t[i].kind # "accept"
  BY <1>2, <1>6
<1>7. CASE commits /\ fits
  <2> DEFINE k == IF m.kind = "accept" THEN "accepted" ELSE m.kind
             e == Event(k, m.id)
             st == IF m.kind = "cancel" THEN "end" ELSE z.st
             goal == IF m.kind = "cancel" THEN "Cancelled" ELSE z.goal
             x == [z EXCEPT !.queue = t, !.told = FALSE, !.ack = m.id, !.st = st, !.goal = goal]
  <2>1. log' = [log EXCEPT ![r] = Append(log[r], e)] /\ req' = req
    BY <1>7 DEF Handle
  <2>2. launch' = [launch EXCEPT ![l] = x]
    <3> DEFINE w == [y EXCEPT !.told = FALSE, !.ack = m.id, !.st = IF m.kind = "cancel" THEN "end" ELSE @,
                              !.goal = IF m.kind = "cancel" THEN "Cancelled" ELSE @]
    <3>1. launch' = [launch EXCEPT ![l] = w]
      BY <1>7, Zenon DEF Handle
    <3>2. w = x
      <4> HIDE DEF z, m, t
      <4> QED
        BY <1>1 DEF Launches
    <3> QED
      BY <3>1, <3>2
  <2>3. /\ e \in Events /\ e.id = m.id /\ e.kind = k
        /\ k \notin Terminals \cup {"proposed", "failed", "rejected"} /\ (k = "accepted" => m.kind = "accept")
    BY <1>2 DEF Message, Event, Events, Controls, Terminals
  <2>4. Credited(e, r, asked)
    BY <1>4, <2>3 DEF Credited, EventOf
  <2>5. st \in Stages /\ goal \in Terminals \cup {"none"} /\ m.id \in Nat /\ st \in {"drain", "loop", "end"}
    BY <1>1, <1>2 DEF Stages, Working, Launches, Terminals, Message
  <2>6. st \in {"loop", "review", "reject"} => z.st \in {"loop", "review", "reject"}
    OBVIOUS
  <2>7. /\ x \in Launches /\ x.run = z.run /\ x.ready = z.ready /\ x.create = z.create
        /\ x.queue = t /\ x.st = st /\ x.ack = m.id
    <3> HIDE DEF z, m, t, st, goal
    <3> QED
      BY <1>1, <1>2, <2>5 DEF Launches
  <2> HIDE DEF x, st, goal
  <2>8. z.st \in Live
    BY <1>1 DEF Live
  <2>9. Continuing(z, x)
    <3>1. \A i \in DOMAIN x.queue : \E j \in DOMAIN z.queue : x.queue[i] = z.queue[j]
      BY <1>2, <2>7
    <3>2. Plain(x)
      BY <1>9, <2>7 DEF Plain
    <3> QED
      BY <2>5, <2>7, <2>8, <3>1, <3>2 DEF Continuing
  <2>10. Heard /\ Acks
    BY <1>1, <2>1, NothingHeard
  <2>11. k = "accepted" => Granted(l, r, e, x)
    BY <1>2, <1>7, <1>9, <2>3, <2>7 DEF Plain, Granted
  <2>12. PICK u \in Runs : u = launch[l].run
    BY <1>1
  <2>13. /\ e \in Events /\ e.kind \notin Terminals \cup {"proposed", "failed", "rejected"}
         /\ e.kind = "accepted" => Granted(l, u, e, x)
         /\ x.st \in {"loop", "review", "reject"} => launch[l].st \in {"loop", "review", "reject"}
         /\ x.ack = e.id /\ Credited(e, u, asked) /\ launch[l].st \in Live /\ Continuing(launch[l], x)
         /\ launch' = [launch EXCEPT ![l] = x] /\ log' = [log EXCEPT ![u] = Append(log[u], e)]
    BY <2>1, <2>2, <2>3, <2>4, <2>6, <2>7, <2>8, <2>9, <2>11, <2>12
  <2> HIDE DEF e, k, m, t
  <2> QED
    BY <1>1, <2>10, <2>12, <2>13, CommittingRoots
<1>8. CASE ~(commits /\ fits)
  <2> DEFINE a == IF commits THEN "notPending" ELSE "accepted"
  <2>1. req' = Acknowledged(req, m.id, a)
    BY <1>8 DEF Handle
  <2>2. launch' = [launch EXCEPT ![l] = y] /\ log' = log
    BY <1>8 DEF Handle
  <2>3. m # Stop /\ m.id # 0
    <3>1. CASE ~commits
      BY <3>1 DEF Stop
    <3>2. CASE ~fits
      <4>1. req[Ui].kind = "accept"
        BY <1>6, <3>2 DEF RootInv, Asking
      <4> QED
        BY <1>6, <3>2, <4>1, UiParts DEF Stop, Placed, Controls
    <3> QED
      BY <1>8, <3>1, <3>2
  <2>4. /\ y \in Launches /\ y.run = z.run /\ y.ready = z.ready /\ y.create = z.create
        /\ y.gate = z.gate /\ y.queue = t /\ y.st = z.st /\ y.goal = z.goal /\ y.ack = z.ack
    <3> HIDE DEF z, t
    <3> QED
      BY <1>1, <1>2 DEF Launches
  <2> HIDE DEF y
  <2>5. GoesOn(z, y)
    BY <1>1, <2>2, <2>3, <2>4 DEF GoesOn
  <2>6. req[Ui].id = m.id /\ req[Ui].kind = "accept" /\ req[Ui].pc = "acked" =>
            IF a = "accepted" THEN Receipt(log'[req[Ui].run], m.id)
            ELSE Strayed(req[Ui].run) /\ Plain(launch'[req[Ui].launch])
    <3>1. CASE ~commits
      BY <1>1, <2>2, <2>3, <3>1, AcceptanceFiled
    <3>2. CASE commits
      <4>1. ~fits /\ m.kind = "accept" /\ a = "notPending"
        BY <1>8, <3>2
      <4>2. req[Ui].kind = "accept" /\ req[Ui].pc # "idle" /\ ui.run = req[Ui].run
        BY <1>6, <4>1 DEF RootInv, Asking
      <4>3. ui.run = r
        BY <1>4, <1>6, <2>3, <4>1, <4>2, UiParts DEF Traced, Controls
      <4>4. ~Taken(r)
        BY <1>6, <4>1, <4>3 DEF Taken
      <4>5. ~Stands(log[r], asked[m.id].about)
        <5>1. log[r] \in Seq(Events)
          BY <1>1, UiParts, Parts
        <5> QED
          BY <4>1, <5>1, OneOffer
      <4>6. Strayed(r)
        BY <1>5, <1>6, <4>1, <4>3, <4>4, <4>5 DEF RootInv, Proposals, Accepting
      <4>7. launch'[l] = y /\ Plain(y)
        BY <1>3, <1>9, <2>2, <2>4 DEF Plain
      <4> QED
        BY <1>6, <4>1, <4>2, <4>3, <4>6, <4>7
    <3> QED
      BY <3>1, <3>2
  <2>7. Heard /\ Acks
    <3>1. a \in {"accepted", "notPending"}
      OBVIOUS
    <3> HIDE DEF m, a
    <3> QED
      BY <1>1, <2>1, <2>6, <3>1, AnswerHeard
  <2> QED
    BY <1>1, <2>2, <2>4, <2>5, <2>7, QuietRoots
<1> QED
  BY <1>7, <1>8

LEMMA LaunchStepRoots ==
    ASSUME ClientInv, RootInv, NEW l \in DOMAIN launch, LaunchStep(l), AppInv', UNCHANGED clientVars
    PROVE  RootInv'
  BY AcquireRoots, BootRoots, EmitRoots, HandleRoots, ProposeRoots, DrainedRoots, ReviewRoots,
     FailVerificationRoots, RejectCandidateRoots, LeaveRoots, EndRoots
     DEF LaunchStep

-----------------------------------------------------------------------------
(* The monitor of a launch and the steps of a request *)

LEMMA MonitorRoots ==
    ASSUME ClientInv, RootInv, NEW l \in DOMAIN launch, Monitor(l), AppInv', UNCHANGED clientVars
    PROVE  RootInv'
<1>1. /\ launch[l].st = "over" /\ active' = [active EXCEPT ![launch[l].run] = IF @ = l THEN 0 ELSE @]
      /\ UNCHANGED <<log, lease, launch, asked, client, mon, ui, misled>> /\ req' = Wake(req)
      /\ AppInv /\ req' \in [Callers -> Request] /\ active \in [Runs -> Nat] /\ launch \in Seq(Launches)
  BY UiParts DEF Monitor, Over, Retired, durable, AppInv, Typed, clientVars
<1>2. PICK r \in Runs : r = launch[l].run
  BY UiParts
<1>3. Adds(l, r, launch[l]) /\ \A t \in Runs : t # r => log'[t] = log[t] /\ lease'[t] = lease[t]
  BY <1>1 DEF Adds
<1>4. Grown
  BY <1>1, <1>2, <1>3, LogsGrow DEF AppInv
<1>5. Becomes(l, launch[l])
  <2>1. launch[l] \in Launches /\ launch' = [launch EXCEPT ![l] = launch[l]] /\ Supplied(launch[l], log', asked)
    BY <1>1 DEF RootInv, Filed
  <2> QED
    BY <1>1, <2>1 DEF Becomes, Unbound, Live
<1>6. Heard /\ Acks
  BY <1>1, NothingHeard
<1>7. /\ \A c \in Callers : Rung(req[c], req'[c]) /\ Sighted(req[c], req'[c])
      /\ Rung(req[Ui], req'[Ui]) /\ Sighted(req[Ui], req'[Ui])
      /\ req[Ui].pc = "done" => req'[Ui].seen = req[Ui].seen
      /\ \A c \in Callers : Rung(req[c], req'[c])
      /\ Ui \in Callers
  BY <1>6, UiParts DEF Heard
<1>8. lease'[r] # 0 => ~Ended(log'[r])
  BY <1>1 DEF RootInv, Filed
<1>9. Filed' /\ Judging'
  BY <1>1, <1>2, <1>3, <1>4, <1>5, <1>7, <1>8, LaunchFiles, LaunchJudging
<1>10. Asking'
  BY <1>1, <1>4, <1>7, LaunchAsking
<1>11. Proposals'
  BY <1>1, <1>2, <1>3, <1>4, <1>5, <1>6, <1>7, LaunchProposals
<1>12. Adopted'
  BY <1>1, <1>4, <1>5, <1>6, <1>7, LaunchAdopted
<1>13. Entered'
  <2>1. /\ Entered /\ \A t \in Runs : active'[t] = active[t] \/ (active[t] = l /\ active'[t] = 0)
        /\ req[Ui].pc # "idle" => req[Ui].run \in Runs
        /\ \A k \in DOMAIN launch : launch[k].run \in Runs
    BY <1>1, <1>2, UiParts DEF RootInv
  <2>2. /\ req'[Ui].kind = req[Ui].kind /\ req'[Ui].run = req[Ui].run /\ req'[Ui].pc = req[Ui].pc
        /\ req'[Ui].pc # "done" => req'[Ui].launch = req[Ui].launch
    <3>1. req'[Ui].pc = req[Ui].pc
      BY <1>1, <1>7, WakeSights DEF AppInv, Typed
    <3> QED
      BY <1>7, <3>1 DEF Rung, Nudged
  <2>3. \A t \in Runs : active'[t] # 0 => log'[t] # <<>>
    BY <1>1, <2>1 DEF Entered
  <2>4. req'[Ui].pc \in {"reload", "compose", "ready", "register"} => active'[req'[Ui].run] = 0
    BY <2>1, <2>2 DEF Entered
  <2>5. ASSUME NEW k \in DOMAIN launch' PROVE Attached(k)'
    BY <1>1, <2>1, <2>2 DEF Entered, Attached
  <2> QED
    BY <2>3, <2>4, <2>5 DEF Entered
<1> QED
  BY <1>9, <1>10, <1>11, <1>12, <1>13 DEF RootInv

\* The request of c moves on to q.
LEMMA MoveFiles ==
    ASSUME ClientInv, RootInv, NEW c \in Callers, NEW q, Moves(c, q), Traced(q, log, asked),
           UNCHANGED <<log, lease, asked>>, \A k \in DOMAIN launch' : Supplied(launch'[k], log, asked)
    PROVE  Filed'
<1>1. Filed /\ req \in [Callers -> Request]
  BY UiParts DEF RootInv, Typed
<1>2. \A d \in Callers : req'[d] = IF d = c THEN q ELSE req[d]
  BY <1>1 DEF Moves
<1> QED
  BY <1>1, <1>2 DEF Filed

LEMMA MoveAsking ==
    ASSUME ClientInv, RootInv, NEW c \in Callers, NEW q, Moves(c, q), req[c].pc # "idle", q.pc # "idle",
           UNCHANGED <<log, client, mon, ui>>
    PROVE  Asking'
<1>1. Asking /\ req \in [Callers -> Request] /\ Callers = Runs \cup {Ui} /\ Ui \notin Runs
  BY UiParts DEF RootInv, Typed
<1>2. \A d \in Callers : req'[d] = IF d = c THEN q ELSE req[d]
  BY <1>1 DEF Moves
<1>3. \A d \in Callers : /\ req'[d].kind = req[d].kind /\ req'[d].run = req[d].run
                         /\ req'[d].pc = "idle" <=> req[d].pc = "idle"
  BY <1>2 DEF Moves
<1>4. ASSUME NEW d \in Runs PROVE Tracks(d)'
  BY <1>1, <1>3 DEF Asking, Tracks
<1>5. /\ ui'.op = "none" => req'[Ui].pc = "idle" /\ req'[Ui].kind = "none" /\ ui'.run = None
      /\ ui'.op # "none" => req'[Ui].pc # "idle" /\ req'[Ui].run = ui'.run
      /\ ui'.op = "submit" => req'[Ui].kind \in {"start", "continue"}
      /\ ui'.op = "recover" => req'[Ui].kind = "recover"
      /\ ui'.op = "open" => req'[Ui].kind = "get"
      /\ ui'.op \notin {"none", "submit", "recover", "open"} => req'[Ui].kind = ui'.op
      /\ ui'.op \in Launching => client'.current = None
  BY <1>1, <1>3 DEF Asking
<1> QED
  BY <1>4, <1>5 DEF Asking

\* What the UI sees of the runs that wait for their host stays as it is.
LEMMA ProposalsStay ==
    ASSUME Proposals, UNCHANGED <<log, launch, asked, misled>>, req'[Ui] = req[Ui],
           client'.pending = client.pending, client'.offer = client.offer, ui'.op = ui.op, ui'.run = ui.run
    PROVE  Proposals'
<1>1. /\ \A r : Taken(r)' <=> Taken(r)
      /\ \A r : Strayed(r)' <=> Strayed(r)
      /\ Loaded(req[Ui])' = Loaded(req[Ui])
      /\ Unsettled' <=> Unsettled
      /\ Resuming' <=> Resuming
  BY DEF Taken, Strayed, Loaded, Unsettled, Resuming
<1>2. Offering'
  BY <1>1 DEF Proposals, Offering
<1>3. Accepting'
  BY <1>1 DEF Proposals, Accepting
<1>4. Viewing'
  BY <1>1 DEF Proposals, Viewing, HostAnswered
<1>5. \A l \in DOMAIN launch' : Carried(l)' /\ Held(l)'
  <2>1. ASSUME NEW l \in DOMAIN launch PROVE Carried(l)'
    BY DEF Proposals, Carried
  <2>2. ASSUME NEW l \in DOMAIN launch PROVE Held(l)'
    BY <1>1 DEF Proposals, Held, HostAnswered
  <2> QED
    BY <2>1, <2>2
<1>6. Resuming' => Strayed(ui.run)' \/ Ended(log'[ui'.run]) \/ ~HostAnswered(ui'.run, log'[ui'.run])
  BY <1>1 DEF Proposals, HostAnswered
<1> QED
  BY <1>2, <1>3, <1>4, <1>5, <1>6 DEF Proposals, HostAnswered

LEMMA JudgingStays ==
    ASSUME Judging, log' = log, \A k \in DOMAIN launch' :
               \/ launch'[k].st = "acquire"
               \/ k \in DOMAIN launch /\ launch'[k].st = launch[k].st /\ launch'[k].run = launch[k].run
    PROVE  Judging'
  BY DEF Judging, Unbound

\* The monitor of a run asks on: the UI does not notice.
LEMMA FollowerRoots ==
    ASSUME ClientInv, RootInv, NEW c \in Runs, NEW q, Moves(c, q), req[c].pc # "idle", q.pc # "idle",
           Traced(q, log, asked), UNCHANGED <<log, lease, launch, active, asked, client, mon, ui, misled>>
    PROVE  RootInv'
<1>1. RootInv /\ req \in [Callers -> Request] /\ Callers = Runs \cup {Ui} /\ Ui \notin Runs
  BY UiParts DEF Typed
<1>2. req'[Ui] = req[Ui]
  BY <1>1 DEF Moves
<1>3. Filed'
  BY <1>1, MoveFiles DEF RootInv, Filed
<1>4. Asking'
  BY <1>1, MoveAsking
<1>5. Loaded(req[Ui])' = Loaded(req[Ui])
  BY <1>2 DEF Loaded
<1>6. Entered'
  BY <1>1, <1>2 DEF RootInv, Entered, Attached
<1>7. Judging'
  BY <1>1, JudgingStays DEF RootInv
<1>8. Proposals'
  BY <1>1, <1>2, ProposalsStay DEF RootInv
<1>9. Adopted'
  BY <1>1, <1>2, <1>5 DEF RootInv, Adopted, Strayed, Awaits, HostAnswered
<1> QED
  BY <1>3, <1>4, <1>6, <1>7, <1>8, <1>9 DEF RootInv

LEMMA FollowStepRoots ==
    ASSUME ClientInv, RootInv, NEW c \in Runs, RequestStep(c) \/ FollowStep(c), UNCHANGED clientVars
    PROVE  RootInv'
<1>1. /\ c \in Callers /\ Typed /\ req[c].kind \in {"none", "wait"} /\ InPlace(req[c].kind, req[c].pc)
      /\ Placed(req[c], launch, log, asked) /\ Traced(req[c], log, asked) /\ req[c] \in Request
      /\ UNCHANGED <<client, mon, ui, misled>>
  BY UiParts, Parts DEF RootInv, Asking, Tracks, Filed, Booked, AppInv, Coherent, clientVars
<1>2. req[c].pc \in {"idle", "read", "check", "sleep", "done"} /\ (req[c].pc # "idle" => req[c].run \in Runs)
  BY <1>1 DEF InPlace, Placed, Creations
<1>3. Read(c) \/ CheckActive(c) \/ Wakes(c)
  BY <1>2 DEF RequestStep, FollowStep, at, Reserve, LoadResume, CheckBusy, LoadControl, LoadProposal, Retire,
        Rejoin, Compose, Unfit, AwaitReady, Register, Get, SendControl, Unacknowledged, AfterRace, Rouse, LoadSource
<1>4. req[c].pc # "idle" /\ req[c].kind = "wait" /\ UNCHANGED <<durable, process, asked>> /\ req[c].run \in Runs
  <2>1. req[c].pc # "idle" /\ UNCHANGED <<durable, process, asked>>
    BY <1>3 DEF Read, CheckActive, Wakes, at
  <2> QED
    BY <1>1, <1>2, <2>1 DEF InPlace, Creations
<1>5. req[c].seen \in Nat /\ Len(log[req[c].run]) \in Nat /\ req[c].seen <= Len(log[req[c].run])
  BY <1>1, <1>4, Parts DEF Request, Traced
<1>6. ASSUME NEW q, Moves(c, q), q.pc \notin {"idle", "rejoin", "register"},
             q.seen \in {0, req[c].seen, Len(log[req[c].run])}
      PROVE  RootInv'
  <2>1. Traced(q, log, asked)
    BY <1>4, <1>5, <1>6 DEF Traced, Moves, Controls
  <2> QED
    BY <1>1, <1>4, <1>6, <2>1, FollowerRoots DEF durable, process
<1>7. CASE Read(c)
  <2>1. CASE View(c, "events")
    <3>1. PICK q : Moves(c, q) /\ q.pc = "done" /\ q.seen = Len(log[req[c].run])
      BY <1>1, <1>4, <2>1, ViewMoves
    <3> QED
      BY <1>6, <3>1
  <2>2. CASE req' = [req EXCEPT ![c] = [Replay(c) EXCEPT !.rung = FALSE, !.pc = "check"]]
    <3>1. PICK q : Moves(c, q) /\ q.pc = "check" /\ q.seen = Len(log[req[c].run])
      BY <1>1, <1>4, <2>2, CheckMoves
    <3> QED
      BY <1>6, <3>1
  <2> QED
    BY <1>7, <2>1, <2>2 DEF Read
<1>8. ASSUME NEW to \in {"sleep", "read"}, Goto(c, to) PROVE RootInv'
  <2>1. PICK q : Moves(c, q) /\ q.pc = to /\ q.seen = req[c].seen
    BY <1>1, <1>8, GotoMoves DEF PCs
  <2> QED
    BY <1>6, <2>1
<1>9. ASSUME NEW a \in {"events", "recovery"}, Answer(c, a) PROVE RootInv'
  <2>1. PICK q : Moves(c, q) /\ q.pc = "done" /\ q.seen \in {0, req[c].seen}
    BY <1>1, <1>9, AnswerMoves DEF Answers
  <2> QED
    BY <1>6, <2>1
<1>10. CASE CheckActive(c) \/ Wakes(c)
  BY <1>8, <1>9, <1>10 DEF CheckActive, Wakes
<1> QED
  BY <1>3, <1>7, <1>10

\* The request of the UI moves on to q, and the launches to where they were.
LEMMA UiMoveRoots ==
    ASSUME ClientInv, RootInv, NEW q, Moves(Ui, q), req[Ui].pc # "idle", q.pc # "idle",
           Traced(q, log, asked), UNCHANGED <<log, lease, asked, client, mon, ui, misled>>,
           \A k \in DOMAIN launch' : Supplied(launch'[k], log, asked),
           \A k \in DOMAIN launch : /\ k \in DOMAIN launch' /\ launch'[k].run = launch[k].run
                                    /\ launch'[k].st = launch[k].st,
           \A k \in DOMAIN launch' : k \in DOMAIN launch \/ launch'[k].st = "acquire",
           Entered',
           q.pc = "done" /\ ui.op = "accept" =>
               IF q.answer = "accepted" THEN Receipt(log[ui.run], req[Ui].id)
               ELSE Strayed(ui.run) \/ ~Receipt(log[ui.run], req[Ui].id),
           q.pc = "done" /\ (ui.op = "open" \/ q.answer = "run") => q.seen = Len(log[ui.run]),
           Resuming' => Resuming, ui.op = "accept" /\ Unsettled' => Unsettled,
           \A k \in DOMAIN launch' : Carried(k)',
           \A k \in DOMAIN launch : launch[k].st \in Live /\ Awaits(k) => Awaits(k)' \/ Strayed(launch[k].run)
    PROVE  RootInv'
<1>1. /\ RootInv /\ req \in [Callers -> Request] /\ Ui \in Callers /\ q.run = req[Ui].run /\ req[Ui].run = ui.run
      /\ ui.run \in Runs /\ log[ui.run] \in Seq(Events)
  BY UiParts, Parts DEF Typed, Moves
<1>2. req'[Ui] = q
  BY <1>1 DEF Moves
<1>3. Filed'
  BY <1>1, MoveFiles
<1>4. Asking'
  BY <1>1, MoveAsking
<1>5. Judging'
  BY <1>1, JudgingStays DEF RootInv
<1>6. "acquire" \notin Live
  BY DEF Live
<1>7. Proposals'
  <2>1. /\ \A r : Taken(r)' <=> Taken(r)
        /\ \A r : Strayed(r)' <=> Strayed(r)
        /\ Proposals /\ q.id = req[Ui].id
    BY <1>1, <1>2 DEF Taken, Strayed, RootInv, Moves
  <2>2. Offering'
    BY <1>2, <2>1 DEF Proposals, Offering
  <2>3. Accepting'
    <3> SUFFICES ASSUME ui.op = "accept" PROVE Accepting'
      BY DEF Accepting
    <3>1. Taken(ui.run) <=> Receipt(log[ui.run], req[Ui].id)
      BY DEF Taken
    <3> QED
      BY <1>2, <2>1, <3>1 DEF Proposals, Accepting
  <2>4. Viewing'
    BY <1>2, <2>1 DEF Viewing
  <2>5. Resuming' => Strayed(ui.run)' \/ Ended(log'[ui'.run]) \/ ~HostAnswered(ui'.run, log'[ui'.run])
    BY <2>1 DEF Proposals, HostAnswered
  <2>6. ASSUME NEW k \in DOMAIN launch' PROVE Held(k)'
    <3> SUFFICES ASSUME launch'[k].st \in Live PROVE Held(k)'
      BY DEF Held
    <3>1. k \in DOMAIN launch /\ launch'[k].st = launch[k].st /\ launch'[k].run = launch[k].run
      BY <1>6
    <3> QED
      BY <2>1, <3>1 DEF Proposals, Held, HostAnswered
  <2> QED
    BY <2>2, <2>3, <2>4, <2>5, <2>6 DEF Proposals, HostAnswered
<1>8. Adopted'
  BY <1>1, <1>6 DEF RootInv, Adopted, Strayed
<1> QED
  BY <1>3, <1>4, <1>5, <1>7, <1>8 DEF RootInv

\* A request of the UI that looks around.
LEMMA UiLookRoots ==
    ASSUME ClientInv, RootInv, NEW q, Moves(Ui, q), InPlace(q.kind, q.pc),
           req[Ui].pc \notin {"idle", "ready", "register", "get", "acked", "done"},
           q.pc \notin {"idle", "ready", "register", "acked", "get"},
           UNCHANGED <<log, lease, launch, active, asked, client, mon, ui, misled>>,
           q.seen \in {0, req[Ui].seen, Len(log[req[Ui].run])},
           q.pc = "rejoin" => Receipt(log[req[Ui].run], req[Ui].id),
           q.pc \in {"reload", "compose"} => active[req[Ui].run] = 0,
           q.pc = "done" /\ q.answer = "accepted" /\ q.kind = "accept" => Receipt(log[req[Ui].run], req[Ui].id),
           req[Ui].pc = "race" => q.pc = "done",
           req[Ui].pc = "race" /\ q.answer # "accepted" => ~Receipt(log[req[Ui].run], req[Ui].id),
           q.pc = "done" /\ q.answer = "run" => q.seen = Len(log[req[Ui].run])
    PROVE  RootInv'
<1>1. /\ RootInv /\ req \in [Callers -> Request] /\ Ui \in Callers /\ q.run = req[Ui].run /\ req[Ui].run = ui.run
      /\ ui.run \in Runs /\ log[ui.run] \in Seq(Events) /\ req[Ui].seen \in Nat /\ Traced(req[Ui], log, asked)
      /\ InPlace(req[Ui].kind, req[Ui].pc) /\ Asking /\ Placed(req[Ui], launch, log, asked)
      /\ q.kind = req[Ui].kind /\ q.id = req[Ui].id
  BY UiParts, Parts DEF Typed, Moves, RootInv
<1>2. req'[Ui] = q
  BY <1>1 DEF Moves
<1>3. Traced(q, log, asked)
  <2>1. q.seen <= Len(log[q.run])
    BY <1>1 DEF Traced
  <2> QED
    BY <1>1, <2>1 DEF Traced
<1>4. Entered'
  <2>1. Entered
    BY <1>1 DEF RootInv
  <2> QED
    BY <1>1, <1>2, <2>1 DEF Entered, Attached
<1>5. ASSUME ui.op = "accept"
      PROVE  /\ q.pc = "done" => IF q.answer = "accepted" THEN Receipt(log[ui.run], req[Ui].id)
                                 ELSE Strayed(ui.run) \/ ~Receipt(log[ui.run], req[Ui].id)
             /\ Unsettled' => Unsettled
  <2>1. req[Ui].kind = "accept"
    BY <1>1, <1>5 DEF Asking
  <2>2. req[Ui].pc # "race" => Unsettled
    BY <1>1, <2>1 DEF InPlace, Unsettled, Creations
  <2>4. Unsettled => ~Receipt(log[ui.run], req[Ui].id)
    BY <1>1, <1>5 DEF RootInv, Proposals, Accepting
  <2> QED
    BY <1>1, <1>2, <2>1, <2>2, <2>4 DEF Unsettled
<1>6. ui.op # "open"
  BY <1>1 DEF Asking, InPlace, Creations
<1>7. Resuming' => Resuming
  BY <1>1, <1>2 DEF Resuming, Asking, InPlace, Creations
<1>8. \A k \in DOMAIN launch : ~Awaits(k)
  BY DEF Awaits
<1>9. \A k \in DOMAIN launch' : Carried(k)'
  BY <1>1 DEF RootInv, Proposals, Carried
<1> QED
  BY <1>1, <1>3, <1>4, <1>5, <1>6, <1>7, <1>8, <1>9, UiMoveRoots DEF RootInv, Filed

\* The steps of a request of the UI that only looks around.
LEMMA UiLooksRoots ==
    ASSUME ClientInv, RootInv, UNCHANGED clientVars,
           \/ Reserve(Ui) \/ LoadSource(Ui) \/ LoadResume(Ui) \/ CheckBusy(Ui)
           \/ LoadProposal(Ui, "load", "retire") \/ LoadProposal(Ui, "reload", "compose") \/ Retire(Ui) \/ Rouse(Ui)
           \/ Rejoin(Ui) \/ Unfit(Ui) \/ LoadControl(Ui) \/ AfterRace(Ui)
    PROVE  RootInv'
<1> USE DEF PCs, Answers, Readiness, at, runOf
<1> DEFINE s == log[req[Ui].run] old == req[Ui]
<1>1. /\ Ui \in Callers /\ Typed /\ InPlace(old.kind, old.pc) /\ Booked /\ Entered
      /\ Placed(old, launch, log, asked) /\ Traced(old, log, asked) /\ UNCHANGED <<client, mon, ui, misled>>
  BY UiParts DEF RootInv, clientVars
<1>2. /\ old.pc \notin {"idle", "ready", "register", "get", "acked", "done"}
      /\ UNCHANGED <<log, lease, launch, active, asked>>
  BY DEF Reserve, LoadSource, LoadResume, CheckBusy, LoadProposal, Retire, Rouse, Rejoin, Unfit, LoadControl,
         AfterRace, durable, process
<1>3. old.run \in Runs /\ (active[old.run] # 0 => s # <<>>) /\ (s # <<>> => old.run \in reserved)
  BY <1>1, <1>2 DEF Placed, Entered, Booked
<1>4. ASSUME NEW to \in {"reserve", "compose", "reload", "retire", "find"}, Goto(Ui, to),
             InPlace(old.kind, to), to \in {"reload", "compose"} => active[old.run] = 0, old.pc # "race"
      PROVE  RootInv'
  <2>1. PICK q : Moves(Ui, q) /\ q.pc = to /\ q.seen = old.seen
    BY <1>1, <1>4, GotoMoves
  <2> QED
    BY <1>1, <1>2, <1>4, <2>1, UiLookRoots DEF Moves
<1>5. ASSUME NEW a \in {"invalid", "running", "accepted", "unfit", "terminal", "notPending", "notActive"}, Answer(Ui, a),
             InPlace(old.kind, "done"), a = "accepted" /\ old.kind = "accept" => Receipt(s, old.id),
             old.pc = "race" /\ a # "accepted" => ~Receipt(s, old.id)
      PROVE  RootInv'
  <2>1. PICK q : Moves(Ui, q) /\ q.pc = "done" /\ q.seen \in {0, old.seen} /\ q.answer = a
    BY <1>1, <1>5, AnswerMoves
  <2> QED
    BY <1>1, <1>2, <1>5, <2>1, UiLookRoots DEF Moves
<1>6. ASSUME NEW to \in {"busy", "rejoin", "retire", "compose"}, Load(Ui, to), InPlace(old.kind, to),
             to = "compose" => active[old.run] = 0, to = "rejoin" => Receipt(s, old.id), old.pc # "race"
      PROVE  RootInv'
  <2>1. PICK q : Moves(Ui, q) /\ q.pc = to /\ q.seen = Len(s)
    BY <1>1, <1>3, <1>6, LoadMoves
  <2> QED
    BY <1>1, <1>2, <1>6, <2>1, UiLookRoots DEF Moves
<1>7. ASSUME View(Ui, "run"), InPlace(old.kind, "done"), old.pc # "race" PROVE RootInv'
  <2>1. PICK q : Moves(Ui, q) /\ q.pc = "done" /\ q.seen = Len(s) /\ q.answer = "run"
    BY <1>1, <1>3, <1>7, ViewMoves
  <2> QED
    BY <1>1, <1>2, <1>7, <2>1, UiLookRoots DEF Moves
<1>8. CASE Reserve(Ui)
  <2>1. old.pc # "race" /\ old.kind \in Creations /\ InPlace(old.kind, "compose") /\ InPlace(old.kind, "done")
    BY <1>1, <1>8 DEF Reserve, InPlace
  <2>2. (Goto(Ui, "compose") /\ active[old.run] = 0) \/ View(Ui, "run")
    BY <1>3, <1>8 DEF Reserve
  <2> QED
    BY <1>4, <1>7, <2>1, <2>2
<1>9. CASE LoadSource(Ui)
  <2>1. old.pc # "race" /\ old.kind = "continue" /\ InPlace(old.kind, "reserve") /\ InPlace(old.kind, "done")
    BY <1>9 DEF LoadSource, InPlace, Creations
  <2>2. Goto(Ui, "reserve") \/ Answer(Ui, "invalid")
    BY <1>9 DEF LoadSource
  <2> QED
    BY <1>4, <1>5, <2>1, <2>2
<1>10. CASE LoadResume(Ui)
  <2>1. old.pc # "race" /\ old.kind = "resume" /\ InPlace(old.kind, "busy") /\ InPlace(old.kind, "done")
    BY <1>10 DEF LoadResume, InPlace
  <2>2. View(Ui, "run") \/ Load(Ui, "busy")
    BY <1>10 DEF LoadResume
  <2> QED
    BY <1>6, <1>7, <2>1, <2>2
<1>11. CASE CheckBusy(Ui)
  <2>1. old.pc # "race" /\ old.kind = "resume" /\ InPlace(old.kind, "compose") /\ InPlace(old.kind, "done")
    BY <1>1, <1>11 DEF CheckBusy, InPlace
  <2>2. Answer(Ui, "running") \/ (Goto(Ui, "compose") /\ active[old.run] = 0)
    BY <1>11 DEF CheckBusy
  <2> QED
    BY <1>4, <1>5, <2>1, <2>2
<1>12. ASSUME NEW pc \in {"load", "reload"}, NEW next \in {"retire", "compose"}, LoadProposal(Ui, pc, next),
              next = "compose" => pc = "reload"
       PROVE  RootInv'
  <2>1. /\ old.pc = pc /\ old.kind = "accept" /\ InPlace(old.kind, "done") /\ InPlace(old.kind, "rejoin")
        /\ InPlace(old.kind, "retire") /\ InPlace(old.kind, "compose")
    BY <1>12 DEF LoadProposal, InPlace
  <2>2. \/ Receipt(s, old.id) /\ (Load(Ui, "rejoin") \/ Answer(Ui, "accepted"))
        \/ Answer(Ui, "terminal") \/ Answer(Ui, "notPending") \/ Load(Ui, next)
    BY <1>12 DEF LoadProposal
  <2>3. next = "compose" => active[old.run] = 0
    BY <1>1, <1>12, <2>1 DEF Entered
  <2> QED
    BY <1>5, <1>6, <2>1, <2>2, <2>3
<1>13. CASE Retire(Ui)
  <2>1. old.pc # "race" /\ old.kind = "accept" /\ InPlace(old.kind, "reload") /\ InPlace(old.kind, "drowse")
    BY <1>1, <1>13 DEF Retire, InPlace
  <2>2. CASE active[old.run] = 0 /\ Goto(Ui, "reload")
    BY <1>4, <2>1, <2>2
  <2>3. CASE req' = [req EXCEPT ![Ui] = [@ EXCEPT !.pc = "drowse", !.rung = FALSE]]
    <3>1. PICK q : Moves(Ui, q) /\ q.pc = "drowse" /\ q.seen = old.seen
      BY <1>1, <2>3, DrowseMoves
    <3> QED
      BY <1>1, <1>2, <2>1, <3>1, UiLookRoots DEF Moves
  <2> QED
    BY <1>13, <2>2, <2>3 DEF Retire
<1>14. CASE Rouse(Ui)
  <2>1. old.pc # "race" /\ old.kind = "accept" /\ InPlace(old.kind, "retire") /\ Goto(Ui, "retire")
    BY <1>1, <1>14 DEF Rouse, InPlace
  <2> QED
    BY <1>4, <2>1
<1>15. CASE Rejoin(Ui)
  <2>1. /\ old.kind = "accept" /\ InPlace(old.kind, "compose") /\ InPlace(old.kind, "done")
        /\ Receipt(s, old.id) /\ old.pc # "race"
    BY <1>1, <1>15 DEF Rejoin, InPlace, Traced
  <2>2. Answer(Ui, "accepted") \/ (Goto(Ui, "compose") /\ active[old.run] = 0)
    BY <1>15 DEF Rejoin
  <2> QED
    BY <1>4, <1>5, <2>1, <2>2
<1>16. CASE Unfit(Ui)
  <2>1. old.pc # "race" /\ InPlace(old.kind, "done") /\ Answer(Ui, "unfit")
    BY <1>1, <1>16 DEF Unfit, InPlace
  <2> QED
    BY <1>5, <2>1
<1>17. CASE LoadControl(Ui)
  <2>1. old.pc # "race" /\ old.kind \in {"steer", "cancel"} /\ InPlace(old.kind, "find") /\ InPlace(old.kind, "done")
    BY <1>17 DEF LoadControl, InPlace
  <2>2. Goto(Ui, "find") \/ Answer(Ui, "accepted") \/ Answer(Ui, "terminal")
    BY <1>17 DEF LoadControl
  <2> QED
    BY <1>4, <1>5, <2>1, <2>2
<1>18. CASE AfterRace(Ui)
  <2>1. InPlace(old.kind, "done")
    BY <1>1, <1>18 DEF AfterRace, InPlace
  <2>2. \/ Receipt(s, old.id) /\ Answer(Ui, "accepted")
        \/ ~Receipt(s, old.id) /\ (Answer(Ui, "terminal") \/ Answer(Ui, "notActive"))
    BY <1>18 DEF AfterRace
  <2> QED
    BY <1>5, <2>1, <2>2
<1> QED
  BY <1>8, <1>9, <1>10, <1>11, <1>12, <1>13, <1>14, <1>15, <1>16, <1>17, <1>18

\* A new launch of the UI.
LEMMA UiComposeRoots ==
    ASSUME ClientInv, RootInv, UNCHANGED clientVars, Compose(Ui)
    PROVE  RootInv'
<1> DEFINE old == req[Ui] n == Len(launch) + 1
           x == NewLaunch(old.run, old.kind, old.seen, FirstCommand(old))
           q == [old EXCEPT !.pc = "ready", !.launch = n]
<1>1. /\ old.pc = "compose" /\ old \in Request /\ InPlace(old.kind, old.pc) /\ Placed(old, launch, log, asked)
      /\ Traced(old, log, asked) /\ launch \in Seq(Launches) /\ Len(launch) \in Nat /\ n \in Nat
      /\ DOMAIN launch = 1 .. Len(launch) /\ req \in [Callers -> Request] /\ Ui \in Callers
      /\ old.run = ui.run /\ ui.run \in Runs /\ RootInv
  BY UiParts DEF Compose, at, Typed
<1>2. /\ launch' = Append(launch, x) /\ req' = [req EXCEPT ![Ui] = q]
      /\ UNCHANGED <<log, lease, active, asked, client, mon, ui, misled>>
  BY DEF Compose, durable, runOf, clientVars
<1>3. /\ q \in Request /\ q.kind = old.kind /\ q.run = old.run /\ q.id = old.id /\ q.after = old.after
      /\ q.pc = "ready" /\ q.launch = n /\ q.seen = old.seen
  <2> HIDE DEF n, old
  <2> QED
    BY <1>1 DEF Request, PCs
<1>4. /\ x.run = old.run /\ x.create = (old.kind \in Creations) /\ x.st = "acquire" /\ x.ready = "none"
      /\ x.queue = FirstCommand(old) /\ x.ack = 0
  BY DEF NewLaunch
<1> HIDE DEF x, q
<1>5. Moves(Ui, q) /\ req'[Ui] = q
  BY <1>1, <1>2, <1>3 DEF Moves
<1>6. DOMAIN launch' = 1 .. n /\ (\A l \in DOMAIN launch : launch'[l] = launch[l]) /\ launch'[n] = x
  BY <1>1, <1>2
<1>7. Traced(q, log, asked)
  BY <1>1, <1>3 DEF Traced
<1>8. Supplied(x, log, asked)
  <2>1. ASSUME NEW i \in DOMAIN x.queue
        PROVE  x.queue[i].id # 0 => asked[x.queue[i].id].run = x.run
    <3>1. old.kind = "accept" /\ x.queue[i] = [kind |-> "accept", id |-> old.id]
      BY <1>1, <1>4, FirstCommands
    <3> QED
      BY <1>1, <1>4, <3>1 DEF Traced, Controls
  <2> QED
    BY <1>4, <2>1 DEF Supplied
<1>9. \A k \in DOMAIN launch' : Supplied(launch'[k], log, asked)
  BY <1>1, <1>6, <1>8 DEF RootInv, Filed
<1>10. Entered'
  <2>1. Entered
    BY <1>1 DEF RootInv
  <2>2. \A r \in Runs : active'[r] # 0 => log'[r] # <<>>
    BY <1>2, <2>1 DEF Entered
  <2>3. active'[req'[Ui].run] = 0
    BY <1>1, <1>2, <1>3, <1>5, <2>1 DEF Entered
  <2>4. ASSUME NEW k \in DOMAIN launch' PROVE Attached(k)'
    <3>1. CASE k = n
      BY <1>3, <1>4, <1>5, <1>6, <3>1 DEF Attached
    <3>2. CASE k # n
      <4>1. k \in DOMAIN launch /\ launch'[k] = launch[k]
        BY <1>1, <1>6, <3>2
      <4> QED
        BY <1>1, <1>2, <2>1, <4>1 DEF Entered, Attached
    <3> QED
      BY <3>1, <3>2
  <2> QED
    BY <2>2, <2>3, <2>4 DEF Entered
<1>11. ui.op # "open"
  BY <1>1 DEF RootInv, Asking, InPlace, Creations
<1>12. Resuming' => Resuming
  BY <1>1, <1>2 DEF Resuming
<1>13. \A k \in DOMAIN launch : ~Awaits(k)
  BY <1>1 DEF Awaits
<1>14. /\ \A k \in DOMAIN launch : k \in DOMAIN launch' /\ launch'[k].run = launch[k].run /\ launch'[k].st = launch[k].st
       /\ \A k \in DOMAIN launch' : k \in DOMAIN launch \/ launch'[k].st = "acquire"
  BY <1>1, <1>4, <1>6
\* The launch carries the acceptance.
<1>15. ASSUME NEW k \in DOMAIN launch' PROVE Carried(k)'
  <2>1. CASE k = n
    <3> SUFFICES ASSUME NEW i \in DOMAIN x.queue, x.queue[i].kind = "accept"
                 PROVE  i = 1 /\ ui.op = "accept" /\ x.queue[i].id = old.id /\ ~Receipt(log[ui.run], old.id)
      BY <1>2, <1>3, <1>5, <1>6, <2>1 DEF Carried
    <3>1. old.kind = "accept" /\ x.queue[i] = [kind |-> "accept", id |-> old.id]
      BY <1>1, <1>4, FirstCommands
    <3>2. ui.op = "accept"
      <4>1. ui.op # "none" /\ Asking /\ ui \in Screens
        BY <1>1, UiParts DEF RootInv, Asking
      <4> QED
        BY <3>1, <4>1 DEF Asking, Screens, Launching
    <3>3. ~Receipt(log[ui.run], old.id)
      BY <1>1, <3>2 DEF RootInv, Proposals, Accepting, Unsettled
    <3>4. i = 1
      <4> DEFINE m == [kind |-> "accept", id |-> old.id]
      <4>1. x.queue = <<m>> \/ x.queue = <<>>
        BY <1>4 DEF FirstCommand
      <4>2. DOMAIN <<m>> = {1} /\ DOMAIN <<>> = {}
        OBVIOUS
      <4> HIDE DEF m
      <4> QED
        BY <4>1, <4>2
    <3> QED
      BY <3>1, <3>2, <3>3, <3>4
  <2>2. CASE k # n
    <3>1. k \in DOMAIN launch /\ launch'[k] = launch[k]
      BY <1>1, <1>6, <2>2
    <3>2. \A i \in DOMAIN launch[k].queue : launch[k].queue[i].kind # "accept"
      BY <1>1, <3>1 DEF RootInv, Proposals, Carried
    <3> QED
      BY <3>1, <3>2 DEF Carried
  <2> QED
    BY <2>1, <2>2
<1>16. ui.op = "accept" /\ Unsettled' => Unsettled
  BY <1>1 DEF Unsettled
<1> HIDE DEF n, old
<1> QED
  BY <1>1, <1>2, <1>3, <1>5, <1>7, <1>9, <1>10, <1>11, <1>12, <1>13, <1>14, <1>15, <1>16, UiMoveRoots DEF old

\* The acceptance that the UI has loaded is filed.
LEMMA LoadedReceipt ==
    ASSUME ClientInv, RootInv, ui.op = "accept", Receipt(Loaded(req[Ui]), req[Ui].id)
    PROVE  Receipt(log[ui.run], req[Ui].id)
<1>1. /\ req[Ui].pc # "idle" /\ req[Ui].kind = "accept" /\ req[Ui].run = ui.run /\ ui.run \in Runs
      /\ log[ui.run] \in Seq(Events)
  BY UiParts, Parts DEF RootInv, Asking
<1>2. req[Ui].id # 0 /\ req[Ui].seen \in 0 .. Len(log[ui.run])
  <2>1. req[Ui].seen \in Nat /\ req[Ui].seen <= Len(log[ui.run]) /\ Len(log[ui.run]) \in Nat
    BY <1>1, UiParts DEF Traced
  <2>2. req[Ui].id # 0
    BY <1>1, UiParts DEF Placed, Controls
  <2> QED
    BY <2>1, <2>2
<1> DEFINE s == log[ui.run] n == req[Ui].seen t == Loaded(req[Ui])
<1>3. s \in Seq(Events) /\ n \in 0 .. Len(s) /\ t = SubSeq(s, 1, n)
  BY <1>1, <1>2 DEF Loaded
<1>4. \A id : Receipt(t, id) => Receipt(s, id)
  <2> HIDE DEF s, n, t
  <2> QED
    BY <1>3, ReplayedPart
<1> QED
  BY <1>4

\* RuntimeRun::ready.
LEMMA UiAwaitReadyRoots ==
    ASSUME ClientInv, RootInv, UNCHANGED clientVars, AwaitReady(Ui)
    PROVE  RootInv'
<1> DEFINE old == req[Ui] l == req[Ui].launch
<1>1. /\ old.pc = "ready" /\ old \in Request /\ InPlace(old.kind, old.pc) /\ Placed(old, launch, log, asked)
      /\ Traced(old, log, asked) /\ launch \in Seq(Launches) /\ req \in [Callers -> Request] /\ Ui \in Callers
      /\ old.run = ui.run /\ ui.run \in Runs /\ RootInv /\ Typed /\ AppInv
  BY UiParts DEF AwaitReady, at, Typed
<1>2. /\ launch' = [launch EXCEPT ![l].gate = TRUE] /\ launch[l].ready # "none"
      /\ UNCHANGED <<log, lease, active, asked, client, mon, ui, misled>>
  BY DEF AwaitReady, durable, clientVars
<1>3. /\ l \in DOMAIN launch /\ launch[l].run = ui.run /\ launch[l] \in Launches
      /\ Supplied(launch[l], log, asked) /\ Sound(launch[l], log, asked)
  <2>1. l \in DOMAIN launch
    BY <1>1, UiParts DEF Placed
  <2> QED
    BY <1>1, <2>1 DEF Placed, RootInv, Filed, AppInv, Coherent
<1>4. /\ DOMAIN launch' = DOMAIN launch /\ (\A k \in DOMAIN launch : k # l => launch'[k] = launch[k])
      /\ launch'[l].run = launch[l].run /\ launch'[l].st = launch[l].st /\ launch'[l].ready = launch[l].ready
      /\ launch'[l].queue = launch[l].queue /\ launch'[l].create = launch[l].create /\ launch'[l].ack = launch[l].ack
  BY <1>1, <1>2, <1>3, OpenedExtends
<1>5. \A k \in DOMAIN launch' : Supplied(launch'[k], log, asked)
  <2>1. Supplied(launch'[l], log, asked)
    BY <1>3, <1>4 DEF Supplied
  <2> QED
    BY <1>1, <1>4, <2>1 DEF RootInv, Filed
<1>6. launch[l].st # "acquire" /\ (launch[l].ready # "ok" => launch[l].st = "over")
  BY <1>2, <1>3 DEF Supplied, Sound
<1>7. \A k \in DOMAIN launch : launch[k].st # "acquire"
  BY <1>1, <1>6 DEF RootInv, Entered, Attached
<1>8. ui.op # "open" /\ active[ui.run] = 0
  BY <1>1 DEF RootInv, Asking, InPlace, Creations, Entered
<1>9. \A k \in DOMAIN launch : Awaits(k) => k = l
  BY <1>1 DEF Awaits
<1>10. /\ \A k \in DOMAIN launch : k \in DOMAIN launch' /\ launch'[k].run = launch[k].run /\ launch'[k].st = launch[k].st
       /\ \A k \in DOMAIN launch' : k \in DOMAIN launch \/ launch'[k].st = "acquire"
  BY <1>4
<1>11. ASSUME NEW q, Moves(Ui, q), q.pc \in {"register", "get", "done"}, q.seen \in {0, old.seen},
              q.pc = "register" => launch[l].ready = "ok" /\ q.launch = l,
              q.pc # "register" => launch[l].ready # "ok",
              q.pc = "done" => q.answer # "run" /\ (ui.op = "accept" => q.answer # "accepted")
       PROVE  RootInv'
  <2>1. req'[Ui] = q /\ q.kind = old.kind /\ q.run = old.run /\ q.id = old.id
    BY <1>1, <1>11 DEF Moves
  <2>2. Traced(q, log, asked)
    <3>1. q.seen <= Len(log[q.run])
      BY <1>1, <1>11, <2>1, UiParts, Parts DEF Traced
    <3>2. q.pc = "register" => log[q.run] # <<>>
      BY <1>1, <1>3, <1>11, <2>1 DEF Supplied
    <3> QED
      BY <1>1, <1>11, <2>1, <3>1, <3>2 DEF Traced
  <2>3. Entered'
    <3>1. Entered
      BY <1>1 DEF RootInv
    <3>2. \A r \in Runs : active'[r] # 0 => log'[r] # <<>>
      BY <1>2, <3>1 DEF Entered
    <3>3. active'[req'[Ui].run] = 0
      BY <1>1, <1>2, <1>8, <2>1
    <3>4. ASSUME NEW k \in DOMAIN launch' PROVE Attached(k)'
      <4>1. k \in DOMAIN launch /\ launch'[k].st = launch[k].st /\ launch'[k].run = launch[k].run
        BY <1>4, <1>10
      <4>2. CASE k = l
        BY <1>2, <1>6, <1>11, <2>1, <4>1, <4>2 DEF Attached
      <4>3. CASE k # l
        BY <1>1, <1>2, <1>7, <3>1, <4>1, <4>3 DEF Entered, Attached
      <4> QED
        BY <4>2, <4>3
    <3> QED
      BY <3>2, <3>3, <3>4 DEF Entered
  <2>4. ~Resuming'
    BY <1>11, <2>1 DEF Resuming
  <2>5. ASSUME NEW k \in DOMAIN launch, launch[k].st \in Live, Awaits(k) PROVE Awaits(k)'
    <3>1. k = l /\ q.pc = "register" /\ q.launch = l
      BY <1>6, <1>9, <1>11, <2>5 DEF Live
    <3> QED
      BY <1>1, <1>2, <1>4, <2>1, <2>5, <3>1 DEF Awaits
  <2>6. ASSUME NEW k \in DOMAIN launch' PROVE Carried(k)'
    <3>1. k \in DOMAIN launch /\ launch'[k].queue = launch[k].queue /\ Carried(k)
      BY <1>1, <1>4 DEF RootInv, Proposals
    <3>2. CASE q.pc = "register"
      BY <1>1, <1>2, <1>11, <2>1, <3>1, <3>2 DEF Carried
    <3>3. CASE q.pc # "register"
      <4>1. launch[l].queue = <<>>
        BY <1>3, <1>6, <1>11, <3>3 DEF Sound
      <4>2. DOMAIN <<>> = {}
        OBVIOUS
      <4> QED
        BY <3>1, <4>1, <4>2 DEF Carried
    <3> QED
      BY <3>2, <3>3
  <2>7. ~Unsettled'
    BY <1>11, <2>1 DEF Unsettled
  <2>8. q.pc = "done" /\ ui.op = "accept" => ~Receipt(log[ui.run], req[Ui].id)
    <3>1. q.pc = "done" => Unsettled
      BY <1>1, <1>2, <1>11 DEF Unsettled
    <3> QED
      BY <1>1, <3>1 DEF RootInv, Proposals, Accepting
  <2> QED
    BY <1>1, <1>2, <1>5, <1>8, <1>10, <1>11, <2>2, <2>3, <2>4, <2>5, <2>6, <2>7, <2>8, UiMoveRoots
<1>12. CASE launch[l].ready = "ok"
  <2>1. Goto(Ui, "register")
    BY <1>12 DEF AwaitReady
  <2>2. PICK q : Moves(Ui, q) /\ q.pc = "register" /\ q.launch = l /\ q.seen = old.seen
    BY <1>1, <2>1, GotoMoves DEF PCs
  <2> QED
    BY <1>11, <1>12, <2>2
<1>13. CASE launch[l].ready # "ok"
  <2>1. Failed(Ui, launch[l].ready)
    BY <1>13 DEF AwaitReady
  <2>2. CASE Goto(Ui, "get")
    <3>1. PICK q : Moves(Ui, q) /\ q.pc = "get" /\ q.seen = old.seen
      BY <1>1, <2>2, GotoMoves DEF PCs
    <3> QED
      BY <1>11, <1>13, <3>1
  <2>3. CASE Answer(Ui, "accepted") /\ Receipt(Loaded(old), old.id)
    <3>1. PICK q : Moves(Ui, q) /\ q.pc = "done" /\ q.seen \in {0, old.seen} /\ q.answer = "accepted"
      BY <1>1, <2>3, AnswerMoves DEF Answers
    <3>2. Unsettled
      BY <1>1, <1>2, <1>13 DEF Unsettled
    <3>3. ui.op # "accept"
      BY <1>1, <2>3, <3>2, LoadedReceipt DEF RootInv, Proposals, Accepting
    <3> QED
      BY <1>11, <1>13, <3>1, <3>3
  <2>4. CASE Answer(Ui, launch[l].ready)
    <3>1. launch[l].ready \in Answers \ {"accepted", "run"}
      BY <1>3 DEF Launches, Readiness, Answers
    <3>2. PICK q : Moves(Ui, q) /\ q.pc = "done" /\ q.seen \in {0, old.seen} /\ q.answer = launch[l].ready
      BY <1>1, <2>4, <3>1, AnswerMoves
    <3> QED
      BY <1>11, <1>13, <3>1, <3>2
  <2> QED
    BY <2>1, <2>2, <2>3, <2>4 DEF Failed
<1> QED
  BY <1>12, <1>13

\* activate: the registry has no entry for the run of the UI.
LEMMA UiRegisterRoots ==
    ASSUME ClientInv, RootInv, UNCHANGED clientVars, Register(Ui)
    PROVE  RootInv'
<1> DEFINE old == req[Ui] l == req[Ui].launch
<1>1. /\ old.pc = "register" /\ old \in Request /\ InPlace(old.kind, old.pc) /\ Placed(old, launch, log, asked)
      /\ Traced(old, log, asked) /\ req \in [Callers -> Request] /\ Ui \in Callers
      /\ old.run = ui.run /\ ui.run \in Runs /\ RootInv /\ Typed /\ active \in [Runs -> Nat]
  BY UiParts DEF Register, at, Typed
<1>2. active[old.run] = 0
  BY <1>1 DEF RootInv, Entered
<1>3. /\ active' = [active EXCEPT ![ui.run] = l]
      /\ UNCHANGED <<log, lease, launch, asked, client, mon, ui, misled>>
  BY <1>1, <1>2 DEF Register, durable, clientVars, runOf
<1>4. l \in DOMAIN launch /\ launch[l].run = ui.run /\ l # 0
  BY <1>1, UiParts DEF Placed
<1>5. ui.op # "open" /\ \A k \in DOMAIN launch : Awaits(k) => k = l
  BY <1>1 DEF RootInv, Asking, InPlace, Creations, Awaits
<1>6. ASSUME NEW q, Moves(Ui, q), q.pc \in {"get", "acked", "done"}, q.seen \in {0, old.seen},
             q.pc = "get" => old.kind # "accept",
             q.pc = "acked" => old.kind = "accept" /\ q.launch = l,
             q.pc = "done" => old.kind = "accept" /\ q.answer = "accepted" /\ Receipt(log[ui.run], old.id)
      PROVE  RootInv'
  <2>1. req'[Ui] = q /\ q.kind = old.kind /\ q.run = old.run /\ q.id = old.id
    BY <1>1, <1>6 DEF Moves
  <2>2. Traced(q, log, asked)
    <3>1. q.seen <= Len(log[q.run])
      BY <1>1, <1>6, <2>1, UiParts, Parts DEF Traced
    <3> QED
      BY <1>1, <1>6, <2>1, <3>1 DEF Traced
  <2>3. Entered'
    <3>1. Entered /\ \A r \in Runs : active'[r] = IF r = ui.run THEN l ELSE active[r]
      BY <1>1, <1>3 DEF RootInv
    <3>2. \A r \in Runs : active'[r] # 0 => log'[r] # <<>>
      BY <1>1, <1>3, <3>1 DEF Entered, Traced
    <3>3. ASSUME NEW k \in DOMAIN launch' PROVE Attached(k)'
      <4>1. k \in DOMAIN launch /\ launch[k].run \in Runs /\ k # 0
        BY <1>3, UiParts
      <4>2. CASE k = l
        BY <1>1, <1>3, <1>4, <3>1, <4>1, <4>2 DEF Entered, Attached
      <4>3. CASE k # l
        BY <1>1, <1>2, <1>3, <3>1, <4>1, <4>3 DEF Entered, Attached
      <4> QED
        BY <4>2, <4>3
    <3> QED
      BY <1>6, <2>1, <3>2, <3>3 DEF Entered
  <2>4. ~Resuming'
    BY <1>6, <2>1 DEF Resuming
  <2>5. ASSUME NEW k \in DOMAIN launch, launch[k].st \in Live, Awaits(k) PROVE Awaits(k)'
    <3>1. /\ k = l /\ ui.op \in {"submit", "recover", "resume", "accept"}
          /\ old.kind = "accept" <=> ui.op = "accept"
      BY <1>1, <1>5, <2>5 DEF Awaits, RootInv, Asking
    <3> QED
      BY <1>1, <1>3, <1>4, <1>6, <2>1, <2>5, <3>1 DEF Awaits
  <2>6. /\ \A k \in DOMAIN launch : k \in DOMAIN launch' /\ launch'[k].run = launch[k].run /\ launch'[k].st = launch[k].st
        /\ \A k \in DOMAIN launch' : k \in DOMAIN launch \/ launch'[k].st = "acquire"
        /\ \A k \in DOMAIN launch' : Supplied(launch'[k], log, asked)
    BY <1>1, <1>3 DEF RootInv, Filed
  <2>7. ASSUME NEW k \in DOMAIN launch' PROVE Carried(k)'
    <3>1. k \in DOMAIN launch /\ Carried(k) /\ (ui.op = "accept" => old.kind = "accept")
      BY <1>1, <1>3 DEF RootInv, Proposals, Asking
    <3> QED
      BY <1>1, <1>3, <1>6, <2>1, <3>1 DEF Carried
  <2>8. ~Unsettled'
    BY <1>6, <2>1 DEF Unsettled
  <2> QED
    BY <1>1, <1>3, <1>5, <1>6, <2>2, <2>3, <2>4, <2>5, <2>6, <2>7, <2>8, UiMoveRoots
<1>7. CASE old.kind # "accept" /\ Goto(Ui, "get")
  <2>1. PICK q : Moves(Ui, q) /\ q.pc = "get" /\ q.seen = old.seen
    BY <1>1, <1>7, GotoMoves DEF PCs
  <2> QED
    BY <1>6, <1>7, <2>1
<1>8. CASE old.kind = "accept" /\ FirstCommand(old) = <<>> /\ Answer(Ui, "accepted")
  <2>1. PICK q : Moves(Ui, q) /\ q.pc = "done" /\ q.seen \in {0, old.seen} /\ q.answer = "accepted"
    BY <1>1, <1>8, AnswerMoves DEF Answers
  <2>2. Receipt(Loaded(old), old.id)
    <3>1. <<[kind |-> "accept", id |-> old.id]>> # <<>>
      OBVIOUS
    <3> QED
      BY <1>8, <3>1 DEF FirstCommand
  <2>3. ui.op = "accept"
    <3>1. ui.op # "none" /\ Asking /\ ui \in Screens
      BY <1>1, UiParts DEF RootInv, Asking
    <3> QED
      BY <1>8, <3>1 DEF Asking, Screens, Launching
  <2> QED
    BY <1>6, <1>8, <2>1, <2>2, <2>3, LoadedReceipt
<1>9. CASE old.kind = "accept" /\ Goto(Ui, "acked")
  <2>1. PICK q : Moves(Ui, q) /\ q.pc = "acked" /\ q.seen = old.seen /\ q.launch = l
    BY <1>1, <1>9, GotoMoves DEF PCs
  <2> QED
    BY <1>6, <1>9, <2>1
<1> QED
  BY <1>2, <1>7, <1>8, <1>9 DEF Register, runOf

\* The view of the run: a run at work for a launch does not wait for its host.
LEMMA UiGetRoots ==
    ASSUME ClientInv, RootInv, UNCHANGED clientVars, Get(Ui)
    PROVE  RootInv'
<1> DEFINE old == req[Ui] s == log[ui.run]
<1>1. /\ old.pc = "get" /\ Ui \in Callers /\ old.run = ui.run /\ ui.run \in Runs /\ RootInv /\ Typed
      /\ req \in [Callers -> Request] /\ s \in Seq(Events) /\ InPlace(old.kind, old.pc)
      /\ UNCHANGED <<log, lease, launch, active, asked, client, mon, ui, misled>> /\ View(Ui, "run")
      /\ Traced(old, log, asked)
  BY UiParts, Parts DEF Get, at, Typed, durable, process, clientVars
<1>2. PICK q : Moves(Ui, q) /\ q.pc = "done" /\ q.seen = Len(s) /\ q.answer = "run"
  BY <1>1, ViewMoves
<1>3. req'[Ui] = q /\ q.kind = old.kind /\ q.run = old.run /\ q.id = old.id
  BY <1>1, <1>2 DEF Moves
<1>4. Traced(q, log, asked)
  BY <1>1, <1>2, <1>3 DEF Traced
<1>5. Entered'
  BY <1>1, <1>2, <1>3 DEF RootInv, Entered, Attached
<1>6. ~Resuming'
  BY <1>2, <1>3 DEF Resuming
<1>7. ui.op # "accept"
  BY <1>1 DEF RootInv, Asking, InPlace, Creations
<1>8. ASSUME NEW k \in DOMAIN launch, launch[k].st \in Live, Awaits(k)
      PROVE  Awaits(k)' \/ Strayed(launch[k].run)
  <2>1. ui.op \in {"submit", "recover", "resume"} /\ launch[k].run = ui.run
    BY <1>1, <1>7, <1>8 DEF Awaits
  <2>2. Loaded(req[Ui])' = s
    BY <1>1, <1>2, <1>3 DEF Loaded
  <2> SUFFICES ASSUME ~Strayed(launch[k].run) PROVE Awaits(k)'
    OBVIOUS
  <2>4. ~HostAnswered(ui.run, s)
    BY <1>1, <1>7, <1>8, <2>1 DEF RootInv, Proposals, Held
  <2> HIDE DEF s
  <2>5. ~HostAnswered(req'[Ui].run, Loaded(req[Ui])')
    BY <1>1, <1>3, <2>2, <2>4
  <2>6. ui'.run = launch'[k].run /\ ui'.op \in {"submit", "recover", "resume"} /\ req'[Ui].pc = "done" /\ req'[Ui].answer = "run"
    BY <1>1, <1>2, <1>3, <2>1
  <2> QED
    BY <2>5, <2>6 DEF Awaits, HostAnswered
<1>9. \A k \in DOMAIN launch' : Carried(k)'
  BY <1>1, <1>7 DEF RootInv, Proposals, Carried
<1> QED
  BY <1>1, <1>2, <1>4, <1>5, <1>6, <1>7, <1>8, <1>9, UiMoveRoots DEF RootInv, Filed

\* The launch of the acceptance is over.
LEMMA UiUnacknowledgedRoots ==
    ASSUME ClientInv, RootInv, UNCHANGED clientVars, Unacknowledged(Ui)
    PROVE  RootInv'
<1> DEFINE old == req[Ui]
<1>1. /\ old.pc = "acked" /\ Ui \in Callers /\ old.run = ui.run /\ ui.run \in Runs /\ RootInv /\ Typed
      /\ req \in [Callers -> Request] /\ InPlace(old.kind, old.pc) /\ Traced(old, log, asked)
      /\ UNCHANGED <<log, lease, launch, active, asked, client, mon, ui, misled>> /\ Goto(Ui, "race")
      /\ launch[old.launch].st = "over"
  BY UiParts, Parts DEF Unacknowledged, Over, at, Typed, durable, process, clientVars
<1>2. PICK q : Moves(Ui, q) /\ q.pc = "race" /\ q.seen = old.seen
  BY <1>1, GotoMoves DEF PCs
<1>3. req'[Ui] = q /\ q.kind = old.kind /\ q.run = old.run /\ q.id = old.id
  BY <1>1, <1>2 DEF Moves
<1>4. Traced(q, log, asked)
  BY <1>1, <1>2, <1>3 DEF Traced
<1>5. Entered'
  BY <1>1, <1>2, <1>3 DEF RootInv, Entered, Attached
<1>6. ~Resuming'
  BY <1>2, <1>3 DEF Resuming
<1>7. \A k \in DOMAIN launch : launch[k].st \in Live => ~Awaits(k)
  BY <1>1 DEF Awaits, Live
<1>8. ASSUME NEW k \in DOMAIN launch' PROVE Carried(k)'
  <2>1. k \in DOMAIN launch /\ Carried(k) /\ launch'[k] = launch[k] /\ Sound(launch[k], log, asked)
    BY <1>1, UiParts DEF RootInv, Proposals, AppInv, Coherent
  <2>2. DOMAIN <<>> = {}
    OBVIOUS
  <2> QED
    BY <1>1, <2>1, <2>2 DEF Carried, Sound
<1>9. ~Unsettled'
  BY <1>2, <1>3 DEF Unsettled
<1> QED
  BY <1>1, <1>2, <1>4, <1>5, <1>6, <1>7, <1>8, <1>9, UiMoveRoots DEF RootInv, Filed

\* control: the command goes to the launch of its run.
LEMMA UiSendControlRoots ==
    ASSUME ClientInv, RootInv, UNCHANGED clientVars, SendControl(Ui)
    PROVE  RootInv'
<1> DEFINE old == req[Ui] l == active[req[Ui].run] m == [kind |-> old.kind, id |-> old.id]
<1>1. /\ old.pc = "find" /\ Ui \in Callers /\ old.run = ui.run /\ ui.run \in Runs /\ RootInv /\ Typed /\ AppInv
      /\ req \in [Callers -> Request] /\ InPlace(old.kind, old.pc) /\ Traced(old, log, asked) /\ old \in Request
      /\ UNCHANGED <<log, lease, active, asked, client, mon, ui, misled>>
      /\ old.kind \in {"steer", "cancel"}
  BY UiParts DEF SendControl, at, Typed, durable, clientVars, Placed
<1>2. ~Resuming /\ ui.op # "open" /\ ui.op # "accept" /\ ui.op # "resume" /\ \A k \in DOMAIN launch : ~Awaits(k)
  BY <1>1 DEF RootInv, Asking, Awaits, Resuming
<1>3. CASE Goto(Ui, "race") /\ UNCHANGED launch
  <2>1. PICK q : Moves(Ui, q) /\ q.pc = "race" /\ q.seen = old.seen
    BY <1>1, <1>3, GotoMoves DEF PCs
  <2>2. InPlace(q.kind, q.pc)
    BY <1>1, <2>1 DEF Moves, InPlace
  <2> QED
    BY <1>1, <1>3, <2>1, <2>2, UiLookRoots
<1>4. CASE /\ l # 0 /\ launch' = Sent(launch, l, m)
           /\ req' = [req EXCEPT ![Ui] = [old EXCEPT !.pc = "acked", !.launch = l]]
  <2> DEFINE q == [old EXCEPT !.pc = "acked", !.launch = l]
  <2>1. l \in DOMAIN launch /\ l \in Nat /\ launch[l].run = ui.run
    BY <1>1, <1>4, Parts DEF AppInv, Registered
  <2>2. m \in Message /\ m.id = old.id /\ m.kind = old.kind
    BY <1>1 DEF Message, Controls, Request
  <2>3. /\ launch' \in Seq(Launches) /\ Len(launch') = Len(launch)
        /\ \A k \in DOMAIN launch : Extended(launch[k], launch'[k], m)
        /\ \A k \in DOMAIN launch : k # l => launch'[k] = launch[k]
    BY <1>1, <1>4, <2>1, <2>2, SentExtends
  <2>4. DOMAIN launch' = DOMAIN launch
    BY <2>3, UiParts
  <2>5. /\ q \in Request /\ q.kind = old.kind /\ q.run = old.run /\ q.id = old.id /\ q.after = old.after
        /\ q.pc = "acked" /\ q.launch = l /\ q.seen = old.seen
    <3> HIDE DEF l, old
    <3> QED
      BY <1>1, <2>1 DEF Request, PCs
  <2>6. req' = [req EXCEPT ![Ui] = q]
    BY <1>4
  <2> HIDE DEF q, m
  <2>7. Moves(Ui, q) /\ req'[Ui] = q
    BY <1>1, <2>5, <2>6 DEF Moves
  <2>8. Traced(q, log, asked)
    BY <1>1, <2>5 DEF Traced
  <2>9. Supplied(launch'[l], log, asked)
    <3> DEFINE z == launch[l] y == launch'[l]
    <3>1. /\ z \in Launches /\ z.queue \in Seq(Message) /\ Supplied(z, log, asked) /\ Extended(z, y, m)
      BY <1>1, <2>1, <2>3, Parts DEF Launches, RootInv, Filed
    <3>2. asked[m.id].run = z.run /\ m.kind # "accept"
      BY <1>1, <2>1, <2>2 DEF Traced, Controls
    <3>3. \A i \in DOMAIN y.queue : y.queue[i] = m \/ (i \in DOMAIN z.queue /\ y.queue[i] = z.queue[i])
      <4>1. CASE y.queue = z.queue
        BY <4>1
      <4>2. CASE y.queue = Append(z.queue, m)
        <5> HIDE DEF z, y
        <5> QED
          BY <2>2, <3>1, <4>2
      <4> QED
        BY <3>1, <4>1, <4>2 DEF Extended
    <3> HIDE DEF z, y
    <3> QED
      BY <3>1, <3>2, <3>3 DEF Supplied, Extended, y
  <2>10. /\ \A k \in DOMAIN launch' : Supplied(launch'[k], log, asked)
         /\ \A k \in DOMAIN launch : /\ k \in DOMAIN launch' /\ launch'[k].run = launch[k].run
                                     /\ launch'[k].st = launch[k].st /\ launch'[k].create = launch[k].create
    BY <1>1, <2>3, <2>4, <2>9 DEF Extended, RootInv, Filed
  <2>11. Entered'
    BY <1>1, <2>4, <2>5, <2>7, <2>10 DEF RootInv, Entered, Attached
  <2>12. ~Resuming'
    BY <2>5, <2>7 DEF Resuming
  <2>13. ASSUME NEW k \in DOMAIN launch' PROVE Carried(k)'
    <3> DEFINE z == launch[k] y == launch'[k]
    <3>1. k \in DOMAIN launch /\ Carried(k) /\ z.queue \in Seq(Message) /\ (y = z \/ Extended(z, y, m))
      BY <1>1, <2>1, <2>3, <2>4, Parts DEF Launches, RootInv, Proposals
    <3>2. \A i \in DOMAIN z.queue : z.queue[i].kind # "accept"
      BY <1>2, <3>1 DEF Carried
    <3>3. CASE y.queue = z.queue
      BY <3>2, <3>3 DEF Carried
    <3>4. CASE y.queue = Append(z.queue, m)
      <4>1. \A i \in DOMAIN y.queue : y.queue[i].kind # "accept"
        <5> HIDE DEF z, y
        <5> QED
          BY <1>1, <2>2, <3>1, <3>2, <3>4
      <4> QED
        BY <4>1 DEF Carried
    <3> QED
      BY <3>1, <3>3, <3>4 DEF Extended
  <2> QED
    BY <1>1, <1>2, <2>4, <2>5, <2>7, <2>8, <2>10, <2>11, <2>12, <2>13, UiMoveRoots
<1> QED
  BY <1>3, <1>4 DEF SendControl, runOf

\* A step of the application.
LEMMA UiStepRoots ==
    ASSUME ClientInv, RootInv, RequestStep(Ui) \/ FollowStep(Ui), UNCHANGED clientVars
    PROVE  RootInv'
<1>1. req[Ui].kind # "wait" /\ InPlace(req[Ui].kind, req[Ui].pc)
  BY UiParts DEF RootInv, Asking, Screens, Launching
<1>2. ~(Read(Ui) \/ CheckActive(Ui) \/ Wakes(Ui))
  BY <1>1 DEF Read, CheckActive, Wakes, at, InPlace
<1> QED
  BY <1>2, UiLooksRoots, UiComposeRoots, UiAwaitReadyRoots, UiRegisterRoots, UiGetRoots,
     UiUnacknowledgedRoots, UiSendControlRoots DEF RequestStep, FollowStep

LEMMA ApplicationRoots == ASSUME ClientInv, RootInv, Application, AppInv' PROVE RootInv'
<1>1. UNCHANGED clientVars /\ Callers = Runs \cup {Ui}
  BY UiParts DEF Application
<1>2. ASSUME NEW c \in Callers, RequestStep(c) \/ FollowStep(c) PROVE RootInv'
  BY <1>1, <1>2, FollowStepRoots, UiStepRoots
<1>3. ASSUME NEW l \in DOMAIN launch, LaunchStep(l) \/ Monitor(l) PROVE RootInv'
  BY <1>1, <1>3, LaunchStepRoots, MonitorRoots
<1> QED
  BY <1>2, <1>3 DEF Application, AppStep

-----------------------------------------------------------------------------
(* The monitors of the client, and the UI at rest *)

\* A step beside the operation that the UI awaits.
LEMMA AsideRoots ==
    ASSUME ClientInv, RootInv, UNCHANGED <<log, lease, launch, active, asked>>,
           ui'.op = ui.op, ui'.run = ui.run, req'[Ui] = req[Ui],
           \A c \in Runs : Traced(req'[c], log, asked) /\ Tracks(c)',
           Offering',
           ui.op \in Launching => client'.current = None,
           misled \subseteq misled',
           \A l \in DOMAIN launch : launch[l].st \in Live /\ client.current = launch[l].run =>
               client'.current = launch[l].run \/ Strayed(launch[l].run)'
    PROVE  RootInv'
<1>1. RootInv /\ Callers = Runs \cup {Ui} /\ \A l \in DOMAIN launch : launch[l].run \in Runs
  BY UiParts
<1>2. Filed'
  BY <1>1 DEF RootInv, Filed
<1>3. Entered'
  BY <1>1 DEF RootInv, Entered, Attached
<1>4. Asking'
  BY <1>1 DEF RootInv, Asking
<1>5. Loaded(req[Ui])' = Loaded(req[Ui])
  BY DEF Loaded
<1>6. Resuming' <=> Resuming
  BY DEF Resuming
<1>7. Judging'
  BY <1>1, JudgingStays DEF RootInv
<1>8. Proposals'
  <2>1. Proposals /\ (\A r : Strayed(r) => Strayed(r)') /\ \A r : Taken(r)' <=> Taken(r)
    BY <1>1 DEF RootInv, Strayed, Taken
  <2>2. Accepting'
    <3> SUFFICES ASSUME ui.op = "accept" PROVE Accepting'
      BY DEF Accepting
    <3>1. Unsettled' <=> Unsettled
      BY DEF Unsettled
    <3> QED
      BY <2>1, <3>1 DEF Proposals, Accepting
  <2>3. Viewing'
    BY <1>5, <2>1 DEF Proposals, Viewing, HostAnswered
  <2>4. \A l \in DOMAIN launch : Carried(l)' /\ Held(l)'
    BY <2>1 DEF Proposals, Carried, Held, HostAnswered
  <2>5. Resuming' => Strayed(ui.run)' \/ Ended(log'[ui'.run]) \/ ~HostAnswered(ui'.run, log'[ui'.run])
    BY <1>6, <2>1 DEF Proposals, HostAnswered
  <2> QED
    BY <2>2, <2>3, <2>4, <2>5 DEF Proposals, HostAnswered, Strayed
<1>9. ASSUME NEW l \in DOMAIN launch, Awaits(l) PROVE Awaits(l)'
  BY <1>5, <1>9 DEF Awaits, HostAnswered
<1>10. Adopted'
  BY <1>1, <1>9 DEF RootInv, Adopted, Strayed
<1> QED
  BY <1>2, <1>3, <1>4, <1>7, <1>8, <1>10 DEF RootInv

\* A step of the monitor of run r that the client does not notice.
LEMMA FollowingRoots ==
    ASSUME ClientInv, RootInv, NEW r \in Runs, UNCHANGED <<log, lease, launch, active, asked, ui>>,
           \A c \in Callers : c # r => req'[c] = req[c], \A c \in Runs : c # r => mon'[c] = mon[c],
           Traced(req'[r], log, asked), Tracks(r)',
           client'.current = client.current, client'.pending = client.pending, client'.offer = client.offer,
           misled \subseteq misled'
    PROVE  RootInv'
<1>1. RootInv /\ Callers = Runs \cup {Ui} /\ Ui \notin Runs
  BY UiParts
<1>2. ASSUME NEW c \in Runs PROVE Traced(req'[c], log, asked) /\ Tracks(c)'
  <2>1. Traced(req[c], log, asked) /\ Tracks(c)
    BY <1>1 DEF RootInv, Filed, Asking
  <2> QED
    BY <1>1, <2>1 DEF Tracks
<1>3. ui.op \in Launching => client'.current = None
  BY <1>1 DEF RootInv, Asking
<1>4. Offering'
  BY <1>1 DEF RootInv, Proposals, Offering, Strayed, Taken
<1> QED
  BY <1>1, <1>2, <1>3, <1>4, AsideRoots

LEMMA MonitorAskRoots ==
    ASSUME ClientInv, RootInv, NEW r \in Runs, MonitorAsk(r) PROVE RootInv'
<1> DEFINE q == NewRequest("wait", r, None, 0, client.cursor[r])
<1>1. /\ UNCHANGED <<durable, process, asked, client, ui, misled>> /\ mon' = [mon EXCEPT ![r].st = "wait"]
      /\ req' = [req EXCEPT ![r] = q]
  BY DEF MonitorAsk, Watch, Begin
<1>2. /\ r \in Callers /\ req \in [Callers -> Request] /\ log[r] \in Seq(Events) /\ Len(log[r]) \in Nat
  BY FollowerParts, UiParts, Parts DEF Typed
<1>3. q.kind = "wait" /\ q.run = r /\ q.pc = "read" /\ q.seen = 0
  BY DEF NewRequest, Idle
<1> HIDE DEF q
<1>4. /\ mon'[r].st = "wait" /\ \A s \in Runs : s # r => mon'[s] = mon[s]
  BY <1>1, FollowerTurns DEF Stops
<1>5. req'[r] = q /\ \A c \in Callers : c # r => req'[c] = req[c]
  BY <1>1, <1>2
<1>6. Traced(req'[r], log, asked) /\ Tracks(r)'
  BY <1>2, <1>3, <1>4, <1>5 DEF Traced, Tracks, Controls
<1> QED
  BY <1>1, <1>4, <1>5, <1>6, FollowingRoots DEF durable, process

LEMMA MonitorTakeRoots ==
    ASSUME ClientInv, RootInv, NEW r \in Runs, MonitorTake(r) PROVE RootInv'
<1> DEFINE q == req[r]
           x == [st |-> "record", from |-> q.after + 1, next |-> q.after + 1, upto |-> q.seen]
           y == [Off EXCEPT !.st = "finish"]
<1>1. /\ r \in Callers /\ mon \in [Runs -> Followers] /\ q \in Request /\ req \in [Callers -> Request]
  BY FollowerParts, UiParts DEF Typed
<1>2. /\ mon[r].st = "wait" /\ q.pc = "done" /\ req' = [req EXCEPT ![r] = Idle]
      /\ UNCHANGED <<durable, process, asked, client, ui>>
      /\ (q.seen > q.after /\ mon' = [mon EXCEPT ![r] = x]) \/ mon' = [mon EXCEPT ![r] = y]
      /\ misled' \in {misled, misled \cup {<<r, "unseen">>}}
  BY DEF MonitorTake, at
<1>3. q.run = r /\ q.seen <= Len(log[r])
  BY <1>1, <1>2 DEF RootInv, Filed, Traced, Asking, Tracks
<1>4. x.st = "record" /\ x.next = q.after + 1 /\ x.upto = q.seen /\ y.st = "finish"
  BY DEF Off
<1> HIDE DEF x, y
<1>5. \A s \in Runs : s # r => mon'[s] = mon[s]
  BY <1>1, <1>2
<1>6. req'[r] = Idle /\ Idle.kind = "none" /\ Idle.pc = "idle" /\ \A c \in Callers : c # r => req'[c] = req[c]
  BY <1>1, <1>2, IdleRequest
<1>7. Traced(req'[r], log, asked)
  BY <1>6 DEF Traced, Controls
<1>8. Tracks(r)'
  <2>1. CASE q.seen > q.after /\ mon'[r] = x
    <3>1. x.next <= x.upto /\ x.upto <= Len(log'[r])
      BY <1>1, <1>2, <1>3, <1>4, <2>1 DEF Request, durable
    <3> QED
      BY <1>4, <1>6, <2>1, <3>1 DEF Tracks
  <2>2. CASE mon'[r] = y
    BY <1>4, <1>6, <2>2 DEF Tracks
  <2> QED
    BY <1>1, <1>2, <2>1, <2>2
<1> QED
  BY <1>2, <1>5, <1>6, <1>7, <1>8, FollowingRoots DEF durable, process

LEMMA MonitorSendRoots ==
    ASSUME ClientInv, RootInv, NEW r \in Runs, MonitorSend(r) PROVE RootInv'
<1> DEFINE z == mon[r] x == [z EXCEPT !.st = "record", !.next = z.next + 1]
           y == [Off EXCEPT !.st = IF LastBatch(r) \/ ~ui.on THEN "finish" ELSE "ask"]
<1>1. /\ mon \in [Runs -> Followers] /\ z \in Followers /\ r \in Callers /\ Tracks(r) /\ Traced(req[r], log, asked)
  BY FollowerParts DEF RootInv, Asking, Filed
<1>2. /\ z.st = "send" /\ UNCHANGED <<appVars, client, ui, misled>>
      /\ (z.next < z.upto /\ mon' = [mon EXCEPT ![r] = x]) \/ mon' = [mon EXCEPT ![r] = y]
  BY DEF MonitorSend, Sending
<1>3. y.st \in {"finish", "ask"}
  BY DEF Off
<1>4. x.st = "record" /\ x.next = z.next + 1 /\ x.upto = z.upto /\ z.next \in Nat /\ z.upto \in Nat
  <2> HIDE DEF z
  <2> QED
    BY <1>1 DEF Followers
<1> HIDE DEF x, y
<1>5. UNCHANGED <<log, lease, launch, active, asked, req>>
  BY <1>2 DEF appVars
<1>6. \A s \in Runs : s # r => mon'[s] = mon[s]
  BY <1>1, <1>2
<1>7. Tracks(r)'
  <2>1. CASE z.next < z.upto /\ mon'[r] = x
    <3>1. x.next <= x.upto /\ x.upto <= Len(log'[r])
      BY <1>1, <1>2, <1>4, <1>5, <2>1 DEF Tracks
    <3> QED
      BY <1>1, <1>2, <1>4, <1>5, <2>1, <3>1 DEF Tracks
  <2>2. CASE mon'[r] = y
    BY <1>1, <1>3, <1>5, <2>2 DEF Tracks
  <2> QED
    BY <1>1, <1>2, <2>1, <2>2
<1> QED
  BY <1>1, <1>2, <1>5, <1>6, <1>7, FollowingRoots

LEMMA MonitorFinishRoots ==
    ASSUME ClientInv, RootInv, NEW r \in Runs, MonitorFinish(r) PROVE RootInv'
<1>1. /\ mon \in [Runs -> Followers] /\ mon[r] \in Followers /\ Tracks(r) /\ Traced(req[r], log, asked)
      /\ client \in Clients
  BY FollowerParts, UiParts DEF RootInv, Asking, Filed
<1>2. /\ UNCHANGED <<appVars, ui, misled>>
      /\ mon' = [mon EXCEPT ![r].st = "ask"] \/ mon' = [mon EXCEPT ![r] = Off]
      /\ client' = [client EXCEPT !.restart = @ \ {r}] \/ client' = [client EXCEPT !.monitored = @ \ {r}]
  BY DEF MonitorFinish
<1>3. client'.current = client.current /\ client'.pending = client.pending /\ client'.offer = client.offer
  BY <1>1, <1>2 DEF Clients
<1>4. mon'[r].st \in {"ask", "off"} /\ \A s \in Runs : s # r => mon'[s] = mon[s]
  BY <1>1, <1>2 DEF Off, Followers
<1>5. UNCHANGED <<log, lease, launch, active, asked, req>>
  BY <1>2 DEF appVars
<1>6. Tracks(r)'
  BY <1>1, <1>4, <1>5 DEF Tracks
<1> QED
  BY <1>1, <1>2, <1>3, <1>4, <1>5, <1>6, FollowingRoots

\* What an event makes of the root and of the candidate that the client offers to accept.
LEMMA RecordRoots ==
    ASSUME NEW k \in Clients, NEW r \in Runs, NEW n \in Nat
    PROVE  LET j == RecordEvent(k, r, n)
               s == SubSeq(log[r], 1, n)
               proposed == Last(s).kind = "proposed" /\ r \in HostRuns
           IN  /\ \/ j.pending = k.pending /\ j.offer = k.offer
                  \/ j.pending = None
                  \/ proposed /\ j.pending = r /\ j.offer = n
               /\ j.current = k.current \/ (k.current = r /\ j.current = None /\ (proposed \/ Ended(s)))
<1> DEFINE i == [k EXCEPT !.cursor[r] = n] s == SubSeq(log[r], 1, n)
           u == Dismissed(i, r) uc == Unless(r, k.current)
           latest == IF Continues(s) THEN r ELSE None
           a == [i EXCEPT !.pending = r, !.offer = n, !.current = uc, !.latest = None]
           c == [u EXCEPT !.current = uc, !.latest = latest]
<1>1. i \in Clients /\ i.current = k.current /\ i.pending = k.pending /\ i.offer = k.offer
  BY DEF Clients
<1> HIDE DEF i
<1>2. uc = k.current \/ (k.current = r /\ uc = None)
  BY DEF Unless
<1>3. /\ u \in Clients /\ u.current = i.current
      /\ (u.pending = i.pending /\ u.offer = i.offer) \/ u.pending = None
  BY <1>1, DismissedFields DEF Unless
<1> HIDE DEF u
<1>4. /\ a = [i EXCEPT !.pending = r, !.offer = n, !.current = Unless(r, @), !.latest = None]
      /\ c = [u EXCEPT !.current = Unless(r, @), !.latest = latest]
  BY <1>1, <1>3 DEF Clients
<1>5. \/ RecordEvent(k, r, n) = a /\ Last(s).kind = "proposed" /\ r \in HostRuns
      \/ RecordEvent(k, r, n) = u
      \/ RecordEvent(k, r, n) = c /\ Ended(s)
      \/ RecordEvent(k, r, n) = i
  BY <1>4 DEF RecordEvent, i, u
<1> HIDE DEF uc, latest
<1>6. /\ a.pending = r /\ a.offer = n /\ a.current = uc
      /\ c.pending = u.pending /\ c.offer = u.offer /\ c.current = uc
  BY <1>1, <1>3 DEF Clients
<1> HIDE DEF a, c, s
<1> QED
  BY <1>1, <1>2, <1>3, <1>5, <1>6 DEF s

\* record_event: a run at work stays the root, unless its acceptance has overtaken
\* the replay of its proposal.
LEMMA MonitorRecordRoots ==
    ASSUME ClientInv, RootInv, NEW r \in Runs, MonitorRecord(r) PROVE RootInv'
<1> DEFINE n == mon[r].next s == SubSeq(log[r], 1, n)
           proposed == Last(s).kind = "proposed" /\ r \in HostRuns
<1>1. /\ mon[r].st = "record" /\ client' = RecordEvent(client, r, n)
      /\ mon' = [mon EXCEPT ![r].st = "send"] /\ UNCHANGED <<appVars, ui>>
      /\ misled' = IF Overtaken(r, n) THEN misled \cup {<<r, "replayed">>} ELSE misled
  BY DEF MonitorRecord
<1>2. /\ RootInv /\ AppInv /\ client \in Clients /\ mon \in [Runs -> Followers] /\ mon[r] \in Followers
      /\ n \in Nat /\ mon[r].upto \in Nat /\ n # 0
      /\ log[r] \in Seq(Events) /\ Len(log[r]) \in Nat /\ Runs \subseteq Callers
      /\ \A l \in DOMAIN launch : launch[l].run \in Runs /\ l # 0
  BY <1>1, FollowerParts, UiParts, Parts DEF ClientInv, UiInv, Followed
<1>3. n <= mon[r].upto /\ mon[r].upto <= Len(log[r])
  BY <1>1, <1>2 DEF RootInv, Asking, Tracks
<1>4. n \in 1 .. Len(log[r]) /\ n \in 0 .. Len(log[r])
  BY <1>2, <1>3
<1>5. Last(s) = log[r][n] /\ n \in DOMAIN log[r] /\ (Final(log[r]) /\ Ended(s) => Ended(log[r]))
  <2> DEFINE w == log[r]
  <2>1. w \in Seq(Events) /\ n \in 0 .. Len(w) /\ s = SubSeq(w, 1, n) /\ n # 0
    BY <1>2, <1>4
  <2>2. (n # 0 => n \in DOMAIN w /\ Last(s) = w[n]) /\ (Final(w) /\ Ended(s) => Ended(w))
    <3> HIDE DEF w, s, n
    <3> QED
      BY <2>1, ReplayedPart
  <2> QED
    BY <2>1, <2>2
<1>6. /\ \/ client'.pending = client.pending /\ client'.offer = client.offer
         \/ client'.pending = None
         \/ proposed /\ client'.pending = r /\ client'.offer = n
      /\ \/ client'.current = client.current
         \/ client.current = r /\ client'.current = None /\ (proposed \/ Ended(s))
  BY <1>1, <1>2, RecordRoots
<1>7. UNCHANGED <<log, lease, launch, active, asked, req>>
  BY <1>1 DEF appVars
<1> HIDE DEF s
<1>8. ASSUME proposed
      PROVE  r \in HostRuns /\ (Strayed(r)' \/ Ended(log[r]) \/ Stands(log[r], n))
  <2>1. log[r][n].kind = "proposed" /\ r \in HostRuns
    BY <1>5, <1>8
  <2>2. CASE Since(log[r], n, "accepted")
    BY <1>1, <2>1, <2>2 DEF Overtaken, Strayed
  <2>3. CASE ~Since(log[r], n, "accepted") /\ ~Ended(log[r])
    <3> DEFINE w == log[r]
    <3>1. w \in Seq(Events) /\ Untouched(w) /\ Final(w) /\ n \in DOMAIN w
      BY <1>2, <1>5, <2>1 DEF RootInv, Judging, Filed
    <3>2. ~Ended(w) /\ w[n].kind = "proposed" /\ ~Since(w, n, "accepted")
      BY <2>1, <2>3
    <3>3. Stands(w, n)
      <4> HIDE DEF w, n
      <4> QED
        BY <3>1, <3>2, UntouchedStands
    <3> QED
      BY <2>1, <3>3
  <2> QED
    BY <2>1, <2>2, <2>3
<1>9. misled \subseteq misled'
  BY <1>1
<1>10. \A t : Strayed(t) => Strayed(t)'
  BY <1>9 DEF Strayed
<1>11. Offering'
  <2> SUFFICES ASSUME client'.pending # None PROVE Offering'
    BY DEF Offering
  <2>1. CASE client'.pending = client.pending /\ client'.offer = client.offer
    BY <1>1, <1>2, <1>7, <1>10, <2>1 DEF RootInv, Proposals, Offering, Taken
  <2>2. CASE proposed /\ client'.pending = r /\ client'.offer = n
    BY <1>7, <1>8, <2>2 DEF Offering
  <2> QED
    BY <1>6, <2>1, <2>2
<1>12. ASSUME NEW c \in Runs PROVE Traced(req'[c], log, asked) /\ Tracks(c)'
  <2>1. Traced(req[c], log, asked) /\ Tracks(c)
    BY <1>2 DEF RootInv, Filed, Asking
  <2>2. mon'[c] = IF c = r THEN [mon[r] EXCEPT !.st = "send"] ELSE mon[c]
    BY <1>1, <1>2
  <2>3. mon'[c] = mon[c] \/ (c = r /\ mon'[c].st = "send" /\ mon'[c].next = n /\ mon'[c].upto = mon[c].upto)
    BY <1>2, <2>2 DEF Followers
  <2> QED
    BY <1>3, <1>7, <2>1, <2>3 DEF Tracks
<1>13. ui.op \in Launching => client'.current = None
  BY <1>2, <1>6 DEF RootInv, Asking
<1>14. ASSUME NEW l \in DOMAIN launch, launch[l].st \in Live, client.current = launch[l].run
       PROVE  client'.current = launch[l].run \/ Strayed(launch[l].run)'
  <2>1. SUFFICES ASSUME launch[l].run = r, proposed \/ Ended(s) PROVE Strayed(r)'
    BY <1>6, <1>7, <1>14
  <2>2. lease[r] = l
    BY <1>2, <1>14, <2>1 DEF AppInv, Leased, Live, Working
  <2>3. Final(log[r]) /\ ~Ended(log[r])
    BY <1>2, <2>2 DEF RootInv, Filed
  <2>4. proposed
    BY <1>5, <2>1, <2>3
  <2>5. CASE Stands(log[r], n)
    <3> DEFINE w == log[r]
    <3>1. w \in Seq(Events) /\ Stands(w, n)
      BY <1>2, <2>5
    <3>2. Answered(w)
      <4> HIDE DEF w, n
      <4> QED
        BY <3>1, OneOffer
    <3>3. HostAnswered(launch[l].run, log[launch[l].run])
      BY <1>8, <2>1, <2>4, <3>2 DEF HostAnswered
    <3>4. Strayed(r) \/ ui.op = "accept"
      BY <1>2, <1>14, <2>1, <3>3 DEF RootInv, Proposals, Held
    <3>5. ui.op # "accept"
      BY <1>2, <1>14, <2>1, ApplicationAssumption DEF RootInv, Asking, Launching
    <3> QED
      BY <1>10, <3>4, <3>5
  <2> QED
    BY <1>8, <2>3, <2>4, <2>5
<1> QED
  BY <1>1, <1>7, <1>9, <1>11, <1>12, <1>13, <1>14, AsideRoots

LEMMA MonitorStepRoots ==
    ASSUME ClientInv, RootInv, NEW r \in Runs, MonitorStep(r) PROVE RootInv'
  BY MonitorAskRoots, MonitorTakeRoots, MonitorRecordRoots, MonitorSendRoots, MonitorFinishRoots DEF MonitorStep

\* The UI shows an event, forgets what it continued, or does nothing.
LEMMA IdleRoots ==
    ASSUME ClientInv, RootInv, UNCHANGED <<appVars, mon, misled>>, ui'.op = ui.op, ui'.run = ui.run,
           client'.current = client.current,
           client'.pending = None \/ (client'.pending = client.pending /\ client'.offer = client.offer)
    PROVE  RootInv'
<1>1. RootInv /\ Runs \subseteq Callers /\ UNCHANGED <<log, lease, launch, active, asked, req>>
  BY UiParts DEF appVars
<1>2. \A c \in Runs : Traced(req'[c], log, asked) /\ Tracks(c)'
  BY <1>1 DEF RootInv, Filed, Asking, Tracks
<1>3. ui.op \in Launching => client'.current = None
  BY <1>1 DEF RootInv, Asking
<1>4. Offering'
  BY <1>1 DEF RootInv, Proposals, Offering, Strayed, Taken
<1> QED
  BY <1>1, <1>2, <1>3, <1>4, AsideRoots

LEMMA RestingRoots ==
    ASSUME ClientInv, RootInv, Present \/ NewRoot \/ UNCHANGED vars PROVE RootInv'
<1>1. ui \in Screens /\ client \in Clients
  BY UiParts
<1>2. CASE Present
  <2>1. \/ ui' = ui \/ ui' = [ui EXCEPT !.on = FALSE]
        \/ \E b : ui' = [ui EXCEPT !.loading = b]
    BY <1>2 DEF Present
  <2>2. ui'.op = ui.op /\ ui'.run = ui.run
    BY <1>1, <2>1 DEF Screens
  <2> QED
    BY <1>2, <2>2, IdleRoots DEF Present
<1>3. CASE NewRoot
  <2>1. client' = [client EXCEPT !.latest = None, !.pending = None, !.offer = 0]
    BY <1>3 DEF NewRoot
  <2>2. client'.current = client.current /\ client'.pending = None
    BY <1>1, <2>1 DEF Clients
  <2> QED
    BY <1>3, <2>2, IdleRoots DEF NewRoot
<1>4. CASE UNCHANGED vars
  BY <1>4, IdleRoots DEF vars, clientVars
<1> QED
  BY <1>2, <1>3, <1>4

-----------------------------------------------------------------------------
(* The UI begins an operation *)

\* The commands sent so far keep their places.
LEMMA SentFiles ==
    ASSUME ClientInv, RootInv, UNCHANGED <<log, lease, launch>>,
           \A i \in 1 .. Len(asked) : asked'[i] = asked[i],
           \A c \in Runs : req'[c] = req[c], Traced(req'[Ui], log, asked')
    PROVE  Filed'
<1>1. /\ AppInv /\ Filed /\ Coherent /\ Len(asked) \in Nat /\ Callers = Runs \cup {Ui}
  BY UiParts, Parts DEF RootInv, AppInv
<1>2. ASSUME NEW r \in Runs, NEW i \in DOMAIN log[r] PROVE Credited(log[r][i], r, asked')
  <2>1. log[r][i].id \in 0 .. Len(asked) /\ Credited(log[r][i], r, asked)
    BY <1>1 DEF Coherent, Filed
  <2> QED
    BY <1>1, <2>1 DEF Credited
<1>3. ASSUME NEW l \in DOMAIN launch PROVE Supplied(launch[l], log, asked')
  <2>1. Supplied(launch[l], log, asked) /\ \A i \in DOMAIN launch[l].queue : Known(launch[l].queue[i], asked)
    BY <1>1 DEF Coherent, Filed, Sound
  <2> QED
    BY <2>1 DEF Supplied, Known
<1>4. ASSUME NEW c \in Callers PROVE Traced(req'[c], log, asked')
  <2>1. Traced(req[c], log, asked) /\ Placed(req[c], launch, log, asked)
    BY <1>1 DEF Coherent, Filed
  <2> QED
    BY <1>1, <2>1 DEF Traced, Placed
<1> QED
  BY <1>1, <1>2, <1>3, <1>4 DEF Filed

\* The UI has no request under way: nothing it awaits is at work.
LEMMA BeginRoots ==
    ASSUME ClientInv, RootInv, ui.op = "none" \/ (ui.op = "open" /\ req[Ui].pc = "done"),
           UNCHANGED <<log, lease, launch, active, mon, misled>>,
           \A i \in 1 .. Len(asked) : asked'[i] = asked[i],
           NEW q, req' = [req EXCEPT ![Ui] = q], q.pc \in {"reserve", "load", "get"}, Traced(q, log, asked'),
           NEW r \in Runs, q.run = r, ui'.run = r,
           client'.current = client.current, client'.pending = client.pending, client'.offer = client.offer,
           ui'.op # "none",
           ui'.op = "submit" => q.kind \in {"start", "continue"},
           ui'.op = "recover" => q.kind = "recover",
           ui'.op = "open" => q.kind = "get",
           ui'.op \notin {"none", "submit", "recover", "open"} => q.kind = ui'.op,
           ui'.op \in Launching => client.current = None,
           ui'.op = "accept" =>
               /\ r \in HostRuns /\ ~Receipt(log[r], q.id)
               /\ Strayed(r) \/ Ended(log[r]) \/ Stands(log[r], asked'[q.id].about),
           ui'.op \in {"submit", "recover", "resume"} => q.pc # "get",
           ui'.op = "resume" => Strayed(r) \/ Ended(log[r]) \/ ~HostAnswered(r, log[r])
    PROVE  RootInv'
<1>1. /\ RootInv /\ Callers = Runs \cup {Ui} /\ Ui \notin Runs /\ req \in [Callers -> Request] /\ ui \in Screens
      /\ \A l \in DOMAIN launch : launch[l].run \in Runs
  BY UiParts DEF Typed
<1>2. req'[Ui] = q /\ \A c \in Runs : req'[c] = req[c]
  BY <1>1
<1>3. Filed'
  BY <1>2, SentFiles
<1>4. req[Ui].pc \in {"idle", "done"} /\ \A l \in DOMAIN launch : ~Awaits(l)
  BY <1>1 DEF RootInv, Asking, Awaits
<1>5. Entered'
  BY <1>1, <1>2, <1>4 DEF RootInv, Entered, Attached
<1>6. Asking'
  <2>1. \A c \in Runs : Tracks(c)'
    BY <1>1, <1>2 DEF RootInv, Asking, Tracks
  <2> QED
    BY <1>2, <2>1 DEF Asking
<1>7. Proposals'
  <2>1. Proposals /\ (\A t : ~Taken(t)) /\ ui.op # "accept" /\ \A t : Strayed(t)' <=> Strayed(t)
    BY <1>1 DEF RootInv, Taken, Strayed
  <2>2. Resuming' => ui'.op = "resume" /\ ui'.run = r
    BY DEF Resuming
  <2>3. Offering'
    BY <2>1 DEF Proposals, Offering
  <2>4. Accepting'
    BY <1>2, <2>1 DEF Accepting
  <2>5. Viewing'
    BY <1>2 DEF Viewing
  <2>6. \A l \in DOMAIN launch : Carried(l)' /\ Held(l)'
    BY <2>1 DEF Proposals, Carried, Held, HostAnswered
  <2> QED
    BY <2>1, <2>2, <2>3, <2>4, <2>5, <2>6 DEF Proposals, HostAnswered
<1>8. Adopted'
  BY <1>1, <1>4 DEF RootInv, Adopted, Strayed
<1>9. Judging'
  BY <1>1, JudgingStays DEF RootInv
<1> QED
  BY <1>3, <1>5, <1>6, <1>7, <1>8, <1>9 DEF RootInv

\* The request of the UI, its first place and what it has seen.
LEMMA AskedParts ==
    ASSUME ClientInv, RootInv, NEW kind \in Kinds \cup {"get"}, NEW r \in Runs, NEW source \in Runs \cup {None},
           NEW id \in Nat, Begin(Ui, kind, r, source, id, 0), kind \in Controls => asked'[id].run = r
    PROVE  /\ UNCHANGED <<log, lease, launch, active>>
           /\ \E q : /\ req' = [req EXCEPT ![Ui] = q] /\ q.kind = kind /\ q.run = r /\ q.id = id /\ Traced(q, log, asked')
                     /\ q.pc \in {"reserve", "load", "get"} /\ (q.pc = "get" => kind = "get")
<1> DEFINE q == NewRequest(kind, r, source, id, 0)
           pc == IF kind \in {"start", "recover"} THEN "reserve"
                 ELSE IF kind = "wait" THEN "read" ELSE IF kind = "get" THEN "get" ELSE "load"
<1>1. q = [Idle EXCEPT !.kind = kind, !.run = r, !.source = source, !.id = id, !.after = 0, !.pc = pc]
  BY DEF NewRequest
<1>2. pc \in {"reserve", "load", "get"} /\ (pc = "get" => kind = "get")
  BY DEF Kinds, Creations, Controls
<1>3. q.kind = kind /\ q.run = r /\ q.pc = pc /\ q.id = id /\ q.seen = 0
  <2> HIDE DEF pc
  <2> QED
    BY <1>1 DEF Idle
<1>4. req' = [req EXCEPT ![Ui] = q] /\ UNCHANGED <<log, lease, launch, active>>
  BY DEF Begin, durable, process
<1> HIDE DEF q, pc
<1>5. Len(log[r]) \in Nat
  BY UiParts, Parts
<1>6. Traced(q, log, asked')
  BY <1>2, <1>3, <1>5 DEF Traced
<1> QED
  BY <1>2, <1>3, <1>4, <1>6

\* A command gets a fresh identity.
LEMMA CommandParts ==
    ASSUME ClientInv, RootInv, NEW kind \in Controls, NEW r \in Runs, NEW about \in Nat,
           Control(Ui, kind, r, Len(asked) + 1, about)
    PROVE  /\ UNCHANGED <<log, lease, launch, active>> /\ \A i \in 1 .. Len(asked) : asked'[i] = asked[i]
           /\ \E q : /\ req' = [req EXCEPT ![Ui] = q] /\ q.kind = kind /\ q.run = r /\ Traced(q, log, asked')
                     /\ q.pc \in {"reserve", "load", "get"} /\ q.id = Len(asked) + 1 /\ asked'[q.id].about = about
<1> DEFINE a == [kind |-> kind, run |-> r, copies |-> 1, about |-> about]
<1>1. asked \in Seq(Orders) /\ Len(asked) \in Nat /\ DOMAIN asked = 1 .. Len(asked)
  BY UiParts, Parts DEF Typed
<1>2. asked' = Append(asked, a) /\ Begin(Ui, kind, r, None, Len(asked) + 1, 0)
  BY <1>1 DEF Control
<1>3. a \in Orders /\ a.run = r /\ a.about = about
  BY DEF Orders
<1> HIDE DEF a
<1>4. PICK id \in Nat : id = Len(asked) + 1
  BY <1>1
<1>5. asked'[id].run = r /\ asked'[id].about = about /\ \A i \in 1 .. Len(asked) : asked'[i] = asked[i]
  BY <1>1, <1>2, <1>3, <1>4
<1>6. PICK source \in Runs \cup {None} : source = None
  OBVIOUS
<1>7. Begin(Ui, kind, r, source, id, 0) /\ kind \in Kinds \cup {"get"} /\ (kind \in Controls => asked'[id].run = r)
  BY <1>2, <1>4, <1>5, <1>6 DEF Kinds
<1>8. UNCHANGED <<log, lease, launch, active>>
  BY <1>7, AskedParts
<1>9. PICK q : /\ req' = [req EXCEPT ![Ui] = q] /\ q.kind = kind /\ q.run = r /\ q.id = id /\ Traced(q, log, asked')
               /\ q.pc \in {"reserve", "load", "get"} /\ (q.pc = "get" => kind = "get")
  BY <1>7, AskedParts
<1>10. q.id = Len(asked) + 1 /\ asked'[q.id].about = about
  BY <1>4, <1>5, <1>9
<1> QED
  BY <1>5, <1>8, <1>9, <1>10

LEMMA SubmitRoots == ASSUME ClientInv, RootInv, Submit PROVE RootInv'
<1>1. /\ UiIdle /\ client \in Clients /\ client.latest \in Runs \cup {None} /\ client.current = None /\ ui \in Screens
      /\ UNCHANGED <<client, mon, misled>> /\ "submit" \in Launching
  BY UiParts DEF Submit, MaySubmit, Clients, Launching
<1>2. PICK r \in Runs : /\ \E kind \in {"start", "continue"}, source \in Runs \cup {None} : Create(Ui, kind, r, source)
                        /\ Await("submit", r)
  BY <1>1 DEF Submit
<1>3. PICK kind \in {"start", "continue"}, source \in Runs \cup {None} : Create(Ui, kind, r, source)
  BY <1>2
<1>4. /\ kind \in Kinds \cup {"get"} /\ kind \notin Controls /\ Begin(Ui, kind, r, source, 0, 0) /\ asked' = asked
      /\ kind # "get" /\ 0 \in Nat
  BY <1>3 DEF Create, Kinds, Creations, Controls
<1>5. ui.op = "none" /\ ui'.op = "submit" /\ ui'.run = r
  BY <1>1, <1>2, AwaitFields DEF UiIdle
<1>6. PICK q : /\ req' = [req EXCEPT ![Ui] = q] /\ q.kind = kind /\ q.run = r /\ Traced(q, log, asked')
               /\ q.pc \in {"reserve", "load", "get"} /\ q.pc # "get" /\ UNCHANGED <<log, lease, launch, active>>
  BY <1>4, AskedParts
<1> QED
  BY <1>1, <1>4, <1>5, <1>6, BeginRoots

LEMMA RecoverRoots == ASSUME ClientInv, RootInv, Recover PROVE RootInv'
<1>1. /\ UiIdle /\ client.current = None /\ UNCHANGED <<client, mon, misled>> /\ "recover" \in Launching /\ ui \in Screens
  BY UiParts DEF Recover, Launching, ClientInv, UiInv, Awaited, Blank
<1>2. ASSUME NEW r \in reserved, Create(Ui, "recover", r, None), Await("recover", r) PROVE RootInv'
  <2>1. r \in Runs /\ None \in Runs \cup {None} /\ 0 \in Nat
    BY <1>2 DEF ClientInv, AppInv, Typed
  <2>2. /\ "recover" \in Kinds \cup {"get"} /\ "recover" \notin Controls
        /\ Begin(Ui, "recover", r, None, 0, 0) /\ asked' = asked
    BY <1>2 DEF Create, Kinds, Creations, Controls
  <2>3. ui.op = "none" /\ ui'.op = "recover" /\ ui'.run = r
    BY <1>1, <1>2, <2>1, AwaitFields DEF UiIdle
  <2>4. PICK q : /\ req' = [req EXCEPT ![Ui] = q] /\ q.kind = "recover" /\ q.run = r /\ Traced(q, log, asked')
                 /\ q.pc \in {"reserve", "load", "get"} /\ q.pc # "get" /\ UNCHANGED <<log, lease, launch, active>>
    BY <2>1, <2>2, AskedParts
  <2> QED
    BY <1>1, <2>1, <2>2, <2>3, <2>4, BeginRoots
<1>3. CASE ui' = [ui EXCEPT !.fresh = FALSE] /\ UNCHANGED appVars
  <2>1. ui'.op = ui.op /\ ui'.run = ui.run
    BY <1>1, <1>3 DEF Screens
  <2> QED
    BY <1>1, <1>3, <2>1, IdleRoots
<1> QED
  BY <1>2, <1>3 DEF Recover

\* A command or the acceptance of run r.
LEMMA ControlRoots ==
    ASSUME ClientInv, RootInv, UiIdle, NEW op \in Controls, NEW r \in Runs,
           NEW about \in Nat,
           Control(Ui, op, r, Len(asked) + 1, about), Await(op, r), UNCHANGED <<client, mon, misled>>,
           op = "accept" => client.current = None /\ client.pending = r /\ client.offer = about
    PROVE  RootInv'
<1>1. op \in Launching \cup {"steer", "cancel"} /\ (op \in Launching => op = "accept") /\ op \in Kinds \cup {"get"}
  BY DEF Controls, Launching, Kinds
<1>2. ui.op = "none" /\ ui'.op = op /\ ui'.run = r
  BY <1>1, AwaitFields, UiParts DEF UiIdle
<1>3. UNCHANGED <<log, lease, launch, active>> /\ \A i \in 1 .. Len(asked) : asked'[i] = asked[i]
  BY CommandParts
<1>4. PICK q : /\ req' = [req EXCEPT ![Ui] = q] /\ q.kind = op /\ q.run = r /\ Traced(q, log, asked')
               /\ q.pc \in {"reserve", "load", "get"} /\ q.id = Len(asked) + 1 /\ asked'[q.id].about = about
  BY CommandParts
<1>5. ASSUME op = "accept"
      PROVE  /\ r \in HostRuns /\ ~Receipt(log[r], q.id)
             /\ Strayed(r) \/ Ended(log[r]) \/ Stands(log[r], asked'[q.id].about)
  <2>1. Offering /\ client.pending # None /\ ~Taken(r)
    BY <1>2, <1>5, ApplicationAssumption DEF RootInv, Proposals, Taken
  <2>2. \A i \in DOMAIN log[r] : log[r][i].id # Len(asked) + 1
    <3>1. Len(asked) \in Nat /\ \A i \in DOMAIN log[r] : log[r][i].id \in 0 .. Len(asked)
      BY UiParts, Parts DEF AppInv, Coherent
    <3> QED
      BY <3>1
  <2> QED
    BY <1>4, <1>5, <2>1, <2>2 DEF Offering, Receipt
<1>6. op \notin {"none", "submit", "recover", "open", "resume"}
  BY DEF Controls
<1> QED
  BY <1>1, <1>2, <1>3, <1>4, <1>5, <1>6, BeginRoots

LEMMA CommandRoots ==
    ASSUME ClientInv, RootInv, NEW op \in {"steer", "cancel"}, Command(op) PROVE RootInv'
<1>1. PICK r \in Runs, about \in Nat : r = client.current /\ about = 0
  BY UiParts DEF Command, Clients
<1>2. op \in Controls /\ op # "accept"
  BY DEF Controls
<1>3. Control(Ui, op, r, Len(asked) + 1, about)
  BY <1>1 DEF Command
<1> QED
  BY <1>1, <1>2, <1>3, ControlRoots DEF Command

LEMMA AcceptRoots == ASSUME ClientInv, RootInv, Accept PROVE RootInv'
<1>1. PICK r \in Runs, about \in Nat : r = client.pending /\ about = client.offer
  BY UiParts DEF Accept, Clients
<1>2. "accept" \in Controls
  BY DEF Controls
<1> QED
  BY <1>1, <1>2, ControlRoots DEF Accept

LEMMA OpenRoots == ASSUME ClientInv, RootInv, NEW r \in Runs, Open(r) PROVE RootInv'
<1>1. /\ UiIdle /\ client' = [client EXCEPT !.cursor[r] = 0] /\ client.current = None /\ Await("open", r)
      /\ UNCHANGED <<mon, misled>> /\ Begin(Ui, "get", r, None, 0, 0) /\ asked' = asked
  BY DEF Open, Query
<1>2. client'.current = client.current /\ client'.pending = client.pending /\ client'.offer = client.offer
  BY <1>1, UiParts DEF Clients
<1>3. "open" \in Launching \cup {"steer", "cancel"} /\ "get" \in Kinds \cup {"get"} /\ "get" \notin Controls
      /\ 0 \in Nat /\ None \in Runs \cup {None}
  BY DEF Launching, Controls
<1>4. ui.op = "none" /\ ui'.op = "open" /\ ui'.run = r
  BY <1>1, <1>3, UiParts, AwaitFields DEF UiIdle
<1>5. PICK q : /\ req' = [req EXCEPT ![Ui] = q] /\ q.kind = "get" /\ q.run = r /\ Traced(q, log, asked')
               /\ q.pc \in {"reserve", "load", "get"} /\ UNCHANGED <<log, lease, launch, active>>
  BY <1>1, <1>3, AskedParts
<1> QED
  BY <1>1, <1>2, <1>4, <1>5, BeginRoots

\* What the answer of the UI shows of its run.
LEMMA ShownPart ==
    ASSUME ClientInv, RootInv, req[Ui].pc = "done"
    PROVE  LET s == Loaded(req[Ui]) IN
           /\ s \in Seq(Events) /\ ui.run \in Runs /\ log[ui.run] \in Seq(Events)
           /\ req[Ui].seen = Len(log[ui.run]) => s = log[ui.run]
           /\ Ended(s) => Ended(log[ui.run])
<1> DEFINE w == log[ui.run] n == req[Ui].seen s == Loaded(req[Ui])
<1>1. req[Ui].run = ui.run /\ ui.run \in Runs /\ w \in Seq(Events) /\ Final(w)
  BY UiParts, Parts DEF RootInv, Filed
<1>2. n \in 0 .. Len(w) /\ s = SubSeq(w, 1, n)
  <2>1. n \in Nat /\ n <= Len(w) /\ Len(w) \in Nat
    BY <1>1, UiParts DEF Traced
  <2> QED
    BY <1>1, <2>1 DEF Loaded
<1>3. s \in Seq(Events) /\ (n = Len(w) => s = w) /\ (Ended(s) => Ended(w))
  <2> HIDE DEF s, n, w
  <2> QED
    BY <1>1, <1>2, ReplayedPart
<1> QED
  BY <1>1, <1>3

\* attach_or_resume: a run that waits for its host is not resumed.
LEMMA OpenResumeRoots == ASSUME ClientInv, RootInv, OpenResume PROVE RootInv'
<1>1. /\ ui.op = "open" /\ req[Ui].pc = "done" /\ ActiveView(ui.run, Loaded(req[Ui]))
      /\ Begin(Ui, "resume", ui.run, None, 0, 0) /\ ui' = [ui EXCEPT !.op = "resume"]
      /\ UNCHANGED <<asked, client, mon, misled>>
  BY DEF OpenResume, at
<1>2. PICK r \in Runs : r = ui.run
  BY <1>1, UiParts
<1>3. ui'.op = "resume" /\ ui'.run = r
  BY <1>1, <1>2, UiParts DEF Screens
<1>4. /\ "resume" \in Kinds \cup {"get"} /\ "resume" \notin Controls /\ 0 \in Nat /\ None \in Runs \cup {None}
      /\ client.current = None
  BY <1>1 DEF Kinds, Controls, Launching, RootInv, Asking
<1>5. Strayed(r) \/ Ended(log[r]) \/ ~HostAnswered(r, log[r])
  <2>1. Strayed(r) \/ req[Ui].seen = Len(log[r])
    BY <1>1, <1>2 DEF RootInv, Proposals, Viewing
  <2>2. req[Ui].seen = Len(log[r]) => Loaded(req[Ui]) = log[r]
    BY <1>1, <1>2, ShownPart
  <2> QED
    BY <1>1, <1>2, <2>1, <2>2 DEF ActiveView
<1>6. PICK q : /\ req' = [req EXCEPT ![Ui] = q] /\ q.kind = "resume" /\ q.run = r /\ Traced(q, log, asked')
               /\ q.pc \in {"reserve", "load", "get"} /\ q.pc # "get" /\ UNCHANGED <<log, lease, launch, active>>
  <2>1. Begin(Ui, "resume", r, None, 0, 0)
    BY <1>1, <1>2
  <2> QED
    BY <1>4, <2>1, AskedParts
<1> QED
  BY <1>1, <1>3, <1>4, <1>5, <1>6, BeginRoots

-----------------------------------------------------------------------------
(* The UI takes an answer *)

LEMMA RestRoots ==
    ASSUME ClientInv, RootInv, req[Ui].pc = "done", req' = Resting,
           UNCHANGED <<log, lease, launch, active, asked, misled>>, ui'.op = "none", ui'.run = None,
           \A c \in Runs : mon'[c] = mon[c] \/ mon'[c].st = "ask",
           client'.pending # None =>
               /\ client'.pending \in HostRuns
               /\ \/ Strayed(client'.pending) \/ Ended(log[client'.pending])
                  \/ Stands(log[client'.pending], client'.offer),
           \A l \in DOMAIN launch : launch[l].st \in Live =>
               /\ Strayed(launch[l].run) \/ client'.current = launch[l].run
               /\ HostAnswered(launch[l].run, log[launch[l].run]) => Strayed(launch[l].run)
    PROVE  RootInv'
<1>1. /\ RootInv /\ Callers = Runs \cup {Ui} /\ Ui \notin Runs /\ req \in [Callers -> Request]
      /\ \A l \in DOMAIN launch : launch[l].run \in Runs
  BY UiParts DEF Typed
<1>2. req'[Ui] = Idle /\ Idle.kind = "none" /\ Idle.pc = "idle" /\ \A c \in Runs : req'[c] = req[c]
  BY <1>1, IdleRequest DEF Resting
<1>3. Traced(Idle, log, asked)
  BY <1>2 DEF Traced, Controls
<1>4. Filed'
  BY <1>1, <1>2, <1>3 DEF RootInv, Filed
<1>5. Entered'
  BY <1>1, <1>2 DEF RootInv, Entered, Attached
<1>6. Asking'
  <2>1. \A c \in Runs : Tracks(c)'
    BY <1>1, <1>2 DEF RootInv, Asking, Tracks
  <2> QED
    BY <1>2, <2>1 DEF Asking, Launching
<1>7. ~Resuming'
  BY DEF Resuming
<1>8. Proposals'
  <2>1. Proposals /\ \A t : Strayed(t)' <=> Strayed(t)
    BY <1>1 DEF RootInv, Strayed
  <2>2. Offering' /\ Accepting' /\ Viewing'
    BY <2>1 DEF Offering, Accepting, Viewing
  <2>3. \A l \in DOMAIN launch : Carried(l)' /\ Held(l)'
    BY <2>1 DEF Proposals, Carried, Held, HostAnswered
  <2> QED
    BY <1>7, <2>2, <2>3 DEF Proposals
<1>9. Adopted'
  BY <1>1 DEF Adopted, Strayed
<1>10. Judging'
  BY <1>1, JudgingStays DEF RootInv
<1> QED
  BY <1>4, <1>5, <1>6, <1>8, <1>9, <1>10 DEF RootInv

\* The UI takes an answer that makes no run its root.
LEMMA RefusedRoots ==
    ASSUME ClientInv, RootInv, req[Ui].pc = "done", req' = Resting,
           UNCHANGED <<log, lease, launch, active, asked, client, mon, misled>>, ui'.op = "none", ui'.run = None,
           ui.op = "accept" => req[Ui].answer # "accepted",
           \A l \in DOMAIN launch : launch[l].st \in Live => ~Awaits(l)
    PROVE  RootInv'
<1>1. /\ RootInv /\ None \notin Runs /\ \A l \in DOMAIN launch : launch[l].run \in Runs
  BY UiParts
<1>2. ASSUME NEW l \in DOMAIN launch, launch[l].st \in Live
      PROVE  /\ Strayed(launch[l].run) \/ client'.current = launch[l].run
             /\ HostAnswered(launch[l].run, log[launch[l].run]) => Strayed(launch[l].run)
  <2>1. Strayed(launch[l].run) \/ client.current = launch[l].run
    BY <1>1, <1>2 DEF RootInv, Adopted
  <2>2. client.current # None => ui.op # "accept"
    BY <1>1 DEF RootInv, Asking, Launching
  <2>3. HostAnswered(launch[l].run, log[launch[l].run]) => Strayed(launch[l].run) \/ ui.op = "accept"
    BY <1>1, <1>2 DEF RootInv, Proposals, Held
  <2> QED
    BY <1>1, <2>1, <2>2, <2>3
<1>3. ASSUME client.pending # None
      PROVE  /\ client.pending \in HostRuns
             /\ Strayed(client.pending) \/ Ended(log[client.pending]) \/ Stands(log[client.pending], client.offer)
  <2>1. Offering /\ Accepting
    BY <1>1 DEF RootInv, Proposals
  <2>2. Taken(client.pending) => Strayed(client.pending)
    BY <2>1 DEF Accepting, Taken
  <2> QED
    BY <1>3, <2>1, <2>2 DEF Offering
<1> QED
  BY <1>2, <1>3, RestRoots

\* What a view of run r makes of the root and of the candidate that the client offers.
LEMMA ObserveRoots ==
    ASSUME NEW k \in Clients, NEW r \in Runs, NEW s, DOMAIN s \subseteq Nat
    PROVE  LET j == ObserveRun(k, r, s) IN
           /\ \/ j.pending = k.pending /\ j.offer = k.offer
              \/ j.pending = None
              \/ HostAnswered(r, s) /\ j.pending = r /\ j.offer = Offer(s)
           /\ ActiveView(r, s) => j.current = r
<1> DEFINE j == IF k.pending = r THEN k ELSE Dismissed(k, k.pending)
           u == Dismissed(j, r)
           uc == Unless(r, k.current)
           latest == IF Continues(s) THEN r ELSE None
           n == Offer(s)
           a == [u EXCEPT !.current = uc, !.latest = latest]
           b == [j EXCEPT !.pending = r, !.offer = n, !.current = uc, !.latest = None]
           c == [j EXCEPT !.current = r]
<1>1. j \in Clients /\ j.current = k.current /\ (j = k \/ j.pending = None)
  BY DismissedFields DEF Unless
<1> HIDE DEF j
<1>2. u \in Clients /\ u.current = j.current /\ (u = j \/ u.pending = None)
  BY <1>1, DismissedFields DEF Unless
<1> HIDE DEF u
<1>3. \/ ObserveRun(k, r, s) = a /\ Ended(s)
      \/ ObserveRun(k, r, s) = b /\ HostAnswered(r, s)
      \/ ObserveRun(k, r, s) = c
  <2>1. u.current = k.current /\ j.current = k.current
    BY <1>1, <1>2
  <2>2. a = [u EXCEPT !.current = Unless(r, @), !.latest = IF Continues(s) THEN r ELSE None]
    BY <1>2, <2>1 DEF Clients
  <2>3. b = [j EXCEPT !.pending = r, !.offer = Offer(s), !.current = Unless(r, @), !.latest = None]
    BY <1>1, <2>1 DEF Clients
  <2> HIDE DEF a, b
  <2> QED
    BY <2>2, <2>3 DEF ObserveRun, j, u
<1> HIDE DEF uc, latest, n
<1>4. /\ a.pending = u.pending /\ a.offer = u.offer
      /\ b.pending = r /\ b.offer = n
      /\ c.pending = j.pending /\ c.offer = j.offer /\ c.current = r
  BY <1>1, <1>2 DEF Clients
<1> HIDE DEF a, b, c
<1> QED
  BY <1>1, <1>2, <1>3, <1>4 DEF n, ActiveView

\* adopt_launched_run: the launched run becomes the root, unless its launch has
\* ended or it waits for its host.
LEMMA LaunchedRoots == ASSUME ClientInv, RootInv, Launched PROVE RootInv'
<1>1. PICK op \in {"submit", "recover", "open", "resume"} :
        /\ Returned(op)
        /\ IF req[Ui].answer = "run"
           THEN /\ Adopt(ui.run, Loaded(req[Ui]))
                /\ ui' = [Back EXCEPT !.loading = op = "submit" \/ ActiveView(ui.run, Loaded(req[Ui]))]
           ELSE ui' = [Back EXCEPT !.on = op # "recover"] /\ UNCHANGED <<client, mon>>
  BY DEF Launched
<1>2. /\ req' = Resting /\ UNCHANGED <<log, lease, launch, active, asked, misled>>
      /\ ui.op = op /\ req[Ui].pc = "done"
  BY <1>1 DEF Launched, durable, process, Returned, at
<1>3. /\ RootInv /\ AppInv /\ Back \in Screens /\ Back.op = "none" /\ Back.run = None /\ None \notin Runs
      /\ client \in Clients /\ \A l \in DOMAIN launch : launch[l].run \in Runs /\ l # 0
  BY UiParts, BackFields
<1>4. ui'.op = "none" /\ ui'.run = None
  BY <1>1, <1>3 DEF Screens
<1>5. CASE req[Ui].answer # "run"
  <2>1. \A l \in DOMAIN launch : ~Awaits(l)
    BY <1>2, <1>5 DEF Awaits
  <2> QED
    BY <1>1, <1>2, <1>4, <1>5, <2>1, RefusedRoots
<1>6. CASE req[Ui].answer = "run"
  <2>1. PICK r \in Runs : r = ui.run /\ r = req[Ui].run
    BY <1>2, UiParts
  <2> DEFINE s == Loaded(req[Ui]) k == ObserveRun(client, r, s)
  <2>2. Adopt(r, s)
    BY <1>1, <1>6, <2>1
  <2>3. \/ client' = k /\ mon' = mon
        \/ client' = Monitored(k, r) /\ mon' = Spawned(k, r)
    BY <2>2 DEF Adopt
  <2>4. /\ s \in Seq(Events) /\ log[r] \in Seq(Events) /\ DOMAIN s \subseteq Nat
        /\ (req[Ui].seen = Len(log[r]) => s = log[r]) /\ (Ended(s) => Ended(log[r]))
    <3>1. /\ s \in Seq(Events) /\ log[r] \in Seq(Events)
          /\ (req[Ui].seen = Len(log[r]) => s = log[r]) /\ (Ended(s) => Ended(log[r]))
      BY <1>2, <2>1, ShownPart
    <3> HIDE DEF s
    <3> QED
      BY <3>1
  <2>5. /\ k \in Clients /\ k.monitored = client.monitored
        /\ \/ k.pending = client.pending /\ k.offer = client.offer
           \/ k.pending = None
           \/ HostAnswered(r, s) /\ k.pending = r /\ k.offer = Offer(s)
        /\ ActiveView(r, s) => k.current = r
    <3> HIDE DEF s
    <3> QED
      BY <1>3, <2>4, ObserveFields, ObserveRoots
  <2> HIDE DEF k
  <2>6. /\ client'.current = k.current /\ client'.pending = k.pending /\ client'.offer = k.offer
        /\ \A c \in Runs : mon'[c] = mon[c] \/ mon'[c].st = "ask"
    <3>1. CASE client' = k /\ mon' = mon
      BY <3>1
    <3>2. CASE client' = Monitored(k, r) /\ mon' = Spawned(k, r)
      <4>1. client'.current = k.current /\ client'.pending = k.pending /\ client'.offer = k.offer
        BY <2>5, <3>2, MonitoredFields
      <4>2. /\ \A t \in Runs : t # r => mon'[t] = mon[t]
            /\ mon'[r] = mon[r] \/ mon'[r].st = "ask"
        BY <2>5, <3>2, SpawnedFields
      <4> QED
        BY <4>1, <4>2
    <3> QED
      BY <2>3, <3>1, <3>2
  <2> HIDE DEF s
  <2>7. ASSUME client'.pending # None
        PROVE  /\ client'.pending \in HostRuns
               /\ \/ Strayed(client'.pending) \/ Ended(log[client'.pending])
                  \/ Stands(log[client'.pending], client'.offer)
    <3>1. CASE client'.pending = client.pending /\ client'.offer = client.offer
      BY <1>2, <1>3, <2>7, <3>1 DEF RootInv, Proposals, Offering, Taken
    <3>2. CASE HostAnswered(r, s) /\ client'.pending = r /\ client'.offer = Offer(s)
      <4>1. Strayed(r) \/ s = log[r]
        BY <1>2, <1>3, <1>6, <2>1, <2>4, <3>2 DEF RootInv, Proposals, Viewing, s
      <4>2. Stands(s, Offer(s)) /\ r \in HostRuns
        BY <2>4, <3>2, OneOffer DEF HostAnswered
      <4> QED
        BY <3>2, <4>1, <4>2
    <3> QED
      BY <2>5, <2>6, <2>7, <3>1, <3>2
  <2>8. ASSUME NEW l \in DOMAIN launch, launch[l].st \in Live
        PROVE  /\ Strayed(launch[l].run) \/ client'.current = launch[l].run
               /\ HostAnswered(launch[l].run, log[launch[l].run]) => Strayed(launch[l].run)
    <3>1. HostAnswered(launch[l].run, log[launch[l].run]) => Strayed(launch[l].run)
      BY <1>2, <1>3, <2>8 DEF RootInv, Proposals, Held
    <3>2. client.current = None
      BY <1>2, <1>3 DEF RootInv, Asking, Launching
    <3>3. Strayed(launch[l].run) \/ Awaits(l)
      BY <1>3, <2>8, <3>2 DEF RootInv, Adopted
    <3>4. ASSUME Awaits(l) PROVE client'.current = launch[l].run
      <4>1. launch[l].run = r /\ ~HostAnswered(r, s)
        BY <1>2, <2>1, <3>4 DEF Awaits, s
      <4>2. lease[r] = l
        BY <1>3, <2>8, <4>1 DEF AppInv, Leased, Live, Working
      <4>3. ~Ended(s)
        BY <1>3, <2>4, <4>2 DEF RootInv, Filed
      <4> QED
        BY <2>5, <2>6, <4>1, <4>3 DEF ActiveView
    <3> QED
      BY <3>1, <3>3, <3>4
  <2> QED
    BY <1>2, <1>4, <2>6, <2>7, <2>8, RestRoots
<1> QED
  BY <1>5, <1>6

\* accept_completion: the accepted run is the root again.
LEMMA AcceptReturnedRoots == ASSUME ClientInv, RootInv, AcceptReturned PROVE RootInv'
<1>1. /\ req' = Resting /\ UNCHANGED <<log, lease, launch, active, asked, misled>>
      /\ ui.op = "accept" /\ req[Ui].pc = "done"
  BY DEF AcceptReturned, durable, process, Returned, at
<1>2. /\ RootInv /\ Back \in Screens /\ Back.op = "none" /\ Back.run = None /\ None \notin Runs
      /\ client \in Clients /\ client.current = None
  BY <1>1, UiParts, BackFields DEF RootInv, Asking, Launching
<1>3. CASE req[Ui].answer # "accepted"
  <2>1. ui' = Back /\ UNCHANGED <<client, mon>>
    BY <1>3 DEF AcceptReturned
  <2>2. \A l \in DOMAIN launch : ~Awaits(l)
    BY <1>1, <1>3 DEF Awaits
  <2> QED
    BY <1>1, <1>2, <1>3, <2>1, <2>2, RefusedRoots
<1>4. CASE req[Ui].answer = "accepted"
  <2>1. PICK r \in Runs : r = ui.run
    BY <1>1, UiParts
  <2> DEFINE about == asked[req[Ui].id].about
             i == IF client.offer = about THEN Dismissed(client, r) ELSE client
             j == [i EXCEPT !.current = r]
  <2>2. client' = Monitored(j, r) /\ mon' = Spawned(client, r) /\ ui' = [Back EXCEPT !.loading = TRUE]
    BY <1>4, <2>1 DEF AcceptReturned
  <2>3. i \in Clients /\ (i.pending = None \/ (i = client /\ ~(client.pending = r /\ client.offer = about)))
    BY <1>2, DismissedFields DEF Unless
  <2> HIDE DEF i, about
  <2>4. j \in Clients /\ j.current = r /\ j.pending = i.pending /\ j.offer = i.offer
    BY <2>3 DEF Clients
  <2> HIDE DEF j
  <2>5. client'.current = r /\ client'.pending = i.pending /\ client'.offer = i.offer
    BY <2>2, <2>4, MonitoredFields
  <2>6. \A c \in Runs : mon'[c] = mon[c] \/ mon'[c].st = "ask"
    BY <2>2, SpawnedFields
  <2>7. ui'.op = "none" /\ ui'.run = None
    BY <1>2, <2>2 DEF Screens
  <2>8. ASSUME client'.pending # None
        PROVE  /\ client'.pending \in HostRuns
               /\ \/ Strayed(client'.pending) \/ Ended(log[client'.pending])
                  \/ Stands(log[client'.pending], client'.offer)
    <3>1. i = client /\ client.pending # None /\ ~(client.pending = r /\ client.offer = about)
      BY <2>3, <2>5, <2>8
    <3>2. ~(Taken(client.pending) /\ client.offer = about)
      BY <2>1, <3>1 DEF Taken
    <3> QED
      BY <1>2, <2>5, <3>1, <3>2 DEF RootInv, Proposals, Offering, about
  <2>9. ASSUME NEW l \in DOMAIN launch, launch[l].st \in Live
        PROVE  /\ Strayed(launch[l].run) \/ client'.current = launch[l].run
               /\ HostAnswered(launch[l].run, log[launch[l].run]) => Strayed(launch[l].run)
    <3>1. launch[l].run \in Runs /\ Taken(ui.run)
      BY <1>1, <1>2, <1>4, UiParts DEF RootInv, Proposals, Accepting
    <3>2. Strayed(launch[l].run) \/ launch[l].run = r
      BY <1>2, <2>1, <2>9, <3>1 DEF RootInv, Adopted, Awaits
    <3>3. HostAnswered(launch[l].run, log[launch[l].run]) => Strayed(launch[l].run)
      BY <1>2, <2>9, <3>1 DEF RootInv, Proposals, Held
    <3> QED
      BY <2>5, <3>2, <3>3
  <2> QED
    BY <1>1, <2>6, <2>7, <2>8, <2>9, RestRoots
<1> QED
  BY <1>3, <1>4

LEMMA CommandReturnedRoots == ASSUME ClientInv, RootInv, CommandReturned PROVE RootInv'
<1>1. /\ ui.op \in {"steer", "cancel"} /\ req[Ui].pc = "done" /\ req' = Resting
      /\ UNCHANGED <<log, lease, launch, active, asked, client, mon, misled>>
      /\ \E b : ui' = [Back EXCEPT !.on = b]
  BY DEF CommandReturned, Returned, at, durable, process
<1>2. Back \in Screens /\ Back.op = "none" /\ Back.run = None
  BY UiParts, BackFields
<1>3. ui'.op = "none" /\ ui'.run = None
  BY <1>1, <1>2 DEF Screens
<1>4. \A l \in DOMAIN launch : ~Awaits(l)
  BY <1>1 DEF Awaits
<1> QED
  BY <1>1, <1>3, <1>4, RefusedRoots

LEMMA RebootRoots == ASSUME ClientInv, RootInv, Reboot PROVE RootInv'
<1>1. /\ UNCHANGED <<log, asked>> /\ lease' = [r \in Runs |-> 0] /\ active' = [r \in Runs |-> 0]
      /\ req' = [c \in Callers |-> Idle] /\ launch' = [l \in DOMAIN launch |-> Closed(launch[l], "none")]
      /\ client' = NewClient /\ mon' = [r \in Runs |-> Off] /\ ui' = NewUi /\ misled' = {}
  BY DEF Reboot, Restart
<1>2. RootInv /\ Filed /\ Runs \subseteq Callers /\ Ui \in Callers /\ \A l \in DOMAIN launch : launch[l] \in Launches
  BY UiParts DEF RootInv
<1>3. /\ ui'.op = "none" /\ ui'.run = None /\ client'.pending = None /\ Off.st = "off"
      /\ Idle.kind = "none" /\ Idle.pc = "idle" /\ "none" \notin Controls
  BY <1>1, IdleRequest DEF NewUi, NewClient, Off, Controls
<1>4. /\ DOMAIN launch' = DOMAIN launch
      /\ \A l \in DOMAIN launch : launch'[l].st = "over" /\ launch'[l].queue = <<>> /\ launch'[l].ready = "none"
                                  /\ launch'[l].ack = 0
  <2>1. ASSUME NEW l \in DOMAIN launch
        PROVE  LET y == Closed(launch[l], "none") IN
               y.st = "over" /\ y.queue = <<>> /\ y.ready = "none" /\ y.ack = 0
    <3>1. Closed(launch[l], "none").ack = 0
      BY DEF Closed, NewLaunch
    <3> QED
      BY <1>2, <3>1, ClosedFields DEF Readiness
  <2> QED
    BY <1>1, <2>1
<1>5. Filed'
  <2>1. \A l \in DOMAIN launch' : Supplied(launch'[l], log', asked')
    BY <1>4 DEF Supplied
  <2>2. \A c \in Callers : Traced(req'[c], log', asked')
    BY <1>1, <1>3 DEF Traced
  <2> QED
    BY <1>1, <1>2, <2>1, <2>2 DEF Filed
<1>6. Entered'
  BY <1>1, <1>2, <1>3, <1>4 DEF Entered, Attached
<1>7. Asking'
  <2>1. \A c \in Runs : Tracks(c)'
    BY <1>1, <1>2, <1>3 DEF Tracks
  <2> QED
    BY <1>1, <1>2, <1>3, <2>1 DEF Asking, Launching
<1>8. Proposals' /\ Adopted'
  <2>1. Offering' /\ Accepting' /\ Viewing' /\ ~Resuming'
    BY <1>3 DEF Offering, Accepting, Viewing, Resuming
  <2>2. DOMAIN <<>> = {}
    OBVIOUS
  <2>3. \A l \in DOMAIN launch' : Carried(l)' /\ Held(l)' /\ launch'[l].st \notin Live
    BY <1>4, <2>2 DEF Carried, Held, Live
  <2> QED
    BY <2>1, <2>3 DEF Proposals, Adopted
<1>9. Judging'
  BY <1>1, <1>2, <1>4 DEF RootInv, Judging, Unbound
<1> QED
  BY <1>5, <1>6, <1>7, <1>8, <1>9 DEF RootInv

LEMMA RootInit == Init => RootInv
<1>1. SUFFICES ASSUME AppInit, ClientInit PROVE RootInv
  BY DEF Init
<1>2. /\ log = [r \in Runs |-> <<>>] /\ lease = [r \in Runs |-> 0] /\ active = [r \in Runs |-> 0]
      /\ req = [c \in Callers |-> Idle] /\ launch = <<>>
      /\ client = NewClient /\ mon = [r \in Runs |-> Off] /\ ui = NewUi /\ misled = {}
      /\ Runs \subseteq Callers /\ Ui \in Callers
  BY <1>1, ClientAssumption DEF AppInit, ClientInit
<1>3. /\ ui.op = "none" /\ ui.run = None /\ client.pending = None /\ Off.st = "off"
      /\ Idle.kind = "none" /\ Idle.pc = "idle" /\ "none" \notin Controls
  BY <1>2, IdleRequest DEF NewUi, NewClient, Off, Controls
<1>4. Filed
  BY <1>2, <1>3 DEF Filed, Final, Ended, Traced
<1>5. Entered
  BY <1>2, <1>3 DEF Entered
<1>6. Asking
  BY <1>2, <1>3 DEF Asking, Tracks, Launching
<1>7. Proposals /\ Adopted
  BY <1>2, <1>3 DEF Proposals, Adopted, Offering, Accepting, Viewing, Resuming
<1>8. Judging
  BY <1>2, ApplicationAssumption DEF Judging, Untouched
<1> QED
  BY <1>4, <1>5, <1>6, <1>7, <1>8 DEF RootInv

LEMMA RootNext == ClientInv /\ RootInv /\ [Next]_vars => RootInv'
<1>1. SUFFICES ASSUME ClientInv, RootInv, [Next]_vars PROVE RootInv'
  OBVIOUS
<1>2. AppInv'
  BY <1>1, ClientNextInv DEF ClientInv
<1>3. CASE UserActs
  BY <1>1, <1>3, SubmitRoots, AcceptRoots, RestingRoots, CommandRoots, OpenRoots DEF UserActs
<1>4. CASE UiReturns
  BY <1>1, <1>4, OpenResumeRoots, LaunchedRoots, AcceptReturnedRoots, CommandReturnedRoots DEF UiReturns
<1>5. CASE Application \/ Reboot \/ Recover \/ Present \/ UNCHANGED vars
  BY <1>1, <1>2, <1>5, ApplicationRoots, RebootRoots, RecoverRoots, RestingRoots
<1>6. CASE \E r \in Runs : MonitorStep(r)
  BY <1>1, <1>6, MonitorStepRoots
<1> QED
  BY <1>1, <1>3, <1>4, <1>5, <1>6 DEF Next

-----------------------------------------------------------------------------
(* The theorems *)

\* The application under the terminal UI, the monitors, their cursors and the
\* channel keep the invariant above, whatever the user does.
THEOREM ClientInvariant == Spec => []ClientInv
<1> QED
  BY ClientInitInv, ClientNextInv, PTL DEF Spec

\* monitor_run, record_and_send and CanonicalRunProjection: for a patient user
\* every event reaches the projection after its predecessor, so no gap ends the UI.
THEOREM EventsArriveInOrder == Spec => []GapFree
<1>1. ClientInv => GapFree
  BY DEF ClientInv, UiInv
<1> QED
  BY <1>1, ClientInvariant, PTL

\* The lease under the terminal UI: a run is worked on by one launch at a time,
\* although its users open it, resume it and accept its answer over and over.
THEOREM OneWorkerUnderUi == Spec => []OneWorker
<1>1. AppInv => OneWorker
  BY DEF AppInv, Leased, OneWorker
<1>2. ClientInv => AppInv
  BY DEF ClientInv
<1> QED
  BY <1>1, <1>2, ClientInvariant, PTL

\* plan_submit, adopt_launched_run, record_event and accept_completion: whatever the
\* user does, and however the launches, the monitors and the commands interleave, a
\* run at work is the root of the client, the one it is launching, or a run whose
\* acceptance has overtaken the replay of its proposal.
THEOREM OneRootAtWork == Spec => []OneRoot
<1>1. ClientInv /\ RootInv => OneRoot
  <2>1. SUFFICES ASSUME ClientInv, RootInv, NEW l \in DOMAIN launch,
                        launch[l].st \in {"drain", "loop", "review", "reject", "end"},
                        ~Strayed(launch[l].run)
                 PROVE  launch[l].run = Root
    BY DEF OneRoot, Strayed
  <2>2. launch[l].run \in Runs /\ None \notin Runs
    BY <2>1, UiParts
  <2>3. client.current = launch[l].run \/ Awaits(l)
    BY <2>1 DEF RootInv, Adopted, Live
  <2>4. Awaits(l) => client.current = None /\ ui.run = launch[l].run
    BY <2>1 DEF Awaits, RootInv, Asking, Launching
  <2> QED
    BY <2>2, <2>3, <2>4 DEF Root
<1>2. Spec => []RootInv
  BY RootInit, RootNext, ClientInvariant, PTL DEF Spec
<1> QED
  BY <1>1, <1>2, ClientInvariant, PTL

=============================================================================
