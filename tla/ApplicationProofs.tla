------------------------- MODULE ApplicationProofs --------------------------
(***************************************************************************)
(* The safety properties of Application, for every number of runs,         *)
(* callers, commands and faults.                                           *)
(***************************************************************************)
EXTENDS Application, TLAPS

-----------------------------------------------------------------------------
(* Types *)

Message == [kind : Controls, id : Nat]

Events ==
    [kind : Controls \cup Terminals \cup {"created", "proposed", "accepted", "failed", "rejected"}, id : Nat]

Orders == [kind : Controls, run : Runs, copies : Nat \ {0}, about : Nat]

Stages == Working \cup {"acquire", "last", "over"}

Readiness == {"none", "ok", "exists", "running", "advanced"}

Launches ==
    [run : Runs, create : BOOLEAN, expected : Nat, queue : Seq(Message), st : Stages,
     ready : Readiness, gate : BOOLEAN, told : BOOLEAN, ack : Nat, goal : Terminals \cup {"none"}]

PCs ==
    {"idle", "done", "reserve", "load", "busy", "compose", "ready", "register", "get", "retire",
     "drowse", "reload", "rejoin", "find", "acked", "race", "read", "check", "sleep"}

Answers ==
    Readiness \cup {"run", "events", "invalid", "accepted", "terminal", "notPending", "unfit",
                    "notActive", "recovery"}

Request ==
    [kind : Kinds \cup {"none", "wait", "get"}, run : Runs \cup {None}, source : Runs \cup {None},
     id : Nat, after : Nat, pc : PCs, seen : Nat, launch : Nat, rung : BOOLEAN, answer : Answers]

Typed ==
    /\ log \in [Runs -> Seq(Events)]
    /\ lease \in [Runs -> Nat]
    /\ reserved \subseteq Runs
    /\ launch \in Seq(Launches)
    /\ active \in [Runs -> Nat]
    /\ monitors \subseteq DOMAIN launch
    /\ req \in [Callers -> Request]
    /\ asked \in Seq(Orders)

-----------------------------------------------------------------------------
(* The inductive invariant *)

\* Message m carries a command that was sent; as: the commands sent so far.
Known(m, as) == m.id # 0 => m.id \in 1 .. Len(as) /\ as[m.id].kind = m.kind

\* The loop starts behind the gate.
Gated(x) == x.st \in {"drain", "loop", "review", "reject"} => x.gate

\* A launch by itself: it creates its run or finds it, one that has ended has no
\* queue, one that ends knows how.
Sound(x, lg, as) ==
    /\ x.st = "acquire" => x.create \/ lg[x.run] # <<>>
    /\ x.st = "over" => x.queue = <<>>
    /\ x.st = "end" => x.goal \in Terminals
    /\ Gated(x)
    /\ x.ready \notin {"none", "ok"} => x.st = "over"
    /\ \A i \in DOMAIN x.queue : Known(x.queue[i], as)

\* A request, the launch it waits for and the command it carries.
Placed(q, ls, lg, as) ==
    /\ q.pc # "idle" => q.run \in Runs /\ (q.kind \notin Creations => lg[q.run] # <<>>)
    /\ q.launch \in 0 .. Len(ls)
    /\ q.pc \in {"ready", "register"} => q.launch # 0 /\ ls[q.launch].run = q.run
    /\ q.pc = "acked" => q.launch # 0
    /\ q.pc = "find" => q.kind \in {"steer", "cancel"}
    /\ q.kind \in Controls => q.id \in 1 .. Len(as) /\ as[q.id].kind = q.kind
    /\ q.pc # "done" => q.answer = "none"

Coherent ==
    /\ \A l \in DOMAIN launch : Sound(launch[l], log, asked)
    /\ \A c \in Callers : Placed(req[c], launch, log, asked)
    /\ \A r \in Runs : \A i \in DOMAIN log[r] : log[r][i].id \in 0 .. Len(asked)

\* A run is worked on by the launch that holds its lease, and by no other.
Leased ==
    /\ \A r \in Runs : lease[r] \in 0 .. Len(launch) /\ (lease[r] # 0 => log[r] # <<>>)
    /\ \A r \in Runs, l \in DOMAIN launch :
          lease[r] = l <=> launch[l].run = r /\ launch[l].st \in Working

\* An entry of the registry is a launch of its run.
Registered ==
    \A r \in Runs : active[r] \in 0 .. Len(launch) /\ (active[r] # 0 => launch[active[r]].run = r)

\* Somebody can stop launch l.
Reached(l) ==
    \/ active[launch[l].run] = l
    \/ \E c \in Callers : req[c].launch = l /\ at(c, "register")
    \/ \E i \in DOMAIN launch[l].queue : launch[l].queue[i] = Stop

\* Before it decides how to end, and once its request has let it go.
Loose(x) == x.gate /\ x.st \in {"acquire", "gated", "drain", "loop", "review", "reject"}

Attended == \A l \in DOMAIN launch : Loose(launch[l]) => Reached(l)

\* A command waits in the queue of x.
Carries(x, id) == \E i \in DOMAIN x.queue : x.queue[i].id = id

Unsent(ls, id) == \A l \in DOMAIN ls : ~Carries(ls[l], id)

\* Where a steer or cancel can be, by the place of the request that carries it.
KeptOut(q, ls, lg, as) ==
    q.kind \in {"steer", "cancel"} /\ as[q.id].copies = 1 =>
        /\ q.pc \in {"load", "find"} => Unsent(ls, q.id) /\ \A r \in Runs : ~Receipt(lg[r], q.id)
        /\ q.pc = "race" => Unsent(ls, q.id)
        /\ q.pc = "acked" => \A l \in DOMAIN ls : Carries(ls[l], q.id) => l = q.launch
        /\ q.answer \in {"terminal", "notActive"} => Unsent(ls, q.id) /\ ~Receipt(lg[q.run], q.id)

\* A command that was sent once has one request.
Single ==
    \A c, d \in Callers :
        /\ req[c].kind \in Controls /\ req[d].kind \in Controls
        /\ req[c].id = req[d].id /\ asked[req[c].id].copies = 1
        => c = d

Withheld == Single /\ \A c \in Callers : KeptOut(req[c], launch, log, asked)

AppInv == Typed /\ Coherent /\ Leased /\ Registered /\ Attended /\ Withheld

-----------------------------------------------------------------------------
(* The kinds of steps *)

\* What the types say of a launch and of a request.
LEMMA Parts ==
    ASSUME Typed
    PROVE  /\ Len(launch) \in Nat /\ DOMAIN launch = 1 .. Len(launch)
           /\ \A l \in DOMAIN launch : launch[l] \in Launches /\ launch[l].run \in Runs
           /\ \A c \in Callers : req[c] \in Request /\ req[c].id \in Nat
           /\ Len(asked) \in Nat /\ DOMAIN asked = 1 .. Len(asked)
           /\ \A r \in Runs : log[r] \in Seq(Events)
<1>1. \A l \in DOMAIN launch : launch[l] \in Launches
  BY DEF Typed
<1>2. \A l \in DOMAIN launch : launch[l].run \in Runs
  BY <1>1 DEF Launches
<1>3. \A c \in Callers : req[c] \in Request
  BY DEF Typed
<1>4. \A c \in Callers : req[c].id \in Nat
  BY <1>3 DEF Request
<1> QED
  BY <1>1, <1>2, <1>3, <1>4 DEF Typed

\* A log gains the receipts of its new event.
LEMMA ReceiptGrows ==
    ASSUME NEW s \in Seq(Events), NEW e \in Events, NEW id, Receipt(Append(s, e), id)
    PROVE  Receipt(s, id) \/ e.id = id
  BY DEF Receipt

\* Launch x becomes y: the same, except for its gate and for a command it got.
Extended(x, y, m) ==
    /\ y.run = x.run /\ y.st = x.st /\ y.goal = x.goal /\ y.ready = x.ready /\ y.create = x.create
    /\ y.ack = x.ack /\ (x.gate => y.gate)
    /\ y.queue = x.queue \/ (x.st # "over" /\ y.queue = Append(x.queue, m))

LEMMA ExtendedCarries ==
    ASSUME NEW x \in Launches, NEW y \in Launches, NEW m \in Message, Extended(x, y, m)
    PROVE  /\ \A id : Carries(y, id) => Carries(x, id) \/ id = m.id
           /\ \A i \in DOMAIN y.queue : y.queue[i] = m \/ \E j \in DOMAIN x.queue : y.queue[i] = x.queue[j]
           /\ \A i \in DOMAIN x.queue : \E j \in DOMAIN y.queue : x.queue[i] = y.queue[j]
<1>1. x.queue \in Seq(Message) /\ y.queue \in Seq(Message)
  BY DEF Launches
<1>2. CASE y.queue = x.queue
  BY <1>2 DEF Carries
<1>3. CASE y.queue = Append(x.queue, m)
  <2>1. \A i \in DOMAIN y.queue : y.queue[i] = m \/ \E j \in DOMAIN x.queue : y.queue[i] = x.queue[j]
    BY <1>1, <1>3
  <2>2. \A i \in DOMAIN x.queue : i \in DOMAIN y.queue /\ x.queue[i] = y.queue[i]
    BY <1>1, <1>3
  <2> QED
    BY <2>1, <2>2 DEF Carries
<1> QED
  BY <1>2, <1>3 DEF Extended

\* A step of request c; m is what it sends, if it sends a command.
LEMMA RequestMoves ==
    ASSUME AppInv, NEW c \in Callers, NEW q \in Request, NEW m \in Message,
           req' = [req EXCEPT ![c] = q],
           launch' \in Seq(Launches), Len(launch') = Len(launch),
           \A l \in DOMAIN launch : Extended(launch[l], launch'[l], m),
           UNCHANGED <<log, lease, asked>>, reserved' \subseteq Runs, monitors' \subseteq DOMAIN launch,
           active' \in [Runs -> Nat], Registered',
           \A r \in Runs : active[r] # 0 => active'[r] = active[r],
           \/ m.id = 0
           \/ m.id = req[c].id /\ m.kind = req[c].kind /\ req[c].kind \in {"steer", "cancel"},
           q.kind \notin Controls \/ (q.kind = req[c].kind /\ q.id = req[c].id),
           Placed(q, launch', log, asked), KeptOut(q, launch', log, asked),
           \A l \in DOMAIN launch :
               /\ Loose(launch'[l]) => Loose(launch[l]) \/ Reached(l)'
               /\ Loose(launch'[l]) /\ at(c, "register") /\ req[c].launch = l => Reached(l)'
    PROVE  AppInv'
<1> USE DEF AppInv
<1>1. /\ Len(launch) \in Nat /\ DOMAIN launch = 1 .. Len(launch) /\ DOMAIN launch' = DOMAIN launch
      /\ \A l \in DOMAIN launch : launch[l] \in Launches /\ launch'[l] \in Launches /\ launch[l].run \in Runs
      /\ \A l \in DOMAIN launch : launch'[l].run = launch[l].run /\ launch'[l].st = launch[l].st
  BY Parts DEF Extended
<1>2. req'[c] = q /\ \A d \in Callers : d # c => req'[d] = req[d]
  BY DEF Typed
<1>3. Typed'
  BY <1>1 DEF Typed
<1>4. Coherent'
  <2>1. ASSUME NEW l \in DOMAIN launch PROVE Sound(launch'[l], log, asked)
    <3> DEFINE x == launch[l] y == launch'[l]
    <3>1. Sound(x, log, asked) /\ Extended(x, y, m) /\ x \in Launches /\ y \in Launches
      BY <1>1 DEF Coherent
    <3>2. Known(m, asked)
      BY DEF Coherent, Placed, Known, Controls
    <3>3. \A i \in DOMAIN y.queue : Known(y.queue[i], asked)
      <4> HIDE DEF x, y
      <4>1. \A i \in DOMAIN x.queue : Known(x.queue[i], asked)
        BY <3>1 DEF Sound
      <4> QED
        BY <3>1, <3>2, <4>1, ExtendedCarries
    <3> QED
      BY <3>1, <3>3 DEF Sound, Extended, Gated
  <2>2. ASSUME NEW d \in Callers PROVE Placed(req'[d], launch', log, asked)
    <3>1. CASE d # c
      <4>1. Placed(req[d], launch, log, asked) /\ req'[d] = req[d]
        BY <3>1, <1>2 DEF Coherent
      <4> QED
        BY <4>1, <1>1 DEF Placed
    <3> QED
      BY <3>1, <1>2
  <2> QED
    BY <2>1, <2>2, <1>1 DEF Coherent
<1>5. Leased'
  BY <1>1 DEF Leased
<1>6. Attended'
  <2> SUFFICES ASSUME NEW l \in DOMAIN launch, Loose(launch'[l]), ~Reached(l)' PROVE FALSE
    BY <1>1 DEF Attended
  <2>1. Reached(l)
    BY DEF Attended
  <2>2. active[launch[l].run] # l
    <3>1. l # 0 /\ launch[l].run \in Runs
      BY <1>1
    <3> QED
      BY <1>1, <3>1 DEF Reached
  <2>3. ASSUME NEW i \in DOMAIN launch[l].queue, launch[l].queue[i] = Stop PROVE FALSE
    <3>1. \E j \in DOMAIN launch'[l].queue : launch[l].queue[i] = launch'[l].queue[j]
      BY <1>1, ExtendedCarries, ZenonT(60)
    <3> QED
      BY <2>3, <3>1 DEF Reached
  <2>4. ASSUME NEW d \in Callers, req[d].launch = l, at(d, "register") PROVE FALSE
    <3>1. CASE d = c
      BY <2>4, <3>1
    <3>2. CASE d # c
      BY <2>4, <3>2, <1>2 DEF Reached, at
    <3> QED
      BY <3>1, <3>2
  <2> QED
    BY <2>1, <2>2, <2>3, <2>4 DEF Reached
<1>7. Single'
  BY <1>2 DEF Withheld, Single
<1>8. ASSUME NEW d \in Callers PROVE KeptOut(req'[d], launch', log, asked)
  <2>1. CASE d = c
    BY <2>1, <1>2
  <2>2. CASE d # c
    <3> SUFFICES ASSUME req[d].kind \in {"steer", "cancel"}, asked[req[d].id].copies = 1
                 PROVE  KeptOut(req[d], launch', log, asked)
      BY <2>2, <1>2 DEF KeptOut
    <3>1. req[d].id # m.id
      <4>1. req[d].id # 0
        BY Parts DEF Coherent, Placed, Controls
      <4>2. req[c].kind \in {"steer", "cancel"} => req[c].id # req[d].id
        BY <2>2 DEF Withheld, Single, Controls
      <4> QED
        BY <4>1, <4>2
    <3>2. \A l \in DOMAIN launch' : Carries(launch'[l], req[d].id) => Carries(launch[l], req[d].id)
      BY <1>1, <3>1, ExtendedCarries
    <3> QED
      BY <3>2, <1>1 DEF Withheld, KeptOut, Unsent
  <2> QED
    BY <2>1, <2>2
<1> QED
  BY <1>3, <1>4, <1>5, <1>6, <1>7, <1>8 DEF Withheld

\* Request q becomes p: it was woken, or its command was acknowledged.
Nudged(q, p) ==
    /\ p.kind = q.kind /\ p.run = q.run /\ p.id = q.id
    /\ \/ p.pc = q.pc /\ p.launch = q.launch /\ p.answer = q.answer
       \/ q.pc = "acked" /\ p.pc = "done" /\ p.launch = 0 /\ p.answer \in {"accepted", "notPending"}

\* What a step of launch l appends is the receipt of a command in its queue.
Appended(l, r) ==
    \E e \in Events : log'[r] = Append(log[r], e) /\ (e.id = 0 \/ Carries(launch[l], e.id))

\* A step of launch l.
LEMMA LaunchMoves ==
    ASSUME AppInv, NEW l \in DOMAIN launch, NEW x \in Launches, NEW r \in Runs,
           r = launch[l].run, x.run = r,
           launch' = [launch EXCEPT ![l] = x], UNCHANGED <<active, monitors, asked, reserved>>,
           req' \in [Callers -> Request], \A c \in Callers : Nudged(req[c], req'[c]),
           log' \in [Runs -> Seq(Events)], \A t \in Runs : t # r => log'[t] = log[t],
           log'[r] = log[r] \/ Appended(l, r),
           lease' \in [Runs -> Nat], \A t \in Runs : t # r => lease'[t] = lease[t],
           \/ lease'[r] = lease[r]
           \/ lease[r] = 0 /\ lease'[r] = l /\ log'[r] # <<>>
           \/ lease[r] = l /\ lease'[r] = 0,
           lease'[r] = l <=> x.st \in Working,
           x.st = "acquire" => launch[l].st = "acquire" /\ x.create = launch[l].create,
           x.st = "over" => x.queue = <<>>, x.st = "end" => x.goal \in Terminals,
           Gated(x),
           x.ready \notin {"none", "ok"} => x.st = "over",
           \A i \in DOMAIN x.queue : \E j \in DOMAIN launch[l].queue : x.queue[i] = launch[l].queue[j],
           Loose(x) => Loose(launch[l]),
           Loose(x) => \A i \in DOMAIN launch[l].queue : launch[l].queue[i] = Stop =>
                           \E j \in DOMAIN x.queue : x.queue[j] = Stop
    PROVE  AppInv'
<1> USE DEF AppInv
<1>1. /\ Len(launch) \in Nat /\ DOMAIN launch = 1 .. Len(launch) /\ Len(asked) \in Nat
      /\ launch' \in Seq(Launches) /\ Len(launch') = Len(launch) /\ DOMAIN launch' = DOMAIN launch
      /\ launch'[l] = x /\ \A k \in DOMAIN launch : k # l => launch'[k] = launch[k]
  BY Parts DEF Typed
<1>0. \A t \in Runs : log[t] # <<>> => log'[t] # <<>>
  <2>1. Appended(l, r) => log'[r] # <<>>
    BY Parts DEF Appended
  <2> QED
    BY <2>1
<1>2. \A k \in DOMAIN launch : launch'[k].run = launch[k].run
  BY <1>1
<1>3. Typed'
  BY <1>1 DEF Typed
<1>4. \A k \in DOMAIN launch : \A id : Carries(launch'[k], id) => Carries(launch[k], id)
  BY <1>1 DEF Carries
<1>5. Coherent'
  <2>1. \A k \in DOMAIN launch : Sound(launch'[k], log', asked)
    <3>1. \A k \in DOMAIN launch : Sound(launch[k], log', asked)
      <4>1. \A k \in DOMAIN launch : Sound(launch[k], log, asked) /\ launch[k].run \in Runs
        BY Parts DEF Coherent
      <4> QED
        BY <1>0, <4>1 DEF Sound
    <3>2. Sound(x, log', asked)
      BY <3>1, ZenonT(60) DEF Sound
    <3> QED
      BY <3>1, <3>2, <1>1
  <2>2. ASSUME NEW c \in Callers PROVE Placed(req'[c], launch', log', asked)
    <3>1. Placed(req[c], launch, log', asked) /\ Nudged(req[c], req'[c])
      <4>1. Placed(req[c], launch, log, asked)
        BY DEF Coherent
      <4> QED
        BY <1>0, <4>1 DEF Placed
    <3>2. CASE req[c].pc = "acked" /\ req'[c].pc = "done" /\ req'[c].launch = 0
      BY <3>1, <3>2, <1>1 DEF Placed, Nudged
    <3>3. CASE req'[c].pc = req[c].pc /\ req'[c].launch = req[c].launch /\ req'[c].answer = req[c].answer
      <4>1. req[c].pc \in {"ready", "register"} => req[c].launch \in DOMAIN launch
        BY <3>1, <1>1 DEF Placed
      <4> QED
        BY <3>1, <3>3, <4>1, <1>1, <1>2 DEF Placed, Nudged
    <3> QED
      BY <3>1, <3>2, <3>3 DEF Nudged
  <2>3. ASSUME NEW t \in Runs, NEW i \in DOMAIN log'[t] PROVE log'[t][i].id \in 0 .. Len(asked)
    <3>1. \A j \in DOMAIN log[t] : log[t][j].id \in 0 .. Len(asked)
      BY DEF Coherent
    <3>2. ASSUME Appended(l, t), t = r PROVE log'[t][i].id \in 0 .. Len(asked)
      <4>1. PICK e \in Events : log'[t] = Append(log[t], e) /\ (e.id = 0 \/ Carries(launch[l], e.id))
        BY <3>2 DEF Appended
      <4>2. e.id \in 0 .. Len(asked)
        <5>1. \A j \in DOMAIN launch[l].queue : Known(launch[l].queue[j], asked)
          BY DEF Coherent, Sound
        <5> QED
          BY <4>1, <5>1, <1>1, SMTT(30) DEF Carries, Known
      <4>3. log[t] \in Seq(Events)
        BY Parts
      <4>4. log'[t][i] = e \/ (i \in DOMAIN log[t] /\ log'[t][i] = log[t][i])
        BY <4>1, <4>3
      <4> QED
        BY <3>1, <4>2, <4>4
    <3> QED
      BY <3>1, <3>2
  <2> QED
    BY <2>1, <2>2, <2>3, <1>1 DEF Coherent
<1>6. Leased'
  <2>1. ASSUME NEW t \in Runs PROVE lease'[t] \in 0 .. Len(launch) /\ (lease'[t] # 0 => log'[t] # <<>>)
    <3>1. lease[t] \in 0 .. Len(launch) /\ (lease[t] # 0 => log[t] # <<>>) /\ log[t] \in Seq(Events)
      BY Parts DEF Leased
    <3>2. log[t] # <<>> => log'[t] # <<>>
      BY <3>1 DEF Appended
    <3> QED
      BY <1>1, <3>1, <3>2
  <2>2. ASSUME NEW t \in Runs, NEW k \in DOMAIN launch
        PROVE  lease'[t] = k <=> launch'[k].run = t /\ launch'[k].st \in Working
    <3>1. lease[t] = k <=> launch[k].run = t /\ launch[k].st \in Working
      BY DEF Leased
    <3>2. CASE t # r
      BY <3>1, <3>2, <1>1, <1>2 DEF Leased
    <3>3. CASE t = r /\ k = l
      BY <3>3, <1>1
    <3>4. CASE t = r /\ k # l
      <4>1. k # 0
        BY <1>1
      <4> QED
        BY <3>1, <3>4, <4>1, <1>1
    <3> QED
      BY <3>2, <3>3, <3>4
  <2> QED
    BY <2>1, <2>2, <1>1 DEF Leased
<1>7. Registered'
  BY <1>1, <1>2 DEF Registered
<1>8. Attended'
  <2> SUFFICES ASSUME NEW k \in DOMAIN launch, Loose(launch'[k]) PROVE Reached(k)'
    BY <1>1 DEF Attended
  <2>1. Loose(launch[k]) /\ Reached(k)
    BY <1>1 DEF Attended
  <2>2. CASE active[launch[k].run] = k
    BY <2>2, <1>2 DEF Reached
  <2>3. ASSUME NEW c \in Callers, req[c].launch = k, at(c, "register") PROVE Reached(k)'
    BY <2>3, ZenonT(60) DEF Reached, at, Nudged
  <2>4. ASSUME NEW i \in DOMAIN launch[k].queue, launch[k].queue[i] = Stop PROVE Reached(k)'
    <3>1. \E j \in DOMAIN launch'[k].queue : launch'[k].queue[j] = Stop
      BY <2>4, <1>1
    <3> QED
      BY <3>1 DEF Reached
  <2> QED
    BY <2>1, <2>2, <2>3, <2>4 DEF Reached
<1>9. Single'
  <2>1. \A c \in Callers : req'[c].kind = req[c].kind /\ req'[c].id = req[c].id
    BY DEF Nudged
  <2> QED
    BY <2>1 DEF Withheld, Single
<1>10. ASSUME NEW c \in Callers PROVE KeptOut(req'[c], launch', log', asked)
  <2> DEFINE q == req[c] p == req'[c]
  <2>1. KeptOut(q, launch, log, asked) /\ Placed(q, launch, log, asked) /\ Nudged(q, p)
    BY DEF Withheld, Coherent
  <2> SUFFICES ASSUME q.kind \in {"steer", "cancel"}, asked[q.id].copies = 1
               PROVE  KeptOut(p, launch', log', asked)
    BY <2>1 DEF KeptOut, Nudged
  <2>2. Unsent(launch, q.id) => Unsent(launch', q.id)
    BY <1>1, <1>4 DEF Unsent
  <2>3. q.id # 0
    BY <2>1, <1>1 DEF Placed, Controls
  <2>4. ASSUME NEW t \in Runs, Unsent(launch, q.id), ~Receipt(log[t], q.id) PROVE ~Receipt(log'[t], q.id)
    <3>1. CASE log'[t] = log[t]
      BY <2>4, <3>1
    <3>2. CASE t = r /\ Appended(l, t)
      <4>1. PICK e \in Events : log'[t] = Append(log[t], e) /\ (e.id = 0 \/ Carries(launch[l], e.id))
        BY <3>2 DEF Appended
      <4>2. e.id # q.id
        BY <4>1, <2>3, <2>4 DEF Unsent
      <4> QED
        BY <4>1, <4>2, <2>4, ReceiptGrows, Parts
    <3> QED
      BY <3>1, <3>2
  <2>5. q.answer \in {"terminal", "notActive"} => q.run \in Runs
    BY <2>1 DEF Placed
  <2>6. CASE p.pc = q.pc /\ p.launch = q.launch /\ p.answer = q.answer
    <3>1. p.kind = q.kind /\ p.run = q.run /\ p.id = q.id
      BY <2>1 DEF Nudged
    <3> HIDE DEF q, p
    <3> QED
      BY <2>1, <2>2, <2>4, <2>5, <2>6, <3>1, <1>1, <1>4 DEF KeptOut
  <2>7. CASE p.pc = "done" /\ p.answer \in {"accepted", "notPending"}
    BY <2>7 DEF KeptOut
  <2> QED
    BY <2>1, <2>6, <2>7 DEF Nudged
<1> QED
  BY <1>3, <1>5, <1>6, <1>7, <1>8, <1>9, <1>10 DEF Withheld

-----------------------------------------------------------------------------
(* Requests *)

\* An answer, by its fields.
LEMMA Replies ==
    ASSUME NEW q \in Request, NEW a \in Answers
    PROVE  LET p == Reply(q, a) IN
           /\ p \in Request /\ p.kind = q.kind /\ p.run = q.run /\ p.id = q.id
           /\ p.pc = "done" /\ p.launch = 0 /\ p.answer = a
<1> DEFINE n == IF a \in {"run", "events"} THEN q.seen ELSE 0
<1>1. n \in Nat
  BY DEF Request
<1>0. Reply(q, a) = [Idle EXCEPT !.kind = q.kind, !.run = q.run, !.id = q.id, !.after = q.after, !.pc = "done",
                                 !.answer = a, !.seen = n]
  BY DEF Reply
<1> HIDE DEF n
<1>2. Reply(q, a) = [kind |-> q.kind, run |-> q.run, source |-> None, id |-> q.id, after |-> q.after,
                     pc |-> "done", seen |-> n, launch |-> 0, rung |-> FALSE, answer |-> a]
  BY <1>0 DEF Idle
<1>3. q.kind \in Kinds \cup {"none", "wait", "get"} /\ q.run \in Runs \cup {None} /\ q.id \in Nat /\ q.after \in Nat
  BY DEF Request
<1>4. "done" \in PCs
  BY DEF PCs
<1>5. Reply(q, a) \in Request
  BY <1>1, <1>2, <1>3, <1>4 DEF Request
<1> QED
  BY <1>2, <1>5

\* A request that has not asked for anything.
LEMMA IdleRequest == Idle \in Request /\ Idle.pc = "idle" /\ Idle.launch = 0 /\ Idle.kind = "none"
                     /\ Idle.answer = "none" /\ Idle.id = 0
  BY DEF Idle, Request, Answers, Readiness, PCs, Kinds

\* A step of request c that only the request sees.
LEMMA RequestAlone ==
    ASSUME AppInv, NEW c \in Callers, NEW q \in Request,
           req' = [req EXCEPT ![c] = q], UNCHANGED <<log, lease, launch, active, monitors, asked>>,
           reserved' \subseteq Runs, req[c].pc # "register",
           q.kind \notin Controls \/ (q.kind = req[c].kind /\ q.id = req[c].id),
           Placed(q, launch, log, asked), KeptOut(q, launch, log, asked)
    PROVE  AppInv'
<1>1. Stop \in Message /\ Stop.id = 0
  BY DEF Stop, Message, Controls
<1>2. \A l \in DOMAIN launch : Extended(launch[l], launch'[l], Stop)
  BY DEF Extended
<1>3. launch' \in Seq(Launches) /\ Len(launch') = Len(launch) /\ monitors' \subseteq DOMAIN launch
      /\ active' \in [Runs -> Nat] /\ Registered'
  BY DEF AppInv, Typed, Registered
<1>4. ~at(c, "register")
  BY DEF at
<1>5. Placed(q, launch', log, asked) /\ KeptOut(q, launch', log, asked)
  OBVIOUS
<1> QED
  BY <1>1, <1>2, <1>3, <1>4, <1>5, RequestMoves

\* The places of a request that only looks around.
Looking == PCs \ {"idle", "ready", "register", "find", "acked", "race", "done", "load"}

\* A request that goes on, or is answered, without news of its command.
LEMMA RequestLooks ==
    ASSUME AppInv, NEW c \in Callers, NEW q \in Request,
           req' = [req EXCEPT ![c] = q], UNCHANGED <<log, lease, launch, active, monitors, asked>>,
           reserved' \subseteq Runs, req[c].pc \notin {"register", "idle"},
           q.kind = req[c].kind, q.id = req[c].id, q.run = req[c].run, q.launch \in {0, req[c].launch},
           \/ q.pc \in Looking /\ q.answer = "none"
           \/ q.pc = "done" /\ (q.kind \in {"steer", "cancel"} => q.answer \notin {"terminal", "notActive"})
    PROVE  AppInv'
<1>1. Placed(req[c], launch, log, asked) /\ Len(launch) \in Nat
  BY Parts DEF AppInv, Coherent
<1>2. Placed(q, launch, log, asked)
  BY <1>1 DEF Placed, Looking
<1>3. KeptOut(q, launch, log, asked)
  BY DEF KeptOut, Looking
<1> QED
  BY <1>2, <1>3, RequestAlone

\* The ways in which a request looks around.
LEMMA LookingStep ==
    ASSUME AppInv, NEW c \in Callers, req[c].pc \notin {"register", "idle", "done"},
           UNCHANGED <<log, lease, launch, active, monitors, asked>>, reserved' \subseteq Runs,
           \/ \E pc \in Looking : Goto(c, pc) \/ Load(c, pc)
           \/ \E a \in Answers : /\ req[c].kind \in {"steer", "cancel"} => a \notin {"terminal", "notActive"}
                                 /\ Answer(c, a) \/ View(c, a)
           \/ req' = [req EXCEPT ![c] = [req[c] EXCEPT !.pc = "drowse", !.rung = FALSE]]
           \/ req' = [req EXCEPT ![c] = [Replay(c) EXCEPT !.rung = FALSE, !.pc = "check"]]
    PROVE  AppInv'
<1>1. req[c] \in Request /\ req[c].run \in Runs /\ req[c].answer = "none"
  BY Parts DEF AppInv, Coherent, Placed
<1>2. Len(log[req[c].run]) \in Nat
  BY <1>1 DEF AppInv, Typed
<1> DEFINE z == [req[c] EXCEPT !.seen = Len(log[req[c].run])]
<1>3. /\ Replay(c) = z /\ z \in Request /\ z.kind = req[c].kind /\ z.run = req[c].run /\ z.id = req[c].id
      /\ z.pc = req[c].pc /\ z.launch = req[c].launch /\ z.answer = "none"
  <2>1. Replay(c) = z
    BY DEF Replay
  <2> QED
    BY <1>1, <1>2, <2>1 DEF Request
<1> HIDE DEF z
<1>4. ASSUME NEW pc \in Looking, Goto(c, pc) PROVE AppInv'
  <2> DEFINE q == [req[c] EXCEPT !.pc = pc]
  <2>1. /\ q \in Request /\ q.kind = req[c].kind /\ q.run = req[c].run /\ q.id = req[c].id
        /\ q.pc = pc /\ q.launch = req[c].launch /\ q.answer = "none"
    BY <1>1 DEF Request, Looking
  <2>2. req' = [req EXCEPT ![c] = q]
    BY <1>4 DEF Goto
  <2> HIDE DEF q
  <2> QED
    BY <2>1, <2>2, RequestLooks
<1>5. ASSUME NEW pc \in Looking, Load(c, pc) PROVE AppInv'
  <2> DEFINE q == [z EXCEPT !.pc = pc]
  <2>1. /\ q \in Request /\ q.kind = req[c].kind /\ q.run = req[c].run /\ q.id = req[c].id
        /\ q.pc = pc /\ q.launch = req[c].launch /\ q.answer = "none"
    BY <1>3 DEF Request, Looking
  <2>2. req' = [req EXCEPT ![c] = q]
    BY <1>3, <1>5 DEF Load
  <2> HIDE DEF q
  <2> QED
    BY <2>1, <2>2, RequestLooks
<1>6. ASSUME NEW a \in Answers, Answer(c, a),
            req[c].kind \in {"steer", "cancel"} => a \notin {"terminal", "notActive"}
     PROVE  AppInv'
  <2>1. req' = [req EXCEPT ![c] = Reply(req[c], a)]
    BY <1>6 DEF Answer
  <2> QED
    BY <1>1, <1>6, <2>1, Replies, RequestLooks
<1>7. ASSUME NEW a \in Answers, View(c, a),
            req[c].kind \in {"steer", "cancel"} => a \notin {"terminal", "notActive"}
     PROVE  AppInv'
  <2>1. req' = [req EXCEPT ![c] = Reply(z, a)]
    BY <1>3, <1>7 DEF View
  <2>2. LET p == Reply(z, a) IN
        /\ p \in Request /\ p.kind = req[c].kind /\ p.run = req[c].run /\ p.id = req[c].id
        /\ p.pc = "done" /\ p.launch = 0 /\ p.answer = a
    BY <1>3, Replies
  <2> QED
    BY <1>7, <2>1, <2>2, RequestLooks
<1>8. CASE req' = [req EXCEPT ![c] = [req[c] EXCEPT !.pc = "drowse", !.rung = FALSE]]
  <2> DEFINE q == [req[c] EXCEPT !.pc = "drowse", !.rung = FALSE]
  <2>1. "drowse" \in PCs /\ "drowse" \in Looking
    BY DEF PCs, Looking
  <2>2. /\ q \in Request /\ q.kind = req[c].kind /\ q.run = req[c].run /\ q.id = req[c].id
        /\ q.pc = "drowse" /\ q.launch = req[c].launch /\ q.answer = "none"
    BY <1>1, <2>1 DEF Request
  <2>3. req' = [req EXCEPT ![c] = q]
    BY <1>8
  <2> HIDE DEF q
  <2> QED
    BY <2>1, <2>2, <2>3, RequestLooks
<1>9. CASE req' = [req EXCEPT ![c] = [Replay(c) EXCEPT !.rung = FALSE, !.pc = "check"]]
  <2> DEFINE q == [z EXCEPT !.rung = FALSE, !.pc = "check"]
  <2>1. "check" \in PCs /\ "check" \in Looking
    BY DEF PCs, Looking
  <2>2. /\ q \in Request /\ q.kind = req[c].kind /\ q.run = req[c].run /\ q.id = req[c].id
        /\ q.pc = "check" /\ q.launch = req[c].launch /\ q.answer = "none"
    BY <1>3, <2>1 DEF Request
  <2>3. req' = [req EXCEPT ![c] = q]
    BY <1>3, <1>9
  <2> HIDE DEF q
  <2> QED
    BY <2>1, <2>2, <2>3, RequestLooks
<1>10. CASE \E pc \in Looking : Goto(c, pc) \/ Load(c, pc)
  BY <1>4, <1>5, <1>10
<1>11. CASE \E a \in Answers : /\ req[c].kind \in {"steer", "cancel"} => a \notin {"terminal", "notActive"}
                               /\ Answer(c, a) \/ View(c, a)
  <2>1. PICK a \in Answers : /\ req[c].kind \in {"steer", "cancel"} => a \notin {"terminal", "notActive"}
                             /\ Answer(c, a) \/ View(c, a)
    BY <1>11
  <2> QED
    BY <1>6, <1>7, <2>1
<1> QED
  BY <1>8, <1>9, <1>10, <1>11

\* The steps of a request that only look around.
LEMMA LookingActions ==
    ASSUME AppInv, NEW c \in Callers,
           \/ Reserve(c) \/ LoadSource(c) \/ LoadResume(c) \/ CheckBusy(c)
           \/ LoadProposal(c, "load", "retire") \/ LoadProposal(c, "reload", "compose") \/ Retire(c) \/ Rouse(c)
           \/ Rejoin(c) \/ Unfit(c) \/ Get(c) \/ Read(c) \/ CheckActive(c) \/ Wakes(c)
    PROVE  AppInv'
<1> USE DEF Looking, PCs, Answers, Readiness, at, durable, process
<1>1. ASSUME Reserve(c) PROVE AppInv'
  <2>1. reserved' \subseteq Runs /\ req[c].pc = "reserve"
    BY <1>1 DEF Reserve, AppInv, Typed, Coherent, Placed, runOf
  <2>2. Goto(c, "compose") \/ View(c, "run")
    BY <1>1 DEF Reserve
  <2>3. UNCHANGED <<log, lease, launch, active, monitors, asked>>
    BY <1>1 DEF Reserve
  <2> QED
    BY <2>1, <2>2, <2>3, LookingStep
<1>2. \A r \in reserved : r \in Runs
  BY DEF AppInv, Typed
<1>3. CASE LoadSource(c)
  BY <1>2, <1>3, LookingStep DEF LoadSource
<1>4. CASE LoadResume(c)
  BY <1>2, <1>4, LookingStep DEF LoadResume
<1>5. CASE CheckBusy(c)
  BY <1>2, <1>5, LookingStep DEF CheckBusy
<1>6. CASE LoadProposal(c, "load", "retire")
  BY <1>2, <1>6, LookingStep DEF LoadProposal
<1>7. CASE LoadProposal(c, "reload", "compose")
  BY <1>2, <1>7, LookingStep DEF LoadProposal
<1>8. CASE Retire(c)
  BY <1>2, <1>8, LookingStep DEF Retire
<1>9. CASE Rouse(c)
  BY <1>2, <1>9, LookingStep DEF Rouse
<1>10. CASE Rejoin(c)
  BY <1>2, <1>10, LookingStep DEF Rejoin
<1>11. CASE Unfit(c)
  BY <1>2, <1>11, LookingStep DEF Unfit
<1>12. CASE Get(c)
  BY <1>2, <1>12, LookingStep DEF Get
<1>13. CASE Read(c)
  BY <1>2, <1>13, LookingStep DEF Read
<1>14. CASE CheckActive(c)
  BY <1>2, <1>14, LookingStep DEF CheckActive
<1>15. CASE Wakes(c)
  BY <1>2, <1>15, LookingStep DEF Wakes
<1> QED
  BY <1>1, <1>3, <1>4, <1>5, <1>6, <1>7, <1>8, <1>9, <1>10, <1>11, <1>12, <1>13, <1>14, <1>15

\* What the first load of a steer or a cancel finds.
LEMMA LoadControlKeeps ==
    ASSUME AppInv, NEW c \in Callers, LoadControl(c) PROVE AppInv'
<1>1. /\ req[c].pc = "load" /\ req[c].kind \in {"steer", "cancel"} /\ reserved' \subseteq Runs
      /\ UNCHANGED <<log, lease, launch, active, monitors, asked>>
      /\ req[c] \in Request /\ req[c].run \in Runs /\ req[c].answer = "none"
      /\ Placed(req[c], launch, log, asked) /\ KeptOut(req[c], launch, log, asked)
  BY Parts DEF LoadControl, at, durable, process, AppInv, Typed, Coherent, Placed, Withheld
<1>2. CASE Answer(c, "accepted")
  BY <1>1, <1>2, LookingStep DEF Answers
<1>3. CASE Answer(c, "terminal")
  <2> DEFINE q == Reply(req[c], "terminal")
  <2>1. /\ q \in Request /\ q.kind = req[c].kind /\ q.run = req[c].run /\ q.id = req[c].id
        /\ q.pc = "done" /\ q.launch = 0 /\ q.answer = "terminal"
    BY <1>1, Replies DEF Answers
  <2>2. req' = [req EXCEPT ![c] = q]
    BY <1>3 DEF Answer
  <2> HIDE DEF q
  <2>3. Placed(q, launch, log, asked)
    BY <1>1, <2>1, Parts DEF Placed, AppInv
  <2>4. KeptOut(q, launch, log, asked)
    BY <1>1, <2>1 DEF KeptOut
  <2> QED
    BY <1>1, <2>1, <2>2, <2>3, <2>4, RequestAlone
<1>4. CASE Goto(c, "find")
  <2> DEFINE q == [req[c] EXCEPT !.pc = "find"]
  <2>1. /\ q \in Request /\ q.kind = req[c].kind /\ q.run = req[c].run /\ q.id = req[c].id
        /\ q.pc = "find" /\ q.launch = req[c].launch /\ q.answer = "none"
    BY <1>1 DEF Request, PCs
  <2>2. req' = [req EXCEPT ![c] = q]
    BY <1>4 DEF Goto
  <2> HIDE DEF q
  <2>3. Placed(q, launch, log, asked)
    BY <1>1, <2>1 DEF Placed
  <2>4. KeptOut(q, launch, log, asked)
    BY <1>1, <2>1 DEF KeptOut
  <2> QED
    BY <1>1, <2>1, <2>2, <2>3, <2>4, RequestAlone
<1> QED
  BY <1>2, <1>3, <1>4 DEF LoadControl

\* A command whose launch has ended is in no queue any more.
LEMMA UnacknowledgedKeeps ==
    ASSUME AppInv, NEW c \in Callers, Unacknowledged(c) PROVE AppInv'
<1>1. /\ req[c].pc = "acked" /\ launch[req[c].launch].st = "over" /\ reserved' \subseteq Runs
      /\ UNCHANGED <<log, lease, launch, active, monitors, asked>>
      /\ req[c] \in Request /\ req[c].run \in Runs /\ req[c].answer = "none"
      /\ Placed(req[c], launch, log, asked) /\ KeptOut(req[c], launch, log, asked)
  BY Parts DEF Unacknowledged, Over, at, durable, process, AppInv, Typed, Coherent, Placed, Withheld
<1>2. ~Carries(launch[req[c].launch], req[c].id)
  <2>1. req[c].launch \in DOMAIN launch
    BY <1>1, Parts DEF AppInv, Placed
  <2>2. launch[req[c].launch].queue = <<>>
    BY <1>1, <2>1 DEF AppInv, Coherent, Sound
  <2> QED
    BY <2>2 DEF Carries
<1> DEFINE q == [req[c] EXCEPT !.pc = "race"]
<1>3. /\ q \in Request /\ q.kind = req[c].kind /\ q.run = req[c].run /\ q.id = req[c].id
      /\ q.pc = "race" /\ q.launch = req[c].launch /\ q.answer = "none"
  BY <1>1 DEF Request, PCs
<1>4. req' = [req EXCEPT ![c] = q]
  BY DEF Unacknowledged, Goto
<1> HIDE DEF q
<1>5. Placed(q, launch, log, asked)
  BY <1>1, <1>3 DEF Placed
<1>6. KeptOut(q, launch, log, asked)
  BY <1>1, <1>2, <1>3 DEF KeptOut, Unsent
<1> QED
  BY <1>1, <1>3, <1>4, <1>5, <1>6, RequestAlone

\* The last look at the log decides what the command came to.
LEMMA AfterRaceKeeps ==
    ASSUME AppInv, NEW c \in Callers, AfterRace(c) PROVE AppInv'
<1>1. /\ req[c].pc = "race" /\ reserved' \subseteq Runs
      /\ UNCHANGED <<log, lease, launch, active, monitors, asked>>
      /\ req[c] \in Request /\ req[c].run \in Runs /\ req[c].answer = "none"
      /\ Placed(req[c], launch, log, asked) /\ KeptOut(req[c], launch, log, asked)
  BY Parts DEF AfterRace, at, durable, process, AppInv, Typed, Coherent, Placed, Withheld
<1>2. PICK a \in {"accepted", "terminal", "notActive"} :
          Answer(c, a) /\ (Receipt(log[req[c].run], req[c].id) => a = "accepted")
  <2>1. CASE Receipt(log[req[c].run], req[c].id)
    BY <2>1 DEF AfterRace, runOf
  <2>2. CASE ~Receipt(log[req[c].run], req[c].id) /\ Ended(log[req[c].run])
    BY <2>2 DEF AfterRace, runOf
  <2>3. CASE ~Receipt(log[req[c].run], req[c].id) /\ ~Ended(log[req[c].run])
    BY <2>3 DEF AfterRace, runOf
  <2> QED
    BY <2>1, <2>2, <2>3
<1> DEFINE q == Reply(req[c], a)
<1>3. /\ q \in Request /\ q.kind = req[c].kind /\ q.run = req[c].run /\ q.id = req[c].id
      /\ q.pc = "done" /\ q.launch = 0 /\ q.answer = a
  BY <1>1, Replies DEF Answers
<1>4. req' = [req EXCEPT ![c] = q]
  BY <1>2 DEF Answer
<1> HIDE DEF q
<1>5. Placed(q, launch, log, asked)
  BY <1>1, <1>3, Parts DEF Placed, AppInv
<1>6. KeptOut(q, launch, log, asked)
  BY <1>1, <1>2, <1>3 DEF KeptOut
<1> QED
  BY <1>1, <1>3, <1>4, <1>5, <1>6, RequestAlone

-----------------------------------------------------------------------------
(* Requests and launches *)

\* A command put into the queue of a launch.
LEMMA SentExtends ==
    ASSUME Typed, NEW l \in DOMAIN launch, NEW m \in Message
    PROVE  LET ls == Sent(launch, l, m) IN
           /\ ls \in Seq(Launches) /\ Len(ls) = Len(launch)
           /\ \A k \in DOMAIN launch : Extended(launch[k], ls[k], m) /\ (Loose(ls[k]) => Loose(launch[k]))
           /\ \A k \in DOMAIN launch : k # l => ls[k] = launch[k]
           /\ launch[l].st # "over" => ls[l].queue = Append(launch[l].queue, m)
<1> DEFINE x == launch[l] y == [x EXCEPT !.queue = Append(x.queue, m)]
<1>1. x \in Launches /\ x.queue \in Seq(Message)
  BY Parts DEF Launches
<1>2. CASE x.st = "over"
  BY <1>2 DEF Sent, Over, Extended, Typed
<1>3. CASE x.st # "over"
  <2>1. Append(x.queue, m) \in Seq(Message)
    BY <1>1
  <2>2. /\ y \in Launches /\ y.run = x.run /\ y.st = x.st /\ y.goal = x.goal /\ y.ready = x.ready
        /\ y.gate = x.gate /\ y.queue = Append(x.queue, m) /\ y.create = x.create /\ y.ack = x.ack
    <3> HIDE DEF x
    <3> QED
      BY <1>1, <2>1 DEF Launches
  <2>3. Sent(launch, l, m) = [launch EXCEPT ![l] = y]
    BY <1>3 DEF Sent, Over
  <2>4. Extended(x, y, m) /\ (Loose(y) => Loose(x))
    BY <1>3, <2>2 DEF Extended, Loose
  <2>5. \A k \in DOMAIN launch : Extended(launch[k], launch[k], m)
    BY DEF Extended
  <2> HIDE DEF y
  <2> QED
    BY <2>2, <2>3, <2>4, <2>5 DEF Typed
<1> QED
  BY <1>2, <1>3

\* The message that stops a launch.
LEMMA StopMessage == Stop \in Message /\ Stop.id = 0
  BY DEF Stop, Message, Controls

\* A launch let go by its request.
LEMMA OpenedExtends ==
    ASSUME NEW ls \in Seq(Launches), NEW l \in DOMAIN ls
    PROVE  LET os == [ls EXCEPT ![l].gate = TRUE] IN
           /\ os \in Seq(Launches) /\ Len(os) = Len(ls) /\ DOMAIN os = DOMAIN ls
           /\ \A k \in DOMAIN ls : k # l => os[k] = ls[k]
           /\ os[l].run = ls[l].run /\ os[l].st = ls[l].st /\ os[l].goal = ls[l].goal
           /\ os[l].ready = ls[l].ready /\ os[l].queue = ls[l].queue /\ os[l].create = ls[l].create
           /\ os[l].gate /\ os[l].ack = ls[l].ack
<1> DEFINE x == ls[l] y == [x EXCEPT !.gate = TRUE]
<1>1. x \in Launches
  OBVIOUS
<1>2. /\ y \in Launches /\ y.run = x.run /\ y.st = x.st /\ y.goal = x.goal /\ y.ready = x.ready
      /\ y.queue = x.queue /\ y.create = x.create /\ y.gate /\ y.ack = x.ack
  <2> HIDE DEF x
  <2> QED
    BY <1>1 DEF Launches
<1>3. [ls EXCEPT ![l].gate = TRUE] = [ls EXCEPT ![l] = y]
  OBVIOUS
<1> DEFINE os == [ls EXCEPT ![l] = y]
<1> HIDE DEF y
<1>4. /\ os \in Seq(Launches) /\ Len(os) = Len(ls) /\ DOMAIN os = DOMAIN ls /\ os[l] = y
      /\ \A k \in DOMAIN ls : k # l => os[k] = ls[k]
  BY <1>2
<1> QED
  BY <1>2, <1>3, <1>4

\* A request whose activation failed.
LEMMA FailedFields ==
    ASSUME AppInv, NEW c \in Callers, req[c].pc \in {"ready", "register"},
           NEW error \in Readiness, Failed(c, error)
    PROVE  \E q \in Request :
              /\ req' = [req EXCEPT ![c] = q]
              /\ q.kind = req[c].kind /\ q.run = req[c].run /\ q.id = req[c].id
              /\ q.launch \in {0, req[c].launch}
              /\ \/ q.pc = "get" /\ q.answer = "none"
                 \/ q.pc = "done" /\ q.answer \notin {"terminal", "notActive"}
<1>1. req[c] \in Request /\ req[c].answer = "none"
  BY Parts DEF AppInv, Coherent, Placed
<1>2. CASE Goto(c, "get")
  <2> DEFINE q == [req[c] EXCEPT !.pc = "get"]
  <2>1. /\ q \in Request /\ q.kind = req[c].kind /\ q.run = req[c].run /\ q.id = req[c].id
        /\ q.pc = "get" /\ q.launch = req[c].launch /\ q.answer = "none"
    BY <1>1 DEF Request, PCs
  <2>2. req' = [req EXCEPT ![c] = q]
    BY <1>2 DEF Goto
  <2> HIDE DEF q
  <2> QED
    BY <2>1, <2>2
<1>3. ASSUME NEW a \in Answers \ {"terminal", "notActive"}, Answer(c, a)
      PROVE  \E q \in Request :
              /\ req' = [req EXCEPT ![c] = q]
              /\ q.kind = req[c].kind /\ q.run = req[c].run /\ q.id = req[c].id
              /\ q.launch \in {0, req[c].launch}
              /\ q.pc = "done" /\ q.answer \notin {"terminal", "notActive"}
  <2>1. req' = [req EXCEPT ![c] = Reply(req[c], a)]
    BY <1>3 DEF Answer
  <2>2. LET p == Reply(req[c], a) IN
        /\ p \in Request /\ p.kind = req[c].kind /\ p.run = req[c].run /\ p.id = req[c].id
        /\ p.pc = "done" /\ p.launch = 0 /\ p.answer = a
    BY <1>1, Replies
  <2> QED
    BY <2>1, <2>2
<1>4. CASE Answer(c, "accepted")
  BY <1>3, <1>4 DEF Answers
<1>5. CASE Answer(c, error)
  BY <1>3, <1>5 DEF Answers, Readiness
<1> QED
  BY <1>2, <1>4, <1>5 DEF Failed

\* RuntimeRun::ready.
LEMMA AwaitReadyKeeps ==
    ASSUME AppInv, NEW c \in Callers, AwaitReady(c) PROVE AppInv'
<1> DEFINE l == req[c].launch
<1>1. /\ req[c].pc = "ready" /\ req[c] \in Request /\ req[c].run \in Runs /\ req[c].answer = "none"
      /\ Placed(req[c], launch, log, asked) /\ l \in DOMAIN launch /\ launch[l].run = req[c].run
      /\ Len(launch) \in Nat /\ launch[l] \in Launches
  BY Parts DEF AwaitReady, at, AppInv, Coherent, Placed
<1>2. /\ launch' = [launch EXCEPT ![l].gate = TRUE] /\ launch[l].ready # "none"
      /\ UNCHANGED <<log, lease, reserved, active, monitors, asked>>
  BY DEF AwaitReady, durable
<1>3. /\ launch' \in Seq(Launches) /\ Len(launch') = Len(launch) /\ DOMAIN launch' = DOMAIN launch
      /\ \A k \in DOMAIN launch : k # l => launch'[k] = launch[k]
      /\ launch'[l].run = launch[l].run /\ launch'[l].st = launch[l].st /\ launch'[l].queue = launch[l].queue
      /\ launch'[l].goal = launch[l].goal /\ launch'[l].ready = launch[l].ready
      /\ launch'[l].create = launch[l].create /\ launch'[l].gate /\ launch'[l].ack = launch[l].ack
  BY <1>1, <1>2, OpenedExtends DEF AppInv, Typed
<1>4. \A k \in DOMAIN launch : Extended(launch[k], launch'[k], Stop)
  BY <1>3 DEF Extended
<1>5. /\ reserved' \subseteq Runs /\ monitors' \subseteq DOMAIN launch /\ active' \in [Runs -> Nat]
      /\ \A r \in Runs : active[r] # 0 => active'[r] = active[r]
  BY <1>2 DEF AppInv, Typed
<1>6. Registered'
  BY <1>2, <1>3, <1>4, Parts DEF AppInv, Registered, Extended
<1>7. CASE launch[l].ready = "ok"
  <2> DEFINE q == [req[c] EXCEPT !.pc = "register"]
  <2>1. /\ q \in Request /\ q.kind = req[c].kind /\ q.run = req[c].run /\ q.id = req[c].id
        /\ q.pc = "register" /\ q.launch = l /\ q.answer = "none"
    BY <1>1 DEF Request, PCs
  <2>2. req' = [req EXCEPT ![c] = q]
    BY <1>7 DEF AwaitReady, Goto
  <2> HIDE DEF q
  <2>3. Placed(q, launch', log, asked) /\ KeptOut(q, launch', log, asked)
    BY <1>1, <1>3, <2>1 DEF Placed, KeptOut
  <2>4. req'[c] = q
    BY <2>2 DEF AppInv, Typed
  <2>5. \A k \in DOMAIN launch : Loose(launch'[k]) => Loose(launch[k]) \/ Reached(k)'
    <3>1. ASSUME NEW k \in DOMAIN launch, k = l PROVE Reached(k)'
      BY <2>1, <2>4, <3>1 DEF Reached, at
    <3> QED
      BY <1>3, <3>1
  <2>6. ~at(c, "register")
    BY <1>1 DEF at
  <2> QED
    BY <1>2, <1>3, <1>4, <1>5, <1>6, <2>1, <2>2, <2>3, <2>5, <2>6, StopMessage, RequestMoves
<1>8. CASE launch[l].ready # "ok"
  <2>1. launch[l].ready \in Readiness
    BY <1>1 DEF Launches
  <2>2. PICK q \in Request :
              /\ req' = [req EXCEPT ![c] = q]
              /\ q.kind = req[c].kind /\ q.run = req[c].run /\ q.id = req[c].id
              /\ q.launch \in {0, req[c].launch}
              /\ \/ q.pc = "get" /\ q.answer = "none"
                 \/ q.pc = "done" /\ q.answer \notin {"terminal", "notActive"}
    BY <1>1, <1>8, <2>1, FailedFields DEF AwaitReady
  <2>3. Placed(q, launch', log, asked) /\ KeptOut(q, launch', log, asked)
    BY <1>1, <1>3, <2>2 DEF Placed, KeptOut
  <2>4. launch[l].st = "over"
    BY <1>1, <1>2, <1>8 DEF AppInv, Coherent, Sound
  <2>5. \A k \in DOMAIN launch : Loose(launch'[k]) => Loose(launch[k])
    BY <1>3, <2>4 DEF Loose
  <2>6. ~at(c, "register")
    BY <1>1 DEF at
  <2> QED
    BY <1>2, <1>3, <1>4, <1>5, <1>6, <2>2, <2>3, <2>5, <2>6, StopMessage, RequestMoves
<1> QED
  BY <1>7, <1>8

\* control: the command goes to the launch in the registry.
LEMMA SendControlKeeps ==
    ASSUME AppInv, NEW c \in Callers, SendControl(c) PROVE AppInv'
<1> DEFINE l == active[req[c].run] m == [kind |-> req[c].kind, id |-> req[c].id]
<1>1. /\ req[c].pc = "find" /\ req[c] \in Request /\ req[c].run \in Runs /\ req[c].answer = "none"
      /\ Placed(req[c], launch, log, asked) /\ KeptOut(req[c], launch, log, asked)
      /\ req[c].kind \in {"steer", "cancel"} /\ Len(launch) \in Nat
      /\ UNCHANGED <<log, lease, reserved, active, monitors, asked>> /\ reserved' \subseteq Runs
  BY Parts DEF SendControl, at, durable, AppInv, Typed, Coherent, Placed, Withheld
<1>2. CASE Goto(c, "race") /\ UNCHANGED launch
  <2> DEFINE q == [req[c] EXCEPT !.pc = "race"]
  <2>1. /\ q \in Request /\ q.kind = req[c].kind /\ q.run = req[c].run /\ q.id = req[c].id
        /\ q.pc = "race" /\ q.launch = req[c].launch /\ q.answer = "none"
    BY <1>1 DEF Request, PCs
  <2>2. req' = [req EXCEPT ![c] = q]
    BY <1>2 DEF Goto
  <2> HIDE DEF q
  <2>3. Placed(q, launch, log, asked) /\ KeptOut(q, launch, log, asked)
    BY <1>1, <2>1 DEF Placed, KeptOut
  <2> QED
    BY <1>1, <1>2, <2>1, <2>2, <2>3, RequestAlone
<1>3. CASE /\ l # 0 /\ launch' = Sent(launch, l, m)
           /\ req' = [req EXCEPT ![c] = [req[c] EXCEPT !.pc = "acked", !.launch = l]]
  <2>1. l \in DOMAIN launch
    BY <1>1, <1>3, Parts DEF AppInv, Registered
  <2>2. m \in Message /\ m.id = req[c].id /\ m.kind = req[c].kind
    BY <1>1 DEF Message, Controls, Request
  <2>3. /\ launch' \in Seq(Launches) /\ Len(launch') = Len(launch)
        /\ \A k \in DOMAIN launch : Extended(launch[k], launch'[k], m) /\ (Loose(launch'[k]) => Loose(launch[k]))
        /\ \A k \in DOMAIN launch : k # l => launch'[k] = launch[k]
    BY <1>3, <2>1, <2>2, SentExtends DEF AppInv
  <2>4. DOMAIN launch' = DOMAIN launch /\ l \in Nat
    BY <2>1, <2>3, Parts DEF AppInv
  <2> DEFINE q == [req[c] EXCEPT !.pc = "acked", !.launch = l]
  <2>5. /\ q \in Request /\ q.kind = req[c].kind /\ q.run = req[c].run /\ q.id = req[c].id
        /\ q.pc = "acked" /\ q.launch = l /\ q.answer = "none"
    BY <1>1, <2>4 DEF Request, PCs
  <2> HIDE DEF q
  <2>6. Placed(q, launch', log, asked)
    BY <1>1, <1>3, <2>1, <2>3, <2>5, Parts DEF AppInv, Placed
  <2>7. KeptOut(q, launch', log, asked)
    BY <1>1, <2>3, <2>4, <2>5 DEF KeptOut, Unsent
  <2>8. Registered'
    BY <1>1, <2>3, <2>4, Parts DEF AppInv, Registered, Extended
  <2>9. monitors' \subseteq DOMAIN launch /\ active' \in [Runs -> Nat] /\ req' = [req EXCEPT ![c] = q]
    BY <1>1, <1>3 DEF AppInv, Typed, q
  <2>10. ~at(c, "register")
    BY <1>1 DEF at
  <2> HIDE DEF m
  <2> QED
    BY <1>1, <2>2, <2>3, <2>5, <2>6, <2>7, <2>8, <2>9, <2>10, RequestMoves
<1> QED
  BY <1>2, <1>3 DEF SendControl, runOf

\* activate: the launch is in the registry, or it is told to stop.
LEMMA RegisterKeeps ==
    ASSUME AppInv, NEW c \in Callers, Register(c) PROVE AppInv'
<1> DEFINE l == req[c].launch
<1>1. /\ req[c].pc = "register" /\ req[c] \in Request /\ req[c].run \in Runs /\ req[c].answer = "none"
      /\ Placed(req[c], launch, log, asked) /\ l \in DOMAIN launch /\ launch[l].run = req[c].run
      /\ Len(launch) \in Nat /\ l # 0 /\ l \in Nat
      /\ UNCHANGED <<log, lease, reserved, asked>> /\ reserved' \subseteq Runs
      /\ monitors' \subseteq DOMAIN launch
  <2>1. /\ req[c].pc = "register" /\ UNCHANGED <<log, lease, reserved, asked>>
        /\ monitors' = monitors \cup {l}
    BY DEF Register, at, durable
  <2>2. /\ req[c] \in Request /\ Len(launch) \in Nat /\ DOMAIN launch = 1 .. Len(launch)
        /\ reserved \subseteq Runs /\ monitors \subseteq DOMAIN launch
    BY Parts DEF AppInv, Typed
  <2>3. Placed(req[c], launch, log, asked)
    BY DEF AppInv, Coherent
  <2>4. req[c].run \in Runs /\ req[c].answer = "none" /\ l # 0 /\ launch[l].run = req[c].run /\ l \in 0 .. Len(launch)
    BY <2>1, <2>3 DEF Placed
  <2> QED
    BY <2>1, <2>2, <2>3, <2>4
<1>2. CASE active[req[c].run] # 0
  <2>1. launch' = Sent(launch, l, Stop) /\ Failed(c, "running") /\ UNCHANGED active
    BY <1>2 DEF Register, runOf, StopLoser
  <2>2. /\ launch' \in Seq(Launches) /\ Len(launch') = Len(launch)
        /\ \A k \in DOMAIN launch : Extended(launch[k], launch'[k], Stop) /\ (Loose(launch'[k]) => Loose(launch[k]))
        /\ launch[l].st # "over" => launch'[l].queue = Append(launch[l].queue, Stop)
    BY <1>1, <2>1, StopMessage, SentExtends DEF AppInv
  <2>3. PICK q \in Request :
              /\ req' = [req EXCEPT ![c] = q]
              /\ q.kind = req[c].kind /\ q.run = req[c].run /\ q.id = req[c].id
              /\ q.launch \in {0, req[c].launch}
              /\ \/ q.pc = "get" /\ q.answer = "none"
                 \/ q.pc = "done" /\ q.answer \notin {"terminal", "notActive"}
    BY <1>1, <2>1, FailedFields DEF Readiness
  <2>4. Placed(q, launch', log, asked) /\ KeptOut(q, launch', log, asked)
    BY <1>1, <2>2, <2>3 DEF Placed, KeptOut
  <2>5. DOMAIN launch' = DOMAIN launch
    BY <2>2, Parts DEF AppInv
  <2>6. Registered' /\ active' \in [Runs -> Nat]
    <3>1. active' \in [Runs -> Nat]
      BY <2>1 DEF AppInv, Typed
    <3>2. Registered'
      BY <2>1, <2>2, <2>5, Parts DEF AppInv, Registered, Extended
    <3> QED
      BY <3>1, <3>2
  <2>7. ASSUME NEW k \in DOMAIN launch, k = l, Loose(launch'[k]) PROVE Reached(k)'
    <3>1. launch[k].queue \in Seq(Message)
      BY Parts DEF AppInv, Launches
    <3>2. launch'[k].queue = Append(launch[k].queue, Stop)
      BY <2>2, <2>7 DEF Extended, Loose
    <3>3. \E i \in DOMAIN launch'[k].queue : launch'[k].queue[i] = Stop
      <4>1. Len(launch[k].queue) + 1 \in DOMAIN launch'[k].queue
        BY <3>1, <3>2
      <4> QED
        BY <3>1, <3>2, <4>1
    <3> QED
      BY <3>3 DEF Reached
  <2> QED
    BY <1>1, <2>1, <2>2, <2>3, <2>4, <2>6, <2>7, StopMessage, RequestMoves
<1>3. CASE active[req[c].run] = 0
  <2>1. active' = [active EXCEPT ![req[c].run] = l] /\ UNCHANGED launch
    BY <1>3 DEF Register, runOf
  <2>2. \/ Goto(c, "get") \/ Answer(c, "accepted")
        \/ req[c].kind = "accept" /\ Goto(c, "acked")
    BY <1>3 DEF Register, runOf
  <2>3. PICK q \in Request :
              /\ req' = [req EXCEPT ![c] = q]
              /\ q.kind = req[c].kind /\ q.run = req[c].run /\ q.id = req[c].id
              /\ q.launch \in {0, req[c].launch}
              /\ \/ q.pc = "get" /\ q.answer = "none"
                 \/ q.pc = "done" /\ q.answer = "accepted"
                 \/ q.pc = "acked" /\ q.answer = "none" /\ q.kind = "accept" /\ q.launch = l
    <3>1. ASSUME NEW pc \in {"get", "acked"}, Goto(c, pc)
          PROVE  LET q == [req[c] EXCEPT !.pc = pc] IN
                 /\ q \in Request /\ req' = [req EXCEPT ![c] = q]
                 /\ q.kind = req[c].kind /\ q.run = req[c].run /\ q.id = req[c].id
                 /\ q.launch = l /\ q.pc = pc /\ q.answer = "none"
      BY <1>1, <3>1 DEF Goto, Request, PCs
    <3>2. CASE Goto(c, "get")
      BY <3>1, <3>2
    <3>3. CASE req[c].kind = "accept" /\ Goto(c, "acked")
      BY <3>1, <3>3
    <3>4. CASE Answer(c, "accepted")
      <4>1. req' = [req EXCEPT ![c] = Reply(req[c], "accepted")]
        BY <3>4 DEF Answer
      <4>2. LET p == Reply(req[c], "accepted") IN
            /\ p \in Request /\ p.kind = req[c].kind /\ p.run = req[c].run /\ p.id = req[c].id
            /\ p.pc = "done" /\ p.launch = 0 /\ p.answer = "accepted"
        BY <1>1, Replies DEF Answers
      <4> QED
        BY <4>1, <4>2
    <3> QED
      BY <2>2, <3>2, <3>3, <3>4
  <2>4. Placed(q, launch', log, asked) /\ KeptOut(q, launch', log, asked)
    BY <1>1, <2>1, <2>3 DEF Placed, KeptOut
  <2>5. active' \in [Runs -> Nat] /\ \A r \in Runs : active[r] # 0 => active'[r] = active[r]
    BY <1>1, <1>3, <2>1 DEF AppInv, Typed
  <2>6. Registered'
    BY <1>1, <1>3, <2>1 DEF AppInv, Typed, Registered
  <2>7. ASSUME NEW k \in DOMAIN launch, k = l PROVE Reached(k)'
    BY <1>1, <2>1, <2>7 DEF AppInv, Typed, Reached
  <2>8. \A k \in DOMAIN launch : Extended(launch[k], launch'[k], Stop)
    BY <2>1 DEF Extended
  <2>9. launch' \in Seq(Launches) /\ Len(launch') = Len(launch)
    BY <2>1 DEF AppInv, Typed
  <2> QED
    BY <1>1, <2>1, <2>3, <2>4, <2>5, <2>6, <2>7, <2>8, <2>9, StopMessage, RequestMoves
<1> QED
  BY <1>2, <1>3

\* A caller that goes away leaves a launch that is reached, or tells it to stop.
LEMMA AbortKeeps ==
    ASSUME AppInv, NEW c \in Callers, Abort(c) PROVE AppInv'
<1> DEFINE l == req[c].launch
<1>1. /\ req' = [req EXCEPT ![c] = Idle] /\ UNCHANGED <<log, lease, reserved, active, monitors, asked>>
      /\ req[c] \in Request /\ Placed(req[c], launch, log, asked) /\ reserved' \subseteq Runs
      /\ Len(launch) \in Nat /\ monitors' \subseteq DOMAIN launch /\ active' \in [Runs -> Nat]
  BY Parts DEF Abort, durable, AppInv, Typed, Coherent
<1>2. \A ls : Len(ls) = Len(launch) => Placed(Idle, ls, log, asked) /\ KeptOut(Idle, ls, log, asked)
  BY <1>1, IdleRequest DEF Placed, KeptOut, Controls
<1>3. Idle.kind \notin Controls
  BY IdleRequest DEF Controls
<1>4. CASE req[c].pc \notin {"ready", "register"}
  <2>1. launch' = launch
    BY <1>4 DEF Abort
  <2>2. req[c].pc # "register"
    BY <1>4
  <2> QED
    BY <1>1, <1>2, <1>3, <2>1, <2>2, IdleRequest, RequestAlone
<1>5. CASE req[c].pc \in {"ready", "register"}
  <2> DEFINE ls == Sent(launch, l, Stop)
  <2>1. launch' = [ls EXCEPT ![l].gate = TRUE]
    BY <1>5 DEF Abort, Dropped
  <2>2. l \in DOMAIN launch
    BY <1>1, <1>5, Parts DEF AppInv, Placed
  <2>3. /\ ls \in Seq(Launches) /\ Len(ls) = Len(launch)
        /\ \A k \in DOMAIN launch : Extended(launch[k], ls[k], Stop)
        /\ \A k \in DOMAIN launch : k # l => ls[k] = launch[k]
        /\ launch[l].st # "over" => ls[l].queue = Append(launch[l].queue, Stop)
    BY <2>2, StopMessage, SentExtends DEF AppInv
  <2> HIDE DEF ls
  <2>4. DOMAIN ls = DOMAIN launch
    BY <2>3, Parts DEF AppInv
  <2>5. /\ launch' \in Seq(Launches) /\ Len(launch') = Len(ls) /\ DOMAIN launch' = DOMAIN ls
        /\ \A k \in DOMAIN ls : k # l => launch'[k] = ls[k]
        /\ launch'[l].run = ls[l].run /\ launch'[l].st = ls[l].st /\ launch'[l].queue = ls[l].queue
        /\ launch'[l].goal = ls[l].goal /\ launch'[l].ready = ls[l].ready /\ launch'[l].create = ls[l].create
        /\ launch'[l].gate /\ launch'[l].ack = ls[l].ack
    BY <2>1, <2>2, <2>3, <2>4, OpenedExtends
  <2>6. \A k \in DOMAIN launch : Extended(launch[k], launch'[k], Stop)
    BY <2>3, <2>4, <2>5 DEF Extended
  <2>7. Registered'
    <3>1. \A k \in DOMAIN launch : launch'[k].run = launch[k].run
      BY <2>6 DEF Extended
    <3>2. active' = active /\ Len(launch') = Len(launch) /\ launch \in Seq(Launches) /\ Registered
      <4>1. launch \in Seq(Launches) /\ Registered
        BY DEF AppInv, Typed
      <4>2. Len(launch') = Len(launch)
        BY <2>3, <2>5
      <4> QED
        BY <1>1, <4>1, <4>2
    <3>3. ASSUME NEW r \in Runs, active[r] # 0 PROVE launch'[active[r]].run = r
      <4>1. active[r] \in DOMAIN launch /\ launch[active[r]].run = r
        BY <3>2, <3>3 DEF Registered
      <4> QED
        BY <3>1, <4>1
    <3> QED
      BY <3>2, <3>3 DEF Registered
  <2>8. ASSUME NEW k \in DOMAIN launch, k = l, Loose(launch'[k]) PROVE Reached(k)'
    <3>1. launch[k].queue \in Seq(Message)
      BY Parts DEF AppInv, Launches
    <3>2. launch'[k].queue = Append(launch[k].queue, Stop)
      BY <2>3, <2>5, <2>6, <2>8 DEF Extended, Loose
    <3>3. \E i \in DOMAIN launch'[k].queue : launch'[k].queue[i] = Stop
      <4>1. Len(launch[k].queue) + 1 \in DOMAIN launch'[k].queue
        BY <3>1, <3>2
      <4> QED
        BY <3>1, <3>2, <4>1
    <3> QED
      BY <3>3 DEF Reached
  <2>9. \A k \in DOMAIN launch : k # l => launch'[k] = launch[k]
    BY <2>3, <2>4, <2>5
  <2>10. Len(launch') = Len(launch)
    BY <2>3, <2>5
  <2> QED
    BY <1>1, <1>2, <1>3, <2>5, <2>6, <2>7, <2>8, <2>9, <2>10, IdleRequest, StopMessage, RequestMoves
<1> QED
  BY <1>4, <1>5

\* What a composition puts into the queue of its launch.
LEMMA FirstCommands ==
    ASSUME NEW q \in Request
    PROVE  /\ FirstCommand(q) \in Seq(Message)
           /\ \A i \in DOMAIN FirstCommand(q) :
                 q.kind = "accept" /\ FirstCommand(q)[i] = [kind |-> "accept", id |-> q.id]
<1> DEFINE m == [kind |-> "accept", id |-> q.id]
<1>1. m \in Message
  BY DEF Message, Controls, Request
<1>2. CASE FirstCommand(q) = <<m>> /\ q.kind = "accept"
  <2> HIDE DEF m
  <2>1. <<m>> \in Seq(Message) /\ \A i \in DOMAIN <<m>> : <<m>>[i] = m
    BY <1>1
  <2> QED
    BY <1>2, <2>1 DEF m
<1>3. CASE FirstCommand(q) = <<>>
  BY <1>3
<1> QED
  BY <1>2, <1>3 DEF FirstCommand

\* A new launch.
LEMMA ComposeKeeps ==
    ASSUME AppInv, NEW c \in Callers, Compose(c) PROVE AppInv'
<1> USE DEF AppInv
<1> DEFINE x == NewLaunch(req[c].run, req[c].kind, req[c].seen, FirstCommand(req[c]))
           n == Len(launch) + 1
           q == [req[c] EXCEPT !.pc = "ready", !.launch = n]
<1>1. /\ launch' = Append(launch, x) /\ req' = [req EXCEPT ![c] = q]
      /\ UNCHANGED <<log, lease, reserved, active, monitors, asked>>
  BY DEF Compose, durable, runOf
<1>2. /\ req[c].pc = "compose" /\ req[c] \in Request /\ req[c].run \in Runs /\ req[c].answer = "none"
      /\ Placed(req[c], launch, log, asked) /\ Len(launch) \in Nat /\ DOMAIN launch = 1 .. Len(launch)
      /\ launch \in Seq(Launches)
  BY Parts DEF Compose, at, Coherent, Placed, Typed
<1>3. /\ q \in Request /\ q.kind = req[c].kind /\ q.run = req[c].run /\ q.id = req[c].id
      /\ q.pc = "ready" /\ q.launch = n /\ q.answer = "none"
  <2>1. n \in Nat
    BY <1>2
  <2> HIDE DEF n
  <2> QED
    BY <1>2, <2>1 DEF Request, PCs
<1>4. /\ x \in Launches /\ x.run = req[c].run /\ x.st = "acquire" /\ x.ready = "none" /\ ~x.gate
      /\ x.queue = FirstCommand(req[c]) /\ (req[c].kind \in Creations => x.create)
  <2>1. FirstCommand(req[c]) \in Seq(Message) /\ req[c].seen \in Nat
    BY <1>2, FirstCommands DEF Request
  <2>2. (req[c].kind \in Creations) \in BOOLEAN
    OBVIOUS
  <2> QED
    BY <1>2, <2>1, <2>2 DEF NewLaunch, Launches, Stages, Working, Readiness, Terminals
<1> HIDE DEF x, q
<1>5. /\ launch' \in Seq(Launches) /\ Len(launch') = n /\ DOMAIN launch' = 1 .. n /\ launch'[n] = x
      /\ \A k \in DOMAIN launch : launch'[k] = launch[k] /\ k # n
  BY <1>1, <1>2, <1>4
<1>6. \A k \in DOMAIN launch' : k \in DOMAIN launch \/ k = n
  BY <1>2, <1>5
<1>7. req'[c] = q /\ \A d \in Callers : d # c => req'[d] = req[d]
  BY <1>1 DEF Typed
<1>8. Typed'
  BY <1>1, <1>2, <1>3, <1>5 DEF Typed
<1>9. Coherent'
  <2>1. Sound(x, log, asked)
    <3>1. \A i \in DOMAIN x.queue : Known(x.queue[i], asked)
      BY <1>2, <1>4, FirstCommands DEF Known, Placed, Controls
    <3>2. req[c].kind \notin Creations => log[req[c].run] # <<>>
      BY <1>2 DEF Placed
    <3> QED
      BY <1>4, <3>1, <3>2 DEF Sound, Gated
  <2>2. \A k \in DOMAIN launch' : Sound(launch'[k], log, asked)
    BY <1>5, <1>6, <2>1 DEF Coherent
  <2>3. Placed(q, launch', log, asked)
    BY <1>2, <1>3, <1>4, <1>5 DEF Placed
  <2>4. ASSUME NEW d \in Callers, d # c PROVE Placed(req[d], launch', log, asked)
    <3>1. Placed(req[d], launch, log, asked)
      BY DEF Coherent
    <3> QED
      BY <3>1, <1>2, <1>5 DEF Placed
  <2> QED
    BY <1>1, <1>7, <2>2, <2>3, <2>4 DEF Coherent
<1>10. Leased'
  <2>1. \A r \in Runs : lease[r] \in 0 .. Len(launch) /\ lease[r] # n
    BY <1>2 DEF Leased
  <2>2. x.st \notin Working
    BY <1>4 DEF Working
  <2> QED
    BY <1>1, <1>2, <1>5, <1>6, <2>1, <2>2 DEF Leased
<1>11. Registered'
  BY <1>1, <1>2, <1>5 DEF Registered
<1>12. Attended'
  <2> SUFFICES ASSUME NEW k \in DOMAIN launch', Loose(launch'[k]) PROVE Reached(k)'
    BY DEF Attended
  <2>1. k \in DOMAIN launch /\ launch'[k] = launch[k]
    BY <1>4, <1>5, <1>6 DEF Loose
  <2>2. Reached(k)
    BY <2>1 DEF Attended
  <2>3. \A d \in Callers : at(d, "register") => d # c
    BY <1>2 DEF at
  <2> QED
    BY <1>1, <1>7, <2>1, <2>2, <2>3 DEF Reached, at
<1>13. Single'
  <2>1. \A d \in Callers : req'[d].kind = req[d].kind /\ req'[d].id = req[d].id
    BY <1>3, <1>7
  <2> QED
    BY <1>1, <2>1 DEF Withheld, Single
<1>14. ASSUME NEW d \in Callers PROVE KeptOut(req'[d], launch', log', asked')
  <2>1. CASE d = c
    BY <1>3, <1>7, <2>1 DEF KeptOut
  <2>2. CASE d # c
    <3> SUFFICES ASSUME req[d].kind \in {"steer", "cancel"}, asked[req[d].id].copies = 1
                 PROVE  KeptOut(req[d], launch', log, asked)
      BY <1>1, <1>7, <2>2 DEF KeptOut
    <3>1. ~Carries(x, req[d].id)
      <4>1. asked[req[d].id].kind # "accept"
        BY DEF Coherent, Placed, Controls
      <4>2. \A i \in DOMAIN x.queue : req[c].kind = "accept" /\ x.queue[i].id = req[c].id
        BY <1>2, <1>4, FirstCommands
      <4>3. req[c].kind = "accept" => asked[req[c].id].kind = "accept"
        BY <1>2 DEF Placed, Controls
      <4> QED
        BY <4>1, <4>2, <4>3 DEF Carries
    <3>2. KeptOut(req[d], launch, log, asked)
      BY DEF Withheld
    <3>3. Unsent(launch, req[d].id) => Unsent(launch', req[d].id)
      BY <1>5, <1>6, <3>1 DEF Unsent
    <3>4. \A k \in DOMAIN launch' : Carries(launch'[k], req[d].id) => k \in DOMAIN launch /\ Carries(launch[k], req[d].id)
      BY <1>5, <1>6, <3>1
    <3> QED
      BY <3>2, <3>3, <3>4 DEF KeptOut
  <2> QED
    BY <2>1, <2>2
<1> QED
  BY <1>8, <1>9, <1>10, <1>11, <1>12, <1>13, <1>14 DEF Withheld

\* A wake-up.
LEMMA WakeNudges ==
    ASSUME NEW q \in [Callers -> Request]
    PROVE  Wake(q) \in [Callers -> Request] /\ \A c \in Callers : Nudged(q[c], Wake(q)[c])
<1>1. ASSUME NEW c \in Callers
      PROVE  LET p == Wake(q)[c] IN p \in Request /\ Nudged(q[c], p)
  <2>1. CASE q[c].pc \in Armed
    <3> DEFINE z == q[c] p == [z EXCEPT !.rung = TRUE]
    <3>1. z \in Request
      OBVIOUS
    <3> HIDE DEF z
    <3>2. /\ p \in Request /\ p.kind = z.kind /\ p.run = z.run /\ p.id = z.id
          /\ p.pc = z.pc /\ p.launch = z.launch /\ p.answer = z.answer
      BY <3>1 DEF Request
    <3>3. Wake(q)[c] = p
      BY <2>1 DEF Wake, z
    <3> HIDE DEF p
    <3> QED
      BY <3>2, <3>3 DEF Nudged, z
  <2>2. CASE q[c].pc \notin Armed
    <3>1. Wake(q)[c] = q[c] /\ q[c] \in Request
      BY <2>2 DEF Wake
    <3> QED
      BY <3>1 DEF Nudged
  <2> QED
    BY <2>1, <2>2
<1>2. Wake(q) = [c \in Callers |-> Wake(q)[c]]
  BY DEF Wake
<1> QED
  BY <1>1, <1>2

\* A launch that was retired had ended: nobody has to reach it any more.
LEMMA MonitorKeeps ==
    ASSUME AppInv, NEW l \in DOMAIN launch, Monitor(l) PROVE AppInv'
<1> USE DEF AppInv
<1>1. /\ launch[l].st = "over" /\ active' = [active EXCEPT ![launch[l].run] = IF @ = l THEN 0 ELSE @]
      /\ monitors' \subseteq monitors /\ UNCHANGED <<log, lease, reserved, launch, asked>> /\ req' = Wake(req)
  BY DEF Monitor, Over, Retired, durable
<1>2. /\ Len(launch) \in Nat /\ DOMAIN launch = 1 .. Len(launch)
      /\ \A k \in DOMAIN launch : launch[k].run \in Runs
  BY Parts
<1>3. req' \in [Callers -> Request] /\ \A c \in Callers : Nudged(req[c], req'[c])
  BY <1>1, WakeNudges DEF Typed
<1>4. \A r \in Runs : active'[r] = active[r] \/ (active[r] = l /\ active'[r] = 0)
  BY <1>1 DEF Typed
<1>5. active' \in [Runs -> Nat]
  BY <1>1 DEF Typed
<1>6. Typed'
  BY <1>1, <1>3, <1>5 DEF Typed
<1>7. \A c \in Callers : /\ req'[c].kind = req[c].kind /\ req'[c].run = req[c].run /\ req'[c].id = req[c].id
                         /\ req'[c].pc = req[c].pc /\ req'[c].launch = req[c].launch
                         /\ req'[c].answer = req[c].answer
  <2> SUFFICES ASSUME NEW c \in Callers
               PROVE  /\ req'[c].kind = req[c].kind /\ req'[c].run = req[c].run /\ req'[c].id = req[c].id
                      /\ req'[c].pc = req[c].pc /\ req'[c].launch = req[c].launch
                      /\ req'[c].answer = req[c].answer
    OBVIOUS
  <2>1. req[c] \in Request
    BY Parts
  <2>2. req'[c] = IF req[c].pc \in Armed THEN [req[c] EXCEPT !.rung = TRUE] ELSE req[c]
    BY <1>1 DEF Wake
  <2> QED
    BY <2>1, <2>2 DEF Request
<1>8. Coherent'
  BY <1>1, <1>7 DEF Coherent, Placed
<1>9. Leased'
  BY <1>1 DEF Leased
<1>10. Registered'
  BY <1>1, <1>4 DEF Registered
<1>11. Attended'
  <2> SUFFICES ASSUME NEW k \in DOMAIN launch, Loose(launch[k]) PROVE Reached(k)'
    BY <1>1 DEF Attended
  <2>1. Reached(k) /\ k # l
    BY <1>1 DEF Attended, Loose
  <2> QED
    BY <1>1, <1>2, <1>4, <1>7, <2>1 DEF Reached, at
<1>12. Withheld'
  BY <1>1, <1>7 DEF Withheld, Single, KeptOut
<1> QED
  BY <1>6, <1>8, <1>9, <1>10, <1>11, <1>12

\* A launch whose task has ended.
LEMMA ClosedFields ==
    ASSUME NEW x \in Launches, NEW ready \in Readiness
    PROVE  LET y == Closed(x, ready) IN
           y \in Launches /\ y.run = x.run /\ y.st = "over" /\ y.queue = <<>> /\ y.ready = ready
<1>1. x.run \in Runs /\ <<>> \in Seq(Message)
  BY DEF Launches
<1> DEFINE b == "none" \in Creations
<1>2. b \in BOOLEAN
  OBVIOUS
<1> DEFINE n == NewLaunch(x.run, "none", 0, <<>>)
<1>3. n = [run |-> x.run, create |-> b, expected |-> 0, queue |-> <<>>, st |-> "acquire",
           ready |-> "none", gate |-> FALSE, told |-> TRUE, ack |-> 0, goal |-> "none"]
  BY DEF NewLaunch
<1>4. Closed(x, ready) = [n EXCEPT !.st = "over", !.ready = ready, !.gate = TRUE]
  BY DEF Closed
<1> HIDE DEF b, n
<1>5. n \in Launches /\ n.run = x.run /\ n.queue = <<>>
  BY <1>1, <1>2, <1>3 DEF Launches, Stages, Readiness
<1> QED
  BY <1>4, <1>5 DEF Launches, Stages

\* The death of the process.
LEMMA RestartKeeps == ASSUME AppInv, Restart PROVE AppInv'
<1> USE DEF AppInv
<1>1. /\ lease' = [r \in Runs |-> 0] /\ active' = [r \in Runs |-> 0] /\ monitors' = {}
      /\ req' = [c \in Callers |-> Idle] /\ UNCHANGED <<log, reserved, asked>>
      /\ launch' = [l \in DOMAIN launch |-> Closed(launch[l], "none")]
  BY DEF Restart
<1>2. \A l \in DOMAIN launch : LET y == Closed(launch[l], "none") IN
          y \in Launches /\ y.run = launch[l].run /\ y.st = "over" /\ y.queue = <<>> /\ y.ready = "none"
  BY Parts, ClosedFields DEF Readiness
<1>3. Len(launch) \in Nat /\ DOMAIN launch = 1 .. Len(launch)
  BY Parts
<1>4. /\ launch' \in Seq(Launches) /\ DOMAIN launch' = DOMAIN launch /\ Len(launch') = Len(launch)
      /\ \A l \in DOMAIN launch : launch'[l].st = "over" /\ launch'[l].queue = <<>> /\ launch'[l].ready = "none"
  BY <1>1, <1>2, <1>3
<1>5. \A c \in Callers : req'[c] = Idle
  BY <1>1
<1>6. Typed'
  BY <1>1, <1>4, IdleRequest DEF Typed
<1>7. Coherent'
  <2>1. Placed(Idle, launch', log, asked)
    BY <1>3, <1>4, IdleRequest DEF Placed, Controls
  <2>2. \A l \in DOMAIN launch' : Sound(launch'[l], log, asked)
    BY <1>4 DEF Sound, Gated
  <2> QED
    BY <1>1, <1>5, <2>1, <2>2 DEF Coherent
<1>8. Leased'
  BY <1>1, <1>3, <1>4 DEF Leased, Working
<1>9. Registered'
  BY <1>1, <1>3, <1>4 DEF Registered
<1>10. Attended'
  BY <1>4 DEF Attended, Loose
<1>11. Withheld'
  BY <1>5, IdleRequest DEF Withheld, Single, KeptOut, Controls
<1> QED
  BY <1>6, <1>7, <1>8, <1>9, <1>10, <1>11

-----------------------------------------------------------------------------
(* New requests *)

\* A new request, by its fields.
LEMMA NewRequests ==
    ASSUME NEW kind \in Kinds \cup {"wait", "get"}, NEW r \in Runs, NEW source \in Runs \cup {None},
           NEW id \in Nat, NEW after \in Nat
    PROVE  LET q == NewRequest(kind, r, source, id, after) IN
           /\ q \in Request /\ q.kind = kind /\ q.run = r /\ q.id = id
           /\ q.pc \in {"reserve", "read", "get", "load"} /\ q.launch = 0 /\ q.answer = "none"
<1> DEFINE pc == IF kind \in {"start", "recover"} THEN "reserve"
                 ELSE IF kind = "wait" THEN "read" ELSE IF kind = "get" THEN "get" ELSE "load"
<1>1. pc \in {"reserve", "read", "get", "load"}
  OBVIOUS
<1>2. NewRequest(kind, r, source, id, after) =
          [Idle EXCEPT !.kind = kind, !.run = r, !.source = source, !.id = id, !.after = after, !.pc = pc]
  BY DEF NewRequest
<1> HIDE DEF pc
<1>3. NewRequest(kind, r, source, id, after) =
          [kind |-> kind, run |-> r, source |-> source, id |-> id, after |-> after, pc |-> pc,
           seen |-> 0, launch |-> 0, rung |-> FALSE, answer |-> "none"]
  BY <1>2 DEF Idle
<1>4. pc \in PCs /\ "none" \in Answers
  BY <1>1 DEF PCs, Answers, Readiness
<1>5. NewRequest(kind, r, source, id, after) \in Request
  BY <1>3, <1>4 DEF Request
<1> QED
  BY <1>1, <1>3, <1>5

\* Every request but a creation is about a run that exists.
Founded(kind, r) == kind \notin Creations => log[r] # <<>>

\* A request without a command.
LEMMA BeginKeeps ==
    ASSUME AppInv, NEW c \in Callers, NEW kind \in (Kinds \cup {"wait", "get"}) \ Controls, NEW r \in Runs,
           NEW source \in Runs \cup {None}, NEW id \in Nat, NEW after \in Nat,
           Begin(c, kind, r, source, id, after), asked' = asked, Founded(kind, r)
    PROVE  AppInv'
<1> DEFINE q == NewRequest(kind, r, source, id, after)
<1>1. /\ q \in Request /\ q.kind = kind /\ q.run = r
      /\ q.pc \in {"reserve", "read", "get", "load"} /\ q.launch = 0 /\ q.answer = "none"
  BY NewRequests
<1>2. /\ req' = [req EXCEPT ![c] = q] /\ req[c].pc # "register"
      /\ UNCHANGED <<log, lease, reserved, launch, active, monitors, asked>>
  BY DEF Begin, Free, durable, process
<1> HIDE DEF q
<1>3. Placed(q, launch, log, asked) /\ KeptOut(q, launch, log, asked) /\ reserved' \subseteq Runs
  BY <1>1, <1>2, Parts, SMTT(30) DEF AppInv, Typed, Placed, KeptOut, Controls, Founded
<1> QED
  BY <1>1, <1>2, <1>3, RequestAlone

\* The request of a command, by its fields.
LEMMA ControlRequest ==
    ASSUME NEW kind \in Kinds \cup {"wait", "get"}, NEW r \in Runs, NEW id \in Nat
    PROVE  LET q == NewRequest(kind, r, None, id, 0) IN
           /\ q \in Request /\ q.kind = kind /\ q.run = r /\ q.id = id /\ q.launch = 0 /\ q.answer = "none"
           /\ q.pc \in {"reserve", "read", "get", "load"}
<1>1. PICK a \in Nat : a = 0
  OBVIOUS
<1>2. LET q == NewRequest(kind, r, None, id, a) IN
      /\ q \in Request /\ q.kind = kind /\ q.run = r /\ q.id = id /\ q.launch = 0 /\ q.answer = "none"
      /\ q.pc \in {"reserve", "read", "get", "load"}
  BY NewRequests
<1> QED
  BY <1>1, <1>2

\* A command: a new one, or a copy of an earlier one.
LEMMA ControlKeeps ==
    ASSUME AppInv, NEW c \in Callers, NEW kind \in Controls, NEW r \in Runs,
           NEW id \in 1 .. Len(asked) + 1, NEW about \in Nat, Control(c, kind, r, id, about)
    PROVE  AppInv'
<1> USE DEF AppInv
<1> DEFINE q == NewRequest(kind, r, None, id, 0)
<1>1. Len(asked) \in Nat /\ DOMAIN asked = 1 .. Len(asked) /\ id \in Nat /\ id # 0 /\ Len(launch) \in Nat
  BY Parts
<1>2. /\ q \in Request /\ q.kind = kind /\ q.run = r /\ q.id = id /\ q.launch = 0 /\ q.answer = "none"
      /\ q.pc \in {"reserve", "read", "get", "load"}
  <2>1. kind \in Kinds \cup {"wait", "get"}
    BY DEF Kinds
  <2> QED
    BY <1>1, <2>1, ControlRequest
<1>3. /\ req' = [req EXCEPT ![c] = q] /\ req[c].pc # "register"
      /\ UNCHANGED <<log, lease, reserved, launch, active, monitors>> /\ log[r] # <<>>
  BY DEF Control, Begin, Free, durable, process
<1> HIDE DEF q
<1>4. req'[c] = q /\ \A d \in Callers : d # c => req'[d] = req[d]
  BY <1>3 DEF Typed
<1> DEFINE A == Orders
<1>5. /\ asked' \in Seq(A) /\ Len(asked') \in Nat /\ Len(asked) <= Len(asked')
      /\ id \in 1 .. Len(asked') /\ asked'[id].kind = kind
      /\ \A i \in 1 .. Len(asked) : /\ asked'[i].kind = asked[i].kind
                                    /\ asked'[i].copies = 1 => asked[i].copies = 1 /\ i # id
      /\ asked'[id].copies = 1 => id = Len(asked) + 1
  <2>1. asked \in Seq(A)
    BY DEF Typed
  <2>2. CASE id \in DOMAIN asked
    <3> DEFINE a == asked[id] b == [a EXCEPT !.copies = a.copies + 1]
    <3>1. asked' = [asked EXCEPT ![id] = b] /\ a.kind = kind
      BY <2>2 DEF Control
    <3>2. a \in A
      <4> HIDE DEF A
      <4> QED
        BY <2>1, <2>2
    <3> HIDE DEF a
    <3>3. b \in A /\ b.kind = a.kind /\ b.copies # 1
      BY <3>2 DEF Orders
    <3> HIDE DEF b, A
    <3>4. /\ asked' \in Seq(A) /\ Len(asked') = Len(asked) /\ asked'[id] = b
          /\ \A i \in 1 .. Len(asked) : i # id => asked'[i] = asked[i]
      BY <1>1, <2>1, <2>2, <3>1, <3>3
    <3> QED
      BY <1>1, <2>2, <3>1, <3>3, <3>4 DEF a
  <2>3. CASE id \notin DOMAIN asked
    <3> DEFINE a == [kind |-> kind, run |-> r, copies |-> 1, about |-> about]
    <3>1. asked' = Append(asked, a) /\ id = Len(asked) + 1
      BY <1>1, <2>3 DEF Control
    <3>2. a \in A /\ a.kind = kind
      BY DEF Orders
    <3> HIDE DEF a, A
    <3>3. /\ asked' \in Seq(A) /\ Len(asked') = Len(asked) + 1 /\ asked'[id] = a
          /\ \A i \in 1 .. Len(asked) : asked'[i] = asked[i]
      BY <1>1, <2>1, <3>1, <3>2
    <3> QED
      BY <1>1, <3>1, <3>2, <3>3
  <2> QED
    BY <2>2, <2>3
<1>6. Typed'
  BY <1>2, <1>3, <1>5 DEF Typed
<1>7. Coherent'
  <2>1. \A l \in DOMAIN launch : Sound(launch[l], log, asked')
    <3>1. ASSUME NEW m, Known(m, asked) PROVE Known(m, asked')
      BY <3>1, <1>1, <1>5 DEF Known
    <3>2. \A l \in DOMAIN launch : Sound(launch[l], log, asked)
      BY DEF Coherent
    <3> QED
      BY <3>1, <3>2 DEF Sound
  <2>2. Placed(q, launch', log, asked')
    BY <1>1, <1>2, <1>3, <1>5 DEF Placed, Controls
  <2>3. ASSUME NEW d \in Callers, d # c PROVE Placed(req[d], launch, log, asked')
    <3>1. Placed(req[d], launch, log, asked)
      BY DEF Coherent
    <3> QED
      BY <3>1, <1>1, <1>5, SMTT(30) DEF Placed
  <2>4. \A t \in Runs : \A i \in DOMAIN log[t] : log[t][i].id \in 0 .. Len(asked')
    BY <1>1, <1>5 DEF Coherent
  <2> QED
    BY <1>3, <1>4, <2>1, <2>2, <2>3, <2>4 DEF Coherent
<1>8. Leased'
  BY <1>3 DEF Leased
<1>9. Registered'
  BY <1>3 DEF Registered
<1>10. Attended'
  <2>1. \A d \in Callers : at(d, "register") => d # c
    BY <1>3 DEF at
  <2> QED
    BY <1>3, <1>4, <2>1 DEF Attended, Reached, at
<1>11. Single'
  <2> SUFFICES ASSUME NEW d \in Callers, NEW e \in Callers, d # e,
                      req'[d].kind \in Controls, req'[e].kind \in Controls,
                      req'[d].id = req'[e].id, asked'[req'[d].id].copies = 1
               PROVE  FALSE
    BY DEF Single
  <2>1. ASSUME NEW f \in Callers, f # c, req[f].kind \in Controls
        PROVE  req[f].id \in 1 .. Len(asked)
    BY <2>1 DEF Coherent, Placed
  <2>2. CASE d # c /\ e # c
    <3>1. req'[d] = req[d] /\ req'[e] = req[e]
      BY <1>4, <2>2
    <3>2. asked[req[d].id].copies = 1
      BY <1>5, <2>1, <2>2, <3>1
    <3> QED
      BY <3>1, <3>2 DEF Withheld, Single
  <2>3. CASE d = c
    BY <1>1, <1>2, <1>4, <1>5, <2>1, <2>3
  <2>4. CASE e = c
    BY <1>1, <1>2, <1>4, <1>5, <2>1, <2>4
  <2> QED
    BY <2>2, <2>3, <2>4
<1>12. ASSUME NEW d \in Callers PROVE KeptOut(req'[d], launch, log, asked')
  <2>1. CASE d # c
    <3>1. KeptOut(req[d], launch, log, asked) /\ Placed(req[d], launch, log, asked)
      BY DEF Withheld, Coherent
    <3> QED
      BY <1>4, <1>5, <2>1, <3>1 DEF KeptOut, Placed, Controls
  <2>2. CASE d = c
    <3> SUFFICES ASSUME asked'[id].copies = 1 PROVE KeptOut(q, launch, log, asked')
      BY <1>2, <1>4, <2>2 DEF KeptOut
    <3>1. id = Len(asked) + 1
      BY <1>5
    <3>2. \A l \in DOMAIN launch : ~Carries(launch[l], id)
      BY <1>1, <3>1 DEF Coherent, Sound, Known, Carries
    <3>3. \A t \in Runs : ~Receipt(log[t], id)
      BY <1>1, <3>1 DEF Coherent, Receipt
    <3> QED
      BY <1>2, <3>2, <3>3 DEF KeptOut, Unsent
  <2> QED
    BY <2>1, <2>2
<1> QED
  BY <1>3, <1>6, <1>7, <1>8, <1>9, <1>10, <1>11, <1>12 DEF Withheld

-----------------------------------------------------------------------------
(* Launches *)

\* A request that nothing happens to.
LEMMA Undisturbed ==
    ASSUME Typed, req' = req
    PROVE  req' \in [Callers -> Request] /\ \A c \in Callers : Nudged(req[c], req'[c])
  BY DEF Typed, Nudged

\* A launch whose task ends before it holds the lease, or gives the lease up.
LEMMA ClosingStep ==
    ASSUME AppInv, NEW l \in DOMAIN launch, NEW x \in Launches, NEW r \in Runs,
           r = launch[l].run, x.run = r, x.st = "over", DOMAIN x.queue = {}, x.queue = <<>>,
           launch' = [launch EXCEPT ![l] = x],
           UNCHANGED <<log, reserved, active, monitors, asked>>,
           lease' \in [Runs -> Nat], \A t \in Runs : t # r => lease'[t] = lease[t],
           lease'[r] # l, lease'[r] = lease[r] \/ (lease[r] = l /\ lease'[r] = 0),
           req' \in [Callers -> Request], \A c \in Callers : Nudged(req[c], req'[c])
    PROVE  AppInv'
<1>1. x.st \notin Working /\ ~Loose(x) /\ Gated(x)
  BY DEF Working, Loose, Gated
<1>2. log' \in [Runs -> Seq(Events)] /\ \A t \in Runs : log'[t] = log[t]
  BY DEF AppInv, Typed
<1>3. lease'[r] = l <=> x.st \in Working
  BY <1>1
<1> QED
  BY <1>1, <1>2, <1>3, LaunchMoves

Closes(l, ready) ==
    /\ launch' = [launch EXCEPT ![l] = Closed(launch[l], ready)]
    /\ \/ launch[l].st \notin Working /\ lease' = lease
       \/ launch[l].st \in Working /\ lease' = [lease EXCEPT ![launch[l].run] = 0]

LEMMA ClosingKeeps ==
    ASSUME AppInv, NEW l \in DOMAIN launch, NEW ready \in Readiness, Closes(l, ready),
           UNCHANGED <<log, reserved, active, monitors, asked>>,
           req' \in [Callers -> Request], \A c \in Callers : Nudged(req[c], req'[c])
    PROVE  AppInv'
<1> DEFINE x == Closed(launch[l], ready) r == launch[l].run
<1>1. launch[l] \in Launches /\ r \in Runs /\ l # 0
  BY Parts DEF AppInv
<1>2. x \in Launches /\ x.run = r /\ x.st = "over" /\ x.queue = <<>>
  BY <1>1, ClosedFields
<1>3. launch' = [launch EXCEPT ![l] = x]
  BY DEF Closes
<1> HIDE DEF x
<1>4. /\ lease' \in [Runs -> Nat] /\ (\A t \in Runs : t # r => lease'[t] = lease[t]) /\ lease'[r] # l
      /\ lease'[r] = lease[r] \/ (lease[r] = l /\ lease'[r] = 0)
  <2>1. lease[r] = l <=> launch[l].st \in Working
    BY <1>1 DEF AppInv, Leased
  <2>2. CASE launch[l].st \notin Working /\ lease' = lease
    BY <1>1, <2>1, <2>2 DEF AppInv, Typed
  <2>3. CASE launch[l].st \in Working /\ lease' = [lease EXCEPT ![r] = 0]
    BY <1>1, <2>1, <2>3 DEF AppInv, Typed
  <2> QED
    BY <2>2, <2>3 DEF Closes
<1>5. r = launch[l].run
  OBVIOUS
<1>6. DOMAIN x.queue = {}
  BY <1>2
<1> HIDE DEF r
<1> QED
  BY <1>1, <1>2, <1>3, <1>4, <1>5, <1>6, ClosingStep

\* A launch that takes the lease.
LEMMA HoldKeeps ==
    ASSUME AppInv, NEW l \in DOMAIN launch, launch[l].st = "acquire", Hold(l),
           lease[launch[l].run] = 0, UNCHANGED <<reserved, active, monitors, asked>>,
           \/ log' = log /\ log[launch[l].run] # <<>>
           \/ log[launch[l].run] = <<>> /\ log' = [log EXCEPT ![launch[l].run] = <<Event("created", 0)>>]
    PROVE  AppInv'
<1> DEFINE z == launch[l] r == launch[l].run x == [z EXCEPT !.ready = "ok", !.st = "gated"]
<1>1. z \in Launches /\ r \in Runs /\ l # 0 /\ l \in Nat
  BY Parts DEF AppInv
<1>2. /\ x \in Launches /\ x.run = z.run /\ x.st = "gated" /\ x.queue = z.queue /\ x.ready = "ok"
      /\ x.gate = z.gate
  <2> HIDE DEF z
  <2> QED
    BY <1>1 DEF Launches, Stages, Working, Readiness
<1>3. launch' = [launch EXCEPT ![l] = x] /\ lease' = [lease EXCEPT ![r] = l] /\ req' = Wake(req)
  BY DEF Hold
<1> HIDE DEF x
<1>4. x.st \in Working /\ (Loose(x) => Loose(z)) /\ Gated(x)
  BY <1>2 DEF Working, Loose, Gated
<1>5. lease' \in [Runs -> Nat] /\ (\A t \in Runs : t # r => lease'[t] = lease[t]) /\ lease'[r] = l
  BY <1>1, <1>3 DEF AppInv, Typed
<1>6. req' \in [Callers -> Request] /\ \A c \in Callers : Nudged(req[c], req'[c])
  BY <1>3, WakeNudges DEF AppInv, Typed
<1>7. /\ log' \in [Runs -> Seq(Events)] /\ (\A t \in Runs : t # r => log'[t] = log[t])
      /\ log'[r] # <<>> /\ (log'[r] = log[r] \/ Appended(l, r))
  <2>1. CASE log' = log /\ log[r] # <<>>
    BY <1>1, <2>1 DEF AppInv, Typed
  <2>2. CASE log[r] = <<>> /\ log' = [log EXCEPT ![r] = <<Event("created", 0)>>]
    <3> DEFINE e == Event("created", 0)
    <3>1. e \in Events /\ e.id = 0
      BY DEF Event, Events
    <3> HIDE DEF e
    <3>2. <<e>> \in Seq(Events) /\ <<e>> = Append(<<>>, e) /\ <<e>> # <<>>
      BY <3>1
    <3>3. log' = [log EXCEPT ![r] = <<e>>]
      BY <2>2 DEF e
    <3>4. log'[r] = <<e>>
      BY <1>1, <3>3 DEF AppInv, Typed
    <3>5. Appended(l, r)
      BY <2>2, <3>1, <3>2, <3>4 DEF Appended
    <3> HIDE DEF r
    <3> QED
      BY <1>1, <3>2, <3>3, <3>4, <3>5 DEF AppInv, Typed
  <2> QED
    BY <2>1, <2>2
<1>8. lease[r] = 0 /\ r = launch[l].run
  OBVIOUS
<1> HIDE DEF r
<1>9. lease'[r] = l <=> x.st \in Working
  BY <1>4, <1>5
<1>10. /\ x.st = "acquire" => launch[l].st = "acquire" /\ x.create = launch[l].create
       /\ x.st = "over" => x.queue = <<>>
       /\ x.st = "end" => x.goal \in Terminals
       /\ x.ready \notin {"none", "ok"} => x.st = "over"
       /\ \A i \in DOMAIN x.queue : \E j \in DOMAIN launch[l].queue : x.queue[i] = launch[l].queue[j]
       /\ Loose(x) => \A i \in DOMAIN launch[l].queue : launch[l].queue[i] = Stop =>
                          \E j \in DOMAIN x.queue : x.queue[j] = Stop
  BY <1>2
<1> QED
  BY <1>1, <1>2, <1>3, <1>4, <1>5, <1>6, <1>7, <1>8, <1>9, <1>10, LaunchMoves, ZenonT(60)

\* run_launch: create or acquire the run.
LEMMA AcquireKeeps ==
    ASSUME AppInv, NEW l \in DOMAIN launch, Acquire(l) PROVE AppInv'
<1> DEFINE r == launch[l].run
<1>1. launch[l].st = "acquire" /\ UNCHANGED <<active, monitors, asked>> /\ r \in Runs
  BY Parts DEF AppInv, Acquire
<1>2. launch[l].st \notin Working
  BY <1>1 DEF Working
<1>3. ASSUME NEW error \in Readiness, Refuse(l, error) PROVE AppInv'
  <2>1. launch' = [launch EXCEPT ![l] = Closed(@, error)] /\ UNCHANGED <<log, lease, reserved, req>>
    BY <1>3 DEF Refuse, durable
  <2>2. Typed
    BY DEF AppInv
  <2> QED
    BY <1>1, <1>2, <2>1, <2>2, Undisturbed, ClosingKeeps DEF Closes
<1>4. ASSUME NEW ready \in Readiness, Withdraw(l, ready) PROVE AppInv'
  <2>1. launch' = [launch EXCEPT ![l] = Closed(@, ready)] /\ UNCHANGED <<log, lease, reserved>> /\ req' = Wake(req)
    BY <1>4 DEF Withdraw, durable
  <2>2. req \in [Callers -> Request]
    BY DEF AppInv, Typed
  <2> QED
    BY <1>1, <1>2, <2>1, <2>2, WakeNudges, ClosingKeeps DEF Closes
<1>5. log[r] = <<>> => lease[r] = 0
  BY <1>1 DEF AppInv, Leased
<1>6. CASE Hold(l) /\ log[r] = <<>> /\ log' = [log EXCEPT ![r] = <<Event("created", 0)>>] /\ UNCHANGED reserved
  BY <1>1, <1>5, <1>6, HoldKeeps
<1>7. CASE Hold(l) /\ lease[r] = 0 /\ ~launch[l].create /\ UNCHANGED <<log, reserved>>
  <2>1. log[r] # <<>>
    BY <1>1, <1>7 DEF AppInv, Coherent, Sound
  <2> QED
    BY <1>1, <1>7, <2>1, HoldKeeps
<1> QED
  BY <1>3, <1>4, <1>6, <1>7 DEF Acquire, Readiness

\* Launch z goes on as x, with the same queue or without the head of its queue.
GoesOn(z, x) ==
    /\ x.run = z.run /\ x.ready = z.ready /\ x.create = z.create /\ x.gate = z.gate
    /\ \/ x.st = z.st
       \/ z.st \in Working \ {"leave", "end"} /\ x.st \in Working \ {"gated"}
    /\ x.st = "end" => x.goal \in Terminals
    /\ z.st = "gated" /\ x.st # "gated" => z.gate
    /\ \/ x.queue = z.queue
       \/ z.st # "over" /\ z.queue # <<>> /\ x.queue = Tail(z.queue) /\ (Head(z.queue) = Stop => x.st = "end")

\* What a launch appends to the log of its run.
Grows(l) ==
    \/ log' = log
    \/ \E e \in Events :
          /\ log' = [log EXCEPT ![launch[l].run] = Append(log[launch[l].run], e)]
          /\ e.id = 0 \/ Carries(launch[l], e.id)

LEMMA GrowingLog ==
    ASSUME AppInv, NEW l \in DOMAIN launch, NEW r \in Runs, r = launch[l].run, Grows(l)
    PROVE  /\ log' \in [Runs -> Seq(Events)] /\ (\A t \in Runs : t # r => log'[t] = log[t])
           /\ log'[r] = log[r] \/ Appended(l, r)
<1>1. CASE log' = log
  BY <1>1 DEF AppInv, Typed
<1>2. CASE log' # log
  <2>1. PICK e \in Events : /\ log' = [log EXCEPT ![r] = Append(log[r], e)]
                            /\ e.id = 0 \/ Carries(launch[l], e.id)
    BY <1>2 DEF Grows
  <2>2. log \in [Runs -> Seq(Events)] /\ log[r] \in Seq(Events)
    BY Parts DEF AppInv, Typed
  <2>3. Append(log[r], e) \in Seq(Events)
    BY <2>2
  <2>4. log'[r] = Append(log[r], e)
    BY <2>1, <2>2
  <2> QED
    BY <2>1, <2>2, <2>3, <2>4 DEF Appended
<1> QED
  BY <1>1, <1>2

\* A step of a launch that keeps its lease.
LEMMA WorkingStep ==
    ASSUME AppInv, NEW l \in DOMAIN launch, NEW x \in Launches, GoesOn(launch[l], x),
           launch' = [launch EXCEPT ![l] = x], UNCHANGED <<lease, reserved, active, monitors, asked>>,
           Grows(l), req' \in [Callers -> Request], \A c \in Callers : Nudged(req[c], req'[c])
    PROVE  AppInv'
<1> DEFINE z == launch[l] r == launch[l].run
<1>1. z \in Launches /\ r \in Runs /\ Sound(z, log, asked) /\ z.queue \in Seq(Message)
  BY Parts DEF AppInv, Coherent, Launches
<1>2. lease[r] = l <=> z.st \in Working
  BY <1>1 DEF AppInv, Leased
<1>3. lease'[r] = l <=> x.st \in Working
  BY <1>2 DEF GoesOn
<1>4. lease' \in [Runs -> Nat] /\ (\A t \in Runs : lease'[t] = lease[t])
  BY DEF AppInv, Typed
<1>5. x.st = "acquire" => z.st = "acquire" /\ x.create = z.create
  BY DEF GoesOn, Working
<1>6. x.st = "over" => x.queue = <<>>
  BY <1>1 DEF GoesOn, Working, Sound
<1>7. (x.st = "end" => x.goal \in Terminals) /\ (x.ready \notin {"none", "ok"} => x.st = "over")
  BY <1>1 DEF GoesOn, Sound, Working
<1>8. Loose(x) => Loose(z)
  BY DEF GoesOn, Loose, Working
<1>9. /\ \A i \in DOMAIN x.queue : \E j \in DOMAIN z.queue : x.queue[i] = z.queue[j]
      /\ Loose(x) => \A i \in DOMAIN z.queue : z.queue[i] = Stop => \E j \in DOMAIN x.queue : x.queue[j] = Stop
  <2>1. CASE x.queue = z.queue
    BY <2>1
  <2>2. CASE z.queue # <<>> /\ x.queue = Tail(z.queue) /\ (Head(z.queue) = Stop => x.st = "end")
    <3>1. /\ \A i \in DOMAIN x.queue : i + 1 \in DOMAIN z.queue /\ x.queue[i] = z.queue[i + 1]
          /\ \A i \in DOMAIN z.queue : i # 1 => i - 1 \in DOMAIN x.queue /\ z.queue[i] = x.queue[i - 1]
          /\ Head(z.queue) = z.queue[1]
      BY <1>1, <2>2
    <3>2. Loose(x) => x.st # "end"
      BY DEF Loose
    <3> QED
      BY <2>2, <3>1, <3>2
  <2> QED
    BY <2>1, <2>2 DEF GoesOn
<1>10. x.run = r
  BY DEF GoesOn
<1>11. r = launch[l].run /\ z = launch[l]
  OBVIOUS
<1>12. /\ log' \in [Runs -> Seq(Events)] /\ (\A t \in Runs : t # r => log'[t] = log[t])
       /\ log'[r] = log[r] \/ Appended(l, r)
  BY <1>1, GrowingLog
<1>13. lease'[r] = lease[r]
  OBVIOUS
<1>14. Gated(x)
  BY <1>1 DEF GoesOn, Sound, Working, Gated
<1> HIDE DEF r
<1> QED
  BY <1>1, <1>3, <1>4, <1>5, <1>6, <1>7, <1>8, <1>9, <1>10, <1>11, <1>12, <1>13, <1>14, LaunchMoves

\* An acknowledgement.
LEMMA AcknowledgedNudges ==
    ASSUME NEW q \in [Callers -> Request], NEW id, NEW a \in {"accepted", "notPending"}
    PROVE  /\ Acknowledged(q, id, a) \in [Callers -> Request]
           /\ \A c \in Callers : Nudged(q[c], Acknowledged(q, id, a)[c])
<1> DEFINE f == Acknowledged(q, id, a)
<1>1. ASSUME NEW c \in Callers
      PROVE  f[c] \in Request /\ Nudged(q[c], f[c])
  <2>1. CASE q[c].pc = "acked" /\ q[c].id = id /\ id # 0
    <3> DEFINE z == q[c] p == Reply(z, a)
    <3>1. z \in Request /\ a \in Answers
      BY DEF Answers
    <3> HIDE DEF z
    <3>2. /\ p \in Request /\ p.kind = z.kind /\ p.run = z.run /\ p.id = z.id
          /\ p.pc = "done" /\ p.launch = 0 /\ p.answer = a
      BY <3>1, Replies
    <3>3. f[c] = p /\ z.pc = "acked"
      BY <2>1 DEF Acknowledged, z
    <3> HIDE DEF p, f
    <3> QED
      BY <3>2, <3>3 DEF Nudged, z
  <2>2. CASE ~(q[c].pc = "acked" /\ q[c].id = id /\ id # 0)
    <3>1. f[c] = q[c] /\ q[c] \in Request
      BY <2>2 DEF Acknowledged
    <3> HIDE DEF f
    <3> QED
      BY <3>1 DEF Nudged
  <2> QED
    BY <2>1, <2>2
<1>2. f = [c \in Callers |-> f[c]]
  BY DEF Acknowledged
<1> HIDE DEF f
<1>3. f \in [Callers -> Request] /\ \A c \in Callers : Nudged(q[c], f[c])
  BY <1>1, <1>2
<1> QED
  BY <1>3 DEF f

\* A wake-up and an acknowledgement.
LEMMA EmitNudges ==
    ASSUME NEW q \in [Callers -> Request], NEW id
    PROVE  /\ Acknowledged(Wake(q), id, "accepted") \in [Callers -> Request]
           /\ \A c \in Callers : Nudged(q[c], Acknowledged(Wake(q), id, "accepted")[c])
<1> DEFINE w == Wake(q) f == Acknowledged(w, id, "accepted")
<1>1. w \in [Callers -> Request] /\ \A c \in Callers : Nudged(q[c], w[c])
  BY WakeNudges
<1> HIDE DEF w
<1>2. f \in [Callers -> Request] /\ \A c \in Callers : Nudged(w[c], f[c])
  BY <1>1, AcknowledgedNudges
<1> HIDE DEF f
<1>3. \A c \in Callers : Nudged(q[c], f[c])
  BY <1>1, <1>2 DEF Nudged
<1> QED
  BY <1>2, <1>3 DEF f, w

\* The sink is told, and the command is acknowledged.
LEMMA EmitKeeps ==
    ASSUME AppInv, NEW l \in DOMAIN launch, Emit(l) PROVE AppInv'
<1> DEFINE z == launch[l] x == [z EXCEPT !.told = TRUE, !.ack = 0]
<1>1. /\ UNCHANGED <<log, lease, reserved, active, monitors, asked>> /\ z \in Launches
      /\ req' = Acknowledged(Wake(req), z.ack, "accepted")
  BY Parts DEF Emit, durable, AppInv
<1>2. req' \in [Callers -> Request] /\ \A c \in Callers : Nudged(req[c], req'[c])
  BY <1>1, EmitNudges DEF AppInv, Typed
<1>3. CASE z.st = "last"
  <2>1. launch' = [launch EXCEPT ![l] = Closed(z, "ok")]
    BY <1>3 DEF Emit
  <2>2. Closes(l, "ok") /\ "ok" \in Readiness
    BY <1>1, <1>3, <2>1 DEF Closes, Working, Readiness
  <2> QED
    BY <1>1, <1>2, <2>2, ClosingKeeps
<1>4. CASE z.st # "last"
  <2>1. launch' = [launch EXCEPT ![l] = x]
    BY <1>4 DEF Emit
  <2>2. /\ x \in Launches /\ x.run = z.run /\ x.ready = z.ready /\ x.create = z.create
        /\ x.gate = z.gate /\ x.queue = z.queue /\ x.st = z.st /\ x.goal = z.goal
    <3> HIDE DEF z
    <3> QED
      BY <1>1 DEF Launches
  <2>3. z.st = "end" => z.goal \in Terminals
    BY DEF AppInv, Coherent, Sound
  <2> HIDE DEF x
  <2>4. GoesOn(z, x) /\ Grows(l)
    BY <1>1, <2>2, <2>3 DEF GoesOn, Grows
  <2> QED
    BY <1>1, <1>2, <2>1, <2>2, <2>4, WorkingStep
<1> QED
  BY <1>3, <1>4

\* What publish changes.
LEMMA CommitFields ==
    ASSUME AppInv, NEW l \in DOMAIN launch, NEW e \in Events, e.id = 0, NEW st \in Stages,
           NEW goal \in Terminals \cup {"none"}, Commit(l, e, st, goal)
    PROVE  /\ Grows(l)
           /\ \E x \in Launches :
                 /\ launch' = [launch EXCEPT ![l] = x]
                 /\ x.run = launch[l].run /\ x.ready = launch[l].ready /\ x.create = launch[l].create
                 /\ x.gate = launch[l].gate /\ x.queue = launch[l].queue /\ x.st = st /\ x.goal = goal
<1> DEFINE z == launch[l] x == [z EXCEPT !.st = st, !.goal = goal, !.told = FALSE, !.ack = 0]
<1>1. z \in Launches
  BY Parts DEF AppInv
<1>2. launch' = [launch EXCEPT ![l] = x] /\ Grows(l)
  BY DEF Commit, Grows
<1>3. /\ x \in Launches /\ x.run = z.run /\ x.ready = z.ready /\ x.create = z.create
      /\ x.gate = z.gate /\ x.queue = z.queue /\ x.st = st /\ x.goal = goal
  <2> HIDE DEF z
  <2> QED
    BY <1>1 DEF Launches
<1> HIDE DEF x
<1> QED
  BY <1>2, <1>3

\* A launch commits an event and works on.
LEMMA CommitKeeps ==
    ASSUME AppInv, NEW l \in DOMAIN launch, NEW e \in Events, e.id = 0, NEW st \in Working \ {"gated"},
           NEW goal \in Terminals \cup {"none"}, Commit(l, e, st, goal), st = "end" => goal \in Terminals,
           launch[l].st \in {"loop", "review", "reject"}, UNCHANGED <<lease, reserved, active, monitors, req, asked>>
    PROVE  AppInv'
<1>1. st \in Stages
  BY DEF Stages
<1>2. Grows(l)
  BY <1>1, CommitFields
<1>3. PICK x \in Launches :
          /\ launch' = [launch EXCEPT ![l] = x]
          /\ x.run = launch[l].run /\ x.ready = launch[l].ready /\ x.create = launch[l].create
          /\ x.gate = launch[l].gate /\ x.queue = launch[l].queue /\ x.st = st /\ x.goal = goal
  BY <1>1, CommitFields
<1>4. GoesOn(launch[l], x)
  BY <1>3 DEF GoesOn, Working
<1>5. req' \in [Callers -> Request] /\ \A c \in Callers : Nudged(req[c], req'[c])
  BY Undisturbed DEF AppInv
<1> QED
  BY <1>2, <1>3, <1>4, <1>5, WorkingStep

\* The model answers.
LEMMA ProposeKeeps ==
    ASSUME AppInv, NEW l \in DOMAIN launch, Propose(l) PROVE AppInv'
<1>1. PICK st \in {"leave", "review"} : Commit(l, Event("proposed", 0), st, "none")
  BY DEF Propose
<1>2. launch[l].st = "loop" /\ UNCHANGED <<lease, reserved, active, monitors, req, asked>>
  BY DEF Propose, Ready
<1>3. Event("proposed", 0) \in Events /\ Event("proposed", 0).id = 0 /\ st \in Working \ {"gated"} /\ st # "end"
  BY DEF Event, Events, Working
<1> QED
  BY <1>1, <1>2, <1>3, CommitKeeps

\* The verifier fails.
LEMMA FailVerificationKeeps ==
    ASSUME AppInv, NEW l \in DOMAIN launch, FailVerification(l) PROVE AppInv'
<1>1. Commit(l, Event("failed", 0), "reject", "none")
  BY DEF FailVerification
<1>2. launch[l].st = "review" /\ UNCHANGED <<lease, reserved, active, monitors, req, asked>>
  BY DEF FailVerification, Ready
<1>3. Event("failed", 0) \in Events /\ Event("failed", 0).id = 0 /\ "reject" \in Working \ {"gated"}
  BY DEF Event, Events, Working
<1> QED
  BY <1>1, <1>2, <1>3, CommitKeeps

\* The candidate is rejected.
LEMMA RejectCandidateKeeps ==
    ASSUME AppInv, NEW l \in DOMAIN launch, RejectCandidate(l) PROVE AppInv'
<1>1. PICK st \in {"loop", "end"}, goal \in Terminals \cup {"none"} :
          Commit(l, Event("rejected", 0), st, goal) /\ (st = "end" => goal \in Terminals)
  BY DEF RejectCandidate, Terminals
<1>2. launch[l].st = "reject" /\ UNCHANGED <<lease, reserved, active, monitors, req, asked>>
  BY DEF RejectCandidate, Ready
<1>3. Event("rejected", 0) \in Events /\ Event("rejected", 0).id = 0 /\ st \in Working \ {"gated"}
  BY DEF Event, Events, Working
<1> QED
  BY <1>1, <1>2, <1>3, CommitKeeps

\* A launch goes on without an event.
LEMMA GoingOn ==
    ASSUME AppInv, NEW l \in DOMAIN launch, NEW st \in Working \ {"gated"}, NEW goal \in Terminals \cup {"none"},
           launch' = [launch EXCEPT ![l] = [launch[l] EXCEPT !.st = st, !.goal = goal]],
           st = "end" => goal \in Terminals, launch[l].st \in Working \ {"leave", "end"},
           launch[l].st = "gated" => launch[l].gate, UNCHANGED <<log, lease, reserved, active, monitors, req, asked>>
    PROVE  AppInv'
<1> DEFINE z == launch[l] x == [z EXCEPT !.st = st, !.goal = goal]
<1>1. z \in Launches /\ st \in Stages
  BY Parts DEF AppInv, Stages
<1>2. /\ x \in Launches /\ x.run = z.run /\ x.ready = z.ready /\ x.create = z.create
      /\ x.gate = z.gate /\ x.queue = z.queue /\ x.st = st /\ x.goal = goal
  <2> HIDE DEF z
  <2> QED
    BY <1>1 DEF Launches
<1>3. launch' = [launch EXCEPT ![l] = x]
  OBVIOUS
<1> HIDE DEF x
<1>4. GoesOn(launch[l], x) /\ Grows(l)
  BY <1>2 DEF GoesOn, Grows
<1>5. req' \in [Callers -> Request] /\ \A c \in Callers : Nudged(req[c], req'[c])
  BY Undisturbed DEF AppInv
<1> QED
  BY <1>2, <1>3, <1>4, <1>5, WorkingStep

\* The Agent loop takes up the run.
LEMMA BootKeeps ==
    ASSUME AppInv, NEW l \in DOMAIN launch, Boot(l) PROVE AppInv'
<1>1. PICK st \in {"end", "drain", "loop", "review", "reject"}, goal \in Terminals \cup {"none"} :
          /\ launch' = [launch EXCEPT ![l] = [launch[l] EXCEPT !.st = st, !.goal = goal]]
          /\ st = "end" => goal \in Terminals
  BY DEF Boot, Terminals
<1>2. /\ launch[l].st = "gated" /\ launch[l].gate
      /\ UNCHANGED <<log, lease, reserved, active, monitors, req, asked>>
  BY DEF Boot, durable
<1>3. st \in Working \ {"gated"} /\ "gated" \in Working \ {"leave", "end"}
  BY DEF Working
<1> QED
  BY <1>1, <1>2, <1>3, GoingOn

\* The queued commands were handled.
LEMMA DrainedKeeps ==
    ASSUME AppInv, NEW l \in DOMAIN launch, Drained(l) PROVE AppInv'
<1> DEFINE z == launch[l]
<1>1. /\ z.st = "drain" /\ UNCHANGED <<log, lease, reserved, active, monitors, req, asked>> /\ z \in Launches
  BY Parts DEF Drained, Ready, durable, AppInv
<1>2. PICK st \in {"leave", "review"} : launch' = [launch EXCEPT ![l] = [z EXCEPT !.st = st]]
  BY DEF Drained
<1>3. [z EXCEPT !.st = st] = [z EXCEPT !.st = st, !.goal = z.goal] /\ z.goal \in Terminals \cup {"none"}
  <2> HIDE DEF z
  <2> QED
    BY <1>1 DEF Launches
<1>4. st \in Working \ {"gated"} /\ st # "end" /\ z.st \in Working \ {"leave", "end"}
  BY <1>1 DEF Working
<1> QED
  BY <1>1, <1>2, <1>3, <1>4, GoingOn

\* The candidate is accepted, or its review ends the run.
LEMMA ReviewKeeps ==
    ASSUME AppInv, NEW l \in DOMAIN launch, Review(l) PROVE AppInv'
<1>1. PICK o \in Outcomes : launch' = [launch EXCEPT ![l] = [launch[l] EXCEPT !.st = "end", !.goal = o]]
  BY DEF Review
<1>2. launch[l].st = "review" /\ UNCHANGED <<log, lease, reserved, active, monitors, req, asked>>
  BY DEF Review, Ready, durable
<1>3. o \in Terminals /\ "end" \in Working \ {"gated"} /\ "review" \in Working \ {"leave", "end"}
  BY ApplicationAssumption DEF Terminals, Working
<1> QED
  BY <1>1, <1>2, <1>3, GoingOn

\* A waiting run gives up its lease.
LEMMA LeaveKeeps ==
    ASSUME AppInv, NEW l \in DOMAIN launch, Leave(l) PROVE AppInv'
<1>1. /\ launch[l].st = "leave" /\ UNCHANGED <<log, reserved, active, monitors, req, asked>>
      /\ lease' = [lease EXCEPT ![launch[l].run] = 0] /\ launch' = [launch EXCEPT ![l] = Closed(launch[l], "ok")]
  BY DEF Leave, Ready
<1>2. Closes(l, "ok") /\ "ok" \in Readiness
  BY <1>1 DEF Closes, Working, Readiness
<1>3. req' \in [Callers -> Request] /\ \A c \in Callers : Nudged(req[c], req'[c])
  BY <1>1, Undisturbed DEF AppInv
<1> QED
  BY <1>1, <1>2, <1>3, ClosingKeeps

\* The terminal event ends the lease.
LEMMA EndKeeps ==
    ASSUME AppInv, NEW l \in DOMAIN launch, End(l) PROVE AppInv'
<1> DEFINE z == launch[l] r == launch[l].run e == Event(z.goal, 0)
<1>1. /\ z.st = "end" /\ UNCHANGED <<reserved, active, monitors, req, asked>>
      /\ lease' = [lease EXCEPT ![r] = 0] /\ Commit(l, e, "last", z.goal)
  BY DEF End, Ready
<1>2. z.goal \in Terminals /\ r \in Runs /\ r = launch[l].run /\ l # 0
  BY <1>1, Parts DEF AppInv, Coherent, Sound
<1>3. e \in Events /\ e.id = 0 /\ "last" \in Stages
  BY <1>2 DEF Event, Events, Stages
<1> HIDE DEF e
<1>4. Grows(l)
  BY <1>1, <1>2, <1>3, CommitFields
<1>5. PICK x \in Launches :
          /\ launch' = [launch EXCEPT ![l] = x]
          /\ x.run = r /\ x.ready = z.ready /\ x.create = z.create
          /\ x.gate = z.gate /\ x.queue = z.queue /\ x.st = "last" /\ x.goal = z.goal
  BY <1>1, <1>2, <1>3, CommitFields
<1>6. /\ log' \in [Runs -> Seq(Events)] /\ (\A t \in Runs : t # r => log'[t] = log[t])
      /\ log'[r] = log[r] \/ Appended(l, r)
  BY <1>2, <1>4, GrowingLog
<1>7. lease' \in [Runs -> Nat] /\ (\A t \in Runs : t # r => lease'[t] = lease[t]) /\ lease[r] = l /\ lease'[r] = 0
  BY <1>1, <1>2 DEF AppInv, Typed, Leased, Working
<1>8. req' \in [Callers -> Request] /\ \A c \in Callers : Nudged(req[c], req'[c])
  BY <1>1, Undisturbed DEF AppInv
<1>9. x.st \notin Working /\ ~Loose(x) /\ Gated(x)
  BY <1>5 DEF Working, Loose, Gated
<1>10. lease'[r] = l <=> x.st \in Working
  BY <1>2, <1>7, <1>9
<1>11. x.ready \in {"none", "ok"}
  BY <1>1, <1>5 DEF AppInv, Coherent, Sound
<1>12. /\ x.st = "acquire" => launch[l].st = "acquire" /\ x.create = launch[l].create
       /\ x.st = "over" => x.queue = <<>>
       /\ x.st = "end" => x.goal \in Terminals
       /\ x.ready \notin {"none", "ok"} => x.st = "over"
       /\ \A i \in DOMAIN x.queue : \E j \in DOMAIN launch[l].queue : x.queue[i] = launch[l].queue[j]
  BY <1>5, <1>11
<1> HIDE DEF r
<1> QED
  BY <1>1, <1>2, <1>5, <1>6, <1>7, <1>8, <1>9, <1>10, <1>12, LaunchMoves

\* A launch without the head of its queue.
LEMMA Popped ==
    ASSUME NEW z \in Launches, z.queue # <<>>
    PROVE  /\ Tail(z.queue) \in Seq(Message) /\ Head(z.queue) \in Message
           /\ Carries(z, Head(z.queue).id)
<1>1. z.queue \in Seq(Message)
  BY DEF Launches
<1>2. 1 \in DOMAIN z.queue /\ Head(z.queue) = z.queue[1]
  BY <1>1
<1> QED
  BY <1>1, <1>2 DEF Carries

\* The next command of the queue.
LEMMA HandleKeeps ==
    ASSUME AppInv, NEW l \in DOMAIN launch, Handle(l) PROVE AppInv'
<1> DEFINE z == launch[l] m == Head(z.queue) t == Tail(z.queue) r == launch[l].run
<1>1. /\ z \in Launches /\ z.queue # <<>> /\ z.st \in {"drain", "loop"} /\ r = launch[l].run /\ r \in Runs
      /\ UNCHANGED <<lease, reserved, active, monitors, asked>>
  BY Parts DEF Handle, Ready, AppInv
<1>2. t \in Seq(Message) /\ m \in Message /\ Carries(z, m.id)
  BY <1>1, Popped
<1>3. launch \in Seq(Launches) /\ req \in [Callers -> Request]
  BY DEF AppInv, Typed
<1> DEFINE y == [z EXCEPT !.queue = t]
           commits == ~Receipt(log[r], m.id) \/ m.id = 0
           fits == Pending(log[r]) /\ asked[m.id].about = Offer(log[r])
<1>4. CASE commits /\ (m.kind = "accept" => fits)
  <2> DEFINE k == IF m.kind = "accept" THEN "accepted" ELSE m.kind
             e == Event(k, m.id)
             st == IF m.kind = "cancel" THEN "end" ELSE z.st
             goal == IF m.kind = "cancel" THEN "Cancelled" ELSE z.goal
             x == [z EXCEPT !.queue = t, !.told = FALSE, !.ack = m.id, !.st = st, !.goal = goal]
  <2>1. log' = [log EXCEPT ![r] = Append(log[r], e)] /\ req' = req
    BY <1>4 DEF Handle
  <2>2. launch' = [launch EXCEPT ![l] = x]
    <3> DEFINE w == [y EXCEPT !.told = FALSE, !.ack = m.id, !.st = IF m.kind = "cancel" THEN "end" ELSE @,
                              !.goal = IF m.kind = "cancel" THEN "Cancelled" ELSE @]
    <3>1. launch' = [launch EXCEPT ![l] = w]
      BY <1>4, Zenon DEF Handle
    <3>2. w = x
      <4> HIDE DEF z, m, t
      <4> QED
        BY <1>1 DEF Launches
    <3> QED
      BY <3>1, <3>2
  <2>3. e \in Events /\ e.id = m.id
    BY <1>2 DEF Message, Event, Events, Controls
  <2>4. Grows(l)
    <3> HIDE DEF e, m
    <3> QED
      BY <1>2, <2>1, <2>3 DEF Grows
  <2>5. st \in Stages /\ goal \in Terminals \cup {"none"} /\ m.id \in Nat
    BY <1>1, <1>2 DEF Stages, Working, Launches, Terminals, Message
  <2>6. /\ (m = Stop => st = "end") /\ (st = "end" => goal \in Terminals)
        /\ st \in {"drain", "loop", "end"}
    BY <1>1 DEF Stop, Terminals
  <2>7. /\ x \in Launches /\ x.run = z.run /\ x.ready = z.ready /\ x.create = z.create
        /\ x.gate = z.gate /\ x.queue = t /\ x.st = st /\ x.goal = goal
    <3> HIDE DEF z, m, t, st, goal
    <3> QED
      BY <1>1, <1>2, <2>5 DEF Launches
  <2> HIDE DEF x, st, goal
  <2>8. GoesOn(z, x)
    BY <1>1, <2>6, <2>7 DEF GoesOn, Working
  <2>9. req' \in [Callers -> Request] /\ \A c \in Callers : Nudged(req[c], req'[c])
    BY <2>1, Undisturbed DEF AppInv
  <2> QED
    BY <1>1, <2>2, <2>4, <2>7, <2>8, <2>9, WorkingStep
<1>5. CASE ~(commits /\ (m.kind = "accept" => fits))
  <2>1. PICK a \in {"accepted", "notPending"} : req' = Acknowledged(req, m.id, a)
    BY <1>5 DEF Handle
  <2>2. launch' = [launch EXCEPT ![l] = y] /\ log' = log
    BY <1>5 DEF Handle
  <2>3. m # Stop
    BY <1>5 DEF Stop
  <2>4. /\ y \in Launches /\ y.run = z.run /\ y.ready = z.ready /\ y.create = z.create
        /\ y.gate = z.gate /\ y.queue = t /\ y.st = z.st /\ y.goal = z.goal
    <3> HIDE DEF z, t
    <3> QED
      BY <1>1, <1>2 DEF Launches
  <2> HIDE DEF y
  <2>5. GoesOn(z, y) /\ Grows(l)
    BY <1>1, <2>2, <2>3, <2>4 DEF GoesOn, Grows
  <2>6. req' \in [Callers -> Request] /\ \A c \in Callers : Nudged(req[c], req'[c])
    BY <1>3, <2>1, AcknowledgedNudges
  <2> QED
    BY <1>1, <2>2, <2>4, <2>5, <2>6, WorkingStep
<1> QED
  BY <1>4, <1>5

-----------------------------------------------------------------------------
(* The specification *)

\* A candidate is a place in the log, or 0.
LEMMA OfferType ==
    ASSUME NEW s \in Seq(Events)
    PROVE  Offer(s) \in Nat /\ (Pending(s) => Offer(s) \in DOMAIN s /\ Offers(s, Offer(s)))
<1>1. CASE Pending(s)
  <2> DEFINE P(i) == Offers(s, i)
  <2>1. Offer(s) = CHOOSE i \in DOMAIN s : P(i)
    BY <1>1 DEF Offer
  <2>2. \E i \in DOMAIN s : P(i)
    BY <1>1 DEF Pending
  <2> HIDE DEF P
  <2>3. Offer(s) \in DOMAIN s /\ P(Offer(s))
    BY <2>1, <2>2
  <2> QED
    BY <2>3 DEF P
<1>2. CASE ~Pending(s)
  BY <1>2 DEF Offer
<1> QED
  BY <1>1, <1>2

\* What a client asks for.
LEMMA ClientKeeps ==
    ASSUME AppInv, NEW c \in Callers, Client(c) PROVE AppInv'
<1>1. PICK kind \in Commands, r \in Runs :
          \/ kind \in {"start", "recover"} /\ Create(c, kind, r, None)
          \/ kind = "resume" /\ Resume(c, r)
          \/ kind \in Controls /\ \E id \in 1 .. Len(asked) + 1, about \in Nat : Control(c, kind, r, id, about)
  <2>1. \A r \in Runs : Offer(log[r]) \in Nat
    BY Parts, OfferType DEF AppInv
  <2> QED
    BY <2>1 DEF Client
<1>2. CASE kind \in {"start", "recover"} /\ Create(c, kind, r, None)
  <2>1. Begin(c, kind, r, None, 0, 0) /\ asked' = asked
    BY <1>2 DEF Create
  <2>2. kind \in (Kinds \cup {"wait", "get"}) \ Controls /\ Founded(kind, r)
    BY <1>2 DEF Kinds, Creations, Controls, Founded
  <2> QED
    BY <2>1, <2>2, BeginKeeps
<1>3. CASE kind = "resume" /\ Resume(c, r)
  <2>1. Begin(c, kind, r, None, 0, 0) /\ asked' = asked
    BY <1>3 DEF Resume
  <2>2. kind \in (Kinds \cup {"wait", "get"}) \ Controls /\ Founded(kind, r)
    BY <1>3 DEF Kinds, Creations, Controls, Founded, Resume
  <2> QED
    BY <2>1, <2>2, BeginKeeps
<1>4. CASE kind \in Controls /\ \E id \in 1 .. Len(asked) + 1, about \in Nat : Control(c, kind, r, id, about)
  BY <1>4, ControlKeeps
<1> QED
  BY <1>1, <1>2, <1>3, <1>4

\* The process starts with nothing to do.
LEMMA AppInitInv == AppInit => AppInv
<1> SUFFICES ASSUME AppInit PROVE AppInv
  OBVIOUS
<1>1. /\ log = [r \in Runs |-> <<>>] /\ lease = [r \in Runs |-> 0] /\ reserved = {}
      /\ launch = <<>> /\ active = [r \in Runs |-> 0] /\ monitors = {}
      /\ req = [c \in Callers |-> Idle] /\ asked = <<>>
  BY DEF AppInit
<1>2. /\ Len(launch) = 0 /\ DOMAIN launch = {} /\ Len(asked) = 0
      /\ launch \in Seq(Launches) /\ asked \in Seq(Orders)
  BY <1>1
<1>3. \A r \in Runs : log[r] = <<>> /\ DOMAIN log[r] = {} /\ lease[r] = 0 /\ active[r] = 0
  BY <1>1
<1>4. \A c \in Callers : req[c] = Idle
  BY <1>1
<1>5. Typed
  <2>1. log \in [Runs -> Seq(Events)]
    BY <1>1
  <2> QED
    BY <1>1, <1>2, <2>1, IdleRequest DEF Typed
<1>6. Coherent
  <2>1. Placed(Idle, launch, log, asked)
    BY <1>2, IdleRequest DEF Placed, Controls
  <2> QED
    BY <1>2, <1>3, <1>4, <2>1 DEF Coherent
<1>7. Leased /\ Registered /\ Attended
  BY <1>2, <1>3 DEF Leased, Registered, Attended
<1>8. Withheld
  <2>1. Idle.kind \notin Controls
    BY IdleRequest DEF Controls
  <2> QED
    BY <1>4, <2>1, IdleRequest DEF Withheld, Single, KeptOut
<1> QED
  BY <1>5, <1>6, <1>7, <1>8 DEF AppInv

\* A step of a request.
LEMMA RequestStepKeeps ==
    ASSUME AppInv, NEW c \in Callers, RequestStep(c) PROVE AppInv'
  BY LookingActions, LoadControlKeeps, ComposeKeeps, AwaitReadyKeeps, RegisterKeeps, SendControlKeeps,
     UnacknowledgedKeeps, AfterRaceKeeps
     DEF RequestStep

\* A step of a launch.
LEMMA LaunchStepKeeps ==
    ASSUME AppInv, NEW l \in DOMAIN launch, LaunchStep(l) PROVE AppInv'
  BY AcquireKeeps, BootKeeps, EmitKeeps, HandleKeeps, ProposeKeeps, DrainedKeeps, LeaveKeeps, EndKeeps,
     ReviewKeeps, FailVerificationKeeps, RejectCandidateKeeps
     DEF LaunchStep

\* Every step of the service keeps the invariant.
LEMMA AppNextInv == AppInv /\ [AppNext]_appVars => AppInv'
<1> SUFFICES ASSUME AppInv, [AppNext]_appVars PROVE AppInv'
  OBVIOUS
<1>1. CASE UNCHANGED appVars
  BY <1>1 DEF appVars, AppInv, Typed, Coherent, Leased, Registered, Attended, Reached, at, Withheld, Single
<1>2. ASSUME NEW c \in Callers, RequestStep(c) PROVE AppInv'
  BY <1>2, RequestStepKeeps
<1>3. ASSUME NEW l \in DOMAIN launch, LaunchStep(l) \/ Monitor(l) PROVE AppInv'
  BY <1>3, LaunchStepKeeps, MonitorKeeps
<1>4. CASE Restart
  BY <1>4, RestartKeeps
<1>5. ASSUME NEW c \in Callers, Abort(c) \/ Client(c) PROVE AppInv'
  BY <1>5, AbortKeeps, ClientKeeps
<1> QED
  BY <1>1, <1>2, <1>3, <1>4, <1>5 DEF AppNext, AppStep

\* The inductive invariant of the command service.
THEOREM AppInvariant == AppSpec => []AppInv
  BY AppInitInv, AppNextInv, PTL DEF AppSpec

\* What leases, registry, monitors and requests refer to are launches of this
\* process.
THEOREM AppTyped == AppSpec => []AppTypeOK
<1>1. AppInv => AppTypeOK
  <2> SUFFICES ASSUME AppInv PROVE AppTypeOK
    OBVIOUS
  <2>1. \A l \in DOMAIN launch : launch[l] \in Launches
    BY Parts DEF AppInv
  <2>2. \A l \in DOMAIN launch : launch[l].ready \in {"none", "ok", "exists", "running", "advanced"}
    BY <2>1 DEF Launches, Readiness
  <2>3. \A c \in Callers : req[c].launch \in 0 .. Len(launch)
    BY DEF AppInv, Coherent, Placed
  <2>4. monitors \subseteq DOMAIN launch
    BY DEF AppInv, Typed
  <2> QED
    BY <2>2, <2>3, <2>4 DEF AppTypeOK, AppInv, Leased, Registered
<1> QED
  BY <1>1, AppInvariant, PTL

\* At most one launch works on a run: run_launch takes the lease of the store
\* before it works, and finalize ends it on every way out, whatever requests race
\* with it, go away, or are lost with the process.
THEOREM OneWorkerPerRun == AppSpec => []OneWorker
<1>1. AppInv => OneWorker
  BY DEF AppInv, Leased, OneWorker
<1> QED
  BY <1>1, AppInvariant, PTL

\* activate, PendingActivation and spawn_monitor leave no run behind that nobody
\* can control.
THEOREM NoLaunchOrphaned == AppSpec => []NoOrphan
<1>1. AppInv => NoOrphan
  <2> SUFFICES ASSUME AppInv, NEW l \in DOMAIN launch,
                      launch[l].st \in {"drain", "loop", "review", "reject"}
               PROVE  \/ active[launch[l].run] = l
                      \/ \E c \in Callers : req[c].launch = l /\ at(c, "register")
                      \/ Stop \in Range(launch[l].queue)
    BY DEF NoOrphan
  <2>1. Loose(launch[l])
    BY DEF AppInv, Coherent, Sound, Gated, Loose
  <2>2. Reached(l)
    BY <2>1 DEF AppInv, Attended
  <2>3. (\E i \in DOMAIN launch[l].queue : launch[l].queue[i] = Stop) => Stop \in Range(launch[l].queue)
    BY DEF Range
  <2> QED
    BY <2>2, <2>3 DEF Reached
<1> QED
  BY <1>1, AppInvariant, PTL

\* A steer or cancel that control or control_after_race refused never gets into
\* the log of its run, unless the client sends it again.
THEOREM RefusedCommandsStayOut == AppSpec => []RefusedStaysOut
<1>1. AppInv => RefusedStaysOut
  <2> SUFFICES ASSUME AppInv, NEW c \in Callers, req[c].kind \in {"steer", "cancel"},
                      req[c].answer \in {"terminal", "notActive"}, ~(asked[req[c].id].copies > 1)
               PROVE  ~Receipt(log[runOf(c)], req[c].id)
    BY DEF RefusedStaysOut
  <2>1. req[c].id \in DOMAIN asked
    BY Parts DEF AppInv, Coherent, Placed, Controls
  <2>2. asked[req[c].id].copies = 1
    <3> DEFINE A == Orders
    <3>0. asked \in Seq(A)
      BY DEF AppInv, Typed
    <3>1. asked[req[c].id].copies \in Nat \ {0}
      <4>1. asked[req[c].id] \in A
        <5> HIDE DEF A
        <5> QED
          BY <2>1, <3>0
      <4> QED
        BY <4>1 DEF Orders
    <3> QED
      BY <3>1
  <2> QED
    BY <2>2 DEF AppInv, Withheld, KeptOut, runOf
<1> QED
  BY <1>1, AppInvariant, PTL

=============================================================================
