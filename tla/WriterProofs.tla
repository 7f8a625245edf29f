---------------------------- MODULE WriterProofs ----------------------------
(***************************************************************************)
(* Theorems about WriterLifecycle, for any number of writers, acts of      *)
(* others, stops and crashes.                                              *)
(*                                                                         *)
(* The invariant is local to a writer: what its operation, its runtime and *)
(* its durable lifecycle say of its branch, of HEAD.lock and of the root.  *)
(* A step of one writer or of the others leaves that of a writer alone in  *)
(* the way that Bystands describes.                                        *)
(***************************************************************************)
EXTENDS WriterLifecycle, TLAPS

-----------------------------------------------------------------------------
(* Places of an operation *)

Binding == {"bindAdd", "bindVerify"}
Sealing == {"sealRecheck", "sealPublish", "sealVerify"}
Integrating == {"intLease", "intCas", "intLock", "intCheck", "intRelock", "intRecheck",
                "intApply", "intValidate", "intObserve"}
Cleaning == {"clLock", "clSurvey", "clTomb", "clGuard", "clPin", "clCheck", "clDelete",
             "clVerify", "clRemove", "clGone", "clRelease", "clForget", "clLast"}

\* Under HEAD.lock, and under the lease of the integrations.
UnderLock == {"intCheck", "intRecheck", "intApply", "intValidate"}
UnderCleanup == {"clSurvey", "clTomb", "clGuard", "clPin", "clCheck", "clDelete",
                 "clVerify", "clRemove", "clGone", "clRelease"}
Leased == {"intCas", "intLock", "intRelock"} \cup UnderLock \cup UnderCleanup

\* Before the CAS of an integration, and after it.
BeforeCas == {"intLease", "intCas"}
AfterCas == {"intLock", "intRelock", "intObserve"} \cup UnderLock

-----------------------------------------------------------------------------
(* Types *)

Roots == [main : Commits, head : {"main", "other"}, checkout : Commits,
          edited : {"none", "apart", "overlap", "torn"}]
Locks == {Free, Marker("foreign", None)} \cup
         {Marker(k, w) : k \in {"integration", "cleanup"}, w \in Writers}
Resources == [branch : Commits \cup {None}, tomb : BOOLEAN, path : BOOLEAN, reg : BOOLEAN,
              lock : {"free", "cleanup", "foreign"}, work : Works,
              foreign : {"no", "begun", "yes", "late"}]

\* The fields of an operation and of a lifecycle.
Formed(o) == o = [at |-> o.at, arg |-> o.arg, ret |-> o.ret, rev |-> o.rev]
Alive(l) == l = [tool |-> l.tool, stage |-> l.stage, child |-> l.child, seal |-> l.seal,
                 result |-> l.result, integ |-> l.integ, rev |-> l.rev, delivered |-> l.delivered,
                 plan |-> l.plan, cleanup |-> l.cleanup, finished |-> l.finished,
                 outcome |-> l.outcome, control |-> l.control, terminal |-> l.terminal]

OpTyped ==
    op = [w \in Writers |-> op[w]] /\ \A w \in Writers : Formed(op[w]) /\ op[w].at \in Steps

LifeTyped ==
    life = [w \in Writers |-> life[w]] /\ \A w \in Writers : Alive(life[w])

Typed ==
    /\ root \in Roots /\ headLock \in Locks /\ lease \in Writers \cup {None}
    /\ res \in [Writers -> Resources] /\ base \in [Writers -> Commits \cup {None}]
    /\ OpTyped /\ LifeTyped
    /\ pc \in [Writers -> PCs] /\ acts \in Nat /\ crashes \in Nat

-----------------------------------------------------------------------------
(* The lifecycle of a writer *)

\* The orchestrator has answered the runtime that waits at p with r.
Told(w, p, r) == pc[w] = p /\ op[w].at = "idle" /\ op[w].ret = r

\* Where the runtime is while an operation is in progress.
Attends(w) ==
    /\ op[w].at \in Binding => pc[w] = "bound"
    /\ op[w].at \in Sealing => pc[w] = "sealed"
    /\ op[w].at \in Integrating => pc[w] = "settle"
    /\ op[w].at \in Cleaning =>
          /\ pc[w] = "cleaned" /\ life[w].plan.mode = "remove" /\ op[w].arg = life[w].plan.commit
    /\ pc[w] = "settle" /\ op[w].at = "idle" => op[w].ret \in {"ok", "conflict", "recovery"}
    /\ pc[w] = "cleaned" /\ op[w].at = "idle" => op[w].ret \in {"removed", "retained"}

\* Before a result is collected.
Early == {"idle", "prepare", "bind", "bound", "create", "start", "child", "stopping", "collect",
          "seal", "sealing", "sealed", "result", "failed"}

\* The durable events come in order, and the runtime is where they say.
Ordered(w) ==
    LET l == life[w] IN
    /\ (pc[w] = "idle") = (base[w] = None)
    /\ pc[w] \in Early => l.result = "none"
    /\ l.result = "none" => l.integ = "none" /\ l.plan = None
    /\ l.integ # "none" => l.result = "completed"
    /\ l.result = "completed" /\ l.integ \in {"none", "prepared", "started"} => l.plan = None
    /\ l.plan # None /\ l.integ = "committed" => l.tool = "done"
    /\ l.plan = None => l.cleanup = "none"
    /\ l.plan # None => l.plan.mode = "retain" \/ (l.plan.mode = "remove" /\ l.plan.commit \in Commits)
    /\ pc[w] # "done" => l.terminal = "none"
    /\ pc[w] = "integrate" => l.result = "completed" /\ l.integ = "none"
    /\ pc[w] = "begin" => l.integ = "prepared"
    /\ pc[w] \in {"integrating", "settle"} => l.integ = "started"
    /\ pc[w] = "plan" => l.plan = None /\ l.result # "none"
    /\ pc[w] \in {"clean", "cleaned"} => l.plan # None /\ l.cleanup = "none"

-----------------------------------------------------------------------------
(* HEAD.lock, the lease and the root *)

Own(w) == {Marker("integration", w), Marker("cleanup", w)}

Holding(w) ==
    /\ op[w].at \in Leased => lease = w
    /\ op[w].at \in UnderLock => headLock = Marker("integration", w)
    /\ op[w].at \in UnderCleanup => headLock = Marker("cleanup", w)
    /\ op[w].at \in {"intApply", "intValidate"} => root.head = "main" /\ root.main = Final(w)
    /\ op[w].at = "intValidate" => root.checkout = Final(w)

\* What is left of a writer: nothing but perhaps its tombstone.
Absent(w) == ~res[w].path /\ ~res[w].reg /\ res[w].branch = None

Removing(w) ==
    /\ op[w].at = "clDelete" => res[w].branch \in {None, op[w].arg}
    /\ op[w].at = "clRemove" => res[w].branch = None
    /\ op[w].at \in {"clRelease", "clForget", "clLast"} => Absent(w)
    /\ op[w].at \in {"clForget", "clLast"} => headLock \notin Own(w)
    /\ op[w].at = "clLast" => ~res[w].tomb
    /\ Told(w, "cleaned", "removed") \/ life[w].cleanup = "removed" =>
          Absent(w) /\ ~res[w].tomb /\ headLock \notin Own(w)

\* The commit of a writer is on the branch after its CAS, and not before.
Present(w) == w \in ToSet(root.main)

Adding(w) ==
    /\ base[w] = None => ~Present(w)
    /\ base[w] # None => w \notin ToSet(base[w])
    /\ Present(w) => life[w].integ \notin {"none", "prepared"}
    /\ op[w].at \in AfterCas \/ Told(w, "settle", "ok") \/ life[w].integ = "committed" => Present(w)

-----------------------------------------------------------------------------
(* Without crashes *)

\* A branch that is gone took everything with it.
Gone(w) == ~res[w].path /\ ~res[w].reg /\ ~res[w].tomb /\ res[w].foreign = "no"

\* The cleanup is past the deletion of the branch.
Deleted(w) ==
    \/ op[w].at \in {"clVerify", "clRemove", "clGone", "clRelease", "clForget", "clLast"}
    \/ pc[w] = "cleaned" /\ op[w].at = "idle"
    \/ life[w].cleanup # "none"

Keeping(w) ==
    /\ life[w].plan # None /\ life[w].cleanup = "none" => pc[w] \in {"clean", "cleaned"}
    /\ ~Deleted(w) /\ res[w].branch = None => Gone(w)
    /\ op[w].at \in {"clTomb", "clGuard", "clPin", "clCheck", "clDelete"} => res[w].branch # None
    /\ op[w].at \in {"clGuard", "clPin", "clCheck", "clDelete", "clVerify", "clRemove", "clGone"} => res[w].tomb
    /\ op[w].at \in {"clCheck", "clDelete", "clVerify"} => res[w].reg
    /\ op[w].at = "clVerify" => res[w].branch = None
    /\ op[w].at = "clGone" => Absent(w)
    /\ op[w].at = "clRelease" => res[w].tomb \/ res[w].foreign = "no"
    /\ (pc[w] = "cleaned" /\ op[w].at = "idle") \/ life[w].cleanup # "none" =>
          (res[w].branch = None => Absent(w) /\ ~res[w].tomb /\ res[w].foreign # "yes")

\* The files of the root are those of the commit of w, if that is its head.
Synced(w) == root.head = "main" /\ root.main = Final(w) => root.checkout = root.main

\* Nobody takes HEAD.lock by surprise.
Calm == crashes = 0 /\ "lock" \notin UserActs

Reporting(w) ==
    /\ op[w].at = "intObserve" \/ Told(w, "settle", "ok") \/ life[w].integ = "committed" => Synced(w)
    /\ Calm /\ (Told(w, "settle", "conflict") \/ life[w].integ = "conflict") => Synced(w)
    /\ crashes = 0 /\ Present(w) =>
          \/ op[w].at \in AfterCas \ {"intRelock", "intRecheck"}
          \/ pc[w] = "settle" /\ op[w].at = "idle"
          \/ life[w].integ \in {"committed", "conflict", "recovery"}

Local(w) ==
    /\ Attends(w) /\ Ordered(w) /\ Holding(w) /\ Removing(w) /\ Adding(w)
    /\ (crashes = 0 => Keeping(w)) /\ Reporting(w)

\* HEAD.lock has an owner who is at work.
Attended ==
    Calm => headLock = Free \/ \E w \in Writers : op[w].at \in UnderLock \cup UnderCleanup

WriterInv == Typed /\ (\A w \in Writers : Local(w)) /\ Attended /\ LagExplained

-----------------------------------------------------------------------------
(* Records and sequences *)

LEMMA OpTurns ==
    ASSUME OpTyped, NEW w \in Writers, NEW o, Formed(o), o.at \in Steps, op' = [op EXCEPT ![w] = o]
    PROVE  OpTyped' /\ op'[w] = o /\ \A v \in Writers : v # w => op'[v] = op[v]
<1>1. op' = [v \in Writers |-> IF v = w THEN o ELSE op[v]]
  BY DEF OpTyped
<1> QED
  BY <1>1 DEF OpTyped

LEMMA LifeTurns ==
    ASSUME LifeTyped, NEW w \in Writers, NEW l, Alive(l), life' = [life EXCEPT ![w] = l]
    PROVE  LifeTyped' /\ life'[w] = l /\ \A v \in Writers : v # w => life'[v] = life[v]
<1>1. life' = [v \in Writers |-> IF v = w THEN l ELSE life[v]]
  BY DEF LifeTyped
<1> QED
  BY <1>1 DEF LifeTyped

LEMMA GotoOp ==
    ASSUME OpTyped, NEW w \in Writers, NEW step \in Steps, Goto(w, step)
    PROVE  /\ OpTyped' /\ \A v \in Writers : v # w => op'[v] = op[v]
           /\ op'[w].at = step /\ op'[w].arg = op[w].arg /\ op'[w].ret = op[w].ret
<1> DEFINE o == [op[w] EXCEPT !.at = step]
<1>1. Formed(op[w]) /\ op' = [op EXCEPT ![w] = o]
  BY DEF OpTyped, Goto
<1>2. Formed(o) /\ o.at = step /\ o.arg = op[w].arg /\ o.ret = op[w].ret
  BY <1>1 DEF Formed
<1> HIDE DEF o
<1> QED
  BY <1>1, <1>2, OpTurns

LEMMA BeginOp ==
    ASSUME OpTyped, NEW w \in Writers, NEW step \in Steps, NEW a, Begin(w, step, a)
    PROVE  /\ OpTyped' /\ \A v \in Writers : v # w => op'[v] = op[v]
           /\ op'[w].at = step /\ op'[w].arg = a
<1> DEFINE o == [at |-> step, arg |-> a, ret |-> None, rev |-> None]
<1>1. op' = [op EXCEPT ![w] = o] /\ Formed(o) /\ o.at = step /\ o.arg = a
  BY DEF Begin, Formed
<1> HIDE DEF o
<1> QED
  BY <1>1, OpTurns

LEMMA AnswerOp ==
    ASSUME OpTyped, NEW w \in Writers, NEW r, Answer(w, r)
    PROVE  /\ OpTyped' /\ \A v \in Writers : v # w => op'[v] = op[v]
           /\ op'[w].at = "idle" /\ op'[w].ret = r
<1> DEFINE o == [at |-> "idle", arg |-> None, ret |-> r, rev |-> None]
<1>1. op' = [op EXCEPT ![w] = o] /\ Formed(o) /\ o.at = "idle" /\ o.ret = r /\ "idle" \in Steps
  BY DEF Answer, Formed, Steps
<1> HIDE DEF o
<1> QED
  BY <1>1, OpTurns

LEMMA Extends ==
    ASSUME NEW s \in Commits, NEW x \in Writers \cup {"user"}
    PROVE  Append(s, x) \in Commits /\ ToSet(Append(s, x)) = ToSet(s) \cup {x} /\ Append(s, x) # s
<1>1. /\ DOMAIN s = 1 .. Len(s) /\ DOMAIN Append(s, x) = 1 .. Len(s) + 1
      /\ Append(s, x)[Len(s) + 1] = x /\ \A i \in 1 .. Len(s) : Append(s, x)[i] = s[i]
  BY DEF Commits
<1>2. Len(s) \in Nat /\ Len(Append(s, x)) = Len(s) + 1
  BY DEF Commits
<1>3. ToSet(Append(s, x)) = ToSet(s) \cup {x}
  BY <1>1, <1>2 DEF ToSet
<1>4. Append(s, x) # s
  <2>1. SUFFICES ASSUME Append(s, x) = s PROVE FALSE
    OBVIOUS
  <2>2. Len(s) = Len(s) + 1
    BY <1>2, <2>1
  <2> QED
    BY <1>2, <2>2
<1>5. Append(s, x) \in Commits
  BY DEF Commits
<1> QED
  BY <1>3, <1>4, <1>5

\* Commits of different authors, or on different commits, are different.
LEMMA Distinct ==
    ASSUME NEW s \in Commits, NEW t \in Commits, NEW x \in Writers \cup {"user"},
           NEW y \in Writers \cup {"user"}, Append(s, x) = Append(t, y)
    PROVE  s = t /\ x = y
<1>0. /\ Len(s) \in Nat /\ Len(Append(s, x)) = Len(s) + 1 /\ Append(s, x)[Len(s) + 1] = x
      /\ Len(t) \in Nat /\ Len(Append(t, y)) = Len(t) + 1 /\ Append(t, y)[Len(t) + 1] = y
  BY DEF Commits
<1>1. Len(s) = Len(t) /\ x = y
  BY <1>0
<1>2. ASSUME NEW i \in 1 .. Len(s) PROVE s[i] = t[i]
  <2>1. Append(s, x)[i] = s[i] /\ Append(t, y)[i] = t[i]
    BY <1>1 DEF Commits
  <2> QED
    BY <2>1
<1> QED
  BY <1>1, <1>2 DEF Commits

\* The commit that seals the work of a writer that was launched.
LEMMA FinalCommit ==
    ASSUME Typed, NEW w \in Writers, base[w] # None
    PROVE  /\ base[w] \in Commits /\ Final(w) \in Commits /\ Final(w) # None
           /\ ToSet(Final(w)) = ToSet(base[w]) \cup {w} /\ Final(w) # base[w]
<1>1. base[w] \in Commits
  BY DEF Typed
<1>2. None \notin Commits
  BY GitAssumption
<1>3. /\ Final(w) = Append(base[w], w) /\ Append(base[w], w) \in Commits /\ Append(base[w], w) # base[w]
      /\ ToSet(Append(base[w], w)) = ToSet(base[w]) \cup {w}
  BY <1>1, Extends DEF Final
<1> QED
  BY <1>1, <1>2, <1>3

-----------------------------------------------------------------------------
(* What a step of another leaves alone *)

\* Others may check out the branch of v, and change or delete its directory.
Drifts(v) ==
    LET r == res[v] s == res'[v] IN
    /\ s.branch = r.branch /\ s.tomb = r.tomb /\ s.reg = r.reg /\ (s.path => r.path)
    /\ \/ s.foreign = r.foreign
       \/ r.foreign = "no" /\ r.branch # None /\ s.foreign = "begun"
       \/ /\ r.foreign = "begun" /\ s.foreign \in {"yes", "late"}
          /\ op[v].at = "idle" /\ Absent(v) /\ ~r.tomb => s.foreign = "late"

\* The branch grows by a commit of another at most.
Grows(v) ==
    \/ root'.main = root.main
    \/ \E x \in Writers \cup {"user"} : x # v /\ root'.main = Append(root.main, x)

\* The files of the root are written for the head, or when it is checked out.
Follows(v) ==
    root'.head = "main" /\ root'.main = Final(v) =>
        \/ root'.checkout = root'.main
        \/ root.head = "main" /\ root.main = Final(v) /\ root'.checkout = root.checkout

Bystands(v) ==
    /\ base'[v] = base[v] /\ op'[v] = op[v] /\ life'[v] = life[v] /\ pc'[v] = pc[v]
    /\ Drifts(v) /\ Grows(v) /\ (base[v] # None => Follows(v))
    /\ \A k \in {"integration", "cleanup"} : (headLock' = Marker(k, v)) <=> (headLock = Marker(k, v))
    /\ lease = v => lease' = v
    /\ headLock # Free /\ root.head = "main" => root'.head = "main" /\ root'.main = root.main
    /\ headLock = Marker("integration", v) /\ root.head = "main" /\ root.main = Final(v)
          => root'.checkout = root.checkout
    /\ crashes' = 0 => crashes = 0

LEMMA NotFree == ASSUME NEW k \in {"integration", "cleanup", "foreign"}, NEW w PROVE Marker(k, w) # Free
  BY DEF Marker, Free

\* No operation is in progress where the runtime does not wait for one, and none
\* after the cleanup.
LEMMA Rests ==
    ASSUME Typed, NEW w \in Writers, Local(w)
    PROVE  /\ pc[w] \notin {"bound", "sealed", "settle", "cleaned"} => op[w].at = "idle"
           /\ life[w].cleanup # "none" => op[w].at = "idle"
<1>1. op[w].at \in {"idle"} \cup Binding \cup Sealing \cup Integrating \cup Cleaning
  BY DEF Typed, OpTyped, Steps, Binding, Sealing, Integrating, Cleaning
<1> QED
  BY <1>1 DEF Local, Attends, Ordered, Early

LEMMA BystanderKeeps ==
    ASSUME Typed, Typed', NEW v \in Writers, Local(v), Bystands(v) PROVE Local(v)'
<1>1. /\ base'[v] = base[v] /\ op'[v] = op[v] /\ life'[v] = life[v] /\ pc'[v] = pc[v]
      /\ Final(v)' = Final(v)
  BY DEF Bystands, Final
<1>2. Attends(v)'
  BY <1>1 DEF Local, Attends
<1>3. Ordered(v)'
  BY <1>1 DEF Local, Ordered
<1>4. (headLock' \in Own(v)) <=> (headLock \in Own(v))
  BY DEF Bystands, Own
<1>5. Holding(v)'
  <2>1. op[v].at \in UnderLock => headLock = Marker("integration", v) /\ headLock' = Marker("integration", v)
    BY DEF Local, Holding, Bystands
  <2>2. op[v].at \in {"intApply", "intValidate"} => root'.head = "main" /\ root'.main = Final(v)
    BY <2>1, NotFree DEF Local, Holding, Bystands, UnderLock
  <2>3. op[v].at = "intValidate" => root'.checkout = Final(v)
    BY <2>1 DEF Local, Holding, Bystands, UnderLock
  <2> QED
    BY <1>1, <2>1, <2>2, <2>3 DEF Local, Holding, Bystands
<1>6. Absent(v) => Absent(v)'
  BY DEF Absent, Bystands, Drifts, Typed, Resources
<1>7. Removing(v)'
  BY <1>1, <1>4, <1>6 DEF Local, Removing, Bystands, Drifts, Told, Own
<1>8. Present(v)' = Present(v)
  <2>1. root.main \in Commits
    BY DEF Typed, Roots
  <2>2. CASE root'.main = root.main
    BY <2>2 DEF Present
  <2>3. ASSUME NEW x \in Writers \cup {"user"}, x # v, root'.main = Append(root.main, x)
        PROVE  Present(v)' = Present(v)
    BY <2>1, <2>3, Extends DEF Present
  <2> QED
    BY <2>2, <2>3 DEF Bystands, Grows
<1>9. Adding(v)'
  BY <1>1, <1>8 DEF Local, Adding, Told
<1>10. ASSUME crashes' = 0 PROVE Keeping(v)'
  <2>1. Keeping(v) /\ Drifts(v) /\ res[v] \in Resources
    BY <1>10 DEF Bystands, Local, Typed
  <2>2. Deleted(v)' = Deleted(v)
    BY <1>1 DEF Deleted
  <2>3. Gone(v) /\ res[v].branch = None => Gone(v)'
    BY <2>1 DEF Gone, Drifts, Resources
  <2>4. res'[v].branch = res[v].branch /\ res'[v].tomb = res[v].tomb /\ res'[v].reg = res[v].reg
    BY <2>1 DEF Drifts
  <2>5. op[v].at = "idle" /\ res[v].branch = None /\ Absent(v) /\ ~res[v].tomb /\ res[v].foreign # "yes"
          => res'[v].foreign # "yes"
    BY <2>1 DEF Drifts
  <2>6. op[v].at = "clRelease" => res[v].branch = None
    BY DEF Local, Removing, Absent
  <2>7. res[v].branch = None /\ res[v].foreign = "no" => res'[v].foreign = "no"
    BY <2>1 DEF Drifts
  <2> QED
    BY <1>1, <1>6, <2>1, <2>2, <2>3, <2>4, <2>5, <2>6, <2>7, Rests DEF Keeping
<1>11. base[v] # None /\ Synced(v) => Synced(v)'
  BY <1>1 DEF Bystands, Follows, Synced
<1>12. Reporting(v)'
  <2>1. Calm' => Calm
    BY DEF Calm, Bystands
  <2>2. op[v].at = "intObserve" \/ pc[v] = "settle" \/ life[v].integ # "none" => base[v] # None
    BY DEF Local, Attends, Ordered, Integrating, Early
  <2> QED
    BY <1>1, <1>8, <1>11, <2>1, <2>2 DEF Local, Reporting, Told, Bystands
<1> QED
  BY <1>2, <1>3, <1>5, <1>7, <1>9, <1>10, <1>12 DEF Local

-----------------------------------------------------------------------------
(* A step of one writer *)

Lockers == UnderLock \cup UnderCleanup

\* How the root may change: the CAS, the checkout, and a checkout that is torn.
Casts(w) ==
    /\ op[w].at = "intCas" /\ (headLock = Free \/ root.head # "main") /\ root.main = base[w]
    /\ root' = [root EXCEPT !.main = Final(w)] /\ life' = life
Writes(w) == op[w].at = "intApply" /\ root' = [root EXCEPT !.checkout = Final(w)]
Tears == root' = [root EXCEPT !.edited = "torn"]

Apart(w) ==
    \A v \in Writers : v # w =>
        res'[v] = res[v] /\ base'[v] = base[v] /\ op'[v] = op[v] /\ life'[v] = life[v] /\ pc'[v] = pc[v]

\* HEAD.lock is released by the one who leaves it.
Yields(w) ==
    \/ op'[w].at \in Lockers \/ headLock' = Free
    \/ headLock' = headLock /\ op[w].at \notin Lockers

StepOf(w) ==
    /\ Apart(w)
    /\ headLock' = headLock \/ {headLock, headLock'} \subseteq {Free} \cup Own(w)
    /\ lease' = lease \/ {lease, lease'} \subseteq {None, w}
    /\ root' = root \/ Casts(w) \/ Writes(w) \/ Tears
    /\ Calm' => Yields(w)
    /\ base[w] # None => base'[w] = base[w]
    /\ life[w].integ \in {"started", "recovery", "conflict"} =>
          life'[w].integ \in {"started", "recovery", "conflict", "committed"}
    /\ crashes' = 0 => crashes = 0

LEMMA RootMoves ==
    ASSUME WriterInv, NEW w \in Writers, StepOf(w)
    PROVE  /\ root.main \in Commits /\ root' \in [main : {root.main, root'.main}, head : {root.head},
                                                 checkout : {root.checkout, root'.checkout},
                                                 edited : {root.edited, "torn"}]
           /\ root'.main # root.main => Casts(w) /\ root'.main = Append(root.main, w)
           /\ root'.checkout # root.checkout =>
                 /\ root.head = "main" /\ root.main = Final(w) /\ headLock = Marker("integration", w)
                 /\ root'.checkout = Final(w) /\ root'.main = root.main /\ base[w] # None
<1>1. root \in Roots
  BY DEF WriterInv, Typed
<1>2. CASE root' = root
  BY <1>1, <1>2 DEF Roots
<1>3. CASE Casts(w)
  BY <1>1, <1>3 DEF Roots, Casts, Final
<1>4. CASE Writes(w)
  <2>1. root.head = "main" /\ root.main = Final(w) /\ headLock = Marker("integration", w)
    BY <1>4 DEF Writes, WriterInv, Local, Holding, UnderLock
  <2>2. base[w] # None
    BY <1>4 DEF Writes, WriterInv, Local, Attends, Ordered, Integrating
  <2> QED
    BY <1>1, <1>4, <2>1, <2>2 DEF Roots, Writes
<1>5. CASE Tears
  BY <1>1, <1>5 DEF Roots, Tears
<1> QED
  BY <1>2, <1>3, <1>4, <1>5 DEF StepOf

LEMMA OthersBystand ==
    ASSUME WriterInv, NEW w \in Writers, StepOf(w), NEW v \in Writers, v # w PROVE Bystands(v)
<1>1. /\ base'[v] = base[v] /\ op'[v] = op[v] /\ life'[v] = life[v] /\ pc'[v] = pc[v] /\ res'[v] = res[v]
  BY DEF StepOf, Apart
<1>2. Drifts(v)
  BY <1>1 DEF Drifts
<1>3. Grows(v)
  BY RootMoves DEF Grows
<1>4. base[v] # None => Follows(v)
  <2>1. SUFFICES ASSUME base[v] # None, root'.head = "main", root'.main = Final(v)
                 PROVE  root.head = "main" /\ root.main = Final(v) /\ root'.checkout = root.checkout
    BY DEF Follows
  <2>2. base[v] \in Commits /\ root.main \in Commits
    BY <2>1, FinalCommit, RootMoves DEF WriterInv
  <2>3. root'.main = root.main
    <3>1. SUFFICES ASSUME root'.main = Append(root.main, w) PROVE FALSE
      BY RootMoves
    <3>2. Append(root.main, w) = Append(base[v], v)
      BY <2>1, <3>1 DEF Final
    <3> QED
      BY <2>2, <3>2, Distinct
  <2>4. root'.checkout = root.checkout
    <3>1. SUFFICES ASSUME Final(v) = Final(w), base[w] # None PROVE FALSE
      BY <2>1, <2>3, RootMoves
    <3>2. base[w] \in Commits
      BY <3>1, FinalCommit DEF WriterInv
    <3>3. Append(base[v], v) = Append(base[w], w)
      BY <3>1 DEF Final
    <3> QED
      BY <2>2, <3>2, <3>3, Distinct
  <2> QED
    BY <2>1, <2>3, <2>4, RootMoves
<1>5. \A k \in {"integration", "cleanup"} : Marker(k, v) \notin {Free} \cup Own(w)
  BY DEF Marker, Free, Own
<1>6. v # None
  BY GitAssumption
<1>7. headLock # Free /\ root.head = "main" => root'.head = "main" /\ root'.main = root.main
  BY RootMoves DEF Casts
<1>8. headLock = Marker("integration", v) => root'.checkout = root.checkout
  BY RootMoves DEF Marker
<1> QED
  BY <1>1, <1>2, <1>3, <1>4, <1>5, <1>6, <1>7, <1>8 DEF Bystands, StepOf

LEMMA StepKeeps ==
    ASSUME WriterInv, NEW w \in Writers, StepOf(w), Typed', Local(w)' PROVE WriterInv'
<1>1. ASSUME NEW v \in Writers PROVE Local(v)'
  <2>1. CASE v # w
    BY <2>1, OthersBystand, BystanderKeeps DEF WriterInv
  <2> QED
    BY <2>1
<1>2. Attended'
  <2>1. SUFFICES ASSUME Calm', headLock' # Free PROVE \E v \in Writers : op'[v].at \in Lockers
    BY DEF Attended, Lockers
  <2>2. CASE op'[w].at \in Lockers
    BY <2>2
  <2>3. CASE headLock' = headLock /\ op[w].at \notin Lockers
    <3>1. Calm
      BY <2>1 DEF Calm, StepOf
    <3>2. PICK v \in Writers : op[v].at \in Lockers
      BY <2>1, <2>3, <3>1 DEF WriterInv, Attended, Lockers
    <3> QED
      BY <2>3, <3>2 DEF StepOf, Apart
  <2> QED
    BY <2>1, <2>2, <2>3 DEF StepOf, Yields
<1>3. LagExplained'
  <2>1. SUFFICES ASSUME root'.head = "main", root'.checkout # root'.main PROVE LagExplained'
    BY DEF LagExplained
  <2>2. CASE root'.main # root.main
    <3>1. Casts(w) /\ root'.main = Append(root.main, w) /\ life[w].integ = "started" /\ root.main = base[w]
      BY <2>2, RootMoves DEF Casts, WriterInv, Local, Attends, Ordered, Integrating
    <3>2. base[w] # None
      BY <3>1 DEF Casts, WriterInv, Local, Attends, Ordered, Integrating
    <3>3. life'[w].integ = "started" /\ root'.main = Final(w)'
      BY <3>1, <3>2 DEF Casts, StepOf, Final
    <3> QED
      BY <3>3 DEF LagExplained
  <2>3. CASE root'.main = root.main
    <3>1. root'.checkout = root.checkout /\ root.head = "main" /\ root.checkout # root.main
      BY <2>1, <2>3, RootMoves
    <3>2. PICK v \in Writers : /\ \/ life[v].integ \in {"started", "recovery"}
                                  \/ life[v].integ = "conflict" /\ (crashes > 0 \/ "lock" \in UserActs)
                               /\ root.main = Final(v)
      BY <3>1 DEF WriterInv, LagExplained
    <3>3. base[v] # None /\ base'[v] = base[v] /\ Final(v)' = Final(v)
      <4>1. life[v].result # "none" /\ pc[v] # "idle" /\ base[v] # None
        BY <3>2 DEF WriterInv, Local, Ordered, Early
      <4> QED
        BY <4>1 DEF StepOf, Apart, Final
    <3>4. crashes > 0 => crashes' > 0
      BY DEF WriterInv, Typed, StepOf
    <3>5. CASE v # w
      <4>1. life'[v] = life[v]
        BY <3>5 DEF StepOf, Apart
      <4> QED
        BY <2>3, <3>2, <3>3, <3>4, <4>1 DEF LagExplained
    <3>6. CASE v = w
      <4>1. ~Synced(w)'
        BY <2>1, <2>3, <3>2, <3>3, <3>6 DEF Synced
      <4>2. life'[w].integ \in {"started", "recovery", "conflict", "committed"}
        BY <3>2, <3>6 DEF StepOf
      <4>3. life'[w].integ # "committed" /\ (life'[w].integ = "conflict" => ~Calm')
        BY <4>1 DEF Local, Reporting
      <4>4. ~Calm' => crashes' > 0 \/ "lock" \in UserActs
        BY DEF Calm, Typed
      <4> QED
        BY <2>3, <3>2, <3>3, <3>6, <4>2, <4>3, <4>4 DEF LagExplained
    <3> QED
      BY <3>5, <3>6
  <2> QED
    BY <2>2, <2>3
<1> QED
  BY <1>1, <1>2, <1>3 DEF WriterInv

-----------------------------------------------------------------------------
(* Steps of an operation: w is at p and stays there, op turns *)

Turns(w, p) ==
    /\ OpTyped' /\ \A v \in Writers : v # w => op'[v] = op[v]
    /\ pc' \in [Writers -> PCs] /\ pc'[w] = p /\ \A v \in Writers : v # w => pc'[v] = pc[v]
    /\ res' \in [Writers -> Resources] /\ \A v \in Writers : v # w => res'[v] = res[v]
    /\ UNCHANGED <<base, life, acts, crashes>>

Hands(w) ==
    /\ headLock' = headLock \/ {headLock, headLock'} \subseteq {Free} \cup Own(w)
    /\ lease' = lease \/ {lease, lease'} \subseteq {None, w}
    /\ Calm' => Yields(w)

LEMMA TurnsTyped ==
    ASSUME WriterInv, NEW w \in Writers, NEW p, Turns(w, p), Hands(w), base[w] # None,
           root' = root \/ Casts(w) \/ Writes(w)
    PROVE  StepOf(w) /\ Typed' /\ base'[w] = base[w] /\ life'[w] = life[w] /\ Final(w)' = Final(w)
<1>1. StepOf(w)
  BY DEF StepOf, Turns, Hands, Apart
<1>2. headLock' \in Locks /\ lease' \in Writers \cup {None}
  <2>1. {Free} \cup Own(w) \subseteq Locks
    BY DEF Own, Locks
  <2> QED
    BY <2>1 DEF Hands, WriterInv, Typed
<1>3. root' \in Roots
  <2>1. root \in Roots /\ Final(w) \in Commits
    BY FinalCommit DEF WriterInv, Typed
  <2> QED
    BY <2>1 DEF Roots, Casts, Writes
<1>4. base' \in [Writers -> Commits \cup {None}] /\ LifeTyped' /\ acts' \in Nat /\ crashes' \in Nat
  BY DEF Turns, WriterInv, Typed, LifeTyped
<1>5. Typed'
  BY <1>2, <1>3, <1>4 DEF Typed, Turns
<1> QED
  BY <1>1, <1>5 DEF Turns, Final

LEMMA IntegratingKeeps ==
    ASSUME WriterInv, NEW w \in Writers, Turns(w, "settle"), Hands(w), UNCHANGED res,
           pc[w] \in {"integrating", "settle"},
           root' = root \/ Casts(w) \/ Writes(w),
           op'[w].at \in Integrating \/ (op'[w].at = "idle" /\ op'[w].ret \in {"ok", "conflict", "recovery"}),
           Holding(w)', Adding(w)', Reporting(w)'
    PROVE  WriterInv'
<1>1. /\ Local(w) /\ life[w].integ = "started" /\ life[w].plan = None /\ life[w].cleanup = "none" /\ base[w] # None
  BY DEF WriterInv, Local, Ordered
<1>2. StepOf(w) /\ Typed' /\ base'[w] = base[w] /\ life'[w] = life[w] /\ pc'[w] = "settle"
  BY <1>1, TurnsTyped DEF Turns
<1>3. Attends(w)'
  BY <1>2 DEF Attends, Binding, Sealing, Integrating, Cleaning
<1>4. Ordered(w)'
  BY <1>1, <1>2 DEF Local, Ordered, Early
<1>5. Removing(w)'
  BY <1>1, <1>2 DEF Removing, Told, Integrating
<1>6. crashes' = 0 => Keeping(w)'
  <2>1. SUFFICES ASSUME crashes' = 0 PROVE Keeping(w)'
    OBVIOUS
  <2>2. Keeping(w) /\ ~Deleted(w)
    <3>1. op[w].at \in Integrating \cup {"idle"}
      BY <1>1, Rests DEF WriterInv, Typed, OpTyped, Steps, Local, Attends, Binding, Sealing, Integrating, Cleaning
    <3> QED
      BY <1>1, <2>1, <3>1 DEF Local, Turns, Deleted, Integrating
  <2>3. res'[w] = res[w] /\ op'[w].at \in Integrating \cup {"idle"}
    OBVIOUS
  <2> QED
    BY <1>1, <1>2, <2>2, <2>3 DEF Keeping, Gone, Absent, Integrating
<1> QED
  BY <1>2, <1>3, <1>4, <1>5, <1>6, StepKeeps DEF Local

LEMMA CleaningKeeps ==
    ASSUME WriterInv, NEW w \in Writers, Turns(w, "cleaned"), Hands(w), UNCHANGED root,
           pc[w] \in {"clean", "cleaned"},
           \/ /\ op'[w].at \in Cleaning /\ life[w].plan.mode = "remove" /\ op'[w].arg = life[w].plan.commit
           \/ op'[w].at = "idle" /\ op'[w].ret \in {"removed", "retained"},
           Holding(w)', Removing(w)', crashes = 0 => Keeping(w)'
    PROVE  WriterInv'
<1>1. /\ Local(w) /\ life[w].plan # None /\ life[w].cleanup = "none" /\ life[w].result # "none" /\ base[w] # None
  BY DEF WriterInv, Local, Ordered, Early
<1>2. /\ StepOf(w) /\ Typed' /\ base'[w] = base[w] /\ life'[w] = life[w] /\ pc'[w] = "cleaned"
      /\ Final(w)' = Final(w) /\ crashes' = crashes
  BY <1>1, TurnsTyped DEF Turns
<1>3. Attends(w)'
  BY <1>2 DEF Attends, Binding, Sealing, Integrating, Cleaning
<1>4. Ordered(w)'
  BY <1>1, <1>2 DEF Local, Ordered, Early
<1>5. op'[w].at \notin AfterCas
  BY DEF AfterCas, UnderLock, Cleaning
<1>6. Adding(w)'
  BY <1>1, <1>2, <1>5 DEF Local, Adding, Told, Present
<1>7. Reporting(w)'
  <2>1. op[w].at \notin AfterCas /\ op'[w].at # "intObserve"
    BY <1>1, <1>5 DEF Local, Attends, AfterCas, UnderLock, Integrating
  <2>2. Synced(w)' = Synced(w) /\ Present(w)' = Present(w) /\ Calm' = Calm
    BY <1>2 DEF Synced, Present, Calm
  <2> QED
    BY <1>1, <1>2, <2>1, <2>2 DEF Local, Reporting, Told
<1> QED
  BY <1>2, <1>3, <1>4, <1>6, <1>7, StepKeeps DEF Local

LEMMA BuildingKeeps ==
    ASSUME WriterInv, NEW w \in Writers, NEW p \in {"bound", "sealed"}, Turns(w, p), Hands(w),
           UNCHANGED <<root, headLock, lease>>, pc[w] \in {"bind", "bound", "sealing", "sealed"},
           op'[w].at = "idle" \/ op'[w].at \in (IF p = "bound" THEN Binding ELSE Sealing),
           res'[w].branch = None => res'[w] = res[w]
    PROVE  WriterInv'
<1>1. /\ Local(w) /\ life[w].plan = None /\ life[w].cleanup = "none" /\ life[w].result = "none" /\ base[w] # None
      /\ life[w].integ = "none"
  BY DEF WriterInv, Local, Ordered, Early
<1>2. /\ StepOf(w) /\ Typed' /\ base'[w] = base[w] /\ life'[w] = life[w] /\ pc'[w] = p
      /\ Final(w)' = Final(w) /\ crashes' = crashes
  BY <1>1, TurnsTyped DEF Turns
<1>3. Attends(w)'
  BY <1>2 DEF Attends, Binding, Sealing, Integrating, Cleaning
<1>4. Ordered(w)'
  BY <1>1, <1>2 DEF Local, Ordered, Early
<1>5. op'[w].at \in {"idle"} \cup Binding \cup Sealing
  OBVIOUS
<1>6. Adding(w)'
  BY <1>1, <1>2, <1>5 DEF Local, Adding, Told, Present, AfterCas, UnderLock, Binding, Sealing
<1>7. Reporting(w)'
  <2>1. Present(w)' = Present(w)
    BY DEF Present
  <2> QED
    BY <1>1, <1>2, <1>5, <2>1 DEF Local, Adding, Reporting, Told, Binding, Sealing
<1>8. Holding(w)'
  BY <1>5 DEF Holding, Leased, UnderLock, UnderCleanup, Binding, Sealing
<1>9. Removing(w)'
  BY <1>1, <1>2, <1>5 DEF Removing, Told, Binding, Sealing
<1>10. crashes' = 0 => Keeping(w)'
  <2>1. SUFFICES ASSUME crashes' = 0 PROVE Keeping(w)'
    OBVIOUS
  <2>2. Keeping(w) /\ ~Deleted(w)
    <3>1. op[w].at \in {"idle"} \cup Binding \cup Sealing
      BY <1>1, Rests DEF WriterInv, Typed, OpTyped, Steps, Local, Attends, Binding, Sealing, Integrating, Cleaning
    <3> QED
      BY <1>1, <1>2, <2>1, <3>1 DEF Local, Deleted, Binding, Sealing
  <2>3. res'[w].branch = None => Gone(w)'
    BY <2>2 DEF Keeping, Gone
  <2> QED
    BY <1>1, <1>2, <1>5, <2>3 DEF Keeping, Binding, Sealing
<1> QED
  BY <1>2, <1>3, <1>4, <1>6, <1>7, <1>8, <1>9, <1>10, StepKeeps DEF Local

-----------------------------------------------------------------------------
(* The integration *)

\* The facts that every step of an integration starts from.
LEMMA InIntegration ==
    ASSUME WriterInv, NEW w \in Writers, op[w].at \in Integrating \/ pc[w] = "integrating"
    PROVE  /\ Typed /\ OpTyped /\ Attends(w) /\ Holding(w) /\ Adding(w) /\ Reporting(w)
           /\ life[w].integ = "started" /\ base[w] # None /\ root \in Roots
           /\ op[w].at \in Integrating => pc[w] = "settle"
           /\ pc[w] = "integrating" => op[w].at = "idle"
           /\ root.main = Final(w) => Present(w)
<1>1. Typed /\ Local(w)
  BY DEF WriterInv
<1>2. life[w].integ = "started" /\ base[w] # None
  BY <1>1 DEF Local, Attends, Ordered
<1>3. root.main = Final(w) => Present(w)
  BY <1>1, <1>2, FinalCommit DEF Present
<1> QED
  BY <1>1, <1>2, <1>3, Rests DEF Local, Attends, Typed

LEMMA IntegrationTurns ==
    ASSUME WriterInv, NEW w \in Writers, op[w].at \in Integrating, UNCHANGED <<res, base, acts>>,
           UNCHANGED lifeVars, OpTyped', \A v \in Writers : v # w => op'[v] = op[v]
    PROVE  Turns(w, "settle") /\ crashes' = crashes /\ pc'[w] = "settle" /\ life' = life /\ base' = base
  BY InIntegration DEF Turns, lifeVars, Typed

\* Letting HEAD.lock and the lease go.
LEMMA Released ==
    ASSUME Typed, NEW w \in Writers, NEW k \in {"integration", "cleanup"},
           headLock' = Unlocked(w, k), lease' = Unleased(w)
    PROVE  /\ headLock' = headLock \/ {headLock, headLock'} \subseteq {Free} \cup Own(w)
           /\ lease' = lease \/ {lease, lease'} \subseteq {None, w}
           /\ headLock = Marker(k, w) => headLock' = Free
  BY DEF Unlocked, Unleased, Own

LEMMA IntegrateKeeps == ASSUME WriterInv, NEW w \in Writers, Integrate(w) PROVE WriterInv'
<1> USE DEF Integrate
<1>1. /\ Typed /\ OpTyped /\ Adding(w) /\ Reporting(w) /\ life[w].integ = "started" /\ base[w] # None
      /\ op[w].at = "idle" /\ (root.main = Final(w) => Present(w))
  BY InIntegration
<1>2. /\ OpTyped' /\ \A v \in Writers : v # w => op'[v] = op[v]
      /\ \/ op'[w].at = "intLease"
         \/ op'[w].at = "idle" /\ op'[w].ret \in {"conflict", "recovery"}
  <2> DEFINE r == IF \/ HeadCommit \notin {base[w], Final(w)}
                     \/ HeadCommit = base[w] /\ Revision # life[w].rev
                     \/ root.head # "main" THEN "conflict"
                  ELSE IF ~WorktreeAt(w, Final(w), FALSE) THEN "recovery"
                  ELSE IF res[w].work # "clean" THEN "conflict" ELSE None
  <2>1. IF r # None THEN Answer(w, r) ELSE Begin(w, "intLease", None)
    BY DEF IntegrateStart
  <2>2. r \in {"conflict", "recovery", None}
    OBVIOUS
  <2> HIDE DEF r
  <2>3. CASE r # None
    BY <1>1, <2>1, <2>2, <2>3, AnswerOp
  <2>4. CASE r = None
    BY <1>1, <2>1, <2>4, BeginOp DEF Steps
  <2> QED
    BY <2>3, <2>4
<1>3. Turns(w, "settle") /\ UNCHANGED <<root, headLock, lease, res, base, life, crashes>> /\ pc'[w] = "settle"
  BY <1>1, <1>2 DEF Turns, IntegrateStart, Advance, Typed, PCs
<1>4. Hands(w)
  BY <1>1, <1>3 DEF Hands, Yields, Lockers, UnderLock, UnderCleanup
<1>5. Holding(w)'
  BY <1>2 DEF Holding, Leased, UnderLock, UnderCleanup
<1>6. Adding(w)'
  BY <1>1, <1>2, <1>3 DEF Adding, Told, Present, AfterCas, UnderLock
<1>7. Reporting(w)'
  <2>1. crashes = 0 => ~Present(w) /\ Synced(w)'
    BY <1>1, <1>3 DEF Reporting, AfterCas, UnderLock, Synced, Final
  <2> QED
    BY <1>1, <1>2, <1>3, <2>1 DEF Reporting, Told, Present, Calm
<1> QED
  BY <1>2, <1>3, <1>4, <1>5, <1>6, <1>7, IntegratingKeeps DEF Integrating

LEMMA IntegrateLeaseKeeps ==
    ASSUME WriterInv, NEW w \in Writers, IntegrateLease(w), UNCHANGED lifeVars PROVE WriterInv'
<1>1. /\ Typed /\ OpTyped /\ Adding(w) /\ Reporting(w) /\ life[w].integ = "started" /\ base[w] # None
      /\ op[w].at = "intLease" /\ (root.main = Final(w) => Present(w)) /\ pc[w] = "settle"
      /\ op[w].at \in Integrating
  BY InIntegration DEF IntegrateLease, Integrating
<1>2. crashes = 0 => ~Present(w)
  BY <1>1 DEF Reporting, AfterCas, UnderLock
<1>3. CASE Answer(w, "conflict") /\ UNCHANGED <<headLock, lease>>
  <2>1. /\ OpTyped' /\ \A v \in Writers : v # w => op'[v] = op[v]
        /\ op'[w].at = "idle" /\ op'[w].ret = "conflict"
    BY <1>1, <1>3, AnswerOp
  <2>2. Turns(w, "settle") /\ UNCHANGED <<root, res, base, life, crashes>> /\ pc'[w] = "settle"
    BY <1>1, <2>1, IntegrationTurns DEF IntegrateLease
  <2>3. Hands(w)
    BY <1>1, <1>3 DEF Hands, Yields, Lockers, UnderLock, UnderCleanup
  <2>4. Holding(w)' /\ Adding(w)'
    BY <1>1, <2>1, <2>2 DEF Holding, Leased, UnderLock, UnderCleanup, Adding, Told, Present, AfterCas
  <2>5. Reporting(w)'
    BY <1>1, <1>2, <2>1, <2>2 DEF Reporting, Told, Calm, Synced, Final
  <2> QED
    BY <1>1, <2>1, <2>2, <2>3, <2>4, <2>5, IntegratingKeeps
<1>4. CASE /\ lease = None /\ root.main \in {base[w], Final(w)}
           /\ root.main = base[w] => headLock \in {Free, Marker("integration", w)}
           /\ lease' = w /\ headLock' = IF root.main = base[w] THEN Free ELSE headLock
           /\ Goto(w, IF root.main = base[w] THEN "intCas" ELSE "intRelock")
  <2>1. /\ OpTyped' /\ \A v \in Writers : v # w => op'[v] = op[v]
        /\ op'[w].at \in {"intCas", "intRelock"} /\ (op'[w].at = "intRelock" => Present(w))
    BY <1>1, <1>4, GotoOp DEF Steps
  <2>2. Turns(w, "settle") /\ UNCHANGED <<root, res, base, life, crashes>> /\ pc'[w] = "settle"
    BY <1>1, <2>1, IntegrationTurns DEF IntegrateLease
  <2>3. Hands(w)
    BY <1>1, <1>4 DEF Hands, Yields, Lockers, UnderLock, UnderCleanup, Own
  <2>4. Holding(w)' /\ Adding(w)'
    BY <1>1, <1>4, <2>1, <2>2 DEF Holding, Leased, UnderLock, UnderCleanup, Adding, Told, Present, AfterCas
  <2>5. Reporting(w)'
    BY <1>1, <1>2, <2>1, <2>2 DEF Reporting, Told, Present
  <2> QED
    BY <1>1, <2>1, <2>2, <2>3, <2>4, <2>5, IntegratingKeeps DEF Integrating
<1> QED
  BY <1>3, <1>4 DEF IntegrateLease

LEMMA IntegrateCasKeeps ==
    ASSUME WriterInv, NEW w \in Writers, IntegrateCas(w), UNCHANGED lifeVars PROVE WriterInv'
<1>1. /\ Typed /\ OpTyped /\ Adding(w) /\ Reporting(w) /\ life[w].integ = "started" /\ base[w] # None
      /\ op[w].at = "intCas" /\ (root.main = Final(w) => Present(w)) /\ pc[w] = "settle"
      /\ op[w].at \in Integrating /\ lease = w /\ root \in Roots
  BY InIntegration DEF IntegrateCas, Integrating, Holding, Leased
<1>2. crashes = 0 => ~Present(w)
  BY <1>1 DEF Reporting, AfterCas, UnderLock
<1>3. ASSUME NEW r \in {"conflict", "recovery"}, Answer(w, r), lease' = Unleased(w), UNCHANGED root PROVE WriterInv'
  <2>1. /\ OpTyped' /\ \A v \in Writers : v # w => op'[v] = op[v]
        /\ op'[w].at = "idle" /\ op'[w].ret = r
    BY <1>1, <1>3, AnswerOp
  <2>2. Turns(w, "settle") /\ UNCHANGED <<headLock, res, base, life, crashes>> /\ pc'[w] = "settle"
    BY <1>1, <2>1, IntegrationTurns DEF IntegrateCas
  <2>3. Hands(w)
    BY <1>1, <1>3, <2>2 DEF Hands, Yields, Lockers, UnderLock, UnderCleanup, Unleased
  <2>4. Holding(w)' /\ Adding(w)'
    BY <1>1, <1>3, <2>1, <2>2 DEF Holding, Leased, UnderLock, UnderCleanup, Adding, Told, Present, AfterCas
  <2>5. Reporting(w)'
    BY <1>1, <1>2, <1>3, <2>1, <2>2 DEF Reporting, Told, Calm, Synced, Final
  <2> QED
    BY <1>1, <1>3, <2>1, <2>2, <2>3, <2>4, <2>5, IntegratingKeeps
<1>4. CASE /\ headLock = Free \/ root.head # "main"
           /\ root.main = base[w] /\ root' = [root EXCEPT !.main = Final(w)]
           /\ Goto(w, "intLock") /\ UNCHANGED lease
  <2>1. /\ OpTyped' /\ \A v \in Writers : v # w => op'[v] = op[v]
        /\ op'[w].at = "intLock"
    BY <1>1, <1>4, GotoOp DEF Steps
  <2>2. Turns(w, "settle") /\ UNCHANGED <<headLock, res, base, life, crashes>> /\ pc'[w] = "settle"
    BY <1>1, <2>1, IntegrationTurns DEF IntegrateCas
  <2>3. Hands(w)
    BY <1>1, <1>4, <2>2 DEF Hands, Yields, Lockers, UnderLock, UnderCleanup
  <2>4. Casts(w)
    BY <1>1, <1>4, <2>2 DEF Casts
  <2>5. Present(w)'
    BY <1>1, <1>4, FinalCommit DEF Present, Roots
  <2>6. Holding(w)' /\ Adding(w)'
    BY <1>1, <1>4, <2>1, <2>2, <2>5 DEF Holding, Leased, UnderLock, UnderCleanup, Adding, Told
  <2>7. Reporting(w)'
    BY <1>1, <2>1, <2>2 DEF Reporting, Told, AfterCas
  <2> QED
    BY <1>1, <2>1, <2>2, <2>3, <2>4, <2>6, <2>7, IntegratingKeeps DEF Integrating
<1> QED
  BY <1>3, <1>4 DEF IntegrateCas

LEMMA IntegrateLockKeeps ==
    ASSUME WriterInv, NEW w \in Writers, IntegrateLock(w), UNCHANGED lifeVars PROVE WriterInv'
<1>1. /\ Typed /\ OpTyped /\ Adding(w) /\ Reporting(w) /\ life[w].integ = "started" /\ base[w] # None
      /\ op[w].at \in {"intLock", "intRelock"} /\ pc[w] = "settle"
      /\ op[w].at \in Integrating /\ lease = w /\ Present(w)
  BY InIntegration DEF IntegrateLock, Integrating, Holding, Leased, Adding, AfterCas
<1>2. CASE headLock \in {Free, Marker("integration", w)}
  <2>0. headLock' = Marker("integration", w) /\ UNCHANGED <<root, lease>>
    BY <1>2 DEF IntegrateLock
  <2>1. /\ OpTyped' /\ \A v \in Writers : v # w => op'[v] = op[v]
        /\ op'[w].at = IF op[w].at = "intLock" THEN "intCheck" ELSE "intRecheck"
    BY <1>1, <1>2, GotoOp DEF IntegrateLock, Steps
  <2>2. Turns(w, "settle") /\ UNCHANGED <<res, base, life, crashes>> /\ pc'[w] = "settle"
    BY <1>1, <2>1, IntegrationTurns DEF IntegrateLock
  <2>3. Hands(w)
    BY <1>2, <2>0, <2>1 DEF Hands, Yields, Lockers, UnderLock, Own
  <2>4. Holding(w)' /\ Adding(w)'
    BY <1>1, <2>0, <2>1, <2>2 DEF Holding, UnderLock, UnderCleanup, Adding, Told, Present
  <2>5. Reporting(w)'
    BY <1>1, <2>0, <2>1, <2>2 DEF Reporting, Told, Present, AfterCas, UnderLock
  <2> QED
    BY <1>1, <2>0, <2>1, <2>2, <2>3, <2>4, <2>5, IntegratingKeeps DEF Integrating
<1>3. CASE headLock \notin {Free, Marker("integration", w)}
  <2>0. lease' = Unleased(w) /\ UNCHANGED <<root, headLock>>
    BY <1>3 DEF IntegrateLock
  <2>1. /\ OpTyped' /\ \A v \in Writers : v # w => op'[v] = op[v]
        /\ op'[w].at = "idle" /\ op'[w].ret = "conflict"
    BY <1>1, <1>3, AnswerOp DEF IntegrateLock
  <2>2. Turns(w, "settle") /\ UNCHANGED <<res, base, life, crashes>> /\ pc'[w] = "settle"
    BY <1>1, <2>1, IntegrationTurns DEF IntegrateLock
  <2>3. Hands(w)
    BY <1>1, <2>0 DEF Hands, Yields, Lockers, UnderLock, UnderCleanup, Unleased
  <2>4. ~Calm
    <3>1. SUFFICES ASSUME NEW v \in Writers, op[v].at \in UnderLock \cup UnderCleanup PROVE FALSE
      BY <1>3 DEF WriterInv, Attended
    <3>2. lease = v
      BY <3>1 DEF WriterInv, Local, Holding, Leased
    <3> QED
      BY <1>1, <3>1, <3>2 DEF UnderLock, UnderCleanup
  <2>5. Holding(w)' /\ Adding(w)'
    BY <1>1, <2>0, <2>1, <2>2 DEF Holding, Leased, UnderLock, UnderCleanup, Adding, Told, Present
  <2>6. Reporting(w)'
    BY <1>1, <2>0, <2>1, <2>2, <2>4 DEF Reporting, Told, Calm
  <2> QED
    BY <1>1, <2>0, <2>1, <2>2, <2>3, <2>5, <2>6, IntegratingKeeps
<1> QED
  BY <1>2, <1>3

\* An integration under HEAD.lock ends with r.
LEMMA FailKeeps ==
    ASSUME WriterInv, NEW w \in Writers, op[w].at \in UnderLock, UNCHANGED <<root, res, base, acts>>, UNCHANGED lifeVars,
           NEW r \in {"conflict", "recovery"}, Fail(w, "integration", r), Calm /\ r = "conflict" => Synced(w)
    PROVE  WriterInv'
<1>1. /\ Typed /\ OpTyped /\ Adding(w) /\ Reporting(w) /\ life[w].integ = "started" /\ base[w] # None
      /\ pc[w] = "settle" /\ op[w].at \in Integrating /\ lease = w /\ headLock = Marker("integration", w) /\ Present(w)
  BY InIntegration DEF UnderLock, Integrating, Holding, Leased, Adding, AfterCas
<1>2. /\ OpTyped' /\ \A v \in Writers : v # w => op'[v] = op[v]
      /\ op'[w].at = "idle" /\ op'[w].ret = r
  BY <1>1, AnswerOp DEF Fail
<1>3. Turns(w, "settle") /\ UNCHANGED <<base, life, crashes>> /\ pc'[w] = "settle"
  BY <1>1, <1>2, IntegrationTurns
<1>4. Hands(w)
  BY <1>1, Released DEF Hands, Yields, Fail
<1>5. Holding(w)' /\ Adding(w)'
  BY <1>1, <1>2, <1>3 DEF Holding, Leased, UnderLock, UnderCleanup, Adding, Told, Present
<1>6. Reporting(w)'
  BY <1>1, <1>2, <1>3 DEF Reporting, Told, Calm, Synced, Final
<1> QED
  BY <1>1, <1>2, <1>3, <1>4, <1>5, <1>6, IntegratingKeeps

\* An integration is done under HEAD.lock, and lets it go.
LEMMA DoneKeeps ==
    ASSUME WriterInv, NEW w \in Writers, op[w].at \in UnderLock, UNCHANGED <<root, res, base, acts>>, UNCHANGED lifeVars,
           Goto(w, "intObserve"), headLock' = Unlocked(w, "integration"), lease' = Unleased(w), Synced(w)
    PROVE  WriterInv'
<1>1. /\ Typed /\ OpTyped /\ Adding(w) /\ Reporting(w) /\ life[w].integ = "started" /\ base[w] # None
      /\ pc[w] = "settle" /\ op[w].at \in Integrating /\ lease = w /\ headLock = Marker("integration", w) /\ Present(w)
  BY InIntegration DEF UnderLock, Integrating, Holding, Leased, Adding, AfterCas
<1>2. /\ OpTyped' /\ \A v \in Writers : v # w => op'[v] = op[v]
      /\ op'[w].at = "intObserve"
  BY <1>1, GotoOp DEF Steps
<1>3. Turns(w, "settle") /\ UNCHANGED <<base, life, crashes>> /\ pc'[w] = "settle"
  BY <1>1, <1>2, IntegrationTurns
<1>4. Hands(w)
  BY <1>1, Released DEF Hands, Yields
<1>5. Holding(w)' /\ Adding(w)'
  BY <1>1, <1>2, <1>3 DEF Holding, Leased, UnderLock, UnderCleanup, Adding, Told, Present
<1>6. Reporting(w)'
  BY <1>1, <1>2, <1>3 DEF Reporting, Told, Synced, Final, AfterCas
<1> QED
  BY <1>1, <1>2, <1>3, <1>4, <1>5, <1>6, IntegratingKeeps DEF Integrating

LEMMA IntegrateCheckKeeps ==
    ASSUME WriterInv, NEW w \in Writers, IntegrateCheck(w), UNCHANGED lifeVars PROVE WriterInv'
<1>1. /\ Typed /\ OpTyped /\ Adding(w) /\ Reporting(w) /\ life[w].integ = "started" /\ base[w] # None
      /\ pc[w] = "settle" /\ op[w].at \in Integrating /\ lease = w /\ headLock = Marker("integration", w) /\ Present(w)
      /\ op[w].at \in UnderLock /\ op[w].at \in {"intCheck", "intRecheck"}
  BY InIntegration DEF IntegrateCheck, UnderLock, Integrating, Holding, Leased, Adding, AfterCas
<1>2. UNCHANGED <<root, res, base, acts>>
  BY DEF IntegrateCheck
<1>3. op[w].at = "intRecheck" => crashes # 0
  BY <1>1 DEF Reporting
<1>4. CASE \E r \in {"conflict", "recovery"} :
              Fail(w, "integration", r) /\ (r = "conflict" => op[w].at = "intRecheck")
  BY <1>1, <1>2, <1>3, <1>4, FailKeeps DEF Calm
<1>5. CASE /\ RootClean /\ Goto(w, "intObserve")
           /\ headLock' = Unlocked(w, "integration") /\ lease' = Unleased(w)
  <2>1. Synced(w)
    BY <1>5 DEF RootClean, HeadCommit, Synced
  <2> QED
    BY <1>1, <1>2, <1>5, <2>1, DoneKeeps
<1>6. CASE root.head = "main" /\ root.main = Final(w) /\ Goto(w, "intApply") /\ UNCHANGED <<headLock, lease>>
  <2>1. /\ OpTyped' /\ \A v \in Writers : v # w => op'[v] = op[v]
        /\ op'[w].at = "intApply"
    BY <1>1, <1>6, GotoOp DEF Steps
  <2>2. Turns(w, "settle") /\ UNCHANGED <<base, life, crashes>> /\ pc'[w] = "settle"
    BY <1>1, <1>2, <2>1, IntegrationTurns
  <2>3. Hands(w)
    BY <1>6, <2>1 DEF Hands, Yields, Lockers, UnderLock
  <2>4. Holding(w)' /\ Adding(w)'
    BY <1>1, <1>2, <1>6, <2>1, <2>2 DEF Holding, UnderCleanup, Adding, Told, Present, Final
  <2>5. Reporting(w)'
    BY <1>1, <2>1, <2>2 DEF Reporting, Told, AfterCas, UnderLock
  <2> QED
    BY <1>1, <1>2, <2>1, <2>2, <2>3, <2>4, <2>5, IntegratingKeeps DEF Integrating
<1> QED
  BY <1>4, <1>5, <1>6 DEF IntegrateCheck

LEMMA IntegrateApplyKeeps ==
    ASSUME WriterInv, NEW w \in Writers, IntegrateApply(w), UNCHANGED lifeVars PROVE WriterInv'
<1>1. /\ Typed /\ OpTyped /\ Adding(w) /\ Reporting(w) /\ life[w].integ = "started" /\ base[w] # None
      /\ pc[w] = "settle" /\ op[w].at \in Integrating /\ lease = w /\ headLock = Marker("integration", w) /\ Present(w)
      /\ op[w].at \in UnderLock /\ op[w].at = "intApply" /\ root.head = "main" /\ root.main = Final(w) /\ root \in Roots
  BY InIntegration DEF IntegrateApply, UnderLock, Integrating, Holding, Leased, Adding, AfterCas
<1>2. UNCHANGED <<res, base, acts>>
  BY DEF IntegrateApply
<1>3. CASE Fail(w, "integration", "recovery") /\ UNCHANGED root
  BY <1>1, <1>2, <1>3, FailKeeps
<1>4. CASE root' = [root EXCEPT !.checkout = Final(w)] /\ Goto(w, "intValidate") /\ UNCHANGED <<headLock, lease>>
  <2>1. /\ OpTyped' /\ \A v \in Writers : v # w => op'[v] = op[v]
        /\ op'[w].at = "intValidate"
    BY <1>1, <1>4, GotoOp DEF Steps
  <2>2. Turns(w, "settle") /\ UNCHANGED <<base, life, crashes>> /\ pc'[w] = "settle"
    BY <1>1, <1>2, <2>1, IntegrationTurns
  <2>3. Hands(w) /\ Writes(w)
    BY <1>1, <1>4, <2>1 DEF Hands, Yields, Lockers, UnderLock, Writes
  <2>4. root'.head = "main" /\ root'.main = root.main /\ root'.checkout = Final(w) /\ Final(w)' = Final(w)
    BY <1>1, <1>4, <2>2 DEF Roots, Final
  <2>5. Holding(w)' /\ Adding(w)'
    BY <1>1, <1>4, <2>1, <2>2, <2>4 DEF Holding, UnderCleanup, Adding, Told, Present
  <2>6. Reporting(w)'
    BY <1>1, <2>1, <2>2 DEF Reporting, Told, AfterCas, UnderLock
  <2> QED
    BY <1>1, <1>2, <2>1, <2>2, <2>3, <2>5, <2>6, IntegratingKeeps DEF Integrating
<1> QED
  BY <1>3, <1>4 DEF IntegrateApply

LEMMA IntegrateValidateKeeps ==
    ASSUME WriterInv, NEW w \in Writers, IntegrateValidate(w), UNCHANGED lifeVars PROVE WriterInv'
<1>1. op[w].at \in UnderLock /\ Synced(w) /\ UNCHANGED <<root, res, base, acts>>
  BY InIntegration DEF IntegrateValidate, UnderLock, Integrating, Holding, Synced
<1>2. CASE \E r \in {"conflict", "recovery"} : Fail(w, "integration", r)
  BY <1>1, <1>2, FailKeeps
<1>3. CASE Goto(w, "intObserve") /\ headLock' = Unlocked(w, "integration") /\ lease' = Unleased(w)
  BY <1>1, <1>3, DoneKeeps
<1> QED
  BY <1>2, <1>3 DEF IntegrateValidate

LEMMA IntegrateObserveKeeps ==
    ASSUME WriterInv, NEW w \in Writers, IntegrateObserve(w), UNCHANGED lifeVars PROVE WriterInv'
<1>1. /\ Typed /\ OpTyped /\ Adding(w) /\ Reporting(w) /\ life[w].integ = "started" /\ base[w] # None
      /\ pc[w] = "settle" /\ op[w].at \in Integrating /\ Present(w) /\ op[w].at = "intObserve"
  BY InIntegration DEF IntegrateObserve, Integrating, Adding, AfterCas
<1>2. /\ OpTyped' /\ \A v \in Writers : v # w => op'[v] = op[v]
      /\ op'[w].at = "idle" /\ op'[w].ret = "ok"
  <2> DEFINE o == [at |-> "idle", arg |-> None, ret |-> "ok", rev |-> Revision]
  <2>1. Formed(o) /\ o.at = "idle" /\ o.ret = "ok" /\ "idle" \in Steps
    BY DEF Formed, Steps
  <2>2. op' = [op EXCEPT ![w] = o]
    BY DEF IntegrateObserve
  <2> HIDE DEF o
  <2> QED
    BY <1>1, <2>1, <2>2, OpTurns
<1>3. UNCHANGED <<root, headLock, lease, res, base, acts>>
  BY DEF IntegrateObserve
<1>4. Turns(w, "settle") /\ UNCHANGED <<life, crashes>> /\ pc'[w] = "settle"
  BY <1>1, <1>2, <1>3, IntegrationTurns
<1>5. Hands(w)
  BY <1>1, <1>3 DEF Hands, Yields, Lockers, UnderLock, UnderCleanup
<1>6. Holding(w)' /\ Adding(w)'
  BY <1>1, <1>2, <1>3, <1>4 DEF Holding, Leased, UnderLock, UnderCleanup, Adding, Told, Present
<1>7. Reporting(w)'
  BY <1>1, <1>2, <1>3, <1>4 DEF Reporting, Told, Synced, Final
<1> QED
  BY <1>1, <1>2, <1>3, <1>4, <1>5, <1>6, <1>7, IntegratingKeeps

-----------------------------------------------------------------------------
(* The cleanup *)

\* The facts that every step of a cleanup starts from.
LEMMA InCleanup ==
    ASSUME WriterInv, NEW w \in Writers, op[w].at \in Cleaning
    PROVE  /\ Typed /\ OpTyped /\ Holding(w) /\ Removing(w) /\ (crashes = 0 => Keeping(w))
           /\ life[w].plan # None /\ life[w].plan.mode = "remove" /\ op[w].arg = life[w].plan.commit
           /\ op[w].arg \in Commits /\ op[w].arg # None /\ life[w].cleanup = "none" /\ base[w] # None
           /\ pc[w] = "cleaned" /\ res[w] \in Resources /\ res \in [Writers -> Resources]
<1>1. Typed /\ Local(w)
  BY DEF WriterInv
<1>2. None \notin Commits
  BY GitAssumption
<1> QED
  BY <1>1, <1>2 DEF Local, Attends, Ordered, Typed, Early

LEMMA CleanupTurns ==
    ASSUME WriterInv, NEW w \in Writers, op[w].at \in Cleaning, UNCHANGED <<base, acts>>,
           UNCHANGED lifeVars, OpTyped', \A v \in Writers : v # w => op'[v] = op[v],
           NEW r \in Resources, res' = [res EXCEPT ![w] = r]
    PROVE  /\ Turns(w, "cleaned") /\ crashes' = crashes /\ pc'[w] = "cleaned" /\ life' = life /\ base' = base
           /\ res'[w] = r
  BY InCleanup DEF Turns, lifeVars, Typed

\* A cleanup goes on at step, with the resources r.
LEMMA CleanupGoes ==
    ASSUME WriterInv, NEW w \in Writers, op[w].at \in UnderCleanup, UNCHANGED <<root, base, acts>>, UNCHANGED lifeVars,
           NEW r \in Resources, res' = [res EXCEPT ![w] = r],
           NEW step \in UnderCleanup, Goto(w, step), UNCHANGED <<headLock, lease>>,
           Removing(w)', crashes = 0 => Keeping(w)'
    PROVE  WriterInv'
<1>1. op[w].at \in Cleaning /\ step \in Cleaning /\ step \in Steps
  BY DEF Cleaning, UnderCleanup, Steps
<1>2. /\ OpTyped' /\ \A v \in Writers : v # w => op'[v] = op[v]
      /\ op'[w].at = step /\ op'[w].arg = op[w].arg
  BY <1>1, GotoOp, InCleanup
<1>3. Turns(w, "cleaned") /\ UNCHANGED <<base, life, crashes>>
  BY <1>1, <1>2, CleanupTurns
<1>4. Hands(w)
  BY <1>2 DEF Hands, Yields, Lockers
<1>5. Holding(w)'
  BY <1>1, <1>2, InCleanup DEF Holding, Leased, UnderLock, UnderCleanup
<1> QED
  BY <1>1, <1>2, <1>3, <1>4, <1>5, InCleanup, CleaningKeeps

\* A cleanup ends with an answer, and with the resources r.
LEMMA CleanupEnds ==
    ASSUME WriterInv, NEW w \in Writers, op[w].at \in Cleaning, UNCHANGED <<root, base, acts>>, UNCHANGED lifeVars,
           NEW r \in Resources, res' = [res EXCEPT ![w] = r],
           NEW a \in {"removed", "retained"}, Answer(w, a), Hands(w),
           a = "removed" => Absent(w)' /\ ~r.tomb /\ headLock' \notin Own(w),
           crashes = 0 /\ r.branch = None => ~r.path /\ ~r.reg /\ ~r.tomb /\ r.foreign # "yes"
    PROVE  WriterInv'
<1>1. /\ OpTyped' /\ \A v \in Writers : v # w => op'[v] = op[v]
      /\ op'[w].at = "idle" /\ op'[w].ret = a
  BY AnswerOp, InCleanup
<1>2. Turns(w, "cleaned") /\ UNCHANGED <<base, life, crashes>> /\ res'[w] = r /\ pc'[w] = "cleaned"
  BY <1>1, CleanupTurns
<1>3. Holding(w)'
  BY <1>1 DEF Holding, Leased, UnderLock, UnderCleanup
<1>4. life[w].cleanup = "none" /\ pc[w] = "cleaned"
  BY InCleanup
<1>5. Removing(w)'
  BY <1>1, <1>2, <1>4 DEF Removing, Told, Own
<1>6. crashes = 0 => Keeping(w)'
  BY <1>1, <1>2, <1>4 DEF Keeping, Deleted, Absent
<1> QED
  BY <1>1, <1>2, <1>3, <1>4, <1>5, <1>6, CleaningKeeps

\* The resources of w as they are, and with the branch restored.
LEMMA Resourceful ==
    ASSUME WriterInv, NEW w \in Writers, op[w].at \in Cleaning
    PROVE  /\ res[w] \in Resources /\ (UNCHANGED res => res' = [res EXCEPT ![w] = res[w]])
           /\ Restored(w) \in Resources /\ Restored(w).branch # None
<1>1. res \in [Writers -> Resources] /\ op[w].arg \in Commits /\ op[w].arg # None /\ res[w] \in Resources
  BY InCleanup
<1>2. Restored(w) = [res[w] EXCEPT !.branch = IF res[w].branch # None THEN res[w].branch ELSE op[w].arg]
  BY DEF Restored, BranchPresent
<1> QED
  BY <1>1, <1>2 DEF Resources

LEMMA RetainKeeps ==
    ASSUME WriterInv, NEW w \in Writers, op[w].at \in UnderCleanup \cup {"clForget", "clLast"},
           UNCHANGED <<root, base, acts>>, UNCHANGED lifeVars, NEW r \in Resources, Retain(w, r),
           crashes = 0 /\ r.branch = None => ~r.path /\ ~r.reg /\ ~r.tomb /\ r.foreign # "yes"
    PROVE  WriterInv'
<1>1. op[w].at \in Cleaning
  BY DEF Cleaning, UnderCleanup
<1>2. /\ Typed /\ (op[w].at \in UnderCleanup => headLock = Marker("cleanup", w))
      /\ (op[w].at \in {"clForget", "clLast"} => headLock \notin Own(w))
  BY <1>1, InCleanup DEF Holding, Removing
<1>3. Hands(w)
  <2>1. headLock' = Unlocked(w, "cleanup") /\ lease' = Unleased(w)
    BY DEF Retain
  <2>2. op[w].at \in {"clForget", "clLast"} => headLock' = headLock /\ op[w].at \notin Lockers
    BY <1>2, <2>1 DEF Unlocked, Own, Lockers, UnderLock, UnderCleanup
  <2> QED
    BY <1>2, <2>1, <2>2, Released DEF Hands, Yields
<1>4. res' = [res EXCEPT ![w] = r] /\ res'[w] = r
  BY <1>1, InCleanup DEF Retain
<1> DEFINE a == Leftover(r, Unlocked(w, "cleanup"))
<1>5. /\ a \in {"removed", "retained"} /\ Answer(w, a)
      /\ a = "removed" => ~r.path /\ ~r.reg /\ r.branch = None /\ ~r.tomb /\ headLock' = Free
  BY DEF Leftover, Retain
<1>6. Free \notin Own(w)
  BY NotFree DEF Own
<1>7. a = "removed" => Absent(w)' /\ ~r.tomb /\ headLock' \notin Own(w)
  BY <1>4, <1>5, <1>6 DEF Absent, Own
<1> HIDE DEF a
<1> QED
  BY <1>1, <1>3, <1>4, <1>5, <1>7, CleanupEnds

LEMMA CleanKeeps == ASSUME WriterInv, NEW w \in Writers, Clean(w) PROVE WriterInv'
<1>1. /\ Typed /\ Local(w) /\ OpTyped /\ op[w].at = "idle" /\ pc[w] = "clean"
      /\ life[w].plan # None /\ life[w].cleanup = "none"
      /\ life[w].plan.mode \in {"remove", "retain"}
  BY Rests DEF Clean, WriterInv, Local, Typed, Ordered
<1>2. UNCHANGED <<root, headLock, lease, res, base, acts, life, crashes>> /\ pc' = [pc EXCEPT ![w] = "cleaned"]
  BY DEF Clean, CleanupStart, Advance
<1>3. /\ OpTyped' /\ \A v \in Writers : v # w => op'[v] = op[v]
      /\ \/ /\ op'[w].at = "clLock" /\ life[w].plan.mode = "remove" /\ op'[w].arg = life[w].plan.commit
         \/ /\ op'[w].at = "idle" /\ op'[w].ret \in {"removed", "retained"}
            /\ op'[w].ret = "removed" => Absent(w) /\ ~res[w].tomb /\ headLock = Free
  <2>1. CASE Begin(w, "clLock", life[w].plan.commit) /\ life[w].plan.mode # "retain"
    BY <1>1, <2>1, BeginOp DEF Steps
  <2>2. CASE Answer(w, "retained")
    BY <1>1, <2>2, AnswerOp
  <2>3. CASE Answer(w, Leftover(res[w], headLock))
    BY <1>1, <2>3, AnswerOp DEF Leftover, Absent
  <2> QED
    BY <2>1, <2>2, <2>3 DEF Clean, CleanupStart
<1>4. Turns(w, "cleaned") /\ pc'[w] = "cleaned"
  BY <1>1, <1>2, <1>3 DEF Turns, Typed, PCs
<1>5. Hands(w)
  BY <1>1, <1>2 DEF Hands, Yields, Lockers, UnderLock, UnderCleanup
<1>6. Holding(w)'
  BY <1>3 DEF Holding, Leased, UnderLock, UnderCleanup
<1>7. Removing(w)'
  BY <1>1, <1>2, <1>3, NotFree DEF Removing, Told, Absent, Own
<1>8. crashes = 0 => Keeping(w)'
  <2>1. crashes = 0 /\ res[w].branch = None => Gone(w)
    BY <1>1 DEF Local, Keeping, Deleted
  <2> QED
    BY <1>1, <1>2, <1>3, <1>4, <2>1 DEF Keeping, Deleted, Gone, Absent
<1> QED
  BY <1>1, <1>2, <1>3, <1>4, <1>5, <1>6, <1>7, <1>8, CleaningKeeps DEF Cleaning

LEMMA CleanupLockKeeps ==
    ASSUME WriterInv, NEW w \in Writers, CleanupLock(w), UNCHANGED lifeVars PROVE WriterInv'
<1>0. op[w].at = "clLock" /\ op[w].at \in Cleaning /\ UNCHANGED <<root, res, base, acts>>
  BY DEF CleanupLock, Cleaning
<1>1. /\ Typed /\ OpTyped /\ life[w].cleanup = "none" /\ pc[w] = "cleaned" /\ res[w] \in Resources
      /\ life[w].plan.mode = "remove" /\ op[w].arg = life[w].plan.commit /\ (crashes = 0 => Keeping(w))
      /\ res' = [res EXCEPT ![w] = res[w]]
  BY <1>0, InCleanup, Resourceful
<1>2. crashes = 0 /\ res[w].branch = None => Gone(w)
  BY <1>0, <1>1 DEF Keeping, Deleted
<1>3. CASE /\ lease = None /\ headLock \in {Free, Marker("cleanup", w)}
           /\ lease' = w /\ headLock' = Marker("cleanup", w) /\ Goto(w, "clSurvey")
  <2>1. /\ OpTyped' /\ \A v \in Writers : v # w => op'[v] = op[v]
        /\ op'[w].at = "clSurvey" /\ op'[w].arg = op[w].arg
    BY <1>1, <1>3, GotoOp DEF Steps
  <2>2. Turns(w, "cleaned") /\ UNCHANGED <<life, crashes>> /\ pc'[w] = "cleaned"
    BY <1>0, <1>1, <2>1, CleanupTurns
  <2>3. Hands(w)
    BY <1>3, <2>1 DEF Hands, Yields, Lockers, UnderCleanup, Own
  <2>4. Holding(w)' /\ Removing(w)'
    BY <1>1, <1>3, <2>1, <2>2 DEF Holding, UnderLock, Removing, Told
  <2>5. crashes = 0 => Keeping(w)'
    BY <1>0, <1>1, <1>2, <2>1, <2>2 DEF Keeping, Deleted, Gone
  <2> QED
    BY <1>0, <1>1, <2>1, <2>2, <2>3, <2>4, <2>5, CleaningKeeps DEF Cleaning
<1>4. CASE Answer(w, Leftover(res[w], headLock)) /\ UNCHANGED <<headLock, lease>>
  <2> DEFINE a == Leftover(res[w], headLock)
  <2>1. /\ a \in {"removed", "retained"}
        /\ a = "removed" => Absent(w) /\ ~res[w].tomb /\ headLock = Free
    BY DEF Leftover, Absent
  <2>2. a = "removed" => Absent(w)' /\ ~res[w].tomb /\ headLock' \notin Own(w)
    BY <1>0, <1>4, <2>1, NotFree DEF Absent, Own
  <2>3. Hands(w)
    BY <1>0, <1>4 DEF Hands, Yields, Lockers, UnderLock, UnderCleanup
  <2> HIDE DEF a
  <2>4. Answer(w, a)
    BY <1>4 DEF a
  <2> QED
    BY <1>0, <1>1, <1>2, <2>1, <2>2, <2>3, <2>4, CleanupEnds DEF Gone
<1> QED
  BY <1>3, <1>4 DEF CleanupLock

\* The resources r with which a cleanup may go on at step.
Ready(w, step, r) ==
    /\ step = "clDelete" => r.branch \in {None, op[w].arg}
    /\ step = "clRemove" => r.branch = None
    /\ step = "clRelease" => ~r.path /\ ~r.reg /\ r.branch = None
    /\ crashes = 0 =>
        /\ step \in {"clTomb", "clGuard", "clPin", "clCheck", "clDelete"} => r.branch # None
        /\ step \in {"clGuard", "clPin", "clCheck", "clDelete", "clVerify", "clRemove", "clGone"} => r.tomb
        /\ step \in {"clCheck", "clDelete", "clVerify"} => r.reg
        /\ step = "clVerify" => r.branch = None
        /\ step = "clGone" => ~r.path /\ ~r.reg /\ r.branch = None
        /\ step = "clRelease" => r.tomb \/ r.foreign = "no"

LEMMA CleanupProceeds ==
    ASSUME WriterInv, NEW w \in Writers, op[w].at \in UnderCleanup, UNCHANGED <<root, base, acts>>, UNCHANGED lifeVars,
           NEW r \in Resources, res' = [res EXCEPT ![w] = r],
           NEW step \in UnderCleanup \ {"clSurvey"}, Goto(w, step), UNCHANGED <<headLock, lease>>, Ready(w, step, r)
    PROVE  WriterInv'
<1>1. op[w].at \in Cleaning /\ step \in Cleaning /\ step \in Steps
  BY DEF Cleaning, UnderCleanup, Steps
<1>2. OpTyped' /\ (\A v \in Writers : v # w => op'[v] = op[v]) /\ op'[w].at = step /\ op'[w].arg = op[w].arg
  BY <1>1, GotoOp, InCleanup
<1>3. /\ UNCHANGED <<base, life, crashes>> /\ pc'[w] = "cleaned" /\ res'[w] = r
      /\ life[w].cleanup = "none" /\ pc[w] = "cleaned"
  BY <1>1, <1>2, CleanupTurns, InCleanup
<1>4. Removing(w)'
  BY <1>2, <1>3 DEF Removing, Told, Ready, Absent, UnderCleanup
<1>5. crashes = 0 => Keeping(w)'
  BY <1>2, <1>3 DEF Keeping, Deleted, Ready, Absent, UnderCleanup
<1> QED
  BY <1>4, <1>5, CleanupGoes

LEMMA CleanupSurveyKeeps ==
    ASSUME WriterInv, NEW w \in Writers, CleanupSurvey(w), UNCHANGED lifeVars PROVE WriterInv'
<1>0. op[w].at = "clSurvey" /\ op[w].at \in Cleaning /\ op[w].at \in UnderCleanup /\ UNCHANGED <<root, base, acts>>
  BY DEF CleanupSurvey, Cleaning, UnderCleanup
<1>1. /\ crashes = 0 => Keeping(w)
      /\ res[w] \in Resources /\ life[w].cleanup = "none"
      /\ Restored(w) \in Resources /\ Restored(w).branch # None
      /\ UNCHANGED res => res' = [res EXCEPT ![w] = res[w]]
  BY <1>0, InCleanup, Resourceful
<1>2. crashes = 0 /\ res[w].branch = None => Gone(w)
  BY <1>0, <1>1 DEF Keeping, Deleted
<1>3. CASE Retain(w, Restored(w)) \/ Retain(w, res[w])
  BY <1>0, <1>1, <1>2, <1>3, RetainKeeps DEF Gone
<1>4. CASE ~WorktreePresent(w) /\ ~BranchPresent(w) /\ Goto(w, "clRelease") /\ UNCHANGED <<res, headLock, lease>>
  <2>1. Ready(w, "clRelease", res[w])
    BY <1>2, <1>4 DEF Ready, WorktreePresent, BranchPresent, Gone
  <2> QED
    BY <1>0, <1>1, <1>4, <2>1, CleanupProceeds DEF UnderCleanup
<1>5. CASE ~(~WorktreePresent(w) /\ ~BranchPresent(w)) /\ Goto(w, "clTomb") /\ UNCHANGED <<res, headLock, lease>>
  <2>1. Ready(w, "clTomb", res[w])
    BY <1>2, <1>5 DEF Ready, WorktreePresent, BranchPresent, Gone
  <2> QED
    BY <1>0, <1>1, <1>5, <2>1, CleanupProceeds DEF UnderCleanup
<1> QED
  BY <1>3, <1>4, <1>5 DEF CleanupSurvey

LEMMA CleanupTombKeeps ==
    ASSUME WriterInv, NEW w \in Writers, CleanupTomb(w), UNCHANGED lifeVars PROVE WriterInv'
<1>0. op[w].at = "clTomb" /\ op[w].at \in Cleaning /\ op[w].at \in UnderCleanup /\ UNCHANGED <<root, base, acts>>
  BY DEF CleanupTomb, Cleaning, UnderCleanup
<1>1. res[w] \in Resources /\ (crashes = 0 => res[w].branch # None)
  BY <1>0, InCleanup DEF Keeping
<1>2. CASE Retain(w, res[w])
  BY <1>0, <1>1, <1>2, RetainKeeps
<1>3. CASE /\ res' = [res EXCEPT ![w] = [res[w] EXCEPT !.tomb = TRUE]]
           /\ Goto(w, "clGuard") /\ UNCHANGED <<headLock, lease>>
  <2> DEFINE r == [res[w] EXCEPT !.tomb = TRUE]
  <2>1. r \in Resources /\ Ready(w, "clGuard", r)
    BY <1>1 DEF Ready, Resources
  <2> QED
    BY <1>0, <1>3, <2>1, CleanupProceeds DEF UnderCleanup
<1> QED
  BY <1>2, <1>3 DEF CleanupTomb

LEMMA CleanupGuardKeeps ==
    ASSUME WriterInv, NEW w \in Writers, CleanupGuard(w), UNCHANGED lifeVars PROVE WriterInv'
<1>0. op[w].at = "clGuard" /\ op[w].at \in Cleaning /\ op[w].at \in UnderCleanup /\ UNCHANGED <<root, base, acts>>
  BY DEF CleanupGuard, Cleaning, UnderCleanup
<1>1. /\ res[w] \in Resources /\ (crashes = 0 => res[w].branch # None /\ res[w].tomb)
      /\ UNCHANGED res => res' = [res EXCEPT ![w] = res[w]]
  BY <1>0, InCleanup, Resourceful DEF Keeping
<1>2. CASE Retain(w, res[w])
  BY <1>0, <1>1, <1>2, RetainKeeps
<1>3. CASE Goto(w, "clPin") /\ UNCHANGED <<res, headLock, lease>>
  <2>1. Ready(w, "clPin", res[w])
    BY <1>1 DEF Ready
  <2> QED
    BY <1>0, <1>1, <1>3, <2>1, CleanupProceeds DEF UnderCleanup
<1>4. CASE /\ res' = [res EXCEPT ![w] = [res[w] EXCEPT !.path = TRUE, !.reg = TRUE, !.lock = "cleanup", !.work = "bare"]]
           /\ Goto(w, "clPin") /\ UNCHANGED <<headLock, lease>>
  <2> DEFINE r == [res[w] EXCEPT !.path = TRUE, !.reg = TRUE, !.lock = "cleanup", !.work = "bare"]
  <2>1. r \in Resources /\ Ready(w, "clPin", r)
    BY <1>1 DEF Ready, Resources, Works
  <2> QED
    BY <1>0, <1>4, <2>1, CleanupProceeds DEF UnderCleanup
<1> QED
  BY <1>2, <1>3, <1>4 DEF CleanupGuard

LEMMA CleanupPinKeeps ==
    ASSUME WriterInv, NEW w \in Writers, CleanupPin(w), UNCHANGED lifeVars PROVE WriterInv'
<1>0. op[w].at = "clPin" /\ op[w].at \in Cleaning /\ op[w].at \in UnderCleanup /\ UNCHANGED <<root, base, acts>>
  BY DEF CleanupPin, Cleaning, UnderCleanup
<1>1. res[w] \in Resources /\ (crashes = 0 => res[w].branch # None /\ res[w].tomb)
  BY <1>0, InCleanup DEF Keeping
<1>2. CASE Retain(w, res[w])
  BY <1>0, <1>1, <1>2, RetainKeeps
<1>3. CASE /\ Owned(w) /\ res' = [res EXCEPT ![w] = [res[w] EXCEPT !.lock = "cleanup"]]
           /\ Goto(w, "clCheck") /\ UNCHANGED <<headLock, lease>>
  <2> DEFINE r == [res[w] EXCEPT !.lock = "cleanup"]
  <2>1. r \in Resources /\ Ready(w, "clCheck", r)
    BY <1>1, <1>3 DEF Ready, Resources, Owned, BranchPresent
  <2> QED
    BY <1>0, <1>3, <2>1, CleanupProceeds DEF UnderCleanup
<1> QED
  BY <1>2, <1>3 DEF CleanupPin

LEMMA CleanupCheckKeeps ==
    ASSUME WriterInv, NEW w \in Writers, CleanupCheck(w), UNCHANGED lifeVars PROVE WriterInv'
<1>0. op[w].at = "clCheck" /\ op[w].at \in Cleaning /\ op[w].at \in UnderCleanup /\ UNCHANGED <<root, base, acts>>
  BY DEF CleanupCheck, Cleaning, UnderCleanup
<1>1. /\ res[w] \in Resources /\ (crashes = 0 => res[w].branch # None /\ res[w].tomb /\ res[w].reg)
      /\ UNCHANGED res => res' = [res EXCEPT ![w] = res[w]]
  BY <1>0, InCleanup, Resourceful DEF Keeping
<1>2. CASE Retain(w, res[w])
  BY <1>0, <1>1, <1>2, RetainKeeps
<1>3. CASE res[w].branch \in {None, op[w].arg} /\ Goto(w, "clDelete") /\ UNCHANGED <<res, headLock, lease>>
  <2>1. Ready(w, "clDelete", res[w])
    BY <1>1, <1>3 DEF Ready
  <2> QED
    BY <1>0, <1>1, <1>3, <2>1, CleanupProceeds DEF UnderCleanup
<1> QED
  BY <1>2, <1>3 DEF CleanupCheck

LEMMA CleanupDeleteKeeps ==
    ASSUME WriterInv, NEW w \in Writers, CleanupDelete(w), UNCHANGED lifeVars PROVE WriterInv'
<1>0. op[w].at = "clDelete" /\ op[w].at \in Cleaning /\ op[w].at \in UnderCleanup /\ UNCHANGED <<root, base, acts>>
  BY DEF CleanupDelete, Cleaning, UnderCleanup
<1>1. res[w] \in Resources /\ (crashes = 0 => res[w].tomb /\ res[w].reg)
  BY <1>0, InCleanup DEF Keeping
<1> DEFINE r == [res[w] EXCEPT !.branch = None]
<1>2. r \in Resources /\ Ready(w, "clVerify", r)
  BY <1>1 DEF Ready, Resources
<1>3. res' = [res EXCEPT ![w] = r] /\ Goto(w, "clVerify") /\ UNCHANGED <<headLock, lease>>
  BY DEF CleanupDelete
<1> QED
  BY <1>0, <1>2, <1>3, CleanupProceeds DEF UnderCleanup

LEMMA CleanupVerifyKeeps ==
    ASSUME WriterInv, NEW w \in Writers, CleanupVerify(w), UNCHANGED lifeVars PROVE WriterInv'
<1>0. op[w].at = "clVerify" /\ op[w].at \in Cleaning /\ op[w].at \in UnderCleanup /\ UNCHANGED <<root, base, acts>>
  BY DEF CleanupVerify, Cleaning, UnderCleanup
<1>1. /\ res[w] \in Resources /\ (crashes = 0 => res[w].tomb /\ res[w].reg /\ res[w].branch = None)
      /\ Restored(w) \in Resources /\ Restored(w).branch # None
      /\ UNCHANGED res => res' = [res EXCEPT ![w] = res[w]]
  BY <1>0, InCleanup, Resourceful DEF Keeping
<1>2. CASE Retain(w, Restored(w))
  BY <1>0, <1>1, <1>2, RetainKeeps
<1>3. CASE ~Branchless(w) /\ Retain(w, res[w])
  BY <1>0, <1>1, <1>3, RetainKeeps DEF Branchless
<1>4. CASE Branchless(w) /\ Goto(w, "clRemove") /\ UNCHANGED <<res, headLock, lease>>
  <2>1. Ready(w, "clRemove", res[w])
    BY <1>1, <1>4 DEF Ready, Branchless
  <2> QED
    BY <1>0, <1>1, <1>4, <2>1, CleanupProceeds DEF UnderCleanup
<1> QED
  BY <1>2, <1>3, <1>4 DEF CleanupVerify

LEMMA CleanupRemoveKeeps ==
    ASSUME WriterInv, NEW w \in Writers, CleanupRemove(w), UNCHANGED lifeVars PROVE WriterInv'
<1>0. op[w].at = "clRemove" /\ op[w].at \in Cleaning /\ op[w].at \in UnderCleanup /\ UNCHANGED <<root, base, acts>>
  BY DEF CleanupRemove, Cleaning, UnderCleanup
<1>1. res[w] \in Resources /\ res[w].branch = None /\ (crashes = 0 => res[w].tomb)
  BY <1>0, InCleanup DEF Keeping, Removing
<1> DEFINE r == [res[w] EXCEPT !.path = FALSE, !.reg = FALSE, !.lock = "free", !.work = "clean"]
<1>2. r \in Resources /\ Ready(w, "clGone", r)
  BY <1>1 DEF Ready, Resources, Works
<1>3. res' = [res EXCEPT ![w] = r] /\ Goto(w, "clGone") /\ UNCHANGED <<headLock, lease>>
  BY DEF CleanupRemove
<1> QED
  BY <1>0, <1>2, <1>3, CleanupProceeds DEF UnderCleanup

LEMMA CleanupGoneKeeps ==
    ASSUME WriterInv, NEW w \in Writers, CleanupGone(w), UNCHANGED lifeVars PROVE WriterInv'
<1>0. op[w].at = "clGone" /\ op[w].at \in Cleaning /\ op[w].at \in UnderCleanup /\ UNCHANGED <<root, base, acts>>
  BY DEF CleanupGone, Cleaning, UnderCleanup
<1>1. /\ res[w] \in Resources /\ (crashes = 0 => res[w].tomb /\ Absent(w))
      /\ Restored(w) \in Resources /\ Restored(w).branch # None
      /\ UNCHANGED res => res' = [res EXCEPT ![w] = res[w]]
  BY <1>0, InCleanup, Resourceful DEF Keeping
<1>2. CASE Retain(w, Restored(w))
  BY <1>0, <1>1, <1>2, RetainKeeps
<1>3. CASE (WorktreePresent(w) \/ BranchPresent(w)) /\ Retain(w, res[w])
  BY <1>0, <1>1, <1>3, RetainKeeps DEF WorktreePresent, BranchPresent, Absent
<1>4. CASE ~WorktreePresent(w) /\ ~BranchPresent(w) /\ Goto(w, "clRelease") /\ UNCHANGED <<res, headLock, lease>>
  <2>1. Ready(w, "clRelease", res[w])
    BY <1>1, <1>4 DEF Ready, WorktreePresent, BranchPresent
  <2> QED
    BY <1>0, <1>1, <1>4, <2>1, CleanupProceeds DEF UnderCleanup
<1> QED
  BY <1>2, <1>3, <1>4 DEF CleanupGone

LEMMA CleanupReleaseKeeps ==
    ASSUME WriterInv, NEW w \in Writers, CleanupRelease(w), UNCHANGED lifeVars PROVE WriterInv'
<1>0. op[w].at = "clRelease" /\ op[w].at \in Cleaning /\ UNCHANGED <<root, res, base, acts>>
  BY DEF CleanupRelease, Cleaning
<1>1. /\ res[w] \in Resources /\ Absent(w) /\ (crashes = 0 => res[w].tomb \/ res[w].foreign = "no")
      /\ res' = [res EXCEPT ![w] = res[w]] /\ Typed /\ OpTyped /\ headLock = Marker("cleanup", w)
      /\ life[w].cleanup = "none" /\ pc[w] = "cleaned" /\ (crashes = 0 => Keeping(w))
      /\ life[w].plan.mode = "remove" /\ op[w].arg = life[w].plan.commit
  BY <1>0, InCleanup, Resourceful DEF Keeping, Removing, Holding, UnderCleanup
<1>2. Hands(w) /\ headLock' = Free /\ Free \notin Own(w)
  BY <1>1, Released, NotFree DEF CleanupRelease, Hands, Yields, Own
<1>3. CASE Goto(w, "clForget")
  <2>1. /\ OpTyped' /\ \A v \in Writers : v # w => op'[v] = op[v]
        /\ op'[w].at = "clForget" /\ op'[w].arg = op[w].arg
    BY <1>1, <1>3, GotoOp DEF Steps
  <2>2. Turns(w, "cleaned") /\ UNCHANGED <<life, crashes>> /\ pc'[w] = "cleaned"
    BY <1>0, <1>1, <2>1, CleanupTurns
  <2>3. Holding(w)' /\ Removing(w)'
    BY <1>0, <1>1, <1>2, <2>1, <2>2 DEF Holding, Leased, UnderLock, UnderCleanup, Removing, Told, Absent, Own
  <2>4. crashes = 0 => Keeping(w)'
    BY <1>1, <2>1, <2>2 DEF Keeping, Deleted
  <2> QED
    BY <1>0, <1>1, <1>2, <2>1, <2>2, <2>3, <2>4, CleaningKeeps DEF Cleaning
<1>4. CASE ~res[w].tomb /\ Answer(w, "removed")
  <2>1. Absent(w)' /\ headLock' \notin Own(w)
    BY <1>0, <1>1, <1>2 DEF Absent
  <2> QED
    BY <1>0, <1>1, <1>2, <1>4, <2>1, CleanupEnds DEF Absent
<1> QED
  BY <1>3, <1>4 DEF CleanupRelease

LEMMA CleanupForgetKeeps ==
    ASSUME WriterInv, NEW w \in Writers, CleanupForget(w), UNCHANGED lifeVars PROVE WriterInv'
<1>0. op[w].at = "clForget" /\ op[w].at \in Cleaning /\ UNCHANGED <<root, base, acts>>
  BY DEF CleanupForget, Cleaning
<1>1. /\ res[w] \in Resources /\ Absent(w) /\ Typed /\ OpTyped /\ headLock \notin Own(w)
      /\ life[w].cleanup = "none" /\ pc[w] = "cleaned" /\ (crashes = 0 => Keeping(w))
      /\ life[w].plan.mode = "remove" /\ op[w].arg = life[w].plan.commit
      /\ Restored(w) \in Resources /\ Restored(w).branch # None
  BY <1>0, InCleanup, Resourceful DEF Removing
<1>2. CASE Retain(w, Restored(w))
  BY <1>0, <1>1, <1>2, RetainKeeps
<1>3. CASE /\ res' = [res EXCEPT ![w] = [res[w] EXCEPT !.tomb = FALSE]]
           /\ Goto(w, "clLast") /\ UNCHANGED <<headLock, lease>>
  <2> DEFINE r == [res[w] EXCEPT !.tomb = FALSE]
  <2>1. /\ OpTyped' /\ \A v \in Writers : v # w => op'[v] = op[v]
        /\ op'[w].at = "clLast" /\ op'[w].arg = op[w].arg
    BY <1>1, <1>3, GotoOp DEF Steps
  <2>2. r \in Resources /\ ~r.path /\ ~r.reg /\ r.branch = None /\ ~r.tomb
    BY <1>1 DEF Resources, Absent
  <2> HIDE DEF r
  <2>3. Turns(w, "cleaned") /\ UNCHANGED <<life, crashes>> /\ pc'[w] = "cleaned" /\ res'[w] = r
    BY <1>0, <1>1, <1>3, <2>1, <2>2, CleanupTurns DEF r
  <2>4. Hands(w)
    BY <1>0, <1>3 DEF Hands, Yields, Lockers, UnderLock, UnderCleanup
  <2>5. Holding(w)' /\ Removing(w)'
    BY <1>1, <1>3, <2>1, <2>2, <2>3 DEF Holding, Leased, UnderLock, UnderCleanup, Removing, Told, Absent, Own
  <2>6. crashes = 0 => Keeping(w)'
    BY <1>1, <2>1, <2>3 DEF Keeping, Deleted
  <2> QED
    BY <1>0, <1>1, <2>1, <2>3, <2>4, <2>5, <2>6, CleaningKeeps DEF Cleaning
<1> QED
  BY <1>2, <1>3 DEF CleanupForget

LEMMA CleanupLastKeeps ==
    ASSUME WriterInv, NEW w \in Writers, CleanupLast(w), UNCHANGED lifeVars PROVE WriterInv'
<1>0. op[w].at = "clLast" /\ op[w].at \in Cleaning /\ UNCHANGED <<root, base, acts>>
  BY DEF CleanupLast, Cleaning
<1>1. /\ res[w] \in Resources /\ Absent(w) /\ ~res[w].tomb /\ headLock \notin Own(w)
      /\ Restored(w) \in Resources /\ Restored(w).branch # None
      /\ UNCHANGED res => res' = [res EXCEPT ![w] = res[w]]
  BY <1>0, InCleanup, Resourceful DEF Removing
<1>2. CASE Retain(w, Restored(w))
  BY <1>0, <1>1, <1>2, RetainKeeps
<1>3. CASE ~Claimed(w) /\ Answer(w, "removed") /\ UNCHANGED <<res, headLock, lease>>
  <2>1. Absent(w)' /\ headLock' \notin Own(w)
    BY <1>1, <1>3 DEF Absent, Own
  <2>2. Hands(w)
    BY <1>0, <1>3 DEF Hands, Yields, Lockers, UnderLock, UnderCleanup
  <2> QED
    BY <1>0, <1>1, <1>3, <2>1, <2>2, CleanupEnds DEF Absent, Claimed
<1> QED
  BY <1>2, <1>3 DEF CleanupLast

-----------------------------------------------------------------------------
(* Binding and sealing *)

LEMMA BuildTurns ==
    ASSUME WriterInv, NEW w \in Writers, NEW p \in {"bound", "sealed"}, NEW r \in Resources, res' = [res EXCEPT ![w] = r],
           pc[w] = p \/ pc[w] \in {"bind", "sealing"}, pc' = [pc EXCEPT ![w] = p],
           UNCHANGED <<root, headLock, lease, base, acts, life, crashes>>,
           OpTyped', \A v \in Writers : v # w => op'[v] = op[v],
           op'[w].at = "idle" \/ op'[w].at \in (IF p = "bound" THEN Binding ELSE Sealing),
           r.branch = None => r = res[w]
    PROVE  WriterInv'
<1>1. Typed /\ Local(w)
  BY DEF WriterInv
<1>2. res'[w] = r /\ Turns(w, p)
  BY <1>1 DEF Turns, Typed, PCs
<1>3. op[w].at \notin Lockers
  BY <1>1 DEF Local, Attends, Lockers, UnderLock, UnderCleanup, Integrating, Cleaning
<1>4. Hands(w)
  BY <1>3 DEF Hands, Yields
<1> QED
  BY <1>2, <1>4, BuildingKeeps

LEMMA BindKeeps == ASSUME WriterInv, NEW w \in Writers, Bind(w) PROVE WriterInv'
<1>1. OpTyped /\ res \in [Writers -> Resources]
  BY DEF WriterInv, Typed
<1>2. /\ pc[w] = "bind" /\ pc' = [pc EXCEPT ![w] = "bound"]
      /\ UNCHANGED <<root, headLock, lease, res, base, acts, life, crashes>>
  BY DEF Bind, BindStart, Advance
<1>3. /\ OpTyped' /\ \A v \in Writers : v # w => op'[v] = op[v]
      /\ op'[w].at = "idle" \/ op'[w].at = "bindAdd"
  <2>1. (\E r : Answer(w, r)) \/ Begin(w, "bindAdd", root.head)
    BY DEF Bind, BindStart
  <2> QED
    BY <1>1, <2>1, AnswerOp, BeginOp DEF Steps
<1>4. res[w] \in Resources /\ res' = [res EXCEPT ![w] = res[w]]
  BY <1>1, <1>2
<1> QED
  BY <1>2, <1>3, <1>4, BuildTurns DEF Binding

LEMMA SealKeeps == ASSUME WriterInv, NEW w \in Writers, Seal(w) PROVE WriterInv'
<1>1. OpTyped /\ res \in [Writers -> Resources]
  BY DEF WriterInv, Typed
<1>2. /\ pc[w] = "sealing" /\ pc' = [pc EXCEPT ![w] = "sealed"]
      /\ UNCHANGED <<root, headLock, lease, res, base, acts, life, crashes>>
  BY DEF Seal, SealStart, Advance
<1>3. /\ OpTyped' /\ \A v \in Writers : v # w => op'[v] = op[v]
      /\ op'[w].at = "idle" \/ op'[w].at = "sealRecheck"
  <2>1. (\E r : Answer(w, r)) \/ Begin(w, "sealRecheck", res[w].work)
    BY DEF Seal, SealStart
  <2> QED
    BY <1>1, <2>1, AnswerOp, BeginOp DEF Steps
<1>4. res[w] \in Resources /\ res' = [res EXCEPT ![w] = res[w]]
  BY <1>1, <1>2
<1> QED
  BY <1>2, <1>3, <1>4, BuildTurns DEF Sealing

\* The operation of a writer that binds or seals takes a step to a place step.
LEMMA BuildKeeps ==
    ASSUME WriterInv, NEW w \in Writers, op[w].at \in Binding \cup Sealing,
           UNCHANGED <<root, headLock, lease, base, acts>>, UNCHANGED lifeVars,
           NEW r \in Resources, res' = [res EXCEPT ![w] = r], r.branch = None => r = res[w],
           \/ \E a : Answer(w, a)
           \/ \E step \in (IF op[w].at \in Binding THEN Binding ELSE Sealing) : Goto(w, step)
    PROVE  WriterInv'
<1>1. OpTyped /\ pc \in [Writers -> PCs] /\ Attends(w)
  BY DEF WriterInv, Typed, Local
<1>2. pc[w] = IF op[w].at \in Binding THEN "bound" ELSE "sealed"
  BY <1>1 DEF Attends
<1>3. pc' = [pc EXCEPT ![w] = pc[w]] /\ life' = life /\ crashes' = crashes
  BY <1>1 DEF lifeVars
<1>4. /\ OpTyped' /\ \A v \in Writers : v # w => op'[v] = op[v]
      /\ op'[w].at = "idle" \/ op'[w].at \in (IF op[w].at \in Binding THEN Binding ELSE Sealing)
  BY <1>1, AnswerOp, GotoOp DEF Steps, Binding, Sealing
<1> QED
  BY <1>2, <1>3, <1>4, BuildTurns

LEMMA BindSealStepKeeps ==
    ASSUME WriterInv, NEW w \in Writers, UNCHANGED lifeVars,
           BindAdd(w) \/ BindVerify(w) \/ SealRecheck(w) \/ SealPublish(w) \/ SealVerify(w)
    PROVE  WriterInv'
<1>1. Typed /\ Local(w) /\ res \in [Writers -> Resources] /\ res[w] \in Resources
  BY DEF WriterInv, Typed
<1>2. op[w].at \in Binding \cup Sealing /\ UNCHANGED <<root, headLock, lease, base, acts>>
  BY DEF BindAdd, BindVerify, SealRecheck, SealPublish, SealVerify, Read, Binding, Sealing
<1>3. base[w] # None
  BY <1>1, <1>2 DEF Local, Attends, Ordered
<1>4. base[w] \in Commits /\ base[w] # None /\ Final(w) \in Commits /\ Final(w) # None
  BY <1>1, <1>3, FinalCommit
<1>5. UNCHANGED res => res' = [res EXCEPT ![w] = res[w]]
  BY <1>1
<1>6. CASE BindAdd(w)
  <2> DEFINE r == [res[w] EXCEPT !.branch = base[w], !.path = TRUE, !.reg = TRUE, !.work = "clean"]
  <2>1. r \in Resources /\ r.branch # None
    BY <1>1, <1>4 DEF Resources, Works
  <2>2. op[w].at \in Binding /\ res' = [res EXCEPT ![w] = r] /\ \E step \in Binding : Goto(w, step)
    BY <1>6 DEF BindAdd, Binding
  <2> HIDE DEF r
  <2> QED
    BY <1>2, <2>1, <2>2, BuildKeeps
<1>7. CASE SealPublish(w) /\ res[w].branch = base[w]
  <2> DEFINE r == [res[w] EXCEPT !.branch = Final(w), !.work = IF res[w].work = op[w].arg THEN "clean" ELSE res[w].work]
  <2>1. r \in Resources /\ r.branch # None
    BY <1>1, <1>4 DEF Resources, Works
  <2>2. op[w].at \notin Binding /\ res' = [res EXCEPT ![w] = r] /\ \E step \in Sealing : Goto(w, step)
    BY <1>7 DEF SealPublish, Binding, Sealing
  <2> HIDE DEF r
  <2> QED
    BY <1>2, <2>1, <2>2, BuildKeeps
<1>8. CASE BindVerify(w) \/ SealRecheck(w) \/ SealVerify(w) \/ (SealPublish(w) /\ res[w].branch # base[w])
  <2>1. UNCHANGED res
    BY <1>8 DEF BindVerify, SealRecheck, SealPublish, SealVerify, Read
  <2>2. (\E a : Answer(w, a)) \/ (op[w].at \notin Binding /\ Goto(w, "sealPublish"))
    <3>1. CASE SealRecheck(w)
      <4>1. op[w].at \notin Binding
        BY <3>1 DEF SealRecheck, Binding
      <4> QED
        BY <3>1, <4>1 DEF SealRecheck, Read
    <3> QED
      BY <1>8, <3>1 DEF BindVerify, SealPublish, SealVerify
  <2> QED
    BY <1>1, <1>2, <1>5, <2>1, <2>2, BuildKeeps DEF Sealing
<1> QED
  BY <1>6, <1>7, <1>8

LEMMA GitStepKeeps == ASSUME WriterInv, NEW w \in Writers, GitStep(w), UNCHANGED lifeVars PROVE WriterInv'
  BY BindSealStepKeeps, IntegrateLeaseKeeps, IntegrateCasKeeps, IntegrateLockKeeps, IntegrateCheckKeeps,
     IntegrateApplyKeeps, IntegrateValidateKeeps, IntegrateObserveKeeps, CleanupLockKeeps, CleanupSurveyKeeps,
     CleanupTombKeeps, CleanupGuardKeeps, CleanupPinKeeps, CleanupCheckKeeps, CleanupDeleteKeeps,
     CleanupVerifyKeeps, CleanupRemoveKeeps, CleanupGoneKeeps, CleanupReleaseKeeps, CleanupForgetKeeps,
     CleanupLastKeeps DEF GitStep

-----------------------------------------------------------------------------
(* Steps of the runtime *)

\* A step of the runtime of w that calls no operation.
Moves(w) ==
    /\ UNCHANGED <<root, headLock, lease, base, op, acts, crashes>>
    /\ res' \in [Writers -> Resources] /\ \A v \in Writers : v # w => res'[v] = res[v]
    /\ LET r == res[w] s == res'[w] IN
       s.branch = r.branch /\ s.tomb = r.tomb /\ s.path = r.path /\ s.reg = r.reg /\ s.foreign = r.foreign
    /\ pc' \in [Writers -> PCs] /\ \A v \in Writers : v # w => pc'[v] = pc[v]
    /\ LifeTyped' /\ \A v \in Writers : v # w => life'[v] = life[v]
    /\ op[w].at = "idle" /\ pc'[w] \notin {"settle", "cleaned"}

\* How an integration is reported.
Reports(w) ==
    IF pc[w] = "settle" THEN life'[w].integ = IF op[w].ret = "ok" THEN "committed" ELSE op[w].ret
    ELSE \/ life'[w].integ = life[w].integ
         \/ life[w].integ = "none" /\ life'[w].integ = "prepared"
         \/ life[w].integ = "prepared" /\ life'[w].integ = "started"

\* How a cleanup is planned and reported.
Disposes(w) ==
    IF pc[w] = "cleaned" THEN life'[w].cleanup = op[w].ret
    ELSE /\ life'[w].cleanup = life[w].cleanup
         /\ \/ life'[w].plan = life[w].plan /\ pc[w] # "clean"
            \/ life'[w].plan = None \/ pc'[w] = "clean"

LEMMA MovesKeep ==
    ASSUME WriterInv, NEW w \in Writers, Moves(w), Reports(w), Disposes(w), Ordered(w)'
    PROVE  WriterInv'
<1>1. /\ Typed /\ Local(w) /\ op[w].at = "idle" /\ op'[w] = op[w] /\ base'[w] = base[w]
      /\ pc'[w] \notin {"settle", "cleaned"}
      /\ res'[w].branch = res[w].branch /\ res'[w].tomb = res[w].tomb
      /\ Gone(w)' = Gone(w) /\ Absent(w)' = Absent(w)
  BY DEF WriterInv, Moves, Gone, Absent
<1>2. pc[w] = "settle" => life[w].integ = "started" /\ op[w].ret \in {"ok", "conflict", "recovery"}
  BY <1>1 DEF Local, Attends, Ordered
<1>3. pc[w] = "cleaned" => life'[w].cleanup = op[w].ret /\ op[w].ret \in {"removed", "retained"}
  BY <1>1 DEF Local, Attends, Disposes
<1>4. Typed'
  BY <1>1 DEF Moves, Typed, OpTyped
<1>5. StepOf(w)
  <2>1. Yields(w)
    BY <1>1 DEF Moves, Yields, Lockers, UnderLock, UnderCleanup
  <2>2. life[w].integ \in {"started", "recovery", "conflict"} =>
          life'[w].integ \in {"started", "recovery", "conflict", "committed"}
    BY <1>2 DEF Reports
  <2> QED
    BY <2>1, <2>2 DEF StepOf, Moves, Apart
<1>6. Attends(w)' /\ Holding(w)'
  BY <1>1 DEF Attends, Holding, Binding, Sealing, Integrating, Cleaning, Leased, UnderLock, UnderCleanup
<1>7. Removing(w)'
  BY <1>1, <1>3 DEF Local, Removing, Told, Disposes, Own, Moves
<1>8. /\ Present(w)' = Present(w) /\ Synced(w)' = Synced(w) /\ Calm' = Calm /\ crashes' = crashes
      /\ op[w].at \notin AfterCas
  BY <1>1 DEF Moves, Present, Synced, Calm, Final, AfterCas, UnderLock
<1>9. Adding(w)'
  BY <1>1, <1>2, <1>8 DEF Local, Adding, Reports, Told
<1>10. Reporting(w)'
  BY <1>1, <1>2, <1>8 DEF Local, Adding, Reporting, Reports, Told
<1>11. crashes' = 0 => Keeping(w)'
  <2>1. SUFFICES ASSUME crashes' = 0 PROVE Keeping(w)'
    OBVIOUS
  <2>2. Keeping(w) /\ (Deleted(w) => Deleted(w)')
    BY <1>1, <1>3, <1>8, <2>1 DEF Local, Deleted, Disposes
  <2>3. life'[w].plan # None /\ life'[w].cleanup = "none" => pc'[w] \in {"clean", "cleaned"}
    BY <1>1, <1>3, <2>2 DEF Keeping, Disposes
  <2>4. life'[w].cleanup # "none" => pc[w] = "cleaned" \/ life[w].cleanup # "none"
    BY DEF Disposes
  <2>5. res'[w].foreign = res[w].foreign
    BY DEF Moves
  <2> QED
    BY <1>1, <2>2, <2>3, <2>4, <2>5 DEF Keeping
<1> QED
  BY <1>4, <1>5, <1>6, <1>7, <1>9, <1>10, <1>11, StepKeeps DEF Local

\* The append of an event, accepted or refused.
LEMMA PublishTurns ==
    ASSUME WriterInv, NEW w \in Writers, NEW event, NEW accepted \in BOOLEAN, NEW l, NEW step \in PCs, Alive(l),
           Publish(w, event, accepted, l, step)
    PROVE  /\ LifeTyped' /\ \A v \in Writers : v # w => life'[v] = life[v]
           /\ pc' \in [Writers -> PCs] /\ \A v \in Writers : v # w => pc'[v] = pc[v]
           /\ \/ accepted /\ Open(life[w], event) /\ life'[w] = l /\ pc'[w] = step
              \/ ~(accepted /\ Open(life[w], event)) /\ life' = life /\ pc'[w] \in {"end", "answer"}
<1>1. LifeTyped /\ pc \in [Writers -> PCs]
  BY DEF WriterInv, Typed
<1>2. CASE accepted /\ Open(life[w], event)
  <2>1. life' = [life EXCEPT ![w] = l] /\ pc' = [pc EXCEPT ![w] = step]
    BY <1>2 DEF Publish
  <2> QED
    BY <1>1, <1>2, <2>1, LifeTurns
<1>3. CASE ~(accepted /\ Open(life[w], event))
  <2>1. life' = life /\ (pc' = [pc EXCEPT ![w] = "end"] \/ pc' = [pc EXCEPT ![w] = "answer"])
    BY <1>3 DEF Publish
  <2> QED
    BY <1>1, <1>3, <2>1 DEF PCs, LifeTyped
<1> QED
  BY <1>2, <1>3

\* Lifecycles that differ in what is of no account here, and where the runtime
\* of a lifecycle may be.
Kin(k, l) ==
    /\ k.result = l.result /\ k.integ = l.integ /\ k.plan = l.plan /\ k.cleanup = l.cleanup
    /\ k.tool \in {l.tool, "done"}

Fits(p, l) ==
    /\ p \notin {"idle", "settle", "cleaned"} /\ (p \in Early => l.result = "none")
    /\ p # "done" => l.terminal = "none"
    /\ p = "integrate" => l.result = "completed" /\ l.integ = "none"
    /\ p = "begin" => l.integ = "prepared"
    /\ p = "integrating" => l.integ = "started"
    /\ p = "plan" => l.plan = None /\ l.result # "none"
    /\ p = "clean" => l.plan # None /\ l.cleanup = "none"

LEMMA MinorKeeps ==
    ASSUME WriterInv, NEW w \in Writers, Moves(w), pc[w] \notin {"idle", "settle", "clean", "cleaned"},
           Kin(life'[w], life[w]), Fits(pc'[w], life'[w])
    PROVE  WriterInv'
<1>1. Local(w) /\ base'[w] = base[w]
  BY DEF WriterInv, Moves
<1>2. Ordered(w)'
  BY <1>1 DEF Local, Ordered, Kin, Fits
<1>3. Reports(w) /\ Disposes(w)
  BY DEF Reports, Disposes, Kin
<1> QED
  BY <1>2, <1>3, MovesKeep

LEMMA Changed ==
    ASSUME NEW l, Alive(l), NEW x
    PROVE  /\ Alive([l EXCEPT !.stage = x]) /\ Alive([l EXCEPT !.child = x]) /\ Alive([l EXCEPT !.seal = x])
           /\ Alive([l EXCEPT !.control = x]) /\ Alive([l EXCEPT !.finished = x]) /\ Alive([l EXCEPT !.result = x])
           /\ Alive([l EXCEPT !.integ = x]) /\ Alive([l EXCEPT !.plan = x]) /\ Alive([l EXCEPT !.cleanup = x])
           /\ Alive([l EXCEPT !.terminal = x])
  BY SMTT(60) DEF Alive

LEMMA ChangedTwo ==
    ASSUME NEW l, Alive(l), NEW x, NEW y
    PROVE  /\ Alive([l EXCEPT !.tool = x, !.outcome = y]) /\ Alive([l EXCEPT !.integ = x, !.delivered = y])
           /\ Alive([l EXCEPT !.tool = x, !.rev = y])
<1> DEFINE k == [l EXCEPT !.tool = x]
           m == [l EXCEPT !.integ = x]
<1>1. /\ [l EXCEPT !.tool = x, !.outcome = y] = [k EXCEPT !.outcome = y]
      /\ [l EXCEPT !.tool = x, !.rev = y] = [k EXCEPT !.rev = y]
      /\ [l EXCEPT !.integ = x, !.delivered = y] = [m EXCEPT !.delivered = y]
  OBVIOUS
<1>2. Alive(k) /\ Alive(m)
  BY DEF Alive
<1> HIDE DEF k, m
<1>3. Alive([k EXCEPT !.outcome = y]) /\ Alive([k EXCEPT !.rev = y]) /\ Alive([m EXCEPT !.delivered = y])
  BY <1>2 DEF Alive
<1> QED
  BY <1>1, <1>3

\* A change of no account.
Minor(k, l) == Alive(k) /\ Kin(k, l) /\ k.terminal = l.terminal

LEMMA MinorChange ==
    ASSUME NEW l, Alive(l), NEW x
    PROVE  /\ Minor([l EXCEPT !.stage = x], l) /\ Minor([l EXCEPT !.child = x], l) /\ Minor([l EXCEPT !.seal = x], l)
           /\ Minor([l EXCEPT !.control = x], l) /\ Minor([l EXCEPT !.finished = x], l)
<1>1. \A k \in {[l EXCEPT !.stage = x], [l EXCEPT !.child = x], [l EXCEPT !.seal = x],
                [l EXCEPT !.control = x], [l EXCEPT !.finished = x]} :
         Kin(k, l) /\ k.terminal = l.terminal
  BY DEF Alive, Kin
<1> QED
  BY <1>1, Changed DEF Minor

\* The runtime goes on at step with the lifecycle l.
LEMMA TurnKeeps ==
    ASSUME WriterInv, NEW w \in Writers, NEW l, Alive(l), NEW step \in PCs,
           life' = [life EXCEPT ![w] = l] \/ (life' = life /\ l = life[w]),
           pc' = [pc EXCEPT ![w] = step] \/ (pc' = pc /\ step = pc[w]),
           UNCHANGED gitVars, UNCHANGED crashes, op[w].at = "idle",
           pc[w] \notin {"idle", "settle", "clean", "cleaned"}, Kin(l, life[w]), Fits(step, l)
    PROVE  WriterInv'
<1>1. LifeTyped /\ pc \in [Writers -> PCs] /\ res \in [Writers -> Resources]
  BY DEF WriterInv, Typed
<1>2. LifeTyped' /\ life'[w] = l /\ \A v \in Writers : v # w => life'[v] = life[v]
  <2>1. CASE life' = [life EXCEPT ![w] = l]
    BY <1>1, <2>1, LifeTurns
  <2>2. CASE life' = life /\ l = life[w]
    BY <1>1, <2>2 DEF LifeTyped
  <2> QED
    BY <2>1, <2>2
<1>3. pc' \in [Writers -> PCs] /\ pc'[w] = step /\ \A v \in Writers : v # w => pc'[v] = pc[v]
  BY <1>1
<1>4. Moves(w)
  BY <1>1, <1>2, <1>3 DEF Moves, gitVars, Fits
<1> QED
  BY <1>2, <1>3, <1>4, MinorKeeps

\* The same with an event.
LEMMA MinorPublish ==
    ASSUME WriterInv, NEW w \in Writers, NEW event, NEW accepted \in BOOLEAN, NEW l, NEW step \in PCs, Alive(l),
           Publish(w, event, accepted, l, step), UNCHANGED gitVars, UNCHANGED crashes, op[w].at = "idle",
           pc[w] \notin {"idle", "settle", "clean", "cleaned", "done"},
           accepted => Kin(l, life[w]) /\ Fits(step, l)
    PROVE  WriterInv'
<1>1. CASE accepted /\ Open(life[w], event)
  <2>1. life' = [life EXCEPT ![w] = l] /\ pc' = [pc EXCEPT ![w] = step]
    BY <1>1 DEF Publish
  <2> QED
    BY <1>1, <2>1, TurnKeeps
<1>2. CASE ~(accepted /\ Open(life[w], event))
  <2>1. Alive(life[w]) /\ life[w].terminal = "none"
    BY DEF WriterInv, Typed, LifeTyped, Local, Ordered
  <2>2. PICK p \in {"end", "answer"} : life' = life /\ pc' = [pc EXCEPT ![w] = p]
    BY <1>2 DEF Publish
  <2>3. Kin(life[w], life[w]) /\ Fits(p, life[w]) /\ p \in PCs
    BY <2>1 DEF Kin, Fits, Early, PCs
  <2> QED
    BY <2>1, <2>2, <2>3, TurnKeeps
<1> QED
  BY <1>1, <1>2

\* What the runtime of w knows of its lifecycle.
LEMMA AtWork ==
    ASSUME WriterInv, NEW w \in Writers
    PROVE  /\ Alive(life[w]) /\ Ordered(w) /\ Attends(w) /\ Typed /\ Kin(life[w], life[w])
           /\ pc[w] \notin {"bound", "sealed", "settle", "cleaned"} => op[w].at = "idle"
           /\ pc[w] \in Early => life[w].result = "none"
           /\ pc[w] # "done" => life[w].terminal = "none"
  BY Rests DEF WriterInv, Typed, LifeTyped, Local, Ordered, Kin

LEMMA PrepareKeeps == ASSUME WriterInv, NEW w \in Writers, Prepare(w) PROVE WriterInv'
<1>1. Alive(life[w]) /\ pc[w] = "prepare" /\ op[w].at = "idle" /\ life[w].result = "none" /\ life[w].terminal = "none"
  BY AtWork DEF Prepare, Early
<1> DEFINE l == [life[w] EXCEPT !.stage = "prepared"]
<1>2. Minor(l, life[w])
  BY <1>1, MinorChange
<1>3. AcceptsTask(life[w]) \in BOOLEAN
  BY DEF AcceptsTask
<1>4. /\ Publish(w, "AgentTaskPrepared", AcceptsTask(life[w]), l, "bind")
      /\ UNCHANGED gitVars /\ UNCHANGED crashes
  BY DEF Prepare
<1> HIDE DEF l
<1>5. Fits("bind", l)
  BY <1>1, <1>2 DEF Minor, Kin, Fits, Early
<1> QED
  BY <1>1, <1>2, <1>3, <1>4, <1>5, MinorPublish DEF Minor, PCs

LEMMA BoundKeeps == ASSUME WriterInv, NEW w \in Writers, Bound(w) PROVE WriterInv'
<1>1. /\ Alive(life[w]) /\ pc[w] = "bound" /\ op[w].at = "idle" /\ life[w].result = "none" /\ life[w].terminal = "none"
      /\ Kin(life[w], life[w])
  BY AtWork DEF Bound, Early, Answered
<1>2. PICK p \in {"create", "collect", "start", "child", "failed"} : life' = life /\ pc' = [pc EXCEPT ![w] = p]
  BY DEF Bound, Advance, AfterBind, BoundFailure
<1>3. Fits(p, life[w]) /\ p \in PCs
  BY <1>1 DEF Fits, PCs
<1> QED
  BY <1>1, <1>2, <1>3, TurnKeeps DEF Bound

LEMMA CreateKeeps == ASSUME WriterInv, NEW w \in Writers, Create(w) PROVE WriterInv'
<1>1. Alive(life[w]) /\ pc[w] = "create" /\ op[w].at = "idle" /\ life[w].result = "none" /\ life[w].terminal = "none"
  BY AtWork DEF Create, Early
<1> DEFINE l == [life[w] EXCEPT !.stage = "created"]
           p == AfterBind(l)
<1>2. p \in {"create", "collect", "start", "child"}
  BY DEF AfterBind
<1>3. Publish(w, "AgentWorkspaceCreated", AcceptsWorkspace(life[w]), l, p) /\ UNCHANGED gitVars /\ UNCHANGED crashes
  BY DEF Create
<1> HIDE DEF p
<1>4. Minor(l, life[w])
  BY <1>1, MinorChange
<1>5. AcceptsWorkspace(life[w]) \in BOOLEAN
  BY DEF AcceptsWorkspace
<1> HIDE DEF l
<1>6. Fits(p, l) /\ p \in PCs
  BY <1>1, <1>2, <1>4 DEF Minor, Kin, Fits, Early, PCs
<1> QED
  BY <1>1, <1>3, <1>4, <1>5, <1>6, MinorPublish DEF Minor

LEMMA StartKeeps == ASSUME WriterInv, NEW w \in Writers, Start(w) PROVE WriterInv'
<1>1. Alive(life[w]) /\ pc[w] = "start" /\ op[w].at = "idle" /\ life[w].result = "none" /\ life[w].terminal = "none"
  BY AtWork DEF Start, Early
<1> DEFINE l == [life[w] EXCEPT !.stage = "started"]
<1>2. Minor(l, life[w])
  BY <1>1, MinorChange
<1>3. AcceptsChild(life[w]) \in BOOLEAN
  BY DEF AcceptsChild
<1>4. /\ Publish(w, "ChildStarted", AcceptsChild(life[w]), l, "child")
      /\ UNCHANGED gitVars /\ UNCHANGED crashes
  BY DEF Start
<1> HIDE DEF l
<1>5. Fits("child", l)
  BY <1>1, <1>2 DEF Minor, Kin, Fits, Early
<1> QED
  BY <1>1, <1>2, <1>3, <1>4, <1>5, MinorPublish DEF Minor, PCs

LEMMA ChildWritesKeeps == ASSUME WriterInv, NEW w \in Writers, ChildWrites(w) PROVE WriterInv'
<1>1. /\ Alive(life[w]) /\ Typed /\ op[w].at = "idle" /\ life[w].result = "none" /\ life[w].terminal = "none"
      /\ pc[w] \in {"child", "stopping"}
  BY AtWork DEF ChildWrites, Early
<1> DEFINE l == [life[w] EXCEPT !.child = "running"]
<1>2. Minor(l, life[w])
  BY <1>1, MinorChange
<1>3. life' = [life EXCEPT ![w] = l] /\ UNCHANGED <<root, headLock, lease, base, op, acts, pc, crashes>>
  BY DEF ChildWrites
<1> HIDE DEF l
<1>4. LifeTyped' /\ life'[w] = l /\ \A v \in Writers : v # w => life'[v] = life[v]
  BY <1>1, <1>2, <1>3, LifeTurns DEF Typed, Minor
<1>5. PICK work \in {"draft", "stray"} : res' = [res EXCEPT ![w] = [res[w] EXCEPT !.work = work]]
  BY DEF ChildWrites
<1>6. res \in [Writers -> Resources] /\ [res[w] EXCEPT !.work = work] \in Resources
  BY <1>1 DEF Typed, Resources, Works
<1>7. Moves(w)
  BY <1>1, <1>3, <1>4, <1>5, <1>6 DEF Moves, Typed, Resources
<1>8. Kin(life'[w], life[w]) /\ Fits(pc'[w], life'[w])
  BY <1>1, <1>2, <1>3, <1>4 DEF Minor, Kin, Fits
<1> QED
  BY <1>1, <1>7, <1>8, MinorKeeps

LEMMA ChildEndsKeeps == ASSUME WriterInv, NEW w \in Writers, ChildEnds(w) PROVE WriterInv'
<1>1. /\ Alive(life[w]) /\ op[w].at = "idle" /\ life[w].result = "none" /\ life[w].terminal = "none"
      /\ pc[w] \in {"child", "stopping"}
  BY AtWork DEF ChildEnds, Early
<1>2. PICK end \in Ends : life' = [life EXCEPT ![w] = [life[w] EXCEPT !.child = end]]
  BY DEF ChildEnds
<1> DEFINE l == [life[w] EXCEPT !.child = end]
<1>3. Minor(l, life[w]) /\ life' = [life EXCEPT ![w] = l]
  BY <1>1, <1>2, MinorChange
<1> HIDE DEF l
<1>4. Fits(pc[w], l) /\ pc[w] \in PCs
  BY <1>1, <1>3 DEF Minor, Kin, Fits, PCs
<1> QED
  BY <1>1, <1>3, <1>4, TurnKeeps DEF ChildEnds, Minor

LEMMA StopRootKeeps == ASSUME WriterInv, NEW w \in Writers, StopRoot(w) PROVE WriterInv'
<1>1. /\ Alive(life[w]) /\ op[w].at = "idle" /\ life[w].result = "none" /\ life[w].terminal = "none" /\ pc[w] = "child"
      /\ UNCHANGED gitVars /\ UNCHANGED crashes /\ pc' = [pc EXCEPT ![w] = "stopping"]
  BY AtWork DEF StopRoot, Early
<1>2. PICK t \in MayStop : life' = [life EXCEPT ![w] = [life[w] EXCEPT !.control = (t = "cancelled")]]
  BY DEF StopRoot
<1> DEFINE l == [life[w] EXCEPT !.control = (t = "cancelled")]
<1>3. Minor(l, life[w]) /\ life' = [life EXCEPT ![w] = l]
  BY <1>1, <1>2, MinorChange
<1> HIDE DEF l
<1>4. Fits("stopping", l) /\ "stopping" \in PCs
  BY <1>1, <1>3 DEF Minor, Kin, Fits, PCs
<1> QED
  BY <1>1, <1>3, <1>4, TurnKeeps DEF Minor

\* The runtime goes on at p, and the lifecycle stays.
LEMMA WalkKeeps ==
    ASSUME WriterInv, NEW w \in Writers, NEW p \in PCs, life' = life, pc' = [pc EXCEPT ![w] = p],
           UNCHANGED gitVars, UNCHANGED crashes, pc[w] \notin {"idle", "bound", "sealed", "settle", "clean", "cleaned"},
           Fits(p, life[w])
    PROVE  WriterInv'
  BY AtWork, TurnKeeps

LEMMA JoinCollectKeeps == ASSUME WriterInv, NEW w \in Writers, Join(w) \/ Collect(w) PROVE WriterInv'
<1>1. PICK p \in {"collect", "seal", "failed"} : pc' = [pc EXCEPT ![w] = p] /\ life' = life
  BY DEF Join, Collect, Advance
<1>2. pc[w] \in {"child", "stopping", "collect"} /\ UNCHANGED gitVars /\ UNCHANGED crashes
  BY DEF Join, Collect
<1>3. Fits(p, life[w]) /\ p \in PCs
  BY <1>2, AtWork DEF Fits, Early, PCs
<1> QED
  BY <1>1, <1>2, <1>3, WalkKeeps

LEMMA PrepareSealKeeps == ASSUME WriterInv, NEW w \in Writers, PrepareSeal(w) PROVE WriterInv'
<1>1. Alive(life[w]) /\ pc[w] = "seal" /\ op[w].at = "idle" /\ life[w].result = "none" /\ life[w].terminal = "none"
  BY AtWork DEF PrepareSeal, Early
<1> DEFINE l == [life[w] EXCEPT !.seal = "prepared"]
<1>2. Minor(l, life[w])
  BY <1>1, MinorChange
<1>3. AcceptsSealing(life[w]) \in BOOLEAN
  BY DEF AcceptsSealing
<1>4. /\ Publish(w, "AgentSealPrepared", AcceptsSealing(life[w]), l, "sealing")
      /\ UNCHANGED gitVars /\ UNCHANGED crashes
  BY DEF PrepareSeal
<1> HIDE DEF l
<1>5. Fits("sealing", l)
  BY <1>1, <1>2 DEF Minor, Kin, Fits, Early
<1> QED
  BY <1>1, <1>2, <1>3, <1>4, <1>5, MinorPublish DEF Minor, PCs

LEMMA CommitSealKeeps == ASSUME WriterInv, NEW w \in Writers, CommitSeal(w) PROVE WriterInv'
<1>1. /\ Alive(life[w]) /\ pc[w] = "sealed" /\ op[w].at = "idle" /\ life[w].result = "none" /\ life[w].terminal = "none"
      /\ Kin(life[w], life[w]) /\ UNCHANGED gitVars /\ UNCHANGED crashes
  BY AtWork DEF CommitSeal, Early, Answered
<1>2. CASE op[w].ret = "ok"
  <2> DEFINE l == [life[w] EXCEPT !.seal = "committed"]
  <2>1. Minor(l, life[w])
    BY <1>1, MinorChange
  <2>2. AcceptsSeal(life[w]) \in BOOLEAN
    BY DEF AcceptsSeal
  <2>3. Publish(w, "AgentSealCommitted", AcceptsSeal(life[w]), l, "result")
    BY <1>2 DEF CommitSeal
  <2> HIDE DEF l
  <2>4. Fits("result", l)
    BY <1>1, <2>1 DEF Minor, Kin, Fits, Early
  <2> QED
    BY <1>1, <2>1, <2>2, <2>3, <2>4, MinorPublish DEF Minor, PCs
<1>3. CASE op[w].ret # "ok"
  <2>1. life' = life /\ pc' = [pc EXCEPT ![w] = "failed"]
    BY <1>3 DEF CommitSeal, BoundFailure
  <2>2. Fits("failed", life[w]) /\ "failed" \in PCs
    BY <1>1 DEF Fits, PCs
  <2> QED
    BY <1>1, <2>1, <2>2, TurnKeeps
<1> QED
  BY <1>2, <1>3

LEMMA FinishChildKeeps == ASSUME WriterInv, NEW w \in Writers, FinishChild(w) PROVE WriterInv'
<1>1. Alive(life[w]) /\ pc[w] = "finish" /\ op[w].at = "idle" /\ life[w].terminal = "none"
  BY AtWork DEF FinishChild
<1> DEFINE l == [life[w] EXCEPT !.finished = Finished(life[w])]
<1>2. Minor(l, life[w])
  BY <1>1, MinorChange
<1>3. life' = [life EXCEPT ![w] = l] /\ pc' = [pc EXCEPT ![w] = "answer"] /\ UNCHANGED gitVars /\ UNCHANGED crashes
  BY DEF FinishChild
<1> HIDE DEF l
<1>4. Fits("answer", l) /\ "answer" \in PCs
  BY <1>1, <1>2 DEF Minor, Fits, Early, PCs
<1> QED
  BY <1>1, <1>2, <1>3, <1>4, TurnKeeps DEF Minor

LEMMA RootEndsKeeps == ASSUME WriterInv, NEW w \in Writers, RootEnds(w) PROVE WriterInv'
<1>1. /\ Alive(life[w]) /\ pc[w] = "root" /\ op[w].at = "idle" /\ life[w].terminal = "none"
      /\ pc' = [pc EXCEPT ![w] = "final"] /\ UNCHANGED gitVars /\ UNCHANGED crashes
  BY AtWork DEF RootEnds
<1>2. PICK t : life' = [life EXCEPT ![w] = [life[w] EXCEPT !.control = (t = "cancelled")]]
  BY DEF RootEnds
<1> DEFINE l == [life[w] EXCEPT !.control = (t = "cancelled")]
<1>3. Minor(l, life[w]) /\ life' = [life EXCEPT ![w] = l]
  BY <1>1, <1>2, MinorChange
<1> HIDE DEF l
<1>4. Fits("final", l) /\ "final" \in PCs
  BY <1>1, <1>3 DEF Minor, Fits, Early, PCs
<1> QED
  BY <1>1, <1>3, <1>4, TurnKeeps DEF Minor

LEMMA AnswerToolKeeps == ASSUME WriterInv, NEW w \in Writers, AnswerTool(w) PROVE WriterInv'
<1>1. Alive(life[w]) /\ pc[w] = "answer" /\ op[w].at = "idle" /\ life[w].terminal = "none" /\ Kin(life[w], life[w])
  BY AtWork DEF AnswerTool
<1> DEFINE l == [life[w] EXCEPT !.tool = "done", !.outcome = Effect(w)]
<1>2. Alive(l)
  BY <1>1, ChangedTwo
<1>3. Kin(l, life[w]) /\ l.terminal = "none"
  BY <1>1 DEF Kin, Alive
<1>4. PICK p \in {"root", "final"} : pc' = [pc EXCEPT ![w] = p]
  BY DEF AnswerTool
<1>5. (life' = [life EXCEPT ![w] = l] \/ life' = life) /\ UNCHANGED gitVars /\ UNCHANGED crashes
  BY DEF AnswerTool
<1> HIDE DEF l
<1>6. Fits(p, l) /\ Fits(p, life[w]) /\ p \in PCs
  BY <1>1, <1>3 DEF Fits, Early, PCs
<1> QED
  BY <1>1, <1>2, <1>3, <1>4, <1>5, <1>6, TurnKeeps

LEMMA FinalizeKeeps == ASSUME WriterInv, NEW w \in Writers, Finalize(w) PROVE WriterInv'
<1>1. pc[w] = "final" /\ Ordered(w) /\ life[w].terminal = "none" /\ UNCHANGED gitVars /\ UNCHANGED crashes
  BY AtWork DEF Finalize
<1>2. PICK p \in {"plan", "clean", "end"} :
         /\ pc' = [pc EXCEPT ![w] = p] /\ life' = life
         /\ p # "end" => life[w].integ = "committed" /\ life[w].cleanup = "none"
         /\ p = "plan" => life[w].plan = None
         /\ p = "clean" => life[w].plan # None
  BY DEF Finalize, Advance
<1>3. Fits(p, life[w]) /\ p \in PCs
  BY <1>1, <1>2 DEF Fits, Early, PCs, Ordered
<1> QED
  BY <1>1, <1>2, <1>3, WalkKeeps

LEMMA PublishTerminalKeeps == ASSUME WriterInv, NEW w \in Writers, PublishTerminal(w) PROVE WriterInv'
<1>1. /\ Alive(life[w]) /\ pc[w] = "end" /\ op[w].at = "idle" /\ life[w].terminal = "none"
      /\ UNCHANGED gitVars /\ UNCHANGED crashes
  BY AtWork DEF PublishTerminal
<1>2. CASE AcceptsTerminal(life[w], goal[w])
  <2> DEFINE l == [life[w] EXCEPT !.terminal = goal[w]]
  <2>1. Alive(l)
    BY <1>1, Changed
  <2>2. Kin(l, life[w])
    BY <1>1 DEF Kin, Alive
  <2>3. life' = [life EXCEPT ![w] = l] /\ pc' = [pc EXCEPT ![w] = "done"]
    BY <1>2 DEF PublishTerminal
  <2> HIDE DEF l
  <2>4. Fits("done", l) /\ "done" \in PCs
    BY DEF Fits, Early, PCs
  <2> QED
    BY <1>1, <2>1, <2>2, <2>3, <2>4, TurnKeeps
<1>3. CASE ~AcceptsTerminal(life[w], goal[w])
  <2>1. life' = life /\ pc' = [pc EXCEPT ![w] = "down"]
    BY <1>3 DEF PublishTerminal
  <2>2. Fits("down", life[w]) /\ "down" \in PCs
    BY <1>1 DEF Fits, Early, PCs
  <2> QED
    BY <1>1, <2>1, <2>2, WalkKeeps
<1> QED
  BY <1>2, <1>3

LEMMA ResumeKeeps == ASSUME WriterInv, NEW w \in Writers, Resume(w) PROVE WriterInv'
<1>1. pc[w] = "down" /\ Ordered(w) /\ life[w].terminal = "none" /\ UNCHANGED gitVars /\ UNCHANGED crashes /\ life' = life
  BY AtWork DEF Resume
<1>2. PICK p : pc' = [pc EXCEPT ![w] = p] /\ p \in {"final", "root", "answer", Continue(life[w])}
  BY DEF Resume
<1>3. Fits(Continue(life[w]), life[w]) /\ Continue(life[w]) \in PCs
  BY <1>1 DEF Fits, Early, PCs, Ordered, Continue
<1>4. Fits(p, life[w]) /\ p \in PCs
  BY <1>1, <1>2, <1>3 DEF Fits, Early, PCs
<1> QED
  BY <1>1, <1>2, <1>4, WalkKeeps

\* An event that is of account: what it must keep when it is accepted.
LEMMA MajorPublish ==
    ASSUME WriterInv, NEW w \in Writers, NEW event, NEW accepted \in BOOLEAN, NEW l, NEW step \in PCs, Alive(l),
           Publish(w, event, accepted, l, step), UNCHANGED gitVars, UNCHANGED crashes, op[w].at = "idle",
           pc[w] \notin {"idle", "settle", "clean", "cleaned", "done"}, step \notin {"settle", "cleaned"},
           accepted /\ life'[w] = l /\ pc'[w] = step /\ base'[w] = base[w] =>
               Reports(w) /\ Disposes(w) /\ Ordered(w)'
    PROVE  WriterInv'
<1>0. Typed
  BY DEF WriterInv
<1>1. /\ LifeTyped' /\ \A v \in Writers : v # w => life'[v] = life[v]
      /\ pc' \in [Writers -> PCs] /\ \A v \in Writers : v # w => pc'[v] = pc[v]
      /\ \/ accepted /\ Open(life[w], event) /\ life'[w] = l /\ pc'[w] = step
         \/ ~(accepted /\ Open(life[w], event)) /\ life' = life /\ pc'[w] \in {"end", "answer"}
  BY PublishTurns, ZenonT(60)
<1>2. Moves(w) /\ base'[w] = base[w]
  BY <1>0, <1>1 DEF Moves, gitVars, Typed
<1>3. CASE accepted /\ Open(life[w], event) /\ life'[w] = l /\ pc'[w] = step
  BY <1>2, <1>3, MovesKeep
<1>4. CASE life' = life /\ pc'[w] \in {"end", "answer"}
  <2>1. Kin(life'[w], life[w]) /\ Fits(pc'[w], life'[w])
    BY <1>4, AtWork DEF Kin, Fits, Early
  <2> QED
    BY <1>2, <2>1, MinorKeeps
<1> QED
  BY <1>1, <1>3, <1>4

LEMMA CollectResultKeeps == ASSUME WriterInv, NEW w \in Writers, CollectResult(w) PROVE WriterInv'
<1>1. /\ Alive(life[w]) /\ pc[w] = "result" /\ op[w].at = "idle" /\ Ordered(w) /\ life[w].result = "none"
      /\ life[w].terminal = "none"
  BY AtWork DEF CollectResult, Early
<1> DEFINE l == [life[w] EXCEPT !.result = "completed"]
<1>2. Alive(l)
  BY <1>1, Changed
<1>3. /\ l.result = "completed" /\ l.integ = life[w].integ /\ l.plan = life[w].plan /\ l.cleanup = life[w].cleanup
      /\ l.tool = life[w].tool /\ l.terminal = life[w].terminal
  BY <1>1 DEF Alive
<1>4. AcceptsResult(life[w], "completed") \in BOOLEAN
  BY DEF AcceptsResult
<1>5. /\ Publish(w, "AgentResultCollected", AcceptsResult(life[w], "completed"), l, "integrate")
      /\ UNCHANGED gitVars /\ UNCHANGED crashes
  BY DEF CollectResult
<1> HIDE DEF l
<1>6. ASSUME life'[w] = l, pc'[w] = "integrate", base'[w] = base[w] PROVE Reports(w) /\ Disposes(w) /\ Ordered(w)'
  BY <1>1, <1>3, <1>6 DEF Reports, Disposes, Ordered, Early
<1> QED
  BY <1>1, <1>2, <1>4, <1>5, <1>6, MajorPublish DEF PCs

LEMMA CollectFailureKeeps == ASSUME WriterInv, NEW w \in Writers, CollectFailure(w) PROVE WriterInv'
<1>1. /\ Alive(life[w]) /\ pc[w] = "failed" /\ op[w].at = "idle" /\ Ordered(w) /\ life[w].result = "none"
      /\ life[w].terminal = "none"
  BY AtWork DEF CollectFailure, Early
<1> DEFINE end == IF life[w].child = "lost" THEN "lost" ELSE "failed"
           l == [life[w] EXCEPT !.result = end]
<1>2. Alive(l) /\ end \in {"lost", "failed"}
  BY <1>1, Changed
<1>3. /\ l.result = end /\ l.integ = life[w].integ /\ l.plan = life[w].plan /\ l.cleanup = life[w].cleanup
      /\ l.tool = life[w].tool /\ l.terminal = life[w].terminal
  BY <1>1 DEF Alive
<1>4. AcceptsResult(life[w], end) \in BOOLEAN
  BY DEF AcceptsResult
<1>5. /\ Publish(w, "AgentResultCollected", AcceptsResult(life[w], end), l, "plan")
      /\ UNCHANGED gitVars /\ UNCHANGED crashes
  BY DEF CollectFailure
<1> HIDE DEF l, end
<1>6. ASSUME life'[w] = l, pc'[w] = "plan", base'[w] = base[w] PROVE Reports(w) /\ Disposes(w) /\ Ordered(w)'
  BY <1>1, <1>2, <1>3, <1>6 DEF Reports, Disposes, Ordered, Early
<1> QED
  BY <1>1, <1>2, <1>4, <1>5, <1>6, MajorPublish DEF PCs

LEMMA PrepareIntegrationKeeps == ASSUME WriterInv, NEW w \in Writers, PrepareIntegration(w) PROVE WriterInv'
<1>1. Alive(life[w]) /\ pc[w] = "integrate" /\ op[w].at = "idle" /\ Ordered(w) /\ life[w].terminal = "none"
  BY AtWork DEF PrepareIntegration
<1> DEFINE l == [life[w] EXCEPT !.integ = "prepared"]
<1>2. Alive(l)
  BY <1>1, Changed
<1>3. /\ l.result = life[w].result /\ l.integ = "prepared" /\ l.plan = life[w].plan /\ l.cleanup = life[w].cleanup
      /\ l.tool = life[w].tool /\ l.terminal = life[w].terminal
  BY <1>1 DEF Alive
<1>4. AcceptsIntegrating(life[w]) \in BOOLEAN
  BY DEF AcceptsIntegrating
<1>5. /\ Publish(w, "AgentIntegrationPrepared", AcceptsIntegrating(life[w]), l, "begin")
      /\ UNCHANGED gitVars /\ UNCHANGED crashes
  BY DEF PrepareIntegration
<1> HIDE DEF l
<1>6. ASSUME life'[w] = l, pc'[w] = "begin", base'[w] = base[w] PROVE Reports(w) /\ Disposes(w) /\ Ordered(w)'
  BY <1>1, <1>3, <1>6 DEF Reports, Disposes, Ordered, Early
<1> QED
  BY <1>1, <1>2, <1>4, <1>5, <1>6, MajorPublish DEF PCs

LEMMA StartIntegrationKeeps == ASSUME WriterInv, NEW w \in Writers, StartIntegration(w) PROVE WriterInv'
<1>1. Alive(life[w]) /\ pc[w] = "begin" /\ op[w].at = "idle" /\ Ordered(w) /\ life[w].terminal = "none"
  BY AtWork DEF StartIntegration
<1> DEFINE l == [life[w] EXCEPT !.integ = "started"]
<1>2. Alive(l)
  BY <1>1, Changed
<1>3. /\ l.result = life[w].result /\ l.integ = "started" /\ l.plan = life[w].plan /\ l.cleanup = life[w].cleanup
      /\ l.tool = life[w].tool /\ l.terminal = life[w].terminal
  BY <1>1 DEF Alive
<1>4. AcceptsStart(life[w]) \in BOOLEAN
  BY DEF AcceptsStart
<1>5. /\ Publish(w, "AgentIntegrationStarted", AcceptsStart(life[w]), l, "integrating")
      /\ UNCHANGED gitVars /\ UNCHANGED crashes
  BY DEF StartIntegration
<1> HIDE DEF l
<1>6. ASSUME life'[w] = l, pc'[w] = "integrating", base'[w] = base[w] PROVE Reports(w) /\ Disposes(w) /\ Ordered(w)'
  BY <1>1, <1>3, <1>6 DEF Reports, Disposes, Ordered, Early
<1> QED
  BY <1>1, <1>2, <1>4, <1>5, <1>6, MajorPublish DEF PCs

LEMMA SettleIntegrationKeeps == ASSUME WriterInv, NEW w \in Writers, SettleIntegration(w) PROVE WriterInv'
<1>1. /\ Alive(life[w]) /\ pc[w] = "settle" /\ op[w].at = "idle" /\ Ordered(w) /\ life[w].terminal = "none"
      /\ op[w].ret \in {"ok", "conflict", "recovery"} /\ life[w].integ = "started" /\ Typed
      /\ UNCHANGED gitVars /\ UNCHANGED crashes
  BY AtWork DEF SettleIntegration, Answered, Attends, Ordered
<1>2. \A e \in {"AgentIntegrationCommitted", "AgentIntegrationFailed"} :
        AcceptsIntegration(life[w]) /\ Open(life[w], e)
  BY <1>1 DEF AcceptsIntegration, Open, Settlements
<1> DEFINE i == IF op[w].ret = "ok" THEN "committed" ELSE op[w].ret
           p == IF op[w].ret = "ok" THEN "finish" ELSE "plan"
<1>3. PICK l : /\ life' = [life EXCEPT ![w] = l] /\ pc' = [pc EXCEPT ![w] = p] /\ Alive(l)
               /\ l.result = life[w].result /\ l.integ = i /\ l.plan = life[w].plan /\ l.cleanup = life[w].cleanup
               /\ l.tool = life[w].tool /\ l.terminal = life[w].terminal
  <2>1. CASE op[w].ret = "ok"
    <3> DEFINE k == [life[w] EXCEPT !.integ = "committed", !.delivered = op[w].rev]
    <3>1. Alive(k)
      BY <1>1, ChangedTwo
    <3>2. /\ k.result = life[w].result /\ k.integ = i /\ k.plan = life[w].plan /\ k.cleanup = life[w].cleanup
          /\ k.tool = life[w].tool /\ k.terminal = life[w].terminal
      BY <1>1, <2>1 DEF Alive
    <3>3. life' = [life EXCEPT ![w] = k] /\ pc' = [pc EXCEPT ![w] = p]
      BY <1>2, <2>1 DEF SettleIntegration, Publish
    <3> QED
      BY <3>1, <3>2, <3>3
  <2>2. CASE op[w].ret # "ok"
    <3> DEFINE k == [life[w] EXCEPT !.integ = op[w].ret]
    <3>1. Alive(k)
      BY <1>1, Changed
    <3>2. /\ k.result = life[w].result /\ k.integ = i /\ k.plan = life[w].plan /\ k.cleanup = life[w].cleanup
          /\ k.tool = life[w].tool /\ k.terminal = life[w].terminal
      BY <1>1, <2>2 DEF Alive
    <3>3. life' = [life EXCEPT ![w] = k] /\ pc' = [pc EXCEPT ![w] = p]
      BY <1>2, <2>2 DEF SettleIntegration, Publish
    <3> QED
      BY <3>1, <3>2, <3>3
  <2> QED
    BY <2>1, <2>2
<1>4. LifeTyped' /\ life'[w] = l /\ \A v \in Writers : v # w => life'[v] = life[v]
  BY <1>1, <1>3, LifeTurns DEF Typed
<1>5. Moves(w) /\ pc'[w] = p /\ base'[w] = base[w]
  BY <1>1, <1>3, <1>4 DEF Moves, gitVars, Typed, PCs
<1>6. Reports(w) /\ Disposes(w)
  BY <1>1, <1>3, <1>4 DEF Reports, Disposes
<1>7. Ordered(w)'
  BY <1>1, <1>3, <1>4, <1>5 DEF Ordered, Early
<1> QED
  BY <1>5, <1>6, <1>7, MovesKeep

\* What inspect_writer_cleanup returns.
LEMMA Inspected ==
    ASSUME Typed, NEW w \in Writers, base[w] # None, NEW seal \in BOOLEAN, NEW phase \in BOOLEAN
    PROVE  LET plan == InspectCleanup(w, seal, phase) IN
           /\ plan \in Plans /\ plan # None
           /\ plan.mode = "retain" \/ (plan.mode = "remove" /\ plan.commit \in Commits)
<1>1. base[w] \in Commits /\ Final(w) \in Commits /\ res[w] \in Resources
  BY FinalCommit DEF Typed
<1>2. \A s \in BOOLEAN : Scope(w, s) \in Works \cup {"empty", "sealed", None}
  BY <1>1 DEF Scope, Resources
<1>3. Published(w) \in BOOLEAN
  BY DEF Published
<1> DEFINE sealed == seal \/ (phase /\ Published(w))
           plan == InspectCleanup(w, seal, phase)
<1>4. CASE Scope(w, sealed) = None
  <2>1. plan = [mode |-> "retain", commit |-> None, scope |-> None, sealed |-> seal]
    BY <1>4 DEF InspectCleanup, RetainPlan
  <2> HIDE DEF plan
  <2>2. plan \in Plans /\ plan.mode = "retain"
    BY <2>1 DEF Plans
  <2> QED
    BY <2>2, LifecycleAssumption DEF plan
<1>5. CASE Scope(w, sealed) # None
  <2>1. plan = [mode |-> "remove", commit |-> IF sealed THEN Final(w) ELSE base[w],
                scope |-> Scope(w, sealed), sealed |-> sealed]
    BY <1>5 DEF InspectCleanup
  <2>2. sealed \in BOOLEAN
    BY <1>3
  <2>3. Scope(w, sealed) \in Works \cup {"empty", "sealed", None}
    BY <1>2, <2>2
  <2> HIDE DEF plan, sealed
  <2>4. plan \in Plans /\ plan.mode = "remove" /\ plan.commit \in Commits
    BY <1>1, <2>1, <2>2, <2>3 DEF Plans
  <2> QED
    BY <2>4, LifecycleAssumption DEF plan
<1> QED
  BY <1>4, <1>5

LEMMA PlanCleanupKeeps == ASSUME WriterInv, NEW w \in Writers, PlanCleanup(w) PROVE WriterInv'
<1>1. /\ Alive(life[w]) /\ pc[w] = "plan" /\ op[w].at = "idle" /\ Ordered(w) /\ life[w].terminal = "none"
      /\ Typed /\ base[w] # None
  BY AtWork DEF PlanCleanup, Ordered
<1> DEFINE phase == life[w].integ = "none" /\ life[w].stage = "started" /\ life[w].seal # "none"
           plan == InspectCleanup(w, life[w].seal = "committed", phase)
           l == [life[w] EXCEPT !.plan = plan]
<1>2. plan # None /\ (plan.mode = "retain" \/ (plan.mode = "remove" /\ plan.commit \in Commits))
  BY <1>1, Inspected
<1>3. /\ Publish(w, "AgentCleanupPrepared", AcceptsPlan(life[w], plan), l, "clean")
      /\ UNCHANGED gitVars /\ UNCHANGED crashes
  BY DEF PlanCleanup
<1> HIDE DEF plan
<1>4. Alive(l)
  BY <1>1, Changed
<1>5. /\ l.result = life[w].result /\ l.integ = life[w].integ /\ l.plan = plan /\ l.cleanup = life[w].cleanup
      /\ l.tool = life[w].tool /\ l.terminal = life[w].terminal
  BY <1>1 DEF Alive
<1>6. AcceptsPlan(life[w], plan) \in BOOLEAN
  BY DEF AcceptsPlan
<1> HIDE DEF l
<1>7. ASSUME AcceptsPlan(life[w], plan), life'[w] = l, pc'[w] = "clean", base'[w] = base[w]
      PROVE  Reports(w) /\ Disposes(w) /\ Ordered(w)'
  <2>1. life[w].result # "none" /\ life[w].cleanup = "none"
    BY <1>1, <1>7 DEF AcceptsPlan, Ordered
  <2>2. /\ life[w].integ = "committed" => life[w].tool = "done"
        /\ life[w].result = "completed" => life[w].integ \in {"committed", "conflict", "recovery"}
    BY <1>7 DEF AcceptsPlan
  <2> QED
    BY <1>1, <1>2, <1>5, <1>7, <2>1, <2>2 DEF Reports, Disposes, Ordered, Early
<1> QED
  BY <1>1, <1>3, <1>4, <1>6, <1>7, MajorPublish DEF PCs

LEMMA CommitCleanupKeeps == ASSUME WriterInv, NEW w \in Writers, CommitCleanup(w) PROVE WriterInv'
<1>1. /\ Alive(life[w]) /\ pc[w] = "cleaned" /\ op[w].at = "idle" /\ Ordered(w) /\ life[w].terminal = "none"
      /\ Typed /\ UNCHANGED gitVars /\ UNCHANGED crashes
  BY AtWork DEF CommitCleanup, Answered
<1> DEFINE l == [life[w] EXCEPT !.cleanup = op[w].ret]
<1>2. Alive(l)
  BY <1>1, Changed
<1>3. /\ l.result = life[w].result /\ l.integ = life[w].integ /\ l.plan = life[w].plan /\ l.cleanup = op[w].ret
      /\ l.tool = life[w].tool /\ l.terminal = life[w].terminal
  BY <1>1 DEF Alive
<1>4. life' = [life EXCEPT ![w] = l]
  BY DEF CommitCleanup
<1> HIDE DEF l
<1>5. PICK p \in {"end", "finish"} : pc' = [pc EXCEPT ![w] = p]
  BY DEF CommitCleanup
<1>6. LifeTyped' /\ life'[w] = l /\ \A v \in Writers : v # w => life'[v] = life[v]
  BY <1>1, <1>2, <1>4, LifeTurns DEF Typed
<1>7. Moves(w) /\ pc'[w] = p /\ base'[w] = base[w]
  BY <1>1, <1>5, <1>6 DEF Moves, gitVars, Typed, PCs
<1>8. Reports(w) /\ Disposes(w) /\ Ordered(w)'
  BY <1>1, <1>3, <1>6, <1>7 DEF Reports, Disposes, Ordered, Early
<1> QED
  BY <1>7, <1>8, MovesKeep

LEMMA LaunchKeeps == ASSUME WriterInv, NEW w \in Writers, Launch(w) PROVE WriterInv'
<1>1. /\ Alive(life[w]) /\ Typed /\ Local(w) /\ op[w].at = "idle" /\ pc[w] = "idle" /\ base[w] = None
      /\ life[w].result = "none" /\ life[w].integ = "none" /\ life[w].plan = None /\ life[w].cleanup = "none"
      /\ life[w].terminal = "none" /\ ~Present(w) /\ root.main \in Commits /\ root.main # None
  <2>1. Typed /\ Local(w) /\ pc[w] = "idle" /\ base[w] = None
    BY DEF WriterInv, Launch, PlanWriter
  <2>2. /\ life[w].result = "none" /\ life[w].integ = "none" /\ life[w].plan = None /\ life[w].cleanup = "none"
        /\ life[w].terminal = "none" /\ ~Present(w)
    BY <2>1 DEF Local, Ordered, Early, Adding
  <2>3. root.main \in Commits /\ root.main # None
    BY <2>1, GitAssumption DEF Typed, Roots
  <2> QED
    BY <2>1, <2>2, <2>3, AtWork
<1> DEFINE l == [life[w] EXCEPT !.tool = "inflight", !.rev = Revision]
<1>2. Alive(l)
  BY <1>1, ChangedTwo
<1>3. /\ l.result = "none" /\ l.integ = "none" /\ l.plan = None /\ l.cleanup = "none" /\ l.terminal = "none"
  BY <1>1 DEF Alive
<1>4. /\ life' = [life EXCEPT ![w] = l] /\ pc' = [pc EXCEPT ![w] = "prepare"]
      /\ base' = [base EXCEPT ![w] = root.main] /\ UNCHANGED <<root, headLock, lease, res, op, acts, crashes>>
  BY DEF Launch, PlanWriter
<1> HIDE DEF l
<1>5. LifeTyped' /\ life'[w] = l /\ \A v \in Writers : v # w => life'[v] = life[v]
  BY <1>1, <1>2, <1>4, LifeTurns DEF Typed
<1>6. Typed' /\ pc'[w] = "prepare" /\ base'[w] = root.main
  BY <1>1, <1>4, <1>5 DEF Typed, PCs, OpTyped
<1>7. StepOf(w)
  BY <1>1, <1>4, <1>5 DEF StepOf, Apart, Yields, Typed, Lockers, UnderLock, UnderCleanup
<1>8. Attends(w)' /\ Holding(w)' /\ Ordered(w)' /\ Removing(w)'
  <2>1. Attends(w)' /\ Holding(w)'
    BY <1>1, <1>4, <1>6 DEF Attends, Holding, Binding, Sealing, Integrating, Cleaning, Leased, UnderLock, UnderCleanup
  <2>2. Ordered(w)'
    BY <1>1, <1>3, <1>5, <1>6 DEF Ordered, Early
  <2>3. Removing(w)'
    BY <1>1, <1>3, <1>4, <1>5, <1>6 DEF Removing, Told
  <2> QED
    BY <2>1, <2>2, <2>3
<1>9. ~Present(w)' /\ w \notin ToSet(base'[w])
  BY <1>1, <1>4, <1>6 DEF Present
<1>10. Adding(w)' /\ Reporting(w)'
  BY <1>1, <1>3, <1>4, <1>5, <1>6, <1>9 DEF Adding, Reporting, Told, AfterCas, UnderLock
<1>11. crashes' = 0 => Keeping(w)'
  <2>1. crashes = 0 /\ res[w].branch = None => Gone(w)
    BY <1>1 DEF Local, Keeping, Deleted
  <2> QED
    BY <1>1, <1>3, <1>4, <1>5, <1>6, <2>1 DEF Keeping, Gone
<1> QED
  BY <1>6, <1>7, <1>8, <1>10, <1>11, StepKeeps DEF Local

LEMMA CrashKeeps == ASSUME WriterInv, NEW w \in Writers, Crash(w) PROVE WriterInv'
<1>1. Typed /\ Local(w) /\ pc[w] \notin {"idle", "down", "done"} /\ crashes' = crashes + 1 /\ crashes' > 0
  BY DEF WriterInv, Typed, Crash
<1>2. /\ pc' = [pc EXCEPT ![w] = "down"] /\ life' = life /\ op' = [op EXCEPT ![w] = Idle] /\ lease' = Unleased(w)
      /\ UNCHANGED <<headLock, base, acts>>
  BY DEF Crash, GitCrash
<1>3. OpTyped' /\ op'[w] = Idle /\ op'[w].at = "idle" /\ \A v \in Writers : v # w => op'[v] = op[v]
  <2>1. Formed(Idle) /\ Idle.at = "idle" /\ Idle.at \in Steps
    BY DEF Formed, Idle, Steps
  <2> HIDE DEF Idle
  <2> QED
    BY <1>1, <1>2, <2>1, OpTurns DEF Typed
<1>4. /\ root' \in Roots /\ root'.main = root.main /\ root'.head = root.head /\ root'.checkout = root.checkout
      /\ root' = root \/ Tears
  BY <1>1 DEF Crash, GitCrash, Typed, Roots, Tears
<1>5. /\ res' \in [Writers -> Resources] /\ \A v \in Writers : v # w => res'[v] = res[v]
      /\ res'[w].branch = res[w].branch /\ res'[w].tomb = res[w].tomb /\ res'[w].reg = res[w].reg
      /\ ~res[w].path => ~res'[w].path
  <2>1. res \in [Writers -> Resources] /\ res[w] \in Resources
    BY <1>1 DEF Typed
  <2>2. CASE res' = res
    BY <2>1, <2>2
  <2>3. CASE res' = [res EXCEPT ![w] = [res[w] EXCEPT !.path = FALSE, !.work = "clean"]]
    BY <2>1, <2>3 DEF Resources, Works
  <2> QED
    BY <2>2, <2>3 DEF Crash, GitCrash
<1>6. Typed' /\ pc'[w] = "down" /\ base'[w] = base[w] /\ life'[w] = life[w]
  <2>1. lease' \in Writers \cup {None} /\ headLock' \in Locks /\ base' \in [Writers -> Commits \cup {None}]
    BY <1>1, <1>2 DEF Typed, Unleased
  <2>2. LifeTyped' /\ acts' \in Nat /\ crashes' \in Nat
    BY <1>1, <1>2 DEF Typed, LifeTyped
  <2>3. pc' \in [Writers -> PCs] /\ pc'[w] = "down"
    BY <1>1, <1>2 DEF Typed, PCs
  <2> QED
    BY <1>2, <1>3, <1>4, <1>5, <2>1, <2>2, <2>3 DEF Typed
<1>7. StepOf(w)
  <2>1. ~Calm'
    BY <1>1 DEF Calm
  <2>2. lease' = lease \/ {lease, lease'} \subseteq {None, w}
    BY <1>2 DEF Unleased
  <2>3. pc \in [Writers -> PCs]
    BY <1>1 DEF Typed
  <2> QED
    BY <1>1, <1>2, <1>3, <1>4, <1>5, <2>1, <2>2, <2>3 DEF StepOf, Apart
<1>8. Attends(w)' /\ Holding(w)'
  BY <1>3, <1>6 DEF Attends, Holding, Binding, Sealing, Integrating, Cleaning, Leased, UnderLock, UnderCleanup
<1>9. Ordered(w)'
  BY <1>1, <1>6 DEF Local, Ordered, Early
<1>10. Removing(w)'
  BY <1>1, <1>2, <1>3, <1>5, <1>6 DEF Local, Removing, Told, Absent, Own
<1>11. Adding(w)'
  BY <1>1, <1>3, <1>4, <1>6 DEF Local, Adding, Told, Present, AfterCas, UnderLock
<1>12. Reporting(w)'
  BY <1>1, <1>3, <1>4, <1>6 DEF Local, Reporting, Told, Synced, Final, Calm
<1> QED
  BY <1>1, <1>6, <1>7, <1>8, <1>9, <1>10, <1>11, <1>12, StepKeeps DEF Local

-----------------------------------------------------------------------------
(* The others *)

\* Every writer stands by, and the files follow the head.
LEMMA StandersKeep ==
    ASSUME WriterInv, Typed', \A v \in Writers : Bystands(v), UNCHANGED <<op, base, lifeVars>>,
           headLock' = headLock \/ headLock' = Free \/ "lock" \in UserActs,
           \/ root'.head # "main" \/ root'.checkout = root'.main
           \/ root'.main = root.main /\ root'.head = root.head /\ root'.checkout = root.checkout
    PROVE  WriterInv'
<1>1. \A v \in Writers : Local(v)'
  BY BystanderKeeps DEF WriterInv
<1>2. Attended'
  BY DEF WriterInv, Attended, Calm, lifeVars
<1>3. LagExplained'
  BY DEF WriterInv, LagExplained, Final, lifeVars
<1> QED
  BY <1>1, <1>2, <1>3 DEF WriterInv

\* The others change the root or HEAD.lock.
LEMMA RootStepKeeps ==
    ASSUME WriterInv, UserEdit \/ UserUndo \/ UserCommit \/ UserSwitch \/ UserLock, UNCHANGED lifeVars
    PROVE  WriterInv'
<1>1. Typed /\ root \in Roots /\ UNCHANGED <<lease, res, base, op, life, pc, crashes>> /\ acts' \in Nat
  BY DEF WriterInv, Typed, UserEdit, UserUndo, UserCommit, UserSwitch, UserLock, lifeVars, May
<1>2. /\ headLock' \in Locks /\ (headLock' # headLock => root' = root)
      /\ headLock' # headLock => {headLock, headLock'} \subseteq {Free, Marker("foreign", None)}
      /\ headLock' = headLock \/ headLock' = Free \/ "lock" \in UserActs
  BY <1>1 DEF UserEdit, UserUndo, UserCommit, UserSwitch, UserLock, Typed, Locks, May
<1>3. /\ root' \in Roots
      /\ \/ root'.main = root.main /\ root'.head = root.head /\ root'.checkout = root.checkout
         \/ /\ headLock = Free /\ root.head = "main"
            /\ root'.main = Append(root.main, "user") /\ root'.checkout = root'.main
         \/ /\ headLock = Free /\ root'.main = root.main
            /\ root'.head = "main" => root'.checkout = root'.main
  <2>1. CASE UserEdit
    BY <1>1, <2>1 DEF UserEdit, Roots
  <2>2. CASE UserUndo
    BY <1>1, <2>2 DEF UserUndo, Roots
  <2>3. CASE UserCommit
    <3> DEFINE c == Append(root.main, "user")
    <3>1. root.main \in Commits /\ c \in Commits
      BY <1>1, Extends DEF Roots
    <3>2. root' = [root EXCEPT !.main = c, !.checkout = c, !.edited = "none"] /\ headLock = Free /\ root.head = "main"
      BY <2>3 DEF UserCommit
    <3> HIDE DEF c
    <3>3. root' \in Roots /\ root'.main = c /\ root'.checkout = c
      BY <1>1, <3>1, <3>2 DEF Roots
    <3> QED
      BY <3>2, <3>3 DEF c
  <2>4. CASE UserSwitch
    <3>1. <<>> \in Commits /\ root.main \in Commits
      BY <1>1 DEF Commits, Roots
    <3> DEFINE there == IF root.head = "main" THEN "other" ELSE "main"
               c == IF there = "main" THEN root.main ELSE <<>>
    <3>2. root' = [root EXCEPT !.head = there, !.checkout = c] /\ headLock = Free
      BY <2>4 DEF UserSwitch
    <3>3. there \in {"main", "other"} /\ c \in Commits /\ (there = "main" => c = root.main)
      BY <3>1
    <3> HIDE DEF there, c
    <3>4. root' \in Roots /\ root'.main = root.main /\ root'.head = there /\ root'.checkout = c
      BY <1>1, <3>2, <3>3 DEF Roots
    <3> QED
      BY <3>2, <3>3, <3>4
  <2>5. CASE UserLock
    BY <1>1, <2>5 DEF UserLock
  <2> QED
    BY <2>1, <2>2, <2>3, <2>4, <2>5
<1>4. Typed'
  BY <1>1, <1>2, <1>3 DEF Typed, OpTyped, LifeTyped
<1>5. ASSUME NEW v \in Writers PROVE Bystands(v)
  <2>1. Drifts(v)
    BY <1>1 DEF Drifts
  <2>2. Grows(v)
    BY <1>3, GitAssumption DEF Grows
  <2>3. Follows(v)
    BY <1>3 DEF Follows
  <2>4. \A k \in {"integration", "cleanup"} : Marker(k, v) \notin {Free, Marker("foreign", None)}
    BY DEF Marker, Free
  <2>5. \A k \in {"integration", "cleanup"} : (headLock' = Marker(k, v)) <=> (headLock = Marker(k, v))
    BY <1>2, <2>4
  <2>6. headLock # Free => root'.main = root.main /\ root'.head = root.head /\ root'.checkout = root.checkout
    BY <1>3
  <2> QED
    BY <1>1, <2>1, <2>2, <2>3, <2>4, <2>5, <2>6 DEF Bystands
<1>6. \/ root'.head # "main" \/ root'.checkout = root'.main
      \/ root'.main = root.main /\ root'.head = root.head /\ root'.checkout = root.checkout
  BY <1>3
<1> QED
  BY <1>1, <1>2, <1>4, <1>5, <1>6, StandersKeep DEF lifeVars

\* The others check out the branch of w, or disturb its worktree.
LEMMA WriterStepKeeps ==
    ASSUME WriterInv, NEW w \in Writers, ForeignBegin(w) \/ ForeignFinish(w) \/ Disturb(w), UNCHANGED lifeVars
    PROVE  WriterInv'
<1>1. /\ Typed /\ UNCHANGED <<root, headLock, lease, base, op, life, pc, crashes>> /\ acts' \in Nat
      /\ res \in [Writers -> Resources] /\ res[w] \in Resources
  BY DEF WriterInv, Typed, ForeignBegin, ForeignFinish, Disturb, May, lifeVars
<1>2. PICK r \in Resources :
         /\ res' = [res EXCEPT ![w] = r]
         /\ r.branch = res[w].branch /\ r.tomb = res[w].tomb /\ r.reg = res[w].reg /\ (r.path => res[w].path)
         /\ \/ r.foreign = res[w].foreign
            \/ res[w].foreign = "no" /\ res[w].branch # None /\ r.foreign = "begun"
            \/ /\ res[w].foreign = "begun" /\ r.foreign \in {"yes", "late"}
               /\ op[w].at = "idle" /\ Absent(w) /\ ~res[w].tomb => r.foreign = "late"
  <2>1. CASE ForeignBegin(w)
    <3> DEFINE r == [res[w] EXCEPT !.foreign = "begun"]
    <3>1. r \in Resources /\ res' = [res EXCEPT ![w] = r] /\ res[w].foreign = "no" /\ res[w].branch # None
      BY <1>1, <2>1 DEF ForeignBegin, BranchPresent, Resources
    <3>2. /\ r.branch = res[w].branch /\ r.tomb = res[w].tomb /\ r.reg = res[w].reg /\ r.path = res[w].path
          /\ r.foreign = "begun"
      BY <1>1 DEF Resources
    <3> HIDE DEF r
    <3> QED
      BY <3>1, <3>2
  <2>2. CASE ForeignFinish(w)
    <3> DEFINE f == IF op[w].at = "idle" /\ ~BranchPresent(w) /\ ~WorktreePresent(w) /\ ~res[w].tomb THEN "late" ELSE "yes"
               r == [res[w] EXCEPT !.foreign = f]
    <3>1. res' = [res EXCEPT ![w] = r] /\ res[w].foreign = "begun"
      BY <2>2 DEF ForeignFinish
    <3>2. f \in {"yes", "late"} /\ (op[w].at = "idle" /\ Absent(w) /\ ~res[w].tomb => f = "late")
      BY DEF Absent, BranchPresent, WorktreePresent
    <3> HIDE DEF f
    <3>3. /\ r \in Resources /\ r.branch = res[w].branch /\ r.tomb = res[w].tomb /\ r.reg = res[w].reg
          /\ r.path = res[w].path /\ r.foreign = f
      BY <1>1, <3>2 DEF Resources
    <3> HIDE DEF r
    <3> QED
      BY <3>1, <3>2, <3>3
  <2>3. ASSUME NEW x \in Works, res' = [res EXCEPT ![w] = [res[w] EXCEPT !.work = x]]
        PROVE \E r \in Resources : /\ res' = [res EXCEPT ![w] = r] /\ r.branch = res[w].branch /\ r.tomb = res[w].tomb
                                   /\ r.reg = res[w].reg /\ r.path = res[w].path /\ r.foreign = res[w].foreign
    <3>1. [res[w] EXCEPT !.work = x] \in Resources
      BY <1>1 DEF Resources, Works
    <3> WITNESS [res[w] EXCEPT !.work = x] \in Resources
    <3> QED
      BY <1>1, <2>3 DEF Resources
  <2>4. ASSUME res' = [res EXCEPT ![w] = [res[w] EXCEPT !.path = FALSE, !.work = "clean"]]
        PROVE \E r \in Resources : /\ res' = [res EXCEPT ![w] = r] /\ r.branch = res[w].branch /\ r.tomb = res[w].tomb
                                   /\ r.reg = res[w].reg /\ ~r.path /\ r.foreign = res[w].foreign
    <3>1. [res[w] EXCEPT !.path = FALSE, !.work = "clean"] \in Resources
      BY <1>1 DEF Resources, Works
    <3> WITNESS [res[w] EXCEPT !.path = FALSE, !.work = "clean"] \in Resources
    <3> QED
      BY <1>1, <2>4 DEF Resources
  <2>5. ASSUME res' = [res EXCEPT ![w] = [res[w] EXCEPT !.lock = "foreign"]]
        PROVE \E r \in Resources : /\ res' = [res EXCEPT ![w] = r] /\ r.branch = res[w].branch /\ r.tomb = res[w].tomb
                                   /\ r.reg = res[w].reg /\ r.path = res[w].path /\ r.foreign = res[w].foreign
    <3>1. [res[w] EXCEPT !.lock = "foreign"] \in Resources
      BY <1>1 DEF Resources, Works
    <3> WITNESS [res[w] EXCEPT !.lock = "foreign"] \in Resources
    <3> QED
      BY <1>1, <2>5 DEF Resources
  <2>6. CASE Disturb(w)
    <3>1. \/ \E x \in Works : res' = [res EXCEPT ![w] = [res[w] EXCEPT !.work = x]]
          \/ res' = [res EXCEPT ![w] = [res[w] EXCEPT !.path = FALSE, !.work = "clean"]]
          \/ res' = [res EXCEPT ![w] = [res[w] EXCEPT !.lock = "foreign"]]
      BY <2>6 DEF Disturb, Works
    <3> QED
      BY <2>3, <2>4, <2>5, <3>1
  <2> QED
    BY <2>1, <2>2, <2>6
<1>3. Typed' /\ res'[w] = r /\ \A v \in Writers : v # w => res'[v] = res[v]
  BY <1>1, <1>2 DEF Typed, OpTyped, LifeTyped
<1>4. ASSUME NEW v \in Writers PROVE Bystands(v)
  <2>1. Drifts(v)
    BY <1>2, <1>3 DEF Drifts
  <2> QED
    BY <1>1, <2>1 DEF Bystands, Grows, Follows
<1> QED
  BY <1>1, <1>3, <1>4, StandersKeep DEF lifeVars

-----------------------------------------------------------------------------
(* The invariant *)

LEMMA Begins == ASSUME Init PROVE WriterInv
<1>1. Typed
  <2>1. <<>> \in Commits
    BY DEF Commits
  <2>2. root \in Roots /\ headLock \in Locks /\ lease \in Writers \cup {None} /\ acts \in Nat /\ crashes \in Nat
    BY <2>1 DEF Init, GitInit, Roots, Locks
  <2>3. res \in [Writers -> Resources] /\ base \in [Writers -> Commits \cup {None}] /\ pc \in [Writers -> PCs]
    BY DEF Init, GitInit, Resources, NoResources, Works, PCs
  <2>4. OpTyped
    BY DEF Init, GitInit, OpTyped, Formed, Idle, Steps
  <2>5. LifeTyped
    BY DEF Init, LifeTyped, Alive, NewLife
  <2> QED
    BY <2>2, <2>3, <2>4, <2>5 DEF Typed
<1>2. ASSUME NEW w \in Writers PROVE Local(w)
  <2>1. /\ op[w].at = "idle" /\ op[w].ret = None /\ pc[w] = "idle" /\ base[w] = None
        /\ life[w].result = "none" /\ life[w].integ = "none" /\ life[w].plan = None /\ life[w].cleanup = "none"
        /\ life[w].terminal = "none" /\ Gone(w)
    BY DEF Init, GitInit, Idle, NewLife, NoResources, Gone
  <2>2. ~Present(w)
    BY DEF Init, GitInit, Present, ToSet
  <2>3. Attends(w) /\ Holding(w)
    BY <2>1 DEF Attends, Holding, Binding, Sealing, Integrating, Cleaning, Leased, UnderLock, UnderCleanup
  <2>4. Ordered(w) /\ Removing(w)
    BY <2>1 DEF Ordered, Early, Removing, Told
  <2>5. Adding(w) /\ Reporting(w)
    BY <2>1, <2>2 DEF Adding, Reporting, Told, AfterCas, UnderLock
  <2>6. Keeping(w)
    BY <2>1 DEF Keeping, Deleted
  <2> QED
    BY <2>3, <2>4, <2>5, <2>6 DEF Local
<1>3. Attended /\ LagExplained
  BY DEF Init, GitInit, Attended, LagExplained
<1> QED
  BY <1>1, <1>2, <1>3 DEF WriterInv

LEMMA StutterKeeps == ASSUME WriterInv, UNCHANGED vars PROVE WriterInv'
<1>1. UNCHANGED <<root, headLock, lease, res, base, op, acts>> /\ UNCHANGED lifeVars
  BY DEF vars, gitVars
<1>2. Typed'
  BY <1>1 DEF WriterInv, Typed, OpTyped, LifeTyped, lifeVars
<1>3. \A v \in Writers : Bystands(v)
  BY <1>1 DEF Bystands, Drifts, Grows, Follows, lifeVars
<1> QED
  BY <1>1, <1>2, <1>3, StandersKeep

LEMMA Continues == ASSUME WriterInv, [Next]_vars PROVE WriterInv'
<1>1. ASSUME NEW w \in Writers, RuntimeStep(w) PROVE WriterInv'
  BY <1>1, LaunchKeeps, PrepareKeeps, BindKeeps, BoundKeeps, CreateKeeps, StartKeeps, ChildWritesKeeps,
     ChildEndsKeeps, JoinCollectKeeps, PrepareSealKeeps, SealKeeps, CommitSealKeeps, CollectResultKeeps,
     PrepareIntegrationKeeps, StartIntegrationKeeps, IntegrateKeeps, SettleIntegrationKeeps, CollectFailureKeeps,
     PlanCleanupKeeps, CleanKeeps, CommitCleanupKeeps, FinishChildKeeps, AnswerToolKeeps, RootEndsKeeps,
     FinalizeKeeps, PublishTerminalKeeps, GitStepKeeps DEF RuntimeStep
<1>2. ASSUME NEW w \in Writers, Resume(w) \/ StopRoot(w) \/ Crash(w) PROVE WriterInv'
  BY <1>2, ResumeKeeps, StopRootKeeps, CrashKeeps
<1>3. CASE UserStep /\ UNCHANGED lifeVars
  BY <1>3, RootStepKeeps, WriterStepKeeps DEF UserStep
<1>4. CASE UNCHANGED vars
  BY <1>4, StutterKeeps
<1> QED
  BY <1>1, <1>2, <1>3, <1>4 DEF Next

\* The inductive invariant of the writers: the operation, the runtime and the
\* durable lifecycle of each agree with its branch, HEAD.lock and the root,
\* whatever the others and the other writers do (agent.rs, workspace.rs).
THEOREM WriterInvariant == Spec => []WriterInv
<1>1. Init => WriterInv
  BY Begins
<1>2. WriterInv /\ [Next]_vars => WriterInv'
  BY Continues
<1> QED
  BY <1>1, <1>2, PTL DEF Spec

\* HEAD.lock keeps the branch where the CAS put it while the files of the root
\* are written (workspace.rs:1564-1600).
THEOREM BranchStandsStill == Spec => []HeadStill
<1>1. WriterInv => HeadStill
  BY DEF WriterInv, Local, Holding, HeadStill, UnderLock
<1> QED
  BY <1>1, WriterInvariant, PTL

\* A cleanup reported as removed left nothing behind (runtime.rs:50-116).
THEOREM RemovedIsRemoved == Spec => []CleanReport
<1>1. WriterInv => CleanReport
  BY DEF WriterInv, Local, Removing, CleanReport, Absent, Own, WorktreePresent, BranchPresent
<1> QED
  BY <1>1, WriterInvariant, PTL

\* A checkout of the branch by another keeps its branch when no crash
\* interrupts the cleanup (workspace.rs:2891).
THEOREM ForeignCheckoutKept == Spec => []ForeignKept
<1>1. WriterInv => ForeignKept
  <2>1. SUFFICES ASSUME WriterInv, NEW w \in Writers, life[w].cleanup # "none", res[w].foreign = "yes", crashes = 0
                 PROVE  BranchPresent(w)
    BY DEF ForeignKept, WriterInv, Typed
  <2> QED
    BY <2>1 DEF WriterInv, Local, Keeping, BranchPresent
<1> QED
  BY <1>1, WriterInvariant, PTL

\* Files of the root that lag behind the branch are those of an integration in
\* flight, or of one that was not reported as done (workspace.rs:1505).
THEOREM EveryLagExplained == Spec => []LagExplained
<1>1. WriterInv => LagExplained
  BY DEF WriterInv
<1> QED
  BY <1>1, WriterInvariant, PTL

-----------------------------------------------------------------------------
(* What a step may do to the branches, the worktrees and the root *)

\* The runtime itself leaves the root alone, and the resources but for a child.
LEMMA RuntimeFootprint ==
    ASSUME NEW w \in Writers, RuntimeStep(w)
    PROVE  (GitStep(w) /\ UNCHANGED lifeVars) \/ (ChildWrites(w) /\ UNCHANGED root) \/ UNCHANGED <<root, res>>
<1>1. CASE Launch(w) \/ Bind(w) \/ Seal(w) \/ Integrate(w) \/ Clean(w)
  BY <1>1 DEF Launch, Bind, Seal, Integrate, Clean, BindStart, SealStart, IntegrateStart, CleanupStart
<1>2. CASE Prepare(w) \/ Bound(w) \/ Create(w) \/ Start(w) \/ ChildEnds(w) \/ Join(w) \/ Collect(w) \/ PrepareSeal(w)
           \/ CommitSeal(w) \/ CollectResult(w)
  BY <1>2 DEF Prepare, Bound, Create, Start, ChildEnds, Join, Collect, PrepareSeal, CommitSeal, CollectResult, gitVars
<1>3. CASE PrepareIntegration(w) \/ StartIntegration(w) \/ SettleIntegration(w) \/ CollectFailure(w) \/ PlanCleanup(w)
           \/ CommitCleanup(w)
  BY <1>3 DEF PrepareIntegration, StartIntegration, SettleIntegration, CollectFailure, PlanCleanup, CommitCleanup, gitVars
<1>4. CASE FinishChild(w) \/ AnswerTool(w) \/ RootEnds(w) \/ Finalize(w) \/ PublishTerminal(w)
  BY <1>4 DEF FinishChild, AnswerTool, RootEnds, Finalize, PublishTerminal, gitVars
<1>5. CASE ChildWrites(w)
  BY <1>5 DEF ChildWrites
<1> QED
  BY <1>1, <1>2, <1>3, <1>4, <1>5 DEF RuntimeStep

\* Only the operations, a child, a crash and the others touch the repository.
LEMMA Footprint ==
    ASSUME [Next]_vars
    PROVE  \/ UNCHANGED <<root, res>>
           \/ \E w \in Writers : GitStep(w) \/ ChildWrites(w) \/ Crash(w)
           \/ UserStep
<1>1. ASSUME NEW w \in Writers, Resume(w) \/ StopRoot(w) PROVE UNCHANGED <<root, res>>
  BY <1>1 DEF Resume, StopRoot, gitVars
<1>2. CASE UNCHANGED vars
  BY <1>2 DEF vars, gitVars
<1> QED
  BY <1>1, <1>2, RuntimeFootprint DEF Next

\* A step keeps the branch of v and its worktree.
Spares(v) == (res[v].branch # None => res'[v].branch # None) /\ (res[v].reg => res'[v].reg)

LEMMA ReplacedSpares ==
    ASSUME res \in [Writers -> Resources], NEW w \in Writers, NEW r, res' = [res EXCEPT ![w] = r],
           res[w].branch # None => r.branch # None, res[w].reg => r.reg, NEW v \in Writers
    PROVE  Spares(v)
  BY DEF Spares

\* Changes of a writer's resources that leave its branch and registration.
LEMMA Retouched ==
    ASSUME NEW s \in Resources, NEW x,
           NEW r \in {[s EXCEPT !.work = x], [s EXCEPT !.foreign = x], [s EXCEPT !.tomb = x], [s EXCEPT !.lock = x],
                      [s EXCEPT !.path = FALSE, !.work = "clean"],
                      [s EXCEPT !.path = TRUE, !.reg = TRUE, !.lock = "cleanup", !.work = "bare"]}
    PROVE  r.branch = s.branch /\ (s.reg => r.reg)
  BY DEF Resources

LEMMA RetainSpares ==
    ASSUME WriterInv, NEW w \in Writers, op[w].at \in Cleaning, Retain(w, res[w]) \/ Retain(w, Restored(w))
    PROVE  Spares(w)
<1>1. res \in [Writers -> Resources] /\ Restored(w).branch # None /\ res[w] \in Resources
  BY InCleanup, Resourceful
<1>2. Restored(w).reg = res[w].reg
  BY <1>1 DEF Restored, Resources
<1> QED
  BY <1>1, <1>2 DEF Retain, Spares

\* Every step of an operation but two spares the branch and the worktree.
LEMMA GitSpares ==
    ASSUME WriterInv, NEW w \in Writers, GitStep(w), op[w].at \notin {"clDelete", "clRemove"} PROVE Spares(w)
<1>1. Typed /\ res \in [Writers -> Resources] /\ res[w] \in Resources
  BY DEF WriterInv, Typed
<1>2. CASE BindVerify(w) \/ SealRecheck(w) \/ SealVerify(w) \/ IntegrateLease(w) \/ IntegrateCas(w) \/ IntegrateLock(w)
           \/ IntegrateCheck(w) \/ IntegrateApply(w) \/ IntegrateValidate(w) \/ IntegrateObserve(w) \/ CleanupLock(w)
           \/ CleanupRelease(w)
  <2>1. res' = res
    BY <1>2 DEF BindVerify, SealRecheck, SealVerify, Read, IntegrateLease, IntegrateCas, IntegrateLock, IntegrateCheck,
       IntegrateApply, IntegrateValidate, IntegrateObserve, CleanupLock, CleanupRelease
  <2> QED
    BY <2>1 DEF Spares
<1>3. CASE BindAdd(w) \/ SealPublish(w)
  <2>1. base[w] # None
    BY <1>3 DEF BindAdd, SealPublish, WriterInv, Local, Attends, Ordered, Binding, Sealing
  <2>2. base[w] # None /\ Final(w) # None
    BY <1>1, <2>1, FinalCommit
  <2>3. CASE SealPublish(w) /\ res' = res
    BY <2>3 DEF Spares
  <2>4. CASE BindAdd(w)
    <3> DEFINE r == [res[w] EXCEPT !.branch = base[w], !.path = TRUE, !.reg = TRUE, !.work = "clean"]
    <3>1. r.branch # None /\ r.reg
      BY <1>1, <2>2 DEF Resources
    <3>2. res' = [res EXCEPT ![w] = r]
      BY <2>4 DEF BindAdd
    <3> HIDE DEF r
    <3> QED
      BY <1>1, <3>1, <3>2, ReplacedSpares
  <2>5. CASE SealPublish(w) /\ res' # res
    <3> DEFINE x == IF res[w].work = op[w].arg THEN "clean" ELSE res[w].work
               r == [res[w] EXCEPT !.branch = Final(w), !.work = x]
    <3>1. r.branch # None /\ r.reg = res[w].reg
      BY <1>1, <2>2 DEF Resources
    <3>2. res' = [res EXCEPT ![w] = r]
      BY <2>5 DEF SealPublish
    <3> HIDE DEF r
    <3> QED
      BY <1>1, <3>1, <3>2, ReplacedSpares
  <2> QED
    BY <1>3, <2>3, <2>4, <2>5
<1>4. CASE CleanupSurvey(w) \/ CleanupTomb(w) \/ CleanupGuard(w) \/ CleanupPin(w) \/ CleanupCheck(w) \/ CleanupVerify(w)
           \/ CleanupGone(w) \/ CleanupForget(w) \/ CleanupLast(w)
  <2>1. op[w].at \in Cleaning
    BY <1>4 DEF CleanupSurvey, CleanupTomb, CleanupGuard, CleanupPin, CleanupCheck, CleanupVerify, CleanupGone,
       CleanupForget, CleanupLast, Cleaning
  <2>2. \/ Retain(w, res[w]) \/ Retain(w, Restored(w)) \/ res' = res
        \/ \E x \in BOOLEAN : res' = [res EXCEPT ![w] = [res[w] EXCEPT !.tomb = x]]
        \/ res' = [res EXCEPT ![w] = [res[w] EXCEPT !.path = TRUE, !.reg = TRUE, !.lock = "cleanup", !.work = "bare"]]
        \/ res' = [res EXCEPT ![w] = [res[w] EXCEPT !.lock = "cleanup"]]
    BY <1>4 DEF CleanupSurvey, CleanupTomb, CleanupGuard, CleanupPin, CleanupCheck, CleanupVerify, CleanupGone,
       CleanupForget, CleanupLast
  <2>3. CASE Retain(w, res[w]) \/ Retain(w, Restored(w))
    BY <2>1, <2>3, RetainSpares
  <2>4. CASE res' = res
    BY <2>4 DEF Spares
  <2>5. ASSUME NEW r, res' = [res EXCEPT ![w] = r], r.branch = res[w].branch, res[w].reg => r.reg PROVE Spares(w)
    BY <1>1, <2>5, ReplacedSpares
  <2> QED
    BY <1>1, <2>2, <2>3, <2>4, <2>5, Retouched
<1>5. ~CleanupDelete(w) /\ ~CleanupRemove(w)
  BY DEF CleanupDelete, CleanupRemove
<1> QED
  BY <1>2, <1>3, <1>4, <1>5 DEF GitStep

\* An operation touches the resources of its own writer only.
LEMMA GitApart ==
    ASSUME WriterInv, NEW w \in Writers, GitStep(w), NEW v \in Writers, v # w PROVE res'[v] = res[v]
<1>1. res \in [Writers -> Resources]
  BY DEF WriterInv, Typed
<1>2. res' = res \/ \E r : res' = [res EXCEPT ![w] = r]
  <2>1. CASE BindVerify(w) \/ SealRecheck(w) \/ SealVerify(w) \/ IntegrateLease(w) \/ IntegrateCas(w) \/ IntegrateLock(w)
             \/ IntegrateCheck(w) \/ IntegrateApply(w) \/ IntegrateValidate(w) \/ IntegrateObserve(w) \/ CleanupLock(w)
             \/ CleanupRelease(w)
    BY <2>1 DEF BindVerify, SealRecheck, SealVerify, Read, IntegrateLease, IntegrateCas, IntegrateLock, IntegrateCheck,
       IntegrateApply, IntegrateValidate, IntegrateObserve, CleanupLock, CleanupRelease
  <2>2. CASE BindAdd(w) \/ SealPublish(w) \/ CleanupSurvey(w) \/ CleanupTomb(w) \/ CleanupGuard(w) \/ CleanupPin(w)
    BY <2>2 DEF BindAdd, SealPublish, CleanupSurvey, CleanupTomb, CleanupGuard, CleanupPin, Retain
  <2>3. CASE CleanupCheck(w) \/ CleanupDelete(w) \/ CleanupVerify(w) \/ CleanupRemove(w) \/ CleanupGone(w)
             \/ CleanupForget(w) \/ CleanupLast(w)
    BY <2>3 DEF CleanupCheck, CleanupDelete, CleanupVerify, CleanupRemove, CleanupGone, CleanupForget, CleanupLast, Retain
  <2> QED
    BY <2>1, <2>2, <2>3 DEF GitStep
<1> QED
  BY <1>1, <1>2

\* A child, a crash and the others spare the branch and the worktree of v.
LEMMA OthersSpare ==
    ASSUME WriterInv, NEW v \in Writers, UserStep \/ \E w \in Writers : ChildWrites(w) \/ Crash(w) PROVE Spares(v)
<1>1. res \in [Writers -> Resources]
  BY DEF WriterInv, Typed
<1>2. \/ res' = res
      \/ \E w \in Writers :
            \/ \E x : res' = [res EXCEPT ![w] = [res[w] EXCEPT !.work = x]]
            \/ \E x : res' = [res EXCEPT ![w] = [res[w] EXCEPT !.foreign = x]]
            \/ res' = [res EXCEPT ![w] = [res[w] EXCEPT !.path = FALSE, !.work = "clean"]]
            \/ res' = [res EXCEPT ![w] = [res[w] EXCEPT !.lock = "foreign"]]
  <2>1. CASE UserEdit \/ UserUndo \/ UserCommit \/ UserSwitch \/ UserLock
    BY <2>1 DEF UserEdit, UserUndo, UserCommit, UserSwitch, UserLock
  <2>2. ASSUME NEW w \in Writers, ForeignBegin(w) \/ ForeignFinish(w)
        PROVE  \E x : res' = [res EXCEPT ![w] = [res[w] EXCEPT !.foreign = x]]
    BY <2>2 DEF ForeignBegin, ForeignFinish
  <2>3. ASSUME NEW w \in Writers, Disturb(w) \/ ChildWrites(w) \/ Crash(w)
        PROVE  \/ res' = res
               \/ \E x : res' = [res EXCEPT ![w] = [res[w] EXCEPT !.work = x]]
               \/ res' = [res EXCEPT ![w] = [res[w] EXCEPT !.path = FALSE, !.work = "clean"]]
               \/ res' = [res EXCEPT ![w] = [res[w] EXCEPT !.lock = "foreign"]]
    BY <2>3 DEF Disturb, ChildWrites, Crash, GitCrash
  <2> QED
    BY <2>1, <2>2, <2>3 DEF UserStep
<1>3. ASSUME NEW w \in Writers, NEW r, res' = [res EXCEPT ![w] = r], r.branch = res[w].branch, res[w].reg => r.reg
      PROVE  Spares(v)
  BY <1>1, <1>3, ReplacedSpares
<1>4. \A w \in Writers : res[w] \in Resources
  BY <1>1
<1>5. CASE res' = res
  BY <1>5 DEF Spares
<1>6. ASSUME NEW w \in Writers, NEW x,
             NEW r \in {[res[w] EXCEPT !.work = x], [res[w] EXCEPT !.foreign = x], [res[w] EXCEPT !.lock = x],
                        [res[w] EXCEPT !.path = FALSE, !.work = "clean"]},
             res' = [res EXCEPT ![w] = r]
      PROVE  Spares(v)
  <2>1. r.branch = res[w].branch /\ (res[w].reg => r.reg)
    BY <1>4 DEF Resources
  <2> QED
    BY <1>3, <1>6, <2>1
<1>7. CASE \E w \in Writers : \E x : res' = [res EXCEPT ![w] = [res[w] EXCEPT !.work = x]]
  BY <1>6, <1>7
<1>8. CASE \E w \in Writers : \E x : res' = [res EXCEPT ![w] = [res[w] EXCEPT !.foreign = x]]
  BY <1>6, <1>8
<1>9. CASE \E w \in Writers : res' = [res EXCEPT ![w] = [res[w] EXCEPT !.path = FALSE, !.work = "clean"]]
  BY <1>6, <1>9
<1>10. CASE \E w \in Writers : res' = [res EXCEPT ![w] = [res[w] EXCEPT !.lock = "foreign"]]
  BY <1>6, <1>10
<1> QED
  BY <1>2, <1>5, <1>7, <1>8, <1>9, <1>10

\* A branch or a worktree is taken away only under a durable plan that names
\* this commit, by a cleanup that is past its checks (agent.rs:3205,
\* workspace.rs:1240).
THEOREM PlannedBeforeRemoved == Spec => WriteAhead
<1> DEFINE Ahead == \A w \in Writers :
        (BranchPresent(w) /\ res'[w].branch = None) \/ (res[w].reg /\ ~res'[w].reg) =>
            /\ life[w].plan # None /\ life[w].plan.mode = "remove"
            /\ BranchPresent(w) => res[w].branch = life[w].plan.commit
<1>1. ASSUME WriterInv, [Next]_vars PROVE Ahead
  <2>1. SUFFICES ASSUME NEW w \in Writers, ~Spares(w)
                 PROVE  /\ life[w].plan # None /\ life[w].plan.mode = "remove"
                        /\ BranchPresent(w) => res[w].branch = life[w].plan.commit
    BY DEF Spares, BranchPresent
  <2>2. PICK v \in Writers : GitStep(v)
    <3>1. res' # res
      BY <2>1 DEF Spares
    <3> QED
      BY <1>1, <2>1, <3>1, Footprint, OthersSpare
  <2>3. v = w
    <3>1. SUFFICES ASSUME v # w PROVE FALSE
      OBVIOUS
    <3>2. res'[w] = res[w]
      BY <1>1, <2>2, <3>1, GitApart
    <3> QED
      BY <2>1, <3>2 DEF Spares
  <2>4. op[w].at \in {"clDelete", "clRemove"}
    BY <1>1, <2>1, <2>2, <2>3, GitSpares
  <2>5. /\ life[w].plan # None /\ life[w].plan.mode = "remove" /\ op[w].arg = life[w].plan.commit /\ Removing(w)
    BY <1>1, <2>4, InCleanup DEF Cleaning
  <2> QED
    BY <2>4, <2>5 DEF Removing, BranchPresent
<1>2. WriterInv /\ [Next]_vars => [Ahead]_vars
  BY <1>1
<1> HIDE DEF Ahead
<1>3. Spec => [][Ahead]_vars
  BY <1>2, WriterInvariant, PTL DEF Spec
<1> QED
  BY <1>3 DEF Ahead, WriteAhead

\* Nobody but the user changes the user's uncommitted files: neither the CAS,
\* read-tree nor a crash in it touches a root that was edited (workspace.rs:1544).
THEOREM UserFilesAreTheUsers == Spec => UserFilesKept
<1> DEFINE Kept == root.edited \in {"apart", "overlap"} /\ root'.edited # root.edited => acts' # acts
<1>1. ASSUME WriterInv, [Next]_vars PROVE Kept
  <2>1. SUFFICES ASSUME root.edited \in {"apart", "overlap"}, root'.edited # root.edited PROVE acts' # acts
    OBVIOUS
  <2>2. root \in Roots /\ acts \in Nat /\ root' # root
    BY <1>1, <2>1 DEF WriterInv, Typed
  <2>3. ASSUME NEW w \in Writers, GitStep(w) PROVE root'.edited = root.edited
    <3>1. CASE IntegrateCas(w) \/ IntegrateApply(w)
      BY <2>2, <3>1 DEF IntegrateCas, IntegrateApply, Roots
    <3>2. CASE BindAdd(w) \/ BindVerify(w) \/ SealRecheck(w) \/ SealPublish(w) \/ SealVerify(w) \/ IntegrateLease(w)
               \/ IntegrateLock(w) \/ IntegrateCheck(w) \/ IntegrateValidate(w) \/ IntegrateObserve(w)
      BY <3>2 DEF BindAdd, BindVerify, SealRecheck, SealPublish, SealVerify, Read, IntegrateLease, IntegrateLock,
         IntegrateCheck, IntegrateValidate, IntegrateObserve
    <3>3. CASE CleanupLock(w) \/ CleanupSurvey(w) \/ CleanupTomb(w) \/ CleanupGuard(w) \/ CleanupPin(w) \/ CleanupCheck(w)
               \/ CleanupDelete(w)
      BY <3>3 DEF CleanupLock, CleanupSurvey, CleanupTomb, CleanupGuard, CleanupPin, CleanupCheck, CleanupDelete
    <3>4. CASE CleanupVerify(w) \/ CleanupRemove(w) \/ CleanupGone(w) \/ CleanupRelease(w) \/ CleanupForget(w)
               \/ CleanupLast(w)
      BY <3>4 DEF CleanupVerify, CleanupRemove, CleanupGone, CleanupRelease, CleanupForget, CleanupLast
    <3> QED
      BY <2>3, <3>1, <3>2, <3>3, <3>4 DEF GitStep
  <2>4. ASSUME NEW w \in Writers, ChildWrites(w) \/ Crash(w) PROVE root' = root
    BY <2>1, <2>4 DEF ChildWrites, Crash, GitCrash
  <2>5. CASE UserStep
    <3>1. acts' = acts + 1 \/ root' = root
      BY <2>5 DEF UserStep, UserEdit, UserUndo, UserCommit, UserSwitch, UserLock, ForeignBegin, ForeignFinish, Disturb, May
    <3> QED
      BY <2>2, <3>1
  <2> QED
    BY <1>1, <2>1, <2>2, <2>3, <2>4, <2>5, Footprint
<1>2. WriterInv /\ [Next]_vars => [Kept]_vars
  BY <1>1
<1> HIDE DEF Kept
<1>3. Spec => [][Kept]_vars
  BY <1>2, WriterInvariant, PTL DEF Spec
<1> QED
  BY <1>3 DEF Kept, UserFilesKept

-----------------------------------------------------------------------------
(* The promise *)

\* No parent is told anything.
Silent == \A v \in Writers : life'[v].result = life[v].result /\ life'[v].integ = life[v].integ

LEMMA SilentTurn ==
    ASSUME WriterInv, NEW w \in Writers, NEW l, life' = [life EXCEPT ![w] = l] \/ life' = life,
           l.result = life[w].result, l.integ = life[w].integ
    PROVE  Silent
  BY DEF WriterInv, Typed, LifeTyped, Silent

\* The steps of the runtime that tell nothing.
LEMMA QuietSteps ==
    ASSUME WriterInv, NEW w \in Writers,
           \/ Prepare(w) \/ Create(w) \/ Start(w) \/ ChildWrites(w) \/ ChildEnds(w) \/ PrepareSeal(w) \/ CommitSeal(w)
           \/ FinishChild(w) \/ RootEnds(w) \/ StopRoot(w)
    PROVE  Silent
<1>1. PICK x : \/ life' = life
               \/ \E l \in {[life[w] EXCEPT !.stage = x], [life[w] EXCEPT !.child = x], [life[w] EXCEPT !.seal = x],
                            [life[w] EXCEPT !.control = x], [life[w] EXCEPT !.finished = x]} :
                     life' = [life EXCEPT ![w] = l]
  <2>1. CASE Prepare(w) \/ Create(w) \/ Start(w)
    BY <2>1 DEF Prepare, Create, Start, Publish
  <2>2. CASE PrepareSeal(w) \/ CommitSeal(w)
    BY <2>2 DEF PrepareSeal, CommitSeal, Publish, BoundFailure
  <2>3. CASE ChildWrites(w) \/ ChildEnds(w) \/ FinishChild(w)
    BY <2>3 DEF ChildWrites, ChildEnds, FinishChild
  <2>4. CASE RootEnds(w) \/ StopRoot(w)
    BY <2>4 DEF RootEnds, StopRoot
  <2> QED
    BY <2>1, <2>2, <2>3, <2>4
<1>2. CASE life' = life
  BY <1>2 DEF Silent
<1>3. ASSUME NEW l \in {[life[w] EXCEPT !.stage = x], [life[w] EXCEPT !.child = x], [life[w] EXCEPT !.seal = x],
                        [life[w] EXCEPT !.control = x], [life[w] EXCEPT !.finished = x]},
             life' = [life EXCEPT ![w] = l]
      PROVE  Silent
  <2>1. Alive(life[w])
    BY AtWork
  <2>2. l.result = life[w].result /\ l.integ = life[w].integ
    BY <2>1 DEF Alive
  <2> QED
    BY <1>3, <2>2, SilentTurn
<1> QED
  BY <1>1, <1>2, <1>3

LEMMA QuietRuntime ==
    ASSUME WriterInv, NEW w \in Writers, RuntimeStep(w),
           ~CollectResult(w), ~PrepareIntegration(w), ~StartIntegration(w), ~SettleIntegration(w), ~CollectFailure(w)
    PROVE  Silent
<1>1. Alive(life[w])
  BY AtWork
<1>2. CASE Bind(w) \/ Bound(w) \/ Join(w) \/ Collect(w) \/ Seal(w) \/ Integrate(w) \/ Clean(w) \/ Finalize(w)
           \/ UNCHANGED lifeVars
  <2>1. life' = life
    BY <1>2 DEF Bind, Bound, Join, Collect, Seal, Integrate, Clean, Finalize, Advance, BoundFailure, lifeVars
  <2> QED
    BY <2>1 DEF Silent
<1>3. CASE Launch(w)
  <2> DEFINE l == [life[w] EXCEPT !.tool = "inflight", !.rev = Revision]
  <2>1. l.result = life[w].result /\ l.integ = life[w].integ
    BY <1>1 DEF Alive
  <2>2. life' = [life EXCEPT ![w] = l]
    BY <1>3 DEF Launch
  <2> HIDE DEF l
  <2> QED
    BY <2>1, <2>2, SilentTurn
<1>4. CASE AnswerTool(w)
  <2> DEFINE l == [life[w] EXCEPT !.tool = "done", !.outcome = Effect(w)]
  <2>1. l.result = life[w].result /\ l.integ = life[w].integ
    BY <1>1 DEF Alive
  <2>2. life' = [life EXCEPT ![w] = l] \/ life' = life
    BY <1>4 DEF AnswerTool
  <2> HIDE DEF l
  <2> QED
    BY <2>1, <2>2, SilentTurn
<1>5. CASE PlanCleanup(w) \/ CommitCleanup(w) \/ PublishTerminal(w)
  <2>1. PICK x : \/ life' = life
                 \/ \E l \in {[life[w] EXCEPT !.plan = x], [life[w] EXCEPT !.cleanup = x], [life[w] EXCEPT !.terminal = x]} :
                       life' = [life EXCEPT ![w] = l]
    BY <1>5 DEF PlanCleanup, CommitCleanup, PublishTerminal, Publish
  <2>2. CASE life' = life
    BY <2>2 DEF Silent
  <2>3. ASSUME NEW l \in {[life[w] EXCEPT !.plan = x], [life[w] EXCEPT !.cleanup = x], [life[w] EXCEPT !.terminal = x]},
               life' = [life EXCEPT ![w] = l]
        PROVE  Silent
    <3>1. l.result = life[w].result /\ l.integ = life[w].integ
      BY <1>1 DEF Alive
    <3> QED
      BY <2>3, <3>1, SilentTurn
  <2> QED
    BY <2>1, <2>2, <2>3
<1> QED
  BY <1>2, <1>3, <1>4, <1>5, QuietSteps DEF RuntimeStep

\* Verdicts as the promise sees them.
LEMMA SameVerdicts == ASSUME Silent PROVE UNCHANGED [v \in Writers |-> Verdict(v)]
<1>1. \A v \in Writers : Verdict(v)' = Verdict(v)
  BY DEF Silent, Verdict
<1> QED
  BY <1>1

\* One writer's lifecycle changes, and its parent is still told nothing.
LEMMA OpenTurn ==
    ASSUME WriterInv, NEW w \in Writers, NEW l, Alive(l), life' = [life EXCEPT ![w] = l] \/ life' = life,
           l.result \notin {"failed", "lost"}, l.integ \notin {"committed", "conflict", "recovery"}, Verdict(w) = "open"
    PROVE  UNCHANGED [v \in Writers |-> Verdict(v)]
<1>1. CASE life' = life
  BY <1>1, SameVerdicts DEF Silent
<1>2. CASE life' = [life EXCEPT ![w] = l]
  <2>1. life'[w] = l /\ \A v \in Writers : v # w => life'[v] = life[v]
    BY <1>2, LifeTurns DEF WriterInv, Typed
  <2>2. Verdict(w)' = "open" /\ \A v \in Writers : v # w => Verdict(v)' = Verdict(v)
    BY <2>1 DEF Verdict
  <2> QED
    BY <2>2
<1> QED
  BY <1>1, <1>2

\* A writer's parent is told its verdict.
LEMMA VerdictTurn ==
    ASSUME WriterInv, NEW w \in Writers, NEW l, Alive(l), life' = [life EXCEPT ![w] = l], Verdict(w) = "open",
           UNCHANGED root, NEW x \in {"integrated", "dropped", "conflict", "unknown"},
           life'[w] = l => Verdict(w)' = x,
           x = "integrated" => Present(w), x = "dropped" => ~Present(w)
    PROVE  Promise!Report(w, x)
<1>1. life'[w] = l /\ \A v \in Writers : v # w => life'[v] = life[v]
  BY LifeTurns DEF WriterInv, Typed
<1>2. Verdict(w)' = x /\ \A v \in Writers : v # w => Verdict(v)' = Verdict(v)
  BY <1>1 DEF Verdict
<1>3. [v \in Writers |-> Verdict(v)]' = [[v \in Writers |-> Verdict(v)] EXCEPT ![w] = x]
  BY <1>2
<1>4. [v \in Writers |-> Verdict(v)][w] = "open"
  OBVIOUS
<1> QED
  BY <1>3, <1>4 DEF Promise!Report, Present, ToSet, Promise!ToSet

\* Only the CAS of an integration moves the branch, and it adds the writer's
\* commit to the base it was made on.
LEMMA GitDelivers ==
    ASSUME WriterInv, NEW w \in Writers, GitStep(w), UNCHANGED lifeVars
    PROVE  Promise!Deliver(w) \/ UNCHANGED Promise!promiseVars
<1>1. root \in Roots
  BY DEF WriterInv, Typed
<1>2. UNCHANGED [v \in Writers |-> Verdict(v)]
  BY SameVerdicts DEF Silent, lifeVars
<1>3. CASE IntegrateCas(w) /\ root' # root
  <2>1. root'.main = Append(root.main, w) /\ root.main = base[w]
    BY <1>1, <1>3 DEF IntegrateCas, Final, Roots
  <2>2. pc[w] = "settle" /\ Ordered(w) /\ Adding(w)
    BY <1>3 DEF IntegrateCas, WriterInv, Local, Attends, Integrating
  <2>3. life[w].integ = "started" /\ life[w].result = "completed" /\ base[w] # None
    BY <2>2 DEF Ordered
  <2>4. w \notin ToSet(root.main) /\ [v \in Writers |-> Verdict(v)][w] = "open"
    BY <2>1, <2>2, <2>3 DEF Adding, Verdict
  <2> QED
    BY <1>2, <2>1, <2>4 DEF Promise!Deliver, ToSet, Promise!ToSet
<1>4. CASE IntegrateApply(w)
  BY <1>1, <1>2, <1>4 DEF IntegrateApply, Roots, Promise!promiseVars
<1>5. CASE root' = root
  BY <1>2, <1>5 DEF Promise!promiseVars
<1>6. CASE BindAdd(w) \/ BindVerify(w) \/ SealRecheck(w) \/ SealPublish(w) \/ SealVerify(w) \/ IntegrateLease(w)
           \/ IntegrateLock(w) \/ IntegrateCheck(w) \/ IntegrateValidate(w) \/ IntegrateObserve(w)
  <2>1. root' = root
    BY <1>6 DEF BindAdd, BindVerify, SealRecheck, SealPublish, SealVerify, Read, IntegrateLease, IntegrateLock,
       IntegrateCheck, IntegrateValidate, IntegrateObserve
  <2> QED
    BY <1>5, <2>1
<1>7. CASE CleanupLock(w) \/ CleanupSurvey(w) \/ CleanupTomb(w) \/ CleanupGuard(w) \/ CleanupPin(w) \/ CleanupCheck(w)
           \/ CleanupDelete(w)
  <2>1. root' = root
    BY <1>7 DEF CleanupLock, CleanupSurvey, CleanupTomb, CleanupGuard, CleanupPin, CleanupCheck, CleanupDelete
  <2> QED
    BY <1>5, <2>1
<1>8. CASE CleanupVerify(w) \/ CleanupRemove(w) \/ CleanupGone(w) \/ CleanupRelease(w) \/ CleanupForget(w)
           \/ CleanupLast(w)
  <2>1. root' = root
    BY <1>8 DEF CleanupVerify, CleanupRemove, CleanupGone, CleanupRelease, CleanupForget, CleanupLast
  <2> QED
    BY <1>5, <2>1
<1> QED
  BY <1>3, <1>4, <1>5, <1>6, <1>7, <1>8 DEF GitStep

\* What the parent of w is told when its result, or its integration, settles.
LEMMA RuntimeReports ==
    ASSUME WriterInv, NEW w \in Writers, UNCHANGED root,
           CollectResult(w) \/ PrepareIntegration(w) \/ StartIntegration(w) \/ SettleIntegration(w) \/ CollectFailure(w)
    PROVE  \/ \E x \in Promise!Verdicts \ {"open"} : Promise!Report(w, x)
           \/ UNCHANGED Promise!promiseVars
<1>1. Alive(life[w]) /\ Ordered(w) /\ Adding(w) /\ Attends(w) /\ life[w].terminal = "none"
  <2>1. pc[w] # "done"
    BY DEF CollectResult, PrepareIntegration, StartIntegration, SettleIntegration, CollectFailure
  <2> QED
    BY <2>1 DEF WriterInv, Typed, LifeTyped, Local, Ordered
<1>2. CASE CollectResult(w) \/ PrepareIntegration(w) \/ StartIntegration(w)
  <2>1. /\ life[w].integ \notin {"committed", "conflict", "recovery"}
        /\ life[w].result \notin {"failed", "lost"}
        /\ pc[w] = "begin" => life[w].result = "completed"
    BY <1>1, <1>2 DEF CollectResult, PrepareIntegration, StartIntegration, Ordered, Early
  <2>2. Verdict(w) = "open"
    BY <2>1 DEF Verdict
  <2>3. PICK l \in {[life[w] EXCEPT !.result = "completed"], [life[w] EXCEPT !.integ = "prepared"],
                    [life[w] EXCEPT !.integ = "started"]} :
           life' = [life EXCEPT ![w] = l] \/ life' = life
    BY <1>2 DEF CollectResult, PrepareIntegration, StartIntegration, Publish
  <2>4. Alive(l)
    <3>1. CASE l = [life[w] EXCEPT !.result = "completed"]
      BY <1>1, <3>1, Changed
    <3>2. ASSUME NEW x, l = [life[w] EXCEPT !.integ = x] PROVE Alive(l)
      BY <1>1, <3>2, Changed
    <3> QED
      BY <2>3, <3>1, <3>2
  <2>5. l.result \notin {"failed", "lost"} /\ l.integ \notin {"committed", "conflict", "recovery"}
    BY <1>1, <2>1 DEF Alive
  <2>6. UNCHANGED [v \in Writers |-> Verdict(v)]
    BY <2>2, <2>3, <2>4, <2>5, OpenTurn
  <2> QED
    BY <2>6 DEF Promise!promiseVars
<1>3. CASE CollectFailure(w)
  <2>1. life[w].result = "none" /\ life[w].integ = "none"
    BY <1>1, <1>3 DEF CollectFailure, Ordered, Early
  <2>2. Verdict(w) = "open" /\ ~Present(w)
    BY <1>1, <2>1 DEF Verdict, Adding
  <2> DEFINE end == IF life[w].child = "lost" THEN "lost" ELSE "failed"
             l == [life[w] EXCEPT !.result = end]
  <2>3. Alive(l) /\ l.result \in {"failed", "lost"} /\ l.integ = "none"
    <3>1. l.result \in {"failed", "lost"} /\ l.integ = "none"
      BY <1>1, <2>1 DEF Alive
    <3> QED
      BY <1>1, <3>1, Changed
  <2>4. life' = [life EXCEPT ![w] = l] \/ life' = life
    BY <1>3 DEF CollectFailure, Publish
  <2> HIDE DEF l, end
  <2>5. CASE life' = life
    BY <2>5, SameVerdicts DEF Silent, Promise!promiseVars
  <2>6. CASE life' = [life EXCEPT ![w] = l]
    <3>1. life'[w] = l => Verdict(w)' = "dropped"
      BY <2>3 DEF Verdict
    <3>2. Promise!Report(w, "dropped")
      BY <2>2, <2>3, <2>6, <3>1, VerdictTurn
    <3> QED
      BY <3>2 DEF Promise!Verdicts
  <2> QED
    BY <2>4, <2>5, <2>6
<1>4. CASE SettleIntegration(w)
  <2>1. /\ pc[w] = "settle" /\ op[w].at = "idle" /\ op[w].ret \in {"ok", "conflict", "recovery"}
        /\ life[w].integ = "started" /\ life[w].result = "completed"
    BY <1>1, <1>4 DEF SettleIntegration, Answered, Attends, Ordered
  <2>2. Verdict(w) = "open" /\ (op[w].ret = "ok" => Present(w))
    BY <1>1, <2>1 DEF Verdict, Adding, Told
  <2>3. \A e \in {"AgentIntegrationCommitted", "AgentIntegrationFailed"} :
          AcceptsIntegration(life[w]) /\ Open(life[w], e)
    BY <1>1, <2>1 DEF AcceptsIntegration, Open, Settlements
  <2>4. CASE op[w].ret = "ok"
    <3> DEFINE l == [life[w] EXCEPT !.integ = "committed", !.delivered = op[w].rev]
    <3>1. Alive(l)
      BY <1>1, ChangedTwo
    <3>2. l.integ = "committed"
      BY <1>1 DEF Alive
    <3>3. life' = [life EXCEPT ![w] = l]
      BY <1>4, <2>3, <2>4 DEF SettleIntegration, Publish
    <3> HIDE DEF l
    <3>4. life'[w] = l => Verdict(w)' = "integrated"
      BY <3>2 DEF Verdict
    <3>5. Promise!Report(w, "integrated")
      BY <2>2, <2>4, <3>1, <3>3, <3>4, VerdictTurn
    <3> QED
      BY <3>5 DEF Promise!Verdicts
  <2>5. CASE op[w].ret # "ok"
    <3> DEFINE l == [life[w] EXCEPT !.integ = op[w].ret]
               x == IF op[w].ret = "conflict" THEN "conflict" ELSE "unknown"
    <3>1. Alive(l)
      BY <1>1, Changed
    <3>2. l.integ = op[w].ret /\ l.result = "completed"
      BY <1>1, <2>1 DEF Alive
    <3>3. life' = [life EXCEPT ![w] = l]
      BY <1>4, <2>3, <2>5 DEF SettleIntegration, Publish
    <3>4. x \in {"conflict", "unknown"} /\ (x = "conflict") = (op[w].ret = "conflict")
      OBVIOUS
    <3> HIDE DEF l, x
    <3>5. life'[w] = l => Verdict(w)' = x
      BY <2>1, <2>5, <3>2, <3>4 DEF Verdict
    <3>6. Promise!Report(w, x)
      BY <2>2, <3>1, <3>3, <3>4, <3>5, VerdictTurn
    <3> QED
      BY <3>4, <3>6 DEF Promise!Verdicts
  <2> QED
    BY <2>4, <2>5
<1> QED
  BY <1>2, <1>3, <1>4

\* The others add commits of their own, and take none off the branch.
LEMMA OthersPromise ==
    ASSUME WriterInv, UserStep, UNCHANGED lifeVars
    PROVE  Promise!UserCommits \/ UNCHANGED Promise!promiseVars
<1>1. root \in Roots
  BY DEF WriterInv, Typed
<1>2. UNCHANGED [v \in Writers |-> Verdict(v)]
  BY SameVerdicts DEF Silent, lifeVars
<1>3. CASE UserCommit
  <2>1. root'.main = Append(root.main, "user")
    BY <1>1, <1>3 DEF UserCommit, Roots
  <2> QED
    BY <1>2, <2>1 DEF Promise!UserCommits
<1>4. CASE UserEdit \/ UserUndo \/ UserSwitch
  <2>1. root'.main = root.main
    BY <1>1, <1>4 DEF UserEdit, UserUndo, UserSwitch, Roots
  <2> QED
    BY <1>2, <2>1 DEF Promise!promiseVars
<1>5. CASE UserLock \/ \E w \in Writers : ForeignBegin(w) \/ ForeignFinish(w) \/ Disturb(w)
  <2>1. root' = root
    BY <1>5 DEF UserLock, ForeignBegin, ForeignFinish, Disturb
  <2> QED
    BY <1>2, <2>1 DEF Promise!promiseVars
<1> QED
  BY <1>3, <1>4, <1>5 DEF UserStep

\* The writers keep the promise of WriterPromise: the CAS of an integration adds
\* a commit while the verdict is open and at most once, the settlement of an
\* integration and of a failure is the verdict, and every other step of the
\* runtime, of Git, of a crash or of a resume is none of its business
\* (agent.rs:2870, workspace.rs:1544).
THEOREM WritersImplementPromise == Spec => ImplementsPromise
<1>1. Init => Promise!PromiseInit
  <2>1. SUFFICES ASSUME Init PROVE Promise!PromiseInit
    OBVIOUS
  <2>2. root.main = <<>> /\ \A w \in Writers : life[w].integ = "none" /\ life[w].result = "none"
    BY <2>1 DEF Init, GitInit, NewLife
  <2>3. \A w \in Writers : Verdict(w) = "open"
    BY <2>2 DEF Verdict
  <2> QED
    BY <2>2, <2>3 DEF Promise!PromiseInit
<1>2. WriterInv /\ [Next]_vars => [Promise!PromiseNext]_(Promise!promiseVars)
  <2> SUFFICES ASSUME WriterInv, [Next]_vars
               PROVE  Promise!PromiseNext \/ UNCHANGED Promise!promiseVars
    OBVIOUS
  <2>1. ASSUME UNCHANGED root.main, Silent PROVE UNCHANGED Promise!promiseVars
    BY <2>1, SameVerdicts DEF Promise!promiseVars
  <2>2. ASSUME NEW w \in Writers, RuntimeStep(w) PROVE Promise!PromiseNext \/ UNCHANGED Promise!promiseVars
    <3>1. CASE GitStep(w) /\ UNCHANGED lifeVars
      BY <3>1, GitDelivers DEF Promise!PromiseNext
    <3>2. CASE ~(GitStep(w) /\ UNCHANGED lifeVars)
      <4>1. UNCHANGED root
        BY <2>2, <3>2, RuntimeFootprint
      <4>2. CASE CollectResult(w) \/ PrepareIntegration(w) \/ StartIntegration(w) \/ SettleIntegration(w) \/ CollectFailure(w)
        BY <4>1, <4>2, RuntimeReports DEF Promise!PromiseNext
      <4> QED
        BY <2>1, <2>2, <4>1, <4>2, QuietRuntime
    <3> QED
      BY <3>1, <3>2
  <2>3. ASSUME NEW w \in Writers, Resume(w) \/ StopRoot(w) PROVE UNCHANGED Promise!promiseVars
    <3>1. UNCHANGED root
      BY <2>3 DEF Resume, StopRoot, gitVars
    <3>2. Silent
      BY <2>3, QuietSteps DEF Resume, Silent
    <3> QED
      BY <2>1, <3>1, <3>2
  <2>4. ASSUME NEW w \in Writers, Crash(w) PROVE UNCHANGED Promise!promiseVars
    <3>1. root'.main = root.main
      BY <2>4 DEF Crash, GitCrash, WriterInv, Typed, Roots
    <3>2. Silent
      BY <2>4 DEF Crash, Silent
    <3> QED
      BY <2>1, <3>1, <3>2
  <2>5. CASE UserStep /\ UNCHANGED lifeVars
    BY <2>5, OthersPromise DEF Promise!PromiseNext
  <2>6. CASE UNCHANGED vars
    <3>1. UNCHANGED root /\ Silent
      BY <2>6 DEF vars, gitVars, lifeVars, Silent
    <3> QED
      BY <2>1, <3>1
  <2> QED
    BY <2>2, <2>3, <2>4, <2>5, <2>6 DEF Next
<1> QED
  BY <1>1, <1>2, WriterInvariant, PTL DEF Spec, ImplementsPromise, Promise!PromiseSpec

=============================================================================
