------------------------ MODULE BrowserSessionProofs ------------------------
(***************************************************************************)
(* The safety properties of BrowserSession, for every number of callers,   *)
(* Chromes, pages, operations and faults.                                  *)
(***************************************************************************)
EXTENDS BrowserSession, FiniteSetTheorems, TLAPS

-----------------------------------------------------------------------------
(* Types *)

\* Where an operation owns a Chrome.
Owning == InSelect \cup {"retire", "load", "close"}

PCs == Owning \cup {"idle", "boot"}

Operation ==
    [pc : PCs, kind : AllKinds \cup {None}, id : Nat, ref : Nat, seen : Contents \cup {None},
     told : Told \cup {None}, touched : BOOLEAN, posted : Nat, cut : InSelect \cup {"tab", "lost", None}]

Observation == [of : Nat, run : Callers, page : Pages, print : Contents \cup {None}]

Spent == [browsers : Nat, ops : Nat, changes : Nat, posts : Nat, faults : Nat]

Typed ==
    /\ sess \in [Ids -> Session \cup {None}]
    /\ slot \in Ids \cup {0}
    /\ op \in [Callers -> Operation]
    /\ lock \in Ids \cup {None, Other}
    /\ dying \subseteq Ids /\ hung \subseteq Ids
    /\ born \in Seq(Observation)
    /\ spent \in Spent /\ spent.posts <= MaxPosts /\ spent.browsers <= MaxBrowsers

-----------------------------------------------------------------------------
(* The inductive invariant *)

\* One operation at a time: begin_operation's guard, and the session taken out of
\* the harness while it goes on.
Alone ==
    \A c \in Callers : ~at(c, "idle") => slot = 0 /\ \A d \in Callers : ~at(d, "idle") => d = c

\* Every Chrome that lives has an owner, every owner a Chrome of its own, and no
\* Chrome is older than the count of those started.
Owned ==
    /\ \A c \in Callers :
          IF op[c].pc \in Owning THEN op[c].id \in Ids \ dying /\ sess[op[c].id] # None
          ELSE op[c].id = 0
    /\ slot # 0 => slot \notin dying /\ sess[slot] # None
    /\ \A b \in dying : sess[b] # None
    /\ \A b \in Ids : sess[b] # None => b = slot \/ b \in dying \/ \E c \in Callers : op[c].id = b
    /\ \A b \in Ids : b > spent.browsers => sess[b] = None
    /\ \A c \in Callers : op[c].pc \in {"retire", "boot"} => spent.browsers < MaxBrowsers
    /\ \A b \in Ids : lock = b <=> sess[b] # None /\ sess[b].managed

\* No action is in progress on the session.
Quiet(s) == ~s.started /\ ~s.grant /\ ~s.taking

\* An operation and the session it holds, by how far the operation has come.
Fits(o, s) ==
    /\ o.posted <= 1 /\ (o.posted = 1 => o.kind \in External)
    /\ o.pc \in {"load", "observe", "aim", "tail"} => Quiet(s)
    /\ o.pc \in {"retire", "boot", "load", "observe", "aim", "type"} => o.posted = 0 /\ ~o.touched
    /\ o.pc \in {"release", "settle", "tail"} => o.touched
    /\ o.pc = "aim" => o.kind \in Pointing
    /\ o.pc = "type" => o.kind \in {"login", "upload"} /\ s.started /\ ~s.grant /\ ~s.taking
    /\ o.pc \in {"act", "release"} => s.started /\ o.kind \notin {"tab_switch", "tab_close"}
    /\ o.pc = "settle" => IF o.kind \in {"tab_switch", "tab_close"} THEN Quiet(s) ELSE s.started
    /\ o.pc \in {"act", "release", "settle"} /\ s.grant => o.kind \in External /\ o.posted <= s.sent
    /\ o.pc = "close" => o.told \in {"Applied", "Indeterminate"} /\ (o.told = "Applied" => o.touched)
    /\ o.pc \in InSelect /\ o.kind = "download" /\ o.pc # "tail" => s.kept < MaxDownloads
    /\ o.pc = "act" /\ o.kind = "tab_open" => Cardinality(s.pages) < MaxPages

\* An operation that has ended has reported what it did.
Reported(o) ==
    /\ o.posted = 0
    /\ o.told \in {"NotApplied", "Observed"} /\ o.touched => o.cut \in {"tail", "tab", "lost"}
    /\ o.told = "Applied" => o.touched

Orderly ==
    /\ \A c \in Callers : IF at(c, "idle") THEN Reported(op[c]) ELSE Fits(op[c], Held(c))
    /\ slot # 0 => Quiet(sess[slot])

\* The references of session s of Chrome b are those of observations of its pages;
\* q: the observations so far.
Issued(q, b, s) ==
    /\ \A p \in Pages : s.ref[p] # 0 =>
          /\ s.ref[p] <= Len(q)
          /\ q[s.ref[p]] = [of |-> b, run |-> s.run, page |-> p, print |-> s.print[p]]
    /\ \A p \in Pages : s.ref[p] <= Len(q)
    /\ s.uploads \subseteq 0 .. Len(q)

\* Operation o of c acts through a reference issued for what it acts on.
Bound(q, c, o, s) ==
    o.pc \in {"aim", "type", "act", "release"} /\ o.kind \in RefKinds =>
        /\ o.ref \in 1 .. Len(q)
        /\ q[o.ref] = [of |-> o.id, run |-> c, page |-> s.active, print |-> o.seen]

\* The counters of session s, n POSTs after the start.
Limited(n, s) ==
    /\ s.active \in s.pages /\ Cardinality(s.pages) <= MaxPages
    /\ s.kept <= MaxDownloads /\ s.sent <= n /\ s.answers <= n

Observed ==
    /\ \A b \in Ids : sess[b] # None => Issued(born, b, sess[b]) /\ Limited(spent.posts, sess[b])
    /\ \A c \in Callers : Bound(born, c, op[c], Held(c))

BrowserInv == Typed /\ Alone /\ Owned /\ Orderly /\ Observed

-----------------------------------------------------------------------------
(* The kinds of steps *)

\* None is told from what the variables hold.
LEMMA NoneApart ==
    /\ \A s \in Session : s # None
    /\ None \notin Told /\ None \notin Nat /\ Other \notin Nat
    /\ \A b \in Ids : b # None /\ b # Other
  BY BrowserAssumption DEF Ids

\* A caller that has not asked for anything.
LEMMA IdleReported == Idle \in Operation /\ Idle.pc = "idle" /\ Idle.id = 0 /\ Reported(Idle)
<1>1. Idle \in Operation
  BY DEF Idle, Operation, PCs
<1>2. Idle.pc = "idle" /\ Idle.id = 0 /\ Idle.posted = 0 /\ Idle.told = None /\ Idle.touched = FALSE
  BY DEF Idle
<1>3. "Applied" # None
  BY NoneApart DEF Told
<1>4. Reported(Idle)
  BY <1>2, <1>3 DEF Reported
<1> QED
  BY <1>1, <1>2, <1>4

\* What becomes of the observations and the bounds: more of both.
Later ==
    /\ born' = born \/ \E x \in Observation : born' = Append(born, x)
    /\ spent' \in Spent /\ spent.posts <= spent'.posts /\ spent'.posts <= MaxPosts

\* Observations are only added, so what was issued stays issued.
LEMMA StaysIssued ==
    ASSUME Typed, Later
    PROVE  /\ born' \in Seq(Observation)
           /\ \A b, s : s \in Session /\ Issued(born, b, s) => Issued(born', b, s)
           /\ \A c, o, s : Bound(born, c, o, s) => Bound(born', c, o, s)
           /\ \A s \in Session : Limited(spent.posts, s) => Limited(spent'.posts, s)
<1>1. born' \in Seq(Observation) /\ Len(born) <= Len(born') /\ \A i \in 1 .. Len(born) : born'[i] = born[i]
  <2>1. CASE born' = born
    BY <2>1 DEF Typed
  <2>2. ASSUME NEW x \in Observation, born' = Append(born, x)
        PROVE  born' \in Seq(Observation) /\ Len(born) <= Len(born') /\ \A i \in 1 .. Len(born) : born'[i] = born[i]
    BY <2>2 DEF Typed
  <2> QED
    BY <2>1, <2>2 DEF Later
<1>2. Len(born) \in Nat /\ Len(born') \in Nat
  BY <1>1 DEF Typed
<1>3. ASSUME NEW b, NEW s \in Session, Issued(born, b, s) PROVE Issued(born', b, s)
  <2>1. \A p \in Pages : s.ref[p] \in Nat
    BY DEF Session
  <2> QED
    BY <1>1, <1>2, <1>3, <2>1 DEF Issued
<1>4. ASSUME NEW c, NEW o, NEW s, Bound(born, c, o, s) PROVE Bound(born', c, o, s)
  BY <1>1, <1>2, <1>4 DEF Bound
<1>5. ASSUME NEW s \in Session, Limited(spent.posts, s) PROVE Limited(spent'.posts, s)
  BY <1>5 DEF Limited, Typed, Later, Session, Spent
<1> QED
  BY <1>1, <1>3, <1>4, <1>5

\* A step of an operation that goes on with its Chrome.
LEMMA HeldStep ==
    ASSUME BrowserInv, Later, NEW c \in Callers, op[c].pc \in Owning,
           NEW s \in Session, NEW o \in Operation,
           sess' = [sess EXCEPT ![op[c].id] = s], op' = [op EXCEPT ![c] = o],
           UNCHANGED <<slot, lock, dying, hung>>, spent'.browsers = spent.browsers,
           s.managed = Held(c).managed, o.id = op[c].id, o.pc \in Owning \ {"retire"},
           Fits(o, s), Bound(born', c, o, s), Issued(born', o.id, s), Limited(spent'.posts, s)
    PROVE  BrowserInv'
<1> DEFINE b == op[c].id
<1>1. /\ b \in Ids /\ b \notin dying /\ sess[b] # None /\ slot = 0
      /\ \A d \in Callers : d # c => at(d, "idle") /\ op[d].id = 0
  BY DEF BrowserInv, Owned, Alone, at, Owning, InSelect
<1>2. /\ sess'[b] = s /\ s # None /\ \A x \in Ids : x # b => sess'[x] = sess[x]
      /\ op'[c] = o /\ \A d \in Callers : d # c => op'[d] = op[d]
  BY <1>1, NoneApart DEF BrowserInv, Typed
<1>3. Typed'
  BY <1>1, StaysIssued DEF BrowserInv, Typed, Later
<1>4. Alone'
  BY <1>1, <1>2 DEF Alone, at
<1>5. Owned'
  <2>1. \A d \in Callers : IF op'[d].pc \in Owning THEN op'[d].id \in Ids \ dying' /\ sess'[op'[d].id] # None
                           ELSE op'[d].id = 0
    BY <1>1, <1>2 DEF at, Owning, InSelect
  <2>2. (\A x \in dying' : sess'[x] # None) /\ (slot' # 0 => slot' \notin dying' /\ sess'[slot'] # None)
    BY <1>1, <1>2 DEF BrowserInv, Owned, Typed
  <2>3. \A x \in Ids : sess'[x] # None => x = slot' \/ x \in dying' \/ \E d \in Callers : op'[d].id = x
    BY <1>1, <1>2 DEF BrowserInv, Owned
  <2>4. \A x \in Ids : x > spent'.browsers => sess'[x] = None
    BY <1>1, <1>2 DEF BrowserInv, Owned
  <2>5. \A d \in Callers : op'[d].pc \in {"retire", "boot"} => spent'.browsers < MaxBrowsers
    BY <1>1, <1>2 DEF at, Owning, InSelect
  <2>6. \A x \in Ids : lock' = x <=> sess'[x] # None /\ sess'[x].managed
    <3>1. lock' = lock /\ (lock = b <=> sess[b].managed) /\ (sess'[b].managed = sess[b].managed)
      BY <1>1, <1>2 DEF BrowserInv, Owned, Held
    <3>2. lock' = b <=> sess'[b] # None /\ sess'[b].managed
      BY <3>1, <1>2
    <3>3. \A x \in Ids : x # b => (lock' = x <=> sess'[x] # None /\ sess'[x].managed)
      BY <3>1, <1>2 DEF BrowserInv, Owned
    <3> QED
      BY <3>2, <3>3
  <2> QED
    BY <2>1, <2>2, <2>3, <2>4, <2>5, <2>6 DEF Owned
<1>6. Orderly'
  <2>1. o.pc # "idle"
    BY DEF Owning, InSelect
  <2> QED
    BY <1>1, <1>2, <2>1 DEF BrowserInv, Orderly, at, Held
<1>7. Observed'
  BY <1>1, <1>2, StaysIssued DEF BrowserInv, Observed, Held, Typed, Bound, at
<1> QED
  BY <1>3, <1>4, <1>5, <1>6, <1>7 DEF BrowserInv

\* A step that ends an operation and gives its Chrome back to the harness.
LEMMA PutBackStep ==
    ASSUME BrowserInv, Later, NEW c \in Callers, op[c].pc \in Owning,
           NEW s \in Session, NEW o \in Operation,
           sess' = [sess EXCEPT ![op[c].id] = s], op' = [op EXCEPT ![c] = o],
           slot' = op[c].id, UNCHANGED <<lock, dying, hung, spent>>,
           s.managed = Held(c).managed, o.id = 0, o.pc = "idle", Reported(o), Quiet(s),
           Issued(born', op[c].id, s), Limited(spent.posts, s)
    PROVE  BrowserInv'
<1> DEFINE b == op[c].id
<1>1. /\ b \in Ids /\ b \notin dying /\ sess[b] # None /\ slot = 0 /\ b # 0
      /\ \A d \in Callers : d # c => at(d, "idle") /\ op[d].id = 0
  BY DEF BrowserInv, Owned, Alone, at, Owning, InSelect, Ids
<1>2. /\ sess'[b] = s /\ s # None /\ \A x \in Ids : x # b => sess'[x] = sess[x]
      /\ op'[c] = o /\ \A d \in Callers : d # c => op'[d] = op[d]
  BY <1>1, NoneApart DEF BrowserInv, Typed
<1>3. Typed'
  BY <1>1, StaysIssued DEF BrowserInv, Typed, Later
<1>4. Alone'
  BY <1>1, <1>2 DEF Alone, at
<1>5. Owned'
  <2>1. \A d \in Callers : op'[d].pc = "idle" /\ op'[d].id = 0
    BY <1>1, <1>2 DEF at
  <2>2. (\A x \in dying' : sess'[x] # None) /\ (slot' # 0 => slot' \notin dying' /\ sess'[slot'] # None)
    BY <1>1, <1>2 DEF BrowserInv, Owned, Typed
  <2>3. \A x \in Ids : sess'[x] # None => x = slot' \/ x \in dying' \/ \E d \in Callers : op'[d].id = x
    <3>1. \A x \in Ids : x # b /\ sess[x] # None => x \in dying
      <4> SUFFICES ASSUME NEW x \in Ids, x # b, sess[x] # None PROVE x \in dying
        OBVIOUS
      <4>1. x # 0
        BY DEF Ids
      <4> QED
        BY <1>1, <4>1 DEF BrowserInv, Owned
    <3> QED
      BY <1>1, <1>2, <3>1
  <2>4. \A x \in Ids : x > spent'.browsers => sess'[x] = None
    BY <1>1, <1>2 DEF BrowserInv, Owned
  <2>6. \A x \in Ids : lock' = x <=> sess'[x] # None /\ sess'[x].managed
    <3>1. lock' = lock /\ (lock = b <=> sess[b].managed) /\ (sess'[b].managed = sess[b].managed)
      BY <1>1, <1>2 DEF BrowserInv, Owned, Held
    <3>2. lock' = b <=> sess'[b] # None /\ sess'[b].managed
      BY <3>1, <1>2
    <3>3. \A x \in Ids : x # b => (lock' = x <=> sess'[x] # None /\ sess'[x].managed)
      BY <3>1, <1>2 DEF BrowserInv, Owned
    <3> QED
      BY <3>2, <3>3
  <2> QED
    BY <2>1, <2>2, <2>3, <2>4, <2>6 DEF Owned, Owning, InSelect
<1>6. Orderly'
  BY <1>1, <1>2 DEF BrowserInv, Orderly, at, Held
<1>7. Observed'
  BY <1>1, <1>2, StaysIssued DEF BrowserInv, Observed, Held, Typed, Bound, at
<1> QED
  BY <1>3, <1>4, <1>5, <1>6, <1>7 DEF BrowserInv

\* A step that ends a Chrome; the operation ends too, or goes on to boot another.
LEMMA FreedStep ==
    ASSUME BrowserInv, NEW c \in Callers, op[c].pc \in Owning, NEW o \in Operation,
           Freed(op[c].id), op' = [op EXCEPT ![c] = o], UNCHANGED <<slot, dying, born, spent>>,
           o.id = 0,
           \/ o.pc = "idle" /\ Reported(o)
           \/ o.pc = "boot" /\ op[c].pc = "retire" /\ \A s : Fits(o, s)
    PROVE  BrowserInv'
<1> DEFINE b == op[c].id
<1>1. /\ b \in Ids /\ b \notin dying /\ sess[b] # None /\ slot = 0 /\ b # 0
      /\ \A d \in Callers : d # c => at(d, "idle") /\ op[d].id = 0
  BY DEF BrowserInv, Owned, Alone, at, Owning, InSelect, Ids
<1>2. /\ sess'[b] = None /\ \A x \in Ids : x # b => sess'[x] = sess[x]
      /\ op'[c] = o /\ \A d \in Callers : d # c => op'[d] = op[d]
      /\ sess' \in [Ids -> Session \cup {None}] /\ hung' \subseteq Ids
  BY <1>1 DEF BrowserInv, Typed, Freed
<1>3. Typed'
  BY <1>1, <1>2 DEF BrowserInv, Typed, Freed
<1>4. Alone'
  BY <1>1, <1>2 DEF Alone, at
<1>5. Owned'
  <2>1. \A d \in Callers : op'[d].id = 0 /\ op'[d].pc \in {"idle", "boot"}
                           /\ (op'[d].pc = "boot" => spent.browsers < MaxBrowsers)
    <3>1. op[c].pc = "retire" => spent.browsers < MaxBrowsers
      BY DEF BrowserInv, Owned
    <3> QED
      BY <1>1, <1>2, <3>1 DEF at
  <2>2. (\A x \in dying' : sess'[x] # None) /\ slot' = 0
    BY <1>1, <1>2 DEF BrowserInv, Owned, Typed
  <2>3. \A x \in Ids : sess'[x] # None => x \in dying'
    <3> SUFFICES ASSUME NEW x \in Ids, x # b, sess[x] # None PROVE x \in dying
      BY <1>2
    <3>1. x # 0
      BY DEF Ids
    <3> QED
      BY <1>1, <3>1 DEF BrowserInv, Owned
  <2>4. \A x \in Ids : x > spent'.browsers => sess'[x] = None
    BY <1>1, <1>2 DEF BrowserInv, Owned
  <2>6. \A x \in Ids : lock' = x <=> sess'[x] # None /\ sess'[x].managed
    <3>1. lock' = (IF lock = b THEN None ELSE lock) /\ b # None
      BY <1>1, NoneApart DEF Freed
    <3>2. ~(lock' = b)
      BY <3>1
    <3>3. \A x \in Ids : x # b => (lock' = x <=> lock = x)
      BY <3>1, NoneApart
    <3>4. \A x \in Ids : x # b => (lock' = x <=> sess'[x] # None /\ sess'[x].managed)
      BY <3>3, <1>2 DEF BrowserInv, Owned
    <3> QED
      BY <3>2, <3>4, <1>2
  <2>7. spent' = spent
    OBVIOUS
  <2> QED
    BY <2>1, <2>2, <2>3, <2>4, <2>6, <2>7 DEF Owned, Owning, InSelect
<1>6. Orderly'
  BY <1>1, <1>2 DEF BrowserInv, Orderly, at, Held
<1>7. Observed'
  BY <1>1, <1>2 DEF BrowserInv, Observed, Held, Typed, Bound, at
<1> QED
  BY <1>3, <1>4, <1>5, <1>6, <1>7 DEF BrowserInv

\* A step that takes the Chrome out of the harness for a new operation.
LEMMA TakeStep ==
    ASSUME BrowserInv, NEW c \in Callers, Free(c), slot # 0,
           NEW s \in Session, NEW o \in Operation,
           sess' = [sess EXCEPT ![slot] = s], op' = Asked(c, o), slot' = 0,
           Counted, UNCHANGED <<lock, dying, hung, born>>,
           s.managed = sess[slot].managed, o.id = slot, o.pc \in Owning \ {"retire"},
           Fits(o, s), Bound(born, c, o, s), Issued(born, slot, s), Limited(spent.posts, s)
    PROVE  BrowserInv'
<1>1. /\ slot \in Ids /\ slot \notin dying /\ sess[slot] # None
      /\ \A d \in Callers : at(d, "idle") /\ op[d].id = 0
  BY DEF BrowserInv, Owned, Typed, Free, at, Owning, InSelect
<1>2. /\ sess'[slot] = s /\ s # None /\ \A x \in Ids : x # slot => sess'[x] = sess[x]
      /\ op'[c] = o /\ \A d \in Callers : d # c => op'[d] = Idle
  BY <1>1, NoneApart DEF BrowserInv, Typed, Asked
<1>3. Idle \in Operation /\ Idle.pc = "idle" /\ Idle.id = 0 /\ Reported(Idle)
  BY IdleReported
<1>4. spent' \in Spent /\ spent'.posts = spent.posts /\ spent'.browsers = spent.browsers
  BY DEF Counted, BrowserInv, Typed, Spent
<1>5. Typed'
  <2>1. op' \in [Callers -> Operation]
    BY <1>1, <1>3 DEF Asked
  <2> QED
    BY <1>1, <1>4, <2>1 DEF BrowserInv, Typed
<1>6. Alone'
  BY <1>2, <1>3 DEF Alone, at
<1>7. Owned'
  <2>1. \A d \in Callers : IF op'[d].pc \in Owning THEN op'[d].id \in Ids \ dying' /\ sess'[op'[d].id] # None
                           ELSE op'[d].id = 0
    BY <1>1, <1>2, <1>3 DEF Owning, InSelect
  <2>2. \A x \in dying' : sess'[x] # None
    BY <1>1, <1>2 DEF BrowserInv, Owned, Typed
  <2>3. \A x \in Ids : sess'[x] # None => x = slot' \/ x \in dying' \/ \E d \in Callers : op'[d].id = x
    <3>1. \A x \in Ids : x # 0
      BY DEF Ids
    <3> QED
      BY <1>1, <1>2, <3>1 DEF BrowserInv, Owned
  <2>4. \A x \in Ids : x > spent'.browsers => sess'[x] = None
    BY <1>1, <1>2, <1>4 DEF BrowserInv, Owned
  <2>5. \A d \in Callers : op'[d].pc \in {"retire", "boot"} => spent'.browsers < MaxBrowsers
    BY <1>2, <1>3 DEF Owning, InSelect
  <2>6. \A x \in Ids : lock' = x <=> sess'[x] # None /\ sess'[x].managed
    <3>1. lock' = lock /\ (lock = slot <=> sess[slot].managed) /\ (sess'[slot].managed = sess[slot].managed)
      BY <1>1, <1>2 DEF BrowserInv, Owned
    <3>2. lock' = slot <=> sess'[slot] # None /\ sess'[slot].managed
      BY <3>1, <1>2
    <3>3. \A x \in Ids : x # slot => (lock' = x <=> sess'[x] # None /\ sess'[x].managed)
      BY <3>1, <1>2 DEF BrowserInv, Owned
    <3> QED
      BY <3>2, <3>3
  <2> QED
    BY <2>1, <2>2, <2>3, <2>4, <2>5, <2>6 DEF Owned
<1>8. Orderly'
  <2>1. o.pc # "idle"
    BY DEF Owning, InSelect
  <2> QED
    BY <1>1, <1>2, <1>3, <2>1 DEF Orderly, at, Held
<1>9. Observed'
  BY <1>1, <1>2, <1>3, <1>4 DEF BrowserInv, Observed, Held, Typed, Bound, at
<1> QED
  BY <1>5, <1>6, <1>7, <1>8, <1>9 DEF BrowserInv

\* A step that changes the session while the harness has it.
LEMMA SlotStep ==
    ASSUME BrowserInv, slot # 0, NEW s \in Session,
           sess' = [sess EXCEPT ![slot] = s], op' \in [Callers -> Operation],
           \A d \in Callers : op'[d].pc = "idle" /\ op'[d].id = 0 /\ Reported(op'[d]),
           UNCHANGED <<slot, lock, dying, hung, born>>,
           spent' \in Spent, spent'.posts = spent.posts, spent'.browsers = spent.browsers,
           s.managed = sess[slot].managed, Quiet(s),
           Issued(born, slot, s), Limited(spent.posts, s)
    PROVE  BrowserInv'
<1>1. /\ slot \in Ids /\ slot \notin dying /\ sess[slot] # None
      /\ \A d \in Callers : at(d, "idle") /\ op[d].id = 0
  BY DEF BrowserInv, Owned, Typed, Alone, at, Owning, InSelect
<1>2. sess'[slot] = s /\ s # None /\ \A x \in Ids : x # slot => sess'[x] = sess[x]
  BY <1>1, NoneApart DEF BrowserInv, Typed
<1>3. Typed'
  BY <1>1 DEF BrowserInv, Typed
<1>4. Alone'
  BY DEF Alone, at
<1>5. Owned'
  <2>1. (\A x \in dying' : sess'[x] # None) /\ slot' \notin dying' /\ sess'[slot'] # None
    BY <1>1, <1>2 DEF BrowserInv, Owned, Typed
  <2>2. \A x \in Ids : sess'[x] # None => x = slot' \/ x \in dying'
    <3>1. \A x \in Ids : x # 0
      BY DEF Ids
    <3> QED
      BY <1>1, <1>2, <3>1 DEF BrowserInv, Owned
  <2>3. \A x \in Ids : x > spent'.browsers => sess'[x] = None
    BY <1>1, <1>2 DEF BrowserInv, Owned
  <2>4. \A x \in Ids : lock' = x <=> sess'[x] # None /\ sess'[x].managed
    <3>1. lock' = lock /\ (lock = slot <=> sess[slot].managed) /\ (sess'[slot].managed = sess[slot].managed)
      BY <1>1, <1>2 DEF BrowserInv, Owned
    <3>2. lock' = slot <=> sess'[slot] # None /\ sess'[slot].managed
      BY <3>1, <1>2
    <3>3. \A x \in Ids : x # slot => (lock' = x <=> sess'[x] # None /\ sess'[x].managed)
      BY <3>1, <1>2 DEF BrowserInv, Owned
    <3> QED
      BY <3>2, <3>3
  <2> QED
    BY <2>1, <2>2, <2>3, <2>4 DEF Owned, Owning, InSelect
<1>6. Orderly'
  BY <1>2 DEF Orderly, at
<1>7. Observed'
  BY <1>1, <1>2 DEF BrowserInv, Observed, Held, Typed, Bound
<1> QED
  BY <1>3, <1>4, <1>5, <1>6, <1>7 DEF BrowserInv

-----------------------------------------------------------------------------
(* Sessions *)

\* What the invariant says of an operation that owns a Chrome.
LEMMA Holding ==
    ASSUME BrowserInv, NEW c \in Callers, op[c].pc \in Owning
    PROVE  /\ Held(c) \in Session /\ op[c] \in Operation /\ op[c].id \in Ids /\ op[c].id \in Nat
           /\ Fits(op[c], Held(c)) /\ Bound(born, c, op[c], Held(c))
           /\ Issued(born, op[c].id, Held(c)) /\ Limited(spent.posts, Held(c))
<1>1. op[c].id \in Ids /\ sess[op[c].id] # None /\ op[c].pc # "idle"
  BY DEF BrowserInv, Owned, Owning, InSelect
<1>2. op[c].id \in Nat
  BY <1>1, BrowserAssumption DEF Ids
<1> QED
  BY <1>1, <1>2 DEF BrowserInv, Typed, Orderly, Observed, Held, at

\* What it says of the session in the harness.
LEMMA Keeping ==
    ASSUME BrowserInv, slot # 0
    PROVE  /\ slot \in Ids /\ slot \in Nat /\ sess[slot] \in Session /\ Quiet(sess[slot])
           /\ Issued(born, slot, sess[slot]) /\ Limited(spent.posts, sess[slot])
<1>1. slot \in Ids /\ sess[slot] # None
  BY DEF BrowserInv, Owned, Typed
<1>2. slot \in Nat
  BY <1>1, BrowserAssumption DEF Ids
<1> QED
  BY <1>1, <1>2 DEF BrowserInv, Typed, Orderly, Observed

\* Sessions that show their run the same pages and references.
Alike(s, t) ==
    /\ t.run = s.run /\ t.managed = s.managed /\ t.pages = s.pages /\ t.active = s.active
    /\ t.ref = s.ref /\ t.print = s.print /\ t.uploads = s.uploads

\* Their references are of the same observations.
LEMMA AlikeIssued ==
    ASSUME NEW s, NEW t, Alike(s, t), NEW q, NEW b
    PROVE  /\ Issued(q, b, s) => Issued(q, b, t)
           /\ \A c, o : Bound(q, c, o, s) => Bound(q, c, o, t)
  BY DEF Alike, Issued, Bound

\* The actions begin and end by flags of the session alone.
LEMMA Flags ==
    ASSUME NEW s \in Session, NEW t \in {Begun(s), GrantBegun(s), TakingBegun(s), EndedAction(s)}
    PROVE  /\ t \in Session /\ Alike(s, t)
           /\ t.kept = s.kept /\ t.answers = s.answers /\ t.sent \in {s.sent, 0} /\ t.doc = s.doc
           /\ \A n \in Nat : Limited(n, s) => Limited(n, t)
<1>1. t \in Session
  <2>1. 0 \in Nat
    OBVIOUS
  <2>2. Begun(s) \in Session
    BY DEF Session, Begun
  <2>3. GrantBegun(s) \in Session
    BY <2>1 DEF Session, GrantBegun
  <2>4. TakingBegun(s) \in Session
    BY DEF Session, TakingBegun
  <2>5. EndedAction(s) \in Session
    BY DEF Session, EndedAction
  <2> QED
    BY <2>2, <2>3, <2>4, <2>5
<1>2. Alike(s, t)
  BY DEF Alike, Session, Begun, GrantBegun, TakingBegun, EndedAction
<1>3. t.kept = s.kept /\ t.answers = s.answers /\ t.sent \in {s.sent, 0} /\ t.doc = s.doc
  BY DEF Session, Begun, GrantBegun, TakingBegun, EndedAction
<1>4. \A n \in Nat : Limited(n, s) => Limited(n, t)
  BY <1>2, <1>3 DEF Limited, Alike
<1> QED
  BY <1>1, <1>2, <1>3, <1>4

\* begin_action leaves the grants alone.
LEMMA BegunFlags ==
    ASSUME NEW s \in Session
    PROVE  Begun(s).started /\ (Begun(s).grant <=> s.grant) /\ (Begun(s).taking <=> s.taking)
  BY DEF Session, Begun

\* begin_external_action starts the grant with no dispatch counted.
LEMMA GrantFlags ==
    ASSUME NEW s \in Session
    PROVE  GrantBegun(s).started /\ GrantBegun(s).grant /\ GrantBegun(s).sent = 0
  BY DEF Session, GrantBegun

\* begin_download lets a download through and no POST.
LEMMA TakingFlags ==
    ASSUME NEW s \in Session
    PROVE  TakingBegun(s).started /\ (TakingBegun(s).grant <=> s.grant)
  BY DEF Session, TakingBegun

\* The ends of the actions leave no authority.
LEMMA EndedFlags ==
    ASSUME NEW s \in Session
    PROVE  Quiet(EndedAction(s))
  BY DEF Session, EndedAction, Quiet

\* An observation replaces the references of the active page by its own.
LEMMA Rotating ==
    ASSUME Typed, NEW b \in Nat, NEW s \in Session, NEW e \in Session,
           e.run = s.run, e.active = s.active, NEW x \in Contents \cup {None},
           Issued(born, b, e), Issue(b, s, x), UNCHANGED spent,
           NEW t, t = Rotated(e, x)
    PROVE  /\ t \in Session /\ Later /\ Issued(born', b, t)
           /\ t.managed = e.managed /\ t.active = e.active /\ t.run = e.run
           /\ (Quiet(e) => Quiet(t))
           /\ \A n \in Nat : Limited(n, e) => Limited(n, t)
<1> DEFINE n == Len(born) + 1
           new == [of |-> b, run |-> s.run, page |-> s.active, print |-> x]
<1>1. new \in Observation /\ born' = Append(born, new)
  BY DEF Observation, Session, Issue
<1>2. n \in Nat /\ Len(born') = n /\ born'[n] = new /\ born \in Seq(Observation)
  BY <1>1 DEF Typed
<1>3. Later
  BY <1>1 DEF Later, Typed, Spent
<1>4. t \in Session
  BY <1>2 DEF Session, Rotated
<1>5. /\ t.managed = e.managed /\ t.active = e.active /\ t.run = e.run /\ t.pages = e.pages
      /\ t.kept = e.kept /\ t.sent = e.sent /\ t.answers = e.answers /\ t.uploads = e.uploads
  BY DEF Session, Rotated
<1>6. Quiet(e) => Quiet(t)
  BY DEF Session, Rotated, Quiet
<1>7. /\ t.ref[e.active] = n /\ t.print[e.active] = x
      /\ \A p \in Pages : p # e.active => t.ref[p] = e.ref[p] /\ t.print[p] = e.print[p]
  BY DEF Session, Rotated
<1>8. Issued(born', b, e)
  BY <1>3, StaysIssued
<1>9. Issued(born', b, t)
  BY <1>2, <1>5, <1>7, <1>8 DEF Issued
<1> QED
  BY <1>3, <1>4, <1>5, <1>6, <1>9 DEF Limited

-----------------------------------------------------------------------------
(* How operations end *)

\* The report of an ended operation.
LEMMA Replying ==
    ASSUME NEW x \in Operation, NEW told \in Told
    PROVE  /\ Replied(x, told) \in Operation
           /\ Replied(x, told).pc = "idle" /\ Replied(x, told).id = 0 /\ Replied(x, told).posted = 0
           /\ Replied(x, told).told = told /\ Replied(x, told).touched = x.touched
           /\ Replied(x, told).cut = x.cut
<1>1. Idle \in Operation /\ Idle.pc = "idle" /\ Idle.id = 0
  BY IdleReported
<1>2. Idle.posted = 0
  BY DEF Idle
<1> QED
  BY <1>1, <1>2 DEF Replied, Operation

\* It is in order if the operation was not applied and did not reach the page, or was
\* marked for the exceptions, or was applied and did.
LEMMA ReplyHonest ==
    ASSUME NEW x \in Operation, NEW told \in Told,
           told \in {"NotApplied", "Observed"} => ~x.touched \/ x.cut \in {"tail", "tab", "lost"},
           told = "Applied" => x.touched
    PROVE  Reported(Replied(x, told))
  BY Replying DEF Reported

\* An operation that ends with its session put back, which must be quiet.
LEMMA PutBackEnds ==
    ASSUME BrowserInv, NEW c \in Callers, op[c].pc \in Owning, NEW s \in Session, NEW told \in Told,
           PutBack(c, s, told), Later, s.managed = Held(c).managed, Quiet(s),
           Issued(born', op[c].id, s), Limited(spent.posts, s),
           told \in {"NotApplied", "Observed"} => ~op[c].touched,
           told = "Applied" => op[c].touched
    PROVE  BrowserInv'
<1> DEFINE o == Replied(op[c], told)
<1>1. op[c] \in Operation
  BY Holding
<1>2. o \in Operation /\ o.pc = "idle" /\ o.id = 0 /\ Reported(o)
  BY <1>1, Replying, ReplyHonest
<1>3. /\ sess' = [sess EXCEPT ![op[c].id] = s] /\ op' = [op EXCEPT ![c] = o]
      /\ slot' = op[c].id /\ UNCHANGED <<lock, dying, hung, spent>>
  BY DEF PutBack
<1> HIDE DEF o
<1> QED
  BY <1>2, <1>3, PutBackStep

\* An operation with an unknown outcome goes on to tear its Chrome down.
LEMMA TearDownGoesOn ==
    ASSUME BrowserInv, NEW c \in Callers, op[c].pc \in InSelect, NEW s \in Session,
           TearDown(c, s), Alike(Held(c), s), Limited(spent.posts, s)
    PROVE  BrowserInv'
<1> DEFINE o == [op[c] EXCEPT !.pc = "close", !.told = "Indeterminate"]
<1>1. op[c].pc \in Owning /\ "close" \in Owning \ {"retire"} /\ "close" \in PCs
  BY DEF Owning, PCs
<1>2. op[c] \in Operation /\ Fits(op[c], Held(c)) /\ Issued(born, op[c].id, Held(c))
  BY <1>1, Holding
<1>3. /\ o \in Operation /\ o.pc = "close" /\ o.id = op[c].id /\ o.told = "Indeterminate"
      /\ o.posted = op[c].posted /\ o.kind = op[c].kind
  BY <1>1, <1>2 DEF Operation, Told
<1>4. /\ sess' = [sess EXCEPT ![op[c].id] = s] /\ UNCHANGED <<slot, lock, dying, hung, born, spent>>
  BY DEF TearDown
<1>5. op' = [op EXCEPT ![c] = o]
  BY DEF TearDown, BrowserInv, Typed
<1> HIDE DEF o
<1>6. Fits(o, s)
  BY <1>2, <1>3 DEF Fits, InSelect
<1>7. Bound(born', c, o, s)
  BY <1>3 DEF Bound
<1>8. Issued(born', o.id, s) /\ s.managed = Held(c).managed
  BY <1>2, <1>3, <1>4, AlikeIssued DEF Alike
<1>9. Later /\ spent'.browsers = spent.browsers /\ spent'.posts = spent.posts
  BY <1>4 DEF Later, BrowserInv, Typed, Spent
<1> QED
  BY <1>1, <1>3, <1>4, <1>5, <1>6, <1>7, <1>8, <1>9, HeldStep

\* An operation that goes on with its session.
LEMMA MovedGoesOn ==
    ASSUME BrowserInv, NEW c \in Callers, op[c].pc \in Owning, NEW s \in Session, NEW o \in Operation,
           Moved(c, s, o), Later, s.managed = Held(c).managed,
           o.id = op[c].id, o.pc \in Owning \ {"retire"}, Fits(o, s), Bound(born', c, o, s),
           Issued(born', op[c].id, s), Limited(spent.posts, s)
    PROVE  BrowserInv'
<1>1. /\ sess' = [sess EXCEPT ![op[c].id] = s] /\ op' = [op EXCEPT ![c] = o]
      /\ UNCHANGED <<slot, lock, dying, hung>> /\ spent' = spent
  BY DEF Moved
<1>2. spent'.browsers = spent.browsers /\ Limited(spent'.posts, s) /\ Issued(born', o.id, s)
  BY <1>1
<1> QED
  BY <1>1, <1>2, HeldStep

\* The fields of an operation that goes on to p.
LEMMA Onward ==
    ASSUME NEW x \in Operation, NEW p \in PCs
    PROVE  LET o == [x EXCEPT !.pc = p] IN
           /\ o \in Operation /\ o.pc = p /\ o.kind = x.kind /\ o.id = x.id /\ o.ref = x.ref
           /\ o.seen = x.seen /\ o.told = x.told /\ o.touched = x.touched /\ o.posted = x.posted
  BY DEF Operation

\* The fields of one that goes on to p after Chrome has carried out its action.
LEMMA OnwardTouched ==
    ASSUME NEW x \in Operation, NEW p \in PCs, NEW o, o = [x EXCEPT !.touched = TRUE, !.pc = p]
    PROVE  /\ o \in Operation /\ o.pc = p /\ o.kind = x.kind /\ o.id = x.id /\ o.ref = x.ref
           /\ o.seen = x.seen /\ o.told = x.told /\ o.touched /\ o.posted = x.posted
  BY DEF Operation

\* Nothing is observed and nothing counted.
LEMMA NothingNew ==
    ASSUME Typed, UNCHANGED <<born, spent>>
    PROVE  Later
  BY DEF Later, Typed, Spent

-----------------------------------------------------------------------------
(* From the first observation to the action *)

\* An operation that ends with a new observation of the active page.
LEMMA ObservedEnds ==
    ASSUME BrowserInv, NEW c \in Callers, op[c].pc \in Owning, NEW e \in Session, NEW told \in Told,
           NEW x \in Contents \cup {None}, Issue(op[c].id, Held(c), x), PutBack(c, Rotated(e, x), told),
           e.run = Held(c).run, e.active = Held(c).active, e.managed = Held(c).managed,
           Quiet(e), Issued(born, op[c].id, e), Limited(spent.posts, e),
           told \in {"NotApplied", "Observed"} => ~op[c].touched,
           told = "Applied" => op[c].touched
    PROVE  BrowserInv'
<1> DEFINE t == Rotated(e, x)
<1>1. Held(c) \in Session /\ op[c].id \in Nat
  BY Holding
<1>2. Typed /\ spent.posts \in Nat /\ UNCHANGED spent
  BY DEF BrowserInv, Typed, Spent, PutBack
<1> HIDE DEF t
<1>3. /\ t \in Session /\ Later /\ Issued(born', op[c].id, t) /\ t.managed = e.managed
      /\ Quiet(t) /\ Limited(spent.posts, t)
  BY <1>1, <1>2, Rotating DEF t
<1>4. t.managed = Held(c).managed /\ PutBack(c, t, told)
  BY <1>3 DEF t
<1> QED
  BY <1>3, <1>4, PutBackEnds

\* navigate has loaded its page.
LEMMA LoadStep ==
    ASSUME BrowserInv, NEW c \in Callers, Load(c)
    PROVE  BrowserInv'
<1> DEFINE x == Held(c).doc[Held(c).active]
<1>1. op[c].pc = "load" /\ op[c].pc \in Owning /\ "Observed" \in Told
  BY DEF Load, at, Owning, Told
<1>2. /\ Held(c) \in Session /\ Fits(op[c], Held(c))
      /\ Issued(born, op[c].id, Held(c)) /\ Limited(spent.posts, Held(c))
  BY <1>1, Holding
<1>3. x \in Contents \cup {None}
  BY <1>2 DEF Session
<1>4. Issue(op[c].id, Held(c), x) /\ PutBack(c, Rotated(Held(c), x), "Observed")
  BY DEF Load
<1>5. Quiet(Held(c)) /\ ~op[c].touched
  BY <1>1, <1>2 DEF Fits
<1> HIDE DEF x
<1> QED
  BY <1>1, <1>2, <1>3, <1>4, <1>5, ObservedEnds

\* The page is what the reference was issued for: the operation is bound to it.
LEMMA CaptureStep ==
    ASSUME BrowserInv, NEW c \in Callers, Capture(c)
    PROVE  BrowserInv'
<1> DEFINE s == Held(c)
           x == s.doc[s.active]
           seen == [op[c] EXCEPT !.seen = x]
<1>1. op[c].pc = "observe" /\ op[c].pc \in Owning /\ op[c].kind \in RefKinds /\ UNCHANGED <<born, spent>>
      /\ StillObserved(c, x)
  BY DEF Capture, at, Owning, InSelect, Kind, Moved
<1>2. /\ s \in Session /\ op[c] \in Operation /\ Fits(op[c], s)
      /\ Issued(born, op[c].id, s) /\ Limited(spent.posts, s)
  BY <1>1, Holding
<1>3. x \in Contents
  BY <1>2 DEF Session
<1>4. /\ seen \in Operation /\ seen.pc = "observe" /\ seen.kind = op[c].kind /\ seen.id = op[c].id
      /\ seen.ref = op[c].ref /\ seen.seen = x /\ seen.touched = op[c].touched /\ seen.posted = op[c].posted
  BY <1>1, <1>2, <1>3 DEF Operation
<1>5. Quiet(s) /\ ~op[c].touched /\ op[c].posted = 0 /\ (op[c].kind = "download" => s.kept < MaxDownloads)
  BY <1>1, <1>2 DEF Fits, InSelect
<1>6. /\ op[c].ref \in 1 .. Len(born)
      /\ born[op[c].ref] = [of |-> op[c].id, run |-> c, page |-> s.active, print |-> x]
  <2>1. s.run = c /\ op[c].ref # 0 /\ op[c].ref = s.ref[s.active] /\ x = s.print[s.active] /\ s.active \in Pages
    BY <1>1, <1>2 DEF StillObserved, Current, Session
  <2>2. op[c].ref \in Nat /\ Len(born) \in Nat
    BY <1>2 DEF Operation, BrowserInv, Typed
  <2> QED
    BY <1>2, <2>1, <2>2 DEF Issued
<1>7. \/ op[c].kind \in Pointing /\ Moved(c, s, [seen EXCEPT !.pc = "aim"])
      \/ op[c].kind = "download" /\ Moved(c, TakingBegun(s), [seen EXCEPT !.pc = "act"])
      \/ op[c].kind \in {"login", "upload"} /\ Moved(c, Begun(s), [seen EXCEPT !.pc = "type"])
  BY <1>1 DEF Capture, Kind, RefKinds, Granted, Pointing
<1>8. Later /\ spent.posts \in Nat /\ (s.managed = Held(c).managed)
  BY <1>1, NothingNew DEF BrowserInv, Typed, Spent
<1>9. ASSUME NEW t \in Session, NEW p \in {"aim", "act", "type"}, Moved(c, t, [seen EXCEPT !.pc = p]),
             Alike(s, t), Limited(spent.posts, t),
             \A o \in Operation : o.pc = p /\ o.kind = op[c].kind /\ ~o.touched /\ o.posted = 0 => Fits(o, t)
      PROVE  BrowserInv'
  <2> DEFINE o == [seen EXCEPT !.pc = p]
  <2>1. p \in PCs /\ p \in Owning \ {"retire"}
    BY DEF PCs, Owning, InSelect
  <2>2. /\ o \in Operation /\ o.pc = p /\ o.kind = op[c].kind /\ o.id = op[c].id /\ o.ref = op[c].ref
        /\ o.seen = x /\ o.touched = op[c].touched /\ o.posted = op[c].posted
    BY <1>4, <2>1, Onward
  <2> HIDE DEF o, seen, x, s
  <2>3. Fits(o, t)
    BY <1>5, <1>9, <2>2
  <2>4. Bound(born', c, o, t)
    BY <1>1, <1>6, <1>9, <2>2 DEF Bound, Alike
  <2>5. Issued(born', op[c].id, t) /\ t.managed = Held(c).managed
    BY <1>1, <1>2, <1>8, <1>9, AlikeIssued DEF Alike
  <2>6. Moved(c, t, o)
    BY <1>9 DEF o
  <2> QED
    BY <1>1, <1>8, <1>9, <2>1, <2>2, <2>3, <2>4, <2>5, <2>6, MovedGoesOn
<1> HIDE DEF seen, x
<1>10. CASE op[c].kind \in Pointing /\ Moved(c, s, [seen EXCEPT !.pc = "aim"])
  <2>1. Alike(s, s)
    BY DEF Alike
  <2>2. \A o \in Operation : o.pc = "aim" /\ o.kind = op[c].kind /\ ~o.touched /\ o.posted = 0 => Fits(o, s)
    BY <1>5, <1>10 DEF Fits, InSelect, Pointing
  <2> QED
    BY <1>2, <1>9, <1>10, <2>1, <2>2
<1>11. CASE op[c].kind = "download" /\ Moved(c, TakingBegun(s), [seen EXCEPT !.pc = "act"])
  <2>1. TakingBegun(s) \in Session /\ Alike(s, TakingBegun(s)) /\ TakingBegun(s).kept = s.kept
        /\ Limited(spent.posts, TakingBegun(s))
    BY <1>2, <1>8, Flags
  <2>2. TakingBegun(s).started /\ ~TakingBegun(s).grant
    BY <1>2, <1>5, TakingFlags DEF Quiet
  <2>3. \A o \in Operation : o.pc = "act" /\ o.kind = op[c].kind /\ ~o.touched /\ o.posted = 0
                             => Fits(o, TakingBegun(s))
    BY <1>5, <1>11, <2>1, <2>2 DEF Fits, InSelect
  <2> QED
    BY <1>9, <1>11, <2>1, <2>3
<1>12. CASE op[c].kind \in {"login", "upload"} /\ Moved(c, Begun(s), [seen EXCEPT !.pc = "type"])
  <2>1. Begun(s) \in Session /\ Alike(s, Begun(s)) /\ Limited(spent.posts, Begun(s))
    BY <1>2, <1>8, Flags
  <2>2. Begun(s).started /\ ~Begun(s).grant /\ ~Begun(s).taking
    BY <1>2, <1>5, BegunFlags DEF Quiet
  <2>3. \A o \in Operation : o.pc = "type" /\ o.kind = op[c].kind /\ ~o.touched /\ o.posted = 0
                             => Fits(o, Begun(s))
    BY <1>5, <1>12, <2>2 DEF Fits, InSelect
  <2> QED
    BY <1>9, <1>12, <2>1, <2>3
<1> QED
  BY <1>7, <1>10, <1>11, <1>12

\* The operations that end before their action: refused, read, or failed.
LEMMA ObserveStep ==
    ASSUME BrowserInv, NEW c \in Callers, Refused(c) \/ Read(c) \/ ObserveFails(c)
    PROVE  BrowserInv'
<1> DEFINE x == Held(c).doc[Held(c).active]
<1>1. op[c].pc = "observe" /\ op[c].pc \in Owning
  BY DEF Refused, Read, ObserveFails, at, Owning, InSelect
<1>2. /\ Held(c) \in Session /\ Fits(op[c], Held(c))
      /\ Issued(born, op[c].id, Held(c)) /\ Limited(spent.posts, Held(c))
  BY <1>1, Holding
<1>3. x \in Contents \cup {None}
  BY <1>2 DEF Session
<1>4. Quiet(Held(c)) /\ ~op[c].touched
  BY <1>1, <1>2 DEF Fits
<1>5. PICK told \in {"NotApplied", "Observed"} :
        \/ Issue(op[c].id, Held(c), x) /\ PutBack(c, Rotated(Held(c), x), told)
        \/ UNCHANGED born /\ PutBack(c, Held(c), told)
  BY DEF Refused, Read, ObserveFails
<1>6. told \in Told /\ (told = "Applied" => op[c].touched)
  BY DEF Told
<1> HIDE DEF x
<1>7. CASE Issue(op[c].id, Held(c), x) /\ PutBack(c, Rotated(Held(c), x), told)
  BY <1>1, <1>2, <1>3, <1>4, <1>6, <1>7, ObservedEnds
<1>8. CASE UNCHANGED born /\ PutBack(c, Held(c), told)
  <2>1. Later
    BY <1>8, NothingNew DEF PutBack, BrowserInv
  <2>2. Issued(born', op[c].id, Held(c))
    BY <1>2, <1>8
  <2> QED
    BY <1>1, <1>2, <1>4, <1>6, <1>8, <2>1, <2>2, PutBackEnds
<1> QED
  BY <1>5, <1>7, <1>8

\* back begins its action, and so do the interactions that have found their element.
LEMMA BeginsStep ==
    ASSUME BrowserInv, NEW c \in Callers, GoBack(c) \/ Aim(c) \/ Type(c)
    PROVE  BrowserInv'
<1> DEFINE s == Held(c)
<1>1. op[c].pc \in {"observe", "aim", "type"} /\ op[c].pc \in Owning /\ UNCHANGED <<born, spent>>
  BY DEF GoBack, Aim, Type, at, Owning, InSelect, Moved
<1>2. /\ s \in Session /\ op[c] \in Operation /\ Fits(op[c], s) /\ Bound(born, c, op[c], s)
      /\ Issued(born, op[c].id, s) /\ Limited(spent.posts, s)
  BY <1>1, Holding
<1>3. Later /\ spent.posts \in Nat /\ Typed
  BY <1>1, NothingNew DEF BrowserInv, Typed, Spent
<1>4. "act" \in PCs /\ "act" \in Owning \ {"retire"}
  BY DEF PCs, Owning, InSelect
<1>5. ASSUME NEW t \in Session, NEW o \in Operation, Moved(c, t, o), Alike(s, t), Limited(spent.posts, t),
             o.pc = "act", o.id = op[c].id, o.kind = op[c].kind, o.ref = op[c].ref, o.seen = op[c].seen,
             Fits(o, t), op[c].pc = "observe" => o.kind \notin RefKinds
      PROVE  BrowserInv'
  <2>1. Bound(born', c, o, t)
    BY <1>1, <1>2, <1>5 DEF Bound, Alike
  <2>2. Issued(born', op[c].id, t) /\ t.managed = Held(c).managed
    BY <1>1, <1>2, <1>5, AlikeIssued DEF Alike
  <2> QED
    BY <1>1, <1>3, <1>4, <1>5, <2>1, <2>2, MovedGoesOn
<1>6. CASE GoBack(c)
  <2> DEFINE o == [op[c] EXCEPT !.pc = "act"]
  <2>1. Moved(c, Begun(s), o) /\ op[c].pc = "observe" /\ op[c].kind = "back"
    BY <1>6 DEF GoBack, at, Kind
  <2>2. /\ o \in Operation /\ o.pc = "act" /\ o.id = op[c].id /\ o.kind = op[c].kind /\ o.ref = op[c].ref
        /\ o.seen = op[c].seen /\ o.touched = op[c].touched /\ o.posted = op[c].posted
    BY <1>2, <1>4, Onward
  <2> HIDE DEF o
  <2>3. Begun(s) \in Session /\ Alike(s, Begun(s)) /\ Limited(spent.posts, Begun(s)) /\ Begun(s).kept = s.kept
    BY <1>2, <1>3, Flags
  <2>4. Begun(s).started /\ ~Begun(s).grant
    BY <1>2, <2>1, BegunFlags DEF Fits, Quiet
  <2>5. Fits(o, Begun(s))
    BY <1>2, <2>1, <2>2, <2>4 DEF Fits, InSelect
  <2>6. o.kind \notin RefKinds
    BY <2>1, <2>2 DEF RefKinds, Pointing, Granted
  <2> QED
    BY <1>5, <2>1, <2>2, <2>3, <2>5, <2>6
<1>7. CASE Aim(c)
  <2> DEFINE o == [op[c] EXCEPT !.pc = "act"]
  <2>1. op[c].pc = "aim" /\ op[c].kind \in Pointing /\ Quiet(s) /\ ~op[c].touched /\ op[c].posted = 0
    BY <1>2, <1>7 DEF Aim, at, Fits
  <2>2. /\ o \in Operation /\ o.pc = "act" /\ o.id = op[c].id /\ o.kind = op[c].kind /\ o.ref = op[c].ref
        /\ o.seen = op[c].seen /\ o.touched = op[c].touched /\ o.posted = op[c].posted
    BY <1>2, <1>4, Onward
  <2>3. \/ op[c].kind = "submit" /\ Moved(c, GrantBegun(s), o)
        \/ Moved(c, Begun(s), o)
    BY <1>7 DEF Aim, Kind
  <2> HIDE DEF o
  <2>4. CASE op[c].kind = "submit" /\ Moved(c, GrantBegun(s), o)
    <3>1. GrantBegun(s) \in Session /\ Alike(s, GrantBegun(s)) /\ Limited(spent.posts, GrantBegun(s))
      BY <1>2, <1>3, Flags
    <3>2. GrantBegun(s).started /\ GrantBegun(s).sent = 0
      BY <1>2, GrantFlags
    <3>3. Fits(o, GrantBegun(s))
      BY <2>1, <2>2, <2>4, <3>2 DEF Fits, InSelect, External
    <3> QED
      BY <1>5, <2>1, <2>2, <2>4, <3>1, <3>3
  <2>5. CASE Moved(c, Begun(s), o)
    <3>1. Begun(s) \in Session /\ Alike(s, Begun(s)) /\ Limited(spent.posts, Begun(s))
      BY <1>2, <1>3, Flags
    <3>2. Begun(s).started /\ ~Begun(s).grant
      BY <1>2, <2>1, BegunFlags DEF Quiet
    <3>3. Fits(o, Begun(s))
      BY <2>1, <2>2, <3>2 DEF Fits, InSelect, Pointing
    <3> QED
      BY <1>5, <2>1, <2>2, <2>5, <3>1, <3>3
  <2> QED
    BY <2>3, <2>4, <2>5
<1>8. CASE Type(c)
  <2> DEFINE o == [op[c] EXCEPT !.pc = "act", !.touched = TRUE]
  <2>1. op[c].pc = "type" /\ op[c].kind \in {"login", "upload"} /\ op[c].posted = 0 /\ Moved(c, GrantBegun(s), o)
    BY <1>2, <1>8 DEF Type, at, Fits
  <2>3. /\ o \in Operation /\ o.pc = "act" /\ o.id = op[c].id /\ o.kind = op[c].kind /\ o.ref = op[c].ref
        /\ o.seen = op[c].seen /\ o.posted = op[c].posted
    BY <1>2, <1>4 DEF Operation
  <2> HIDE DEF o
  <2>4. GrantBegun(s) \in Session /\ Alike(s, GrantBegun(s)) /\ Limited(spent.posts, GrantBegun(s))
    BY <1>2, <1>3, Flags
  <2>5. GrantBegun(s).started /\ GrantBegun(s).sent = 0
    BY <1>2, GrantFlags
  <2>6. Fits(o, GrantBegun(s))
    BY <2>1, <2>3, <2>5 DEF Fits, InSelect, External
  <2> QED
    BY <1>5, <2>1, <2>3, <2>4, <2>6
<1> QED
  BY <1>6, <1>7, <1>8

\* The element is gone: no action begins.
LEMMA AimFailsStep ==
    ASSUME BrowserInv, NEW c \in Callers, AimFails(c)
    PROVE  BrowserInv'
<1>1. op[c].pc = "aim" /\ op[c].pc \in Owning /\ "NotApplied" \in Told
  BY DEF AimFails, at, Owning, InSelect, Told
<1>2. /\ Held(c) \in Session /\ op[c] \in Operation /\ Fits(op[c], Held(c))
      /\ Issued(born, op[c].id, Held(c)) /\ Limited(spent.posts, Held(c))
  BY <1>1, Holding
<1>3. op[c].seen \in Contents \cup {None}
  BY <1>2 DEF Operation
<1>4. Quiet(Held(c)) /\ ~op[c].touched
  BY <1>1, <1>2 DEF Fits
<1>5. CASE Issue(op[c].id, Held(c), op[c].seen) /\ PutBack(c, Rotated(Held(c), op[c].seen), "NotApplied")
  BY <1>1, <1>2, <1>3, <1>4, <1>5, ObservedEnds
<1>6. CASE UNCHANGED born /\ PutBack(c, Held(c), "NotApplied")
  <2>1. Later
    BY <1>6, NothingNew DEF PutBack, BrowserInv
  <2>2. Issued(born', op[c].id, Held(c))
    BY <1>2, <1>6
  <2> QED
    BY <1>1, <1>2, <1>4, <1>6, <2>1, <2>2, PutBackEnds
<1> QED
  BY <1>5, <1>6 DEF AimFails

-----------------------------------------------------------------------------
(* The action *)

\* Another page of a session: its count and its references.
LEMMA OpenedPage ==
    ASSUME NEW s \in Session, NEW p \in Pages \ s.pages, NEW t, t.pages = s.pages \cup {p}, t.active = p,
           t.ref = s.ref, t.print = s.print, t.uploads = s.uploads, t.run = s.run,
           t.sent = s.sent, t.kept = s.kept, t.answers = s.answers, Cardinality(s.pages) < MaxPages
    PROVE  /\ \A q, b : Issued(q, b, s) => Issued(q, b, t)
           /\ \A n : Limited(n, s) => Limited(n, t)
<1>1. Cardinality(t.pages) <= MaxPages
  <2>1. IsFiniteSet(s.pages)
    BY FS_Subset, BrowserAssumption DEF Session
  <2>2. Cardinality(t.pages) = Cardinality(s.pages) + 1 /\ Cardinality(s.pages) \in Nat
    BY <2>1, FS_AddElement, FS_CardinalityType
  <2> QED
    BY <2>2, BrowserAssumption
<1> QED
  BY <1>1 DEF Issued, Limited

\* Chrome shows something else.
LEMMA ShownPage ==
    ASSUME NEW s \in Session, NEW p \in Pages, NEW x \in Contents, NEW t, t = [s EXCEPT !.doc[p] = x]
    PROVE  /\ t \in Session /\ Alike(s, t)
           /\ (t.started <=> s.started) /\ (t.grant <=> s.grant) /\ (t.taking <=> s.taking)
           /\ t.sent = s.sent /\ t.kept = s.kept
           /\ \A n : Limited(n, s) => Limited(n, t)
<1>1. /\ t \in Session /\ Alike(s, t) /\ t.sent = s.sent /\ t.kept = s.kept /\ t.answers = s.answers
  BY DEF Session, Alike
<1>2. (t.started <=> s.started) /\ (t.grant <=> s.grant) /\ (t.taking <=> s.taking)
  BY DEF Session
<1> QED
  BY <1>1, <1>2 DEF Limited, Alike

\* Chrome carries out the action.
LEMMA ActStep ==
    ASSUME BrowserInv, NEW c \in Callers, Act(c)
    PROVE  BrowserInv'
<1> DEFINE s == Held(c)
           done == [op[c] EXCEPT !.touched = TRUE]
<1>1. op[c].pc = "act" /\ op[c].pc \in Owning /\ UNCHANGED <<born, spent>>
  BY DEF Act, at, Owning, InSelect, Moved
<1>2. /\ s \in Session /\ op[c] \in Operation /\ Fits(op[c], s) /\ Bound(born, c, op[c], s)
      /\ Issued(born, op[c].id, s) /\ Limited(spent.posts, s) /\ s.active \in Pages
  BY <1>1, Holding DEF Session
<1>3. Later /\ spent.posts \in Nat /\ Typed
  BY <1>1, NothingNew DEF BrowserInv, Typed, Spent
<1>4. /\ done \in Operation /\ done.kind = op[c].kind /\ done.id = op[c].id /\ done.ref = op[c].ref
      /\ done.seen = op[c].seen /\ done.posted = op[c].posted /\ done.touched = TRUE
  BY <1>2 DEF Operation
<1>5. s.started /\ op[c].posted <= 1 /\ (op[c].posted = 1 => op[c].kind \in External)
      /\ (s.grant => op[c].kind \in External /\ op[c].posted <= s.sent)
      /\ (op[c].kind = "download" => s.kept < MaxDownloads)
  BY <1>1, <1>2 DEF Fits, InSelect
<1>6. \/ /\ op[c].kind = "tab_open"
         /\ \E p \in Pages \ s.pages :
               Moved(c, [s EXCEPT !.pages = @ \cup {p}, !.active = p], [done EXCEPT !.pc = "settle"])
      \/ /\ op[c].kind = "clear"
         /\ Moved(c, [EndedAction(s) EXCEPT !.clear = TRUE, !.kept = 0],
                  [done EXCEPT !.pc = "close", !.told = "Applied"])
      \/ /\ op[c].kind \in {"click", "submit"}
         /\ Moved(c, s, [done EXCEPT !.pc = "release"])
      \/ /\ op[c].kind \notin {"tab_open", "clear", "click", "submit"}
         /\ \E x \in Contents : Moved(c, [s EXCEPT !.doc[s.active] = x], [done EXCEPT !.pc = "settle"])
  BY DEF Act, Kind
<1>7. /\ {"settle", "close", "release"} \subseteq PCs
      /\ {"settle", "close", "release"} \subseteq Owning \ {"retire"}
  BY DEF PCs, Owning, InSelect
<1> HIDE DEF done
<1>8. ASSUME NEW t \in Session, Moved(c, t, [done EXCEPT !.pc = "settle"]), t.managed = s.managed,
             Issued(born, op[c].id, t), Limited(spent.posts, t), t.started, t.grant <=> s.grant,
             t.sent = s.sent, t.kept = s.kept, op[c].kind \notin {"tab_switch", "tab_close"}
      PROVE  BrowserInv'
  <2> DEFINE o == [done EXCEPT !.pc = "settle"]
  <2>1. /\ o \in Operation /\ o.pc = "settle" /\ o.kind = op[c].kind /\ o.id = op[c].id
        /\ o.posted = op[c].posted /\ o.touched
    BY <1>4, <1>7, Onward
  <2> HIDE DEF o
  <2>2. Fits(o, t)
    BY <1>5, <1>8, <2>1 DEF Fits
  <2>3. Bound(born', c, o, t) /\ Issued(born', op[c].id, t)
    BY <1>1, <1>8, <2>1 DEF Bound
  <2>4. Moved(c, t, o) /\ t.managed = Held(c).managed
    BY <1>8 DEF o
  <2> QED
    BY <1>1, <1>3, <1>7, <1>8, <2>1, <2>2, <2>3, <2>4, MovedGoesOn
<1>9. CASE /\ op[c].kind = "tab_open"
           /\ \E p \in Pages \ s.pages :
                 Moved(c, [s EXCEPT !.pages = @ \cup {p}, !.active = p], [done EXCEPT !.pc = "settle"])
  <2>1. PICK p \in Pages \ s.pages :
               Moved(c, [s EXCEPT !.pages = @ \cup {p}, !.active = p], [done EXCEPT !.pc = "settle"])
    BY <1>9
  <2> PICK t : t = [s EXCEPT !.pages = @ \cup {p}, !.active = p]
    OBVIOUS
  <2>2. Cardinality(s.pages) < MaxPages
    BY <1>1, <1>2, <1>9 DEF Fits
  <2>3. /\ t \in Session /\ t.managed = s.managed /\ t.started /\ (t.grant <=> s.grant)
        /\ t.sent = s.sent /\ t.kept = s.kept /\ Issued(born, op[c].id, t) /\ Limited(spent.posts, t)
    <3> HIDE DEF s
    <3>1. /\ t \in Session /\ t.managed = s.managed /\ t.pages = s.pages \cup {p} /\ t.active = p
          /\ t.ref = s.ref /\ t.print = s.print /\ t.uploads = s.uploads /\ t.run = s.run
          /\ t.sent = s.sent /\ t.kept = s.kept /\ t.answers = s.answers
      BY <1>2, <2>1 DEF Session
    <3>2. t.started /\ (t.grant <=> s.grant)
      BY <1>2, <1>5 DEF Session
    <3>3. /\ \A q, b : Issued(q, b, s) => Issued(q, b, t)
          /\ \A n : Limited(n, s) => Limited(n, t)
      BY <1>2, <2>1, <2>2, <3>1, OpenedPage
    <3> QED
      BY <1>2, <3>1, <3>2, <3>3
  <2>4. op[c].kind \notin {"tab_switch", "tab_close"}
    BY <1>9
  <2>5. Moved(c, t, [done EXCEPT !.pc = "settle"])
    BY <2>1
  <2> QED
    BY <1>8, <2>3, <2>4, <2>5
<1>10. CASE /\ op[c].kind = "clear"
            /\ Moved(c, [EndedAction(s) EXCEPT !.clear = TRUE, !.kept = 0],
                     [done EXCEPT !.pc = "close", !.told = "Applied"])
  <2> DEFINE e == EndedAction(s)
             t == [e EXCEPT !.clear = TRUE, !.kept = 0]
             o == [done EXCEPT !.pc = "close", !.told = "Applied"]
  <2>1. e \in Session /\ Alike(s, e) /\ Limited(spent.posts, e)
    BY <1>2, <1>3, Flags
  <2>2. t \in Session /\ Alike(e, t) /\ t.sent = e.sent /\ t.answers = e.answers /\ t.kept = 0
    <3> HIDE DEF e
    <3>1. 0 \in Nat
      OBVIOUS
    <3> QED
      BY <2>1, <3>1 DEF Session, Alike
  <2>3. Alike(s, t) /\ Limited(spent.posts, t)
    BY <2>1, <2>2, BrowserAssumption DEF Alike, Limited
  <2>4. /\ o \in Operation /\ o.pc = "close" /\ o.kind = op[c].kind /\ o.id = op[c].id
        /\ o.posted = op[c].posted /\ o.touched = TRUE /\ o.told = "Applied"
    BY <1>4, <1>7 DEF Operation, Told
  <2>5. Moved(c, t, o)
    BY <1>10
  <2> HIDE DEF t, o, e
  <2>6. Fits(o, t)
    BY <1>5, <2>4 DEF Fits, InSelect
  <2>7. Bound(born', c, o, t) /\ Issued(born', op[c].id, t) /\ t.managed = Held(c).managed
    BY <1>1, <1>2, <2>3, <2>4, AlikeIssued DEF Bound, Alike
  <2> QED
    BY <1>1, <1>3, <1>7, <2>2, <2>3, <2>4, <2>5, <2>6, <2>7, MovedGoesOn
<1>11. CASE op[c].kind \in {"click", "submit"} /\ Moved(c, s, [done EXCEPT !.pc = "release"])
  <2> DEFINE o == [done EXCEPT !.pc = "release"]
  <2>1. /\ o \in Operation /\ o.pc = "release" /\ o.kind = op[c].kind /\ o.id = op[c].id
        /\ o.posted = op[c].posted /\ o.touched /\ o.ref = op[c].ref /\ o.seen = op[c].seen
    BY <1>4, <1>7, Onward
  <2>2. Moved(c, s, o)
    BY <1>11
  <2> HIDE DEF o
  <2>3. Fits(o, s)
    BY <1>5, <1>11, <2>1 DEF Fits
  <2>4. Bound(born', c, o, s) /\ Issued(born', op[c].id, s)
    BY <1>1, <1>2, <2>1 DEF Bound
  <2> QED
    BY <1>1, <1>2, <1>3, <1>7, <2>1, <2>2, <2>3, <2>4, MovedGoesOn
<1>12. CASE /\ op[c].kind \notin {"tab_open", "clear", "click", "submit"}
            /\ \E x \in Contents : Moved(c, [s EXCEPT !.doc[s.active] = x], [done EXCEPT !.pc = "settle"])
  <2>1. PICK x \in Contents : Moved(c, [s EXCEPT !.doc[s.active] = x], [done EXCEPT !.pc = "settle"])
    BY <1>12
  <2> DEFINE t == [s EXCEPT !.doc[s.active] = x]
  <2>2. /\ t \in Session /\ Alike(s, t) /\ t.started /\ (t.grant <=> s.grant)
        /\ t.sent = s.sent /\ t.kept = s.kept /\ Limited(spent.posts, t)
    BY <1>2, <1>5, ShownPage
  <2> HIDE DEF t
  <2>3. Issued(born, op[c].id, t) /\ t.managed = s.managed
    BY <1>2, <2>2, AlikeIssued DEF Alike
  <2>4. op[c].kind \notin {"tab_switch", "tab_close"}
    BY <1>1, <1>2 DEF Fits
  <2>5. Moved(c, t, [done EXCEPT !.pc = "settle"])
    BY <2>1 DEF t
  <2> QED
    BY <1>8, <2>2, <2>3, <2>4, <2>5
<1> QED
  BY <1>6, <1>9, <1>10, <1>11, <1>12

\* The mouse is released.
LEMMA ReleaseStep ==
    ASSUME BrowserInv, NEW c \in Callers, Release(c)
    PROVE  BrowserInv'
<1> DEFINE s == Held(c)
           o == [op[c] EXCEPT !.pc = "settle"]
<1>1. op[c].pc = "release" /\ op[c].pc \in Owning /\ UNCHANGED <<born, spent>>
  BY DEF Release, at, Owning, InSelect, Moved
<1>2. /\ s \in Session /\ op[c] \in Operation /\ Fits(op[c], s)
      /\ Issued(born, op[c].id, s) /\ Limited(spent.posts, s) /\ s.active \in Pages
  BY <1>1, Holding DEF Session
<1>3. Later
  BY <1>1, NothingNew DEF BrowserInv
<1>4. PICK x \in Contents : Moved(c, [s EXCEPT !.doc[s.active] = x], o)
  BY DEF Release
<1> DEFINE t == [s EXCEPT !.doc[s.active] = x]
<1>5. /\ t \in Session /\ Alike(s, t) /\ (t.started <=> s.started) /\ (t.grant <=> s.grant)
      /\ t.sent = s.sent /\ t.kept = s.kept /\ Limited(spent.posts, t)
  BY <1>2, ShownPage
<1>6. "settle" \in PCs /\ "settle" \in Owning \ {"retire"}
  BY DEF PCs, Owning, InSelect
<1>7. /\ o \in Operation /\ o.pc = "settle" /\ o.kind = op[c].kind /\ o.id = op[c].id
      /\ o.posted = op[c].posted /\ o.touched = op[c].touched
  BY <1>2, <1>6, Onward
<1>8. Moved(c, t, o)
  BY <1>4
<1> HIDE DEF t, o
<1>9. Fits(o, t)
  BY <1>1, <1>2, <1>5, <1>7 DEF Fits, InSelect
<1>10. Bound(born', c, o, t) /\ Issued(born', op[c].id, t) /\ t.managed = Held(c).managed
  BY <1>1, <1>2, <1>5, <1>7, AlikeIssued DEF Bound, Alike
<1> QED
  BY <1>1, <1>3, <1>5, <1>6, <1>7, <1>8, <1>9, <1>10, MovedGoesOn

\* The calls of the action and of its observation that fail: the action is ended, and
\* the session given back or torn down.
LEMMA FailsStep ==
    ASSUME BrowserInv, NEW c \in Callers, ActFails(c) \/ SettleFails(c) \/ FinishFails(c)
    PROVE  BrowserInv'
<1> DEFINE s == Held(c)
           e == EndedAction(s)
           x == [op[c] EXCEPT !.cut = IF op[c].touched THEN "lost" ELSE None]
<1>1. op[c].pc \in {"act", "type", "release", "settle", "tail"} /\ op[c].pc \in InSelect /\ op[c].pc \in Owning
  BY DEF ActFails, SettleFails, FinishFails, at, Owning, InSelect
<1>2. /\ s \in Session /\ op[c] \in Operation /\ Fits(op[c], s)
      /\ Issued(born, op[c].id, s) /\ Limited(spent.posts, s)
  BY <1>1, Holding
<1>3. spent.posts \in Nat
  BY DEF BrowserInv, Typed, Spent
<1>4. e \in Session /\ Alike(s, e) /\ Limited(spent.posts, e) /\ Quiet(e)
  BY <1>2, <1>3, Flags, EndedFlags
<1>5. \/ TearDown(c, e) \/ TearDown(c, s)
      \/ /\ sess' = [sess EXCEPT ![op[c].id] = e] /\ slot' = op[c].id
         /\ op' = [op EXCEPT ![c] = Replied(x, "NotApplied")]
         /\ UNCHANGED <<lock, dying, hung, born, spent>>
      \/ op[c].pc = "act" /\ PutBack(c, e, "Presumed") /\ UNCHANGED born
      \/ op[c].pc = "settle" /\ PutBack(c, e, "Applied") /\ UNCHANGED born
  BY DEF ActFails, SettleFails, FinishFails, at, Kind
<1>12. x \in Operation /\ x.touched = op[c].touched /\ (op[c].touched => x.cut = "lost")
  BY <1>2 DEF Operation
<1> HIDE DEF e, x
<1>6. CASE TearDown(c, e)
  BY <1>1, <1>4, <1>6, TearDownGoesOn
<1>7. CASE TearDown(c, s)
  <2>1. Alike(s, s)
    BY DEF Alike
  <2> QED
    BY <1>1, <1>2, <1>7, <2>1, TearDownGoesOn
<1>8. ASSUME NEW told \in {"Presumed", "Applied"}, PutBack(c, e, told), UNCHANGED born,
             told = "Applied" => op[c].touched
      PROVE  BrowserInv'
  <2>1. Later
    BY <1>8, NothingNew DEF PutBack, BrowserInv
  <2>2. Issued(born', op[c].id, e) /\ e.managed = Held(c).managed
    BY <1>2, <1>4, <1>8, AlikeIssued DEF Alike
  <2>3. told \in Told /\ (told \in {"NotApplied", "Observed"} => ~op[c].touched)
    BY <1>8 DEF Told
  <2> QED
    BY <1>1, <1>4, <1>8, <2>1, <2>2, <2>3, PutBackEnds
<1>9. CASE /\ sess' = [sess EXCEPT ![op[c].id] = e] /\ slot' = op[c].id
           /\ op' = [op EXCEPT ![c] = Replied(x, "NotApplied")]
           /\ UNCHANGED <<lock, dying, hung, born, spent>>
  <2> DEFINE o == Replied(x, "NotApplied")
  <2>1. "NotApplied" \in Told
    BY DEF Told
  <2>2. o \in Operation /\ o.pc = "idle" /\ o.id = 0
    BY <1>12, <2>1, Replying
  <2>3. Reported(o)
    BY <1>12, <2>1, ReplyHonest
  <2>4. op' = [op EXCEPT ![c] = o]
    BY <1>9
  <2>5. Later
    BY <1>9, NothingNew DEF BrowserInv
  <2>6. Issued(born', op[c].id, e) /\ e.managed = Held(c).managed
    BY <1>2, <1>4, <1>9, AlikeIssued DEF Alike
  <2> HIDE DEF o
  <2> QED
    BY <1>1, <1>4, <1>9, <2>2, <2>3, <2>4, <2>5, <2>6, PutBackStep
<1>10. CASE op[c].pc = "act" /\ PutBack(c, e, "Presumed") /\ UNCHANGED born
  BY <1>8, <1>10
<1>11. CASE op[c].pc = "settle" /\ PutBack(c, e, "Applied") /\ UNCHANGED born
  <2>1. op[c].touched
    BY <1>2, <1>11 DEF Fits
  <2> QED
    BY <1>8, <1>11, <2>1
<1> QED
  BY <1>5, <1>6, <1>7, <1>9, <1>10, <1>11

\* The page is observed after the action.
LEMMA SettleStep ==
    ASSUME BrowserInv, NEW c \in Callers, Settle(c)
    PROVE  BrowserInv'
<1> DEFINE s == Held(c)
           x == s.doc[s.active]
           d == [EndedAction(s) EXCEPT !.fatal = FALSE]
           e == IF op[c].kind \in {"tab_switch", "tab_close"} THEN s ELSE d
           o == [op[c] EXCEPT !.pc = "tail"]
<1>1. /\ op[c].pc = "settle" /\ op[c].pc \in Owning /\ Issue(op[c].id, s, x) /\ "Applied" \in Told
      /\ Moved(c, Rotated(e, x), o) \/ PutBack(c, Rotated(e, x), "Applied")
  BY DEF Settle, at, Owning, InSelect, Kind, Told
<1>2. /\ s \in Session /\ op[c] \in Operation /\ Fits(op[c], s) /\ op[c].id \in Nat
      /\ Issued(born, op[c].id, s) /\ Limited(spent.posts, s)
  BY <1>1, Holding
<1>3. spent.posts \in Nat /\ Typed /\ UNCHANGED spent
  BY <1>1 DEF BrowserInv, Typed, Spent, Moved, PutBack
<1>4. x \in Contents \cup {None}
  BY <1>2 DEF Session
<1>5. d \in Session /\ Alike(s, d) /\ Limited(spent.posts, d) /\ Quiet(d)
  <2> DEFINE f == EndedAction(s)
  <2>1. f \in Session /\ Alike(s, f) /\ Limited(spent.posts, f) /\ Quiet(f)
    BY <1>2, <1>3, Flags, EndedFlags
  <2> HIDE DEF f
  <2>2. d = [f EXCEPT !.fatal = FALSE]
    BY DEF f
  <2> HIDE DEF d
  <2>3. d \in Session /\ Alike(f, d) /\ d.kept = f.kept /\ d.sent = f.sent /\ d.answers = f.answers
    BY <2>1, <2>2 DEF Session, Alike
  <2>4. Quiet(d)
    BY <2>1, <2>2 DEF Session, Quiet
  <2> QED
    BY <2>1, <2>3, <2>4 DEF Alike, Limited
<1>6. op[c].touched /\ (op[c].kind \in {"tab_switch", "tab_close"} => Quiet(s))
      /\ op[c].posted <= 1 /\ (op[c].posted = 1 => op[c].kind \in External)
  BY <1>1, <1>2 DEF Fits
<1>7. e \in Session /\ Alike(s, e) /\ Limited(spent.posts, e) /\ Quiet(e)
  <2>1. Alike(s, s)
    BY DEF Alike
  <2> HIDE DEF d, s
  <2>2. e = s \/ e = d
    OBVIOUS
  <2> QED
    BY <1>2, <1>5, <1>6, <2>1
<1> HIDE DEF d, e, x
<1>8. Issued(born, op[c].id, e) /\ e.managed = s.managed /\ e.run = s.run /\ e.active = s.active
  BY <1>2, <1>7, AlikeIssued DEF Alike
<1>9. CASE PutBack(c, Rotated(e, x), "Applied")
  BY <1>1, <1>4, <1>6, <1>7, <1>8, <1>9, ObservedEnds
<1>10. CASE Moved(c, Rotated(e, x), o)
  <2> DEFINE t == Rotated(e, x)
  <2> HIDE DEF t, s
  <2>1. /\ t \in Session /\ Later /\ Issued(born', op[c].id, t) /\ t.managed = e.managed
        /\ Quiet(t) /\ Limited(spent.posts, t)
    BY <1>1, <1>2, <1>3, <1>4, <1>7, <1>8, Rotating DEF t
  <2>2. "tail" \in PCs /\ "tail" \in Owning \ {"retire"}
    BY DEF PCs, Owning, InSelect
  <2>3. /\ o \in Operation /\ o.pc = "tail" /\ o.kind = op[c].kind /\ o.id = op[c].id
        /\ o.posted = op[c].posted /\ o.touched = op[c].touched
    BY <1>2, <2>2, Onward
  <2> HIDE DEF o
  <2>4. Fits(o, t)
    BY <1>6, <2>1, <2>3 DEF Fits
  <2>5. Bound(born', c, o, t)
    BY <2>3 DEF Bound
  <2>6. t.managed = Held(c).managed /\ Moved(c, t, o)
    BY <1>8, <1>10, <2>1 DEF t, s
  <2> QED
    BY <1>1, <2>1, <2>2, <2>3, <2>4, <2>5, <2>6, MovedGoesOn
<1> QED
  BY <1>1, <1>9, <1>10

\* The download is kept, and the harness has one more.
LEMMA QuarantineStep ==
    ASSUME BrowserInv, NEW c \in Callers, Quarantine(c)
    PROVE  BrowserInv'
<1> DEFINE s == Held(c)
           e == EndedAction(s)
           t == [e EXCEPT !.kept = @ + 1]
           o == [op[c] EXCEPT !.pc = "tail"]
<1>1. /\ op[c].pc = "settle" /\ op[c].pc \in Owning /\ op[c].kind = "download"
      /\ UNCHANGED <<born, spent>> /\ Moved(c, t, o)
  BY DEF Quarantine, at, Owning, InSelect, Kind, Moved
<1>2. /\ s \in Session /\ op[c] \in Operation /\ Fits(op[c], s)
      /\ Issued(born, op[c].id, s) /\ Limited(spent.posts, s)
  BY <1>1, Holding
<1>3. spent.posts \in Nat /\ Later
  BY <1>1, NothingNew DEF BrowserInv, Typed, Spent
<1>4. e \in Session /\ Alike(s, e) /\ Limited(spent.posts, e) /\ Quiet(e) /\ e.kept = s.kept
  BY <1>2, <1>3, Flags, EndedFlags
<1> HIDE DEF e
<1>5. t \in Session /\ Alike(e, t) /\ t.sent = e.sent /\ t.answers = e.answers /\ t.kept = e.kept + 1
  BY <1>4 DEF Session, Alike
<1>6. Quiet(t)
  BY <1>4 DEF Session, Quiet
<1>7. op[c].touched /\ s.kept < MaxDownloads /\ s.kept \in Nat /\ MaxDownloads \in Nat
      /\ op[c].posted <= 1 /\ (op[c].posted = 1 => op[c].kind \in External)
  BY <1>1, <1>2, BrowserAssumption DEF Fits, InSelect, Session
<1>8. "tail" \in PCs /\ "tail" \in Owning \ {"retire"}
  BY DEF PCs, Owning, InSelect
<1>9. /\ o \in Operation /\ o.pc = "tail" /\ o.kind = op[c].kind /\ o.id = op[c].id
      /\ o.posted = op[c].posted /\ o.touched = op[c].touched
  BY <1>2, <1>8, Onward
<1> HIDE DEF t, o
<1>10. Limited(spent.posts, t)
  BY <1>4, <1>5, <1>7 DEF Limited, Alike
<1>11. Fits(o, t)
  BY <1>6, <1>7, <1>9 DEF Fits
<1>12. Bound(born', c, o, t) /\ Issued(born', op[c].id, t) /\ t.managed = Held(c).managed
  BY <1>1, <1>2, <1>4, <1>5, <1>9, AlikeIssued DEF Bound, Alike
<1> QED
  BY <1>1, <1>3, <1>5, <1>8, <1>9, <1>10, <1>11, <1>12, MovedGoesOn

\* The last awaits of an operation.
LEMMA FinishStep ==
    ASSUME BrowserInv, NEW c \in Callers, Finish(c)
    PROVE  BrowserInv'
<1> DEFINE x == Held(c).doc[Held(c).active]
<1>1. op[c].pc = "tail" /\ op[c].pc \in Owning /\ "Applied" \in Told
  BY DEF Finish, at, Owning, InSelect, Told
<1>2. /\ Held(c) \in Session /\ Fits(op[c], Held(c))
      /\ Issued(born, op[c].id, Held(c)) /\ Limited(spent.posts, Held(c))
  BY <1>1, Holding
<1>3. x \in Contents \cup {None}
  BY <1>2 DEF Session
<1>4. Quiet(Held(c)) /\ op[c].touched
  BY <1>1, <1>2 DEF Fits
<1>5. \/ Issue(op[c].id, Held(c), x) /\ PutBack(c, Rotated(Held(c), x), "Applied")
      \/ UNCHANGED born /\ PutBack(c, Held(c), "Applied")
  BY DEF Finish
<1> HIDE DEF x
<1>6. CASE Issue(op[c].id, Held(c), x) /\ PutBack(c, Rotated(Held(c), x), "Applied")
  BY <1>1, <1>2, <1>3, <1>4, <1>6, ObservedEnds
<1>7. CASE UNCHANGED born /\ PutBack(c, Held(c), "Applied")
  <2>1. Later
    BY <1>7, NothingNew DEF PutBack, BrowserInv
  <2>2. Issued(born', op[c].id, Held(c))
    BY <1>2, <1>7
  <2> QED
    BY <1>1, <1>2, <1>4, <1>7, <2>1, <2>2, PutBackEnds
<1> QED
  BY <1>5, <1>6, <1>7

-----------------------------------------------------------------------------
(* The ends that do not wait for Chrome *)

\* A deadline or a cancellation: the flag that the action has begun decides.
LEMMA CutStep ==
    ASSUME BrowserInv, NEW c \in Callers, Cut(c)
    PROVE  BrowserInv'
<1> DEFINE s == Held(c)
           x == [op[c] EXCEPT !.cut = CutAt(c)]
           t == [s EXCEPT !.started = FALSE]
<1>1. op[c].pc \in InSelect /\ op[c].pc \in Owning /\ UNCHANGED <<born, spent, lock, dying, hung>>
  BY DEF Cut, Owning
<1>2. /\ s \in Session /\ op[c] \in Operation /\ Fits(op[c], s) /\ op[c].id \in Ids
      /\ Issued(born, op[c].id, s) /\ Limited(spent.posts, s)
  BY <1>1, Holding
<1>3. Later /\ spent.posts \in Nat /\ spent'.browsers = spent.browsers
  BY <1>1, NothingNew DEF BrowserInv, Typed, Spent
<1>4. CutAt(c) \in InSelect \cup {"tab", "lost", None}
  BY <1>1 DEF CutAt
<1>5. /\ x \in Operation /\ x.kind = op[c].kind /\ x.id = op[c].id /\ x.posted = op[c].posted
      /\ x.touched = op[c].touched /\ x.cut = CutAt(c)
  BY <1>2, <1>4 DEF Operation
<1>6. t \in Session /\ Alike(s, t) /\ t.kept = s.kept /\ t.sent = s.sent /\ t.answers = s.answers
  BY <1>2 DEF Session, Alike
<1>7. ~t.started /\ (t.grant <=> s.grant) /\ (t.taking <=> s.taking)
  BY <1>2 DEF Session
<1>8. sess' = [sess EXCEPT ![op[c].id] = t]
  BY <1>2 DEF Cut, BrowserInv, Typed, Held
<1>9. \/ s.started /\ op' = [op EXCEPT ![c] = [x EXCEPT !.pc = "close", !.told = "Indeterminate"]] /\ slot' = slot
      \/ ~s.started /\ op' = [op EXCEPT ![c] = Replied(x, "NotApplied")] /\ slot' = op[c].id
  BY DEF Cut
<1>10. Limited(spent.posts, t) /\ Issued(born', op[c].id, t) /\ t.managed = Held(c).managed
  BY <1>1, <1>2, <1>6, AlikeIssued DEF Limited, Alike
<1> HIDE DEF t, x
<1>11. CASE s.started /\ op' = [op EXCEPT ![c] = [x EXCEPT !.pc = "close", !.told = "Indeterminate"]] /\ slot' = slot
  <2> DEFINE o == [x EXCEPT !.pc = "close", !.told = "Indeterminate"]
  <2>1. "close" \in PCs /\ "close" \in Owning \ {"retire"}
    BY DEF PCs, Owning
  <2>2. /\ o \in Operation /\ o.pc = "close" /\ o.id = op[c].id /\ o.told = "Indeterminate"
        /\ o.posted = op[c].posted /\ o.kind = op[c].kind
    BY <1>5, <2>1 DEF Operation, Told
  <2>3. op' = [op EXCEPT ![c] = o]
    BY <1>11
  <2> HIDE DEF o
  <2>4. Fits(o, t)
    BY <1>2, <2>2 DEF Fits, InSelect
  <2>5. Bound(born', c, o, t) /\ Issued(born', o.id, t) /\ Limited(spent'.posts, t)
    BY <1>1, <1>10, <2>2 DEF Bound
  <2> QED
    BY <1>1, <1>3, <1>6, <1>8, <1>10, <1>11, <2>1, <2>2, <2>3, <2>4, <2>5, HeldStep
<1>12. CASE ~s.started /\ op' = [op EXCEPT ![c] = Replied(x, "NotApplied")] /\ slot' = op[c].id
  <2> DEFINE o == Replied(x, "NotApplied")
  <2>1. "NotApplied" \in Told
    BY DEF Told
  <2>2. op[c].touched => op[c].pc = "tail" \/ op[c].kind \in {"tab_switch", "tab_close"}
    BY <1>1, <1>2, <1>12 DEF Fits, InSelect
  <2>3. op[c].touched => x.cut \in {"tail", "tab"}
    BY <1>5, <2>2 DEF CutAt, Kind
  <2>4. o \in Operation /\ o.pc = "idle" /\ o.id = 0
    BY <1>5, <2>1, Replying
  <2>5. Reported(o)
    BY <1>5, <2>1, <2>3, ReplyHonest
  <2>6. Quiet(t)
    <3>1. ~s.grant /\ ~s.taking
      BY <1>1, <1>2, <1>12 DEF Fits, InSelect, Quiet
    <3> QED
      BY <1>7, <3>1 DEF Quiet
  <2>7. op' = [op EXCEPT ![c] = o]
    BY <1>12
  <2> HIDE DEF o
  <2> QED
    BY <1>1, <1>3, <1>6, <1>8, <1>10, <1>12, <2>4, <2>5, <2>6, <2>7, PutBackStep
<1> QED
  BY <1>9, <1>11, <1>12

\* The ends that take Chrome with them.
LEMMA FreesStep ==
    ASSUME BrowserInv, NEW c \in Callers, Retire(c) \/ LoadFails(c) \/ Close(c) \/ Abandon(c)
    PROVE  BrowserInv'
<1>1. op[c].pc \in Owning /\ Freed(op[c].id) /\ UNCHANGED <<slot, dying, born, spent>>
  BY DEF Retire, LoadFails, Close, Abandon, at, Owning
<1>2. op[c] \in Operation /\ Fits(op[c], Held(c))
  BY <1>1, Holding
<1>3. ASSUME NEW told \in Told, op' = [op EXCEPT ![c] = Replied(op[c], told)],
             told \in {"NotApplied", "Observed"} => ~op[c].touched, told = "Applied" => op[c].touched
      PROVE  BrowserInv'
  <2> DEFINE o == Replied(op[c], told)
  <2>1. o \in Operation /\ o.pc = "idle" /\ o.id = 0 /\ Reported(o)
    BY <1>2, <1>3, Replying, ReplyHonest
  <2>2. op' = [op EXCEPT ![c] = o]
    BY <1>3
  <2> HIDE DEF o
  <2> QED
    BY <1>1, <2>1, <2>2, FreedStep
<1>4. CASE Retire(c)
  <2> DEFINE o == [op[c] EXCEPT !.pc = "boot", !.id = 0]
  <2>1. op[c].pc = "retire" /\ op[c].posted = 0 /\ ~op[c].touched
    BY <1>2, <1>4 DEF Retire, at, Fits
  <2>2. 0 \in Nat /\ "boot" \in PCs
    BY DEF PCs
  <2>3. /\ o \in Operation /\ o.pc = "boot" /\ o.id = 0 /\ o.posted = op[c].posted /\ o.kind = op[c].kind
        /\ o.touched = op[c].touched
    BY <1>2, <2>2 DEF Operation
  <2>4. op' = [op EXCEPT ![c] = o]
    BY <1>4 DEF Retire, BrowserInv, Typed
  <2> HIDE DEF o
  <2>5. \A s : Fits(o, s)
    BY <2>1, <2>3 DEF Fits, InSelect
  <2> QED
    BY <1>1, <2>1, <2>3, <2>4, <2>5, FreedStep
<1>5. CASE LoadFails(c)
  <2>1. op' = [op EXCEPT ![c] = Replied(op[c], "NotApplied")] /\ ~op[c].touched /\ "NotApplied" \in Told
    BY <1>2, <1>5 DEF LoadFails, at, Fits, Told
  <2> QED
    BY <1>3, <2>1
<1>6. CASE Close(c)
  <2>1. op' = [op EXCEPT ![c] = Replied(op[c], op[c].told)]
    BY <1>6 DEF Close
  <2>2. op[c].told \in {"Applied", "Indeterminate"} /\ (op[c].told = "Applied" => op[c].touched)
    BY <1>2, <1>6 DEF Close, at, Fits
  <2>3. op[c].told \in Told
    BY <2>2 DEF Told
  <2> QED
    BY <1>3, <2>1, <2>2, <2>3
<1>7. CASE Abandon(c)
  <2>1. op' = [op EXCEPT ![c] = Replied(op[c], "Indeterminate")] /\ "Indeterminate" \in Told
    BY <1>7 DEF Abandon, Told
  <2> QED
    BY <1>3, <2>1
<1> QED
  BY <1>4, <1>5, <1>6, <1>7

-----------------------------------------------------------------------------
(* The beginnings *)

\* A new operation that takes the session.
LEMMA Taking ==
    ASSUME BrowserInv, NEW c, NEW k \in AllKinds, NEW r \in Nat, NEW p \in PCs
    PROVE  /\ Taken(c, k, r, p) \in Operation /\ Taken(c, k, r, p).pc = p /\ Taken(c, k, r, p).kind = k
           /\ Taken(c, k, r, p).id = slot /\ Taken(c, k, r, p).ref = r /\ Taken(c, k, r, p).posted = 0
           /\ ~Taken(c, k, r, p).touched
<1>1. slot \in Nat /\ 0 \in Nat
  BY BrowserAssumption DEF BrowserInv, Typed, Ids
<1> QED
  BY <1>1 DEF Taken, Idle, Operation

\* The interactions take the session to observe its page.
LEMMA BeginObservingStep ==
    ASSUME BrowserInv, NEW c \in Callers, NEW k \in Kinds[c], NEW r \in Refs, BeginObserving(c, k, r)
    PROVE  BrowserInv'
<1> DEFINE s == sess[slot]
           t == [s EXCEPT !.uploads = IF k = "upload" THEN @ \ {r} ELSE @]
           o == Taken(c, k, r, "observe")
<1>1. /\ slot # 0 /\ Free(c) /\ sess' = [sess EXCEPT ![slot] = t] /\ op' = Asked(c, o) /\ slot' = 0 /\ Counted
      /\ UNCHANGED <<lock, dying, hung, born>> /\ (k = "download" => s.kept < MaxDownloads)
  BY DEF BeginObserving, Take, Admits
<1>2. s \in Session /\ Quiet(s) /\ Issued(born, slot, s) /\ Limited(spent.posts, s)
  BY <1>1, Keeping
<1>3. k \in AllKinds /\ r \in Nat /\ "observe" \in PCs /\ "observe" \in Owning \ {"retire"}
  BY BrowserAssumption DEF Refs, PCs, Owning, InSelect
<1>4. /\ o \in Operation /\ o.pc = "observe" /\ o.kind = k /\ o.id = slot /\ o.posted = 0 /\ ~o.touched
  BY <1>3, Taking
<1>5. /\ t \in Session /\ t.run = s.run /\ t.managed = s.managed /\ t.pages = s.pages /\ t.active = s.active
      /\ t.ref = s.ref /\ t.print = s.print /\ t.uploads \subseteq s.uploads
      /\ t.kept = s.kept /\ t.sent = s.sent /\ t.answers = s.answers
  BY <1>2 DEF Session
<1>6. Quiet(t)
  BY <1>2 DEF Session, Quiet
<1> HIDE DEF o, t
<1>7. Issued(born, slot, t) /\ Limited(spent.posts, t)
  BY <1>2, <1>5 DEF Issued, Limited
<1>8. Fits(o, t)
  BY <1>1, <1>4, <1>5, <1>6 DEF Fits
<1>9. Bound(born, c, o, t)
  BY <1>4 DEF Bound
<1> QED
  BY <1>1, <1>3, <1>4, <1>5, <1>7, <1>8, <1>9, TakeStep

\* tab_open and clear begin their action at once.
LEMMA BeginActionStep ==
    ASSUME BrowserInv, NEW c \in Callers, BeginTabOpen(c) \/ BeginClear(c)
    PROVE  BrowserInv'
<1> DEFINE s == sess[slot]
           t == Begun(s)
<1>1. PICK k \in {"tab_open", "clear"} :
        /\ slot # 0 /\ Free(c) /\ sess' = [sess EXCEPT ![slot] = t] /\ op' = Asked(c, Taken(c, k, 0, "act"))
        /\ slot' = 0 /\ Counted /\ UNCHANGED <<lock, dying, hung, born>>
        /\ (k = "tab_open" => Cardinality(s.pages) < MaxPages)
  BY DEF BeginTabOpen, BeginClear, Take
<1> DEFINE o == Taken(c, k, 0, "act")
<1>2. s \in Session /\ Quiet(s) /\ Issued(born, slot, s) /\ Limited(spent.posts, s) /\ spent.posts \in Nat
  BY <1>1, Keeping DEF BrowserInv, Typed, Spent
<1>3. k \in AllKinds /\ 0 \in Nat /\ "act" \in PCs /\ "act" \in Owning \ {"retire"} /\ k \notin RefKinds
  BY <1>1 DEF AllKinds, TabKinds, PCs, Owning, InSelect, RefKinds, Pointing, Granted
<1>4. o \in Operation /\ o.pc = "act" /\ o.kind = k /\ o.id = slot /\ o.posted = 0 /\ ~o.touched
  BY <1>3, Taking
<1>5. t \in Session /\ Alike(s, t) /\ Limited(spent.posts, t)
  BY <1>2, Flags
<1>6. t.started /\ ~t.grant
  BY <1>2, BegunFlags DEF Quiet
<1>7. op' = Asked(c, o)
  BY <1>1
<1> HIDE DEF o, t
<1>8. Issued(born, slot, t) /\ t.managed = s.managed
  BY <1>2, <1>5, AlikeIssued DEF Alike
<1>9. Fits(o, t)
  BY <1>1, <1>4, <1>5, <1>6 DEF Fits, Alike
<1>10. Bound(born, c, o, t)
  BY <1>3, <1>4 DEF Bound
<1> QED
  BY <1>1, <1>3, <1>4, <1>5, <1>7, <1>8, <1>9, <1>10, TakeStep

\* tab_switch and tab_close change the active page before they observe it.
LEMMA BeginTabStep ==
    ASSUME BrowserInv, NEW c \in Callers, NEW p \in Pages, BeginTabSwitch(c, p) \/ BeginTabClose(c, p)
    PROVE  BrowserInv'
<1> DEFINE s == sess[slot]
           o(k) == [Taken(c, k, 0, "settle") EXCEPT !.touched = TRUE]
<1>1. slot # 0 /\ Free(c) /\ slot' = 0 /\ Counted /\ UNCHANGED <<lock, dying, hung, born>>
  BY DEF BeginTabSwitch, BeginTabClose, Take
<1>2. s \in Session /\ Quiet(s) /\ Issued(born, slot, s) /\ Limited(spent.posts, s)
  BY <1>1, Keeping
<1>3. /\ 0 \in Nat /\ "settle" \in PCs /\ "settle" \in Owning \ {"retire"}
      /\ {"tab_switch", "tab_close"} \subseteq AllKinds
  BY DEF AllKinds, TabKinds, PCs, Owning, InSelect
<1>4. ASSUME NEW k \in {"tab_switch", "tab_close"}, NEW t \in Session, Quiet(t), t.managed = s.managed,
             Issued(born, slot, t), Limited(spent.posts, t),
             sess' = [sess EXCEPT ![slot] = t], op' = Asked(c, o(k))
      PROVE  BrowserInv'
  <2> DEFINE x == Taken(c, k, 0, "settle")
             y == [x EXCEPT !.touched = TRUE]
  <2>1. x \in Operation /\ x.pc = "settle" /\ x.kind = k /\ x.id = slot /\ x.posted = 0
    BY <1>3, Taking
  <2> HIDE DEF x
  <2>2. y \in Operation /\ y.pc = "settle" /\ y.kind = k /\ y.id = slot /\ y.posted = 0 /\ y.touched
    BY <2>1 DEF Operation
  <2>3. op' = Asked(c, y)
    BY <1>4 DEF x
  <2> HIDE DEF y
  <2>4. Fits(y, t)
    BY <1>4, <2>2 DEF Fits, Quiet
  <2>5. Bound(born, c, y, t)
    BY <2>2 DEF Bound
  <2> QED
    BY <1>1, <1>3, <1>4, <2>2, <2>3, <2>4, <2>5, TakeStep
<1>5. CASE BeginTabSwitch(c, p)
  <2> DEFINE t == [s EXCEPT !.active = p]
  <2>1. sess' = [sess EXCEPT ![slot] = t] /\ op' = Asked(c, o("tab_switch")) /\ p \in s.pages
    BY <1>5 DEF BeginTabSwitch, Take
  <2>2. /\ t \in Session /\ t.run = s.run /\ t.managed = s.managed /\ t.pages = s.pages /\ t.active = p
        /\ t.ref = s.ref /\ t.print = s.print /\ t.uploads = s.uploads
        /\ t.kept = s.kept /\ t.sent = s.sent /\ t.answers = s.answers
    BY <1>2 DEF Session
  <2>3. Quiet(t)
    BY <1>2 DEF Session, Quiet
  <2> HIDE DEF t, o
  <2>4. Issued(born, slot, t) /\ Limited(spent.posts, t)
    BY <1>2, <2>1, <2>2 DEF Issued, Limited
  <2> QED
    BY <1>4, <2>1, <2>2, <2>3, <2>4
<1>6. CASE BeginTabClose(c, p)
  <2>1. PICK q \in s.pages \ {p} :
          /\ sess' = [sess EXCEPT ![slot] =
                        [s EXCEPT !.pages = @ \ {p}, !.active = q, !.ref[p] = 0, !.print[p] = None]]
          /\ op' = Asked(c, o("tab_close"))
    BY <1>6 DEF BeginTabClose, Take
  <2> DEFINE t == [s EXCEPT !.pages = @ \ {p}, !.active = q, !.ref[p] = 0, !.print[p] = None]
  <2>2. /\ t \in Session /\ t.run = s.run /\ t.managed = s.managed /\ t.pages = s.pages \ {p} /\ t.active = q
        /\ t.uploads = s.uploads
        /\ t.kept = s.kept /\ t.sent = s.sent /\ t.answers = s.answers
    BY <1>2, <2>1 DEF Session
  <2>3. t.ref[p] = 0 /\ \A x \in Pages : x # p => t.ref[x] = s.ref[x] /\ t.print[x] = s.print[x]
    BY <1>2 DEF Session
  <2>4. Quiet(t)
    BY <1>2 DEF Session, Quiet
  <2>5. sess' = [sess EXCEPT ![slot] = t]
    BY <2>1
  <2> HIDE DEF t, o
  <2>6. Cardinality(t.pages) <= MaxPages
    <3>1. IsFiniteSet(s.pages)
      BY <1>2, FS_Subset, BrowserAssumption DEF Session
    <3>2. /\ IsFiniteSet(t.pages) /\ Cardinality(t.pages) <= Cardinality(s.pages)
          /\ Cardinality(t.pages) \in Nat /\ Cardinality(s.pages) \in Nat
      <4>1. t.pages \subseteq s.pages
        BY <2>2
      <4> QED
        BY <3>1, <4>1, FS_Subset, FS_CardinalityType
    <3> QED
      BY <1>2, <3>2, BrowserAssumption DEF Limited
  <2>7. Limited(spent.posts, t)
    BY <1>2, <2>1, <2>2, <2>6 DEF Limited
  <2>8. Issued(born, slot, t)
    <3>1. Len(born) \in Nat
      BY DEF BrowserInv, Typed
    <3> QED
      BY <1>2, <2>2, <2>3, <3>1 DEF Issued
  <2> QED
    BY <1>4, <2>1, <2>2, <2>4, <2>5, <2>7, <2>8
<1> QED
  BY <1>5, <1>6

\* What a caller is asked for replaces its report; those of the others are forgotten.
LEMMA AskedIdle ==
    ASSUME BrowserInv, NEW c \in Callers, NEW o \in Operation, Free(c), op' = Asked(c, o),
           o.pc = "idle", o.id = 0, Reported(o)
    PROVE  /\ op' \in [Callers -> Operation]
           /\ \A d \in Callers : op'[d].pc = "idle" /\ op'[d].id = 0 /\ Reported(op'[d])
<1>1. Idle \in Operation /\ Idle.pc = "idle" /\ Idle.id = 0 /\ Reported(Idle)
  BY IdleReported
<1>2. \A d \in Callers : op'[d] = o \/ op'[d] = Idle
  BY DEF Free, Asked
<1>3. op' \in [Callers -> Operation]
  BY <1>1 DEF Free, Asked
<1> QED
  BY <1>1, <1>2, <1>3

\* The calls that await nothing.
LEMMA AtOnceStep ==
    ASSUME BrowserInv, NEW c \in Callers,
           Promote(c) \/ \E r \in Refs : Authorize(c, r) \/ UploadRefused(c, r)
    PROVE  BrowserInv'
<1> DEFINE s == sess[slot]
<1>1. slot # 0 /\ UNCHANGED <<slot, lock, dying, hung, born>>
  BY DEF Promote, Authorize, UploadRefused
<1>2. s \in Session /\ Quiet(s) /\ Issued(born, slot, s) /\ Limited(spent.posts, s)
  BY <1>1, Keeping
<1>3. Counted => spent' \in Spent /\ spent'.posts = spent.posts /\ spent'.browsers = spent.browsers
  BY DEF Counted, BrowserInv, Typed, Spent
<1>4. ASSUME NEW t \in Session, sess' = [sess EXCEPT ![slot] = t], Quiet(t), t.managed = s.managed,
             Issued(born, slot, t), Limited(spent.posts, t), Counted,
             NEW o \in Operation, op' = Asked(c, o), Free(c), o.pc = "idle", o.id = 0, Reported(o)
      PROVE  BrowserInv'
  <2>1. /\ op' \in [Callers -> Operation]
        /\ \A d \in Callers : op'[d].pc = "idle" /\ op'[d].id = 0 /\ Reported(op'[d])
    BY <1>4, AskedIdle
  <2> QED
    BY <1>1, <1>3, <1>4, <2>1, SlotStep
<1>5. CASE Promote(c)
  <2> DEFINE t == [s EXCEPT !.kept = @ - 1]
             o == [Idle EXCEPT !.kind = "promote", !.told = "Applied", !.touched = TRUE]
  <2>1. sess' = [sess EXCEPT ![slot] = t] /\ op' = Asked(c, o) /\ Free(c) /\ Counted
    BY <1>5, <1>2, Keeping DEF Promote, BrowserInv, Typed
  <2>2. s.kept \in Nat /\ s.kept - 1 \in Nat /\ MaxDownloads \in Nat
    BY <1>2, <1>5, BrowserAssumption DEF Promote, Session
  <2>3. t \in Session /\ Alike(s, t) /\ t.kept = s.kept - 1 /\ t.sent = s.sent /\ t.answers = s.answers
    BY <1>2, <2>2 DEF Session, Alike
  <2>4. Quiet(t)
    BY <1>2 DEF Session, Quiet
  <2>5. "promote" \in AllKinds /\ "Applied" \in Told
    BY DEF AllKinds, Told
  <2>6. /\ o \in Operation /\ o.pc = "idle" /\ o.id = 0 /\ o.posted = 0 /\ o.told = "Applied" /\ o.touched
    BY <2>5, IdleReported DEF Operation, Reported
  <2> HIDE DEF t, o
  <2>7. Reported(o)
    BY <2>6 DEF Reported
  <2>8. Issued(born, slot, t) /\ Limited(spent.posts, t) /\ t.managed = s.managed
    BY <1>2, <2>2, <2>3, AlikeIssued DEF Limited, Alike
  <2> QED
    BY <1>4, <2>1, <2>3, <2>4, <2>6, <2>7, <2>8
<1>6. ASSUME NEW r \in Refs, NEW u \in SUBSET Refs
      PROVE  LET t == [s EXCEPT !.uploads = u] IN
             t \in Session /\ Quiet(t) /\ t.managed = s.managed /\ Issued(born, slot, t) /\ Limited(spent.posts, t)
  <2> DEFINE t == [s EXCEPT !.uploads = u]
  <2>1. Len(born) \in Nat /\ u \in SUBSET Nat
    BY <1>6 DEF BrowserInv, Typed, Refs
  <2>2. /\ t \in Session /\ t.run = s.run /\ t.managed = s.managed /\ t.pages = s.pages /\ t.active = s.active
        /\ t.ref = s.ref /\ t.print = s.print /\ t.uploads = u
        /\ t.kept = s.kept /\ t.sent = s.sent /\ t.answers = s.answers
    BY <1>2, <2>1 DEF Session
  <2>3. Quiet(t)
    BY <1>2 DEF Session, Quiet
  <2> HIDE DEF t
  <2>4. Issued(born, slot, t) /\ Limited(spent.posts, t)
    BY <1>2, <1>6, <2>2 DEF Issued, Limited, Refs
  <2> QED
    BY <2>2, <2>3, <2>4 DEF t
<1>7. ASSUME NEW r \in Refs, Authorize(c, r) PROVE BrowserInv'
  <2> DEFINE u == s.uploads \cup {r}
             t == [s EXCEPT !.uploads = u]
  <2>1. sess' = [sess EXCEPT ![slot] = t] /\ UNCHANGED <<op, spent>>
    BY <1>1, <1>7, Keeping DEF Authorize, BrowserInv, Typed
  <2>2. u \in SUBSET Refs
    BY <1>2 DEF Issued, Refs
  <2> HIDE DEF u
  <2>3. t \in Session /\ Quiet(t) /\ t.managed = s.managed /\ Issued(born, slot, t) /\ Limited(spent.posts, t)
    BY <1>6, <2>2
  <2>4. /\ op' \in [Callers -> Operation] /\ spent' \in Spent /\ spent'.posts = spent.posts
        /\ spent'.browsers = spent.browsers
    BY <2>1 DEF BrowserInv, Typed
  <2>5. \A d \in Callers : op'[d].pc = "idle" /\ op'[d].id = 0 /\ Reported(op'[d])
    BY <1>1, <2>1 DEF BrowserInv, Alone, Owned, Orderly, at, Owning, InSelect
  <2> HIDE DEF t
  <2> QED
    BY <1>1, <2>1, <2>3, <2>4, <2>5, SlotStep
<1>8. ASSUME NEW r \in Refs, UploadRefused(c, r) PROVE BrowserInv'
  <2> DEFINE u == s.uploads \ {r}
             t == [s EXCEPT !.uploads = u]
             o == [Idle EXCEPT !.kind = "upload", !.told = "NotApplied"]
  <2>1. sess' = [sess EXCEPT ![slot] = t] /\ op' = Asked(c, o) /\ Free(c) /\ Counted
    BY <1>1, <1>8, Keeping DEF UploadRefused, BrowserInv, Typed
  <2>2. u \in SUBSET Refs
    BY <1>2 DEF Issued, Refs
  <2> HIDE DEF u
  <2>3. t \in Session /\ Quiet(t) /\ t.managed = s.managed /\ Issued(born, slot, t) /\ Limited(spent.posts, t)
    BY <1>6, <2>2
  <2>4. "upload" \in AllKinds /\ "NotApplied" \in Told
    BY DEF AllKinds, RefKinds, Granted, Told
  <2>5. ~Idle.touched
    BY DEF Idle
  <2>6. o \in Operation /\ o.pc = "idle" /\ o.id = 0 /\ o.posted = 0 /\ o.told = "NotApplied" /\ ~o.touched
    BY <2>4, <2>5, IdleReported DEF Operation, Reported
  <2> HIDE DEF t, o
  <2>7. Reported(o)
    BY <2>6 DEF Reported
  <2> QED
    BY <1>4, <2>1, <2>3, <2>6, <2>7
<1> QED
  BY <1>5, <1>7, <1>8

\* navigate takes out what there is, to tear it down first.
LEMMA NavigateStep ==
    ASSUME BrowserInv, NEW c \in Callers, Navigate(c)
    PROVE  BrowserInv'
<1> DEFINE p == IF slot = 0 THEN "boot" ELSE "retire"
           o == [Idle EXCEPT !.kind = "navigate", !.id = slot, !.pc = p]
<1>1. /\ Free(c) /\ spent.browsers < MaxBrowsers /\ op' = Asked(c, o) /\ slot' = 0 /\ Counted
      /\ UNCHANGED <<sess, lock, dying, hung, born>>
  BY DEF Navigate
<1>2. \A d \in Callers : at(d, "idle") /\ op[d].id = 0
  BY <1>1 DEF BrowserInv, Owned, Free, at, Owning, InSelect
<1>3. Idle \in Operation /\ Idle.pc = "idle" /\ Idle.id = 0 /\ Reported(Idle) /\ ~Idle.touched
  BY IdleReported DEF Idle
<1>4. spent' \in Spent /\ spent'.posts = spent.posts /\ spent'.browsers = spent.browsers
  BY <1>1 DEF Counted, BrowserInv, Typed, Spent
<1>5. slot \in Nat /\ p \in PCs /\ "navigate" \in AllKinds
  BY BrowserAssumption DEF BrowserInv, Typed, Ids, PCs, Owning, AllKinds
<1>6. o \in Operation /\ o.pc = p /\ o.kind = "navigate" /\ o.id = slot /\ o.posted = 0 /\ ~o.touched
  BY <1>3, <1>5 DEF Operation, Reported
<1>7. (slot = 0 => o.pc = "boot") /\ (slot # 0 => o.pc = "retire")
  BY <1>6
<1> HIDE DEF o, p
<1>8. op'[c] = o /\ \A d \in Callers : d # c => op'[d] = Idle
  BY <1>1, <1>2 DEF Asked
<1>9. Typed'
  <2>1. op' \in [Callers -> Operation]
    BY <1>1, <1>2, <1>3, <1>6 DEF Asked
  <2> QED
    BY <1>1, <1>4, <2>1 DEF BrowserInv, Typed
<1>10. Alone'
  BY <1>1, <1>3, <1>8 DEF Alone, at
<1>11. Owned'
  <2>1. slot # 0 => slot \in Ids
    BY DEF BrowserInv, Typed
  <2>2. \A d \in Callers : IF op'[d].pc \in Owning THEN op'[d].id \in Ids \ dying' /\ sess'[op'[d].id] # None
                           ELSE op'[d].id = 0
    BY <1>1, <1>3, <1>6, <1>7, <1>8, <2>1 DEF Owning, InSelect, BrowserInv, Owned
  <2>3. \A x \in Ids : sess'[x] # None => x = slot' \/ x \in dying' \/ \E d \in Callers : op'[d].id = x
    <3>1. \A x \in Ids : x # 0
      BY DEF Ids
    <3> QED
      BY <1>1, <1>2, <1>6, <1>8, <3>1 DEF BrowserInv, Owned
  <2>4. /\ \A x \in Ids : x > spent'.browsers => sess'[x] = None
        /\ \A x \in dying' : sess'[x] # None
        /\ slot' = 0
    BY <1>1, <1>4 DEF BrowserInv, Owned
  <2>5. \A d \in Callers : op'[d].pc \in {"retire", "boot"} => spent'.browsers < MaxBrowsers
    BY <1>1, <1>4
  <2>6. \A x \in Ids : lock' = x <=> sess'[x] # None /\ sess'[x].managed
    BY <1>1 DEF BrowserInv, Owned
  <2> QED
    BY <2>2, <2>3, <2>4, <2>5, <2>6 DEF Owned
<1>12. Orderly'
  <2>1. \A s : Fits(o, s)
    BY <1>6, <1>7 DEF Fits, InSelect
  <2> QED
    BY <1>1, <1>3, <1>6, <1>7, <1>8, <2>1 DEF Orderly, at
<1>13. Observed'
  <2>1. \A d \in Callers : op'[d].pc \in {"idle", "boot", "retire"}
    BY <1>3, <1>7, <1>8
  <2> QED
    BY <1>1, <1>4, <2>1 DEF BrowserInv, Observed, Held, Bound
<1> QED
  BY <1>9, <1>10, <1>11, <1>12, <1>13 DEF BrowserInv

\* The first page of a new session.
LEMMA NewSessionFits ==
    ASSUME NEW c \in Callers, NEW m \in BOOLEAN, NEW t, t = NewSession(c, m), NEW n \in Nat, NEW q, Len(q) \in Nat
    PROVE  /\ t \in Session /\ Quiet(t) /\ (t.managed <=> m)
           /\ \A b : Issued(q, b, t)
           /\ Limited(n, t)
<1> DEFINE p == CHOOSE x \in Pages : TRUE
           y == CHOOSE x \in Contents : TRUE
<1>1. p \in Pages
  <2>1. Pages # {}
    <3>1. Cardinality({}) = 0 /\ Cardinality(Pages) \in Nat
      BY FS_EmptySet, FS_CardinalityType, BrowserAssumption
    <3>2. Cardinality(Pages) # 0
      BY <3>1, BrowserAssumption
    <3> QED
      BY <3>1, <3>2
  <2> QED
    BY <2>1
<1>2. y \in Contents
  BY BrowserAssumption
<1> DEFINE f == [x \in Pages |-> 0]
           g == [x \in Pages |-> None]
           h == [x \in Pages |-> y]
<1>3. t = [run |-> c, managed |-> m, pages |-> {p}, active |-> p, ref |-> f, print |-> g, doc |-> h,
           started |-> FALSE, grant |-> FALSE, sent |-> 0, answers |-> 0, receipt |-> FALSE,
           taking |-> FALSE, fatal |-> FALSE, kept |-> 0, uploads |-> {}, clear |-> FALSE]
  BY DEF NewSession
<1> HIDE DEF p, y
<1>4. /\ f \in [Pages -> Nat] /\ {p} \in SUBSET Pages /\ {} \in SUBSET Nat /\ 0 \in Nat
      /\ g \in [Pages -> Contents \cup {None}] /\ h \in [Pages -> Contents] /\ \A x \in Pages : f[x] = 0
  BY <1>1, <1>2
<1> HIDE DEF f, g, h
<1>5. t \in Session
  BY <1>1, <1>3, <1>4 DEF Session
<1>6. /\ t.pages = {p} /\ t.active = p /\ t.ref = f /\ t.sent = 0 /\ t.answers = 0
      /\ t.kept = 0 /\ t.uploads = {}
  BY <1>3
<1>7. Quiet(t) /\ (t.managed <=> m)
  BY <1>3 DEF Quiet
<1>8. Cardinality({p}) = 1
  BY FS_Singleton
<1>9. Limited(n, t)
  BY <1>6, <1>8, BrowserAssumption DEF Limited
<1>10. \A b : Issued(q, b, t)
  BY <1>4, <1>6 DEF Issued
<1> QED
  BY <1>5, <1>7, <1>9, <1>10

\* A Chrome starts, with the profile or without.
LEMMA LaunchStep ==
    ASSUME BrowserInv, NEW c \in Callers, NEW m \in BOOLEAN, Launch(c, m)
    PROVE  BrowserInv'
<1> DEFINE n == spent.browsers + 1
           o == [op[c] EXCEPT !.pc = "load", !.id = n]
<1>1. PICK t : t = NewSession(c, m)
  BY Zenon
<1>2. /\ op[c].pc = "boot" /\ (m => lock = None) /\ sess' = [sess EXCEPT ![n] = t]
      /\ (m => lock' = n) /\ (~m => lock' = lock)
      /\ spent' = [spent EXCEPT !.browsers = n] /\ UNCHANGED <<slot, dying, hung, born>>
  BY <1>1, Zenon DEF Launch, at
<1>3. op' = [op EXCEPT ![c] = o]
  <2>1. op' = [op EXCEPT ![c].pc = "load", ![c].id = n]
    BY Zenon DEF Launch
  <2> QED
    BY <2>1 DEF BrowserInv, Typed
<1>4. /\ n \in Ids /\ n \in Nat /\ n # 0 /\ n > spent.browsers /\ spent \in Spent /\ spent.posts \in Nat
      /\ spent.browsers \in Nat /\ Len(born) \in Nat
  BY <1>2, BrowserAssumption DEF BrowserInv, Typed, Owned, Spent, Ids
<1>5. /\ t \in Session /\ Quiet(t) /\ (t.managed <=> m) /\ Issued(born, n, t) /\ Limited(spent.posts, t) /\ t # None
  BY <1>1, <1>4, NewSessionFits, NoneApart
<1>6. spent' \in Spent /\ spent'.posts = spent.posts /\ spent'.browsers = n
  BY <1>2, <1>4 DEF Spent
<1>7. sess[n] = None /\ n \notin dying /\ slot = 0 /\ \A d \in Callers : d # c => at(d, "idle") /\ op[d].id = 0
  BY <1>2, <1>4 DEF BrowserInv, Owned, Alone, at, Owning, InSelect
<1>8. "load" \in PCs /\ "load" \in Owning /\ op[c] \in Operation
  BY DEF PCs, Owning, BrowserInv, Typed
<1>9. /\ o \in Operation /\ o.pc = "load" /\ o.id = n /\ o.posted = op[c].posted /\ o.kind = op[c].kind
      /\ o.touched = op[c].touched
  BY <1>4, <1>8 DEF Operation
<1> HIDE DEF o, n
<1>10. /\ sess'[n] = t /\ \A x \in Ids : x # n => sess'[x] = sess[x]
       /\ op'[c] = o /\ \A d \in Callers : d # c => op'[d] = op[d]
  BY <1>2, <1>3, <1>4 DEF BrowserInv, Typed
<1>11. Typed'
  <2>1. lock' \in Ids \cup {None, Other}
    <3>1. CASE m
      BY <1>2, <1>4, <3>1
    <3>2. CASE ~m
      BY <1>2, <3>2 DEF BrowserInv, Typed
    <3> QED
      BY <3>1, <3>2
  <2>2. n <= MaxBrowsers
    BY <1>4 DEF Ids
  <2>3. op' \in [Callers -> Operation] /\ sess' \in [Ids -> Session \cup {None}]
    BY <1>2, <1>3, <1>4, <1>5, <1>9 DEF BrowserInv, Typed
  <2> QED
    BY <1>2, <1>6, <2>1, <2>2, <2>3 DEF BrowserInv, Typed
<1>12. Alone'
  BY <1>2, <1>7, <1>10 DEF Alone, at
<1>13. Owned'
  <2>1. \A d \in Callers : IF op'[d].pc \in Owning THEN op'[d].id \in Ids \ dying' /\ sess'[op'[d].id] # None
                           ELSE op'[d].id = 0
    BY <1>2, <1>4, <1>5, <1>7, <1>8, <1>9, <1>10 DEF at, Owning, InSelect
  <2>2. slot' = 0 /\ \A x \in dying' : sess'[x] # None
    BY <1>2, <1>7, <1>10 DEF BrowserInv, Owned, Typed
  <2>3. \A x \in Ids : sess'[x] # None => x = slot' \/ x \in dying' \/ \E d \in Callers : op'[d].id = x
    <3> SUFFICES ASSUME NEW x \in Ids, x # n, sess[x] # None PROVE x \in dying
      BY <1>2, <1>9, <1>10
    <3>1. x # 0 /\ op[c].id = 0
      BY <1>2 DEF Ids, BrowserInv, Owned, Owning, InSelect
    <3> QED
      BY <1>7, <3>1 DEF BrowserInv, Owned
  <2>4. \A x \in Ids : x > spent'.browsers => sess'[x] = None
    <3>1. \A x \in Ids : x > n => x > spent.browsers /\ x # n
      BY <1>4 DEF n, Ids
    <3> QED
      BY <1>6, <1>10, <3>1 DEF BrowserInv, Owned
  <2>5. \A d \in Callers : op'[d].pc \in {"retire", "boot"} => spent'.browsers < MaxBrowsers
    BY <1>7, <1>9, <1>10 DEF at
  <2>6. \A x \in Ids : lock' = x <=> sess'[x] # None /\ sess'[x].managed
    <3>1. lock # n
      BY <1>4, <1>7 DEF BrowserInv, Owned
    <3>2. lock' = n <=> m
      BY <1>2, <3>1
    <3>3. lock' = n <=> sess'[n] # None /\ sess'[n].managed
      BY <1>5, <1>10, <3>2
    <3>4. \A x \in Ids : x # n => (lock' = x <=> lock = x)
      BY <1>2, NoneApart
    <3>5. \A x \in Ids : x # n => (lock' = x <=> sess'[x] # None /\ sess'[x].managed)
      BY <1>10, <3>4 DEF BrowserInv, Owned
    <3> QED
      BY <3>3, <3>5
  <2> QED
    BY <2>1, <2>2, <2>3, <2>4, <2>5, <2>6 DEF Owned
<1>14. Orderly'
  <2>1. op[c].posted = 0 /\ ~op[c].touched
    BY <1>2 DEF BrowserInv, Orderly, at, Fits
  <2>2. Fits(o, t)
    BY <1>5, <1>9, <2>1 DEF Fits, InSelect
  <2> QED
    BY <1>2, <1>7, <1>9, <1>10, <2>2 DEF BrowserInv, Orderly, at, Held
<1>15. Observed'
  BY <1>2, <1>5, <1>6, <1>7, <1>9, <1>10 DEF BrowserInv, Observed, Held, Bound, at
<1> QED
  BY <1>11, <1>12, <1>13, <1>14, <1>15 DEF BrowserInv

\* No Chrome starts, and there is none.
LEMMA LaunchFailsStep ==
    ASSUME BrowserInv, NEW c \in Callers, LaunchFails(c)
    PROVE  BrowserInv'
<1> DEFINE o == Replied(op[c], "NotApplied")
<1>1. /\ op[c].pc = "boot" /\ op' = [op EXCEPT ![c] = o]
      /\ UNCHANGED <<sess, slot, lock, dying, hung, born, spent>>
  BY DEF LaunchFails, at
<1>2. op[c] \in Operation /\ ~op[c].touched /\ "NotApplied" \in Told /\ op[c].id = 0
  BY <1>1 DEF BrowserInv, Typed, Orderly, Owned, at, Fits, Told, Owning, InSelect
<1>3. o \in Operation /\ o.pc = "idle" /\ o.id = 0 /\ Reported(o)
  BY <1>2, Replying, ReplyHonest
<1> HIDE DEF o
<1>4. op'[c] = o /\ \A d \in Callers : d # c => op'[d] = op[d]
  BY <1>1 DEF BrowserInv, Typed
<1>5. Typed'
  BY <1>1, <1>3 DEF BrowserInv, Typed
<1>6. Alone'
  BY <1>1, <1>3, <1>4 DEF BrowserInv, Alone, at
<1>7. Owned'
  <2>1. \A d \in Callers : op'[d].id = op[d].id
    BY <1>2, <1>3, <1>4
  <2>2. \A d \in Callers : op'[d].pc = op[d].pc \/ (d = c /\ op'[d].pc = "idle")
    BY <1>3, <1>4
  <2> QED
    BY <1>1, <1>2, <2>1, <2>2 DEF BrowserInv, Owned, Owning, InSelect
<1>8. Orderly'
  BY <1>1, <1>3, <1>4 DEF BrowserInv, Orderly, at, Held
<1>9. Observed'
  BY <1>1, <1>3, <1>4 DEF BrowserInv, Observed, Held, Bound
<1> QED
  BY <1>5, <1>6, <1>7, <1>8, <1>9 DEF BrowserInv

-----------------------------------------------------------------------------
(* Chrome, the page and other processes *)

\* A POST is let through once and under the grant, or denied.
LEMMA PostStep ==
    ASSUME BrowserInv, NEW c \in Callers, NEW ok \in BOOLEAN, NEW document \in BOOLEAN,
           Post(c, ok, document)
    PROVE  BrowserInv'
<1> DEFINE s == Held(c)
<1>1. /\ op[c].pc \in InSelect /\ op[c].pc \in Owning /\ spent.posts < MaxPosts
      /\ UNCHANGED <<slot, lock, dying, hung, born>> /\ spent' = [spent EXCEPT !.posts = @ + 1]
  BY Zenon DEF Post, Owning
<1>2. /\ s \in Session /\ op[c] \in Operation /\ Fits(op[c], s) /\ Bound(born, c, op[c], s)
      /\ Issued(born, op[c].id, s) /\ Limited(spent.posts, s)
  BY <1>1, Holding
<1>3. /\ spent' \in Spent /\ spent'.posts = spent.posts + 1 /\ spent'.browsers = spent.browsers
      /\ spent.posts \in Nat /\ MaxPosts \in Nat
  <2>1. spent \in Spent /\ MaxPosts \in Nat
    BY BrowserAssumption DEF BrowserInv, Typed
  <2>2. spent.posts \in Nat /\ spent.posts + 1 \in Nat
    BY <2>1 DEF Spent
  <2> QED
    BY <1>1, <2>1, <2>2 DEF Spent
<1>4. Later
  BY <1>1, <1>3 DEF Later
<1>5. /\ s.sent \in Nat /\ s.answers \in Nat /\ s.sent <= spent.posts /\ s.answers <= spent.posts
      /\ op[c].posted \in Nat /\ op[c].pc # "retire"
  BY <1>1, <1>2 DEF Session, Limited, Operation, InSelect
<1>6. ASSUME NEW t \in Session, NEW o \in Operation, sess' = [sess EXCEPT ![op[c].id] = t],
             op' = [op EXCEPT ![c] = o], Alike(s, t), t.kept = s.kept,
             t.sent \in {s.sent, s.sent + 1}, t.answers \in {s.answers, s.answers + 1},
             o.pc = op[c].pc, o.id = op[c].id, o.kind = op[c].kind, o.ref = op[c].ref, o.seen = op[c].seen,
             Fits(o, t)
      PROVE  BrowserInv'
  <2>1. Bound(born', c, o, t)
    BY <1>1, <1>2, <1>6 DEF Bound, Alike
  <2>2. Issued(born', o.id, t) /\ t.managed = Held(c).managed
    BY <1>1, <1>2, <1>6, AlikeIssued DEF Alike
  <2>3. Limited(spent'.posts, t)
    BY <1>2, <1>3, <1>5, <1>6 DEF Limited, Alike
  <2> QED
    BY <1>1, <1>3, <1>4, <1>5, <1>6, <2>1, <2>2, <2>3, HeldStep
<1>7. CASE LetsPost(s, ok)
  <2> DEFINE t == [s EXCEPT !.sent = @ + 1, !.answers = @ + 1]
             o == [op[c] EXCEPT !.posted = @ + 1, !.touched = TRUE]
  <2>1. s.grant /\ s.sent = 0
    BY <1>7, Zenon DEF LetsPost
  <2>2. sess' = [sess EXCEPT ![op[c].id] = t]
    BY <1>7, Zenon DEF Post
  <2>3. op' = [op EXCEPT ![c] = o]
    BY <1>7, Zenon DEF Post
  <2>4. s.sent + 1 \in Nat /\ s.answers + 1 \in Nat /\ op[c].posted + 1 \in Nat
    BY <1>5
  <2>5. t \in Session /\ Alike(s, t) /\ t.kept = s.kept /\ t.sent = s.sent + 1 /\ t.answers = s.answers + 1
    BY <1>2, <2>4 DEF Session, Alike
  <2>6. (t.started <=> s.started) /\ (t.grant <=> s.grant) /\ (t.taking <=> s.taking)
    BY <1>2 DEF Session
  <2>7. /\ o \in Operation /\ o.pc = op[c].pc /\ o.id = op[c].id /\ o.kind = op[c].kind /\ o.ref = op[c].ref
        /\ o.seen = op[c].seen /\ o.told = op[c].told /\ o.touched /\ o.posted = op[c].posted + 1
    BY <1>2, <2>4 DEF Operation
  <2>8. op[c].pc \in {"act", "release", "settle"} /\ op[c].kind \in External /\ op[c].posted = 0
        /\ op[c].kind \notin {"tab_switch", "tab_close"} /\ s.started
    BY <1>1, <1>2, <1>5, <2>1 DEF Fits, InSelect, Quiet, External
  <2> HIDE DEF t, o
  <2>9. t.started /\ t.pages = s.pages
    BY <2>5, <2>6, <2>8 DEF Alike
  <2>10. /\ o.posted = 1 /\ t.sent = 1 /\ o.kind \in External /\ o.pc \in {"act", "release", "settle"}
         /\ o.kind \notin {"tab_switch", "tab_close", "download", "tab_open"}
    BY <2>1, <2>5, <2>7, <2>8 DEF External
  <2>13. Fits(o, t)
    BY <2>7, <2>9, <2>10 DEF Fits
  <2> QED
    BY <1>6, <2>2, <2>3, <2>5, <2>7, <2>13
<1>8. CASE ~LetsPost(s, ok)
  <2>1. sess' = [sess EXCEPT ![op[c].id] = [s EXCEPT !.sent = IF s.grant /\ ok THEN @ + 1 ELSE @,
                                                     !.fatal = @ \/ document \/ s.started]]
    BY <1>8, Zenon DEF Post
  <2>2. op' = op
    BY <1>8, Zenon DEF Post
  <2>3. PICK n, f : /\ sess' = [sess EXCEPT ![op[c].id] = [s EXCEPT !.sent = n, !.fatal = f]]
                    /\ n \in {s.sent, s.sent + 1} /\ f \in BOOLEAN
    <3> DEFINE n == IF s.grant /\ ok THEN s.sent + 1 ELSE s.sent
               f == s.fatal \/ document \/ s.started
    <3>1. n \in {s.sent, s.sent + 1}
      OBVIOUS
    <3>2. f \in BOOLEAN
      BY Zenon
    <3>3. sess' = [sess EXCEPT ![op[c].id] = [s EXCEPT !.sent = n, !.fatal = f]]
      BY <2>1, Zenon
    <3> HIDE DEF n, f
    <3> QED
      BY <3>1, <3>2, <3>3
  <2> DEFINE t == [s EXCEPT !.sent = n, !.fatal = f]
  <2>4. n \in Nat /\ s.sent <= n
    BY <1>5, <2>3
  <2>5. t \in Session /\ Alike(s, t) /\ t.kept = s.kept /\ t.sent = n /\ t.answers = s.answers
    BY <1>2, <2>3, <2>4 DEF Session, Alike
  <2>6. (t.started <=> s.started) /\ (t.grant <=> s.grant) /\ (t.taking <=> s.taking)
    BY <1>2 DEF Session
  <2> HIDE DEF t
  <2>7. Fits(op[c], t)
    BY <1>2, <1>5, <2>4, <2>5, <2>6 DEF Fits, Quiet, Alike
  <2>8. op' = [op EXCEPT ![c] = op[c]]
    BY <2>2 DEF BrowserInv, Typed
  <2>9. sess' = [sess EXCEPT ![op[c].id] = t]
    BY <2>3 DEF t
  <2>10. t.sent \in {s.sent, s.sent + 1}
    BY <2>3, <2>5
  <2> QED
    BY <1>2, <1>6, <2>5, <2>7, <2>8, <2>9, <2>10
<1> QED
  BY <1>7, <1>8

\* Chrome carries out the action before it answers.
LEMMA DeliverStep ==
    ASSUME BrowserInv, NEW c \in Callers, Deliver(c)
    PROVE  BrowserInv'
<1> DEFINE s == Held(c)
           o == [op[c] EXCEPT !.touched = TRUE]
<1>1. op[c].pc = "act" /\ op[c].pc \in Owning \ {"retire"} /\ UNCHANGED <<born, spent>>
  BY DEF Deliver, at, Owning, InSelect, Moved
<1>2. /\ s \in Session /\ op[c] \in Operation /\ Fits(op[c], s) /\ Bound(born, c, op[c], s)
      /\ Issued(born, op[c].id, s) /\ Limited(spent.posts, s) /\ s.active \in Pages
  BY <1>1, Holding DEF Session
<1>3. Later
  BY <1>1, NothingNew DEF BrowserInv
<1>4. PICK x \in Contents : Moved(c, [s EXCEPT !.doc[s.active] = x], o)
  BY DEF Deliver
<1> DEFINE t == [s EXCEPT !.doc[s.active] = x]
<1>5. /\ t \in Session /\ Alike(s, t) /\ (t.started <=> s.started) /\ (t.grant <=> s.grant)
      /\ t.sent = s.sent /\ t.kept = s.kept /\ Limited(spent.posts, t)
  BY <1>2, ShownPage
<1>6. /\ o \in Operation /\ o.pc = "act" /\ o.kind = op[c].kind /\ o.id = op[c].id /\ o.ref = op[c].ref
      /\ o.seen = op[c].seen /\ o.posted = op[c].posted /\ o.touched
  BY <1>1, <1>2 DEF Operation
<1>7. Moved(c, t, o)
  BY <1>4
<1> HIDE DEF t, o
<1>8. Fits(o, t)
  BY <1>1, <1>2, <1>5, <1>6 DEF Fits, InSelect, Alike
<1>9. Bound(born', c, o, t) /\ Issued(born', op[c].id, t) /\ t.managed = Held(c).managed
  BY <1>1, <1>2, <1>5, <1>6, AlikeIssued DEF Bound, Alike
<1> QED
  BY <1>1, <1>3, <1>5, <1>6, <1>7, <1>8, <1>9, MovedGoesOn

\* The response to a POST may give a login its receipt.
LEMMA RespondStep ==
    ASSUME BrowserInv, NEW c \in Callers, Respond(c)
    PROVE  BrowserInv'
<1> DEFINE s == Held(c)
<1>1. /\ op[c].pc \in InSelect /\ op[c].pc \in Owning /\ op[c].pc # "retire" /\ s.answers > 0
      /\ UNCHANGED <<slot, op, lock, dying, hung, born, spent>>
  BY DEF Respond, Owning, InSelect
<1>2. /\ s \in Session /\ op[c] \in Operation /\ Fits(op[c], s) /\ Bound(born, c, op[c], s)
      /\ Issued(born, op[c].id, s) /\ Limited(spent.posts, s)
  BY <1>1, Holding
<1>3. Later /\ spent'.browsers = spent.browsers /\ spent.posts \in Nat
  BY <1>1, NothingNew DEF BrowserInv, Typed, Spent
<1>4. PICK f \in BOOLEAN : sess' = [sess EXCEPT ![op[c].id] = [s EXCEPT !.answers = @ - 1, !.receipt = f]]
  <2> DEFINE f == s.receipt \/ s.grant
  <2>1. f \in BOOLEAN
    BY Zenon
  <2>2. sess' = [sess EXCEPT ![op[c].id] = [s EXCEPT !.answers = @ - 1, !.receipt = f]]
    BY Zenon DEF Respond
  <2> HIDE DEF f
  <2> QED
    BY <2>1, <2>2
<1> DEFINE t == [s EXCEPT !.answers = @ - 1, !.receipt = f]
<1>5. s.answers \in Nat /\ s.answers - 1 \in Nat
  BY <1>1, <1>2 DEF Session
<1>6. t \in Session /\ Alike(s, t) /\ t.kept = s.kept /\ t.sent = s.sent /\ t.answers = s.answers - 1
  BY <1>2, <1>4, <1>5 DEF Session, Alike
<1>7. (t.started <=> s.started) /\ (t.grant <=> s.grant) /\ (t.taking <=> s.taking)
  BY <1>2 DEF Session
<1> HIDE DEF t
<1>8. Fits(op[c], t)
  BY <1>2, <1>6, <1>7 DEF Fits, Quiet, Alike
<1>9. op' = [op EXCEPT ![c] = op[c]] /\ sess' = [sess EXCEPT ![op[c].id] = t]
  BY <1>1, <1>4 DEF BrowserInv, Typed, t
<1>10. Bound(born', c, op[c], t) /\ Issued(born', op[c].id, t) /\ t.managed = Held(c).managed
  BY <1>1, <1>2, <1>6, AlikeIssued DEF Alike
<1>11. Limited(spent'.posts, t)
  BY <1>1, <1>2, <1>3, <1>5, <1>6 DEF Limited, Alike
<1> QED
  BY <1>1, <1>2, <1>3, <1>6, <1>8, <1>9, <1>10, <1>11, HeldStep

\* A page changes of its own accord.
LEMMA PageChangesStep ==
    ASSUME BrowserInv, NEW b \in Ids, NEW p \in Pages, NEW x \in Contents, PageChanges(b, p, x)
    PROVE  BrowserInv'
<1> DEFINE s == sess[b]
           t == [s EXCEPT !.doc[p] = x]
<1>1. s # None /\ s \in Session /\ UNCHANGED <<slot, op, lock, dying, hung, born>>
  BY DEF PageChanges, BrowserInv, Typed
<1>2. spent' \in Spent /\ spent'.posts = spent.posts /\ spent'.browsers = spent.browsers
  BY SMTT(30) DEF PageChanges, BrowserInv, Typed, Spent
<1>3. sess' = [sess EXCEPT ![b] = t]
  BY <1>1 DEF PageChanges, BrowserInv, Typed
<1>4. /\ t \in Session /\ Alike(s, t) /\ (t.started <=> s.started) /\ (t.grant <=> s.grant)
      /\ (t.taking <=> s.taking) /\ t.sent = s.sent /\ t.kept = s.kept
      /\ (Limited(spent.posts, s) => Limited(spent.posts, t))
  BY <1>1, ShownPage
<1> HIDE DEF t
<1>5. t # None /\ sess'[b] = t /\ \A y \in Ids : y # b => sess'[y] = sess[y]
  BY <1>3, <1>4, NoneApart DEF BrowserInv, Typed
<1>6. \A y \in Ids : (sess'[y] = None <=> sess[y] = None) /\ (sess[y] # None => Alike(sess[y], sess'[y]))
  BY <1>1, <1>4, <1>5 DEF Alike
<1>7. Typed'
  BY <1>1, <1>2, <1>3, <1>4 DEF BrowserInv, Typed
<1>8. Alone'
  BY <1>1 DEF BrowserInv, Alone, at
<1>9. Owned'
  <2>1. \A y \in Ids : lock' = y <=> sess'[y] # None /\ sess'[y].managed
    BY <1>1, <1>6 DEF BrowserInv, Owned, Alike
  <2>2. dying \subseteq Ids /\ (slot # 0 => slot \in Ids)
    BY DEF BrowserInv, Typed
  <2>3. \A d \in Callers : IF op'[d].pc \in Owning THEN op'[d].id \in Ids \ dying' /\ sess'[op'[d].id] # None
                           ELSE op'[d].id = 0
    BY <1>1, <1>6 DEF BrowserInv, Owned
  <2>4. \A y \in Ids : sess'[y] # None => y = slot' \/ y \in dying' \/ \E d \in Callers : op'[d].id = y
    BY <1>1, <1>6 DEF BrowserInv, Owned
  <2>5. /\ slot' # 0 => slot' \notin dying' /\ sess'[slot'] # None
        /\ \A y \in dying' : sess'[y] # None
        /\ \A y \in Ids : y > spent'.browsers => sess'[y] = None
        /\ \A d \in Callers : op'[d].pc \in {"retire", "boot"} => spent'.browsers < MaxBrowsers
    BY <1>1, <1>2, <1>6, <2>2 DEF BrowserInv, Owned
  <2> QED
    BY <2>1, <2>3, <2>4, <2>5 DEF Owned
<1>10. Orderly'
  <2>1. \A o : Fits(o, s) => Fits(o, t)
    BY <1>4 DEF Fits, Quiet, Alike
  <2>2. Quiet(s) => Quiet(t)
    BY <1>4 DEF Quiet
  <2>3. slot # 0 => slot \in Ids
    BY DEF BrowserInv, Typed
  <2>4. slot' # 0 => Quiet(sess'[slot'])
    BY <1>1, <1>5, <2>2, <2>3 DEF BrowserInv, Orderly
  <2>5. ASSUME NEW d \in Callers, ~at(d, "idle") PROVE Fits(op'[d], sess'[op'[d].id])
    <3>1. CASE op[d].pc \in Owning
      <4>1. op[d].id \in Ids /\ Fits(op[d], sess[op[d].id])
        BY <2>5, <3>1 DEF BrowserInv, Owned, Orderly, Held
      <4> QED
        BY <1>1, <1>5, <2>1, <4>1
    <3>2. CASE op[d].pc = "boot"
      <4>1. Fits(op[d], Held(d))
        BY <2>5 DEF BrowserInv, Orderly
      <4> QED
        BY <1>1, <3>2, <4>1 DEF Fits, InSelect
    <3> QED
      BY <2>5, <3>1, <3>2 DEF BrowserInv, Typed, Operation, PCs, at
  <2>6. \A d \in Callers : at(d, "idle") => Reported(op'[d])
    BY <1>1 DEF BrowserInv, Orderly
  <2> QED
    BY <1>1, <2>4, <2>5, <2>6 DEF Orderly, at, Held
<1>11. Observed'
  <2>1. \A y \in Ids : sess'[y] # None => Issued(born', y, sess'[y]) /\ Limited(spent'.posts, sess'[y])
    <3> SUFFICES ASSUME NEW y \in Ids, sess'[y] # None
                 PROVE  Issued(born', y, sess'[y]) /\ Limited(spent'.posts, sess'[y])
      OBVIOUS
    <3>1. Issued(born, y, sess[y]) /\ Limited(spent.posts, sess[y]) /\ Alike(sess[y], sess'[y])
      BY <1>6 DEF BrowserInv, Observed
    <3>2. Issued(born, y, sess'[y])
      BY <3>1, AlikeIssued
    <3>3. Limited(spent.posts, sess'[y])
      BY <1>4, <1>5, <3>1
    <3> QED
      BY <1>1, <1>2, <3>2, <3>3
  <2>2. ASSUME NEW d \in Callers PROVE Bound(born', d, op'[d], sess'[op'[d].id])
    <3>1. CASE op[d].pc \in {"aim", "type", "act", "release"}
      <4>1. op[d].id \in Ids /\ sess[op[d].id] # None
        BY <3>1 DEF BrowserInv, Owned, Owning, InSelect
      <4>2. Bound(born, d, op[d], sess[op[d].id]) /\ Alike(sess[op[d].id], sess'[op[d].id])
        BY <1>6, <4>1 DEF BrowserInv, Observed, Held
      <4> QED
        BY <1>1, <4>2, AlikeIssued
    <3>2. CASE op[d].pc \notin {"aim", "type", "act", "release"}
      BY <1>1, <3>2 DEF Bound
    <3> QED
      BY <3>1, <3>2
  <2> QED
    BY <2>1, <2>2 DEF Observed, Held
<1> QED
  BY <1>7, <1>8, <1>9, <1>10, <1>11 DEF BrowserInv

\* A step that leaves the sessions and the operations alone.
LEMMA ElsewhereStep ==
    ASSUME BrowserInv, UNCHANGED <<sess, op, born>>, Owned', slot' \in {slot, 0},
           lock' \in Ids \cup {None, Other}, dying' \subseteq Ids, hung' \subseteq Ids,
           spent' \in Spent, spent'.posts = spent.posts, spent'.browsers = spent.browsers
    PROVE  BrowserInv'
<1>1. Typed'
  BY DEF BrowserInv, Typed
<1>2. Alone'
  BY DEF BrowserInv, Alone, at
<1>3. Orderly'
  BY DEF BrowserInv, Orderly, at, Held
<1>4. Observed'
  BY DEF BrowserInv, Observed, Held
<1> QED
  BY <1>1, <1>2, <1>3, <1>4 DEF BrowserInv

\* Chrome hangs, the executor is dropped, another process takes or gives back the profile.
LEMMA OutsideStep ==
    ASSUME BrowserInv, (\E b \in Ids : Hang(b)) \/ Shutdown \/ OtherTakes \/ OtherReleases
    PROVE  BrowserInv'
<1>1. UNCHANGED <<sess, op, born>>
  BY DEF Hang, Shutdown, OtherTakes, OtherReleases
<1>2. spent' \in Spent /\ spent'.posts = spent.posts /\ spent'.browsers = spent.browsers
  <2>1. CASE spent' = spent
    BY <2>1 DEF BrowserInv, Typed
  <2>2. CASE Faulted
    BY <2>2 DEF Faulted, BrowserInv, Typed, Spent
  <2> QED
    BY <2>1, <2>2 DEF Hang, Shutdown, OtherTakes, OtherReleases
<1>3. CASE \E b \in Ids : Hang(b)
  <2>1. slot' = slot /\ lock' = lock /\ dying' = dying /\ hung' \subseteq Ids
    BY <1>3 DEF Hang, BrowserInv, Typed
  <2>2. Owned'
    BY <1>1, <1>2, <2>1 DEF BrowserInv, Owned
  <2> QED
    BY <1>1, <1>2, <2>1, <2>2, ElsewhereStep DEF BrowserInv, Typed
<1>4. CASE Shutdown
  <2>1. slot # 0 /\ dying' = dying \cup {slot} /\ slot' = 0 /\ lock' = lock /\ hung' = hung /\ slot \in Ids
    BY <1>4 DEF Shutdown, BrowserInv, Typed
  <2>2. \A d \in Callers : op[d].pc = "idle" /\ op[d].id = 0
    BY <1>4 DEF Shutdown, at, BrowserInv, Owned, Owning, InSelect
  <2>3. Owned'
    <3>1. /\ \A b \in dying' : sess'[b] # None
          /\ \A b \in Ids : sess'[b] # None => b \in dying'
      <4>1. \A b \in Ids : b # 0
        BY DEF Ids
      <4> QED
        BY <1>1, <2>1, <2>2, <4>1 DEF BrowserInv, Owned
    <3>2. /\ \A b \in Ids : b > spent'.browsers => sess'[b] = None
          /\ \A b \in Ids : lock' = b <=> sess'[b] # None /\ sess'[b].managed
      BY <1>1, <1>2, <2>1 DEF BrowserInv, Owned
    <3> QED
      BY <1>1, <2>1, <2>2, <3>1, <3>2 DEF Owned, Owning, InSelect
  <2> QED
    BY <1>1, <1>2, <2>1, <2>3, ElsewhereStep DEF BrowserInv, Typed
<1>5. CASE OtherTakes \/ OtherReleases
  <2>1. slot' = slot /\ dying' = dying /\ hung' = hung /\ lock \in {None, Other} /\ lock' \in {None, Other}
    BY <1>5 DEF OtherTakes, OtherReleases
  <2>2. \A b \in Ids : lock' = b <=> lock = b
    BY <2>1, NoneApart
  <2>3. Owned'
    BY <1>1, <1>2, <2>1, <2>2 DEF BrowserInv, Owned
  <2> QED
    BY <1>1, <1>2, <2>1, <2>3, ElsewhereStep DEF BrowserInv, Typed
<1> QED
  BY <1>3, <1>4, <1>5

\* A Chrome that shutdown left to the background is gone.
LEMMA ReapStep ==
    ASSUME BrowserInv, NEW b \in Ids, Reap(b)
    PROVE  BrowserInv'
<1>1. /\ b \in dying /\ sess' = [sess EXCEPT ![b] = None] /\ lock' = (IF lock = b THEN None ELSE lock)
      /\ hung' = hung \ {b} /\ dying' = dying \ {b} /\ UNCHANGED <<slot, op, born, spent>>
  BY DEF Reap, Freed
<1>2. sess'[b] = None /\ \A y \in Ids : y # b => sess'[y] = sess[y]
  BY <1>1 DEF BrowserInv, Typed
<1>3. (slot # 0 => slot \in Ids /\ slot # b) /\ \A d \in Callers : op[d].pc \in Owning => op[d].id \in Ids /\ op[d].id # b
  BY <1>1 DEF BrowserInv, Typed, Owned
<1>4. Typed'
  BY <1>1 DEF BrowserInv, Typed
<1>5. Alone'
  BY <1>1 DEF BrowserInv, Alone, at
<1>6. Owned'
  <2>1. \A d \in Callers : IF op'[d].pc \in Owning THEN op'[d].id \in Ids \ dying' /\ sess'[op'[d].id] # None
                           ELSE op'[d].id = 0
    BY <1>1, <1>2, <1>3 DEF BrowserInv, Owned
  <2>2. \A y \in Ids : sess'[y] # None => y = slot' \/ y \in dying' \/ \E d \in Callers : op'[d].id = y
    BY <1>1, <1>2 DEF BrowserInv, Owned
  <2>3. /\ slot' # 0 => slot' \notin dying' /\ sess'[slot'] # None
        /\ \A y \in dying' : sess'[y] # None
        /\ \A y \in Ids : y > spent'.browsers => sess'[y] = None
        /\ \A d \in Callers : op'[d].pc \in {"retire", "boot"} => spent'.browsers < MaxBrowsers
    BY <1>1, <1>2, <1>3 DEF BrowserInv, Owned, Typed
  <2>4. \A y \in Ids : lock' = y <=> sess'[y] # None /\ sess'[y].managed
    <3>1. \A y \in Ids : y # b => (lock' = y <=> lock = y)
      BY <1>1, NoneApart
    <3>2. lock' # b
      BY <1>1, NoneApart
    <3>3. \A y \in Ids : y # b => (lock' = y <=> sess'[y] # None /\ sess'[y].managed)
      BY <1>2, <3>1 DEF BrowserInv, Owned
    <3> QED
      BY <1>2, <3>2, <3>3
  <2> QED
    BY <2>1, <2>2, <2>3, <2>4 DEF Owned
<1>7. \A d \in Callers : op[d].pc \in Owning => sess'[op[d].id] = sess[op[d].id]
  BY <1>2, <1>3
<1>8. \A d \in Callers : op[d].pc \in Owning \cup {"idle", "boot"}
  BY DEF BrowserInv, Typed, Operation, PCs
<1>9. Orderly'
  <2>1. slot' # 0 => Quiet(sess'[slot'])
    BY <1>1, <1>2, <1>3 DEF BrowserInv, Orderly
  <2>2. ASSUME NEW d \in Callers, op[d].pc = "boot" PROVE Fits(op'[d], sess'[op'[d].id])
    <3>1. Fits(op[d], Held(d))
      BY <2>2 DEF BrowserInv, Orderly, at
    <3> QED
      BY <1>1, <2>2, <3>1 DEF Fits, InSelect
  <2> QED
    BY <1>1, <1>7, <1>8, <2>1, <2>2 DEF BrowserInv, Orderly, at, Held
<1>10. Observed'
  <2>1. \A y \in Ids : sess'[y] # None => Issued(born', y, sess'[y]) /\ Limited(spent'.posts, sess'[y])
    BY <1>1, <1>2 DEF BrowserInv, Observed
  <2>2. ASSUME NEW d \in Callers PROVE Bound(born', d, op'[d], sess'[op'[d].id])
    BY <1>1, <1>7, <1>8 DEF BrowserInv, Observed, Held, Bound
  <2> QED
    BY <2>1, <2>2 DEF Observed, Held
<1> QED
  BY <1>4, <1>5, <1>6, <1>9, <1>10 DEF BrowserInv

-----------------------------------------------------------------------------
(* The theorems *)

\* The harness starts with no session, no operation and no Chrome.
LEMMA BrowserInvInit == Init => BrowserInv
<1> SUFFICES ASSUME Init PROVE BrowserInv
  OBVIOUS
<1>1. \A c \in Callers : op[c] = Idle
  BY DEF Init
<1>2. Idle \in Operation /\ Idle.pc = "idle" /\ Idle.id = 0 /\ Reported(Idle)
  BY IdleReported
<1>3. \A b \in Ids : sess[b] = None
  BY DEF Init
<1>4. Typed
  <2>1. <<>> \in Seq(Observation)
    OBVIOUS
  <2>2. spent \in Spent /\ spent.posts = 0 /\ spent.browsers = 0
    BY DEF Init, Spent
  <2>3. MaxPosts \in Nat /\ MaxBrowsers \in Nat
    BY BrowserAssumption
  <2>4. op \in [Callers -> Operation] /\ sess \in [Ids -> Session \cup {None}]
    BY <1>2 DEF Init
  <2> QED
    BY <2>1, <2>2, <2>3, <2>4 DEF Init, Typed
<1>5. Alone
  BY <1>1, <1>2 DEF Alone, at
<1>6. Owned
  <2>1. \A b \in Ids : lock # b
    BY NoneApart DEF Init
  <2> QED
    BY <1>1, <1>2, <1>3, <2>1 DEF Init, Owned, Owning, InSelect
<1>7. Orderly
  BY <1>1, <1>2 DEF Init, Orderly, at
<1>8. Observed
  BY <1>1, <1>2, <1>3 DEF Observed, Bound
<1> QED
  BY <1>4, <1>5, <1>6, <1>7, <1>8 DEF BrowserInv

\* Every step of a run, of Chrome and of the other processes keeps the invariant.
LEMMA BrowserInvStep == BrowserInv /\ [Next]_vars => BrowserInv'
<1> SUFFICES ASSUME BrowserInv, [Next]_vars PROVE BrowserInv'
  OBVIOUS
<1>1. ASSUME NEW c \in Callers, Ask(c) PROVE BrowserInv'
  BY <1>1, NavigateStep, BeginActionStep, AtOnceStep, BeginObservingStep, BeginTabStep DEF Ask
<1>2. ASSUME NEW c \in Callers, Proceed(c) PROVE BrowserInv'
  <2>1. ASSUME NEW m \in BOOLEAN, Launch(c, m) PROVE BrowserInv'
    BY <2>1, LaunchStep
  <2> QED
    BY <1>2, <2>1, FreesStep, LoadStep, CaptureStep, ObserveStep, BeginsStep, ActStep, ReleaseStep,
       SettleStep, QuarantineStep, FinishStep DEF Proceed
<1>3. ASSUME NEW c \in Callers, Expire(c) \/ Fails(c) \/ Abandon(c) PROVE BrowserInv'
  BY <1>3, CutStep, FreesStep, LaunchFailsStep, ObserveStep, AimFailsStep, FailsStep DEF Expire, Fails
<1>4. ASSUME Environment PROVE BrowserInv'
  <2>1. ASSUME NEW c \in Callers, NEW ok \in BOOLEAN, NEW document \in BOOLEAN, Post(c, ok, document)
        PROVE  BrowserInv'
    BY <2>1, PostStep
  <2> QED
    BY <1>4, <2>1, DeliverStep, RespondStep, OutsideStep, ReapStep, PageChangesStep DEF Environment
<1>5. CASE UNCHANGED vars
  <2>1. UNCHANGED <<sess, slot, op, lock, dying, hung, born, spent>>
    BY <1>5 DEF vars
  <2> QED
    BY <2>1 DEF BrowserInv, Typed, Alone, Owned, Orderly, Observed, at, Held
<1> QED
  BY <1>1, <1>2, <1>3, <1>4, <1>5 DEF Next

\* The invariant holds in every reachable state.
LEMMA BrowserInvariant == Spec => []BrowserInv
  BY BrowserInvInit, BrowserInvStep, PTL DEF Spec

\* The variables have their types, and no session ever has more than MAX_BROWSER_PAGES
\* pages or MAX_DOWNLOADS_PER_SESSION downloads, whatever its operations end with.
THEOREM BrowserTyped == Spec => []BrowserTypeOK
<1>1. BrowserInv => BrowserTypeOK
  <2> SUFFICES ASSUME BrowserInv PROVE BrowserTypeOK
    OBVIOUS
  <2>1. ASSUME NEW b \in Ids, sess[b] # None PROVE SessionOK(sess[b])
    <3> DEFINE s == sess[b]
    <3>1. s \in Session /\ Issued(born, b, s) /\ Limited(spent.posts, s)
      BY <2>1 DEF BrowserInv, Typed, Observed
    <3>2. Len(born) \in Nat /\ spent.posts \in Nat /\ spent.posts <= MaxPosts /\ MaxPosts \in Nat /\ MaxDownloads \in Nat
      BY BrowserAssumption DEF BrowserInv, Typed, Spent
    <3> HIDE DEF s
    <3>3. s.run \in Callers /\ s.pages \subseteq Pages /\ s.active \in s.pages
          /\ s.print \in [Pages -> Contents \cup {None}] /\ s.doc \in [Pages -> Contents]
          /\ Cardinality(s.pages) <= MaxPages /\ s.uploads \subseteq Refs
      BY <3>1 DEF Session, Limited, Issued, Refs
    <3>4. s.ref \in [Pages -> Refs]
      <4>1. s.ref \in [Pages -> Nat] /\ \A p \in Pages : s.ref[p] <= Len(born)
        BY <3>1 DEF Session, Issued
      <4> QED
        BY <3>2, <4>1 DEF Refs
    <3>5. s.kept \in 0 .. MaxDownloads /\ s.sent \in 0 .. MaxPosts /\ s.answers \in 0 .. MaxPosts
      BY <3>1, <3>2 DEF Session, Limited
    <3>6. {s.managed, s.started, s.grant, s.receipt, s.taking, s.fatal, s.clear} \subseteq BOOLEAN
      BY <3>1 DEF Session
    <3> QED
      BY <3>3, <3>4, <3>5, <3>6 DEF SessionOK, s
  <2> QED
    BY <2>1 DEF BrowserInv, Typed, BrowserTypeOK, Operation, PCs, Owning
<1> QED
  BY <1>1, BrowserInvariant, PTL

\* An action reaches an element only through a reference issued to this run for this page
\* of this Chrome, on a page that was, when last observed, what the run had been shown.
THEOREM ActsOnWhatWasShown == Spec => []ActsOnObserved
<1>1. BrowserInv => ActsOnObserved
  BY DEF BrowserInv, Observed, Bound, ActsOnObserved, Kind
<1> QED
  BY <1>1, BrowserInvariant, PTL

\* A POST leaves the browser only under the grant of the submit, login or upload in
\* progress, and once; no ended operation leaves authority in the session.
THEOREM GrantsAreScoped == Spec => []GrantScoped
<1>1. BrowserInv => GrantScoped
  <2> SUFFICES ASSUME BrowserInv PROVE GrantScoped
    OBVIOUS
  <2>1. ASSUME NEW c \in Callers PROVE op[c].posted <= 1 /\ (op[c].posted = 1 => Kind(c) \in External)
    <3>1. CASE at(c, "idle")
      BY <3>1 DEF BrowserInv, Orderly, Reported
    <3>2. CASE ~at(c, "idle")
      BY <3>2 DEF BrowserInv, Orderly, Fits, Kind
    <3> QED
      BY <3>1, <3>2
  <2>2. slot # 0 => ~sess[slot].started /\ ~sess[slot].grant /\ ~sess[slot].taking
    BY DEF BrowserInv, Orderly, Quiet
  <2> QED
    BY <2>1, <2>2 DEF GrantScoped
<1> QED
  BY <1>1, BrowserInvariant, PTL

\* An operation that ended as not applied did not reach the page, although Chrome may act
\* before it answers, but for a cut after end_action or in a change of tabs and for a lost
\* answer to the first call of a click, submit or tab_open; one that ended as applied did.
THEOREM ReportsAreHonest == Spec => []HonestReport
<1>1. BrowserInv => HonestReport
  BY DEF BrowserInv, Orderly, Reported, HonestReport
<1> QED
  BY <1>1, BrowserInvariant, PTL

\* Every Chrome has exactly one owner and the profile is locked exactly as long as a
\* Chrome uses it: no failure, cut, drop or shutdown leaves a process or a lock behind.
THEOREM NothingLeaks == Spec => []NoLeak
<1>1. BrowserInv => NoLeak
  <2> SUFFICES ASSUME BrowserInv PROVE NoLeak
    OBVIOUS
  <2>1. ASSUME NEW b \in Ids PROVE Cardinality(Owners(b)) = IF sess[b] = None THEN 0 ELSE 1
    <3>1. b # 0 /\ "slot" \notin Callers /\ "dying" \notin Callers
      BY BrowserAssumption DEF Ids
    <3>2. \A c, d \in Callers : op[c].id # 0 /\ op[d].id # 0 => c = d /\ slot = 0
      BY DEF BrowserInv, Owned, Alone, at, Owning, InSelect
    <3>3. \A c \in Callers : op[c].id = b => b \notin dying /\ sess[b] # None
      BY <3>1 DEF BrowserInv, Owned
    <3>4. slot = b => b \notin dying /\ sess[b] # None
      BY <3>1 DEF BrowserInv, Owned
    <3>5. CASE sess[b] = None
      <4>1. Owners(b) = {}
        BY <3>1, <3>3, <3>4, <3>5 DEF Owners, BrowserInv, Owned
      <4> QED
        BY <3>5, <4>1, FS_EmptySet
    <3>6. CASE sess[b] # None
      <4>1. \E x : Owners(b) = {x}
        <5>1. CASE slot = b
          <6>1. Owners(b) = {"slot"}
            BY <3>1, <3>2, <3>4, <5>1 DEF Owners
          <6> QED
            BY <6>1
        <5>2. CASE b \in dying
          <6>1. Owners(b) = {"dying"}
            BY <3>1, <3>3, <3>4, <5>2 DEF Owners
          <6> QED
            BY <6>1
        <5>3. ASSUME NEW c \in Callers, op[c].id = b PROVE \E x : Owners(b) = {x}
          <6>1. Owners(b) = {c}
            BY <3>1, <3>2, <3>3, <5>3 DEF Owners
          <6> QED
            BY <6>1
        <5> QED
          BY <3>6, <5>1, <5>2, <5>3 DEF BrowserInv, Owned
      <4> QED
        BY <3>6, <4>1, FS_Singleton
    <3> QED
      BY <3>5, <3>6
  <2>2. \A b \in Ids : lock = b <=> sess[b] # None /\ sess[b].managed
    BY DEF BrowserInv, Owned
  <2> QED
    BY <2>1, <2>2 DEF NoLeak
<1> QED
  BY <1>1, BrowserInvariant, PTL


=============================================================================
