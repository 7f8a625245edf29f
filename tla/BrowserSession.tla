--------------------------- MODULE BrowserSession ---------------------------
(***************************************************************************)
(* The semantic browser of crates/tools/src/semantic_browser.rs: one       *)
(* harness with at most one live Chrome, which the tools of several runs   *)
(* share.  An operation takes the session out of the harness, talks to     *)
(* Chrome over CDP, and puts the session back or tears it down.  Between   *)
(* any two of its steps the page may change, issue a POST, or Chrome may   *)
(* hang; a deadline or a cancellation may cut the operation at any await.  *)
(*                                                                         *)
(* An observation of a page is its content, and stands for its             *)
(* fingerprint.  The references of one observation are one number.         *)
(***************************************************************************)
EXTENDS Integers, Sequences, FiniteSets

CONSTANTS
    Callers,       \* the runs whose tools share the harness
    Pages,         \* pages a Chrome may have
    Contents,      \* what a page may show
    Kinds,         \* per run: the operations it asks for, of AllKinds
    None,
    Other,         \* another process, as a holder of the profile
    MaxPages,      \* MAX_BROWSER_PAGES
    MaxDownloads,  \* MAX_DOWNLOADS_PER_SESSION
    MaxBrowsers,   \* bound: Chromes started
    MaxOps,        \* bound: operations
    MaxChanges,    \* bound: changes of a page of its own accord
    MaxPosts,      \* bound: POSTs issued by pages
    MaxFaults      \* bound: hangs, shutdowns, foreign profile locks

\* "press" stands for press, scroll and select.
Pointing == {"click", "fill", "press", "submit"}
Granted == {"login", "upload", "download"}
RefKinds == Pointing \cup Granted
External == {"submit", "login", "upload"}
Reading == {"wait", "status"}
TabKinds == {"tab_open", "tab_switch", "tab_close"}
AllKinds == RefKinds \cup Reading \cup TabKinds \cup {"navigate", "back", "promote", "clear"}

\* The side effects an operation reports.
Told == {"NotApplied", "Observed", "Applied", "Presumed", "Indeterminate"}

\* LiveBrowserSession and its EgressState.
Session ==
    [run : Callers, managed : BOOLEAN, pages : SUBSET Pages, active : Pages,
     ref : [Pages -> Nat], print : [Pages -> Contents \cup {None}], doc : [Pages -> Contents],
     started : BOOLEAN, grant : BOOLEAN, sent : Nat, answers : Nat, receipt : BOOLEAN,
     taking : BOOLEAN, fatal : BOOLEAN, kept : Nat, uploads : SUBSET Nat, clear : BOOLEAN]

ASSUME BrowserAssumption ==
    /\ Kinds \in [Callers -> SUBSET AllKinds]
    /\ IsFiniteSet(Pages) /\ Cardinality(Pages) >= MaxPages /\ MaxPages \in Nat \ {0}
    /\ Contents # {}
    /\ {MaxDownloads, MaxBrowsers, MaxOps, MaxChanges, MaxPosts, MaxFaults} \subseteq Nat
    /\ {"slot", "dying"} \cap Callers = {}
    /\ None \notin Callers \cup Pages \cup Contents \cup Session \cup Nat \cup Told
    /\ Other \notin Nat

VARIABLES
    sess,          \* per Chrome: its LiveBrowserSession, or None
    slot,          \* SystemSemanticBrowserHarness::session
    op,            \* per caller: its operation
    lock,          \* who holds the managed profile: a Chrome, Other, or None
    dying,         \* Chromes that shutdown tears down in the background
    hung,          \* Chromes that answer nothing any more
    born,          \* the observations references were issued for
    spent          \* the bounds used up

vars == <<sess, slot, op, lock, dying, hung, born, spent>>

Ids == 1 .. MaxBrowsers

-----------------------------------------------------------------------------
(***************************************************************************)
(* Sessions and operations.                                                *)
(***************************************************************************)

\* EgressState::new and the session of start_system_browser, on its first page.
NewSession(c, m) ==
    LET p == CHOOSE q \in Pages : TRUE IN
    [run |-> c, managed |-> m, pages |-> {p}, active |-> p,
     ref |-> [q \in Pages |-> 0], print |-> [q \in Pages |-> None],
     doc |-> [q \in Pages |-> CHOOSE x \in Contents : TRUE],
     started |-> FALSE, grant |-> FALSE, sent |-> 0, answers |-> 0, receipt |-> FALSE,
     taking |-> FALSE, fatal |-> FALSE, kept |-> 0, uploads |-> {}, clear |-> FALSE]

\* told: the reported side effect; "Presumed" is an applied press whose dispatch failed.
\* touched, posted and cut are history: Chrome has carried out the action, the POSTs
\* let through, and where the operation was cut after that, or "lost" when it took a
\* failed call for one that did nothing.
Idle == [pc |-> "idle", kind |-> None, id |-> 0, ref |-> 0, seen |-> None,
         told |-> None, touched |-> FALSE, posted |-> 0, cut |-> None]

Init ==
    /\ sess = [b \in Ids |-> None]
    /\ slot = 0
    /\ op = [c \in Callers |-> Idle]
    /\ lock = None
    /\ dying = {} /\ hung = {}
    /\ born = <<>>
    /\ spent = [browsers |-> 0, ops |-> 0, changes |-> 0, posts |-> 0, faults |-> 0]

at(c, pc) == op[c].pc = pc
Kind(c) == op[c].kind
Held(c) == sess[op[c].id]
Answers(c) == op[c].id \notin hung

\* resolve_element_ref: only the references of the active page's last observation.
Current(s, c, r) == s.run = c /\ r # 0 /\ r = s.ref[s.active]

\* rotate_observation: the active page's references are replaced.
Rotated(s, x) == [s EXCEPT !.ref[s.active] = Len(born) + 1, !.print[s.active] = x]

Issue(b, s, x) == born' = Append(born, [of |-> b, run |-> s.run, page |-> s.active, print |-> x])

\* Faulty variant: the action is not marked as started.
BegunUnmarked(s) == s

\* begin_action, begin_external_action, begin_download.
Begun(s) == [s EXCEPT !.started = TRUE]

GrantBegun(s) == [s EXCEPT !.started = TRUE, !.grant = TRUE, !.sent = 0, !.receipt = FALSE]

TakingBegun(s) == [s EXCEPT !.started = TRUE, !.taking = TRUE]

\* Faulty variant: the scoped grant outlives its action.
EndedGranted(s) == [s EXCEPT !.started = FALSE, !.taking = FALSE, !.receipt = FALSE]

\* end_action, finish_external_action, finish_download.
EndedAction(s) == [s EXCEPT !.started = FALSE, !.grant = FALSE, !.taking = FALSE, !.receipt = FALSE]

\* The end of an operation: its caller is told, and the harness has the session again.
Replied(o, told) ==
    [Idle EXCEPT !.told = told, !.touched = o.touched, !.cut = o.cut]

\* A new operation; the reports of earlier ones have been read.
Asked(c, o) == [d \in Callers |-> IF d = c THEN o ELSE IF at(d, "idle") THEN Idle ELSE op[d]]

PutBack(c, s, told) ==
    /\ sess' = [sess EXCEPT ![op[c].id] = s]
    /\ slot' = op[c].id
    /\ op' = [op EXCEPT ![c] = Replied(@, told)]
    /\ UNCHANGED <<lock, dying, hung, spent>>

\* An indeterminate outcome: the session is torn down before the caller is told.
TearDown(c, s) ==
    /\ sess' = [sess EXCEPT ![op[c].id] = s]
    /\ op' = [op EXCEPT ![c].pc = "close", ![c].told = "Indeterminate"]
    /\ UNCHANGED <<slot, lock, dying, hung, born, spent>>

Moved(c, s, o) ==
    /\ sess' = [sess EXCEPT ![op[c].id] = s]
    /\ op' = [op EXCEPT ![c] = o]
    /\ UNCHANGED <<slot, lock, dying, hung, spent>>

\* The process tree is gone and the profile lease released.
Freed(b) ==
    /\ sess' = [sess EXCEPT ![b] = None]
    /\ lock' = IF lock = b THEN None ELSE lock
    /\ hung' = hung \ {b}

-----------------------------------------------------------------------------
(***************************************************************************)
(* navigate.                                                               *)
(***************************************************************************)

\* Faulty variant: every caller has a guard of its own.
FreeOwn(c) ==
    /\ at(c, "idle")
    /\ spent.ops < MaxOps

\* begin_operation: a call that finds another operation active is refused.
Free(c) ==
    /\ \A d \in Callers : at(d, "idle")
    /\ spent.ops < MaxOps

Counted == spent' = [spent EXCEPT !.ops = @ + 1]

\* A previous session is taken out and torn down first, under no deadline.
Navigate(c) ==
    /\ "navigate" \in Kinds[c] /\ Free(c) /\ spent.browsers < MaxBrowsers
    /\ op' = Asked(c, [Idle EXCEPT !.kind = "navigate", !.id = slot,
                                   !.pc = IF slot = 0 THEN "boot" ELSE "retire"])
    /\ slot' = 0 /\ Counted
    /\ UNCHANGED <<sess, lock, dying, hung, born>>

Retire(c) ==
    /\ at(c, "retire") /\ Answers(c)
    /\ Freed(op[c].id)
    /\ op' = [op EXCEPT ![c].pc = "boot", ![c].id = 0]
    /\ UNCHANGED <<slot, dying, born, spent>>

\* acquire_browser_profile, which a public scope shares with other processes, and spawn.
Launch(c, m) ==
    LET n == spent.browsers + 1 IN
    /\ at(c, "boot")
    /\ m => lock = None
    /\ sess' = [sess EXCEPT ![n] = NewSession(c, m)]
    /\ lock' = IF m THEN n ELSE lock
    /\ op' = [op EXCEPT ![c].pc = "load", ![c].id = n]
    /\ spent' = [spent EXCEPT !.browsers = n]
    /\ UNCHANGED <<slot, dying, hung, born>>

\* The profile is busy, or there is no quarantine, proxy or process.
LaunchFails(c) ==
    /\ at(c, "boot")
    /\ op' = [op EXCEPT ![c] = Replied(@, "NotApplied")]
    /\ UNCHANGED <<sess, slot, lock, dying, hung, born, spent>>

\* run_cdp_session has loaded and observed the page.
Load(c) ==
    LET s == Held(c) IN
    /\ at(c, "load") /\ Answers(c)
    /\ Issue(op[c].id, s, s.doc[s.active])
    /\ PutBack(c, Rotated(s, s.doc[s.active]), "Observed")

\* Faulty variant: the process is killed and the profile lease forgotten.
LoadLeaks(c) ==
    /\ at(c, "load")
    /\ sess' = [sess EXCEPT ![op[c].id] = None]
    /\ hung' = hung \ {op[c].id}
    /\ op' = [op EXCEPT ![c] = Replied(@, "NotApplied")]
    /\ UNCHANGED <<slot, lock, dying, born, spent>>

\* A failure, a cancellation or OVERALL_DEADLINE: Chrome is killed without being asked.
LoadFails(c) ==
    /\ at(c, "load")
    /\ Freed(op[c].id)
    /\ op' = [op EXCEPT ![c] = Replied(@, "NotApplied")]
    /\ UNCHANGED <<slot, dying, born, spent>>

-----------------------------------------------------------------------------
(***************************************************************************)
(* The interactions up to their first await.  A call that is refused       *)
(* before it changes nothing and is left out.                              *)
(***************************************************************************)

Taken(c, k, r, pc) == [Idle EXCEPT !.pc = pc, !.kind = k, !.id = slot, !.ref = r]

Take(c, k, s, o) ==
    /\ k \in Kinds[c] /\ Free(c)
    /\ sess' = [sess EXCEPT ![slot] = s]
    /\ op' = Asked(c, o)
    /\ slot' = 0 /\ Counted
    /\ UNCHANGED <<lock, dying, hung, born>>

\* public_authorization_preview of an upload, under no guard but the session's mutex.
Authorize(c, r) ==
    /\ "upload" \in Kinds[c] /\ slot # 0
    /\ sess[slot].managed /\ Current(sess[slot], c, r)
    /\ sess' = [sess EXCEPT ![slot].uploads = @ \cup {r}]
    /\ UNCHANGED <<slot, op, lock, dying, hung, born, spent>>

\* Faulty variant: one download more than the limit.
AdmitsOne(s, c, k, r) ==
    /\ k = "fill" \/ s.run = c
    /\ k = "submit" => s.managed
    /\ k \in Granted => Current(s, c, r)
    /\ k = "download" => s.kept <= MaxDownloads
    /\ k = "upload" => r \in s.uploads

\* What is asked of the session before the first observation.  A fill of another
\* run gets as far as that.
Admits(s, c, k, r) ==
    /\ k = "fill" \/ s.run = c
    /\ k = "submit" => s.managed
    /\ k \in Granted => Current(s, c, r)
    /\ k = "download" => s.kept < MaxDownloads
    /\ k = "upload" => r \in s.uploads

\* The authorization of an upload is used up by the attempt.
BeginObserving(c, k, r) ==
    /\ k \in RefKinds \cup Reading \cup {"back"}
    /\ slot # 0 /\ Admits(sess[slot], c, k, r)
    /\ r = 0 <=> k \notin RefKinds
    /\ Take(c, k, [sess[slot] EXCEPT !.uploads = IF k = "upload" THEN @ \ {r} ELSE @],
            Taken(c, k, r, "observe"))

\* The artifact is not the one that was authorized.
UploadRefused(c, r) ==
    /\ "upload" \in Kinds[c] /\ Free(c) /\ slot # 0
    /\ Admits(sess[slot], c, "upload", r)
    /\ sess' = [sess EXCEPT ![slot].uploads = @ \ {r}]
    /\ op' = Asked(c, [Idle EXCEPT !.kind = "upload", !.told = "NotApplied"])
    /\ Counted
    /\ UNCHANGED <<slot, lock, dying, hung, born>>

BeginTabOpen(c) ==
    /\ slot # 0 /\ sess[slot].run = c
    /\ Cardinality(sess[slot].pages) < MaxPages
    /\ Take(c, "tab_open", Begun(sess[slot]), Taken(c, "tab_open", 0, "act"))

\* tab_switch and tab_close change the active page and begin no action.
BeginTabSwitch(c, p) ==
    /\ slot # 0 /\ sess[slot].run = c
    /\ p \in sess[slot].pages \ {sess[slot].active}
    /\ Take(c, "tab_switch", [sess[slot] EXCEPT !.active = p],
            [Taken(c, "tab_switch", 0, "settle") EXCEPT !.touched = TRUE])

BeginTabClose(c, p) ==
    /\ slot # 0 /\ sess[slot].run = c /\ p \in sess[slot].pages
    /\ \E q \in sess[slot].pages \ {p} :
          /\ sess[slot].active # p => q = sess[slot].active
          /\ Take(c, "tab_close",
                  [sess[slot] EXCEPT !.pages = @ \ {p}, !.active = q, !.ref[p] = 0, !.print[p] = None],
                  [Taken(c, "tab_close", 0, "settle") EXCEPT !.touched = TRUE])

BeginClear(c) ==
    /\ slot # 0 /\ sess[slot].run = c
    /\ Take(c, "clear", Begun(sess[slot]), Taken(c, "clear", 0, "act"))

\* execute_promote_download awaits nothing.
Promote(c) ==
    /\ "promote" \in Kinds[c] /\ Free(c) /\ slot # 0
    /\ sess[slot].run = c /\ sess[slot].kept > 0
    /\ sess' = [sess EXCEPT ![slot].kept = @ - 1]
    /\ op' = Asked(c, [Idle EXCEPT !.kind = "promote", !.told = "Applied", !.touched = TRUE])
    /\ Counted
    /\ UNCHANGED <<slot, lock, dying, hung, born>>

-----------------------------------------------------------------------------
(***************************************************************************)
(* The interactions from their first observation to the action.            *)
(***************************************************************************)

\* Faulty variant: the fingerprint of the page is not compared.
RefCurrent(c, x) == Current(Held(c), c, op[c].ref)

\* The reference is current and the page still is what it was issued for.
StillObserved(c, x) == Current(Held(c), c, op[c].ref) /\ x = Held(c).print[Held(c).active]

\* capture_current_observation of the interactions that point at an element.
Capture(c) ==
    LET s == Held(c)
        x == s.doc[s.active]
        seen == [op[c] EXCEPT !.seen = x]
    IN  /\ at(c, "observe") /\ Answers(c) /\ Kind(c) \in RefKinds
        /\ StillObserved(c, x)
        /\ IF Kind(c) \in Pointing THEN Moved(c, s, [seen EXCEPT !.pc = "aim"])
           ELSE IF Kind(c) = "download" THEN Moved(c, TakingBegun(s), [seen EXCEPT !.pc = "act"])
           ELSE Moved(c, Begun(s), [seen EXCEPT !.pc = "type"])
        /\ UNCHANGED born

\* The reference is stale or of another run, the page has changed, the element is not
\* fit, or the run is cancelled: the references are replaced.  login, upload and
\* download do so only for a page that has changed.
Refused(c) ==
    LET s == Held(c)
        x == s.doc[s.active]
    IN  /\ at(c, "observe") /\ Answers(c) /\ Kind(c) \in RefKinds
        /\ IF Kind(c) \in Pointing \/ x # s.print[s.active]
           THEN Issue(op[c].id, s, x) /\ PutBack(c, Rotated(s, x), "NotApplied")
           ELSE UNCHANGED born /\ PutBack(c, s, "NotApplied")

\* wait ends with its match or its time, and replaces the references; status does not.
Read(c) ==
    LET s == Held(c)
        x == s.doc[s.active]
    IN  /\ at(c, "observe") /\ Answers(c) /\ Kind(c) \in Reading
        /\ IF Kind(c) = "wait"
           THEN Issue(op[c].id, s, x) /\ PutBack(c, Rotated(s, x), "Observed")
           ELSE UNCHANGED born /\ PutBack(c, s, "Observed")

\* back has found an entry in the history.
GoBack(c) ==
    /\ at(c, "observe") /\ Answers(c) /\ Kind(c) = "back"
    /\ Moved(c, Begun(Held(c)), [op[c] EXCEPT !.pc = "act"])
    /\ UNCHANGED born

ObserveFails(c) ==
    /\ at(c, "observe")
    /\ PutBack(c, Held(c), "NotApplied") /\ UNCHANGED born

\* DOM.getBoxModel: the element is visible, and the action begins.
Aim(c) ==
    /\ at(c, "aim") /\ Answers(c)
    /\ Moved(c, IF Kind(c) = "submit" THEN GrantBegun(Held(c)) ELSE Begun(Held(c)),
             [op[c] EXCEPT !.pc = "act"])
    /\ UNCHANGED born

\* It is gone or hidden; a submit whose call fails keeps the references.
AimFails(c) ==
    LET s == Held(c) IN
    /\ at(c, "aim")
    /\ \/ Issue(op[c].id, s, op[c].seen) /\ PutBack(c, Rotated(s, op[c].seen), "NotApplied")
       \/ Kind(c) = "submit" /\ UNCHANGED born /\ PutBack(c, s, "NotApplied")

\* The secrets or the file are in the form: the grant for its POST begins.
Type(c) ==
    /\ at(c, "type") /\ Answers(c)
    /\ Moved(c, GrantBegun(Held(c)), [op[c] EXCEPT !.pc = "act", !.touched = TRUE])
    /\ UNCHANGED born

\* Chrome has answered the dispatch of the action, which may change the page.  The
\* mouse of a click or a submit is still pressed; clear has nothing to observe.
Act(c) ==
    LET s == Held(c)
        done == [op[c] EXCEPT !.touched = TRUE]
    IN  /\ at(c, "act") /\ Answers(c)
        /\ \/ /\ Kind(c) = "tab_open"
              /\ \E p \in Pages \ s.pages :
                    Moved(c, [s EXCEPT !.pages = @ \cup {p}, !.active = p], [done EXCEPT !.pc = "settle"])
           \/ /\ Kind(c) = "clear"
              /\ Moved(c, [EndedAction(s) EXCEPT !.clear = TRUE, !.kept = 0],
                       [done EXCEPT !.pc = "close", !.told = "Applied"])
           \/ /\ Kind(c) \in {"click", "submit"}
              /\ Moved(c, s, [done EXCEPT !.pc = "release"])
           \/ /\ Kind(c) \notin {"tab_open", "clear", "click", "submit"}
              /\ \E x \in Contents : Moved(c, [s EXCEPT !.doc[s.active] = x], [done EXCEPT !.pc = "settle"])
        /\ UNCHANGED born

Release(c) ==
    /\ at(c, "release") /\ Answers(c)
    /\ \E x \in Contents : Moved(c, [Held(c) EXCEPT !.doc[Held(c).active] = x],
                                  [op[c] EXCEPT !.pc = "settle"])
    /\ UNCHANGED born

\* The call fails, whether or not Chrome has carried it out (Deliver): an error of the
\* socket, an answer that is too large or an error, or an event that cannot be handled
\* while the answer is awaited.  The first call of a click, a submit or a tab_open is
\* reported as not applied all the same; a press is reported as applied and keeps its
\* references.
ActFails(c) ==
    LET s == EndedAction(Held(c))
        o == [op[c] EXCEPT !.cut = IF op[c].touched THEN "lost" ELSE None]
    IN
    \/ /\ at(c, "act") /\ Kind(c) \in {"click", "submit", "tab_open"}
       /\ sess' = [sess EXCEPT ![op[c].id] = s]
       /\ slot' = op[c].id
       /\ op' = [op EXCEPT ![c] = Replied(o, "NotApplied")]
       /\ UNCHANGED <<lock, dying, hung, born, spent>>
    \/ /\ at(c, "act") /\ Kind(c) = "press"
       /\ PutBack(c, s, "Presumed") /\ UNCHANGED born
    \/ /\ at(c, "act") /\ Kind(c) \notin {"click", "submit", "tab_open", "press"}
       /\ TearDown(c, s)
    \/ at(c, "type") /\ TearDown(c, s)
    \/ at(c, "release") /\ TearDown(c, s)

-----------------------------------------------------------------------------
(***************************************************************************)
(* The observation after the action, and the end of the operation.         *)
(***************************************************************************)

\* What is awaited after end_action: a session that is not managed forgets its
\* cookies, a login with its receipt persists them.
HasTail(k, s) == (k \in {"click", "fill"} /\ ~s.managed) \/ (k = "login" /\ s.receipt)

\* The page is observed again and the references replaced.  A denial recorded
\* meanwhile makes the applied action a failed one.
Settle(c) ==
    LET s == Held(c)
        x == s.doc[s.active]
        k == Kind(c)
        e == IF k \in {"tab_switch", "tab_close"} THEN s ELSE [EndedAction(s) EXCEPT !.fatal = FALSE]
    IN  /\ at(c, "settle") /\ Answers(c) /\ k # "download"
        /\ Issue(op[c].id, s, x)
        /\ IF HasTail(k, s) /\ ~s.fatal
           THEN Moved(c, Rotated(e, x), [op[c] EXCEPT !.pc = "tail"])
           ELSE PutBack(c, Rotated(e, x), "Applied")

\* The download is complete and passes its inspection.
Quarantine(c) ==
    /\ at(c, "settle") /\ Answers(c) /\ Kind(c) = "download"
    /\ Moved(c, [EndedAction(Held(c)) EXCEPT !.kept = @ + 1], [op[c] EXCEPT !.pc = "tail"])
    /\ UNCHANGED born

SettleFails(c) ==
    LET s == EndedAction(Held(c)) IN
    /\ at(c, "settle")
    /\ IF Kind(c) = "press" THEN PutBack(c, s, "Applied") /\ UNCHANGED born
       ELSE TearDown(c, s)

\* The cookies are cleared or persisted, or not; a download is observed at last.
Finish(c) ==
    LET s == Held(c)
        x == s.doc[s.active]
    IN  /\ at(c, "tail") /\ Answers(c)
        /\ IF Kind(c) = "download"
           THEN Issue(op[c].id, s, x) /\ PutBack(c, Rotated(s, x), "Applied")
           ELSE UNCHANGED born /\ PutBack(c, s, "Applied")

FinishFails(c) ==
    /\ at(c, "tail") /\ Kind(c) = "download"
    /\ TearDown(c, Held(c))

\* Where an operation is cut that has reached the page.
CutAt(c) ==
    IF ~op[c].touched THEN None
    ELSE IF Kind(c) \in {"tab_switch", "tab_close"} THEN "tab" ELSE op[c].pc

InSelect == {"observe", "aim", "type", "act", "release", "settle", "tail"}

\* Faulty variant: the observation after the action is awaited without a limit.
CutBefore(c) ==
    LET s == Held(c)
        o == [op[c] EXCEPT !.cut = CutAt(c)]
    IN  /\ op[c].pc \in InSelect \ {"settle"}
        /\ sess' = [sess EXCEPT ![op[c].id].started = FALSE]
        /\ IF s.started
           THEN op' = [op EXCEPT ![c] = [o EXCEPT !.pc = "close", !.told = "Indeterminate"]] /\ UNCHANGED slot
           ELSE op' = [op EXCEPT ![c] = Replied(o, "NotApplied")] /\ slot' = op[c].id
        /\ UNCHANGED <<lock, dying, hung, born, spent>>

\* A cancellation or OVERALL_DEADLINE wins the select: whether the action has begun
\* decides what is reported and whether the session survives.
Cut(c) ==
    LET s == Held(c)
        o == [op[c] EXCEPT !.cut = CutAt(c)]
    IN  /\ op[c].pc \in InSelect
        /\ sess' = [sess EXCEPT ![op[c].id].started = FALSE]
        /\ IF s.started
           THEN op' = [op EXCEPT ![c] = [o EXCEPT !.pc = "close", !.told = "Indeterminate"]] /\ UNCHANGED slot
           ELSE op' = [op EXCEPT ![c] = Replied(o, "NotApplied")] /\ slot' = op[c].id
        /\ UNCHANGED <<lock, dying, hung, born, spent>>

\* teardown: Browser.close is awaited without a limit, then everything goes.
Close(c) ==
    /\ at(c, "close") /\ Answers(c)
    /\ Freed(op[c].id)
    /\ op' = [op EXCEPT ![c] = Replied(@, op[c].told)]
    /\ UNCHANGED <<slot, dying, born, spent>>

\* The executor drops an operation that goes on 5 seconds after its cancellation, and
\* with it the session, which kills Chrome.
Abandon(c) ==
    /\ op[c].pc \in {"close", "retire"}
    /\ Freed(op[c].id)
    /\ op' = [op EXCEPT ![c] = Replied(@, "Indeterminate")]
    /\ UNCHANGED <<slot, dying, born, spent>>

-----------------------------------------------------------------------------
(***************************************************************************)
(* Chrome, the page and other processes.                                   *)
(***************************************************************************)

\* Chrome has carried out what was dispatched, which may change the page, and its answer
\* is still on its way: Act is that answer, and the call may yet fail or be cut.
Deliver(c) ==
    /\ at(c, "act") /\ Answers(c) /\ ~op[c].touched
    /\ \E x \in Contents : Moved(c, [Held(c) EXCEPT !.doc[Held(c).active] = x],
                                  [op[c] EXCEPT !.touched = TRUE])
    /\ UNCHANGED born

\* Faulty variant: the dispatches under a grant are not counted.
LetsPosts(s, ok) == s.grant /\ ok

\* authorize_cdp_request of a POST; ok: its target and body are the granted ones.
LetsPost(s, ok) == s.grant /\ ok /\ s.sent = 0

\* A paused POST, which is decided while an operation reads CDP events.  A denial
\* is kept for the action, and also without one if a document asked for it.  A POST
\* that is denied and leaves no trace is left out.
Post(c, ok, document) ==
    LET s == Held(c)
        denied == [s EXCEPT !.sent = IF s.grant /\ ok THEN @ + 1 ELSE @,
                            !.fatal = @ \/ document \/ s.started]
    IN  /\ op[c].pc \in InSelect /\ Answers(c) /\ spent.posts < MaxPosts
        /\ LetsPost(s, ok) \/ denied # s
        /\ sess' = [sess EXCEPT ![op[c].id] =
               IF LetsPost(s, ok) THEN [s EXCEPT !.sent = @ + 1, !.answers = @ + 1] ELSE denied]
        /\ op' = IF LetsPost(s, ok)
                  THEN [op EXCEPT ![c] = [op[c] EXCEPT !.posted = @ + 1, !.touched = TRUE]] ELSE op
        /\ spent' = [spent EXCEPT !.posts = @ + 1]
        /\ UNCHANGED <<slot, lock, dying, hung, born>>

\* record_external_response: a response to the granted target, whenever it comes.
Respond(c) ==
    LET s == Held(c) IN
    /\ op[c].pc \in InSelect /\ Answers(c) /\ s.answers > 0
    /\ sess' = [sess EXCEPT ![op[c].id] = [s EXCEPT !.answers = @ - 1, !.receipt = @ \/ s.grant]]
    /\ UNCHANGED <<slot, op, lock, dying, hung, born, spent>>

PageChanges(b, p, x) ==
    /\ sess[b] # None /\ b \notin hung /\ spent.changes < MaxChanges
    /\ p \in sess[b].pages /\ x # sess[b].doc[p]
    /\ sess' = [sess EXCEPT ![b].doc[p] = x]
    /\ spent' = [spent EXCEPT !.changes = @ + 1]
    /\ UNCHANGED <<slot, op, lock, dying, hung, born>>

Faulted == spent.faults < MaxFaults /\ spent' = [spent EXCEPT !.faults = @ + 1]

Hang(b) ==
    /\ sess[b] # None /\ b \notin hung
    /\ hung' = hung \cup {b} /\ Faulted
    /\ UNCHANGED <<sess, slot, op, lock, dying, born>>

\* shutdown, when the executor is dropped: the teardown goes on in the background
\* while the next executor has a harness of its own.
Shutdown ==
    /\ slot # 0 /\ \A c \in Callers : at(c, "idle")
    /\ dying' = dying \cup {slot} /\ slot' = 0 /\ Faulted
    /\ UNCHANGED <<sess, op, lock, hung, born>>

Reap(b) ==
    /\ b \in dying /\ b \notin hung
    /\ Freed(b)
    /\ dying' = dying \ {b}
    /\ UNCHANGED <<slot, op, born, spent>>

OtherTakes ==
    /\ lock = None /\ lock' = Other /\ Faulted
    /\ UNCHANGED <<sess, slot, op, dying, hung, born>>

OtherReleases ==
    /\ lock = Other /\ lock' = None
    /\ UNCHANGED <<sess, slot, op, dying, hung, born, spent>>

-----------------------------------------------------------------------------
Refs == 0 .. Len(born)

Proceed(c) ==
    \/ Retire(c) \/ (\E m \in BOOLEAN : Launch(c, m)) \/ Load(c)
    \/ Capture(c) \/ Refused(c) \/ Read(c) \/ GoBack(c) \/ Aim(c) \/ Type(c)
    \/ Act(c) \/ Release(c) \/ Settle(c) \/ Quarantine(c) \/ Finish(c) \/ Close(c)

\* The deadline of an operation, which a cancellation may anticipate.
Expire(c) == Cut(c) \/ LoadFails(c)

Fails(c) ==
    LaunchFails(c) \/ ObserveFails(c) \/ AimFails(c) \/ ActFails(c) \/ SettleFails(c) \/ FinishFails(c)

Ask(c) ==
    \/ Navigate(c) \/ BeginTabOpen(c) \/ BeginClear(c) \/ Promote(c)
    \/ \E k \in Kinds[c], r \in Refs : BeginObserving(c, k, r)
    \/ \E r \in Refs : Authorize(c, r) \/ UploadRefused(c, r)
    \/ \E p \in Pages : BeginTabSwitch(c, p) \/ BeginTabClose(c, p)

Environment ==
    \/ \E c \in Callers, ok, document \in BOOLEAN : Post(c, ok, document)
    \/ \E c \in Callers : Deliver(c) \/ Respond(c)
    \/ \E b \in Ids : Hang(b) \/ Reap(b) \/ (\E p \in Pages, x \in Contents : PageChanges(b, p, x))
    \/ Shutdown \/ OtherTakes \/ OtherReleases

Next ==
    \/ \E c \in Callers : Ask(c) \/ Proceed(c) \/ Expire(c) \/ Fails(c) \/ Abandon(c)
    \/ Environment

Spec == Init /\ [][Next]_vars

\* Chrome answers unless it hangs, and timers fire.  Nobody has to ask or to cancel.
FairSpec == Spec /\ \A c \in Callers : WF_vars(Proceed(c)) /\ WF_vars(Expire(c))

-----------------------------------------------------------------------------
(***************************************************************************)
(* Properties.                                                             *)
(***************************************************************************)

SessionOK(s) ==
    /\ s.run \in Callers /\ s.pages \subseteq Pages /\ s.active \in s.pages
    /\ s.ref \in [Pages -> Refs] /\ s.print \in [Pages -> Contents \cup {None}]
    /\ s.doc \in [Pages -> Contents]
    /\ {s.managed, s.started, s.grant, s.receipt, s.taking, s.fatal, s.clear} \subseteq BOOLEAN
    /\ Cardinality(s.pages) <= MaxPages /\ s.kept \in 0 .. MaxDownloads
    /\ s.sent \in 0 .. MaxPosts /\ s.answers \in 0 .. MaxPosts /\ s.uploads \subseteq Refs

\* The shape of the state; a session never has more than MAX_BROWSER_PAGES pages or
\* MAX_DOWNLOADS_PER_SESSION quarantined downloads, whatever its operations end with.
BrowserTypeOK ==
    /\ \A b \in Ids : sess[b] = None \/ SessionOK(sess[b])
    /\ slot \in Ids \cup {0} /\ lock \in Ids \cup {None, Other}
    /\ dying \subseteq Ids /\ hung \subseteq Ids
    /\ \A c \in Callers : op[c].pc \in InSelect \cup {"idle", "retire", "boot", "load", "close"}

\* No action reaches an element through a reference that was not issued to this run for
\* this page of this Chrome, or on a page that was not, when last observed, what the
\* run had been shown: whatever other operations, tabs, runs and the page itself did
\* since (resolve_element_ref, observation_fingerprint, rotate_observation).
ActsOnObserved ==
    \A c \in Callers :
        op[c].pc \in {"aim", "type", "act", "release"} /\ Kind(c) \in RefKinds =>
            born[op[c].ref] = [of |-> op[c].id, run |-> c, page |-> Held(c).active, print |-> op[c].seen]

\* A POST leaves the browser only under the grant of the submit, login or upload in
\* progress, and once; a session that nobody uses has no authority left from an
\* action that failed, was refused or was cut (authorize_cdp_request and the ends of
\* the actions).
GrantScoped ==
    /\ \A c \in Callers : op[c].posted <= 1 /\ (op[c].posted = 1 => Kind(c) \in External)
    /\ slot # 0 => ~sess[slot].started /\ ~sess[slot].grant /\ ~sess[slot].taking

\* An operation that ended as not applied did not reach the page, even when a call failed
\* or was cut after Chrome had carried it out and before its answer, but for three
\* places, which the README describes: the awaits that follow end_action, tab_switch and
\* tab_close, and a failure of the first call of a click, a submit or a tab_open, whose
\* answer may be what was lost.  One that ended as applied did reach it
\* (Completion::TimedOut, Completion::Cancelled and interact_operation_outcome).
HonestReport ==
    \A c \in Callers : at(c, "idle") =>
        /\ op[c].told \in {"NotApplied", "Observed"} /\ op[c].touched =>
               op[c].cut \in {"tail", "tab", "lost"}
        /\ op[c].told = "Applied" => op[c].touched

Owners(b) ==
    {c \in Callers : op[c].id = b} \cup (IF slot = b THEN {"slot"} ELSE {}) \cup (IF b \in dying THEN {"dying"} ELSE {})

\* Every Chrome has exactly one owner, which will tear it down, and the profile is
\* locked exactly as long as a Chrome uses it: no failure, cut, drop or shutdown leaves
\* a process or a lock behind (teardown, Drop, start_system_browser).
NoLeak ==
    /\ \A b \in Ids : Cardinality(Owners(b)) = IF sess[b] = None THEN 0 ELSE 1
    /\ \A b \in Ids : lock = b <=> sess[b] # None /\ sess[b].managed

\* Every operation ends, or is in the teardown of a Chrome that hangs: the deadline
\* covers all its other awaits (run_extended_interaction, click, fill, navigate).
DeadlineHolds ==
    \A c \in Callers :
        ~at(c, "idle") ~> at(c, "idle") \/ (op[c].pc \in {"close", "retire"} /\ op[c].id \in hung)

=============================================================================
