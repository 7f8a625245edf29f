----------------------------- MODULE RunClient ------------------------------
(***************************************************************************)
(* The terminal UI as a client of the application: TuiRunClient of         *)
(* crates/tui/src/tui/run_client.rs, which submits turns and follows runs  *)
(* with one monitor task each, the event loop of ui.rs, which awaits one   *)
(* operation at a time and drains the bounded event channel in between,    *)
(* and the projection of run_projection.rs, which accepts every run's      *)
(* events only in sequence.                                                *)
(*                                                                         *)
(* The callers of Application are the UI and, for every run, its monitor,  *)
(* which is named by the run.                                              *)
(***************************************************************************)
EXTENDS Application

CONSTANTS
    Ui,            \* the UI, as a caller
    UiOps,         \* what the user does: a subset of Operations
    Patient,       \* the user opens a run after the last replay, accepts what is shown
    Capacity       \* RUN_EVENT_BUFFER_CAPACITY

Operations == {"submit", "steer", "cancel", "accept", "new", "open"}

ASSUME ClientAssumption ==
    /\ Ui \notin Runs /\ Callers = Runs \cup {Ui}
    /\ UiOps \subseteq Operations /\ Patient \in BOOLEAN /\ Capacity \in Nat \ {0}

VARIABLES
    client,        \* TuiRunClientState
    mon,           \* per run: its monitor task
    channel,       \* the events on their way to the UI, as run and sequence
    shown,         \* CanonicalRunProjection: per run the last sequence
    ui,            \* the event loop: the operation it awaits, and is_loading
    misled         \* runs the client has lost sight of, and why: they ended unseen, or
                   \* were accepted before their proposal was replayed

clientVars == <<client, mon, channel, shown, ui, misled>>
vars == <<appVars, clientVars>>

\* pending and offer: the run whose candidate the client offers to accept, and the candidate.
NewClient == [current |-> None, latest |-> None, pending |-> None, offer |-> 0,
              cursor |-> [r \in Runs |-> 0], monitored |-> {}, restart |-> {}]

Off == [st |-> "off", from |-> 0, next |-> 0, upto |-> 0]

\* fresh: the startup has not looked for pending creations yet.
NewUi == [on |-> TRUE, op |-> "none", run |-> None, loading |-> FALSE, fresh |-> TRUE]

ClientInit ==
    /\ client = NewClient
    /\ mon = [r \in Runs |-> Off]
    /\ channel = <<>>
    /\ shown = [r \in Runs |-> 0]
    /\ ui = NewUi
    /\ misled = {}

Init == AppInit /\ ClientInit

-----------------------------------------------------------------------------
(***************************************************************************)
(* TuiRunClientState.                                                      *)
(***************************************************************************)

Unless(r, x) == IF x = r THEN None ELSE x

\* pending_completion is taken away if it is about run r.
Dismissed(k, r) == IF k.pending = r THEN [k EXCEPT !.pending = None, !.offer = 0] ELSE k

\* terminal_can_continue.
Continues(s) == Last(s).kind # "Recovery"

\* run_is_quiescent_host_answer and run_is_active_projection.
HostAnswered(r, s) == r \in HostRuns /\ Answered(s)

ActiveView(r, s) == ~Ended(s) /\ ~HostAnswered(r, s)

\* observe_run: the client adopts the view s of run r.  No other root is active,
\* because the UI awaits one operation at a time.
ObserveRun(k, r, s) ==
    LET j == IF k.pending = r THEN k ELSE Dismissed(k, k.pending)
    IN  IF Ended(s)
        THEN [Dismissed(j, r) EXCEPT !.current = Unless(r, @), !.latest = IF Continues(s) THEN r ELSE None]
        ELSE IF HostAnswered(r, s)
        THEN [j EXCEPT !.pending = r, !.offer = Offer(s), !.current = Unless(r, @), !.latest = None]
        ELSE [j EXCEPT !.current = r]

\* record_event.
RecordEvent(k, r, n) ==
    LET s == SubSeq(log[r], 1, n)
        j == [k EXCEPT !.cursor[r] = n]
    IN  IF Last(s).kind = "proposed" /\ r \in HostRuns
        THEN [j EXCEPT !.pending = r, !.offer = n, !.current = Unless(r, @), !.latest = None]
        ELSE IF Last(s).kind = "accepted" /\ k.offer = Offer(s) THEN Dismissed(j, r)
        ELSE IF Ended(s)
        THEN [Dismissed(j, r) EXCEPT !.current = Unless(r, @), !.latest = IF Continues(s) THEN r ELSE None]
        ELSE j

\* ensure_monitor and begin_monitor: one monitor per run, or a note to restart it.
Monitored(k, r) ==
    IF r \in k.monitored THEN [k EXCEPT !.restart = @ \cup {r}]
    ELSE [k EXCEPT !.monitored = @ \cup {r}]

Spawned(k, r) == IF r \in k.monitored THEN mon ELSE [mon EXCEPT ![r] = [Off EXCEPT !.st = "ask"]]

-----------------------------------------------------------------------------
(***************************************************************************)
(* monitor_run.                                                            *)
(***************************************************************************)

MonitorAsk(r) ==
    /\ mon[r].st = "ask"
    /\ Watch(r, r, client.cursor[r])
    /\ mon' = [mon EXCEPT ![r].st = "wait"]
    /\ UNCHANGED <<spent, client, channel, shown, ui, misled>>

\* wait_events has answered: events, none, or an error.
MonitorTake(r) ==
    /\ mon[r].st = "wait" /\ at(r, "done")
    /\ mon' = [mon EXCEPT ![r] =
           IF req[r].answer = "events" /\ req[r].seen > req[r].after
           THEN [st |-> "record", from |-> req[r].after + 1, next |-> req[r].after + 1, upto |-> req[r].seen]
           ELSE [Off EXCEPT !.st = "finish"]]
    /\ misled' = IF req[r].seen <= req[r].after /\ req[r].after < Len(log[r]) /\ Ended(log[r])
                  THEN misled \cup {<<r, "unseen">>} ELSE misled
    /\ req' = [req EXCEPT ![r] = Idle]
    /\ UNCHANGED <<durable, process, asked, spent, client, channel, shown, ui>>

\* Faulty variant: a terminal event is only forwarded.
RecordOpen(r) ==
    /\ mon[r].st = "record"
    /\ client' = IF Ended(SubSeq(log[r], 1, mon[r].next)) THEN [client EXCEPT !.cursor[r] = mon[r].next]
                 ELSE RecordEvent(client, r, mon[r].next)
    /\ mon' = [mon EXCEPT ![r].st = "send"]
    /\ UNCHANGED <<appVars, channel, shown, ui, misled>>

\* A proposal that is replayed after its acceptance: the client takes the run for
\* one that waits for its host.
Overtaken(r, n) == log[r][n].kind = "proposed" /\ r \in HostRuns /\ Since(log[r], n, "accepted")

\* record_and_send: the state first, then the channel, which may be full.
MonitorRecord(r) ==
    /\ mon[r].st = "record"
    /\ client' = RecordEvent(client, r, mon[r].next)
    /\ mon' = [mon EXCEPT ![r].st = "send"]
    /\ misled' = IF Overtaken(r, mon[r].next) THEN misled \cup {<<r, "replayed">>} ELSE misled
    /\ UNCHANGED <<appVars, channel, shown, ui>>

\* A batch with a terminal event or an answer to the host is the last one.
LastBatch(r) ==
    \E i \in mon[r].from..mon[r].upto:
        log[r][i].kind \in Terminals \/ (log[r][i].kind = "proposed" /\ r \in HostRuns)

\* What the monitor does after it has sent an event.
Sending(r) ==
    IF ui.on /\ mon[r].next < mon[r].upto
    THEN [mon[r] EXCEPT !.st = "record", !.next = mon[r].next + 1]
    ELSE [Off EXCEPT !.st = IF LastBatch(r) \/ ~ui.on THEN "finish" ELSE "ask"]

\* Faulty variant: an event is dropped when the channel is full.
SendLossy(r) ==
    /\ mon[r].st = "send"
    /\ channel' = IF ui.on /\ Len(channel) < Capacity THEN Append(channel, <<r, mon[r].next>>) ELSE channel
    /\ mon' = [mon EXCEPT ![r] = Sending(r)]
    /\ UNCHANGED <<appVars, client, shown, ui, misled>>

\* The bounded channel: the monitor waits for room, or stops when the UI is gone.
MonitorSend(r) ==
    /\ mon[r].st = "send" /\ (ui.on => Len(channel) < Capacity)
    /\ channel' = IF ui.on THEN Append(channel, <<r, mon[r].next>>) ELSE channel
    /\ mon' = [mon EXCEPT ![r] = Sending(r)]
    /\ UNCHANGED <<appVars, client, shown, ui, misled>>

\* finish_monitor.
MonitorFinish(r) ==
    /\ mon[r].st = "finish"
    /\ IF r \in client.restart
       THEN /\ client' = [client EXCEPT !.restart = @ \ {r}]
            /\ mon' = [mon EXCEPT ![r].st = "ask"]
       ELSE /\ client' = [client EXCEPT !.monitored = @ \ {r}]
            /\ mon' = [mon EXCEPT ![r] = Off]
    /\ UNCHANGED <<appVars, channel, shown, ui, misled>>

-----------------------------------------------------------------------------
(***************************************************************************)
(* run_canonical_event_loop: the UI awaits one operation at a time.        *)
(***************************************************************************)

UiIdle == ui.on /\ ui.op = "none"

\* What an event shown to the user does to is_loading.
Loading(r, n) ==
    LET kind == log[r][n].kind
    IN  IF kind = "proposed" THEN r \notin HostRuns
        ELSE kind \in {"created", "accepted"} \/ (ui.loading /\ kind \notin Terminals)

\* projection.apply: a gap in the sequence ends the event loop.
Present ==
    /\ UiIdle /\ channel # <<>>
    /\ channel' = Tail(channel)
    /\ LET r == Head(channel)[1] n == Head(channel)[2] IN
        IF n <= shown[r] THEN UNCHANGED <<shown, ui>>
        ELSE IF n = shown[r] + 1
        THEN /\ shown' = [shown EXCEPT ![r] = n]
             /\ ui' = [ui EXCEPT !.loading = Loading(r, n)]
        ELSE ui' = [ui EXCEPT !.on = FALSE] /\ UNCHANGED shown
    /\ UNCHANGED <<appVars, client, mon, misled>>

Await(op, r) == ui' = [ui EXCEPT !.op = op, !.run = r, !.fresh = FALSE]

\* A patient user opens a run when no events are on their way, and accepts what
\* is on the screen.
Waited == Patient => channel = <<>> /\ client.monitored = {}

OnScreen(r) == Patient => Has(SubSeq(log[r], 1, shown[r]), "proposed")

\* recover_creation_at_startup: the only pending creation is taken up again.
Recover ==
    /\ UiIdle /\ ui.fresh
    /\ LET lost == {r \in reserved: log[r] = <<>>} IN
        IF Cardinality(lost) = 1
        THEN \E r \in lost: Create(Ui, "recover", r, None) /\ Await("recover", r)
        ELSE ui' = [ui EXCEPT !.fresh = FALSE] /\ UNCHANGED appVars
    /\ UNCHANGED <<client, mon, channel, shown, misled>>

\* Faulty variant: a turn is submitted whatever is active.
MaySubmitAnyway == TRUE

\* plan_submit, and the composer of the UI, which waits while it is loading.
MaySubmit == client.current = None /\ ~ui.loading

Submit ==
    /\ UiIdle /\ ~ui.fresh /\ "submit" \in UiOps /\ MaySubmit
    /\ \E r \in Runs:
        /\ IF client.latest = None THEN Create(Ui, "start", r, None)
           ELSE Create(Ui, "continue", r, client.latest)
        /\ Await("submit", r)
    /\ UNCHANGED <<client, mon, channel, shown, misled>>

\* steer, interrupt and cancel of the active root, with a fresh identity.
Command(op) ==
    /\ UiIdle /\ op \in UiOps \cap {"steer", "cancel"} /\ client.current # None
    /\ Control(Ui, op, client.current, Len(asked) + 1, 0)
    /\ Await(op, client.current)
    /\ UNCHANGED <<client, mon, channel, shown, misled>>

Accept ==
    /\ UiIdle /\ "accept" \in UiOps /\ client.pending # None /\ client.current = None
    /\ Control(Ui, "accept", client.pending, Len(asked) + 1, client.offer)
    /\ Await("accept", client.pending) /\ OnScreen(client.pending)
    /\ UNCHANGED <<client, mon, channel, shown, misled>>

\* prepare_new_root.
NewRoot ==
    /\ UiIdle /\ "new" \in UiOps /\ client.current = None
    /\ client' = [client EXCEPT !.latest = None, !.pending = None, !.offer = 0]
    /\ UNCHANGED <<appVars, mon, channel, shown, ui, misled>>

\* reopen_from_hub: the replay starts again at sequence 1.
Open(r) ==
    /\ UiIdle /\ ~ui.fresh /\ "open" \in UiOps /\ client.current = None
    /\ Query(Ui, r)
    /\ client' = [client EXCEPT !.cursor[r] = 0]
    /\ Await("open", r) /\ Waited
    /\ UNCHANGED <<mon, channel, shown, misled>>

\* attach_or_resume: a run that is neither terminal nor answered is resumed, as
\* part of the same operation.
OpenResume ==
    /\ ui.op = "open" /\ at(Ui, "done") /\ ActiveView(ui.run, Loaded(req[Ui]))
    /\ Begin(Ui, "resume", ui.run, None, 0, 0)
    /\ ui' = [ui EXCEPT !.op = "resume"]
    /\ UNCHANGED <<asked, spent, client, mon, channel, shown, misled>>

Returned(op) == ui.op = op /\ at(Ui, "done")

Resting == [req EXCEPT ![Ui] = Idle]

Back == [ui EXCEPT !.op = "none", !.run = None]

\* adopt_launched_run.
Adopt(r, s) ==
    LET k == ObserveRun(client, r, s)
        follow == k.cursor[r] < Len(s) \/ ~Ended(s)
    IN  /\ client' = IF follow THEN Monitored(k, r) ELSE k
        /\ mon' = IF follow THEN Spawned(k, r) ELSE mon

\* A launch has returned; opening a run also starts a new projection, and a
\* failed recovery at startup ends the UI.
Launched ==
    /\ \E op \in {"submit", "recover", "open", "resume"}:
        /\ Returned(op) /\ (op = "open" => ~ActiveView(ui.run, Loaded(req[Ui])))
        /\ IF req[Ui].answer = "run"
           THEN /\ Adopt(ui.run, Loaded(req[Ui]))
                /\ ui' = [Back EXCEPT !.loading = op = "submit" \/ ActiveView(ui.run, Loaded(req[Ui]))]
                /\ shown' = IF op \in {"open", "resume"} THEN [r \in Runs |-> 0] ELSE shown
           ELSE ui' = [Back EXCEPT !.on = op # "recover"] /\ UNCHANGED <<client, mon, shown>>
    /\ req' = Resting
    /\ UNCHANGED <<durable, process, asked, spent, channel, misled>>

\* accept_completion: the accepted run is the active root again.
AcceptReturned ==
    LET r == ui.run
        j == IF client.offer = asked[req[Ui].id].about THEN Dismissed(client, r) ELSE client
        k == Monitored([j EXCEPT !.current = r], r)
    IN
    /\ Returned("accept")
    /\ IF req[Ui].answer = "accepted"
       THEN /\ client' = k
            /\ mon' = Spawned(client, r)
            /\ ui' = [Back EXCEPT !.loading = TRUE]
       ELSE ui' = Back /\ UNCHANGED <<client, mon>>
    /\ req' = Resting
    /\ UNCHANGED <<durable, process, asked, spent, channel, shown, misled>>

\* A refused cancel or interrupt leaves the event loop with its error.
CommandReturned ==
    /\ Returned("steer") \/ Returned("cancel")
    /\ ui' = [Back EXCEPT !.on = ui.op = "cancel" => req[Ui].answer = "accepted"]
    /\ req' = Resting
    /\ UNCHANGED <<durable, process, asked, spent, client, mon, channel, shown, misled>>

\* The process of the UI dies and is started again.
Reboot ==
    /\ Restart
    /\ client' = NewClient /\ mon' = [r \in Runs |-> Off] /\ channel' = <<>>
    /\ shown' = [r \in Runs |-> 0] /\ ui' = NewUi /\ misled' = {}

-----------------------------------------------------------------------------
MonitorStep(r) ==
    MonitorAsk(r) \/ MonitorTake(r) \/ MonitorRecord(r) \/ MonitorSend(r) \/ MonitorFinish(r)

UiReturns == OpenResume \/ Launched \/ AcceptReturned \/ CommandReturned

UserActs ==
    \/ Submit \/ Accept \/ NewRoot
    \/ \E op \in {"steer", "cancel"}: Command(op)
    \/ \E r \in Runs: Open(r)

Application == (AppStep \/ \E c \in Callers: FollowStep(c)) /\ UNCHANGED clientVars

Next ==
    \/ Application \/ Reboot \/ Recover \/ UserActs \/ UiReturns \/ Present
    \/ \E r \in Runs: MonitorStep(r)

Spec == Init /\ [][Next]_vars

\* The tasks of the process are scheduled; the user owes nothing.
Fairness ==
    /\ \A c \in Callers: WF_vars((RequestStep(c) \/ FollowStep(c)) /\ UNCHANGED clientVars)
    /\ \A l \in 1..MaxSent: WF_vars(TaskStep(l) /\ UNCHANGED clientVars)
    /\ \A r \in Runs: WF_vars(MonitorStep(r))
    /\ WF_vars(Present) /\ WF_vars(UiReturns)

FairSpec == Spec /\ Fairness

-----------------------------------------------------------------------------
(***************************************************************************)
(* Properties.                                                             *)
(***************************************************************************)

\* Well-formed state: the cursors of the client stay within the log, at most one
\* event per monitor is between the two, and a monitor exists for a marked run.
ClientTypeOK ==
    /\ \A r \in Runs: client.cursor[r] \in 0..Len(log[r]) /\ shown[r] \in 0..Len(log[r])
    /\ client.monitored = {r \in Runs: mon[r].st # "off"} /\ client.restart \subseteq client.monitored
    /\ {client.current, client.latest, client.pending} \subseteq Runs \cup {None}
    /\ Len(channel) <= Capacity

\* monitor_run, record_and_send and CanonicalRunProjection: every event on its
\* way is the next one for the projection or follows its predecessor, so no gap
\* ever ends the UI, for a patient user.
GapFree ==
    Patient =>
        \A i \in DOMAIN channel:
            LET r == channel[i][1] n == channel[i][2]
            IN  n <= shown[r] + 1 \/ \E j \in 1..i - 1: channel[j] = <<r, n - 1>>

\* The root of the client: the active one, or the one that is being launched.
Root == IF client.current # None THEN client.current ELSE ui.run

\* plan_submit, observe_run, record_event and accept_completion: no run is at work
\* but the root, so there are never two, whatever the user does; except for a run
\* whose replay has made the client believe that it waits for its host.
OneRoot ==
    \A l \in DOMAIN launch:
        launch[l].st \in {"drain", "loop", "review", "reject", "end"} =>
            launch[l].run = Root \/ <<launch[l].run, "replayed">> \in misled

\* record_event and monitor_run: a run that has ended does not stay the active
\* root, unless wait_events gave its monitor no event after the run had ended.
TerminalReleases ==
    \A r \in Runs:
        client.current = r /\ Ended(log[r])
            ~> client.current # r \/ <<r, "unseen">> \in misled \/ ~ui.on

=============================================================================
