# A TLA+ model of DSE

DSE is a local-first coding agent: a Rust program that talks to a DeepSeek
model, runs tools in a workspace on the user's machine, and keeps every run as
an append-only log of events in a SQLite database. Several DSE processes share
that database. This directory models the parts of the program that have to stay
right when processes die, callers go away, clients repeat themselves and the
world changes underneath: the run store, the canonical reducer, the Agent loop,
the isolated writers and their Git workspaces, the application service, the
terminal UI as its client, and the semantic browser.

Files named without a directory are these, all under `src/crates/`:
`run_store.rs` (`state/src`), `store.rs` and `agent.rs` (`runtime/src`),
`workspace.rs` and `runtime.rs` (`orchestrator/src`), `app/lib.rs` (`app/src`),
`run_client.rs`, `run_projection.rs` and `ui.rs` (`tui/src/tui`),
`semantic_browser.rs` (`tools/src`).

## The system and its parts

| Component | State it keeps | Operations | Modelled |
|---|---|---|---|
| Run store (`run_store.rs`, in-memory twin in `store.rs`) | event log, row of projections (epoch, lease owner and pid, last sequence, terminal, pending attempt), snapshot, creation reservations | `reserve_creation`, `create`, `acquire`, `append`, `release`, read-only queries | `RunStore`, `RunLedger`; proofs in `RunStoreProofs`, `RunStoreRefinement` |
| Canonical reducer (`store.rs`, `apply_event`) | `RunSnapshot` | one arm per event, with its preconditions | `RunReducer` for a root run, `Accepts` operators of `WriterLifecycle` for writers |
| Agent loop (`agent.rs`) | the worker's position, model permit, replayed answer, pending outcome; control queue | `run_launch`, `run_until_terminal`, `model_turn`, `execute_call`, `handle_control`, completion review, `finalize`; `launch_child`, `recover_writer_lifecycle`, `finish_writer_lifecycle` | `AgentLoop`; the writers in `WriterLifecycle`; proofs in `AgentLoopTypes`, `AgentLoopProofs` |
| Orchestrator (`workspace.rs`, `runtime.rs`) | branches, linked worktrees, tombstones, `HEAD.lock`, the integration lease | bind, seal, integrate, inspect and execute a cleanup | `GitWorkspace`, `WriterPromise`, `WriterLifecycle`; proofs in `WriterProofs` |
| Application (`app/lib.rs`) | registry of active launches, monitors, `StoreWatch` | `start`, `continue`, `recover`, `resume`, `steer`, `interrupt`, `cancel`, `resolve_interaction`, `accept_completion`, `wait_events` | `Application`; the effect of the commands on a run in `AgentLoop`; proofs in `ApplicationProofs` |
| Production composition (`app/src/production.rs`) | none of its own | builds launches, recovers creation intents | the step of `Application` that builds a launch or refuses it |
| Terminal UI (`run_client.rs`, `run_projection.rs`, `ui.rs`) | active root, cursors, monitors, event channel, projection | submit, steer, cancel, accept, new, open; `monitor_run` | `RunClient`; proofs in `RunClientProofs`; no rendering |
| Semantic browser (`semantic_browser.rs`) | the live session: pages, references, fingerprints, grants, downloads; the managed profile | navigate, click, fill, press, scroll, select, submit, login, upload, download, promote, wait, status, back, tabs, clear; preview, shutdown | `BrowserSession`; proofs in `BrowserSessionProofs` |
| Protocol (`protocol`) | none | types of events, commands, decisions | as values of the modules above |
| App server | connections | HTTP/SSE, stdio | no: transport |
| DeepSeek port | request ledger | transport, SSE decoding, accounting | as an attempt that answers, fails or is silent |
| Context; file, shell and web tools | none the loop reads | prompts; effects on the workspace | tool start, effect, report and verdict only |
| CLI, MCP client, config, secrets, localization, scripts, eval | | | no: no run state |

How they interact. A client (TUI, CLI, app server) calls the application. The
application reserves and creates a run, or resumes one: it starts a *launch*, a
background task that takes the run's lease in the store, reports that it is
ready, is entered in the registry and is followed by a monitor task. Commands go
into the launch's queue. The launch loads a snapshot, and from then on
*publishes* each thing it does: it appends an event, the store folds the event
through the reducer, and only then does the launch act on it. The model, the
tools and the host verifier are called between two such events. The `agent` tool
starts a child run in a Git worktree of its own and, when the child is done,
seals its work as a commit, integrates that commit into the user's branch and
cleans up, again with an event around every step. The browser tools of all runs
share one harness with at most one Chrome. A run ends with a `Terminal` event, or
gives up its lease with an open log when a host has to accept its completion.
The terminal UI follows every run with a monitor that reads events from the
application and sends them through a bounded channel to the projection.

What is hard here:

* a process may die between any two appends, and the next one must know from
  the log alone whether a request, a tool or a verifier may already have run;
* a process that lost its run may still be writing; pids are reused;
* streaming deltas move the log past the stored snapshot;
* steer, stop, resolve and accept commands arrive at any time, may be repeated,
  and race the deadline, the model, the tool and the end of the run;
* evidence and acceptances are about a workspace revision which others may
  change before, during and after the check;
* the request budget must leave one request for the final turn, across retries
  and restarts;
* Git has no transaction over a ref, an index and a worktree: the user and other
  Git processes act between any two commands of an integration or a cleanup;
* a request to the application may be dropped at any await, and the registry of
  launches, the leases in the store and the monitors change in separate steps;
* the page in the browser changes between observation and action, and a deadline
  or a cancellation drops an operation at whatever await it has reached.

`PROJECT.json` lists these as hazards, each at the line where it bites and with
the properties that are about it.

## Modules

**`RunLedger`** is the abstract specification of the store: one ledger per run
that only grows, is written in terms that do not overlap, and is closed by its
first final entry.

**`RunStore`** models `SqliteRunStore`. Each operation is one IMMEDIATE
transaction, hence one step; an operation that returns an error rolls back and
is no step. `row` is the row of `agent_runs`, `log` the events, `snap` the
snapshot table with its column and its JSON body apart, `creations` the
reservations. `held` are leases in the memory of live processes, superseded ones
included, so that a worker that was taken over can go on trying to append.
`Crash` and `Spawn` remove and reuse pids. `Accepts` and `Apply` are the reducer
reduced to what the row projects: the pending attempt and the terminal outcome.
The epoch `by` in a stored event is auxiliary.

**`RunReducer`** holds, for every event type of a root run, `<Event>Fits` (the
preconditions of its arm in `apply_event`, validators included) and `<Event>`
(the snapshot after it), and `Open`, the checks common to all. A workspace state
is a generation and a revision; a candidate is a turn and a workspace state;
receipts, proofs and consents are sets.

**`AgentLoop`** models the worker. A step ends where the code awaits: at an
append, or for the model, the tool, the verifier, the user or a clock. `w.pc`
names the place. `PublishOr` is `publish`: if the reducer refuses the event the
worker takes the error path and `refused` remembers the type. `Listening` are
the places where the code takes commands, `WatchesClock` those that also watch
the deadline; while the verifier runs it does neither. `Send`, `Resume` and
`AcceptCompletion` are the application's operations on the run; `Crash`, `Edit`
and `DeadlinePasses` are the rest of the world. `did` and `acked` are auxiliary.

**`GitWorkspace`** models `WriterWorkspaceOrchestrator`: the root checkout, one
branch and linked worktree per writer, `HEAD.lock`, the integration lease, and
bind, seal, integrate, inspect and clean up as sequences of steps. A step is one
Git command that changes the repository or one batch that only reads it. A commit
is the sequence of changes that lead to it, so "part of the branch" is "prefix
of". The acts of others are data (`UserActs`): edit inside or outside the
writer's paths, undo, commit, switch, take or drop `HEAD.lock`, check the
writer's branch out elsewhere, change or delete the worktree, or lock it.

**`WriterPromise`** is the abstract specification of the writers: the branch only
grows, a writer adds its commit at most once and only before its verdict, and a
verdict is final and true.

**`WriterLifecycle`** extends `GitWorkspace` with what the runtime does around
it: the durable events of a writer (`life`), the runtime's position (`pc`), what
the reducer refuses, a cancel or a deadline of the root run, crashes, and
`Continue`, which enters the lifecycle at the point the log names. The rest of
the Agent loop appears as the terminal the root wants.

**`Application`** models the command service. A request (`req`) is a task that
stops at every await; a launch (`launch`) is the task that works on a run and
appears here as the events it commits; `active` is the registry, `monitors` the
tasks that retire launches. A completion candidate is the place of its proposal in
the log. `Review` is `accept_completion_candidate`, `FailVerification` and
`RejectCandidate` are the two events of a verifier that fails, and `Boot` is how a
resumed run goes on: it repairs a missing rejection, puts the candidate before its
host or its review, or, once the candidate was rejected, takes another turn or ends.
An acceptance names the candidate it is about, and counts only while that one is
pending. `Abort` is the caller who goes away while his
request awaits (`PendingActivation` is the guard for that), `Restart` the death of the
process. `asked` counts how often a client sent the same command. What a launch
does in detail is `AgentLoop`'s subject, the store is `RunStore`'s.

**`RunClient`** extends `Application` with the terminal UI: `client` is
`TuiRunClientState`, `mon` the monitors, `channel` the bounded channel, `shown`
the projection's last sequences, `ui` the event loop, which awaits one operation
at a time. The callers of `Application` are the UI and one monitor per run. The
ghost `misled` names the runs the client has lost sight of: a run that ended
unseen, or that was accepted before its proposal was replayed.

**`BrowserSession`** models the harness of the semantic browser. `slot` is the
session between operations, `op` the operation of each run, `sess` the live
sessions, `lock` the owner of the managed profile. An operation takes the session
out of the slot, captures an observation, compares it with the fingerprint its
reference was issued for, aims, begins the action, dispatches it, observes again
and puts the session back, or tears it down. `Cut` is the deadline or a
cancellation, which drops the operation at its current await; `Abandon` is the
second line of defence in the tool layer, 5 s later. An observation stands for
its fingerprint and all references of an observation are one number. `born`,
`touched`, `posted` and `cut` are auxiliary.

The theorems are in modules of their own: **`RunStoreProofs`** and
**`RunStoreRefinement`** about `RunStore`, **`AgentLoopTypes`** and
**`AgentLoopProofs`** about `AgentLoop` and `RunReducer`,
**`BrowserSessionProofs`** about `BrowserSession`, **`ApplicationProofs`** about
`Application`, **`RunClientProofs`** about `RunClient`, **`WriterProofs`** about
`WriterLifecycle` and `GitWorkspace`. The `MC...` modules give the sets of
commands, calls, kinds and symmetries of the runs.

Where they meet. `RunStore` shows that only the holder of the current lease
appends and that the snapshot is the fold of the log; `AgentLoop` and
`Application` take both for granted and look at what the worker and the requests
do with them. `AgentLoop` uses `RunReducer`, `WriterLifecycle` extends
`GitWorkspace` and implements `WriterPromise`, `RunClient` extends `Application`.

## Abstractions

* Payloads are left out: prompts, answers, arguments, digests, accounting. An
  answer is final text, blank, a list of calls, or invalid. The verifier passes
  exactly on the revisions in `Good`, or breaks down.
* Context compaction and the hard context limit are choices.
* `RejectCall` stands for every reason a call is turned down before its
  authorization. These checks are taken to give the same result after a restart
  for a call that was already authorized; the code's inputs to them are frozen
  in the log.
* After a cancel the code gives a running tool 5 s to finish. The tool's writes
  in that time are writes before the cut-off here.
* The temporal evidence policy and read-only children are not in `RunReducer`. A
  call to the `agent` tool is not among the call kinds of `AgentLoop`; it is
  the subject of `WriterLifecycle`.
* Streaming deltas are in `RunStore` only, where they matter to the snapshot.
* An append is taken or refused. One whose answer is lost, and the retry of
  `publish_inner`, belong to the planned `RunWriter`.
* `GitWorkspace` keeps the verdicts of the diff, scope and limit checks, not the
  checks; each writer belongs to a root run of its own.
* In `Application` a steer stands for every event that only lengthens a log, and
  store reads and writes do not fail. Edits of the workspace are left to
  `AgentLoop`, so a candidate's acceptance stays current. The outcome `Completed`
  stands for every settled end, blocked and failed runs included.
* In `WriterLifecycle` a failed `bind_writer` keeps the end "lost" of a child where
  `agent.rs:3098` makes it blocked, and the exits of `agent.rs:2524-2559` between
  bind and child (budget, catalogue) are those of a child that was stopped or
  failed; no property tells these apart. The branch of `CleanupGuard` that creates
  a guard worktree (`workspace.rs:1219-1233`) is translated, but no run comes to it.
* In `BrowserSession` `press` stands for press, scroll and select. The firewall
  is its decision on a POST; what GET requests and the proxy let through is not
  modelled. `touched` means that Chrome has carried out the action.

## Runs

| Run | Question | Bounds |
|---|---|---|
| `store` | Do superseded workers write nothing, do live ones keep their lease, does the lagging snapshot always replay, and does the store implement `RunLedger`? | 1 run, 2 pids, 3 epochs, 5 events, 2 attempts. Runs do not share rows, so one suffices; two pids give takeover and pid reuse; three epochs give a lease superseded twice; five events hold a request with deltas, its end and a terminal. |
| `creation` | Are intents consumed exactly with their run, and does a continuation descend only from settled runs? | 3 runs (a chain of two ancestors), 2 commands, 2 workspaces |
| `loop_commands` | Steers, answers and stops at any time: does the reducer accept every event, does an acknowledged stop decide the outcome, do steers keep their order? | 2 steers, a denial, an answer, a cancel and an interrupt under one id; 2 calls of three kinds, 2 turns, 1 crash |
| `loop_completion` | Is a completed run proven, is the host asked once, does anything external happen twice, is the reserved permit kept? | host and verifier in the contract; 2 revisions, one good; 2 edits by others, unobservable revisions; 2 failure codes, 1 retry, 3 requests, 3 turns; 2 crashes, 4 resumes |
| `loop_ends` | Does the worker end when told, does it end or wait if everybody answers, does a tool ever run unapproved? | an approval and a stop, each sent twice; deadline; 2 turns, 3 requests, 1 retry, 1 crash |
| `writer_others` | Others interfere with a writer: does the branch only grow, is nothing deleted without a durable plan, do the user's files and a foreign checkout survive, is "removed" true? | 1 writer, 2 acts of eleven kinds, cancel and deadline, 3 ends of the child, 1 crash |
| `writer_two` | Two root runs in one repository: are files that lag behind the branch always accounted for? | 2 writers, 1 act of the user on the root |
| `writer_resume` | Does the run always end, and does the reducer accept what a resumed lifecycle appends? | 1 writer, 3 crashes, or 1 act on its branch, worktree or `HEAD.lock` |
| `application` | Does only the holder of the lease work on a run, is no launch out of reach, has a refused command no later effect, is an accepted candidate judged without a further command? | 1 run that awaits its host and its verifier, 2 callers, 3 commands sent (retries included), 1 failed verification, 1 abort or restart |
| `run_client` | Does the projection see no gap, is one root at work, is an ended root released, is every request answered? | 2 runs, one of which awaits its host; UI and 2 monitors; channel of 1; 2 sends; 1 failed verification; 1 restart; a user who waits for replays |
| `browser` | Do actions hit what was observed, is a grant used once, are reports true, is nothing leaked, does every operation end? | 2 runs: one uses every operation, the other opens pages and fills in forms; 2 pages, 2 contents, 2 Chromes, 3 operations, 1 change of the page, 2 POSTs, 1 fault (a hang, a shutdown, or another process with the profile) |
| `writer_cancelled` (violation) | A durable cancel reaches a run whose writer has completed. | 1 writer, no interference, no crash |

Why the bounds are enough to be of interest. A run of the loop has at most three
turns because the third is the terminal turn without tools, after one turn with
tools and one that repairs a rejected completion. One crash reaches every place
between two appends; the runs about recovery have two or three, so that the
recovery itself is interrupted. `MaxResumes` bounds restarts without a crash,
which otherwise repeat for ever. Two acts of others reach an interference and
its undoing within one Git operation. Three commands to the application give a
start and two requests that race, or one command with its retry and another. One
failed verification gives a candidate that is accepted and rejected, a crash
between the two, and a second candidate of the same run.
Three browser operations give an observation, an action on it, and one that
meets the state this action left behind; two Chromes give a navigation that
retires the first. `run_client` was also run with three sends and no fault.

Deadlock is not checked in any run: a run that has its terminal event, a user
who asks nothing more, or an instance that used up its bounds has nothing left
to do.

### Fairness

* `AgentLoop`: weak fairness of `Proceed`, the worker's own code between two
  awaits, and of `VerifierReturns`: the verifier gates have a time limit of
  their own (`VERIFIER_GATE_TIMEOUT_MS`, `tools/src/run_verifiers.rs:30`).
  `EndsWhenTold` needs no more. It is weak fairness of one disjunction, so the
  scheduler may always prefer another step of the worker; that the queue is
  served is a fact about where the loop listens. `LoopEnds` has `Answering` as
  its premise: attempts end, tools return and retry delays pass. Transport and
  tools have time-outs for that, but nothing in the runtime enforces it.
* `WriterLifecycle`: the runtime of each root run goes on (`RuntimeStep`) and a
  run that is down is resumed in the end (`Resume`). The second is an assumption
  about the user; without it nothing ends after a crash.
* `Application`, `RunClient`: every task of the process is scheduled: each
  request, each launch with its monitor (`TaskStep`: the monitor waits for the
  launch to end, so the two are never enabled together), the channel's receiver and
  the awaited handler. A fair launch need not make progress of any particular kind:
  it may answer, be judged, or be rejected.
* `BrowserSession`: an operation whose Chrome has not hung goes on (`Proceed`),
  and timers fire (`Expire`).

The user, clients, others' Git processes, pages, crashes and hangs are never
fair: nobody has to send, ask, answer, cancel or interfere.

## Properties

Each is checked by the run named above, and has a mutant in `PROJECT.json`: a
plausible bug in one of the mapped definitions, under which it fails.

Store

* `SnapshotIsReplay`: the consistency checks that `acquire` and `load` make
  never fail, so the store cannot lock itself out of a run.
* `TermsNeverOverlap`, `LeaseNotStolen`: fencing; a live worker loses its lease
  only by releasing it or by ending the run.
* `ImplementsLedger`: refinement of `RunLedger`.
* `IntentIffUncreated`, `LineageClosed`: creation and continuation.

Loop

* `AtMostOnce`: no request, tool call or verification begins twice.
* `NoUnapprovedRun`: a tool runs if the policy allows it or the user approved
  this very call.
* `LoopFitsReducer`: two pieces of code that were written apart, the loop and
  the reducer, agree. Without outside interference nothing is refused; with
  edits and unobservable revisions only `ToolOutcomeCommitted`,
  `HostVerificationPrepared` and `Terminal` can be. It excludes clients that
  send a command twice, see *Known disagreements*. Its run has a host and no
  verifier and no retries; `LoopNeverRefused` is for every contract and budget.
* `CompletedIsProven`, `AcceptanceSticks`: completion.
* `StopWins`, `SteersFifo`, `BudgetKept`: commands and budget.
* `EndsWhenTold`, `LoopEnds`: liveness.

Writers

* `ImplementsPromise`: refinement of `WriterPromise`; no commit leaves the branch,
  the user's included.
* `HeadStill`: while files are written, the branch stays where the compare and
  swap put it. `LagExplained`: files that lag behind the branch are in the hands
  of an integration or reported as unknown, also with two writers; reported as a
  conflict only if a process died or another one may take `HEAD.lock` (see "Known
  disagreements").
* `WriteAhead`: a branch or worktree is taken away only under a durable plan for
  exactly this commit. `CleanReport`: "removed" means removed, `HEAD.lock`
  included.
* `UserFilesKept`, `ForeignKept`: the user's uncommitted files and a checkout of
  the writer's branch elsewhere survive.
* `NothingRefused`, `Settles`: the order of `agent.rs` and the checks of
  `store.rs` agree at all the points where a resumed lifecycle may enter, and
  the run ends. `NothingRefused` is for root runs that nobody stops: after a cancel
  or a deadline events are refused, see "Finding with a run".

Application and terminal UI

* `OneWorker`: a run is worked on by the launch that holds its lease, and a lease
  does not outlive its launch, although the registry is only checked before a
  launch is built.
* `NoOrphan`: a launch that works is registered, about to be, or told to stop,
  although its caller may go away at any await.
* `RefusedStaysOut`: a command answered with an error is not in the log, and
  never gets there.
* `AcceptedJudged`: once an acceptance was answered and the faults are over, its
  candidate is judged without any further command: the run ends, or the verifier
  rejects the candidate. The process may have died between the acceptance, the
  failed verification and its rejection. It does not say that the run ends: after
  a rejection the run takes another turn, proposes again and waits for its host.
* `Served`: no wake-up of `StoreWatch` is lost and no request waits for ever.
* `GapFree`, `OneRoot`, `TerminalReleases`: the projection never meets a gap (it
  would end the UI), no run but the root is at work, and an ended root does not
  keep the UI from submitting. `GapFree` assumes a user who opens a run when the
  last replay is over and accepts what is on the screen. `OneRoot` holds whatever
  the user does (the run checks it for the patient one); it exempts a run whose
  proposal was replayed after its acceptance (see "Known
  disagreements"); that takes three commands, so it was found with `MaxSent = 3`,
  one more than the run uses.

Browser

* `ActsOnObserved`: no action goes through a reference that was issued to another
  run, page or Chrome, or onto a page that is not what the run was shown.
* `GrantScoped`: a POST leaves under the grant of the submit, login or upload in
  progress, once; a session nobody uses has no authority left.
* `HonestReport`: "not applied" is said only of what did not reach the page, and
  "applied" only of what did, wherever the operation failed or was cut. Chrome may
  carry out a call before its answer arrives (`Deliver`), and the call may then
  fail or be cut. Three places are exempt; "Known disagreements" lists them.
* `NoLeak`: every Chrome has one owner that will tear it down; the profile is
  locked exactly as long as a Chrome uses it.
* `DeadlineHolds`: every operation ends, except in the teardown of a hung Chrome.
* `BrowserTypeOK`: the limits on pages and downloads hold.

`TypeOK` of `RunStore` and `AppTypeOK` are proved and no run lists them; `TypeOK`
of `WriterLifecycle` and `ClientTypeOK` hold on the same instances and are kept
for proofs.

## Proofs

All theorems hold for every value of the constants: any sets of runs, processes,
callers, commands, calls, pages and contents, and any bounds. Each is
`Spec => []P` or, for an action property and a refinement, `Spec => P`. The
properties are the ones the runs check, except where the text says otherwise;
each inductive invariant was first checked with TLC on the instance of the run.

### Store

`RunStoreProofs`

* `TypeCorrect`: `TypeOK`.
* `LeasesWellFormed`: `LeaseInv`, the inductive invariant of this module: leases
  in memory belong to live processes and to runs that exist, an existing run has
  a positive epoch, and a run that does not exist has an empty row and log.
* `LeaseNeverStolen`: `LeaseNotStolen`. The step that matters is `acquire`: it
  needs a dead pid in the row, while a lease that matches the row carries the
  row's pid and, by `LeaseInv`, that pid is alive. Without the invariant the
  claim does not follow from one step.
* `Fencing`: `TermsNeverOverlap`. The last event's epoch is at most the row's,
  and `append` writes with the row's epoch only.
* `IntentRecoverable`: `IntentIffUncreated`.

`RunStoreRefinement`

* `StoreImplementsLedger`: `ImplementsLedger`. Initial states map to initial
  states; a creation and an append map to the step of the ledger, every other
  operation to a stutter. The append needs `TypeCorrect`, `Fencing` and that the
  row of a closed run says so.
* `SnapshotsReadable`: `ReadableInv`, what `read_persisted_snapshot` checks: row,
  snapshot column and JSON body agree up to the deltas by which the body lags.
* `ReplayExact`: `ReplayInv`. There is a sequence of snapshots, from the blank
  one to what `read_persisted_snapshot` returns, in which each comes from the one
  before by an event of the log that the reducer accepts. An append extends the
  sequence by one.
* `ReplayNeverRefused`: `SnapshotIsReplay`. That `Reduce`, a recursive function,
  computes the last snapshot of that sequence is the one induction over data of
  the project (`ReduceReplays`). The library's induction theorems cannot be
  instantiated here, so it is the argument by the least counterexample:
  `LeastNatural`, from `WFMin` and the well-founded order of the naturals.
* `LineageStaysClosed`: `LineageClosed`, by `LineageInv`. A continuation continues
  a settled root of its own workspace, and every non-empty set of runs has one
  whose source is outside: no cycle.

### Agent loop

`AgentLoopTypes`

* `LoopCoherent`: `LoopInv`, the invariant the rest relies on. `Coherent` relates
  the fields of the snapshot (a pending request, a pending call and a candidate
  exclude each other; a verification belongs to the candidate and the candidate
  to the last turn), `Placed` says where the worker may stand for a given
  snapshot. Both are needed: that the reducer keeps a snapshot coherent depends
  on where the worker publishes an event, and after a crash the worker's place is
  derived from the snapshot alone. One lemma per event of the reducer shows its
  result and the fields it leaves alone; one per action of the worker combines
  them.
* `LoopTypeOK`: `TypeOK`. `LoopKeepsBudget`: `BudgetKept`; the requests in the
  snapshot and the reserved permit of the worker together stay within the limit.

`AgentLoopProofs`, each with an invariant of its own on top of `LoopInv`

* `AcknowledgedStopWins`: `StopWins`, by `StopInv`: an acknowledged stop is the
  control in the snapshot, and no other control replaces it.
* `EffectsAtMostOnce`: `AtMostOnce`, by `SentInv`, `RanInv` and `VerifiedInv`.
  Requests and calls are numbered in the snapshot before they begin, so that a
  number that is only prepared has not begun. A verification has no number:
  `VerifiedInv` says instead that a verified candidate is in flight, is rejected,
  or the workspace has a later generation than the candidate was proposed for.
* `StartsApproved`: `NoUnapprovedRun`, by `ApprovedInv`: an approval in the
  snapshot was acknowledged for the call that is pending now.
* `CompletionMeetsContract`: `CompletedIsProven`, by `ProvenInv`.
* `SteersKeepOrder`: `SteersFifo`. The property says that an order-preserving map
  takes the applied and the waiting steers onto the acknowledged ones; it is
  inductive with `LoopInv`. Acknowledging a steer extends the map by one pair,
  applying one moves it across the border, everything else leaves both sides
  alone.
* `HostIsAskedOnce`: `AcceptanceSticks`, by `AcceptInv`. An acceptance stays in the
  snapshot, none is for a candidate still to come, and a worker on a turn has no
  candidate. While nobody edits the workspace and it can be observed (`Calm`), the
  candidate is the one for the workspace as it is, or its own verification has
  sealed a newer state, or its rejection is due: so the worker that would wait for
  the host finds the acceptance. The invariant has to follow the candidate through
  the three places of a verification and through `Recover`.
* `LoopNeverRefused`: `LoopFitsReducer`, by `FitsInv` together with `AcceptInv`,
  `RanInv` and `ApprovedInv`. An event is taken because of where the worker stands,
  so the invariant says for every place what `apply_event` will ask there:
  `StopsInv` (after a stop only the outcome of the call and the outcome of the run
  are left to publish, and the latter is the one the stop asks for), `TurnInv` (the
  request, the replayed answer, the waiting steers and the rejection of the turn),
  `ToolInv` (the authorization and the answer that a call at its start has, and
  that the outcome about to be settled is the one its stage admits), `ReviewInv`
  (a verification is about the workspace as it is, and a decision cites what
  `validate_completion_decision` compares). `InboxInv` is where the hypothesis on
  copies enters: if no command is sent twice, an answer in the queue has no receipt
  and no second copy in it. Without the hypothesis a copy that is acknowledged
  again moves the worker past an interaction that is still open. One lemma per
  group of actions; the three events that interference can have refused are
  published by the steps of `SettleFits`, `ReviewFits` and `FinalFits`.

### Browser

`BrowserSessionProofs`: `BrowserTyped` (`BrowserTypeOK`), `ActsOnWhatWasShown`
(`ActsOnObserved`), `GrantsAreScoped` (`GrantScoped`), `ReportsAreHonest`
(`HonestReport`) and `NothingLeaks` (`NoLeak`), all from one invariant,
`BrowserInv`: `Alone` (one operation at a time, and the slot is empty meanwhile),
`Owned` (every Chrome has an owner and every owner a Chrome of its own),
`Orderly` (`Fits` says what has happened to the page and which authority is open
at each place of an operation) and `Observed` (references and fingerprints in a
session are those of observations of this run, page and Chrome). `Alone` is what
makes the others local to one operation; the honesty of a report after a cut
follows from `Fits` at the place of the cut.

### Application

`ApplicationProofs`

* `AppInvariant`: `AppInv`. `Leased`: the launch at work is the one with the
  lease. `Registered`: an entry is a launch of its run. `Attended`: a launch that
  its request let go (`Loose`) is registered, about to be, or has the stop in its
  queue (`Reached`); it has to hold from the moment the gate opens, long before
  the launch works. `Withheld`: by the place of the request that carries it, in
  which queue or log a steer or cancel that was sent once can be (`KeptOut`); a
  refused command is in no queue, which is what keeps it out of the log later.
  `Coherent`: what the launches, requests and queues refer to exists.
* `OneWorkerPerRun`: `OneWorker`. `NoLaunchOrphaned`: `NoOrphan`.
  `RefusedCommandsStayOut`: `RefusedStaysOut`. `AppTyped`: `AppTypeOK`.

### Terminal UI

`RunClientProofs`, on top of `AppInv`:

* `ClientInvariant`: `ClientInv`. `Booked`: a run is reserved before a launch is
  composed for it and before its log begins, so that a new process finds what
  was lost. `Awaited`: which request the operation that the UI awaits has made,
  and for which run; before the first operation nothing has happened yet.
  `Followed`: the marks of the client agree with the monitors that exist, and a
  run that is or was followed is reserved, so that no later submit creates it.
  `Delivering`, for a patient user: the event at a run's cursor is in the channel
  or shown (`Delivered`) wherever its monitor may ask for the next one, and the
  event the monitor records comes right after it (`Keeping`); a run that is being
  launched is followed from its first event, and while an open is awaited nothing
  is on its way (`Starting`). The last part is needed because an open sets the
  cursor back to 0 and, later, the projection too: an event sent in between would
  be ahead of the new projection.
* `EventsArriveInOrder`: `GapFree`. It is a part of `ClientInv`: the channel keeps
  its order when it is read at one end and written at the other, and a monitor
  appends an event whose predecessor was delivered.
* `OneWorkerUnderUi`: `OneWorker` of `Application` holds when the requests are
  those of the UI and its monitors, patient or not.
* `OneRootAtWork`: `OneRoot`, for a patient user or not. It is not inductive: that
  a second launch cannot appear beside the root follows from what the UI awaits,
  which run has a launch, and what the logs say. `RootInv` adds this to
  `ClientInv`. `Filed`: a terminal event is the last of its log, a run that is
  leased has not ended, and the receipts in a log, in the launches and in the
  requests are those of commands about their run. `Judging`: a candidate of a host
  run is verified, rejected or followed by another only after its acceptance, and
  no candidate waits for its host while a launch takes turns, reviews or rejects.
  `Entered`: a launch is awaited
  by the UI or is in the registry, and the registry has no entry for a run that
  is about to be launched. `Asking`: the request of the UI is the operation it
  awaits, a monitor asks about its own run, and an operation that launches is
  awaited only while there is no root. `Proposals`: what waits for acceptance was
  proposed, only an acceptance is at work on a run that waits for its host, and a
  resumption never takes up such a run; this is what lets `record_event` clear the
  root at a proposal without leaving a launch behind. `Adopted`: every live launch
  is of the root, awaited by the UI with an answer that will make its run the
  root, or of the exempted run (`Strayed`).

### Writers

`WriterProofs`, for any number of writers that share the repository, any acts of
others, stops and crashes

* `WriterInvariant`: `WriterInv`. Apart from the types it is a conjunction over
  the writers, and each conjunct speaks of one writer only. `Attends`: where the
  runtime is while an operation of the orchestrator is in progress. `Ordered`: the
  durable events come in order, and the runtime is where they say. `Holding`: the
  lease, `HEAD.lock` and the head of the root between the compare and swap and the
  release. `Removing`: what is gone at each place of a cleanup. `Adding`: the
  writer's commit is on the branch after its compare and swap and not before.
  `Reporting`: an integration that was reported as done has its files in place.
  `Keeping`, which holds until the first crash: nothing of a writer is gone before
  its cleanup came to it. `Attended`, without crashes and foreign locks: a held
  `HEAD.lock` has an owner at work.
* The argument has two halves. A step of a writer keeps its own conjunct, by one
  lemma per action. It keeps those of the others because of what `Bystands`
  demands of it: it leaves their operation and lifecycle alone, and their resources
  as far as they rely on them, touches
  `HEAD.lock` and the lease only if they are its own or free, and moves the root
  only in ways a writer under the lock does not see. The acts of others bystand
  every writer, since Git refuses to move `HEAD` while `HEAD.lock` exists.
* `BranchStandsStill`: `HeadStill`. `RemovedIsRemoved`: `CleanReport`.
  `ForeignCheckoutKept`: `ForeignKept`. `EveryLagExplained`: `LagExplained`, which
  is part of the invariant; that a second writer moves the branch on while the
  files of the first lag is excluded by the lease and by `Synced`.
* `PlannedBeforeRemoved`: `WriteAhead`. Only two steps take a branch or a
  worktree away, they are behind the checks of the cleanup, and by `Attends` the
  cleanup works on the commit of the durable plan.
* `UserFilesAreTheUsers`: `UserFilesKept`.
* `WritersImplementPromise`: `ImplementsPromise`. The compare and swap is
  `Deliver`, the settlement of an integration or of a failure is `Report`, a
  commit of the user is `UserCommits`; every other step of the runtime, of Git, of
  a crash and of a resume is a stutter. `Adding` gives the two facts that need
  history: the commit is not on the branch when it is delivered, and it is there
  exactly when the parent is told so.

### Assumptions

Those named in the modules, and no others. `RunStore`: `None` is no other value,
the bounds are naturals, and the two fixed event ids are not among the others.
`RunReducer` and `AgentLoop`: a contract asks for something, markers such as
`None` are no data, limits are naturals, lists of calls are made of call kinds.
`BrowserSession`: there are enough page identities for the limit on pages, and
markers are no data. `GitWorkspace` and `WriterLifecycle`: `None` is no writer, no
commit and no cleanup plan, a writer is not the user, and the acts, ends and stops
are those the actions know. `Application`: outcomes are those of the protocol and
commands those a client sends. `RunClient`: the UI is no run, the callers are the
UI and the monitors, and the channel has room for one event. TLC evaluates all of
them in the runs.

### Only model-checked

* Liveness, which is out of the prover's reach: `EndsWhenTold`, `LoopEnds`,
  `Settles`, `AcceptedJudged`, `TerminalReleases`, `Served`, `DeadlineHolds`.
* `NothingRefused` is a claim about one writer: with two of them an integration
  that is resumed meets the lease of the other, and the reducer refuses what
  follows. It stays with the instance of its run.

## Finding with a run

`writer_cancelled`: a cancel that arrives while the writer's child runs is made
durable as `ControlRequested` and stops the child. If the child had completed,
`finish_writer_lifecycle` publishes `AgentSealPrepared`, which `apply_event`
refuses after a durable control (`store.rs:552`). The lifecycle is never
finished, so `ToolOutcomeCommitted` and `Terminal` are refused too, and every
resume repeats this: the run can never end. `docs/architecture/RUNTIME_API.md`
line 572 says that a cancel commits `ControlRequested` and then enters a typed
terminal.

## Known disagreements

The models contain the following behaviours, or stop just short of them as the
comments of the properties say. They came up while modelling; no run is kept for
them.

Loop and application

* `activate` stops an activation that finds its run in the registry, with the
  comment (`app/lib.rs:1207`) that the other launch's lease is authoritative. A
  launch whose run awaits its host gives up the lease before its monitor removes
  the entry. A resume whose check of the registry came before that entry, and
  whose launch acquires in between, holds the lease, is told to stop, and commits
  the cancel: the durable run ends as cancelled, and the client was told that it
  is running.
* `resume_needs_live_model` (`app/lib.rs:88`) resumes a run with a pending
  completion on a port that refuses requests; the comment at lines 94-99 says
  such runs settle without model access. If the verifier has not run yet and then
  fails, the run needs a request and fails.
* The second copy of a resolve command, answered from its receipt while the next
  interaction is open, ends that interaction's wait without an
  `InteractionResolved` event (`agent.rs:3663`, `RUNTIME_API.md:580`). The
  reducer refuses the next event; no tool runs, but the run fails.
* A steer acknowledged while an accepted run restarts (`agent.rs:648`) is never
  applied (`RUNTIME_API.md:570`).
* An edit makes an acceptance stale (`agent.rs:3776`); the candidate of the
  waiting run keeps its old workspace state, so no acceptance of it can succeed.
* `wait_events` (`app/lib.rs:464`) reads the store and then the registry: a
  terminal committed and a launch retired in between give `recovery_required`, or
  no events, for a run that has ended. The monitor of the UI stops and the root
  stays active; `TerminalReleases` exempts exactly this.
* A steer that replaces the final answer of the last turn, followed by a restart,
  gives the run one turn more than `max_turns`; `TypeOK` of `AgentLoop` bounds the
  turns by the requests instead, and the request budget still holds.
* A reused pid keeps `acquire` away for as long as that process lives
  (`run_store.rs:1585`); by design on the safe side.

Terminal UI

* Opening a run while its replay is in flight (`run_client.rs:549`) gives a
  sequence gap, which ends the UI. `GapFree` assumes a user who waits.
* A replayed `CompletionProposed` that is recorded after an acceptance returned
  clears the active root, so a second root can be submitted; an acceptance that
  returns after its run's terminal was recorded sets a root that is never
  released. So does one that returns after the accepted candidate was rejected and
  the next one was recorded, until that one is accepted or the run is cancelled.
  `OneRoot` exempts the first run; the run of `TerminalReleases` assumes
  a user who accepts what is on the screen.
* The process dies between the acceptance of a host run and its terminal, and the
  run is opened again. The replay records `CompletionProposed`, which clears the
  root and makes the run pending (`run_client.rs:228`), and the monitor stops
  after that batch (`run_client.rs:790`): the resumed run works on while the UI
  does not follow it and lets the user submit another root. The same happens to a
  run whose accepted candidate was rejected and that was opened while it took its
  next turn: the earlier proposal is in its replay. This needs no impatient user;
  `OneRoot` exempts such a run.
* A cancel or interrupt that meets a run that has just ended returns an error
  that ends the UI (`ui.rs:998`, `1016`, `1159`, `1228`).

Writers

* A crash after a retained cleanup and before the tool outcome leaves a run that
  can never end (`agent.rs:4429` against `store.rs:3062`); `Settles` exempts it.
* A resumed cleanup does not restore the branch of a foreign checkout that
  appears after the deletion (`workspace.rs:1254`, comment at 1064-1069);
  `ForeignKept` exempts it.
* A crash between a published seal and `AgentSealCommitted`, then an edit of the
  root: the reducer refuses the cleanup plan (`store.rs:2517`).
* An edit during `read-tree`, or a foreign `HEAD.lock` after the compare and
  swap, is reported as a conflict that was not applied, although the commit is on
  the branch (`agent.rs:5734`). So is an integration that is resumed while
  another run holds the lease.
* An edit between `AgentIntegrationCommitted` and the tool outcome makes the
  reducer refuse the outcome as long as the edit stays (`agent.rs:1877`).
* A deadline with a failed child gives an indeterminate outcome with a root state
  that the reducer refuses; the run still ends.

Browser (`docs/decisions/` 0015 is the design)

* A cut in the awaits after `end_action` (the cookies of click, fill and login,
  the last capture of a download), and in `tab_switch` and `tab_close`, which
  never begin an action, is reported as not applied and safe although it was
  applied. `HonestReport` exempts these.
* `CdpClient::call` can fail after Chrome has carried out the command
  (`semantic_browser.rs:3156-3192`: the socket, or an event handled while the
  answer is awaited). Every action reports such a failure as indeterminate or
  applied, except the first call of a click (5787), a submit (8523) and a
  `tab_open` (8134), which report it as not applied. `HonestReport` exempts these
  too; with them, nothing else.
* `Browser.close` in the teardown is awaited without a limit, so a hung Chrome
  keeps the operation beyond its deadline; `DeadlineHolds` exempts it.
* A press, scroll or select whose dispatch or second observation fails, and a
  download cut at its end, leave the consumed reference valid; a press that fails
  is reported as applied without a teardown.
* A submit without receipt is reported as applied and not retryable where
  `CURRENT_CODEWHALE.md` says indeterminate.
* `record_external_response` compares the URL only: a late response to an earlier
  POST can become the receipt of the next submit to the same target.
* Outside the model: a failure flag left by an earlier operation, a page that a
  `tab_open` with a lost answer leaves in Chrome, and an upload whose file changes
  after its hash was taken.

## Not modelled, and the plan

Left, in this order:

1. `RunWriter`: `publish_inner` with its retries and lost answers, composed with
   `RunStore`; no event twice, none lost.
2. Read-only children (`join_children`, `settle_readonly_child`) and
   `RuntimeBudget`, the budget they share with their parent; the request ledger
   of the DeepSeek port.

Not planned: transport and SSE decoding, CDP framing, rendering, prompt text and
token estimates, parsing of settings and arguments, key storage, message
catalogues, and the file, shell and web tools themselves. They are input and
output or data: they keep no state that several actors change, and a model of
them would repeat their code. This is most of the repository's text, tests
included, so the share of its lines that the definitions here translate stays
small, about a tenth; it is most of the code that decides what a run may do.
