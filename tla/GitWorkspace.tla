---------------------------- MODULE GitWorkspace ----------------------------
(***************************************************************************)
(* The Git workspaces of crates/orchestrator: the repository a root run    *)
(* works in, one branch and linked worktree per isolated writer, and the   *)
(* five operations of WriterWorkspaceOrchestrator on them (bind, seal,     *)
(* integrate, inspect a cleanup, execute a cleanup).                       *)
(*                                                                         *)
(* Git has no transaction over a ref, an index and a worktree, so an       *)
(* operation is a sequence of Git commands.  A step here is one command    *)
(* that changes the repository, or one batch of commands that only read    *)
(* it.  Between two steps the user, another process or another writer may  *)
(* act, and the process may die; the module of the callers decides when.   *)
(*                                                                         *)
(* A commit is the sequence of the changes that lead to it: <<>> is the    *)
(* first commit, Append(c, "user") a commit of the user on top of c and    *)
(* Append(c, w) the commit that seals the work of writer w, based on c.    *)
(***************************************************************************)
EXTENDS Naturals, Sequences, SequencesExt, FiniteSets

CONSTANTS
    Writers,      \* the owner ids of the isolated writers
    None,         \* no value
    UserActs,     \* what the user and foreign processes may do
    MaxActs       \* bound: how often they do it

\* The acts of others: on the root checkout, on HEAD.lock, and on a writer's
\* branch or worktree.
RootActs == {"edit", "overlap", "undo", "commit", "switch", "lock", "unlock"}
WriterActs == {"checkout", "drift", "delete", "pin"}

Commits == Seq(Writers \cup {"user"})

ASSUME GitAssumption ==
    /\ None \notin Writers \cup Commits /\ "user" \notin Writers
    /\ UserActs \subseteq RootActs \cup WriterActs
    /\ MaxActs \in Nat

VARIABLES
    root,         \* the root checkout: main, the branch HEAD names, its content
    headLock,     \* who owns HEAD.lock of the root: <<kind, writer>>
    lease,        \* the writer whose operation holds the integration lease
    res,          \* per writer: its branch, tombstone and linked worktree
    base,         \* per writer: base_commit of its assignment
    op,           \* per writer: the operation in progress and its last result
    acts          \* how often others acted

gitVars == <<root, headLock, lease, res, base, op, acts>>

Free == <<"free", None>>
Marker(kind, w) == <<kind, w>>

\* work: how the worktree differs from its branch.  "draft" is a change inside
\* the allowed paths, "stray" one outside, "bare" a worktree without checkout.
Works == {"clean", "draft", "stray", "bare"}

NoResources == [branch |-> None, tomb |-> FALSE, path |-> FALSE, reg |-> FALSE,
                lock |-> "free", work |-> "clean", foreign |-> "no"]

Idle == [at |-> "idle", arg |-> None, ret |-> None, rev |-> None]

Steps == {"idle", "bindAdd", "bindVerify", "sealRecheck", "sealPublish", "sealVerify",
          "intLease", "intCas", "intLock", "intCheck", "intRelock", "intRecheck",
          "intApply", "intValidate", "intObserve", "clLock", "clSurvey", "clTomb",
          "clGuard", "clPin", "clCheck", "clDelete", "clVerify", "clRemove", "clGone",
          "clRelease", "clForget", "clLast"}

GitTypeOK ==
    /\ root \in [main: Commits, head: {"main", "other"}, checkout: Commits,
                 edited: {"none", "apart", "overlap", "torn"}]
    /\ headLock \in {Free, Marker("foreign", None)} \cup
                    {Marker(k, w) : k \in {"integration", "cleanup"}, w \in Writers}
    /\ lease \in Writers \cup {None}
    /\ res \in [Writers -> [branch: Commits \cup {None}, tomb: BOOLEAN, path: BOOLEAN,
                            reg: BOOLEAN, lock: {"free", "cleanup", "foreign"}, work: Works,
                            foreign: {"no", "begun", "yes", "late"}]]
    /\ base \in [Writers -> Commits \cup {None}]
    /\ \A w \in Writers : op[w].at \in Steps
    /\ acts \in 0..MaxActs

GitInit ==
    /\ root = [main |-> <<>>, head |-> "main", checkout |-> <<>>, edited |-> "none"]
    /\ headLock = Free
    /\ lease = None
    /\ res = [w \in Writers |-> NoResources]
    /\ base = [w \in Writers |-> None]
    /\ op = [w \in Writers |-> Idle]
    /\ acts = 0

-----------------------------------------------------------------------------
(***************************************************************************)
(* What the operations read.                                               *)
(***************************************************************************)

\* resolve_head of the root; the branch "other" stays at the first commit.
HeadCommit == IF root.head = "main" THEN root.main ELSE <<>>

\* validate_bound_repository(true), ensure_clean.
RootClean == root.checkout = HeadCommit /\ root.edited = "none"

\* The tree of the root is that of a commit: root_checkout_matches_commit.
RootMatches(c) == root.checkout = c /\ root.edited = "none"

RootAtBase(w) == root.head = "main" /\ root.main = base[w]

\* The revision observe_workspace computes for the root.
Revision == <<HeadCommit, root.checkout, root.edited>>

\* The commit that seals the work of w.
Final(w) == Append(base[w], w)

\* verify_owned_worktree: registered, at the commit, and clean when asked for.
WorktreeAt(w, c, clean) ==
    /\ res[w].path /\ res[w].reg /\ res[w].branch = c
    /\ clean => res[w].work = "clean"

\* cleanup_resource_facts.
WorktreePresent(w) == res[w].path \/ res[w].reg
BranchPresent(w) == res[w].branch # None

\* A sealed commit that was published although AgentSealCommitted is missing.
Published(w) == /\ res[w].branch \notin {None, base[w]}
                /\ WorktreeAt(w, res[w].branch, TRUE)

\* recover_prepared_seal.
PreparedSeal(w) == RootClean /\ RootAtBase(w) /\ Published(w)

-----------------------------------------------------------------------------
(***************************************************************************)
(* How an operation proceeds and ends.                                     *)
(***************************************************************************)

Goto(w, step) == op' = [op EXCEPT ![w].at = step]
Begin(w, step, a) == op' = [op EXCEPT ![w] = [at |-> step, arg |-> a, ret |-> None, rev |-> None]]
Answer(w, r) == op' = [op EXCEPT ![w] = [at |-> "idle", arg |-> None, ret |-> r, rev |-> None]]

\* A step that only reads the repository: answer, or go on.
Read(w, answer, step) ==
    /\ IF answer # None THEN Answer(w, answer) ELSE Goto(w, step)
    /\ UNCHANGED <<root, headLock, lease, res, base, acts>>

\* Dropping RootIntegrationLock or RootCleanupLock: the exact marker is
\* removed, and the lease with it.
Unlocked(w, kind) == IF headLock = Marker(kind, w) THEN Free ELSE headLock

Unleased(w) == IF lease = w THEN None ELSE lease

-----------------------------------------------------------------------------
(***************************************************************************)
(* bind_writer without a seal.                                             *)
(***************************************************************************)

\* plan_current: the assignment is based on the clean root HEAD.
PlanWriter(w) ==
    /\ base[w] = None
    /\ RootClean /\ root.head = "main"
    /\ base' = [base EXCEPT ![w] = root.main]

\* create: plan again, and recover what an earlier attempt left.  The branch
\* in the rebuilt assignment is the one checked out now.
BindStart(w) ==
    LET exists == WorktreePresent(w) \/ BranchPresent(w)
        bound == \/ root.head = "main" /\ WorktreeAt(w, base[w], FALSE)
                 \/ PreparedSeal(w)
    IN  /\ IF ~RootClean \/ HeadCommit # base[w] THEN Answer(w, "error")
           ELSE IF exists THEN Answer(w, IF bound THEN "ok" ELSE "error")
           ELSE Begin(w, "bindAdd", root.head)
        /\ UNCHANGED <<root, headLock, lease, res, base, acts>>

\* git worktree add -b.
BindAdd(w) ==
    /\ op[w].at = "bindAdd"
    /\ res' = [res EXCEPT ![w] = [res[w] EXCEPT !.branch = base[w], !.path = TRUE, !.reg = TRUE,
                                           !.work = "clean"]]
    /\ Goto(w, "bindVerify")
    /\ UNCHANGED <<root, headLock, lease, base, acts>>

\* recover_owned, and the comparison with the durable assignment.
BindVerify(w) ==
    /\ op[w].at = "bindVerify"
    /\ Answer(w, IF op[w].arg = "main" /\ RootClean /\ RootAtBase(w)
                       /\ WorktreeAt(w, base[w], TRUE) THEN "ok" ELSE "error")
    /\ UNCHANGED <<root, headLock, lease, res, base, acts>>

-----------------------------------------------------------------------------
(***************************************************************************)
(* seal_writer.                                                            *)
(***************************************************************************)

\* recover_active, or recover_prepared_seal when the writer is no longer at
\* its base; then the diff must be inside the allowed paths and not empty.
SealStart(w) ==
    /\ IF ~RootClean THEN Answer(w, "error")
       ELSE IF RootAtBase(w) /\ WorktreeAt(w, base[w], FALSE)
            THEN IF res[w].work = "draft" THEN Begin(w, "sealRecheck", res[w].work)
                 ELSE Answer(w, "error")
       ELSE Answer(w, IF PreparedSeal(w) THEN "ok" ELSE "error")
    /\ UNCHANGED <<root, headLock, lease, res, base, acts>>

\* After git add and write-tree: the root and the writer again.
SealRecheck(w) ==
    /\ op[w].at = "sealRecheck"
    /\ Read(w, IF RootClean /\ RootAtBase(w) /\ res[w].branch = base[w]
                    /\ res[w].work = op[w].arg THEN None ELSE "error", "sealPublish")

\* commit-tree, and update-ref of the writer branch from its base.
SealPublish(w) ==
    /\ op[w].at = "sealPublish"
    /\ IF res[w].branch = base[w]
       THEN /\ res' = [res EXCEPT ![w] = [res[w] EXCEPT !.branch = Final(w),
                         !.work = IF res[w].work = op[w].arg THEN "clean" ELSE res[w].work]]
            /\ Goto(w, "sealVerify")
       ELSE /\ Answer(w, "error")
            /\ UNCHANGED res
    /\ UNCHANGED <<root, headLock, lease, base, acts>>

SealVerify(w) ==
    /\ op[w].at = "sealVerify"
    /\ Answer(w, IF WorktreeAt(w, Final(w), TRUE) THEN "ok" ELSE "error")
    /\ UNCHANGED <<root, headLock, lease, res, base, acts>>

-----------------------------------------------------------------------------
(***************************************************************************)
(* integrate_writer.  arg is the root revision the caller expects.         *)
(***************************************************************************)

\* The root revision, and recover_sealed_for_integration.
IntegrateStart(w, expected) ==
    LET refused == IF \/ HeadCommit \notin {base[w], Final(w)}
                      \/ HeadCommit = base[w] /\ Revision # expected
                      \/ root.head # "main" THEN "conflict"
                   ELSE IF ~WorktreeAt(w, Final(w), FALSE) THEN "recovery"
                   ELSE IF res[w].work # "clean" THEN "conflict" ELSE None
    IN  /\ IF refused # None THEN Answer(w, refused) ELSE Begin(w, "intLease", None)
        /\ UNCHANGED <<root, headLock, lease, res, base, acts>>

\* acquire_root_integration_lease, the branch and the head of the root, and
\* reconcile_pre_cas_head_lock.
IntegrateLease(w) ==
    LET own == Marker("integration", w)
        fresh == root.main = base[w]
        refused == \/ lease # None \/ root.head # "main"
                   \/ root.main \notin {base[w], Final(w)}
                   \/ fresh /\ (~RootClean \/ headLock \notin {Free, own})
    IN  /\ op[w].at = "intLease"
        /\ IF refused
           THEN Answer(w, "conflict") /\ UNCHANGED <<headLock, lease>>
           ELSE /\ lease' = w
                /\ headLock' = IF fresh THEN Free ELSE headLock
                /\ Goto(w, IF fresh THEN "intCas" ELSE "intRelock")
        /\ UNCHANGED <<root, res, base, acts>>

\* Faulty variant: update-ref without the old value.
IntegrateCasBlind(w) ==
    LET locked == headLock # Free
    IN  /\ op[w].at = "intCas"
        /\ IF locked /\ root.head = "main"
           THEN Answer(w, "conflict") /\ lease' = Unleased(w) /\ UNCHANGED root
           ELSE /\ root' = [root EXCEPT !.main = Final(w)]
                /\ Goto(w, "intLock")
                /\ UNCHANGED lease
        /\ UNCHANGED <<headLock, res, base, acts>>

\* update-ref of the target branch from the base to the sealed commit.  Git
\* takes HEAD.lock for it while HEAD names that branch.
IntegrateCas(w) ==
    LET locked == headLock # Free
    IN  /\ op[w].at = "intCas"
        /\ IF (locked /\ root.head = "main") \/ root.main # base[w]
           THEN /\ Answer(w, IF locked THEN "conflict" ELSE "recovery")
                /\ lease' = Unleased(w)
                /\ UNCHANGED root
           ELSE /\ root' = [root EXCEPT !.main = Final(w)]
                /\ Goto(w, "intLock")
                /\ UNCHANGED lease
        /\ UNCHANGED <<headLock, res, base, acts>>

\* acquire_root_head_lock, after the CAS and when the root is already at the
\* sealed commit.
IntegrateLock(w) ==
    /\ op[w].at \in {"intLock", "intRelock"}
    /\ IF headLock \in {Free, Marker("integration", w)}
       THEN /\ headLock' = Marker("integration", w)
            /\ Goto(w, IF op[w].at = "intLock" THEN "intCheck" ELSE "intRecheck")
            /\ UNCHANGED lease
       ELSE /\ Answer(w, "conflict")
            /\ lease' = Unleased(w)
            /\ UNCHANGED headLock
    /\ UNCHANGED <<root, res, base, acts>>

\* End an operation that holds HEAD.lock with an error.
Fail(w, kind, r) ==
    /\ Answer(w, r)
    /\ headLock' = Unlocked(w, kind)
    /\ lease' = Unleased(w)

\* Faulty variant: the branch is not looked at again under HEAD.lock.
IntegrateCheckFilesOnly(w) ==
    /\ op[w].at \in {"intCheck", "intRecheck"}
    /\ IF op[w].at = "intRecheck" /\ RootClean
       THEN Goto(w, "intObserve") /\ headLock' = Unlocked(w, "integration") /\ lease' = Unleased(w)
       ELSE IF ~RootMatches(base[w]) THEN Fail(w, "integration", "recovery")
       ELSE Goto(w, "intApply") /\ UNCHANGED <<headLock, lease>>
    /\ UNCHANGED <<root, res, base, acts>>

\* Under HEAD.lock: the root must be on its branch, at the sealed commit, and
\* its files still those of the base.  "intRecheck" is the recovery of a root
\* that is already at the sealed commit: it may turn out to be finished.
IntegrateCheck(w) ==
    LET moved == root.head # "main" \/ root.main # Final(w)
        again == op[w].at = "intRecheck"
    IN  /\ op[w].at \in {"intCheck", "intRecheck"}
        /\ IF moved THEN Fail(w, "integration", IF again THEN "conflict" ELSE "recovery")
           ELSE IF again /\ RootClean
                THEN /\ Goto(w, "intObserve")
                     /\ headLock' = Unlocked(w, "integration")
                     /\ lease' = Unleased(w)
           ELSE IF ~RootMatches(base[w]) THEN Fail(w, "integration", "recovery")
           ELSE Goto(w, "intApply") /\ UNCHANGED <<headLock, lease>>
        /\ UNCHANGED <<root, res, base, acts>>

\* Faulty variant: reset --hard instead of read-tree -m -u.
IntegrateApplyReset(w) ==
    /\ op[w].at = "intApply"
    /\ root' = [root EXCEPT !.checkout = Final(w), !.edited = "none"]
    /\ Goto(w, "intValidate")
    /\ UNCHANGED <<headLock, lease, res, base, acts>>

\* materialize_root_fast_forward: read-tree -m -u refuses to overwrite a change
\* of the user and carries one elsewhere over.
IntegrateApply(w) ==
    /\ op[w].at = "intApply"
    /\ IF root.edited = "overlap"
       THEN Fail(w, "integration", "recovery") /\ UNCHANGED root
       ELSE /\ root' = [root EXCEPT !.checkout = Final(w)]
            /\ Goto(w, "intValidate")
            /\ UNCHANGED <<headLock, lease>>
    /\ UNCHANGED <<res, base, acts>>

IntegrateValidate(w) ==
    /\ op[w].at = "intValidate"
    /\ IF ~RootClean THEN Fail(w, "integration", "conflict")
       ELSE IF root.head # "main" \/ root.main # Final(w) THEN Fail(w, "integration", "recovery")
       ELSE /\ Goto(w, "intObserve")
            /\ headLock' = Unlocked(w, "integration")
            /\ lease' = Unleased(w)
    /\ UNCHANGED <<root, res, base, acts>>

\* observe_workspace: the revision that goes into AgentIntegrationCommitted.
IntegrateObserve(w) ==
    /\ op[w].at = "intObserve"
    /\ op' = [op EXCEPT ![w] = [at |-> "idle", arg |-> None, ret |-> "ok", rev |-> Revision]]
    /\ UNCHANGED <<root, headLock, lease, res, base, acts>>

-----------------------------------------------------------------------------
(***************************************************************************)
(* inspect_writer_cleanup and execute_writer_cleanup.  A plan is RemoveExact *)
(* with the commit the branch must have and the scope that may be lost, or *)
(* RetainForRecovery.                                                      *)
(***************************************************************************)

RetainPlan(sealed) == [mode |-> "retain", commit |-> None, scope |-> None, sealed |-> sealed]

\* inspect_cleanup_paths: what would be lost, or None when it cannot be told.
Scope(w, sealed) ==
    IF ~WorktreePresent(w) THEN "empty"
    ELSE IF sealed THEN IF WorktreeAt(w, Final(w), TRUE) THEN "sealed" ELSE None
    ELSE IF WorktreeAt(w, base[w], FALSE) THEN res[w].work ELSE None

\* seal: the lifecycle has a committed seal.  phaseSeal: sealing was prepared,
\* so a published commit without one may exist.
InspectCleanup(w, seal, phaseSeal) ==
    LET sealed == seal \/ (phaseSeal /\ Published(w))
        scope == Scope(w, sealed)
    IN  IF scope = None THEN RetainPlan(seal)
        ELSE [mode |-> "remove", commit |-> IF sealed THEN Final(w) ELSE base[w],
              scope |-> scope, sealed |-> sealed]

\* retained_cleanup_result: a failed cleanup that still left nothing behind
\* counts as removed.
Leftover(r, hl) == IF ~r.path /\ ~r.reg /\ r.branch = None /\ ~r.tomb /\ hl = Free
                   THEN "removed" ELSE "retained"

\* An error of cleanup_exact: the lock is dropped first.
Retain(w, r) ==
    /\ res' = [res EXCEPT ![w] = r]
    /\ headLock' = Unlocked(w, "cleanup")
    /\ lease' = Unleased(w)
    /\ Answer(w, Leftover(r, Unlocked(w, "cleanup")))

\* Faulty variant: the branch is not restored.
RestoredNothing(w) == res[w]

\* retain_writer_branch_for_foreign_checkout.
Restored(w) == [res[w] EXCEPT !.branch = IF BranchPresent(w) THEN res[w].branch ELSE op[w].arg]

Claimed(w) == res[w].foreign \in {"yes", "late"}

\* execute_writer_cleanup_sync up to cleanup_exact.
CleanupStart(w, plan) ==
    LET started == res[w].tomb
        kept == \/ started /\ res[w].reg /\ res[w].lock = "foreign"
                \/ ~started /\ res[w].path /\ Scope(w, plan.sealed) # plan.scope
    IN  /\ IF plan.mode = "retain" THEN Answer(w, "retained")
           ELSE IF kept THEN Answer(w, Leftover(res[w], headLock))
           ELSE Begin(w, "clLock", plan.commit)
        /\ UNCHANGED <<root, headLock, lease, res, base, acts>>

\* Faulty variant: HEAD.lock alone, without the lease.
CleanupLockUnleased(w) ==
    /\ op[w].at = "clLock"
    /\ IF headLock \in {Free, Marker("cleanup", w)}
       THEN headLock' = Marker("cleanup", w) /\ Goto(w, "clSurvey")
       ELSE Answer(w, Leftover(res[w], headLock)) /\ UNCHANGED headLock
    /\ UNCHANGED <<root, lease, res, base, acts>>

\* The lease, and acquire_root_cleanup_lock.
CleanupLock(w) ==
    /\ op[w].at = "clLock"
    /\ IF lease = None /\ headLock \in {Free, Marker("cleanup", w)}
       THEN /\ lease' = w
            /\ headLock' = Marker("cleanup", w)
            /\ Goto(w, "clSurvey")
       ELSE /\ Answer(w, Leftover(res[w], headLock))
            /\ UNCHANGED <<headLock, lease>>
    /\ UNCHANGED <<root, res, base, acts>>

\* The worktree that remains when the branch is gone.
Branchless(w) == res[w].branch = None /\ res[w].reg

\* The worktree is the one the plan names, with or without its directory.
Owned(w) ==
    IF BranchPresent(w) THEN res[w].reg /\ res[w].branch = op[w].arg
    ELSE Branchless(w)

CleanupSurvey(w) ==
    LET gone == ~WorktreePresent(w) /\ ~BranchPresent(w)
        held == res[w].reg /\ (res[w].lock = "foreign" \/ (res[w].lock = "cleanup" /\ ~res[w].tomb))
        proven == Owned(w) /\ (BranchPresent(w) \/ res[w].tomb)
    IN  /\ op[w].at = "clSurvey"
        /\ IF ~BranchPresent(w) /\ Claimed(w) THEN Retain(w, Restored(w))
           ELSE IF gone THEN Goto(w, "clRelease") /\ UNCHANGED <<res, headLock, lease>>
           ELSE IF (WorktreePresent(w) /\ (held \/ ~proven)) \/ Claimed(w) THEN Retain(w, res[w])
           ELSE Goto(w, "clTomb") /\ UNCHANGED <<res, headLock, lease>>
        /\ UNCHANGED <<root, base, acts>>

\* The tombstone ref: from here on a resumed cleanup may go on without its
\* scope.
CleanupTomb(w) ==
    /\ op[w].at = "clTomb"
    /\ IF ~res[w].tomb /\ res[w].branch # op[w].arg THEN Retain(w, res[w])
       ELSE /\ res' = [res EXCEPT ![w] = [res[w] EXCEPT !.tomb = TRUE]]
            /\ Goto(w, "clGuard")
            /\ UNCHANGED <<headLock, lease>>
    /\ UNCHANGED <<root, base, acts>>

\* create_cleanup_guard_worktree: a branch without a worktree is first given a
\* locked one, so that nobody else checks it out.
CleanupGuard(w) ==
    /\ op[w].at = "clGuard"
    /\ IF WorktreePresent(w)
       THEN Goto(w, "clPin") /\ UNCHANGED <<res, headLock, lease>>
       ELSE IF res[w].branch # op[w].arg THEN Retain(w, res[w])
       ELSE /\ res' = [res EXCEPT ![w] = [res[w] EXCEPT !.path = TRUE, !.reg = TRUE,
                                                   !.lock = "cleanup", !.work = "bare"]]
            /\ Goto(w, "clPin")
            /\ UNCHANGED <<headLock, lease>>
    /\ UNCHANGED <<root, base, acts>>

\* Verify it again, and lock the worktree.
CleanupPin(w) ==
    /\ op[w].at = "clPin"
    /\ IF ~Owned(w) \/ res[w].lock = "foreign" THEN Retain(w, res[w])
       ELSE /\ res' = [res EXCEPT ![w] = [res[w] EXCEPT !.lock = "cleanup"]]
            /\ Goto(w, "clCheck")
            /\ UNCHANGED <<headLock, lease>>
    /\ UNCHANGED <<root, base, acts>>

\* ensure_writer_branch_not_checked_out_elsewhere.
CleanupCheck(w) ==
    /\ op[w].at = "clCheck"
    /\ IF Claimed(w) \/ res[w].branch \notin {None, op[w].arg} THEN Retain(w, res[w])
       ELSE Goto(w, "clDelete") /\ UNCHANGED <<res, headLock, lease>>
    /\ UNCHANGED <<root, base, acts>>

\* delete_exact_writer_ref_cas.
CleanupDelete(w) ==
    /\ op[w].at = "clDelete"
    /\ res' = [res EXCEPT ![w] = [res[w] EXCEPT !.branch = None]]
    /\ Goto(w, "clVerify")
    /\ UNCHANGED <<root, headLock, lease, base, acts>>

CleanupVerify(w) ==
    /\ op[w].at = "clVerify"
    /\ IF Claimed(w) THEN Retain(w, Restored(w))
       ELSE IF ~Branchless(w) THEN Retain(w, res[w])
       ELSE Goto(w, "clRemove") /\ UNCHANGED <<res, headLock, lease>>
    /\ UNCHANGED <<root, base, acts>>

\* git worktree remove --force --force.
CleanupRemove(w) ==
    /\ op[w].at = "clRemove"
    /\ res' = [res EXCEPT ![w] = [res[w] EXCEPT !.path = FALSE, !.reg = FALSE, !.lock = "free",
                                           !.work = "clean"]]
    /\ Goto(w, "clGone")
    /\ UNCHANGED <<root, headLock, lease, base, acts>>

CleanupGone(w) ==
    /\ op[w].at = "clGone"
    /\ IF Claimed(w) THEN Retain(w, Restored(w))
       ELSE IF WorktreePresent(w) \/ BranchPresent(w) THEN Retain(w, res[w])
       ELSE Goto(w, "clRelease") /\ UNCHANGED <<res, headLock, lease>>
    /\ UNCHANGED <<root, base, acts>>

\* Faulty variant: the tombstone ref is left behind.
CleanupReleaseOnly(w) ==
    /\ op[w].at = "clRelease"
    /\ headLock' = Unlocked(w, "cleanup")
    /\ lease' = Unleased(w)
    /\ Answer(w, "removed")
    /\ UNCHANGED <<root, res, base, acts>>

\* RootCleanupLock::release: the marker and the lease, before the tombstone.
CleanupRelease(w) ==
    /\ op[w].at = "clRelease"
    /\ headLock' = Unlocked(w, "cleanup")
    /\ lease' = Unleased(w)
    /\ IF res[w].tomb THEN Goto(w, "clForget") ELSE Answer(w, "removed")
    /\ UNCHANGED <<root, res, base, acts>>

CleanupForget(w) ==
    /\ op[w].at = "clForget"
    /\ IF Claimed(w) THEN Retain(w, Restored(w))
       ELSE /\ res' = [res EXCEPT ![w] = [res[w] EXCEPT !.tomb = FALSE]]
            /\ Goto(w, "clLast")
            /\ UNCHANGED <<headLock, lease>>
    /\ UNCHANGED <<root, base, acts>>

CleanupLast(w) ==
    /\ op[w].at = "clLast"
    /\ IF Claimed(w) THEN Retain(w, Restored(w))
       ELSE Answer(w, "removed") /\ UNCHANGED <<res, headLock, lease>>
    /\ UNCHANGED <<root, base, acts>>

\* One step of the operation of w.
GitStep(w) ==
    \/ BindAdd(w) \/ BindVerify(w)
    \/ SealRecheck(w) \/ SealPublish(w) \/ SealVerify(w)
    \/ IntegrateLease(w) \/ IntegrateCas(w) \/ IntegrateLock(w) \/ IntegrateCheck(w)
    \/ IntegrateApply(w) \/ IntegrateValidate(w) \/ IntegrateObserve(w)
    \/ CleanupLock(w) \/ CleanupSurvey(w) \/ CleanupTomb(w) \/ CleanupGuard(w)
    \/ CleanupPin(w) \/ CleanupCheck(w) \/ CleanupDelete(w) \/ CleanupVerify(w)
    \/ CleanupRemove(w) \/ CleanupGone(w) \/ CleanupRelease(w) \/ CleanupForget(w)
    \/ CleanupLast(w)

-----------------------------------------------------------------------------
(***************************************************************************)
(* The others.  Git itself refuses to move HEAD while HEAD.lock exists.    *)
(***************************************************************************)

May(act) == act \in UserActs /\ acts < MaxActs /\ acts' = acts + 1

\* Change files of the root that the sealed commits leave alone ("apart"), or
\* others ("overlap").  "torn" is what a crash in read-tree leaves.
UserEdit ==
    \E act \in {"edit", "overlap"} :
        /\ May(act)
        /\ root.edited = "none"
        /\ root' = [root EXCEPT !.edited = IF act = "edit" THEN "apart" ELSE "overlap"]
        /\ UNCHANGED <<headLock, lease, res, base, op>>

UserUndo ==
    /\ May("undo")
    /\ root.edited # "none"
    /\ root' = [root EXCEPT !.edited = "none"]
    /\ UNCHANGED <<headLock, lease, res, base, op>>

UserCommit ==
    /\ May("commit")
    /\ headLock = Free /\ root.head = "main"
    /\ root.edited \in {"apart", "overlap"}
    /\ LET c == Append(root.main, "user")
       IN  root' = [root EXCEPT !.main = c, !.checkout = c, !.edited = "none"]
    /\ UNCHANGED <<headLock, lease, res, base, op>>

UserSwitch ==
    /\ May("switch")
    /\ headLock = Free /\ RootClean
    /\ LET there == IF root.head = "main" THEN "other" ELSE "main"
       IN  root' = [root EXCEPT !.head = there,
                                !.checkout = IF there = "main" THEN root.main ELSE <<>>]
    /\ UNCHANGED <<headLock, lease, res, base, op>>

\* Another Git process takes HEAD.lock, and gives it back.
UserLock ==
    /\ \/ May("lock") /\ headLock = Free /\ headLock' = Marker("foreign", None)
       \/ May("unlock") /\ headLock = Marker("foreign", None) /\ headLock' = Free
    /\ UNCHANGED <<root, lease, res, base, op>>

\* Another worktree checks the branch of w out.  The command reads the ref
\* first, and may finish when the branch is gone: "late" when nothing is left
\* of the writer and no cleanup is there to see it.
ForeignBegin(w) ==
    /\ May("checkout")
    /\ res[w].foreign = "no" /\ BranchPresent(w)
    /\ res' = [res EXCEPT ![w] = [res[w] EXCEPT !.foreign = "begun"]]
    /\ UNCHANGED <<root, headLock, lease, base, op>>

ForeignFinish(w) ==
    /\ res[w].foreign = "begun"
    /\ LET late == op[w].at = "idle" /\ ~BranchPresent(w) /\ ~WorktreePresent(w) /\ ~res[w].tomb
       IN  res' = [res EXCEPT ![w] = [res[w] EXCEPT !.foreign = IF late THEN "late" ELSE "yes"]]
    /\ UNCHANGED <<root, headLock, lease, base, op, acts>>

\* A process changes the worktree of w, deletes its directory, or locks it.
Disturb(w) ==
    /\ \/ /\ May("drift") /\ res[w].path
          /\ LET work == IF res[w].work = "stray" THEN "draft" ELSE "stray"
             IN  res' = [res EXCEPT ![w] = [res[w] EXCEPT !.work = work]]
       \/ /\ May("delete") /\ res[w].path
          /\ res' = [res EXCEPT ![w] = [res[w] EXCEPT !.path = FALSE, !.work = "clean"]]
       \/ /\ May("pin") /\ res[w].reg /\ res[w].lock = "free"
          /\ res' = [res EXCEPT ![w] = [res[w] EXCEPT !.lock = "foreign"]]
    /\ UNCHANGED <<root, headLock, lease, base, op>>

UserStep ==
    \/ UserEdit \/ UserUndo \/ UserCommit \/ UserSwitch \/ UserLock
    \/ \E w \in Writers : ForeignBegin(w) \/ ForeignFinish(w) \/ Disturb(w)

\* What a dead process leaves: the lease goes with it, HEAD.lock and the refs
\* stay, read-tree may have written half of the files, and worktree remove may
\* have deleted the directory without its registration.
GitCrash(w) ==
    /\ op' = [op EXCEPT ![w] = Idle]
    /\ lease' = Unleased(w)
    /\ \/ UNCHANGED <<root, res>>
       \/ /\ op[w].at = "intApply" /\ root.edited = "none"
          /\ root' = [root EXCEPT !.edited = "torn"]
          /\ UNCHANGED res
       \/ /\ op[w].at = "clRemove"
          /\ res' = [res EXCEPT ![w] = [res[w] EXCEPT !.path = FALSE, !.work = "clean"]]
          /\ UNCHANGED root
    /\ UNCHANGED <<headLock, base, acts>>

=============================================================================
