--------------------------- MODULE WriterPromise ----------------------------
(***************************************************************************)
(* What the isolated writers promise to the owner of the repository.  The  *)
(* target branch only grows.  A writer adds one commit to it at most once, *)
(* and only while its parent has no verdict; a verdict is final, and       *)
(* "integrated" is said only of a commit that is on the branch, "dropped"  *)
(* only of one that is not.  "conflict" and "unknown" promise no more than *)
(* that nothing will be added later.                                       *)
(***************************************************************************)
EXTENDS Sequences, SequencesExt

CONSTANTS Writers

VARIABLES
    line,         \* the commits on the target branch, oldest first
    verdict       \* per writer: what its parent run was told

promiseVars == <<line, verdict>>

Verdicts == {"open", "integrated", "dropped", "conflict", "unknown"}

PromiseInit ==
    /\ line = <<>>
    /\ verdict = [w \in Writers |-> "open"]

UserCommits ==
    /\ line' = Append(line, "user")
    /\ UNCHANGED verdict

Deliver(w) ==
    /\ verdict[w] = "open"
    /\ w \notin ToSet(line)
    /\ line' = Append(line, w)
    /\ UNCHANGED verdict

Report(w, v) ==
    /\ verdict[w] = "open"
    /\ v = "integrated" => w \in ToSet(line)
    /\ v = "dropped" => w \notin ToSet(line)
    /\ verdict' = [verdict EXCEPT ![w] = v]
    /\ UNCHANGED line

PromiseNext ==
    \/ UserCommits
    \/ \E w \in Writers : Deliver(w) \/ \E v \in Verdicts \ {"open"} : Report(w, v)

PromiseSpec == PromiseInit /\ [][PromiseNext]_promiseVars

=============================================================================
