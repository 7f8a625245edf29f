----------------------------- MODULE MCRunStore -----------------------------
(* RunStore for TLC. *)
EXTENDS RunStore, TLC

\* Random ids and pids are interchangeable.
Symmetry ==
    Permutations(Runs) \cup Permutations(Pids) \cup Permutations(EventIds)
        \cup Permutations(Attempts) \cup Permutations(Commands) \cup Permutations(Workspaces)
=============================================================================
