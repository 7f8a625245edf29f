------------------------------ MODULE RunLedger ------------------------------
(***************************************************************************)
(* What the run store promises to its clients, with no database, lease or  *)
(* process in sight: every run is one ledger that only grows, written in   *)
(* terms that never overlap, and closed for good by its first final entry. *)
(* RunStore implements this specification.                                 *)
(***************************************************************************)
EXTENDS Integers, Sequences

CONSTANTS
    Runs,     \* run ids
    Entries,  \* entries a ledger may hold; entry e was written in term e.by
    Final     \* the entries that close a ledger

VARIABLES
    ledger,   \* the entries of each run
    term,     \* the current term of each run, 0 before it is opened
    closed    \* whether the run has its final entry

vars == <<ledger, term, closed>>

Init ==
    /\ ledger = [r \in Runs |-> <<>>]
    /\ term = [r \in Runs |-> 0]
    /\ closed = [r \in Runs |-> FALSE]

\* A run is opened in term 1 with its first entry.
Open(r) ==
    /\ term[r] = 0
    /\ term' = [term EXCEPT ![r] = 1]
    /\ \E e \in Entries \ Final :
          /\ e.by = 1
          /\ ledger' = [ledger EXCEPT ![r] = <<e>>]
    /\ UNCHANGED closed

\* A new writer takes over: whoever wrote in an earlier term writes no more.
TakeOver(r) ==
    /\ term[r] > 0
    /\ ~closed[r]
    /\ term' = [term EXCEPT ![r] = @ + 1]
    /\ UNCHANGED <<ledger, closed>>

\* The writer of the current term adds one entry.
Write(r) ==
    /\ term[r] > 0
    /\ ~closed[r]
    /\ \E e \in Entries :
          /\ e.by = term[r]
          /\ ledger' = [ledger EXCEPT ![r] = Append(@, e)]
          /\ closed' = [closed EXCEPT ![r] = e \in Final]
    /\ UNCHANGED term

Next == \E r \in Runs : Open(r) \/ TakeOver(r) \/ Write(r)

Spec == Init /\ [][Next]_vars
=============================================================================
