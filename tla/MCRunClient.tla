---------------------------- MODULE MCRunClient -----------------------------
(***************************************************************************)
(* Instances of RunClient for TLC.                                         *)
(***************************************************************************)
EXTENDS RunClient

=============================================================================
