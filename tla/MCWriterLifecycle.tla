------------------------- MODULE MCWriterLifecycle --------------------------
(***************************************************************************)
(* Instances of WriterLifecycle for TLC.                                   *)
(***************************************************************************)
EXTENDS WriterLifecycle

Symmetry == Permutations(Writers)

=============================================================================
