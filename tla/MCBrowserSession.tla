-------------------------- MODULE MCBrowserSession --------------------------
(***************************************************************************)
(* Instances of BrowserSession for TLC: a run that uses every operation,   *)
(* and a second one that only opens pages and fills in forms.              *)
(***************************************************************************)
EXTENDS BrowserSession

CONSTANTS a, b

OneAndAnother == [c \in {a, b} |-> IF c = a THEN AllKinds ELSE {"navigate", "fill"}]

=============================================================================
