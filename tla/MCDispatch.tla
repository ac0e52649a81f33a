------------------------------ MODULE MCDispatch ------------------------------
(***************************************************************************)
(* Instances of Dispatch for TLC.                                          *)
(***************************************************************************)
EXTENDS Dispatch, TLC

CONSTANTS A, p1, p2

\* Two runs of one call.
TwoRuns == (p1 :> A) @@ (p2 :> A)
=============================================================================
