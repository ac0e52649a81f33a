------------------------------ MODULE MCRegistry ------------------------------
(***************************************************************************)
(* Instances of Registry for TLC.                                          *)
(***************************************************************************)
EXTENDS Registry, TLC

CONSTANTS A, B, C, v1, v2, v3, v4, k1, k2

\* One call whose webhook is retried twice.
OneCall == (v1 :> A) @@ (v2 :> A) @@ (v3 :> A) @@ (k1 :> A)

\* Two calls, one of them retried.
TwoCalls == (v1 :> A) @@ (v2 :> B) @@ (v3 :> B) @@ (k1 :> A) @@ (k2 :> B)

\* Three calls, one of them retried.
ThreeCalls == (v1 :> A) @@ (v2 :> B) @@ (v3 :> B) @@ (v4 :> C) @@ (k2 :> B)
=============================================================================
