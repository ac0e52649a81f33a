------------------------------- MODULE MCScripts -------------------------------
(***************************************************************************)
(* Instances for TLC of the two scripts that guard something on disk.      *)
(* They share no file and no state, so no interleaving of the two can tell *)
(* more than either alone: a behaviour takes steps of one of them.         *)
(***************************************************************************)
EXTENDS SpendGuard, MutateCheck, TLC

CONSTANTS p1, p2, r1, r2

Symmetric == Permutations({p1, p2}) \cup Permutations({r1, r2})

Init == GuardInit /\ MutateInit

Next ==
    \/ MutateInit /\ GuardNext /\ UNCHANGED mutateVars
    \/ GuardInit /\ MutateNext /\ UNCHANGED guardVars

Spec == Init /\ [][Next]_<<guardVars, mutateVars>>
=============================================================================
