------------------------------- MODULE MCResetThrottle -------------------------------
(***************************************************************************)
(* ResetThrottle on small instances: concurrent requests and emails are    *)
(* interchangeable, which the safety runs use.                             *)
(***************************************************************************)
EXTENDS ResetThrottle, TLC

Symmetry == Permutations(Proc) \cup Permutations(Email)
======================================================================================
