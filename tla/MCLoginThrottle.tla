----------------------------- MODULE MCLoginThrottle ------------------------------
(***************************************************************************)
(* LoginThrottle on small instances: concurrent calls and emails are       *)
(* interchangeable, which the safety runs use.                             *)
(***************************************************************************)
EXTENDS LoginThrottle, TLC

Symmetry == Permutations(Proc) \cup Permutations(Email)
====================================================================================
