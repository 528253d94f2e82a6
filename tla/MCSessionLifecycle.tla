---------------------------- MODULE MCSessionLifecycle ----------------------------
(***************************************************************************)
(* SessionLifecycle on small instances.  Raw ids, requests, browsers and   *)
(* users are interchangeable, which the safety runs use.                   *)
(***************************************************************************)
EXTENDS SessionLifecycle, TLC

Symmetry ==
    Permutations(RawSessionID) \cup Permutations(Request) \cup Permutations(Browser)
       \cup Permutations(User)
====================================================================================
