------------------------------ MODULE MCSessionLimit ------------------------------
(***************************************************************************)
(* SessionLimit on small instances; raw ids, requests, browsers and users  *)
(* are interchangeable.                                                    *)
(***************************************************************************)
EXTENDS SessionLimit, TLC

Symmetry ==
    Permutations(RawSessionID) \cup Permutations(Request) \cup Permutations(Browser)
       \cup Permutations(User)
====================================================================================
