--------------------------------- MODULE MCAuthSystem ---------------------------------
(***************************************************************************)
(* AuthSystem on small instances; users, log-ins and requests are          *)
(* interchangeable.                                                        *)
(***************************************************************************)
EXTENDS AuthSystem, TLC

Symmetry == Permutations(User) \cup Permutations(Login) \cup Permutations(Proc)

\* Every user has signed up, and one of them still has the session of then.
\* No sign-up can follow: a log-in is what opens a session from here on.
InitSignedUp ==
    /\ version = [user \in User |-> 1]
    /\ \E l \in Login, user \in User :
         logins = [k \in Login |-> IF k = l THEN [owner |-> user, live |-> TRUE] ELSE None]
    /\ opened = [l \in Login |-> IF logins[l] = None THEN 0 ELSE 1]
    /\ call = [p \in Proc |-> Idle]
    /\ barrier = [user \in User |-> 0]
    /\ answered = [user \in User |-> 0]

SpecSignedUp == InitSignedUp /\ [][Next]_vars
=======================================================================================
