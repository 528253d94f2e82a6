------------------------------- MODULE MCResetTokens -------------------------------
(***************************************************************************)
(* ResetTokens on small instances.  Calls, users, emails and tokens are    *)
(* interchangeable, which the safety runs use.                             *)
(***************************************************************************)
EXTENDS ResetTokens, TLC

Symmetry ==
    Permutations(Proc) \cup Permutations(User) \cup Permutations(Email)
       \cup Permutations(Token)

\* The run for liveness starts after the first sign-up: whose it was makes no
\* difference, and saves the symmetry it cannot use.
FirstUser  == CHOOSE u \in User : TRUE
FirstEmail == CHOOSE e \in Email : TRUE

InitFirst ==
    /\ now = 0
    /\ users = [u \in User |-> IF u = FirstUser
                               THEN [email |-> FirstEmail, password |-> None] ELSE None]
    /\ requests = {}
    /\ inbox = {}
    /\ issued = [t \in Token |-> None]
    /\ spent = [t \in Token |-> 0]
    /\ call = [p \in Proc |-> Idle]

FairSpecFirst == InitFirst /\ [][Next]_vars /\ \A p \in Proc : SF_vars(Redemption(p))
====================================================================================
