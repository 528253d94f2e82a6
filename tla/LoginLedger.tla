-------------------------------- MODULE LoginLedger --------------------------------
(***************************************************************************)
(* What the session service promises: a log-in is opened once, for one     *)
(* user, and ends once.  Ids, rotation, idle times and cookies are not     *)
(* visible here.  SessionLifecycle implements this module, AuthSystem is   *)
(* built on it.                                                            *)
(***************************************************************************)
EXTENDS Naturals, FiniteSets

CONSTANTS
    Login,        \* the log-ins there can be
    User,
    None          \* a log-in that has not happened

Entry == [owner : User, live : BOOLEAN]

ASSUME NoEntryAssumption == None \notin Entry

VARIABLE logins

LiveOf(user) == {l \in Login : logins[l] # None /\ logins[l].live /\ logins[l].owner = user}

\* CreateSession has inserted a session.
Open(l, user) ==
    /\ logins[l] = None
    /\ logins' = [logins EXCEPT ![l] = [owner |-> user, live |-> TRUE]]

\* The log-ins of a set end: they keep their owner.
Ended(S) ==
    [l \in Login |-> IF l \in S THEN [owner |-> logins[l].owner, live |-> FALSE] ELSE logins[l]]

\* A session has expired, or was the least recently used of its user.
EndOne(l) ==
    /\ logins[l] # None /\ logins[l].live
    /\ logins' = Ended({l})

\* DeactivateAllSessionsForUser.
EndAllButOne(user) ==                            \* variant: keeps a session
    \E S \in SUBSET LiveOf(user) : Cardinality(LiveOf(user) \ S) <= 1 /\ logins' = Ended(S)
EndAll(user) == logins' = Ended(LiveOf(user))

LedgerInit == logins = [l \in Login |-> None]

LedgerNext ==
    \/ \E l \in Login, user \in User : Open(l, user)
    \/ \E l \in Login : EndOne(l)
    \/ \E user \in User : EndAll(user)

LedgerSpec == LedgerInit /\ [][LedgerNext]_logins

LedgerTypeOK == logins \in [Login -> Entry \cup {None}]
====================================================================================
