------------------------------- MODULE SessionLimit -------------------------------
(***************************************************************************)
(* What is left of MaxNumberOfActiveSessions when log-ins of one user run  *)
(* at once (CreateSession, internal/service/session/service.go).  Its      *)
(* count, its eviction and its insertion are three statements and in no    *)
(* transaction, so the limit itself does not hold; history variables       *)
(* watch SessionLifecycle for the log-ins that may exceed it.              *)
(***************************************************************************)
EXTENDS SessionLifecycle

VARIABLES
    overtaken,    \* history: log-ins under way whose last read is out of date
    excess        \* history: how many sessions such log-ins inserted, by user

limitVars == <<vars, overtaken, excess>>

\* The row CreateSession picked to make room is still the user's and active.
HasVictim(p) ==
    \E s \in ActiveSessionsOf(sessions, req[p].user) : s.id \in req[p].victim

\* Another log-in of the user inserts, between the count of p and its own
\* insertion or when the row p is to evict is already gone ...
InsertsMeanwhile(p) ==
    /\ \E q \in Request : InsertSession(q) /\ req[q].user = req[p].user
    /\ \/ req[p].pc = "insert"
       \/ req[p].pc = "evict" /\ ~HasVictim(p)

\* ... or that row gets a new id, under which p will not find it.
VictimRotates(p) == \E q \in Request : Rotate(q) /\ req[q].cur.id \in req[p].victim

Overtake ==
    overtaken' = {p \in Request : /\ req'[p].pc \in {"evict", "insert"}
                                  /\ \/ p \in overtaken
                                     \/ InsertsMeanwhile(p) \/ VictimRotates(p)}

Exceed ==
    excess' = [user \in User |->
        IF \E q \in overtaken : InsertSession(q) /\ req[q].user = user
        THEN excess[user] + 1
        ELSE excess[user]]

LimitInit ==
    /\ Init
    /\ overtaken = {}
    /\ excess = [user \in User |-> 0]

LimitNext == Next /\ Overtake /\ Exceed

LimitSpec == LimitInit /\ [][LimitNext]_limitVars

\* A user has more than MaxNumberOfActiveSessions active sessions only by the
\* number of log-ins that were overtaken between their statements: nothing
\* else, no error, lost request, expiry or revocation at any point, and no
\* number of log-ins one after another, makes a session more.
SessionExcessBound ==
    \A user \in User :
       GetSessionCountByUser(sessions, user) <= MaxNumberOfActiveSessions + excess[user]
====================================================================================
