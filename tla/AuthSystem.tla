---------------------------------- MODULE AuthSystem ----------------------------------
(***************************************************************************)
(* Accounts and sessions together: the handlers that verify, change or     *)
(* reset a user's credentials and then create or revoke sessions           *)
(* (internal/handlers/user.go), over the ledger of log-ins, which the      *)
(* sessions table implements (SessionLifecycle).                           *)
(*                                                                         *)
(* A handler calls two services and neither call is in a transaction with  *)
(* the other: what the user service verified may be changed by the time    *)
(* the session service writes.  An action is one query with the code up to *)
(* the next.  Credentials are abstracted to a count of their changes.      *)
(***************************************************************************)
EXTENDS LoginLedger

CONSTANTS
    Proc,         \* the requests the server handles at one time
    Faults,       \* what goes wrong, a subset of Fault
    MaxVersion    \* bound on the credentials an account goes through

\* failed: a query returns an error, nothing changed.  unknown: it commits but
\* its answer is an error.  lost: the process dies.
Fault == {"failed", "unknown", "lost"}

ASSUME SystemAssumption ==
    /\ IsFiniteSet(Proc) /\ Proc # {}
    /\ Faults \subseteq Fault
    /\ MaxVersion \in Nat
    /\ None \notin User

VARIABLES
    version,      \* how often a user's email or password was written, 0: no account
    opened,       \* history: the version that the log-in of a session verified
    call,         \* each request: where it is, for whom, the version it goes by
    barrier,      \* history: the version at the last revocation of all sessions
    answered      \* history: the last change the program has reported as done

vars == <<logins, version, opened, call, barrier, answered>>

PC == {"idle", "create", "insert", "admitted", "change", "revoke"}

CallRecord == [pc : PC, user : User \cup {None}, version : Nat]

Idle == [pc |-> "idle", user |-> None, version |-> 0]

\* How a statement can end.  The program sees success only when it is ok.
Outcome == {"ok"} \cup (Faults \cap {"failed", "unknown"})
Committed == Outcome \ {"failed"}

At(p, pc) == call[p].pc = pc

\* The call goes on as r; an error is a 500 and the end of the handler.
Goes(p, r) == call' = [call EXCEPT ![p] = r]
Fails(p) == Goes(p, Idle)

----------------------------------------------------------------------------
(***************************************************************************)
(* The credentials of an account.                                          *)
(***************************************************************************)

\* UPDATE users: of the password hash or the email, by the user's id alone.
WriteCredentials(user) ==
    /\ version[user] < MaxVersion
    /\ version' = [version EXCEPT ![user] = @ + 1]

\* The handler revokes all sessions once the write is known to be done.
ThenRevokeNobody(p, user, o) ==                  \* variant: the id stays in a closure
    IF o = "ok"
    THEN Goes(p, [pc |-> "revoke", user |-> None, version |-> version[user] + 1])
    ELSE Fails(p)
ThenRevoke(p, user, o) ==
    IF o = "ok"
    THEN Goes(p, [pc |-> "revoke", user |-> user, version |-> version[user] + 1])
    ELSE Fails(p)

\* SignUp stored a new account.  An error after that leaves the account
\* without a session; signing up again would find the email taken.
SignUp(p, user) ==
    /\ At(p, "idle") /\ version[user] = 0
    /\ WriteCredentials(user)
    /\ \E o \in Committed :
         IF o = "ok" THEN Goes(p, [pc |-> "create", user |-> user, version |-> 1])
                     ELSE Fails(p)
    /\ UNCHANGED <<logins, opened, barrier, answered>>

\* LogIn has read the account's row and the password fits its hash.
LogIn(p, user) ==
    /\ At(p, "idle") /\ version[user] > 0
    /\ Goes(p, [pc |-> "create", user |-> user, version |-> version[user]])
    /\ UNCHANGED <<logins, version, opened, barrier, answered>>

\* A reset token of the account is redeemed; the transaction commits.
RedeemToken(p, user) ==
    /\ At(p, "idle") /\ version[user] > 0
    /\ WriteCredentials(user)
    /\ \E o \in Committed : ThenRevoke(p, user, o)
    /\ UNCHANGED <<logins, opened, barrier, answered>>

----------------------------------------------------------------------------
(***************************************************************************)
(* The change of a password by a user who is logged in.                    *)
(***************************************************************************)

\* The middleware admits a request on a live session.
Admit(p, l) ==
    /\ At(p, "idle")
    /\ logins[l] # None /\ logins[l].live
    /\ Goes(p, [pc |-> "admitted", user |-> logins[l].owner, version |-> 0])
    /\ UNCHANGED <<logins, version, opened, barrier, answered>>

\* The handler fetches the user's row, whatever became of the session since,
\* and the old password in the body fits the hash just read.
GetUserByID(p) ==
    /\ At(p, "admitted")
    /\ \/ Goes(p, [call[p] EXCEPT !.pc = "change", !.version = version[call[p].user]])
       \/ Fails(p)                         \* a bad body or password
    /\ UNCHANGED <<logins, version, opened, barrier, answered>>

\* UPDATE users SET password_hash ... WHERE id: the old hash is not asked for.
ChangePassword(p) ==
    /\ At(p, "change")
    /\ WriteCredentials(call[p].user)
    /\ \E o \in Committed : ThenRevoke(p, call[p].user, o)
    /\ UNCHANGED <<logins, opened, barrier, answered>>

----------------------------------------------------------------------------
(***************************************************************************)
(* Creating and revoking sessions.                                         *)
(***************************************************************************)

\* DeactivateAllSessionsForUser.  Its error is logged, the answer the same.
Revoke(p) ==
    /\ At(p, "revoke")
    /\ LET user == call[p].user
       IN /\ \E o \in Outcome :
               IF o = "failed"
               THEN UNCHANGED <<logins, barrier>>
               ELSE /\ EndAll(user)
                    /\ barrier' = [barrier EXCEPT ![user] = version[user]]
          /\ answered' = [answered EXCEPT ![user] =
               IF call[p].version > @ THEN call[p].version ELSE @]
    /\ Goes(p, Idle)
    /\ UNCHANGED <<version, opened>>

\* CreateSession counts the user's sessions, and ends one if there are too
\* many; the count itself is SessionLifecycle's.
Evict(p) ==
    /\ At(p, "create")
    /\ \/ UNCHANGED logins
       \/ \E l \in LiveOf(call[p].user) : EndOne(l)
    /\ Goes(p, [call[p] EXCEPT !.pc = "insert"])
    /\ UNCHANGED <<version, opened, barrier, answered>>

InsertSession(p) ==
    /\ At(p, "insert")
    /\ \E l \in Login :
         /\ Open(l, call[p].user)
         /\ opened' = [opened EXCEPT ![l] = call[p].version]
    /\ Goes(p, Idle)
    /\ UNCHANGED <<version, barrier, answered>>

\* A session expires, or its user logs in once too often elsewhere.
Expire(l) ==
    /\ EndOne(l)
    /\ UNCHANGED <<version, opened, call, barrier, answered>>

\* A query of the handler fails and it answers 500, or the process dies.
Abandon(p) ==
    /\ ~At(p, "idle")
    /\ \/ "failed" \in Faults /\ ~At(p, "revoke")
       \/ "lost" \in Faults
    /\ Fails(p)
    /\ UNCHANGED <<logins, version, opened, barrier, answered>>

----------------------------------------------------------------------------
Init ==
    /\ LedgerInit
    /\ version = [user \in User |-> 0]
    /\ opened = [l \in Login |-> 0]
    /\ call = [p \in Proc |-> Idle]
    /\ barrier = [user \in User |-> 0]
    /\ answered = [user \in User |-> 0]

Credentials(p) ==
    \/ \E user \in User : SignUp(p, user) \/ LogIn(p, user) \/ RedeemToken(p, user)
    \/ \E l \in Login : Admit(p, l)
    \/ GetUserByID(p) \/ ChangePassword(p)

Sessions(p) == Revoke(p) \/ Evict(p) \/ InsertSession(p) \/ Abandon(p)

Next ==
    \/ \E p \in Proc : Credentials(p) \/ Sessions(p)
    \/ \E l \in Login : Expire(l)

Spec == Init /\ [][Next]_vars

----------------------------------------------------------------------------
(***************************************************************************)
(* Properties                                                              *)
(***************************************************************************)

\* Every variable has its type, and a request that is under way acts for a
\* user.
TypeOK ==
    /\ LedgerTypeOK
    /\ version \in [User -> Nat]
    /\ opened \in [Login -> Nat]
    /\ call \in [Proc -> CallRecord]
    /\ \A p \in Proc : ~At(p, "idle") => call[p].user # None
    /\ barrier \in [User -> Nat]
    /\ answered \in [User -> Nat]

\* Sessions of the user that were opened with credentials older than the last
\* revocation, and the requests that still go by such credentials.
StaleLogins(user) == {l \in LiveOf(user) : opened[l] < barrier[user]}

StaleCalls(user) ==
    {p \in Proc : /\ call[p].pc \in {"create", "insert", "change"}
                  /\ call[p].user = user
                  /\ call[p].version < barrier[user]}

\* A revocation misses only the log-ins that were under way when it ran: the
\* user's sessions from before it, and the requests that may yet open one or
\* overwrite the new password, are fewer than the requests handled at once.
StaleSessionBound ==
    \A user \in User :
       Cardinality(StaleLogins(user)) + Cardinality(StaleCalls(user)) < Cardinality(Proc)

\* A change that was reported as done has ended every session that was opened
\* with older credentials.
AnsweredChangesEndSessions ==
    \A user \in User : \A l \in LiveOf(user) : opened[l] >= answered[user]
=======================================================================================
