----------------------------- MODULE SessionLifecycle -----------------------------
(***************************************************************************)
(* Sessions from login to logout, as browsers, the session middleware      *)
(* (internal/middleware/session.go), the handlers that create and revoke   *)
(* sessions (internal/handlers/user.go) and the session service            *)
(* (internal/service/session/service.go) share them through one table.     *)
(*                                                                         *)
(* Every query is its own transaction, so requests interleave between      *)
(* queries: an action is one query with the code that runs up to the next. *)
(* What a request has read stays in its record, and may be stale when it   *)
(* is used.  A query may fail, may commit without the program learning of  *)
(* it, and a request may be lost with its response (CONSTANT Faults).      *)
(***************************************************************************)
EXTENDS SessionStore

CONSTANTS
    Browser,
    Request,      \* the requests the server handles at one time
    Routes,       \* the kinds of handler in play, a subset of Route
    Pipelining,   \* may a browser have several requests outstanding?
    Faults,       \* what goes wrong, a subset of Fault
    MaxTime       \* bound on the clock

\* "other" is any handler that leaves sessions alone (GET /user, asking for
\* a reset), "token_reset" redeems a password or an email reset token.  Sign-up
\* is "login" with a new user.
Route == {"other", "login", "password_change", "token_reset"}

\* failed: a query or the random source returns an error, nothing changed.
\* unknown: a query commits but its answer is an error.
\* lost: the process dies, or the response never reaches the browser.
\* garbled: a browser without a session sends a cookie that is not base64.
Fault == {"failed", "unknown", "lost", "garbled"}

ASSUME LifecycleAssumption ==
    /\ Routes \subseteq Route
    /\ Faults \subseteq Fault
    /\ Pipelining \in BOOLEAN
    /\ MaxTime \in Nat

(***************************************************************************)
(* A history: which login every raw id in use descends from.  A login is   *)
(* named by the first id it was given.                                     *)
(***************************************************************************)
Origin == [login : RawSessionID, user_id : User, at : Nat]

ASSUME NoneAssumption ==
    None \notin Origin \cup Cookie \cup SessionValue \cup RawSessionID \cup User

VARIABLES
    now,          \* the clock
    sessions,     \* the sessions table
    activeUsers,  \* the users whose is_active is true
    origin,       \* history: the origin of every raw id ever committed
    jar,          \* each browser's session cookie
    req           \* each request: where it is and what it holds

vars == <<now, sessions, activeUsers, origin, jar, req>>

(***************************************************************************)
(* A request's state.  header is the last Set-Cookie of its response: {}   *)
(* for none, {None} for a cleared cookie.                                  *)
(***************************************************************************)
PC == {"idle", "lookup", "expire", "rotate", "touch", "handle",
       "count", "pick", "evict", "insert", "revoke", "respond"}

RequestRecord ==
    [pc : PC, browser : Browser \cup {None}, route : Route,
     cookie : RawSessionID \cup {None},      \* the decoded cookie
     cur    : SessionValue \cup {None},      \* curSession of the middleware
     user   : User \cup {None},              \* whom the handler acts for
     victim : {{}} \cup {{h} : h \in IDHash}, \* what the sub-select returned
     header : SUBSET (Cookie \cup {None})]

RequestState ==
    {r \in RequestRecord :
        /\ r.pc = "lookup" => r.cookie # None
        /\ r.pc \in {"expire", "rotate", "touch"} => r.cur # None
        /\ r.pc \in {"count", "pick", "evict", "insert", "revoke"} => r.user # None}

Idle == [pc |-> "idle", browser |-> None, route |-> "other", cookie |-> None,
         cur |-> None, user |-> None, victim |-> {}, header |-> {}]

Outstanding(b) == {q \in Request : req[q].pc # "idle" /\ req[q].browser = b}

\* How a query can end.  The table changes unless it failed; the program
\* sees success only when it is ok.
Outcome == {"ok"} \cup (Faults \cap {"failed", "unknown"})

\* generateSessionID never draws an id twice.  Its error return stands for
\* the model running out of ids too.
Fresh == {id \in RawSessionID : origin[id] = None}
CanFail == Fresh = {} \/ "failed" \in Faults

Committed == Outcome \ {"failed"}

\* The login the session in row s belongs to.
OriginOf(s) == origin[s.id.sha256]

----------------------------------------------------------------------------
(***************************************************************************)
(* Where a request goes next.                                              *)
(***************************************************************************)

\* The middleware calls the next handler; all that is left of the session
\* is the user id its closure captured, None for an anonymous request.
ToHandlerCleared(q, user, header) ==             \* variant: anonymous clears the cookie
    [req[q] EXCEPT !.pc = "handle", !.cookie = None, !.cur = None, !.user = user,
                   !.header = IF user = None THEN {None} ELSE header]
ToHandler(q, user, header) ==
    [req[q] EXCEPT !.pc = "handle", !.cookie = None, !.cur = None,
                   !.user = user, !.header = header]

\* The response is written; the handler's locals are gone.
ToResponse(q, header) ==
    [Idle EXCEPT !.pc = "respond", !.browser = req[q].browser, !.header = header]

\* UpdateLastSeen, which asks the session in hand whether a write is due.
ToTouchSilently(q, cur, header) ==               \* variant: no cookie for a new id
    IF ShouldUpdateLastSeen(cur, now)
    THEN [req[q] EXCEPT !.pc = "touch", !.cookie = None, !.cur = cur]
    ELSE ToHandler(q, cur.user_id, {})
ToTouch(q, cur, header) ==
    IF ShouldUpdateLastSeen(cur, now)
    THEN [req[q] EXCEPT !.pc = "touch", !.cookie = None, !.cur = cur, !.header = header]
    ELSE ToHandler(q, cur.user_id, header)

\* What the middleware does with the session GetSession returned.
WithSession(q, s) ==
    CASE IsExpired(s, now)  -> [req[q] EXCEPT !.pc = "expire", !.cookie = None, !.cur = s]
      [] ~IsExpired(s, now) /\ ShouldRotate(s, now)
                            -> [req[q] EXCEPT !.pc = "rotate", !.cookie = None, !.cur = s]
      [] OTHER              -> ToTouch(q, s, {})

----------------------------------------------------------------------------
(***************************************************************************)
(* The middleware.                                                         *)
(***************************************************************************)

\* A browser sends its cookie unless the cookie has expired.
Sends(b) == IF jar[b] # None /\ now <= jar[b].expires THEN jar[b].id ELSE None

Receive(q, b, route) ==
    /\ req[q].pc = "idle"
    /\ Pipelining \/ Outstanding(b) = {}
    /\ LET new == [Idle EXCEPT !.browser = b, !.route = route]
       IN \/ /\ Sends(b) # None
             /\ req' = [req EXCEPT ![q] = [new EXCEPT !.pc = "lookup", !.cookie = Sends(b)]]
          \/ /\ Sends(b) = None
             /\ req' = [req EXCEPT ![q] = [new EXCEPT !.pc = "handle"]]
          \/ /\ "garbled" \in Faults /\ jar[b] = None
             /\ req' = [req EXCEPT ![q] = [new EXCEPT !.pc = "handle", !.header = {None}]]
    /\ UNCHANGED <<now, sessions, activeUsers, origin, jar>>

\* SELECT: a session, no row, or an error.  Only "no row" clears the cookie.
GetSession(q) ==
    /\ req[q].pc = "lookup"
    /\ LET found == GetActiveSession(sessions, activeUsers, Sum256(req[q].cookie))
       IN \/ \E s \in found : req' = [req EXCEPT ![q] = WithSession(q, s)]
          \/ /\ found = {}
             /\ req' = [req EXCEPT ![q] = ToHandler(q, None, {None})]
          \/ /\ "failed" \in Faults
             /\ req' = [req EXCEPT ![q] = ToHandler(q, None, {})]
    /\ UNCHANGED <<now, sessions, activeUsers, origin, jar>>

\* The error is logged: the cookie goes and the request is anonymous anyway.
ExpireSession(q) ==
    /\ req[q].pc = "expire"
    /\ \E o \in Outcome :
         sessions' = IF o = "failed" THEN sessions
                     ELSE DeactivateSession(sessions, req[q].cur.id)
    /\ req' = [req EXCEPT ![q] = ToHandler(q, None, {None})]
    /\ UNCHANGED <<now, activeUsers, origin, jar>>

\* The UPDATE found the row: its id is replaced, and if the answer arrives
\* the session in hand carries the raw id and goes into the cookie.
Rotate(q) ==
    /\ req[q].pc = "rotate"
    /\ \E id \in Fresh, s \in ActiveWithID(sessions, req[q].cur.id), o \in Committed :
         /\ sessions' = UpdateSessionIDAndRefreshedAt(sessions, req[q].cur.id,
                                                      Sum256(id), now)
         /\ origin' = [origin EXCEPT ![id] = OriginOf(s)]
         /\ req' = [req EXCEPT ![q] =
              IF o = "ok"
              THEN ToTouch(q, Rotated(s, id, now),
                           {AddSessionToCookie(id, GetAbsoluteExpiration(s))})
              ELSE ToTouch(q, req[q].cur, {})]
    /\ UNCHANGED <<now, activeUsers, jar>>

\* No row, or an error: logged, and the request goes on with the session it
\* read, best effort.
RotateFails(q) ==
    /\ req[q].pc = "rotate"
    /\ ActiveWithID(sessions, req[q].cur.id) = {} \/ CanFail
    /\ req' = [req EXCEPT ![q] = ToTouch(q, req[q].cur, {})]
    /\ UNCHANGED <<now, sessions, activeUsers, origin, jar>>

\* No row is an error too, and every error is logged only.
UpdateLastSeen(q) ==
    /\ req[q].pc = "touch"
    /\ \E o \in Outcome :
         sessions' = IF o = "failed" THEN sessions
                     ELSE UpdateSessionLastSeenToNow(sessions, req[q].cur.id, now)
    /\ req' = [req EXCEPT ![q] = ToHandler(q, req[q].cur.user_id, req[q].header)]
    /\ UNCHANGED <<now, activeUsers, origin, jar>>

----------------------------------------------------------------------------
(***************************************************************************)
(* The handlers.                                                           *)
(***************************************************************************)

\* A handler that leaves sessions alone, or one that refuses: bad body or
\* credentials, a used token, or no user in the request.
Answer(q) ==
    /\ req[q].pc = "handle"
    /\ req' = [req EXCEPT ![q] = ToResponse(q, req[q].header)]
    /\ UNCHANGED <<now, sessions, activeUsers, origin, jar>>

\* LogIn accepted the credentials of an active user.
LogIn(q) ==
    /\ req[q].pc = "handle" /\ req[q].route = "login"
    /\ \E user \in activeUsers :
         req' = [req EXCEPT ![q].pc = "count", ![q].user = user]
    /\ UNCHANGED <<now, sessions, activeUsers, origin, jar>>

\* The credentials are changed, for the user of the session, or, by either of
\* the two handlers that redeem a token, for the user it was issued to.
ResetPassword(q) ==
    /\ req[q].pc = "handle"
    /\ \/ /\ req[q].route = "password_change" /\ req[q].user # None
          /\ req' = [req EXCEPT ![q].pc = "revoke"]
       \/ /\ req[q].route = "token_reset"
          /\ \E user \in User : req' = [req EXCEPT ![q].pc = "revoke", ![q].user = user]
    /\ UNCHANGED <<now, sessions, activeUsers, origin, jar>>

\* DeactivateAllSessionsForUser, whose error is logged only.
Revoke(q) ==
    /\ req[q].pc = "revoke"
    /\ \E o \in Outcome :
         sessions' = IF o = "failed" THEN sessions
                     ELSE DeactivateAllSessionsForUser(sessions, req[q].user)
    /\ req' = [req EXCEPT ![q] =
         ToResponse(q, IF req[q].route = "password_change" THEN {None} ELSE req[q].header)]
    /\ UNCHANGED <<now, activeUsers, origin, jar>>

(***************************************************************************)
(* CreateSession: count, deactivate the least recently used session when   *)
(* the user has too many, insert.  Any error is a 500 without a cookie.    *)
(***************************************************************************)
CountSessions(q) ==
    /\ req[q].pc = "count"
    /\ \/ /\ GetSessionCountByUser(sessions, req[q].user) >= MaxNumberOfActiveSessions
          /\ req' = [req EXCEPT ![q].pc = "pick"]
       \/ /\ GetSessionCountByUser(sessions, req[q].user) < MaxNumberOfActiveSessions
          /\ req' = [req EXCEPT ![q].pc = "insert"]
       \/ /\ "failed" \in Faults
          /\ req' = [req EXCEPT ![q] = ToResponse(q, req[q].header)]
    /\ UNCHANGED <<now, sessions, activeUsers, origin, jar>>

\* One statement: its sub-select reads a snapshot ...
PickVictim(q) ==
    /\ req[q].pc = "pick"
    /\ LET candidates == LeastRecentlyUsed(sessions, req[q].user)
       IN \/ \E id \in candidates :
               req' = [req EXCEPT ![q].pc = "evict", ![q].victim = {id}]
          \/ /\ candidates = {}
             /\ req' = [req EXCEPT ![q].pc = "evict"]
    /\ UNCHANGED <<now, sessions, activeUsers, origin, jar>>

\* ... and its UPDATE looks the chosen id up in the table as it is by then.
Evict(q) ==
    /\ req[q].pc = "evict"
    /\ \E o \in Outcome :
         /\ sessions' = IF o = "failed" THEN sessions
                        ELSE DeactivateSelected(sessions, req[q].victim)
         /\ req' = [req EXCEPT ![q] =
              IF o = "ok" THEN [req[q] EXCEPT !.pc = "insert", !.victim = {}]
                          ELSE ToResponse(q, req[q].header)]
    /\ UNCHANGED <<now, activeUsers, origin, jar>>

InsertSession(q) ==
    /\ req[q].pc = "insert"
    /\ \E id \in Fresh, o \in Committed :
         LET row == NewRow(Sum256(id), req[q].user, now)
         IN /\ sessions' = sessions \cup {row}
            /\ origin' = [origin EXCEPT ![id] =
                 [login |-> id, user_id |-> req[q].user, at |-> now]]
            /\ req' = [req EXCEPT ![q] = ToResponse(q,
                 IF o = "ok" THEN {AddSessionToCookie(id, GetAbsoluteExpiration(row))}
                             ELSE req[q].header)]
    /\ UNCHANGED <<now, activeUsers, jar>>

InsertFails(q) ==
    /\ req[q].pc = "insert" /\ CanFail
    /\ req' = [req EXCEPT ![q] = ToResponse(q, req[q].header)]
    /\ UNCHANGED <<now, sessions, activeUsers, origin, jar>>

----------------------------------------------------------------------------
(***************************************************************************)
(* The network, the clock, and the operator who deactivates an account.    *)
(***************************************************************************)

\* The browser obeys the Set-Cookie of a response when it arrives.
Deliver(q) ==
    /\ req[q].pc = "respond"
    /\ \/ \E c \in req[q].header : jar' = [jar EXCEPT ![req[q].browser] = c]
       \/ req[q].header = {} /\ UNCHANGED jar
    /\ req' = [req EXCEPT ![q] = Idle]
    /\ UNCHANGED <<now, sessions, activeUsers, origin>>

Lose(q) ==
    /\ "lost" \in Faults
    /\ req[q].pc # "idle"
    /\ req' = [req EXCEPT ![q] = Idle]
    /\ UNCHANGED <<now, sessions, activeUsers, origin, jar>>

Tick ==
    /\ now < MaxTime
    /\ now' = now + 1
    /\ UNCHANGED <<sessions, activeUsers, origin, jar, req>>

DeactivateUser(user) ==
    /\ user \in activeUsers
    /\ activeUsers' = activeUsers \ {user}
    /\ UNCHANGED <<now, sessions, origin, jar, req>>

----------------------------------------------------------------------------
Init ==
    /\ now = 0
    /\ sessions = {}
    /\ activeUsers = User
    /\ origin = [id \in RawSessionID |-> None]
    /\ jar = [b \in Browser |-> None]
    /\ req = [q \in Request |-> Idle]

Middleware(q) ==
    \/ \E b \in Browser, route \in Routes : Receive(q, b, route)
    \/ GetSession(q) \/ ExpireSession(q)
    \/ Rotate(q) \/ RotateFails(q) \/ UpdateLastSeen(q)

Handler(q) ==
    \/ Answer(q) \/ LogIn(q) \/ ResetPassword(q) \/ Revoke(q)
    \/ CountSessions(q) \/ PickVictim(q) \/ Evict(q)
    \/ InsertSession(q) \/ InsertFails(q)

Next ==
    \/ \E q \in Request : Middleware(q) \/ Handler(q) \/ Deliver(q) \/ Lose(q)
    \/ Tick
    \/ \E user \in User : DeactivateUser(user)

Spec == Init /\ [][Next]_vars

----------------------------------------------------------------------------
(***************************************************************************)
(* Properties                                                              *)
(***************************************************************************)

\* Every variable has its type: the table holds hashes only, a session in
\* hand carries a hash or, after a rotation, a raw id.
TypeOK ==
    /\ now \in Nat
    /\ sessions \in SUBSET SessionRow
    /\ activeUsers \in SUBSET User
    /\ origin \in [RawSessionID -> Origin \cup {None}]
    /\ jar \in [Browser -> Cookie \cup {None}]
    /\ req \in [Request -> RequestState]

\* Every row carries the user and the creation time of the login it descends
\* from: no rotation, touch or revocation, stale or not, mixes sessions up.
RowsKeepOrigin ==
    \A s \in sessions :
       /\ OriginOf(s) # None
       /\ s.user_id = OriginOf(s).user_id
       /\ s.created_at = OriginOf(s).at

\* A login has one row, however many requests rotate it at once: a rotation
\* that loses the race finds no row under the id it read.
OneRowPerLogin ==
    \A s, t \in sessions : OriginOf(s).login = OriginOf(t).login => s = t

\* A login is named by an id that is itself in use and has the same origin, so
\* a fresh id names none.
LoginsAreNamed ==
    \A id \in RawSessionID : origin[id] # None => origin[origin[id].login] = origin[id]

\* The inductive invariant under the safety properties.
IInv == TypeOK /\ RowsKeepOrigin /\ LoginsAreNamed /\ OneRowPerLogin

Live(login) == \E s \in sessions : s.is_active /\ OriginOf(s).login = login

\* A login that was revoked, expired or evicted never comes back, whatever
\* the requests that had read its session before still write.
EndedLoginsStayEnded ==
    [][\A login \in RawSessionID :
          origin[login] # None /\ ~Live(login) => ~Live(login)']_vars

\* An inactive row is never written again: a rotation or a touch that was
\* under way when its session was revoked leaves no trace.
InactiveRowsAreFrozen ==
    [][\A s \in sessions : ~s.is_active => s \in sessions']_vars

\* The middleware has just admitted the request with the cookie it sent.
Admits(q) ==
    /\ req[q].pc = "lookup"
    /\ \/ req'[q].pc \in {"rotate", "touch"}
       \/ req'[q].pc = "handle" /\ req'[q].user # None

\* A request is admitted on a login of its own cookie that is live, belongs
\* to an active user and is not older than the absolute expiration, counted
\* from the log-in through all rotations since.
AdmissionFollowsLogin ==
    [][\A q \in Request : Admits(q) =>
          LET from == origin[req[q].cookie]
          IN /\ from # None
             /\ Live(from.login)
             /\ from.user_id \in activeUsers
             /\ now <= from.at + SessionAbsoluteExpirationDays]_vars

ExpiresWithLogin(cookie) ==
    /\ origin[cookie.id] # None
    /\ cookie.expires = origin[cookie.id].at + SessionAbsoluteExpirationDays

\* A cookie expires with its login, never later: rotation passes the expiry
\* of the log-in on, in the browser and in every response on its way to it.
CookieExpiresWithLogin ==
    /\ \A b \in Browser : jar[b] # None => ExpiresWithLogin(jar[b])
    /\ \A q \in Request : \A c \in req[q].header \ {None} : ExpiresWithLogin(c)

\* One request per browser and no lost answers: a browser at rest holds the
\* id its session has now, not one that a rotation replaced.
CookieIsCurrent ==
    \A b \in Browser : jar[b] # None /\ Outstanding(b) = {} =>
       \E s \in sessions : s.id = Sum256(jar[b].id)

Usable(id) ==
    \E s \in GetActiveSession(sessions, activeUsers, Sum256(id)) : ~IsExpired(s, now)

\* Likewise, a browser's cookie is cleared only when the session it names
\* can no longer be used: an error on the way never logs a user out.
ClearedOnlyWhenOver ==
    [][\A b \in Browser : jar[b] # None /\ jar'[b] = None => ~Usable(jar[b].id)]_vars

\* Log-ins one after another: they leave a user with no more active sessions
\* than MaxNumberOfActiveSessions, whatever fails between the count, the
\* eviction and the insertion.  SessionLimit has what holds of several at once.
ActiveSessionLimit ==
    \A user \in User : GetSessionCountByUser(sessions, user) <= MaxNumberOfActiveSessions

\* A request that rotated its session goes on to update its last_seen_at:
\* once UpdateLastSeen is done the session counts as seen.
RotationTouchesLastSeen ==
    [][\A q \in Request : req[q].pc = "touch" /\ req'[q].pc = "handle" =>
          \A c \in req[q].header : \A s \in sessions' :
             s.id = Sum256(c.id) /\ s.is_active => ~ShouldUpdateLastSeen(s, now)]_vars

(***************************************************************************)
(* The sessions table implements LoginLedger: a log-in is live while its   *)
(* row is active, under whatever id, and every other step is a stutter.    *)
(***************************************************************************)
LoginsBar ==
    [id \in RawSessionID |->
        IF origin[id] # None /\ origin[id].login = id
        THEN [owner |-> origin[id].user_id, live |-> Live(id)]
        ELSE None]

Ledger == INSTANCE LoginLedger WITH Login <- RawSessionID, logins <- LoginsBar

\* The ledger's assumption about its constants.
ASSUME LedgerAssumption == None \notin Ledger!Entry

\* However requests interleave and whatever fails, a log-in is opened once,
\* keeps its user, and ends once: by expiry, by eviction, or together with
\* all the user's others.
ImplementsLedger == Ledger!LedgerSpec
====================================================================================
