--------------------------- MODULE SessionLifecycleProofs ---------------------------
(***************************************************************************)
(* What holds of SessionLifecycle for any number of users, browsers and    *)
(* requests, any periods, and any faults.                                  *)
(***************************************************************************)
EXTENDS SessionLifecycle, TLAPS

(***************************************************************************)
(* The queries, row by row.                                                *)
(***************************************************************************)

\* A query that deactivates rows keeps the table well-typed.
LEMMA DeactivatedType ==
    ASSUME NEW table \in SUBSET SessionRow, NEW hit \in SUBSET table
    PROVE  Deactivated(table, hit) \in SUBSET SessionRow
BY DEF Deactivated, SessionRow, Row

\* A new row is a row.
LEMMA NewRowType ==
    ASSUME NEW id \in RawSessionID, NEW user \in User, NEW t \in Nat
    PROVE  NewRow(Sum256(id), user, t) \in SessionRow
BY DEF NewRow, Sum256, IDHash, SessionRow, Row

\* A rotated row is a row.
LEMMA RotatedType ==
    ASSUME NEW ID, NEW s \in Row(ID), NEW newID, NEW t \in Nat
    PROVE  Rotated(s, newID, t) \in Row(ID \cup {newID})
BY DEF Rotated, Row

\* The two UPDATEs that change columns keep the table well-typed.
LEMMA RotateType ==
    ASSUME NEW table \in SUBSET SessionRow, NEW id, NEW newID \in RawSessionID, NEW t \in Nat
    PROVE  UpdateSessionIDAndRefreshedAt(table, id, Sum256(newID), t) \in SUBSET SessionRow
<1>1. Sum256(newID) \in IDHash
  BY DEF Sum256, IDHash
<1>2. \A s \in SessionRow : Rotated(s, Sum256(newID), t) \in SessionRow
  BY <1>1 DEF Rotated, SessionRow, Row
<1>3. QED
  BY <1>2 DEF UpdateSessionIDAndRefreshedAt, ActiveWithID

\* Updating last_seen_at keeps the table well-typed.
LEMMA TouchType ==
    ASSUME NEW table \in SUBSET SessionRow, NEW id, NEW t \in Nat
    PROVE  UpdateSessionLastSeenToNow(table, id, t) \in SUBSET SessionRow
<1>1. \A s \in SessionRow : [s EXCEPT !.last_seen_at = t] \in SessionRow
  BY DEF SessionRow, Row
<1>2. QED
  BY <1>1 DEF UpdateSessionLastSeenToNow, ActiveWithID

(***************************************************************************)
(* The request's record.                                                   *)
(***************************************************************************)

\* A request that is not under way has a well-typed record.
LEMMA IdleType == Idle \in RequestState
BY NoneAssumption DEF Idle, RequestState, RequestRecord, PC, Route

\* The three ways on from a query keep the request's record well-typed.
LEMMA StepTypes ==
    ASSUME TypeOK, NEW q \in Request, NEW header \in SUBSET (Cookie \cup {None})
    PROVE  /\ ToResponse(q, header) \in RequestState
           /\ \A user \in User \cup {None} : ToHandler(q, user, header) \in RequestState
           /\ \A s \in SessionValue : ToTouch(q, s, header) \in RequestState
<1>1. req[q] \in RequestRecord
  BY DEF TypeOK, RequestState
<1>2. ToResponse(q, header) \in RequestState
  BY <1>1, NoneAssumption DEF ToResponse, Idle, RequestState, RequestRecord, PC, Route
<1>3. ASSUME NEW user \in User \cup {None}
      PROVE  ToHandler(q, user, header) \in RequestState
  BY <1>1, NoneAssumption DEF ToHandler, RequestState, RequestRecord, PC
<1>4. ASSUME NEW s \in SessionValue
      PROVE  ToTouch(q, s, header) \in RequestState
  <2>1. s.user_id \in User /\ s # None
    BY NoneAssumption DEF SessionValue, Row
  <2>2. [req[q] EXCEPT !.pc = "touch", !.cookie = None, !.cur = s, !.header = header]
           \in RequestState
    BY <1>1, <2>1 DEF RequestState, RequestRecord, PC
  <2>3. QED
    BY <1>3, <2>1, <2>2 DEF ToTouch
<1>5. QED
  BY <1>2, <1>3, <1>4

(***************************************************************************)
(* Type correctness.                                                       *)
(***************************************************************************)

\* One request moves to a well-typed record, the others stand still.
LEMMA RequestMoves ==
    ASSUME TypeOK, NEW q \in Request, NEW r \in RequestState, req' = [req EXCEPT ![q] = r]
    PROVE  req' \in [Request -> RequestState]
BY DEF TypeOK

\* A request that acts for a user may hold one id, or none, as its victim.
LEMMA WithVictim ==
    ASSUME NEW r \in RequestRecord, r.user \in User,
           NEW ids \in {{}} \cup {{h} : h \in IDHash},
           NEW pc \in {"evict", "insert"}
    PROVE  [r EXCEPT !.pc = pc, !.victim = ids] \in RequestState
<1>1. [r EXCEPT !.pc = pc, !.victim = ids] \in RequestRecord
  BY DEF RequestRecord, PC
<1>2. [r EXCEPT !.pc = pc, !.victim = ids].user # None
  BY NoneAssumption DEF RequestRecord
<1>3. [r EXCEPT !.pc = pc, !.victim = ids].pc = pc
  BY DEF RequestRecord
<1>4. QED
  BY <1>1, <1>2, <1>3 DEF RequestState

\* A request may go on to act for any user ...
LEMMA WithUser ==
    ASSUME NEW r \in RequestRecord, NEW user \in User, NEW pc \in {"count", "revoke"}
    PROVE  [r EXCEPT !.pc = pc, !.user = user] \in RequestState
<1>1. [r EXCEPT !.pc = pc, !.user = user] \in RequestRecord
  BY DEF RequestRecord, PC
<1>2. /\ [r EXCEPT !.pc = pc, !.user = user].pc = pc
      /\ [r EXCEPT !.pc = pc, !.user = user].user = user
  BY DEF RequestRecord
<1>3. user # None
  BY NoneAssumption
<1>4. QED
  BY <1>1, <1>2, <1>3 DEF RequestState

\* ... and from then on take any of a handler's steps for that user.
LEMMA WithPC ==
    ASSUME NEW r \in RequestRecord, r.user \in User,
           NEW pc \in {"pick", "evict", "insert", "revoke"}
    PROVE  [r EXCEPT !.pc = pc] \in RequestState
<1>1. [r EXCEPT !.pc = pc] \in RequestRecord
  BY DEF RequestRecord, PC
<1>2. /\ [r EXCEPT !.pc = pc].pc = pc
      /\ [r EXCEPT !.pc = pc].user = r.user
  BY DEF RequestRecord
<1>3. r.user # None
  BY NoneAssumption
<1>4. QED
  BY <1>1, <1>2, <1>3 DEF RequestState

\* A request may hold any session, expired or due for rotation or a touch.
LEMMA WithCur ==
    ASSUME NEW r \in RequestRecord, NEW s \in SessionValue, NEW pc \in {"expire", "rotate"}
    PROVE  [r EXCEPT !.pc = pc, !.cookie = None, !.cur = s] \in RequestState
<1> DEFINE next == [r EXCEPT !.pc = pc, !.cookie = None, !.cur = s]
<1>1. next \in RequestRecord
  BY DEF RequestRecord, PC
<1>2. next.pc = pc /\ next.cur = s
  BY DEF RequestRecord
<1>3. s # None
  BY NoneAssumption
<1> HIDE DEF next
<1>4. next \in RequestState
  BY <1>1, <1>2, <1>3 DEF RequestState
<1>5. QED
  BY <1>4 DEF next

\* The initial state is well-typed, and every step keeps the types.
LEMMA InitTypeOK == Init => TypeOK
BY IdleType DEF Init, TypeOK

\* Every query, response and tick keeps the types.
LEMMA NextTypeOK == TypeOK /\ [Next]_vars => TypeOK'
<1> SUFFICES ASSUME TypeOK, [Next]_vars
             PROVE  TypeOK'
  OBVIOUS
<1> USE NoneAssumption, StoreAssumption
<1>a. ASSUME NEW q \in Request
      PROVE  /\ req[q] \in RequestRecord
             /\ req[q].pc = "lookup" => req[q].cookie \in RawSessionID
             /\ req[q].pc \in {"expire", "rotate", "touch"} => req[q].cur \in SessionValue
             /\ req[q].pc \in {"count", "pick", "evict", "insert", "revoke"} =>
                  req[q].user \in User
             /\ req[q].header \in SUBSET (Cookie \cup {None})
  BY DEF TypeOK, RequestState, RequestRecord
<1>b. SessionRow \subseteq SessionValue
  BY DEF SessionRow, SessionValue, Row
<1>1. ASSUME NEW q \in Request, NEW b \in Browser, NEW route \in Routes, Receive(q, b, route)
      PROVE  TypeOK'
  <2> DEFINE new == [Idle EXCEPT !.browser = b, !.route = route]
  <2>1. Sends(b) # None => Sends(b) \in RawSessionID
    BY <1>1 DEF Sends, TypeOK, Cookie
  <2>2. /\ Sends(b) # None =>
             [new EXCEPT !.pc = "lookup", !.cookie = Sends(b)] \in RequestState
        /\ [new EXCEPT !.pc = "handle"] \in RequestState
        /\ [new EXCEPT !.pc = "handle", !.header = {None}] \in RequestState
    BY <2>1, LifecycleAssumption DEF Idle, RequestState, RequestRecord, PC, Route
  <2>3. req' \in [Request -> RequestState]
    BY <1>1, <2>2, RequestMoves DEF Receive
  <2>4. QED
    BY <1>1, <2>3 DEF Receive, TypeOK
<1>2. ASSUME NEW q \in Request, GetSession(q)
      PROVE  TypeOK'
  <2>1. ASSUME NEW s \in SessionRow
        PROVE  WithSession(q, s) \in RequestState
    <3>1. s \in SessionValue /\ s # None
      BY <1>b
    <3>2. /\ [req[q] EXCEPT !.pc = "expire", !.cookie = None, !.cur = s] \in RequestState
          /\ [req[q] EXCEPT !.pc = "rotate", !.cookie = None, !.cur = s] \in RequestState
      BY <1>a, <3>1, WithCur
    <3>3. ToTouch(q, s, {}) \in RequestState
      BY <3>1, StepTypes
    <3>4. QED
      BY <3>2, <3>3 DEF WithSession
  <2>2. /\ ToHandler(q, None, {None}) \in RequestState
        /\ ToHandler(q, None, {}) \in RequestState
    BY StepTypes
  <2>3. GetActiveSession(sessions, activeUsers, Sum256(req[q].cookie)) \subseteq SessionRow
    BY DEF GetActiveSession, TypeOK
  <2>4. \E r \in RequestState : req' = [req EXCEPT ![q] = r]
    BY <1>2, <2>1, <2>2, <2>3 DEF GetSession
  <2>5. QED
    BY <1>2, <2>4, RequestMoves DEF GetSession, TypeOK
<1>3. ASSUME NEW q \in Request, ExpireSession(q)
      PROVE  TypeOK'
  <2>1. DeactivateSession(sessions, req[q].cur.id) \in SUBSET SessionRow
    BY DeactivatedType DEF DeactivateSession, TypeOK
  <2>2. ToHandler(q, None, {None}) \in RequestState
    BY StepTypes
  <2>3. QED
    BY <1>3, <2>1, <2>2, RequestMoves DEF ExpireSession, TypeOK
<1>4. ASSUME NEW q \in Request, Rotate(q)
      PROVE  TypeOK'
  <2>1. PICK id \in Fresh, s \in ActiveWithID(sessions, req[q].cur.id), o \in Committed :
           /\ sessions' = UpdateSessionIDAndRefreshedAt(sessions, req[q].cur.id,
                                                        Sum256(id), now)
           /\ origin' = [origin EXCEPT ![id] = OriginOf(s)]
           /\ req' = [req EXCEPT ![q] =
                IF o = "ok"
                THEN ToTouch(q, Rotated(s, id, now),
                             {AddSessionToCookie(id, GetAbsoluteExpiration(s))})
                ELSE ToTouch(q, req[q].cur, {})]
    BY <1>4 DEF Rotate
  <2>2. id \in RawSessionID /\ s \in SessionRow /\ s.id.sha256 \in RawSessionID
    BY <2>1 DEF Fresh, ActiveWithID, TypeOK, SessionRow, Row, IDHash
  <2>3. sessions' \in SUBSET SessionRow
    BY <2>1, <2>2, RotateType DEF TypeOK
  <2>4. origin' \in [RawSessionID -> Origin \cup {None}]
    BY <2>1, <2>2 DEF TypeOK, OriginOf
  <2>5. Rotated(s, id, now) \in SessionValue
    BY <2>2 DEF Rotated, SessionRow, SessionValue, Row, TypeOK
  <2>6. AddSessionToCookie(id, GetAbsoluteExpiration(s)) \in Cookie
    BY <2>2 DEF AddSessionToCookie, GetAbsoluteExpiration, Cookie, SessionRow, Row
  <2>7. req[q].cur \in SessionValue
    BY <1>4, <1>a DEF Rotate
  <2>8. req' \in [Request -> RequestState]
    <3>1. ToTouch(q, Rotated(s, id, now),
                  {AddSessionToCookie(id, GetAbsoluteExpiration(s))}) \in RequestState
      BY <2>5, <2>6, StepTypes
    <3>2. ToTouch(q, req[q].cur, {}) \in RequestState
      BY <2>7, StepTypes
    <3>3. QED
      BY <2>1, <3>1, <3>2, RequestMoves
  <2>9. QED
    BY <1>4, <2>3, <2>4, <2>8 DEF Rotate, TypeOK
<1>5. ASSUME NEW q \in Request, RotateFails(q)
      PROVE  TypeOK'
  <2>1. ToTouch(q, req[q].cur, {}) \in RequestState
    BY <1>5, <1>a, StepTypes DEF RotateFails
  <2>2. QED
    BY <1>5, <2>1, RequestMoves DEF RotateFails, TypeOK
<1>6. ASSUME NEW q \in Request, UpdateLastSeen(q)
      PROVE  TypeOK'
  <2>1. req[q].cur.user_id \in User
    BY <1>6, <1>a DEF UpdateLastSeen, SessionValue, Row
  <2>2. ToHandler(q, req[q].cur.user_id, req[q].header) \in RequestState
    BY <1>a, <2>1, StepTypes
  <2>3. UpdateSessionLastSeenToNow(sessions, req[q].cur.id, now) \in SUBSET SessionRow
    BY TouchType DEF TypeOK
  <2>4. QED
    BY <1>6, <2>2, <2>3, RequestMoves DEF UpdateLastSeen, TypeOK
<1>7. ASSUME NEW q \in Request, Answer(q)
      PROVE  TypeOK'
  <2>1. ToResponse(q, req[q].header) \in RequestState
    BY <1>a, StepTypes
  <2>2. QED
    BY <1>7, <2>1, RequestMoves DEF Answer, TypeOK
<1>8. ASSUME NEW q \in Request, LogIn(q)
      PROVE  TypeOK'
  <2>1. ASSUME NEW user \in activeUsers
        PROVE  [req[q] EXCEPT !.pc = "count", !.user = user] \in RequestState
    <3>1. req[q] \in RequestRecord /\ user \in User
      BY <1>a DEF TypeOK
    <3>2. QED
      BY <3>1, WithUser
  <2>2. \E r \in RequestState : req' = [req EXCEPT ![q] = r]
    BY <1>8, <2>1 DEF LogIn, TypeOK
  <2>3. QED
    BY <1>8, <2>2, RequestMoves DEF LogIn, TypeOK
<1>9. ASSUME NEW q \in Request, ResetPassword(q)
      PROVE  TypeOK'
  <2>1. ASSUME NEW user \in User
        PROVE  [req[q] EXCEPT !.pc = "revoke", !.user = user] \in RequestState
    BY <1>a, WithUser
  <2>2. req[q].user # None => [req[q] EXCEPT !.pc = "revoke"] \in RequestState
    <3>1. req[q] \in RequestRecord /\ (req[q].user # None => req[q].user \in User)
      BY <1>a DEF RequestRecord
    <3>2. QED
      BY <3>1, WithPC
  <2>3. \E r \in RequestState : req' = [req EXCEPT ![q] = r]
    BY <1>9, <2>1, <2>2 DEF ResetPassword, TypeOK
  <2>4. QED
    BY <1>9, <2>3, RequestMoves DEF ResetPassword, TypeOK
<1>10. ASSUME NEW q \in Request, Revoke(q)
       PROVE  TypeOK'
  <2>1. DeactivateAllSessionsForUser(sessions, req[q].user) \in SUBSET SessionRow
    BY DeactivatedType DEF DeactivateAllSessionsForUser, ActiveSessionsOf, TypeOK
  <2>2. /\ ToResponse(q, {None}) \in RequestState
        /\ ToResponse(q, req[q].header) \in RequestState
    BY <1>a, StepTypes
  <2>3. QED
    BY <1>10, <2>1, <2>2, RequestMoves DEF Revoke, TypeOK
<1>11. ASSUME NEW q \in Request, CountSessions(q)
       PROVE  TypeOK'
  <2>1. /\ [req[q] EXCEPT !.pc = "pick"] \in RequestState
        /\ [req[q] EXCEPT !.pc = "insert"] \in RequestState
    <3>1. req[q] \in RequestRecord /\ req[q].user \in User
      BY <1>11, <1>a DEF CountSessions
    <3>2. QED
      BY <3>1, WithPC
  <2>2. ToResponse(q, req[q].header) \in RequestState
    BY <1>a, StepTypes
  <2>3. \E r \in RequestState : req' = [req EXCEPT ![q] = r]
    BY <1>11, <2>1, <2>2 DEF CountSessions, TypeOK
  <2>4. QED
    BY <1>11, <2>3, RequestMoves DEF CountSessions, TypeOK
<1>12. ASSUME NEW q \in Request, PickVictim(q)
       PROVE  TypeOK'
  <2>1. LeastRecentlyUsed(sessions, req[q].user) \subseteq IDHash
    BY DEF LeastRecentlyUsed, ActiveSessionsOf, TypeOK, SessionRow, Row
  <2>2. ASSUME NEW ids \in {{}} \cup {{h} : h \in IDHash}
        PROVE  [req[q] EXCEPT !.pc = "evict", !.victim = ids] \in RequestState
    BY <1>12, <1>a, WithVictim DEF PickVictim
  <2>3. [req[q] EXCEPT !.pc = "evict"] \in RequestState
    <3>1. req[q] \in RequestRecord /\ req[q].user \in User
      BY <1>12, <1>a DEF PickVictim
    <3>2. QED
      BY <3>1, WithPC
  <2>4. \E r \in RequestState : req' = [req EXCEPT ![q] = r]
    <3>1. \A id \in IDHash : {id} \in {{}} \cup {{h} : h \in IDHash}
      OBVIOUS
    <3>2. QED
      BY <1>12, <2>1, <2>2, <2>3, <3>1 DEF PickVictim, TypeOK
  <2>5. QED
    BY <1>12, <2>4, RequestMoves DEF PickVictim, TypeOK
<1>13. ASSUME NEW q \in Request, Evict(q)
       PROVE  TypeOK'
  <2>1. DeactivateSelected(sessions, req[q].victim) \in SUBSET SessionRow
    BY DeactivatedType DEF DeactivateSelected, TypeOK
  <2>2. [req[q] EXCEPT !.pc = "insert", !.victim = {}] \in RequestState
    <3>1. {} \in {{}} \cup {{h} : h \in IDHash}
      OBVIOUS
    <3>2. QED
      BY <1>13, <1>a, <3>1, WithVictim DEF Evict
  <2>3. ToResponse(q, req[q].header) \in RequestState
    BY <1>a, StepTypes
  <2>4. QED
    BY <1>13, <2>1, <2>2, <2>3, RequestMoves DEF Evict, TypeOK
<1>14. ASSUME NEW q \in Request, InsertSession(q)
       PROVE  TypeOK'
  <2> DEFINE row(id) == NewRow(Sum256(id), req[q].user, now)
  <2>1. PICK id \in Fresh, o \in Committed :
           /\ sessions' = sessions \cup {row(id)}
           /\ origin' = [origin EXCEPT ![id] =
                [login |-> id, user_id |-> req[q].user, at |-> now]]
           /\ req' = [req EXCEPT ![q] = ToResponse(q,
                IF o = "ok" THEN {AddSessionToCookie(id, GetAbsoluteExpiration(row(id)))}
                            ELSE req[q].header)]
    BY <1>14 DEF InsertSession
  <2>2. id \in RawSessionID /\ req[q].user \in User /\ now \in Nat
    BY <1>14, <1>a DEF InsertSession, Fresh, TypeOK
  <2>3. row(id) \in SessionRow
    BY <2>2, NewRowType
  <2>4. AddSessionToCookie(id, GetAbsoluteExpiration(row(id))) \in Cookie
    BY <2>2, <2>3 DEF AddSessionToCookie, GetAbsoluteExpiration, Cookie, SessionRow, Row
  <2>5. origin' \in [RawSessionID -> Origin \cup {None}]
    BY <2>1, <2>2 DEF TypeOK, Origin
  <2>6. req' \in [Request -> RequestState]
    <3> HIDE DEF row
    <3>1. /\ ToResponse(q, {AddSessionToCookie(id, GetAbsoluteExpiration(row(id)))})
               \in RequestState
          /\ ToResponse(q, req[q].header) \in RequestState
      BY <1>a, <2>4, StepTypes
    <3>2. QED
      BY <2>1, <3>1, RequestMoves
  <2>7. QED
    BY <1>14, <2>1, <2>3, <2>5, <2>6 DEF InsertSession, TypeOK
<1>15. ASSUME NEW q \in Request, InsertFails(q)
       PROVE  TypeOK'
  <2>1. ToResponse(q, req[q].header) \in RequestState
    BY <1>a, StepTypes
  <2>2. QED
    BY <1>15, <2>1, RequestMoves DEF InsertFails, TypeOK
<1>16. ASSUME NEW q \in Request, Deliver(q)
       PROVE  TypeOK'
  <2>1. jar' \in [Browser -> Cookie \cup {None}]
    BY <1>16, <1>a DEF Deliver, TypeOK
  <2>2. QED
    BY <1>16, <2>1, IdleType, RequestMoves DEF Deliver, TypeOK
<1>17. ASSUME NEW q \in Request, Lose(q)
       PROVE  TypeOK'
  BY <1>17, IdleType, RequestMoves DEF Lose, TypeOK
<1>18. CASE Tick
  BY <1>18 DEF Tick, TypeOK
<1>19. ASSUME NEW user \in User, DeactivateUser(user)
       PROVE  TypeOK'
  BY <1>19 DEF DeactivateUser, TypeOK
<1>20. CASE UNCHANGED vars
  BY <1>20 DEF vars, TypeOK
<1>21. QED
  BY <1>1, <1>2, <1>3, <1>4, <1>5, <1>6, <1>7, <1>8, <1>9, <1>10, <1>11, <1>12, <1>13,
     <1>14, <1>15, <1>16, <1>17, <1>18, <1>19, <1>20
     DEF Next, Middleware, Handler

\* The types hold in every reachable state of the session life cycle.
THEOREM TypeCorrect == Spec => []TypeOK
<1>1. QED
  BY InitTypeOK, NextTypeOK, PTL DEF Spec

(***************************************************************************)
(* Every step but the insertion of a session carries the table over: row   *)
(* by row, each keeps its login, its user and its creation time, none is   *)
(* activated and no inactive one changes.  Likewise for the origins.       *)
(***************************************************************************)
CarriesRows(table) ==
    \E f \in [sessions -> table] :
       /\ table = {f[s] : s \in sessions}
       /\ \A s \in sessions : /\ origin'[f[s].id.sha256] = OriginOf(s)
                              /\ f[s].user_id = s.user_id
                              /\ f[s].created_at = s.created_at
                              /\ f[s].is_active => s.is_active
                              /\ ~s.is_active => f[s] = s

CarriesOrigins ==
    /\ \A id \in RawSessionID : origin[id] # None => origin'[id] = origin[id]
    /\ \A id \in RawSessionID : origin'[id] # None =>
          \E old \in RawSessionID : origin[old] # None /\ origin'[id] = origin[old]

Carries == CarriesRows(sessions') /\ CarriesOrigins

\* A step that leaves table and origins alone carries them.
LEMMA UnchangedCarries ==
    ASSUME TypeOK, UNCHANGED <<sessions, origin>>
    PROVE  Carries
<1> DEFINE f == [s \in sessions |-> s]
<1>1. f \in [sessions -> sessions'] /\ sessions' = {f[s] : s \in sessions}
  OBVIOUS
<1>2. \A s \in sessions : f[s] = s
  OBVIOUS
<1>3. CarriesRows(sessions')
  <2> HIDE DEF f
  <2>1. QED
    BY <1>1, <1>2 DEF CarriesRows, OriginOf
<1>4. QED
  BY <1>3 DEF Carries, CarriesOrigins

\* A query that deactivates rows carries the table.
LEMMA DeactivatedCarries ==
    ASSUME TypeOK, NEW hit \in SUBSET sessions, UNCHANGED origin,
           sessions' = Deactivated(sessions, hit)
    PROVE  Carries
<1> DEFINE f == [s \in sessions |-> IF s \in hit THEN [s EXCEPT !.is_active = FALSE] ELSE s]
<1>1. f \in [sessions -> sessions'] /\ sessions' = {f[s] : s \in sessions}
  BY DEF Deactivated
<1>2. ASSUME NEW s \in sessions
      PROVE  /\ f[s].id = s.id /\ f[s].user_id = s.user_id /\ f[s].created_at = s.created_at
             /\ f[s].is_active => s.is_active
             /\ ~s.is_active => f[s] = s
  BY DEF TypeOK, SessionRow, Row
<1>3. CarriesRows(sessions')
  <2> HIDE DEF f
  <2>1. QED
    BY <1>1, <1>2 DEF CarriesRows, OriginOf
<1>4. QED
  BY <1>3 DEF Carries, CarriesOrigins

\* So does an update of last_seen_at, which reaches active rows only.
LEMMA TouchCarries ==
    ASSUME TypeOK, NEW id, UNCHANGED origin,
           sessions' = UpdateSessionLastSeenToNow(sessions, id, now)
    PROVE  Carries
<1> DEFINE hit == ActiveWithID(sessions, id)
           f == [s \in sessions |-> IF s \in hit THEN [s EXCEPT !.last_seen_at = now] ELSE s]
<1>1. f \in [sessions -> sessions'] /\ sessions' = {f[s] : s \in sessions}
  BY DEF UpdateSessionLastSeenToNow, ActiveWithID
<1>2. ASSUME NEW s \in sessions
      PROVE  /\ f[s].id = s.id /\ f[s].user_id = s.user_id /\ f[s].created_at = s.created_at
             /\ f[s].is_active => s.is_active
             /\ ~s.is_active => f[s] = s
  BY DEF TypeOK, SessionRow, Row, ActiveWithID
<1>3. CarriesRows(sessions')
  <2> HIDE DEF f, hit
  <2>1. QED
    BY <1>1, <1>2 DEF CarriesRows, OriginOf
<1>4. QED
  BY <1>3 DEF Carries, CarriesOrigins

\* A rotation carries the table too: one active row, since a login has one,
\* moves to an id never used before and takes its origin along.
LEMMA RotateCarries ==
    ASSUME IInv, NEW q \in Request, Rotate(q)
    PROVE  Carries
<1>1. PICK new \in Fresh, old \in ActiveWithID(sessions, req[q].cur.id) :
         /\ sessions' = UpdateSessionIDAndRefreshedAt(sessions, req[q].cur.id,
                                                      Sum256(new), now)
         /\ origin' = [origin EXCEPT ![new] = OriginOf(old)]
  BY DEF Rotate
<1> DEFINE hit == ActiveWithID(sessions, req[q].cur.id)
           f == [s \in sessions |-> IF s \in hit THEN Rotated(s, Sum256(new), now) ELSE s]
<1>2. /\ new \in RawSessionID /\ origin[new] = None
      /\ old \in sessions /\ old.is_active /\ origin \in [RawSessionID -> Origin \cup {None}]
      /\ \A s \in sessions : s \in SessionRow /\ s.id.sha256 \in RawSessionID
      /\ OriginOf(old) # None
  BY <1>1 DEF Fresh, ActiveWithID, IInv, TypeOK, RowsKeepOrigin, SessionRow, Row, IDHash
<1>3. hit = {old}
  BY <1>1, <1>2 DEF ActiveWithID, IInv, OneRowPerLogin, OriginOf
<1>4. f \in [sessions -> sessions'] /\ sessions' = {f[s] : s \in sessions}
  BY <1>1 DEF UpdateSessionIDAndRefreshedAt, ActiveWithID
<1>5. /\ f[old].id.sha256 = new /\ f[old].user_id = old.user_id
      /\ f[old].created_at = old.created_at /\ f[old].is_active
  BY <1>2, <1>3 DEF Rotated, Sum256, SessionRow, Row
<1>6. \A s \in sessions \ {old} : f[s] = s /\ OriginOf(s) # None
  BY <1>3 DEF IInv, RowsKeepOrigin
<1>7. CarriesRows(sessions')
  <2> HIDE DEF f, hit
  <2>1. ASSUME NEW s \in sessions
        PROVE  /\ origin'[f[s].id.sha256] = OriginOf(s)
               /\ f[s].user_id = s.user_id
               /\ f[s].created_at = s.created_at
               /\ f[s].is_active => s.is_active
               /\ ~s.is_active => f[s] = s
    <3>1. CASE s = old
      BY <3>1, <1>1, <1>2, <1>5
    <3>2. CASE s # old
      BY <3>2, <1>1, <1>2, <1>6 DEF OriginOf
    <3>3. QED
      BY <3>1, <3>2
  <2>2. QED
    BY <1>4, <2>1 DEF CarriesRows
<1>8. CarriesOrigins
  BY <1>1, <1>2 DEF CarriesOrigins, OriginOf
<1>9. QED
  BY <1>7, <1>8 DEF Carries

\* Every step carries the sessions over or inserts a new one.
LEMMA StepCarries ==
    ASSUME IInv, [Next]_vars
    PROVE  Carries \/ \E q \in Request : InsertSession(q)
<1>t. TypeOK
  BY DEF IInv
<1>1. CASE UNCHANGED <<sessions, origin>>
  BY <1>1, <1>t, UnchangedCarries
<1>2. ASSUME NEW q \in Request, ExpireSession(q)
      PROVE  Carries
  <2> DEFINE hit == {s \in sessions : s.id = req[q].cur.id /\ s.is_active}
  <2>1. sessions' = sessions \/ sessions' = Deactivated(sessions, hit)
    BY <1>2 DEF ExpireSession, DeactivateSession
  <2>2. hit \in SUBSET sessions /\ UNCHANGED origin
    BY <1>2 DEF ExpireSession
  <2>3. QED
    BY <2>1, <2>2, <1>t, UnchangedCarries, DeactivatedCarries
<1>3. ASSUME NEW q \in Request, Revoke(q)
      PROVE  Carries
  <2> DEFINE hit == ActiveSessionsOf(sessions, req[q].user)
  <2>1. sessions' = sessions \/ sessions' = Deactivated(sessions, hit)
    BY <1>3 DEF Revoke, DeactivateAllSessionsForUser
  <2>2. hit \in SUBSET sessions /\ UNCHANGED origin
    BY <1>3 DEF Revoke, ActiveSessionsOf
  <2>3. QED
    BY <2>1, <2>2, <1>t, UnchangedCarries, DeactivatedCarries
<1>4. ASSUME NEW q \in Request, Evict(q)
      PROVE  Carries
  <2> DEFINE hit == {s \in sessions : s.id \in req[q].victim}
  <2>1. sessions' = sessions \/ sessions' = Deactivated(sessions, hit)
    BY <1>4 DEF Evict, DeactivateSelected
  <2>2. hit \in SUBSET sessions /\ UNCHANGED origin
    BY <1>4 DEF Evict
  <2>3. QED
    BY <2>1, <2>2, <1>t, UnchangedCarries, DeactivatedCarries
<1>5. ASSUME NEW q \in Request, UpdateLastSeen(q)
      PROVE  Carries
  <2>1. \/ sessions' = sessions
        \/ sessions' = UpdateSessionLastSeenToNow(sessions, req[q].cur.id, now)
    BY <1>5 DEF UpdateLastSeen
  <2>2. UNCHANGED origin
    BY <1>5 DEF UpdateLastSeen
  <2>3. QED
    BY <2>1, <2>2, <1>t, UnchangedCarries, TouchCarries
<1>6. CASE UNCHANGED vars
  BY <1>6, <1>1 DEF vars
<1>7. QED
  BY <1>1, <1>2, <1>3, <1>4, <1>5, <1>6, RotateCarries
     DEF Next, Middleware, Handler, Receive, GetSession, RotateFails, Answer, LogIn,
         ResetPassword, CountSessions, PickVictim, InsertFails, Deliver, Lose, Tick,
         DeactivateUser


(***************************************************************************)
(* The inductive invariant.                                                *)
(***************************************************************************)

\* Carrying the table over keeps the invariant ...
LEMMA CarriesIInv ==
    ASSUME IInv, TypeOK', Carries
    PROVE  IInv'
<1>1. PICK f \in [sessions -> sessions'] :
         /\ sessions' = {f[s] : s \in sessions}
         /\ \A s \in sessions : /\ origin'[f[s].id.sha256] = OriginOf(s)
                                /\ f[s].user_id = s.user_id
                                /\ f[s].created_at = s.created_at
  BY DEF Carries, CarriesRows
<1>2. RowsKeepOrigin'
  BY <1>1 DEF RowsKeepOrigin, OriginOf, IInv
<1>3. OneRowPerLogin'
  <2>1. ASSUME NEW s \in sessions', NEW t \in sessions',
               origin'[s.id.sha256].login = origin'[t.id.sha256].login
        PROVE  s = t
    <3>1. PICK s0 \in sessions, t0 \in sessions : s = f[s0] /\ t = f[t0]
      BY <1>1
    <3>2. OriginOf(s0).login = OriginOf(t0).login
      BY <1>1, <2>1, <3>1
    <3>3. QED
      BY <3>1, <3>2 DEF IInv, OneRowPerLogin
  <2>2. QED
    BY <2>1 DEF OneRowPerLogin, OriginOf
<1>4. LoginsAreNamed'
  <2>1. ASSUME NEW id \in RawSessionID, origin'[id] # None
        PROVE  origin'[origin'[id].login] = origin'[id]
    <3>1. PICK old \in RawSessionID : origin[old] # None /\ origin'[id] = origin[old]
      BY <2>1 DEF Carries, CarriesOrigins
    <3>2. /\ origin[old].login \in RawSessionID
          /\ origin[origin[old].login] = origin[old]
      BY <3>1 DEF IInv, TypeOK, LoginsAreNamed, Origin
    <3>3. QED
      BY <3>1, <3>2 DEF Carries, CarriesOrigins
  <2>2. QED
    BY <2>1 DEF LoginsAreNamed
<1>5. QED
  BY <1>2, <1>3, <1>4 DEF IInv

\* ... and so does inserting a session, whose id is new and names its login.
LEMMA InsertIInv ==
    ASSUME IInv, TypeOK', NEW q \in Request, InsertSession(q)
    PROVE  IInv'
<1>1. PICK id \in Fresh :
         /\ sessions' = sessions \cup {NewRow(Sum256(id), req[q].user, now)}
         /\ origin' = [origin EXCEPT ![id] =
              [login |-> id, user_id |-> req[q].user, at |-> now]]
  BY DEF InsertSession
<1> DEFINE row == NewRow(Sum256(id), req[q].user, now)
<1>2. /\ id \in RawSessionID /\ origin[id] = None
      /\ origin \in [RawSessionID -> Origin \cup {None}]
      /\ origin'[id] = [login |-> id, user_id |-> req[q].user, at |-> now]
      /\ \A other \in RawSessionID \ {id} : origin'[other] = origin[other]
  BY <1>1 DEF Fresh, IInv, TypeOK
<1>3. origin'[id] # None
  <2>1. req[q].user \in User /\ now \in Nat
    BY DEF InsertSession, IInv, TypeOK, RequestState, RequestRecord
  <2>2. origin'[id] \in Origin
    BY <1>2, <2>1 DEF Origin
  <2>3. QED
    BY <2>2, NoneAssumption
<1>4. /\ row.id.sha256 = id /\ row.user_id = req[q].user /\ row.created_at = now
  BY DEF NewRow, Sum256
<1>5. ASSUME NEW s \in sessions
      PROVE  /\ s.id.sha256 \in RawSessionID /\ s.id.sha256 # id
             /\ OriginOf(s) # None /\ origin'[s.id.sha256] = OriginOf(s)
             /\ OriginOf(s).login # id
  <2>1. s.id.sha256 \in RawSessionID /\ OriginOf(s) # None
    BY DEF IInv, TypeOK, RowsKeepOrigin, SessionRow, Row, IDHash
  <2>2. QED
    BY <1>2, <2>1 DEF OriginOf, IInv, LoginsAreNamed
<1> HIDE DEF row
<1>6. RowsKeepOrigin'
  <2>1. ASSUME NEW s \in sessions'
        PROVE  /\ origin'[s.id.sha256] # None
               /\ s.user_id = origin'[s.id.sha256].user_id
               /\ s.created_at = origin'[s.id.sha256].at
    <3>1. CASE s \in sessions
      BY <3>1, <1>5 DEF IInv, RowsKeepOrigin
    <3>2. CASE s = row
      BY <3>2, <1>2, <1>3, <1>4
    <3>3. QED
      BY <3>1, <3>2, <1>1 DEF row
  <2>2. QED
    BY <2>1 DEF RowsKeepOrigin, OriginOf
<1>7. OneRowPerLogin'
  <2>1. origin'[row.id.sha256].login = id
    BY <1>2, <1>4
  <2>2. \A s \in sessions : origin'[s.id.sha256].login = OriginOf(s).login /\ OriginOf(s).login # id
    BY <1>5
  <2>3. sessions' = sessions \cup {row}
    BY <1>1 DEF row
  <2>4. QED
    BY <2>1, <2>2, <2>3 DEF OneRowPerLogin, OriginOf, IInv
<1>8. LoginsAreNamed'
  <2>1. ASSUME NEW other \in RawSessionID, origin'[other] # None
        PROVE  origin'[origin'[other].login] = origin'[other]
    <3>1. CASE other = id
      BY <3>1, <1>2, <1>3
    <3>2. CASE other # id
      <4>1. origin'[other] = origin[other] /\ origin[other] # None
        BY <3>2, <2>1, <1>2
      <4>2. origin[other].login \in RawSessionID
        BY <4>1, <1>2 DEF Origin
      <4>3. origin[origin[other].login] = origin[other]
        BY <4>1 DEF IInv, LoginsAreNamed
      <4>4. QED
        BY <4>1, <4>2, <4>3, <1>2
    <3>3. QED
      BY <3>1, <3>2
  <2>2. QED
    BY <2>1 DEF LoginsAreNamed
<1>9. QED
  BY <1>6, <1>7, <1>8 DEF IInv

\* The invariant holds initially and in every step.
LEMMA InitIInv == Init => IInv
<1>1. Init => TypeOK
  BY InitTypeOK
<1>2. QED
  BY <1>1 DEF Init, IInv, RowsKeepOrigin, LoginsAreNamed, OneRowPerLogin

\* Every step carries the table over or inserts a session: both keep IInv.
LEMMA NextIInv == IInv /\ [Next]_vars => IInv'
BY NextTypeOK, StepCarries, CarriesIInv, InsertIInv DEF IInv

\* IInv is an invariant of the session life cycle.
THEOREM Invariance == Spec => []IInv
BY InitIInv, NextIInv, PTL DEF Spec

\* Every row keeps the user and the creation time of its login.
THEOREM RowsKeepOriginTheorem == Spec => []RowsKeepOrigin
<1>1. IInv => RowsKeepOrigin
  BY DEF IInv
<1>2. QED
  BY <1>1, Invariance, PTL

\* A login never has two rows: concurrent rotations do not fork a session.
THEOREM OneRowPerLoginTheorem == Spec => []OneRowPerLogin
<1>1. IInv => OneRowPerLogin
  BY DEF IInv
<1>2. QED
  BY <1>1, Invariance, PTL

(***************************************************************************)
(* The action properties.                                                  *)
(***************************************************************************)

\* No step revives an ended login: carried rows are never activated, and an
\* inserted row belongs to a login of its own.
LEMMA EndedStep ==
    ASSUME IInv, [Next]_vars, NEW login \in RawSessionID, origin[login] # None, ~Live(login)
    PROVE  ~Live(login)'
<1>1. CASE Carries
  BY <1>1 DEF Carries, CarriesRows, Live, OriginOf
<1>2. ASSUME NEW q \in Request, InsertSession(q)
      PROVE  ~Live(login)'
  <2>1. PICK id \in Fresh :
           /\ sessions' = sessions \cup {NewRow(Sum256(id), req[q].user, now)}
           /\ origin' = [origin EXCEPT ![id] =
                [login |-> id, user_id |-> req[q].user, at |-> now]]
    BY <1>2 DEF InsertSession
  <2>2. /\ id \in RawSessionID /\ id # login
        /\ origin'[id].login = id
        /\ \A other \in RawSessionID \ {id} : origin'[other] = origin[other]
    BY <2>1 DEF Fresh, IInv, TypeOK
  <2>3. NewRow(Sum256(id), req[q].user, now).id.sha256 = id
    BY DEF NewRow, Sum256
  <2>4. \A s \in sessions : s.id.sha256 \in RawSessionID \ {id}
    BY <2>1 DEF Fresh, IInv, TypeOK, RowsKeepOrigin, OriginOf, SessionRow, Row, IDHash
  <2>5. QED
    BY <2>1, <2>2, <2>3, <2>4 DEF Live, OriginOf
<1>3. QED
  BY <1>1, <1>2, StepCarries

\* A login that was revoked, expired or evicted never comes back.
THEOREM EndedLoginsStayEndedTheorem == Spec => EndedLoginsStayEnded
<1>1. IInv /\ [Next]_vars =>
        [\A login \in RawSessionID :
            origin[login] # None /\ ~Live(login) => ~Live(login)']_vars
  BY EndedStep
<1>2. QED
  BY <1>1, Invariance, PTL DEF Spec, EndedLoginsStayEnded

\* An inactive row is never written again.
THEOREM InactiveRowsAreFrozenTheorem == Spec => InactiveRowsAreFrozen
<1>1. ASSUME IInv, [Next]_vars
      PROVE  \A s \in sessions : ~s.is_active => s \in sessions'
  <2>1. CASE Carries
    BY <2>1 DEF Carries, CarriesRows
  <2>2. ASSUME NEW q \in Request, InsertSession(q)
        PROVE  sessions \subseteq sessions'
    BY <2>2 DEF InsertSession
  <2>3. QED
    BY <1>1, <2>1, <2>2, StepCarries
<1>2. IInv /\ [Next]_vars =>
        [\A s \in sessions : ~s.is_active => s \in sessions']_vars
  BY <1>1
<1>3. QED
  BY <1>2, Invariance, PTL DEF Spec, InactiveRowsAreFrozen


\* Only the answer to its look-up moves a request on from there.
LEMMA LookupEnds ==
    ASSUME [Next]_vars, TypeOK, NEW q \in Request, Admits(q)
    PROVE  GetSession(q)
<1>1. req[q].pc = "lookup" /\ req'[q].pc # "lookup" /\ req'[q].pc # "idle"
  BY DEF Admits
<1>2. ASSUME NEW p \in Request, NEW b \in Browser, NEW route \in Routes, Receive(p, b, route)
      PROVE  FALSE
  BY <1>1, <1>2 DEF Receive, TypeOK
<1>3. ASSUME NEW p \in Request, GetSession(p)
      PROVE  GetSession(q)
  BY <1>1, <1>3 DEF GetSession, TypeOK
<1>4. ASSUME NEW p \in Request,
             ExpireSession(p) \/ Rotate(p) \/ RotateFails(p) \/ UpdateLastSeen(p)
      PROVE  FALSE
  BY <1>1, <1>4 DEF ExpireSession, Rotate, RotateFails, UpdateLastSeen, TypeOK
<1>5. ASSUME NEW p \in Request, Handler(p)
      PROVE  FALSE
  BY <1>1, <1>5 DEF Handler, Answer, LogIn, ResetPassword, Revoke, CountSessions, PickVictim,
                    Evict, InsertSession, InsertFails, TypeOK
<1>6. ASSUME NEW p \in Request, Deliver(p) \/ Lose(p)
      PROVE  FALSE
  BY <1>1, <1>6 DEF Deliver, Lose, Idle, TypeOK
<1>7. QED
  BY <1>1, <1>2, <1>3, <1>4, <1>5, <1>6
     DEF Next, Middleware, Tick, DeactivateUser, vars

\* A request is admitted only on a live login of its cookie, of an active
\* user, within the login's absolute expiration.
LEMMA AdmissionStep ==
    ASSUME IInv, NEW q \in Request, GetSession(q), Admits(q)
    PROVE  LET from == origin[req[q].cookie]
           IN /\ from # None
              /\ Live(from.login)
              /\ from.user_id \in activeUsers
              /\ now <= from.at + SessionAbsoluteExpirationDays
<1>1. req[q] \in RequestRecord
  BY DEF IInv, TypeOK, RequestState
<1>2. PICK s \in GetActiveSession(sessions, activeUsers, Sum256(req[q].cookie)) :
         req' = [req EXCEPT ![q] = WithSession(q, s)]
  <2>1. \A header : ToHandler(q, None, header).pc = "handle"
                    /\ ToHandler(q, None, header).user = None
    BY <1>1 DEF ToHandler, RequestRecord
  <2>2. QED
    BY <2>1 DEF GetSession, Admits, IInv, TypeOK
<1>3. ~IsExpired(s, now)
  <2>1. SUFFICES ASSUME IsExpired(s, now)
                 PROVE  FALSE
    OBVIOUS
  <2>2. req'[q] = [req[q] EXCEPT !.pc = "expire", !.cookie = None, !.cur = s]
    BY <1>2, <2>1 DEF WithSession, IInv, TypeOK
  <2>3. req'[q].pc = "expire"
    BY <1>1, <2>2 DEF RequestRecord
  <2>4. QED
    BY <2>3 DEF Admits
<1>4. /\ s \in sessions /\ s \in SessionRow
      /\ s.id.sha256 = req[q].cookie /\ s.is_active /\ s.user_id \in activeUsers
  BY <1>2 DEF GetActiveSession, Sum256, IInv, TypeOK
<1>5. /\ OriginOf(s) # None /\ s.user_id = OriginOf(s).user_id
      /\ s.created_at = OriginOf(s).at
  BY <1>4 DEF IInv, RowsKeepOrigin
<1>6. now <= s.created_at + SessionAbsoluteExpirationDays
  BY <1>3, <1>4, StoreAssumption
     DEF IsExpired, GetAbsoluteExpiration, SessionRow, Row, IInv, TypeOK
<1>7. QED
  BY <1>4, <1>5, <1>6 DEF OriginOf, Live

\* The middleware admits a request only on a live login of the cookie it
\* sent, of an active user and within the absolute expiration.
THEOREM AdmissionFollowsLoginTheorem == Spec => AdmissionFollowsLogin
<1>1. IInv /\ [Next]_vars =>
        [\A q \in Request : Admits(q) =>
            LET from == origin[req[q].cookie]
            IN /\ from # None
               /\ Live(from.login)
               /\ from.user_id \in activeUsers
               /\ now <= from.at + SessionAbsoluteExpirationDays]_vars
  BY LookupEnds, AdmissionStep DEF IInv
<1>2. QED
  BY <1>1, Invariance, PTL DEF Spec, AdmissionFollowsLogin


(***************************************************************************)
(* Cookies.  An origin never changes, so a cookie that expires with its    *)
(* login goes on doing so; it is enough to look at the header a step sets. *)
(***************************************************************************)
Good(header) == \A c \in header \ {None} : ExpiresWithLogin(c)

CInv == IInv /\ CookieExpiresWithLogin

\* No step changes the origin of an id in use.
LEMMA OriginsStay ==
    ASSUME IInv, [Next]_vars, NEW id \in RawSessionID, origin[id] # None
    PROVE  origin'[id] = origin[id]
<1>1. ASSUME NEW q \in Request, InsertSession(q)
      PROVE  origin'[id] = origin[id]
  BY <1>1 DEF InsertSession, Fresh, IInv, TypeOK
<1>2. QED
  BY <1>1, StepCarries DEF Carries, CarriesOrigins

\* A well-typed header whose cookies expire with their logins stays so.
LEMMA GoodStays ==
    ASSUME IInv, [Next]_vars, NEW header \in SUBSET (Cookie \cup {None}), Good(header)
    PROVE  Good(header)'
BY OriginsStay DEF Good, ExpiresWithLogin, Cookie

\* Each way on from a query leaves exactly the header it is given.
LEMMA HeaderOf ==
    ASSUME TypeOK, NEW q \in Request, NEW header
    PROVE  /\ ToResponse(q, header).header = header
           /\ \A user : ToHandler(q, user, header).header = header
           /\ \A s : ToTouch(q, s, header).header = header
BY DEF ToResponse, ToHandler, ToTouch, Idle, TypeOK, RequestState, RequestRecord

\* The request that takes a step has the record the step gives it.
LEMMA Assigned ==
    ASSUME TypeOK, NEW q \in Request, NEW r, req' = [req EXCEPT ![q] = r]
    PROVE  req'[q] = r
BY DEF TypeOK

\* What a step writes into the request that takes it is a good header.
LEMMA HeaderStep ==
    ASSUME CInv, [Next]_vars, NEW q \in Request
    PROVE  \A c \in req'[q].header \ {None} : ExpiresWithLogin(c)'
<1>t. /\ TypeOK /\ TypeOK' /\ IInv /\ req[q] \in RequestRecord
      /\ req[q].header \in SUBSET (Cookie \cup {None}) /\ Good(req[q].header)
  BY NextTypeOK DEF CInv, IInv, TypeOK, RequestState, RequestRecord,
                    CookieExpiresWithLogin, Good
<1>k. ASSUME req'[q].header \in {req[q].header, {}, {None}}
      PROVE  \A c \in req'[q].header \ {None} : ExpiresWithLogin(c)'
  BY <1>k, <1>t, GoodStays DEF Good
<1>1. ASSUME NEW p \in Request, p # q, Middleware(p) \/ Handler(p) \/ Deliver(p) \/ Lose(p)
      PROVE  req'[q].header = req[q].header
  BY <1>1, <1>t DEF TypeOK, Middleware, Handler, Receive, GetSession, ExpireSession, Rotate,
     RotateFails, UpdateLastSeen, Answer, LogIn, ResetPassword, Revoke, CountSessions,
     PickVictim, Evict, InsertSession, InsertFails, Deliver, Lose
<1>2. ASSUME NEW b \in Browser, NEW route \in Routes, Receive(q, b, route)
      PROVE  req'[q].header \in {{}, {None}}
  <2> DEFINE new == [Idle EXCEPT !.browser = b, !.route = route]
             sent == {[new EXCEPT !.pc = "lookup", !.cookie = Sends(b)],
                      [new EXCEPT !.pc = "handle"],
                      [new EXCEPT !.pc = "handle", !.header = {None}]}
  <2>1. \A r \in sent : r.header \in {{}, {None}}
    BY DEF Idle
  <2>2. \E r \in sent : req' = [req EXCEPT ![q] = r]
    BY <1>2 DEF Receive
  <2> HIDE DEF sent
  <2>3. QED
    BY <2>1, <2>2, <1>t, Assigned
<1>3. CASE GetSession(q)
  <2>1. ASSUME NEW s
        PROVE  WithSession(q, s).header \in {req[q].header, {}}
    BY <1>t, HeaderOf DEF WithSession, RequestRecord
  <2>2. \/ \E s : req' = [req EXCEPT ![q] = WithSession(q, s)]
        \/ req' = [req EXCEPT ![q] = ToHandler(q, None, {None})]
        \/ req' = [req EXCEPT ![q] = ToHandler(q, None, {})]
    BY <1>3 DEF GetSession
  <2>4. \/ \E s : req'[q] = WithSession(q, s)
        \/ req'[q] = ToHandler(q, None, {None})
        \/ req'[q] = ToHandler(q, None, {})
    BY <2>2, <1>t, Assigned
  <2>5. req'[q].header \in {req[q].header, {}, {None}}
    <3>1. /\ ToHandler(q, None, {None}).header = {None}
          /\ ToHandler(q, None, {}).header = {}
      BY <1>t, HeaderOf
    <3>2. QED
      BY <2>1, <2>4, <3>1
  <2>6. QED
    BY <2>5, <1>k
<1>4. CASE Rotate(q)
  <2>1. PICK id \in Fresh, s \in ActiveWithID(sessions, req[q].cur.id), o \in Committed :
           /\ origin' = [origin EXCEPT ![id] = OriginOf(s)]
           /\ req' = [req EXCEPT ![q] =
                IF o = "ok"
                THEN ToTouch(q, Rotated(s, id, now),
                             {AddSessionToCookie(id, GetAbsoluteExpiration(s))})
                ELSE ToTouch(q, req[q].cur, {})]
    BY <1>4 DEF Rotate
  <2>2. PICK c : c = AddSessionToCookie(id, GetAbsoluteExpiration(s))
    OBVIOUS
  <2>3. req'[q].header \in {{c}, {}}
    <3>1. \/ req'[q] = ToTouch(q, Rotated(s, id, now), {c})
          \/ req'[q] = ToTouch(q, req[q].cur, {})
      BY <2>1, <2>2, <1>t, Assigned
    <3>2. /\ ToTouch(q, Rotated(s, id, now), {c}).header = {c}
          /\ ToTouch(q, req[q].cur, {}).header = {}
      BY <1>t, HeaderOf
    <3>3. QED
      BY <3>1, <3>2
  <2>4. /\ OriginOf(s) # None /\ s.created_at = OriginOf(s).at
        /\ origin'[id] = OriginOf(s)
    BY <2>1, <1>t DEF ActiveWithID, Fresh, IInv, RowsKeepOrigin, TypeOK
  <2>5. c.id = id /\ c.expires = s.created_at + SessionAbsoluteExpirationDays
    BY <2>2 DEF AddSessionToCookie, GetAbsoluteExpiration
  <2>6. ExpiresWithLogin(c)'
    BY <2>4, <2>5 DEF ExpiresWithLogin
  <2>7. QED
    BY <2>3, <2>6
<1>5. CASE InsertSession(q)
  <2>1. PICK id \in Fresh, o \in Committed :
           LET row == NewRow(Sum256(id), req[q].user, now)
           IN  /\ origin' = [origin EXCEPT ![id] =
                    [login |-> id, user_id |-> req[q].user, at |-> now]]
               /\ req' = [req EXCEPT ![q] = ToResponse(q,
                    IF o = "ok" THEN {AddSessionToCookie(id, GetAbsoluteExpiration(row))}
                                ELSE req[q].header)]
    BY <1>5 DEF InsertSession
  <2>2. PICK c : c = AddSessionToCookie(id,
                        GetAbsoluteExpiration(NewRow(Sum256(id), req[q].user, now)))
    OBVIOUS
  <2>3. c.id = id /\ c.expires = now + SessionAbsoluteExpirationDays
    BY <2>2 DEF AddSessionToCookie, GetAbsoluteExpiration, NewRow
  <2>4. origin'[id] \in Origin /\ origin'[id].at = now
    <3>1. req[q].user \in User /\ now \in Nat
      BY <1>5, <1>t DEF InsertSession, TypeOK, RequestState, RequestRecord
    <3>2. origin'[id] = [login |-> id, user_id |-> req[q].user, at |-> now]
      BY <2>1, <1>t DEF Fresh, TypeOK
    <3>3. QED
      BY <3>1, <3>2 DEF Origin, Fresh
  <2>5. ExpiresWithLogin(c)'
    BY <2>3, <2>4, NoneAssumption DEF ExpiresWithLogin
  <2>6. req'[q].header \in {{c}, req[q].header}
    <3>1. \/ req'[q] = ToResponse(q, {c})
          \/ req'[q] = ToResponse(q, req[q].header)
      BY <2>1, <2>2, <1>t, Assigned
    <3>2. QED
      BY <3>1, <1>t, HeaderOf
  <2>7. CASE req'[q].header = {c}
    BY <2>5, <2>7
  <2>8. CASE req'[q].header = req[q].header
    BY <2>8, <1>k
  <2>9. QED
    BY <2>6, <2>7, <2>8
<1>6. CASE \/ ExpireSession(q) \/ RotateFails(q) \/ UpdateLastSeen(q)
           \/ Answer(q) \/ Revoke(q) \/ InsertFails(q)
  <2>1. \/ req' = [req EXCEPT ![q] = ToHandler(q, None, {None})]
        \/ req' = [req EXCEPT ![q] = ToTouch(q, req[q].cur, {})]
        \/ req' = [req EXCEPT ![q] = ToHandler(q, req[q].cur.user_id, req[q].header)]
        \/ req' = [req EXCEPT ![q] = ToResponse(q, req[q].header)]
        \/ req' = [req EXCEPT ![q] = ToResponse(q, {None})]
    BY <1>6 DEF ExpireSession, RotateFails, UpdateLastSeen, Answer, Revoke, InsertFails
  <2>2. \/ req'[q] = ToHandler(q, None, {None})
        \/ req'[q] = ToTouch(q, req[q].cur, {})
        \/ req'[q] = ToHandler(q, req[q].cur.user_id, req[q].header)
        \/ req'[q] = ToResponse(q, req[q].header)
        \/ req'[q] = ToResponse(q, {None})
    BY <2>1, <1>t, Assigned
  <2>3. /\ ToHandler(q, None, {None}).header = {None}
        /\ ToTouch(q, req[q].cur, {}).header = {}
        /\ ToHandler(q, req[q].cur.user_id, req[q].header).header = req[q].header
        /\ ToResponse(q, req[q].header).header = req[q].header
        /\ ToResponse(q, {None}).header = {None}
    BY <1>t, HeaderOf
  <2>4. QED
    BY <2>2, <2>3, <1>k
<1>7. CASE LogIn(q) \/ ResetPassword(q) \/ PickVictim(q)
  BY <1>7, <1>k, <1>t DEF LogIn, ResetPassword, PickVictim, TypeOK, RequestRecord
<1>8. CASE CountSessions(q) \/ Evict(q)
  <2>1. \/ req' = [req EXCEPT ![q].pc = "pick"]
        \/ req' = [req EXCEPT ![q].pc = "insert"]
        \/ req' = [req EXCEPT ![q] = [req[q] EXCEPT !.pc = "insert", !.victim = {}]]
        \/ req' = [req EXCEPT ![q] = ToResponse(q, req[q].header)]
    BY <1>8 DEF CountSessions, Evict
  <2>2. \/ req'[q].header = req[q].header
        \/ req'[q] = ToResponse(q, req[q].header)
    BY <2>1, <1>t DEF TypeOK, RequestRecord
  <2>3. QED
    BY <2>2, <1>t, <1>k, HeaderOf
<1>9. CASE Deliver(q) \/ Lose(q)
  <2>1. req'[q] = Idle
    BY <1>9, <1>t DEF Deliver, Lose, TypeOK
  <2>2. req'[q].header = {}
    BY <2>1 DEF Idle
  <2>3. QED
    BY <2>2, <1>k
<1>10. CASE Tick \/ (\E user \in User : DeactivateUser(user)) \/ UNCHANGED vars
  BY <1>10, <1>k DEF Tick, DeactivateUser, vars
<1>11. QED
  BY <1>k, <1>1, <1>2, <1>3, <1>4, <1>5, <1>6, <1>7, <1>8, <1>9, <1>10
     DEF Next, Middleware, Handler

\* A browser's new cookie comes from the header delivered to it.
LEMMA JarStep ==
    ASSUME CInv, [Next]_vars, NEW b \in Browser, NEW c, c = jar'[b], c # None
    PROVE  ExpiresWithLogin(c)'
<1>t. TypeOK /\ TypeOK' /\ IInv
  BY NextTypeOK DEF CInv, IInv
<1>1. /\ c \in Cookie
      /\ \/ c = jar[b]
         \/ \E q \in Request : c \in req[q].header
  <2>1. \/ UNCHANGED jar
        \/ \E q \in Request : Deliver(q)
    <3>1. ASSUME NEW q \in Request, Middleware(q)
          PROVE  UNCHANGED jar
      BY <3>1 DEF Middleware, Receive, GetSession, ExpireSession, Rotate, RotateFails,
                  UpdateLastSeen
    <3>2. ASSUME NEW q \in Request, Handler(q)
          PROVE  UNCHANGED jar
      BY <3>2 DEF Handler, Answer, LogIn, ResetPassword, Revoke, CountSessions, PickVictim,
                  Evict, InsertSession, InsertFails
    <3>3. ASSUME \/ \E q \in Request : Lose(q)
                 \/ Tick
                 \/ \E user \in User : DeactivateUser(user)
                 \/ UNCHANGED vars
          PROVE  UNCHANGED jar
      BY <3>3 DEF Lose, Tick, DeactivateUser, vars
    <3>4. QED
      BY <3>1, <3>2, <3>3 DEF Next
  <2>2. QED
    BY <2>1, <1>t DEF Deliver, TypeOK
<1>2. ExpiresWithLogin(c)
  BY <1>1 DEF CInv, CookieExpiresWithLogin
<1>3. QED
  BY <1>1, <1>2, <1>t, OriginsStay DEF ExpiresWithLogin, Cookie

\* A cookie expires with its login, through every rotation.
THEOREM CookieExpiresWithLoginTheorem == Spec => []CookieExpiresWithLogin
<1>1. Init => CInv
  BY InitIInv DEF Init, CInv, CookieExpiresWithLogin, Idle
<1>2. CInv /\ [Next]_vars => CInv'
  <2>1. ASSUME CInv, [Next]_vars
        PROVE  CookieExpiresWithLogin'
    <3>1. \A b \in Browser : jar'[b] # None => ExpiresWithLogin(jar[b])'
      BY <2>1, JarStep DEF ExpiresWithLogin
    <3>2. \A q \in Request : \A c \in req'[q].header \ {None} : ExpiresWithLogin(c)'
      BY <2>1, HeaderStep
    <3>3. QED
      BY <3>1, <3>2 DEF CookieExpiresWithLogin
  <2>2. QED
    BY <2>1, NextIInv DEF CInv
<1>3. CInv => CookieExpiresWithLogin
  BY DEF CInv
<1>4. QED
  BY <1>1, <1>2, <1>3, PTL DEF Spec


(***************************************************************************)
(* The table implements the ledger of log-ins.  A carried table names the  *)
(* same log-ins, so what a step does to the ledger is what it does to the  *)
(* rows that make a log-in live.                                           *)
(***************************************************************************)
Named(id) == origin[id] # None /\ origin[id].login = id

\* Carrying the table over neither opens a log-in nor changes its user.
LEMMA NamedStay ==
    ASSUME IInv, Carries, NEW id \in RawSessionID
    PROVE  /\ Named(id)' <=> Named(id)
           /\ Named(id) => origin'[id] = origin[id]
<1>1. CASE origin[id] # None
  BY <1>1 DEF Carries, CarriesOrigins, Named
<1>2. CASE origin[id] = None
  <2>1. SUFFICES ASSUME origin'[id] # None
                 PROVE  origin'[id].login # id
    BY <1>2 DEF Named
  <2>2. PICK old \in RawSessionID : origin[old] # None /\ origin'[id] = origin[old]
    BY <2>1 DEF Carries, CarriesOrigins
  <2>3. origin[origin[old].login] # None
    BY <2>2 DEF IInv, LoginsAreNamed
  <2>4. QED
    BY <1>2, <2>2, <2>3
<1>3. QED
  BY <1>1, <1>2

\* If the same log-ins are live, the ledger does not change.
LEMMA SameLedger ==
    ASSUME IInv, Carries, \A id \in RawSessionID : Live(id)' <=> Live(id)
    PROVE  LoginsBar' = LoginsBar
<1>1. ASSUME NEW id \in RawSessionID
      PROVE  LoginsBar'[id] = LoginsBar[id]
  <2>1. Live(id)' = Live(id)
    BY DEF Live
  <2>2. QED
    BY <2>1, NamedStay DEF LoginsBar, Named
<1>2. QED
  BY <1>1 DEF LoginsBar

\* Leaving the table alone leaves every log-in as it is.
LEMMA UnchangedLedger ==
    ASSUME IInv, UNCHANGED <<sessions, origin>>
    PROVE  LoginsBar' = LoginsBar
BY DEF LoginsBar, Live, OriginOf

\* So does updating last_seen_at ...
LEMMA TouchLedger ==
    ASSUME IInv, NEW id, UNCHANGED origin,
           sessions' = UpdateSessionLastSeenToNow(sessions, id, now)
    PROVE  LoginsBar' = LoginsBar
<1>1. Carries
  BY TouchCarries DEF IInv
<1> DEFINE seen(s) == [s EXCEPT !.last_seen_at = now]
<1>2. \A s \in sessions : seen(s).id = s.id /\ seen(s).is_active = s.is_active
  BY DEF IInv, TypeOK, SessionRow, Row
<1>3. sessions' = (sessions \ ActiveWithID(sessions, id))
                     \cup {seen(s) : s \in ActiveWithID(sessions, id)}
  BY DEF UpdateSessionLastSeenToNow
<1> HIDE DEF seen
<1>4. \A login \in RawSessionID : Live(login)' <=> Live(login)
  BY <1>2, <1>3 DEF Live, OriginOf, ActiveWithID
<1>5. QED
  BY <1>1, <1>4, SameLedger

\* ... and so does a rotation, which takes the log-in to another id.
LEMMA RotateLedger ==
    ASSUME IInv, NEW q \in Request, Rotate(q)
    PROVE  LoginsBar' = LoginsBar
<1>1. Carries
  BY RotateCarries
<1>2. PICK new \in Fresh, old \in ActiveWithID(sessions, req[q].cur.id) :
         /\ sessions' = UpdateSessionIDAndRefreshedAt(sessions, req[q].cur.id,
                                                      Sum256(new), now)
         /\ origin' = [origin EXCEPT ![new] = OriginOf(old)]
  BY DEF Rotate
<1>3. /\ new \in RawSessionID /\ origin[new] = None
      /\ old \in sessions /\ old.is_active /\ origin \in [RawSessionID -> Origin \cup {None}]
      /\ \A s \in sessions : s \in SessionRow /\ s.id.sha256 \in RawSessionID
                             /\ OriginOf(s) # None
  BY <1>2 DEF Fresh, ActiveWithID, IInv, TypeOK, RowsKeepOrigin, SessionRow, Row, IDHash
<1>4. ActiveWithID(sessions, req[q].cur.id) = {old}
  BY <1>2, <1>3 DEF ActiveWithID, IInv, OneRowPerLogin, OriginOf
<1> DEFINE row == Rotated(old, Sum256(new), now)
<1>5. sessions' = (sessions \ {old}) \cup {row}
  BY <1>2, <1>4 DEF UpdateSessionIDAndRefreshedAt
<1>6. row.id.sha256 = new /\ row.is_active
  BY <1>3 DEF Rotated, Sum256, SessionRow, Row
<1> HIDE DEF row
<1>7. /\ origin'[row.id.sha256] = OriginOf(old)
      /\ \A s \in sessions : origin'[s.id.sha256] = OriginOf(s)
  BY <1>2, <1>3, <1>6 DEF OriginOf
<1>8. \A login \in RawSessionID : Live(login)' <=> Live(login)
  BY <1>3, <1>5, <1>6, <1>7 DEF Live, OriginOf
<1>9. QED
  BY <1>1, <1>8, SameLedger

\* Deactivating rows ends the log-ins of the active ones and no other, since
\* no log-in has a second row.
LEMMA DeactivatedLive ==
    ASSUME IInv, NEW hit \in SUBSET sessions, UNCHANGED origin,
           sessions' = Deactivated(sessions, hit), NEW login \in RawSessionID
    PROVE  Live(login)' <=> /\ Live(login)
                            /\ ~ \E s \in hit : s.is_active /\ OriginOf(s).login = login
<1> DEFINE off(s) == [s EXCEPT !.is_active = FALSE]
<1>1. \A s \in sessions : off(s).id = s.id /\ ~off(s).is_active
  BY DEF IInv, TypeOK, SessionRow, Row
<1>2. sessions' = (sessions \ hit) \cup {off(s) : s \in hit}
  BY DEF Deactivated
<1> HIDE DEF off
<1>3. QED
  BY <1>1, <1>2 DEF Live, OriginOf, IInv, OneRowPerLogin

\* What deactivating rows does to the ledger.
LEMMA DeactivatedLedger ==
    ASSUME IInv, NEW hit \in SUBSET sessions, UNCHANGED origin,
           sessions' = Deactivated(sessions, hit)
    PROVE  LoginsBar' = Ledger!Ended({OriginOf(s).login : s \in {t \in hit : t.is_active}})
<1> DEFINE over == {OriginOf(s).login : s \in {t \in hit : t.is_active}}
<1>1. Carries
  BY DeactivatedCarries DEF IInv
<1>2. ASSUME NEW s \in hit
      PROVE  Named(OriginOf(s).login)
  <2>1. s.id.sha256 \in RawSessionID /\ OriginOf(s) # None
    BY DEF IInv, TypeOK, RowsKeepOrigin, SessionRow, Row, IDHash
  <2>2. QED
    BY <2>1 DEF IInv, LoginsAreNamed, Named, OriginOf
<1>3. ASSUME NEW id \in RawSessionID
      PROVE  LoginsBar'[id] = Ledger!Ended(over)[id]
  <2>1. Live(id)' <=> Live(id) /\ id \notin over
    BY DeactivatedLive
  <2>2. CASE id \in over
    <3>1. Named(id)
      BY <2>2, <1>2
    <3>2. Live(id)' = FALSE
      BY <2>1, <2>2 DEF Live
    <3>3. LoginsBar'[id] = [owner |-> origin[id].user_id, live |-> FALSE]
      BY <3>1, <3>2, <1>1, NamedStay DEF LoginsBar, Named
    <3>4. LoginsBar[id].owner = origin[id].user_id
      BY <3>1 DEF LoginsBar, Named
    <3>5. QED
      BY <2>2, <3>3, <3>4 DEF Ledger!Ended
  <2>3. CASE id \notin over
    <3>1. Live(id)' = Live(id)
      BY <2>1, <2>3 DEF Live
    <3>2. QED
      BY <3>1, <2>3, <1>1, NamedStay DEF LoginsBar, Named, Ledger!Ended
  <2>4. QED
    BY <2>2, <2>3
<1>4. QED
  BY <1>3 DEF LoginsBar, Ledger!Ended

\* A log-in that is live has happened.
LEMMA EntryIsNotNone ==
    ASSUME NEW user \in User
    PROVE  [owner |-> user, live |-> TRUE] # None
<1>1. [owner |-> user, live |-> TRUE] \in Ledger!Entry
  BY DEF Ledger!Entry
<1>2. QED
  BY <1>1, LedgerAssumption

\* A query that reaches one row at most ends one log-in or none.
LEMMA OneEnds ==
    ASSUME IInv, NEW hit \in SUBSET sessions, \A s, t \in hit : s = t, UNCHANGED origin,
           sessions' = Deactivated(sessions, hit)
    PROVE  [Ledger!LedgerNext]_LoginsBar
<1>1. CASE \E s \in hit : s.is_active
  <2>1. PICK s \in hit : s.is_active
    BY <1>1
  <2>2. s \in sessions /\ s.id.sha256 \in RawSessionID /\ OriginOf(s) \in Origin
    BY DEF IInv, TypeOK, RowsKeepOrigin, SessionRow, Row, IDHash, OriginOf
  <2> DEFINE login == OriginOf(s).login
  <2>3. login \in RawSessionID /\ Named(login)
    BY <2>2, NoneAssumption DEF IInv, LoginsAreNamed, Named, OriginOf, Origin
  <2>4. LoginsBar[login] = [owner |-> origin[login].user_id, live |-> TRUE]
    BY <2>1, <2>2, <2>3 DEF LoginsBar, Named, Live
  <2>5. origin[login].user_id \in User
    BY <2>3 DEF Named, IInv, TypeOK, Origin
  <2>6. LoginsBar[login] # None
    BY <2>4, <2>5, EntryIsNotNone
  <2>7. {OriginOf(u).login : u \in {t \in hit : t.is_active}} = {login}
    BY <2>1
  <2>8. LoginsBar' = Ledger!Ended({login})
    BY <2>7, DeactivatedLedger
  <2>9. Ledger!EndOne(login)
    BY <2>4, <2>6, <2>8 DEF Ledger!EndOne
  <2>10. QED
    BY <2>3, <2>9 DEF Ledger!LedgerNext
<1>2. CASE ~ \E s \in hit : s.is_active
  <2>1. \A id \in RawSessionID : Live(id)' <=> Live(id)
    BY <1>2, DeactivatedLive
  <2>2. QED
    BY <2>1, DeactivatedCarries, SameLedger DEF IInv
<1>3. QED
  BY <1>1, <1>2

\* The revocation ends exactly the live log-ins of the user.
LEMMA RevokeLedger ==
    ASSUME IInv, NEW user \in User, UNCHANGED origin,
           sessions' = DeactivateAllSessionsForUser(sessions, user)
    PROVE  Ledger!EndAll(user)
<1> DEFINE hit == ActiveSessionsOf(sessions, user)
           over == {OriginOf(s).login : s \in {t \in hit : t.is_active}}
<1>1. LoginsBar' = Ledger!Ended(over)
  <2>1. hit \in SUBSET sessions
    BY DEF ActiveSessionsOf
  <2>2. QED
    BY <2>1, DeactivatedLedger DEF DeactivateAllSessionsForUser
<1>2. ASSUME NEW s \in sessions
      PROVE  /\ OriginOf(s).login \in RawSessionID /\ Named(OriginOf(s).login)
             /\ origin[OriginOf(s).login].user_id = s.user_id
  <2>1. s.id.sha256 \in RawSessionID /\ OriginOf(s) # None /\ s.user_id = OriginOf(s).user_id
    BY DEF IInv, TypeOK, RowsKeepOrigin, SessionRow, Row, IDHash
  <2>2. OriginOf(s).login \in RawSessionID
    BY <2>1 DEF IInv, TypeOK, OriginOf, Origin
  <2>3. QED
    BY <2>1, <2>2 DEF IInv, LoginsAreNamed, Named, OriginOf
<1>3. over \subseteq Ledger!LiveOf(user)
  <2>1. ASSUME NEW s \in hit
        PROVE  OriginOf(s).login \in Ledger!LiveOf(user)
    <3> DEFINE login == OriginOf(s).login
    <3>1. s \in sessions /\ s.is_active /\ s.user_id = user
      BY DEF ActiveSessionsOf
    <3>2. LoginsBar[login] = [owner |-> user, live |-> TRUE]
      BY <3>1, <1>2 DEF LoginsBar, Named, Live
    <3>3. LoginsBar[login] # None
      BY <3>2, EntryIsNotNone
    <3>4. QED
      BY <3>1, <3>2, <3>3, <1>2 DEF Ledger!LiveOf
  <2>2. QED
    BY <2>1
<1>4. Ledger!LiveOf(user) \subseteq over
  <2>1. ASSUME NEW login \in Ledger!LiveOf(user)
        PROVE  login \in over
    <3>1. /\ login \in RawSessionID /\ LoginsBar[login] # None
          /\ LoginsBar[login].live /\ LoginsBar[login].owner = user
      BY DEF Ledger!LiveOf
    <3>2. Named(login) /\ Live(login) /\ origin[login].user_id = user
      BY <3>1 DEF LoginsBar, Named
    <3>3. PICK s \in sessions : s.is_active /\ OriginOf(s).login = login
      BY <3>2 DEF Live
    <3>4. s \in hit
      BY <3>2, <3>3, <1>2 DEF ActiveSessionsOf
    <3>5. QED
      BY <3>3, <3>4
  <2>2. QED
    BY <2>1
<1>5. QED
  BY <1>1, <1>3, <1>4 DEF Ledger!EndAll

\* Inserting a session opens the log-in named by its id.
LEMMA InsertLedger ==
    ASSUME IInv, NEW q \in Request, InsertSession(q)
    PROVE  Ledger!LedgerNext
<1>1. PICK id \in Fresh :
         /\ sessions' = sessions \cup {NewRow(Sum256(id), req[q].user, now)}
         /\ origin' = [origin EXCEPT ![id] =
              [login |-> id, user_id |-> req[q].user, at |-> now]]
  BY DEF InsertSession
<1> DEFINE row == NewRow(Sum256(id), req[q].user, now)
           user == req[q].user
<1>2. user \in User /\ now \in Nat
  BY DEF InsertSession, IInv, TypeOK, RequestState, RequestRecord
<1>3. /\ id \in RawSessionID /\ origin[id] = None
      /\ origin'[id] = [login |-> id, user_id |-> user, at |-> now]
      /\ \A other \in RawSessionID \ {id} : origin'[other] = origin[other]
  BY <1>1 DEF Fresh, IInv, TypeOK
<1>4. origin'[id] # None
  <2>1. origin'[id] \in Origin
    BY <1>2, <1>3 DEF Origin
  <2>2. QED
    BY <2>1, NoneAssumption
<1>5. row.id.sha256 = id /\ row.is_active
  BY DEF NewRow, Sum256
<1>6. ASSUME NEW s \in sessions
      PROVE  /\ s.id.sha256 \in RawSessionID /\ OriginOf(s).login # id
             /\ origin'[s.id.sha256] = OriginOf(s)
  <2>1. s.id.sha256 \in RawSessionID /\ OriginOf(s) # None
    BY DEF IInv, TypeOK, RowsKeepOrigin, SessionRow, Row, IDHash
  <2>2. QED
    BY <1>3, <2>1 DEF OriginOf, IInv, LoginsAreNamed
<1> HIDE DEF row
<1>7. Live(id)' = TRUE
  BY <1>1, <1>3, <1>5 DEF Live, OriginOf, row
<1>8. ASSUME NEW other \in RawSessionID \ {id}
      PROVE  LoginsBar'[other] = LoginsBar[other]
  <2>1. Live(other)' = Live(other)
    BY <1>1, <1>3, <1>5, <1>6 DEF Live, OriginOf, row
  <2>2. QED
    BY <2>1, <1>3 DEF LoginsBar
<1>9. LoginsBar[id] = None /\ LoginsBar'[id] = [owner |-> user, live |-> TRUE]
  <2>1. origin'[id].login = id /\ origin'[id].user_id = user
    BY <1>3
  <2>2. LoginsBar'[id] = [owner |-> origin'[id].user_id, live |-> Live(id)']
    BY <2>1, <1>3, <1>4 DEF LoginsBar
  <2>3. LoginsBar[id] = None
    BY <1>3 DEF LoginsBar
  <2>4. QED
    BY <2>1, <2>2, <2>3, <1>7
<1>10. LoginsBar' = [LoginsBar EXCEPT ![id] = [owner |-> user, live |-> TRUE]]
  <2>1. /\ LoginsBar = [x \in RawSessionID |-> LoginsBar[x]]
        /\ LoginsBar' = [x \in RawSessionID |-> LoginsBar'[x]]
    BY DEF LoginsBar
  <2>2. QED
    BY <2>1, <1>3, <1>8, <1>9
<1>11. Ledger!Open(id, user)
  BY <1>9, <1>10 DEF Ledger!Open
<1>12. QED
  BY <1>2, <1>3, <1>11 DEF Ledger!LedgerNext

\* The ledger starts empty.
LEMMA InitLedger == Init => Ledger!LedgerInit
BY DEF Init, LoginsBar, Ledger!LedgerInit

\* Every step of the table is a step of the ledger or leaves it alone.
LEMMA StepLedger ==
    ASSUME IInv, [Next]_vars
    PROVE  [Ledger!LedgerNext]_LoginsBar
<1>1. CASE UNCHANGED <<sessions, origin>>
  BY <1>1, UnchangedLedger
<1>2. ASSUME NEW q \in Request, ExpireSession(q)
      PROVE  [Ledger!LedgerNext]_LoginsBar
  <2> DEFINE hit == {s \in sessions : s.id = req[q].cur.id /\ s.is_active}
  <2>1. sessions' = sessions \/ sessions' = Deactivated(sessions, hit)
    BY <1>2 DEF ExpireSession, DeactivateSession
  <2>2. hit \in SUBSET sessions /\ UNCHANGED origin
    BY <1>2 DEF ExpireSession
  <2>3. \A s, t \in hit : s = t
    BY DEF IInv, OneRowPerLogin, OriginOf
  <2>4. QED
    BY <2>1, <2>2, <2>3, UnchangedLedger, OneEnds
<1>3. ASSUME NEW q \in Request, Revoke(q)
      PROVE  [Ledger!LedgerNext]_LoginsBar
  <2>1. req[q].user \in User
    BY <1>3 DEF Revoke, IInv, TypeOK, RequestState, RequestRecord
  <2>2. \/ sessions' = sessions
        \/ sessions' = DeactivateAllSessionsForUser(sessions, req[q].user)
    BY <1>3 DEF Revoke
  <2>3. UNCHANGED origin
    BY <1>3 DEF Revoke
  <2>4. QED
    BY <2>1, <2>2, <2>3, UnchangedLedger, RevokeLedger DEF Ledger!LedgerNext
<1>4. ASSUME NEW q \in Request, Evict(q)
      PROVE  [Ledger!LedgerNext]_LoginsBar
  <2> DEFINE hit == {s \in sessions : s.id \in req[q].victim}
  <2>1. sessions' = sessions \/ sessions' = Deactivated(sessions, hit)
    BY <1>4 DEF Evict, DeactivateSelected
  <2>2. hit \in SUBSET sessions /\ UNCHANGED origin
    BY <1>4 DEF Evict
  <2>3. req[q].victim \in {{}} \cup {{h} : h \in IDHash}
    BY DEF IInv, TypeOK, RequestState, RequestRecord
  <2>4. \A s, t \in hit : s = t
    BY <2>3 DEF IInv, OneRowPerLogin, OriginOf
  <2>5. QED
    BY <2>1, <2>2, <2>4, UnchangedLedger, OneEnds
<1>5. ASSUME NEW q \in Request, UpdateLastSeen(q)
      PROVE  LoginsBar' = LoginsBar
  <2>1. \/ sessions' = sessions
        \/ sessions' = UpdateSessionLastSeenToNow(sessions, req[q].cur.id, now)
    BY <1>5 DEF UpdateLastSeen
  <2>2. UNCHANGED origin
    BY <1>5 DEF UpdateLastSeen
  <2>3. QED
    BY <2>1, <2>2, UnchangedLedger, TouchLedger
<1>6. CASE UNCHANGED vars
  BY <1>6, <1>1 DEF vars
<1>7. QED
  BY <1>1, <1>2, <1>3, <1>4, <1>5, <1>6, RotateLedger, InsertLedger
     DEF Next, Middleware, Handler, Receive, GetSession, RotateFails, Answer, LogIn,
         ResetPassword, CountSessions, PickVictim, InsertFails, Deliver, Lose, Tick,
         DeactivateUser

\* The sessions table implements LoginLedger.
THEOREM ImplementsLedgerTheorem == Spec => ImplementsLedger
<1>1. IInv /\ [Next]_vars => [Ledger!LedgerNext]_LoginsBar
  BY StepLedger
<1>2. QED
  BY <1>1, InitLedger, Invariance, PTL DEF Spec, ImplementsLedger, Ledger!LedgerSpec
=====================================================================================
