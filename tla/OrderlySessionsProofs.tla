--------------------------- MODULE OrderlySessionsProofs ---------------------------
(***************************************************************************)
(* Two sets of theorems about the sessions table.  The number of active    *)
(* sessions of a user (SessionLimit), for requests that interleave in any  *)
(* way.  And what browsers can rely on (SessionLifecycle), if each waits   *)
(* for its answers and they arrive.                                        *)
(***************************************************************************)
EXTENDS SessionLimit, SessionLifecycleProofs, FiniteSetTheorems, WellFoundedInduction

(***************************************************************************)
(* The number of sessions.  The bound is inductive with what a log-in that *)
(* was not overtaken can rely on.                                          *)
(***************************************************************************)
Bound(user) == MaxNumberOfActiveSessions + excess[user]

Room(user) == GetSessionCountByUser(sessions, user) < Bound(user)

\* There is room for the session to insert, or a row to evict for it.
MakesRoom(q) ==
    /\ req[q].pc = "insert" => Room(req[q].user)
    /\ req[q].pc = "evict" => Room(req[q].user) \/ HasVictim(q)

LInv ==
    /\ IInv /\ IsFiniteSet(sessions)
    /\ overtaken \in SUBSET Request /\ excess \in [User -> Nat]
    /\ SessionExcessBound
    /\ \A q \in Request \ overtaken : MakesRoom(q)

\* A set of natural numbers that is not empty has a least one.
LEMMA LeastNumber ==
    ASSUME NEW T \in SUBSET Nat, T # {}
    PROVE  \E x \in T : \A y \in T : x <= y
<1>1. PICK x \in T : \A y \in T : ~ (<<y, x>> \in OpToRel(<, Nat))
  BY WFMin, NatLessThanWellFounded
<1>2. \A y \in T : ~ (y < x)
  BY <1>1 DEF OpToRel
<1>3. QED
  BY <1>2

\* The sub-select of the eviction finds a row if the user has any.
LEMMA SomeoneIsLeastRecentlyUsed ==
    ASSUME TypeOK, NEW user, ActiveSessionsOf(sessions, user) # {}
    PROVE  LeastRecentlyUsed(sessions, user) # {}
<1> DEFINE active == ActiveSessionsOf(sessions, user)
           seen == {s.last_seen_at : s \in active}
<1>1. active \subseteq SessionRow /\ \A s \in SessionRow : s.last_seen_at \in Nat
  BY DEF ActiveSessionsOf, TypeOK, SessionRow, Row
<1>2. seen \in SUBSET Nat /\ seen # {}
  BY <1>1
<1>3. PICK x \in seen : \A y \in seen : x <= y
  BY <1>2, LeastNumber
<1>4. PICK s \in active : s.last_seen_at = x
  BY <1>3
<1>5. \A t \in active : s.last_seen_at <= t.last_seen_at
  BY <1>3, <1>4
<1>6. s.id \in LeastRecentlyUsed(sessions, user)
  BY <1>4, <1>5 DEF LeastRecentlyUsed
<1>7. QED
  BY <1>6

\* The active sessions of a user are finitely many.
LEMMA CountIsNatural ==
    ASSUME IsFiniteSet(sessions), NEW user
    PROVE  /\ IsFiniteSet(ActiveSessionsOf(sessions, user))
           /\ GetSessionCountByUser(sessions, user) \in Nat
<1>1. ActiveSessionsOf(sessions, user) \in SUBSET sessions
  BY DEF ActiveSessionsOf
<1>2. QED
  BY <1>1, FS_Subset, FS_CardinalityType DEF GetSessionCountByUser

\* A step that carries the table never adds to the active sessions of a user.
LEMMA CountFalls ==
    ASSUME Carries, IsFiniteSet(sessions), NEW user
    PROVE  /\ IsFiniteSet(sessions')
           /\ GetSessionCountByUser(sessions', user) \in Nat
           /\ GetSessionCountByUser(sessions', user) <= GetSessionCountByUser(sessions, user)
<1> DEFINE old == ActiveSessionsOf(sessions, user)
           new == ActiveSessionsOf(sessions', user)
<1>1. PICK f \in [sessions -> sessions'] :
         /\ sessions' = {f[s] : s \in sessions}
         /\ \A s \in sessions : f[s].user_id = s.user_id /\ (f[s].is_active => s.is_active)
  BY DEF Carries, CarriesRows
<1>2. IsFiniteSet(sessions')
  <2>1. f \in Surjection(sessions, sessions')
    BY <1>1 DEF Surjection
  <2>2. QED
    BY <2>1, FS_Surjection
<1> DEFINE kept == {s \in old : f[s] \in new}
           g == [s \in kept |-> f[s]]
<1>3. g \in Surjection(kept, new)
  BY <1>1 DEF Surjection, ActiveSessionsOf
<1>4. /\ IsFiniteSet(old) /\ IsFiniteSet(kept) /\ Cardinality(kept) <= Cardinality(old)
      /\ Cardinality(old) \in Nat /\ Cardinality(kept) \in Nat
  <2>1. IsFiniteSet(old) /\ kept \in SUBSET old
    BY CountIsNatural
  <2>2. QED
    BY <2>1, FS_Subset, FS_CardinalityType
<1>5. Cardinality(new) <= Cardinality(kept) /\ IsFiniteSet(new)
  <2> HIDE DEF kept, new, g
  <2>1. QED
    BY <1>3, <1>4, FS_Surjection
<1>6. Cardinality(new) \in Nat
  BY <1>5, FS_CardinalityType
<1>7. QED
  BY <1>2, <1>4, <1>5, <1>6 DEF GetSessionCountByUser

\* A count that fits the bound still does after a step that carries the table.
LEMMA FallKeeps ==
    ASSUME LInv, Carries, NEW user \in User, NEW n \in Nat, excess[user] <= n
    PROVE  /\ GetSessionCountByUser(sessions', user) <= MaxNumberOfActiveSessions + n
           /\ Room(user) => GetSessionCountByUser(sessions', user) < MaxNumberOfActiveSessions + n
<1>1. /\ GetSessionCountByUser(sessions', user) \in Nat
      /\ GetSessionCountByUser(sessions', user) <= GetSessionCountByUser(sessions, user)
      /\ GetSessionCountByUser(sessions, user) \in Nat
  BY CountFalls, CountIsNatural DEF LInv
<1>2. GetSessionCountByUser(sessions, user) <= MaxNumberOfActiveSessions + excess[user]
  BY DEF LInv, SessionExcessBound
<1>3. excess[user] \in Nat
  BY DEF LInv
<1>4. QED
  BY <1>1, <1>2, <1>3, StoreAssumption DEF Room, Bound

\* Deactivating a row that is active makes room.
LEMMA DeactivationMakesRoom ==
    ASSUME LInv, NEW user \in User, NEW hit \in SUBSET sessions,
           sessions' = Deactivated(sessions, hit),
           NEW s \in ActiveSessionsOf(sessions, user), s \in hit,
           NEW n \in Nat, excess[user] <= n
    PROVE  GetSessionCountByUser(sessions', user) < MaxNumberOfActiveSessions + n
<1> DEFINE old == ActiveSessionsOf(sessions, user)
           new == ActiveSessionsOf(sessions', user)
           off(t) == [t EXCEPT !.is_active = FALSE]
<1>1. /\ IsFiniteSet(old) /\ Cardinality(old) \in Nat
      /\ Cardinality(old) <= MaxNumberOfActiveSessions + excess[user] /\ excess[user] \in Nat
  BY CountIsNatural DEF LInv, SessionExcessBound, GetSessionCountByUser
<1>2. \A t \in sessions : ~off(t).is_active
  BY DEF LInv, IInv, TypeOK, SessionRow, Row
<1>3. new \in SUBSET (old \ {s})
  BY <1>2 DEF Deactivated, ActiveSessionsOf
<1>4. IsFiniteSet(old \ {s}) /\ Cardinality(old \ {s}) = Cardinality(old) - 1
  BY <1>1, FS_RemoveElement
<1> HIDE DEF old, new
<1>5. Cardinality(new) <= Cardinality(old) - 1 /\ Cardinality(new) \in Nat
  BY <1>3, <1>4, FS_Subset, FS_CardinalityType
<1>6. Cardinality(new) < MaxNumberOfActiveSessions + n
  BY <1>1, <1>5, StoreAssumption
<1>7. QED
  BY <1>6 DEF GetSessionCountByUser, new

\* A row is fresh when it is inserted, and one more for its user.
LEMMA InsertionCounts ==
    ASSUME LInv, NEW q \in Request, InsertSession(q)
    PROVE  /\ IsFiniteSet(sessions') /\ sessions \subseteq sessions'
           /\ req[q].user \in User
           /\ GetSessionCountByUser(sessions', req[q].user)
                 <= GetSessionCountByUser(sessions, req[q].user) + 1
           /\ GetSessionCountByUser(sessions', req[q].user) \in Nat
           /\ \A user \in User \ {req[q].user} :
                GetSessionCountByUser(sessions', user) = GetSessionCountByUser(sessions, user)
<1>1. PICK id \in Fresh :
         sessions' = sessions \cup {NewRow(Sum256(id), req[q].user, now)}
  BY DEF InsertSession
<1> DEFINE row == NewRow(Sum256(id), req[q].user, now)
           old == ActiveSessionsOf(sessions, req[q].user)
           new == ActiveSessionsOf(sessions', req[q].user)
<1>2. IsFiniteSet(sessions') /\ sessions \subseteq sessions'
  BY <1>1, FS_AddElement DEF LInv
<1>3. req[q].user \in User
  BY DEF LInv, IInv, TypeOK, RequestState, RequestRecord, InsertSession
<1>4. IsFiniteSet(old) /\ Cardinality(old) \in Nat
  BY CountIsNatural DEF LInv, GetSessionCountByUser
<1>5. new = old \cup {row}
  BY <1>1 DEF ActiveSessionsOf, NewRow
<1>6. Cardinality(new) <= Cardinality(old) + 1 /\ Cardinality(new) \in Nat
  <2> HIDE DEF old, new, row
  <2>1. Cardinality(new) \in {Cardinality(old), Cardinality(old) + 1}
    BY <1>4, <1>5, FS_AddElement
  <2>2. QED
    BY <1>4, <2>1
<1>7. ASSUME NEW user \in User \ {req[q].user}
      PROVE  ActiveSessionsOf(sessions', user) = ActiveSessionsOf(sessions, user)
  BY <1>1 DEF ActiveSessionsOf, NewRow
<1>8. QED
  BY <1>2, <1>3, <1>6, <1>7 DEF GetSessionCountByUser

\* How the histories move.
LEMMA HistoryMoves ==
    ASSUME LInv, Overtake, Exceed
    PROVE  /\ overtaken' \in SUBSET Request /\ excess' \in [User -> Nat]
           /\ \A user \in User : excess[user] <= excess'[user]
           /\ \A q \in overtaken : InsertSession(q) =>
                \A user \in User : user = req[q].user => excess'[user] = excess[user] + 1
           /\ \A p \in Request \ overtaken' : req'[p].pc \in {"evict", "insert"} =>
                p \notin overtaken /\ ~InsertsMeanwhile(p) /\ ~VictimRotates(p)
<1>1. excess \in [User -> Nat]
  BY DEF LInv
<1>2. \A user \in User :
         excess'[user] = IF \E q \in overtaken : InsertSession(q) /\ req[q].user = user
                         THEN excess[user] + 1 ELSE excess[user]
  BY DEF Exceed
<1>3. excess' \in [User -> Nat] /\ \A user \in User : excess[user] <= excess'[user]
  BY <1>1 DEF Exceed
<1>4. overtaken' \in SUBSET Request
  BY DEF Overtake
<1>5. \A p \in Request \ overtaken' : req'[p].pc \in {"evict", "insert"} =>
         p \notin overtaken /\ ~InsertsMeanwhile(p) /\ ~VictimRotates(p)
  BY DEF Overtake
<1>6. \A q \in overtaken : InsertSession(q) =>
         \A user \in User : user = req[q].user => excess'[user] = excess[user] + 1
  BY <1>2
<1>7. QED
  BY <1>3, <1>4, <1>5, <1>6

\* Every step keeps the bound.
LEMMA BoundStep ==
    ASSUME LInv, [Next]_vars, Overtake, Exceed
    PROVE  IsFiniteSet(sessions') /\ SessionExcessBound'
<1>1. excess' \in [User -> Nat] /\ \A user \in User : excess[user] <= excess'[user]
  BY HistoryMoves
<1>2. CASE Carries
  <2>1. IsFiniteSet(sessions')
    BY <1>2, CountFalls DEF LInv
  <2>2. \A user \in User :
           GetSessionCountByUser(sessions', user) <= MaxNumberOfActiveSessions + excess'[user]
    BY <1>1, <1>2, FallKeeps
  <2>3. QED
    BY <2>1, <2>2 DEF SessionExcessBound
<1>3. ASSUME NEW q \in Request, InsertSession(q)
      PROVE  IsFiniteSet(sessions') /\ SessionExcessBound'
  <2> DEFINE count(user) == GetSessionCountByUser(sessions, user)
             next(user) == GetSessionCountByUser(sessions', user)
             u == req[q].user
  <2>1. /\ IsFiniteSet(sessions') /\ u \in User /\ next(u) <= count(u) + 1 /\ next(u) \in Nat
        /\ \A user \in User \ {u} : next(user) = count(user)
    BY <1>3, InsertionCounts
  <2>2. \A user \in User : /\ count(user) \in Nat /\ excess[user] \in Nat
                           /\ count(user) <= MaxNumberOfActiveSessions + excess[user]
    BY CountIsNatural DEF LInv, SessionExcessBound
  <2>3. ASSUME NEW user \in User \ {u}
        PROVE  next(user) <= MaxNumberOfActiveSessions + excess'[user]
    <3> HIDE DEF next, count, u
    <3>1. QED
      BY <1>1, <2>1, <2>2, StoreAssumption
  <2>4. next(u) <= MaxNumberOfActiveSessions + excess'[u]
    <3>1. CASE q \in overtaken
      <4>1. excess'[u] = excess[u] + 1
        BY <1>3, <2>1, <3>1, HistoryMoves
      <4> HIDE DEF next, count, u
      <4>2. QED
        BY <2>1, <2>2, <4>1, StoreAssumption
    <3>2. CASE q \notin overtaken
      <4>1. req[q].pc = "insert"
        BY <1>3 DEF InsertSession
      <4>2. count(u) < MaxNumberOfActiveSessions + excess[u]
        BY <3>2, <4>1 DEF LInv, MakesRoom, Room, Bound
      <4>3. excess[u] <= excess'[u] /\ excess'[u] \in Nat
        BY <1>1, <2>1
      <4> HIDE DEF next, count, u
      <4>4. QED
        BY <2>1, <2>2, <4>2, <4>3, StoreAssumption
    <3>3. QED
      BY <3>1, <3>2
  <2>5. QED
    BY <2>1, <2>3, <2>4 DEF SessionExcessBound
<1>4. QED
  BY <1>2, <1>3, StepCarries DEF LInv

\* The row picked for an eviction stays where it is, or there is room instead.
LEMMA VictimStays ==
    ASSUME LInv, [Next]_vars, NEW p \in Request, req'[p] = req[p],
           HasVictim(p), ~VictimRotates(p),
           req[p].user \in User, NEW n \in Nat, excess[req[p].user] <= n
    PROVE  \/ HasVictim(p)'
           \/ GetSessionCountByUser(sessions', req[p].user) < MaxNumberOfActiveSessions + n
<1>1. PICK s \in ActiveSessionsOf(sessions, req[p].user) : s.id \in req[p].victim
  BY DEF HasVictim
<1>2. s \in sessions /\ s.is_active /\ s.user_id = req[p].user /\ s \in SessionRow
  BY <1>1 DEF ActiveSessionsOf, LInv, IInv, TypeOK
<1>3. ASSUME NEW t \in sessions', t.is_active, t.user_id = s.user_id, t.id = s.id
      PROVE  HasVictim(p)'
  BY <1>1, <1>2, <1>3 DEF HasVictim, ActiveSessionsOf
<1>4. ASSUME sessions \subseteq sessions'
      PROVE  HasVictim(p)'
  BY <1>2, <1>3, <1>4
<1>5. ASSUME NEW hit \in SUBSET sessions,
             sessions' = sessions \/ sessions' = Deactivated(sessions, hit)
      PROVE  \/ HasVictim(p)'
             \/ GetSessionCountByUser(sessions', req[p].user) < MaxNumberOfActiveSessions + n
  <2>1. CASE sessions' = sessions
    BY <1>4, <2>1
  <2>2. CASE sessions' = Deactivated(sessions, hit) /\ s \in hit
    BY <1>1, <2>2, DeactivationMakesRoom
  <2>3. CASE sessions' = Deactivated(sessions, hit) /\ s \notin hit
    <3>1. s \in sessions'
      BY <1>2, <2>3 DEF Deactivated
    <3>2. QED
      BY <1>2, <1>3, <3>1
  <2>4. QED
    BY <1>5, <2>1, <2>2, <2>3
<1>6. ASSUME NEW q \in Request, ExpireSession(q) \/ Revoke(q) \/ Evict(q)
      PROVE  \/ HasVictim(p)'
             \/ GetSessionCountByUser(sessions', req[p].user) < MaxNumberOfActiveSessions + n
  <2>1. CASE ExpireSession(q)
    <3> DEFINE hit == {t \in sessions : t.id = req[q].cur.id /\ t.is_active}
    <3>1. sessions' = sessions \/ sessions' = Deactivated(sessions, hit)
      BY <2>1 DEF ExpireSession, DeactivateSession
    <3>2. hit \in SUBSET sessions
      OBVIOUS
    <3>3. QED
      BY <1>5, <3>1, <3>2
  <2>2. CASE Revoke(q)
    <3> DEFINE hit == ActiveSessionsOf(sessions, req[q].user)
    <3>1. sessions' = sessions \/ sessions' = Deactivated(sessions, hit)
      BY <2>2 DEF Revoke, DeactivateAllSessionsForUser
    <3>2. hit \in SUBSET sessions
      BY DEF ActiveSessionsOf
    <3>3. QED
      BY <1>5, <3>1, <3>2
  <2>3. CASE Evict(q)
    <3> DEFINE hit == {t \in sessions : t.id \in req[q].victim}
    <3>1. sessions' = sessions \/ sessions' = Deactivated(sessions, hit)
      BY <2>3 DEF Evict, DeactivateSelected
    <3>2. hit \in SUBSET sessions
      OBVIOUS
    <3>3. QED
      BY <1>5, <3>1, <3>2
  <2>4. QED
    BY <1>6, <2>1, <2>2, <2>3
<1>7. ASSUME NEW q \in Request, UpdateLastSeen(q)
      PROVE  HasVictim(p)'
  <2> DEFINE seen == [s EXCEPT !.last_seen_at = now]
  <2>1. \/ sessions \subseteq sessions'
        \/ sessions' = UpdateSessionLastSeenToNow(sessions, req[q].cur.id, now)
    BY <1>7 DEF UpdateLastSeen
  <2>2. seen.is_active /\ seen.user_id = s.user_id /\ seen.id = s.id
    BY <1>2 DEF SessionRow, Row
  <2>3. CASE sessions' = UpdateSessionLastSeenToNow(sessions, req[q].cur.id, now)
    <3>1. s \in sessions' \/ seen \in sessions'
      BY <1>2, <2>3 DEF UpdateSessionLastSeenToNow, ActiveWithID
    <3> HIDE DEF seen
    <3>2. QED
      BY <1>2, <1>3, <2>2, <3>1
  <2>4. QED
    BY <1>4, <2>1, <2>3
<1>8. ASSUME NEW q \in Request, Rotate(q)
      PROVE  HasVictim(p)'
  <2>1. s.id # req[q].cur.id
    BY <1>1, <1>8 DEF VictimRotates
  <2>2. s \in sessions'
    BY <1>2, <1>8, <2>1 DEF Rotate, UpdateSessionIDAndRefreshedAt, ActiveWithID
  <2>3. QED
    BY <1>2, <1>3, <2>2
<1>9. ASSUME NEW q \in Request, InsertSession(q)
      PROVE  HasVictim(p)'
  BY <1>4, <1>9, InsertionCounts
<1>10. QED
  BY <1>4, <1>6, <1>7, <1>8, <1>9
     DEF Next, Middleware, Handler, Receive, GetSession, RotateFails, Answer, LogIn,
         ResetPassword, CountSessions, PickVictim, InsertFails, Deliver, Lose, Tick,
         DeactivateUser, vars

\* A log-in that waits and was not overtaken can rely on what it has read.
LEMMA WaitingStep ==
    ASSUME LInv, [Next]_vars, Overtake, Exceed,
           NEW p \in Request \ overtaken', req'[p] = req[p], req[p].pc \in {"insert", "evict"}
    PROVE  MakesRoom(p)'
<1> DEFINE u == req[p].user
<1>1. p \notin overtaken /\ ~InsertsMeanwhile(p) /\ ~VictimRotates(p) /\ MakesRoom(p)
  BY HistoryMoves DEF LInv
<1>2. u \in User
  BY DEF LInv, IInv, TypeOK, RequestState, RequestRecord
<1>3. excess[u] <= excess'[u] /\ excess'[u] \in Nat /\ excess[u] \in Nat
  BY <1>2, HistoryMoves DEF LInv
<1>4. HasVictim(p) => HasVictim(p)' \/ Room(u)'
  BY <1>1, <1>2, <1>3, VictimStays DEF Room, Bound
<1>5. CASE Carries
  <2>1. Room(u) => Room(u)'
    BY <1>2, <1>3, <1>5, FallKeeps DEF Room, Bound
  <2>2. QED
    BY <1>1, <1>4, <2>1 DEF MakesRoom
<1>6. ASSUME NEW q \in Request, InsertSession(q)
      PROVE  MakesRoom(p)'
  <2>1. CASE req[q].user = u
    <3>1. req[p].pc = "evict" /\ HasVictim(p)
      BY <1>1, <1>6, <2>1 DEF InsertsMeanwhile
    <3>2. QED
      BY <1>4, <3>1 DEF MakesRoom
  <2>2. CASE req[q].user # u
    <3>1. GetSessionCountByUser(sessions', u) = GetSessionCountByUser(sessions, u)
      BY <1>2, <1>6, <2>2, InsertionCounts
    <3>2. GetSessionCountByUser(sessions, u) \in Nat
      BY CountIsNatural DEF LInv
    <3>3. Room(u) => Room(u)'
      BY <1>3, <3>1, <3>2, StoreAssumption DEF Room, Bound
    <3>4. QED
      BY <1>1, <1>4, <3>3 DEF MakesRoom
  <2>3. QED
    BY <2>1, <2>2
<1>7. QED
  BY <1>5, <1>6, StepCarries DEF LInv

\* The eviction has made room, if it was not overtaken.
LEMMA EvictionMakesRoom ==
    ASSUME LInv, NEW q \in Request, Evict(q), MakesRoom(q), req[q].user \in User,
           sessions' = DeactivateSelected(sessions, req[q].victim),
           NEW n \in Nat, excess[req[q].user] <= n
    PROVE  GetSessionCountByUser(sessions', req[q].user) < MaxNumberOfActiveSessions + n
<1> DEFINE hit == {t \in sessions : t.id \in req[q].victim}
<1>1. hit \in SUBSET sessions /\ sessions' = Deactivated(sessions, hit) /\ UNCHANGED origin
  BY DEF DeactivateSelected, Evict
<1>2. Carries
  BY <1>1, DeactivatedCarries DEF LInv, IInv
<1>3. CASE Room(req[q].user)
  BY <1>2, <1>3, FallKeeps
<1>4. CASE HasVictim(q)
  <2>1. PICK s \in ActiveSessionsOf(sessions, req[q].user) : s.id \in req[q].victim
    BY <1>4 DEF HasVictim
  <2>2. s \in hit
    BY <2>1 DEF ActiveSessionsOf
  <2>3. QED
    BY <1>1, <2>1, <2>2, DeactivationMakesRoom
<1>5. QED
  BY <1>3, <1>4 DEF MakesRoom, Evict

\* What a log-in finds out or does itself makes room.
LEMMA OwnStep ==
    ASSUME LInv, [Next]_vars, Overtake, Exceed,
           NEW q \in Request \ overtaken', req'[q] # req[q], req'[q].pc \in {"insert", "evict"}
    PROVE  MakesRoom(q)'
<1>r. req[q] \in RequestRecord /\ req \in [Request -> RequestState] /\ TypeOK /\ TypeOK'
  BY NextTypeOK DEF LInv, IInv, TypeOK, RequestState
<1>e. /\ \A user \in User : excess[user] <= excess'[user] /\ excess'[user] \in Nat
      /\ q \notin overtaken
  BY HistoryMoves DEF LInv
<1>1. ASSUME NEW p \in Request \ {q}, Middleware(p) \/ Handler(p) \/ Deliver(p) \/ Lose(p)
      PROVE  FALSE
  <2>1. Middleware(p) => req'[q] = req[q]
    BY <1>r DEF Middleware, Receive, GetSession, ExpireSession, Rotate, RotateFails,
                UpdateLastSeen
  <2>2. Handler(p) => req'[q] = req[q]
    BY <1>r DEF Handler, Answer, LogIn, ResetPassword, Revoke, CountSessions, PickVictim,
                Evict, InsertSession, InsertFails
  <2>3. Deliver(p) \/ Lose(p) => req'[q] = req[q]
    BY <1>r DEF Deliver, Lose
  <2>4. QED
    BY <1>1, <2>1, <2>2, <2>3
<1>2. CASE CountSessions(q)
  <2>1. /\ req'[q].pc = "insert" /\ req'[q].user = req[q].user /\ UNCHANGED sessions
        /\ GetSessionCountByUser(sessions, req[q].user) < MaxNumberOfActiveSessions
    <3>1. ToResponse(q, req[q].header).pc = "respond"
      BY <1>r DEF ToResponse, Idle
    <3>2. req'[q] \notin {[req[q] EXCEPT !.pc = "pick"], ToResponse(q, req[q].header)}
      BY <1>r, <3>1 DEF RequestRecord
    <3>3. /\ req'[q] = [req[q] EXCEPT !.pc = "insert"] /\ UNCHANGED sessions
          /\ GetSessionCountByUser(sessions, req[q].user) < MaxNumberOfActiveSessions
      BY <1>2, <1>r, <3>2 DEF CountSessions
    <3>4. QED
      BY <1>r, <3>3 DEF RequestRecord
  <2>2. req[q].user \in User
    BY <1>2, <1>r DEF CountSessions, RequestState, RequestRecord
  <2>3. GetSessionCountByUser(sessions, req[q].user) \in Nat /\ excess'[req[q].user] \in Nat
    BY <1>e, <2>2, CountIsNatural DEF LInv
  <2>4. QED
    BY <2>1, <2>3, StoreAssumption DEF MakesRoom, Room, Bound
<1>3. CASE PickVictim(q)
  <2>1. UNCHANGED sessions /\ req[q].user \in User
    BY <1>3, <1>r DEF PickVictim, RequestState, RequestRecord
  <2>2. /\ req'[q].pc = "evict" /\ req'[q].user = req[q].user
        /\ LeastRecentlyUsed(sessions, req[q].user) # {} =>
              \E id \in LeastRecentlyUsed(sessions, req[q].user) : req'[q].victim = {id}
    BY <1>3, <1>r DEF PickVictim, RequestRecord
  <2>3. CASE ActiveSessionsOf(sessions, req[q].user) = {}
    <3>1. GetSessionCountByUser(sessions', req[q].user) = 0
      BY <2>1, <2>3, FS_EmptySet DEF GetSessionCountByUser
    <3>2. excess'[req[q].user] \in Nat
      BY <1>e, <2>1
    <3>3. QED
      BY <2>2, <3>1, <3>2, StoreAssumption DEF MakesRoom, Room, Bound
  <2>4. CASE ActiveSessionsOf(sessions, req[q].user) # {}
    <3>1. HasVictim(q)'
      BY <1>r, <2>1, <2>2, <2>4, SomeoneIsLeastRecentlyUsed DEF HasVictim, LeastRecentlyUsed
    <3>2. QED
      BY <2>2, <3>1 DEF MakesRoom
  <2>5. QED
    BY <2>3, <2>4
<1>4. CASE Evict(q)
  <2>1. /\ req'[q].pc = "insert" /\ req'[q].user = req[q].user
        /\ sessions' = DeactivateSelected(sessions, req[q].victim)
    <3>1. PICK o \in Outcome :
             /\ sessions' = IF o = "failed" THEN sessions
                            ELSE DeactivateSelected(sessions, req[q].victim)
             /\ req'[q] = IF o = "ok" THEN [req[q] EXCEPT !.pc = "insert", !.victim = {}]
                                      ELSE ToResponse(q, req[q].header)
      BY <1>4, <1>r DEF Evict
    <3>2. ToResponse(q, req[q].header).pc = "respond"
      BY <1>r DEF ToResponse, Idle
    <3>3. o = "ok"
      BY <3>1, <3>2
    <3>4. QED
      BY <1>r, <3>1, <3>3 DEF RequestRecord
  <2>2. MakesRoom(q) /\ req[q].user \in User
    BY <1>4, <1>e, <1>r DEF LInv, Evict, RequestState, RequestRecord
  <2>3. GetSessionCountByUser(sessions', req[q].user)
          < MaxNumberOfActiveSessions + excess'[req[q].user]
    BY <1>4, <1>e, <2>1, <2>2, EvictionMakesRoom
  <2>4. QED
    BY <2>1, <2>3 DEF MakesRoom, Room, Bound
<1>5. ASSUME \/ Middleware(q) \/ Answer(q) \/ LogIn(q) \/ ResetPassword(q) \/ Revoke(q)
             \/ InsertSession(q) \/ InsertFails(q) \/ Deliver(q) \/ Lose(q)
      PROVE  FALSE
  <2>1. /\ \A header : ToResponse(q, header).pc = "respond"
        /\ \A user, header : ToHandler(q, user, header).pc = "handle"
        /\ \A s, header : ToTouch(q, s, header).pc \in {"handle", "touch"}
        /\ \A s : WithSession(q, s).pc \in {"expire", "rotate", "handle", "touch"}
    BY <1>r DEF ToResponse, ToHandler, ToTouch, WithSession, Idle, RequestRecord
  <2>2. ASSUME NEW r, req' = [req EXCEPT ![q] = r], r.pc \notin {"insert", "evict"}
        PROVE  FALSE
    BY <1>r, <2>2
  <2>3. CASE Middleware(q)
    BY <2>1, <2>2, <2>3 DEF Middleware, Receive, GetSession, ExpireSession, Rotate,
                            RotateFails, UpdateLastSeen, Idle
  <2>4. CASE Answer(q) \/ Revoke(q) \/ InsertSession(q) \/ InsertFails(q)
    BY <2>1, <2>2, <2>4 DEF Answer, Revoke, InsertSession, InsertFails
  <2>5. CASE LogIn(q) \/ ResetPassword(q) \/ Deliver(q) \/ Lose(q)
    BY <1>r, <2>5 DEF LogIn, ResetPassword, Deliver, Lose, Idle, RequestRecord
  <2>6. QED
    BY <1>5, <2>3, <2>4, <2>5
<1>6. CASE UNCHANGED req
  BY <1>6
<1>7. QED
  BY <1>1, <1>2, <1>3, <1>4, <1>5, <1>6 DEF Next, Handler, Tick, DeactivateUser, vars

\* The bound holds at first ...
LEMMA InitLInv == LimitInit => LInv
<1> SUFFICES ASSUME LimitInit
             PROVE  LInv
  OBVIOUS
<1>1. IInv /\ sessions = {} /\ excess = [user \in User |-> 0] /\ overtaken = {}
  BY InitIInv DEF LimitInit, Init
<1>2. \A user \in User : GetSessionCountByUser(sessions, user) = 0
  BY <1>1, FS_EmptySet DEF GetSessionCountByUser, ActiveSessionsOf
<1>3. \A q \in Request : req[q].pc = "idle"
  BY DEF LimitInit, Init, Idle
<1>4. SessionExcessBound
  BY <1>1, <1>2, StoreAssumption DEF SessionExcessBound
<1>5. QED
  BY <1>1, <1>3, <1>4, FS_EmptySet DEF LInv, MakesRoom

\* ... and every step keeps it.
LEMMA NextLInv == LInv /\ [LimitNext]_limitVars => LInv'
<1> SUFFICES ASSUME LInv, [LimitNext]_limitVars
             PROVE  LInv'
  OBVIOUS
<1>1. CASE UNCHANGED limitVars
  <2>1. UNCHANGED <<now, sessions, activeUsers, origin, jar, req, overtaken, excess>>
    BY <1>1 DEF limitVars, vars
  <2>2. IInv'
    BY <1>1, NextIInv DEF LInv, limitVars
  <2>3. QED
    BY <2>1, <2>2 DEF LInv, SessionExcessBound, MakesRoom, Room, Bound, HasVictim
<1>2. CASE LimitNext
  <2>1. [Next]_vars /\ Overtake /\ Exceed
    BY <1>2 DEF LimitNext
  <2>2. IInv'
    BY <2>1, NextIInv DEF LInv
  <2>3. IsFiniteSet(sessions') /\ SessionExcessBound'
    BY <2>1, BoundStep
  <2>4. overtaken' \in SUBSET Request /\ excess' \in [User -> Nat]
    BY <2>1, HistoryMoves
  <2>5. ASSUME NEW p \in Request \ overtaken'
        PROVE  MakesRoom(p)'
    <3>1. CASE req'[p].pc \notin {"insert", "evict"}
      BY <3>1 DEF MakesRoom
    <3>2. CASE req'[p].pc \in {"insert", "evict"}
      BY <2>1, <3>2, WaitingStep, OwnStep
    <3>3. QED
      BY <3>1, <3>2
  <2>6. QED
    BY <2>2, <2>3, <2>4, <2>5 DEF LInv
<1>3. QED
  BY <1>1, <1>2

\* However CreateSession's count, eviction and insertion interleave with those
\* of other log-ins and with everything else, and whatever fails or is lost, a
\* user has no more active sessions than MaxNumberOfActiveSessions and the
\* number of sessions that overtaken log-ins inserted.
THEOREM SessionExcessBoundTheorem == LimitSpec => []SessionExcessBound
<1>1. LInv => SessionExcessBound
  BY DEF LInv
<1>2. QED
  BY <1>1, InitLInv, NextLInv, PTL DEF LimitSpec

(***************************************************************************)
(* Browsers that wait for their answers.  No answer is lost, and no query  *)
(* commits unnoticed.                                                      *)
(***************************************************************************)
Orderly == ~Pipelining /\ Faults \cap {"unknown", "lost"} = {}

Busy(q) == req[q].pc # "idle"
Carried(q) == {c.id : c \in req[q].header \ {None}}
HasRow(id) == \E s \in sessions : s.id = Sum256(id)

\* The browser has the id, or an answer brings it.
Holds(b, id) ==
    \/ jar[b] # None /\ jar[b].id = id
    \/ \E q \in Request : Busy(q) /\ req[q].browser = b /\ id \in Carried(q)

OneEach == \A p, q \in Request : Busy(p) /\ Busy(q) /\ req[p].browser = req[q].browser => p = q

NobodyShares ==
    \A b, c \in Browser : \A id \in RawSessionID : Holds(b, id) /\ Holds(c, id) => b = c

\* A rotation takes the row from the browser's id only while an answer is on
\* its way that replaces it.
Stored ==
    /\ \A b \in Browser : jar[b] # None =>
          \/ HasRow(jar[b].id)
          \/ \E q \in Request : Busy(q) /\ req[q].browser = b /\ req[q].header # {}
    /\ \A q \in Request : \A id \in Carried(q) : HasRow(id)

\* What the middleware has in hand is the browser's session.
HasOwn(q) ==
    LET own == jar[req[q].browser]
    IN  /\ IF Busy(q) THEN req[q].browser \in Browser ELSE req[q].header = {}
        /\ req[q].pc \in {"lookup", "expire", "rotate"} => own # None /\ req[q].header = {}
        /\ req[q].pc = "lookup" => req[q].cookie = own.id
        /\ req[q].pc \in {"expire", "rotate"} => req[q].cur.id = Sum256(own.id)
        /\ req[q].pc = "touch" =>
              \/ req[q].cur.id \in RawSessionID
              \/ own # None /\ req[q].header = {} /\ req[q].cur.id = Sum256(own.id)

BInv == CInv /\ OneEach /\ NobodyShares /\ Stored /\ \A q \in Request : HasOwn(q)

(***************************************************************************)
(* Steps, by what they do to headers and cookies.                          *)
(***************************************************************************)
OthersStay(q) == \A p \in Request \ {q} : req'[p] = req[p]

Arrives(q) ==
    /\ ~Busy(q) /\ Busy(q)' /\ UNCHANGED <<sessions, jar>>
    /\ req'[q].browser \in Browser
    /\ \A p \in Request : Busy(p) => req[p].browser # req'[q].browser
    /\ Carried(q)' = {}

Continues(q) ==
    /\ Busy(q) /\ Busy(q)' /\ UNCHANGED jar
    /\ req'[q].browser = req[q].browser
    /\ Carried(q)' \subseteq Carried(q)
    /\ req[q].header # {} => req'[q].header # {}
    /\ \A id \in RawSessionID : HasRow(id) => HasRow(id)'

\* A rotation or an insertion: the answer carries a new id.
Learns(q) ==
    /\ Busy(q) /\ Busy(q)' /\ UNCHANGED jar
    /\ req'[q].browser = req[q].browser
    /\ req'[q].header # {}
    /\ \E id \in Fresh : Carried(q)' = {id} /\ HasRow(id)'
    /\ \A id \in RawSessionID : HasRow(id) =>
          HasRow(id)' \/ (req[q].pc = "rotate" /\ req[q].cur.id = Sum256(id))

Delivers(q) ==
    /\ Busy(q) /\ ~Busy(q)' /\ req'[q].header = {} /\ UNCHANGED sessions
    /\ \/ UNCHANGED jar /\ req[q].header = {}
       \/ \E c \in req[q].header : jar' = [jar EXCEPT ![req[q].browser] = c]

Effects(q) == OthersStay(q) /\ (Arrives(q) \/ Continues(q) \/ Learns(q) \/ Delivers(q))

\* The records that requests go on with, field by field.
Responds(r, q, header) ==
    r.pc = "respond" /\ r.browser = req[q].browser /\ r.header = header

Handles(r, q, user, header) ==
    /\ r.pc = "handle" /\ r.browser = req[q].browser /\ r.route = req[q].route
    /\ r.header = header /\ r.user = user

Touches(r, q, s, header) ==
    \/ Handles(r, q, s.user_id, header)
    \/ /\ r.pc = "touch" /\ r.browser = req[q].browser /\ r.route = req[q].route
       /\ r.header = header /\ r.cur = s

Holding(r, q, s) ==
    /\ r.pc \in {"expire", "rotate"} /\ r.browser = req[q].browser /\ r.route = req[q].route
    /\ r.header = req[q].header /\ r.cur = s
    /\ r.pc = "expire" => IsExpired(s, now)

\* Each way on from a query makes the record it is named for.
LEMMA Fields ==
    ASSUME TypeOK, NEW q \in Request, NEW header
    PROVE  /\ Responds(ToResponse(q, header), q, header)
           /\ \A user : Handles(ToHandler(q, user, header), q, user, header)
           /\ \A s : Touches(ToTouch(q, s, header), q, s, header)
<1>1. req[q] \in RequestRecord
  BY DEF TypeOK, RequestState
<1>2. Responds(ToResponse(q, header), q, header)
  BY DEF ToResponse, Idle, Responds
<1>3. ASSUME NEW user
      PROVE  Handles(ToHandler(q, user, header), q, user, header)
  BY <1>1 DEF ToHandler, RequestRecord, Handles
<1>4. ASSUME NEW s
      PROVE  Touches(ToTouch(q, s, header), q, s, header)
  BY <1>1, <1>3 DEF ToTouch, RequestRecord, Touches
<1>5. QED
  BY <1>2, <1>3, <1>4

\* What GetSession goes on with.
LEMMA Found ==
    ASSUME TypeOK, NEW q \in Request, NEW s
    PROVE  Holding(WithSession(q, s), q, s) \/ Touches(WithSession(q, s), q, s, {})
<1>1. req[q] \in RequestRecord
  BY DEF TypeOK, RequestState
<1>2. CASE IsExpired(s, now)
  <2>1. WithSession(q, s) = [req[q] EXCEPT !.pc = "expire", !.cookie = None, !.cur = s]
    BY <1>2 DEF WithSession
  <2>2. QED
    BY <1>1, <1>2, <2>1 DEF RequestRecord, Holding
<1>3. CASE ~IsExpired(s, now) /\ ShouldRotate(s, now)
  <2>1. WithSession(q, s) = [req[q] EXCEPT !.pc = "rotate", !.cookie = None, !.cur = s]
    BY <1>3 DEF WithSession
  <2>2. QED
    BY <1>1, <2>1 DEF RequestRecord, Holding
<1>4. CASE ~IsExpired(s, now) /\ ~ShouldRotate(s, now)
  <2>1. WithSession(q, s) = ToTouch(q, s, {})
    BY <1>4 DEF WithSession
  <2>2. Touches(ToTouch(q, s, {}), q, s, {})
    BY Fields, Zenon
  <2>3. QED
    BY <2>1, <2>2
<1>5. QED
  BY <1>2, <1>3, <1>4

\* Only a rotation takes a row away from an id.
LEMMA RowsStay ==
    ASSUME TypeOK, NEW id
    PROVE  /\ \A hit \in SUBSET sessions : sessions' = Deactivated(sessions, hit) =>
                 (HasRow(id) => HasRow(id)')
           /\ \A cur, t : sessions' = UpdateSessionLastSeenToNow(sessions, cur, t) =>
                 (HasRow(id) => HasRow(id)')
           /\ sessions' = sessions => (HasRow(id) => HasRow(id)')
<1> DEFINE off(s) == [s EXCEPT !.is_active = FALSE]
           seen(s, t) == [s EXCEPT !.last_seen_at = t]
<1>1. \A s \in sessions : off(s).id = s.id /\ \A t : seen(s, t).id = s.id
  BY DEF TypeOK, SessionRow, Row
<1>2. ASSUME NEW hit \in SUBSET sessions, sessions' = Deactivated(sessions, hit), HasRow(id)
      PROVE  HasRow(id)'
  <2>1. sessions' = (sessions \ hit) \cup {off(s) : s \in hit}
    BY <1>2 DEF Deactivated
  <2> HIDE DEF off
  <2>2. QED
    BY <1>1, <1>2, <2>1 DEF HasRow
<1>3. ASSUME NEW cur, NEW t, sessions' = UpdateSessionLastSeenToNow(sessions, cur, t), HasRow(id)
      PROVE  HasRow(id)'
  <2> DEFINE hit == ActiveWithID(sessions, cur)
  <2>1. sessions' = (sessions \ hit) \cup {seen(s, t) : s \in hit} /\ hit \subseteq sessions
    BY <1>3 DEF UpdateSessionLastSeenToNow, ActiveWithID
  <2> HIDE DEF seen, hit
  <2>2. QED
    BY <1>1, <1>3, <2>1 DEF HasRow
<1>4. sessions' = sessions => (HasRow(id) => HasRow(id)')
  BY DEF HasRow
<1>5. QED
  BY <1>2, <1>3, <1>4

(***************************************************************************)
(* The actions one by one: their effect, and the session in hand after it. *)
(***************************************************************************)

\* A request that goes on to a handler, or within it, learns no id.
LEMMA GoesOn ==
    ASSUME TypeOK, NEW q \in Request, Busy(q), HasOwn(q), UNCHANGED jar,
           NEW r, req' = [req EXCEPT ![q] = r],
           r.pc \notin {"idle", "lookup", "expire", "rotate", "touch"},
           r.browser = req[q].browser,
           r.header \in {req[q].header, {None}},
           \A id \in RawSessionID : HasRow(id) => HasRow(id)'
    PROVE  Effects(q) /\ HasOwn(q)'
<1>1. req'[q] = r /\ OthersStay(q)
  BY DEF TypeOK, OthersStay
<1>2. Busy(q)' /\ req[q].browser \in Browser
  BY <1>1 DEF Busy, HasOwn
<1>3. Carried(q)' \subseteq Carried(q) /\ (req[q].header # {} => r.header # {})
  BY <1>1 DEF Carried
<1>4. Continues(q)
  BY <1>1, <1>2, <1>3 DEF Continues
<1>5. HasOwn(q)'
  BY <1>1, <1>2 DEF HasOwn
<1>6. QED
  BY <1>1, <1>4, <1>5 DEF Effects

\* The middleware goes on with the browser's session.
LEMMA GoesOnWith ==
    ASSUME TypeOK, NEW q \in Request, req[q].pc \in {"lookup", "rotate"}, HasOwn(q),
           UNCHANGED <<jar, sessions>>,
           NEW s, s.id = Sum256(jar[req[q].browser].id),
           NEW r, req' = [req EXCEPT ![q] = r],
           Holding(r, q, s) \/ Touches(r, q, s, {})
    PROVE  Effects(q) /\ HasOwn(q)'
<1>1. req'[q] = r /\ OthersStay(q)
  BY DEF TypeOK, OthersStay
<1>2. Busy(q) /\ req[q].browser \in Browser /\ jar[req[q].browser] # None /\ req[q].header = {}
  BY DEF Busy, HasOwn
<1>3. r.pc \in {"expire", "rotate", "touch", "handle"} /\ r.browser = req[q].browser
      /\ r.header = {} /\ (r.pc # "handle" => r.cur = s)
  BY <1>2 DEF Holding, Touches, Handles
<1>4. Continues(q)
  BY <1>1, <1>2, <1>3 DEF Continues, Busy, Carried, HasRow
<1>5. HasOwn(q)'
  BY <1>1, <1>2, <1>3 DEF HasOwn, Busy
<1>6. QED
  BY <1>1, <1>4, <1>5 DEF Effects

\* A request arrives with its browser's cookie.
LEMMA ReceiveEffects ==
    ASSUME BInv, Orderly, NEW q \in Request, NEW b \in Browser, NEW route, Receive(q, b, route)
    PROVE  Effects(q) /\ HasOwn(q)'
<1> DEFINE new == [Idle EXCEPT !.browser = b, !.route = route]
<1>1. /\ req[q].pc = "idle" /\ Outstanding(b) = {} /\ UNCHANGED <<sessions, jar>>
      /\ TypeOK
  BY DEF Receive, Orderly, BInv, CInv, IInv
<1>2. PICK r :
         /\ req' = [req EXCEPT ![q] = r] /\ r.browser = b
         /\ \/ r.pc = "lookup" /\ Sends(b) # None /\ r.cookie = Sends(b) /\ r.header = {}
            \/ r.pc = "handle" /\ r.header \in {{}, {None}}
  <2>1. PICK r : /\ req' = [req EXCEPT ![q] = r]
                 /\ \/ Sends(b) # None /\ r = [new EXCEPT !.pc = "lookup", !.cookie = Sends(b)]
                    \/ r = [new EXCEPT !.pc = "handle"]
                    \/ r = [new EXCEPT !.pc = "handle", !.header = {None}]
    BY DEF Receive
  <2>2. QED
    BY <2>1 DEF Idle
<1>3. req'[q] = r /\ OthersStay(q)
  BY <1>1, <1>2 DEF TypeOK, OthersStay
<1>4. Sends(b) # None => jar[b] # None /\ Sends(b) = jar[b].id
  BY DEF Sends
<1>5. Arrives(q)
  BY <1>1, <1>2, <1>3 DEF Arrives, Busy, Carried, Outstanding
<1>6. HasOwn(q)'
  BY <1>1, <1>2, <1>3, <1>4 DEF HasOwn, Busy
<1>7. QED
  BY <1>3, <1>5, <1>6 DEF Effects

\* The look-up.
LEMMA GetSessionEffects ==
    ASSUME BInv, NEW q \in Request, GetSession(q)
    PROVE  Effects(q) /\ HasOwn(q)'
<1>1. /\ req[q].pc = "lookup" /\ UNCHANGED <<sessions, jar>> /\ TypeOK /\ HasOwn(q)
      /\ req[q].cookie = jar[req[q].browser].id /\ req[q].header = {}
  BY DEF GetSession, BInv, CInv, IInv, HasOwn
<1>2. CASE \E s \in GetActiveSession(sessions, activeUsers, Sum256(req[q].cookie)) :
              req' = [req EXCEPT ![q] = WithSession(q, s)]
  <2>1. PICK s : s.id = Sum256(req[q].cookie) /\ req' = [req EXCEPT ![q] = WithSession(q, s)]
    BY <1>2 DEF GetActiveSession
  <2>2. QED
    BY <1>1, <2>1, Found, GoesOnWith
<1>3. CASE \/ req' = [req EXCEPT ![q] = ToHandler(q, None, {None})]
           \/ req' = [req EXCEPT ![q] = ToHandler(q, None, {})]
  <2>1. PICK header \in {{}, {None}} : req' = [req EXCEPT ![q] = ToHandler(q, None, header)]
    BY <1>3
  <2>2. Handles(ToHandler(q, None, header), q, None, header)
    BY <1>1, Fields
  <2>3. QED
    BY <1>1, <2>1, <2>2, GoesOn, RowsStay DEF Handles, Busy
<1>4. QED
  BY <1>2, <1>3 DEF GetSession

\* The deactivation of an expired session.
LEMMA ExpireEffects ==
    ASSUME BInv, NEW q \in Request, ExpireSession(q)
    PROVE  Effects(q) /\ HasOwn(q)'
<1> DEFINE hit == {s \in sessions : s.id = req[q].cur.id /\ s.is_active}
<1>1. /\ req[q].pc = "expire" /\ UNCHANGED jar /\ TypeOK /\ HasOwn(q)
      /\ sessions' = sessions \/ sessions' = Deactivated(sessions, hit)
      /\ req' = [req EXCEPT ![q] = ToHandler(q, None, {None})]
  BY DEF ExpireSession, DeactivateSession, BInv, CInv, IInv
<1>2. Handles(ToHandler(q, None, {None}), q, None, {None})
  BY <1>1, Fields, Zenon
<1>3. \A id \in RawSessionID : HasRow(id) => HasRow(id)'
  BY <1>1, RowsStay
<1>4. QED
  BY <1>1, <1>2, <1>3, GoesOn DEF Handles, Busy

\* The touch, of the row if there is one.
LEMMA UpdateEffects ==
    ASSUME BInv, NEW q \in Request, UpdateLastSeen(q)
    PROVE  Effects(q) /\ HasOwn(q)'
<1> DEFINE r == ToHandler(q, req[q].cur.user_id, req[q].header)
<1>1. /\ req[q].pc = "touch" /\ UNCHANGED jar /\ TypeOK /\ HasOwn(q)
      /\ \/ sessions' = sessions
         \/ sessions' = UpdateSessionLastSeenToNow(sessions, req[q].cur.id, now)
      /\ req' = [req EXCEPT ![q] = r]
  BY DEF UpdateLastSeen, BInv, CInv, IInv
<1>2. Handles(r, q, req[q].cur.user_id, req[q].header)
  BY <1>1, Fields, Zenon
<1>3. \A id \in RawSessionID : HasRow(id) => HasRow(id)'
  BY <1>1, RowsStay
<1> HIDE DEF r
<1>4. QED
  BY <1>1, <1>2, <1>3, GoesOn DEF Handles, Busy

\* A rotation that fails: the request goes on with what it has in hand.
LEMMA RotateFailsEffects ==
    ASSUME BInv, NEW q \in Request, RotateFails(q)
    PROVE  Effects(q) /\ HasOwn(q)'
<1>1. /\ req[q].pc = "rotate" /\ UNCHANGED <<jar, sessions>> /\ TypeOK /\ HasOwn(q)
      /\ req[q].cur.id = Sum256(jar[req[q].browser].id)
      /\ req' = [req EXCEPT ![q] = ToTouch(q, req[q].cur, {})]
  BY DEF RotateFails, BInv, CInv, IInv, HasOwn
<1>2. Touches(ToTouch(q, req[q].cur, {}), q, req[q].cur, {})
  BY <1>1, Fields, Zenon
<1>3. QED
  BY <1>1, <1>2, GoesOnWith

\* The rotation: the row is found under the new id, which the answer carries.
LEMMA RotateEffects ==
    ASSUME BInv, Orderly, NEW q \in Request, Rotate(q)
    PROVE  Effects(q) /\ HasOwn(q)'
<1>1. /\ req[q].pc = "rotate" /\ UNCHANGED jar /\ TypeOK /\ HasOwn(q) /\ Busy(q)
      /\ req[q].browser \in Browser
  BY DEF Rotate, BInv, CInv, IInv, HasOwn, Busy
<1>2. PICK id \in Fresh, s \in ActiveWithID(sessions, req[q].cur.id) :
         /\ sessions' = UpdateSessionIDAndRefreshedAt(sessions, req[q].cur.id, Sum256(id), now)
         /\ req' = [req EXCEPT ![q] =
              ToTouch(q, Rotated(s, id, now),
                      {AddSessionToCookie(id, GetAbsoluteExpiration(s))})]
  BY DEF Rotate, Orderly, Committed, Outcome
<1>3. PICK c : c = AddSessionToCookie(id, GetAbsoluteExpiration(s))
  OBVIOUS
<1>4. id \in RawSessionID /\ s \in SessionRow /\ c.id = id /\ c # None
  <2>1. id \in RawSessionID /\ s \in SessionRow
    BY <1>1, <1>2 DEF Fresh, ActiveWithID, TypeOK
  <2>2. c \in Cookie
    BY <1>3, <2>1, StoreAssumption
       DEF AddSessionToCookie, GetAbsoluteExpiration, Cookie, SessionRow, Row
  <2>3. QED
    BY <1>3, <2>1, <2>2, NoneAssumption DEF AddSessionToCookie
<1>5. PICK r : r = ToTouch(q, Rotated(s, id, now), {c})
  OBVIOUS
<1>6. Touches(r, q, Rotated(s, id, now), {c}) /\ req'[q] = r /\ OthersStay(q)
  BY <1>1, <1>2, <1>3, <1>5, Fields DEF TypeOK, OthersStay
<1>7. Rotated(s, id, now).id = id
  BY <1>4 DEF Rotated, SessionRow, Row
<1>8. HasOwn(q)'
  BY <1>1, <1>4, <1>6, <1>7 DEF HasOwn, Busy, Touches, Handles
<1>9. /\ HasRow(id)'
      /\ \A other : HasRow(other) => HasRow(other)' \/ req[q].cur.id = Sum256(other)
  <2> DEFINE hit == ActiveWithID(sessions, req[q].cur.id)
  <2>1. sessions' = (sessions \ hit) \cup {Rotated(t, Sum256(id), now) : t \in hit}
    BY <1>2 DEF UpdateSessionIDAndRefreshedAt
  <2>2. Rotated(s, Sum256(id), now).id = Sum256(id)
    BY <1>4 DEF Rotated, SessionRow, Row
  <2>3. HasRow(id)'
    BY <1>2, <2>1, <2>2 DEF HasRow
  <2>4. \A t \in hit : t.id = req[q].cur.id
    BY DEF ActiveWithID
  <2>5. QED
    BY <2>1, <2>3, <2>4 DEF HasRow
<1>10. Carried(q)' = {id}
  BY <1>4, <1>6 DEF Carried, Touches, Handles
<1>11. Learns(q)
  BY <1>1, <1>2, <1>6, <1>9, <1>10 DEF Learns, Touches, Handles, Busy
<1>12. QED
  BY <1>6, <1>8, <1>11 DEF Effects

\* The steps of the handlers, but the insertion.
LEMMA HandlerEffects ==
    ASSUME BInv, Orderly, NEW q \in Request,
           \/ Answer(q) \/ LogIn(q) \/ ResetPassword(q) \/ Revoke(q)
           \/ CountSessions(q) \/ PickVictim(q) \/ Evict(q) \/ InsertFails(q)
    PROVE  Effects(q) /\ HasOwn(q)'
<1>1. /\ TypeOK /\ HasOwn(q) /\ UNCHANGED jar /\ req[q] \in RequestRecord
      /\ req[q].pc \in {"handle", "count", "pick", "evict", "insert", "revoke"} /\ Busy(q)
  BY DEF BInv, CInv, IInv, TypeOK, RequestState, Busy, Answer, LogIn, ResetPassword, Revoke,
         CountSessions, PickVictim, Evict, InsertFails
<1>2. \A id \in RawSessionID : HasRow(id) => HasRow(id)'
  <2> DEFINE active == ActiveSessionsOf(sessions, req[q].user)
             chosen == {s \in sessions : s.id \in req[q].victim}
  <2>1. /\ active \in SUBSET sessions /\ chosen \in SUBSET sessions
        /\ \/ sessions' = sessions \/ sessions' = Deactivated(sessions, active)
           \/ sessions' = Deactivated(sessions, chosen)
    BY DEF ActiveSessionsOf, Answer, LogIn, ResetPassword, Revoke, CountSessions, PickVictim,
           Evict, InsertFails, DeactivateAllSessionsForUser, DeactivateSelected
  <2> HIDE DEF active, chosen
  <2>2. QED
    BY <1>1, <2>1, RowsStay
<1>3. PICK r :
         /\ req' = [req EXCEPT ![q] = r]
         /\ \/ \E header \in {req[q].header, {None}} : r = ToResponse(q, header)
            \/ r.pc \in {"count", "pick", "evict", "insert", "revoke"}
               /\ r.browser = req[q].browser /\ r.header = req[q].header
  <2>1. CASE Answer(q) \/ Revoke(q) \/ InsertFails(q)
    BY <2>1 DEF Answer, Revoke, InsertFails
  <2>2. CASE CountSessions(q)
    <3>1. \/ \E pc \in {"pick", "insert"} : req' = [req EXCEPT ![q] = [req[q] EXCEPT !.pc = pc]]
          \/ req' = [req EXCEPT ![q] = ToResponse(q, req[q].header)]
      BY <1>1, <2>2 DEF CountSessions, TypeOK
    <3>2. QED
      BY <1>1, <3>1 DEF RequestRecord
  <2>3. CASE Evict(q)
    <3>1. \/ req' = [req EXCEPT ![q] = [req[q] EXCEPT !.pc = "insert", !.victim = {}]]
          \/ req' = [req EXCEPT ![q] = ToResponse(q, req[q].header)]
      BY <2>3 DEF Evict
    <3>2. QED
      BY <1>1, <3>1 DEF RequestRecord
  <2>4. CASE PickVictim(q)
    <3>1. \/ \E id : req' = [req EXCEPT ![q] = [req[q] EXCEPT !.pc = "evict", !.victim = {id}]]
          \/ req' = [req EXCEPT ![q] = [req[q] EXCEPT !.pc = "evict"]]
      BY <1>1, <2>4 DEF PickVictim, TypeOK
    <3>2. QED
      BY <1>1, <3>1 DEF RequestRecord
  <2>5. CASE LogIn(q) \/ ResetPassword(q)
    <3>1. \/ \E pc \in {"count", "revoke"} : \E user :
                req' = [req EXCEPT ![q] = [req[q] EXCEPT !.pc = pc, !.user = user]]
          \/ req' = [req EXCEPT ![q] = [req[q] EXCEPT !.pc = "revoke"]]
      BY <1>1, <2>5 DEF LogIn, ResetPassword, TypeOK
    <3>2. QED
      BY <1>1, <3>1 DEF RequestRecord
  <2>6. QED
    BY <2>1, <2>2, <2>3, <2>4, <2>5
<1>4. /\ r.pc \in {"respond", "count", "pick", "evict", "insert", "revoke"}
      /\ r.browser = req[q].browser /\ r.header \in {req[q].header, {None}}
  <2>1. \A header : Responds(ToResponse(q, header), q, header)
    BY <1>1, Fields
  <2>2. QED
    BY <1>3, <2>1 DEF Responds
<1>5. QED
  BY <1>1, <1>2, <1>3, <1>4, GoesOn

\* The insertion, whose id the answer carries.
LEMMA InsertEffects ==
    ASSUME BInv, Orderly, NEW q \in Request, InsertSession(q)
    PROVE  Effects(q) /\ HasOwn(q)'
<1>1. /\ req[q].pc = "insert" /\ UNCHANGED jar /\ TypeOK /\ HasOwn(q) /\ Busy(q)
      /\ req[q].browser \in Browser /\ now \in Nat
  BY DEF InsertSession, BInv, CInv, IInv, TypeOK, HasOwn, Busy
<1>2. PICK id \in Fresh :
         LET row == NewRow(Sum256(id), req[q].user, now)
         IN  /\ sessions' = sessions \cup {row}
             /\ req' = [req EXCEPT ![q] =
                  ToResponse(q, {AddSessionToCookie(id, GetAbsoluteExpiration(row))})]
  BY DEF InsertSession, Orderly, Committed, Outcome
<1> DEFINE row == NewRow(Sum256(id), req[q].user, now)
<1>3. PICK c : c = AddSessionToCookie(id, GetAbsoluteExpiration(row))
  OBVIOUS
<1>4. id \in RawSessionID /\ c.id = id /\ c # None
  <2>1. id \in RawSessionID
    BY <1>2 DEF Fresh
  <2>2. c \in Cookie
    BY <1>1, <1>3, <2>1, StoreAssumption
       DEF AddSessionToCookie, GetAbsoluteExpiration, Cookie, NewRow
  <2>3. QED
    BY <1>3, <2>1, <2>2, NoneAssumption DEF AddSessionToCookie
<1>5. row.id = Sum256(id)
  BY DEF NewRow
<1>6. req'[q] = ToResponse(q, {c}) /\ OthersStay(q)
  BY <1>1, <1>2, <1>3 DEF TypeOK, OthersStay
<1>7. Responds(req'[q], q, {c})
  BY <1>1, <1>6, Fields
<1>8. HasOwn(q)' /\ Busy(q)'
  BY <1>1, <1>7 DEF HasOwn, Busy, Responds
<1>9. HasRow(id)' /\ \A other : HasRow(other) => HasRow(other)'
  BY <1>2, <1>5 DEF HasRow
<1>10. Carried(q)' = {id}
  BY <1>4, <1>7 DEF Carried, Responds
<1>11. Learns(q)
  BY <1>1, <1>2, <1>7, <1>8, <1>9, <1>10 DEF Learns, Responds
<1>12. QED
  BY <1>6, <1>8, <1>11 DEF Effects

\* The answer arrives.
LEMMA DeliverEffects ==
    ASSUME BInv, NEW q \in Request, Deliver(q)
    PROVE  Effects(q) /\ HasOwn(q)'
<1>1. req'[q] = Idle /\ OthersStay(q) /\ req[q].pc = "respond" /\ UNCHANGED sessions
  BY DEF Deliver, BInv, CInv, IInv, TypeOK, OthersStay
<1>2. Idle.pc = "idle" /\ Idle.header = {}
  BY DEF Idle
<1>3. Delivers(q)
  BY <1>1, <1>2 DEF Deliver, Delivers, Busy
<1>4. HasOwn(q)'
  BY <1>1, <1>2 DEF HasOwn, Busy
<1>5. QED
  BY <1>1, <1>3, <1>4 DEF Effects

\* Every step is one of these, or does not concern browsers.
LEMMA StepEffects ==
    ASSUME BInv, Orderly, [Next]_vars
    PROVE  \/ UNCHANGED <<sessions, jar, req>>
           \/ \E q \in Request : Effects(q) /\ HasOwn(q)'
<1>1. \A q \in Request : ~Lose(q)
  BY DEF Orderly, Lose
<1>2. CASE Tick \/ (\E user \in User : DeactivateUser(user)) \/ UNCHANGED vars
  BY <1>2 DEF Tick, DeactivateUser, vars
<1>3. ASSUME NEW q \in Request, Middleware(q) \/ Handler(q) \/ Deliver(q)
      PROVE  Effects(q) /\ HasOwn(q)'
  BY <1>3, ReceiveEffects, GetSessionEffects, ExpireEffects, RotateEffects, RotateFailsEffects,
     UpdateEffects, HandlerEffects, InsertEffects, DeliverEffects DEF Middleware, Handler
<1>4. QED
  BY <1>1, <1>2, <1>3 DEF Next

(***************************************************************************)
(* The invariant.                                                          *)
(***************************************************************************)

\* Ids that browsers have or get are in use.
LEMMA HeldIsUsed ==
    ASSUME BInv
    PROVE  /\ \A b \in Browser : jar[b] # None => jar[b].id \in RawSessionID
           /\ \A q \in Request : Carried(q) \subseteq RawSessionID
           /\ \A b \in Browser : \A id : Holds(b, id) => id \notin Fresh
<1>1. /\ \A b \in Browser : jar[b] # None => jar[b] \in Cookie /\ ExpiresWithLogin(jar[b])
      /\ \A q \in Request : \A c \in req[q].header \ {None} : c \in Cookie /\ ExpiresWithLogin(c)
  BY DEF BInv, CInv, IInv, TypeOK, RequestState, RequestRecord, CookieExpiresWithLogin
<1>2. \A c \in Cookie : ExpiresWithLogin(c) => c.id \in RawSessionID /\ c.id \notin Fresh
  BY DEF Cookie, ExpiresWithLogin, Fresh
<1>3. QED
  BY <1>1, <1>2 DEF Carried, Holds

\* A step lets one browser at most hold one more id, which is new.
LEMMA HoldsStep ==
    ASSUME BInv, NEW q \in Request, Effects(q), NEW b \in Browser, NEW id, Holds(b, id)'
    PROVE  Holds(b, id) \/ (id \in Fresh /\ b = req[q].browser)
<1>j. jar \in [Browser -> Cookie \cup {None}] /\ (Busy(q) => req[q].browser \in Browser)
  BY DEF BInv, CInv, IInv, TypeOK, HasOwn
<1>1. CASE jar'[b] # None /\ jar'[b].id = id
  <2>1. CASE jar'[b] = jar[b]
    BY <1>1, <2>1 DEF Holds
  <2>2. CASE jar'[b] # jar[b]
    <3>1. /\ Busy(q) /\ req[q].browser = b
          /\ \E c \in req[q].header : jar'[b] = c
      BY <1>j, <2>2 DEF Effects, Arrives, Continues, Learns, Delivers
    <3>2. id \in Carried(q)
      BY <1>1, <3>1 DEF Carried
    <3>3. QED
      BY <3>1, <3>2 DEF Holds
  <2>3. QED
    BY <2>1, <2>2
<1>2. ASSUME NEW p \in Request, Busy(p)', req'[p].browser = b, id \in Carried(p)'
      PROVE  Holds(b, id) \/ (id \in Fresh /\ b = req[q].browser)
  <2>1. CASE p # q
    <3>1. req'[p] = req[p]
      BY <2>1 DEF Effects, OthersStay
    <3>2. QED
      BY <1>2, <3>1 DEF Holds, Busy, Carried
  <2>2. CASE p = q
    <3>1. CASE Continues(q)
      BY <1>2, <2>2, <3>1 DEF Continues, Holds
    <3>2. CASE Learns(q)
      BY <1>2, <2>2, <3>2 DEF Learns
    <3>3. CASE Arrives(q) \/ Delivers(q)
      BY <1>2, <2>2, <3>3 DEF Arrives, Delivers
    <3>4. QED
      BY <3>1, <3>2, <3>3 DEF Effects
  <2>3. QED
    BY <2>1, <2>2
<1>3. QED
  BY <1>1, <1>2 DEF Holds

\* No two browsers come to share an id.
LEMMA NobodySharesStep ==
    ASSUME BInv, NEW q \in Request, Effects(q)
    PROVE  NobodyShares'
<1>1. ASSUME NEW b \in Browser, NEW c \in Browser, NEW id \in RawSessionID,
             Holds(b, id)', Holds(c, id)'
      PROVE  b = c
  <2>1. Holds(b, id) \/ (id \in Fresh /\ b = req[q].browser)
    BY <1>1, HoldsStep
  <2>2. Holds(c, id) \/ (id \in Fresh /\ c = req[q].browser)
    BY <1>1, HoldsStep
  <2>3. (Holds(b, id) \/ Holds(c, id)) => id \notin Fresh
    BY HeldIsUsed
  <2>4. QED
    BY <2>1, <2>2, <2>3 DEF BInv, NobodyShares
<1>2. QED
  BY <1>1 DEF NobodyShares

\* A browser still has one request at a time.
LEMMA OneEachStep ==
    ASSUME BInv, NEW q \in Request, Effects(q)
    PROVE  OneEach'
<1>1. ASSUME NEW p \in Request, p # q, Busy(p)', Busy(q)'
      PROVE  req'[p].browser # req'[q].browser
  <2>1. req'[p] = req[p] /\ Busy(p)
    BY <1>1 DEF Effects, OthersStay, Busy
  <2>2. CASE Arrives(q)
    BY <2>1, <2>2 DEF Arrives
  <2>3. CASE Continues(q) \/ Learns(q)
    BY <1>1, <2>1, <2>3 DEF Continues, Learns, BInv, OneEach
  <2>4. QED
    BY <1>1, <2>2, <2>3 DEF Effects, Delivers
<1>2. ASSUME NEW p \in Request, NEW r \in Request, p # q, r # q, Busy(p)', Busy(r)',
             req'[p].browser = req'[r].browser
      PROVE  p = r
  BY <1>2 DEF Effects, OthersStay, Busy, BInv, OneEach
<1>3. QED
  BY <1>1, <1>2 DEF OneEach

\* The other requests keep their browser's session in hand.
LEMMA OthersHaveOwn ==
    ASSUME BInv, NEW q \in Request, Effects(q), NEW p \in Request, p # q
    PROVE  HasOwn(p)' /\ (Busy(p) => jar'[req[p].browser] = jar[req[p].browser])
<1>1. req'[p] = req[p] /\ HasOwn(p) /\ jar \in [Browser -> Cookie \cup {None}]
  BY DEF Effects, OthersStay, BInv, CInv, IInv, TypeOK
<1>2. ASSUME Busy(p)
      PROVE  jar'[req[p].browser] = jar[req[p].browser]
  <2>1. CASE UNCHANGED jar
    BY <2>1
  <2>2. CASE Delivers(q)
    <3>1. req[p].browser # req[q].browser /\ req[p].browser \in Browser
      BY <1>1, <1>2, <2>2 DEF Delivers, BInv, OneEach, HasOwn
    <3>2. QED
      BY <1>1, <2>2, <3>1 DEF Delivers
  <2>3. QED
    BY <2>1, <2>2 DEF Effects, Arrives, Continues, Learns
<1>3. CASE Busy(p)
  BY <1>1, <1>2, <1>3 DEF HasOwn, Busy
<1>4. CASE ~Busy(p)
  BY <1>1, <1>4 DEF HasOwn, Busy
<1>5. QED
  BY <1>2, <1>3, <1>4

\* A row that a rotation takes away was found by the id of the browser that
\* rotates it, and of no other.
LEMMA RowLost ==
    ASSUME BInv, NEW q \in Request, Effects(q), NEW b \in Browser,
           NEW id \in RawSessionID, Holds(b, id), HasRow(id), ~HasRow(id)'
    PROVE  Learns(q) /\ b = req[q].browser /\ req[q].header = {}
<1>1. Learns(q) /\ req[q].pc = "rotate" /\ req[q].cur.id = Sum256(id)
  BY DEF Effects, Arrives, Continues, Learns, Delivers, HasRow
<1>2. /\ req[q].browser \in Browser /\ jar[req[q].browser] # None /\ req[q].header = {}
      /\ req[q].cur.id = Sum256(jar[req[q].browser].id)
  BY <1>1 DEF BInv, HasOwn, Busy
<1>i. jar[req[q].browser].id = id
  BY <1>1, <1>2 DEF Sum256
<1>3. Holds(req[q].browser, id)
  BY <1>2, <1>i DEF Holds
<1>4. QED
  BY <1>1, <1>2, <1>3 DEF BInv, NobodyShares

\* What browsers hold has a row, or is about to be replaced.
LEMMA StoredStep ==
    ASSUME BInv, NEW q \in Request, Effects(q), HasOwn(q)'
    PROVE  Stored'
<1>j. jar \in [Browser -> Cookie \cup {None}] /\ (Busy(q) => req[q].browser \in Browser)
  BY DEF BInv, CInv, IInv, TypeOK, HasOwn
<1>1. ASSUME NEW b \in Browser, NEW c, c = jar'[b], c # None
      PROVE  \/ HasRow(c.id)'
             \/ \E p \in Request : Busy(p)' /\ req'[p].browser = b /\ req'[p].header # {}
  <2>1. CASE jar[b] # c
    <3>1. Delivers(q) /\ c \in req[q].header
      BY <1>j, <1>1, <2>1 DEF Effects, Arrives, Continues, Learns, Delivers
    <3>2. c.id \in Carried(q) /\ UNCHANGED sessions
      BY <1>1, <3>1 DEF Carried, Delivers
    <3>3. HasRow(c.id)
      BY <3>2 DEF BInv, Stored
    <3>4. QED
      BY <3>2, <3>3 DEF HasRow
  <2>2. CASE jar[b] = c /\ HasRow(c.id) /\ ~HasRow(c.id)'
    <3>1. Holds(b, c.id) /\ c.id \in RawSessionID
      BY <1>1, <2>2, HeldIsUsed DEF Holds
    <3>2. Learns(q) /\ b = req[q].browser
      BY <2>2, <3>1, RowLost
    <3>3. QED
      BY <3>2 DEF Learns
  <2>3. CASE jar[b] = c /\ ~HasRow(c.id)
    <3>1. PICK p \in Request : Busy(p) /\ req[p].browser = b /\ req[p].header # {}
      BY <1>1, <2>3 DEF BInv, Stored
    <3>2. CASE p # q
      <4>1. req'[p] = req[p]
        BY <3>2 DEF Effects, OthersStay
      <4>2. QED
        BY <3>1, <4>1 DEF Busy
    <3>3. CASE p = q /\ (Continues(q) \/ Learns(q))
      BY <3>1, <3>3 DEF Continues, Learns
    <3>4. CASE p = q /\ Delivers(q)
      <4>1. c \in req[q].header
        BY <1>1, <1>j, <3>1, <3>4 DEF Delivers
      <4>2. c.id \in Carried(q)
        BY <1>1, <4>1 DEF Carried
      <4>3. QED
        BY <2>3, <4>2 DEF BInv, Stored
    <3>5. QED
      BY <3>1, <3>2, <3>3, <3>4 DEF Effects, Arrives
  <2>4. QED
    BY <2>1, <2>2, <2>3
<1>2. ASSUME NEW p \in Request, NEW id \in Carried(p)'
      PROVE  HasRow(id)'
  <2>1. CASE p = q
    <3>1. CASE Continues(q)
      <4>1. id \in Carried(q) /\ id \in RawSessionID
        BY <1>2, <2>1, <3>1, HeldIsUsed DEF Continues
      <4>2. QED
        BY <3>1, <4>1 DEF Continues, BInv, Stored
    <3>2. CASE Learns(q)
      BY <1>2, <2>1, <3>2 DEF Learns
    <3>3. CASE Arrives(q) \/ Delivers(q)
      BY <1>2, <2>1, <3>3 DEF Arrives, Delivers, Carried
    <3>4. QED
      BY <3>1, <3>2, <3>3 DEF Effects
  <2>2. CASE p # q
    <3>1. req'[p] = req[p] /\ id \in Carried(p) /\ id \in RawSessionID
      BY <1>2, <2>2, HeldIsUsed DEF Effects, OthersStay, Carried
    <3>2. Busy(p) /\ req[p].browser \in Browser /\ HasRow(id)
      BY <3>1 DEF BInv, HasOwn, Carried, Stored
    <3>3. Holds(req[p].browser, id)
      BY <3>1, <3>2 DEF Holds
    <3>4. Learns(q) => req[p].browser # req[q].browser
      BY <2>2, <3>2 DEF Learns, BInv, OneEach
    <3>5. QED
      BY <3>1, <3>2, <3>3, <3>4, RowLost
  <2>3. QED
    BY <2>1, <2>2
<1>3. QED
  BY <1>1, <1>2 DEF Stored, HasRow

\* The invariant holds at first ...
LEMMA InitBInv == Init => BInv
<1> SUFFICES ASSUME Init
             PROVE  BInv
  OBVIOUS
<1>1. \A q \in Request : req[q].pc = "idle" /\ req[q].header = {}
  BY DEF Init, Idle
<1>2. \A b \in Browser : jar[b] = None
  BY DEF Init
<1>3. CInv
  BY <1>1, <1>2, InitIInv DEF CInv, CookieExpiresWithLogin
<1>4. QED
  BY <1>1, <1>2, <1>3 DEF BInv, OneEach, NobodyShares, Stored, HasOwn, Holds, Busy, Carried

\* ... and every step keeps it.
LEMMA NextBInv ==
    ASSUME Orderly, BInv, [Next]_vars
    PROVE  BInv'
<1>1. CInv'
  BY NextIInv, JarStep, HeaderStep DEF BInv, CInv, CookieExpiresWithLogin
<1>2. CASE UNCHANGED <<sessions, jar, req>>
  BY <1>1, <1>2 DEF BInv, OneEach, NobodyShares, Stored, HasOwn, Holds, Busy, Carried, HasRow
<1>3. ASSUME NEW q \in Request, Effects(q), HasOwn(q)'
      PROVE  BInv'
  <2>1. \A p \in Request : HasOwn(p)'
    BY <1>3, OthersHaveOwn
  <2>2. QED
    BY <1>1, <1>3, <2>1, NobodySharesStep, OneEachStep, StoredStep DEF BInv
<1>4. QED
  BY <1>2, <1>3, StepEffects

\* If a browser waits for its answers, no answer is lost and no query commits
\* unnoticed, a browser at rest holds the id its session has now: a rotation
\* has replaced it in the table and in the browser, whatever fails.
THEOREM CookieIsCurrentTheorem ==
    ASSUME Orderly
    PROVE  Spec => []CookieIsCurrent
<1>1. BInv /\ [Next]_vars => BInv'
  BY NextBInv
<1>2. BInv => CookieIsCurrent
  BY DEF BInv, Stored, CookieIsCurrent, Outstanding, Busy, HasRow
<1>3. QED
  BY <1>1, <1>2, InitBInv, PTL DEF Spec

(***************************************************************************)
(* Cleared cookies.  A failed revocation after a password change clears    *)
(* the cookie of a session that goes on: it must not fail, if there are    *)
(* password changes.                                                       *)
(***************************************************************************)
RevokesSurely == "password_change" \in Routes => "failed" \notin Faults

\* What a request means for the cookie c that its browser has: it is cleared
\* only when it is over, and the request acts for its user.
Ends(q, c) ==
    /\ req[q].pc = "expire" \/ None \in req[q].header => ~Usable(c.id)
    /\ req[q].pc \in {"expire", "rotate", "touch"} =>
          req[q].cur.user_id = origin[c.id].user_id
    /\ req[q].pc \in {"handle", "revoke"} /\ req[q].route = "password_change"
          /\ req[q].user # None => req[q].user = origin[c.id].user_id

EndsOwn(q) ==
    /\ req[q].route = "password_change" => "password_change" \in Routes
    /\ \A c \in Cookie : Busy(q) /\ jar[req[q].browser] = c => Ends(q, c)

OInv == BInv /\ \A q \in Request : EndsOwn(q)

\* A row has the user its id descends from, and no id has two rows.
LEMMA RowOf ==
    ASSUME IInv, NEW id, NEW s \in sessions, s.id = Sum256(id)
    PROVE  /\ s.user_id = origin[id].user_id
           /\ \A t \in sessions : t.id = Sum256(id) => t = s
BY DEF IInv, RowsKeepOrigin, OneRowPerLogin, OriginOf, Sum256

\* An active row with an id that was in use was there before, unless it was
\* touched.
LEMMA ActiveBefore ==
    ASSUME IInv, [Next]_vars, NEW id \in RawSessionID, id \notin Fresh,
           \A q \in Request : UpdateLastSeen(q) => req[q].cur.id # Sum256(id),
           NEW s \in sessions', s.id = Sum256(id), s.is_active
    PROVE  s \in sessions
<1> DEFINE off(t) == [t EXCEPT !.is_active = FALSE]
           seen(t) == [t EXCEPT !.last_seen_at = now]
<1>1. \A t \in sessions : t \in SessionRow /\ off(t).is_active = FALSE /\ seen(t).id = t.id
  BY DEF IInv, TypeOK, SessionRow, Row
<1>2. ASSUME NEW hit \in SUBSET sessions, sessions' = Deactivated(sessions, hit)
      PROVE  s \in sessions
  <2>1. sessions' = (sessions \ hit) \cup {off(t) : t \in hit}
    BY <1>2 DEF Deactivated
  <2> HIDE DEF off
  <2>2. QED
    BY <1>1, <2>1
<1>3. ASSUME NEW q \in Request, ExpireSession(q) \/ Revoke(q) \/ Evict(q)
      PROVE  s \in sessions
  <2> DEFINE own == {t \in sessions : t.id = req[q].cur.id /\ t.is_active}
             active == ActiveSessionsOf(sessions, req[q].user)
             chosen == {t \in sessions : t.id \in req[q].victim}
  <2>1. /\ own \in SUBSET sessions /\ active \in SUBSET sessions /\ chosen \in SUBSET sessions
        /\ \/ sessions' = sessions
           \/ \E hit \in {own, active, chosen} : sessions' = Deactivated(sessions, hit)
    BY <1>3 DEF ActiveSessionsOf, ExpireSession, Revoke, Evict, DeactivateSession,
                DeactivateAllSessionsForUser, DeactivateSelected
  <2> HIDE DEF own, active, chosen
  <2>2. QED
    BY <1>2, <2>1
<1>4. ASSUME NEW q \in Request, UpdateLastSeen(q)
      PROVE  s \in sessions
  <2> DEFINE hit == ActiveWithID(sessions, req[q].cur.id)
  <2>1. \/ sessions' = sessions
        \/ sessions' = (sessions \ hit) \cup {seen(t) : t \in hit}
    BY <1>4 DEF UpdateLastSeen, UpdateSessionLastSeenToNow
  <2>2. hit \subseteq sessions /\ \A t \in hit : t.id # Sum256(id)
    BY <1>4 DEF ActiveWithID
  <2> HIDE DEF hit, seen
  <2>3. QED
    BY <1>1, <2>1, <2>2
<1>5. ASSUME NEW q \in Request, Rotate(q)
      PROVE  s \in sessions
  <2> DEFINE hit == ActiveWithID(sessions, req[q].cur.id)
  <2>1. PICK new \in Fresh :
           sessions' = (sessions \ hit) \cup {Rotated(t, Sum256(new), now) : t \in hit}
    BY <1>5 DEF Rotate, UpdateSessionIDAndRefreshedAt
  <2>2. \A t \in hit : t \in sessions /\ Rotated(t, Sum256(new), now).id = Sum256(new)
    BY <1>1 DEF ActiveWithID, Rotated, SessionRow, Row
  <2>3. Sum256(new) # Sum256(id)
    BY <2>1 DEF Sum256
  <2> HIDE DEF hit
  <2>4. QED
    BY <2>1, <2>2, <2>3
<1>6. ASSUME NEW q \in Request, InsertSession(q)
      PROVE  s \in sessions
  <2>1. PICK new \in Fresh : sessions' = sessions \cup {NewRow(Sum256(new), req[q].user, now)}
    BY <1>6 DEF InsertSession
  <2>2. NewRow(Sum256(new), req[q].user, now).id # Sum256(id)
    BY <2>1 DEF NewRow, Sum256
  <2>3. QED
    BY <2>1, <2>2
<1>7. CASE UNCHANGED sessions
  BY <1>7
<1>8. QED
  BY <1>3, <1>4, <1>5, <1>6, <1>7
     DEF Next, Middleware, Handler, Receive, GetSession, RotateFails, Answer, LogIn,
         ResetPassword, CountSessions, PickVictim, InsertFails, Deliver, Lose, Tick,
         DeactivateUser, vars

\* The clock runs forward, and users are only deactivated.
LEMMA TimePasses ==
    ASSUME TypeOK, [Next]_vars
    PROVE  now \in Nat /\ now' \in Nat /\ now <= now' /\ activeUsers' \subseteq activeUsers
<1>1. now \in Nat
  BY DEF TypeOK
<1>2. CASE Tick
  BY <1>1, <1>2 DEF Tick
<1>3. CASE UNCHANGED now
  <2>1. activeUsers' \subseteq activeUsers
    BY <1>3 DEF Next, Middleware, Handler, Receive, GetSession, ExpireSession, Rotate,
       RotateFails, UpdateLastSeen, Answer, LogIn, ResetPassword, Revoke, CountSessions,
       PickVictim, Evict, InsertSession, InsertFails, Deliver, Lose, Tick, DeactivateUser, vars
  <2>2. QED
    BY <1>1, <1>3, <2>1
<1>4. QED
  BY <1>2, <1>3 DEF Next, Middleware, Handler, Receive, GetSession, ExpireSession, Rotate,
     RotateFails, UpdateLastSeen, Answer, LogIn, ResetPassword, Revoke, CountSessions,
     PickVictim, Evict, InsertSession, InsertFails, Deliver, Lose, DeactivateUser, vars

\* What can no longer be used stays so, unless it is touched.
LEMMA UnusableStays ==
    ASSUME IInv, [Next]_vars, NEW id \in RawSessionID, id \notin Fresh, ~Usable(id),
           \A q \in Request : UpdateLastSeen(q) => req[q].cur.id # Sum256(id)
    PROVE  ~Usable(id)'
<1> SUFFICES ASSUME Usable(id)'
             PROVE  FALSE
  OBVIOUS
<1>1. PICK s \in sessions' :
         /\ s.id = Sum256(id) /\ s.is_active /\ s.user_id \in activeUsers'
         /\ ~IsExpired(s, now')
  BY DEF Usable, GetActiveSession
<1>2. s \in sessions /\ s \in SessionRow
  BY <1>1, ActiveBefore DEF IInv, TypeOK
<1>3. now \in Nat /\ now' \in Nat /\ now <= now' /\ s.user_id \in activeUsers
  BY <1>1, TimePasses DEF IInv
<1>4. s.created_at \in Nat /\ s.last_seen_at \in Nat
  BY <1>2 DEF SessionRow, Row
<1>5. ~IsExpired(s, now)
  BY <1>1, <1>3, <1>4, StoreAssumption DEF IsExpired, GetAbsoluteExpiration
<1>6. QED
  BY <1>1, <1>2, <1>3, <1>5 DEF Usable, GetActiveSession

\* The session of a cookie that is about to be cleared is touched by nobody:
\* the browser's one request is past that.
LEMMA Untouched ==
    ASSUME BInv, NEW q \in Request, Busy(q), NEW c \in Cookie, jar[req[q].browser] = c,
           req[q].pc = "expire" \/ None \in req[q].header
    PROVE  \A p \in Request : UpdateLastSeen(p) => req[p].cur.id # Sum256(c.id)
<1> SUFFICES ASSUME NEW p \in Request, UpdateLastSeen(p), req[p].cur.id = Sum256(c.id)
             PROVE  FALSE
  OBVIOUS
<1>1. c.id \in RawSessionID /\ c # None /\ req[q].browser \in Browser
  BY NoneAssumption DEF Cookie, BInv, HasOwn
<1>2. req[p].cur.id \notin RawSessionID
  BY <1>1, HashAssumption DEF Sum256, IDHash
<1>3. /\ req[p].pc = "touch" /\ Busy(p) /\ req[p].browser \in Browser
      /\ jar[req[p].browser] # None /\ req[p].header = {}
      /\ Sum256(c.id) = Sum256(jar[req[p].browser].id)
  BY <1>2 DEF UpdateLastSeen, Busy, BInv, HasOwn
<1>4. Holds(req[p].browser, c.id) /\ Holds(req[q].browser, c.id)
  BY <1>1, <1>3 DEF Holds, Sum256
<1>5. p = q
  BY <1>1, <1>3, <1>4 DEF BInv, NobodyShares, OneEach
<1>6. QED
  BY <1>3, <1>5

\* A session that is over when its cookie is about to be cleared stays over,
\* and keeps its user.
LEMMA OverStays ==
    ASSUME OInv, [Next]_vars, NEW q \in Request, Busy(q), NEW c \in Cookie,
           jar[req[q].browser] = c
    PROVE  /\ req[q].pc = "expire" \/ None \in req[q].header => ~Usable(c.id)'
           /\ origin'[c.id] = origin[c.id]
<1>1. c.id \in RawSessionID /\ c # None /\ req[q].browser \in Browser /\ IInv
  BY NoneAssumption DEF Cookie, OInv, BInv, CInv, HasOwn
<1>2. c.id \notin Fresh
  BY <1>1, HeldIsUsed DEF OInv, Holds
<1>3. origin'[c.id] = origin[c.id]
  BY <1>1, <1>2, OriginsStay DEF Fresh
<1>4. ASSUME req[q].pc = "expire" \/ None \in req[q].header
      PROVE  ~Usable(c.id)'
  <2>1. ~Usable(c.id)
    BY <1>4 DEF OInv, EndsOwn, Ends
  <2>2. \A p \in Request : UpdateLastSeen(p) => req[p].cur.id # Sum256(c.id)
    BY <1>4, Untouched DEF OInv
  <2>3. QED
    BY <1>1, <1>2, <2>1, <2>2, UnusableStays
<1>5. QED
  BY <1>3, <1>4

\* A request that does not move.
LEMMA EndsStay ==
    ASSUME OInv, [Next]_vars, NEW q \in Request, req'[q] = req[q],
           Busy(q) => jar'[req[q].browser] = jar[req[q].browser]
    PROVE  EndsOwn(q)'
<1>1. req[q].route = "password_change" => "password_change" \in Routes
  BY DEF OInv, EndsOwn
<1>2. ASSUME NEW c \in Cookie, Busy(q), jar[req[q].browser] = c
      PROVE  Ends(q, c)'
  <2>1. Ends(q, c)
    BY <1>2 DEF OInv, EndsOwn
  <2>2. QED
    BY <1>2, <2>1, OverStays DEF Ends
<1>3. QED
  BY <1>1, <1>2 DEF EndsOwn, Busy

\* A request that moves: what is new has to be shown.
LEMMA EndsMove ==
    ASSUME OInv, [Next]_vars, NEW q \in Request, Busy(q), UNCHANGED jar,
           NEW r, req'[q] = r, r.browser = req[q].browser,
           r.route \in {req[q].route, "other"},
           \A c \in Cookie : jar[r.browser] = c =>
              /\ r.pc = "expire" \/ None \in r.header =>
                    req[q].pc = "expire" \/ None \in req[q].header \/ ~Usable(c.id)'
              /\ r.pc \in {"expire", "rotate", "touch"} =>
                    r.cur.user_id = origin[c.id].user_id
              /\ r.pc \in {"handle", "revoke"} /\ r.route = "password_change"
                    /\ r.user # None => r.user = origin[c.id].user_id
    PROVE  EndsOwn(q)'
<1>1. r.route = "password_change" => "password_change" \in Routes
  BY DEF OInv, EndsOwn
<1>2. ASSUME NEW c \in Cookie, jar[r.browser] = c
      PROVE  Ends(q, c)'
  BY <1>2, OverStays DEF Ends
<1>3. QED
  BY <1>1, <1>2 DEF EndsOwn, Busy

\* A request arrives, for nobody yet.
LEMMA ReceiveEnds ==
    ASSUME NEW q \in Request, NEW b \in Browser, NEW route \in Routes, TypeOK,
           Receive(q, b, route)
    PROVE  EndsOwn(q)'
<1> DEFINE new == [Idle EXCEPT !.browser = b, !.route = route]
<1>1. PICK r : /\ req' = [req EXCEPT ![q] = r]
               /\ \/ r = [new EXCEPT !.pc = "lookup", !.cookie = Sends(b)]
                  \/ r = [new EXCEPT !.pc = "handle"]
                  \/ jar[b] = None /\ r = [new EXCEPT !.pc = "handle", !.header = {None}]
  BY DEF Receive
<1>2. /\ req'[q] = r /\ UNCHANGED jar
      /\ r.pc \in {"lookup", "handle"} /\ r.browser = b /\ r.route = route /\ r.user = None
      /\ jar[b] = None \/ r.header = {}
  BY <1>1 DEF Receive, Idle, TypeOK
<1>3. ASSUME NEW c \in Cookie, jar[b] = c
      PROVE  Ends(q, c)'
  BY <1>2, <1>3, NoneAssumption DEF Ends
<1>4. QED
  BY <1>2, <1>3 DEF EndsOwn

\* The look-up: a session that is expired, or is not found, is over.
LEMMA GetSessionEnds ==
    ASSUME OInv, [Next]_vars, NEW q \in Request, GetSession(q)
    PROVE  EndsOwn(q)'
<1>1. /\ req[q].pc = "lookup" /\ UNCHANGED <<sessions, jar, now, activeUsers>> /\ TypeOK
      /\ IInv /\ HasOwn(q) /\ Busy(q) /\ req[q].header = {}
      /\ req[q].cookie = jar[req[q].browser].id
  BY DEF GetSession, OInv, BInv, CInv, IInv, HasOwn, Busy
<1> DEFINE found == GetActiveSession(sessions, activeUsers, Sum256(req[q].cookie))
<1>2. ASSUME NEW s \in found, req' = [req EXCEPT ![q] = WithSession(q, s)]
      PROVE  EndsOwn(q)'
  <2>1. PICK r : r = WithSession(q, s)
    OBVIOUS
  <2>2. req'[q] = r
    BY <1>1, <1>2, <2>1 DEF TypeOK
  <2>3. Holding(r, q, s) \/ Touches(r, q, s, {})
    BY <1>1, <2>1, Found
  <2>4. s \in sessions /\ s.id = Sum256(req[q].cookie)
    BY <1>2 DEF GetActiveSession
  <2>5. ASSUME NEW c \in Cookie, jar[req[q].browser] = c
        PROVE  /\ s.user_id = origin[c.id].user_id
               /\ IsExpired(s, now) => ~Usable(c.id)'
    <3>1. /\ s.user_id = origin[c.id].user_id
          /\ \A t \in sessions : t.id = Sum256(c.id) => t = s
      BY <1>1, <2>4, <2>5, RowOf
    <3>2. IsExpired(s, now) => ~Usable(c.id)
      BY <3>1 DEF Usable, GetActiveSession
    <3>3. Usable(c.id)' => Usable(c.id)
      BY <1>1 DEF Usable
    <3>4. QED
      BY <3>1, <3>2, <3>3
  <2>6. QED
    BY <1>1, <2>2, <2>3, <2>5, EndsMove DEF Holding, Touches, Handles
<1>3. ASSUME NEW header \in {{}, {None}}, req' = [req EXCEPT ![q] = ToHandler(q, None, header)],
             found = {} \/ header = {}
      PROVE  EndsOwn(q)'
  <2>1. PICK r : r = ToHandler(q, None, header)
    OBVIOUS
  <2>2. Handles(r, q, None, header) /\ req'[q] = r
    BY <1>1, <1>3, <2>1, Fields DEF TypeOK
  <2>3. ASSUME NEW c \in Cookie, jar[req[q].browser] = c, header # {}
        PROVE  ~Usable(c.id)'
    <3>1. ~Usable(c.id)
      BY <1>1, <1>3, <2>3 DEF Usable
    <3>2. QED
      BY <1>1, <3>1 DEF Usable
  <2>4. QED
    BY <1>1, <2>2, <2>3, EndsMove DEF Handles
<1>4. QED
  BY <1>2, <1>3 DEF GetSession

\* Expiry clears the cookie of a session that was found to be over; a touch
\* changes hands only.
LEMMA WritesEnd ==
    ASSUME OInv, [Next]_vars, NEW q \in Request, ExpireSession(q) \/ UpdateLastSeen(q)
    PROVE  EndsOwn(q)'
<1>1. TypeOK /\ UNCHANGED jar
  BY DEF ExpireSession, UpdateLastSeen, OInv, BInv, CInv, IInv
<1>2. PICK user, header :
         /\ req' = [req EXCEPT ![q] = ToHandler(q, user, header)]
         /\ \/ req[q].pc = "expire" /\ user = None
            \/ req[q].pc = "touch" /\ user = req[q].cur.user_id /\ header = req[q].header
  BY DEF ExpireSession, UpdateLastSeen
<1>3. PICK r : r = ToHandler(q, user, header)
  OBVIOUS
<1>4. Handles(r, q, user, header) /\ req'[q] = r
  BY <1>1, <1>2, <1>3, Fields DEF TypeOK
<1>5. Busy(q) /\ \A c \in Cookie : jar[req[q].browser] = c => Ends(q, c)
  BY <1>2 DEF OInv, EndsOwn, Busy
<1>6. QED
  BY <1>1, <1>2, <1>4, <1>5, EndsMove DEF Handles, Ends

\* The session in hand after a rotation has the user it had.
LEMMA RotateEnds ==
    ASSUME OInv, Orderly, [Next]_vars, NEW q \in Request, Rotate(q) \/ RotateFails(q)
    PROVE  EndsOwn(q)'
<1>1. /\ req[q].pc = "rotate" /\ UNCHANGED jar /\ TypeOK /\ IInv /\ Busy(q)
      /\ req[q].cur.id = Sum256(jar[req[q].browser].id)
  BY DEF Rotate, RotateFails, OInv, BInv, CInv, IInv, HasOwn, Busy
<1>2. ASSUME NEW s, NEW header, req' = [req EXCEPT ![q] = ToTouch(q, s, header)],
             None \notin header,
             \A c \in Cookie : jar[req[q].browser] = c => s.user_id = origin[c.id].user_id
      PROVE  EndsOwn(q)'
  <2>1. PICK r : r = ToTouch(q, s, header)
    OBVIOUS
  <2>2. Touches(r, q, s, header) /\ req'[q] = r
    BY <1>1, <1>2, <2>1, Fields DEF TypeOK
  <2>3. QED
    BY <1>1, <1>2, <2>2, EndsMove DEF Touches, Handles
<1>3. CASE Rotate(q)
  <2>1. PICK id \in Fresh, s \in ActiveWithID(sessions, req[q].cur.id) :
           req' = [req EXCEPT ![q] =
                ToTouch(q, Rotated(s, id, now),
                        {AddSessionToCookie(id, GetAbsoluteExpiration(s))})]
    BY <1>3 DEF Rotate, Orderly, Committed, Outcome
  <2>2. s \in sessions /\ s.id = req[q].cur.id /\ s \in SessionRow /\ id \in RawSessionID
    BY <1>1, <2>1 DEF ActiveWithID, TypeOK, Fresh
  <2>3. Rotated(s, id, now).user_id = s.user_id
    BY <2>2 DEF Rotated, SessionRow, Row
  <2>4. AddSessionToCookie(id, GetAbsoluteExpiration(s)) # None
    <3>1. AddSessionToCookie(id, GetAbsoluteExpiration(s)) \in Cookie
      BY <2>2, StoreAssumption
         DEF AddSessionToCookie, GetAbsoluteExpiration, Cookie, SessionRow, Row
    <3>2. QED
      BY <3>1, NoneAssumption
  <2>5. \A c \in Cookie : jar[req[q].browser] = c => s.user_id = origin[c.id].user_id
    BY <1>1, <2>2, RowOf
  <2>6. QED
    BY <1>2, <2>1, <2>3, <2>4, <2>5
<1>4. CASE RotateFails(q)
  <2>1. \A c \in Cookie : jar[req[q].browser] = c => Ends(q, c)
    BY <1>1 DEF OInv, EndsOwn
  <2>2. \A c \in Cookie : jar[req[q].browser] = c =>
           req[q].cur.user_id = origin[c.id].user_id
    BY <1>1, <2>1 DEF Ends
  <2>3. req' = [req EXCEPT ![q] = ToTouch(q, req[q].cur, {})]
    BY <1>4 DEF RotateFails
  <2>4. QED
    BY <1>2, <2>2, <2>3
<1>5. QED
  BY <1>3, <1>4

\* No session of a user is left when all are deactivated.
LEMMA RevokedIsOver ==
    ASSUME IInv, NEW user, sessions' = DeactivateAllSessionsForUser(sessions, user),
           NEW id, origin[id].user_id = user
    PROVE  ~Usable(id)'
<1> DEFINE off(t) == [t EXCEPT !.is_active = FALSE]
           hit == ActiveSessionsOf(sessions, user)
<1>1. sessions' = (sessions \ hit) \cup {off(t) : t \in hit}
  BY DEF DeactivateAllSessionsForUser, Deactivated
<1>2. \A t \in hit : ~off(t).is_active
  BY DEF IInv, TypeOK, SessionRow, Row, ActiveSessionsOf
<1>3. \A t \in sessions : t.id = Sum256(id) /\ t.is_active => t \in hit
  BY RowOf DEF ActiveSessionsOf
<1> HIDE DEF off, hit
<1>4. ~ \E t \in sessions' : t.id = Sum256(id) /\ t.is_active
  BY <1>1, <1>2, <1>3
<1>5. QED
  BY <1>4 DEF Usable, GetActiveSession

\* The password is changed: the user's sessions are over, the cookie's among
\* them.
LEMMA RevokeEnds ==
    ASSUME OInv, RevokesSurely, Orderly, [Next]_vars, NEW q \in Request, Revoke(q)
    PROVE  EndsOwn(q)'
<1>1. /\ req[q].pc = "revoke" /\ UNCHANGED jar /\ TypeOK /\ IInv /\ Busy(q)
      /\ req[q].user # None
  BY NoneAssumption
     DEF Revoke, OInv, BInv, CInv, IInv, TypeOK, RequestState, RequestRecord, Busy
<1>2. PICK header :
         /\ req' = [req EXCEPT ![q] = ToResponse(q, header)]
         /\ \/ req[q].route = "password_change"
            \/ header = req[q].header
  BY DEF Revoke
<1>3. PICK r : r = ToResponse(q, header)
  OBVIOUS
<1>4. Responds(r, q, header) /\ r.route = "other" /\ req'[q] = r
  BY <1>1, <1>2, <1>3, Fields DEF TypeOK, ToResponse, Idle
<1>5. ASSUME NEW c \in Cookie, jar[req[q].browser] = c, req[q].route = "password_change"
      PROVE  ~Usable(c.id)'
  <2>1. "failed" \notin Faults
    BY <1>5 DEF RevokesSurely, OInv, EndsOwn
  <2>2. sessions' = DeactivateAllSessionsForUser(sessions, req[q].user)
    BY <2>1 DEF Revoke, Outcome
  <2>3. req[q].user = origin[c.id].user_id
    BY <1>1, <1>5 DEF OInv, EndsOwn, Ends
  <2>4. QED
    BY <1>1, <2>2, <2>3, RevokedIsOver
<1>6. QED
  BY <1>1, <1>2, <1>4, <1>5, EndsMove DEF Responds

\* The other steps of the handlers clear no cookie.
LEMMA HandlerEnds ==
    ASSUME OInv, Orderly, [Next]_vars, NEW q \in Request,
           \/ Answer(q) \/ LogIn(q) \/ ResetPassword(q) \/ CountSessions(q)
           \/ PickVictim(q) \/ Evict(q) \/ InsertSession(q) \/ InsertFails(q)
    PROVE  EndsOwn(q)'
<1>1. /\ TypeOK /\ UNCHANGED jar /\ req[q] \in RequestRecord /\ Busy(q)
  BY DEF OInv, BInv, CInv, IInv, TypeOK, RequestState, Busy, Answer, LogIn, ResetPassword,
         CountSessions, PickVictim, Evict, InsertSession, InsertFails
<1>2. ASSUME NEW header, req' = [req EXCEPT ![q] = ToResponse(q, header)],
             header = req[q].header \/ None \notin header
      PROVE  EndsOwn(q)'
  <2>1. PICK r : r = ToResponse(q, header)
    OBVIOUS
  <2>2. Responds(r, q, header) /\ r.route = "other" /\ req'[q] = r
    BY <1>1, <1>2, <2>1, Fields DEF TypeOK, ToResponse, Idle
  <2>3. QED
    BY <1>1, <1>2, <2>2, EndsMove DEF Responds
<1>3. ASSUME NEW r, req' = [req EXCEPT ![q] = r], r.browser = req[q].browser,
             r.header = req[q].header, r.route = req[q].route,
             \/ r.pc \in {"count", "pick", "evict", "insert"}
             \/ /\ r.pc = "revoke" /\ req[q].pc = "handle"
                /\ r.route = "password_change" => r.user = req[q].user
      PROVE  EndsOwn(q)'
  <2>1. req'[q] = r
    BY <1>1, <1>3 DEF TypeOK
  <2>2. \A c \in Cookie : jar[req[q].browser] = c => Ends(q, c)
    BY <1>1 DEF OInv, EndsOwn
  <2>3. QED
    BY <1>1, <1>3, <2>1, <2>2, EndsMove DEF Ends
<1>4. CASE Answer(q) \/ InsertFails(q)
  BY <1>2, <1>4 DEF Answer, InsertFails
<1>5. CASE InsertSession(q)
  <2>1. PICK id \in Fresh :
           LET row == NewRow(Sum256(id), req[q].user, now)
           IN  req' = [req EXCEPT ![q] =
                  ToResponse(q, {AddSessionToCookie(id, GetAbsoluteExpiration(row))})]
    BY <1>5 DEF InsertSession, Orderly, Committed, Outcome
  <2> DEFINE row == NewRow(Sum256(id), req[q].user, now)
  <2>2. AddSessionToCookie(id, GetAbsoluteExpiration(row)) # None
    <3>1. id \in RawSessionID /\ now \in Nat
      BY <1>1, <2>1 DEF Fresh, TypeOK
    <3>2. AddSessionToCookie(id, GetAbsoluteExpiration(row)) \in Cookie
      BY <3>1, StoreAssumption DEF AddSessionToCookie, GetAbsoluteExpiration, Cookie, NewRow
    <3>3. QED
      BY <3>2, NoneAssumption
  <2>3. QED
    BY <1>2, <2>1, <2>2
<1>6. CASE LogIn(q)
  <2>1. PICK user : req' = [req EXCEPT ![q] = [req[q] EXCEPT !.pc = "count", !.user = user]]
    BY <1>1, <1>6 DEF LogIn, TypeOK
  <2>2. QED
    BY <1>1, <1>3, <2>1 DEF RequestRecord
<1>7. CASE ResetPassword(q)
  <2>1. /\ req[q].pc = "handle"
        /\ \/ req' = [req EXCEPT ![q] = [req[q] EXCEPT !.pc = "revoke"]]
           \/ /\ req[q].route = "token_reset"
              /\ \E user : req' = [req EXCEPT ![q] =
                                      [req[q] EXCEPT !.pc = "revoke", !.user = user]]
    BY <1>1, <1>7 DEF ResetPassword, TypeOK
  <2>2. QED
    BY <1>1, <1>3, <2>1 DEF RequestRecord
<1>8. CASE CountSessions(q)
  <2>1. \/ \E pc \in {"pick", "insert"} : req' = [req EXCEPT ![q] = [req[q] EXCEPT !.pc = pc]]
        \/ req' = [req EXCEPT ![q] = ToResponse(q, req[q].header)]
    BY <1>1, <1>8 DEF CountSessions, TypeOK
  <2>2. QED
    BY <1>1, <1>2, <1>3, <2>1 DEF RequestRecord
<1>9. CASE PickVictim(q)
  <2>1. \/ \E id : req' = [req EXCEPT ![q] = [req[q] EXCEPT !.pc = "evict", !.victim = {id}]]
        \/ req' = [req EXCEPT ![q] = [req[q] EXCEPT !.pc = "evict"]]
    BY <1>1, <1>9 DEF PickVictim, TypeOK
  <2>2. QED
    BY <1>1, <1>3, <2>1 DEF RequestRecord
<1>10. CASE Evict(q)
  <2>1. \/ req' = [req EXCEPT ![q] = [req[q] EXCEPT !.pc = "insert", !.victim = {}]]
        \/ req' = [req EXCEPT ![q] = ToResponse(q, req[q].header)]
    BY <1>10 DEF Evict
  <2>2. QED
    BY <1>1, <1>2, <1>3, <2>1 DEF RequestRecord
<1>11. QED
  BY <1>4, <1>5, <1>6, <1>7, <1>8, <1>9, <1>10

\* At first no request is under way ...
LEMMA InitOInv == Init => OInv
<1>1. ASSUME Init, NEW q \in Request
      PROVE  EndsOwn(q)
  BY <1>1 DEF Init, Idle, EndsOwn, Busy
<1>2. QED
  BY <1>1, InitBInv DEF OInv

\* ... and every step keeps what each means for its browser's cookie.
LEMMA NextOInv ==
    ASSUME Orderly, RevokesSurely, OInv, [Next]_vars
    PROVE  OInv'
<1>1. BInv' /\ BInv /\ TypeOK
  BY NextBInv DEF OInv, BInv, CInv, IInv
<1>2. CASE UNCHANGED <<sessions, jar, req>>
  BY <1>1, <1>2, EndsStay DEF OInv
<1>3. ASSUME NEW q \in Request, Middleware(q) \/ Handler(q) \/ Deliver(q)
      PROVE  OInv'
  <2>1. Effects(q)
    BY <1>1, <1>3, ReceiveEffects, GetSessionEffects, ExpireEffects, RotateEffects,
       RotateFailsEffects, UpdateEffects, HandlerEffects, InsertEffects, DeliverEffects
       DEF Middleware, Handler
  <2>2. ASSUME NEW p \in Request, p # q
        PROVE  EndsOwn(p)'
    BY <1>1, <2>1, <2>2, OthersHaveOwn, EndsStay DEF Effects, OthersStay
  <2>3. EndsOwn(q)'
    <3>1. CASE Deliver(q)
      BY <1>1, <3>1 DEF Deliver, TypeOK, Idle, EndsOwn, Busy
    <3>2. CASE Middleware(q)
      BY <1>1, <3>2, ReceiveEnds, GetSessionEnds, WritesEnd, RotateEnds DEF Middleware
    <3>3. CASE Handler(q)
      BY <3>3, RevokeEnds, HandlerEnds DEF Handler
    <3>4. QED
      BY <1>3, <3>1, <3>2, <3>3
  <2>4. QED
    BY <1>1, <2>2, <2>3 DEF OInv
<1>4. CASE Tick \/ (\E user \in User : DeactivateUser(user)) \/ UNCHANGED vars
  BY <1>2, <1>4 DEF Tick, DeactivateUser, vars
<1>5. \A q \in Request : ~Lose(q)
  BY DEF Orderly, Lose
<1>6. QED
  BY <1>3, <1>4, <1>5 DEF Next

\* Only an answer that arrives clears a cookie.
LEMMA ClearingStep ==
    ASSUME OInv, [Next]_vars, NEW b \in Browser, jar[b] # None, jar'[b] = None
    PROVE  ~Usable(jar[b].id)
<1>1. TypeOK /\ jar \in [Browser -> Cookie \cup {None}]
  BY DEF OInv, BInv, CInv, IInv, TypeOK
<1>2. PICK q \in Request : Deliver(q)
  BY DEF Next, Middleware, Handler, Receive, GetSession, ExpireSession, Rotate,
     RotateFails, UpdateLastSeen, Answer, LogIn, ResetPassword, Revoke, CountSessions,
     PickVictim, Evict, InsertSession, InsertFails, Lose, Tick, DeactivateUser, vars
<1>3. req[q].browser = b /\ None \in req[q].header /\ Busy(q)
  BY <1>1, <1>2 DEF Deliver, Busy
<1>4. PICK c \in Cookie : jar[b] = c
  BY <1>1
<1>5. Ends(q, c)
  BY <1>3, <1>4 DEF OInv, EndsOwn
<1>6. QED
  BY <1>3, <1>4, <1>5 DEF Ends

\* Likewise, and if revocations do not fail where passwords are changed: a
\* browser's cookie is cleared only when its session is revoked or expired
\* or its user deactivated; an error or a race on the way never logs a user
\* out.
THEOREM ClearedOnlyWhenOverTheorem ==
    ASSUME Orderly, RevokesSurely
    PROVE  Spec => ClearedOnlyWhenOver
<1>1. OInv /\ [Next]_vars => OInv'
  BY NextOInv
<1>2. OInv /\ [Next]_vars =>
         \A b \in Browser : jar[b] # None /\ jar'[b] = None => ~Usable(jar[b].id)
  BY ClearingStep
<1>3. QED
  BY <1>1, <1>2, InitOInv, PTL DEF Spec, ClearedOnlyWhenOver

====================================================================================
