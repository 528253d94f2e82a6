------------------------------- MODULE SessionStore -------------------------------
(***************************************************************************)
(* The sessions table and everything the program asks of it: the queries   *)
(* of sqlc/query/sessions.sql as operators over the table, the predicates  *)
(* of internal/service/session/session_domain.go over one session, and the *)
(* cookie a session travels in.  The module has no variables: the state    *)
(* machines that share the table (SessionLifecycle) build their actions    *)
(* from these operators, one query per action.                             *)
(*                                                                         *)
(* A table is a set of rows.  A time is a natural number of ticks, one     *)
(* clock for the program and the database.                                 *)
(***************************************************************************)
EXTENDS Naturals, FiniteSets

CONSTANTS
    RawSessionID,                   \* what generateSessionID can draw
    User,                           \* users.id
    None,                           \* no cookie, no session, no origin
    MaxNumberOfActiveSessions,
    SessionAbsoluteExpirationDays,
    sessionIdleExpirationDays,
    sessionRotationDays,
    updateLastSeenAfterDuration     \* updateLastSeenAfterDurationMinutes, in ticks

ASSUME StoreAssumption ==
    /\ MaxNumberOfActiveSessions \in Nat \ {0}
    /\ SessionAbsoluteExpirationDays \in Nat
    /\ sessionIdleExpirationDays \in Nat
    /\ sessionRotationDays \in Nat
    /\ updateLastSeenAfterDuration \in Nat

(***************************************************************************)
(* Identifiers.  A browser holds a raw id, the table its SHA-256; the hash *)
(* is injective, and never itself a raw id.                                *)
(***************************************************************************)
IdentityHash(rawID) == rawID                     \* variant: ids stored unhashed
Sum256(rawID) == [sha256 |-> rawID]
IDHash == [sha256 : RawSessionID]

ASSUME HashAssumption == IDHash \cap RawSessionID = {}

Row(ID) == [id : ID, user_id : User, created_at : Nat, last_seen_at : Nat,
            last_refreshed_at : Nat, is_active : BOOLEAN]

\* A row of the table, and a session.Session: after RotateSession the value
\* in memory carries the raw id where the row has the hash.
SessionRow   == Row(IDHash)
SessionValue == Row(IDHash \cup RawSessionID)

(***************************************************************************)
(* session_domain.go                                                       *)
(***************************************************************************)
ExpirationSinceRefresh(s) ==                     \* variant: slides with rotation
    s.last_refreshed_at + SessionAbsoluteExpirationDays
GetAbsoluteExpiration(s) == s.created_at + SessionAbsoluteExpirationDays

ShouldRotate(s, now) == s.last_refreshed_at + sessionRotationDays < now

IsExpired(s, now) ==
    \/ GetAbsoluteExpiration(s) < now
    \/ s.last_seen_at + sessionIdleExpirationDays < now

ShouldUpdateLastSeen(s, now) == now > s.last_seen_at + updateLastSeenAfterDuration

(***************************************************************************)
(* The cookie named "id": the raw session id, kept by the browser until    *)
(* the session's absolute expiration.                                      *)
(***************************************************************************)
Cookie == [id : RawSessionID, expires : Nat]

AddSessionToCookie(rawID, absoluteExpiration) ==
    [id |-> rawID, expires |-> absoluteExpiration]

(***************************************************************************)
(* sessions.sql                                                            *)
(***************************************************************************)

\* UPDATE sessions SET is_active = FALSE, for the rows in hit.
Deactivated(table, hit) ==
    (table \ hit) \cup {[s EXCEPT !.is_active = FALSE] : s \in hit}

ActiveSessionsOf(table, user) == {s \in table : s.user_id = user /\ s.is_active}

\* The row a lookup by id finds: live itself, and of a live user.
GetActiveSession(table, activeUsers, id) ==
    {s \in table : s.id = id /\ s.is_active /\ s.user_id \in activeUsers}

GetSessionCountByUser(table, user) == Cardinality(ActiveSessionsOf(table, user))

\* The ids the sub-select of DeactivateLeastRecentlyUsedSessionForUser may
\* return: ties in last_seen_at are broken either way.
LeastRecentlyUsedRow(table, user) ==             \* variant: no is_active
    {s.id : s \in {t \in table : t.user_id = user /\
                     \A other \in table : other.user_id = user =>
                        t.last_seen_at <= other.last_seen_at}}
LeastRecentlyUsed(table, user) ==
    {s.id : s \in {t \in ActiveSessionsOf(table, user) :
                     \A other \in ActiveSessionsOf(table, user) :
                        t.last_seen_at <= other.last_seen_at}}

\* The outer UPDATE of that query asks for the id alone.
DeactivateSelected(table, ids) == Deactivated(table, {s \in table : s.id \in ids})

DeactivateSession(table, id) ==
    Deactivated(table, {s \in table : s.id = id /\ s.is_active})

DeactivateAllSessionsForUser(table, user) ==
    Deactivated(table, ActiveSessionsOf(table, user))

\* The column defaults of the table supply every field but the first two.
NewRow(id, user, now) ==
    [id |-> id, user_id |-> user, created_at |-> now, last_seen_at |-> now,
     last_refreshed_at |-> now, is_active |-> TRUE]

\* The rows an UPDATE guarded by "id = $1 and is_active = TRUE" reaches.
WithID(table, id) == {s \in table : s.id = id}  \* variant: no is_active
ActiveWithID(table, id) == {s \in table : s.id = id /\ s.is_active}

RotatedAsNew(s, newID, now) ==                   \* variant: a rotation starts over
    NewRow(newID, s.user_id, now)
Rotated(s, newID, now) == [s EXCEPT !.id = newID, !.last_refreshed_at = now]

InsertRotated(table, id, newID, now) ==          \* variant: the old row stays
    table \cup {Rotated(s, newID, now) : s \in ActiveWithID(table, id)}
UpdateSessionIDAndRefreshedAt(table, id, newID, now) ==
    LET hit == ActiveWithID(table, id)
    IN  (table \ hit) \cup {Rotated(s, newID, now) : s \in hit}

SaveSeenSession(table, id, now) ==               \* variant: writes is_active back
    LET hit == {s \in table : s.id = id}
    IN  (table \ hit) \cup {[s EXCEPT !.last_seen_at = now, !.is_active = TRUE] : s \in hit}
UpdateSessionLastSeenToNow(table, id, now) ==
    LET hit == ActiveWithID(table, id)
    IN  (table \ hit) \cup {[s EXCEPT !.last_seen_at = now] : s \in hit}
====================================================================================
