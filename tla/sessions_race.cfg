\* Two requests of one browser in flight at once: rotations, touches, log-ins
\* and a password change interleave query by query.
CONSTANTS
    RawSessionID = {id1, id2, id3}
    User = {u1}
    Browser = {b1}
    Request = {q1, q2}
    None = None
    Routes = {"login", "password_change"}
    Pipelining = TRUE
    Faults = {"unknown"}
    MaxNumberOfActiveSessions = 1
    SessionAbsoluteExpirationDays = 1
    sessionIdleExpirationDays = 1
    sessionRotationDays = 0
    updateLastSeenAfterDuration = 0
    MaxTime = 2
SPECIFICATION LimitSpec
SYMMETRY Symmetry
INVARIANTS
    TypeOK
    RowsKeepOrigin
    OneRowPerLogin
    SessionExcessBound
PROPERTIES
    EndedLoginsStayEnded
    InactiveRowsAreFrozen
    ImplementsLedger
