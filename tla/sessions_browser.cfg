\* Two browsers, one request each at a time, whose queries may fail but
\* whose responses arrive.
CONSTANTS
    RawSessionID = {id1, id2, id3}
    User = {u1}
    Browser = {b1, b2}
    Request = {q1, q2}
    None = None
    Routes = {"login", "token_reset"}
    Pipelining = FALSE
    Faults = {"failed", "garbled"}
    MaxNumberOfActiveSessions = 2
    SessionAbsoluteExpirationDays = 1
    sessionIdleExpirationDays = 1
    sessionRotationDays = 0
    updateLastSeenAfterDuration = 0
    MaxTime = 2
SPECIFICATION Spec
SYMMETRY Symmetry
INVARIANT
    CookieIsCurrent
PROPERTY
    ClearedOnlyWhenOver
