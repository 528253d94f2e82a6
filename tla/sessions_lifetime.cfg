\* One request at a time over a clock long enough for rotation, idle and
\* absolute expiry, and ids enough to fill the session limit, with every fault.
CONSTANTS
    RawSessionID = {id1, id2, id3, id4}
    User = {u1}
    Browser = {b1}
    Request = {q1}
    None = None
    Routes = {"login", "password_change", "token_reset"}
    Pipelining = TRUE
    Faults = {"failed", "unknown", "lost", "garbled"}
    MaxNumberOfActiveSessions = 2
    SessionAbsoluteExpirationDays = 3
    sessionIdleExpirationDays = 2
    sessionRotationDays = 1
    updateLastSeenAfterDuration = 0
    MaxTime = 4
SPECIFICATION Spec
SYMMETRY Symmetry
INVARIANTS
    ActiveSessionLimit
    CookieExpiresWithLogin
PROPERTY
    AdmissionFollowsLogin
