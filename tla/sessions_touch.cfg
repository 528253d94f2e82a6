\* A request that rotates its session, and nothing goes wrong.
CONSTANTS
    RawSessionID = {id1, id2, id3, id4}
    User = {u1, u2}
    Browser = {b1}
    Request = {q1}
    None = None
    Routes = {"login"}
    Pipelining = TRUE
    Faults = {}
    MaxNumberOfActiveSessions = 2
    SessionAbsoluteExpirationDays = 4
    sessionIdleExpirationDays = 2
    sessionRotationDays = 0
    updateLastSeenAfterDuration = 0
    MaxTime = 2
SPECIFICATION Spec
SYMMETRY Symmetry
PROPERTY
    RotationTouchesLastSeen
