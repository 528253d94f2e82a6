\* Nothing fails: an account signed up for, a log-in and a reset at once.
CONSTANTS
    User = {u1}
    Login = {l1, l2}
    Proc = {p1, p2}
    None = None
    Faults = {}
    MaxVersion = 3
SPECIFICATION SpecSignedUp
SYMMETRY Symmetry
INVARIANT
    AnsweredChangesEndSessions
CHECK_DEADLOCK FALSE
