\* Two concurrent log-ins over two emails, retried all along while time passes;
\* queries fail, or commit and report an error.
CONSTANTS
    Proc = {p1, p2}
    Email = {e1, e2}
    None = None
    rateLimitLoginDuration = 1
    rateLimitLoginAttemptsAllowed = 2
    Faults = {"failed", "unknown"}
    MaxTime = 2
    MaxAttempts = 4
SPECIFICATION FairSpec
INVARIANTS
    TypeOK
    FailureBound
    RejectionsAreRecorded
PROPERTY
    LockoutEnds
