\* Two requests at a time, of both kinds, with every fault,
\* retried all along while time passes.
CONSTANTS
    Proc = {p1, p2}
    Email = {e1}
    None = None
    ShortWindow = 0
    LongWindow = 1
    ShortAllowed = 1
    LongAllowed = 2
    Faults = {"failed", "unknown", "lost"}
    MaxTime = 2
    MaxAttempts = 4
SPECIFICATION FairSpec
INVARIANTS
    TypeOK
    AttemptBound
    MailBound
PROPERTY
    LimitEnds
