\* Every endpoint, every kind of input, and every fault.
CONSTANTS
    RuneCounts = {0, 1, 12, 13, 256, 257}
    Faults = {"failed", "unknown"}
    None = None
SPECIFICATION Spec
INVARIANTS
    TypeOK
    EveryRefusalIsAnswered
    RefusalsChangeNothing
    SuccessIsDurable
    ServerErrorsKeepCredentials
    StoredPasswordsMeetPolicy
