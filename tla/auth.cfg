\* Two users, two requests at once, every fault.
CONSTANTS
    User = {u1, u2}
    Login = {l1, l2, l3}
    Proc = {p1, p2}
    None = None
    Faults = {"failed", "unknown", "lost"}
    MaxVersion = 2
SPECIFICATION Spec
SYMMETRY Symmetry
INVARIANTS
    TypeOK
    StaleSessionBound
