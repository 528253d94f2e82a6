\* Two accounts and both kinds of token: concurrent redemptions, retries,
\* faults and a clock that passes the deadline.
CONSTANTS
    Proc = {p1, p2}
    User = {u1, u2}
    Email = {e1, e2}
    Token = {t1, t2}
    None = None
    Kinds = {"password", "email"}
    passwordResetTokenDuration = 1
    emailResetTokenDuration = 0
    Faults = {"failed", "unknown"}
    MaxTime = 2
SPECIFICATION Spec
SYMMETRY Symmetry
INVARIANTS
    TypeOK
    SpentOnce
PROPERTIES
    EmailChangesAreConfirmed
    DeadTokensStayDead
    ImplementsResets
