\* Two accounts whose email changes and sign-ups compete for three addresses,
\* two transactions at a time: locks, waiting, deadlock.
CONSTANTS
    Proc = {p1, p2}
    User = {u1, u2}
    Email = {e1, e2, e3}
    Token = {t1, t2, t3}
    None = None
    Kinds = {"email"}
    passwordResetTokenDuration = 0
    emailResetTokenDuration = 0
    Faults = {}
    MaxTime = 0
SPECIFICATION FairSpecFirst
INVARIANT
    EmailsUnique
PROPERTY
    RedemptionsEnd
