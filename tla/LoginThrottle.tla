------------------------------- MODULE LoginThrottle -------------------------------
(***************************************************************************)
(* LogIn of internal/service/user/service.go and its rate limit: a log-in  *)
(* counts the failed attempts on record for the email over the last        *)
(* minutes, checks the password if they are few, and records how that went.*)
(*                                                                         *)
(* Count, check and record are separate steps, so log-ins for one email    *)
(* interleave; the limit is a property of the table of attempts.           *)
(***************************************************************************)
EXTENDS Naturals, FiniteSets

CONSTANTS
    Proc,                           \* concurrent calls of LogIn
    Email,                          \* normalized emails, as the limiter sees them
    None,                           \* the email of no call
    rateLimitLoginDuration,         \* rateLimitLoginDurationMinutes, in ticks
    rateLimitLoginAttemptsAllowed,
    Faults,                         \* what goes wrong, a subset of Fault
    MaxTime,                        \* bound on the clock
    MaxAttempts                     \* bound on the attempts on record

\* failed: a query returns an error and does nothing.  unknown: it commits
\* but its answer is an error.  lost: the call ends before it is done.
Fault == {"failed", "unknown", "lost"}

ASSUME ThrottleAssumption ==
    /\ IsFiniteSet(Proc)
    /\ rateLimitLoginDuration \in Nat
    /\ rateLimitLoginAttemptsAllowed \in Nat \ {0}
    /\ Faults \subseteq Fault
    /\ MaxTime \in Nat /\ MaxAttempts \in Nat

ASSUME NoneAssumption == None \notin Email

VARIABLES
    now,          \* the clock
    attempts,     \* the login rows of auth_attempts
    serial,       \* its BIGSERIAL
    call,         \* each call of LogIn
    rejections    \* history: the ErrInvalidCredentials answers for each email

vars == <<now, attempts, serial, call, rejections>>

Attempt == [id : Nat, email : Email, created_at : Nat, outcome : {"succeeded", "failed"}]

\* started is the time.Now() the window of the count is measured from.
Call == [pc : {"idle", "count", "verify", "fail", "succeed"}, email : Email \cup {None},
         started : Nat]

NoCall == [pc |-> "idle", email |-> None, started |-> 0]

Outcome == {"ok"} \cup (Faults \cap {"failed", "unknown"})

----------------------------------------------------------------------------
(***************************************************************************)
(* auth_attempts.sql                                                       *)
(***************************************************************************)
FailedAttempts(email) == {a \in attempts : a.email = email /\ a.outcome = "failed"}

\* The failures the query counts when its window is measured back from time.
FailedSince(email, time) ==
    {a \in FailedAttempts(email) : a.created_at + rateLimitLoginDuration >= time}

CountFailedAuthAttemptsSince(email, time) == Cardinality(FailedSince(email, time))

\* An INSERT that commits unless it failed.
CreateAuthAttempt(email, outcome, result) ==
    IF result = "failed"
    THEN UNCHANGED <<attempts, serial>>
    ELSE /\ serial' = serial + 1
         /\ attempts' = attempts \cup
              {[id |-> serial, email |-> email, created_at |-> now, outcome |-> outcome]}

----------------------------------------------------------------------------
Return(p) == call' = [call EXCEPT ![p] = NoCall]

\* The attempts on record and to come have reached the bound of the model:
\* further counts return errors.
Full ==
    serial + Cardinality({p \in Proc : call[p].pc \in {"verify", "fail", "succeed"}})
       >= MaxAttempts

\* The window is measured from the call's own clock reading, not the query's.
WindowFromFuture(time) == time + rateLimitLoginDuration    \* variant: wrong sign
WindowFrom(time) == time

\* The input is valid; isLoginRateLimited reads the clock.
LogIn(p, email) ==
    /\ call[p].pc = "idle"
    /\ call' = [call EXCEPT ![p] = [pc |-> "count", email |-> email, started |-> WindowFrom(now)]]
    /\ UNCHANGED <<now, attempts, serial, rejections>>

IsLoginRateLimitedLate(p) ==                     \* variant: > for >=
    CountFailedAuthAttemptsSince(call[p].email, call[p].started)
       > rateLimitLoginAttemptsAllowed
IsLoginRateLimited(p) ==
    CountFailedAuthAttemptsSince(call[p].email, call[p].started)
       >= rateLimitLoginAttemptsAllowed

CountOnRecord(p) ==                              \* variant: a refusal is recorded
    /\ call[p].pc = "count"
    /\ IF IsLoginRateLimited(p)
       THEN /\ Return(p)
            /\ CreateAuthAttempt(call[p].email, "failed", IF Full THEN "failed" ELSE "ok")
       ELSE /\ ~Full /\ call' = [call EXCEPT ![p].pc = "verify"]
            /\ UNCHANGED <<attempts, serial>>
    /\ UNCHANGED <<now, rejections>>

\* The count is in: ErrRateLimit, which is not recorded, or on to the password.
Count(p) ==
    /\ call[p].pc = "count"
    /\ IF IsLoginRateLimited(p)
       THEN Return(p)
       ELSE ~Full /\ call' = [call EXCEPT ![p].pc = "verify"]
    /\ UNCHANGED <<now, attempts, serial, rejections>>

\* GetUserByEmail and verifyPassword: no such user, an inactive one and a
\* wrong password are all failures.
Verify(p) ==
    /\ call[p].pc = "verify"
    /\ \E next \in {"fail", "succeed"} : call' = [call EXCEPT ![p].pc = next]
    /\ UNCHANGED <<now, attempts, serial, rejections>>

RejectedAnyway(result) == TRUE                   \* variant: the error is ignored
Rejected(result) == result = "ok"

\* failLoginAttempt: ErrInvalidCredentials only once the failure is on record.
FailLoginAttempt(p) ==
    /\ call[p].pc = "fail"
    /\ \E result \in Outcome :
         /\ CreateAuthAttempt(call[p].email, "failed", result)
         /\ rejections' = IF Rejected(result)
                          THEN [rejections EXCEPT ![call[p].email] = @ + 1]
                          ELSE rejections
    /\ Return(p)
    /\ UNCHANGED now

\* The success is recorded, best effort, and the user returned.
Succeed(p) ==
    /\ call[p].pc = "succeed"
    /\ \E result \in Outcome : CreateAuthAttempt(call[p].email, "succeeded", result)
    /\ Return(p)
    /\ UNCHANGED <<now, rejections>>

\* A read failed (an internal error), or the call was cut off.
Abandon(p) ==
    /\ \/ call[p].pc = "count" /\ ("failed" \in Faults \/ Full)
       \/ call[p].pc = "verify" /\ "failed" \in Faults
       \/ "lost" \in Faults /\ call[p].pc # "idle"
    /\ Return(p)
    /\ UNCHANGED <<now, attempts, serial, rejections>>

Tick ==
    /\ now < MaxTime
    /\ now' = now + 1
    /\ UNCHANGED <<attempts, serial, call, rejections>>

Init ==
    /\ now = 0
    /\ attempts = {}
    /\ serial = 0
    /\ call = [p \in Proc |-> NoCall]
    /\ rejections = [e \in Email |-> 0]

Next ==
    \/ \E p \in Proc : \/ \E email \in Email : LogIn(p, email)
                       \/ Count(p) \/ Verify(p) \/ FailLoginAttempt(p) \/ Succeed(p)
                       \/ Abandon(p)
    \/ Tick

Spec == Init /\ [][Next]_vars

\* Time passes; nothing else is taken for granted.
FairSpec == Spec /\ WF_vars(Tick)

----------------------------------------------------------------------------
(***************************************************************************)
(* Properties                                                              *)
(***************************************************************************)

\* The types; ids below the serial, and no clock reading from the future.
TypeOK ==
    /\ now \in Nat
    /\ serial \in Nat
    /\ attempts \in SUBSET Attempt
    /\ \A a \in attempts : a.id < serial /\ a.created_at <= now
    /\ call \in [Proc -> Call]
    /\ \A p \in Proc : call[p].started <= now /\ (call[p].pc # "idle" => call[p].email # None)
    /\ rejections \in [Email -> Nat]

\* The calls that will check a password for email, or have just done so.
Pending(email) == {p \in Proc : call[p].pc \in {"verify", "fail"} /\ call[p].email = email}

\* Every call on its way to a failure passed a count below the limit: over
\* the last window, the failures on record and those still to come stay below
\* the limit plus the number of concurrent calls.
FailureBound ==
    \A email \in Email :
       Cardinality(FailedSince(email, now)) + Cardinality(Pending(email))
          < rateLimitLoginAttemptsAllowed + Cardinality(Proc)

\* Nobody is told that credentials are wrong before the failure is on
\* record, however the INSERT ends: no more such answers than failures.
RejectionsAreRecorded ==
    \A email \in Email : rejections[email] <= Cardinality(FailedAttempts(email))

Limited(email) ==
    CountFailedAuthAttemptsSince(email, now) >= rateLimitLoginAttemptsAllowed

\* A lock-out ends, however often log-ins are tried meanwhile, provided the
\* clock of the model still covers the window.
LockoutEnds ==
    \A email \in Email :
       Limited(email) /\ now + rateLimitLoginDuration < MaxTime ~> ~Limited(email)
====================================================================================
