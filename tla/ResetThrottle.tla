-------------------------------- MODULE ResetThrottle --------------------------------
(***************************************************************************)
(* The tiered rate limit on requests for a password or email reset:        *)
(* CreatePasswordResetRequest, CreateEmailResetRequest and                 *)
(* isTieredRateLimited of internal/service/user/service.go.                *)
(*                                                                         *)
(* A request counts the attempts on record over a short and a long window, *)
(* checks the user, mails a link and only then records its attempt: what   *)
(* the limit promises about mails depends on requests under way at once    *)
(* and on mails whose attempt is never recorded.                           *)
(***************************************************************************)
EXTENDS Naturals, FiniteSets

CONSTANTS
    Proc,                   \* the requests handled at one time
    Email,                  \* normalized emails
    None,                   \* the key of no request
    ShortWindow,            \* passwordResetRateLimitShortWindowMinutes and its
    LongWindow,             \* like, in ticks: both kinds of reset have the same
    ShortAllowed,           \* limits, and a link lives as long as the short
    LongAllowed,            \* window
    Faults,                 \* what goes wrong, a subset of Fault
    MaxTime,                \* bound on the clock
    MaxAttempts             \* bound on the attempts and mails of a behaviour

\* failed: a query or SendMail returns an error and did nothing.  unknown: it
\* returns an error but was done.  lost: the request ends before it is done.
Fault == {"failed", "unknown", "lost"}

ASSUME ThrottleAssumption ==
    /\ IsFiniteSet(Proc)
    /\ ShortWindow \in Nat /\ LongWindow \in Nat /\ ShortWindow <= LongWindow
    /\ ShortAllowed \in Nat \ {0} /\ LongAllowed \in Nat \ {0}
    /\ Faults \subseteq Fault
    /\ MaxTime \in Nat /\ MaxAttempts \in Nat

\* What attempts are counted by: for a password reset the email it asks for,
\* whether or not it has an account, for an email reset the user's current one.
Action == {"password_reset", "email_reset"}
Key == [action : Action, email : Email]

ASSUME NoneAssumption == None \notin Key

VARIABLES
    now,          \* the clock
    attempts,     \* the rows of auth_attempts for these actions
    serial,       \* its BIGSERIAL
    call,         \* each request
    mails,        \* history: the mails with a link that have gone out
    posted,       \* history: how many, which tells them apart
    missed        \* history: for each key, mails whose attempt was not recorded

vars == <<now, attempts, serial, call, mails, posted, missed>>

Attempt == [id : Nat, key : Key, created_at : Nat, outcome : {"succeeded", "failed"}]
Mail == [id : Nat, key : Key, at : Nat]

\* started is the time.Now() the windows are measured from.
Call == [pc : {"idle", "count", "check", "refuse", "mail", "record"},
         key : Key \cup {None}, started : Nat]

NoCall == [pc |-> "idle", key |-> None, started |-> 0]

Outcome == {"ok"} \cup (Faults \cap {"failed", "unknown"})

----------------------------------------------------------------------------
(***************************************************************************)
(* auth_attempts.sql                                                       *)
(***************************************************************************)
Since(key, time, window) ==
    {a \in attempts : a.key = key /\ a.created_at + window >= time}

CountTieredAuthAttempts(key, time) ==
    LET old == Since(key, time, LongWindow)
    IN  [old_count    |-> Cardinality(old),
         recent_count |-> Cardinality({a \in old : a.created_at + ShortWindow >= time})]

\* An INSERT that commits unless it failed.
CreateAuthAttempt(key, outcome, result) ==
    IF result = "failed"
    THEN UNCHANGED <<attempts, serial>>
    ELSE /\ serial' = serial + 1
         /\ attempts' = attempts \cup
              {[id |-> serial, key |-> key, created_at |-> now, outcome |-> outcome]}

----------------------------------------------------------------------------
Return(p) == call' = [call EXCEPT ![p] = NoCall]
Proceed(p, pc) == call' = [call EXCEPT ![p].pc = pc]

\* The attempts on record, the mails and those to come have reached the bound
\* of the model: further counts return errors.
Full ==
    serial + posted
       + Cardinality({p \in Proc : call[p].pc \in {"check", "refuse", "mail", "record"}})
       >= MaxAttempts

\* The windows are measured back from the request's clock reading.
WindowsFromFuture(time) == time + LongWindow     \* variant: wrong sign
WindowsFrom(time) == time

\* The email is valid; isTieredRateLimited reads the clock.
Request(p, key) ==
    /\ call[p].pc = "idle"
    /\ call' = [call EXCEPT ![p] = [pc |-> "count", key |-> key, started |-> WindowsFrom(now)]]
    /\ UNCHANGED <<now, attempts, serial, mails, posted, missed>>

IsShortRateLimited(key, time) ==                 \* variant: the long tier is not asked
    CountTieredAuthAttempts(key, time).recent_count >= ShortAllowed
IsTieredRateLimited(key, time) ==
    LET count == CountTieredAuthAttempts(key, time)
    IN  count.recent_count >= ShortAllowed \/ count.old_count >= LongAllowed

CountOnRecord(p) ==                              \* variant: a refusal is recorded
    /\ call[p].pc = "count"
    /\ IF IsTieredRateLimited(call[p].key, call[p].started)
       THEN /\ Return(p)
            /\ CreateAuthAttempt(call[p].key, "failed", IF Full THEN "failed" ELSE "ok")
       ELSE ~Full /\ Proceed(p, "check") /\ UNCHANGED <<attempts, serial>>
    /\ UNCHANGED <<now, mails, posted, missed>>

\* The count is in: ErrRateLimit, which is not recorded, or on to the check.
Count(p) ==
    /\ call[p].pc = "count"
    /\ IF IsTieredRateLimited(call[p].key, call[p].started)
       THEN Return(p)
       ELSE ~Full /\ Proceed(p, "check")
    /\ UNCHANGED <<now, attempts, serial, mails, posted, missed>>

\* No such user, or a wrong password; else a link is due, unless the new email
\* is taken, which is answered and not recorded.
Check(p) ==
    /\ call[p].pc = "check"
    /\ \/ Proceed(p, "refuse")
       \/ Proceed(p, "mail")
       \/ call[p].key.action = "email_reset" /\ Return(p)
    /\ UNCHANGED <<now, attempts, serial, mails, posted, missed>>

\* The refusal is recorded, best effort, before it is answered.
Refuse(p) ==
    /\ call[p].pc = "refuse"
    /\ \E result \in Outcome : CreateAuthAttempt(call[p].key, "failed", result)
    /\ Return(p)
    /\ UNCHANGED <<now, mails, posted, missed>>

Miss(key) == missed' = [missed EXCEPT ![key] = @ + 1]

\* The token is stored and mailed.  An error returns before the attempt is
\* recorded, even if the mail went out after all.
SendMail(p) ==
    /\ call[p].pc = "mail"
    /\ \E result \in Outcome :
         /\ IF result = "failed"
            THEN UNCHANGED <<mails, posted>>
            ELSE /\ posted' = posted + 1
                 /\ mails' = mails \cup {[id |-> posted, key |-> call[p].key, at |-> now]}
         /\ IF result = "ok" THEN Proceed(p, "record") ELSE Return(p)
         /\ IF result = "unknown" THEN Miss(call[p].key) ELSE UNCHANGED missed
    /\ UNCHANGED <<now, attempts, serial>>

RecordNothing(p) ==                              \* variant: only refusals are recorded
    /\ call[p].pc = "record"
    /\ Return(p)
    /\ UNCHANGED <<now, attempts, serial, mails, posted, missed>>

\* The attempt is recorded, best effort: an error is only logged.
Record(p) ==
    /\ call[p].pc = "record"
    /\ \E result \in Outcome :
         /\ CreateAuthAttempt(call[p].key, "succeeded", result)
         /\ IF result = "failed" THEN Miss(call[p].key) ELSE UNCHANGED missed
    /\ Return(p)
    /\ UNCHANGED <<now, mails, posted>>

\* A read failed (an internal error), or the request was cut off.
Abandon(p) ==
    /\ \/ call[p].pc = "count" /\ ("failed" \in Faults \/ Full)
       \/ call[p].pc = "check" /\ "failed" \in Faults
       \/ "lost" \in Faults /\ call[p].pc # "idle"
    /\ IF call[p].pc = "record" THEN Miss(call[p].key) ELSE UNCHANGED missed
    /\ Return(p)
    /\ UNCHANGED <<now, attempts, serial, mails, posted>>

Tick ==
    /\ now < MaxTime
    /\ now' = now + 1
    /\ UNCHANGED <<attempts, serial, call, mails, posted, missed>>

Init ==
    /\ now = 0
    /\ attempts = {} /\ serial = 0
    /\ call = [p \in Proc |-> NoCall]
    /\ mails = {} /\ posted = 0
    /\ missed = [key \in Key |-> 0]

Next ==
    \/ \E p \in Proc : \/ \E key \in Key : Request(p, key)
                       \/ Count(p) \/ Check(p) \/ Refuse(p) \/ SendMail(p) \/ Record(p)
                       \/ Abandon(p)
    \/ Tick

Spec == Init /\ [][Next]_vars

\* Time passes; nothing else is taken for granted.
FairSpec == Spec /\ WF_vars(Tick)

----------------------------------------------------------------------------
(***************************************************************************)
(* Properties                                                              *)
(***************************************************************************)

\* The types; ids below their counters, and no clock reading from the future.
TypeOK ==
    /\ now \in Nat /\ serial \in Nat /\ posted \in Nat
    /\ attempts \in SUBSET Attempt
    /\ \A a \in attempts : a.id < serial /\ a.created_at <= now
    /\ mails \in SUBSET Mail
    /\ \A m \in mails : m.id < posted /\ m.at <= now
    /\ call \in [Proc -> Call]
    /\ \A p \in Proc : call[p].started <= now /\ (call[p].pc # "idle" => call[p].key # None)
    /\ missed \in [Key -> Nat]

\* The requests past the count, which may yet record an attempt.
Pending(key) ==
    {p \in Proc : call[p].pc \in {"check", "refuse", "mail", "record"} /\ call[p].key = key}

\* Both tiers hold up to the requests that were counted at the same time: over
\* either window the attempts on record and still to come stay below its limit
\* plus the number of concurrent requests.
AttemptBound ==
    \A key \in Key :
       /\ Cardinality(Since(key, now, ShortWindow)) + Cardinality(Pending(key))
             < ShortAllowed + Cardinality(Proc)
       /\ Cardinality(Since(key, now, LongWindow)) + Cardinality(Pending(key))
             < LongAllowed + Cardinality(Proc)

MailsSince(key, time, window) == {m \in mails : m.key = key /\ m.at + window >= time}

\* The links that can still be redeemed, and the mails a mailbox receives in
\* either window, are bounded too: only a mail whose attempt was not recorded
\* (the mail or the INSERT failed) goes beyond.
MailBound ==
    \A key \in Key :
       /\ Cardinality(MailsSince(key, now, ShortWindow))
             < ShortAllowed + Cardinality(Proc) + missed[key]
       /\ Cardinality(MailsSince(key, now, LongWindow))
             < LongAllowed + Cardinality(Proc) + missed[key]

\* A limited user gets a link again once the windows have passed, however often
\* it is asked for meanwhile, provided the model's clock still covers them.
LimitEnds ==
    \A key \in Key :
       IsTieredRateLimited(key, now) /\ now + LongWindow < MaxTime
          ~> ~IsTieredRateLimited(key, now)
======================================================================================
