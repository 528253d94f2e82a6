---------------------------- MODULE LoginThrottleProofs ----------------------------
(***************************************************************************)
(* What the rate limit of LoginThrottle guarantees for any number of       *)
(* calls, any emails, any limit and window, and any faults.                *)
(***************************************************************************)
EXTENDS LoginThrottle, FiniteSetTheorems, TLAPS

Limit == rateLimitLoginAttemptsAllowed

TInv == TypeOK /\ IsFiniteSet(attempts)

(***************************************************************************)
(* Type correctness.                                                       *)
(***************************************************************************)

\* An INSERT keeps the table well-typed and finite, whatever its result.
LEMMA CreateType ==
    ASSUME TInv, UNCHANGED now, NEW email \in Email, NEW outcome \in {"succeeded", "failed"},
           NEW result, CreateAuthAttempt(email, outcome, result)
    PROVE  /\ serial' \in Nat /\ attempts' \in SUBSET Attempt /\ IsFiniteSet(attempts')
           /\ \A a \in attempts' : a.id < serial' /\ a.created_at <= now'
<1>1. CASE result = "failed"
  BY <1>1 DEF CreateAuthAttempt, TInv, TypeOK
<1>2. CASE result # "failed"
  <2> DEFINE new == [id |-> serial, email |-> email, created_at |-> now, outcome |-> outcome]
  <2>1. attempts' = attempts \cup {new} /\ serial' = serial + 1
    BY <1>2 DEF CreateAuthAttempt
  <2>2. new \in Attempt /\ new.id = serial /\ new.created_at = now
    BY DEF Attempt, TInv, TypeOK
  <2>3. IsFiniteSet(attempts')
    BY <2>1, FS_AddElement DEF TInv
  <2> HIDE DEF new
  <2>4. \A a \in attempts : a.id \in Nat
    BY DEF TInv, TypeOK, Attempt
  <2>5. QED
    BY <2>1, <2>2, <2>3, <2>4 DEF TInv, TypeOK
<1>3. QED
  BY <1>1, <1>2

\* The types hold initially and after every step.
LEMMA InitTInv == Init => TInv
BY FS_EmptySet DEF Init, TInv, TypeOK, NoCall, Call

\* Every step of a log-in, and the clock, keep the types.
LEMMA NextTInv == TInv /\ [Next]_vars => TInv'
<1> SUFFICES ASSUME TInv, [Next]_vars
             PROVE  TInv'
  OBVIOUS
<1>a. NoCall \in Call /\ NoCall.pc = "idle" /\ NoCall.started = 0
  BY DEF NoCall, Call
<1>b. \A p \in Proc : call[p].pc # "idle" => call[p].email \in Email
  BY DEF TInv, TypeOK, Call
<1>1. ASSUME NEW p \in Proc, NEW email \in Email, LogIn(p, email)
      PROVE  TInv'
  <2> DEFINE new == [pc |-> "count", email |-> email, started |-> now]
  <2>1. new \in Call /\ new.started = now /\ new.email # None
    BY NoneAssumption DEF Call, TInv, TypeOK
  <2>2. call' = [call EXCEPT ![p] = new]
    BY <1>1 DEF LogIn, WindowFrom
  <2> HIDE DEF new
  <2>3. QED
    BY <1>1, <2>1, <2>2 DEF LogIn, TInv, TypeOK
<1>2. ASSUME NEW p \in Proc, Count(p)
      PROVE  TInv'
  BY <1>2, <1>a DEF Count, Return, TInv, TypeOK, Call
<1>3. ASSUME NEW p \in Proc, Verify(p)
      PROVE  TInv'
  BY <1>3 DEF Verify, TInv, TypeOK, Call
<1>4. ASSUME NEW p \in Proc, FailLoginAttempt(p)
      PROVE  TInv'
  <2>1. PICK result \in Outcome : CreateAuthAttempt(call[p].email, "failed", result)
    BY <1>4 DEF FailLoginAttempt
  <2>2. /\ serial' \in Nat /\ attempts' \in SUBSET Attempt /\ IsFiniteSet(attempts')
        /\ \A a \in attempts' : a.id < serial' /\ a.created_at <= now'
    BY <1>4, <1>b, <2>1, CreateType DEF FailLoginAttempt
  <2>3. call' = [call EXCEPT ![p] = NoCall] /\ UNCHANGED now
    BY <1>4 DEF FailLoginAttempt, Return
  <2>4. rejections' \in [Email -> Nat]
    <3>1. \/ rejections' = rejections
          \/ rejections' = [rejections EXCEPT ![call[p].email] = @ + 1]
      BY <1>4 DEF FailLoginAttempt
    <3>2. QED
      BY <3>1 DEF TInv, TypeOK
  <2>5. QED
    BY <2>2, <2>3, <2>4, <1>a DEF TInv, TypeOK
<1>5. ASSUME NEW p \in Proc, Succeed(p)
      PROVE  TInv'
  <2>1. PICK result \in Outcome : CreateAuthAttempt(call[p].email, "succeeded", result)
    BY <1>5 DEF Succeed
  <2>2. /\ serial' \in Nat /\ attempts' \in SUBSET Attempt /\ IsFiniteSet(attempts')
        /\ \A a \in attempts' : a.id < serial' /\ a.created_at <= now'
    BY <1>5, <1>b, <2>1, CreateType DEF Succeed
  <2>3. call' = [call EXCEPT ![p] = NoCall] /\ UNCHANGED <<now, rejections>>
    BY <1>5 DEF Succeed, Return
  <2>4. QED
    BY <2>2, <2>3, <1>a DEF TInv, TypeOK
<1>6. ASSUME NEW p \in Proc, Abandon(p)
      PROVE  TInv'
  BY <1>6, <1>a DEF Abandon, Return, TInv, TypeOK
<1>7. CASE Tick
  <2>1. \A a \in attempts : a.created_at \in Nat
    BY DEF TInv, TypeOK, Attempt
  <2>2. \A p \in Proc : call[p].started \in Nat
    BY DEF TInv, TypeOK, Call
  <2>3. QED
    BY <1>7, <2>1, <2>2 DEF Tick, TInv, TypeOK
<1>8. CASE UNCHANGED vars
  BY <1>8 DEF vars, TInv, TypeOK
<1>9. QED
  BY <1>1, <1>2, <1>3, <1>4, <1>5, <1>6, <1>7, <1>8 DEF Next

\* The types hold in every reachable state.
THEOREM ThrottleTypeCorrect == Spec => []TypeOK
<1>1. TInv => TypeOK
  BY DEF TInv
<1>2. QED
  BY <1>1, InitTInv, NextTInv, PTL DEF Spec

(***************************************************************************)
(* The bound on failures.  Of a step's effect only this matters: which     *)
(* failures the window holds, and which calls are on their way to one.     *)
(***************************************************************************)
FInv == TInv /\ FailureBound

\* The sets that are counted are finite.
LEMMA FiniteSets ==
    ASSUME TInv, NEW email \in Email, NEW time
    PROVE  /\ IsFiniteSet(FailedSince(email, time))
           /\ Cardinality(FailedSince(email, time)) \in Nat
           /\ IsFiniteSet(FailedAttempts(email))
           /\ Cardinality(FailedAttempts(email)) \in Nat
           /\ IsFiniteSet(Pending(email))
           /\ Cardinality(Pending(email)) \in Nat
           /\ Cardinality(Pending(email)) <= Cardinality(Proc)
           /\ Cardinality(Proc) \in Nat
<1>1. FailedSince(email, time) \in SUBSET attempts /\ FailedAttempts(email) \in SUBSET attempts
  BY DEF FailedSince, FailedAttempts
<1>2. Pending(email) \in SUBSET Proc
  BY DEF Pending
<1>3. IsFiniteSet(attempts) /\ IsFiniteSet(Proc)
  BY ThrottleAssumption DEF TInv
<1>4. QED
  BY <1>1, <1>2, <1>3, FS_Subset, FS_CardinalityType

\* The bound survives when neither set grows ...
LEMMA Shrinking ==
    ASSUME FInv, TInv', NEW email \in Email,
           FailedSince(email, now)' \subseteq FailedSince(email, now),
           Pending(email)' \subseteq Pending(email)
    PROVE  Cardinality(FailedSince(email, now)') + Cardinality(Pending(email)')
              < Limit + Cardinality(Proc)
<1>1. /\ IsFiniteSet(FailedSince(email, now)) /\ Cardinality(FailedSince(email, now)) \in Nat
      /\ IsFiniteSet(Pending(email)) /\ Cardinality(Pending(email)) \in Nat
      /\ Cardinality(Proc) \in Nat
  BY FiniteSets DEF FInv
<1>2. /\ Cardinality(FailedSince(email, now)') <= Cardinality(FailedSince(email, now))
      /\ Cardinality(FailedSince(email, now)') \in Nat
  BY <1>1, FS_Subset, FS_CardinalityType
<1>3. /\ Cardinality(Pending(email)') <= Cardinality(Pending(email))
      /\ Cardinality(Pending(email)') \in Nat
  BY <1>1, FS_Subset, FS_CardinalityType
<1>4. Cardinality(FailedSince(email, now)) + Cardinality(Pending(email))
         < Limit + Cardinality(Proc)
  BY DEF FInv, FailureBound, Limit
<1>5. QED
  BY <1>1, <1>2, <1>3, <1>4, ThrottleAssumption DEF Limit

\* ... when a pending call turns into a failure ...
LEMMA Recording ==
    ASSUME FInv, NEW email \in Email, NEW p \in Pending(email), NEW a,
           FailedSince(email, now)' \subseteq FailedSince(email, now) \cup {a},
           Pending(email)' \subseteq Pending(email) \ {p}
    PROVE  Cardinality(FailedSince(email, now)') + Cardinality(Pending(email)')
              < Limit + Cardinality(Proc)
<1> DEFINE F == FailedSince(email, now)
           P == Pending(email)
<1>1. /\ IsFiniteSet(F) /\ Cardinality(F) \in Nat
      /\ IsFiniteSet(P) /\ Cardinality(P) \in Nat
      /\ Cardinality(Proc) \in Nat
  BY FiniteSets DEF FInv
<1>2. /\ IsFiniteSet(F \cup {a}) /\ Cardinality(F \cup {a}) <= Cardinality(F) + 1
      /\ Cardinality(F \cup {a}) \in Nat
  BY <1>1, FS_AddElement, FS_CardinalityType
<1>3. /\ IsFiniteSet(P \ {p}) /\ Cardinality(P \ {p}) = Cardinality(P) - 1
      /\ Cardinality(P \ {p}) \in Nat
  BY <1>1, FS_RemoveElement, FS_CardinalityType
<1>4. Cardinality(F') <= Cardinality(F \cup {a}) /\ Cardinality(F') \in Nat
  BY <1>2, FS_Subset, FS_CardinalityType
<1>5. Cardinality(P') <= Cardinality(P \ {p}) /\ Cardinality(P') \in Nat
  BY <1>3, FS_Subset, FS_CardinalityType
<1>6. Cardinality(F) + Cardinality(P) < Limit + Cardinality(Proc)
  BY DEF FInv, FailureBound, Limit
<1> HIDE DEF F, P
<1>7. Cardinality(F') + Cardinality(P') < Limit + Cardinality(Proc)
  BY <1>1, <1>2, <1>3, <1>4, <1>5, <1>6, ThrottleAssumption DEF Limit
<1>8. QED
  BY <1>7 DEF F, P

\* ... and when a call passes its count, which looked back at least as far.
LEMMA Passing ==
    ASSUME FInv, TInv', NEW p \in Proc, Count(p), ~IsLoginRateLimited(p), NEW email \in Email,
           email = call[p].email
    PROVE  Cardinality(FailedSince(email, now)') + Cardinality(Pending(email)')
              < Limit + Cardinality(Proc)
<1> DEFINE G == FailedSince(email, call[p].started)
           P == Pending(email)
<1>1. /\ IsFiniteSet(G) /\ Cardinality(G) \in Nat /\ Cardinality(Proc) \in Nat
  BY FiniteSets DEF FInv
<1>2. FailedSince(email, now)' \subseteq G
  <2>1. call[p].started <= now /\ call[p].started \in Nat /\ now \in Nat
    BY DEF FInv, TInv, TypeOK, Call
  <2>2. \A a \in attempts : a.created_at + rateLimitLoginDuration \in Nat
    BY ThrottleAssumption DEF FInv, TInv, TypeOK, Attempt
  <2>3. UNCHANGED <<now, attempts>>
    BY DEF Count
  <2>4. QED
    BY <2>1, <2>2, <2>3 DEF FailedSince, FailedAttempts
<1>3. Cardinality(G) < Limit
  BY <1>1, ThrottleAssumption DEF IsLoginRateLimited, CountFailedAuthAttemptsSince, Limit
<1>4. /\ Cardinality(FailedSince(email, now)') <= Cardinality(G)
      /\ Cardinality(FailedSince(email, now)') \in Nat
  BY <1>1, <1>2, FS_Subset, FS_CardinalityType
<1>5. Cardinality(P') <= Cardinality(Proc) /\ Cardinality(P') \in Nat
  <2>1. P' \in SUBSET Proc
    BY DEF Pending
  <2>2. QED
    BY <2>1, FS_Subset, FS_CardinalityType, ThrottleAssumption
<1> HIDE DEF G, P
<1>6. Cardinality(FailedSince(email, now)') + Cardinality(P') < Limit + Cardinality(Proc)
  BY <1>1, <1>3, <1>4, <1>5, ThrottleAssumption DEF Limit
<1>7. QED
  BY <1>6 DEF P

\* What an INSERT adds to the failures: for its own email at most the new
\* row, and only if that is a failure; for the others nothing.
LEMMA CreateAdds ==
    ASSUME TInv, UNCHANGED now, NEW email \in Email, NEW outcome, NEW result,
           CreateAuthAttempt(email, outcome, result)
    PROVE  /\ \A e \in Email : e # email \/ outcome # "failed" =>
                 FailedSince(e, now)' \subseteq FailedSince(e, now)
           /\ \E a : FailedSince(email, now)' \subseteq FailedSince(email, now) \cup {a}
<1>1. CASE result = "failed"
  BY <1>1 DEF CreateAuthAttempt, FailedSince, FailedAttempts
<1>2. CASE result # "failed"
  <2> DEFINE new == [id |-> serial, email |-> email, created_at |-> now, outcome |-> outcome]
  <2>1. attempts' = attempts \cup {new}
    BY <1>2 DEF CreateAuthAttempt
  <2>2. new.email = email /\ new.outcome = outcome
    OBVIOUS
  <2> HIDE DEF new
  <2>3. \A e \in Email : FailedSince(e, now)' \subseteq FailedSince(e, now) \cup {new}
    BY <2>1 DEF FailedSince, FailedAttempts
  <2>4. \A e \in Email : e # email \/ outcome # "failed" => new \notin FailedSince(e, now)'
    BY <2>2 DEF FailedSince, FailedAttempts
  <2>5. QED
    BY <2>3, <2>4
<1>3. QED
  BY <1>1, <1>2

\* Every step keeps the bound.
LEMMA BoundStep ==
    ASSUME FInv, TInv', [Next]_vars, NEW email \in Email
    PROVE  Cardinality(FailedSince(email, now)') + Cardinality(Pending(email)')
              < Limit + Cardinality(Proc)
<1>a. /\ TInv /\ call \in [Proc -> Call]
      /\ \A p \in Proc : call[p].pc # "idle" => call[p].email \in Email
  BY DEF FInv, TInv, TypeOK, Call
<1>b. ASSUME NEW p \in Proc, Return(p)
      PROVE  Pending(email)' \subseteq Pending(email) \ {p}
  BY <1>a, <1>b DEF Pending, Return, NoCall
<1>c. ASSUME UNCHANGED <<now, attempts>>
      PROVE  FailedSince(email, now)' = FailedSince(email, now)
  BY <1>c DEF FailedSince, FailedAttempts
<1>1. ASSUME NEW p \in Proc, NEW e \in Email, LogIn(p, e)
      PROVE  Cardinality(FailedSince(email, now)') + Cardinality(Pending(email)')
                < Limit + Cardinality(Proc)
  <2>1. call' = [call EXCEPT ![p] = [pc |-> "count", email |-> e, started |-> WindowFrom(now)]]
    BY <1>1 DEF LogIn
  <2>2. Pending(email)' \subseteq Pending(email)
    BY <2>1, <1>a DEF Pending
  <2>3. QED
    BY <1>1, <1>c, <2>2, Shrinking DEF LogIn
<1>2. ASSUME NEW p \in Proc, Count(p)
      PROVE  Cardinality(FailedSince(email, now)') + Cardinality(Pending(email)')
                < Limit + Cardinality(Proc)
  <2>1. FailedSince(email, now)' = FailedSince(email, now)
    BY <1>2, <1>c DEF Count
  <2>2. CASE IsLoginRateLimited(p)
    <3>1. Pending(email)' \subseteq Pending(email)
      BY <1>2, <1>b, <2>2 DEF Count
    <3>2. QED
      BY <2>1, <3>1, Shrinking
  <2>3. CASE ~IsLoginRateLimited(p) /\ call[p].email # email
    <3>1. Pending(email)' \subseteq Pending(email)
      BY <1>2, <1>a, <2>3 DEF Count, Pending, Call
    <3>2. QED
      BY <2>1, <3>1, Shrinking
  <2>4. CASE ~IsLoginRateLimited(p) /\ call[p].email = email
    BY <1>2, <2>4, Passing
  <2>5. QED
    BY <2>2, <2>3, <2>4
<1>3. ASSUME NEW p \in Proc, Verify(p)
      PROVE  Cardinality(FailedSince(email, now)') + Cardinality(Pending(email)')
                < Limit + Cardinality(Proc)
  <2>1. Pending(email)' \subseteq Pending(email)
    BY <1>3, <1>a DEF Verify, Pending, Call
  <2>2. QED
    BY <1>3, <1>c, <2>1, Shrinking DEF Verify
<1>4. ASSUME NEW p \in Proc, FailLoginAttempt(p)
      PROVE  Cardinality(FailedSince(email, now)') + Cardinality(Pending(email)')
                < Limit + Cardinality(Proc)
  <2>1. PICK result \in Outcome : CreateAuthAttempt(call[p].email, "failed", result)
    BY <1>4 DEF FailLoginAttempt
  <2>2. call[p].email \in Email /\ Return(p) /\ UNCHANGED now /\ call[p].pc = "fail"
    BY <1>4, <1>a DEF FailLoginAttempt
  <2>3. Pending(email)' \subseteq Pending(email) \ {p}
    BY <2>2, <1>b
  <2>4. CASE call[p].email # email
    BY <2>1, <2>2, <2>3, <2>4, <1>a, CreateAdds, Shrinking
  <2>5. CASE call[p].email = email
    <3>1. p \in Pending(email)
      BY <2>2, <2>5 DEF Pending
    <3>2. PICK a : FailedSince(email, now)' \subseteq FailedSince(email, now) \cup {a}
      BY <2>1, <2>2, <2>5, <1>a, CreateAdds
    <3>3. QED
      BY <2>3, <3>1, <3>2, Recording
  <2>6. QED
    BY <2>4, <2>5
<1>5. ASSUME NEW p \in Proc, Succeed(p)
      PROVE  Cardinality(FailedSince(email, now)') + Cardinality(Pending(email)')
                < Limit + Cardinality(Proc)
  <2>1. PICK result \in Outcome : CreateAuthAttempt(call[p].email, "succeeded", result)
    BY <1>5 DEF Succeed
  <2>2. call[p].email \in Email /\ Return(p) /\ UNCHANGED now
    BY <1>5, <1>a DEF Succeed
  <2>3. FailedSince(email, now)' \subseteq FailedSince(email, now)
    BY <2>1, <2>2, <1>a, CreateAdds
  <2>4. QED
    BY <2>2, <2>3, <1>b, Shrinking
<1>6. ASSUME NEW p \in Proc, Abandon(p)
      PROVE  Cardinality(FailedSince(email, now)') + Cardinality(Pending(email)')
                < Limit + Cardinality(Proc)
  BY <1>6, <1>b, <1>c, Shrinking DEF Abandon
<1>7. CASE Tick
  <2>1. FailedSince(email, now)' \subseteq FailedSince(email, now)
    <3>1. \A a \in attempts : a.created_at + rateLimitLoginDuration \in Nat
      BY <1>a, ThrottleAssumption DEF TInv, TypeOK, Attempt
    <3>2. QED
      BY <1>7, <1>a, <3>1 DEF Tick, FailedSince, FailedAttempts, TInv, TypeOK
  <2>2. Pending(email)' = Pending(email)
    BY <1>7 DEF Tick, Pending
  <2>3. QED
    BY <2>1, <2>2, Shrinking
<1>8. CASE UNCHANGED vars
  <2>1. Pending(email)' = Pending(email)
    BY <1>8 DEF vars, Pending
  <2>2. QED
    BY <1>8, <1>c, <2>1, Shrinking DEF vars
<1>9. QED
  BY <1>1, <1>2, <1>3, <1>4, <1>5, <1>6, <1>7, <1>8 DEF Next

\* Initially nothing has failed.
LEMMA InitFInv == Init => FInv
<1> SUFFICES ASSUME Init
             PROVE  FInv
  OBVIOUS
<1>1. TInv
  BY InitTInv
<1>2. ASSUME NEW email \in Email
      PROVE  Cardinality(FailedSince(email, now)) + Cardinality(Pending(email))
                < Limit + Cardinality(Proc)
  <2>1. FailedSince(email, now) = {} /\ Pending(email) = {}
    BY DEF Init, FailedSince, FailedAttempts, Pending, NoCall
  <2>2. Cardinality(Proc) \in Nat
    BY FS_CardinalityType, ThrottleAssumption
  <2>3. QED
    BY <2>1, <2>2, FS_EmptySet, ThrottleAssumption DEF Limit
<1>3. QED
  BY <1>1, <1>2 DEF FInv, FailureBound, Limit

\* Over any window the failures on record exceed the limit by less than the
\* number of log-ins that run at once.
THEOREM FailureBoundTheorem == Spec => []FailureBound
<1>1. FInv /\ [Next]_vars => FInv'
  <2>1. ASSUME FInv, [Next]_vars
        PROVE  FInv'
    <3>1. TInv'
      BY <2>1, NextTInv DEF FInv
    <3>2. FailureBound'
      BY <2>1, <3>1, BoundStep DEF FailureBound, Limit
    <3>3. QED
      BY <3>1, <3>2 DEF FInv
  <2>2. QED
    BY <2>1
<1>2. FInv => FailureBound
  BY DEF FInv
<1>3. QED
  BY <1>1, <1>2, InitFInv, PTL DEF Spec

(***************************************************************************)
(* The answers.                                                            *)
(***************************************************************************)
RInv == TInv /\ RejectionsAreRecorded

\* A committed failure is one more row for its email, a new one by its id.
LEMMA CreateCounts ==
    ASSUME TInv, UNCHANGED now, NEW email \in Email, NEW outcome, NEW result,
           CreateAuthAttempt(email, outcome, result), TInv'
    PROVE  /\ \A e \in Email :
                 Cardinality(FailedAttempts(e)) <= Cardinality(FailedAttempts(e)')
           /\ outcome = "failed" /\ result # "failed" =>
                 Cardinality(FailedAttempts(email)') = Cardinality(FailedAttempts(email)) + 1
<1>1. \A e \in Email : /\ IsFiniteSet(FailedAttempts(e)) /\ IsFiniteSet(FailedAttempts(e)')
                       /\ Cardinality(FailedAttempts(e)) \in Nat
  <2>1. \A e \in Email : /\ FailedAttempts(e) \in SUBSET attempts
                         /\ FailedAttempts(e)' \in SUBSET attempts'
    BY DEF FailedAttempts
  <2>2. QED
    BY <2>1, FS_Subset, FS_CardinalityType DEF TInv
<1>2. \A e \in Email : FailedAttempts(e) \subseteq FailedAttempts(e)'
  BY DEF CreateAuthAttempt, FailedAttempts
<1>3. \A e \in Email : Cardinality(FailedAttempts(e)) <= Cardinality(FailedAttempts(e)')
  BY <1>1, <1>2, FS_Subset
<1>4. ASSUME outcome = "failed", result # "failed"
      PROVE  Cardinality(FailedAttempts(email)') = Cardinality(FailedAttempts(email)) + 1
  <2> DEFINE new == [id |-> serial, email |-> email, created_at |-> now, outcome |-> outcome]
  <2>1. attempts' = attempts \cup {new}
    BY <1>4 DEF CreateAuthAttempt
  <2>2. new.email = email /\ new.outcome = "failed" /\ new.id = serial
    BY <1>4
  <2>3. \A a \in attempts : a.id # serial
    BY DEF TInv, TypeOK, Attempt
  <2> HIDE DEF new
  <2>4. FailedAttempts(email)' = FailedAttempts(email) \cup {new}
    BY <2>1, <2>2 DEF FailedAttempts
  <2>5. new \notin FailedAttempts(email)
    BY <2>2, <2>3 DEF FailedAttempts
  <2>6. QED
    BY <2>4, <2>5, <1>1, FS_AddElement
<1>5. QED
  BY <1>3, <1>4

\* Every step keeps the answers covered by rows.
LEMMA RejectionStep ==
    ASSUME RInv, [Next]_vars
    PROVE  RejectionsAreRecorded'
<1>a. /\ TInv /\ TInv' /\ rejections \in [Email -> Nat]
      /\ \A p \in Proc : call[p].pc # "idle" => call[p].email \in Email
      /\ \A e \in Email : rejections[e] <= Cardinality(FailedAttempts(e))
  BY NextTInv DEF RInv, TInv, TypeOK, Call, RejectionsAreRecorded
<1>1. CASE UNCHANGED <<attempts, rejections>>
  BY <1>1 DEF RInv, RejectionsAreRecorded, FailedAttempts
<1>2. ASSUME NEW p \in Proc, FailLoginAttempt(p)
      PROVE  RejectionsAreRecorded'
  <2>1. PICK email \in Email, result \in Outcome :
           /\ CreateAuthAttempt(email, "failed", result)
           /\ rejections' = IF Rejected(result)
                            THEN [rejections EXCEPT ![email] = @ + 1]
                            ELSE rejections
    <3>1. call[p].email \in Email
      BY <1>2, <1>a DEF FailLoginAttempt
    <3>2. QED
      BY <1>2, <3>1 DEF FailLoginAttempt
  <2>2. UNCHANGED now
    BY <1>2 DEF FailLoginAttempt
  <2>c. /\ \A e \in Email :
              Cardinality(FailedAttempts(e)) <= Cardinality(FailedAttempts(e)')
        /\ result # "failed" => Cardinality(FailedAttempts(email)')
                                  = Cardinality(FailedAttempts(email)) + 1
    BY <2>1, <2>2, <1>a, CreateCounts
  <2>3. ASSUME NEW e \in Email
        PROVE  rejections'[e] <= Cardinality(FailedAttempts(e)')
    <3>1. /\ Cardinality(FailedAttempts(e)) \in Nat /\ Cardinality(FailedAttempts(e)') \in Nat
          /\ rejections[e] \in Nat
      <4>1. /\ FailedAttempts(e) \in SUBSET attempts
            /\ FailedAttempts(e)' \in SUBSET attempts'
        BY DEF FailedAttempts
      <4>2. QED
        BY <4>1, <1>a, FS_Subset, FS_CardinalityType DEF TInv
    <3>2. CASE Rejected(result) /\ e = email
      <4>1. rejections'[e] = rejections[e] + 1 /\ result # "failed"
        BY <3>2, <2>1, <1>a DEF Rejected
      <4>2. Cardinality(FailedAttempts(e)') = Cardinality(FailedAttempts(e)) + 1
        BY <4>1, <3>2, <2>c
      <4>3. QED
        BY <4>1, <4>2, <3>1, <1>a
    <3>3. CASE ~(Rejected(result) /\ e = email)
      <4>1. rejections'[e] = rejections[e]
        BY <3>3, <2>1, <1>a
      <4>2. QED
        BY <4>1, <2>c, <3>1, <1>a
    <3>4. QED
      BY <3>2, <3>3
  <2>4. QED
    BY <2>3 DEF RejectionsAreRecorded
<1>3. ASSUME NEW p \in Proc, Succeed(p)
      PROVE  RejectionsAreRecorded'
  <2>1. PICK result \in Outcome : CreateAuthAttempt(call[p].email, "succeeded", result)
    BY <1>3 DEF Succeed
  <2>2. call[p].email \in Email /\ UNCHANGED <<now, rejections>>
    BY <1>3, <1>a DEF Succeed
  <2>3. ASSUME NEW e \in Email
        PROVE  rejections'[e] <= Cardinality(FailedAttempts(e)')
    <3>1. Cardinality(FailedAttempts(e)) <= Cardinality(FailedAttempts(e)')
      BY <2>1, <2>2, <1>a, CreateCounts
    <3>2. /\ Cardinality(FailedAttempts(e)) \in Nat /\ Cardinality(FailedAttempts(e)') \in Nat
          /\ rejections[e] \in Nat
      <4>1. /\ FailedAttempts(e) \in SUBSET attempts
            /\ FailedAttempts(e)' \in SUBSET attempts'
        BY DEF FailedAttempts
      <4>2. QED
        BY <4>1, <1>a, FS_Subset, FS_CardinalityType DEF TInv
    <3>3. QED
      BY <2>2, <3>1, <3>2, <1>a
  <2>4. QED
    BY <2>3 DEF RejectionsAreRecorded
<1>4. QED
  BY <1>1, <1>2, <1>3 DEF Next, LogIn, Count, Verify, Abandon, Tick, vars

\* Every ErrInvalidCredentials answer has a failed attempt on record.
THEOREM RejectionsAreRecordedTheorem == Spec => []RejectionsAreRecorded
<1>1. Init => RInv
  <2>1. ASSUME Init
        PROVE  RejectionsAreRecorded
    <3>1. \A e \in Email : FailedAttempts(e) = {}
      BY <2>1 DEF Init, FailedAttempts
    <3>2. QED
      BY <2>1, <3>1, FS_EmptySet DEF Init, RejectionsAreRecorded
  <2>2. QED
    BY <2>1, InitTInv DEF RInv
<1>2. RInv /\ [Next]_vars => RInv'
  BY NextTInv, RejectionStep DEF RInv
<1>3. RInv => RejectionsAreRecorded
  BY DEF RInv
<1>4. QED
  BY <1>1, <1>2, <1>3, PTL DEF Spec
====================================================================================
