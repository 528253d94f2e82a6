---------------------------- MODULE ResetThrottleProofs ----------------------------
(***************************************************************************)
(* What the tiered limit of ResetThrottle guarantees for any number of     *)
(* requests, any emails, any limits and windows, and any faults.           *)
(***************************************************************************)
EXTENDS ResetThrottle, FiniteSetTheorems, TLAPS

TInv == TypeOK /\ IsFiniteSet(attempts) /\ IsFiniteSet(mails)

(***************************************************************************)
(* Type correctness.                                                       *)
(***************************************************************************)

\* An INSERT keeps the table well-typed and finite, whatever its result.
LEMMA CreateType ==
    ASSUME TInv, UNCHANGED now, NEW key \in Key, NEW outcome \in {"succeeded", "failed"},
           NEW result, CreateAuthAttempt(key, outcome, result)
    PROVE  /\ serial' \in Nat /\ attempts' \in SUBSET Attempt /\ IsFiniteSet(attempts')
           /\ \A a \in attempts' : a.id < serial' /\ a.created_at <= now'
<1>1. CASE result = "failed"
  BY <1>1 DEF CreateAuthAttempt, TInv, TypeOK
<1>2. CASE result # "failed"
  <2> DEFINE new == [id |-> serial, key |-> key, created_at |-> now, outcome |-> outcome]
  <2>1. attempts' = attempts \cup {new} /\ serial' = serial + 1
    BY <1>2 DEF CreateAuthAttempt
  <2>2. new \in Attempt /\ new.id = serial /\ new.created_at = now
    BY DEF Attempt, TInv, TypeOK
  <2>3. IsFiniteSet(attempts')
    BY <2>1, FS_AddElement DEF TInv
  <2> HIDE DEF new
  <2>4. \A a \in attempts : a.id \in Nat
    BY DEF TInv, TypeOK, Attempt
  <2>5. QED
    BY <2>1, <2>2, <2>3, <2>4 DEF TInv, TypeOK
<1>3. QED
  BY <1>1, <1>2

\* What a step leaves in place of the request it belongs to.
LEMMA CallTypes ==
    ASSUME TInv, NEW p \in Proc
    PROVE  /\ NoCall \in Call /\ NoCall.pc = "idle" /\ NoCall.started <= now
           /\ call[p].pc # "idle" => call[p].key \in Key
           /\ call[p] \in Call /\ call[p].started <= now
           /\ \A pc \in {"check", "refuse", "mail", "record"} :
                 /\ [call[p] EXCEPT !.pc = pc] \in Call
                 /\ [call[p] EXCEPT !.pc = pc].started <= now
                 /\ [call[p] EXCEPT !.pc = pc].key = call[p].key
BY DEF TInv, TypeOK, Call, NoCall

\* The requests stay well-typed when one returns or proceeds.
LEMMA CallMoves ==
    ASSUME TInv, UNCHANGED now, NEW p \in Proc, call[p].pc # "idle",
           Return(p) \/ \E pc \in {"check", "refuse", "mail", "record"} : Proceed(p, pc)
    PROVE  /\ call' \in [Proc -> Call]
           /\ \A q \in Proc : call'[q].started <= now'
                              /\ (call'[q].pc # "idle" => call'[q].key # None)
<1>1. PICK r \in Call : /\ call' = [call EXCEPT ![p] = r] /\ r.started <= now
                        /\ r.pc # "idle" => r.key # None
  <2>1. CASE Return(p)
    BY <2>1, CallTypes DEF Return
  <2>2. ASSUME NEW pc \in {"check", "refuse", "mail", "record"}, Proceed(p, pc)
        PROVE  \E r \in Call : /\ call' = [call EXCEPT ![p] = r] /\ r.started <= now
                               /\ r.pc # "idle" => r.key # None
    BY <2>2, CallTypes DEF Proceed, TInv, TypeOK
  <2>3. QED
    BY <2>1, <2>2
<1>2. QED
  BY <1>1 DEF TInv, TypeOK

\* The types hold initially.
LEMMA InitTInv == Init => TInv
BY FS_EmptySet DEF Init, TInv, TypeOK, NoCall, Call

\* A mail that is not recorded is counted as missed.
LEMMA MissType ==
    ASSUME TInv, NEW key \in Key, Miss(key) \/ UNCHANGED missed
    PROVE  /\ missed' \in [Key -> Nat]
           /\ \A k \in Key : missed[k] <= missed'[k]
           /\ Miss(key) => missed'[key] = missed[key] + 1
BY DEF TInv, TypeOK, Miss

\* Every step keeps the types.
LEMMA NextTInv == TInv /\ [Next]_vars => TInv'
<1> SUFFICES ASSUME TInv, [Next]_vars
             PROVE  TInv'
  OBVIOUS
<1>1. ASSUME NEW p \in Proc, NEW key \in Key, Request(p, key)
      PROVE  TInv'
  <2> DEFINE new == [pc |-> "count", key |-> key, started |-> now]
  <2>1. new \in Call /\ new.started = now /\ new.key # None
    BY NoneAssumption DEF Call, TInv, TypeOK
  <2>2. call' = [call EXCEPT ![p] = new]
    BY <1>1 DEF Request, WindowsFrom
  <2> HIDE DEF new
  <2>3. QED
    BY <1>1, <2>1, <2>2 DEF Request, TInv, TypeOK
<1>2. ASSUME NEW p \in Proc, Count(p) \/ Check(p)
      PROVE  TInv'
  <2>1. /\ UNCHANGED <<now, attempts, serial, mails, posted, missed>> /\ call[p].pc # "idle"
        /\ Return(p) \/ \E pc \in {"check", "refuse", "mail", "record"} : Proceed(p, pc)
    BY <1>2 DEF Count, Check
  <2>2. QED
    BY <2>1, CallMoves DEF TInv, TypeOK
<1>3. ASSUME NEW p \in Proc, Refuse(p)
      PROVE  TInv'
  <2>1. /\ UNCHANGED <<now, mails, posted, missed>> /\ Return(p) /\ call[p].pc # "idle"
        /\ \E result \in Outcome : CreateAuthAttempt(call[p].key, "failed", result)
    BY <1>3 DEF Refuse
  <2>2. QED
    BY <2>1, CallMoves, CallTypes, CreateType DEF TInv, TypeOK
<1>4. ASSUME NEW p \in Proc, SendMail(p)
      PROVE  TInv'
  <2>1. /\ UNCHANGED <<now, attempts, serial>> /\ call[p].pc # "idle"
        /\ Return(p) \/ \E pc \in {"check", "refuse", "mail", "record"} : Proceed(p, pc)
        /\ Miss(call[p].key) \/ UNCHANGED missed
    BY <1>4 DEF SendMail
  <2> DEFINE new == [id |-> posted, key |-> call[p].key, at |-> now]
  <2>2. \/ UNCHANGED <<mails, posted>>
        \/ posted' = posted + 1 /\ mails' = mails \cup {new}
    BY <1>4 DEF SendMail
  <2>3. new \in Mail /\ new.id = posted /\ new.at = now
    BY <2>1, CallTypes DEF Mail, TInv, TypeOK
  <2>4. \A m \in mails : m.id \in Nat
    BY DEF TInv, TypeOK, Mail
  <2>5. IsFiniteSet(mails \cup {new})
    BY FS_AddElement DEF TInv
  <2> HIDE DEF new
  <2>6. /\ posted' \in Nat /\ mails' \in SUBSET Mail /\ IsFiniteSet(mails')
        /\ \A m \in mails' : m.id < posted' /\ m.at <= now
    <3>1. CASE UNCHANGED <<mails, posted>>
      BY <3>1 DEF TInv, TypeOK
    <3>2. CASE posted' = posted + 1 /\ mails' = mails \cup {new}
      <4>1. \A m \in mails : m.id < posted + 1 /\ m.at <= now
        BY <2>4 DEF TInv, TypeOK
      <4>2. new.id < posted + 1 /\ new.at <= now
        BY <2>3 DEF TInv, TypeOK
      <4>3. QED
        BY <3>2, <4>1, <4>2, <2>3, <2>5 DEF TInv, TypeOK
    <3>3. QED
      BY <2>2, <3>1, <3>2
  <2>7. missed' \in [Key -> Nat]
    BY <2>1, CallTypes, MissType
  <2>8. QED
    BY <2>1, <2>6, <2>7, CallMoves DEF TInv, TypeOK
<1>5. ASSUME NEW p \in Proc, Record(p)
      PROVE  TInv'
  <2>1. /\ UNCHANGED <<now, mails, posted>> /\ Return(p) /\ call[p].pc # "idle"
        /\ \E result \in Outcome : CreateAuthAttempt(call[p].key, "succeeded", result)
        /\ Miss(call[p].key) \/ UNCHANGED missed
    BY <1>5 DEF Record
  <2>2. missed' \in [Key -> Nat]
    BY <2>1, CallTypes, MissType
  <2>3. QED
    BY <2>1, <2>2, CallMoves, CallTypes, CreateType DEF TInv, TypeOK
<1>6. ASSUME NEW p \in Proc, Abandon(p)
      PROVE  TInv'
  <2>1. /\ UNCHANGED <<now, attempts, serial, mails, posted>> /\ Return(p)
        /\ call[p].pc # "idle"
        /\ Miss(call[p].key) \/ UNCHANGED missed
    BY <1>6 DEF Abandon
  <2>2. missed' \in [Key -> Nat]
    BY <2>1, CallTypes, MissType
  <2>3. QED
    BY <2>1, <2>2, CallMoves DEF TInv, TypeOK
<1>7. CASE Tick
  <2>1. \A a \in attempts : a.created_at \in Nat
    BY DEF TInv, TypeOK, Attempt
  <2>2. \A m \in mails : m.at \in Nat
    BY DEF TInv, TypeOK, Mail
  <2>3. \A p \in Proc : call[p].started \in Nat
    BY DEF TInv, TypeOK, Call
  <2>4. QED
    BY <1>7, <2>1, <2>2, <2>3 DEF Tick, TInv, TypeOK
<1>8. CASE UNCHANGED vars
  BY <1>8 DEF vars, TInv, TypeOK
<1>9. QED
  BY <1>1, <1>2, <1>3, <1>4, <1>5, <1>6, <1>7, <1>8 DEF Next

\* The types hold in every reachable state.
THEOREM ThrottleTypeCorrect == Spec => []TypeOK
<1>1. TInv => TypeOK
  BY DEF TInv
<1>2. QED
  BY <1>1, InitTInv, NextTInv, PTL DEF Spec

(***************************************************************************)
(* The bound on attempts, for either tier: a window and its limit.         *)
(***************************************************************************)
Below(key, window, limit) ==
    Cardinality(Since(key, now, window)) + Cardinality(Pending(key))
       < limit + Cardinality(Proc)

\* Passing the count means that the window held less than the limit.
Asked(key, window, limit) ==
    \A time \in Nat : ~IsTieredRateLimited(key, time) =>
                         Cardinality(Since(key, time, window)) < limit

\* The sets that are counted are finite.
LEMMA FiniteSets ==
    ASSUME TInv, NEW key \in Key, NEW time, NEW window
    PROVE  /\ IsFiniteSet(Since(key, time, window))
           /\ Cardinality(Since(key, time, window)) \in Nat
           /\ IsFiniteSet(MailsSince(key, time, window))
           /\ Cardinality(MailsSince(key, time, window)) \in Nat
           /\ IsFiniteSet(Pending(key)) /\ Cardinality(Pending(key)) \in Nat
           /\ Cardinality(Proc) \in Nat
<1>1. Since(key, time, window) \in SUBSET attempts /\ MailsSince(key, time, window) \in SUBSET mails
  BY DEF Since, MailsSince
<1>2. Pending(key) \in SUBSET Proc
  BY DEF Pending
<1>3. IsFiniteSet(attempts) /\ IsFiniteSet(mails) /\ IsFiniteSet(Proc)
  BY ThrottleAssumption DEF TInv
<1>4. QED
  BY <1>1, <1>2, <1>3, FS_Subset, FS_CardinalityType

\* Both tiers are asked.
LEMMA BothAsked ==
    ASSUME TInv, NEW key \in Key
    PROVE  Asked(key, ShortWindow, ShortAllowed) /\ Asked(key, LongWindow, LongAllowed)
<1>1. ASSUME NEW time \in Nat, ~IsTieredRateLimited(key, time)
      PROVE  /\ Cardinality(Since(key, time, ShortWindow)) < ShortAllowed
             /\ Cardinality(Since(key, time, LongWindow)) < LongAllowed
  <2> DEFINE recent == {a \in Since(key, time, LongWindow) : a.created_at + ShortWindow >= time}
  <2>1. recent = Since(key, time, ShortWindow)
    <3>1. \A a \in attempts : a.created_at \in Nat
      BY DEF TInv, TypeOK, Attempt
    <3>2. QED
      BY <3>1, ThrottleAssumption DEF Since
  <2>2. ~(Cardinality(recent) >= ShortAllowed)
        /\ ~(Cardinality(Since(key, time, LongWindow)) >= LongAllowed)
    BY <1>1 DEF IsTieredRateLimited, CountTieredAuthAttempts
  <2> HIDE DEF recent
  <2>3. /\ Cardinality(Since(key, time, ShortWindow)) \in Nat
        /\ Cardinality(Since(key, time, LongWindow)) \in Nat
    BY FiniteSets
  <2>4. QED
    BY <2>1, <2>2, <2>3, ThrottleAssumption
<1>2. QED
  BY <1>1 DEF Asked

\* The bound survives when neither set grows ...
LEMMA Shrinking ==
    ASSUME TInv, NEW key \in Key, NEW window, NEW limit \in Nat, Below(key, window, limit),
           Since(key, now, window)' \subseteq Since(key, now, window),
           Pending(key)' \subseteq Pending(key)
    PROVE  Below(key, window, limit)'
<1>1. /\ IsFiniteSet(Since(key, now, window)) /\ Cardinality(Since(key, now, window)) \in Nat
      /\ IsFiniteSet(Pending(key)) /\ Cardinality(Pending(key)) \in Nat
      /\ Cardinality(Proc) \in Nat
  BY FiniteSets
<1>2. /\ Cardinality(Since(key, now, window)') <= Cardinality(Since(key, now, window))
      /\ Cardinality(Since(key, now, window)') \in Nat
  BY <1>1, FS_Subset, FS_CardinalityType
<1>3. /\ Cardinality(Pending(key)') <= Cardinality(Pending(key))
      /\ Cardinality(Pending(key)') \in Nat
  BY <1>1, FS_Subset, FS_CardinalityType
<1>4. QED
  BY <1>1, <1>2, <1>3 DEF Below

\* ... when a request under way turns into an attempt ...
LEMMA Recording ==
    ASSUME TInv, NEW key \in Key, NEW window, NEW limit \in Nat, Below(key, window, limit),
           NEW p \in Pending(key), NEW a,
           Since(key, now, window)' \subseteq Since(key, now, window) \cup {a},
           Pending(key)' \subseteq Pending(key) \ {p}
    PROVE  Below(key, window, limit)'
<1> DEFINE S == Since(key, now, window)
           P == Pending(key)
<1>1. /\ IsFiniteSet(S) /\ Cardinality(S) \in Nat
      /\ IsFiniteSet(P) /\ Cardinality(P) \in Nat
      /\ Cardinality(Proc) \in Nat
  BY FiniteSets
<1>2. /\ IsFiniteSet(S \cup {a}) /\ Cardinality(S \cup {a}) <= Cardinality(S) + 1
      /\ Cardinality(S \cup {a}) \in Nat
  <2> HIDE DEF S
  <2>1. /\ IsFiniteSet(S \cup {a})
        /\ Cardinality(S \cup {a}) = IF a \in S THEN Cardinality(S) ELSE Cardinality(S) + 1
    BY <1>1, FS_AddElement
  <2>2. QED
    BY <1>1, <2>1
<1>3. /\ IsFiniteSet(P \ {p}) /\ Cardinality(P \ {p}) = Cardinality(P) - 1
      /\ Cardinality(P \ {p}) \in Nat
  BY <1>1, FS_RemoveElement, FS_CardinalityType
<1>4. Cardinality(S') <= Cardinality(S \cup {a}) /\ Cardinality(S') \in Nat
  BY <1>2, FS_Subset, FS_CardinalityType
<1>5. Cardinality(P') <= Cardinality(P \ {p}) /\ Cardinality(P') \in Nat
  BY <1>3, FS_Subset, FS_CardinalityType
<1>6. Cardinality(S) + Cardinality(P) < limit + Cardinality(Proc)
  BY DEF Below
<1> HIDE DEF S, P
<1>7. Cardinality(S') + Cardinality(P') < limit + Cardinality(Proc)
  BY <1>1, <1>2, <1>3, <1>4, <1>5, <1>6
<1>8. QED
  BY <1>7 DEF S, P, Below

\* ... and when a request passes its count, which looked back further.
LEMMA Passing ==
    ASSUME TInv, NEW p \in Proc, Count(p), NEW key \in Key, key = call[p].key,
           ~IsTieredRateLimited(key, call[p].started),
           NEW window \in Nat, NEW limit \in Nat, Asked(key, window, limit)
    PROVE  Below(key, window, limit)'
<1> DEFINE G == Since(key, call[p].started, window)
           S == Since(key, now, window)
           P == Pending(key)
<1>1. /\ IsFiniteSet(G) /\ Cardinality(G) \in Nat /\ Cardinality(Proc) \in Nat
  BY FiniteSets
<1>2. call[p].started <= now /\ call[p].started \in Nat /\ now \in Nat
  BY DEF TInv, TypeOK, Call
<1>3. S' \subseteq G
  <2>1. \A a \in attempts : a.created_at + window \in Nat
    BY DEF TInv, TypeOK, Attempt
  <2>2. UNCHANGED <<now, attempts>>
    BY DEF Count
  <2>3. QED
    BY <1>2, <2>1, <2>2 DEF Since
<1>4. Cardinality(G) < limit
  BY <1>2 DEF Asked
<1>5. Cardinality(S') <= Cardinality(G) /\ Cardinality(S') \in Nat
  BY <1>1, <1>3, FS_Subset, FS_CardinalityType
<1>6. Cardinality(P') <= Cardinality(Proc) /\ Cardinality(P') \in Nat
  <2>1. P' \in SUBSET Proc
    BY DEF Pending
  <2>2. QED
    BY <2>1, FS_Subset, FS_CardinalityType, ThrottleAssumption
<1> HIDE DEF G, S, P
<1>7. Cardinality(S') + Cardinality(P') < limit + Cardinality(Proc)
  BY <1>1, <1>4, <1>5, <1>6
<1>8. QED
  BY <1>7 DEF S, P, Below

\* What an INSERT adds to a window: for its own key at most the new row, for
\* the others nothing.
LEMMA CreateAdds ==
    ASSUME TInv, UNCHANGED now, NEW k \in Key, NEW outcome, NEW result,
           CreateAuthAttempt(k, outcome, result), NEW window
    PROVE  /\ \A key \in Key : key # k => Since(key, now, window)' \subseteq Since(key, now, window)
           /\ \E a : Since(k, now, window)' \subseteq Since(k, now, window) \cup {a}
<1>1. CASE result = "failed"
  BY <1>1 DEF CreateAuthAttempt, Since
<1>2. CASE result # "failed"
  <2> DEFINE new == [id |-> serial, key |-> k, created_at |-> now, outcome |-> outcome]
  <2>1. attempts' = attempts \cup {new}
    BY <1>2 DEF CreateAuthAttempt
  <2>2. new.key = k
    OBVIOUS
  <2> HIDE DEF new
  <2>3. \A key \in Key : Since(key, now, window)' \subseteq Since(key, now, window) \cup {new}
    BY <2>1 DEF Since
  <2>4. \A key \in Key : key # k => new \notin Since(key, now, window)'
    BY <2>2 DEF Since
  <2>5. QED
    BY <2>3, <2>4
<1>3. QED
  BY <1>1, <1>2

\* Every step keeps the bound of a tier that the count asks.
LEMMA BoundStep ==
    ASSUME TInv, [Next]_vars, NEW key \in Key, NEW window \in Nat, NEW limit \in Nat,
           Asked(key, window, limit), Below(key, window, limit)
    PROVE  Below(key, window, limit)'
<1>a. /\ call \in [Proc -> Call]
      /\ \A p \in Proc : call[p].pc # "idle" => call[p].key \in Key
  BY DEF TInv, TypeOK, Call
<1>b. ASSUME NEW p \in Proc, Return(p)
      PROVE  Pending(key)' \subseteq Pending(key) \ {p}
  BY <1>a, <1>b DEF Pending, Return, NoCall
<1>c. ASSUME UNCHANGED <<now, attempts>>
      PROVE  Since(key, now, window)' = Since(key, now, window)
  BY <1>c DEF Since
<1>1. ASSUME NEW p \in Proc, NEW k \in Key, Request(p, k)
      PROVE  Below(key, window, limit)'
  <2>1. call' = [call EXCEPT ![p] = [pc |-> "count", key |-> k, started |-> WindowsFrom(now)]]
    BY <1>1 DEF Request
  <2>2. Pending(key)' \subseteq Pending(key)
    BY <2>1, <1>a DEF Pending
  <2>3. QED
    BY <1>1, <1>c, <2>2, Shrinking DEF Request
<1>2. ASSUME NEW p \in Proc, Count(p)
      PROVE  Below(key, window, limit)'
  <2>1. Since(key, now, window)' = Since(key, now, window)
    BY <1>2, <1>c DEF Count
  <2>2. CASE IsTieredRateLimited(call[p].key, call[p].started)
    <3>1. Pending(key)' \subseteq Pending(key)
      BY <1>2, <1>b, <2>2 DEF Count
    <3>2. QED
      BY <2>1, <3>1, Shrinking
  <2>3. CASE ~IsTieredRateLimited(call[p].key, call[p].started) /\ call[p].key # key
    <3>1. Pending(key)' \subseteq Pending(key)
      BY <1>2, <1>a, <2>3 DEF Count, Proceed, Pending, Call
    <3>2. QED
      BY <2>1, <3>1, Shrinking
  <2>4. CASE ~IsTieredRateLimited(call[p].key, call[p].started) /\ call[p].key = key
    BY <1>2, <2>4, Passing
  <2>5. QED
    BY <2>2, <2>3, <2>4
<1>3. ASSUME NEW p \in Proc, Check(p) \/ SendMail(p)
      PROVE  Below(key, window, limit)'
  <2>1. UNCHANGED <<now, attempts>> /\ call[p].pc \in {"check", "mail"}
        /\ (Return(p) \/ \E pc \in {"refuse", "mail", "record"} : Proceed(p, pc))
    BY <1>3 DEF Check, SendMail
  <2>2. Pending(key)' \subseteq Pending(key)
    <3>1. CASE Return(p)
      BY <3>1, <1>b
    <3>2. ASSUME NEW pc \in {"refuse", "mail", "record"}, Proceed(p, pc)
          PROVE  Pending(key)' \subseteq Pending(key)
      BY <1>a, <2>1, <3>2 DEF Proceed, Pending, Call
    <3>3. QED
      BY <2>1, <3>1, <3>2
  <2>3. QED
    BY <2>1, <1>c, <2>2, Shrinking
<1>4. ASSUME NEW p \in Proc, Refuse(p) \/ Record(p)
      PROVE  Below(key, window, limit)'
  <2>1. \E outcome, result : CreateAuthAttempt(call[p].key, outcome, result)
    BY <1>4 DEF Refuse, Record
  <2>2. PICK outcome, result : CreateAuthAttempt(call[p].key, outcome, result)
    BY <2>1
  <2>3. /\ call[p].key \in Key /\ Return(p) /\ UNCHANGED now
        /\ call[p].pc \in {"refuse", "record"}
    BY <1>4, <1>a DEF Refuse, Record
  <2>4. Pending(key)' \subseteq Pending(key) \ {p}
    BY <2>3, <1>b
  <2>5. CASE call[p].key # key
    BY <2>2, <2>3, <2>4, <2>5, CreateAdds, Shrinking
  <2>6. CASE call[p].key = key
    <3>1. p \in Pending(key)
      BY <2>3, <2>6 DEF Pending
    <3>2. PICK a : Since(key, now, window)' \subseteq Since(key, now, window) \cup {a}
      BY <2>2, <2>3, <2>6, CreateAdds
    <3>3. QED
      BY <2>4, <3>1, <3>2, Recording
  <2>7. QED
    BY <2>5, <2>6
<1>5. ASSUME NEW p \in Proc, Abandon(p)
      PROVE  Below(key, window, limit)'
  BY <1>5, <1>b, <1>c, Shrinking DEF Abandon
<1>6. CASE Tick
  <2>1. Since(key, now, window)' \subseteq Since(key, now, window)
    <3>1. \A a \in attempts : a.created_at + window \in Nat
      BY DEF TInv, TypeOK, Attempt
    <3>2. QED
      BY <1>6, <3>1 DEF Tick, Since, TInv, TypeOK
  <2>2. Pending(key)' = Pending(key)
    BY <1>6 DEF Tick, Pending
  <2>3. QED
    BY <2>1, <2>2, Shrinking
<1>7. CASE UNCHANGED vars
  <2>1. Pending(key)' = Pending(key)
    BY <1>7 DEF vars, Pending
  <2>2. QED
    BY <1>7, <1>c, <2>1, Shrinking DEF vars
<1>8. QED
  BY <1>1, <1>2, <1>3, <1>4, <1>5, <1>6, <1>7 DEF Next

AInv == TInv /\ AttemptBound

\* The bound on attempts is the bound of both tiers.
LEMMA BothBelow ==
    AttemptBound <=> \A key \in Key : /\ Below(key, ShortWindow, ShortAllowed)
                                      /\ Below(key, LongWindow, LongAllowed)
BY DEF AttemptBound, Below

\* It holds initially, when nothing has been asked for ...
LEMMA InitAInv == Init => AInv
<1> SUFFICES ASSUME Init
             PROVE  AInv
  OBVIOUS
<1>1. ASSUME NEW key \in Key, NEW window, NEW limit \in Nat \ {0}
      PROVE  Below(key, window, limit)
  <2>1. Since(key, now, window) = {} /\ Pending(key) = {}
    BY DEF Init, Since, Pending, NoCall
  <2>2. Cardinality(Proc) \in Nat
    BY FS_CardinalityType, ThrottleAssumption
  <2>3. QED
    BY <2>1, <2>2, FS_EmptySet DEF Below
<1>2. QED
  BY <1>1, InitTInv, BothBelow, ThrottleAssumption DEF AInv

\* ... and after every step.
LEMMA NextAInv == AInv /\ [Next]_vars => AInv'
<1> SUFFICES ASSUME AInv, [Next]_vars
             PROVE  AInv'
  OBVIOUS
<1>1. TInv /\ TInv'
  BY NextTInv DEF AInv
<1>2. ASSUME NEW key \in Key
      PROVE  Below(key, ShortWindow, ShortAllowed)' /\ Below(key, LongWindow, LongAllowed)'
  <2>1. Asked(key, ShortWindow, ShortAllowed) /\ Asked(key, LongWindow, LongAllowed)
    BY <1>1, BothAsked
  <2>2. Below(key, ShortWindow, ShortAllowed) /\ Below(key, LongWindow, LongAllowed)
    BY BothBelow DEF AInv
  <2>3. QED
    BY <1>1, <2>1, <2>2, BoundStep, ThrottleAssumption
<1>3. AttemptBound'
  BY <1>2 DEF AttemptBound, Below
<1>4. QED
  BY <1>1, <1>3 DEF AInv

\* In both windows the attempts on record and still to come exceed the limit
\* by less than the number of requests that run at once.
THEOREM AttemptBoundTheorem == Spec => []AttemptBound
<1>1. AInv => AttemptBound
  BY DEF AInv
<1>2. QED
  BY <1>1, InitAInv, NextAInv, PTL DEF Spec

(***************************************************************************)
(* The bound on mails.  A mail since some time is matched by an attempt    *)
(* recorded since then, or by a request about to record one, or it is      *)
(* counted as missed.                                                      *)
(***************************************************************************)
InFlight(key) == {p \in Proc : call[p].pc = "record" /\ call[p].key = key}

Matched(key, time, window) ==
    Cardinality(MailsSince(key, time, window))
       <= Cardinality(Since(key, time, window)) + Cardinality(InFlight(key)) + missed[key]

MInv == AInv /\ \A key \in Key, time \in Nat, window \in Nat : Matched(key, time, window)

\* The numbers that are compared.
LEMMA Numbers ==
    ASSUME TInv, NEW key \in Key, NEW time, NEW window
    PROVE  /\ IsFiniteSet(MailsSince(key, time, window))
           /\ Cardinality(MailsSince(key, time, window)) \in Nat
           /\ IsFiniteSet(Since(key, time, window))
           /\ Cardinality(Since(key, time, window)) \in Nat
           /\ IsFiniteSet(InFlight(key)) /\ Cardinality(InFlight(key)) \in Nat
           /\ missed[key] \in Nat
<1>1. InFlight(key) \in SUBSET Proc
  BY DEF InFlight
<1>2. QED
  BY <1>1, FiniteSets, FS_Subset, FS_CardinalityType, ThrottleAssumption DEF TInv, TypeOK

\* Other keys' requests change nothing that is matched for a key: the match
\* survives when its mails stay and its attempts, requests and misses do not
\* decrease.
LEMMA MatchKept ==
    ASSUME TInv, TInv', NEW key \in Key, NEW time \in Nat, NEW window \in Nat,
           Matched(key, time, window),
           MailsSince(key, time, window)' = MailsSince(key, time, window),
           Since(key, time, window) \subseteq Since(key, time, window)',
           InFlight(key) \subseteq InFlight(key)', missed[key] <= missed'[key]
    PROVE  Matched(key, time, window)'
<1> DEFINE S == Since(key, time, window)
           F == InFlight(key)
<1>1. /\ Cardinality(S) \in Nat /\ Cardinality(F) \in Nat
      /\ Cardinality(MailsSince(key, time, window)) \in Nat /\ missed[key] \in Nat
  BY Numbers
<1>2. /\ IsFiniteSet(S') /\ Cardinality(S') \in Nat /\ IsFiniteSet(F') /\ Cardinality(F') \in Nat
      /\ missed'[key] \in Nat
  <2>1. /\ S' \in SUBSET attempts' /\ F' \in SUBSET Proc
    BY DEF Since, InFlight
  <2>2. IsFiniteSet(attempts') /\ IsFiniteSet(Proc) /\ missed'[key] \in Nat
    BY ThrottleAssumption DEF TInv, TypeOK
  <2>3. QED
    BY <2>1, <2>2, FS_Subset, FS_CardinalityType
<1>3. Cardinality(S) <= Cardinality(S') /\ Cardinality(F) <= Cardinality(F')
  BY <1>2, FS_Subset
<1>4. Cardinality(MailsSince(key, time, window))
         <= Cardinality(S) + Cardinality(F) + missed[key]
  BY DEF Matched
<1> HIDE DEF S, F
<1>5. Cardinality(MailsSince(key, time, window)')
         <= Cardinality(S') + Cardinality(F') + missed'[key]
  BY <1>1, <1>2, <1>3, <1>4
<1>6. QED
  BY <1>5 DEF S, F, Matched

\* Mailing adds one mail and either one request about to record or one miss.
LEMMA MatchMailed ==
    ASSUME TInv, TInv', NEW p \in Proc, SendMail(p), NEW key \in Key, key = call[p].key,
           posted' = posted + 1,
           NEW time \in Nat, NEW window \in Nat, Matched(key, time, window)
    PROVE  Matched(key, time, window)'
<1> DEFINE S == Since(key, time, window)
           F == InFlight(key)
           M == MailsSince(key, time, window)
           new == [id |-> posted, key |-> key, at |-> now]
<1>1. /\ Cardinality(S) \in Nat /\ IsFiniteSet(F) /\ Cardinality(F) \in Nat
      /\ IsFiniteSet(M) /\ Cardinality(M) \in Nat /\ missed[key] \in Nat
  BY Numbers
<1>2. /\ call[p].pc = "mail" /\ UNCHANGED <<now, attempts, serial>>
      /\ mails' = mails \cup {new}
      /\ \/ Proceed(p, "record") /\ UNCHANGED missed
         \/ Return(p) /\ Miss(key)
  <2>1. posted \in Nat /\ posted # posted + 1
    BY DEF TInv, TypeOK
  <2>2. PICK result \in Outcome :
           /\ IF result = "failed"
              THEN UNCHANGED <<mails, posted>>
              ELSE /\ posted' = posted + 1
                   /\ mails' = mails \cup {[id |-> posted, key |-> call[p].key, at |-> now]}
           /\ IF result = "ok" THEN Proceed(p, "record") ELSE Return(p)
           /\ IF result = "unknown" THEN Miss(call[p].key) ELSE UNCHANGED missed
    BY DEF SendMail
  <2>3. result # "failed" /\ result \in {"ok", "unknown"}
    BY <2>1, <2>2 DEF Outcome
  <2>4. QED
    BY <2>2, <2>3 DEF SendMail
<1>3. S' = S
  BY <1>2 DEF Since
<1>4. Cardinality(M') <= Cardinality(M) + 1 /\ Cardinality(M') \in Nat
  <2>1. M' \subseteq M \cup {new}
    BY <1>2 DEF MailsSince
  <2> HIDE DEF M, new
  <2>2. /\ IsFiniteSet(M \cup {new})
        /\ Cardinality(M \cup {new}) = IF new \in M THEN Cardinality(M) ELSE Cardinality(M) + 1
    BY <1>1, FS_AddElement
  <2>3. Cardinality(M \cup {new}) <= Cardinality(M) + 1 /\ Cardinality(M \cup {new}) \in Nat
    BY <1>1, <2>2
  <2>4. Cardinality(M') <= Cardinality(M \cup {new}) /\ Cardinality(M') \in Nat
    BY <2>1, <2>2, FS_Subset, FS_CardinalityType
  <2>5. QED
    BY <1>1, <2>3, <2>4
<1>5. \/ Cardinality(F') = Cardinality(F) + 1 /\ missed'[key] = missed[key]
      \/ Cardinality(F') = Cardinality(F) /\ missed'[key] = missed[key] + 1
  <2>1. CASE Proceed(p, "record") /\ UNCHANGED missed
    <3>1. F' = F \cup {p}
      BY <1>2, <2>1 DEF InFlight, Proceed, TInv, TypeOK, Call
    <3>2. p \notin F
      BY <1>2 DEF InFlight
    <3> HIDE DEF F
    <3>3. QED
      BY <1>1, <2>1, <3>1, <3>2, FS_AddElement
  <2>2. CASE Return(p) /\ Miss(key)
    <3>1. F' = F
      BY <1>2, <2>2 DEF InFlight, Return, NoCall, TInv, TypeOK
    <3>2. missed'[key] = missed[key] + 1
      BY <2>2, MissType
    <3>3. QED
      BY <3>1, <3>2
  <2>3. QED
    BY <1>2, <2>1, <2>2
<1>6. Cardinality(M) <= Cardinality(S) + Cardinality(F) + missed[key]
  BY DEF Matched
<1> HIDE DEF S, F, M
<1>7. Cardinality(M') <= Cardinality(S') + Cardinality(F') + missed'[key]
  BY <1>1, <1>3, <1>4, <1>5, <1>6
<1>8. QED
  BY <1>7 DEF S, F, M, Matched

\* A request about to record either adds an attempt, later than its mail, or
\* is counted as missed.
LEMMA MatchRecorded ==
    ASSUME TInv, TInv', NEW p \in Proc, call[p].pc = "record", NEW key \in Key,
           key = call[p].key, Return(p), UNCHANGED <<now, mails>>,
           NEW time \in Nat, NEW window \in Nat, Matched(key, time, window),
           \/ Miss(key) /\ attempts \subseteq attempts'
           \/ UNCHANGED missed /\ \E outcome, result : /\ CreateAuthAttempt(key, outcome, result)
                                                       /\ result # "failed"
    PROVE  Matched(key, time, window)'
<1> DEFINE S == Since(key, time, window)
           F == InFlight(key)
           M == MailsSince(key, time, window)
<1>1. /\ IsFiniteSet(S) /\ Cardinality(S) \in Nat /\ IsFiniteSet(F) /\ Cardinality(F) \in Nat
      /\ IsFiniteSet(M) /\ Cardinality(M) \in Nat /\ missed[key] \in Nat
  BY Numbers
<1>2. M' = M
  BY DEF MailsSince
<1>3. Cardinality(F') = Cardinality(F) - 1 /\ Cardinality(F') \in Nat
  <2>1. F' = F \ {p} /\ p \in F
    BY DEF InFlight, Return, NoCall, TInv, TypeOK
  <2> HIDE DEF F
  <2>2. /\ IsFiniteSet(F \ {p}) /\ Cardinality(F \ {p}) = Cardinality(F) - 1
    BY <1>1, <2>1, FS_RemoveElement
  <2>3. QED
    BY <2>1, <2>2, FS_CardinalityType
<1>4. IsFiniteSet(S') /\ Cardinality(S') \in Nat
  <2>1. S' \in SUBSET attempts'
    BY DEF Since
  <2>2. QED
    BY <2>1, FS_Subset, FS_CardinalityType DEF TInv
<1>5. Cardinality(M) <= Cardinality(S) + Cardinality(F) + missed[key]
  BY DEF Matched
<1>6. CASE Miss(key) /\ attempts \subseteq attempts'
  <2>1. S \subseteq S'
    BY <1>6 DEF Since
  <2>2. Cardinality(S) <= Cardinality(S')
    BY <2>1, <1>4, FS_Subset
  <2>3. missed'[key] = missed[key] + 1
    BY <1>6, MissType
  <2> HIDE DEF S, F, M
  <2>4. Cardinality(M') <= Cardinality(S') + Cardinality(F') + missed'[key]
    BY <1>1, <1>2, <1>3, <1>4, <1>5, <2>2, <2>3
  <2>5. QED
    BY <2>4 DEF S, F, M, Matched
<1>7. ASSUME NEW outcome, NEW result, CreateAuthAttempt(key, outcome, result),
             result # "failed", UNCHANGED missed
      PROVE  Matched(key, time, window)'
  <2> DEFINE new == [id |-> serial, key |-> key, created_at |-> now, outcome |-> outcome]
  <2>1. attempts' = attempts \cup {new} /\ new.key = key /\ new.created_at = now
    BY <1>7 DEF CreateAuthAttempt
  <2>2. new \notin attempts
    BY DEF TInv, TypeOK
  <2> HIDE DEF new
  <2>3. CASE now + window >= time
    <3>1. S' = S \cup {new} /\ new \notin S
      BY <2>1, <2>2, <2>3 DEF Since
    <3> HIDE DEF S, F, M
    <3>2. Cardinality(S') = Cardinality(S) + 1
      BY <1>1, <3>1, FS_AddElement
    <3>3. Cardinality(M') <= Cardinality(S') + Cardinality(F') + missed'[key]
      BY <1>1, <1>2, <1>3, <1>4, <1>5, <1>7, <3>2
    <3>4. QED
      BY <3>3 DEF S, F, M, Matched
  <2>4. CASE ~(now + window >= time)
    <3>1. \A m \in mails : m.at \in Nat /\ m.at <= now /\ now \in Nat
      BY DEF TInv, TypeOK, Mail
    <3>2. M = {}
      BY <2>4, <3>1 DEF MailsSince
    <3>3. Cardinality(M') = 0
      BY <1>2, <3>2, FS_EmptySet
    <3> HIDE DEF S, F, M
    <3>4. Cardinality(M') <= Cardinality(S') + Cardinality(F') + missed'[key]
      BY <1>1, <1>3, <1>4, <1>7, <3>3
    <3>5. QED
      BY <3>4 DEF S, F, M, Matched
  <2>5. QED
    BY <2>3, <2>4
<1>8. QED
  BY <1>6, <1>7

\* Every step keeps every mail matched.
LEMMA MatchStep ==
    ASSUME MInv, TInv', [Next]_vars, NEW key \in Key, NEW time \in Nat, NEW window \in Nat
    PROVE  Matched(key, time, window)'
<1>a. /\ TInv /\ call \in [Proc -> Call] /\ Matched(key, time, window)
      /\ \A p \in Proc : call[p].pc # "idle" => call[p].key \in Key
      /\ missed[key] \in Nat
  BY DEF MInv, AInv, TInv, TypeOK, Call
<1>b. ASSUME UNCHANGED mails
      PROVE  MailsSince(key, time, window)' = MailsSince(key, time, window)
  BY <1>b DEF MailsSince
<1>c. ASSUME attempts \subseteq attempts'
      PROVE  Since(key, time, window) \subseteq Since(key, time, window)'
  BY <1>c DEF Since
<1>d. ASSUME NEW k, NEW outcome, NEW result, CreateAuthAttempt(k, outcome, result)
      PROVE  attempts \subseteq attempts'
  BY <1>d DEF CreateAuthAttempt
<1>1. ASSUME NEW p \in Proc, NEW k \in Key, Request(p, k)
      PROVE  Matched(key, time, window)'
  <2>1. call' = [call EXCEPT ![p] = [pc |-> "count", key |-> k, started |-> WindowsFrom(now)]]
        /\ call[p].pc = "idle" /\ UNCHANGED <<attempts, mails, missed>>
    BY <1>1 DEF Request
  <2>2. InFlight(key) \subseteq InFlight(key)'
    BY <2>1, <1>a DEF InFlight
  <2>3. missed[key] <= missed'[key]
    BY <1>a, <2>1
  <2>4. QED
    BY <2>1, <2>2, <2>3, <1>a, <1>b, <1>c, MatchKept
<1>2. ASSUME NEW p \in Proc, Count(p) \/ Check(p)
      PROVE  Matched(key, time, window)'
  <2>1. /\ UNCHANGED <<attempts, mails, missed>> /\ call[p].pc \in {"count", "check"}
        /\ (Return(p) \/ \E pc \in {"check", "refuse", "mail"} : Proceed(p, pc))
    BY <1>2 DEF Count, Check
  <2>2. InFlight(key) \subseteq InFlight(key)'
    BY <2>1, <1>a DEF InFlight, Return, Proceed
  <2>3. missed[key] <= missed'[key]
    BY <1>a, <2>1
  <2>4. QED
    BY <2>1, <2>2, <2>3, <1>a, <1>b, <1>c, MatchKept
<1>3. ASSUME NEW p \in Proc, Refuse(p)
      PROVE  Matched(key, time, window)'
  <2>1. /\ UNCHANGED <<mails, missed>> /\ call[p].pc = "refuse" /\ Return(p)
        /\ attempts \subseteq attempts'
    BY <1>3, <1>d DEF Refuse
  <2>2. InFlight(key) \subseteq InFlight(key)'
    BY <2>1, <1>a DEF InFlight, Return
  <2>3. missed[key] <= missed'[key]
    BY <1>a, <2>1
  <2>4. QED
    BY <2>1, <2>2, <2>3, <1>a, <1>b, <1>c, MatchKept
<1>4. ASSUME NEW p \in Proc, SendMail(p)
      PROVE  Matched(key, time, window)'
  <2> DEFINE new == [id |-> posted, key |-> call[p].key, at |-> now]
  <2>1. /\ call[p].pc = "mail" /\ call[p].key \in Key /\ UNCHANGED attempts
        /\ Return(p) \/ Proceed(p, "record")
        /\ Miss(call[p].key) \/ UNCHANGED missed
        /\ \/ UNCHANGED <<mails, posted>>
           \/ posted' = posted + 1 /\ mails' = mails \cup {new}
    BY <1>4, <1>a DEF SendMail
  <2>2. InFlight(key) \subseteq InFlight(key)'
    BY <2>1, <1>a DEF InFlight, Return, Proceed, Call
  <2>3. missed[key] <= missed'[key]
    BY <2>1, <1>a, MissType
  <2>4. CASE UNCHANGED <<mails, posted>>
    BY <2>1, <2>2, <2>3, <2>4, <1>a, <1>b, <1>c, MatchKept
  <2>5. CASE posted' = posted + 1 /\ mails' = mails \cup {new} /\ call[p].key # key
    <3>1. MailsSince(key, time, window)' = MailsSince(key, time, window)
      BY <2>5 DEF MailsSince
    <3>2. QED
      BY <2>1, <2>2, <2>3, <3>1, <1>a, <1>c, MatchKept
  <2>6. CASE posted' = posted + 1 /\ call[p].key = key
    BY <1>4, <2>6, <1>a, MatchMailed
  <2>7. QED
    BY <2>1, <2>4, <2>5, <2>6
<1>5. ASSUME NEW p \in Proc, Record(p) \/ (Abandon(p) /\ call[p].pc = "record")
      PROVE  Matched(key, time, window)'
  <2>1. /\ UNCHANGED <<now, mails>> /\ call[p].pc = "record" /\ Return(p)
        /\ call[p].key \in Key /\ attempts \subseteq attempts'
        /\ \/ Miss(call[p].key)
           \/ /\ UNCHANGED missed
              /\ \E outcome, result : /\ CreateAuthAttempt(call[p].key, outcome, result)
                                      /\ result # "failed"
    BY <1>5, <1>a, <1>d DEF Record, Abandon
  <2>2. CASE call[p].key = key
    BY <2>1, <2>2, <1>a, MatchRecorded
  <2>3. CASE call[p].key # key
    <3>1. InFlight(key) \subseteq InFlight(key)'
      BY <2>1, <2>3, <1>a DEF InFlight, Return
    <3>2. missed[key] <= missed'[key]
      BY <2>1, <1>a, MissType
    <3>3. QED
      BY <2>1, <3>1, <3>2, <1>a, <1>b, <1>c, MatchKept
  <2>4. QED
    BY <2>2, <2>3
<1>6. ASSUME NEW p \in Proc, Abandon(p), call[p].pc # "record"
      PROVE  Matched(key, time, window)'
  <2>1. /\ UNCHANGED <<attempts, mails, missed>> /\ Return(p)
    BY <1>6 DEF Abandon
  <2>2. InFlight(key) \subseteq InFlight(key)'
    BY <2>1, <1>6, <1>a DEF InFlight, Return
  <2>3. missed[key] <= missed'[key]
    BY <1>a, <2>1
  <2>4. QED
    BY <2>1, <2>2, <2>3, <1>a, <1>b, <1>c, MatchKept
<1>7. CASE Tick \/ UNCHANGED vars
  <2>1. UNCHANGED <<attempts, mails, missed, call>>
    BY <1>7 DEF Tick, vars
  <2>2. InFlight(key) \subseteq InFlight(key)'
    BY <2>1 DEF InFlight
  <2>3. missed[key] <= missed'[key]
    BY <1>a, <2>1
  <2>4. QED
    BY <2>1, <2>2, <2>3, <1>a, <1>b, <1>c, MatchKept
<1>8. QED
  BY <1>1, <1>2, <1>3, <1>4, <1>5, <1>6, <1>7 DEF Next

\* Initially there are no mails.
LEMMA InitMInv == Init => MInv
<1> SUFFICES ASSUME Init
             PROVE  MInv
  OBVIOUS
<1>1. TInv /\ AInv
  BY InitTInv, InitAInv
<1>2. ASSUME NEW key \in Key, NEW time \in Nat, NEW window \in Nat
      PROVE  Matched(key, time, window)
  <2>1. MailsSince(key, time, window) = {}
    BY DEF Init, MailsSince
  <2>2. QED
    BY <1>1, <2>1, Numbers, FS_EmptySet DEF Matched
<1>3. QED
  BY <1>1, <1>2 DEF MInv

\* The mails are matched in every state.
LEMMA NextMInv == MInv /\ [Next]_vars => MInv'
<1> SUFFICES ASSUME MInv, [Next]_vars
             PROVE  MInv'
  OBVIOUS
<1>1. AInv' /\ TInv'
  BY NextAInv DEF MInv, AInv
<1>2. \A key \in Key, time \in Nat, window \in Nat : Matched(key, time, window)'
  BY <1>1, MatchStep
<1>3. QED
  BY <1>1, <1>2 DEF MInv

\* A mail that is matched by a request about to record is matched by a
\* pending one: the bound on attempts bounds the mails.
LEMMA MailsFromAttempts ==
    ASSUME MInv, NEW key \in Key, NEW window \in Nat, NEW limit \in Nat,
           Below(key, window, limit)
    PROVE  Cardinality(MailsSince(key, now, window)) < limit + Cardinality(Proc) + missed[key]
<1>1. TInv /\ now \in Nat /\ Matched(key, now, window)
  BY DEF MInv, AInv, TInv, TypeOK
<1>2. /\ Cardinality(MailsSince(key, now, window)) \in Nat
      /\ Cardinality(Since(key, now, window)) \in Nat
      /\ Cardinality(InFlight(key)) \in Nat /\ missed[key] \in Nat
  BY <1>1, Numbers
<1>3. /\ IsFiniteSet(Pending(key)) /\ Cardinality(Pending(key)) \in Nat
      /\ Cardinality(Proc) \in Nat
  BY <1>1, FiniteSets
<1>4. InFlight(key) \subseteq Pending(key)
  BY DEF InFlight, Pending
<1>5. Cardinality(InFlight(key)) <= Cardinality(Pending(key))
  BY <1>3, <1>4, FS_Subset
<1>6. QED
  BY <1>1, <1>2, <1>3, <1>5 DEF Matched, Below

\* In both windows the mails with a link exceed the limit by less than the
\* requests that run at once, those whose attempt was not recorded aside.
THEOREM MailBoundTheorem == Spec => []MailBound
<1>1. MInv => MailBound
  <2> SUFFICES ASSUME MInv, NEW key \in Key
               PROVE  /\ Cardinality(MailsSince(key, now, ShortWindow))
                            < ShortAllowed + Cardinality(Proc) + missed[key]
                      /\ Cardinality(MailsSince(key, now, LongWindow))
                            < LongAllowed + Cardinality(Proc) + missed[key]
    BY DEF MailBound
  <2>1. Below(key, ShortWindow, ShortAllowed) /\ Below(key, LongWindow, LongAllowed)
    BY BothBelow DEF MInv, AInv
  <2>2. QED
    BY <2>1, MailsFromAttempts, ThrottleAssumption
<1>2. QED
  BY <1>1, InitMInv, NextMInv, PTL DEF Spec
====================================================================================
