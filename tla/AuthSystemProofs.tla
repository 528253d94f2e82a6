------------------------------- MODULE AuthSystemProofs -------------------------------
(***************************************************************************)
(* What holds of AuthSystem for any number of users, log-ins and requests, *)
(* and any faults.                                                         *)
(***************************************************************************)
EXTENDS AuthSystem, FiniteSetTheorems, TLAPS

\* What the bound needs to be inductive: a revocation never outruns the
\* credentials, so whoever reads them afterwards is not stale.
BarrierInPast == \A user \in User : barrier[user] <= version[user]

FinitelyStale == \A user \in User : IsFiniteSet(StaleLogins(user))

IInv == TypeOK /\ BarrierInPast /\ FinitelyStale /\ StaleSessionBound

(***************************************************************************)
(* Type correctness.                                                       *)
(***************************************************************************)

\* A request moves to a well-typed record, the others stand still.
LEMMA CallMoves ==
    ASSUME TypeOK, NEW p \in Proc, NEW r \in CallRecord, Goes(p, r),
           r.pc # "idle" => r.user # None
    PROVE  /\ call' \in [Proc -> CallRecord]
           /\ \A q \in Proc : (~At(q, "idle"))' => call'[q].user # None
           /\ call'[p] = r
           /\ \A q \in Proc \ {p} : call'[q] = call[q]
BY DEF TypeOK, Goes, At

\* The records a request can move to.
LEMMA Records ==
    ASSUME NEW pc \in PC, NEW user \in User, NEW v \in Nat
    PROVE  /\ [pc |-> pc, user |-> user, version |-> v] \in CallRecord
           /\ user # None
           /\ Idle \in CallRecord
BY SystemAssumption DEF CallRecord, Idle, PC

\* A request under way acts for a user and can take any step for that user.
LEMMA UnderWay ==
    ASSUME TypeOK, NEW p \in Proc, ~At(p, "idle")
    PROVE  /\ call[p].user \in User /\ call[p].user # None /\ call[p].version \in Nat
           /\ \A pc \in PC : [call[p] EXCEPT !.pc = pc] \in CallRecord
           /\ \A v \in Nat : [call[p] EXCEPT !.pc = "change", !.version = v] \in CallRecord
BY DEF TypeOK, CallRecord, PC

\* Ending log-ins keeps the ledger well-typed and ends just those.
LEMMA EndedIs ==
    ASSUME LedgerTypeOK, NEW S \in SUBSET Login, \A l \in S : logins[l] # None,
           logins' = Ended(S)
    PROVE  /\ LedgerTypeOK'
           /\ \A user \in User : LiveOf(user)' = LiveOf(user) \ S
<1>1. ASSUME NEW l \in S
      PROVE  logins'[l] \in Entry /\ logins'[l].live = FALSE
  BY DEF LedgerTypeOK, Ended, Entry
<1>2. \A l \in Login \ S : logins'[l] = logins[l]
  BY DEF Ended
<1>3. LedgerTypeOK'
  <2>1. logins' = [l \in Login |-> logins'[l]]
    BY DEF Ended
  <2>2. QED
    BY <1>1, <1>2, <2>1 DEF LedgerTypeOK
<1>4. QED
  BY <1>1, <1>2, <1>3 DEF LiveOf

\* Ending one log-in or all of a user keeps the ledger well-typed, and no
\* user gains a live one.
LEMMA LedgerEnds ==
    ASSUME LedgerTypeOK,
           \/ UNCHANGED logins
           \/ \E l \in Login : EndOne(l)
           \/ \E user \in User : EndAll(user)
    PROVE  LedgerTypeOK' /\ \A user \in User : LiveOf(user)' \subseteq LiveOf(user)
<1>1. CASE UNCHANGED logins
  BY <1>1 DEF LedgerTypeOK, LiveOf
<1>2. ASSUME NEW l \in Login, EndOne(l)
      PROVE  LedgerTypeOK' /\ \A user \in User : LiveOf(user)' \subseteq LiveOf(user)
  BY <1>2, EndedIs DEF EndOne
<1>3. ASSUME NEW owner \in User, EndAll(owner)
      PROVE  LedgerTypeOK' /\ \A user \in User : LiveOf(user)' \subseteq LiveOf(user)
  <2>1. LiveOf(owner) \in SUBSET Login /\ \A l \in LiveOf(owner) : logins[l] # None
    BY DEF LiveOf
  <2>2. QED
    BY <1>3, <2>1, EndedIs DEF EndAll
<1>4. QED
  BY <1>1, <1>2, <1>3

\* Opening a log-in keeps the ledger well-typed and adds that log-in.
LEMMA LedgerOpens ==
    ASSUME LedgerTypeOK, NEW l \in Login, NEW owner \in User, Open(l, owner)
    PROVE  /\ LedgerTypeOK'
           /\ \A user \in User : LiveOf(user)' \subseteq
                 IF user = owner THEN LiveOf(user) \cup {l} ELSE LiveOf(user)
<1>1. logins'[l] = [owner |-> owner, live |-> TRUE] /\ logins'[l] \in Entry
  BY DEF Open, LedgerTypeOK, Entry
<1>2. \A other \in Login \ {l} : logins'[other] = logins[other]
  BY DEF Open, LedgerTypeOK
<1>3. LedgerTypeOK'
  BY <1>1 DEF Open, LedgerTypeOK
<1>4. QED
  BY <1>1, <1>2, <1>3 DEF LiveOf

\* A write of credentials.
LEMMA Written ==
    ASSUME TypeOK, NEW user \in User, WriteCredentials(user)
    PROVE  /\ version' \in [User -> Nat]
           /\ version'[user] = version[user] + 1
           /\ \A u \in User : version[u] <= version'[u]
BY DEF TypeOK, WriteCredentials

\* What the handler goes on with after the write.
LEMMA GoesToRevoke ==
    ASSUME TypeOK, NEW p \in Proc, NEW user \in User, NEW o \in Committed,
           ThenRevoke(p, user, o)
    PROVE  \E r \in CallRecord : /\ Goes(p, r) /\ r.pc \in {"idle", "revoke"}
                                 /\ r.pc # "idle" => r.user # None
<1>1. /\ [pc |-> "revoke", user |-> user, version |-> version[user] + 1] \in CallRecord
      /\ Idle \in CallRecord /\ user # None
  BY Records DEF TypeOK, PC
<1>2. QED
  BY <1>1 DEF ThenRevoke, Fails, Idle

(***************************************************************************)
(* The bound.                                                              *)
(***************************************************************************)
StaleRecord(r, user) ==
    /\ r.pc \in {"create", "insert", "change"}
    /\ r.user = user
    /\ r.version < barrier[user]

Bounded(user) ==
    /\ IsFiniteSet(StaleLogins(user))
    /\ Cardinality(StaleLogins(user)) + Cardinality(StaleCalls(user)) < Cardinality(Proc)

\* The stale requests are some of the requests.
LEMMA CallsFinite ==
    ASSUME NEW S \in SUBSET Proc
    PROVE  IsFiniteSet(S) /\ Cardinality(Proc) \in Nat
<1>1. IsFiniteSet(S)
  BY FS_Subset, SystemAssumption
<1>2. Cardinality(Proc) \in Nat
  BY FS_CardinalityType, SystemAssumption
<1>3. QED
  BY <1>1, <1>2

\* Fewer stale log-ins and fewer stale requests keep the bound.
LEMMA Shrinking ==
    ASSUME NEW user \in User, Bounded(user), NEW L \in SUBSET StaleLogins(user),
           NEW C \in SUBSET StaleCalls(user)
    PROVE  IsFiniteSet(L) /\ Cardinality(L) + Cardinality(C) < Cardinality(Proc)
<1>1. IsFiniteSet(StaleCalls(user)) /\ Cardinality(Proc) \in Nat
  BY CallsFinite DEF StaleCalls
<1>2. /\ IsFiniteSet(L) /\ IsFiniteSet(C)
      /\ Cardinality(L) <= Cardinality(StaleLogins(user))
      /\ Cardinality(C) <= Cardinality(StaleCalls(user))
  BY <1>1, FS_Subset DEF Bounded
<1>3. /\ Cardinality(L) \in Nat /\ Cardinality(C) \in Nat
      /\ Cardinality(StaleLogins(user)) \in Nat /\ Cardinality(StaleCalls(user)) \in Nat
  BY <1>1, <1>2, FS_CardinalityType DEF Bounded
<1>4. QED
  BY <1>1, <1>2, <1>3 DEF Bounded

\* A stale request that becomes a stale log-in keeps it too.
LEMMA Exchanging ==
    ASSUME NEW user \in User, Bounded(user), NEW p \in StaleCalls(user), NEW l,
           NEW L \in SUBSET (StaleLogins(user) \cup {l}),
           NEW C \in SUBSET (StaleCalls(user) \ {p})
    PROVE  IsFiniteSet(L) /\ Cardinality(L) + Cardinality(C) < Cardinality(Proc)
<1>1. IsFiniteSet(StaleCalls(user)) /\ Cardinality(Proc) \in Nat
  BY CallsFinite DEF StaleCalls
<1>2. /\ IsFiniteSet(StaleLogins(user) \cup {l})
      /\ Cardinality(StaleLogins(user) \cup {l}) <= Cardinality(StaleLogins(user)) + 1
  <2>1. IsFiniteSet(StaleLogins(user)) /\ Cardinality(StaleLogins(user)) \in Nat
    BY FS_CardinalityType DEF Bounded
  <2>2. /\ IsFiniteSet(StaleLogins(user) \cup {l})
        /\ Cardinality(StaleLogins(user) \cup {l}) =
             IF l \in StaleLogins(user) THEN Cardinality(StaleLogins(user))
                                       ELSE Cardinality(StaleLogins(user)) + 1
    BY <2>1, FS_AddElement
  <2>3. QED
    BY <2>1, <2>2
<1>3. /\ IsFiniteSet(StaleCalls(user) \ {p})
      /\ Cardinality(StaleCalls(user) \ {p}) = Cardinality(StaleCalls(user)) - 1
  BY <1>1, FS_RemoveElement
<1>4. /\ IsFiniteSet(L) /\ IsFiniteSet(C)
      /\ Cardinality(L) <= Cardinality(StaleLogins(user) \cup {l})
      /\ Cardinality(C) <= Cardinality(StaleCalls(user) \ {p})
  BY <1>2, <1>3, FS_Subset
<1>5. /\ Cardinality(L) \in Nat /\ Cardinality(C) \in Nat
      /\ Cardinality(StaleLogins(user)) \in Nat /\ Cardinality(StaleCalls(user)) \in Nat
      /\ Cardinality(StaleLogins(user) \cup {l}) \in Nat
  BY <1>1, <1>2, <1>4, FS_CardinalityType DEF Bounded
<1>6. QED
  BY <1>1, <1>2, <1>3, <1>4, <1>5 DEF Bounded

\* Right after a revocation no session is stale, and the revoking request is
\* not one of those that may still write.
LEMMA Revoked ==
    ASSUME NEW p \in Proc, NEW C \in SUBSET (Proc \ {p})
    PROVE  IsFiniteSet({}) /\ Cardinality({}) + Cardinality(C) < Cardinality(Proc)
<1>1. IsFiniteSet(Proc \ {p}) /\ Cardinality(Proc \ {p}) = Cardinality(Proc) - 1
  BY SystemAssumption, FS_RemoveElement
<1>2. Cardinality(C) <= Cardinality(Proc \ {p}) /\ Cardinality(C) \in Nat
  BY <1>1, FS_Subset, FS_CardinalityType
<1>3. Cardinality(Proc) \in Nat
  BY SystemAssumption, FS_CardinalityType
<1>4. IsFiniteSet({}) /\ Cardinality({}) = 0
  BY FS_EmptySet
<1>5. QED
  BY <1>1, <1>2, <1>3, <1>4

\* Where a request's step leaves the barrier alone, it becomes a stale request
\* only by going on as one.
LEMMA StaleCallsAfter ==
    ASSUME TypeOK, NEW p \in Proc, NEW r \in CallRecord, Goes(p, r),
           r.pc # "idle" => r.user # None,
           NEW user \in User, barrier'[user] = barrier[user]
    PROVE  /\ StaleRecord(r, user) => StaleCalls(user)' \subseteq StaleCalls(user) \cup {p}
           /\ ~StaleRecord(r, user) => StaleCalls(user)' \subseteq StaleCalls(user) \ {p}
BY CallMoves DEF StaleCalls, StaleRecord

\* A step of a request that revokes nothing and opens nothing, and goes on as
\* a stale one only if it was.
LEMMA QuietStep ==
    ASSUME IInv, NEW p \in Proc, NEW r \in CallRecord, Goes(p, r),
           r.pc # "idle" => r.user # None, UNCHANGED <<opened, barrier, answered>>,
           LedgerTypeOK', \A u \in User : LiveOf(u)' \subseteq LiveOf(u),
           version' \in [User -> Nat],
           \A u \in User : version[u] <= version'[u],
           \A u \in User : StaleRecord(r, u) => p \in StaleCalls(u)
    PROVE  IInv'
<1>1. TypeOK'
  BY CallMoves DEF IInv, TypeOK
<1>2. BarrierInPast'
  BY <1>1 DEF IInv, BarrierInPast, TypeOK
<1>3. ASSUME NEW user \in User
      PROVE  Bounded(user)'
  <2>1. StaleLogins(user)' \subseteq StaleLogins(user)
    BY DEF StaleLogins
  <2>2. StaleCalls(user)' \subseteq StaleCalls(user)
    BY StaleCallsAfter DEF IInv
  <2>3. Bounded(user)
    BY DEF IInv, Bounded, FinitelyStale, StaleSessionBound
  <2>4. QED
    BY <2>1, <2>2, <2>3, Shrinking DEF Bounded
<1>4. QED
  BY <1>1, <1>2, <1>3 DEF IInv, Bounded, FinitelyStale, StaleSessionBound

(***************************************************************************)
(* The inductive invariant.                                                *)
(***************************************************************************)

\* The invariant holds initially.
LEMMA InitIInv == Init => IInv
<1> SUFFICES ASSUME Init
             PROVE  IInv
  OBVIOUS
<1>2. TypeOK
  BY DEF Init, TypeOK, LedgerInit, LedgerTypeOK, CallRecord, Idle, PC, At
<1>3. BarrierInPast
  BY DEF Init, BarrierInPast
<1>4. ASSUME NEW user \in User
      PROVE  StaleLogins(user) = {} /\ StaleCalls(user) = {}
  BY DEF Init, LedgerInit, LiveOf, StaleLogins, StaleCalls, Idle
<1>5. Cardinality(Proc) > 0 /\ IsFiniteSet({}) /\ Cardinality({}) = 0
  BY SystemAssumption, FS_EmptySet, FS_CardinalityType
<1>6. Cardinality(Proc) \in Nat
  BY SystemAssumption, FS_CardinalityType
<1>7. ASSUME NEW user \in User
      PROVE  Bounded(user)
  <2>1. /\ IsFiniteSet(StaleLogins(user))
        /\ Cardinality(StaleLogins(user)) = 0 /\ Cardinality(StaleCalls(user)) = 0
    BY <1>4, <1>5
  <2>2. QED
    BY <2>1, <1>5, <1>6 DEF Bounded
<1>8. QED
  BY <1>2, <1>3, <1>7 DEF IInv, Bounded, FinitelyStale, StaleSessionBound

\* A step of the user service verifies against the credentials of the moment.
LEMMA CredentialsStep ==
    ASSUME IInv, NEW p \in Proc, Credentials(p)
    PROVE  IInv'
<1>t. TypeOK /\ LedgerTypeOK
  BY DEF IInv, TypeOK
<1>v. \A user \in User : version[user] \in Nat /\ barrier[user] \in Nat
                         /\ barrier[user] <= version[user]
  BY DEF IInv, TypeOK, BarrierInPast
<1>1. ASSUME NEW user \in User, SignUp(p, user)
      PROVE  IInv'
  <2>1. PICK r \in {Idle, [pc |-> "create", user |-> user, version |-> 1]} : Goes(p, r)
    BY <1>1 DEF SignUp, Fails
  <2>2. r \in CallRecord /\ (r.pc # "idle" => r.user # None)
    <3>1. [pc |-> "create", user |-> user, version |-> 1] \in CallRecord /\ user # None
      BY Records DEF PC
    <3>2. Idle \in CallRecord /\ Idle.pc = "idle"
      BY Records DEF PC, Idle
    <3>3. QED
      BY <3>1, <3>2
  <2>3. \A u \in User : ~StaleRecord(r, u)
    BY <1>1, <1>v DEF SignUp, StaleRecord, Idle
  <2>4. /\ version' \in [User -> Nat]
        /\ \A u \in User : version[u] <= version'[u]
    BY <1>1, <1>t, Written DEF SignUp
  <2>5. LedgerTypeOK' /\ \A u \in User : LiveOf(u)' \subseteq LiveOf(u)
    BY <1>1, <1>t, LedgerEnds DEF SignUp
  <2>6. UNCHANGED <<opened, barrier, answered>>
    BY <1>1 DEF SignUp
  <2>7. QED
    BY <2>1, <2>2, <2>3, <2>4, <2>5, <2>6, QuietStep
<1>2. ASSUME NEW user \in User, LogIn(p, user)
      PROVE  IInv'
  <2> DEFINE r == [pc |-> "create", user |-> user, version |-> version[user]]
  <2>1. r \in CallRecord /\ r.user # None
    BY <1>v, Records DEF PC
  <2>2. \A u \in User : ~StaleRecord(r, u)
    BY <1>v DEF StaleRecord
  <2>3. /\ LedgerTypeOK' /\ \A u \in User : LiveOf(u)' \subseteq LiveOf(u)
        /\ Goes(p, r)
    BY <1>2, <1>t, LedgerEnds DEF LogIn
  <2>4. UNCHANGED <<version, opened, barrier, answered>>
    BY <1>2 DEF LogIn
  <2> HIDE DEF r
  <2>5. QED
    BY <2>1, <2>2, <2>3, <2>4, <1>t, <1>v, QuietStep DEF TypeOK
<1>3. ASSUME NEW user \in User, RedeemToken(p, user)
      PROVE  IInv'
  <2>1. PICK r \in CallRecord : /\ Goes(p, r) /\ r.pc \in {"idle", "revoke"}
                                /\ r.pc # "idle" => r.user # None
    BY <1>3, <1>t, GoesToRevoke DEF RedeemToken
  <2>2. \A u \in User : ~StaleRecord(r, u)
    BY <2>1 DEF StaleRecord
  <2>3. /\ version' \in [User -> Nat]
        /\ \A u \in User : version[u] <= version'[u]
    BY <1>3, <1>t, Written DEF RedeemToken
  <2>4. LedgerTypeOK' /\ \A u \in User : LiveOf(u)' \subseteq LiveOf(u)
    BY <1>3, <1>t, LedgerEnds DEF RedeemToken
  <2>5. UNCHANGED <<opened, barrier, answered>>
    BY <1>3 DEF RedeemToken
  <2>6. QED
    BY <2>1, <2>2, <2>3, <2>4, <2>5, QuietStep
<1>4. ASSUME NEW l \in Login, Admit(p, l)
      PROVE  IInv'
  <2> DEFINE r == [pc |-> "admitted", user |-> logins[l].owner, version |-> 0]
  <2>1. r \in CallRecord /\ r.user # None
    BY <1>4, <1>t, Records DEF Admit, LedgerTypeOK, Entry, PC
  <2>2. \A u \in User : ~StaleRecord(r, u)
    BY DEF StaleRecord
  <2>3. /\ LedgerTypeOK' /\ \A u \in User : LiveOf(u)' \subseteq LiveOf(u)
        /\ Goes(p, r)
    BY <1>4, <1>t, LedgerEnds DEF Admit
  <2>4. UNCHANGED <<version, opened, barrier, answered>>
    BY <1>4 DEF Admit
  <2> HIDE DEF r
  <2>5. QED
    BY <2>1, <2>2, <2>3, <2>4, <1>t, <1>v, QuietStep DEF TypeOK
<1>5. ASSUME GetUserByID(p)
      PROVE  IInv'
  <2>1. call[p].user \in User
    BY <1>5, <1>t, UnderWay DEF GetUserByID, At
  <2>2. PICK r \in {Idle, [call[p] EXCEPT !.pc = "change", !.version = version[call[p].user]]} :
           Goes(p, r)
    BY <1>5 DEF GetUserByID, Fails
  <2>3. r \in CallRecord /\ (r.pc # "idle" => r.user # None)
    <3>1. [call[p] EXCEPT !.pc = "change", !.version = version[call[p].user]] \in CallRecord
      BY <1>5, <1>t, <1>v, <2>1, UnderWay DEF GetUserByID, At
    <3>2. Idle \in CallRecord /\ Idle.pc = "idle" /\ call[p].user # None
      BY <2>1, Records DEF PC, Idle
    <3>3. QED
      BY <1>t, <3>1, <3>2 DEF TypeOK, CallRecord
  <2>4. r.pc # "idle" => r.user = call[p].user /\ r.version = version[call[p].user]
    <3>1. call[p] \in CallRecord /\ Idle.pc = "idle"
      BY <1>t DEF TypeOK, Idle
    <3>2. QED
      BY <3>1 DEF CallRecord
  <2>5. \A u \in User : ~StaleRecord(r, u)
    BY <1>v, <2>4 DEF StaleRecord
  <2>6. LedgerTypeOK' /\ \A u \in User : LiveOf(u)' \subseteq LiveOf(u)
    BY <1>5, <1>t, LedgerEnds DEF GetUserByID
  <2>7. UNCHANGED <<version, opened, barrier, answered>>
    BY <1>5 DEF GetUserByID
  <2>8. QED
    BY <2>2, <2>3, <2>5, <2>6, <2>7, <1>t, <1>v, QuietStep DEF TypeOK
<1>6. ASSUME ChangePassword(p)
      PROVE  IInv'
  <2>u. call[p].user \in User
    BY <1>6, <1>t, UnderWay DEF ChangePassword, At
  <2>1. PICK r \in CallRecord : /\ Goes(p, r) /\ r.pc \in {"idle", "revoke"}
                                /\ r.pc # "idle" => r.user # None
    BY <1>6, <1>t, <2>u, GoesToRevoke DEF ChangePassword
  <2>2. \A u \in User : ~StaleRecord(r, u)
    BY <2>1 DEF StaleRecord
  <2>3. /\ version' \in [User -> Nat]
        /\ \A u \in User : version[u] <= version'[u]
    BY <1>6, <1>t, <2>u, Written DEF ChangePassword
  <2>4. LedgerTypeOK' /\ \A u \in User : LiveOf(u)' \subseteq LiveOf(u)
    BY <1>6, <1>t, LedgerEnds DEF ChangePassword
  <2>5. UNCHANGED <<opened, barrier, answered>>
    BY <1>6 DEF ChangePassword
  <2>6. QED
    BY <2>1, <2>2, <2>3, <2>4, <2>5, QuietStep
<1>7. QED
  BY <1>1, <1>2, <1>3, <1>4, <1>5, <1>6 DEF Credentials

\* A revocation that commits leaves no stale session, and the requests that
\* are still under way are all others.
LEMMA RevokeStep ==
    ASSUME IInv, NEW p \in Proc, Revoke(p)
    PROVE  IInv'
<1> DEFINE owner == call[p].user
<1>1. TypeOK /\ LedgerTypeOK /\ owner \in User /\ call[p].version \in Nat
  BY UnderWay DEF IInv, TypeOK, Revoke, At
<1>2. Goes(p, Idle) /\ Idle \in CallRecord /\ Idle.pc = "idle" /\ UNCHANGED <<version, opened>>
  BY Records, <1>1 DEF Revoke, Idle, PC
<1>3. \/ UNCHANGED <<logins, barrier>>
      \/ EndAll(owner) /\ barrier' = [barrier EXCEPT ![owner] = version[owner]]
  BY DEF Revoke
<1>4. /\ barrier' \in [User -> Nat]
      /\ \A user \in User \ {owner} : barrier'[user] = barrier[user]
      /\ barrier'[owner] \in {barrier[owner], version[owner]}
  BY <1>1, <1>3 DEF TypeOK
<1>5. answered' \in [User -> Nat]
  BY <1>1 DEF Revoke, TypeOK
<1>6. LedgerTypeOK' /\ \A user \in User : LiveOf(user)' \subseteq LiveOf(user)
  BY <1>1, <1>3, LedgerEnds
<1>7. TypeOK'
  BY <1>1, <1>2, <1>4, <1>5, <1>6, CallMoves DEF TypeOK
<1>8. BarrierInPast'
  BY <1>1, <1>2, <1>4, <1>7 DEF IInv, BarrierInPast, TypeOK
<1>9. ASSUME NEW user \in User
      PROVE  Bounded(user)'
  <2>1. CASE barrier'[user] = barrier[user]
    <3>1. StaleLogins(user)' \subseteq StaleLogins(user)
      BY <2>1, <1>2, <1>6 DEF StaleLogins
    <3>2. StaleCalls(user)' \subseteq StaleCalls(user)
      BY <2>1, <1>1, <1>2, StaleCallsAfter DEF StaleRecord
    <3>3. Bounded(user)
      BY DEF IInv, Bounded, FinitelyStale, StaleSessionBound
    <3>4. QED
      BY <3>1, <3>2, <3>3, Shrinking DEF Bounded
  <2>2. CASE barrier'[user] # barrier[user]
    <3>1. user = owner /\ EndAll(owner)
      BY <2>2, <1>3, <1>4
    <3>2. LiveOf(user)' = {}
      <4>1. LiveOf(user) \in SUBSET Login /\ \A l \in LiveOf(user) : logins[l] # None
        BY DEF LiveOf
      <4>2. QED
        BY <3>1, <4>1, <1>1, EndedIs DEF EndAll
    <3>3. StaleLogins(user)' = {}
      BY <3>2 DEF StaleLogins
    <3>4. StaleCalls(user)' \subseteq Proc \ {p}
      BY <1>1, <1>2, CallMoves DEF StaleCalls
    <3>5. QED
      BY <3>3, <3>4, Revoked DEF Bounded
  <2>3. QED
    BY <2>1, <2>2
<1>10. QED
  BY <1>7, <1>8, <1>9 DEF IInv, Bounded, FinitelyStale, StaleSessionBound

\* Opening a session turns a request that was stale into a stale session.
LEMMA InsertStep ==
    ASSUME IInv, NEW p \in Proc, InsertSession(p)
    PROVE  IInv'
<1> DEFINE owner == call[p].user
<1>1. TypeOK /\ LedgerTypeOK /\ owner \in User /\ call[p].version \in Nat
  BY UnderWay DEF IInv, TypeOK, InsertSession, At
<1>2. PICK l \in Login : Open(l, owner) /\ opened' = [opened EXCEPT ![l] = call[p].version]
  BY DEF InsertSession
<1>3. /\ Goes(p, Idle) /\ Idle \in CallRecord /\ Idle.pc = "idle"
      /\ UNCHANGED <<version, barrier, answered>> /\ At(p, "insert")
  BY Records, <1>1 DEF InsertSession, Idle, PC
<1>4. /\ LedgerTypeOK'
      /\ \A user \in User : LiveOf(user)' \subseteq
            IF user = owner THEN LiveOf(user) \cup {l} ELSE LiveOf(user)
  BY <1>1, <1>2, LedgerOpens
<1>5. /\ opened' \in [Login -> Nat] /\ opened'[l] = call[p].version
      /\ \A other \in Login \ {l} : opened'[other] = opened[other]
  BY <1>1, <1>2 DEF TypeOK
<1>6. TypeOK'
  BY <1>1, <1>3, <1>4, <1>5, CallMoves DEF TypeOK
<1>7. BarrierInPast'
  BY <1>3 DEF IInv, BarrierInPast
<1>8. ASSUME NEW user \in User
      PROVE  Bounded(user)'
  <2>1. Bounded(user)
    BY DEF IInv, Bounded, FinitelyStale, StaleSessionBound
  <2>2. StaleCalls(user)' \subseteq StaleCalls(user) \ {p}
    BY <1>1, <1>3, StaleCallsAfter DEF StaleRecord
  <2>3. l \notin LiveOf(user)
    BY <1>2 DEF LiveOf, Open
  <2>4. CASE p \in StaleCalls(user)
    <3>1. StaleLogins(user)' \subseteq StaleLogins(user) \cup {l}
      BY <1>3, <1>4, <1>5 DEF StaleLogins, LiveOf
    <3>2. QED
      BY <2>1, <2>2, <2>4, <3>1, Exchanging DEF Bounded
  <2>5. CASE p \notin StaleCalls(user)
    <3>1. user = owner => ~(call[p].version < barrier[user])
      BY <2>5, <1>3 DEF StaleCalls, At
    <3>2. StaleLogins(user)' \subseteq StaleLogins(user)
      BY <3>1, <2>3, <1>3, <1>4, <1>5 DEF StaleLogins, LiveOf
    <3>3. QED
      BY <2>1, <2>2, <3>2, Shrinking DEF Bounded
  <2>6. QED
    BY <2>4, <2>5
<1>9. QED
  BY <1>6, <1>7, <1>8 DEF IInv, Bounded, FinitelyStale, StaleSessionBound

\* The other steps of the session service create nothing.
LEMMA OtherSteps ==
    ASSUME IInv, NEW p \in Proc, Evict(p) \/ Abandon(p)
    PROVE  IInv'
<1>1. TypeOK /\ LedgerTypeOK
  BY DEF IInv, TypeOK
<1>2. PICK r \in {Idle, [call[p] EXCEPT !.pc = "insert"]} :
         /\ Goes(p, r)
         /\ r.pc # "idle" => At(p, "create")
  BY DEF Evict, Abandon, Fails, Idle
<1>3. r \in CallRecord /\ (r.pc # "idle" => r.user # None)
  <2>1. CASE r = Idle
    <3>1. Idle \in CallRecord /\ Idle.pc = "idle"
      BY UnderWay, <1>1 DEF Idle, CallRecord, PC
    <3>2. QED
      BY <2>1, <3>1
  <2>2. CASE r = [call[p] EXCEPT !.pc = "insert"]
    <3>1. ~At(p, "idle") /\ call[p] \in CallRecord
      BY <1>1, <1>2, <2>2 DEF At, CallRecord, TypeOK
    <3>2. "insert" \in PC
      BY DEF PC
    <3>3. QED
      BY <2>2, <3>1, <3>2, <1>1, UnderWay DEF CallRecord
  <2>3. QED
    BY <1>2, <2>1, <2>2
<1>4. \A u \in User : StaleRecord(r, u) => p \in StaleCalls(u)
  <2>1. r.pc # "idle" => r.user = call[p].user /\ r.version = call[p].version
    BY <1>1 DEF TypeOK, CallRecord, Idle
  <2>2. QED
    BY <2>1, <1>2 DEF StaleRecord, StaleCalls, At
<1>5. LedgerTypeOK' /\ \A u \in User : LiveOf(u)' \subseteq LiveOf(u)
  <2>1. UNCHANGED logins \/ \E l \in Login : EndOne(l)
    BY DEF Evict, Abandon, LiveOf
  <2>2. QED
    BY <1>1, <2>1, LedgerEnds
<1>6. UNCHANGED <<version, opened, barrier, answered>>
  BY DEF Evict, Abandon
<1>7. QED
  BY <1>1, <1>2, <1>3, <1>4, <1>5, <1>6, QuietStep DEF TypeOK

\* An expiry only takes sessions away.
LEMMA ExpireStep ==
    ASSUME IInv, NEW l \in Login, Expire(l)
    PROVE  IInv'
<1>1. LedgerTypeOK' /\ \A u \in User : LiveOf(u)' \subseteq LiveOf(u)
  BY LedgerEnds DEF Expire, IInv, TypeOK
<1>2. UNCHANGED <<version, opened, call, barrier, answered>>
  BY DEF Expire
<1>3. TypeOK' /\ BarrierInPast'
  BY <1>1, <1>2 DEF IInv, TypeOK, BarrierInPast, At
<1>4. ASSUME NEW user \in User
      PROVE  Bounded(user)'
  <2>1. StaleLogins(user)' \subseteq StaleLogins(user) /\ StaleCalls(user)' \subseteq StaleCalls(user)
    BY <1>1, <1>2 DEF StaleLogins, StaleCalls
  <2>2. Bounded(user)
    BY DEF IInv, Bounded, FinitelyStale, StaleSessionBound
  <2>3. QED
    BY <2>1, <2>2, Shrinking DEF Bounded
<1>5. QED
  BY <1>3, <1>4 DEF IInv, Bounded, FinitelyStale, StaleSessionBound

\* Every step keeps the invariant.
LEMMA NextIInv == IInv /\ [Next]_vars => IInv'
<1>1. ASSUME IInv, UNCHANGED vars
      PROVE  IInv'
  BY <1>1 DEF vars, IInv, TypeOK, LedgerTypeOK, BarrierInPast, FinitelyStale, StaleSessionBound,
              StaleLogins, StaleCalls, LiveOf, At
<1>2. QED
  BY <1>1, CredentialsStep, RevokeStep, InsertStep, OtherSteps, ExpireStep DEF Next, Sessions

\* IInv is an invariant of the system.
THEOREM Invariance == Spec => []IInv
BY InitIInv, NextIInv, PTL DEF Spec

\* The variables of AuthSystem keep their types.
THEOREM TypeCorrect == Spec => []TypeOK
<1>1. IInv => TypeOK
  BY DEF IInv
<1>2. QED
  BY <1>1, Invariance, PTL

\* After a revocation the sessions of older credentials, and the requests
\* that may still make one, are fewer than the requests handled at once.
THEOREM StaleSessionsAreBounded == Spec => []StaleSessionBound
<1>1. IInv => StaleSessionBound
  BY DEF IInv
<1>2. QED
  BY <1>1, Invariance, PTL
=======================================================================================
