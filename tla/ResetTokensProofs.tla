----------------------------- MODULE ResetTokensProofs -----------------------------
(***************************************************************************)
(* Theorems about ResetTokens: type correctness, the inductive invariant   *)
(* IInv of tokens and locks, and the properties that follow from it.       *)
(***************************************************************************)
EXTENDS ResetTokens, TLAPS

(***************************************************************************)
(* Type correctness.                                                       *)
(***************************************************************************)

\* What TypeOK says of one call.
CallOK(c) ==
    /\ c \in Call
    /\ c.pc \in {"check", "create", "mail", "change"} => c.user # None /\ c.email # None
    /\ c.pc \in {"mail", "consume", "lock", "index", "commit"} => c.token # None

\* A call that is not under way has a well-typed record.
LEMMA IdleOK == CallOK(Idle)
BY DEF CallOK, Idle, Call, Kind

\* One call moves to a well-typed record, the others stand still.
LEMMA CallMoves ==
    ASSUME TypeOK, NEW p \in Proc, NEW c, CallOK(c), call' = [call EXCEPT ![p] = c]
    PROVE  /\ call' \in [Proc -> Call]
           /\ call'[p] = c
           /\ \A q \in Proc \ {p} : call'[q] = call[q]
           /\ \A q \in Proc : CallOK(call'[q])
<1>1. \A q \in Proc : CallOK(call[q])
  BY DEF TypeOK, CallOK
<1>2. QED
  BY <1>1 DEF TypeOK, CallOK

\* A call may go on to any place it has the data for.
LEMMA CallGoesOn ==
    ASSUME NEW c, CallOK(c), c.pc # "idle",
           NEW pc \in {"idle", "check", "create", "mail", "consume", "lock", "index", "commit"},
           pc \in {"check", "create", "mail"} => c.pc \in {"check", "create"},
           pc \in {"mail", "consume", "lock", "index", "commit"} => c.token # None
    PROVE  /\ CallOK([c EXCEPT !.pc = pc])
           /\ [c EXCEPT !.pc = pc].pc = pc
           /\ [c EXCEPT !.pc = pc].kind = c.kind
           /\ [c EXCEPT !.pc = pc].user = c.user
           /\ [c EXCEPT !.pc = pc].email = c.email
           /\ [c EXCEPT !.pc = pc].token = c.token
           /\ [c EXCEPT !.pc = pc].row = c.row
<1> DEFINE d == [c EXCEPT !.pc = pc]
<1>1. d \in Call
  BY DEF CallOK, Call
<1>2. /\ d.pc = pc /\ d.kind = c.kind /\ d.user = c.user /\ d.email = c.email
      /\ d.token = c.token /\ d.row = c.row
  BY DEF CallOK, Call
<1> HIDE DEF d
<1>3. CallOK(d)
  BY <1>1, <1>2 DEF CallOK
<1>4. QED
  BY <1>2, <1>3 DEF d

\* The records the operations give a call, with what later steps ask of them.
Requesting(c, pc, kind, user, email) ==
    /\ CallOK(c) /\ c.pc = pc /\ c.kind = kind /\ c.user = user /\ c.email = email
    /\ c.row = {}

Redeeming(c, pc, token, row) ==
    /\ CallOK(c) /\ c.pc = pc /\ c.token = token /\ c.row = row

\* Every step of a call, by the one record it changes.
LEMMA Moves ==
    ASSUME TypeOK, TokenLocks, NEW p \in Proc
    PROVE  /\ \A user \in User : CreatePasswordResetRequest(p, user) =>
                \E c : /\ call' = [call EXCEPT ![p] = c]
                       /\ Requesting(c, "create", "password", user, users[user].email)
           /\ \A user \in User, email \in Email : CreateEmailResetRequest(p, user, email) =>
                \E c : /\ call' = [call EXCEPT ![p] = c]
                       /\ Requesting(c, "check", "email", user, email)
           /\ CheckNewEmail(p) =>
                \E c : /\ call' = [call EXCEPT ![p] = c]
                       /\ \/ c = Idle
                          \/ Requesting(c, "create", call[p].kind, call[p].user, call[p].email)
           /\ \A user \in User : ResetPasswordForAuthenticatedUser(p, user) =>
                \E c : /\ call' = [call EXCEPT ![p] = c]
                       /\ Requesting(c, "change", "password", user, users[user].email)
           /\ \A mail \in inbox : Redeem(p, mail) =>
                \E c : /\ call' = [call EXCEPT ![p] = c]
                       /\ Redeeming(c, "consume", mail.token, {})
           /\ UpdateRow(p) =>
                \E c : /\ call' = [call EXCEPT ![p] = c]
                       /\ \E r \in call[p].row :
                            Redeeming(c, IF r.kind = "email" THEN "index" ELSE "commit",
                                      call[p].token, call[p].row)
           /\ UpdateIndex(p) =>
                \E c : /\ call' = [call EXCEPT ![p] = c]
                       /\ \E r \in call[p].row :
                            \/ c = Idle
                            \/ /\ ~IsUniqueViolation(p, r)
                               /\ Redeeming(c, "commit", call[p].token, call[p].row)
<1>a. CallOK(call[p]) /\ call \in [Proc -> Call]
  BY DEF TypeOK, CallOK
<1>n. None \notin Token \cup Email \cup User \cup Account
  BY NoneAssumption
<1>1. ASSUME NEW user \in User, CreatePasswordResetRequest(p, user)
      PROVE  \E c : /\ call' = [call EXCEPT ![p] = c]
                    /\ Requesting(c, "create", "password", user, users[user].email)
  <2> DEFINE c == [Idle EXCEPT !.pc = "create", !.user = user, !.email = users[user].email]
  <2>1. users[user].email \in Email
    BY <1>1 DEF CreatePasswordResetRequest, TypeOK, Account
  <2>2. call' = [call EXCEPT ![p] = c]
    BY <1>1 DEF CreatePasswordResetRequest
  <2>3. Requesting(c, "create", "password", user, users[user].email)
    BY <2>1, <1>n DEF Requesting, CallOK, Call, Idle, Kind
  <2>4. QED
    BY <2>2, <2>3
<1>2. ASSUME NEW user \in User, NEW email \in Email, CreateEmailResetRequest(p, user, email)
      PROVE  \E c : /\ call' = [call EXCEPT ![p] = c]
                    /\ Requesting(c, "check", "email", user, email)
  <2> DEFINE c == [Idle EXCEPT !.pc = "check", !.kind = "email", !.user = user, !.email = email]
  <2>1. call' = [call EXCEPT ![p] = c]
    BY <1>2 DEF CreateEmailResetRequest
  <2>2. Requesting(c, "check", "email", user, email)
    BY <1>n DEF Requesting, CallOK, Call, Idle, Kind
  <2>3. QED
    BY <2>1, <2>2
<1>3. ASSUME CheckNewEmail(p)
      PROVE  \E c : /\ call' = [call EXCEPT ![p] = c]
                    /\ \/ c = Idle
                       \/ Requesting(c, "create", call[p].kind, call[p].user, call[p].email)
  <2> DEFINE c == [call[p] EXCEPT !.pc = "create"]
  <2>1. call' = [call EXCEPT ![p] = Idle] \/ call' = [call EXCEPT ![p] = c]
    BY <1>3 DEF CheckNewEmail, Return
  <2>2. call[p].pc = "check" /\ call[p].row = {}
    BY <1>3 DEF CheckNewEmail, TokenLocks
  <2>3. Requesting(c, "create", call[p].kind, call[p].user, call[p].email)
    <3>1. CallOK(call[p]) /\ call[p].pc = "check"
      BY <2>2, <1>a
    <3>2. /\ CallOK(c) /\ c.pc = "create" /\ c.kind = call[p].kind
          /\ c.user = call[p].user /\ c.email = call[p].email /\ c.row = call[p].row
      BY <3>1, CallGoesOn, ZenonT(40)
    <3> HIDE DEF c
    <3>3. QED
      BY <2>2, <3>2 DEF Requesting
  <2>4. QED
    BY <2>1, <2>3
<1>4. ASSUME NEW mail \in inbox, Redeem(p, mail)
      PROVE  \E c : /\ call' = [call EXCEPT ![p] = c]
                    /\ Redeeming(c, "consume", mail.token, {})
  <2> DEFINE c == [Idle EXCEPT !.pc = "consume", !.token = mail.token]
  <2>1. call' = [call EXCEPT ![p] = c]
    BY <1>4 DEF Redeem
  <2>2. mail.token \in Token
    BY DEF TypeOK
  <2>3. Redeeming(c, "consume", mail.token, {})
    BY <2>2, <1>n DEF Redeeming, CallOK, Call, Idle, Kind
  <2>4. QED
    BY <2>1, <2>3
<1>5. ASSUME UpdateRow(p)
      PROVE  \E c : /\ call' = [call EXCEPT ![p] = c]
                    /\ \E r \in call[p].row :
                         Redeeming(c, IF r.kind = "email" THEN "index" ELSE "commit",
                                   call[p].token, call[p].row)
  <2>1. PICK r \in call[p].row :
           call' = [call EXCEPT ![p].pc = IF r.kind = "email" THEN "index" ELSE "commit"]
    BY <1>5 DEF UpdateRow
  <2> DEFINE pc == IF r.kind = "email" THEN "index" ELSE "commit"
             c == [call[p] EXCEPT !.pc = pc]
  <2>2. call' = [call EXCEPT ![p] = c]
    BY <2>1
  <2>3. call[p].pc = "lock" /\ call[p].token # None
    BY <1>5, <1>a DEF UpdateRow, CallOK
  <2>4. /\ CallOK(c) /\ c.pc = pc /\ c.token = call[p].token /\ c.row = call[p].row
    <3>1. CASE r.kind = "email"
      <4>1. c = [call[p] EXCEPT !.pc = "index"] /\ pc = "index"
        BY <3>1
      <4> HIDE DEF c, pc
      <4>2. QED
        BY <4>1, <2>3, <1>a, CallGoesOn
    <3>2. CASE r.kind # "email"
      <4>1. c = [call[p] EXCEPT !.pc = "commit"] /\ pc = "commit"
        BY <3>2
      <4> HIDE DEF c, pc
      <4>2. QED
        BY <4>1, <2>3, <1>a, CallGoesOn
    <3>3. QED
      BY <3>1, <3>2
  <2> HIDE DEF c
  <2>5. Redeeming(c, pc, call[p].token, call[p].row)
    BY <2>4 DEF Redeeming
  <2>6. QED
    BY <2>2, <2>5
<1>6. ASSUME UpdateIndex(p)
      PROVE  \E c : /\ call' = [call EXCEPT ![p] = c]
                    /\ \E r \in call[p].row :
                         \/ c = Idle
                         \/ /\ ~IsUniqueViolation(p, r)
                            /\ Redeeming(c, "commit", call[p].token, call[p].row)
  <2> DEFINE c == [call[p] EXCEPT !.pc = "commit"]
  <2>1. PICK r \in call[p].row :
           \/ call' = [call EXCEPT ![p] = Idle]
           \/ ~IsUniqueViolation(p, r) /\ call' = [call EXCEPT ![p] = c]
    BY <1>6 DEF UpdateIndex, RollBack, Return
  <2>2. call[p].pc = "index" /\ call[p].token # None
    BY <1>6, <1>a DEF UpdateIndex, CallOK
  <2>3. Redeeming(c, "commit", call[p].token, call[p].row)
    BY <2>2, <1>a, CallGoesOn DEF Redeeming
  <2>4. QED
    BY <2>1, <2>3
<1>7. ASSUME NEW user \in User, ResetPasswordForAuthenticatedUser(p, user)
      PROVE  \E c : /\ call' = [call EXCEPT ![p] = c]
                    /\ Requesting(c, "change", "password", user, users[user].email)
  <2> DEFINE c == [Idle EXCEPT !.pc = "change", !.user = user, !.email = users[user].email]
  <2>1. users[user].email \in Email
    BY <1>7 DEF ResetPasswordForAuthenticatedUser, TypeOK, Account
  <2>2. call' = [call EXCEPT ![p] = c]
    BY <1>7 DEF ResetPasswordForAuthenticatedUser
  <2>3. Requesting(c, "change", "password", user, users[user].email)
    BY <2>1, <1>n DEF Requesting, CallOK, Call, Idle, Kind
  <2>4. QED
    BY <2>2, <2>3
<1>8. QED
  BY <1>1, <1>2, <1>3, <1>4, <1>5, <1>6, <1>7

(***************************************************************************)
(* The steps.  Most change one call and nothing else.                      *)
(***************************************************************************)

\* A transaction's row is one stored token.
LEMMA OneRow ==
    ASSUME IInv, NEW p \in Proc, NEW r \in call[p].row
    PROVE  /\ call[p].row = {r} /\ r \in requests /\ r.id = call[p].token
           /\ r \in ResetRequest /\ issued[r.id] = r /\ users[r.user_id] # None
<1>1. /\ \A s \in call[p].row : s.id = call[p].token /\ s \in requests
      /\ \A s \in requests : issued[s.id] = s /\ users[s.user_id] # None
      /\ requests \subseteq ResetRequest
  BY DEF IInv, TokenLocks, RowsAreIssued, TypeOK
<1>2. \A s \in call[p].row : s = r
  BY <1>1
<1>3. QED
  BY <1>1, <1>2

\* The records a call may move to when nothing but the call changes.
Quiet(p, c) ==
    \/ c = Idle
    \/ \E user \in User, email \in Email, kind \in Kind, pc \in {"check", "create", "change"} :
         users[user] # None /\ Requesting(c, pc, kind, user, email)
    \/ \E mail \in inbox : Redeeming(c, "consume", mail.token, {})
    \/ \E r \in requests :
         /\ IsLive(r) /\ TokenHolders(r.id) \subseteq {p}
         /\ Redeeming(c, "lock", r.id, {r})
         /\ call[p].pc = "consume" /\ call[p].token = r.id
    \/ \E r \in call[p].row :
         /\ UserHolders(r.user_id) \subseteq {p}
         /\ Redeeming(c, IF r.kind = "email" THEN "index" ELSE "commit", r.id, {r})
         /\ call[p].pc = "lock"
    \/ \E r \in call[p].row :
         /\ ~Taken(r.new_email, r.user_id) /\ EmailHolders(r.new_email) \subseteq {p}
         /\ Redeeming(c, "commit", r.id, {r})
         /\ call[p].pc = "index"

\* Such a step of call p.
QuietStep(p) ==
    /\ UNCHANGED <<now, users, requests, inbox, issued, spent>>
    /\ \E c : call' = [call EXCEPT ![p] = c] /\ Quiet(p, c)

\* The first two steps of a request, and the first of a password change.
LEMMA RequestIsQuiet ==
    ASSUME IInv, NEW p \in Proc,
           \/ \E user \in User : CreatePasswordResetRequest(p, user)
           \/ \E user \in User, newEmail \in Email : CreateEmailResetRequest(p, user, newEmail)
           \/ CheckNewEmail(p)
           \/ \E user \in User : ResetPasswordForAuthenticatedUser(p, user)
    PROVE  QuietStep(p)
<1>a. TypeOK /\ TokenLocks
  BY DEF IInv
<1>1. ASSUME NEW user \in User, CreatePasswordResetRequest(p, user)
      PROVE  QuietStep(p)
  <2>1. PICK c : /\ call' = [call EXCEPT ![p] = c]
                 /\ Requesting(c, "create", "password", user, users[user].email)
    BY <1>1, <1>a, Moves
  <2>2. users[user] # None /\ users[user].email \in Email
    BY <1>1, <1>a DEF CreatePasswordResetRequest, TypeOK, Account
  <2>3. Quiet(p, c)
    BY <2>1, <2>2 DEF Quiet, Kind
  <2>4. QED
    BY <1>1, <2>1, <2>3 DEF QuietStep, CreatePasswordResetRequest
<1>2. ASSUME NEW user \in User, NEW newEmail \in Email,
             CreateEmailResetRequest(p, user, newEmail)
      PROVE  QuietStep(p)
  <2>1. PICK c : /\ call' = [call EXCEPT ![p] = c]
                 /\ Requesting(c, "check", "email", user, newEmail)
    BY <1>2, <1>a, Moves
  <2>2. Quiet(p, c)
    BY <1>2, <2>1 DEF Quiet, Kind, CreateEmailResetRequest
  <2>3. QED
    BY <1>2, <2>1, <2>2 DEF QuietStep, CreateEmailResetRequest
<1>3. ASSUME CheckNewEmail(p)
      PROVE  QuietStep(p)
  <2>1. PICK c : /\ call' = [call EXCEPT ![p] = c]
                 /\ \/ c = Idle
                    \/ Requesting(c, "create", call[p].kind, call[p].user, call[p].email)
    BY <1>3, <1>a, Moves
  <2>2. /\ call[p].kind \in Kind /\ call[p].user \in User /\ call[p].email \in Email
        /\ users[call[p].user] # None
    BY <1>3, <1>a DEF CheckNewEmail, TypeOK, Call, IInv, MailsMatch
  <2>3. Quiet(p, c)
    BY <2>1, <2>2 DEF Quiet
  <2>4. QED
    BY <1>3, <2>1, <2>3 DEF QuietStep, CheckNewEmail
<1>4. ASSUME NEW user \in User, ResetPasswordForAuthenticatedUser(p, user)
      PROVE  QuietStep(p)
  <2>1. PICK c : /\ call' = [call EXCEPT ![p] = c]
                 /\ Requesting(c, "change", "password", user, users[user].email)
    BY <1>4, <1>a, Moves
  <2>2. users[user] # None /\ users[user].email \in Email
    BY <1>4, <1>a DEF ResetPasswordForAuthenticatedUser, TypeOK, Account
  <2>3. Quiet(p, c)
    BY <2>1, <2>2 DEF Quiet, Kind
  <2>4. QED
    BY <1>4, <2>1, <2>3 DEF QuietStep, ResetPasswordForAuthenticatedUser
<1>5. QED
  BY <1>1, <1>2, <1>3, <1>4

\* A redemption up to its commit.
LEMMA RedemptionIsQuiet ==
    ASSUME IInv, NEW p \in Proc,
           \/ \E mail \in inbox : Redeem(p, mail)
           \/ Consume(p) \/ UpdateRow(p) \/ UpdateIndex(p) \/ DeadlockDetected(p) \/ Abandon(p)
    PROVE  QuietStep(p)
<1>a. TypeOK /\ TokenLocks /\ call \in [Proc -> Call]
  BY DEF IInv, TypeOK
<1>1. ASSUME NEW mail \in inbox, Redeem(p, mail)
      PROVE  QuietStep(p)
  <2>1. PICK c : call' = [call EXCEPT ![p] = c] /\ Redeeming(c, "consume", mail.token, {})
    BY <1>1, <1>a, Moves
  <2>2. QED
    BY <1>1, <2>1 DEF QuietStep, Quiet, Redeem
<1>2. ASSUME Consume(p)
      PROVE  QuietStep(p)
  <2> DEFINE found == {r \in requests : r.id = call[p].token /\ IsLive(r)}
  <2>1. \/ call' = [call EXCEPT ![p] = Idle]
        \/ found # {} /\ call' = [call EXCEPT ![p].pc = "lock", ![p].row = found]
    BY <1>2 DEF Consume, RollBack, Return
  <2>2. ASSUME NEW r \in found, call' = [call EXCEPT ![p].pc = "lock", ![p].row = found]
        PROVE  \E c : call' = [call EXCEPT ![p] = c] /\ Quiet(p, c)
    <3> DEFINE c == [call[p] EXCEPT !.pc = "lock", !.row = {r}]
    <3>1. found = {r}
      BY DEF IInv, RowsAreIssued
    <3>2. call' = [call EXCEPT ![p] = [call[p] EXCEPT !.pc = "lock", !.row = found]]
      BY <2>2
    <3>3. call' = [call EXCEPT ![p] = c]
      BY <3>1, <3>2
    <3>4. r \in ResetRequest /\ call[p] \in Call /\ call[p].token # None
          /\ call[p].pc = "consume" /\ r.id = call[p].token
      BY <1>2, <1>a DEF TypeOK, Consume
    <3>5. Redeeming(c, "lock", r.id, {r})
      BY <3>4 DEF Redeeming, CallOK, Call
    <3>6. TokenHolders(r.id) \subseteq {p}
      BY <1>2, <3>4 DEF Consume, Blockers
    <3>7. Quiet(p, c)
      BY <3>4, <3>5, <3>6 DEF Quiet
    <3>8. QED
      BY <3>3, <3>7
  <2>3. QED
    BY <1>2, <2>1, <2>2 DEF QuietStep, Quiet, Consume
<1>3. ASSUME UpdateRow(p)
      PROVE  QuietStep(p)
  <2>1. PICK c : /\ call' = [call EXCEPT ![p] = c]
                 /\ \E r \in call[p].row :
                      Redeeming(c, IF r.kind = "email" THEN "index" ELSE "commit",
                                call[p].token, call[p].row)
    BY <1>3, <1>a, Moves
  <2>2. PICK r \in call[p].row :
           Redeeming(c, IF r.kind = "email" THEN "index" ELSE "commit",
                     call[p].token, call[p].row)
    BY <2>1
  <2>3. call[p].row = {r} /\ r.id = call[p].token
    BY OneRow
  <2>4. call[p].pc = "lock" /\ UserHolders(r.user_id) \subseteq {p}
    BY <1>3, <2>3 DEF UpdateRow, Blockers
  <2>5. Quiet(p, c)
    BY <2>2, <2>3, <2>4 DEF Quiet
  <2>6. QED
    BY <1>3, <2>1, <2>5 DEF QuietStep, UpdateRow
<1>4. ASSUME UpdateIndex(p)
      PROVE  QuietStep(p)
  <2>1. PICK c : /\ call' = [call EXCEPT ![p] = c]
                 /\ \E r \in call[p].row :
                      \/ c = Idle
                      \/ /\ ~IsUniqueViolation(p, r)
                         /\ Redeeming(c, "commit", call[p].token, call[p].row)
    BY <1>4, <1>a, Moves
  <2>2. PICK r \in call[p].row :
           \/ c = Idle
           \/ /\ ~IsUniqueViolation(p, r)
              /\ Redeeming(c, "commit", call[p].token, call[p].row)
    BY <2>1
  <2>3. call[p].row = {r} /\ r.id = call[p].token
    BY OneRow
  <2>4. call[p].pc = "index" /\ EmailHolders(r.new_email) \subseteq {p}
    BY <1>4, <2>3 DEF UpdateIndex, Blockers
  <2>5. Quiet(p, c)
    BY <2>2, <2>3, <2>4 DEF Quiet, IsUniqueViolation
  <2>6. QED
    BY <1>4, <2>1, <2>5 DEF QuietStep, UpdateIndex
<1>5. ASSUME DeadlockDetected(p) \/ Abandon(p)
      PROVE  QuietStep(p)
  BY <1>5 DEF DeadlockDetected, Abandon, RollBack, Return, QuietStep, Quiet
<1>6. QED
  BY <1>1, <1>2, <1>3, <1>4, <1>5

\* Every step is quiet or one of the few that write a table or send a mail.
LEMMA Steps ==
    ASSUME IInv, [Next]_vars
    PROVE  \/ UNCHANGED <<users, requests, inbox, issued, spent, call>> /\ now' \in {now, now + 1}
           \/ \E user \in User, email \in Email : SignUp(user, email)
           \/ \E p \in Proc : \/ StoreRequest(p) \/ SendMail(p) \/ Commit(p)
                              \/ ChangePassword(p) \/ QuietStep(p)
<1>1. CASE Tick \/ UNCHANGED vars
  BY <1>1 DEF Tick, vars
<1>2. ASSUME NEW p \in Proc, Request(p)
      PROVE  StoreRequest(p) \/ SendMail(p) \/ QuietStep(p)
  BY <1>2, RequestIsQuiet DEF Request
<1>3. ASSUME NEW p \in Proc, Redemption(p) \/ (\E mail \in inbox : Redeem(p, mail)) \/ Abandon(p)
      PROVE  Commit(p) \/ QuietStep(p)
  BY <1>3, RedemptionIsQuiet DEF Redemption
<1>4. ASSUME NEW p \in Proc, Change(p)
      PROVE  ChangePassword(p) \/ QuietStep(p)
  BY <1>4, RequestIsQuiet DEF Change
<1>5. QED
  BY <1>1, <1>2, <1>3, <1>4 DEF Next

(***************************************************************************)
(* Locks, element by element.                                              *)
(***************************************************************************)

\* What it takes to hold a user's row or an email.
LEMMA Holders ==
    ASSUME NEW q \in Proc
    PROVE  /\ \A u : q \in UserHolders(u) <=>
                /\ call[q].pc \in {"index", "commit"}
                /\ \E r \in call[q].row : r.user_id = u
           /\ \A e : q \in EmailHolders(e) <=>
                \/ \E v \in User : users[v] # None /\ users[v].email = e /\ q \in UserHolders(v)
                \/ call[q].pc = "commit" /\ \E r \in call[q].row :
                      r.kind = "email" /\ r.new_email = e
<1>1. \A u : q \in UserHolders(u) <=>
                /\ call[q].pc \in {"index", "commit"}
                /\ \E r \in call[q].row : r.user_id = u
  BY DEF UserHolders
<1>2. QED
  BY <1>1 DEF EmailHolders

\* The same after a step.
LEMMA HoldersNext ==
    ASSUME NEW q \in Proc
    PROVE  /\ \A u : q \in UserHolders(u)' <=>
                /\ call'[q].pc \in {"index", "commit"}
                /\ \E r \in call'[q].row : r.user_id = u
           /\ \A e : q \in EmailHolders(e)' <=>
                \/ \E v \in User : users'[v] # None /\ users'[v].email = e /\ q \in UserHolders(v)'
                \/ call'[q].pc = "commit" /\ \E r \in call'[q].row :
                      r.kind = "email" /\ r.new_email = e
<1>1. \A u : q \in UserHolders(u)' <=>
                /\ call'[q].pc \in {"index", "commit"}
                /\ \E r \in call'[q].row : r.user_id = u
  BY DEF UserHolders
<1>2. QED
  BY <1>1 DEF EmailHolders

\* Only calls hold anything.
LEMMA HoldersAreCalls ==
    /\ \A u : UserHolders(u) \subseteq Proc /\ UserHolders(u)' \subseteq Proc
    /\ \A e : EmailHolders(e) \subseteq Proc /\ EmailHolders(e)' \subseteq Proc
BY DEF UserHolders, EmailHolders

(***************************************************************************)
(* A quiet step preserves the invariant.                                   *)
(***************************************************************************)

\* Quiet records are well typed.
LEMMA QuietIsOK ==
    ASSUME NEW p \in Proc, NEW c, Quiet(p, c)
    PROVE  CallOK(c)
BY IdleOK DEF Quiet, Requesting, Redeeming

\* A quiet step takes locks that were free.
LEMMA QuietLocks ==
    ASSUME IInv, NEW p \in Proc, NEW c, Quiet(p, c)
    PROVE  \/ c.row = {} /\ c.pc \in {"idle", "check", "create", "change", "consume"}
           \/ \E r \in requests :
                /\ CallOK(c) /\ c.row = {r} /\ c.token = r.id /\ call[p].token = r.id
                /\ r \in ResetRequest
                /\ \/ /\ c.pc = "lock" /\ call[p].pc = "consume"
                      /\ IsLive(r) /\ TokenHolders(r.id) \subseteq {p}
                   \/ /\ c.pc = IF r.kind = "email" THEN "index" ELSE "commit"
                      /\ call[p].pc = "lock" /\ call[p].row = {r}
                      /\ UserHolders(r.user_id) \subseteq {p}
                   \/ /\ c.pc = "commit" /\ call[p].pc = "index" /\ call[p].row = {r}
                      /\ ~Taken(r.new_email, r.user_id)
                      /\ EmailHolders(r.new_email) \subseteq {p}
<1>1. CASE c = Idle
  BY <1>1 DEF Idle
<1>2. CASE \E user \in User, email \in Email, kind \in Kind, pc \in {"check", "create", "change"} :
             users[user] # None /\ Requesting(c, pc, kind, user, email)
  BY <1>2 DEF Requesting
<1>3. CASE \E mail \in inbox : Redeeming(c, "consume", mail.token, {})
  BY <1>3 DEF Redeeming
<1>4. ASSUME NEW r \in requests,
             IsLive(r) /\ TokenHolders(r.id) \subseteq {p},
             Redeeming(c, "lock", r.id, {r}),
             call[p].pc = "consume" /\ call[p].token = r.id
      PROVE  /\ CallOK(c) /\ c.row = {r} /\ c.token = r.id /\ call[p].token = r.id
             /\ r \in ResetRequest
             /\ c.pc = "lock" /\ call[p].pc = "consume"
             /\ IsLive(r) /\ TokenHolders(r.id) \subseteq {p}
  BY <1>4 DEF Redeeming, IInv, TypeOK
<1>5. ASSUME NEW r \in call[p].row,
             UserHolders(r.user_id) \subseteq {p},
             Redeeming(c, IF r.kind = "email" THEN "index" ELSE "commit", r.id, {r}),
             call[p].pc = "lock"
      PROVE  /\ r \in requests
             /\ CallOK(c) /\ c.row = {r} /\ c.token = r.id /\ call[p].token = r.id
             /\ r \in ResetRequest /\ call[p].row = {r}
             /\ c.pc = IF r.kind = "email" THEN "index" ELSE "commit"
  BY <1>5, OneRow DEF Redeeming
<1>6. ASSUME NEW r \in call[p].row,
             Redeeming(c, "commit", r.id, {r})
      PROVE  /\ r \in requests
             /\ CallOK(c) /\ c.row = {r} /\ c.token = r.id /\ call[p].token = r.id
             /\ r \in ResetRequest /\ call[p].row = {r} /\ c.pc = "commit"
  BY <1>6, OneRow DEF Redeeming
<1>7. QED
  BY <1>1, <1>2, <1>3, <1>4, <1>5, <1>6 DEF Quiet

\* Tokens, mails and single use.
LEMMA QuietTokens ==
    ASSUME IInv, NEW p \in Proc, QuietStep(p)
    PROVE  TypeOK' /\ RowsAreIssued' /\ MailsMatch' /\ TokenLocks' /\ SpentOnce' /\ EmailsUnique'
<1>1. PICK c : call' = [call EXCEPT ![p] = c] /\ Quiet(p, c)
  BY DEF QuietStep
<1>2. UNCHANGED <<now, users, requests, inbox, issued, spent>>
  BY DEF QuietStep
<1>3. /\ call' \in [Proc -> Call]
      /\ call'[p] = c
      /\ \A q \in Proc \ {p} : call'[q] = call[q]
      /\ \A q \in Proc : CallOK(call'[q])
  BY <1>1, QuietIsOK, CallMoves DEF IInv
<1>4. TypeOK'
  BY <1>2, <1>3 DEF IInv, TypeOK, CallOK
<1>5. RowsAreIssued' /\ SpentOnce' /\ EmailsUnique'
  BY <1>2 DEF IInv, RowsAreIssued, SpentOnce, EmailsUnique
<1>6. /\ c.pc \in {"check", "create", "mail", "change"} => users[c.user] # None
      /\ c.pc # "mail"
      /\ c.pc \in {"consume", "lock", "index", "commit"} =>
           \E mail \in inbox : mail.token = c.token
  <2>1. CASE c = Idle
    BY <2>1 DEF Idle
  <2>2. CASE \E user \in User, email \in Email, kind \in Kind, pc \in {"check", "create", "change"} :
               users[user] # None /\ Requesting(c, pc, kind, user, email)
    BY <2>2 DEF Requesting
  <2>3. CASE \E mail \in inbox : Redeeming(c, "consume", mail.token, {})
    BY <2>3 DEF Redeeming
  <2>4. CASE /\ c.pc \in {"lock", "index", "commit"} /\ c.token = call[p].token
             /\ call[p].pc \in {"consume", "lock", "index"}
    BY <2>4 DEF IInv, MailsMatch
  <2>5. QED
    BY <1>1, <2>1, <2>2, <2>3, <2>4, OneRow DEF Quiet, Redeeming
<1>7. MailsMatch'
  <2>1. \A mail \in inbox : /\ issued[mail.token] # None
                            /\ issued[mail.token].kind = "email" =>
                                 issued[mail.token].new_email = mail.to
    BY DEF IInv, MailsMatch
  <2>2. ASSUME NEW q \in Proc \ {p}
        PROVE  /\ call[q].pc \in {"check", "create", "mail", "change"} => users[call[q].user] # None
               /\ call[q].pc = "mail" =>
                    /\ issued[call[q].token] # None
                    /\ issued[call[q].token].kind = "email" =>
                         issued[call[q].token].new_email = call[q].email
               /\ call[q].pc \in {"consume", "lock", "index", "commit"} =>
                    \E mail \in inbox : mail.token = call[q].token
    BY DEF IInv, MailsMatch
  <2>3. QED
    BY <1>2, <1>3, <1>6, <2>1, <2>2 DEF MailsMatch
<1>8. TokenLocks'
  <2>1. /\ c.pc \notin {"lock", "index", "commit"} => c.row = {}
        /\ \A r \in c.row : /\ r.id = c.token /\ r \in requests
                            /\ c.pc = "index" => r.kind = "email"
    BY <1>1, QuietLocks
  <2>2. \A q \in Proc \ {p} : \A r \in c.row, s \in call[q].row : r.id # s.id
    <3>1. CASE c.row \subseteq call[p].row
      BY <3>1 DEF IInv, TokenLocks
    <3>2. CASE \A r \in c.row : TokenHolders(r.id) \subseteq {p}
      BY <3>2 DEF TokenHolders
    <3>3. QED
      BY <1>1, <3>1, <3>2, QuietLocks
  <2>3. QED
    BY <1>2, <1>3, <2>1, <2>2 DEF IInv, TokenLocks
<1>9. QED
  BY <1>4, <1>5, <1>7, <1>8

\* Locks on accounts and emails.
LEMMA QuietAccounts ==
    ASSUME IInv, NEW p \in Proc, QuietStep(p)
    PROVE  AccountLocks'
<1>1. PICK c : call' = [call EXCEPT ![p] = c] /\ Quiet(p, c)
  BY DEF QuietStep
<1>2. UNCHANGED <<now, users, requests, inbox, issued, spent>>
  BY DEF QuietStep
<1>3. /\ call'[p] = c
      /\ \A q \in Proc \ {p} : call'[q] = call[q]
  BY <1>1, QuietIsOK, CallMoves DEF IInv
<1>4. /\ \A u \in User : \A q, s \in UserHolders(u) : q = s
      /\ \A q \in Proc : call[q].pc = "commit" => \A r \in call[q].row : r.kind = "email" =>
           ~Taken(r.new_email, r.user_id) /\ EmailHolders(r.new_email) \subseteq {q}
  BY DEF IInv, AccountLocks
<1>5. \A q \in Proc \ {p} : \A u : q \in UserHolders(u)' <=> q \in UserHolders(u)
  BY <1>3, Holders, HoldersNext
<1>6. ASSUME NEW u, p \in UserHolders(u)'
      PROVE  UserHolders(u) \subseteq {p}
  <2>1. c.pc \in {"index", "commit"} /\ \E r \in c.row : r.user_id = u
    BY <1>3, <1>6, HoldersNext
  <2>2. PICK r \in requests : /\ c.row = {r} /\ r \in ResetRequest
                              /\ \/ UserHolders(r.user_id) \subseteq {p}
                                 \/ call[p].pc = "index" /\ call[p].row = {r}
    BY <1>1, <2>1, QuietLocks
  <2>3. r.user_id = u /\ u \in User
    BY <2>1, <2>2 DEF ResetRequest
  <2>4. CASE call[p].pc = "index" /\ call[p].row = {r}
    BY <1>4, <2>3, <2>4, Holders, HoldersAreCalls
  <2>5. QED
    BY <2>2, <2>3, <2>4
<1>7. \A u \in User : \A q, s \in UserHolders(u)' : q = s
  BY <1>4, <1>5, <1>6, HoldersAreCalls
<1>8. \A e, u : Taken(e, u)' <=> Taken(e, u)
  BY <1>2 DEF Taken
<1>9. ASSUME NEW q \in Proc \ {p}, call[q].pc = "commit", NEW r \in call[q].row, r.kind = "email"
      PROVE  ~Taken(r.new_email, r.user_id) /\ EmailHolders(r.new_email)' \subseteq {q}
  <2>1. ~Taken(r.new_email, r.user_id) /\ EmailHolders(r.new_email) \subseteq {q}
    BY <1>4, <1>9
  <2>2. \A s \in Proc \ {p} : s \in EmailHolders(r.new_email)' => s \in EmailHolders(r.new_email)
    BY <1>2, <1>3, <1>5, Holders, HoldersNext
  <2>3. q \in EmailHolders(r.new_email) /\ q \in UserHolders(r.user_id)
    BY <1>9, Holders
  <2>4. ASSUME p \in EmailHolders(r.new_email)'
        PROVE  FALSE
    <3>1. CASE \E v \in User : users[v] # None /\ users[v].email = r.new_email /\ p \in UserHolders(v)'
      <4>1. PICK v \in User : /\ users[v] # None /\ users[v].email = r.new_email
                              /\ p \in UserHolders(v)'
        BY <3>1
      <4>2. v = r.user_id
        BY <2>1, <4>1 DEF Taken
      <4>3. QED
        BY <1>6, <2>3, <4>1, <4>2
    <3>2. CASE c.pc = "commit" /\ \E s \in c.row : s.kind = "email" /\ s.new_email = r.new_email
      <4>1. EmailHolders(r.new_email) \subseteq {p}
        BY <1>1, <3>2, QuietLocks
      <4>2. QED
        BY <2>3, <4>1
    <3>3. QED
      BY <1>2, <1>3, <2>4, <3>1, <3>2, HoldersNext
  <2>5. QED
    BY <2>1, <2>2, <2>4, HoldersAreCalls
<1>10. ASSUME c.pc = "commit", NEW r \in c.row, r.kind = "email"
       PROVE  ~Taken(r.new_email, r.user_id) /\ EmailHolders(r.new_email)' \subseteq {p}
  <2>1. ~Taken(r.new_email, r.user_id) /\ EmailHolders(r.new_email) \subseteq {p}
    BY <1>1, <1>10, QuietLocks
  <2>2. \A s \in Proc \ {p} : s \in EmailHolders(r.new_email)' => s \in EmailHolders(r.new_email)
    BY <1>2, <1>3, <1>5, Holders, HoldersNext
  <2>3. QED
    BY <2>1, <2>2, HoldersAreCalls
<1>11. QED
  BY <1>3, <1>7, <1>8, <1>9, <1>10 DEF AccountLocks

(***************************************************************************)
(* A sign-up preserves the invariant.                                      *)
(***************************************************************************)

\* The new account has an email nobody has or is about to get.
LEMMA SignUpStep ==
    ASSUME IInv, NEW user \in User, NEW email \in Email, SignUp(user, email)
    PROVE  IInv'
<1>1. /\ users[user] = None /\ EmailHolders(email) = {} /\ ~Taken(email, user)
      /\ users' = [users EXCEPT ![user] = [email |-> email, password |-> None]]
      /\ UNCHANGED <<now, requests, inbox, issued, spent, call>>
  BY DEF SignUp
<1>2. /\ users \in [User -> Account \cup {None}]
      /\ [email |-> email, password |-> None] \in Account
      /\ None \notin Account
  BY NoneAssumption DEF IInv, TypeOK, Account
<1>3. /\ users'[user] # None /\ users'[user].email = email
      /\ \A v \in User \ {user} : users'[v] = users[v]
      /\ users' \in [User -> Account \cup {None}]
      /\ \A v : v \in User /\ users[v] # None => users'[v] = users[v]
  BY <1>1, <1>2
<1>4. TypeOK'
  BY <1>1, <1>3 DEF IInv, TypeOK
<1>5. RowsAreIssued'
  <2>1. \A r \in requests : r.user_id \in User
    BY DEF IInv, TypeOK, ResetRequest
  <2>2. QED
    BY <1>1, <1>3, <2>1 DEF IInv, RowsAreIssued
<1>6. MailsMatch'
  <2>1. \A p \in Proc : call[p].pc \in {"check", "create", "mail", "change"} => users'[call[p].user] # None
    <3>1. ASSUME NEW p \in Proc, call[p].pc \in {"check", "create", "mail", "change"}
          PROVE  users'[call[p].user] # None
      <4>1. call[p].user \in User /\ users[call[p].user] # None
        BY <3>1 DEF IInv, TypeOK, Call, MailsMatch
      <4>2. QED
        BY <1>3, <4>1
    <3>2. QED
      BY <3>1
  <2>2. QED
    BY <1>1, <2>1 DEF IInv, MailsMatch
<1>7. TokenLocks' /\ SpentOnce'
  BY <1>1 DEF IInv, TokenLocks, SpentOnce
<1>8. \A u : UserHolders(u)' = UserHolders(u)
  BY <1>1 DEF UserHolders
<1>9. AccountLocks'
  <2>1. ASSUME NEW p \in Proc, call[p].pc = "commit", NEW r \in call[p].row, r.kind = "email"
        PROVE  ~Taken(r.new_email, r.user_id)' /\ EmailHolders(r.new_email)' \subseteq {p}
    <3>1. ~Taken(r.new_email, r.user_id) /\ EmailHolders(r.new_email) \subseteq {p}
      BY <2>1 DEF IInv, AccountLocks
    <3>2. r.new_email # email
      BY <1>1, <2>1, Holders
    <3>3. ~Taken(r.new_email, r.user_id)'
      BY <1>3, <3>1, <3>2 DEF Taken
    <3>4. EmailHolders(r.new_email)' \subseteq EmailHolders(r.new_email)
      BY <1>1, <1>3, <1>8, <3>2, Holders, HoldersNext, HoldersAreCalls
    <3>5. QED
      BY <3>1, <3>3, <3>4
  <2>2. QED
    BY <1>1, <1>8, <2>1 DEF IInv, AccountLocks
<1>10. EmailsUnique'
  BY <1>1, <1>3 DEF IInv, EmailsUnique, Taken
<1>11. QED
  BY <1>4, <1>5, <1>6, <1>7, <1>9, <1>10 DEF IInv

(***************************************************************************)
(* Storing a token and mailing it.                                         *)
(***************************************************************************)

\* A call that holds nothing before and after a step does not disturb the
\* locks, as long as the accounts stand still.
LEMMA IdleLocks ==
    ASSUME IInv, NEW p \in Proc, NEW c, call' = [call EXCEPT ![p] = c], CallOK(c),
           UNCHANGED users, requests \subseteq requests',
           call[p].pc \in {"create", "mail"}, c.pc \in {"idle", "mail"}, c.row = {}
    PROVE  TokenLocks' /\ AccountLocks'
<1>1. /\ call'[p] = c
      /\ \A q \in Proc \ {p} : call'[q] = call[q]
  BY CallMoves DEF IInv
<1>2. TokenLocks'
  BY <1>1 DEF IInv, TokenLocks
<1>3. \A q \in Proc : \A u : q \in UserHolders(u)' <=> q \in UserHolders(u)
  BY <1>1, Holders, HoldersNext
<1>4. \A q \in Proc : \A e : q \in EmailHolders(e)' <=> q \in EmailHolders(e)
  BY <1>1, <1>3, Holders, HoldersNext
<1>5. \A e, u : Taken(e, u)' <=> Taken(e, u)
  BY DEF Taken
<1>6. \A u \in User : \A q, s \in UserHolders(u)' : q = s
  BY <1>3, HoldersAreCalls DEF IInv, AccountLocks
<1>7. ASSUME NEW q \in Proc, call'[q].pc = "commit", NEW r \in call'[q].row, r.kind = "email"
      PROVE  ~Taken(r.new_email, r.user_id)' /\ EmailHolders(r.new_email)' \subseteq {q}
  <2>1. call[q].pc = "commit" /\ r \in call[q].row
    BY <1>1, <1>7
  <2>2. ~Taken(r.new_email, r.user_id) /\ EmailHolders(r.new_email) \subseteq {q}
    BY <1>7, <2>1 DEF IInv, AccountLocks
  <2>3. QED
    BY <1>4, <1>5, <2>2, HoldersAreCalls
<1>8. QED
  BY <1>2, <1>6, <1>7 DEF AccountLocks

\* A new token is unlike every other.
LEMMA StoreStep ==
    ASSUME IInv, NEW p \in Proc, StoreRequest(p)
    PROVE  IInv'
<1>1. PICK t \in Fresh :
         /\ requests' = requests \cup {NewRow(p, t)}
         /\ issued' = [issued EXCEPT ![t] = NewRow(p, t)]
         /\ \/ call' = [call EXCEPT ![p].pc = "mail", ![p].token = t]
            \/ call' = [call EXCEPT ![p] = Idle]
  BY DEF StoreRequest, Return
<1>2. call[p].pc = "create" /\ UNCHANGED <<now, users, inbox, spent>>
  BY DEF StoreRequest
<1> DEFINE row == NewRow(p, t)
<1>3. t \in Token /\ issued[t] = None
  BY DEF Fresh
<1>4. /\ call[p] \in Call /\ call[p].user \in User /\ call[p].email \in Email
      /\ call[p].kind \in Kind /\ users[call[p].user] # None /\ call[p].row = {} /\ now \in Nat
  BY <1>2 DEF IInv, TypeOK, Call, MailsMatch, TokenLocks
<1>5. /\ row \in ResetRequest /\ row.id = t /\ row.user_id = call[p].user
      /\ row.kind = call[p].kind /\ row.created_at = now
      /\ row.kind = "email" => row.new_email = call[p].email
      /\ row # None /\ call[p].email # None /\ t # None /\ call[p].user # None
  BY <1>3, <1>4, NoneAssumption DEF NewRow, ResetRequest
<1> HIDE DEF row
<1>6. PICK c : /\ call' = [call EXCEPT ![p] = c] /\ CallOK(c) /\ c.row = {}
               /\ \/ c.pc = "idle"
                  \/ c.pc = "mail" /\ c.token = t /\ c.user = call[p].user
                     /\ c.email = call[p].email
  <2> DEFINE d == [call[p] EXCEPT !.pc = "mail", !.token = t]
  <2>1. /\ CallOK(d) /\ d.row = {} /\ d.pc = "mail" /\ d.token = t /\ d.user = call[p].user
        /\ d.email = call[p].email
    BY <1>3, <1>4, <1>5 DEF CallOK, Call
  <2>2. CallOK(Idle) /\ Idle.row = {} /\ Idle.pc = "idle"
    BY IdleOK DEF Idle
  <2>3. call' = [call EXCEPT ![p] = d] \/ call' = [call EXCEPT ![p] = Idle]
    BY <1>1
  <2> HIDE DEF d
  <2>4. QED
    BY <2>1, <2>2, <2>3
<1>7. /\ call' \in [Proc -> Call]
      /\ call'[p] = c
      /\ \A q \in Proc \ {p} : call'[q] = call[q]
      /\ \A q \in Proc : CallOK(call'[q])
  BY <1>6, CallMoves DEF IInv
<1>8. /\ issued' \in [Token -> ResetRequest \cup {None}]
      /\ issued'[t] = row
      /\ \A s \in Token \ {t} : issued'[s] = issued[s]
      /\ requests' = requests \cup {row}
  BY <1>1, <1>3, <1>5 DEF IInv, TypeOK, row
<1>9. TypeOK'
  BY <1>2, <1>4, <1>5, <1>7, <1>8 DEF IInv, TypeOK, CallOK
<1>10. \A r \in requests : r.id \in Token \ {t} /\ issued[r.id] = r
  <2>1. ASSUME NEW r \in requests
        PROVE  r.id \in Token \ {t} /\ issued[r.id] = r
    <3>1. r \in ResetRequest /\ issued[r.id] = r
      BY DEF IInv, TypeOK, RowsAreIssued
    <3>2. r.id \in Token /\ r # None
      BY <3>1, NoneAssumption DEF ResetRequest
    <3>3. QED
      BY <1>3, <3>1, <3>2
  <2>2. QED
    BY <2>1
<1>11. RowsAreIssued'
  <2>1. \A r \in requests' : issued'[r.id] = r /\ users'[r.user_id] # None
    BY <1>2, <1>4, <1>5, <1>8, <1>10 DEF IInv, RowsAreIssued
  <2>2. ASSUME NEW s \in Token, issued'[s] # None
        PROVE  issued'[s].id = s /\ (issued'[s].kind = "email" => issued'[s].new_email # None)
    BY <1>5, <1>8, <2>2 DEF IInv, RowsAreIssued
  <2>3. QED
    BY <2>1, <2>2 DEF RowsAreIssued
<1>12. MailsMatch'
  <2>1. ASSUME NEW mail \in inbox
        PROVE  /\ issued'[mail.token] # None
               /\ issued'[mail.token].kind = "email" => issued'[mail.token].new_email = mail.to
    <3>1. mail.token \in Token \ {t}
      BY <1>3 DEF IInv, TypeOK, MailsMatch
    <3>2. QED
      BY <1>8, <3>1 DEF IInv, MailsMatch
  <2>2. ASSUME NEW q \in Proc \ {p}
        PROVE  /\ call[q].pc \in {"check", "create", "mail", "change"} => users[call[q].user] # None
               /\ call[q].pc = "mail" =>
                    /\ issued'[call[q].token] # None
                    /\ issued'[call[q].token].kind = "email" =>
                         issued'[call[q].token].new_email = call[q].email
               /\ call[q].pc \in {"consume", "lock", "index", "commit"} =>
                    \E mail \in inbox : mail.token = call[q].token
    <3>1. call[q].pc = "mail" => call[q].token \in Token \ {t}
      BY <1>3 DEF IInv, TypeOK, Call, MailsMatch
    <3>2. QED
      BY <1>8, <3>1 DEF IInv, MailsMatch
  <2>3. QED
    BY <1>2, <1>4, <1>5, <1>6, <1>7, <1>8, <2>1, <2>2 DEF MailsMatch
<1>13. TokenLocks' /\ AccountLocks'
  BY <1>2, <1>6, <1>8, IdleLocks
<1>14. SpentOnce'
  <2>1. spent[t] = 0
    BY <1>3 DEF IInv, SpentOnce
  <2>2. ASSUME NEW s \in Token \ {t}
        PROVE  issued[s] # None => issued[s] # row
    BY <1>5 DEF IInv, RowsAreIssued
  <2>3. QED
    BY <1>2, <1>3, <1>8, <2>1, <2>2 DEF IInv, SpentOnce
<1>15. EmailsUnique'
  BY <1>2 DEF IInv, EmailsUnique
<1>16. QED
  BY <1>9, <1>11, <1>12, <1>13, <1>14, <1>15 DEF IInv

\* The mail goes where the stored row says.
LEMMA MailStep ==
    ASSUME IInv, NEW p \in Proc, SendMail(p)
    PROVE  IInv'
<1>1. /\ call[p].pc = "mail"
      /\ inbox' = inbox \cup {[token |-> call[p].token, to |-> call[p].email]}
      /\ call' = [call EXCEPT ![p] = Idle]
      /\ UNCHANGED <<now, users, requests, issued, spent>>
  BY DEF SendMail, Return, Recipient
<1>2. /\ call' \in [Proc -> Call]
      /\ call'[p] = Idle
      /\ \A q \in Proc \ {p} : call'[q] = call[q]
      /\ \A q \in Proc : CallOK(call'[q])
  BY <1>1, IdleOK, CallMoves DEF IInv
<1>3. call[p].token \in Token /\ call[p].email \in Email
  BY <1>1 DEF IInv, TypeOK, Call
<1>4. TypeOK'
  BY <1>1, <1>2, <1>3 DEF IInv, TypeOK, CallOK
<1>5. RowsAreIssued' /\ SpentOnce' /\ EmailsUnique'
  BY <1>1 DEF IInv, RowsAreIssued, SpentOnce, EmailsUnique
<1>6. MailsMatch'
  <2>1. \A mail \in inbox' : /\ issued[mail.token] # None
                             /\ issued[mail.token].kind = "email" =>
                                  issued[mail.token].new_email = mail.to
    BY <1>1 DEF IInv, MailsMatch
  <2>2. Idle.pc = "idle" /\ inbox \subseteq inbox'
    BY <1>1 DEF Idle
  <2>3. QED
    BY <1>1, <1>2, <2>1, <2>2 DEF IInv, MailsMatch
<1>7. TokenLocks' /\ AccountLocks'
  <2>1. Idle.pc = "idle" /\ Idle.row = {}
    BY DEF Idle
  <2>2. QED
    BY <1>1, <2>1, IdleOK, IdleLocks
<1>8. QED
  BY <1>4, <1>5, <1>6, <1>7 DEF IInv

(***************************************************************************)
(* The change of a password without a token.                               *)
(***************************************************************************)

\* What the UPDATE does: every email, and every lock, stays.
LEMMA ChangeEffect ==
    ASSUME IInv, NEW p \in Proc, ChangePassword(p)
    PROVE  /\ call[p].pc = "change" /\ call[p].user \in User /\ users[call[p].user] # None
           /\ users' = [users EXCEPT ![call[p].user].password = None]
           /\ users' \in [User -> Account \cup {None}]
           /\ \A v : v \in User => (users'[v] # None <=> users[v] # None)
           /\ \A v \in User : users[v] # None => users'[v].email = users[v].email
           /\ call' = [call EXCEPT ![p] = Idle]
           /\ UNCHANGED <<now, requests, inbox, issued, spent>>
<1>1. /\ call[p].pc = "change"
      /\ users' = [users EXCEPT ![call[p].user].password = None]
      /\ call' = [call EXCEPT ![p] = Idle]
      /\ UNCHANGED <<now, requests, inbox, issued, spent>>
  BY DEF ChangePassword, Return
<1>2. call[p].user \in User /\ users[call[p].user] # None
  BY <1>1 DEF IInv, TypeOK, Call, MailsMatch
<1> DEFINE user == call[p].user
           account == [users[user] EXCEPT !.password = None]
<1>3. users \in [User -> Account \cup {None}] /\ users[user] \in Account /\ None \notin Account
  BY <1>2, NoneAssumption DEF IInv, TypeOK
<1>4. account \in Account /\ account.email = users[user].email
  BY <1>3 DEF Account
<1>5. users' = [users EXCEPT ![user] = account]
  BY <1>1
<1> HIDE DEF account
<1>6. /\ users' \in [User -> Account \cup {None}]
      /\ users'[user] = account
      /\ \A v \in User \ {user} : users'[v] = users[v]
  BY <1>2, <1>3, <1>4, <1>5
<1>7. account # None
  BY <1>3, <1>4
<1>8. QED
  BY <1>1, <1>2, <1>4, <1>6, <1>7

\* The change of a password preserves the invariant.
LEMMA ChangeStep ==
    ASSUME IInv, NEW p \in Proc, ChangePassword(p)
    PROVE  IInv'
<1>1. /\ call[p].pc = "change"
      /\ users' \in [User -> Account \cup {None}]
      /\ \A v : v \in User => (users'[v] # None <=> users[v] # None)
      /\ \A v \in User : users[v] # None => users'[v].email = users[v].email
      /\ call' = [call EXCEPT ![p] = Idle]
      /\ UNCHANGED <<now, requests, inbox, issued, spent>>
  BY ChangeEffect
<1>2. /\ call' \in [Proc -> Call]
      /\ call'[p] = Idle
      /\ \A q \in Proc \ {p} : call'[q] = call[q]
      /\ \A q \in Proc : CallOK(call'[q])
  BY <1>1, IdleOK, CallMoves DEF IInv
<1>3. Idle.pc = "idle" /\ Idle.row = {}
  BY DEF Idle
<1>4. TypeOK'
  BY <1>1, <1>2 DEF IInv, TypeOK, CallOK
<1>5. RowsAreIssued'
  <2>1. \A r \in requests : r.user_id \in User
    BY DEF IInv, TypeOK, ResetRequest
  <2>2. QED
    BY <1>1, <2>1 DEF IInv, RowsAreIssued
<1>6. MailsMatch'
  <2>1. ASSUME NEW q \in Proc \ {p}, call[q].pc \in {"check", "create", "mail", "change"}
        PROVE  users'[call[q].user] # None
    <3>1. call[q].user \in User /\ users[call[q].user] # None
      BY <2>1 DEF IInv, TypeOK, Call, MailsMatch
    <3>2. QED
      BY <1>1, <3>1
  <2>2. QED
    BY <1>1, <1>2, <1>3, <2>1 DEF IInv, MailsMatch
<1>7. TokenLocks' /\ SpentOnce'
  BY <1>1, <1>2, <1>3 DEF IInv, TokenLocks, SpentOnce
<1>8. \A q \in Proc : \A u : q \in UserHolders(u)' <=> q \in UserHolders(u)
  <2>1. call[p].pc = "change"
    BY <1>1
  <2>2. QED
    BY <1>2, <1>3, <2>1, Holders, HoldersNext
<1>9. \A q \in Proc : \A e : q \in EmailHolders(e)' => q \in EmailHolders(e)
  BY <1>1, <1>2, <1>3, <1>8, Holders, HoldersNext
<1>10. \A e, u : Taken(e, u)' <=> Taken(e, u)
  BY <1>1 DEF Taken
<1>11. AccountLocks'
  <2>1. \A u \in User : \A q, s \in UserHolders(u)' : q = s
    BY <1>8, HoldersAreCalls DEF IInv, AccountLocks
  <2>2. ASSUME NEW q \in Proc, call'[q].pc = "commit", NEW r \in call'[q].row, r.kind = "email"
        PROVE  ~Taken(r.new_email, r.user_id)' /\ EmailHolders(r.new_email)' \subseteq {q}
    <3>1. call[q].pc = "commit" /\ r \in call[q].row
      BY <1>2, <1>3, <2>2
    <3>2. ~Taken(r.new_email, r.user_id) /\ EmailHolders(r.new_email) \subseteq {q}
      BY <2>2, <3>1 DEF IInv, AccountLocks
    <3>3. QED
      BY <1>9, <1>10, <3>2, HoldersAreCalls
  <2>3. QED
    BY <2>1, <2>2 DEF AccountLocks
<1>12. EmailsUnique'
  BY <1>1 DEF IInv, EmailsUnique
<1>13. QED
  BY <1>4, <1>5, <1>6, <1>7, <1>11, <1>12 DEF IInv

(***************************************************************************)
(* The commit of a redemption.                                             *)
(***************************************************************************)

\* What a commit does, by the one row in hand.
LEMMA CommitEffect ==
    ASSUME IInv, NEW p \in Proc, Commit(p)
    PROVE  \E r \in call[p].row :
             /\ call[p].pc = "commit" /\ r \in requests /\ r \in ResetRequest
             /\ r.id \in Token /\ r.user_id \in User /\ r.id = call[p].token
             /\ issued[r.id] = r /\ users[r.user_id] # None
             /\ requests' = requests \ {r}
             /\ spent' = [spent EXCEPT ![r.id] = @ + 1]
             /\ users' \in [User -> Account \cup {None}]
             /\ \A v \in User \ {r.user_id} : users'[v] = users[v]
             /\ users'[r.user_id] # None
             /\ r.kind # "email" => users'[r.user_id].email = users[r.user_id].email
             /\ r.kind = "email" => users'[r.user_id].email = r.new_email
             /\ \A v \in User : users'[v] # None <=> users[v] # None
             /\ call' = [call EXCEPT ![p] = Idle]
             /\ UNCHANGED <<now, inbox, issued>>
<1>1. PICK r \in call[p].row :
         /\ requests' = requests \ {r}
         /\ users' = IF r.kind = "email" THEN [users EXCEPT ![r.user_id].email = r.new_email]
                                         ELSE [users EXCEPT ![r.user_id].password = r.id]
         /\ spent' = [spent EXCEPT ![r.id] = @ + 1]
  BY DEF Commit
<1>2. call[p].pc = "commit" /\ call' = [call EXCEPT ![p] = Idle] /\ UNCHANGED <<now, inbox, issued>>
  BY DEF Commit, Return
<1>3. /\ r \in requests /\ r \in ResetRequest /\ r.id = call[p].token
      /\ issued[r.id] = r /\ users[r.user_id] # None
  BY OneRow
<1>4. r.id \in Token /\ r.user_id \in User /\ r.new_email \in Email \cup {None}
  BY <1>3 DEF ResetRequest
<1>5. r.kind = "email" => r.new_email \in Email
  BY <1>3, <1>4, NoneAssumption DEF IInv, RowsAreIssued
<1>6. users \in [User -> Account \cup {None}] /\ users[r.user_id] \in Account /\ None \notin Account
  BY <1>3, <1>4, NoneAssumption DEF IInv, TypeOK
<1> DEFINE account == IF r.kind = "email"
                      THEN [users[r.user_id] EXCEPT !.email = r.new_email]
                      ELSE [users[r.user_id] EXCEPT !.password = r.id]
<1>7. /\ account \in Account
      /\ r.kind # "email" => account.email = users[r.user_id].email
      /\ r.kind = "email" => account.email = r.new_email
  BY <1>4, <1>5, <1>6 DEF Account
<1>8. users' = [users EXCEPT ![r.user_id] = account]
  BY <1>1
<1> HIDE DEF account
<1>9. /\ users' \in [User -> Account \cup {None}]
      /\ users'[r.user_id] = account
      /\ \A v \in User \ {r.user_id} : users'[v] = users[v]
  BY <1>4, <1>6, <1>7, <1>8
<1>10. account # None
  BY <1>6, <1>7
<1>11. \A v \in User : users'[v] # None <=> users[v] # None
  BY <1>3, <1>9, <1>10
<1>12. QED
  BY <1>1, <1>2, <1>3, <1>4, <1>7, <1>9, <1>10, <1>11

\* A commit uses up its token and leaves every other lock where it was.
LEMMA CommitStep ==
    ASSUME IInv, NEW p \in Proc, Commit(p)
    PROVE  IInv'
<1>1. PICK r \in call[p].row :
             /\ call[p].pc = "commit" /\ r \in requests /\ r \in ResetRequest
             /\ r.id \in Token /\ r.user_id \in User /\ r.id = call[p].token
             /\ issued[r.id] = r /\ users[r.user_id] # None
             /\ requests' = requests \ {r}
             /\ spent' = [spent EXCEPT ![r.id] = @ + 1]
             /\ users' \in [User -> Account \cup {None}]
             /\ \A v \in User \ {r.user_id} : users'[v] = users[v]
             /\ users'[r.user_id] # None
             /\ r.kind # "email" => users'[r.user_id].email = users[r.user_id].email
             /\ r.kind = "email" => users'[r.user_id].email = r.new_email
             /\ \A v \in User : users'[v] # None <=> users[v] # None
             /\ call' = [call EXCEPT ![p] = Idle]
             /\ UNCHANGED <<now, inbox, issued>>
  BY CommitEffect
<1>2. /\ call' \in [Proc -> Call]
      /\ call'[p] = Idle
      /\ \A q \in Proc \ {p} : call'[q] = call[q]
      /\ \A q \in Proc : CallOK(call'[q])
  BY <1>1, IdleOK, CallMoves DEF IInv
<1>3. Idle.pc = "idle" /\ Idle.row = {}
  BY DEF Idle
<1>4. /\ spent' \in [Token -> Nat]
      /\ spent'[r.id] = spent[r.id] + 1
      /\ \A t \in Token \ {r.id} : spent'[t] = spent[t]
  BY <1>1 DEF IInv, TypeOK
<1>5. TypeOK'
  BY <1>1, <1>2, <1>4 DEF IInv, TypeOK, CallOK
<1>6. RowsAreIssued'
  <2>1. \A s \in requests : s.user_id \in User
    BY DEF IInv, TypeOK, ResetRequest
  <2>2. QED
    BY <1>1, <2>1 DEF IInv, RowsAreIssued
<1>7. MailsMatch'
  <2>1. ASSUME NEW q \in Proc \ {p}, call[q].pc \in {"check", "create", "mail", "change"}
        PROVE  users'[call[q].user] # None
    <3>1. call[q].user \in User /\ users[call[q].user] # None
      BY <2>1 DEF IInv, TypeOK, Call, MailsMatch
    <3>2. QED
      BY <1>1, <3>1
  <2>2. QED
    BY <1>1, <1>2, <1>3, <2>1 DEF IInv, MailsMatch
<1>8. TokenLocks'
  <2>1. \A q \in Proc \ {p} : \A s \in call[q].row : s \in requests'
    BY <1>1 DEF IInv, TokenLocks
  <2>2. QED
    BY <1>2, <1>3, <2>1 DEF IInv, TokenLocks
<1>9. \A u : UserHolders(u)' \subseteq UserHolders(u) \ {p}
  BY <1>2, <1>3, Holders, HoldersNext, HoldersAreCalls
<1>10. p \in UserHolders(r.user_id)
  BY <1>1, Holders
<1>11. AccountLocks'
  <2>1. ASSUME NEW q \in Proc \ {p}, call[q].pc = "commit", NEW s \in call[q].row,
               s.kind = "email"
        PROVE  ~Taken(s.new_email, s.user_id)' /\ EmailHolders(s.new_email)' \subseteq {q}
    <3>1. ~Taken(s.new_email, s.user_id) /\ EmailHolders(s.new_email) \subseteq {q}
      BY <2>1 DEF IInv, AccountLocks
    <3>2. p \notin EmailHolders(s.new_email)
      BY <3>1
    <3>3. users'[r.user_id].email # s.new_email
      BY <1>1, <1>10, <3>2, Holders
    <3>4. ~Taken(s.new_email, s.user_id)'
      BY <1>1, <3>1, <3>3 DEF Taken
    <3>5. EmailHolders(s.new_email)' \subseteq EmailHolders(s.new_email)
      <4>1. ASSUME NEW x \in Proc, x \in EmailHolders(s.new_email)'
            PROVE  x \in EmailHolders(s.new_email)
        <5>1. CASE \E v \in User : /\ users'[v] # None /\ users'[v].email = s.new_email
                                   /\ x \in UserHolders(v)'
          BY <1>1, <1>9, <3>3, <5>1, Holders
        <5>2. CASE call'[x].pc = "commit" /\ \E y \in call'[x].row :
                     y.kind = "email" /\ y.new_email = s.new_email
          BY <1>2, <1>3, <5>2, Holders
        <5>3. QED
          BY <4>1, <5>1, <5>2, HoldersNext
      <4>2. QED
        BY <4>1, HoldersAreCalls
    <3>6. QED
      BY <3>1, <3>4, <3>5
  <2>2. \A u \in User : \A q, s \in UserHolders(u)' : q = s
    BY <1>9 DEF IInv, AccountLocks
  <2>3. QED
    BY <1>2, <1>3, <2>1, <2>2 DEF AccountLocks
<1>12. SpentOnce'
  <2>1. spent[r.id] = 0
    BY <1>1 DEF IInv, SpentOnce
  <2>2. r # None
    BY <1>1, NoneAssumption
  <2>3. ASSUME NEW t \in Token \ {r.id}
        PROVE  issued[t] # None => issued[t] # r
    BY <1>1 DEF IInv, RowsAreIssued
  <2>4. QED
    BY <1>1, <1>4, <2>1, <2>2, <2>3 DEF IInv, SpentOnce
<1>13. EmailsUnique'
  <2>1. ASSUME NEW v \in User \ {r.user_id}, users[v] # None
        PROVE  users'[r.user_id].email # users'[v].email
    <3>1. CASE r.kind = "email"
      <4>1. ~Taken(r.new_email, r.user_id)
        BY <1>1, <3>1 DEF IInv, AccountLocks
      <4>2. QED
        BY <1>1, <2>1, <3>1, <4>1 DEF Taken
    <3>2. CASE r.kind # "email"
      BY <1>1, <2>1, <3>2 DEF IInv, EmailsUnique
    <3>3. QED
      BY <3>1, <3>2
  <2>2. QED
    BY <1>1, <2>1 DEF IInv, EmailsUnique
<1>14. QED
  BY <1>5, <1>6, <1>7, <1>8, <1>11, <1>12, <1>13 DEF IInv

(***************************************************************************)
(* The theorems.                                                           *)
(***************************************************************************)

\* The steps that change nothing but the clock.
LEMMA TickStep ==
    ASSUME IInv, UNCHANGED <<users, requests, inbox, issued, spent, call>>, now' \in {now, now + 1}
    PROVE  IInv'
<1>1. TypeOK'
  <2>1. now \in Nat /\ \A r \in requests : r.created_at \in Nat /\ r.created_at <= now
    BY DEF IInv, TypeOK, ResetRequest
  <2>2. now' \in Nat /\ \A r \in requests : r.created_at <= now'
    BY <2>1
  <2>3. QED
    BY <2>2 DEF IInv, TypeOK
<1>2. RowsAreIssued' /\ MailsMatch' /\ TokenLocks' /\ SpentOnce' /\ EmailsUnique'
  BY DEF IInv, RowsAreIssued, MailsMatch, TokenLocks, SpentOnce, EmailsUnique
<1>3. AccountLocks'
  BY DEF IInv, AccountLocks, Taken, UserHolders, EmailHolders
<1>4. QED
  BY <1>1, <1>2, <1>3 DEF IInv

\* Nothing is stored, mailed or held at first.
LEMMA InitInv == Init => IInv
<1> SUFFICES ASSUME Init PROVE IInv
  OBVIOUS
<1>1. Idle.pc = "idle" /\ Idle.row = {}
  BY DEF Idle
<1>2. TypeOK
  BY <1>1, IdleOK, TokensAssumption DEF Init, TypeOK, CallOK
<1>3. RowsAreIssued /\ MailsMatch /\ TokenLocks /\ SpentOnce /\ EmailsUnique
  BY <1>1 DEF Init, RowsAreIssued, MailsMatch, TokenLocks, SpentOnce, EmailsUnique
<1>4. AccountLocks
  BY <1>1, Holders, HoldersAreCalls DEF Init, AccountLocks
<1>5. QED
  BY <1>2, <1>3, <1>4 DEF IInv

\* Every step preserves the invariant.
LEMMA NextInv == IInv /\ [Next]_vars => IInv'
<1> SUFFICES ASSUME IInv, [Next]_vars PROVE IInv'
  OBVIOUS
<1>1. ASSUME NEW p \in Proc, QuietStep(p)
      PROVE  IInv'
  BY <1>1, QuietTokens, QuietAccounts DEF IInv
<1>2. QED
  BY <1>1, Steps, TickStep, SignUpStep, StoreStep, MailStep, CommitStep, ChangeStep

\* The invariant of tokens and locks holds however requests, redemptions,
\* sign-ups, roll-backs and time interleave.
THEOREM InvariantHolds == Spec => []IInv
BY InitInv, NextInv, PTL DEF Spec

\* The types (internal/service/user), and with them the data each step reads.
THEOREM TypeCorrect == Spec => []TypeOK
<1>1. IInv => TypeOK
  BY DEF IInv
<1>2. QED
  BY <1>1, InvariantHolds, PTL

\* A token is redeemed at most once and its row is gone exactly when it was:
\* DELETE ... RETURNING in ResetPasswordFromResetRequest and
\* ResetEmailFromResetRequest, rolled back with everything else.
THEOREM TokensSpentOnce == Spec => []SpentOnce
<1>1. IInv => SpentOnce
  BY DEF IInv
<1>2. QED
  BY <1>1, InvariantHolds, PTL

\* No two accounts get one email: the unique index, locked up to the commit,
\* makes up for CreateEmailResetRequest's check being stale.
THEOREM EmailsStayUnique == Spec => []EmailsUnique
<1>1. IInv => EmailsUnique
  BY DEF IInv
<1>2. QED
  BY <1>1, InvariantHolds, PTL

\* A step of a dead token leaves it dead and its reset uncommitted.
LEMMA DeadStep ==
    ASSUME IInv, [Next]_vars, NEW t \in Token, Dead(t)
    PROVE  Dead(t)' /\ spent'[t] = spent[t]
<1>1. /\ issued[t] # None /\ now > Deadline(issued[t])
      /\ \A q \in Proc : \A r \in call[q].row : r.id # t
  BY DEF Dead, TokenHolders
<1>2. /\ issued[t] \in ResetRequest /\ issued[t].created_at \in Nat /\ now \in Nat
      /\ Deadline(issued[t]) \in Nat
  <2>1. issued[t] \in ResetRequest /\ issued[t].created_at \in Nat /\ now \in Nat
    BY <1>1 DEF IInv, TypeOK, ResetRequest
  <2>2. QED
    BY <2>1, TokensAssumption DEF Deadline
<1>3. ASSUME issued'[t] = issued[t], now' \in {now, now + 1},
             \A q \in Proc : \A r \in call'[q].row : r.id # t
      PROVE  Dead(t)'
  BY <1>1, <1>2, <1>3 DEF Dead, TokenHolders, Deadline
<1>4. CASE \/ UNCHANGED <<users, requests, inbox, issued, spent, call>> /\ now' \in {now, now + 1}
           \/ \E user \in User, email \in Email : SignUp(user, email)
  BY <1>1, <1>3, <1>4 DEF SignUp
<1>5. ASSUME NEW p \in Proc, NEW c, CallOK(c), call' = [call EXCEPT ![p] = c],
             \A r \in c.row : r.id # t
      PROVE  \A q \in Proc : \A r \in call'[q].row : r.id # t
  BY <1>1, <1>5, CallMoves DEF IInv
<1>6. CallOK(Idle) /\ Idle.row = {}
  BY IdleOK DEF Idle
<1>7. ASSUME NEW p \in Proc, StoreRequest(p)
      PROVE  Dead(t)' /\ spent'[t] = spent[t]
  <2>1. PICK s \in Fresh :
           /\ issued' = [issued EXCEPT ![s] = NewRow(p, s)]
           /\ \/ call' = [call EXCEPT ![p].pc = "mail", ![p].token = s]
              \/ call' = [call EXCEPT ![p] = Idle]
    BY <1>7 DEF StoreRequest, Return
  <2>2. issued'[t] = issued[t]
    BY <1>1, <2>1 DEF Fresh, IInv, TypeOK
  <2>3. \A q \in Proc : call'[q].row \subseteq call[q].row
    BY <1>6, <2>1 DEF IInv, TypeOK, Call
  <2>4. QED
    BY <1>1, <1>3, <1>7, <2>2, <2>3 DEF StoreRequest
<1>8. ASSUME NEW p \in Proc, SendMail(p)
      PROVE  Dead(t)' /\ spent'[t] = spent[t]
  BY <1>3, <1>5, <1>6, <1>8 DEF SendMail, Return
<1>9. ASSUME NEW p \in Proc, Commit(p)
      PROVE  Dead(t)' /\ spent'[t] = spent[t]
  <2>1. PICK r \in call[p].row : /\ r.id \in Token
                                 /\ spent' = [spent EXCEPT ![r.id] = @ + 1]
                                 /\ call' = [call EXCEPT ![p] = Idle]
                                 /\ UNCHANGED <<now, inbox, issued>>
    BY <1>9, CommitEffect
  <2>2. r.id # t
    BY <1>1
  <2>3. spent'[t] = spent[t]
    BY <2>1, <2>2 DEF IInv, TypeOK
  <2>4. QED
    BY <1>3, <1>5, <1>6, <2>1, <2>3
<1>10. ASSUME NEW p \in Proc, QuietStep(p)
       PROVE  Dead(t)' /\ spent'[t] = spent[t]
  <2>1. PICK c : call' = [call EXCEPT ![p] = c] /\ Quiet(p, c)
    BY <1>10 DEF QuietStep
  <2>2. UNCHANGED <<now, users, requests, inbox, issued, spent>>
    BY <1>10 DEF QuietStep
  <2>3. ASSUME NEW r \in requests, r.id = t, IsLive(r)
        PROVE  FALSE
    BY <1>1, <1>2, <2>3 DEF IInv, RowsAreIssued, IsLive
  <2>4. \A r \in c.row : r.id # t
    BY <1>1, <2>1, <2>3, QuietLocks
  <2>5. QED
    BY <1>3, <1>5, <2>1, <2>2, <2>4, QuietIsOK
<1>11. ASSUME NEW p \in Proc, ChangePassword(p)
       PROVE  Dead(t)' /\ spent'[t] = spent[t]
  BY <1>3, <1>5, <1>6, <1>11, ChangeEffect
<1>12. QED
  BY <1>4, <1>7, <1>8, <1>9, <1>10, <1>11, Steps

\* An expired token that no transaction has in hand is never redeemed: the age
\* is checked after the DELETE, and created_at never changes.
THEOREM DeadTokens == Spec => DeadTokensStayDead
<1>1. IInv /\ [Next]_vars => [\A t \in Token : Dead(t) => Dead(t)' /\ spent'[t] = spent[t]]_vars
  BY DeadStep
<1>2. QED
  BY <1>1, InitInv, NextInv, PTL DEF Spec, DeadTokensStayDead

\* A step that changes an account's email is the commit of a token issued for
\* the account and mailed to the new email alone.
LEMMA ConfirmedStep ==
    ASSUME IInv, [Next]_vars, NEW u \in User, users[u] # None,
           users'[u].email # users[u].email
    PROVE  \E t \in Token : /\ spent'[t] # spent[t] /\ issued[t].user_id = u
                            /\ MailedTo(t) = {users'[u].email}
<1>1. ASSUME NEW user \in User, NEW email \in Email, SignUp(user, email)
      PROVE  FALSE
  BY <1>1 DEF SignUp, IInv, TypeOK
<1>2. ASSUME NEW p \in Proc, ChangePassword(p)
      PROVE  FALSE
  BY <1>2, ChangeEffect
<1>3. PICK p \in Proc : Commit(p)
  BY <1>1, <1>2, Steps DEF StoreRequest, SendMail, QuietStep
<1>4. PICK r \in call[p].row :
             /\ call[p].pc = "commit" /\ r.id \in Token /\ r.id = call[p].token
             /\ issued[r.id] = r
             /\ spent' = [spent EXCEPT ![r.id] = @ + 1]
             /\ \A v \in User \ {r.user_id} : users'[v] = users[v]
             /\ r.kind # "email" => users'[r.user_id].email = users[r.user_id].email
             /\ r.kind = "email" => users'[r.user_id].email = r.new_email
  BY <1>3, CommitEffect
<1>5. u = r.user_id /\ r.kind = "email" /\ users'[u].email = r.new_email
  BY <1>4
<1>6. PICK mail \in inbox : mail.token = r.id
  BY <1>4 DEF IInv, MailsMatch
<1>7. \A m \in inbox : m.token = r.id => m.to = r.new_email
  BY <1>4, <1>5 DEF IInv, MailsMatch
<1>8. MailedTo(r.id) = {r.new_email}
  BY <1>6, <1>7 DEF MailedTo
<1>9. spent'[r.id] # spent[r.id]
  BY <1>4 DEF IInv, TypeOK
<1>10. QED
  BY <1>4, <1>5, <1>8, <1>9

\* An email changes only to the address its token was mailed to, whatever
\* requests, password changes and sign-ups happen between: the row names the
\* account and the new email, and both stay from the INSERT to the commit.
THEOREM EmailsAreConfirmed == Spec => EmailChangesAreConfirmed
<1>1. IInv /\ [Next]_vars =>
        [\A u \in User : users[u] # None /\ users'[u].email # users[u].email =>
          \E t \in Token : /\ spent'[t] # spent[t] /\ issued[t].user_id = u
                           /\ MailedTo(t) = {users'[u].email}]_vars
  BY ConfirmedStep
<1>2. QED
  BY <1>1, InitInv, NextInv, PTL DEF Spec, EmailChangesAreConfirmed

(***************************************************************************)
(* The refinement of ResetLedger.                                          *)
(***************************************************************************)

\* A token that was issued is on the ledger.
LEMMA OnLedger ==
    ASSUME IInv, NEW t \in Token
    PROVE  /\ issued[t] # None =>
                /\ ResetsBar[t] = [user_id |-> issued[t].user_id, kind |-> issued[t].kind,
                                   new_email |-> issued[t].new_email,
                                   state |-> IF issued[t] \in requests THEN "open" ELSE "used"]
                /\ ResetsBar[t] \in Ledger!Reset /\ ResetsBar[t] # None
           /\ issued[t] = None => ResetsBar[t] = None
<1>1. CASE issued[t] = None
  BY <1>1 DEF ResetsBar
<1>2. CASE issued[t] # None
  <2>1. issued[t] \in ResetRequest
    BY <1>2 DEF IInv, TypeOK
  <2>2. ResetsBar[t] = [user_id |-> issued[t].user_id, kind |-> issued[t].kind,
                        new_email |-> issued[t].new_email,
                        state |-> IF issued[t] \in requests THEN "open" ELSE "used"]
    BY <1>2 DEF ResetsBar
  <2>3. ResetsBar[t] \in Ledger!Reset
    BY <2>1, <2>2 DEF ResetRequest, Kind, Ledger!Reset
  <2>4. QED
    BY <1>2, <2>2, <2>3, LedgerAssumption
<1>3. QED
  BY <1>1, <1>2

\* If a step changes the row of one token only, so it does on the ledger.
LEMMA OneTokenMoves ==
    ASSUME NEW t \in Token,
           \A other \in Token \ {t} :
              issued'[other] = issued[other] /\ (issued[other] # None =>
                 (issued[other] \in requests' <=> issued[other] \in requests))
    PROVE  ResetsBar' = [ResetsBar EXCEPT ![t] = ResetsBar'[t]]
<1>1. ASSUME NEW other \in Token \ {t}
      PROVE  ResetsBar'[other] = ResetsBar[other]
  <2>1. CASE issued[other] = None
    BY <1>1, <2>1 DEF ResetsBar
  <2>2. CASE issued[other] # None
    BY <1>1, <2>2 DEF ResetsBar
  <2>3. QED
    BY <2>1, <2>2
<1>2. /\ ResetsBar = [x \in Token |-> ResetsBar[x]]
      /\ ResetsBar' = [x \in Token |-> ResetsBar'[x]]
  BY DEF ResetsBar
<1>3. QED
  BY <1>1, <1>2

\* A token that is stored is issued.
LEMMA StoreLedger ==
    ASSUME IInv, NEW p \in Proc, StoreRequest(p)
    PROVE  Ledger!LedgerNext
<1>1. PICK t \in Fresh :
         requests' = requests \cup {NewRow(p, t)} /\ issued' = [issued EXCEPT ![t] = NewRow(p, t)]
  BY DEF StoreRequest
<1> DEFINE row == NewRow(p, t)
<1>2. /\ t \in Token /\ issued[t] = None /\ issued \in [Token -> ResetRequest \cup {None}]
      /\ UNCHANGED users /\ call[p].pc = "create"
  BY <1>1 DEF Fresh, IInv, TypeOK, StoreRequest
<1>3. row.id = t /\ row.user_id = call[p].user /\ users[row.user_id] # None
  BY <1>2 DEF NewRow, IInv, MailsMatch
<1>4. IInv'
  BY StoreStep
<1> HIDE DEF row
<1>5. issued'[t] = row /\ row \in requests'
  BY <1>1, <1>2 DEF row
<1>6. row \in ResetRequest /\ row # None
  BY <1>4, <1>5, NoneAssumption DEF IInv, TypeOK
<1>7. ASSUME NEW other \in Token \ {t}
      PROVE  issued'[other] = issued[other] /\ (issued[other] # None =>
                (issued[other] \in requests' <=> issued[other] \in requests))
  <2>1. issued[other] # None => issued[other].id = other
    BY DEF IInv, RowsAreIssued
  <2>2. QED
    BY <1>1, <1>2, <1>3, <2>1 DEF row
<1>8. ResetsBar' = [ResetsBar EXCEPT ![t] = ResetsBar'[t]]
  BY <1>2, <1>7, OneTokenMoves
<1>9. ResetsBar'[t] = [user_id |-> row.user_id, kind |-> row.kind,
                       new_email |-> row.new_email, state |-> "open"]
  BY <1>2, <1>5, <1>6 DEF ResetsBar
<1>10. ResetsBar'[t] \in Ledger!Reset
  BY <1>6, <1>9 DEF ResetRequest, Kind, Ledger!Reset
<1>11. ResetsBar[t] = None
  BY <1>2 DEF ResetsBar
<1>12. Ledger!Issue(t, ResetsBar'[t])
  BY <1>2, <1>3, <1>8, <1>9, <1>11 DEF Ledger!Issue
<1>13. QED
  BY <1>2, <1>10, <1>12 DEF Ledger!LedgerNext

\* A commit uses its token and makes its change: nobody else has the email
\* by then, since the transaction has it locked.
LEMMA CommitLedger ==
    ASSUME IInv, NEW p \in Proc, Commit(p)
    PROVE  Ledger!LedgerNext
<1>1. PICK r \in call[p].row :
         /\ requests' = requests \ {r}
         /\ users' = IF r.kind = "email" THEN [users EXCEPT ![r.user_id].email = r.new_email]
                                         ELSE [users EXCEPT ![r.user_id].password = r.id]
  BY DEF Commit
<1>2. /\ r \in requests /\ r \in ResetRequest /\ issued[r.id] = r /\ call[p].pc = "commit"
      /\ r.id \in Token /\ UNCHANGED issued
  BY OneRow DEF Commit, ResetRequest
<1> DEFINE t == r.id
<1>3. \A other \in Token \ {t} : issued[other] # None => issued[other].id = other
  BY DEF IInv, RowsAreIssued
<1>4. r # None
  BY <1>2, NoneAssumption
<1>5. ResetsBar' = [ResetsBar EXCEPT ![t] = ResetsBar'[t]]
  BY <1>1, <1>2, <1>3, OneTokenMoves
<1>6. /\ ResetsBar[t] = [user_id |-> r.user_id, kind |-> r.kind,
                         new_email |-> r.new_email, state |-> "open"]
      /\ ResetsBar[t] # None
  BY <1>2, <1>4, OnLedger
<1>7. ResetsBar'[t] = [ResetsBar[t] EXCEPT !.state = "used"]
  <2>1. r \notin requests'
    BY <1>1
  <2>2. ResetsBar'[t] = [user_id |-> r.user_id, kind |-> r.kind,
                         new_email |-> r.new_email, state |-> "used"]
    BY <1>2, <1>4, <2>1 DEF ResetsBar
  <2>3. QED
    BY <1>6, <2>2
<1>8. Ledger!Use(t)
  BY <1>5, <1>6, <1>7 DEF Ledger!Use
<1>9. CASE r.kind = "email"
  <2>1. ~Taken(r.new_email, r.user_id)
    BY <1>2, <1>9 DEF IInv, AccountLocks
  <2>2. Ledger!OwnersOf(r.new_email) \subseteq {r.user_id}
    BY <2>1 DEF Taken, Ledger!OwnersOf
  <2>3. Ledger!ResetEmail(t)
    BY <1>1, <1>6, <1>8, <1>9, <2>2 DEF Ledger!ResetEmail
  <2>4. QED
    BY <1>2, <2>3 DEF Ledger!LedgerNext
<1>10. CASE r.kind = "password"
  <2>1. Ledger!ResetPassword(t)
    BY <1>1, <1>6, <1>8, <1>10 DEF Ledger!ResetPassword
  <2>2. QED
    BY <1>2, <2>1 DEF Ledger!LedgerNext
<1>11. QED
  BY <1>2, <1>9, <1>10 DEF ResetRequest, Kind

\* Every step of the tables is a step of the ledger or leaves it alone.
LEMMA StepLedger ==
    ASSUME IInv, [Next]_vars
    PROVE  [Ledger!LedgerNext]_<<users, ResetsBar>>
<1>1. CASE UNCHANGED <<users, requests, issued>>
  BY <1>1 DEF ResetsBar
<1>2. ASSUME NEW user \in User, NEW email \in Email, SignUp(user, email)
      PROVE  Ledger!LedgerNext
  <2>1. Ledger!OwnersOf(email) = {}
    BY <1>2 DEF SignUp, Taken, Ledger!OwnersOf
  <2>2. UNCHANGED ResetsBar
    BY <1>2 DEF SignUp, ResetsBar
  <2>3. Ledger!Register(user, email)
    BY <1>2, <2>1, <2>2 DEF SignUp, Ledger!Register
  <2>4. QED
    BY <2>3 DEF Ledger!LedgerNext
<1>3. ASSUME NEW p \in Proc, ChangePassword(p)
      PROVE  Ledger!LedgerNext
  <2>1. /\ call[p].user \in User /\ users[call[p].user] # None
        /\ users' = [users EXCEPT ![call[p].user].password = None]
        /\ UNCHANGED ResetsBar
    BY <1>3, ChangeEffect DEF ResetsBar
  <2>2. Ledger!ChangePassword(call[p].user)
    BY <2>1 DEF Ledger!ChangePassword
  <2>3. QED
    BY <2>1, <2>2 DEF Ledger!LedgerNext
<1>4. QED
  BY <1>1, <1>2, <1>3, Steps, StoreLedger, CommitLedger DEF QuietStep, SendMail

\* The ledger starts empty.
LEMMA InitLedger == Init => Ledger!LedgerInit
BY DEF Init, ResetsBar, Ledger!LedgerInit

\* The users table and the tables of reset requests implement ResetLedger:
\* however redemptions wait, fail and race, each is one step that uses up its
\* token and makes its change, or none.
THEOREM ImplementsResetsTheorem == Spec => ImplementsResets
<1>1. IInv /\ [Next]_vars => [Ledger!LedgerNext]_<<users, ResetsBar>>
  BY StepLedger
<1>2. QED
  BY <1>1, InitLedger, InitInv, NextInv, PTL DEF Spec, ImplementsResets, Ledger!LedgerSpec
====================================================================================
