-------------------------------- MODULE ResetTokens --------------------------------
(***************************************************************************)
(* Password and email resets by a mailed token (internal/service/user):    *)
(* a request stores a token and mails it, a redemption deletes the token   *)
(* and updates the account in one transaction.  Accounts are the users     *)
(* table, whose emails are unique; sign-up inserts into it, and a user who *)
(* is logged in changes the password without a token.                      *)
(*                                                                         *)
(* A transaction writes nothing that others see before it commits, but     *)
(* holds locks: the token's row from the DELETE on, the user's row from    *)
(* the UPDATE on, and with it the old and the new email in the unique      *)
(* index.  A statement that meets such a lock waits for the other          *)
(* transaction to end; PostgreSQL aborts one of those that wait in a       *)
(* circle.                                                                 *)
(***************************************************************************)
EXTENDS Naturals, FiniteSets

CONSTANTS
    Proc,                           \* concurrent calls of the five operations
    User, Email, Token,             \* users.id, normalized emails, reset tokens
    None,
    Kinds,                          \* the changes in play, a subset of Kind
    passwordResetTokenDuration,     \* passwordResetTokenDurationMinutes, in ticks
    emailResetTokenDuration,        \* emailResetTokenDurationMinutes, in ticks
    Faults,                         \* what goes wrong, a subset of Fault
    MaxTime                         \* bound on the clock

Kind == {"password", "email"}

\* failed: a query or the mail server returns an error, or the call is cut
\* off; a transaction under way rolls back.  unknown: an INSERT commits but
\* its answer is an error.
Fault == {"failed", "unknown"}

ASSUME TokensAssumption ==
    /\ Kinds \subseteq Kind
    /\ Faults \subseteq Fault
    /\ passwordResetTokenDuration \in Nat
    /\ emailResetTokenDuration \in Nat
    /\ MaxTime \in Nat

Account == [email : Email, password : Token \cup {None}]

\* A row of password_reset_requests or of email_reset_requests.
ResetRequest == [id : Token, kind : Kind, user_id : User, new_email : Email \cup {None},
                 created_at : Nat]

ASSUME NoneAssumption == None \notin Token \cup Email \cup User \cup Account \cup ResetRequest

VARIABLES
    now,        \* the clock
    users,      \* the users table: email, and the token that set the password,
                \* None for a password its owner chose when signing up or logged in
    requests,   \* the two tables of reset requests
    inbox,      \* the mails with tokens, and whom they were sent to
    issued,     \* history: the row every token was stored with
    spent,      \* history: how often each token's reset was committed
    call        \* each call of an operation

vars == <<now, users, requests, inbox, issued, spent, call>>

\* row is what the DELETE of a transaction under way returned.
Call ==
    [pc : {"idle", "check", "create", "mail", "change", "consume", "lock", "index", "commit"},
     kind : Kind, user : User \cup {None}, email : Email \cup {None},
     token : Token \cup {None}, row : SUBSET ResetRequest]

Idle == [pc |-> "idle", kind |-> "password", user |-> None, email |-> None,
         token |-> None, row |-> {}]

Return(p) == call' = [call EXCEPT ![p] = Idle]

\* tx.Rollback: nothing was written, every lock is released.
LeaveOpen(p) == call' = [call EXCEPT ![p].pc = "idle"]  \* variant: never rolled back
RollBack(p) == Return(p)

----------------------------------------------------------------------------
(***************************************************************************)
(* Locks.                                                                  *)
(***************************************************************************)
Taken(email, user) == \E u \in User \ {user} : users[u] # None /\ users[u].email = email

\* Calls whose transaction deleted the token's row, and has it locked.
NoHolders(token) == {}                          \* variant: SELECT, later DELETE
TokenHolders(token) == {q \in Proc : \E r \in call[q].row : r.id = token}

\* Calls whose transaction updated the user's row.
UserHolders(user) ==
    {q \in Proc : call[q].pc \in {"index", "commit"} /\ \E r \in call[q].row : r.user_id = user}

\* Calls whose transaction may yet free the email, or has claimed it.
EmailHolders(email) ==
    (UNION {UserHolders(u) : u \in {v \in User : users[v] # None /\ users[v].email = email}})
    \cup {q \in Proc : call[q].pc = "commit" /\
                       \E r \in call[q].row : r.kind = "email" /\ r.new_email = email}

Blockers(p) ==
    CASE call[p].pc = "change"  -> UserHolders(call[p].user) \ {p}
      [] call[p].pc = "consume" -> TokenHolders(call[p].token) \ {p}
      [] call[p].pc = "lock"    -> (UNION {UserHolders(r.user_id) : r \in call[p].row}) \ {p}
      [] call[p].pc = "index"   -> (UNION {EmailHolders(r.new_email) : r \in call[p].row}) \ {p}
      [] OTHER                  -> {}

\* p waits in a circle: everyone in it waits for, and is waited for by, another.
Deadlocked(p) ==
    \E circle \in SUBSET Proc :
       /\ p \in circle
       /\ \A q \in circle : /\ Blockers(q) \cap circle # {}
                            /\ \E r \in circle : q \in Blockers(r)

----------------------------------------------------------------------------
(***************************************************************************)
(* Sign-up.                                                                *)
(***************************************************************************)

\* One INSERT; an email that is taken is ErrEmailTaken.
SignUp(user, email) ==
    /\ users[user] = None
    /\ EmailHolders(email) = {} /\ ~Taken(email, user)
    /\ users' = [users EXCEPT ![user] = [email |-> email, password |-> None]]
    /\ UNCHANGED <<now, requests, inbox, issued, spent, call>>

(***************************************************************************)
(* A request for a reset.                                                  *)
(***************************************************************************)

\* GetUserByEmail found the account (otherwise there is nothing to do).
CreatePasswordResetRequest(p, user) ==
    /\ call[p].pc = "idle" /\ "password" \in Kinds
    /\ users[user] # None
    /\ call' = [call EXCEPT ![p] = [Idle EXCEPT !.pc = "create", !.user = user,
                                                !.email = users[user].email]]
    /\ UNCHANGED <<now, users, requests, inbox, issued, spent>>

\* The user of the session gave the right password and another email ...
CreateEmailResetRequest(p, user, newEmail) ==
    /\ call[p].pc = "idle" /\ "email" \in Kinds
    /\ users[user] # None /\ users[user].email # newEmail
    /\ call' = [call EXCEPT ![p] = [Idle EXCEPT !.pc = "check", !.kind = "email",
                                                !.user = user, !.email = newEmail]]
    /\ UNCHANGED <<now, users, requests, inbox, issued, spent>>

\* ... which GetUserByEmail finds free for now.
CheckNewEmail(p) ==
    /\ call[p].pc = "check"
    /\ \/ Taken(call[p].email, None) /\ Return(p)
       \/ ~Taken(call[p].email, None) /\ call' = [call EXCEPT ![p].pc = "create"]
    /\ UNCHANGED <<now, users, requests, inbox, issued, spent>>

ExpiringRow(p, token) ==                         \* variant: stores the deadline
    [id |-> token, kind |-> call[p].kind, user_id |-> call[p].user,
     new_email |-> IF call[p].kind = "email" THEN call[p].email ELSE None,
     created_at |-> now + passwordResetTokenDuration]
NewRow(p, token) ==
    [id |-> token, kind |-> call[p].kind, user_id |-> call[p].user,
     new_email |-> IF call[p].kind = "email" THEN call[p].email ELSE None,
     created_at |-> now]

\* rand.Read never draws a token twice.
Fresh == {t \in Token : issued[t] = None}

\* The token is stored; if the answer is an error it will never be mailed.
StoreRequest(p) ==
    /\ call[p].pc = "create"
    /\ \E t \in Fresh :
         /\ requests' = requests \cup {NewRow(p, t)}
         /\ issued' = [issued EXCEPT ![t] = NewRow(p, t)]
         /\ \/ call' = [call EXCEPT ![p].pc = "mail", ![p].token = t]
            \/ "unknown" \in Faults /\ Return(p)
    /\ UNCHANGED <<now, users, inbox, spent>>

CurrentAddress(p) == users[call[p].user].email   \* variant: to the address on file
Recipient(p) == call[p].email

\* To the address the request names: the account's, or the new one.
SendMail(p) ==
    /\ call[p].pc = "mail"
    /\ inbox' = inbox \cup {[token |-> call[p].token, to |-> Recipient(p)]}
    /\ Return(p)
    /\ UNCHANGED <<now, users, requests, issued, spent>>

(***************************************************************************)
(* The change of a password by a user who is logged in.                    *)
(***************************************************************************)

\* The old password fits the hash in the row the middleware read, and the new
\* one is hashed ...
ResetPasswordForAuthenticatedUser(p, user) ==
    /\ call[p].pc = "idle" /\ "password" \in Kinds
    /\ users[user] # None
    /\ call' = [call EXCEPT ![p] = [Idle EXCEPT !.pc = "change", !.user = user,
                                                !.email = users[user].email]]
    /\ UNCHANGED <<now, users, requests, inbox, issued, spent>>

\* ... then one UPDATE by the user's id writes it, over whatever is there by
\* the time it has the row's lock.
ChangePassword(p) ==
    /\ call[p].pc = "change" /\ Blockers(p) = {}
    /\ users' = [users EXCEPT ![call[p].user].password = None]
    /\ Return(p)
    /\ UNCHANGED <<now, requests, inbox, issued, spent>>

----------------------------------------------------------------------------
(***************************************************************************)
(* The redemption of a token: runWithTx around DELETE ... RETURNING, the   *)
(* check of its age, and the UPDATE of the account.                        *)
(***************************************************************************)

\* The link in a mail was followed, again perhaps; the transaction begins.  A
\* token is 128 random bits: that nobody redeems one without its mail is an
\* assumption here.
Redeem(p, mail) ==
    /\ call[p].pc = "idle"
    /\ call' = [call EXCEPT ![p] = [Idle EXCEPT !.pc = "consume", !.token = mail.token]]
    /\ UNCHANGED <<now, users, requests, inbox, issued, spent>>

Deadline(r) ==
    r.created_at + IF r.kind = "password" THEN passwordResetTokenDuration
                                          ELSE emailResetTokenDuration

IsLivePassword(r) == r.kind = "password" => now <= Deadline(r)  \* variant: one kind only
IsLive(r) == now <= Deadline(r)

\* No row, or an expired one, is ErrInvalidResetToken; the deletion of the
\* latter is rolled back.
Consume(p) ==
    /\ call[p].pc = "consume" /\ Blockers(p) = {}
    /\ LET found == {r \in requests : r.id = call[p].token /\ IsLive(r)}
       IN \/ found = {} /\ RollBack(p)
          \/ found # {} /\ call' = [call EXCEPT ![p].pc = "lock", ![p].row = found]
    /\ UNCHANGED <<now, users, requests, inbox, issued, spent>>

\* UPDATE users: the user's row first ...
UpdateRow(p) ==
    /\ call[p].pc = "lock" /\ Blockers(p) = {}
    /\ \E r \in call[p].row :
         call' = [call EXCEPT ![p].pc = IF r.kind = "email" THEN "index" ELSE "commit"]
    /\ UNCHANGED <<now, users, requests, inbox, issued, spent>>

\* ... and for a new email the unique index: ErrEmailTaken rolls back.
UntestedIndex(p, r) == FALSE                     \* variant: no UNIQUE constraint
IsUniqueViolation(p, r) == Taken(r.new_email, r.user_id)

UpdateIndex(p) ==
    /\ call[p].pc = "index" /\ Blockers(p) = {}
    /\ \E r \in call[p].row :
         \/ IsUniqueViolation(p, r) /\ RollBack(p)
         \/ ~IsUniqueViolation(p, r) /\ call' = [call EXCEPT ![p].pc = "commit"]
    /\ UNCHANGED <<now, users, requests, inbox, issued, spent>>

\* tx.Commit: the deletion and the update take effect together.
Commit(p) ==
    /\ call[p].pc = "commit"
    /\ \E r \in call[p].row :
         /\ requests' = requests \ {r}
         /\ users' = IF r.kind = "email" THEN [users EXCEPT ![r.user_id].email = r.new_email]
                                         ELSE [users EXCEPT ![r.user_id].password = r.id]
         /\ spent' = [spent EXCEPT ![r.id] = @ + 1]
    /\ Return(p)
    /\ UNCHANGED <<now, inbox, issued>>

DeadlockDetected(p) ==
    /\ Deadlocked(p)
    /\ RollBack(p)
    /\ UNCHANGED <<now, users, requests, inbox, issued, spent>>

\* An error, or the end of the call; rand.Read stands for a model without
\* tokens left too.
Abandon(p) ==
    /\ \/ "failed" \in Faults /\ call[p].pc # "idle"
       \/ call[p].pc = "create" /\ Fresh = {}
    /\ RollBack(p)
    /\ UNCHANGED <<now, users, requests, inbox, issued, spent>>

Tick ==
    /\ now < MaxTime
    /\ now' = now + 1
    /\ UNCHANGED <<users, requests, inbox, issued, spent, call>>

----------------------------------------------------------------------------
Init ==
    /\ now = 0
    /\ users = [u \in User |-> None]
    /\ requests = {}
    /\ inbox = {}
    /\ issued = [t \in Token |-> None]
    /\ spent = [t \in Token |-> 0]
    /\ call = [p \in Proc |-> Idle]

Request(p) ==
    \/ \E user \in User : CreatePasswordResetRequest(p, user)
    \/ \E user \in User, newEmail \in Email : CreateEmailResetRequest(p, user, newEmail)
    \/ CheckNewEmail(p) \/ StoreRequest(p) \/ SendMail(p)

Change(p) ==
    \/ \E user \in User : ResetPasswordForAuthenticatedUser(p, user)
    \/ ChangePassword(p)

Redemption(p) ==
    Consume(p) \/ UpdateRow(p) \/ UpdateIndex(p) \/ Commit(p) \/ DeadlockDetected(p)

Next ==
    \/ \E user \in User, email \in Email : SignUp(user, email)
    \/ \E p \in Proc : \/ Request(p) \/ Change(p)
                       \/ \E mail \in inbox : Redeem(p, mail)
                       \/ Redemption(p)
                       \/ Abandon(p)
    \/ Tick

Spec == Init /\ [][Next]_vars

\* The database answers every statement, and lets those that wait for a lock
\* have it in turn.
FairSpec == Spec /\ \A p \in Proc : SF_vars(Redemption(p))

----------------------------------------------------------------------------
(***************************************************************************)
(* Properties                                                              *)
(***************************************************************************)

\* The types; no row is younger than the clock, and a call has the data its
\* next step needs.
TypeOK ==
    /\ now \in Nat
    /\ users \in [User -> Account \cup {None}]
    /\ requests \in SUBSET ResetRequest
    /\ \A r \in requests : r.created_at <= now
    /\ inbox \in SUBSET [token : Token, to : Email]
    /\ issued \in [Token -> ResetRequest \cup {None}]
    /\ spent \in [Token -> Nat]
    /\ call \in [Proc -> Call]
    /\ \A p \in Proc :
         /\ call[p].pc \in {"check", "create", "mail", "change"} =>
              call[p].user # None /\ call[p].email # None
         /\ call[p].pc \in {"mail", "consume", "lock", "index", "commit"} =>
              call[p].token # None

\* Single use, all or nothing: a token's reset is committed at most once, and
\* its row is gone exactly when it was, whatever was tried, rolled back or
\* tried twice at once.
SpentOnce ==
    \A t \in Token :
       /\ spent[t] \in {0, 1}
       /\ spent[t] = 1 <=> issued[t] # None /\ issued[t] \notin requests

\* No two accounts have the same email, although a new one is only checked
\* when the change is requested and sign-ups happen meanwhile.
EmailsUnique ==
    \A u, v \in User : users[u] # None /\ users[v] # None /\ users[u].email = users[v].email
                          => u = v

\* Stored tokens are the ones issued, for accounts that exist.
RowsAreIssued ==
    /\ \A r \in requests : issued[r.id] = r /\ users[r.user_id] # None
    /\ \A t \in Token : issued[t] # None =>
         issued[t].id = t /\ (issued[t].kind = "email" => issued[t].new_email # None)

\* A mail carries a token that was issued, to the new email if it is to change.
MailsMatch ==
    /\ \A mail \in inbox : /\ issued[mail.token] # None
                           /\ issued[mail.token].kind = "email" =>
                                issued[mail.token].new_email = mail.to
    /\ \A p \in Proc :
         /\ call[p].pc \in {"check", "create", "mail", "change"} => users[call[p].user] # None
         /\ call[p].pc = "mail" =>
              /\ issued[call[p].token] # None
              /\ issued[call[p].token].kind = "email" =>
                   issued[call[p].token].new_email = call[p].email
         /\ call[p].pc \in {"consume", "lock", "index", "commit"} =>
              \E mail \in inbox : mail.token = call[p].token

\* A transaction has one token's row in hand from the DELETE on, and nobody
\* else has it.
TokenLocks ==
    \A p \in Proc :
       /\ call[p].pc \notin {"lock", "index", "commit"} => call[p].row = {}
       /\ \A r \in call[p].row : /\ r.id = call[p].token /\ r \in requests
                                 /\ call[p].pc = "index" => r.kind = "email"
       /\ \A q \in Proc \ {p} : \A r \in call[p].row, s \in call[q].row : r.id # s.id

\* One transaction at a time has a user's row, and one that may commit a new
\* email has it to itself.
AccountLocks ==
    /\ \A u \in User : \A p, q \in UserHolders(u) : p = q
    /\ \A p \in Proc : call[p].pc = "commit" => \A r \in call[p].row : r.kind = "email" =>
         ~Taken(r.new_email, r.user_id) /\ EmailHolders(r.new_email) \subseteq {p}

\* The inductive invariant under the safety properties.
IInv ==
    /\ TypeOK /\ RowsAreIssued /\ MailsMatch /\ TokenLocks /\ AccountLocks
    /\ SpentOnce /\ EmailsUnique

MailedTo(t) == {mail.to : mail \in {m \in inbox : m.token = t}}

\* An account's email changes only in the step that spends a token issued for
\* that account, and only to the one address this token was mailed to: nobody
\* becomes the owner of an address that did not receive the link for it.
EmailChangesAreConfirmed ==
    [][\A u \in User : users[u] # None /\ users'[u].email # users[u].email =>
          \E t \in Token : /\ spent'[t] # spent[t] /\ issued[t].user_id = u
                           /\ MailedTo(t) = {users'[u].email}]_vars

\* A token past its deadline that no transaction has in hand.
Dead(t) == issued[t] # None /\ now > Deadline(issued[t]) /\ TokenHolders(t) = {}

\* Dead tokens stay dead: no redemption that comes late, waited for a lock or
\* is retried after a roll-back gets hold of one.
DeadTokensStayDead == [][\A t \in Token : Dead(t) => Dead(t)' /\ spent'[t] = spent[t]]_vars

(***************************************************************************)
(* The tables implement ResetLedger: a token is open while its row is      *)
(* there, and it is used in the one step that commits its transaction.     *)
(***************************************************************************)
ResetsBar ==
    [t \in Token |->
        IF issued[t] = None THEN None
        ELSE [user_id |-> issued[t].user_id, kind |-> issued[t].kind,
              new_email |-> issued[t].new_email,
              state |-> IF issued[t] \in requests THEN "open" ELSE "used"]]

Ledger == INSTANCE ResetLedger WITH accounts <- users, resets <- ResetsBar

ASSUME LedgerAssumption == None \notin Ledger!Reset

\* Transactions that wait, roll back, deadlock or are retried look like resets
\* that happen one at a time: each uses up its token and makes its change at
\* once, or does nothing.
ImplementsResets == Ledger!LedgerSpec

\* Every redemption ends, in spite of locks on tokens, accounts and emails.
RedemptionsEnd == \A p \in Proc : call[p].pc = "consume" ~> call[p].pc = "idle"
====================================================================================
