-------------------------------- MODULE ResetLedger --------------------------------
(***************************************************************************)
(* What resets by token promise: a token is issued for one account and one *)
(* change, and used at most once, in the step that makes the change; no    *)
(* two accounts have one email.  Transactions, locks, mails and the clock  *)
(* are not visible here.  ResetTokens implements this module.              *)
(***************************************************************************)
CONSTANTS
    User, Email, Token,
    None          \* an account, a token or an email that there is not

Reset == [user_id : User, kind : {"password", "email"}, new_email : Email \cup {None},
          state : {"open", "used"}]

VARIABLES
    accounts,     \* each user's email, and the token that set the password, if one did
    resets        \* what each token was issued for, and whether it is open

OwnersOf(email) == {u \in User : accounts[u] # None /\ accounts[u].email = email}

\* Sign-up.
Register(user, email) ==
    /\ accounts[user] = None
    /\ OwnersOf(email) = {}
    /\ accounts' = [accounts EXCEPT ![user] = [email |-> email, password |-> None]]
    /\ UNCHANGED resets

\* The request for a reset has stored a token for an account that exists.
Issue(t, reset) ==
    /\ resets[t] = None
    /\ accounts[reset.user_id] # None /\ reset.state = "open"
    /\ resets' = [resets EXCEPT ![t] = reset]
    /\ UNCHANGED accounts

Use(t) ==
    /\ resets[t] # None /\ resets[t].state = "open"
    /\ resets' = [resets EXCEPT ![t].state = "used"]

\* A redemption: the new password is the one given with the token ...
ResetPassword(t) ==
    /\ Use(t) /\ resets[t].kind = "password"
    /\ accounts' = [accounts EXCEPT ![resets[t].user_id].password = t]

\* ... or the email is the one the token was issued for, if nobody else has it.
ResetEmail(t) ==
    /\ Use(t) /\ resets[t].kind = "email"
    /\ OwnersOf(resets[t].new_email) \subseteq {resets[t].user_id}
    /\ accounts' = [accounts EXCEPT ![resets[t].user_id].email = resets[t].new_email]

\* A user who is logged in changes the password, without a token.
ChangePassword(user) ==
    /\ accounts[user] # None
    /\ accounts' = [accounts EXCEPT ![user].password = None]
    /\ UNCHANGED resets

LedgerInit ==
    /\ accounts = [u \in User |-> None]
    /\ resets = [t \in Token |-> None]

LedgerNext ==
    \/ \E user \in User, email \in Email : Register(user, email)
    \/ \E t \in Token, reset \in Reset : Issue(t, reset)
    \/ \E t \in Token : ResetPassword(t) \/ ResetEmail(t)
    \/ \E user \in User : ChangePassword(user)

LedgerSpec == LedgerInit /\ [][LedgerNext]_<<accounts, resets>>
====================================================================================
