------------------------------------- MODULE Emails -------------------------------------
(***************************************************************************)
(* Spellings of an email: normalizeAndValidateEmail and trimAndRequireValue *)
(* of internal/service/user/service.go, the columns that hold the result,  *)
(* and the accounts and attempts that are found by it.                     *)
(*                                                                         *)
(* users.email is CITEXT, compared without regard to case; the email of an *)
(* attempt is TEXT.  Normalization lower-cases the domain only.  An address *)
(* is a sequence over a small alphabet in which one letter grows when it   *)
(* is lower-cased, as some do in UTF-8.                                    *)
(***************************************************************************)
EXTENDS Naturals, Sequences, SequencesExt

CONSTANTS
    Input,                  \* what is typed as an email, a set of texts
    MaxBytes,               \* the longest input, 254
    ColumnChars,            \* the longest email a column holds, 320
    MaxUsers,               \* bound on the accounts
    MaxRows                 \* bound on the attempts, and on the reset requests

Char == {"a", "A", "u", "U", ".", "@", "blank"}

ASSUME EmailsAssumption ==
    /\ Input \subseteq Seq(Char)
    /\ MaxBytes \in Nat /\ ColumnChars \in Nat /\ MaxBytes <= ColumnChars
    /\ MaxUsers \in Nat /\ MaxRows \in Nat

VARIABLES
    users,        \* the rows of users
    pending,      \* email_reset_requests: the new emails of users
    attempts      \* the emails of auth_attempts, with their actions

vars == <<users, pending, attempts>>

----------------------------------------------------------------------------
(***************************************************************************)
(* Texts.                                                                  *)
(***************************************************************************)
Lower(c) == CASE c = "A" -> "a" [] c = "U" -> "u" [] OTHER -> c
ToLower(text) == [i \in 1 .. Len(text) |-> Lower(text[i])]

\* In UTF-8: two bytes for U, three for u.
MoreThanOneByte(text) == {i \in 1 .. Len(text) : text[i] \in {"U", "u"}}
ThreeBytes(text) == {i \in 1 .. Len(text) : text[i] = "u"}
ByteLen(text) ==
    Len(text) + Cardinality(MoreThanOneByte(text)) + Cardinality(ThreeBytes(text))

TrimSpace(text) ==
    LET word == {i \in 1 .. Len(text) : text[i] # "blank"}
    IN  IF word = {} THEN <<>> ELSE SubSeq(text, Min(word), Max(word))

\* mail.ParseAddress finds nothing but the address itself: two runs of atoms
\* joined by single dots, about an @.
Atoms(text) ==
    /\ text # <<>> /\ Head(text) # "." /\ Last(text) # "."
    /\ \A i \in 1 .. Len(text) : text[i] \notin {"blank", "@"}
    /\ \A i \in 1 .. (Len(text) - 1) : text[i] # "." \/ text[i + 1] # "."

At(text) == CHOOSE i \in 1 .. Len(text) : text[i] = "@"
Local(text) == SubSeq(text, 1, At(text) - 1)
Domain(text) == SubSeq(text, At(text) + 1, Len(text))

ParseAddress(text) ==
    /\ \E i \in 1 .. Len(text) : text[i] = "@"
    /\ Atoms(Local(text)) /\ Atoms(Domain(text))

\* CITEXT equality, UNIQUE for users.
Citext(email) == ToLower(email)

----------------------------------------------------------------------------
(***************************************************************************)
(* Normalization.                                                          *)
(***************************************************************************)
ValidUntrimmed(input) ==                         \* variant: blanks are refused
    ByteLen(input) <= MaxBytes /\ ParseAddress(input) /\ Contains(Domain(input), ".")
ValidAnyLength(input) ==                         \* variant: without the limit
    LET email == TrimSpace(input) IN ParseAddress(email) /\ Contains(Domain(email), ".")
Valid(input) ==
    LET email == TrimSpace(input) IN
       /\ email # <<>> /\ ByteLen(email) <= MaxBytes
       /\ ParseAddress(email)
       /\ Contains(Domain(email), ".")

NormalizeNothing(input) == TrimSpace(input)      \* variant: the case of the domain is kept
Normalize(input) ==
    LET email == TrimSpace(input) IN Local(email) \o <<"@">> \o ToLower(Domain(email))

----------------------------------------------------------------------------
(***************************************************************************)
(* Accounts and attempts by email.                                         *)
(***************************************************************************)
GetUserByEmail(email) == {u \in users : Citext(u.email) = Citext(email)}

\* The CHECK constraint of the columns, which the model does not enforce:
\* AcceptedEmailsFit says that it has nothing to do.
Fits(email) == Len(email) \in 1 .. ColumnChars

\* An input that is not an email is answered and changes nothing.
Refuse(input) == ~Valid(input) /\ UNCHANGED vars

SignUpTrimmed(input) ==                          \* variant: stored as it was typed
    /\ Valid(input)
    /\ GetUserByEmail(TrimSpace(input)) = {}
    /\ Cardinality(users) < MaxUsers
    /\ users' = users \cup {[id |-> Cardinality(users) + 1, email |-> TrimSpace(input)]}
    /\ UNCHANGED <<pending, attempts>>
SignUp(input) ==
    /\ Valid(input)
    /\ GetUserByEmail(Normalize(input)) = {}
    /\ Cardinality(users) < MaxUsers
    /\ users' = users \cup {[id |-> Cardinality(users) + 1, email |-> Normalize(input)]}
    /\ UNCHANGED <<pending, attempts>>

\* A log-in or a request for a password reset records the email as it was normalized, whether
\* or not an account has it.
Record(action, email) ==
    /\ attempts' = attempts \cup {[action |-> action, email |-> email]}
    /\ Cardinality(attempts') <= MaxRows

AttemptRaw(action, input) ==                     \* variant: recorded as it was typed
    Valid(input) /\ Record(action, input) /\ UNCHANGED <<users, pending>>
Attempt(action, input) ==
    Valid(input) /\ Record(action, Normalize(input)) /\ UNCHANGED <<users, pending>>

\* A request to change an email is recorded by the current one, also when the
\* password is wrong, but not when the new one is in use, which refuses it.
CreateEmailResetRequest(u, input) ==
    /\ Valid(input)
    /\ Record("email_reset", u.email)
    /\ \/ UNCHANGED pending
       \/ /\ Normalize(input) # u.email /\ GetUserByEmail(Normalize(input)) = {}
          /\ pending' = pending \cup {[user_id |-> u.id, new_email |-> Normalize(input)]}
          /\ Cardinality(pending') <= MaxRows
    /\ UNCHANGED users

\* UPDATE users, unless the email has been taken meanwhile.
ResetEmail(request) ==
    /\ GetUserByEmail(request.new_email) \subseteq {u \in users : u.id = request.user_id}
    /\ users' = {u \in users : u.id # request.user_id}
                   \cup {[id |-> request.user_id, email |-> request.new_email]}
    /\ pending' = pending \ {request}
    /\ UNCHANGED attempts

Init == users = {} /\ pending = {} /\ attempts = {}

Next ==
    \/ \E input \in Input :
          \/ Refuse(input) \/ SignUp(input)
          \/ \E action \in {"login", "password_reset"} : Attempt(action, input)
          \/ \E u \in users : CreateEmailResetRequest(u, input)
    \/ \E request \in pending : ResetEmail(request)

Spec == Init /\ [][Next]_vars

----------------------------------------------------------------------------
(***************************************************************************)
(* Properties                                                              *)
(***************************************************************************)

\* The types; attempts are keyed by addresses, not by what was typed.
TypeOK ==
    /\ \A u \in users : u.id \in 1 .. MaxUsers /\ ParseAddress(u.email)
    /\ \A u, v \in users : u.id = v.id => u = v
    /\ \A r \in pending : r.user_id \in {u.id : u \in users} /\ ParseAddress(r.new_email)
    /\ \A a \in attempts : ParseAddress(a.email)

\* Any spelling of an account's email, in other case or between blanks, is
\* accepted and finds that account and no other, unless the spelling exceeds
\* the limit of bytes.
SpellingsFindTheAccount ==
    \A u \in users, input \in Input :
       Citext(TrimSpace(input)) = Citext(u.email) /\ ByteLen(TrimSpace(input)) <= MaxBytes =>
          Valid(input) /\ GetUserByEmail(Normalize(input)) = {u}

\* What passes the limit on bytes fits the columns, although lower-casing can
\* make it longer: no INSERT or UPDATE of an accepted email violates a CHECK.
AcceptedEmailsFit ==
    \A email \in {u.email : u \in users} \cup {r.new_email : r \in pending} : Fits(email)

\* The attempts on one account are counted apart only as far as the spelling of
\* the local part goes: the case of the domain opens no second count.
OneCountPerLocalSpelling ==
    \A a, b \in attempts :
       Citext(a.email) = Citext(b.email) /\ Local(a.email) = Local(b.email) => a.email = b.email

\* An email is its own normal form, so that attempts by an email that is typed
\* and those by the stored one are counted together, unless it has outgrown the
\* limit when it was lower-cased.
StoredEmailsAreNormal ==
    \A email \in {u.email : u \in users} \cup {r.new_email : r \in pending} :
       \/ Valid(email) /\ Normalize(email) = email
       \/ ByteLen(email) > MaxBytes
=========================================================================================
