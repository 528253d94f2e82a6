------------------------------------ MODULE Endpoints ------------------------------------
(***************************************************************************)
(* What an endpoint does with one request and how it is answered: the      *)
(* handlers and error writers of internal/handlers/user.go, the order of   *)
(* checks and queries in internal/service/user/service.go, the password    *)
(* policy, the transaction, and the statuses.                              *)
(*                                                                         *)
(* A request's path is the queries, hashes and mails it still has to do.   *)
(* Of the database only the answers matter: a row is there or not, an      *)
(* attempt too many or not.  How requests interleave, and what their       *)
(* writes do to each other, is the subject of the other modules.           *)
(***************************************************************************)
EXTENDS Naturals, Sequences, SequencesExt

CONSTANTS
    RuneCounts,             \* the lengths of the passwords that are sent
    Faults,                 \* what goes wrong, a subset of Fault
    None                    \* no request

\* failed: a query, a hash or a mail returns an error and did nothing.
\* unknown: it returns an error but was done.
Fault == {"failed", "unknown"}

ASSUME EndpointsAssumption == RuneCounts \subseteq Nat /\ Faults \subseteq Fault

Endpoint == {"SignUp", "LogIn", "GetUser", "AuthenticatedPasswordReset",
             "PasswordResetRequest", "TokenPasswordReset",
             "EmailResetRequest", "TokenEmailReset"}

\* A password is blank or not, has a length in runes and is a spelling of a
\* word of the list of common passwords or another.
Password == {p \in [blank : BOOLEAN, runes : RuneCounts,
                    word : {"listed", "other"}, case : {"lower", "mixed"}] :
                p.runes = 0 \/ p.word = "listed" => (p.blank <=> p.runes = 0)}

\* login: the session middleware has put a user into the request's context.
Request == [endpoint : Endpoint, login : BOOLEAN, json : BOOLEAN,
            email : {"blank", "malformed", "valid"}, password : Password,
            token : {"undecodable", "decodable"}]

ASSUME NoneAssumption == None \notin Request

\* The errors of the user service, those of a handler, and any other.
Error == {"none", "unauthenticated", "invalidJSON", "internal",
          "ErrEmailBlank", "ErrInvalidLogInInput", "ErrEmailTaken", "ErrInvalidEmail",
          "ErrInvalidCredentials", "ErrPasswordEmpty", "ErrPasswordShort", "ErrPasswordLong",
          "ErrPasswordCommon", "ErrUserNotFound", "ErrRateLimit", "ErrInvalidResetToken"}

\* The writes and mails of a request.
Effect == {"account", "session", "attempt", "token", "mail", "consumed", "password",
           "email", "revoked"}

VARIABLES
    request,      \* the request being handled
    path,         \* what it has still to do
    err,          \* the error it will return, "none" so far
    staged,       \* its writes in the open transaction
    committed,    \* its writes that are durable, and its mails
    status,       \* the status it was answered with, 0 before
    cookie,       \* the session cookie of the answer
    faults        \* history: what went wrong

vars == <<request, path, err, staged, committed, status, cookie, faults>>

----------------------------------------------------------------------------
(***************************************************************************)
(* The checks made of the input alone.  The first that fails decides.      *)
(***************************************************************************)
Lower(spelling) == [spelling EXCEPT !.case = "lower"]

\* The embedded list spells its words as people do.
CommonPasswordsFile == {[word |-> "listed", case |-> "mixed"]}
GetCommonPasswords == {Lower(text) : text \in CommonPasswordsFile}
IsCommonPassword(p) == Lower([word |-> p.word, case |-> p.case]) \in GetCommonPasswords

First(checks) ==
    IF \E i \in DOMAIN checks : checks[i][1]
    THEN LET i == CHOOSE i \in DOMAIN checks :
                     checks[i][1] /\ \A j \in 1 .. (i - 1) : ~checks[j][1]
         IN  checks[i][2]
    ELSE "none"

PolicyTooShort(p) ==                             \* variant: 12 runes will do
    << <<p.blank, "ErrPasswordEmpty">>, <<p.runes < 12, "ErrPasswordShort">>,
       <<p.runes > 256, "ErrPasswordLong">>, <<IsCommonPassword(p), "ErrPasswordCommon">> >>
IsValidPassword(p) ==
    << <<p.blank, "ErrPasswordEmpty">>, <<p.runes <= 12, "ErrPasswordShort">>,
       <<p.runes > 256, "ErrPasswordLong">>, <<IsCommonPassword(p), "ErrPasswordCommon">> >>

Authenticated(r) == << <<~r.login, "unauthenticated">> >>
DecodeJSONBody(r) == << <<~r.json, "invalidJSON">> >>
DecodeToken(r) == << <<r.token = "undecodable", "ErrInvalidResetToken">> >>
NormalizeEmail(r) == << <<r.email # "valid", "ErrInvalidEmail">> >>

\* Before the handler calls a service.
Requires(r) ==
    CASE r.endpoint = "GetUser" -> Authenticated(r)
      [] r.endpoint \in {"AuthenticatedPasswordReset", "EmailResetRequest"} ->
            Authenticated(r) \o DecodeJSONBody(r)
      [] r.endpoint = "TokenEmailReset" -> <<>>
      [] OTHER -> DecodeJSONBody(r)

\* By the service, before it asks the database.
Validation(r) ==
    CASE r.endpoint = "SignUp" ->
            << <<r.email = "blank", "ErrEmailBlank">> >>
               \o IsValidPassword(r.password) \o NormalizeEmail(r)
      [] r.endpoint = "LogIn" ->
            << <<r.email = "blank" \/ r.password.runes = 0, "ErrInvalidLogInInput">> >>
               \o NormalizeEmail(r)
      [] r.endpoint = "GetUser" -> <<>>
      [] r.endpoint = "AuthenticatedPasswordReset" -> IsValidPassword(r.password)
      [] r.endpoint = "TokenPasswordReset" -> IsValidPassword(r.password) \o DecodeToken(r)
      [] r.endpoint \in {"PasswordResetRequest", "EmailResetRequest"} -> NormalizeEmail(r)
      [] r.endpoint = "TokenEmailReset" -> DecodeToken(r)

\* The whole of a request, in order.  user: the middleware's function reads the
\* user when the handler first asks.  Between begin and commit runs a transaction.
Path(endpoint) ==
    CASE endpoint = "SignUp" -> <<"validate", "hash", "account", "session">>
      [] endpoint = "LogIn" -> <<"validate", "count", "find", "verify", "attempt", "session">>
      [] endpoint = "GetUser" -> <<"user">>
      [] endpoint = "AuthenticatedPasswordReset" ->
            <<"user", "validate", "verify", "hash", "password", "revoked">>
      [] endpoint = "PasswordResetRequest" ->
            <<"validate", "count", "find", "token", "mail", "attempt">>
      [] endpoint = "TokenPasswordReset" ->
            <<"validate", "begin", "consumed", "expiry", "hash", "password", "commit", "revoked">>
      [] endpoint = "EmailResetRequest" ->
            <<"user", "validate", "count", "verify", "taken", "token", "mail", "notice", "attempt">>
      [] endpoint = "TokenEmailReset" ->
            <<"validate", "begin", "consumed", "expiry", "email", "commit", "revoked">>

----------------------------------------------------------------------------
(***************************************************************************)
(* The errors of an endpoint that its handler knows; the rest are answered *)
(* as internal.                                                            *)
(***************************************************************************)
WeakPasswordNoLong ==                            \* variant: an error is not known
    {"ErrPasswordEmpty", "ErrPasswordShort", "ErrPasswordCommon"}
WeakPassword == {"ErrPasswordEmpty", "ErrPasswordShort", "ErrPasswordLong", "ErrPasswordCommon"}

Answer(codes) ==           \* codes: pairs of errors and their status
    [e \in UNION {c[1] : c \in codes} |-> (CHOOSE c \in codes : e \in c[1])[2]]

WriteError(endpoint) ==
    CASE endpoint = "SignUp" ->
            Answer({<<{"ErrEmailBlank", "ErrEmailTaken", "ErrInvalidEmail"} \cup WeakPassword, 400>>})
      [] endpoint = "LogIn" ->
            Answer({<<{"ErrInvalidCredentials"}, 401>>, <<{"ErrRateLimit"}, 429>>,
                    <<{"ErrInvalidLogInInput", "ErrInvalidEmail"}, 400>>})
      [] endpoint = "GetUser" -> Answer({})
      [] endpoint = "AuthenticatedPasswordReset" ->
            Answer({<<{"ErrInvalidCredentials"}, 401>>, <<WeakPassword, 400>>})
      [] endpoint = "PasswordResetRequest" ->
            Answer({<<{"ErrInvalidEmail"}, 400>>, <<{"ErrRateLimit"}, 429>>,
                    <<{"ErrUserNotFound"}, 204>>})
      [] endpoint = "TokenPasswordReset" ->
            Answer({<<{"ErrInvalidResetToken"} \cup WeakPassword, 400>>})
      [] endpoint = "EmailResetRequest" ->
            Answer({<<{"ErrInvalidEmail", "ErrEmailTaken"}, 400>>, <<{"ErrRateLimit"}, 429>>,
                    <<{"ErrInvalidCredentials"}, 401>>})
      [] endpoint = "TokenEmailReset" ->
            Answer({<<{"ErrInvalidResetToken", "ErrEmailTaken"}, 400>>})

Status(endpoint, e) ==
    LET known == WriteError(endpoint) IN
    CASE e = "none" -> IF endpoint = "GetUser" THEN 200 ELSE 204
      [] e = "unauthenticated" -> 401
      [] e = "invalidJSON" -> 400
      [] e \in DOMAIN known -> known[e]
      [] OTHER -> 500

----------------------------------------------------------------------------
(***************************************************************************)
(* The steps of a request.                                                 *)
(***************************************************************************)
At(steps) == path # <<>> /\ Head(path) \in steps
NoTransaction == FALSE                           \* variant: queries do not use it
InTransaction == "commit" \in ToSet(path)

Proceed == path' = Tail(path) /\ UNCHANGED err

\* An error ends the request; a transaction that is open is rolled back.
ReturnOpen(e) == path' = <<>> /\ err' = e /\ UNCHANGED staged   \* variant: no rollback
Return(e) == path' = <<>> /\ err' = e /\ staged' = {}

\* The request arrives: requirements and the body.
Receive(r) ==
    /\ request = None
    /\ request' = r
    /\ err' = First(Requires(r))
    /\ path' = IF err' = "none" THEN Path(r.endpoint) ELSE <<>>
    /\ UNCHANGED <<staged, committed, status, cookie, faults>>

Validate ==
    /\ At({"validate"})
    /\ LET e == First(Validation(request)) IN
       IF e = "none" THEN Proceed /\ UNCHANGED staged ELSE Return(e)
    /\ UNCHANGED <<request, committed, status, cookie, faults>>

\* A read, a hash or the opening of a transaction that finds nothing amiss.
Pass ==
    /\ At({"user", "count", "find", "verify", "taken", "hash", "begin", "expiry"})
    /\ Proceed
    /\ UNCHANGED <<request, staged, committed, status, cookie, faults>>

\* The limit is reached, the new email is in use, the token is unknown or
\* expired, the current password of a password change is wrong.
Refuse ==
    /\ \/ At({"count"}) /\ Return("ErrRateLimit")
       \/ At({"taken"}) /\ Return("ErrEmailTaken")
       \/ At({"consumed", "expiry"}) /\ Return("ErrInvalidResetToken")
       \/ At({"account", "email"}) /\ Return("ErrEmailTaken")     \* unique violation
       \/ /\ At({"verify"}) /\ request.endpoint = "AuthenticatedPasswordReset"
          /\ Return("ErrInvalidCredentials")
    /\ UNCHANGED <<request, committed, status, cookie, faults>>

\* No such user, an inactive one, or a wrong password: the attempt is recorded
\* before the request ends.
FailAttempt ==
    /\ At({"find", "verify"})
    /\ request.endpoint # "AuthenticatedPasswordReset"
    /\ path' = <<"attempt">>
    /\ err' = IF request.endpoint = "PasswordResetRequest"
              THEN "ErrUserNotFound" ELSE "ErrInvalidCredentials"
    /\ UNCHANGED <<request, staged, committed, status, cookie, faults>>

\* A write or a mail: durable at once, unless a transaction is open.
Write ==
    /\ At({"account", "session", "token", "mail", "consumed", "password", "email"})
    /\ Proceed
    /\ IF InTransaction
       THEN staged' = staged \cup {Head(path)} /\ UNCHANGED committed
       ELSE committed' = committed \cup {Head(path)} /\ UNCHANGED staged
    /\ UNCHANGED <<request, status, cookie, faults>>

CommitNothing ==                                 \* variant: COMMIT is forgotten
    /\ At({"commit"})
    /\ Proceed
    /\ staged' = {}
    /\ UNCHANGED <<request, committed, status, cookie, faults>>
Commit ==
    /\ At({"commit"})
    /\ Proceed
    /\ committed' = committed \cup staged /\ staged' = {}
    /\ UNCHANGED <<request, status, cookie, faults>>

\* An attempt, a notice to the old address or a revocation: its error is only
\* logged, except that of the attempt of a log-in that fails.
AllOrError ==                                \* variant: errors of a revocation are answered
    /\ At({"attempt", "notice", "revoked"})
    /\ \E fault \in {"none"} \cup Faults :
          /\ committed' = IF fault = "failed" \/ At({"notice"}) THEN committed
                          ELSE committed \cup {Head(path)}
          /\ faults' = faults \cup ({fault} \ {"none"})
          /\ path' = Tail(path)
          /\ err' = IF fault # "none" /\ ~At({"notice"}) THEN "internal" ELSE err
    /\ UNCHANGED <<request, staged, status, cookie>>
BestEffort ==
    /\ At({"attempt", "notice", "revoked"})
    /\ \E fault \in {"none"} \cup Faults :
          /\ committed' = IF fault = "failed" \/ At({"notice"}) THEN committed
                          ELSE committed \cup {Head(path)}
          /\ faults' = faults \cup ({fault} \ {"none"})
          /\ path' = Tail(path)
          /\ err' = IF fault # "none" /\ request.endpoint = "LogIn" /\ err # "none"
                    THEN "internal" ELSE err
    /\ UNCHANGED <<request, staged, status, cookie>>

\* Every other error returns: a transaction rolls back, unless its COMMIT was
\* carried out and only the answer is an error.
Err ==
    /\ path # <<>> /\ ~At({"validate", "expiry", "attempt", "notice", "revoked"})
    /\ \E fault \in Faults :
          /\ faults' = faults \cup {fault}
          /\ committed' =
               IF fault = "failed" THEN committed
               ELSE IF At({"commit"}) THEN committed \cup staged
               ELSE IF InTransaction THEN committed
               ELSE committed \cup ({Head(path)} \cap Effect)
    /\ Return("internal")
    /\ UNCHANGED <<request, status, cookie>>

\* The handler writes the answer: a session cookie after a sign-up or log-in,
\* an empty one after an authenticated password change.
Respond ==
    /\ request # None /\ path = <<>> /\ status = 0
    /\ status' = Status(request.endpoint, err)
    /\ cookie' = IF err # "none" THEN "none"
                 ELSE IF request.endpoint \in {"SignUp", "LogIn"} THEN "session"
                 ELSE IF request.endpoint = "AuthenticatedPasswordReset" THEN "cleared"
                 ELSE "none"
    /\ UNCHANGED <<request, path, err, staged, committed, faults>>

\* The next request is handled afresh.
Finish ==
    /\ status # 0
    /\ request' = None /\ path' = <<>> /\ err' = "none"
    /\ staged' = {} /\ committed' = {} /\ faults' = {}
    /\ status' = 0 /\ cookie' = "none"

Init ==
    /\ request = None /\ path = <<>> /\ err = "none"
    /\ staged = {} /\ committed = {} /\ faults = {}
    /\ status = 0 /\ cookie = "none"

Next ==
    \/ \E r \in Request : Receive(r)
    \/ Validate \/ Pass \/ Refuse \/ FailAttempt \/ Write \/ Commit \/ BestEffort \/ Err
    \/ Respond \/ Finish

Spec == Init /\ [][Next]_vars

----------------------------------------------------------------------------
(***************************************************************************)
(* Properties                                                              *)
(***************************************************************************)

\* The types; writes are staged only while their transaction is open.
TypeOK ==
    /\ request \in Request \cup {None}
    /\ \/ path = <<>> \/ path = <<"attempt">>
       \/ \E n \in 1 .. Len(Path(request.endpoint)) :
             path = SubSeq(Path(request.endpoint), n, Len(Path(request.endpoint)))
    /\ err \in Error
    /\ staged \subseteq Effect /\ committed \subseteq Effect
    /\ staged # {} => InTransaction
    /\ status \in {0, 200, 204, 400, 401, 429, 500}
    /\ cookie \in {"none", "session", "cleared"}
    /\ faults \subseteq Faults

\* Whatever a service refuses, its handler has a status for: a 500 means that
\* a query, a hash or a mail went wrong.
EveryRefusalIsAnswered == status = 500 => faults # {}

\* A request that is refused has changed nothing: a token it consumed is back,
\* and an attempt is on record only when credentials were wrong, never when the
\* limit was reached.
RefusalsChangeNothing ==
    /\ status \in {400, 429} => committed = {}
    /\ status = 401 => committed \subseteq {"attempt"}

Promised(endpoint) ==
    CASE endpoint = "SignUp" -> {"account", "session"}
      [] endpoint = "LogIn" -> {"session"}
      [] endpoint = "GetUser" -> {}
      [] endpoint = "AuthenticatedPasswordReset" -> {"password"}
      [] endpoint = "TokenPasswordReset" -> {"consumed", "password"}
      [] endpoint = "TokenEmailReset" -> {"consumed", "email"}
      [] endpoint \in {"PasswordResetRequest", "EmailResetRequest"} -> {"token", "mail"}

\* A success is durable when it is answered, except that a reset request for an
\* unknown email is answered alike; no cookie is handed out for anything less.
SuccessIsDurable ==
    /\ status \in {200, 204} /\ err # "ErrUserNotFound" =>
          Promised(request.endpoint) \subseteq committed
    /\ cookie = "session" => status = 204 /\ "session" \in committed
    /\ cookie = "cleared" => status = 204 /\ "password" \in committed

\* After a 500 the credentials and tokens that existed are what they were, and
\* no session was opened, unless the database did what it reported as failed:
\* nothing that follows their change can fail.  A new account is not among
\* them: it stays, and its email is taken, when its session cannot be created.
ServerErrorsKeepCredentials ==
    status = 500 /\ "unknown" \notin faults =>
       committed \cap {"password", "email", "consumed", "session"} = {}

\* A password that is stored keeps what the messages of writeWeakPasswordError
\* ask for, at both ends of its length and in any spelling.
StoredPasswordsMeetPolicy ==
    (committed \cup staged) \cap {"account", "password"} # {} =>
       /\ ~request.password.blank
       /\ request.password.runes \in 13 .. 256
       /\ request.password.word # "listed"
==========================================================================================
