------------------------------- MODULE EndpointsProofs -------------------------------
(***************************************************************************)
(* What the answers of Endpoints mean, for passwords of any lengths and    *)
(* any faults.                                                             *)
(***************************************************************************)
EXTENDS Endpoints, SequenceTheorems, WellFoundedInduction, TLAPS

WrongCredentials == {"ErrInvalidCredentials", "ErrUserNotFound"}

(***************************************************************************)
(* Checks of the input: sequences of a condition and its error.            *)
(***************************************************************************)
Check == BOOLEAN \X Error
Errors(checks) == {checks[i][2] : i \in DOMAIN checks}
Passes(checks) == \A i \in DOMAIN checks : ~checks[i][1]

\* A set of natural numbers that is not empty has a least one.
LEMMA LeastNumber ==
    ASSUME NEW T \in SUBSET Nat, T # {}
    PROVE  \E x \in T : \A y \in T : x <= y
<1>1. PICK x \in T : \A y \in T : ~ (<<y, x>> \in OpToRel(<, Nat))
  BY WFMin, NatLessThanWellFounded
<1>2. \A y \in T : ~ (y < x)
  BY <1>1 DEF OpToRel
<1>3. QED
  BY <1>2

\* First returns "none" exactly if no check fails, or else the error of one.
LEMMA FirstDecides ==
    ASSUME NEW checks \in Seq(Check)
    PROVE  /\ Passes(checks) => First(checks) = "none"
           /\ ~Passes(checks) => First(checks) \in Errors(checks)
<1>1. CASE Passes(checks)
  BY <1>1 DEF Passes, First
<1>2. CASE ~Passes(checks)
  <2> DEFINE failing == {i \in DOMAIN checks : checks[i][1]}
             isFirst(i) == checks[i][1] /\ \A j \in 1 .. (i - 1) : ~checks[j][1]
  <2>1. /\ failing \in SUBSET Nat /\ failing # {}
        /\ \A i \in failing : 1 .. (i - 1) \subseteq DOMAIN checks
    BY <1>2 DEF Passes
  <2>2. PICK i \in failing : \A j \in failing : i <= j
    BY <2>1, LeastNumber
  <2>3. i \in DOMAIN checks /\ isFirst(i)
    BY <2>1, <2>2
  <2>4. First(checks) = checks[CHOOSE k \in DOMAIN checks : isFirst(k)][2]
    BY <2>3 DEF First
  <2>5. (CHOOSE k \in DOMAIN checks : isFirst(k)) \in DOMAIN checks
    <3> HIDE DEF isFirst
    <3>1. QED
      BY <2>3
  <2>6. QED
    BY <1>2, <2>4, <2>5 DEF Errors
<1>3. QED
  BY <1>1, <1>2

\* Checks made one after another: the errors are those of either.
LEMMA Joined ==
    ASSUME NEW s \in Seq(Check), NEW t \in Seq(Check), NEW both, both = s \o t
    PROVE  /\ both \in Seq(Check)
           /\ Errors(both) \subseteq Errors(s) \cup Errors(t)
           /\ Passes(both) => Passes(s) /\ Passes(t)
<1>1. /\ s \o t \in Seq(Check) /\ Len(s \o t) = Len(s) + Len(t)
      /\ \A i \in 1 .. Len(s) + Len(t) :
            (s \o t)[i] = IF i <= Len(s) THEN s[i] ELSE t[i - Len(s)]
  BY ConcatProperties
<1>2. Errors(s \o t) \subseteq Errors(s) \cup Errors(t)
  BY <1>1 DEF Errors
<1>3. ASSUME Passes(s \o t)
      PROVE  Passes(s) /\ Passes(t)
  <2>1. ASSUME NEW i \in DOMAIN s
        PROVE  ~s[i][1]
    <3>1. i \in DOMAIN (s \o t) /\ (s \o t)[i] = s[i]
      BY <1>1
    <3>2. QED
      BY <1>3, <3>1 DEF Passes
  <2>2. ASSUME NEW i \in DOMAIN t
        PROVE  ~t[i][1]
    <3>1. i + Len(s) \in DOMAIN (s \o t) /\ (s \o t)[i + Len(s)] = t[i]
      BY <1>1
    <3>2. QED
      BY <1>3, <3>1 DEF Passes
  <2>3. QED
    BY <2>1, <2>2 DEF Passes
<1>4. QED
  BY <1>1, <1>2, <1>3

\* No check.
LEMMA NoChecks ==
    <<>> \in Seq(Check) /\ Errors(<<>>) = {}
<1>1. DOMAIN <<>> = {}
  OBVIOUS
<1>2. QED
  BY <1>1 DEF Errors

\* One check, as a sequence.
LEMMA OneCheck ==
    ASSUME NEW a \in BOOLEAN, NEW e \in Error, NEW checks, checks = << <<a, e>> >>
    PROVE  checks \in Seq(Check) /\ Errors(checks) = {e} /\ (Passes(checks) => ~a)
<1> DEFINE x == <<a, e>>
<1>1. x \in Check /\ x[1] = a /\ x[2] = e
  BY DEF Check
<1>2. checks = <<x>>
  OBVIOUS
<1> HIDE DEF x
<1>3. \A S : x \in S => <<x>> \in Seq(S)
  OBVIOUS
<1>4. checks \in Seq(Check)
  BY <1>1, <1>2, <1>3
<1>5. DOMAIN <<x>> = {1} /\ <<x>>[1] = x
  OBVIOUS
<1>6. QED
  BY <1>1, <1>2, <1>4, <1>5 DEF Errors, Passes

(***************************************************************************)
(* The checks of this program.                                             *)
(***************************************************************************)

\* The policy on passwords, as a sequence of checks.
LEMMA PolicyChecks ==
    ASSUME NEW p \in Password
    PROVE  /\ IsValidPassword(p) \in Seq(Check)
           /\ Errors(IsValidPassword(p)) = WeakPassword
           /\ Passes(IsValidPassword(p)) =>
                 ~p.blank /\ ~(p.runes <= 12) /\ ~(p.runes > 256) /\ ~IsCommonPassword(p)
<1>1. /\ p.blank \in BOOLEAN /\ (p.runes <= 12) \in BOOLEAN
      /\ (p.runes > 256) \in BOOLEAN /\ IsCommonPassword(p) \in BOOLEAN
  BY DEF Password, IsCommonPassword
<1>2. PICK a \in BOOLEAN, b \in BOOLEAN, c \in BOOLEAN, d \in BOOLEAN :
         /\ IsValidPassword(p) = << <<a, "ErrPasswordEmpty">>, <<b, "ErrPasswordShort">>,
                                    <<c, "ErrPasswordLong">>, <<d, "ErrPasswordCommon">> >>
         /\ a = p.blank /\ b = (p.runes <= 12)
         /\ c = (p.runes > 256) /\ d = IsCommonPassword(p)
  BY <1>1 DEF IsValidPassword
<1> DEFINE checks == << <<a, "ErrPasswordEmpty">>, <<b, "ErrPasswordShort">>,
                       <<c, "ErrPasswordLong">>, <<d, "ErrPasswordCommon">> >>
<1>a. a \in BOOLEAN /\ b \in BOOLEAN /\ c \in BOOLEAN /\ d \in BOOLEAN
  OBVIOUS
<1>3. /\ <<a, "ErrPasswordEmpty">> \in Check /\ <<b, "ErrPasswordShort">> \in Check
      /\ <<c, "ErrPasswordLong">> \in Check /\ <<d, "ErrPasswordCommon">> \in Check
  BY <1>a DEF Check, Error
<1>4. ASSUME NEW S, NEW x \in S, NEW y \in S, NEW z \in S, NEW w \in S
      PROVE  <<x, y, z, w>> \in Seq(S)
  OBVIOUS
<1>5. checks \in Seq(Check)
  BY <1>3, <1>4
<1>6. /\ DOMAIN checks = {1, 2, 3, 4}
      /\ checks[1] = <<a, "ErrPasswordEmpty">> /\ checks[2] = <<b, "ErrPasswordShort">>
      /\ checks[3] = <<c, "ErrPasswordLong">> /\ checks[4] = <<d, "ErrPasswordCommon">>
  BY <1>5
<1> HIDE DEF checks
<1>7. /\ checks[1][1] = a /\ checks[2][1] = b /\ checks[3][1] = c /\ checks[4][1] = d
      /\ checks[1][2] = "ErrPasswordEmpty" /\ checks[2][2] = "ErrPasswordShort"
      /\ checks[3][2] = "ErrPasswordLong" /\ checks[4][2] = "ErrPasswordCommon"
  BY <1>6
<1>8. Errors(checks) = WeakPassword
  BY <1>6, <1>7 DEF Errors, WeakPassword
<1>9. Passes(checks) => ~a /\ ~b /\ ~c /\ ~d
  BY <1>6, <1>7 DEF Passes
<1>10. QED
  BY <1>2, <1>5, <1>8, <1>9 DEF checks

\* A password that passes is not blank, has 13 to 256 runes and is not on the
\* list of common ones.
LEMMA PolicyIsKept ==
    ASSUME NEW p \in Password, Passes(IsValidPassword(p))
    PROVE  ~p.blank /\ p.runes \in 13 .. 256 /\ p.word # "listed"
<1>1. ~p.blank /\ ~(p.runes <= 12) /\ ~(p.runes > 256) /\ ~IsCommonPassword(p)
  BY PolicyChecks
<1>2. p.word = "listed" => IsCommonPassword(p)
  BY DEF IsCommonPassword, GetCommonPasswords, CommonPasswordsFile, Lower
<1>3. p.runes \in Nat
  BY EndpointsAssumption DEF Password
<1>4. QED
  BY <1>1, <1>2, <1>3

\* The other checks.
LEMMA SingleChecks ==
    ASSUME NEW r \in Request
    PROVE  /\ Authenticated(r) \in Seq(Check) /\ Errors(Authenticated(r)) = {"unauthenticated"}
           /\ DecodeJSONBody(r) \in Seq(Check) /\ Errors(DecodeJSONBody(r)) = {"invalidJSON"}
           /\ DecodeToken(r) \in Seq(Check) /\ Errors(DecodeToken(r)) = {"ErrInvalidResetToken"}
           /\ NormalizeEmail(r) \in Seq(Check) /\ Errors(NormalizeEmail(r)) = {"ErrInvalidEmail"}
<1>1. Authenticated(r) \in Seq(Check) /\ Errors(Authenticated(r)) = {"unauthenticated"}
  <2>1. PICK fails \in BOOLEAN : Authenticated(r) = << <<fails, "unauthenticated">> >>
    BY DEF Authenticated
  <2>2. "unauthenticated" \in Error
    BY DEF Error
  <2>3. QED
    BY <2>1, <2>2, OneCheck, Zenon
<1>2. DecodeJSONBody(r) \in Seq(Check) /\ Errors(DecodeJSONBody(r)) = {"invalidJSON"}
  <2>1. PICK fails \in BOOLEAN : DecodeJSONBody(r) = << <<fails, "invalidJSON">> >>
    BY DEF DecodeJSONBody
  <2>2. "invalidJSON" \in Error
    BY DEF Error
  <2>3. QED
    BY <2>1, <2>2, OneCheck, Zenon
<1>3. DecodeToken(r) \in Seq(Check) /\ Errors(DecodeToken(r)) = {"ErrInvalidResetToken"}
  <2>1. PICK fails \in BOOLEAN : DecodeToken(r) = << <<fails, "ErrInvalidResetToken">> >>
    BY DEF DecodeToken
  <2>2. "ErrInvalidResetToken" \in Error
    BY DEF Error
  <2>3. QED
    BY <2>1, <2>2, OneCheck, Zenon
<1>4. NormalizeEmail(r) \in Seq(Check) /\ Errors(NormalizeEmail(r)) = {"ErrInvalidEmail"}
  <2>1. PICK fails \in BOOLEAN : NormalizeEmail(r) = << <<fails, "ErrInvalidEmail">> >>
    BY DEF NormalizeEmail
  <2>2. "ErrInvalidEmail" \in Error
    BY DEF Error
  <2>3. QED
    BY <2>1, <2>2, OneCheck, Zenon
<1>5. QED
  BY <1>1, <1>2, <1>3, <1>4

(***************************************************************************)
(* Statuses.                                                               *)
(***************************************************************************)

\* An error that is answered is in one of the sets.
LEMMA AnswerIn ==
    ASSUME NEW codes, NEW e \in DOMAIN Answer(codes)
    PROVE  \E c \in codes : e \in c[1] /\ Answer(codes)[e] = c[2]
<1>1. PICK c \in codes : e \in c[1]
  BY DEF Answer
<1> DEFINE d == CHOOSE d \in codes : e \in d[1]
<1>2. d \in codes /\ e \in d[1]
  BY <1>1
<1>3. Answer(codes)[e] = d[2]
  BY DEF Answer
<1>4. QED
  BY <1>2, <1>3

\* Errors that the handler itself answers, and no error.
NotKnown == {"none", "unauthenticated", "invalidJSON", "internal"}

\* No endpoint has a status of its own for them.
LEMMA KnownErrors ==
    ASSUME NEW endpoint \in Endpoint, NEW e \in DOMAIN WriteError(endpoint)
    PROVE  e \notin NotKnown
<1> DEFINE known == {"ErrEmailBlank", "ErrInvalidLogInInput", "ErrEmailTaken", "ErrInvalidEmail",
                     "ErrInvalidCredentials", "ErrUserNotFound", "ErrRateLimit",
                     "ErrInvalidResetToken"} \cup WeakPassword
<1>1. PICK codes : WriteError(endpoint) = Answer(codes) /\ \A c \in codes : c[1] \subseteq known
  BY DEF WriteError, Endpoint
<1>2. e \in known
  BY <1>1, AnswerIn
<1>3. QED
  BY <1>2 DEF WeakPassword, NotKnown

\* What they are answered with.
Fits(e, code) ==
    /\ code \in {204, 400, 401, 429}
    /\ e = "ErrInvalidCredentials" => code = 401
    /\ e = "ErrUserNotFound" => code = 204
    /\ e # "ErrInvalidCredentials" => code # 401
    /\ e # "ErrUserNotFound" => code # 204

\* The statuses an endpoint has for the errors it knows.
LEMMA KnownStatus ==
    ASSUME NEW endpoint \in Endpoint, NEW e \in DOMAIN WriteError(endpoint)
    PROVE  Fits(e, WriteError(endpoint)[e])
BY AnswerIn DEF WriteError, Endpoint, WeakPassword, Fits

\* What each endpoint has a status for.
Knows(endpoint) ==
    CASE endpoint = "SignUp" -> {"ErrEmailBlank", "ErrEmailTaken", "ErrInvalidEmail"} \cup WeakPassword
      [] endpoint = "LogIn" ->
            {"ErrInvalidCredentials", "ErrRateLimit", "ErrInvalidLogInInput", "ErrInvalidEmail"}
      [] endpoint = "GetUser" -> {}
      [] endpoint = "AuthenticatedPasswordReset" -> {"ErrInvalidCredentials"} \cup WeakPassword
      [] endpoint = "PasswordResetRequest" -> {"ErrInvalidEmail", "ErrRateLimit", "ErrUserNotFound"}
      [] endpoint = "TokenPasswordReset" -> {"ErrInvalidResetToken"} \cup WeakPassword
      [] endpoint = "EmailResetRequest" ->
            {"ErrInvalidEmail", "ErrEmailTaken", "ErrRateLimit", "ErrInvalidCredentials"}
      [] endpoint = "TokenEmailReset" -> {"ErrInvalidResetToken", "ErrEmailTaken"}

\* Those errors are among the ones its WriteError has a status for.
LEMMA Known ==
    ASSUME NEW endpoint \in Endpoint, NEW e \in Knows(endpoint)
    PROVE  e \in DOMAIN WriteError(endpoint)
<1>1. ASSUME NEW codes, NEW c \in codes, e \in c[1]
      PROVE  e \in DOMAIN Answer(codes)
  BY <1>1 DEF Answer
<1>2. CASE endpoint = "SignUp"
  <2>1. PICK codes :
           /\ codes = {<<{"ErrEmailBlank", "ErrEmailTaken", "ErrInvalidEmail"} \cup WeakPassword, 400>>}
           /\ WriteError(endpoint) = Answer(codes)
    BY <1>2 DEF WriteError
  <2>2. PICK c \in codes : e \in c[1]
    BY <1>2, <2>1 DEF Knows
  <2>3. QED
    BY <2>1, <2>2, <1>1
<1>3. CASE endpoint = "LogIn"
  <2>1. PICK codes :
           /\ codes = {<<{"ErrInvalidCredentials"}, 401>>,
                      <<{"ErrRateLimit"}, 429>>,
                      <<{"ErrInvalidLogInInput", "ErrInvalidEmail"}, 400>>}
           /\ WriteError(endpoint) = Answer(codes)
    BY <1>3 DEF WriteError
  <2>2. PICK c \in codes : e \in c[1]
    BY <1>3, <2>1 DEF Knows
  <2>3. QED
    BY <2>1, <2>2, <1>1
<1>4. CASE endpoint = "GetUser"
  <2>1. PICK codes :
           /\ codes = {}
           /\ WriteError(endpoint) = Answer(codes)
    BY <1>4 DEF WriteError
  <2>2. PICK c \in codes : e \in c[1]
    BY <1>4, <2>1 DEF Knows
  <2>3. QED
    BY <2>1, <2>2, <1>1
<1>5. CASE endpoint = "AuthenticatedPasswordReset"
  <2>1. PICK codes :
           /\ codes = {<<{"ErrInvalidCredentials"}, 401>>,
                      <<WeakPassword, 400>>}
           /\ WriteError(endpoint) = Answer(codes)
    BY <1>5 DEF WriteError
  <2>2. PICK c \in codes : e \in c[1]
    BY <1>5, <2>1 DEF Knows
  <2>3. QED
    BY <2>1, <2>2, <1>1
<1>6. CASE endpoint = "PasswordResetRequest"
  <2>1. PICK codes :
           /\ codes = {<<{"ErrInvalidEmail"}, 400>>,
                      <<{"ErrRateLimit"}, 429>>,
                      <<{"ErrUserNotFound"}, 204>>}
           /\ WriteError(endpoint) = Answer(codes)
    BY <1>6 DEF WriteError
  <2>2. PICK c \in codes : e \in c[1]
    BY <1>6, <2>1 DEF Knows
  <2>3. QED
    BY <2>1, <2>2, <1>1
<1>7. CASE endpoint = "TokenPasswordReset"
  <2>1. PICK codes :
           /\ codes = {<<{"ErrInvalidResetToken"} \cup WeakPassword, 400>>}
           /\ WriteError(endpoint) = Answer(codes)
    BY <1>7 DEF WriteError
  <2>2. PICK c \in codes : e \in c[1]
    BY <1>7, <2>1 DEF Knows
  <2>3. QED
    BY <2>1, <2>2, <1>1
<1>8. CASE endpoint = "EmailResetRequest"
  <2>1. PICK codes :
           /\ codes = {<<{"ErrInvalidEmail", "ErrEmailTaken"}, 400>>,
                      <<{"ErrRateLimit"}, 429>>,
                      <<{"ErrInvalidCredentials"}, 401>>}
           /\ WriteError(endpoint) = Answer(codes)
    BY <1>8 DEF WriteError
  <2>2. PICK c \in codes : e \in c[1]
    BY <1>8, <2>1 DEF Knows
  <2>3. QED
    BY <2>1, <2>2, <1>1
<1>9. CASE endpoint = "TokenEmailReset"
  <2>1. PICK codes :
           /\ codes = {<<{"ErrInvalidResetToken", "ErrEmailTaken"}, 400>>}
           /\ WriteError(endpoint) = Answer(codes)
    BY <1>9 DEF WriteError
  <2>2. PICK c \in codes : e \in c[1]
    BY <1>9, <2>1 DEF Knows
  <2>3. QED
    BY <2>1, <2>2, <1>1
<1>10. QED
  BY <1>2, <1>3, <1>4, <1>5, <1>6, <1>7, <1>8, <1>9 DEF Endpoint

\* How the status of an error comes about.
LEMMA StatusCases ==
    ASSUME NEW endpoint \in Endpoint, NEW e
    PROVE  /\ e \in DOMAIN WriteError(endpoint) => Fits(e, Status(endpoint, e)) /\ e \notin NotKnown
           /\ e = "none" => Status(endpoint, e) = (IF endpoint = "GetUser" THEN 200 ELSE 204)
           /\ e = "unauthenticated" => Status(endpoint, e) = 401
           /\ e = "invalidJSON" => Status(endpoint, e) = 400
           /\ e \notin DOMAIN WriteError(endpoint) /\ e \notin {"none", "unauthenticated", "invalidJSON"} =>
                 Status(endpoint, e) = 500
           /\ e \in NotKnown => e \notin Knows(endpoint)
           /\ e \in Knows(endpoint) => e \in DOMAIN WriteError(endpoint)
<1>1. e \in NotKnown => e \notin DOMAIN WriteError(endpoint)
  BY KnownErrors, Zenon
<1>2. e \in DOMAIN WriteError(endpoint) => Fits(e, Status(endpoint, e)) /\ e \notin NotKnown
  <2> SUFFICES ASSUME e \in DOMAIN WriteError(endpoint)
               PROVE  Fits(e, Status(endpoint, e)) /\ e \notin NotKnown
    OBVIOUS
  <2>1. Fits(e, WriteError(endpoint)[e])
    BY KnownStatus, Zenon
  <2>2. Status(endpoint, e) = WriteError(endpoint)[e] /\ e \notin NotKnown
    BY <1>1 DEF Status, NotKnown
  <2>3. QED
    BY <2>1, <2>2
<1>3. e = "none" => Status(endpoint, e) = (IF endpoint = "GetUser" THEN 200 ELSE 204)
  BY <1>1 DEF Status, NotKnown
<1>4. e = "unauthenticated" => Status(endpoint, e) = 401
  BY <1>1 DEF Status, NotKnown
<1>5. e = "invalidJSON" => Status(endpoint, e) = 400
  BY <1>1 DEF Status, NotKnown
<1>6. e \notin DOMAIN WriteError(endpoint) /\ e \notin {"none", "unauthenticated", "invalidJSON"} =>
         Status(endpoint, e) = 500
  BY DEF Status
<1>7. e \in Knows(endpoint) => e \in DOMAIN WriteError(endpoint)
  BY Known
<1>8. QED
  BY <1>1, <1>2, <1>3, <1>4, <1>5, <1>6, <1>7, Zenon

\* Every error has one of six statuses, and one that the endpoint knows no 500.
LEMMA Statuses ==
    ASSUME NEW endpoint \in Endpoint, NEW e
    PROVE  /\ Status(endpoint, e) \in {200, 204, 400, 401, 429, 500}
           /\ e = "none" => Status(endpoint, e) \in {200, 204}
           /\ e = "none" /\ endpoint # "GetUser" => Status(endpoint, e) = 204
           /\ e = "internal" => Status(endpoint, e) = 500
           /\ e \in Knows(endpoint) \/ e \in {"unauthenticated", "invalidJSON"} =>
                 Status(endpoint, e) # 500
<1>1. CASE e \in DOMAIN WriteError(endpoint)
  BY <1>1, StatusCases DEF Fits, NotKnown
<1>2. CASE e = "none"
  BY <1>2, StatusCases DEF NotKnown
<1>3. CASE e = "unauthenticated"
  BY <1>3, StatusCases
<1>4. CASE e = "invalidJSON"
  BY <1>4, StatusCases
<1>5. CASE /\ e \notin DOMAIN WriteError(endpoint)
          /\ e \notin {"none", "unauthenticated", "invalidJSON"}
  BY <1>5, StatusCases
<1>6. QED
  BY <1>1, <1>2, <1>3, <1>4, <1>5

\* Only certain errors are answered with a success or with 401.
LEMMA StatusMeans ==
    ASSUME NEW endpoint \in Endpoint, NEW e
    PROVE  /\ e \notin {"none", "ErrUserNotFound"} => Status(endpoint, e) \notin {200, 204}
           /\ e \notin {"unauthenticated", "ErrInvalidCredentials"} => Status(endpoint, e) # 401
           /\ e \in {"ErrInvalidCredentials", "ErrUserNotFound"} =>
                 Status(endpoint, e) \notin {400, 429}
<1>1. CASE e \in DOMAIN WriteError(endpoint)
  BY <1>1, StatusCases DEF Fits, NotKnown
<1>2. CASE e = "none"
  BY <1>2, StatusCases
<1>3. CASE e = "unauthenticated"
  BY <1>3, StatusCases
<1>4. CASE e = "invalidJSON"
  BY <1>4, StatusCases
<1>5. CASE /\ e \notin DOMAIN WriteError(endpoint)
          /\ e \notin {"none", "unauthenticated", "invalidJSON"}
  BY <1>5, StatusCases
<1>6. QED
  BY <1>1, <1>2, <1>3, <1>4, <1>5

\* What a handler requires before it calls a service is answered with 400 or 401.
LEMMA RequiresDecides ==
    ASSUME NEW r \in Request
    PROVE  \/ First(Requires(r)) = "none"
           \/ First(Requires(r)) \in {"unauthenticated", "invalidJSON"}
<1>1. /\ Requires(r) \in Seq(Check)
      /\ Errors(Requires(r)) \subseteq {"unauthenticated", "invalidJSON"}
  <2>1. CASE r.endpoint = "GetUser"
    BY <2>1, SingleChecks DEF Requires
  <2>2. CASE r.endpoint \in {"AuthenticatedPasswordReset", "EmailResetRequest"}
    <3>1. Requires(r) = Authenticated(r) \o DecodeJSONBody(r)
      BY <2>2 DEF Requires
    <3>2. /\ Requires(r) \in Seq(Check)
          /\ Errors(Requires(r)) \subseteq Errors(Authenticated(r)) \cup Errors(DecodeJSONBody(r))
      BY <3>1, SingleChecks, Joined, Zenon
    <3>3. QED
      BY <3>2, SingleChecks
  <2>3. CASE r.endpoint = "TokenEmailReset"
    <3>1. Requires(r) = <<>>
      BY <2>3 DEF Requires
    <3>2. <<>> \in Seq(Check) /\ Errors(<<>>) = {}
      BY NoChecks
    <3>3. QED
      BY <3>1, <3>2
  <2>4. CASE r.endpoint \notin {"GetUser", "AuthenticatedPasswordReset", "EmailResetRequest",
                                "TokenEmailReset"}
    BY <2>4, SingleChecks DEF Requires
  <2>5. QED
    BY <2>1, <2>2, <2>3, <2>4
<1>2. QED
  BY <1>1, FirstDecides

\* What a service refuses for its input alone, its handler knows; a request
\* with a new password that passes has one that the policy allows.
LEMMA ValidationDecides ==
    ASSUME NEW r \in Request
    PROVE  /\ \/ First(Validation(r)) = "none"
              \/ First(Validation(r)) \in Knows(r.endpoint) \ WrongCredentials
           /\ First(Validation(r)) = "none"
                 /\ r.endpoint \in {"SignUp", "AuthenticatedPasswordReset", "TokenPasswordReset"}
              => Passes(IsValidPassword(r.password))
<1> DEFINE policy == IsValidPassword(r.password)
<1>p. r.password \in Password /\ r.endpoint \in Endpoint
  BY DEF Request
<1>q. policy \in Seq(Check) /\ Errors(policy) = WeakPassword
  BY <1>p, PolicyChecks
<1>e. \A x \in Error : x = "none" => x \notin Knows(r.endpoint)
  BY DEF Knows, Endpoint, WeakPassword, Request
<1> HIDE DEF policy
<1>1. /\ Validation(r) \in Seq(Check)
      /\ Errors(Validation(r)) \subseteq Knows(r.endpoint) \ WrongCredentials
      /\ r.endpoint \in {"SignUp", "AuthenticatedPasswordReset", "TokenPasswordReset"} =>
            (Passes(Validation(r)) => Passes(policy))
  <2>1. CASE r.endpoint = "SignUp"
    <3>1. PICK fails \in BOOLEAN :
             Validation(r) = << <<fails, "ErrEmailBlank">> >> \o policy \o NormalizeEmail(r)
      BY <2>1 DEF Validation, policy
    <3> DEFINE blank == << <<fails, "ErrEmailBlank">> >>
    <3>2. blank \in Seq(Check) /\ Errors(blank) = {"ErrEmailBlank"}
      <4>1. "ErrEmailBlank" \in Error
        BY DEF Error
      <4>2. QED
        BY <4>1, OneCheck, Zenon
    <3> HIDE DEF blank
    <3>3. /\ blank \o policy \in Seq(Check)
          /\ Errors(blank \o policy) \subseteq Errors(blank) \cup Errors(policy)
          /\ Passes(blank \o policy) => Passes(policy)
      BY <1>q, <3>2, Joined, Zenon
    <3>4. Validation(r) = (blank \o policy) \o NormalizeEmail(r)
      BY <3>1 DEF blank
    <3>5. /\ Validation(r) \in Seq(Check)
          /\ Errors(Validation(r)) \subseteq Errors(blank \o policy) \cup Errors(NormalizeEmail(r))
          /\ Passes(Validation(r)) => Passes(blank \o policy)
      BY <3>3, <3>4, SingleChecks, Joined, Zenon
    <3>6. Errors(Validation(r)) \subseteq {"ErrEmailBlank", "ErrInvalidEmail"} \cup WeakPassword
      BY <1>q, <3>2, <3>3, <3>5, SingleChecks
    <3>7. QED
      BY <2>1, <3>3, <3>5, <3>6 DEF Knows, WeakPassword, WrongCredentials
  <2>2. CASE r.endpoint = "LogIn"
    <3>1. PICK fails \in BOOLEAN :
             Validation(r) = << <<fails, "ErrInvalidLogInInput">> >> \o NormalizeEmail(r)
      BY <2>2 DEF Validation
    <3> DEFINE blank == << <<fails, "ErrInvalidLogInInput">> >>
    <3>2. blank \in Seq(Check) /\ Errors(blank) = {"ErrInvalidLogInInput"}
      <4>1. "ErrInvalidLogInInput" \in Error
        BY DEF Error
      <4>2. QED
        BY <4>1, OneCheck, Zenon
    <3>4. Validation(r) = blank \o NormalizeEmail(r)
      BY <3>1
    <3> HIDE DEF blank
    <3>5. /\ Validation(r) \in Seq(Check)
          /\ Errors(Validation(r)) \subseteq Errors(blank) \cup Errors(NormalizeEmail(r))
      BY <3>2, <3>4, SingleChecks, Joined, Zenon
    <3>6. Errors(Validation(r)) \subseteq {"ErrInvalidLogInInput", "ErrInvalidEmail"}
      BY <3>2, <3>5, SingleChecks
    <3>7. QED
      BY <2>2, <3>5, <3>6 DEF Knows, WrongCredentials
  <2>3. CASE r.endpoint = "GetUser"
    <3>1. Validation(r) = <<>>
      BY <2>3 DEF Validation
    <3>2. <<>> \in Seq(Check) /\ Errors(<<>>) = {}
      BY NoChecks
    <3>3. QED
      BY <2>3, <3>1, <3>2
  <2>4. CASE r.endpoint = "AuthenticatedPasswordReset"
    <3>1. Validation(r) = policy
      BY <2>4 DEF Validation, policy
    <3>2. QED
      BY <1>q, <2>4, <3>1 DEF Knows, WeakPassword, WrongCredentials
  <2>5. CASE r.endpoint = "TokenPasswordReset"
    <3>1. Validation(r) = policy \o DecodeToken(r)
      BY <2>5 DEF Validation, policy
    <3>2. /\ Validation(r) \in Seq(Check)
          /\ Errors(Validation(r)) \subseteq Errors(policy) \cup Errors(DecodeToken(r))
          /\ Passes(Validation(r)) => Passes(policy)
      BY <1>q, <3>1, SingleChecks, Joined, Zenon
    <3>3. Errors(Validation(r)) \subseteq {"ErrInvalidResetToken"} \cup WeakPassword
      BY <1>q, <3>2, SingleChecks
    <3>4. QED
      BY <2>5, <3>2, <3>3 DEF Knows, WeakPassword, WrongCredentials
  <2>6. CASE r.endpoint \in {"PasswordResetRequest", "EmailResetRequest"}
    <3>1. Validation(r) = NormalizeEmail(r)
      BY <2>6 DEF Validation
    <3>2. QED
      BY <2>6, <3>1, SingleChecks DEF Knows, WrongCredentials
  <2>7. CASE r.endpoint = "TokenEmailReset"
    <3>1. Validation(r) = DecodeToken(r)
      BY <2>7 DEF Validation
    <3>2. QED
      BY <2>7, <3>1, SingleChecks DEF Knows, WrongCredentials
  <2>8. QED
    BY <1>p, <2>1, <2>2, <2>3, <2>4, <2>5, <2>6, <2>7 DEF Endpoint
<1>2. "none" \notin Knows(r.endpoint)
  BY <1>e DEF Error
<1>3. QED
  BY <1>1, <1>2, FirstDecides DEF policy

(***************************************************************************)
(* Paths: what the order of the steps of each endpoint guarantees.         *)
(***************************************************************************)
Step == Effect \cup {"user", "validate", "count", "find", "verify", "taken", "hash", "begin",
                     "expiry", "commit", "notice"}
Essential == {"account", "session", "token", "mail", "consumed", "password", "email"}
Secret == {"password", "email", "consumed", "session"}
Logged == {"attempt", "notice", "revoked"}
NewPassword == {"SignUp", "AuthenticatedPasswordReset", "TokenPasswordReset"}

\* A commit is still to come at position n of a path.
Open(p, n) == \E k \in n .. Len(p) : p[k] = "commit"

\* Nothing durable comes before a step that may refuse the request.
RefusesBeforeWriting(p) ==
    \A n, i \in 1 .. Len(p) :
       /\ i < n /\ p[i] \in Effect
       /\ p[n] \in {"validate", "count", "find", "verify", "taken", "account", "expiry",
                    "consumed", "email"}
       => Open(p, n)

\* Nothing durable that concerns credentials comes before a step that may fail.
FailsBeforeSecrets(p) ==
    \A n, i \in 1 .. Len(p) :
       i < n /\ p[i] \in Secret /\ p[n] # "validate" /\ p[n] \notin Logged => Open(p, n)

\* A password is validated before it is stored.
ValidatesFirst(endpoint, p) ==
    \A n \in 1 .. Len(p) : p[n] \in {"account", "password"} =>
       endpoint \in NewPassword /\ \E i \in 1 .. (n - 1) : p[i] = "validate"

\* After a commit, and at a step whose errors are only logged, nothing is left
\* to commit.
CommitsOnce(p) ==
    \A n, i \in 1 .. Len(p) :
       p[n] \in {"find", "verify", "commit"} \cup Logged /\ p[i] = "commit" => i <= n

KeepsPromise(endpoint, p) ==
    \A x \in Promised(endpoint) : x \in Essential /\ \E i \in 1 .. Len(p) : p[i] = x

\* What a step may refuse the request with, the endpoint knows.
KnowsRefusals(endpoint, p) ==
    \A n \in 1 .. Len(p) :
       /\ p[n] = "count" => "ErrRateLimit" \in Knows(endpoint)
       /\ p[n] \in {"taken", "account", "email"} => "ErrEmailTaken" \in Knows(endpoint)
       /\ p[n] \in {"consumed", "expiry"} => "ErrInvalidResetToken" \in Knows(endpoint)
       /\ p[n] \in {"find", "verify"} =>
             IF endpoint = "PasswordResetRequest" THEN "ErrUserNotFound" \in Knows(endpoint)
             ELSE "ErrInvalidCredentials" \in Knows(endpoint)

Ordered(endpoint, p) ==
    /\ p \in Seq(Step) /\ Len(p) \in 1 .. 9
    /\ RefusesBeforeWriting(p) /\ FailsBeforeSecrets(p)
    /\ ValidatesFirst(endpoint, p) /\ CommitsOnce(p)
    /\ KeepsPromise(endpoint, p) /\ KnowsRefusals(endpoint, p)

\* The path of every endpoint is in order.
LEMMA Orders ==
    ASSUME NEW endpoint \in Endpoint
    PROVE  Ordered(endpoint, Path(endpoint))
<1>1. CASE endpoint = "SignUp"
  <2>1. PICK p : p = <<"validate", "hash", "account", "session">>
    OBVIOUS
  <2>2. Path(endpoint) = p
    BY <1>1, <2>1 DEF Path
  <2>3. /\ p \in Seq(Step) /\ Len(p) = 4
        /\ p[1] = "validate" /\ p[2] = "hash" /\ p[3] = "account" /\ p[4] = "session"
    BY <2>1 DEF Step, Effect
  <2>4. \A n \in 1 .. 4 : n = 1 \/ n = 2 \/ n = 3 \/ n = 4
    OBVIOUS
  <2>5. RefusesBeforeWriting(p)
    BY <2>3, <2>4 DEF RefusesBeforeWriting, Effect, Open
  <2>6. FailsBeforeSecrets(p)
    BY <2>3, <2>4 DEF FailsBeforeSecrets, Secret, Logged, Open
  <2>7. ValidatesFirst(endpoint, p)
    BY <1>1, <2>3, <2>4 DEF ValidatesFirst, NewPassword
  <2>8. CommitsOnce(p)
    BY <2>3, <2>4 DEF CommitsOnce, Logged
  <2>9. KeepsPromise(endpoint, p)
    BY <1>1, <2>3, <2>4 DEF KeepsPromise, Promised, Essential
  <2>10. KnowsRefusals(endpoint, p)
    BY <1>1, <2>3, <2>4 DEF KnowsRefusals, Knows
  <2>11. QED
    BY <2>2, <2>3, <2>5, <2>6, <2>7, <2>8, <2>9, <2>10 DEF Ordered
<1>2. CASE endpoint = "LogIn"
  <2>1. PICK p : p = <<"validate", "count", "find", "verify", "attempt", "session">>
    OBVIOUS
  <2>2. Path(endpoint) = p
    BY <1>2, <2>1 DEF Path
  <2>3. /\ p \in Seq(Step) /\ Len(p) = 6
        /\ p[1] = "validate" /\ p[2] = "count" /\ p[3] = "find" /\ p[4] = "verify"
        /\ p[5] = "attempt" /\ p[6] = "session"
    BY <2>1 DEF Step, Effect
  <2>4. \A n \in 1 .. 6 : n = 1 \/ n = 2 \/ n = 3 \/ n = 4 \/ n = 5 \/ n = 6
    OBVIOUS
  <2>5. RefusesBeforeWriting(p)
    BY <2>3, <2>4 DEF RefusesBeforeWriting, Effect, Open
  <2>6. FailsBeforeSecrets(p)
    BY <2>3, <2>4 DEF FailsBeforeSecrets, Secret, Logged, Open
  <2>7. ValidatesFirst(endpoint, p)
    BY <1>2, <2>3, <2>4 DEF ValidatesFirst, NewPassword
  <2>8. CommitsOnce(p)
    BY <2>3, <2>4 DEF CommitsOnce, Logged
  <2>9. KeepsPromise(endpoint, p)
    BY <1>2, <2>3, <2>4 DEF KeepsPromise, Promised, Essential
  <2>10. KnowsRefusals(endpoint, p)
    BY <1>2, <2>3, <2>4 DEF KnowsRefusals, Knows
  <2>11. QED
    BY <2>2, <2>3, <2>5, <2>6, <2>7, <2>8, <2>9, <2>10 DEF Ordered
<1>3. CASE endpoint = "GetUser"
  <2>1. PICK p : p = <<"user">>
    OBVIOUS
  <2>2. Path(endpoint) = p
    BY <1>3, <2>1 DEF Path
  <2>3. /\ p \in Seq(Step) /\ Len(p) = 1
        /\ p[1] = "user"
    BY <2>1 DEF Step, Effect
  <2>4. \A n \in 1 .. 1 : n = 1
    OBVIOUS
  <2>5. RefusesBeforeWriting(p)
    BY <2>3, <2>4 DEF RefusesBeforeWriting, Effect, Open
  <2>6. FailsBeforeSecrets(p)
    BY <2>3, <2>4 DEF FailsBeforeSecrets, Secret, Logged, Open
  <2>7. ValidatesFirst(endpoint, p)
    BY <1>3, <2>3, <2>4 DEF ValidatesFirst, NewPassword
  <2>8. CommitsOnce(p)
    BY <2>3, <2>4 DEF CommitsOnce, Logged
  <2>9. KeepsPromise(endpoint, p)
    BY <1>3, <2>3, <2>4 DEF KeepsPromise, Promised, Essential
  <2>10. KnowsRefusals(endpoint, p)
    BY <1>3, <2>3, <2>4 DEF KnowsRefusals, Knows
  <2>11. QED
    BY <2>2, <2>3, <2>5, <2>6, <2>7, <2>8, <2>9, <2>10 DEF Ordered
<1>4. CASE endpoint = "AuthenticatedPasswordReset"
  <2>1. PICK p : p = <<"user", "validate", "verify", "hash", "password", "revoked">>
    OBVIOUS
  <2>2. Path(endpoint) = p
    BY <1>4, <2>1 DEF Path
  <2>3. /\ p \in Seq(Step) /\ Len(p) = 6
        /\ p[1] = "user" /\ p[2] = "validate" /\ p[3] = "verify" /\ p[4] = "hash"
        /\ p[5] = "password" /\ p[6] = "revoked"
    BY <2>1 DEF Step, Effect
  <2>4. \A n \in 1 .. 6 : n = 1 \/ n = 2 \/ n = 3 \/ n = 4 \/ n = 5 \/ n = 6
    OBVIOUS
  <2>5. RefusesBeforeWriting(p)
    BY <2>3, <2>4 DEF RefusesBeforeWriting, Effect, Open
  <2>6. FailsBeforeSecrets(p)
    BY <2>3, <2>4 DEF FailsBeforeSecrets, Secret, Logged, Open
  <2>7. ValidatesFirst(endpoint, p)
    BY <1>4, <2>3, <2>4 DEF ValidatesFirst, NewPassword
  <2>8. CommitsOnce(p)
    BY <2>3, <2>4 DEF CommitsOnce, Logged
  <2>9. KeepsPromise(endpoint, p)
    BY <1>4, <2>3, <2>4 DEF KeepsPromise, Promised, Essential
  <2>10. KnowsRefusals(endpoint, p)
    BY <1>4, <2>3, <2>4 DEF KnowsRefusals, Knows
  <2>11. QED
    BY <2>2, <2>3, <2>5, <2>6, <2>7, <2>8, <2>9, <2>10 DEF Ordered
<1>5. CASE endpoint = "PasswordResetRequest"
  <2>1. PICK p : p = <<"validate", "count", "find", "token", "mail", "attempt">>
    OBVIOUS
  <2>2. Path(endpoint) = p
    BY <1>5, <2>1 DEF Path
  <2>3. /\ p \in Seq(Step) /\ Len(p) = 6
        /\ p[1] = "validate" /\ p[2] = "count" /\ p[3] = "find" /\ p[4] = "token"
        /\ p[5] = "mail" /\ p[6] = "attempt"
    BY <2>1 DEF Step, Effect
  <2>4. \A n \in 1 .. 6 : n = 1 \/ n = 2 \/ n = 3 \/ n = 4 \/ n = 5 \/ n = 6
    OBVIOUS
  <2>5. RefusesBeforeWriting(p)
    BY <2>3, <2>4 DEF RefusesBeforeWriting, Effect, Open
  <2>6. FailsBeforeSecrets(p)
    BY <2>3, <2>4 DEF FailsBeforeSecrets, Secret, Logged, Open
  <2>7. ValidatesFirst(endpoint, p)
    BY <1>5, <2>3, <2>4 DEF ValidatesFirst, NewPassword
  <2>8. CommitsOnce(p)
    BY <2>3, <2>4 DEF CommitsOnce, Logged
  <2>9. KeepsPromise(endpoint, p)
    BY <1>5, <2>3, <2>4 DEF KeepsPromise, Promised, Essential
  <2>10. KnowsRefusals(endpoint, p)
    BY <1>5, <2>3, <2>4 DEF KnowsRefusals, Knows
  <2>11. QED
    BY <2>2, <2>3, <2>5, <2>6, <2>7, <2>8, <2>9, <2>10 DEF Ordered
<1>6. CASE endpoint = "TokenPasswordReset"
  <2>1. PICK p : p = <<"validate", "begin", "consumed", "expiry", "hash", "password", "commit", "revoked">>
    OBVIOUS
  <2>2. Path(endpoint) = p
    BY <1>6, <2>1 DEF Path
  <2>3. /\ p \in Seq(Step) /\ Len(p) = 8
        /\ p[1] = "validate" /\ p[2] = "begin" /\ p[3] = "consumed" /\ p[4] = "expiry"
        /\ p[5] = "hash" /\ p[6] = "password" /\ p[7] = "commit" /\ p[8] = "revoked"
    BY <2>1 DEF Step, Effect
  <2>4. \A n \in 1 .. 8 : n = 1 \/ n = 2 \/ n = 3 \/ n = 4 \/ n = 5 \/ n = 6 \/ n = 7 \/ n = 8
    OBVIOUS
  <2>5. RefusesBeforeWriting(p)
    BY <2>3, <2>4 DEF RefusesBeforeWriting, Effect, Open
  <2>6. FailsBeforeSecrets(p)
    BY <2>3, <2>4 DEF FailsBeforeSecrets, Secret, Logged, Open
  <2>7. ValidatesFirst(endpoint, p)
    BY <1>6, <2>3, <2>4 DEF ValidatesFirst, NewPassword
  <2>8. CommitsOnce(p)
    BY <2>3, <2>4 DEF CommitsOnce, Logged
  <2>9. KeepsPromise(endpoint, p)
    BY <1>6, <2>3, <2>4 DEF KeepsPromise, Promised, Essential
  <2>10. KnowsRefusals(endpoint, p)
    BY <1>6, <2>3, <2>4 DEF KnowsRefusals, Knows
  <2>11. QED
    BY <2>2, <2>3, <2>5, <2>6, <2>7, <2>8, <2>9, <2>10 DEF Ordered
<1>7. CASE endpoint = "EmailResetRequest"
  <2>1. PICK p : p = <<"user", "validate", "count", "verify", "taken", "token", "mail", "notice", "attempt">>
    OBVIOUS
  <2>2. Path(endpoint) = p
    BY <1>7, <2>1 DEF Path
  <2>3. /\ p \in Seq(Step) /\ Len(p) = 9
        /\ p[1] = "user" /\ p[2] = "validate" /\ p[3] = "count" /\ p[4] = "verify"
        /\ p[5] = "taken" /\ p[6] = "token" /\ p[7] = "mail" /\ p[8] = "notice"
        /\ p[9] = "attempt"
    BY <2>1 DEF Step, Effect
  <2>4. \A n \in 1 .. 9 : n = 1 \/ n = 2 \/ n = 3 \/ n = 4 \/ n = 5 \/ n = 6 \/ n = 7 \/ n = 8 \/ n = 9
    OBVIOUS
  <2>5. RefusesBeforeWriting(p)
    BY <2>3, <2>4 DEF RefusesBeforeWriting, Effect, Open
  <2>6. FailsBeforeSecrets(p)
    BY <2>3, <2>4 DEF FailsBeforeSecrets, Secret, Logged, Open
  <2>7. ValidatesFirst(endpoint, p)
    BY <1>7, <2>3, <2>4 DEF ValidatesFirst, NewPassword
  <2>8. CommitsOnce(p)
    BY <2>3, <2>4 DEF CommitsOnce, Logged
  <2>9. KeepsPromise(endpoint, p)
    BY <1>7, <2>3, <2>4 DEF KeepsPromise, Promised, Essential
  <2>10. KnowsRefusals(endpoint, p)
    BY <1>7, <2>3, <2>4 DEF KnowsRefusals, Knows
  <2>11. QED
    BY <2>2, <2>3, <2>5, <2>6, <2>7, <2>8, <2>9, <2>10 DEF Ordered
<1>8. CASE endpoint = "TokenEmailReset"
  <2>1. PICK p : p = <<"validate", "begin", "consumed", "expiry", "email", "commit", "revoked">>
    OBVIOUS
  <2>2. Path(endpoint) = p
    BY <1>8, <2>1 DEF Path
  <2>3. /\ p \in Seq(Step) /\ Len(p) = 7
        /\ p[1] = "validate" /\ p[2] = "begin" /\ p[3] = "consumed" /\ p[4] = "expiry"
        /\ p[5] = "email" /\ p[6] = "commit" /\ p[7] = "revoked"
    BY <2>1 DEF Step, Effect
  <2>4. \A n \in 1 .. 7 : n = 1 \/ n = 2 \/ n = 3 \/ n = 4 \/ n = 5 \/ n = 6 \/ n = 7
    OBVIOUS
  <2>5. RefusesBeforeWriting(p)
    BY <2>3, <2>4 DEF RefusesBeforeWriting, Effect, Open
  <2>6. FailsBeforeSecrets(p)
    BY <2>3, <2>4 DEF FailsBeforeSecrets, Secret, Logged, Open
  <2>7. ValidatesFirst(endpoint, p)
    BY <1>8, <2>3, <2>4 DEF ValidatesFirst, NewPassword
  <2>8. CommitsOnce(p)
    BY <2>3, <2>4 DEF CommitsOnce, Logged
  <2>9. KeepsPromise(endpoint, p)
    BY <1>8, <2>3, <2>4 DEF KeepsPromise, Promised, Essential
  <2>10. KnowsRefusals(endpoint, p)
    BY <1>8, <2>3, <2>4 DEF KnowsRefusals, Knows
  <2>11. QED
    BY <2>2, <2>3, <2>5, <2>6, <2>7, <2>8, <2>9, <2>10 DEF Ordered
<1>9. QED
  BY <1>1, <1>2, <1>3, <1>4, <1>5, <1>6, <1>7, <1>8 DEF Endpoint

\* Where a request is on its path.
LEMMA Positions ==
    ASSUME NEW p \in Seq(Step), NEW n \in 1 .. Len(p) + 1, path = SubSeq(p, n, Len(p))
    PROVE  /\ path = <<>> <=> n = Len(p) + 1
           /\ n <= Len(p) => Head(path) = p[n] /\ Tail(path) = SubSeq(p, n + 1, Len(p))
           /\ InTransaction <=> Open(p, n)
<1>1. /\ path \in Seq(Step) /\ Len(path) = Len(p) - n + 1
      /\ \A i \in 1 .. Len(p) - n + 1 : path[i] = p[n + i - 1]
  BY SubSeqProperties
<1>2. path = <<>> <=> n = Len(p) + 1
  <2>1. path = <<>> <=> Len(path) = 0
    <3>1. path \in Seq(Step)
      BY <1>1
    <3>2. QED
      BY <3>1, EmptySeq
  <2>2. QED
    BY <1>1, <2>1
<1>3. n <= Len(p) => Head(path) = p[n] /\ Tail(path) = SubSeq(p, n + 1, Len(p))
  BY HeadTailOfSubSeq
<1>4. ASSUME InTransaction
      PROVE  Open(p, n)
  <2>1. PICK i \in DOMAIN path : path[i] = "commit"
    BY <1>4 DEF InTransaction, ToSet
  <2>2. n + i - 1 \in n .. Len(p) /\ p[n + i - 1] = "commit"
    BY <1>1, <2>1
  <2>3. QED
    BY <2>2 DEF Open
<1>5. ASSUME Open(p, n)
      PROVE  InTransaction
  <2>1. PICK k \in n .. Len(p) : p[k] = "commit"
    BY <1>5 DEF Open
  <2>2. k - n + 1 \in DOMAIN path /\ path[k - n + 1] = "commit"
    BY <1>1, <2>1
  <2>3. QED
    BY <2>2 DEF InTransaction, ToSet
<1>6. QED
  BY <1>2, <1>3, <1>4, <1>5

(***************************************************************************)
(* The inductive invariant: where a request is on its path, and what that  *)
(* says about its writes.                                                  *)
(***************************************************************************)
Vetted == First(Validation(request)) = "none"

OnPath(p, n) ==
    /\ path = SubSeq(p, n, Len(p))
    /\ \A x \in committed \cup staged : x \in Effect /\ \E i \in 1 .. (n - 1) : p[i] = x
    /\ \A i \in 1 .. (n - 1) : p[i] \in Essential => p[i] \in committed \cup staged
    /\ IF Open(p, n) THEN committed = {} ELSE staged = {}
    /\ (\E i \in 1 .. (n - 1) : p[i] = "validate") => Vetted

Underway ==
    /\ err = "none"
    /\ \E n \in 1 .. Len(Path(request.endpoint)) + 1 : OnPath(Path(request.endpoint), n)

\* Only a wrong credential leaves something to do, the record of the attempt.
Refused ==
    /\ err \in Error \ {"none", "internal"}
    /\ path = <<>> \/ (path = <<"attempt">> /\ err \in WrongCredentials /\ committed = {})
    /\ staged = {}
    /\ committed \subseteq (IF err \in WrongCredentials THEN {"attempt"} ELSE {})
    /\ err \in Knows(request.endpoint) \/ err \in {"unauthenticated", "invalidJSON"}

Broken ==
    /\ err = "internal" /\ path = <<>> /\ staged = {} /\ faults # {}
    /\ committed \subseteq Effect
    /\ "unknown" \notin faults => committed \cap Secret = {}
    /\ committed \cap {"account", "password"} # {} => Vetted /\ request.endpoint \in NewPassword

Answered ==
    \/ status = 0 /\ cookie = "none"
    \/ /\ path = <<>> /\ status = Status(request.endpoint, err)
       /\ cookie = "session" => err = "none" /\ request.endpoint \in {"SignUp", "LogIn"}
       /\ cookie = "cleared" => err = "none" /\ request.endpoint = "AuthenticatedPasswordReset"
       /\ cookie \in {"none", "session", "cleared"}

Idle ==
    /\ request = None /\ path = <<>> /\ err = "none" /\ staged = {} /\ committed = {}
    /\ status = 0 /\ cookie = "none" /\ faults = {}

Busy ==
    /\ request \in Request /\ faults \subseteq Faults
    /\ Underway \/ Refused \/ Broken
    /\ Answered

IInv == Idle \/ Busy

\* One step further on a path.
LEMMA Advance ==
    ASSUME NEW p, NEW n \in 1 .. Len(p), p \in Seq(Step), OnPath(p, n), CommitsOnce(p),
           path' = SubSeq(p, n + 1, Len(p)), request' = request,
           \A x \in committed' \cup staged' :
              x \in committed \cup staged \/ (x = p[n] /\ x \in Effect),
           committed \cup staged \subseteq committed' \cup staged',
           p[n] \in Essential => p[n] \in committed' \cup staged',
           IF Open(p, n) /\ p[n] # "commit" THEN committed' = {} ELSE staged' = {},
           p[n] = "validate" => Vetted
    PROVE  OnPath(p, n + 1)'
<1>1. Open(p, n + 1) <=> Open(p, n) /\ p[n] # "commit"
  <2>1. ASSUME Open(p, n + 1)
        PROVE  Open(p, n) /\ p[n] # "commit"
    <3>1. PICK k \in (n + 1) .. Len(p) : p[k] = "commit"
      BY <2>1 DEF Open
    <3>2. k \in 1 .. Len(p) /\ k \in n .. Len(p) /\ ~(k <= n)
      BY <3>1
    <3>3. QED
      BY <3>1, <3>2 DEF CommitsOnce, Open
  <2>2. ASSUME Open(p, n), p[n] # "commit"
        PROVE  Open(p, n + 1)
    <3>1. PICK k \in n .. Len(p) : p[k] = "commit"
      BY <2>2 DEF Open
    <3>2. k \in (n + 1) .. Len(p)
      BY <2>2, <3>1
    <3>3. QED
      BY <3>1, <3>2 DEF Open
  <2>3. QED
    BY <2>1, <2>2
<1>2. \A x \in committed' \cup staged' : x \in Effect /\ \E i \in 1 .. n : p[i] = x
  <2>1. TAKE x \in committed' \cup staged'
  <2>2. CASE x \in committed \cup staged
    <3>1. PICK i \in 1 .. (n - 1) : p[i] = x
      BY <2>2 DEF OnPath
    <3>2. QED
      BY <2>2, <3>1 DEF OnPath
  <2>3. CASE x = p[n] /\ x \in Effect
    BY <2>3
  <2>4. QED
    BY <2>2, <2>3
<1>3. \A i \in 1 .. n : p[i] \in Essential => p[i] \in committed' \cup staged'
  <2>1. TAKE i \in 1 .. n
  <2>2. CASE i = n
    BY <2>2
  <2>3. CASE i # n
    <3>1. i \in 1 .. (n - 1)
      BY <2>3
    <3>2. QED
      BY <3>1 DEF OnPath
  <2>4. QED
    BY <2>2, <2>3
<1>4. IF Open(p, n + 1) THEN committed' = {} ELSE staged' = {}
  BY <1>1
<1>5. (\E i \in 1 .. n : p[i] = "validate") => Vetted
  <2>1. ASSUME NEW i \in 1 .. n, p[i] = "validate"
        PROVE  Vetted
    <3>1. i = n \/ i \in 1 .. (n - 1)
      OBVIOUS
    <3>2. QED
      BY <2>1, <3>1 DEF OnPath
  <2>2. QED
    BY <2>1
<1>6. Vetted' <=> Vetted
  BY DEF Vetted
<1>7. (n + 1) - 1 = n
  OBVIOUS
<1>8. QED
  BY <1>2, <1>3, <1>4, <1>5, <1>6, <1>7 DEF OnPath

\* What an endpoint knows is an error, neither success nor an internal one.
LEMMA KnowsErrors ==
    ASSUME NEW endpoint \in Endpoint
    PROVE  Knows(endpoint) \subseteq Error \ {"none", "internal"}
BY DEF Knows, Error, Endpoint, WeakPassword

\* The step a busy request is at.
AtStep(p, n) ==
    /\ err = "none"
    /\ p = Path(request.endpoint) /\ Ordered(request.endpoint, p) /\ OnPath(p, n)
    /\ Head(path) = p[n] /\ Tail(path) = SubSeq(p, n + 1, Len(p))
    /\ InTransaction <=> Open(p, n)

\* A request that has steps left has been refused and only records its attempt,
\* or is at a step of its endpoint's path.
LEMMA WhereItIs ==
    ASSUME Busy, path # <<>>
    PROVE  /\ request \in Request /\ request.endpoint \in Endpoint /\ faults \subseteq Faults
           /\ status = 0 /\ cookie = "none"
           /\ \/ /\ Refused /\ path = <<"attempt">> /\ err \in WrongCredentials
                 /\ committed = {} /\ Head(path) = "attempt" /\ Tail(path) = <<>>
              \/ \E p : \E n \in 1 .. Len(p) : AtStep(p, n)
<1>1. /\ request \in Request /\ request.endpoint \in Endpoint /\ faults \subseteq Faults
      /\ status = 0 /\ cookie = "none"
  BY DEF Busy, Answered, Request
<1>2. CASE Underway
  <2>1. PICK p : p = Path(request.endpoint)
    OBVIOUS
  <2>2. Ordered(request.endpoint, p) /\ p \in Seq(Step)
    BY <1>1, <2>1, Orders DEF Ordered
  <2>3. err = "none"
    BY <1>2 DEF Underway
  <2>4. PICK n \in 1 .. Len(p) + 1 : OnPath(p, n)
    BY <1>2, <2>1 DEF Underway
  <2>5. path = SubSeq(p, n, Len(p))
    BY <2>4 DEF OnPath
  <2>6. /\ n \in 1 .. Len(p)
        /\ Head(path) = p[n] /\ Tail(path) = SubSeq(p, n + 1, Len(p))
        /\ InTransaction <=> Open(p, n)
    BY <2>2, <2>5, Positions
  <2>7. QED
    BY <1>1, <2>1, <2>2, <2>3, <2>4, <2>6 DEF AtStep
<1>3. CASE Refused
  <2>1. Head(<<"attempt">>) = "attempt" /\ Tail(<<"attempt">>) = <<>>
    OBVIOUS
  <2>2. path = <<"attempt">> /\ err \in WrongCredentials /\ committed = {}
    BY <1>3 DEF Refused
  <2>3. QED
    BY <1>1, <1>3, <2>1, <2>2
<1>4. CASE Broken
  BY <1>4 DEF Broken
<1>5. QED
  BY <1>2, <1>3, <1>4 DEF Busy

\* A request that proceeds is one step further.
LEMMA Proceeds ==
    ASSUME NEW p, NEW n \in 1 .. Len(p), AtStep(p, n), request \in Request,
           faults' \subseteq Faults, status = 0, cookie = "none",
           path' = Tail(path), UNCHANGED <<request, err, status, cookie>>,
           \A x \in committed' \cup staged' :
              x \in committed \cup staged \/ (x = p[n] /\ x \in Effect),
           committed \cup staged \subseteq committed' \cup staged',
           p[n] \in Essential => p[n] \in committed' \cup staged',
           IF Open(p, n) /\ p[n] # "commit" THEN committed' = {} ELSE staged' = {},
           p[n] = "validate" => Vetted
    PROVE  Busy'
<1>1. OnPath(p, n + 1)'
  <2>1. p \in Seq(Step) /\ CommitsOnce(p) /\ OnPath(p, n) /\ path' = SubSeq(p, n + 1, Len(p))
    BY DEF AtStep, Ordered
  <2>2. QED
    BY <2>1, Advance
<1>2. n + 1 \in 1 .. Len(p) + 1 /\ p = Path(request'.endpoint) /\ err' = "none"
  <2>1. p \in Seq(Step)
    BY DEF AtStep, Ordered
  <2>2. Len(p) \in Nat
    BY <2>1
  <2>3. QED
    BY <2>2 DEF AtStep
<1>3. Underway'
  BY <1>1, <1>2 DEF Underway
<1>4. Answered' /\ request' \in Request
  BY DEF Answered
<1>5. QED
  BY <1>3, <1>4 DEF Busy

\* A request that is refused before it has written anything durable has changed
\* nothing.
LEMMA Refuses ==
    ASSUME NEW p, NEW n \in 1 .. Len(p), AtStep(p, n), request \in Request,
           faults \subseteq Faults, status = 0, cookie = "none",
           NEW e \in Knows(request.endpoint), Return(e),
           UNCHANGED <<request, committed, status, cookie, faults>>,
           p[n] \in {"validate", "count", "find", "verify", "taken", "account", "expiry",
                     "consumed", "email"}
    PROVE  Busy'
<1>1. committed = {}
  <2>1. CASE Open(p, n)
    BY <2>1 DEF AtStep, OnPath
  <2>2. CASE ~Open(p, n)
    <3>1. p \in Seq(Step) /\ RefusesBeforeWriting(p) /\ OnPath(p, n)
      BY DEF AtStep, Ordered
    <3>2. ASSUME NEW x \in committed
          PROVE  FALSE
      <4>1. PICK i \in 1 .. (n - 1) : p[i] = x /\ x \in Effect
        BY <3>1 DEF OnPath
      <4>2. i \in 1 .. Len(p) /\ i < n
        BY <3>1
      <4>3. Open(p, n)
        BY <3>1, <4>1, <4>2 DEF RefusesBeforeWriting
      <4>4. QED
        BY <2>2, <4>3
    <3>3. QED
      BY <3>2
  <2>3. QED
    BY <2>1, <2>2
<1>2. request.endpoint \in Endpoint
  BY DEF Request
<1>3. e \in Error \ {"none", "internal"}
  BY <1>2, KnowsErrors
<1>4. Refused'
  BY <1>1, <1>3 DEF Refused, Return
<1>5. Answered'
  BY DEF Answered
<1>6. QED
  BY <1>4, <1>5 DEF Busy

\* At(steps) says where a busy request is.
LEMMA IsAt ==
    ASSUME Busy, NEW steps, At(steps)
    PROVE  /\ request \in Request /\ request.endpoint \in Endpoint /\ faults \subseteq Faults
           /\ status = 0 /\ cookie = "none"
           /\ \/ /\ Refused /\ err \in WrongCredentials /\ committed = {}
                 /\ Head(path) = "attempt" /\ Tail(path) = <<>> /\ "attempt" \in steps
              \/ \E p : \E n \in 1 .. Len(p) : AtStep(p, n) /\ p[n] \in steps
<1>1. path # <<>> /\ Head(path) \in steps
  BY DEF At
<1>2. QED
  BY <1>1, WhereItIs DEF AtStep

\* The steps one by one. A request received is at the start of its path, or
\* refused by what its handler requires.
LEMMA ReceiveKeeps ==
    ASSUME Idle, NEW r \in Request, Receive(r)
    PROVE  Busy'
<1>1. request' = r /\ r.endpoint \in Endpoint
  BY DEF Receive, Request
<1>2. /\ staged' = {} /\ committed' = {} /\ status' = 0 /\ cookie' = "none" /\ faults' = {}
      /\ err' = First(Requires(r))
  BY DEF Receive, Idle
<1>3. CASE err' = "none"
  <2>1. PICK p : p = Path(r.endpoint)
    OBVIOUS
  <2>2. p \in Seq(Step) /\ Len(p) \in 1 .. 9
    BY <1>1, <2>1, Orders DEF Ordered
  <2>3. path' = SubSeq(p, 1, Len(p))
    <3>1. path' = p
      BY <1>3, <2>1 DEF Receive
    <3>2. QED
      BY <2>2, <3>1, SubSeqFull
  <2>4. OnPath(p, 1)'
    <3>1. 1 .. (1 - 1) = {}
      OBVIOUS
    <3>2. QED
      BY <1>2, <2>3, <3>1 DEF OnPath
  <2>5. Underway'
    BY <1>1, <1>3, <2>1, <2>2, <2>4 DEF Underway
  <2>6. QED
    BY <1>1, <1>2, <2>5 DEF Busy, Answered
<1>4. CASE err' # "none"
  <2>1. err' \in {"unauthenticated", "invalidJSON"}
    BY <1>2, <1>4, RequiresDecides
  <2>2. path' = <<>>
    BY <1>4 DEF Receive
  <2>3. Refused'
    BY <1>2, <2>1, <2>2 DEF Refused, Error
  <2>4. QED
    BY <1>1, <1>2, <2>3 DEF Busy, Answered
<1>5. QED
  BY <1>3, <1>4

\* Input that passes leaves the request at the next step; input that does not ends
\* it before anything was written.
LEMMA ValidateKeeps ==
    ASSUME Busy, Validate
    PROVE  Busy'
<1>1. At({"validate"}) /\ UNCHANGED <<request, committed, status, cookie, faults>>
  BY DEF Validate
<1>2. /\ request \in Request /\ request.endpoint \in Endpoint /\ faults \subseteq Faults
      /\ status = 0 /\ cookie = "none"
  BY <1>1, IsAt
<1>3. PICK p : \E n \in 1 .. Len(p) : AtStep(p, n) /\ p[n] = "validate"
  BY <1>1, IsAt
<1>4. PICK n \in 1 .. Len(p) : AtStep(p, n) /\ p[n] = "validate"
  BY <1>3
<1>5. CASE First(Validation(request)) = "none"
  <2>1. Vetted /\ path' = Tail(path) /\ err' = err /\ staged' = staged
    BY <1>5 DEF Validate, Proceed, Vetted
  <2>2. p[n] \notin Essential /\ (IF Open(p, n) THEN committed = {} ELSE staged = {})
    BY <1>4 DEF Essential, AtStep, OnPath
  <2>3. QED
    BY <1>1, <1>2, <1>4, <2>1, <2>2, Proceeds
<1>6. CASE First(Validation(request)) # "none"
  <2>1. Return(First(Validation(request)))
    BY <1>6 DEF Validate
  <2>2. First(Validation(request)) \in Knows(request.endpoint)
    BY <1>2, <1>6, ValidationDecides
  <2>3. QED
    BY <1>1, <1>2, <1>4, <2>1, <2>2, Refuses
<1>7. QED
  BY <1>5, <1>6

\* A step that writes nothing.
LEMMA PassKeeps ==
    ASSUME Busy, Pass
    PROVE  Busy'
<1> DEFINE steps == {"user", "count", "find", "verify", "taken", "hash", "begin", "expiry"}
<1>1. At(steps) /\ Proceed /\ UNCHANGED <<request, staged, committed, status, cookie, faults>>
  BY DEF Pass
<1>2. /\ request \in Request /\ faults \subseteq Faults /\ status = 0 /\ cookie = "none"
      /\ \E p : \E n \in 1 .. Len(p) : AtStep(p, n) /\ p[n] \in steps
  BY <1>1, IsAt
<1>3. PICK p : \E n \in 1 .. Len(p) : AtStep(p, n) /\ p[n] \in steps
  BY <1>2
<1>4. PICK n \in 1 .. Len(p) : AtStep(p, n) /\ p[n] \in steps
  BY <1>3
<1>5. /\ p[n] \notin Essential /\ p[n] \notin {"commit", "validate"}
      /\ (IF Open(p, n) THEN committed = {} ELSE staged = {})
  BY <1>4 DEF Essential, AtStep, OnPath
<1>6. path' = Tail(path) /\ err' = err
  BY <1>1 DEF Proceed
<1>7. QED
  BY <1>1, <1>2, <1>4, <1>5, <1>6, Proceeds

\* A refusal ends the request where nothing durable has been written.
LEMMA RefuseKeeps ==
    ASSUME Busy, Refuse
    PROVE  Busy'
<1>1. UNCHANGED <<request, committed, status, cookie, faults>>
  BY DEF Refuse
<1>2. PICK steps, e :
         /\ At(steps) /\ Return(e)
         /\ \/ steps = {"count"} /\ e = "ErrRateLimit"
            \/ steps = {"taken"} /\ e = "ErrEmailTaken"
            \/ steps = {"consumed", "expiry"} /\ e = "ErrInvalidResetToken"
            \/ steps = {"account", "email"} /\ e = "ErrEmailTaken"
            \/ /\ steps = {"verify"} /\ e = "ErrInvalidCredentials"
               /\ request.endpoint = "AuthenticatedPasswordReset"
  BY DEF Refuse
<1>3. "attempt" \notin steps
  BY <1>2
<1>4. /\ request \in Request /\ faults \subseteq Faults /\ status = 0 /\ cookie = "none"
      /\ \E p : \E n \in 1 .. Len(p) : AtStep(p, n) /\ p[n] \in steps
  BY <1>2, <1>3, IsAt
<1>5. PICK p : \E n \in 1 .. Len(p) : AtStep(p, n) /\ p[n] \in steps
  BY <1>4
<1>6. PICK n \in 1 .. Len(p) : AtStep(p, n) /\ p[n] \in steps
  BY <1>5
<1>7. KnowsRefusals(request.endpoint, p)
  BY <1>6 DEF AtStep, Ordered
<1>8. e \in Knows(request.endpoint)
  BY <1>2, <1>6, <1>7 DEF KnowsRefusals
<1>9. p[n] \in {"validate", "count", "find", "verify", "taken", "account", "expiry",
                "consumed", "email"}
  BY <1>2, <1>6
<1>10. QED
  BY <1>1, <1>2, <1>4, <1>6, <1>8, <1>9, Refuses

\* Wrong credentials leave the failed attempt to record, and nothing else.
LEMMA FailAttemptKeeps ==
    ASSUME Busy, FailAttempt
    PROVE  Busy'
<1> DEFINE steps == {"find", "verify"}
<1>1. At(steps) /\ UNCHANGED <<request, staged, committed, status, cookie, faults>>
  BY DEF FailAttempt
<1>2. /\ request \in Request /\ request.endpoint \in Endpoint /\ faults \subseteq Faults
      /\ status = 0 /\ cookie = "none"
      /\ \E p : \E n \in 1 .. Len(p) : AtStep(p, n) /\ p[n] \in steps
  BY <1>1, IsAt
<1>3. PICK p : \E n \in 1 .. Len(p) : AtStep(p, n) /\ p[n] \in steps
  BY <1>2
<1>4. PICK n \in 1 .. Len(p) : AtStep(p, n) /\ p[n] \in steps
  BY <1>3
<1>5. /\ OnPath(p, n) /\ RefusesBeforeWriting(p) /\ CommitsOnce(p)
      /\ KnowsRefusals(request.endpoint, p) /\ p \in Seq(Step)
  BY <1>4 DEF AtStep, Ordered
<1>6. ~Open(p, n)
  <2>1. ASSUME NEW k \in n .. Len(p), p[k] = "commit"
        PROVE  FALSE
    <3>1. k \in 1 .. Len(p) /\ (k <= n => k = n)
      BY <2>1
    <3>2. k <= n
      BY <1>4, <1>5, <2>1, <3>1 DEF CommitsOnce
    <3>3. QED
      BY <1>4, <2>1, <3>1, <3>2
  <2>2. QED
    BY <2>1 DEF Open
<1>7. staged = {} /\ committed = {}
  <2>1. staged = {}
    BY <1>5, <1>6 DEF OnPath
  <2>2. ASSUME NEW x \in committed
        PROVE  FALSE
    <3>1. PICK i \in 1 .. (n - 1) : p[i] = x /\ x \in Effect
      BY <1>5 DEF OnPath
    <3>2. i \in 1 .. Len(p) /\ i < n
      OBVIOUS
    <3>3. Open(p, n)
      BY <1>4, <1>5, <3>1, <3>2 DEF RefusesBeforeWriting
    <3>4. QED
      BY <1>6, <3>3
  <2>3. QED
    BY <2>1, <2>2
<1>8. path' = <<"attempt">> /\ err' \in WrongCredentials /\ err' \in Knows(request.endpoint)
  <2>1. path' = <<"attempt">>
    BY DEF FailAttempt
  <2>2. CASE request.endpoint = "PasswordResetRequest"
    BY <1>4, <1>5, <2>1, <2>2 DEF FailAttempt, KnowsRefusals, WrongCredentials
  <2>3. CASE request.endpoint # "PasswordResetRequest"
    BY <1>4, <1>5, <2>1, <2>3 DEF FailAttempt, KnowsRefusals, WrongCredentials
  <2>4. QED
    BY <2>2, <2>3
<1>9. err' \in Error \ {"none", "internal"}
  BY <1>2, <1>8, KnowsErrors
<1>10. Refused'
  BY <1>1, <1>7, <1>8, <1>9 DEF Refused
<1>11. QED
  BY <1>1, <1>2, <1>10 DEF Busy, Answered

\* A write joins the open transaction, or is durable at once.
LEMMA WriteKeeps ==
    ASSUME Busy, Write
    PROVE  Busy'
<1> DEFINE steps == {"account", "session", "token", "mail", "consumed", "password", "email"}
<1>1. At(steps) /\ path' = Tail(path) /\ UNCHANGED <<err, request, status, cookie, faults>>
  BY DEF Write, Proceed
<1>2. /\ request \in Request /\ faults \subseteq Faults /\ status = 0 /\ cookie = "none"
      /\ \E p : \E n \in 1 .. Len(p) : AtStep(p, n) /\ p[n] \in steps
  BY <1>1, IsAt
<1>3. PICK p : \E n \in 1 .. Len(p) : AtStep(p, n) /\ p[n] \in steps
  BY <1>2
<1>4. PICK n \in 1 .. Len(p) : AtStep(p, n) /\ p[n] \in steps
  BY <1>3
<1>5. /\ p[n] \in Effect /\ p[n] \notin {"commit", "validate"}
      /\ Head(path) = p[n] /\ (InTransaction <=> Open(p, n))
      /\ (IF Open(p, n) THEN committed = {} ELSE staged = {})
  BY <1>4 DEF Effect, AtStep, OnPath
<1>6. CASE Open(p, n)
  <2>1. staged' = staged \cup {p[n]} /\ committed' = committed
    BY <1>5, <1>6 DEF Write
  <2>2. QED
    BY <1>1, <1>2, <1>4, <1>5, <1>6, <2>1, Proceeds
<1>7. CASE ~Open(p, n)
  <2>1. committed' = committed \cup {p[n]} /\ staged' = staged
    BY <1>5, <1>7 DEF Write
  <2>2. QED
    BY <1>1, <1>2, <1>4, <1>5, <1>7, <2>1, Proceeds
<1>8. QED
  BY <1>6, <1>7

\* A commit makes durable what was staged.
LEMMA CommitKeeps ==
    ASSUME Busy, Commit
    PROVE  Busy'
<1>1. /\ At({"commit"}) /\ path' = Tail(path) /\ committed' = committed \cup staged
      /\ staged' = {} /\ UNCHANGED <<err, request, status, cookie, faults>>
  BY DEF Commit, Proceed
<1>2. /\ request \in Request /\ faults \subseteq Faults /\ status = 0 /\ cookie = "none"
      /\ \E p : \E n \in 1 .. Len(p) : AtStep(p, n) /\ p[n] = "commit"
  BY <1>1, IsAt
<1>3. PICK p : \E n \in 1 .. Len(p) : AtStep(p, n) /\ p[n] = "commit"
  BY <1>2
<1>4. PICK n \in 1 .. Len(p) : AtStep(p, n) /\ p[n] = "commit"
  BY <1>3
<1>5. p[n] \notin Essential
  BY <1>4 DEF Essential
<1>6. QED
  BY <1>1, <1>2, <1>4, <1>5, Proceeds

\* A step whose error is only logged goes on in either case.
LEMMA BestEffortKeeps ==
    ASSUME Busy, BestEffort
    PROVE  Busy'
<1>1. PICK fault \in {"none"} \cup Faults :
         /\ committed' = IF fault = "failed" \/ At({"notice"}) THEN committed
                         ELSE committed \cup {Head(path)}
         /\ faults' = faults \cup ({fault} \ {"none"})
         /\ path' = Tail(path)
         /\ err' = IF fault # "none" /\ request.endpoint = "LogIn" /\ err # "none"
                   THEN "internal" ELSE err
  BY DEF BestEffort
<1>2. At(Logged) /\ path # <<>> /\ UNCHANGED <<request, staged, status, cookie>>
  BY DEF BestEffort, Logged, At
<1>3. /\ request \in Request /\ request.endpoint \in Endpoint /\ faults \subseteq Faults
      /\ status = 0 /\ cookie = "none"
  BY <1>2, IsAt
<1>4. faults' \subseteq Faults
  BY <1>1, <1>3
<1>5. CASE /\ Refused /\ err \in WrongCredentials /\ committed = {}
           /\ Head(path) = "attempt" /\ Tail(path) = <<>>
  <2>1. committed' \subseteq {"attempt"} /\ staged' = {} /\ path' = <<>>
    BY <1>1, <1>2, <1>5 DEF Refused
  <2>2. CASE err' = err
    <3>1. Refused'
      BY <1>2, <1>5, <2>1, <2>2 DEF Refused
    <3>2. QED
      BY <1>2, <1>3, <1>4, <3>1 DEF Busy, Answered
  <2>3. CASE err' # err
    <3>1. err' = "internal" /\ fault # "none"
      BY <1>1, <2>3
    <3>2. faults' # {}
      BY <1>1, <3>1
    <3>3. Broken'
      BY <2>1, <3>1, <3>2 DEF Broken, Effect, Secret
    <3>4. QED
      BY <1>2, <1>3, <1>4, <3>3 DEF Busy, Answered
  <2>4. QED
    BY <2>2, <2>3
<1>6. ASSUME NEW p, NEW n \in 1 .. Len(p), AtStep(p, n), p[n] \in Logged
      PROVE  Busy'
  <2>1. /\ OnPath(p, n) /\ CommitsOnce(p) /\ p \in Seq(Step) /\ Head(path) = p[n]
        /\ err = "none"
    BY <1>6 DEF AtStep, Ordered
  <2>2. p[n] \notin Essential /\ p[n] # "validate" /\ p[n] # "commit"
    BY <1>6 DEF Logged, Essential
  <2>3. ~Open(p, n)
    <3>1. ASSUME NEW k \in n .. Len(p), p[k] = "commit"
          PROVE  FALSE
      <4>1. k \in 1 .. Len(p) /\ (k <= n => k = n)
        BY <3>1
      <4>2. k <= n
        BY <1>6, <2>1, <3>1, <4>1 DEF CommitsOnce
      <4>3. QED
        BY <2>2, <3>1, <4>1, <4>2
    <3>2. QED
      BY <3>1 DEF Open
  <2>4. staged = {} /\ staged' = {}
    BY <1>2, <2>1, <2>3 DEF OnPath
  <2>5. \A x \in committed' : x \in committed \/ (x = p[n] /\ x \in Effect)
    <3>1. CASE p[n] = "notice"
      BY <1>1, <1>2, <2>1, <3>1 DEF At
    <3>2. CASE p[n] # "notice"
      BY <1>1, <1>6, <2>1, <3>2 DEF Logged, Effect
    <3>3. QED
      BY <3>1, <3>2
  <2>6. committed \subseteq committed' /\ err' = err
    BY <1>1, <2>1
  <2>7. QED
    BY <1>1, <1>2, <1>3, <1>4, <1>6, <2>2, <2>3, <2>4, <2>5, <2>6, Proceeds
<1>7. QED
  BY <1>2, <1>5, <1>6, IsAt

\* An error of a query, a hash or a mail ends the request before anything that
\* concerns credentials is durable.
LEMMA ErrKeeps ==
    ASSUME Busy, Err
    PROVE  Busy'
<1>1. PICK fault \in Faults :
         /\ faults' = faults \cup {fault}
         /\ committed' =
              IF fault = "failed" THEN committed
              ELSE IF At({"commit"}) THEN committed \cup staged
              ELSE IF InTransaction THEN committed
              ELSE committed \cup ({Head(path)} \cap Effect)
  BY DEF Err
<1>2. /\ path # <<>> /\ Head(path) \notin Logged /\ Head(path) # "validate"
      /\ path' = <<>> /\ err' = "internal" /\ staged' = {} /\ UNCHANGED <<request, status, cookie>>
  BY DEF Err, At, Logged, Return
<1>3. /\ request \in Request /\ request.endpoint \in Endpoint /\ faults \subseteq Faults
      /\ status = 0 /\ cookie = "none"
      /\ \E p : \E n \in 1 .. Len(p) : AtStep(p, n)
  BY <1>2, WhereItIs DEF Logged
<1>4. PICK p : \E n \in 1 .. Len(p) : AtStep(p, n)
  BY <1>3
<1>5. PICK n \in 1 .. Len(p) : AtStep(p, n)
  BY <1>4
<1>6. /\ OnPath(p, n) /\ p \in Seq(Step) /\ FailsBeforeSecrets(p)
      /\ ValidatesFirst(request.endpoint, p) /\ Head(path) = p[n]
  BY <1>5 DEF AtStep, Ordered
<1>7. faults' \subseteq Faults /\ faults' # {}
  BY <1>1, <1>3
<1>8. \A x \in committed' : x \in committed \cup staged \/ (x = p[n] /\ x \in Effect)
  BY <1>1, <1>6
<1>9. committed' \subseteq Effect
  BY <1>6, <1>8 DEF OnPath
<1>10. ASSUME "unknown" \notin faults'
       PROVE  committed' \cap Secret = {}
  <2>1. committed' = committed
    <3>1. fault = "failed"
      BY <1>1, <1>10, EndpointsAssumption DEF Fault
    <3>2. QED
      BY <1>1, <3>1
  <2>2. ASSUME NEW x \in committed, x \in Secret
        PROVE  FALSE
    <3>1. ~Open(p, n)
      BY <1>6 DEF OnPath
    <3>2. PICK i \in 1 .. (n - 1) : p[i] = x
      BY <1>6 DEF OnPath
    <3>3. i \in 1 .. Len(p) /\ i < n
      OBVIOUS
    <3>4. Open(p, n)
      BY <1>2, <1>6, <2>2, <3>2, <3>3 DEF FailsBeforeSecrets
    <3>5. QED
      BY <3>1, <3>4
  <2>3. QED
    BY <2>1, <2>2
<1>11. ASSUME NEW x \in committed', x \in {"account", "password"}
       PROVE  Vetted /\ request.endpoint \in NewPassword
  <2>1. PICK i \in 1 .. n : p[i] = x
    <3>1. CASE x \in committed \cup staged
      BY <1>6, <3>1 DEF OnPath
    <3>2. CASE x = p[n]
      BY <3>2
    <3>3. QED
      BY <1>8, <3>1, <3>2
  <2>2. i \in 1 .. Len(p)
    OBVIOUS
  <2>3. /\ request.endpoint \in NewPassword
        /\ \E j \in 1 .. (i - 1) : p[j] = "validate"
    BY <1>6, <1>11, <2>1, <2>2 DEF ValidatesFirst
  <2>4. \E j \in 1 .. (n - 1) : p[j] = "validate"
    BY <2>3
  <2>5. QED
    BY <1>6, <2>3, <2>4 DEF OnPath
<1>12. Vetted' <=> Vetted
  BY <1>2 DEF Vetted
<1>13. Broken'
  BY <1>2, <1>7, <1>9, <1>10, <1>11, <1>12 DEF Broken
<1>14. QED
  BY <1>2, <1>3, <1>7, <1>13 DEF Busy, Answered

\* The answer.
LEMMA RespondKeeps ==
    ASSUME Busy, Respond
    PROVE  Busy'
<1>1. /\ path = <<>> /\ status' = Status(request.endpoint, err)
      /\ UNCHANGED <<request, path, err, staged, committed, faults>>
      /\ cookie' = IF err # "none" THEN "none"
                   ELSE IF request.endpoint \in {"SignUp", "LogIn"} THEN "session"
                   ELSE IF request.endpoint = "AuthenticatedPasswordReset" THEN "cleared"
                   ELSE "none"
  BY DEF Respond
<1>2. Underway' \/ Refused' \/ Broken'
  <2>1. CASE Underway
    <3>1. PICK p : p = Path(request.endpoint)
      OBVIOUS
    <3>2. PICK n \in 1 .. Len(p) + 1 : OnPath(p, n)
      BY <2>1, <3>1 DEF Underway
    <3>3. OnPath(p, n)' /\ p = Path(request'.endpoint)
      BY <1>1, <3>1, <3>2 DEF OnPath, Vetted
    <3>4. QED
      BY <1>1, <2>1, <3>3 DEF Underway
  <2>2. CASE Refused
    BY <1>1, <2>2 DEF Refused
  <2>3. CASE Broken
    BY <1>1, <2>3 DEF Broken, Vetted
  <2>4. QED
    BY <2>1, <2>2, <2>3 DEF Busy
<1>3. Answered'
  BY <1>1 DEF Answered
<1>4. QED
  BY <1>1, <1>2, <1>3 DEF Busy

\* The invariant holds at first...
LEMMA InitIInv == Init => IInv
BY DEF Init, IInv, Idle

\* ... is kept by every step...
LEMMA NextIInv == IInv /\ [Next]_vars => IInv'
<1> SUFFICES ASSUME IInv, [Next]_vars
             PROVE  IInv'
  OBVIOUS
<1>1. CASE UNCHANGED vars
  <2>1. CASE Idle
    BY <1>1, <2>1 DEF vars, IInv, Idle
  <2>2. CASE Busy
    BY <1>1, <2>2 DEF vars, IInv, Busy, Answered, Underway, Refused, Broken, OnPath, Vetted
  <2>3. QED
    BY <2>1, <2>2 DEF IInv
<1>2. CASE Finish
  BY <1>2 DEF Finish, IInv, Idle
<1>3. CASE \E r \in Request : Receive(r)
  <2>1. PICK r \in Request : Receive(r)
    BY <1>3
  <2>2. Idle
    BY <2>1, NoneAssumption DEF IInv, Busy, Receive
  <2>3. QED
    BY <2>1, <2>2, ReceiveKeeps DEF IInv
<1>4. CASE Validate \/ Pass \/ Refuse \/ FailAttempt \/ Write \/ Commit \/ BestEffort \/ Err
  <2>1. path # <<>>
    BY <1>4 DEF Validate, Pass, Refuse, FailAttempt, Write, Commit, BestEffort, Err, At
  <2>2. Busy
    BY <2>1 DEF IInv, Idle
  <2>3. QED
    BY <1>4, <2>2, ValidateKeeps, PassKeeps, RefuseKeeps, FailAttemptKeeps, WriteKeeps, CommitKeeps,
       BestEffortKeeps, ErrKeeps DEF IInv
<1>5. CASE Respond
  <2>1. Busy
    BY <1>5 DEF IInv, Idle, Respond
  <2>2. QED
    BY <1>5, <2>1, RespondKeeps DEF IInv
<1>6. QED
  BY <1>1, <1>2, <1>3, <1>4, <1>5 DEF Next

\* ... and so in every state.
LEMMA AlwaysIInv == Spec => []IInv
BY InitIInv, NextIInv, PTL DEF Spec

(***************************************************************************)
(* What the invariant says of an answer.                                   *)
(***************************************************************************)

\* An answered request has done all of its path, or was refused, or is broken.
LEMMA AnsweredIs ==
    ASSUME IInv, status # 0
    PROVE  /\ request \in Request /\ request.endpoint \in Endpoint
           /\ status = Status(request.endpoint, err)
           /\ cookie = "session" => err = "none" /\ request.endpoint \in {"SignUp", "LogIn"}
           /\ cookie = "cleared" => err = "none" /\ request.endpoint = "AuthenticatedPasswordReset"
           /\ \/ err = "none" /\ Promised(request.endpoint) \subseteq committed
              \/ Refused
              \/ Broken
<1>1. Busy /\ path = <<>> /\ request.endpoint \in Endpoint
  BY DEF IInv, Idle, Busy, Answered, Request
<1>2. CASE Underway
  <2>1. PICK p : p = Path(request.endpoint)
    OBVIOUS
  <2>2. p \in Seq(Step) /\ Len(p) \in Nat /\ KeepsPromise(request.endpoint, p)
    BY <1>1, <2>1, Orders DEF Ordered
  <2>3. err = "none"
    BY <1>2 DEF Underway
  <2>4. PICK n \in 1 .. Len(p) + 1 : OnPath(p, n)
    BY <1>2, <2>1 DEF Underway
  <2>5. n = Len(p) + 1
    BY <1>1, <2>2, <2>4, Positions DEF OnPath
  <2>6. ~Open(p, n)
    BY <2>2, <2>5 DEF Open
  <2>7. staged = {} /\ \A i \in 1 .. Len(p) : p[i] \in Essential => p[i] \in committed
    <3>1. staged = {} /\ \A i \in 1 .. (n - 1) : p[i] \in Essential => p[i] \in committed \cup staged
      BY <2>4, <2>6 DEF OnPath
    <3>2. n - 1 = Len(p)
      BY <2>2, <2>5
    <3>3. QED
      BY <3>1, <3>2
  <2>8. Promised(request.endpoint) \subseteq committed
    BY <2>2, <2>7 DEF KeepsPromise
  <2>9. QED
    BY <1>1, <2>3, <2>8 DEF Busy, Answered
<1>3. CASE Refused
  BY <1>1, <1>3 DEF Busy, Answered
<1>4. CASE Broken
  BY <1>1, <1>4 DEF Busy, Answered
<1>5. QED
  BY <1>1, <1>2, <1>3, <1>4 DEF Busy

\* The types; writes are staged only while their transaction is open.
THEOREM TypeCorrect == Spec => []TypeOK
<1>1. ASSUME IInv
      PROVE  TypeOK
  <2>1. CASE Idle
    BY <2>1 DEF Idle, TypeOK, Error
  <2>2. CASE Busy
    <3>1. /\ request \in Request /\ request.endpoint \in Endpoint /\ faults \subseteq Faults
          /\ Answered
      BY <2>2 DEF Busy, Request
    <3>2. status \in {0, 200, 204, 400, 401, 429, 500} /\ cookie \in {"none", "session", "cleared"}
      BY <3>1, Statuses DEF Answered
    <3>3. CASE Underway
      <4>1. PICK p : p = Path(request.endpoint)
        OBVIOUS
      <4>2. p \in Seq(Step) /\ Len(p) \in Nat
        BY <3>1, <4>1, Orders DEF Ordered
      <4>3. PICK n \in 1 .. Len(p) + 1 : OnPath(p, n)
        BY <3>3, <4>1 DEF Underway
      <4>4. path = SubSeq(p, n, Len(p)) /\ committed \subseteq Effect /\ staged \subseteq Effect
        BY <4>3 DEF OnPath
      <4>5. staged # {} => InTransaction
        BY <4>2, <4>3, <4>4, Positions DEF OnPath
      <4>6. path = <<>> \/ n \in 1 .. Len(p)
        BY <4>2, <4>4, Positions
      <4>7. err \in Error
        BY <3>3 DEF Underway, Error
      <4>8. QED
        BY <3>1, <3>2, <4>1, <4>4, <4>5, <4>6, <4>7 DEF TypeOK
    <3>4. CASE Refused
      <4>1. path = <<>> \/ path = <<"attempt">>
        BY <3>4 DEF Refused
      <4>2. err \in Error /\ staged = {} /\ committed \subseteq Effect
        BY <3>4 DEF Refused, Effect
      <4>3. QED
        BY <3>1, <3>2, <4>1, <4>2 DEF TypeOK
    <3>5. CASE Broken
      BY <3>1, <3>2, <3>5 DEF Broken, TypeOK, Error
    <3>6. QED
      BY <2>2, <3>3, <3>4, <3>5 DEF Busy
  <2>3. QED
    BY <1>1, <2>1, <2>2 DEF IInv
<1>2. QED
  BY <1>1, AlwaysIInv, PTL

\* Whatever a service refuses, its handler has a status for: a 500 means that a
\* query, a hash or a mail went wrong.
THEOREM RefusalsAreAnswered == Spec => []EveryRefusalIsAnswered
<1>1. ASSUME IInv
      PROVE  EveryRefusalIsAnswered
  <2> SUFFICES ASSUME status = 500
               PROVE  faults # {}
    BY DEF EveryRefusalIsAnswered
  <2>1. /\ request.endpoint \in Endpoint /\ status = Status(request.endpoint, err)
        /\ err = "none" \/ Refused \/ Broken
    BY <1>1, AnsweredIs
  <2>2. err # "none" /\ ~Refused
    BY <2>1, Statuses DEF Refused
  <2>3. QED
    BY <2>1, <2>2 DEF Broken
<1>2. QED
  BY <1>1, AlwaysIInv, PTL

\* A request that is refused has changed nothing, but for the attempt of one
\* whose credentials were wrong.
THEOREM RefusalsAreClean == Spec => []RefusalsChangeNothing
<1>1. ASSUME IInv
      PROVE  RefusalsChangeNothing
  <2>1. CASE status \notin {400, 401, 429}
    BY <2>1 DEF RefusalsChangeNothing
  <2>2. CASE status \in {400, 401, 429}
    <3>1. /\ request.endpoint \in Endpoint /\ status = Status(request.endpoint, err)
          /\ err = "none" \/ Refused \/ Broken
      BY <1>1, <2>2, AnsweredIs
    <3>2. err # "none" /\ ~Broken
      BY <2>2, <3>1, Statuses DEF Broken
    <3>3. status \in {400, 429} => err \notin WrongCredentials
      BY <3>1, StatusMeans DEF WrongCredentials
    <3>4. committed \subseteq (IF err \in WrongCredentials THEN {"attempt"} ELSE {})
      BY <3>1, <3>2 DEF Refused
    <3>5. QED
      BY <3>3, <3>4 DEF RefusalsChangeNothing
  <2>3. QED
    BY <2>1, <2>2
<1>2. QED
  BY <1>1, AlwaysIInv, PTL

\* A success is durable when it is answered, and no cookie is handed out for
\* anything less.
THEOREM SuccessesAreDurable == Spec => []SuccessIsDurable
<1>1. ASSUME IInv
      PROVE  SuccessIsDurable
  <2>1. CASE status = 0
    BY <1>1, <2>1, Statuses DEF SuccessIsDurable, IInv, Idle, Busy, Answered, Request
  <2>2. CASE status # 0
    <3>1. /\ request.endpoint \in Endpoint /\ status = Status(request.endpoint, err)
          /\ cookie = "session" => err = "none" /\ request.endpoint \in {"SignUp", "LogIn"}
          /\ cookie = "cleared" => err = "none" /\ request.endpoint = "AuthenticatedPasswordReset"
          /\ \/ err = "none" /\ Promised(request.endpoint) \subseteq committed
             \/ Refused
             \/ Broken
      BY <1>1, <2>2, AnsweredIs
    <3>2. err = "none" => Promised(request.endpoint) \subseteq committed
      BY <3>1 DEF Refused, Broken
    <3>3. status \in {200, 204} /\ err # "ErrUserNotFound" => err = "none"
      BY <3>1, StatusMeans
    <3>4. cookie = "session" => status = 204 /\ "session" \in committed
      <4> SUFFICES ASSUME cookie = "session"
                   PROVE  status = 204 /\ "session" \in committed
        OBVIOUS
      <4>1. err = "none" /\ request.endpoint \in {"SignUp", "LogIn"}
        BY <3>1
      <4>2. "session" \in Promised(request.endpoint)
        BY <4>1 DEF Promised
      <4>3. QED
        BY <3>1, <3>2, <4>1, <4>2, Statuses
    <3>5. cookie = "cleared" => status = 204 /\ "password" \in committed
      <4> SUFFICES ASSUME cookie = "cleared"
                   PROVE  status = 204 /\ "password" \in committed
        OBVIOUS
      <4>1. err = "none" /\ request.endpoint = "AuthenticatedPasswordReset"
        BY <3>1
      <4>2. "password" \in Promised(request.endpoint)
        BY <4>1 DEF Promised
      <4>3. QED
        BY <3>1, <3>2, <4>1, <4>2, Statuses
    <3>6. QED
      BY <3>2, <3>3, <3>4, <3>5 DEF SuccessIsDurable
  <2>3. QED
    BY <2>1, <2>2
<1>2. QED
  BY <1>1, AlwaysIInv, PTL

\* After a 500 credentials and tokens are what they were, unless the database
\* did what it reported as failed.
THEOREM CredentialsAreKept == Spec => []ServerErrorsKeepCredentials
<1>1. ASSUME IInv
      PROVE  ServerErrorsKeepCredentials
  <2> SUFFICES ASSUME status = 500, "unknown" \notin faults
               PROVE  committed \cap {"password", "email", "consumed", "session"} = {}
    BY DEF ServerErrorsKeepCredentials
  <2>1. /\ request.endpoint \in Endpoint /\ status = Status(request.endpoint, err)
        /\ err = "none" \/ Refused \/ Broken
    BY <1>1, AnsweredIs
  <2>2. err # "none" /\ ~Refused
    BY <2>1, Statuses DEF Refused
  <2>3. QED
    BY <2>1, <2>2 DEF Broken, Secret
<1>2. QED
  BY <1>1, AlwaysIInv, PTL

\* A password that is stored keeps what the messages of writeWeakPasswordError
\* ask for, whatever its length and spelling.
THEOREM PasswordsMeetPolicy == Spec => []StoredPasswordsMeetPolicy
<1>1. ASSUME IInv
      PROVE  StoredPasswordsMeetPolicy
  <2> SUFFICES ASSUME NEW x \in committed \cup staged, x \in {"account", "password"}
               PROVE  /\ ~request.password.blank
                      /\ request.password.runes \in 13 .. 256
                      /\ request.password.word # "listed"
    BY DEF StoredPasswordsMeetPolicy
  <2>1. Busy /\ request \in Request /\ request.endpoint \in Endpoint
    BY <1>1 DEF IInv, Idle, Busy, Request
  <2>2. Vetted /\ request.endpoint \in NewPassword
    <3>1. CASE Underway
      <4>1. PICK p : p = Path(request.endpoint)
        OBVIOUS
      <4>2. p \in Seq(Step) /\ Len(p) \in Nat /\ ValidatesFirst(request.endpoint, p)
        BY <2>1, <4>1, Orders DEF Ordered
      <4>3. PICK n \in 1 .. Len(p) + 1 : OnPath(p, n)
        BY <3>1, <4>1 DEF Underway
      <4>4. PICK i \in 1 .. (n - 1) : p[i] = x
        BY <4>3 DEF OnPath
      <4>5. i \in 1 .. Len(p)
        BY <4>2
      <4>6. /\ request.endpoint \in NewPassword
            /\ \E j \in 1 .. (i - 1) : p[j] = "validate"
        BY <4>2, <4>4, <4>5 DEF ValidatesFirst
      <4>7. \E j \in 1 .. (n - 1) : p[j] = "validate"
        BY <4>2, <4>6
      <4>8. QED
        BY <4>3, <4>6, <4>7 DEF OnPath
    <3>2. CASE Refused
      BY <3>2 DEF Refused
    <3>3. CASE Broken
      BY <3>3 DEF Broken
    <3>4. QED
      BY <2>1, <3>1, <3>2, <3>3 DEF Busy
  <2>3. Passes(IsValidPassword(request.password))
    BY <2>1, <2>2, ValidationDecides DEF Vetted, NewPassword
  <2>4. request.password \in Password
    BY <2>1 DEF Request
  <2>5. QED
    BY <2>3, <2>4, PolicyIsKept
<1>2. QED
  BY <1>1, AlwaysIInv, PTL

======================================================================================
