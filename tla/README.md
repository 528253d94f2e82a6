# Verification of GoAuthenticationStarter

TLA+ specifications of the authentication service in `src/`, checked with TLC on
small instances, and theorems about them proved with TLAPS for every value of the
constants. `PROJECT.json` lists, for every definition, the lines it models, and
the runs, mutants, findings, hazards and theorems.

## 1. The system

An HTTP server over PostgreSQL. Nothing is kept in memory between requests: all
shared state is in five tables and in the browsers' cookies, and the requests the
server handles at one time meet in the tables. Almost every query is a transaction
of its own; only the redemption of reset tokens runs several in one, and there
requests also wait for each other's locks.

| Component | State | Operations | Hard behaviour |
|---|---|---|---|
| session table, `db/sessions.sql.go` | `sessions` (id is a SHA-256) | insert, look up, deactivate one / all / least recently used, rotate id, touch | requests interleave between any two queries |
| session service, `service/session` | none | CreateSession, GetSession, ExpireSession, RotateSession, UpdateLastSeen, DeactivateAllSessionsForUser | count, evict, insert are three statements; a session value outlives the row it was read from |
| session middleware, `middleware/session.go` | the request's context | cookie, look-up, expiry, rotation, touch, handler, in that order; errors are logged and passed over | best effort after every failure |
| cookies, `web/cookies.go` | the browser's `id` cookie | set, clear | a response may be lost after the table changed |
| handlers, `handlers/user.go` | none | sign-up, log-in, get user, password change, password and email reset (request and redeem) | which of them open, revoke and clear |
| log-in and its limit, `service/user` `LogIn` | `auth_attempts` | count failures, verify, record | count and record are apart, with a slow hash in between; the INSERT may fail |
| sign-up and accounts | `users` | CreateUser, UpdateEmail, UpdatePasswordHash | unique emails by constraint only |
| reset requests, `service/user` Create…/Reset…Request | `password_reset_requests`, `email_reset_requests` | create and mail a token, redeem it in a transaction (`transaction.go`) | single use, expiry with roll-back, mail that fails, locks and deadlock |
| tiered reset limit, `isTieredRateLimited` | `auth_attempts` | count over two windows | recorded after the mail |
| password policy, email normalization | none | pure | order of checks; case |
| errors to statuses, mail, start-up, generated code | none | | |

How they interact: every request passes the middleware, which reads and writes its
session's row and then calls the handler with a closure over the user id. Handlers
call the user service, then the session service; sign-up and log-in open a session,
a password change and a redeemed token revoke all sessions of the user. The
services share nothing but the tables.

What makes the parts correct:

- **sessions** — a log-in has at most one row, whoever rotates it; a session that was
  revoked, expired or evicted never comes back; a request is admitted only on a live
  session of an active user, within the absolute expiration of the *log-in*; the
  cookie expires with it, is current, and is cleared only for good reason; a user has
  at most `MaxNumberOfActiveSessions`, and more only by log-ins that overtook each other.
- **log-in limit** — failures in any window are bounded; every rejection is on
  record; a lock-out ends.
- **reset requests** — attempts and mails are bounded over both windows, up to the
  requests handled at once and what fails; a limit ends.
- **reset tokens** — a token changes an account at most once, within its duration,
  and a failed redemption neither spends it nor changes anything; a new email is one that
  received its token.
- **accounts** — no two accounts with one email, whatever raced, and every spelling
  of an email finds its account; a change of credentials ends the sessions opened
  with older ones, up to those that were being opened.
- **endpoints** — the status says what was done: a refusal changed nothing, a success
  is durable, a 500 is never an answer to a mistake of the client's.

## 2. Modules

| Module | Models |
|---|---|
| `SessionStore` | the sessions table, its queries and the time predicates, as operators without state |
| `SessionLifecycle` | browsers, middleware, handlers and the session service as one state machine over that table |
| `SessionLimit` | the same state machine, watched for log-ins that overtake each other inside `CreateSession`: what is left of the session limit |
| `LoginLedger` | what the session service promises, without ids and cookies: a log-in opens once and ends once |
| `AuthSystem` | credentials and sessions together: log-in, sign-up, password change, redeemed tokens and revocation, over the ledger |
| `LoginThrottle` | `LogIn` and its rate limit over `auth_attempts` |
| `ResetThrottle` | requests for a reset and their two-window limit over `auth_attempts` |
| `ResetTokens` | requests, mails and redemptions of reset tokens, with their transactions and locks, over `users` and the two request tables; the other writers of `users`: sign-up, and the password change of a user who is logged in |
| `ResetLedger` | what resets by token promise, without transactions, locks, mails and time: a token is used at most once, in the step that makes its change |
| `Endpoints` | one request of each endpoint: validation, the order of its queries, its errors, its status |
| `Emails` | spellings of an email: normalization, the columns, what is found and counted by it |
| `…Proofs` | theorems about `SessionLifecycle`, `SessionLimit`, `AuthSystem`, `LoginThrottle`, `ResetThrottle`, `ResetTokens`, `Endpoints`, `Emails` |
| `MC…` | the symmetries, initial states and inputs of the model-checked instances |

How they fit together. `SessionLifecycle` *implements* `LoginLedger`: the log-in of a row
is the one its raw id descends from (`origin`), and it is live while one of its rows is
(`LoginsBar`). `AuthSystem` EXTENDS the ledger and so composes accounts with sessions
without the ids, cookies and clocks that do not matter to it. `ResetTokens` *implements*
`ResetLedger`: a token is open while the row it was issued with is in its table
(`ResetsBar`). It has the
transaction that `AuthSystem` takes as one step (`RedeemToken`), and `ResetThrottle` the
limit in front of the requests `ResetTokens` starts with. `Endpoints` is the sequential
view: one request, all its refusals and faults, with the answers of the database left
open. `Emails` is below all of these, which speak of emails already normalized.

Definitions marked `variant` are plausible bugs; each replaces the definition below
it in a mutant listed in `PROJECT.json` and must break the property named there.
They are no part of the specifications.

### SessionStore and SessionLifecycle

`sessions` is a set of rows with the columns of the table. `req[q]` is a request:
where it is (`pc`), the decoded cookie, `cur` (the middleware's `curSession`, possibly
stale), the user the handler acts for, the id the eviction's sub-select chose, and
the last `Set-Cookie` of the response. `jar` is the browsers' cookies. `origin` is a
history variable: which log-in, by which user, at which time, a raw id descends from
by rotation; no guard depends on it except through `Fresh` (an id that was never
drawn). `activeUsers` is `users.is_active`.

An action is one query with the code up to the next query:

| Action | Code |
|---|---|
| `Receive` | middleware: no cookie, undecodable cookie, or on to the look-up |
| `GetSession` | `GetSession`, then the branch on expiry, rotation, touch |
| `ExpireSession`, `Rotate`, `RotateFails`, `UpdateLastSeen` | the middleware's writes, and what it does when they fail |
| `Answer` | a handler that leaves sessions alone, and every refusal |
| `LogIn`, `CountSessions`, `PickVictim`, `Evict`, `InsertSession`, `InsertFails` | sign-up and log-in after the credentials, `CreateSession` |
| `ResetPassword`, `Revoke` | password change and redeemed tokens, `DeactivateAllSessionsForUser` |
| `Deliver`, `Lose` | the response reaches the browser, or the request dies at any point |
| `DeactivateUser`, `Tick` | an operator clears `users.is_active` (no code does), time passes |

Faults are a constant: a query *fails* (nothing changed), ends *unknown* (committed,
but the program sees an error), a request is *lost*, a cookie is *garbled*.

`SessionLimit` adds two history variables to each step of `SessionLifecycle` and changes none.
`overtaken` holds the log-ins whose last read is out of date: another one of the user's
inserted between their count and their insertion, or while the row they are to evict was
already gone (evicted by the other, if both picked the same one), or a rotation gave that row
an id under which the UPDATE does not find it. `excess` counts, by user, the insertions of
such log-ins.

### LoginThrottle

`call[p]` is one call of `LogIn`; `Count`, `Verify`, `FailLoginAttempt` and `Succeed`
are its queries, with `started` the clock reading its window is measured from.
`rejections` is a history of the `ErrInvalidCredentials` answers. `Abandon` stands for
every error return and for a call cut off.

### LoginLedger and AuthSystem

`logins` is the ledger: for each log-in its owner and whether it is live. `version[user]`
counts the writes of a user's credentials (password or email). `call[p]` is a request: where
it is, for whom, and the version of the credentials it goes by. `opened` (the version a
session's log-in had verified), `barrier` (the version at the last revocation) and
`answered` (the last change that was reported as done) are history.

| Action | Code |
|---|---|
| `SignUp`, `LogIn` | the user service's call has returned the user; `CreateSession` is next |
| `Evict`, `InsertSession` | the two writes of `CreateSession` |
| `Admit`, `GetUserByID` | the middleware lets the request pass; the handler reads the user, once, and verifies the old password against that row |
| `ChangePassword`, `RedeemToken` | the UPDATE by id; the redemption's transaction |
| `Revoke` | `DeactivateAllSessionsForUser`, whose error is only logged, and the answer |
| `Expire`, `Abandon` | a session ends for a reason of its own; an error or the end of a request |

### ResetThrottle

`call[p]` is one call of `CreatePasswordResetRequest` or `CreateEmailResetRequest`, with the
clock reading its windows are measured from; `Count`, `Check`, `Refuse`, `SendMail` and
`Record` are its queries and its mail. An email reset counts by the user's *current* email.
`mails`, `posted` and `missed` are history: the mails that went out, and how many of them
have no attempt on record, since the mail reported an error or the INSERT failed. Storing
the token is part of `SendMail`: if it fails, no mail is sent.

### Endpoints

`path` is what a request has still to do, `err` the error it will return, `staged` its
writes in an open transaction, `committed` those that are durable. `Path`, `Requires`,
`Validation` and `WriteError` say, for each endpoint, the order of its steps, what is
checked before the service and by it, and which errors its writer knows. A refusal, a
wrong password or a fault can come at every step where the code has one. Emails and
tokens are of a few classes; passwords have a length, are blank or not, and are a spelling
of a listed word or not.

### Emails

Texts over an alphabet of seven characters, of which one, `U`, has two bytes and three when
lower-cased (as Ⱥ has). `Valid` and `Normalize` are the two results of
`normalizeAndValidateEmail`; `mail.ParseAddress` is taken to accept two dot-atoms about an
@ (the code demands that the address it finds is the whole input, which excludes names,
comments and brackets; quoted local parts are left out). `Citext` is the equality of
`users.email`; attempts are compared as TEXT. `GetUserByEmail(Normalize(input)) = {}` in
`SignUp` is the unique index.

### ResetTokens

`users` maps an account to its email and to the token that set its password (`None`
for one its owner chose at sign-up or when logged in), `requests` holds the rows of both request tables, `inbox`
the mails with a token. `issued` (the row a token was stored with) and `spent` (how
often its reset was committed) are history. `call[p]` is one call of an operation, with
the row its DELETE returned.

| Action | Code |
|---|---|
| `SignUp` | `SignUp`: one INSERT, `ErrEmailTaken` from the unique index |
| `CreatePasswordResetRequest` | up to and with `GetUserByEmail` |
| `CreateEmailResetRequest`, `CheckNewEmail` | the password and the current email, then `GetUserByEmail` for the new one |
| `StoreRequest`, `SendMail` | the INSERT of the token's row; the mail with the link |
| `ResetPasswordForAuthenticatedUser`, `ChangePassword` | the old password fits the row the middleware read; one UPDATE by id, which waits for the row's lock and overwrites what is there |
| `Redeem`, `Consume` | the transaction begins; DELETE … RETURNING, and the check of the age with its roll-back |
| `UpdateRow`, `UpdateIndex` | UPDATE users: the lock on the row, then for an email the unique index (`ErrEmailTaken`, roll-back) |
| `Commit`, `Abandon`, `DeadlockDetected` | `tx.Commit`; every error return and the end of a call, with the deferred `tx.Rollback`; PostgreSQL's own abort |

A transaction's writes are invisible until `Commit`, which applies them together; what
others feel before are its locks. `TokenHolders`, `UserHolders` and `EmailHolders` say
who has the row of a token, the row of a user, and an email in the unique index: a
transaction that updated a user's row has its present email too, since the index
still may have to keep it, and one past the index check has the new email. A statement
waits while `Blockers` is not empty and then looks at the committed rows, as READ
COMMITTED does.

### What is abstracted

- SHA-256 is injective and never yields a raw id; `generateSessionID` never repeats
  an id. When the model's pool of ids is used up, it returns its error.
- One clock serves the program and the database, in ticks; time may pass between
  any two actions.
- A single SQL statement is atomic (READ COMMITTED), except the eviction, whose
  sub-select and UPDATE are two actions: the UPDATE asks for the id alone, without
  `is_active`. Ties in `last_seen_at` are broken either way.
- Users are never deleted by this code, so `ErrUserNotFound` of `CreateSession` cannot
  occur.
- A browser obeys `Expires` and the last `Set-Cookie`, and has one cookie jar.
- Passwords, bodies and statuses: outside `Endpoints` a handler accepts or refuses,
  nondeterministically, and inputs that are invalid before the first query leave no
  trace and are left out.
- In `AuthSystem` a log-in that another ends is any of the user's; how many there are is
  `SessionLifecycle`'s subject. Old and new credentials are told apart by `version`, and a
  password that is changed to itself counts as changed.
- In `Endpoints` a query that is refused, or finds nothing, does so nondeterministically.
  The status line is the answer; headers other than the cookie and texts are left out.
- Reset tokens are not guessed: a redemption carries a token out of some mail. That is an
  assumption of `ResetTokens`, and no property claims it. SHA-256
  of a token is the token itself, since nothing else is looked up by it.
- In `ResetTokens` emails are normalized already, the password of a request for a new
  email was right, and the rate limit let the request pass. An UPDATE is two steps
  because it can wait in two places. Left out are the short waits of an INSERT for the
  key-share lock on its user, which hold nothing another statement waits for, and the
  notice to the old address, whose failure is only logged.

## 3. Model checking

| Run | Instance | Shows |
|---|---|---|
| `sessions_race` | `LimitSpec`: one browser, two requests in flight, 3 ids, a limit of one session, unknown commits | types; rows keep their log-in; one row per log-in; ended log-ins stay ended; inactive rows are frozen; the excess over the limit is bounded; the ledger is implemented |
| `sessions_browser` | two browsers, one request each, failing queries, no lost answers | a browser at rest holds its session's current id; it is cleared only when the session is over |
| `sessions_lifetime` | one request, 4 ids, limit 2, every fault, a clock past rotation, idle and absolute expiry | cookie and admission end with the log-in, through rotations; log-ins one after another respect the session limit |
| `sessions_touch` | one request, no fault | **violated**: a rotating request does not refresh `last_seen_at` |
| `auth` | two users, two requests, three log-ins, every fault | types; a revocation misses fewer sessions than there are requests |
| `auth_login_race` | one user who has signed up and has a session, two requests, no fault | **violated**: a session opened with an old password survives its change |
| `throttle` | two calls, two emails, limit 2, `FairSpec`, failing queries and unknown commits | types; the bound on failures; rejections are on record; a lock-out ends |
| `resets` | two requests of both kinds, limits 1 and 2, `FairSpec`, every fault | types; the bounds on attempts and on mails, over both windows; a limit ends |
| `tokens` | two calls, two users, emails and tokens, both kinds, failing and unknown commits, a clock past both deadlines | types; single use, all or nothing; emails change only to the address the token was mailed to; dead tokens stay dead; the ledger of resets is implemented |
| `tokens_emails` | two calls, two users, three emails and tokens, email changes only, after the first sign-up, `FairSpecFirst` | emails stay unique, although a new one is checked long before it is stored; every redemption ends, though two may wait for each other in a circle |
| `endpoints` | eight endpoints, every class of input, passwords at both edges of the policy, every fault | refusals, successes and internal errors are what their status says; stored passwords meet the policy |
| `emails` | two accounts, 26 inputs, a limit of 6 bytes | spellings find their account, fit the columns, share a count; stored emails are normal |

**Bounds.** `RawSessionID` bounds the ids ever drawn: three allow a log-in, a second
log-in or a rotation, and a rotation that races another, and with the limit of one in
`sessions_race` a user exceeds it both ways, overtaken by a log-in and by a rotation (the bound
is met with equality in either case); four fill a limit of two and
overflow it. `MaxTime` bounds the clock: two ticks exceed every duration of the race
runs (durations of zero and one make each threshold reachable), four exceed the
absolute expiration of `sessions_lifetime`, where durations keep the order of the code
(rotation < idle < absolute). `MaxAttempts` bounds the attempts on record: one more than
the limit plus what is in flight. At the bound, further counts return errors; in
`ResetThrottle` the mails count too, so that failing requests are bounded. `MaxVersion`
bounds the writes of a user's credentials: with two, each user has a sign-up and a change,
and a revocation after it. `MaxRows` and `MaxUsers` bound the tables of `Emails`; two
attempts show whether two spellings are counted together. `MaxBytes` and `ColumnChars` are
scaled from 254 and 320 to 6 and 6, the addresses from 5 to 8 bytes, so that inputs lie
on both sides of the limit and a domain can outgrow it when it is lower-cased.
`RuneCounts` has both edges of the policy and their neighbours. In
`ResetTokens`, `Token` bounds the tokens ever drawn (then `rand.Read` returns an error,
which the code handles): two let one account have two outstanding or two accounts one
each, three let two accounts come to claim each other's emails and deadlock. The durations differ by kind
and lie below `MaxTime`, so that each kind is redeemed in time, at its deadline and too
late. Two
concurrent requests suffice for the races of the code, each of which is between two
read-then-write sequences on one row or one count; the theorems cover every number.

**Symmetry** is used for ids, requests, browsers, users, log-ins, calls and emails in the
runs of safety properties only (`ImplementsLedger` and `ImplementsResets` are two: step relations).

**Fairness.** `LockoutEnds` and `LimitEnds` assume that time passes (`WF_vars(Tick)`) and
nothing else: no request is assumed to make progress. They state that a limit ends when
the clock of the model still covers the window. `RedemptionsEnd` assumes strong fairness of
`Redemption(p)`: the database answers each statement, and one that waits for a lock
gets it in turn, as PostgreSQL's lock queues do, rather than be overtaken for ever; the
deadlock detector runs after a second of waiting. Nothing is assumed of requests,
mails or clients.

**Deadlock** is checked in every run but `auth_login_race`, whose bounds let it stop: a
request in hand always has a step (`Abandon`
and `Lose` where the code can fail), a browser can always send another, and a mailed
link can always be followed again.

### Findings

1. `RotateSession` (`service/session/service.go:139`) puts the raw id into the session
   it returns, and `UpdateLastSeen` uses it where the table has the hash. The UPDATE
   matches nothing; the error is logged. So the request that rotates a session never
   counts as activity, against the middleware test "rotation success updates last
   seen with rotated id", which uses a mock. A user whose next visit comes within the
   idle time of that request, but not of the one before, is logged out.
2. The log-in handler (`handlers/user.go:101`) creates the session in a call of its own,
   after `LogIn` has verified the password. A reset that commits and revokes all sessions in
   between leaves the session that is opened then, with the old password, although the
   reset is answered as done and a test is named "password reset suceeds with a valid reset
   token and deactivates sessions". TLC's trace, from an account with one session: `LogIn`,
   `Evict`, then `RedeemToken` and `Revoke` of the other request, then `InsertSession`. The
   password change of a user who is logged in meets the same race. `StaleSessionBound` is
   what holds instead.

Three more races are of the same kind, a read that is acted on later; the properties state
what holds in spite of them:

- Counting failures and recording them are apart, so concurrent guesses all pass a count
  taken before any is recorded. `FailureBound`: the excess is below the number of
  concurrent calls. The same goes for resets, whose attempt is recorded after the mail:
  `AttemptBound` and `MailBound`.
- `CreateSession` counts, evicts and inserts in separate statements: concurrent log-ins
  exceed `MaxNumberOfActiveSessions`. Each later log-in evicts one and inserts one, so the
  excess stays, and it can grow: two log-ins may pick the same session to evict.
  `SessionExcessBound` is what holds: each log-in that was overtaken adds at most one, and
  nothing else adds any. `ActiveSessionLimit`, checked with every fault, is the case of
  log-ins one after another.
- `ResetPasswordForAuthenticatedUser` verifies the old password against a row read before
  and updates by id alone: it can overwrite a reset that came between. `StaleSessionBound`
  counts such requests (`StaleCalls`).

A password change clears the cookie even if its revocation, whose error is only logged,
has failed: the session goes on without a browser. `ClearedOnlyWhenOver` is therefore stated
for revocations that do not fail.

## 4. Proofs

`SessionLifecycleProofs` proves, for all sets of browsers, requests, users and ids,
all durations and all faults: `TypeOK`, `RowsKeepOrigin`, `OneRowPerLogin`,
`EndedLoginsStayEnded`, `InactiveRowsAreFrozen`, `AdmissionFollowsLogin`,
`CookieExpiresWithLogin` and `ImplementsLedger`. Assumptions: those on the constants (`StoreAssumption`, `HashAssumption`,
`LifecycleAssumption`, `NoneAssumption`, `LedgerAssumption`), which TLC evaluates in every run.

`OneRowPerLogin` is not inductive alone: a rotation gives its new id the origin of
the row it replaces, so one must know that rows have an origin (`RowsKeepOrigin`),
and an insertion starts a log-in named by its id, so one must know that no other
log-in has that name (`LoginsAreNamed`: a name in use is an id in use). `IInv` is their
conjunction with `TypeOK`. The step is split in two. Every action but `InsertSession`
*carries* the table: each row of the next table comes from one row of this one, with
the same origin, user and creation time, active only if that one was, and equal if
that one was not; `StepCarries` shows it action by action, from one lemma per query.
`CarriesIInv` and `InsertIInv` then preserve the invariant, and the action
properties follow from the same two cases. `AdmissionFollowsLogin` joins `IInv` with the
guard of `GetSession`: the row it finds is the one row of the cookie's log-in, and its
creation time is the log-in's. `CookieExpiresWithLogin` needs in addition that the
creation time a rotation writes into the cookie is that of the row.

`ImplementsLedger` uses the same split: a step that carries the table keeps the log-ins, or
ends one, or ends all of a user's (`DeactivateAllSessionsForUser`); an insertion opens the
log-in named by its id. That a step ends *one* needs `OneRowPerLogin`.

`OrderlySessionsProofs` proves `SessionExcessBound` for `LimitSpec`, with any number of requests,
any limit and any faults. The bound is inductive with what a log-in can rely on that was not
overtaken (`LInv`): if it is about to insert, there is room for its session within the
bound; if it is about to evict, there is room, or its victim is still the user's and active.
`VictimStays` shows that the victim of a log-in that waits goes only by a deactivation, which makes
room (`DeactivationMakesRoom`), or by what makes the log-in overtaken; `OwnStep` follows the
log-in's own count, choice and eviction.

The rest of the module proves what holds only when requests come in order, with the order
as a hypothesis. `CookieIsCurrent` is proved for `Orderly`: no pipelining, no lost answer, no
query that commits unnoticed; each of the three alone lets a rotated id miss its browser.
`BInv` says who has what: a browser has one request under way (`OneEach`), no two
browsers hold or are about to get one id (`NobodyShares`), an id in a cookie has its row
unless an answer is about to replace it (`Stored`), and the session a request has in
hand is its browser's (`HasOwn`). `OneEach` and `NobodyShares` together are why nobody else
can rotate the row away. Actions are sorted by what they do to headers and cookies
(`Effects`). `ClearedOnlyWhenOver` needs `OInv`, which adds
what a request means for its browser's cookie: it is about to be cleared only when its
session is no longer usable, which lasts (`UnusableStays`) since a touch by anybody
else is excluded by `BInv`; and the handler acts for the session's user. Its second
hypothesis, `RevokesSurely`, is the one way the code breaks the promise: a
password change clears the cookie although the revocation, whose error is only logged, failed.
`HashAssumption` (no hash is a raw id) keeps the id a rotated session carries from
matching a row. TLC checked `BInv` and `OInv` on `sessions_browser` before they were
proved.

`AuthSystemProofs` proves, for any finite set of requests, any users, log-ins and faults,
`TypeOK` and `StaleSessionBound`. The bound is inductive with three facts: stale sets are finite; `barrier` never
exceeds `version`, so that what starts now is not stale; and a stale session or request is
accounted for by a request that was under way at the last revocation, of which one, the
revoking request itself, is none: an insertion moves a stale request into a stale
session, and nothing makes another.

`LoginThrottleProofs` proves, for any limit, window and finite set of calls, `TypeOK`,
`FailureBound` and `RejectionsAreRecorded`. `FailureBound` counts not only failures on
record but also the calls that have passed their count (`Pending`), which makes it
inductive: a call that passes found fewer failures than the limit over a window at
least as wide as the present one, and fewer than all calls were pending before it; a
call that records moves from one summand to the other; time only shrinks the first.

`ResetThrottleProofs` proves, for any windows with the short within the long, any limits
and any finite set of requests, `TypeOK`, `AttemptBound` (the argument of `FailureBound`, for
each tier) and `MailBound`. For the last, `Matched` relates the two histories at every
time: the mails of a key since then are at most its attempts on record since then, the
requests about to record one, and the mails missed. A mail gives a request its attempt to
record; recording moves it from one summand to another; a failure adds to the last.

`ResetTokensProofs` proves, for all sets of calls, users, emails and tokens, any
durations and faults, from `TokensAssumption` and `NoneAssumption`: `TypeOK`,
`SpentOnce`, `EmailsUnique`, `DeadTokensStayDead`, `EmailChangesAreConfirmed` and
`ImplementsResets` (with `LedgerAssumption`). Neither
uniqueness is inductive alone. That a commit takes a row still in the table needs
`TokenLocks` (no two transactions have one token in hand) and `RowsAreIssued` (a stored
row is the one its token was issued with). That it stores an email nobody has needs
`AccountLocks`: one transaction has a user's row, and one at its commit has the new
email to itself, so that no sign-up and no other commit can have taken it since the
index was checked, nor can its present owner be about to take it back. `MailsMatch`
carries the address from the request to the redemption. The proof sorts the steps
into the few that write a table or send a mail and the *quiet* ones, which change
one call alone (`Steps`); a password change without a token waits for the same row lock and
leaves emails and tokens alone (`ChangeEffect`). `QuietLocks` says that a quiet step takes only locks that
were free, and each of the others has a lemma of its own. The same sorting gives
`ImplementsResets`: quiet steps and mails leave the ledger alone, an INSERT issues a token,
and a commit uses one. That its token is still open is `TokenLocks`, and that nobody else
has the new email is `AccountLocks`.

`EndpointsProofs` proves all invariants of `Endpoints` for any rune counts and faults, from
`NoneAssumption` (no input is `None`). The argument separates the tables of the code from the run through them. *What
the tables guarantee* is checked endpoint by endpoint: `Orders` says of every path that
nothing durable comes before a step that may refuse the request
(`RefusesBeforeWriting`), nothing that concerns credentials before a step that may fail
(`FailsBeforeSecrets`), a password is validated before it is stored, a commit comes once,
everything promised is on the path, and a step refuses only with what the endpoint's
writer knows. `KnownStatus` and `ValidationDecides` do the same for the statuses and
the checks of the input; `FirstDecides` says what a sequence of checks returns. *The
inductive invariant* `IInv` says where a request is: at position n of its path, having
done what is essential before n and nothing else, durable unless a commit is still to
come; refused, with at most the failed attempt written; or broken by a fault. Each action
keeps it by a lemma of its own, and each property is what it says of an answered request.

`EmailsProofs` proves all invariants of `Emails` for every set of inputs and all limits, from
`EmailsAssumption` (the limit on bytes is at most the column's on characters). The lemmas
speak of texts position by position. `Shape` says where the @ and the dots of an address
are: `AddressHasShape` and `ShapeIsAddress` equate it with what the parser accepts,
`ShapeUpToCase` says that it does not depend on case, and `NormalizeFacts` says what
`Normalize` does to each letter. The inductive invariant `IInv` says that every email
written down is `Stored` (of such a shape, short enough, its domain in lower case), that
accounts have ids and, up to case, emails of their own, and that a pending change is some
account's. `StoredFacts`, `SpellingIsValid` and `SameStoredEmail` draw the properties from it.
`TrimSpace` needs the first and the last place that is not a blank, which exist because
the natural numbers are well-founded (`Bounds`).

Not proved, only model-checked: `LockoutEnds`, `LimitEnds` and `RedemptionsEnd`, since
liveness under fairness is outside what the prover does, and `ActiveSessionLimit`, which is about
one request at a time; for any number, `SessionExcessBound` is proved instead.

## 5. Not modelled

- SMTP: a mail is sent, or not, or sent with an error. The wiring of `main.go` and
  `NewService` (environment, pool, the slash added to the URLs) has no state to check.
- Generated scanning code and the driver; `IsForeignKeyViolation`, since users are never
  deleted.
- Routing by `net/http` (404, 405), the texts of answers, the flags of the cookie.
- Argon2 and SHA-256 beyond what is abstracted above; the list of common passwords.
- The tests' doubles.
- A rotated id whose response is lost: the browser is logged out, and the code has no
  remedy that a property could state. `CookieIsCurrent` is checked without lost answers.
- Outstanding tokens after a password or email change stay valid: no code revokes them, and no
  property forbids it. They end with their duration (`DeadTokensStayDead`), and `MailBound`
  limits how many are mailed.
- A user or a session that is deactivated while a request is under way: the request is served.
  `AdmissionFollowsLogin` speaks of the moment of the look-up.
- A sign-up whose session cannot be created is a 500 that leaves the account.
  `ServerErrorsKeepCredentials` is about credentials and tokens that were there before.

## 6. Plan

1. `RedeemToken` of `AuthSystem` in the terms of `ResetLedger`.
2. Liveness of requests under weak fairness of their steps.
