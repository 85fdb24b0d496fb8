# Formal model of the POC_HYDRA_AUTH authentication service

TLA+ specifications of the Go service under `src/backend`, the TLC
configurations that check them on small instances, and TLAPS proofs of what
matters most for every size. Paths below are relative to `src/backend` unless
they start with `.docs`.

## The system

A monolith with one domain module, `auth`: a generated HTTP server
(`auth/api/http/openapi.gen.go`) with middlewares (`common/http`) and handlers
(`handler.go`) calls one use case each (`auth/app/command`), which uses
repositories on PostgreSQL (`auth/adapters/db`), limiters on Redis
(`common/ratelimit`), an SMTP mailer and RS256 access tokens. `cmd/auth/main.go`
connects, migrates, serves, and closes everything in deferred calls. Every
request is a goroutine with a context that times out after ten seconds; requests
share nothing in memory but the connection pool, so what can go wrong between
them goes wrong in PostgreSQL, in Redis, or in the pool.

### Inventory

| Component | State | Operations | What is hard | What makes it correct |
|---|---|---|---|---|
| Sessions (`login.go`, `refresh_token.go`, `logout.go`, `refresh_tokens_repo.go`) | table `refresh_tokens`: owner, family, parent, used_at, revoked_at, reason | Login inserts the root of a family; Refresh marks a token used and inserts its successor, or revokes the token or its family; Logout revokes one token | concurrent refreshes of one token, refresh against revocation, retry of the rotation, order of the checks | a family is a linear chain with at most one unused token; revocation is final; reuse is detected and only reuse is |
| Account changes (`change_password.go`, `confirm_password_reset.go`, `disable_account.go`, `reactivate_account.go`) | `users` (status, password), `password_reset_tokens`, and the sessions | change or reset the password, disable, reactivate; the first three revoke all of the user's sessions in the same transaction | checks made before the transaction go stale; sessions inserted after the transaction's snapshot; two disablings of the last two super_admins | all sessions end; one reset token works once; a working super_admin remains (CND-14) |
| Transactions (`common/db.go`) | none of its own | REPEATABLE READ, retried on `could not serialize access`, ten attempts | a retry starts over in a new snapshot; deadlocks (40P01) are not retried | every request ends; a retried transaction judges its new snapshot |
| Onboarding (`register_account.go`, `verify_email.go`, `resend_email_verification.go`, `request_password_reset.go`, `invite_admin.go`, `accept_invitation.go`) | `users`, `user_roles`, three tables of one-time tokens, mail | issue a token (invalidate the old ones, insert, mail, commit), consume one | mail inside a transaction, check-then-insert of an address, two issues at once, limiter failing open | at most one valid token per owner and kind; no token without mail; accounts come from tokens and are not taken over |
| Lockout (`common/ratelimit/lockout.go` under `login.go`) | two Redis keys per address with TTLs | Check, RecordFailure, Reset | Check and RecordFailure are apart; keys may lose their TTL; the lock is set only at `count == threshold` | ten failures lock, nothing but time unlocks, every lock ends |
| Window limiters (`fixedwindow.go`, `countingwindow.go`, `failmode.go`) | one Redis key per address or client | Allow | TTL-less keys, denials that must not extend the window, fail-open | N requests per window; denials do not extend it |
| Access gate (`common/http/jwtauth.go`, `roleauth.go`, `Register` in `handler.go`) | none (claims in the token) | verify, require roles | claims older than the account's state; the route table decides who is checked | every secured operation is checked; a disabled account is let in for a bounded time only |
| HTTP layer (`client.gen.go`, `openapi.gen.go`, `handler.go`, `problem.go`, `echo.go`, `requestlog.go`) | none | 13 operations: bind, call the command, map its outcome, log | order of the checks, of the middlewares and of the mappings; failures inside a transaction; panics | a refusal refuses, answers do not enumerate accounts, the log agrees with the answer and shows no secret under its key, the client can read what it gets |
| Process (`cmd/auth/main.go`, `svc.go`, `common/migrations.go`, the pool in `common/db.go`) | phase of main, `schema_migrations`, pool, row locks | start, migrate, serve, signal, shut down, crash, restart | crash in a migration, lock order, a mail server that never answers while a connection is held, exit while requests run | only a whole schema is served; account changes do not deadlock; requests and the process end; no transaction is cut off by an exit |
| Logging, `cmd/app`, health check, registries | none | format a line; answer a constant | nothing | |

Not in the code although the documents name them: forced revocation (UC-013),
account deletion (UC-016; `deleted_at` is read by every query and written by
none) and role changes (UC-017).

## Modules

    AuthDb ---- SessionHandlers ---\
        \------ AccountHandlers ----+-- AuthService -- MCAuthService                        (TLC)
                 SessionLineage ....../         \-- AuthServiceTyping -- AuthServiceProofs
                                                                \-- SessionLineageProofs   (TLAPS)
    TokenLife .... Onboarding -- MCOnboarding                                               (TLC)
                        \-- OnboardingProofs                                               (TLAPS)
    Lockout -- LockoutProofs             WindowLimiters -- WindowLimitersProofs      (TLC; TLAPS)
    HttpContract -- HttpService -- MCHttpService                                            (TLC)
                        \-- HttpServiceProofs                                              (TLAPS)
    Server -- MCServer                                                                      (TLC)
        \-- ServerProofs                                                                   (TLAPS)

Dotted lines are refinements: `SessionLineage` and `TokenLife` are abstract
specifications, instantiated in the module that implements them. The three
detailed layers share no variables and meet at the tables: `AuthService` and
`Onboarding` say what the statements of a command do to rows, `Server` in which
order they lock them and what happens to the connection, `HttpService` how a
client gets to the command and what it learns of the outcome.

**AuthDb**: the tables `users`, `tokens` (refresh_tokens; a function whose
domain are the existing ids), `resets`, the set `expired`, the local state
`req[p]` of each request goroutine, and the transaction protocol. `pc` names the
next database call of a handler, so the calls of different requests interleave
freely. An autocommit statement on one row is one step. A REPEATABLE READ
transaction is two: `BeginTx` takes the snapshot, evaluates the transaction's
conditions and remembers in `rows` every row its statements update or lock; the
commit step applies everything, unless a commit in between updated a row of
`rows`, which `Committed` notes in the `conflict` flag. Then
`SerializationFailure` starts over from a new snapshot, `MaxTries` attempts in
all. A row inserted after the snapshot is in no `rows`: the transaction neither
sees it nor conflicts with it. That is what PostgreSQL does, and most of the
findings below come from it. A transaction takes its rows at once here; the
order of the locks is Server's. `Abort` is a database error, the request timeout
or the death of the process between two calls. `opened` is history: the password
a session was opened with.

**SessionHandlers**: Login (`LoginCheck`, `LoginSave`), Refresh (`RefreshLookup`,
`RefreshUser`, `RotateBegin`, `RotateCommit`, `RotateRetry`, `RevokeOne`,
`FamilyBegin`, `FamilyUpdate`) and Logout (`LogoutLookup`, `RevokeOne`). The
family revocation is one UPDATE under READ COMMITTED, yet two steps here: it
updates the rows its statement snapshot saw, and may wait for a row lock while a
successor is inserted.

**AccountHandlers**: ChangePassword, ConfirmPasswordReset and DisableAccount
(each a check outside and two steps of transaction) and ReactivateAccount (a
check and one guarded UPDATE).

**AuthService**: composes the handlers, states the properties, and instantiates
**SessionLineage**: a family of refresh tokens as one current token, a set of spent
ones and a set of revoked ones, that is opened, renewed and revoked. The mapping
reads the table: the owners of a family's tokens, its unused tokens, its used ones.
Renewal is allowed of a revoked current token, because the code allows it (see
`reuse_race`).

**Lockout**: the count and the lock key of one address. A login is `Check`, then
one of `RecordFailure`, `Reset`, `Leave`; or, if `Check` found a lock without a TTL,
`Heal` or `HealFails`, a second command of Redis that others may come before
(`healing`). `Tick` is time, `StripTTL` the operational mistake that is healed.

**Onboarding**: the four operations that issue a one-time token and the three
that consume one. Because the mail goes out inside the transaction, this module
has a finer transaction than AuthDb: `BeginTx` (snapshot), `Lock` (waits for the
holders of its rows and of its entry in `users_email_unique`; then
`EmailTaken` or `Retry` if it lost), `Send`, `Commit`. The seven calls have
their names from the code (`RegisterAccount` ... `AcceptInvitation`) and differ in
what makes them eligible (`*Eligible`), in the rows their statements update
(`*Rows`) and in what their commit does to the account (`Registered`, `Verified`,
`Accepted`). `Allow` is the fixed-window limiter with its fail-open mode.
`bypassed` and `exposed` are history.

**TokenLife** is what Onboarding promises of its one-time tokens: unknown, mailed,
valid, spent, in this order and once, and accounts that are entered only when one
is spent. `Life` in Onboarding maps the tables and the mail server to it.

**WindowLimiters**: one key of the fixed-window and one of the counting-window
limiter, with their TTLs (keys are independent). A call is one action, because
the Lua scripts are atomic; `Tick` is time, which also shortens what clients were
told to wait (`told`); `StripTTL` is the operator's mistake. A Redis failure
admits the request and, if the script did not run, changes nothing, so it is no
action here. `lastFixed` and `recent` are history; an admission in `recent` is which one of
its window it was, and its age.

**HttpContract** is data: the generated client's calls (`ClientCalls`) and the
statuses it can parse (`Parsed`), the generated server's routes, secured
operations and declared answers (`ServerRoutes`, `Secured`, `Declared`), the
middlewares of `Register` (`Middlewares`), the checks of each command in the code's
order (`Checks`, of which `Outcome` takes the first that fails), and the problem each
handler makes of an outcome (`Problems`, `Rounding`).

**HttpService** runs requests through those tables: `Send`, `Gate` (JWTAuth and
RequireRoles), `Bind`, `Handle` (the checks, before any effect), `Mail`, `Save` (the
transaction, which may also fail after its commit), `Receive`. `Answer` is the
chain handler, ContextTimeout, ProblemErrorHandler. Two log lines repeat what a
client sent: `LogLine`, the request log between the two, with the bodies redacted by
key (`fields` is what it shows under a key, `bare` the strings of arrays), and
`Warnings`, the fixed-window limiter's about a key without a TTL (`warned`). A body
has a shape (`Shapes`): the client's own, its fields under another key, its values in
an array, XML or JSON with something behind it, form data or none, another media
type, or nothing that can be decoded. Some of them bind with every field empty
(`Unbound`), which fails the checks in `Unfilled`.
State across requests is the clock, who is disabled since when, and the latest
expiry of each user's access tokens. Failures are free: any call may fail,
panic, or miss the deadline.

**Server** is the process. `phase` follows main: `Connect`, `Migrate` and `Apply`
(one migration; the dirty flag is set before and cleared after), `Serve`, `Shutdown`,
`CloseRedis`, `ClosePool` (waits for connections), `Exit`; `Kill` is a crash at any
point, `Start` the restart. A request runs the statements of its command
(`Program`), each of which locks rows in the order PostgreSQL reaches them:
`LockRow`, `Wait`, `Retry` (40001), `Victim` (40P01, not retried), `Refuse`, `Commit`,
`TimeOut`, and for commands that mail `Send` and `MailAnswered`. A connection is
taken at `BeginTx` and given back at the end. `waits` holds the row a request waits
for. A transaction has its snapshot once its first statement came to a row; one whose
first statement is about to (`AtFirstStatement`) may have taken it or not when another
commits. `Deadlocked` are the requests on a cycle of waits: `Reaches(r, s)` is the
transitive closure of waiting, as the smallest set that is closed under it.

Names ending in a suffix such as `RotateBegin_Unconditional` are mutated forms of
the definition that follows them: plausible bugs which the named property must
notice. They are in no behaviour of the specifications.

## Runs

| Run | Asks | Bounds |
|---|---|---|
| `rotation` | Do refreshes, logins and logouts of one session in any interleaving keep the chain linear, with one unused token and no false reuse alarm, and are they a `SessionLineage`? | 3 requests, 3 tokens, 1 family, 2 attempts |
| `accounts` | Do password changes and resets, with logins, refreshes and a deletion around them, use each reset token once and only age the session tokens? | 2 users, 2 requests, 2 tokens, 2 passwords, 1 reset token |
| `superadmin` | Does a working super_admin remain, and does every request end? | 2 super_admins, 3 requests, 2 attempts |
| `lockout` | Does the threshold lock, how far can it be overshot, does only time unlock, does every lock end? | 4 logins, threshold 3, windows of 3 and 4 ticks, 1 lost TTL |
| `onboarding` | One valid token, none without mail, accounts only from tokens, no takeover, no enumeration but the known one, and is it a `TokenLife`? | 1 address, 3 requests, 2 tokens, 2 roles |
| `windows` | Are admissions a window apart, bursts bounded, Retry-After honest, and does a counting key without a TTL heal? | window of 5 ticks, limit 3, 2 ticks a second, one lost TTL per key |
| `http` | For all 13 operations and every failure: does a refusal refuse, does the log agree with the answer and hide secrets, can the client read it, does it enumerate nobody, how long is a disabled account let in? | 2 connections, 2 users, clock to 3, TTL 2, timeout 1, at most 2 failing checks |
| `server` | Crashes, signals, migrations, locks, pool and mail together: is only a whole schema served, do account changes never deadlock, is no transaction cut off, do requests and the process end? | 3 requests, 2 connections, 2 super_admins, 2 refresh tokens, 2 tries, 2 migrations |
| `reuse_race`, `password_race`, `lockout_prolonged`, `shutdown` | Statements of the documents and comments that the code does not keep; see below | as above, 2 or 3 requests |

Why the bounds are enough for the question: a rotation race needs two rotations
of one token and a third request to present the loser's token or to revoke;
three tokens are a root, its successor and the successor's successor. The
super_admin race needs two disablings, and the third request disturbs a retry.
Two attempts make a retry and its exhaustion both happen. In `lockout`, four
logins are more than the threshold, so the overshoot occurs; the window is
shorter than the lock so that a lock outlives its count (the code has both at 15
minutes, which `LockoutAssumption` generalises to Window <= LockTTL). Two tokens
in `onboarding` are a registration's and a reset's, two confirmations, or two
invitations with different roles. In `windows` the window is no whole number of
seconds and the limit is met within it, so rounding and a burst over the border of
two windows both occur.

In `http` a request is not changed by another except through the status of an
account and the tokens issued to it, so one connection takes every call in every
shape and the other logs in, disables and reactivates; the clock runs longer than
a login that began before a disabling needs to save a token after it and have it
admitted at the last moment. Two failing checks give every pair of an order to get
wrong. The passwords lie on both sides of 15 and 64 runes and of 72 bytes. In
`server` the two connections run out with a third request waiting or at the mail
server; a cycle of locks needs two requests and two rows, and a third request
makes one of them lose its row. With two migrations a crash can fall before,
between, in and after them. The proofs remove the bounds for all that they cover.

`MCAuthService` and `MCOnboarding` tell TLC that their identifier sets are
symmetric; the runs with liveness (`superadmin`, `lockout`, `windows`, `server`) and
`http`, whose users and connections differ, use no symmetry.

### Fairness

`FairSpec` of AuthService: each request takes its next call or is aborted
(WF of `Step(p) \/ Abort(p)`): goroutines are scheduled, and the context timeout
ends what waits. Nothing obliges a client to call. `RequestsEnd` then says that
the retry loop is finite; with an unbounded retry it fails, because disablings and
reactivations may disturb one transaction for ever. `FairSpec` of Lockout: time passes,
checked requests end, and somebody goes on logging in: only a login's `Check` heals a
lock without a TTL, so a lock nobody asks about stays. The healing is strongly fair:
Redis may fail one attempt (`HealFails`), and the next login tries again, but it does
not fail every one of them. `FairSpec` of
WindowLimiters asks the same of time and of the callers of the counting key, and
for the same reason.

`FairSpec` of Server: weak fairness of main (`Main`) and of the steps of each request
(`Step(r)`, which includes the deadline: `TimeOut` ends whatever waits for a
connection, a lock or the database). Nobody has to start, signal or kill the process,
and the mail server need not answer: `smtp.SendMail` takes no context, so a request
in it waits outside every deadline. `RequestsEnd` and `SignalEndsProcess` therefore
except exactly that request. HttpService has no liveness: its answers are one
request's business and Server's is that they come.

### What the code does not keep

By a run:

- `reuse_race` (NFR-14, "all records of the family"): the loser of a refresh race
  revokes the family while a rotation in it is in flight. `MarkRefreshTokenUsed`
  looks at `used_at` only, so the rotation succeeds and its successor is live.
- `password_race` (FR-10): Login compares the password, then inserts the token; a
  change in between revokes what its snapshot sees, and a session opened with the
  old password lives on.
- `lockout_prolonged` (comment at `common/ratelimit/lockout.go:75`): the lock is
  set again with a full TTL when an in-flight success deletes the count of a
  locked address and in-flight failures reach the threshold anew.
- `shutdown` (`svc.go:46`, "graceful"): `e.Start` returns as soon as `Shutdown` has
  closed the listener, so main's deferred calls run while requests are still served,
  and the process may exit before the answers to requests that were accepted until
  then (in the counterexample one between the signal and `Shutdown`).
  `ExitCutsNoTransaction` says what
  is kept: the deferred `pool.Close` waits for connections, so no transaction is cut.

Bounded by a property rather than refuted by a run:

- A login or refresh that read the status before a disabling leaves a live session
  and an access token (FR-15, `login.go:151`); `AdmissionBound` says how long the
  latter is good for: one request timeout and one token lifetime.
- Two issues that find nothing to invalidate do not conflict, and with the limiter
  failing open both insert (CND-18, `password_reset_tokens_repo.go:36`).
  `AtMostOneActive` holds unless a limiter was bypassed.
- The loser of a race for an address against AcceptInvitation gets a unique
  violation that `CreateUser` does not map: 500 where FR-01 wants 201
  (`register_account.go:117`). `RegistrationExposesOnlyInvited` says that this is
  the only such case.
- `problem.go` wants the logged status to be the sent one by construction. Not so
  for a bare deadline error, which ContextTimeout turns into 503 outside the request
  log (logged as 500), and for a panic, which Recover catches outside it (no line):
  `LogTellsAnswer` has these two exceptions and no third.
- NFR-09 wants no personal data in any log. The limiter's warning about a key without
  a TTL prints the key, which ends in the address (`common/ratelimit/fixedwindow.go:54`,
  `PassthroughHasher`), and `redactValues` leaves the bare strings of an array as they
  are (`common/http/requestlog.go:96`). `LogHidesSecrets` says that the rest of the
  request line is clean, and that the two exceptions belong to requests without an
  effect: the limiter refused, and an array binds as empty or not at all.
- While the mail server refuses mail, an address that would get one is answered 503
  and any other 200 or 201. UC-002 E3, UC-004 E2 and UC-008 E3 prescribe the 503, so
  `AnswersRevealNothing` is about the answers that the checks decide and leaves refused
  mail and failing stores out.
- A rotation or a family revocation can deadlock with an account change. 40P01 is
  not retried, so the victim's request fails with 500. `AccountChangesNeverDeadlock`
  says that no cycle of waits is without one of the two.

## Proofs

`AuthServiceTyping` and `AuthServiceProofs` prove for every value of the
constants (any number of users, tokens, requests and attempts), from
`RolesAssumption`, `NilAssumption` and `MaxTriesAssumption`:

| Theorem | Statement |
|---|---|
| `TypeCorrect` | `Spec => []TypeOK` |
| `RotationAlwaysLinear` | `Spec => []RotationIsLinear` |
| `AtMostOneUnused` | `Spec => []OneUnusedPerFamily` |
| `NeverFalseReuseAlarm` | `Spec => []NoFalseReuseAlarm` |
| `SuperAdminAlwaysRemains` | `Spec => []SuperAdminRemains` |
| `Decays` | `Spec => TokensOnlyDecay` |
| `ResetsConsumeTokens` | `Spec => ResetConsumesToken` |

The argument. `Typed` strengthens `TypeOK` by what a request at a control point
holds: a token that exists, an owner, attempts left. None of the safety properties is
inductive with it alone: a transaction that commits acts on conditions it
evaluated earlier. The key is `Snapshot`: as long as an open transaction has no
conflict, what its snapshot found still holds (the token it rotates is unused,
the reset token it consumes is unused, the super_admins it locked still work and
there are two), because whoever changes one of these facts writes a row in
`rows` and sets the flag. With it, `Chain` (linear families) survives
`RotateCommit`, the only step that extends a chain; `SuperAdminRemains` survives
`DisableCommit`, the only step that disables; and a committing confirmation has its
token unused. `Alarm` says that a request on its way to revoke a family has seen a
token used or revoked, which `TokensOnlyDecay` keeps true. Each invariant has one
lemma for the initial states and one per group of actions, with the actions that
leave it alone dismissed by a frame lemma.

`WindowLimitersProofs` proves, from `WindowAssumption`, `LimitAssumption` and
`SecondAssumption`:

| Theorem | Statement |
|---|---|
| `RetryAfterAlwaysHonest` | `Spec => []RetryAfterHonest` |
| `AdmissionsAlwaysApart` | `Spec => AdmissionsApart` |
| `TypeCorrect` | `Spec => []TypeOK` |
| `BurstsAlwaysBounded` | `Spec => []BurstBounded` |

An honest answer is not inductive: were one outstanding when its key is gone, the
next window would break it. `Owes` adds that a key that is gone has none, and that
only an operator makes a key persistent; `KeyRemembers` says that the TTL counts
down from the last admission. `RoundedUp` is the arithmetic of whole seconds.

`BurstBounded` counts over any span, not over one window, so `Recorded` has to say
where the admissions younger than a window come from. If the key exists, there is an
age f of the first admission of its window (`WindowSince`): those of age f or less are
of this window, at most `counter.value` of them, no two the same one; the older ones are of
the window before, and the first of that one is not among them, because its window
was over, that is a whole window old, when this one began. If the key is gone, those
left are of one window, again without its first. `NumberedApart` turns the
numbering into a cardinality: at most the limit of this window, and at most one
less of the window before. A lost TTL only lengthens a window. `AdmissionIsNew`, from the
same invariant, is why a set counts each admission once.

`SessionLineageProofs`, on top of the same invariant: `ImplementsLineage`, `Spec =>
SessionsAreLineages`. Each step of the handlers maps to an opening, a renewal or a
revocation, or changes none of the mapped sets. The chain invariant is what makes
`current` a singleton at a rotation, and `Snapshot` what makes that one the token
being rotated.

`LockoutProofs`, from `LockoutAssumption` and `RequestsAssumption`, for every threshold, window, lock and
number of logins:

| Theorem | Statement |
|---|---|
| `TypeCorrect` | `Spec => []TypeOK` |
| `ThresholdAlwaysLocks` | `Spec => []ThresholdLocks` |
| `OvershootAlwaysBounded` | `Spec => []OvershootBounded` |
| `OnlyTimeEverUnlocks` | `Spec => OnlyTimeUnlocks` |

`ThresholdLocks` needs to know that keys which never lost their TTL exist exactly as
long as they count (`KeysRun`). `OvershootBounded` is inductive on top of that: a
failure beyond the threshold costs one of the logins that were in flight when the
lock was set, and nobody joins them while it holds.

`OnboardingProofs`, from `RowsAssumption`, `RedisAssumption`, `RoleAssumption` and
`NilAssumption`, for any number of addresses, tokens and requests:

| Theorem | Statement |
|---|---|
| `TypeCorrect` | `Spec => []TypeOK` |
| `StoredAreMailed` | `Spec => []StoredTokensWereMailed` |
| `OneActiveAtMost` | `Spec => []AtMostOneActive` |
| `ExposesOnlyInvited` | `Spec => []RegistrationExposesOnlyInvited` |
| `EntersByToken` | `Spec => EnteredByToken` |
| `NeverTakenOver` | `Spec => AccountsAreNotTakenOver` |
| `ImplementsTokenLife` | `Spec => TokensLiveOnce` |

The invariant has a part for the control points (`ControlOK`), for the token a
request holds (`TokenOK`: fresh until stored, mailed before it is stored), for what
an unconflicted snapshot still promises (`SnapshotOK`), for the account a request
decided on (`AccountOK`) and for the limiter (`LimiterOK`: whoever was admitted by the
window, and is not done, has the window to itself). `ApartOK` follows from the
last: without a bypass, no two requests issue for one address and kind, which is
why two transactions that have nothing to conflict about still leave one valid
token (`RowsOK`). `ExposedOK` carries who caused a 500.

`ServerProofs`, from `CommandsAssumption`, `SizesAssumption` and
`RequestsAssumption` (finitely many requests), for any pool, commands, accounts and
migrations; `NeverDeadlock` also from `AdminsAssumption` (`user_uuid` is a key, so no
super_admin is listed twice) and `RowsAssumption` (a row is of one table, and a
token of one user):

| Theorem | Statement |
|---|---|
| `TypeCorrect` | `Spec => []TypeOK` |
| `ServesOnlyWholeSchema` | `Spec => []ServesWholeSchema` |
| `ExitNeverCuts` | `Spec => ExitCutsNoTransaction` |
| `NeverDeadlock` | `Spec => []AccountChangesNeverDeadlock` |

`Pooled` counts the connections out; `RequestsOK` adds that locks are held on a
connection only, so that the pool waiting for its connections is the same as waiting
for transactions. `Migrated` moves the claim about serving back to the listener.

The absence of deadlocks rests on a rank of the rows (`RankOf`): one-time rows, the
super_admins in the order of `LockActiveSuperAdmins`, the other users, the tokens.
`LocksInv` is the invariant: conflicting locks of one row are never held by two
requests (`Exclusive`), and each request holds the locks of exactly the rows it is
done with (`PositionOK`, `HeldOK`), has the last super_admins left when it takes them
in order (`SortedOK`), and never waits for a row it locked FOR UPDATE (`WaitsOK`).
`StatementOrder` reads from `Program` that an account change takes a one-time row or the
super_admins first, then the row of its user, then its tokens. Hence `RankRises` and
`WaitsRise`: of two account changes, one waiting for the other, the first waits for a
lower row than the second does. Tokens share a rank, but no account change waits for
another at one: each has the row of their user by then (`TokenAfterUser`). In a cycle
the rank would rise for ever; `LocksKeepOrder` says so with `Reaches` itself, by
a closed set that whoever is on the cycle is not in.

`HttpServiceProofs`, from `TimesAssumption`, `CallsAssumption` and
`IssuedAssumption`, for any connections, accounts, calls, lifetimes and timeouts:

| Theorem | Statement |
|---|---|
| `TypeCorrect` | `Spec => []TypeOK` |
| `RefusalsRefuse` | `Spec => []RefusalHadNoEffect` |
| `LogAlwaysTells` | `Spec => []LogTellsAnswer` |
| `LogAlwaysHidesSecrets` | `Spec => []LogHidesSecrets` |
| `AcceptedAlwaysHashes` | `Spec => []AcceptedPasswordHashes` |
| `AdmissionAlwaysBounded` | `Spec => AdmissionBound` |
| `NothingRevealed` | `Spec => []AnswersRevealNothing` |
| `ClientAlwaysUnderstands` | `Spec => []ClientUnderstands` |

First come lemmas about the tables of HttpContract (every secured operation has
JWTAuth in its chain, the status check is among those of Login and RefreshToken, no
problem is defined for an internal failure). `AdmissionBound` is not inductive: a token
may still be issued after the disabling. `PendingOK` adds that a login or refresh about
to save for a disabled account began before the disabling, and `TokensOK` that every
expiry is within a lifetime of now and, if the account is disabled, within a
timeout and a lifetime of the disabling; the deadline in `InTime` links the two.
`LogHidesSecrets` needs that a request past its checks filled its fields (`Bound`):
`UnfilledFails` reads from the tables that every operation with a body has a check an
empty field fails. `TypeCorrect` says of statuses that they are HTTP statuses between
200 and 503; which of them the contract declares is for `ClientUnderstands`.

For what the answers tell, `AnswerOK` adds that an answer is that of its result and that
the result is one its operation can have (`ResultsOf`: no mail fails where none is
sent, only an operation behind the gate is turned away by it). The rest is about the
tables: `FirstFails` and `OutcomeOf` say which of any set of failing checks decides;
`IneligibleUnseen`, that where "ineligible" is a check all others come before it;
`LoginUnseen`, that a missing account and a wrong password are neighbours with one
problem, and the status comes after both; `Understood`, that every result is
parsed, has no body, or is one of the excepted five. They hold for every set of
failing checks, not only for those of `MaxFaults`.

Every invariant, action property and refinement that a run checks is proved. Only
model-checked is liveness (`RequestsEnd` of both modules, `LockReleases`,
`CountingHeals`, `SignalEndsProcess`), which needs ENABLED and so is out of the
provers' reach, and of course the violations, whose counterexamples are TLC's.

## Not modelled

- Logging and its formatting (`common/echoadapter.go`, `log`, `truncate.go`): nothing
  reads it back. What a log line may contain, and which status it carries, is in
  HttpService.
- `cmd/app`, the health check, the contracts and the module registry: one constant
  answer and empty registries.
- The frontend and the tests. Tests were read for the behaviour they expect.
- `FailClosed`, and the SERIALIZABLE and READ COMMITTED variants of `updateInTx`:
  no caller.
- The length of the backoff between tries, and the syntax of addresses: a check
  that fails or not.
- The text of the other log lines: by reading, they carry user ids, reasons and
  errors, no field of a body.
- Several valid one-time tokens of one owner, which there are only after a limiter
  failed open (`AtMostOneActive`): an issue or consumption in Server locks the one row
  there is. Two issues could meet in several rows in different orders.
- Bcrypt, hashes, token bytes and JWT signatures are equality of identifiers.
- Expiry of one-time tokens only refuses a presentation and is left out of
  Onboarding; that of refresh tokens is `expired` in AuthDb.

Two hazards have no property. Of two password changes that both knew the old
password the later one wins (`change_password.go:96`): no document says which should.
A fixed-window key that lost its TTL refuses for ever: the comment above the script
accepts it, and WindowLimiters does the same.
