# A verification project for Cryden v2

Cryden is an embeddable authentication engine in Go: sign-up, login with
account lockout and rate limiting, access tokens, refresh-token sessions with
rotation and reuse detection, password and e-mail changes, account deletion
and an audit trail, over Postgres. An `Engine` has no goroutine of its own:
its concurrency is that of the callers (HTTP handlers) and of the processes
that share one database. This directory holds TLA+ models of its core, the TLC
configurations that check them, and TLAPS proofs.

Run from this directory: `tlc -config <file>.cfg <MC module>`, and
`tlapm <Module>_proofs.tla`.

## Inventory

| Part | Source | State | Operations | Hard because of |
|---|---|---|---|---|
| Session families | `token/refresh.go`, `session/`, `auth/logout.go`, `store/postgres/session_store.go` | table `sessions` | `RefreshToken` (`Rotate`, `RotateToken`, `RevokeFamily`), `Logout`, `LogoutAll`, `RevokeSession`, the `Create` of a login | refreshes of one token at once; refresh against logout and reuse; row locks and statement snapshots; rollback; lost answers |
| Login and lockout | `auth/login.go`, `store/postgres/user_store.go` | `users.failed_attempts`, `users.locked_until` | `Login` | the row is read once and used long after; increment, lock and reset are separate statements; time |
| Rate limiter | `security/ratelimiter.go` | a window counter per key | `Allow` | window boundaries, limits of zero and below |
| Sign-up and e-mail change | `auth/signup.go`, `auth/email.go`, `store/postgres/verification_store.go` | `users.email`, table `verification_tokens` | `SignUp`, `RequestEmailChange`, `ConfirmEmailChange` | check-then-act on addresses and tokens; failing mail; expiry |
| Account management | `auth/password.go`, `auth/account.go` | `users.password_hash`, the row itself | `ChangePassword`, `DeleteAccount` | several statements without a transaction; foreign keys |
| Audit trail | `store/postgres/audit_store.go` | table `audit_events` | `Record`, `ListByUser` | best effort: a failure is logged; `ON DELETE SET NULL` |
| Access tokens | `token/jwt.go` | none (the token carries it) | `Issue`, `Verify` | outlive the session |
| Engine and configuration | `engine.go`, `config.go` | fixed at construction | `New`, defaults, validation | zero and negative values |
| In-memory stores | `store/memory/` | maps under a mutex | as the Postgres stores | differ from Postgres in `RotateToken` |
| Helpers | `security/hasher.go`, `security/idgen.go`, `token/generator.go`, `logger/`, `notify/` | none | hash, generate, log, mail | cryptography and I/O |

The facade `cryden.go` calls one function per operation. Components meet only
through the tables: a login reads `users` and inserts into `sessions`; a
rotation locks a row that a logout or a reuse response wants; a confirmation
writes the address a sign-up is about to take. There are no callbacks, queues
or timers. The hazards this creates are listed, each at its line and with the
properties that cover it, under `hazards` in `PROJECT.json`.

What makes each part correct: a family of sessions has at most one redeemable
token, a spent token never becomes redeemable again and a closed family stays
closed; a revocation that is reported has happened; nobody waits for ever. No
attempt that begins under a lock is compared, the guesses before a lock are
bounded, the lock ends. The limiter admits at most two limits' worth of calls
in any window's length, refuses only when the limit is used up, and recovers.
Addresses are unique and proved, and a deleted account does not come back
through a confirmation in flight; tokens are spent once. A changed password
ends the sessions of the old one, a deleted account leaves nothing behind and
its user loses access for good. An engine that was built lacks nothing it will
use, and an access token lives as long as its TTL says.

## Modules

### SessionFamilies and RefreshSessions

`SessionFamilies` is the promise to the holder of a refresh token, without
locks or calls in flight: `current[f]` is the only redeemable token of family
`f`, and a family is opened, rotated in one step, or closed for good
(`Open`, `Rotate`, `Kill`).

`RefreshSessions` is the session layer over Postgres. The table is `live`,
`revoked`, `family` and `owner`; a refresh token is identified with the id of
the row that holds its hash. A call in flight has a program counter `pc`, what
it read (`arg`), the id it generated (`fresh`), the rows its revoking
statement is responsible for (`seen`), the row locks of its open transaction
(`held`), its answer and its audit event.

| Action | Code |
|---|---|
| `LoginCreate` | `auth.Login` from `ids.New` to `sessions.Create` |
| `RefreshInvalid`, `RefreshLookupLive`, `RefreshLookupReused` | `token.Rotate`: the lookup and its three outcomes |
| `RotateUpdate`, `RotateRefused`, `RotateCommit` | `SessionStore.RotateToken`: the UPDATE under the row's lock, no row affected, INSERT and COMMIT |
| `RevokeFamily`, `LogoutAll`, then `LockRow`, `RevokeCommit` | the bulk UPDATEs: snapshot, locks in any order with the WHERE clause tested again, commit |
| `LogoutLookup`, `LogoutRefused`, `RevokeOne`, `RevokeOneRefused` | `auth.Logout` and `session.Revoke` |
| `Record`, `Return` | the audit event (or its logged failure) and the answer, which delivers the token |
| `Fail` | an error, a cancelled context or a crash after any statement: the transaction is rolled back, committed rows stay, the answer may be lost |
| `DeadlockVictim` | Postgres aborts a statement of a deadlock |

Assumed of Postgres (marked external in the map): the default isolation level
READ COMMITTED, row locks held to the end of the transaction, a WHERE clause
evaluated again on the row a statement waited for, and deadlock detection.
Assumed of the generators: ids and tokens are never repeated, and a client can
present only tokens that were handed out (`issued`); other strings are
`RefreshInvalid`.

### Lockout

One account, any number of attempts. The row is `failed` and `lockLeft`;
instants are kept as time left, and `failed_attempts`, which the code only
compares with the threshold, is kept up to it. An attempt is `RateLimited`,
finds `NoSuchUser`, or reads the row (`Lookup`, `LookupLocked`); then
`CompareWrong`, `Increment`, `Deadline` (`time.Now().Add`), `LockAccount`, or
`CompareRight`, `Reset`, `OpenSession`. `StoreFails`, `ResetFails` and `Crash`
are the failures; `Tick` is time, which may pass between any two steps.
`stale`, `exposed` and `lost` are history variables that only the properties
read: attempts that read the row before the last lock, wrong guesses compared
since the last lock or reset, and how many of these belong to an attempt that
failed before it was counted, or before it could lock. `MaxLost` bounds the
last. `Threshold` and `Duration` are positive, as the defaults make them unless
the caller configures negative values.

### RateLimiter

`Allow` runs under a mutex and is one step with three outcomes (`OpenWindow`,
`CountCall`, `Deny`). `left[k]` is the time until `windowEnd`; a window has
ended only strictly after it (`now.After`). `within[k][a]` is history: how
many calls were allowed at most `a` ticks ago. It is cumulative so that time
only shifts it, and a bound on a stretch of time is a bound on one entry.

### AddressBook and EmailChange

`AddressBook` is what sign-up, e-mail change and deletion promise together,
without tokens or calls in flight: an account takes a free address when it is
opened (`Register`), moves to another only after a mail for this account has
reached it (`Prove`, `Move`), and gives it up for good (`Leave`).

`EmailChange` is the code: users' addresses and the verification tokens. `SignUp...`, `Request...` and
`Confirm...` actions are the statements of the three functions, with the
unique index on `users.email` deciding `SignUpConflict` and `ConfirmConflict`,
and the foreign key `RequestNoUser`. `RequestSendFails` may or may not have
delivered the mail. `Expire` may happen to a token at any time after its
creation, which is weaker than one hour. `Delete` is the last statement of
`DeleteAccount`: the cascade takes the user's tokens (`Rows`), the address is
free again, and a confirmation that had read its token finds no row to update
(`ConfirmGone`). A deleted user's id is not used again; `signedUp` remembers
which ids have been.

### Accounts

One account from the outside: logins, refreshes, logouts, password changes and
deletions in flight together, over the three tables and their foreign keys.
Sessions are taken as `SessionFamilies` has them: a family is `open` or
`closed`. The one thing of `RefreshSessions` that matters here is kept, the
snapshot of a bulk UPDATE: `seen[r]`, from which a family drops out when a
rotation replaces its row.

| Action | Code |
|---|---|
| `LoginAccepted`, `LoginCreate`, `LoginCreateRefused` | `auth.Login`: the row read and compared, `sessions.Create` with or without its user |
| `LoginWrong` | `auth.Login` with a wrong password: the event `login_failed` |
| `Rotate`, `Issue` | `RefreshToken` up to the commit of `RotateToken`, and the access token of a login or refresh |
| `Confirmed` | `GetByID`, `Compare` (and `Hash`) of `ChangePassword` and `DeleteAccount` |
| `UpdatePassword`, `UpdateRefused` | `users.UpdatePasswordHash`, no row affected |
| `RevokeAllForUser`, `RevokeCommit`, `RevokeFails` | the bulk UPDATE: its snapshot, its end, its failure, which `ChangePassword` and `DeleteAccount` only log |
| `Record` | `audit.Record`, with the foreign key and the logged failure |
| `Delete`, `DeleteRefused` | `users.Delete` with CASCADE and SET NULL, no row affected |
| `Kill`, `LogoutAll` | a logout or reuse response has closed a family and records it; `auth.LogoutAll`, which goes on with the bulk UPDATE |
| `Fail` | an error, a cancelled context or a crash between two statements |

`access` is the time left of the youngest access token; `VerifyToken` looks at
nothing else. `stale`, `old`, `raced`, `unrevoked` and `botched` are history:
which logins compared a password that was replaced since, which open families
such a login or an earlier one opened, which of these slipped past the last
password change, and for which its revocation failed. The next
`UpdatePassword` empties `raced` and `unrevoked`: it owes the revocation of
those families anew.

### Engine

A `Config` is its secret, the set of parts it injects and its tuning knobs.
`New` is `validate`, `applyDefaults` and the three constructors, each an
operator of its own name; the result keeps the Config it was `given`. `Call`
is any function of the facade, with the parts it hands to its handler
(`Uses`) and the guards of the e-mail change (`NotConfigured`). `Issue` and
`Verify` are those of `JWTIssuer`, for one token: `NumericDate` cuts the
expiry to whole seconds, `Second` ticks each. `Stop` ends the process, so that
a token meets engines with another secret and TTL. A `Config` that `New`
refuses, and which of the errors it returns, leave no trace.

### MemorySessions

The session handlers over `store/memory`. Every store call is atomic under
the store's mutex, and a handler makes up to three: `pc` is the next one,
`held` the row it read. `RotateToken` revokes the row it is given whatever its
state, `Create` asks for no user, `Delete` removes the user and nothing else,
exactly as the maps do. `overlap` records that two calls have been in flight
together, `entitled` the refreshes that read a live token.

The `MC...` modules add only symmetry sets, the choice of ids in
`sessions_safety`, the set of limits and the set of configurations.

## Runs

| Run | Instance | Result |
|---|---|---|
| `sessions_safety` | 1 user, 3 sessions, 2 calls, fair | passes, about 290 000 states, 2 min |
| `sessions_reuse` | 1 user, 4 sessions, 2 calls | violates `ReuseKillsFamily` |
| `lockout_safety` | 3 attempts, threshold 2, duration 2, 2 failures | passes, about 345 000 states |
| `lockout_race` | 2 attempts, threshold 2, duration 2, 1 failure | violates `LockHoldsForDuration` |
| `rate_limiter` | 2 keys, limits -1, 0, 1, 3, window 2 | passes, about 7 300 states |
| `email_safety` | 2 users, 3 addresses, 2 tokens, 2 calls, symmetry | passes, about 794 000 states, 2 min |
| `email_single_use` | 1 user, 2 addresses, 1 token, 2 calls | violates `TokenSingleUse` |
| `accounts_safety` | 2 families, 2 calls, TTL 2, fair | passes, about 370 000 states |
| `accounts_change` | 1 family, 2 calls | violates `OldSessionsDie` |
| `accounts_trail` | 1 family, 2 calls | violates `DeletionAttributable` |
| `engine` | 22 configurations, 3 ticks a second, 3 seconds | passes, about 30 000 states |
| `memory_sessions` | 4 sessions, 3 calls, symmetry | passes, about 25 000 states |

Every run checks for deadlock of the model: an idle call can always begin (of
a deleted account, `LogoutAll`).

`sessions_safety` checks `AtMostOneLive`, `RevocationEffective`,
`ReuseNeverDeadlocks`, the action property `DeadFamilyStaysDead`, the
refinement `ImplementsSessionFamilies`, and that every call returns
(`EveryCallReturns`). Three sessions are a login, a rotation and its
successor's rotation, or two rotations of one token, or two families; two calls
are a rotation and a revocation that waits for it, and two that lock two rows
in opposite order, the smallest deadlock. Where several ids are unused, a call
generates a fixed one of them (`FixedIds` in the MC module): an unused id
appears nowhere in the state, so any other choice gives the same behaviour with
ids renamed, and no property and no fairness condition names an id. The bounds
are instances only: all but the liveness property are proved for every bound.

`lockout_safety` has three attempts so that one can lock, one be stale and one
arrive afterwards, and a threshold of 2 so that there is a state below it. Two
failures are one that loses the count and one that loses the lock; each lets
one more guess through and no more (`GuessesBounded`, `GuessesAccounted`).
`rate_limiter` has a limit below the first call, at it and above it; a window
of 2 ticks has an inside and two ends. `email_safety` has an address for each
user and a free one, two tokens competing for one address, and two calls to
race, with a deletion between any two of their steps. Besides uniqueness,
proof of address and the inertness of spent tokens it checks the refinement
`ImplementsAddressBook`.

`accounts_safety` has a family that is old and one opened after the change, and
a password change or deletion against any other call, itself included. It
shows that nothing of a deleted account survives or comes back
(`GoneMeansGone`), that only three things let a session outlive its password,
and only until the next change (`OldSessionsCovered`: its login had compared
the old password and created it after the snapshot of the revoking statement,
it was rotated while that statement ran, or the revocation failed), that the trail
says deleted of an existing account only for the length of one statement or
after a failure (`DeletionEventHonest`), and that a deleted user is locked out
for good once the last access token has run out (`DeletedUserLosesAccess`).

`engine` has TTLs below, at and beside whole seconds, every set of optional
parts, each required thing missing once, knobs on both sides of their bounds,
all below zero at once, and two secrets. `EngineWellFormed` also states what
`Lockout` and `RateLimiter` assume of their constants, and under which
condition: no negative value was configured. A negative window makes every
call open a new window and a negative duration locks into the past, so either
switches its protection off; the code accepts both.

`memory_sessions` has two families with a rotation each, or one with three,
and a third call to overtake two that race. `SequentialImplements` is the
promise of `SessionFamilies` for steps before any overlap: what a sequential
test over the in-memory stores shows of rotation, reuse and logout holds over
Postgres. `ReopenedOnlyByRace` and `DeletedUserHasNoSession` bound what
happens otherwise.

### What the five violations show

* `sessions_reuse`: the reuse response starts its bulk UPDATE while a rotation
  of the family holds the live row. It waits, finds the row revoked, skips it,
  and never sees the successor, which was not in its snapshot. The caller is
  answered `ErrTokenReused`, "the entire session family has already been
  revoked by the time this is returned", and the successor is live.
* `lockout_race`: an attempt with the right password reads the row; another
  attempt locks the account; the first one's `ResetFailedAttempts` sets
  `locked_until` to NULL. The lock does not hold "for lockoutDuration". What
  stands is `OnlyStaleEndsLock`: nobody who comes after the lock ends it.
* `email_single_use`: two confirmations read the token before either marks it
  used; both change the address, of a token that is "single-use".
* `accounts_change`: a login compares the old password; `ChangePassword`
  replaces it and takes the snapshot of its revoking UPDATE; the login creates
  its session, which the statement does not see. It succeeds, and yet not "ALL
  sessions are revoked": the session of the old password stays open. A rotation
  that commits while the statement runs does the same. What stands is
  `OldSessionsCovered`: only these races or a failure let a session through,
  and the next change revokes it.
* `accounts_trail`: `DeleteAccount` records its event "BEFORE delete", because
  it "would lose its user_id attribution if recorded after"; the deletion sets
  the `user_id` of the recorded event to NULL all the same.

### Fairness

`EveryCallReturns` assumes strong fairness of the steps of each call in flight
(`Advance`): goroutines are scheduled, statements terminate, waiters for a row
lock are queued, and the deadlock detector runs. It is strong because a free
row can be locked again before the waiter gets it; Postgres' queue rules out
that this goes on for ever. Nothing is assumed of new calls or failures.
`LockRunsOut` and `RefusedKeyRecovers` assume only that time passes
(weak fairness of `Tick`): callers that keep calling are the hard case.
`DeletedUserLosesAccess` assumes that too, and weak fairness of the steps of
each call in flight: a call that had rotated a token before the deletion issues
its access token some time, or fails.

## Proofs

TLAPS checks seven modules, each for every value of its constants.

`RefreshSessions_proofs`. None of the safety properties is inductive alone.
`IndInv` adds: every row is live or revoked and the first row of a family
carries its id (`TableInv`); only an open transaction holds locks, only on
live rows, and no row is held twice (`LockInv`); and what each call knows at
each step, in particular that a generated id is in no row and held by no other
call, and that a finished revocation has left nothing of `seen` live
(`CallInv`). The lock is the reason rotation is safe: `RotateUpdate` finds the
row live under its lock, nobody revokes it before `RotateCommit`, so the
successor replaces the family's only live row. From `IndInv` follow
`AtMostOneLive`, `RevocationEffective`, `ReuseNeverDeadlocks` (a family has at
most one live row, so `RevokeFamily` never waits while holding one),
`DeadFamilyStaysDead`, and `Refinement`: under the mapping of `CurrentOf`
only `LoginCreate`, `RotateCommit`, `RevokeCommit` and `RevokeOne` change the
abstract state, and each is an abstract step. Assumed: the marks for absent
sessions, absent users and unused and closed families are not session ids or
users.

`Lockout_proofs`. Type correctness, `NoFreshAttemptPassesLock` (inductive with
types), `OnlyStaleEndsLock` from it, and `GuessesBounded`, by the stronger
`GuessesAccounted`, a theorem too: every compared guess is in the counter, or
its attempt is unanswered, or its attempt failed, and past the threshold an
attempt is unanswered until it has locked the account. It rests on the
cardinality facts of finite sets. Assumed: finitely many attempts, positive
threshold and duration, and any bound on failures.

`RateLimiter_proofs`. `IndInv` says that the history is monotone in the age,
that the counter of an open window is exactly the number of calls allowed since
it opened, and that what is older than the open window, or everything when none
is open, is at most one limit (`OpenInv`, `EndedInv`). The last is the heart of
`BurstBounded`: when a window opens, the calls of the last window's length all
belong to one earlier window, because that one ended strictly before. A full
window's own calls are younger than the window, hence `RefusalJustified`.
Assumed: a positive window and integer limits; a limit below one acts as one
(`Effective`).

`EmailChange_proofs`. `EmailsUnique`, `AddressProved` and `SpentTokenInert`,
from an invariant that ties what a call carries to the row of its token: a
confirmation acts for the owner and the address of a token that was mailed.
That a token's owner once signed up (`KnownInv`) survives deletions and is what
`Refinement` adds: under the mapping (`known` are the ids that signed up,
`proved` the owners and addresses of the mailed tokens) `SignUpCreate`,
`RequestSend`, `ConfirmUpdate` and `Delete` are the abstract steps and all
others stutter, `RequestIssue` too, because a token just created is not mailed.

`Accounts_proofs`. `GoneMeansGone`, `OldSessionsCovered` and
`DeletionEventHonest` are inductive together with the types and two facts
(`Bookkeeping`): only `ChangePassword` is ever about to update, and the history
speaks of open families only, so that a new family never takes the id of one it
speaks of. What a call that gives up its revocation leaves open is `unrevoked`
(`GiveUpStep`). Assumed: a positive TTL.

`Engine_proofs`. Two lemmas about operators carry it: `DefaultsApplied` (no
knob is zero afterwards, and one below zero was given so) and `Truncation` (a
`NumericDate` is at most the time it stands for and less than a second before
it). With the invariant that a token is dated by its own time of issue and TTL
(`Dated`), both bounds of a token's life follow for every TTL, clock
resolution and sequence of restarts. Assumed: at least one tick per second,
the empty secret is no secret, and the run is at least a second long.

`MemorySessions_proofs`. `DeletedUserHasNoSession` needs `Alone`: while calls
follow each other only one is in flight, it has revoked everything before it
deletes, and afterwards nothing is left that could create a session.
`ReopenedOnlyByRace` needs that a family is named after a row that exists
(`Rooted`), so that a login never lands in an old family.
`SequentialImplements` rests on `Sequential`: until two calls overlap, a family
has at most one live row, and the row a refresh is about to rotate is still
live, since nobody else took a step after it was read. That is why `RotateToken`
need not look again there, and `CurrentOf` maps every step of the stores to an
abstract step or a stutter. Assumed: the marks for absent sessions and unused
and closed families are not session ids.

Only model-checked: the liveness properties (`EveryCallReturns`,
`LockRunsOut`, `RefusedKeyRecovers`, `DeletedUserLosesAccess`), which need
fairness and `ENABLED`. Every invariant, action property and refinement of the
passing runs is a theorem.

## Not modelled, and the plan

Cryptography, randomness, logging, the mail transport and the smoke test are
out of scope: ids and tokens are fresh values, a password is right or wrong, a
mail arrives or does not. Payload columns (`ip`, `user_agent`, metadata,
timestamps other than expiries) have no influence on control.

Of the in-memory stores the verification tokens, the lockout columns and the
addresses are not modelled: they are the tests' stand-ins for tables that
`EmailChange` and `Lockout` model over Postgres, without the unique index.
`AuditStore.ListByUser` and `ListSessions` only read. Which of two concurrent
password changes wins is not told apart.

What is left, in this order:

1. Theorems about what the violations of `sessions_reuse` and
   `email_single_use` leave standing, as `OnlyStaleEndsLock` has it for the
   lock: which overlaps they need.
2. The addresses of the in-memory user store, whose `Create` and `UpdateEmail`
   do not enforce uniqueness.
3. Two concurrent password changes, told apart by the password each confirmed.
