------------------------------ MODULE Lockout ------------------------------
(***************************************************************************)
(* Account lockout: auth.Login up to the point where the session is        *)
(* created, for one account and any number of login attempts in flight, in *)
(* one process or in several over the same users table.                    *)
(*                                                                         *)
(* The row of the account is failed and lockLeft.  failed_attempts only    *)
(* ever meets the comparison with the threshold, so it is kept up to       *)
(* Threshold.  Instants are kept as the time left until them: lockLeft     *)
(* until locked_until (0 when it is NULL or past, which Login does not     *)
(* tell apart), untilLeft[r] until the instant r is about to write there.  *)
(* Each store call is one statement, so one step; the password hash is not *)
(* modelled, an attempt is right or wrong.                                 *)
(***************************************************************************)
EXTENDS Naturals, FiniteSets

CONSTANTS Request,     \* login attempts that may be in flight together
          Threshold,   \* Config.LockoutThreshold
          Duration,    \* Config.LockoutDuration, in ticks
          MaxLost      \* bound on the failures between two locks or resets

ASSUME RequestAssumption == IsFiniteSet(Request)
ASSUME ThresholdAssumption == Threshold \in Nat \ {0}
ASSUME DurationAssumption == Duration \in Nat \ {0}
ASSUME MaxLostAssumption == MaxLost \in Nat

VARIABLES
    failed,      \* users.failed_attempts, up to Threshold
    lockLeft,    \* time until users.locked_until
    pc,          \* where each attempt is
    untilLeft,   \* time until the instant the attempt computed
    answer,      \* what the last attempt of this slot was answered
    stale,       \* history: attempts that read the row before the last lock
    exposed,     \* history: wrong guesses compared since the last lock or reset
    lost         \* history: of these, guesses whose attempt failed before
                 \* its answer or was answered without its lock

vars == <<failed, lockLeft, pc, untilLeft, answer, stale, exposed, lost>>

\* The most wrong guesses that are compared before a lock is written: those
\* that bring the counter to the threshold, and one more for every other
\* attempt that had read the row by then.
GuessLimit == Threshold - 1 + Cardinality(Request)

Answer == {"none", "ok", "ErrRateLimited", "ErrInvalidCredentials",
           "ErrAccountLocked", "error"}

Min2(a, b) == IF a < b THEN a ELSE b
Locked == lockLeft > 0

\* The attempts whose wrong guess has not yet been answered.
Unanswered == {r \in Request : pc[r] \in {"increment", "deadline", "lock"}}

TypeOK ==
    /\ failed \in 0..Threshold
    /\ lockLeft \in 0..Duration
    /\ pc \in [Request -> {"idle", "compare", "increment", "deadline", "lock",
                           "reset", "open"}]
    /\ untilLeft \in [Request -> 0..Duration]
    /\ answer \in [Request -> Answer]
    /\ stale \subseteq Request
    /\ exposed \in Nat
    /\ lost \in 0..MaxLost

Init ==
    /\ failed = 0
    /\ lockLeft = 0
    /\ pc = [r \in Request |-> "idle"]
    /\ untilLeft = [r \in Request |-> 0]
    /\ answer = [r \in Request |-> "none"]
    /\ stale = {}
    /\ exposed = 0
    /\ lost = 0

row == <<failed, lockLeft>>
history == <<stale, exposed, lost>>

Goto(r, step) == pc' = [pc EXCEPT ![r] = step]

Return(r, a) ==
    /\ Goto(r, "idle")
    /\ answer' = [answer EXCEPT ![r] = a]
    /\ untilLeft' = [untilLeft EXCEPT ![r] = 0]
-----------------------------------------------------------------------------
(* The checks before the password is looked at.                            *)

\* limiter.Allow refuses the attempt.
RateLimited(r) ==
    /\ pc[r] = "idle"
    /\ Return(r, "ErrRateLimited")
    /\ UNCHANGED <<row, history>>

\* GetByEmail finds no user, or fails: both are ErrInvalidCredentials.
NoSuchUser(r) ==
    /\ pc[r] = "idle"
    /\ Return(r, "ErrInvalidCredentials")
    /\ UNCHANGED <<row, history>>

\* Mutant: an attempt on a locked account starts the lock again.
LookupLockedExtends(r) ==
    /\ pc[r] = "idle"
    /\ Locked
    /\ Return(r, "ErrAccountLocked")
    /\ lockLeft' = Duration
    /\ UNCHANGED <<failed, history>>

\* time.Now().Before(*user.LockedUntil).
LookupLocked(r) ==
    /\ pc[r] = "idle"
    /\ Locked
    /\ Return(r, "ErrAccountLocked")
    /\ UNCHANGED <<row, history>>

\* Mutant: the password is compared whether or not the account is locked.
LookupUnchecked(r) ==
    /\ pc[r] = "idle"
    /\ Goto(r, "compare")
    /\ answer' = [answer EXCEPT ![r] = "none"]
    /\ stale' = stale \ {r}
    /\ UNCHANGED <<row, untilLeft, exposed, lost>>

\* The row that was read is not locked; from here on it may be out of date.
Lookup(r) ==
    /\ pc[r] = "idle"
    /\ ~Locked
    /\ Goto(r, "compare")
    /\ answer' = [answer EXCEPT ![r] = "none"]
    /\ stale' = stale \ {r}
    /\ UNCHANGED <<row, untilLeft, exposed, lost>>
-----------------------------------------------------------------------------
(* A wrong password.                                                       *)

\* Compare fails; recordLoginFailure writes the audit event login_failed.
CompareWrong(r) ==
    /\ pc[r] = "compare"
    /\ Goto(r, "increment")
    /\ exposed' = exposed + 1
    /\ UNCHANGED <<row, untilLeft, answer, stale, lost>>

\* Mutant: the account is locked only by the attempt that reaches the
\* threshold exactly (== for >=).
IncrementExact(r) ==
    /\ pc[r] = "increment"
    /\ failed' = Min2(failed + 1, Threshold)
    /\ IF failed + 1 = Threshold
       THEN Goto(r, "deadline") /\ UNCHANGED <<answer, untilLeft>>
       ELSE Return(r, "ErrInvalidCredentials")
    /\ UNCHANGED <<lockLeft, history>>

\* IncrementFailedAttempts returns the new count; from the threshold on every
\* wrong attempt goes on to lock the account.
Increment(r) ==
    /\ pc[r] = "increment"
    /\ failed' = Min2(failed + 1, Threshold)
    /\ IF failed + 1 >= Threshold
       THEN Goto(r, "deadline") /\ UNCHANGED <<answer, untilLeft>>
       ELSE Return(r, "ErrInvalidCredentials")
    /\ UNCHANGED <<lockLeft, history>>

\* Mutant: the lock is counted from the lock in force instead of from now.
DeadlineExtends(r) ==
    /\ pc[r] = "deadline"
    /\ untilLeft' = [untilLeft EXCEPT ![r] = lockLeft + Duration]
    /\ Goto(r, "lock")
    /\ UNCHANGED <<row, answer, history>>

\* until := time.Now().Add(lockoutDuration)
Deadline(r) ==
    /\ pc[r] = "deadline"
    /\ untilLeft' = [untilLeft EXCEPT ![r] = Duration]
    /\ Goto(r, "lock")
    /\ UNCHANGED <<row, answer, history>>

\* LockAccount overwrites locked_until, whatever is there; then the audit
\* event account_locked.
LockAccount(r) ==
    /\ pc[r] = "lock"
    /\ lockLeft' = untilLeft[r]
    /\ Return(r, "ErrInvalidCredentials")
    /\ stale' = {q \in Request \ {r} : pc[q] # "idle"}
    /\ exposed' = 0
    /\ lost' = 0
    /\ UNCHANGED failed

\* IncrementFailedAttempts or LockAccount fails: logged, same answer.
StoreFails(r) ==
    /\ pc[r] \in {"increment", "lock"}
    /\ lost < MaxLost
    /\ Return(r, "ErrInvalidCredentials")
    /\ lost' = lost + 1
    /\ UNCHANGED <<row, stale, exposed>>
-----------------------------------------------------------------------------
(* The right password.                                                     *)

CompareRight(r) ==
    /\ pc[r] = "compare"
    /\ Goto(r, "reset")
    /\ UNCHANGED <<row, untilLeft, answer, history>>

\* ResetFailedAttempts clears the counter and locked_until.
Reset(r) ==
    /\ pc[r] = "reset"
    /\ failed' = 0
    /\ lockLeft' = 0
    /\ exposed' = 0
    /\ lost' = 0
    /\ Goto(r, "open")
    /\ UNCHANGED <<untilLeft, answer, stale>>

\* ... or fails, which is only logged.
ResetFails(r) ==
    /\ pc[r] = "reset"
    /\ Goto(r, "open")
    /\ UNCHANGED <<row, untilLeft, answer, history>>

\* The session is created and the tokens are returned (RefreshSessions has
\* the details), or one of the calls fails.
OpenSession(r) ==
    /\ pc[r] = "open"
    /\ \/ Return(r, "ok")
       \/ Return(r, "error")
    /\ UNCHANGED <<row, history>>
-----------------------------------------------------------------------------
\* The process crashes, or its context is cancelled, between two calls.
Crash(r) ==
    /\ pc[r] # "idle"
    /\ Return(r, "error")
    /\ IF r \in Unanswered
       THEN lost < MaxLost /\ lost' = lost + 1
       ELSE UNCHANGED lost
    /\ UNCHANGED <<row, stale, exposed>>

\* Time passes.
Tick ==
    /\ Locked \/ \E r \in Request : untilLeft[r] > 0
    /\ lockLeft' = IF Locked THEN lockLeft - 1 ELSE 0
    /\ untilLeft' = [r \in Request |->
                        IF untilLeft[r] > 0 THEN untilLeft[r] - 1 ELSE 0]
    /\ UNCHANGED <<failed, pc, answer, history>>

Attempt(r) ==
    \/ RateLimited(r) \/ NoSuchUser(r) \/ LookupLocked(r) \/ Lookup(r)
    \/ CompareWrong(r) \/ Increment(r) \/ Deadline(r) \/ LockAccount(r)
    \/ StoreFails(r)
    \/ CompareRight(r) \/ Reset(r) \/ ResetFails(r) \/ OpenSession(r)
    \/ Crash(r)

Next == Tick \/ \E r \in Request : Attempt(r)

Spec == Init /\ [][Next]_vars

\* Time does not stop.  Nothing is assumed of the attempts.
FairSpec == Spec /\ WF_vars(Tick)
-----------------------------------------------------------------------------
(* Properties.                                                             *)

\* While the account is locked, the only attempts beyond the lock check are
\* those that had read the row before the lock was written: no attempt that
\* begins under a lock has its password compared (auth.Login).
NoFreshAttemptPassesLock ==
    Locked => \A r \in Request : pc[r] # "idle" => r \in stale

\* Concurrent attempts overshoot the threshold by at most one guess per
\* attempt in flight, and a store error or a crash between the comparison and
\* the lock costs one more and no further: it does not disarm the lockout
\* (auth.Login: attempts >= lockoutThreshold).
GuessesBounded == exposed <= GuessLimit + lost

\* Why: a compared guess is in the counter, its attempt is still in flight,
\* or it was lost; past the threshold an attempt stays in flight until it has
\* locked the account (auth.Login, from Compare to LockAccount).
GuessesAccounted ==
    exposed <= Min2(failed, Threshold - 1) + Cardinality(Unanswered) + lost

\* A lock is cut short only by an attempt that had read the row before the
\* lock was written, whether by a reset or by an older deadline: nobody who
\* comes after the lock can end it (auth.Login, ResetFailedAttempts and
\* LockAccount).
OnlyStaleEndsLock ==
    [][\A r \in Request : Attempt(r) /\ lockLeft' < lockLeft => r \in stale]_vars

\* A lock always runs out: attempts on a locked account do not extend it
\* (auth.Login, ErrAccountLocked).
LockRunsOut == Locked ~> ~Locked

\* auth/login.go: "after lockoutThreshold consecutive failed attempts, the
\* account is locked [...] for lockoutDuration": no login attempt ends a
\* lock early.
LockHoldsForDuration ==
    [][(\E r \in Request : Attempt(r)) => lockLeft' >= lockLeft]_vars
=============================================================================
