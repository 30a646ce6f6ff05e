---------------------------- MODULE RateLimiter ----------------------------
(***************************************************************************)
(* security.InMemoryRateLimiter: a fixed-window counter per key, in front  *)
(* of Login (key login:ip:email) and SignUp (key signup:ip).  Allow runs   *)
(* under the limiter's mutex, so a call is one step.                       *)
(*                                                                         *)
(* left[k] is windowEnd - now.  A key without a counter and a key whose    *)
(* window has ended (now.After(windowEnd)) are treated alike by Allow and  *)
(* both have left[k] = Ended.                                              *)
(***************************************************************************)
EXTENDS Integers

CONSTANTS Key,      \* rate-limit keys
          Limits,   \* values of Config.RateLimitAttempts
          Window    \* Config.RateLimitWindow, in ticks

ASSUME LimitsAssumption == Limits \subseteq Int
ASSUME WindowAssumption == Window \in Nat \ {0}

VARIABLES
    limit,     \* the limit of this limiter, fixed by its constructor
    count,     \* windowCounter.count
    left,      \* time until windowCounter.windowEnd
    verdict,   \* what Allow last returned for the key
    within     \* history: calls allowed at most a ticks ago, for every a

vars == <<limit, count, left, verdict, within>>

Ended == -1
Age == 0..Window   \* the ages that now.After does not yet exclude

\* A limit below one still lets the first call of a window through.
Effective == IF limit < 1 THEN 1 ELSE limit

\* Calls allowed within the last Window ticks.
Recent(k) == within[k][Window]

TypeOK ==
    /\ limit \in Limits
    /\ count \in [Key -> 0..Effective]
    /\ left \in [Key -> {Ended} \cup Age]
    /\ verdict \in [Key -> {"none", "allowed", "denied"}]
    /\ within \in [Key -> [Age -> 0..(2 * Effective)]]

\* NewInMemoryRateLimiter
Init ==
    /\ limit \in Limits
    /\ count = [k \in Key |-> 0]
    /\ left = [k \in Key |-> Ended]
    /\ verdict = [k \in Key |-> "none"]
    /\ within = [k \in Key |-> [a \in Age |-> 0]]

Say(k, v) == verdict' = [verdict EXCEPT ![k] = v]
Hit(k) == within' = [within EXCEPT ![k] = [a \in Age |-> @[a] + 1]]

\* Mutant: the new window's counter starts at zero.
OpenWindowFromZero(k) ==
    /\ left[k] = Ended
    /\ count' = [count EXCEPT ![k] = 0]
    /\ left' = [left EXCEPT ![k] = Window]
    /\ Say(k, "allowed") /\ Hit(k)
    /\ UNCHANGED limit

\* No counter, or its window has ended: a new window begins with this call.
OpenWindow(k) ==
    /\ left[k] = Ended
    /\ count' = [count EXCEPT ![k] = 1]
    /\ left' = [left EXCEPT ![k] = Window]
    /\ Say(k, "allowed") /\ Hit(k)
    /\ UNCHANGED limit

Full(k) == left[k] # Ended /\ count[k] >= limit

\* Mutant: the counter is tested after it was incremented (> for >=).
CountCallOneMore(k) ==
    /\ left[k] # Ended
    /\ count[k] <= limit
    /\ count' = [count EXCEPT ![k] = @ + 1]
    /\ Say(k, "allowed") /\ Hit(k)
    /\ UNCHANGED <<limit, left>>

\* The window is open and has room.
CountCall(k) ==
    /\ left[k] # Ended
    /\ count[k] < limit
    /\ count' = [count EXCEPT ![k] = @ + 1]
    /\ Say(k, "allowed") /\ Hit(k)
    /\ UNCHANGED <<limit, left>>

\* Mutant: a refused call counts and moves the end of the window.
DenyExtends(k) ==
    /\ Full(k)
    /\ left' = [left EXCEPT ![k] = Window]
    /\ Say(k, "denied")
    /\ UNCHANGED <<limit, count, within>>

\* The window is full: the call is refused and nothing is counted.
Deny(k) ==
    /\ Full(k)
    /\ Say(k, "denied")
    /\ UNCHANGED <<limit, count, left, within>>

Allow(k) == OpenWindow(k) \/ CountCall(k) \/ Deny(k)

\* Time passes.
Tick ==
    /\ left' = [k \in Key |-> IF left[k] = Ended THEN Ended ELSE left[k] - 1]
    /\ within' = [k \in Key |->
                     [a \in Age |-> IF a = 0 THEN 0 ELSE within[k][a - 1]]]
    /\ UNCHANGED <<limit, count, verdict>>

Next == Tick \/ \E k \in Key : Allow(k)

\* Time does not stop.  Nothing is assumed of the calls.
Spec == Init /\ [][Next]_vars /\ WF_vars(Tick)
-----------------------------------------------------------------------------
\* In any stretch of time as long as a window, a key gets at most twice the
\* limit, also when its calls straddle the end of a window and when the
\* configured limit is zero or negative (InMemoryRateLimiter.Allow).
BurstBounded == \A k \in Key : Recent(k) <= 2 * Effective

\* A call is refused only if the limit was really used up within the last
\* window: no call is held against a key for longer
\* (InMemoryRateLimiter.Allow).
RefusalJustified == \A k \in Key : Full(k) => Recent(k) >= Effective

\* A key that is refused is allowed again after a while even if it keeps
\* calling: refused calls do not move windowEnd (InMemoryRateLimiter.Allow).
RefusedKeyRecovers == \A k \in Key : Full(k) ~> ~Full(k)
=============================================================================
