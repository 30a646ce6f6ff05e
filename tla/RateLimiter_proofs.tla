------------------------- MODULE RateLimiter_proofs -------------------------
(***************************************************************************)
(* Proofs about RateLimiter, for any set of keys, any limits, zero and     *)
(* negative ones included, and any window.                                 *)
(*                                                                         *)
(* The argument for the burst: the calls of the last Window ticks are      *)
(* those of the open window, which are counted, and older ones.  The older *)
(* ones were all within one window's length when the open window began,    *)
(* so they belong to one earlier window and are at most the limit.         *)
(***************************************************************************)
EXTENDS RateLimiter, TLAPS

\* Looking further back finds no fewer calls.
Monotone(k) == \A a, b \in Age : a <= b => within[k][a] <= within[k][b]

\* The counter of an open window is exactly the number of calls allowed since
\* it opened, and what is older is at most one limit.
OpenInv(k) ==
    left[k] # Ended =>
        /\ count[k] >= 1
        /\ within[k][Window - left[k]] = count[k]
        /\ Recent(k) <= count[k] + Effective

\* Without an open window nothing was allowed in this tick, and what was
\* allowed in the last Window ticks is at most one limit.
EndedInv(k) ==
    left[k] = Ended => within[k][0] = 0 /\ Recent(k) <= Effective

\* The inductive invariant.
IndInv ==
    /\ TypeOK
    /\ \A k \in Key : Monotone(k) /\ OpenInv(k) /\ EndedInv(k)

\* The effective limit is the configured one, or one if that is lower.
LEMMA EffectiveFacts ==
    ASSUME limit \in Limits
    PROVE  Effective \in Nat \ {0} /\ Effective >= limit /\ limit \in Int
    BY LimitsAssumption DEF Effective

\* Init establishes the invariant.
LEMMA InitInv == Init => IndInv
<1> SUFFICES ASSUME Init PROVE IndInv
    OBVIOUS
<1> USE WindowAssumption, EffectiveFacts
<1>1. TypeOK
    BY DEF Init, TypeOK, Age, Ended
<1>2. ASSUME NEW k \in Key PROVE Monotone(k) /\ OpenInv(k) /\ EndedInv(k)
    BY DEF Init, Monotone, OpenInv, EndedInv, Recent, Age, Ended
<1> QED
    BY <1>1, <1>2 DEF IndInv

\* What an allowed call does to the history of its key, and of the others.
LEMMA HitFacts ==
    ASSUME TypeOK, NEW k \in Key, Hit(k)
    PROVE  /\ \A a \in Age : within'[k][a] = within[k][a] + 1
           /\ \A j \in Key : j # k => within'[j] = within[j]
           /\ within' \in [Key -> [Age -> Int]]
<1>1. \A a \in Age : within[k][a] \in Int
    BY EffectiveFacts DEF TypeOK
<1>2. \A j \in Key : within[j] \in [Age -> Int]
    BY EffectiveFacts DEF TypeOK
<1> QED
    BY <1>1, <1>2 DEF TypeOK, Hit

\* The invariant of a key none of whose variables changes.
LEMMA Untouched ==
    ASSUME IndInv, NEW k \in Key, limit' = limit, count'[k] = count[k],
           left'[k] = left[k], within'[k] = within[k]
    PROVE  (Monotone(k) /\ OpenInv(k) /\ EndedInv(k))'
    BY DEF IndInv, Monotone, OpenInv, EndedInv, Recent, Effective

\* A call that is allowed: it opens a window or is counted in the open one.
LEMMA AllowedStep ==
    ASSUME IndInv, NEW k \in Key, OpenWindow(k) \/ CountCall(k)
    PROVE  IndInv'
<1> USE WindowAssumption
<1>0. TypeOK /\ limit' = limit /\ limit \in Limits /\ Effective' = Effective
    BY DEF IndInv, OpenWindow, CountCall, TypeOK, Effective
<1>1. Effective \in Nat \ {0} /\ Effective >= limit /\ limit \in Int
    BY <1>0, EffectiveFacts
<1>2. /\ \A a \in Age : within'[k][a] = within[k][a] + 1
      /\ \A j \in Key : j # k => within'[j] = within[j]
      /\ within' \in [Key -> [Age -> Int]]
    BY <1>0, HitFacts DEF OpenWindow, CountCall
<1>3. \A j \in Key : j # k => count'[j] = count[j] /\ left'[j] = left[j]
    BY <1>0 DEF OpenWindow, CountCall, TypeOK
<1>4. \A j \in Key : /\ count[j] \in 0..Effective
                     /\ left[j] \in {-1} \cup 0..Window
                     /\ \A a \in 0..Window : within[j][a] \in 0..(2 * Effective)
    BY <1>0 DEF TypeOK, Ended, Age
<1>5. /\ \A a \in 0..Window : within[k][a] <= within[k][Window]
      /\ left[k] # -1 => /\ count[k] >= 1
                         /\ within[k][Window - left[k]] = count[k]
                         /\ within[k][Window] <= count[k] + Effective
      /\ left[k] = -1 => within[k][0] = 0 /\ within[k][Window] <= Effective
    BY DEF IndInv, Monotone, OpenInv, EndedInv, Recent, Age, Ended
<1>6. \/ left[k] = -1 /\ count'[k] = 1 /\ left'[k] = Window
      \/ left[k] # -1 /\ count[k] + 1 <= Effective
            /\ count'[k] = count[k] + 1 /\ left'[k] = left[k]
    BY <1>0, <1>1, <1>4 DEF OpenWindow, CountCall, TypeOK, Ended
<1>7. \A a \in 0..Window : within'[k][a] \in 0..(2 * Effective)
  <2> SUFFICES ASSUME NEW a \in 0..Window
               PROVE  within'[k][a] \in 0..(2 * Effective)
    OBVIOUS
  <2>1. within'[k][a] = within[k][a] + 1 /\ within[k][a] <= within[k][Window]
    BY <1>2, <1>5 DEF Age
  <2>2. within[k][a] \in Nat /\ within[k][Window] \in Nat
    BY <1>1, <1>4
  <2>3. within[k][Window] + 1 <= 2 * Effective
    BY <1>1, <1>4, <1>5, <1>6, <2>2
  <2> QED
    BY <1>1, <2>1, <2>2, <2>3
<1>8. TypeOK'
  <2>1. left' \in [Key -> {Ended} \cup Age]
    <3>1. left'[k] \in {Ended} \cup Age
        BY <1>4, <1>6 DEF Age
    <3>2. left' = left \/ left' = [left EXCEPT ![k] = Window]
        BY DEF OpenWindow, CountCall
    <3> QED
        BY <1>0, <3>1, <3>2 DEF TypeOK
  <2>2. count' \in [Key -> 0..Effective]
    <3>1. count'[k] \in 0..Effective
        BY <1>1, <1>4, <1>6
    <3> QED
        BY <1>0, <3>1 DEF OpenWindow, CountCall, TypeOK
  <2>3. within' \in [Key -> [Age -> 0..(2 * Effective)]]
    BY <1>0, <1>2, <1>7 DEF TypeOK, Age
  <2>4. verdict' \in [Key -> {"none", "allowed", "denied"}]
    BY <1>0 DEF OpenWindow, CountCall, Say, TypeOK
  <2> QED
    BY <1>0, <2>1, <2>2, <2>3, <2>4 DEF TypeOK
<1>9. (Monotone(k) /\ OpenInv(k) /\ EndedInv(k))'
  <2>1. Monotone(k)'
    <3> SUFFICES ASSUME NEW a \in Age, NEW b \in Age, a <= b
                 PROVE  within'[k][a] <= within'[k][b]
        BY DEF Monotone
    <3>1. within[k][a] <= within[k][b]
        BY DEF IndInv, Monotone
    <3>2. within[k][a] \in Int /\ within[k][b] \in Int
        BY <1>1, <1>4 DEF Age
    <3> QED
        BY <1>2, <3>1, <3>2
  <2>2. left'[k] \in 0..Window
    BY <1>4, <1>6
  <2>3. /\ within'[k][Window] = within[k][Window] + 1
        /\ within'[k][Window - left'[k]] = within[k][Window - left'[k]] + 1
    BY <1>2, <2>2 DEF Age
  <2>4. /\ count'[k] >= 1
        /\ within'[k][Window - left'[k]] = count'[k]
        /\ within'[k][Window] <= count'[k] + Effective
    <3>1. CASE left[k] = -1
        BY <1>1, <1>4, <1>5, <1>6, <2>3, <3>1
    <3>2. CASE left[k] # -1
        BY <1>1, <1>4, <1>5, <1>6, <2>3, <3>2
    <3> QED
        BY <3>1, <3>2
  <2>5. OpenInv(k)'
    BY <1>0, <2>4 DEF OpenInv, Recent
  <2>6. EndedInv(k)'
    BY <2>2 DEF EndedInv, Ended
  <2> QED
    BY <2>1, <2>5, <2>6
<1>10. ASSUME NEW j \in Key, j # k PROVE (Monotone(j) /\ OpenInv(j) /\ EndedInv(j))'
    BY <1>0, <1>2, <1>3, <1>10, Untouched
<1> QED
    BY <1>8, <1>9, <1>10 DEF IndInv

\* Time passes: the history moves by one and an open window by one towards
\* its end, so they stay aligned.  The window that ends takes its calls with
\* it: they are the only ones of the last Window ticks.
LEMMA TickStep == IndInv /\ Tick => IndInv'
<1> SUFFICES ASSUME IndInv, Tick PROVE IndInv'
    OBVIOUS
<1> USE WindowAssumption
<1>0. TypeOK /\ limit' = limit /\ limit \in Limits /\ Effective' = Effective
    BY DEF IndInv, Tick, TypeOK, Effective
<1>1. Effective \in Nat \ {0}
    BY <1>0, EffectiveFacts
<1>2. \A k \in Key : /\ count[k] \in 0..Effective
                     /\ left[k] \in {-1} \cup 0..Window
                     /\ \A a \in 0..Window : within[k][a] \in 0..(2 * Effective)
    BY <1>0 DEF TypeOK, Ended, Age
<1>3. \A k \in Key :
         /\ count'[k] = count[k]
         /\ left'[k] = IF left[k] = -1 THEN -1 ELSE left[k] - 1
         /\ within'[k][0] = 0
         /\ \A a \in 1..Window : within'[k][a] = within[k][a - 1]
    BY DEF Tick, Ended, Age
<1>4. TypeOK'
  <2>1. left' \in [Key -> {Ended} \cup Age]
    BY <1>0, <1>2 DEF Tick, Ended, Age
  <2>2. within' \in [Key -> [Age -> 0..(2 * Effective)]]
    BY <1>0, <1>1, <1>2 DEF Tick, Age
  <2> QED
    BY <1>0, <2>1, <2>2 DEF Tick, TypeOK
<1>5. ASSUME NEW k \in Key PROVE (Monotone(k) /\ OpenInv(k) /\ EndedInv(k))'
  <2>1. \A a, b \in 0..Window : a <= b => within[k][a] <= within[k][b]
    BY DEF IndInv, Monotone, Age
  <2>2. /\ left[k] # -1 => /\ count[k] >= 1
                           /\ within[k][Window - left[k]] = count[k]
                           /\ within[k][Window] <= count[k] + Effective
        /\ left[k] = -1 => within[k][0] = 0 /\ within[k][Window] <= Effective
    BY DEF IndInv, OpenInv, EndedInv, Recent, Ended
  <2>3. within'[k][Window] <= within[k][Window]
    BY <1>2, <1>3, <2>1
  <2>4. Monotone(k)'
    <3> SUFFICES ASSUME NEW a \in 0..Window, NEW b \in 0..Window, a <= b
                 PROVE  within'[k][a] <= within'[k][b]
        BY DEF Monotone, Age
    <3>1. CASE a = 0
        BY <1>2, <1>3, <3>1
    <3>2. CASE a # 0
        BY <1>3, <2>1, <3>2
    <3> QED
        BY <3>1, <3>2
  <2>5. OpenInv(k)'
    BY <1>0, <1>1, <1>2, <1>3, <2>2, <2>3 DEF OpenInv, Recent, Ended
  <2>6. EndedInv(k)'
    BY <1>0, <1>1, <1>2, <1>3, <2>2, <2>3 DEF EndedInv, Recent, Ended
  <2> QED
    BY <2>4, <2>5, <2>6
<1> QED
    BY <1>4, <1>5 DEF IndInv

\* Every step keeps the invariant.
LEMMA IndInvStep == IndInv /\ [Next]_vars => IndInv'
<1> SUFFICES ASSUME IndInv, [Next]_vars PROVE IndInv'
    OBVIOUS
<1>1. ASSUME NEW k \in Key, Deny(k) PROVE IndInv'
  <2>1. TypeOK'
    BY <1>1 DEF IndInv, Deny, Say, TypeOK, Effective
  <2>2. ASSUME NEW j \in Key PROVE (Monotone(j) /\ OpenInv(j) /\ EndedInv(j))'
    BY <1>1, Untouched DEF Deny
  <2> QED
    BY <2>1, <2>2 DEF IndInv
<1>2. CASE UNCHANGED vars
  <2>1. TypeOK'
    BY <1>2 DEF IndInv, vars, TypeOK, Effective
  <2>2. ASSUME NEW j \in Key PROVE (Monotone(j) /\ OpenInv(j) /\ EndedInv(j))'
    BY <1>2, Untouched DEF vars
  <2> QED
    BY <2>1, <2>2 DEF IndInv
<1> QED
    BY <1>1, <1>2, AllowedStep, TickStep DEF Next, Allow

\* What the invariant says of the bounds: the burst is at most two limits,
\* and a full window has used up the limit within the last Window ticks.
LEMMA IndInvImplies == IndInv => BurstBounded /\ RefusalJustified
<1> SUFFICES ASSUME IndInv, NEW k \in Key
             PROVE  /\ Recent(k) <= 2 * Effective
                    /\ Full(k) => Recent(k) >= Effective
    BY DEF BurstBounded, RefusalJustified
<1> USE WindowAssumption
<1>1. Effective \in Nat \ {0} /\ limit \in Int
    BY EffectiveFacts DEF IndInv, TypeOK
<1>2. /\ count[k] \in 0..Effective
      /\ left[k] \in {-1} \cup 0..Window
      /\ \A a \in 0..Window : within[k][a] \in 0..(2 * Effective)
    BY DEF IndInv, TypeOK, Ended, Age
<1>3. Recent(k) <= 2 * Effective
    BY <1>1, <1>2 DEF Recent
<1>4. ASSUME Full(k) PROVE Recent(k) >= Effective
  <2>1. count[k] >= Effective
    BY <1>1, <1>2, <1>4 DEF IndInv, OpenInv, Full, Effective
  <2>2. Recent(k) >= count[k]
    BY <1>2, <1>4 DEF IndInv, OpenInv, Monotone, Recent, Full, Ended, Age
  <2> QED
    BY <1>1, <1>2, <2>1, <2>2 DEF Recent
<1> QED
    BY <1>3, <1>4

\* The counters and the history of allowed calls agree in every reachable
\* state (InMemoryRateLimiter.Allow).
THEOREM IndInvCorrect == Spec => []IndInv
    BY InitInv, IndInvStep, PTL DEF Spec

\* Type correctness: in particular no counter passes its limit.
THEOREM TypeCorrect == Spec => []TypeOK
    BY IndInvCorrect, PTL DEF IndInv

\* No stretch of time as long as a window sees more than twice the limit.
THEOREM BurstBoundedCorrect == Spec => []BurstBounded
    BY IndInvCorrect, IndInvImplies, PTL

\* A key is refused only after using up its limit within one window's length.
THEOREM RefusalJustifiedCorrect == Spec => []RefusalJustified
    BY IndInvCorrect, IndInvImplies, PTL
=============================================================================
