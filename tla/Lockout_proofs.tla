-------------------------- MODULE Lockout_proofs --------------------------
(***************************************************************************)
(* Proofs about Lockout, for any finite number of attempts in flight and   *)
(* any positive threshold and duration.                                    *)
(***************************************************************************)
EXTENDS Lockout, FiniteSetTheorems, TLAPS

\* Every step of an attempt, and every tick, keeps the types.
LEMMA TypeStep == TypeOK /\ [Next]_vars => TypeOK'
<1> SUFFICES ASSUME TypeOK, [Next]_vars PROVE TypeOK'
    OBVIOUS
<1> USE ThresholdAssumption, DurationAssumption, MaxLostAssumption
    DEF TypeOK, Answer, row, history, Goto, Return
<1>1. CASE UNCHANGED vars
    BY <1>1 DEF vars
<1>2. CASE Tick
    BY <1>2 DEF Tick, Locked
<1>3. ASSUME NEW r \in Request, Attempt(r) PROVE TypeOK'
  <2>1. CASE RateLimited(r) \/ NoSuchUser(r) \/ LookupLocked(r) \/ Lookup(r)
    BY <2>1 DEF RateLimited, NoSuchUser, LookupLocked, Lookup
  <2>2. CASE CompareWrong(r)
    BY <2>2 DEF CompareWrong
  <2>3. CASE Increment(r)
    BY <2>3 DEF Increment, Min2
  <2>4. CASE Deadline(r)
    BY <2>4 DEF Deadline
  <2>5. CASE LockAccount(r)
    BY <2>5 DEF LockAccount
  <2>6. CASE StoreFails(r) \/ CompareRight(r) \/ Reset(r) \/ ResetFails(r)
    BY <2>6 DEF StoreFails, CompareRight, Reset, ResetFails
  <2>7. CASE OpenSession(r) \/ Crash(r)
    BY <2>7 DEF OpenSession, Crash
  <2> QED
    BY <1>3, <2>1, <2>2, <2>3, <2>4, <2>5, <2>6, <2>7 DEF Attempt
<1> QED
    BY <1>1, <1>2, <1>3 DEF Next

\* The variables keep their types.
THEOREM TypeCorrect == Spec => []TypeOK
<1>1. Init => TypeOK
    BY ThresholdAssumption, DurationAssumption, MaxLostAssumption
       DEF Init, TypeOK, Answer
<1> QED
    BY <1>1, TypeStep, PTL DEF Spec

\* For any number of concurrent attempts, no attempt that begins while the
\* account is locked gets as far as the password comparison.
THEOREM NoFreshAttemptPassesLockCorrect == Spec => []NoFreshAttemptPassesLock
<1> DEFINE Inv == TypeOK /\ NoFreshAttemptPassesLock
<1>1. Init => Inv
    BY ThresholdAssumption, DurationAssumption, MaxLostAssumption
       DEF Init, TypeOK, Answer, NoFreshAttemptPassesLock, Locked
<1>2. Inv /\ [Next]_vars => Inv'
  <2> SUFFICES ASSUME Inv, [Next]_vars PROVE NoFreshAttemptPassesLock'
    BY TypeStep
  <2> USE DurationAssumption
      DEF TypeOK, NoFreshAttemptPassesLock, Locked, row, history, Goto, Return
  <2>1. CASE UNCHANGED vars
    BY <2>1 DEF vars
  <2>2. CASE Tick
    BY <2>2 DEF Tick
  <2>3. ASSUME NEW r \in Request, Attempt(r)
        PROVE  NoFreshAttemptPassesLock'
    <3>1. CASE RateLimited(r) \/ NoSuchUser(r) \/ LookupLocked(r)
        BY <3>1 DEF RateLimited, NoSuchUser, LookupLocked
    <3>2. CASE Lookup(r)
        BY <3>2 DEF Lookup
    <3>3. CASE LockAccount(r)
        BY <3>3 DEF LockAccount
    <3>4. CASE Reset(r)
        BY <3>4 DEF Reset
    <3>5. CASE Increment(r)
        BY <3>5 DEF Increment
    <3>6. CASE \/ CompareWrong(r) \/ Deadline(r) \/ StoreFails(r)
               \/ CompareRight(r) \/ ResetFails(r) \/ OpenSession(r) \/ Crash(r)
        BY <3>6 DEF CompareWrong, Deadline, StoreFails, CompareRight,
                    ResetFails, OpenSession, Crash
    <3> QED
        BY <2>3, <3>1, <3>2, <3>3, <3>4, <3>5, <3>6 DEF Attempt
  <2> QED
    BY <2>1, <2>2, <2>3 DEF Next
<1> QED
    BY <1>1, <1>2, PTL DEF Spec
\* For any number of concurrent attempts, threshold and duration: whoever
\* shortens a lock had read the row before it was written.
THEOREM OnlyStaleEndsLockCorrect == Spec => OnlyStaleEndsLock
<1>1. ASSUME TypeOK, NoFreshAttemptPassesLock, NEW r \in Request, Attempt(r),
             lockLeft' < lockLeft
      PROVE  r \in stale
  <2>1. LockAccount(r) \/ Reset(r)
    BY <1>1 DEF TypeOK, Attempt, RateLimited, NoSuchUser, LookupLocked, Lookup,
                CompareWrong, Increment, Deadline, StoreFails, CompareRight,
                ResetFails, OpenSession, Crash, row
  <2>2. lockLeft > 0
    BY <1>1, <2>1, DurationAssumption DEF TypeOK, LockAccount, Reset
  <2>3. pc[r] # "idle"
    BY <2>1 DEF LockAccount, Reset
  <2> QED
    BY <1>1, <2>2, <2>3 DEF NoFreshAttemptPassesLock, Locked
<1>2. TypeOK /\ NoFreshAttemptPassesLock =>
          \A r \in Request : Attempt(r) /\ lockLeft' < lockLeft => r \in stale
    BY <1>1
<1> QED
    BY <1>2, TypeCorrect, NoFreshAttemptPassesLockCorrect, PTL
       DEF OnlyStaleEndsLock
-----------------------------------------------------------------------------
(* The bound on the guesses.                                               *)

\* The set of unanswered attempts is finite, and grows or shrinks with one
\* attempt by at most one.
LEMMA UnansweredFinite ==
    /\ IsFiniteSet(Unanswered)
    /\ Cardinality(Unanswered) \in Nat
    /\ Cardinality(Unanswered) <= Cardinality(Request)
<1>1. Unanswered \subseteq Request
    BY DEF Unanswered
<1>2. IsFiniteSet(Unanswered) /\ Cardinality(Unanswered) <= Cardinality(Request)
    BY <1>1, RequestAssumption, FS_Subset
<1> QED
    BY <1>2, FS_CardinalityType

\* An attempt whose guess turns out wrong becomes unanswered.
LEMMA UnansweredGrows ==
    ASSUME TypeOK, NEW r \in Request, pc[r] = "compare",
           pc' = [pc EXCEPT ![r] = "increment"]
    PROVE  Cardinality(Unanswered') = Cardinality(Unanswered) + 1
<1>1. Unanswered' = Unanswered \cup {r} /\ r \notin Unanswered
    BY DEF Unanswered, TypeOK
<1> QED
    BY <1>1, UnansweredFinite, FS_AddElement

\* An attempt that returns is answered.
LEMMA UnansweredShrinks ==
    ASSUME TypeOK, NEW r \in Unanswered, pc' = [pc EXCEPT ![r] = "idle"]
    PROVE  Cardinality(Unanswered') = Cardinality(Unanswered) - 1
<1>1. Unanswered' = Unanswered \ {r}
    BY DEF Unanswered, TypeOK
<1> QED
    BY <1>1, UnansweredFinite, FS_RemoveElement

\* The accounting of guesses is inductive.
LEMMA AccountingStep ==
    TypeOK /\ GuessesAccounted /\ [Next]_vars => GuessesAccounted'
<1> SUFFICES ASSUME TypeOK, GuessesAccounted, [Next]_vars
             PROVE  GuessesAccounted'
    OBVIOUS
<1> DEFINE C == Cardinality(Unanswered)
<1>0. C \in Nat
    BY UnansweredFinite
<1>0a. C' \in Nat
  <2>1. Unanswered' \subseteq Request
    BY DEF Unanswered
  <2> QED
    BY <2>1, RequestAssumption, FS_Subset, FS_CardinalityType
<1> USE ThresholdAssumption, MaxLostAssumption
    DEF TypeOK, GuessesAccounted, row, history, Goto, Return
<1>1. ASSUME UNCHANGED <<failed, exposed, lost>>, Unanswered' = Unanswered
      PROVE  GuessesAccounted'
    BY <1>1
<1>2. ASSUME exposed' = 0, failed' \in 0..Threshold, lost' = 0
      PROVE  GuessesAccounted'
    BY <1>0a, <1>2 DEF Min2
<1>3. ASSUME NEW r \in Unanswered, pc' = [pc EXCEPT ![r] = "idle"],
             lost' = lost + 1, UNCHANGED <<failed, exposed>>
      PROVE  GuessesAccounted'
  <2>1. C' = C - 1
    BY <1>3, UnansweredShrinks
  <2> QED
    BY <1>0, <1>3, <2>1 DEF Min2
<1>4. CASE UNCHANGED vars
    BY <1>1, <1>4 DEF vars, Unanswered
<1>5. CASE Tick
    BY <1>1, <1>5 DEF Tick, Unanswered
<1>6. ASSUME NEW r \in Request, Attempt(r) PROVE GuessesAccounted'
  <2>1. CASE RateLimited(r) \/ NoSuchUser(r) \/ LookupLocked(r) \/ Lookup(r)
    BY <1>1, <2>1
       DEF RateLimited, NoSuchUser, LookupLocked, Lookup, Unanswered
  <2>2. CASE CompareWrong(r)
    <3>1. C' = C + 1
        BY <2>2, UnansweredGrows DEF CompareWrong
    <3> QED
        BY <1>0, <2>2, <3>1 DEF CompareWrong, Min2
  <2>3. CASE Increment(r)
    <3>1. CASE failed + 1 >= Threshold
      <4>1. Unanswered' = Unanswered
        BY <2>3, <3>1 DEF Increment, Unanswered
      <4> QED
        BY <1>0, <2>3, <3>1, <4>1 DEF Increment, Min2
    <3>2. CASE ~(failed + 1 >= Threshold)
      <4>1. C' = C - 1
        BY <2>3, <3>2, UnansweredShrinks DEF Increment, Unanswered
      <4> QED
        BY <1>0, <2>3, <3>2, <4>1 DEF Increment, Min2
    <3> QED
        BY <3>1, <3>2
  <2>4. CASE Deadline(r)
    BY <1>1, <2>4 DEF Deadline, Unanswered
  <2>5. CASE LockAccount(r)
    BY <1>2, <2>5 DEF LockAccount
  <2>6. CASE Reset(r)
    BY <1>2, <2>6 DEF Reset
  <2>7. CASE StoreFails(r) \/ (Crash(r) /\ r \in Unanswered)
    BY <1>3, <2>7 DEF StoreFails, Crash, Unanswered
  <2>8. CASE Crash(r) /\ r \notin Unanswered
    BY <1>1, <2>8 DEF Crash, Unanswered
  <2>9. CASE CompareRight(r) \/ ResetFails(r) \/ OpenSession(r)
    BY <1>1, <2>9 DEF CompareRight, ResetFails, OpenSession, Unanswered
  <2> QED
    BY <1>6, <2>1, <2>2, <2>3, <2>4, <2>5, <2>6, <2>7, <2>8, <2>9 DEF Attempt
<1> QED
    BY <1>4, <1>5, <1>6 DEF Next

\* For every threshold and every number of concurrent attempts: a compared
\* guess is in the counter, its attempt is still in flight, or it was lost.
THEOREM GuessesAccountedCorrect == Spec => []GuessesAccounted
<1>1. Init => GuessesAccounted
  <2> SUFFICES ASSUME Init PROVE GuessesAccounted
    OBVIOUS
  <2>1. Cardinality(Unanswered) \in Nat
    BY UnansweredFinite
  <2> QED
    BY <2>1, ThresholdAssumption DEF Init, GuessesAccounted, Min2
<1> QED
    BY <1>1, AccountingStep, TypeCorrect, PTL DEF Spec

\* For every threshold and every number of concurrent attempts: between two
\* writes of the lock, at most Threshold - 1 + |Request| wrong guesses are
\* compared, and one more for every attempt that failed before it could lock.
THEOREM GuessesBoundedCorrect == Spec => []GuessesBounded
<1>1. TypeOK /\ GuessesAccounted => GuessesBounded
  <2> SUFFICES ASSUME TypeOK, GuessesAccounted PROVE GuessesBounded
    OBVIOUS
  <2>1. Cardinality(Request) \in Nat
    BY RequestAssumption, FS_CardinalityType
  <2> QED
    BY <2>1, UnansweredFinite, ThresholdAssumption, MaxLostAssumption
       DEF TypeOK, GuessesAccounted, GuessesBounded, GuessLimit, Min2
<1> QED
    BY <1>1, GuessesAccountedCorrect, TypeCorrect, PTL

=============================================================================
