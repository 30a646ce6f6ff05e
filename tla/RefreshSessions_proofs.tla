---------------------- MODULE RefreshSessions_proofs ----------------------
(***************************************************************************)
(* Proofs about RefreshSessions, for any sets of users, sessions and calls *)
(* in flight.  Everything rests on IndInv; its preservation is proved once *)
(* per action.                                                             *)
(***************************************************************************)
EXTENDS RefreshSessions, TLAPS

\* Every step keeps the variables in their types.
LEMMA TypeStep == IndInv /\ [Next]_vars => TypeOK'
<1> SUFFICES ASSUME TypeOK, CallInv, [Next]_vars PROVE TypeOK'
    BY DEF IndInv
<1> USE DEF TypeOK, Step, Operation, Answer, AuditEvent, table, rows
<1>1. CASE UNCHANGED vars
    BY <1>1 DEF vars
<1>2. ASSUME NEW r \in Request, Begin(r) PROVE TypeOK'
  <2>1. ASSUME NEW u \in User, NEW n \in SessionID, LoginCreate(r, u, n)
        PROVE TypeOK'
    BY <2>1 DEF LoginCreate, Insert, Goto
  <2>2. CASE RefreshInvalid(r)
    BY <2>2 DEF RefreshInvalid, Abandon, Goto
  <2>3. ASSUME NEW t \in SessionID, NEW n \in SessionID,
               RefreshLookupLive(r, t, n)
        PROVE TypeOK'
    BY <2>3 DEF RefreshLookupLive, Goto
  <2>4. ASSUME NEW t \in SessionID, RefreshLookupReused(r, t) PROVE TypeOK'
    BY <2>4 DEF RefreshLookupReused, Goto
  <2>5. ASSUME NEW u \in User, LogoutAll(r, u) PROVE TypeOK'
    BY <2>5 DEF LogoutAll, Goto, ListByUser
  <2>6. ASSUME NEW o \in {"logout", "session_revoke"}, NEW s \in SessionID,
               NEW u \in User, LogoutLookup(r, o, s, u)
        PROVE TypeOK'
    BY <2>6 DEF LogoutLookup, Goto
  <2>7. ASSUME NEW s \in SessionID, NEW u, LogoutRefused(r, s, u)
        PROVE TypeOK'
    BY <2>7 DEF LogoutRefused, Abandon, Goto
  <2> QED
    BY <1>2, <2>1, <2>2, <2>3, <2>4, <2>5, <2>6, <2>7 DEF Begin
<1>3. ASSUME NEW r \in Request, Advance(r) PROVE TypeOK'
  <2>1. CASE RotateUpdate(r)
    <3>1. arg[r] \in SessionID
        BY <2>1 DEF RotateUpdate
    <3> QED
        BY <2>1, <3>1 DEF RotateUpdate, Goto
  <2>2. CASE RotateRefused(r)
    BY <2>2 DEF RotateRefused, Abandon, Goto
  <2>3. CASE RotateCommit(r)
    <3>1. arg[r] \in SessionID /\ fresh[r] \in SessionID
        BY <2>3 DEF RotateCommit, CallInv
    <3> QED
        BY <2>3, <3>1 DEF RotateCommit, Insert, Goto
  <2>4. CASE RevokeFamily(r)
    BY <2>4 DEF RevokeFamily, LiveInFamily, Goto
  <2>5. ASSUME NEW s \in SessionID, LockRow(r, s) PROVE TypeOK'
    BY <2>5 DEF LockRow
  <2>6. CASE RevokeCommit(r)
    BY <2>6 DEF RevokeCommit, Goto
  <2>7. CASE DeadlockVictim(r)
    BY <2>7 DEF DeadlockVictim, Abandon, Goto
  <2>8. CASE RevokeOne(r)
    <3>1. arg[r] \in SessionID
        BY <2>8 DEF RevokeOne
    <3> QED
        BY <2>8, <3>1 DEF RevokeOne, Goto
  <2>9. CASE RevokeOneRefused(r)
    BY <2>9 DEF RevokeOneRefused, Abandon, Goto
  <2>10. CASE Record(r)
    BY <2>10 DEF Record, EventOf, AnswerOf, Goto
  <2>11. CASE Return(r)
    BY <2>11 DEF Return, Goto
  <2> QED
    BY <1>3, <2>1, <2>2, <2>3, <2>4, <2>5, <2>6, <2>7, <2>8, <2>9, <2>10,
       <2>11 DEF Advance
<1>4. ASSUME NEW r \in Request, Fail(r) PROVE TypeOK'
    BY <1>4 DEF Fail, Abandon, Goto
<1> QED
    BY <1>1, <1>2, <1>3, <1>4 DEF Next

\* An early return, with its rollback, keeps the invariant.
LEMMA AbandonStep ==
    ASSUME IndInv, TypeOK', NEW r \in Request, NEW a, Abandon(r, a),
           UNCHANGED table
    PROVE  IndInv'
<1> USE DEF IndInv, TypeOK, Step, table, rows, Abandon, Goto
<1>1. TableInv'
    BY DEF TableInv, AtMostOneLive
<1>2. LockInv'
    BY DEF LockInv
<1>3. CallInv'
    BY DEF CallInv
<1> QED
    BY <1>1, <1>2, <1>3

\* A login: the new row is a family of its own.
LEMMA LoginStep ==
    ASSUME IndInv, TypeOK', NEW r \in Request, NEW u \in User,
           NEW n \in SessionID, LoginCreate(r, u, n)
    PROVE  IndInv'
<1> USE DEF IndInv, TypeOK, Step, table, rows, LoginCreate, Insert, Goto
<1>0. n \notin rows /\ \A q \in Request : fresh[q] # n
    BY DEF Unseen
<1>1. TableInv'
    BY <1>0 DEF TableInv, AtMostOneLive
<1>2. LockInv'
    BY DEF LockInv
<1>3. CallInv'
    BY <1>0, NoSessionAssumption DEF CallInv
<1> QED
    BY <1>1, <1>2, <1>3

\* A rotation commits: the successor takes the place of the row whose lock
\* the transaction holds.
LEMMA RotateCommitStep ==
    ASSUME IndInv, TypeOK', NEW r \in Request, RotateCommit(r)
    PROVE  IndInv'
<1> USE DEF IndInv, TypeOK, Step, table, rows, RotateCommit, Insert, Goto
<1>0. /\ fresh[r] \in SessionID \ rows
      /\ arg[r] \in live
      /\ held[r] = {arg[r]}
      /\ seen[r] = {}
    BY DEF CallInv, LockInv
<1>1. TableInv'
    BY <1>0 DEF TableInv, AtMostOneLive
<1>2. LockInv'
    BY <1>0 DEF LockInv
<1>3. CallInv'
    BY <1>0, NoSessionAssumption DEF CallInv
<1> QED
    BY <1>1, <1>2, <1>3

\* A bulk revocation commits.
LEMMA RevokeCommitStep ==
    ASSUME IndInv, TypeOK', NEW r \in Request, RevokeCommit(r)
    PROVE  IndInv'
<1> USE DEF IndInv, TypeOK, Step, table, rows, RevokeCommit, Goto
<1>1. TableInv'
    BY DEF TableInv, AtMostOneLive, LockInv
<1>2. LockInv'
    BY DEF LockInv
<1>3. CallInv'
    BY DEF CallInv, Remaining, LockInv
<1> QED
    BY <1>1, <1>2, <1>3

\* A single revocation.
LEMMA RevokeOneStep ==
    ASSUME IndInv, TypeOK', NEW r \in Request, RevokeOne(r)
    PROVE  IndInv'
<1> USE DEF IndInv, TypeOK, Step, table, rows, RevokeOne, Goto
<1>1. TableInv'
    BY DEF TableInv, AtMostOneLive
<1>2. LockInv'
    BY DEF LockInv, LockedByOther
<1>3. CallInv'
    BY DEF CallInv
<1> QED
    BY <1>1, <1>2, <1>3


\* The steps that leave the table alone: lookups, snapshots and locks.
LEMMA QuietStep ==
    ASSUME IndInv, TypeOK', NEW r \in Request,
           \/ \E t, n \in SessionID : RefreshLookupLive(r, t, n)
           \/ \E t \in SessionID : RefreshLookupReused(r, t)
           \/ \E u \in User : LogoutAll(r, u)
           \/ \E o \in {"logout", "session_revoke"}, s \in SessionID, u \in User :
                 LogoutLookup(r, o, s, u)
           \/ RotateUpdate(r)
           \/ RevokeFamily(r)
           \/ \E s \in SessionID : LockRow(r, s)
           \/ Record(r)
           \/ Return(r)
    PROVE  IndInv'
<1> USE DEF IndInv, TypeOK, Step, table, rows, Goto
<1>1. ASSUME UNCHANGED table PROVE TableInv'
    BY <1>1 DEF TableInv, AtMostOneLive
<1>2. ASSUME NEW t \in SessionID, NEW n \in SessionID,
             RefreshLookupLive(r, t, n)
      PROVE  IndInv'
  <2>1. n \notin rows /\ \A q \in Request : fresh[q] # n
    BY <1>2 DEF RefreshLookupLive, Unseen
  <2>2. LockInv'
    BY <1>2 DEF RefreshLookupLive, LockInv
  <2>3. CallInv'
    BY <1>2, <2>1, NoSessionAssumption DEF RefreshLookupLive, CallInv
  <2> QED
    BY <1>1, <1>2, <2>2, <2>3 DEF RefreshLookupLive
<1>3. ASSUME NEW t \in SessionID, RefreshLookupReused(r, t) PROVE IndInv'
  <2>1. LockInv' /\ CallInv'
    BY <1>3 DEF RefreshLookupReused, LockInv, CallInv
  <2> QED
    BY <1>1, <1>3, <2>1 DEF RefreshLookupReused
<1>4. ASSUME NEW u \in User, LogoutAll(r, u) PROVE IndInv'
  <2>1. LockInv' /\ CallInv'
    BY <1>4 DEF LogoutAll, ListByUser, LockInv, CallInv
  <2> QED
    BY <1>1, <1>4, <2>1 DEF LogoutAll
<1>5. ASSUME NEW o \in {"logout", "session_revoke"}, NEW s \in SessionID,
             NEW u \in User, LogoutLookup(r, o, s, u)
      PROVE  IndInv'
  <2>1. LockInv' /\ CallInv'
    BY <1>5 DEF LogoutLookup, LockInv, CallInv
  <2> QED
    BY <1>1, <1>5, <2>1 DEF LogoutLookup
<1>6. CASE RotateUpdate(r)
  <2>1. LockInv'
    BY <1>6 DEF RotateUpdate, LockedByOther, LockInv
  <2>2. CallInv'
    BY <1>6 DEF RotateUpdate, CallInv
  <2> QED
    BY <1>1, <1>6, <2>1, <2>2 DEF RotateUpdate
<1>7. CASE RevokeFamily(r)
  <2>1. LockInv'
    BY <1>7 DEF RevokeFamily, LockInv
  <2>2. CallInv'
    BY <1>7 DEF RevokeFamily, LiveInFamily, CallInv, TableInv, AtMostOneLive
  <2> QED
    BY <1>1, <1>7, <2>1, <2>2 DEF RevokeFamily
<1>8. ASSUME NEW s \in SessionID, LockRow(r, s) PROVE IndInv'
  <2>1. LockInv'
    BY <1>8 DEF LockRow, Remaining, LockedByOther, LockInv
  <2>2. CallInv'
    BY <1>8 DEF LockRow, CallInv
  <2> QED
    BY <1>1, <1>8, <2>1, <2>2 DEF LockRow
<1>9. CASE Record(r)
  <2>1. LockInv' /\ CallInv'
    BY <1>9 DEF Record, LockInv, CallInv
  <2> QED
    BY <1>1, <1>9, <2>1 DEF Record
<1>10. CASE Return(r)
  <2>1. LockInv' /\ CallInv'
    BY <1>10 DEF Return, LockInv, CallInv
  <2> QED
    BY <1>1, <1>10, <2>1 DEF Return
<1> QED
    BY <1>2, <1>3, <1>4, <1>5, <1>6, <1>7, <1>8, <1>9, <1>10

\* IndInv is inductive.
LEMMA IndInvStep == IndInv /\ [Next]_vars => IndInv'
<1> SUFFICES ASSUME IndInv, [Next]_vars PROVE IndInv'
    OBVIOUS
<1>0. TypeOK'
    BY TypeStep
<1>1. CASE UNCHANGED vars
    BY <1>1 DEF vars, IndInv, TypeOK, TableInv, AtMostOneLive, LockInv,
                CallInv, rows
<1>2. ASSUME NEW r \in Request, Begin(r) PROVE IndInv'
  <2>1. ASSUME NEW u \in User, NEW n \in SessionID, LoginCreate(r, u, n)
        PROVE IndInv'
    BY <1>0, <2>1, LoginStep
  <2>2. CASE RefreshInvalid(r)
    BY <1>0, <2>2, AbandonStep DEF RefreshInvalid
  <2>3. ASSUME NEW s \in SessionID, NEW u, LogoutRefused(r, s, u)
        PROVE IndInv'
    BY <1>0, <2>3, AbandonStep DEF LogoutRefused
  <2> QED
    BY <1>0, <1>2, <2>1, <2>2, <2>3, QuietStep DEF Begin
<1>3. ASSUME NEW r \in Request, Advance(r) PROVE IndInv'
  <2>1. CASE RotateRefused(r)
    BY <1>0, <2>1, AbandonStep DEF RotateRefused
  <2>2. CASE RevokeOneRefused(r)
    BY <1>0, <2>2, AbandonStep DEF RevokeOneRefused
  <2>3. CASE DeadlockVictim(r)
    BY <1>0, <2>3, AbandonStep DEF DeadlockVictim
  <2> QED
    BY <1>0, <1>3, <2>1, <2>2, <2>3, QuietStep, RotateCommitStep,
       RevokeCommitStep, RevokeOneStep DEF Advance
<1>4. ASSUME NEW r \in Request, Fail(r) PROVE IndInv'
    BY <1>0, <1>4, AbandonStep DEF Fail
<1> QED
    BY <1>1, <1>2, <1>3, <1>4 DEF Next
-----------------------------------------------------------------------------
\* Every reachable state satisfies the inductive invariant: the locking of
\* RotateToken, Revoke, RevokeFamily and RevokeAllForUser is sound for any
\* number of calls in flight.
THEOREM IndInvCorrect == Spec => []IndInv
<1>1. Init => IndInv
    BY DEF Init, IndInv, TypeOK, Step, Operation, Answer, AuditEvent,
           TableInv, AtMostOneLive, LockInv, CallInv, rows
<1> QED
    BY <1>1, IndInvStep, PTL DEF Spec

\* The variables keep their types.
THEOREM TypeCorrect == Spec => []TypeOK
    BY IndInvCorrect, PTL DEF IndInv

\* No interleaving of refreshes, logouts, reuse responses and failures gives
\* a session family two redeemable refresh tokens.
THEOREM AtMostOneLiveCorrect == Spec => []AtMostOneLive
<1>1. IndInv => AtMostOneLive
    BY DEF IndInv, TableInv
<1> QED
    BY <1>1, IndInvCorrect, PTL

\* A call that reports a revocation has revoked every session that was live
\* when its statement began.
THEOREM RevocationEffectiveCorrect == Spec => []RevocationEffective
<1>1. IndInv => RevocationEffective
    BY DEF IndInv, CallInv, RevocationEffective
<1> QED
    BY <1>1, IndInvCorrect, PTL


\* The reuse response never waits while somebody waits for it: its statement
\* has at most one row, so it cannot be part of a deadlock.
THEOREM ReuseNeverDeadlocksCorrect == Spec => []ReuseNeverDeadlocks
<1>1. IndInv => ReuseNeverDeadlocks
  <2> SUFFICES ASSUME IndInv, NEW r \in Request, op[r] = "reuse",
                      Deadlocked(r)
               PROVE  FALSE
    BY DEF ReuseNeverDeadlocks
  <2>1. PICK q \in Request, p \in Request : WaitsFor(r, q) /\ WaitsFor(p, r)
    BY DEF Deadlocked
  <2>2. PICK s \in Remaining(r) : TRUE
    BY <2>1 DEF WaitsFor, Blocked
  <2>3. PICK t \in held[r] : TRUE
    BY <2>1 DEF WaitsFor
  <2>4. held[r] \subseteq seen[r]
    BY <2>1 DEF WaitsFor, Blocked, IndInv, LockInv
  <2>5. s = t
    BY <2>2, <2>3, <2>4 DEF Remaining, IndInv, CallInv
  <2> QED
    BY <2>2, <2>3, <2>5 DEF Remaining
<1> QED
    BY <1>1, IndInvCorrect, PTL
-----------------------------------------------------------------------------
\* The steps that change the table.
LEMMA TableSteps ==
    ASSUME [Next]_vars
    PROVE  \/ UNCHANGED table
           \/ \E r \in Request : \/ RotateCommit(r)
                                  \/ RevokeCommit(r)
                                  \/ RevokeOne(r)
                                  \/ \E u \in User, n \in SessionID :
                                        LoginCreate(r, u, n)
<1> USE DEF table
<1>1. CASE UNCHANGED vars
    BY <1>1 DEF vars
<1>2. ASSUME NEW r \in Request, Begin(r)
      PROVE  \/ UNCHANGED table
             \/ \E u \in User, n \in SessionID : LoginCreate(r, u, n)
    BY <1>2 DEF Begin, RefreshInvalid, RefreshLookupLive, RefreshLookupReused,
                LogoutAll, LogoutLookup, LogoutRefused
<1>3. ASSUME NEW r \in Request, Advance(r)
      PROVE  \/ UNCHANGED table
             \/ RotateCommit(r) \/ RevokeCommit(r) \/ RevokeOne(r)
    BY <1>3 DEF Advance, RotateUpdate, RotateRefused, RevokeFamily, LockRow,
                DeadlockVictim, RevokeOneRefused, Record, Return
<1>4. ASSUME NEW r \in Request, Fail(r) PROVE UNCHANGED table
    BY <1>4 DEF Fail
<1> QED
    BY <1>1, <1>2, <1>3, <1>4 DEF Next

\* A family without a live session never gets one again: no refresh in
\* flight brings a logged-out or compromised family back.
THEOREM DeadFamilyStaysDeadCorrect == Spec => DeadFamilyStaysDead
<1> DEFINE StaysDead(f) ==
        f \in rows /\ LiveInFamily(f) = {} => LiveInFamily(f)' = {}
<1>1. IndInv /\ [Next]_vars => \A f \in SessionID : StaysDead(f)
  <2> SUFFICES ASSUME IndInv, [Next]_vars, NEW f \in SessionID
               PROVE  StaysDead(f)
    OBVIOUS
  <2> USE DEF LiveInFamily, rows, table, IndInv, TypeOK
  <2>1. CASE UNCHANGED table
    BY <2>1
  <2>2. ASSUME NEW r \in Request, RotateCommit(r) PROVE StaysDead(f)
    <3>1. arg[r] \in live /\ fresh[r] \in SessionID \ rows
        BY <2>2 DEF RotateCommit, LockInv, CallInv
    <3>2. \A s \in live \ {arg[r]} : s \in SessionID /\ family'[s] = family[s]
        BY <2>2, <3>1 DEF RotateCommit, Insert
    <3>3. family'[fresh[r]] = family[arg[r]]
        BY <2>2, <3>1 DEF RotateCommit, Insert
    <3> QED
        BY <2>2, <3>1, <3>2, <3>3 DEF RotateCommit, LockInv
  <2>3. ASSUME NEW r \in Request, RevokeCommit(r) PROVE StaysDead(f)
    BY <2>3 DEF RevokeCommit
  <2>4. ASSUME NEW r \in Request, RevokeOne(r) PROVE StaysDead(f)
    BY <2>4 DEF RevokeOne
  <2>5. ASSUME NEW r \in Request, NEW u \in User, NEW n \in SessionID,
               LoginCreate(r, u, n)
        PROVE  StaysDead(f)
    BY <2>5 DEF LoginCreate, Insert, Unseen
  <2> QED
    BY <2>1, <2>2, <2>3, <2>4, <2>5, TableSteps
<1>2. IndInv /\ [Next]_vars => [\A f \in SessionID : StaysDead(f)]_vars
    BY <1>1
<1> QED
    BY <1>2, IndInvCorrect, PTL DEF Spec, DeadFamilyStaysDead

-----------------------------------------------------------------------------
(* The session layer implements SessionFamilies.                           *)

\* What the refinement mapping says of each family.
MappingFacts ==
    /\ \A s \in live : CurrentOf(family[s]) = s
    /\ \A f \in SessionID :
          /\ ~(f \in rows /\ family[f] = f) => CurrentOf(f) = "unused"
          /\ f \in rows /\ family[f] = f /\ LiveInFamily(f) = {}
                => CurrentOf(f) = "dead"
          /\ CurrentOf(f) \in SessionID
                => CurrentOf(f) \in live /\ family[CurrentOf(f)] = f

LEMMA Mapping == IndInv => MappingFacts
<1> SUFFICES ASSUME IndInv PROVE MappingFacts
    OBVIOUS
<1> USE DEF IndInv, TypeOK, TableInv, AtMostOneLive, LiveInFamily, rows
<1>1. ASSUME NEW s \in live PROVE CurrentOf(family[s]) = s
  <2>1. LiveInFamily(family[s]) = {s}
    OBVIOUS
  <2>2. family[s] \in rows /\ family[family[s]] = family[s]
    OBVIOUS
  <2>3. CurrentOf(family[s]) = CHOOSE x \in {s} : TRUE
    BY <2>1, <2>2 DEF CurrentOf
  <2>4. (CHOOSE x \in {s} : TRUE) = s
    OBVIOUS
  <2> QED
    BY <2>3, <2>4
<1>2. ASSUME NEW f \in SessionID, ~(f \in rows /\ family[f] = f)
      PROVE  CurrentOf(f) = "unused"
    BY <1>2 DEF CurrentOf
<1>3. ASSUME NEW f \in SessionID, f \in rows, family[f] = f,
             LiveInFamily(f) = {}
      PROVE  CurrentOf(f) = "dead"
    BY <1>3 DEF CurrentOf
<1>4. ASSUME NEW f \in SessionID, CurrentOf(f) \in SessionID
      PROVE  CurrentOf(f) \in live /\ family[CurrentOf(f)] = f
  <2>1. f \in rows /\ family[f] = f
    BY <1>2, <1>4, FamilyMarksAssumption
  <2>2. PICK s \in live : family[s] = f
    BY <1>3, <1>4, <2>1, FamilyMarksAssumption
  <2> QED
    BY <1>1, <2>2
<1> QED
    BY <1>1, <1>2, <1>3, <1>4 DEF MappingFacts

\* A family whose founding row and live row do not change keeps its image.
LEMMA SameImage ==
    ASSUME IndInv, IndInv', MappingFacts, MappingFacts', NEW f \in SessionID,
           f \in rows /\ family[f] = f <=> (f \in rows /\ family[f] = f)',
           \A s \in SessionID :
              s \in live /\ family[s] = f <=> (s \in live /\ family[s] = f)'
    PROVE  CurrentOf(f)' = CurrentOf(f)
<1> USE DEF IndInv, TypeOK
<1>1. CASE ~(f \in rows /\ family[f] = f)
    BY <1>1 DEF MappingFacts
<1>2. ASSUME NEW s \in live, family[s] = f PROVE CurrentOf(f)' = CurrentOf(f)
    BY <1>2 DEF MappingFacts
<1>3. CASE f \in rows /\ family[f] = f /\ LiveInFamily(f) = {}
  <2>1. (LiveInFamily(f) = {})'
    BY <1>3 DEF LiveInFamily
  <2> QED
    BY <1>3, <2>1 DEF MappingFacts
<1> QED
    BY <1>1, <1>2, <1>3 DEF LiveInFamily


\* The redeemable tokens of the abstract specification are the live rows.
LEMMA CurrentIsLive ==
    ASSUME IndInv, MappingFacts
    PROVE  Abstract!Current = live
<1> USE DEF IndInv, TypeOK, TableInv, rows
<1>1. ASSUME NEW s \in live
      PROVE  s \in {CurrentOf(f) : f \in SessionID} \cap SessionID
    BY DEF MappingFacts
<1>2. ASSUME NEW s \in {CurrentOf(f) : f \in SessionID} \cap SessionID
      PROVE  s \in live
    BY <1>2 DEF MappingFacts
<1> QED
    BY <1>1, <1>2 DEF Abstract!Current

\* A login opens a family.
LEMMA LoginOpens ==
    ASSUME IndInv, IndInv', MappingFacts, MappingFacts', NEW r \in Request,
           NEW u \in User, NEW n \in SessionID, LoginCreate(r, u, n)
    PROVE  Abstract!Open(n)
<1> USE DEF IndInv, TypeOK, rows, LoginCreate, Insert
<1>1. n \notin rows
    BY DEF Unseen
<1>2. CurrentOf(n) = "unused" /\ CurrentOf(n)' = n
    BY <1>1 DEF MappingFacts
<1>3. ASSUME NEW f \in SessionID \ {n} PROVE CurrentOf(f)' = CurrentOf(f)
    BY <1>1, SameImage
<1>4. [f \in SessionID |-> CurrentOf(f)]'
        = [[f \in SessionID |-> CurrentOf(f)] EXCEPT ![n] = n]
    BY <1>2, <1>3
<1>5. n \notin Abstract!Current \cup revoked
    BY <1>1, CurrentIsLive
<1> QED
    BY <1>2, <1>4, <1>5 DEF Abstract!Open

\* A committed rotation is an abstract rotation of the family.
LEMMA CommitRotates ==
    ASSUME IndInv, IndInv', MappingFacts, MappingFacts', NEW r \in Request,
           RotateCommit(r)
    PROVE  Abstract!Rotate(family[arg[r]], fresh[r])
<1> USE DEF IndInv, TypeOK, rows, RotateCommit, Insert
<1>0. PICK a \in SessionID, n \in SessionID, g \in SessionID :
          a = arg[r] /\ n = fresh[r] /\ g = family[arg[r]]
    BY DEF CallInv
<1>1. /\ held[r] = {a} /\ a \in live
      /\ n \notin rows
      /\ g \in rows /\ g # n /\ family[g] = g
    BY <1>0 DEF LockInv, CallInv, TableInv
<1>2. CurrentOf(g) = a
    BY <1>0, <1>1 DEF MappingFacts
<1>3. /\ family'[n] = g /\ n \in live'
      /\ \A s \in SessionID \ {n} : family'[s] = family[s]
    BY <1>0, <1>1
<1>4. CurrentOf(g)' = n
    BY <1>3 DEF MappingFacts
<1>5. ASSUME NEW f \in SessionID \ {g} PROVE CurrentOf(f)' = CurrentOf(f)
  <2>1. f \in rows /\ family[f] = f <=> (f \in rows /\ family[f] = f)'
    BY <1>0, <1>1, <1>3
  <2>2. \A s \in SessionID :
          s \in live /\ family[s] = f <=> (s \in live /\ family[s] = f)'
    BY <1>0, <1>1, <1>3
  <2> QED
    BY <2>1, <2>2, SameImage
<1>6. [f \in SessionID |-> CurrentOf(f)]'
        = [[f \in SessionID |-> CurrentOf(f)] EXCEPT ![g] = n]
    BY <1>4, <1>5
<1>7. n \notin Abstract!Current \cup revoked
    BY <1>1, CurrentIsLive
<1> QED
    BY <1>0, <1>1, <1>2, <1>6, <1>7 DEF Abstract!Rotate

\* Revoking a set of live rows kills their families.
LEMMA RevokingKills ==
    ASSUME IndInv, IndInv', MappingFacts, MappingFacts',
           NEW H \in SUBSET live,
           live' = live \ H, revoked' = revoked \cup H, family' = family
    PROVE  Abstract!Kill({family[s] : s \in H})
<1> USE DEF IndInv, TypeOK, TableInv, rows
<1>a. {family[s] : s \in H} \in SUBSET SessionID
    OBVIOUS
<1> PICK F \in SUBSET SessionID : F = {family[s] : s \in H}
    BY <1>a
<1>0. rows' = rows
    OBVIOUS
<1>1. ASSUME NEW s \in H
      PROVE  /\ CurrentOf(family[s]) = s
             /\ CurrentOf(family[s])' = "dead"
  <2>1. CurrentOf(family[s]) = s
    BY DEF MappingFacts
  <2>2. family[s] \in rows /\ family[family[s]] = family[s]
    OBVIOUS
  <2>3. (LiveInFamily(family[s]) = {})'
    BY DEF LiveInFamily, AtMostOneLive
  <2> QED
    BY <1>0, <2>1, <2>2, <2>3 DEF MappingFacts
<1>2. ASSUME NEW f \in SessionID \ F PROVE CurrentOf(f)' = CurrentOf(f)
    BY <1>0, SameImage
<1>3. \A f \in F : f \in SessionID /\ CurrentOf(f) \in SessionID
    BY <1>1
<1>4. [f \in SessionID |-> CurrentOf(f)]'
        = [f \in SessionID |-> IF f \in F THEN "dead" ELSE CurrentOf(f)]
    BY <1>1, <1>2
<1>5. \A f \in F : [g \in SessionID |-> CurrentOf(g)][f] = CurrentOf(f)
    BY <1>3
<1>6. H = {s \in SessionID :
              \E f \in F : s = [g \in SessionID |-> CurrentOf(g)][f]}
  <2>1. \A s \in H : s \in SessionID /\ \E f \in F : s = CurrentOf(f)
    BY <1>1
  <2>2. \A f \in F : CurrentOf(f) \in H
    BY <1>1
  <2>3. H = {s \in SessionID : \E f \in F : s = CurrentOf(f)}
    BY <2>1, <2>2
  <2> QED
    BY <1>5, <2>3
<1>7. [f \in SessionID |->
          IF f \in F THEN "dead" ELSE [g \in SessionID |-> CurrentOf(g)][f]]
        = [f \in SessionID |-> IF f \in F THEN "dead" ELSE CurrentOf(f)]
    OBVIOUS
<1>8. Abstract!Kill(F)
    BY <1>3, <1>4, <1>5, <1>6, <1>7 DEF Abstract!Kill
<1> QED
    BY <1>8

\* For every number of users, sessions and calls in flight, the session layer
\* over Postgres behaves as SessionFamilies: rotation is atomic, a spent
\* token is never redeemable again, a revoked family stays closed.
THEOREM Refinement == Spec => ImplementsSessionFamilies
<1>1. Init => Abstract!Init
    BY DEF Init, Abstract!Init, CurrentOf, rows
<1>2. IndInv /\ IndInv' /\ MappingFacts /\ MappingFacts' /\ [Next]_vars
        => [Abstract!Next]_(Abstract!vars)
  <2> SUFFICES ASSUME IndInv, IndInv', MappingFacts, MappingFacts',
                      [Next]_vars
               PROVE  [Abstract!Next]_(Abstract!vars)
    OBVIOUS
  <2> USE DEF IndInv, TypeOK, Abstract!Next, Abstract!vars
  <2>1. CASE UNCHANGED table
    <3>1. ASSUME NEW f \in SessionID PROVE CurrentOf(f)' = CurrentOf(f)
        BY <2>1 DEF table, CurrentOf, LiveInFamily, rows
    <3> QED
        BY <2>1, <3>1 DEF table
  <2>2. ASSUME NEW r \in Request, RotateCommit(r)
        PROVE  Abstract!Next
    <3>1. family[arg[r]] \in SessionID /\ fresh[r] \in SessionID
        BY <2>2 DEF RotateCommit, CallInv, rows
    <3> QED
        BY <2>2, <3>1, CommitRotates
  <2>3. ASSUME NEW r \in Request, RevokeCommit(r)
        PROVE  Abstract!Next
    <3>1. held[r] \subseteq live
        BY DEF LockInv
    <3>2. Abstract!Kill({family[s] : s \in held[r]})
        BY <2>3, <3>1, RevokingKills DEF RevokeCommit
    <3>3. {family[s] : s \in held[r]} \in SUBSET SessionID
        BY <3>1
    <3> QED
        BY <3>2, <3>3
  <2>4. ASSUME NEW r \in Request, RevokeOne(r)
        PROVE  Abstract!Next
    <3>1. {arg[r]} \subseteq live
        BY <2>4 DEF RevokeOne
    <3>2. Abstract!Kill({family[s] : s \in {arg[r]}})
        BY <2>4, <3>1, RevokingKills DEF RevokeOne
    <3>3. {family[s] : s \in {arg[r]}} \in SUBSET SessionID
        BY <3>1
    <3> QED
        BY <3>2, <3>3
  <2>5. ASSUME NEW r \in Request, NEW u \in User, NEW n \in SessionID,
               LoginCreate(r, u, n)
        PROVE  Abstract!Next
    BY <2>5, LoginOpens
  <2> QED
    BY <2>1, <2>2, <2>3, <2>4, <2>5, TableSteps
<1> QED
    BY <1>1, <1>2, IndInvCorrect, Mapping, PTL
       DEF Spec, ImplementsSessionFamilies, Abstract!Spec

=============================================================================
