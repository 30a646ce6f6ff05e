-------------------------- MODULE Accounts_proofs --------------------------
(***************************************************************************)
(* Proofs about Accounts, for any sets of families and calls in flight and *)
(* any TTL.                                                                *)
(***************************************************************************)
EXTENDS Accounts, TLAPS

\* Only ChangePassword updates, and the history is about open families: a
\* family that opens is not in it.
Bookkeeping ==
    /\ \A r \in Request : pc[r] = "update" => op[r] = "change"
    /\ old \cup raced \cup unrevoked \subseteq open

\* The properties, and what they need to be inductive.
Safe ==
    /\ Bookkeeping
    /\ GoneMeansGone
    /\ OldSessionsCovered
    /\ DeletionEventHonest

\* The inductive invariant behind the theorems.
IndInv == TypeOK /\ Safe

\* Init establishes it.
LEMMA InitInv == Init => IndInv
<1> SUFFICES ASSUME Init PROVE IndInv
    OBVIOUS
<1>1. TypeOK
  <2>1. access \in 0..TTL
    BY TTLAssumption DEF Init
  <2> QED
    BY <2>1 DEF Init, TypeOK, Step, Operation
<1>2. Bookkeeping /\ GoneMeansGone /\ OldSessionsCovered
    BY DEF Init, Bookkeeping, GoneMeansGone, OldSessionsCovered, rows
<1>3. DeletionEventHonest
    BY DEF Init, DeletionEventHonest
<1> QED
    BY <1>1, <1>2, <1>3 DEF IndInv, Safe

\* What Record adds and Delete rewrites are audit events.
LEMMA EventType ==
    /\ \A r \in Request :
          [type |-> EventOf(op[r]), attributed |-> TRUE] \in AuditEvent
    /\ \A e \in AuditEvent : [type |-> e.type, attributed |-> FALSE] \in AuditEvent
    BY DEF AuditEvent, EventOf

\* Every step keeps the types.
LEMMA TypeStep == TypeOK /\ [Next]_vars => TypeOK'
<1> SUFFICES ASSUME TypeOK, [Next]_vars PROVE TypeOK'
    OBVIOUS
<1> USE TTLAssumption DEF TypeOK, Step, Operation, tables, history, Goto, Begin,
                          Return
<1>1. CASE Tick
    BY <1>1 DEF Tick
<1>2. ASSUME NEW r \in Request, NEW f \in Family, Kill(r, f) PROVE TypeOK'
    BY <1>2 DEF Kill, Close
<1>3. ASSUME NEW r \in Request, Advance(r) PROVE TypeOK'
  <2>1. ASSUME NEW f \in Family, LoginCreate(r, f) PROVE TypeOK'
    BY <2>1 DEF LoginCreate
  <2>2. CASE LoginCreateRefused(r) \/ Issue(r)
    BY <2>2 DEF LoginCreateRefused, Issue
  <2>3. CASE UpdatePassword(r) \/ UpdateRefused(r)
    BY <2>3 DEF UpdatePassword, UpdateRefused
  <2>4. CASE RevokeAllForUser(r) \/ RevokeCommit(r)
    BY <2>4 DEF RevokeAllForUser, RevokeCommit, Close
  <2>5. CASE RevokeFails(r)
    BY <2>5 DEF RevokeFails, Uncovered
  <2>6. CASE Record(r)
    <3>1. trail' \subseteq AuditEvent
        BY <2>6, EventType DEF Record
    <3> QED
        BY <2>6, <3>1 DEF Record
  <2>7. CASE Delete(r)
    <3>1. trail' \subseteq AuditEvent
        BY <2>7, EventType DEF Delete
    <3> QED
        BY <2>7, <3>1 DEF Delete
  <2>8. CASE DeleteRefused(r)
    BY <2>8 DEF DeleteRefused
  <2> QED
    BY <1>3, <2>1, <2>2, <2>3, <2>4, <2>5, <2>6, <2>7, <2>8 DEF Advance
<1>4. ASSUME NEW r \in Request, NEW f \in Family, Rotate(r, f) PROVE TypeOK'
    BY <1>4 DEF Rotate
<1>5. ASSUME NEW r \in Request, LoginAccepted(r) \/ LoginWrong(r) \/ LogoutAll(r)
      PROVE  TypeOK'
    BY <1>5 DEF LoginAccepted, LoginWrong, LogoutAll
<1>6. ASSUME NEW r \in Request, NEW o \in {"change", "delete"}, Confirmed(r, o)
      PROVE  TypeOK'
    BY <1>6 DEF Confirmed
<1>7. ASSUME NEW r \in Request, Fail(r) PROVE TypeOK'
    BY <1>7 DEF Fail, Uncovered
<1>8. CASE UNCHANGED vars
    BY <1>8 DEF vars
<1> QED
    BY <1>1, <1>2, <1>3, <1>4, <1>5, <1>6, <1>7, <1>8 DEF Next

\* The steps that end a call or move it on, and leave the tables alone.
LEMMA QuietStep ==
    ASSUME IndInv, NEW r \in Request, NEW step \in Step \ {"update"},
           pc' = [pc EXCEPT ![r] = step],
           \A q \in Request \ {r} : op'[q] = op[q] /\ seen'[q] = seen[q],
           pc[r] \notin {"revoke", "revoking", "delete"},
           UNCHANGED <<exists, open, closed, trail, old, raced, unrevoked, botched>>
    PROVE  Safe'
<1> USE DEF IndInv, TypeOK, Safe
<1>1. Bookkeeping'
    BY DEF Bookkeeping, rows
<1>2. GoneMeansGone'
    BY DEF GoneMeansGone, rows
<1>3. OldSessionsCovered'
    BY DEF OldSessionsCovered, Covering
<1>4. DeletionEventHonest'
    BY DEF DeletionEventHonest
<1> QED
    BY <1>1, <1>2, <1>3, <1>4

\* The revocation of ChangePassword: what a call that gives it up leaves open
\* is unrevoked.
LEMMA GiveUpStep ==
    ASSUME IndInv, NEW r \in Request, NEW step \in {"record", "idle"},
           pc' = [pc EXCEPT ![r] = step], unrevoked' = unrevoked \cup Uncovered(r),
           \A q \in Request \ {r} : op'[q] = op[q] /\ seen'[q] = seen[q],
           UNCHANGED <<old, raced>>
    PROVE  OldSessionsCovered'
<1> SUFFICES ASSUME NEW f \in old' \ (raced' \cup unrevoked')
             PROVE  \E q \in Request :
                        /\ op'[q] = "change"
                        /\ \/ pc'[q] = "revoke"
                           \/ pc'[q] = "revoking" /\ f \in seen'[q]
    BY DEF OldSessionsCovered, Covering
<1>1. PICK q \in Request : /\ op[q] = "change"
                           /\ \/ pc[q] = "revoke"
                              \/ pc[q] = "revoking" /\ f \in seen[q]
    BY DEF IndInv, Safe, OldSessionsCovered, Covering
<1>2. q # r
    BY <1>1 DEF Uncovered
<1> QED
    BY <1>1, <1>2 DEF IndInv, TypeOK

\* Login, RefreshToken and the beginning of LogoutAll.
LEMMA LoginStep ==
    ASSUME IndInv, NEW r \in Request,
           \/ LoginAccepted(r) \/ LoginWrong(r) \/ LogoutAll(r)
           \/ LoginCreateRefused(r) \/ Issue(r)
           \/ \E f \in Family : LoginCreate(r, f) \/ Rotate(r, f)
    PROVE  Safe'
<1> USE DEF tables, history, Goto, Begin, Return
<1>1. CASE LoginAccepted(r) \/ LoginWrong(r) \/ LogoutAll(r)
    BY <1>1, QuietStep
       DEF LoginAccepted, LoginWrong, LogoutAll, IndInv, TypeOK, Step
<1>2. CASE LoginCreateRefused(r)
    BY <1>2, QuietStep DEF LoginCreateRefused, IndInv, TypeOK, Step
<1>3. CASE Issue(r)
    BY <1>3, QuietStep DEF Issue, IndInv, TypeOK, Step
<1>4. ASSUME NEW f \in Family, LoginCreate(r, f) PROVE Safe'
  <2> USE <1>4 DEF LoginCreate, IndInv, Safe, TypeOK
  <2>1. f \notin old \cup raced \cup unrevoked
    BY DEF Bookkeeping, rows
  <2>2. Bookkeeping'
    BY DEF Bookkeeping, rows
  <2>3. GoneMeansGone'
    BY DEF GoneMeansGone
  <2>4. OldSessionsCovered'
    <3>1. ASSUME NEW g \in Family PROVE Covering(g) \subseteq Covering(g)'
        BY DEF Covering
    <3>2. Pending => Covering(f)' # {}
        BY DEF Covering, Pending
    <3> QED
        BY <2>1, <3>1, <3>2 DEF OldSessionsCovered
  <2>5. DeletionEventHonest'
    BY DEF DeletionEventHonest
  <2> QED
    BY <2>2, <2>3, <2>4, <2>5
<1>5. ASSUME NEW f \in Family, Rotate(r, f) PROVE Safe'
  <2> USE <1>5 DEF Rotate, IndInv, Safe, TypeOK
  <2>1. Bookkeeping' /\ GoneMeansGone'
    BY DEF Bookkeeping, GoneMeansGone, rows
  <2>2. OldSessionsCovered'
    <3>1. ASSUME NEW g \in Family, g # f PROVE Covering(g) \subseteq Covering(g)'
        BY <3>1 DEF Covering
    <3>2. Pending => Covering(f)' # {}
        BY DEF Covering, Pending
    <3>3. ~Pending /\ Covering(f) # {} => f \in raced'
        BY DEF Covering, Pending
    <3> QED
        BY <3>1, <3>2, <3>3 DEF OldSessionsCovered
  <2>3. DeletionEventHonest'
    BY DEF DeletionEventHonest
  <2> QED
    BY <2>1, <2>2, <2>3
<1> QED
    BY <1>1, <1>2, <1>3, <1>4, <1>5

\* ChangePassword and DeleteAccount up to the end of the revocation.
LEMMA RevokeStep ==
    ASSUME IndInv, NEW r \in Request,
           \/ \E o \in {"change", "delete"} : Confirmed(r, o)
           \/ UpdatePassword(r) \/ UpdateRefused(r)
           \/ RevokeAllForUser(r) \/ RevokeCommit(r) \/ RevokeFails(r)
    PROVE  Safe'
<1> USE DEF tables, history, Goto, Begin, Return
<1>1. CASE Confirmed(r, "delete")
    BY <1>1, QuietStep DEF Confirmed, IndInv, TypeOK, Step
<1>2. CASE Confirmed(r, "change")
  <2> USE <1>2 DEF Confirmed, IndInv, Safe, TypeOK
  <2>1. Bookkeeping' /\ GoneMeansGone'
    BY DEF Bookkeeping, GoneMeansGone, rows
  <2>2. OldSessionsCovered'
    BY DEF OldSessionsCovered, Covering
  <2>3. DeletionEventHonest'
    BY DEF DeletionEventHonest
  <2> QED
    BY <2>1, <2>2, <2>3
<1>3. CASE UpdatePassword(r)
  <2> USE <1>3 DEF UpdatePassword, IndInv, Safe, TypeOK
  <2>1. Bookkeeping' /\ GoneMeansGone'
    BY DEF Bookkeeping, GoneMeansGone, rows
  <2>2. op'[r] = "change" /\ pc'[r] = "revoke"
    BY DEF Bookkeeping
  <2>3. OldSessionsCovered'
    BY <2>2 DEF OldSessionsCovered, Covering
  <2>4. DeletionEventHonest'
    BY DEF DeletionEventHonest
  <2> QED
    BY <2>1, <2>3, <2>4
<1>4. CASE UpdateRefused(r)
    BY <1>4, QuietStep DEF UpdateRefused, IndInv, TypeOK, Step
<1>5. CASE RevokeAllForUser(r)
  <2> USE <1>5 DEF RevokeAllForUser, IndInv, Safe, TypeOK
  <2>1. Bookkeeping' /\ GoneMeansGone'
    BY DEF Bookkeeping, GoneMeansGone, rows
  <2>2. OldSessionsCovered'
    <3>1. ASSUME NEW f \in old PROVE Covering(f) \subseteq Covering(f)'
        BY DEF Covering, Bookkeeping
    <3> QED
        BY <3>1 DEF OldSessionsCovered
  <2>3. DeletionEventHonest'
    BY DEF DeletionEventHonest
  <2> QED
    BY <2>1, <2>2, <2>3
<1>6. CASE RevokeCommit(r)
  <2> USE <1>6 DEF RevokeCommit, Close, IndInv, Safe, TypeOK
  <2>1. rows' = rows
    BY DEF rows
  <2>2. Bookkeeping' /\ GoneMeansGone'
    BY <2>1 DEF Bookkeeping, GoneMeansGone
  <2>3. OldSessionsCovered'
    BY DEF OldSessionsCovered, Covering
  <2>4. DeletionEventHonest'
    BY DEF DeletionEventHonest
  <2> QED
    BY <2>2, <2>3, <2>4
<1>7. CASE RevokeFails(r)
  <2> USE <1>7 DEF RevokeFails
  <2>1. OldSessionsCovered'
    BY GiveUpStep DEF IndInv, TypeOK
  <2> USE DEF IndInv, Safe, TypeOK
  <2>2. Bookkeeping' /\ GoneMeansGone'
    BY DEF Bookkeeping, GoneMeansGone, rows, Uncovered
  <2>3. DeletionEventHonest'
    BY DEF DeletionEventHonest
  <2> QED
    BY <2>1, <2>2, <2>3
<1> QED
    BY <1>1, <1>2, <1>3, <1>4, <1>5, <1>6, <1>7

\* The event, the deletion, and a call that fails on the way.
LEMMA EndStep ==
    ASSUME IndInv, NEW r \in Request,
           Record(r) \/ Delete(r) \/ DeleteRefused(r) \/ Fail(r)
    PROVE  Safe'
<1> USE DEF tables, history, Goto, Return, IndInv, Safe, TypeOK
<1>1. CASE Record(r)
  <2> USE <1>1 DEF Record
  <2>1. Bookkeeping'
    BY DEF Bookkeeping, rows
  <2>2. GoneMeansGone'
    BY DEF GoneMeansGone, rows
  <2>3. OldSessionsCovered'
    BY DEF OldSessionsCovered, Covering
  <2>4. DeletionEventHonest'
    <3>1. CASE op[r] = "delete"
        BY <3>1 DEF DeletionEventHonest
    <3>2. CASE op[r] # "delete"
      <4>1. [type |-> EventOf(op[r]), attributed |-> TRUE]
                # [type |-> "account_deleted", attributed |-> TRUE]
        BY <3>2 DEF EventOf
      <4> QED
        BY <3>2, <4>1 DEF DeletionEventHonest
    <3> QED
        BY <3>1, <3>2
  <2> QED
    BY <2>1, <2>2, <2>3, <2>4
<1>2. CASE Delete(r)
  <2> USE <1>2 DEF Delete
  <2>1. Bookkeeping'
    BY DEF Bookkeeping
  <2>2. GoneMeansGone'
    BY DEF GoneMeansGone, rows
  <2>3. OldSessionsCovered' /\ DeletionEventHonest'
    BY DEF OldSessionsCovered, Covering, DeletionEventHonest
  <2> QED
    BY <2>1, <2>2, <2>3
<1>3. CASE DeleteRefused(r)
  <2> USE <1>3 DEF DeleteRefused
  <2>1. Bookkeeping' /\ GoneMeansGone'
    BY DEF Bookkeeping, GoneMeansGone, rows
  <2>2. OldSessionsCovered'
    BY DEF OldSessionsCovered, Covering
  <2>3. DeletionEventHonest'
    BY DEF DeletionEventHonest
  <2> QED
    BY <2>1, <2>2, <2>3
<1>4. CASE Fail(r)
  <2> USE <1>4 DEF Fail
  <2>1. Bookkeeping' /\ GoneMeansGone'
    BY DEF Bookkeeping, GoneMeansGone, rows, Uncovered
  <2>2. OldSessionsCovered'
    BY GiveUpStep
  <2>3. DeletionEventHonest'
    BY DEF DeletionEventHonest
  <2> QED
    BY <2>1, <2>2, <2>3
<1> QED
    BY <1>1, <1>2, <1>3, <1>4

\* Every step keeps the invariant.
LEMMA IndInvStep == IndInv /\ [Next]_vars => IndInv'
<1> SUFFICES ASSUME IndInv, [Next]_vars PROVE Safe'
    BY TypeStep DEF IndInv
<1> USE DEF IndInv, Safe, TypeOK
<1>1. ASSUME UNCHANGED <<tables, pc, op, seen, history>> PROVE Safe'
    BY <1>1 DEF tables, history, Bookkeeping, GoneMeansGone, rows,
                OldSessionsCovered, Covering, DeletionEventHonest
<1>2. ASSUME NEW r \in Request, NEW f \in Family, Kill(r, f) PROVE Safe'
  <2> USE <1>2 DEF Kill, Close, Begin
  <2>1. rows' = rows
    BY DEF rows
  <2>2. Bookkeeping' /\ GoneMeansGone'
    BY <2>1 DEF Bookkeeping, GoneMeansGone
  <2>3. OldSessionsCovered' /\ DeletionEventHonest'
    BY DEF OldSessionsCovered, Covering, DeletionEventHonest
  <2> QED
    BY <2>2, <2>3
<1>3. CASE Tick \/ UNCHANGED vars
    BY <1>1, <1>3 DEF Tick, vars, tables, history
<1> HIDE DEF IndInv, Safe, TypeOK
<1> QED
    BY <1>2, <1>3, LoginStep, RevokeStep, EndStep DEF Next, Advance

\* The inductive invariant holds of every reachable state.
THEOREM IndInvCorrect == Spec => []IndInv
    BY InitInv, IndInvStep, PTL DEF Spec

\* Type correctness of the tables and of the calls in flight.
THEOREM TypeCorrect == Spec => []TypeOK
    BY IndInvCorrect, PTL DEF IndInv

\* A deleted account leaves nothing behind, whatever was in flight.
THEOREM GoneMeansGoneCorrect == Spec => []GoneMeansGone
    BY IndInvCorrect, PTL DEF IndInv, Safe

\* A session opened with a replaced password is being revoked, or it raced the
\* last password change, or its revocation failed.
THEOREM OldSessionsCoveredCorrect == Spec => []OldSessionsCovered
    BY IndInvCorrect, PTL DEF IndInv, Safe

\* The trail says deleted of an existing account only for the length of one
\* statement, or after that statement has failed.
THEOREM DeletionEventHonestCorrect == Spec => []DeletionEventHonest
    BY IndInvCorrect, PTL DEF IndInv, Safe
=============================================================================
