------------------------ MODULE EmailChange_proofs ------------------------
(***************************************************************************)
(* Proofs about EmailChange, for any sets of users, addresses, tokens and  *)
(* calls in flight.                                                        *)
(***************************************************************************)
EXTENDS EmailChange, TLAPS

\* What a call in flight knows of the tokens table: its token exists, has the
\* call's user and address, and has been mailed once the call may apply it.
CallInv ==
    /\ \A r \in Request :
          /\ pc[r] = "create" => addr[r] \in Email
          /\ pc[r] = "issue" => who[r] \in User /\ addr[r] \in Email
          /\ pc[r] \in {"send", "update", "mark"} =>
                /\ arg[r] \in Token /\ who[r] \in User /\ addr[r] \in Email
                /\ newOwner[arg[r]] = who[r] /\ newEmail[arg[r]] = addr[r]
          /\ pc[r] \in {"update", "mark"} => arg[r] \in mailed
    /\ \A t \in mailed : newOwner[t] \in User /\ newEmail[t] \in Email

\* Only who has signed up has an address or a token, now or before.
KnownInv ==
    /\ \A u \in User : Exists(u) => signedUp[u] # NoEmail
    /\ \A t \in Created : signedUp[newOwner[t]] # NoEmail

\* The inductive invariant behind the theorems.
IndInv == TypeOK /\ CallInv /\ KnownInv /\ EmailsUnique /\ AddressProved

\* Init establishes it.
LEMMA InitInv == Init => IndInv
    BY AbsentAssumption DEF Init, IndInv, TypeOK, Step, Answer, CallInv,
                            KnownInv, EmailsUnique, AddressProved, Exists,
                            Created

\* A step that leaves the users and tokens alone keeps it if it moves the
\* call to a step it knows enough for.
LEMMA ReturnStep ==
    ASSUME IndInv, NEW r \in Request, NEW a \in Answer, Return(r, a),
           UNCHANGED <<users, tokens>>
    PROVE  IndInv'
<1> USE DEF IndInv, users, tokens, Return
<1>1. TypeOK'
    BY DEF TypeOK, Step
<1>2. CallInv'
    BY DEF CallInv, TypeOK
<1>3. KnownInv' /\ EmailsUnique' /\ AddressProved'
    BY DEF KnownInv, EmailsUnique, AddressProved, Exists, Created
<1> QED
    BY <1>1, <1>2, <1>3

\* SignUp keeps it: the UNIQUE constraint decides what the lookup cannot.
LEMMA SignUpStep ==
    ASSUME IndInv, NEW r \in Request,
           \/ SignUpRateLimited(r)
           \/ \E e \in Email : SignUpTaken(r, e) \/ SignUpLookup(r, e)
           \/ \E u \in User : SignUpCreate(r, u)
           \/ SignUpConflict(r)
    PROVE  IndInv'
<1>1. CASE SignUpRateLimited(r) \/ SignUpConflict(r)
    BY <1>1, ReturnStep DEF SignUpRateLimited, SignUpConflict, Answer
<1>2. ASSUME NEW e \in Email, SignUpTaken(r, e) PROVE IndInv'
    BY <1>2, ReturnStep DEF SignUpTaken, Answer
<1>3. ASSUME NEW e \in Email, SignUpLookup(r, e) PROVE IndInv'
  <2> USE <1>3 DEF SignUpLookup, Goto, IndInv, users, tokens, TypeOK
  <2>1. TypeOK'
    BY DEF Step, Answer
  <2>2. CallInv'
    BY DEF CallInv
  <2>3. KnownInv' /\ EmailsUnique' /\ AddressProved'
    BY DEF KnownInv, EmailsUnique, AddressProved, Exists, Created
  <2> QED
    BY <2>1, <2>2, <2>3
<1>4. ASSUME NEW u \in User, SignUpCreate(r, u) PROVE IndInv'
  <2> USE <1>4 DEF SignUpCreate, Return, IndInv, tokens, TypeOK
  <2>0. addr[r] \in Email
    BY DEF CallInv
  <2>1. TypeOK'
    BY <2>0 DEF Step, Answer
  <2>2. CallInv'
    BY DEF CallInv
  <2>3. EmailsUnique'
    BY <2>0 DEF EmailsUnique, Taken, Exists
  <2>4. AddressProved'
    BY <2>0 DEF AddressProved, Exists
  <2>5. KnownInv'
    BY <2>0, AbsentAssumption DEF KnownInv, Exists, Created
  <2> QED
    BY <2>1, <2>2, <2>3, <2>4, <2>5
<1> QED
    BY <1>1, <1>2, <1>3, <1>4

\* RequestEmailChange keeps it: it writes a token and no address.
LEMMA RequestStep ==
    ASSUME IndInv, NEW r \in Request,
           \/ \E u \in User, e \in Email :
                 RequestTaken(r, u, e) \/ RequestLookup(r, u, e)
           \/ \E t \in Token : RequestIssue(r, t)
           \/ RequestNoUser(r) \/ RequestSend(r) \/ RequestSendFails(r)
    PROVE  IndInv'
<1>1. ASSUME NEW u \in User, NEW e \in Email, RequestTaken(r, u, e)
      PROVE  IndInv'
    BY <1>1, ReturnStep DEF RequestTaken, Answer
<1>2. ASSUME NEW u \in User, NEW e \in Email, RequestLookup(r, u, e)
      PROVE  IndInv'
  <2> USE <1>2 DEF RequestLookup, Goto, IndInv, users, tokens, TypeOK
  <2>1. TypeOK'
    BY DEF Step, Answer
  <2>2. CallInv'
    BY DEF CallInv
  <2>3. KnownInv' /\ EmailsUnique' /\ AddressProved'
    BY DEF KnownInv, EmailsUnique, AddressProved, Exists, Created
  <2> QED
    BY <2>1, <2>2, <2>3
<1>3. ASSUME NEW t \in Token, RequestIssue(r, t) PROVE IndInv'
  <2> USE <1>3 DEF RequestIssue, Goto, IndInv, users, TypeOK
  <2>0. /\ who[r] \in User /\ addr[r] \in Email
        /\ newOwner[t] = Nobody /\ t \notin mailed
    BY AbsentAssumption DEF CallInv, Created
  <2>1. TypeOK'
    BY <2>0 DEF Step, Answer
  <2>2. CallInv'
    BY <2>0, AbsentAssumption DEF CallInv
  <2>3. EmailsUnique' /\ AddressProved'
    BY <2>0 DEF EmailsUnique, AddressProved, Exists
  <2>4. KnownInv'
    BY <2>0 DEF KnownInv, Exists, Created
  <2> QED
    BY <2>1, <2>2, <2>3, <2>4
<1>4. CASE RequestNoUser(r)
    BY <1>4, ReturnStep DEF RequestNoUser, Answer
<1>5. CASE RequestSend(r) \/ RequestSendFails(r)
  <2> USE <1>5 DEF RequestSend, RequestSendFails, Return, IndInv, users, TypeOK
  <2>0. /\ arg[r] \in Token
        /\ newOwner[arg[r]] \in User /\ newEmail[arg[r]] \in Email
        /\ mailed \subseteq mailed' /\ mailed' \subseteq mailed \cup {arg[r]}
    BY DEF CallInv
  <2>1. TypeOK'
    BY <2>0 DEF Step, Answer
  <2>2. CallInv'
    BY <2>0 DEF CallInv
  <2>3. KnownInv' /\ EmailsUnique' /\ AddressProved'
    BY <2>0 DEF KnownInv, EmailsUnique, AddressProved, Exists, Created
  <2> QED
    BY <2>1, <2>2, <2>3
<1> QED
    BY <1>1, <1>2, <1>3, <1>4, <1>5

\* ConfirmEmailChange keeps it, also with an outdated token row in hand.
LEMMA ConfirmStep ==
    ASSUME IndInv, NEW r \in Request,
           \/ ConfirmInvalid(r)
           \/ \E t \in Token : ConfirmExpired(r, t) \/ ConfirmLookup(r, t)
           \/ ConfirmUpdate(r) \/ ConfirmConflict(r) \/ ConfirmGone(r)
           \/ ConfirmMark(r) \/ ConfirmMarkFails(r)
    PROVE  IndInv'
<1>1. CASE \/ ConfirmInvalid(r) \/ ConfirmConflict(r) \/ ConfirmGone(r)
           \/ ConfirmMarkFails(r)
    BY <1>1, ReturnStep
       DEF ConfirmInvalid, ConfirmConflict, ConfirmGone, ConfirmMarkFails, Answer
<1>2. ASSUME NEW t \in Token, ConfirmExpired(r, t) PROVE IndInv'
    BY <1>2, ReturnStep DEF ConfirmExpired, Answer
<1>3. ASSUME NEW t \in Token, ConfirmLookup(r, t) PROVE IndInv'
  <2> USE <1>3 DEF ConfirmLookup, Goto, IndInv, users, tokens, TypeOK
  <2>1. TypeOK'
    BY DEF Step, Answer
  <2>2. CallInv'
    BY DEF CallInv
  <2>3. KnownInv' /\ EmailsUnique' /\ AddressProved'
    BY DEF KnownInv, EmailsUnique, AddressProved, Exists, Created
  <2> QED
    BY <2>1, <2>2, <2>3
<1>4. CASE ConfirmUpdate(r)
  <2> USE <1>4 DEF ConfirmUpdate, Goto, IndInv, TypeOK
  <2>0. /\ arg[r] \in mailed /\ who[r] \in User /\ addr[r] \in Email
        /\ newOwner[arg[r]] = who[r] /\ newEmail[arg[r]] = addr[r]
    BY DEF CallInv
  <2>1. TypeOK'
    BY <2>0 DEF Step, Answer
  <2>2. CallInv'
    BY <2>0 DEF CallInv
  <2>3. EmailsUnique'
    BY <2>0 DEF EmailsUnique, TakenByOther, Exists
  <2>4. AddressProved'
    BY <2>0 DEF AddressProved, Exists
  <2>5. KnownInv'
    BY <2>0 DEF KnownInv, Exists, Created
  <2> QED
    BY <2>1, <2>2, <2>3, <2>4, <2>5
<1>5. CASE ConfirmMark(r)
  <2> USE <1>5 DEF ConfirmMark, Return, IndInv, users, TypeOK
  <2>0. arg[r] \in Token
    BY DEF CallInv
  <2>1. TypeOK'
    BY <2>0 DEF Step, Answer
  <2>2. CallInv'
    BY <2>0 DEF CallInv
  <2>3. KnownInv' /\ EmailsUnique' /\ AddressProved'
    BY DEF KnownInv, EmailsUnique, AddressProved, Exists, Created
  <2> QED
    BY <2>1, <2>2, <2>3
<1> QED
    BY <1>1, <1>2, <1>3, <1>4, <1>5

\* IndInv is inductive.
LEMMA IndInvStep == IndInv /\ [Next]_vars => IndInv'
<1> SUFFICES ASSUME IndInv, [Next]_vars PROVE IndInv'
    OBVIOUS
<1>1. CASE UNCHANGED vars
    BY <1>1 DEF vars, IndInv, TypeOK, CallInv, KnownInv, EmailsUnique,
                AddressProved, Exists, Created
<1>2. ASSUME NEW t \in Token, Expire(t) PROVE IndInv'
  <2> USE <1>2 DEF Expire, users, call, IndInv
  <2>1. TypeOK' /\ CallInv'
    BY DEF TypeOK, CallInv
  <2>2. KnownInv' /\ EmailsUnique' /\ AddressProved'
    BY DEF KnownInv, EmailsUnique, AddressProved, Exists, Created
  <2> QED
    BY <2>1, <2>2
<1>3. ASSUME NEW r \in Request, Fail(r) PROVE IndInv'
    BY <1>3, ReturnStep DEF Fail, Answer
<1>4. ASSUME NEW u \in User, Delete(u) PROVE IndInv'
  <2> USE <1>4 DEF Delete, call, IndInv
  <2>1. TypeOK' /\ CallInv'
    BY DEF TypeOK, CallInv
  <2>2. KnownInv' /\ EmailsUnique' /\ AddressProved'
    BY DEF TypeOK, KnownInv, EmailsUnique, AddressProved, Exists, Created
  <2> QED
    BY <2>1, <2>2
<1> QED
    BY <1>1, <1>2, <1>3, <1>4, SignUpStep, RequestStep, ConfirmStep DEF Next
-----------------------------------------------------------------------------
\* The inductive invariant holds of every reachable state.
THEOREM IndInvCorrect == Spec => []IndInv
    BY InitInv, IndInvStep, PTL DEF Spec

\* Type correctness of the tables and of the calls in flight.
THEOREM TypeCorrect == Spec => []TypeOK
    BY IndInvCorrect, PTL DEF IndInv

\* No interleaving of sign-ups and confirmations gives two users the same
\* address.
THEOREM EmailsUniqueCorrect == Spec => []EmailsUnique
    BY IndInvCorrect, PTL DEF IndInv

\* An account's address is always the one of the sign-up or one that a token
\* of this account was mailed to.
THEOREM AddressProvedCorrect == Spec => []AddressProved
    BY IndInvCorrect, PTL DEF IndInv

\* Once the calls that had read it have returned, a used, expired or deleted
\* token changes nothing.
THEOREM SpentTokenInertCorrect == Spec => SpentTokenInert
<1> DEFINE Untouched(t) == \A r \in Request : arg[r] = t => pc[r] # "update"
           Inert(t) == Untouched(t) => applied'[t] = applied[t] /\ Untouched(t)'
<1>1. IndInv /\ [Next]_vars => [\A t \in Spent : Inert(t)]_vars
  <2> SUFFICES ASSUME IndInv, Next, NEW t \in Spent, Untouched(t)
               PROVE  applied'[t] = applied[t] /\ Untouched(t)'
    OBVIOUS
  <2> DEFINE Goal == applied'[t] = applied[t] /\ Untouched(t)'
  <2> USE DEF IndInv, TypeOK
  <2>0. t \in Token
    BY DEF Spent, Created
  <2>1. ASSUME \/ \E u \in Token : Expire(u)
               \/ \E u \in User : Delete(u)
        PROVE  Goal
    BY <2>1 DEF Expire, Delete, call
  <2>2. ASSUME NEW r \in Request, NEW p \in Step \ {"update"}, NEW a,
               applied' = applied, pc' = [pc EXCEPT ![r] = p],
               arg' = [arg EXCEPT ![r] = a]
        PROVE  Goal
    BY <2>2
  <2> USE DEF Goto, Return, tokens, Step
  <2>3. ASSUME NEW r \in Request,
               \/ SignUpRateLimited(r)
               \/ \E e \in Email : SignUpTaken(r, e) \/ SignUpLookup(r, e)
               \/ \E u \in User : SignUpCreate(r, u)
               \/ SignUpConflict(r) \/ Fail(r)
        PROVE  Goal
    BY <2>2, <2>3 DEF SignUpRateLimited, SignUpTaken, SignUpLookup,
                      SignUpCreate, SignUpConflict, Fail
  <2>4. ASSUME NEW r \in Request,
               \/ \E u \in User, e \in Email :
                     RequestTaken(r, u, e) \/ RequestLookup(r, u, e)
               \/ \E u \in Token : RequestIssue(r, u)
               \/ RequestNoUser(r) \/ RequestSend(r) \/ RequestSendFails(r)
        PROVE  Goal
    BY <2>2, <2>4 DEF RequestTaken, RequestLookup, RequestIssue, RequestNoUser,
                      RequestSend, RequestSendFails
  <2>5. ASSUME NEW r \in Request,
               \/ ConfirmInvalid(r) \/ ConfirmConflict(r) \/ ConfirmGone(r)
               \/ \E u \in Token : ConfirmExpired(r, u)
               \/ ConfirmMark(r) \/ ConfirmMarkFails(r)
        PROVE  Goal
    BY <2>2, <2>5 DEF ConfirmInvalid, ConfirmConflict, ConfirmGone, ConfirmExpired,
                      ConfirmMark, ConfirmMarkFails
  <2>6. ASSUME NEW r \in Request, NEW u \in Token, ConfirmLookup(r, u)
        PROVE  Goal
    BY <2>0, <2>6 DEF ConfirmLookup, Spent, Rows
  <2>7. ASSUME NEW r \in Request, ConfirmUpdate(r) PROVE Goal
    BY <2>0, <2>7 DEF ConfirmUpdate
  <2> QED
    BY <2>1, <2>3, <2>4, <2>5, <2>6, <2>7 DEF Next
<1>2. IndInv /\ [Next]_vars =>
        [\A t \in Spent :
            (\A r \in Request : arg[r] = t => pc[r] # "update")
               => /\ applied'[t] = applied[t]
                  /\ \A r \in Request : arg'[r] = t => pc'[r] # "update"]_vars
    BY <1>1
<1> QED
    BY <1>2, IndInvCorrect, PTL DEF Spec, SpentTokenInert
-----------------------------------------------------------------------------
(* The refinement of AddressBook.                                          *)

\* The state of the address book that the tables stand for.
Known == {u \in User : signedUp[u] # NoEmail}
Proved == {<<newOwner[t], newEmail[t]>> : t \in mailed}

\* Creating a token that is not mailed yet proves nothing.
LEMMA IssueProvesNothing ==
    ASSUME IndInv, NEW r \in Request, NEW t \in Token, RequestIssue(r, t)
    PROVE  Proved' = Proved
<1> USE DEF IndInv, TypeOK
<1>1. t \notin mailed
    BY AbsentAssumption DEF RequestIssue, Created, CallInv
<1>2. \A x \in mailed : newOwner'[x] = newOwner[x] /\ newEmail'[x] = newEmail[x]
    BY <1>1 DEF RequestIssue
<1>3. mailed' = mailed
    BY DEF RequestIssue
<1> QED
    BY <1>2, <1>3 DEF Proved

\* A mail that arrives proves the address it went to, and nothing else.
LEMMA SendProves ==
    ASSUME IndInv, NEW r \in Request, RequestSend(r) \/ RequestSendFails(r)
    PROVE  /\ who[r] \in Known /\ addr[r] \in Email
           /\ Proved' = Proved \/ Proved' = Proved \cup {<<who[r], addr[r]>>}
<1>1. /\ arg[r] \in Token /\ who[r] \in User /\ addr[r] \in Email
      /\ newOwner[arg[r]] = who[r] /\ newEmail[arg[r]] = addr[r]
    BY DEF IndInv, CallInv, RequestSend, RequestSendFails
<1>2. who[r] \in Known
    BY <1>1, AbsentAssumption DEF IndInv, KnownInv, Created, Known
<1>3. /\ newOwner' = newOwner /\ newEmail' = newEmail
      /\ mailed' = mailed \/ mailed' = mailed \cup {arg[r]}
    BY DEF RequestSend, RequestSendFails
<1>4. Proved' = {<<newOwner[t], newEmail[t]>> : t \in mailed'}
    BY <1>3, Zenon DEF Proved
<1>5. ASSUME mailed' = mailed PROVE Proved' = Proved
    BY <1>4, <1>5 DEF Proved
<1>6. ASSUME mailed' = mailed \cup {arg[r]}
      PROVE  Proved' = Proved \cup {<<who[r], addr[r]>>}
    BY <1>1, <1>4, <1>6 DEF Proved
<1> QED
    BY <1>1, <1>2, <1>3, <1>5, <1>6

\* For any sets of users, addresses, tokens and calls in flight: however
\* sign-ups, requests, confirmations and deletions interleave, and whichever
\* of their statements fail, they implement the address book.
THEOREM Refinement == Spec => ImplementsAddressBook
<1>1. Init => Abstract!Init
    BY DEF Init, Abstract!Init
<1>2. IndInv /\ [Next]_vars => [Abstract!Next]_(Abstract!vars)
  <2> SUFFICES ASSUME IndInv, [Next]_vars
               PROVE  Abstract!Next \/ UNCHANGED <<email, Known, Proved>>
    BY DEF Abstract!vars, Known, Proved
  <2> USE DEF IndInv, TypeOK
  <2>1. ASSUME UNCHANGED <<email, signedUp, newOwner, newEmail, mailed>>
        PROVE  UNCHANGED <<email, Known, Proved>>
    BY <2>1 DEF Known, Proved
  <2>2. ASSUME NEW r \in Request, NEW u \in User, SignUpCreate(r, u)
        PROVE  Abstract!Next
    <3>1. PICK e \in Email : e = addr[r] /\ e # NoEmail
        BY <2>2, AbsentAssumption DEF SignUpCreate, CallInv
    <3>2. Known' = Known \cup {u} /\ u \notin Known
        BY <2>2, <3>1 DEF SignUpCreate, Known
    <3>3. Proved' = Proved
        BY <2>2 DEF SignUpCreate, tokens, Proved
    <3>4. Abstract!Register(u, e)
        BY <2>2, <3>1, <3>2, <3>3
           DEF SignUpCreate, Taken, Abstract!Register, Abstract!Free, Known,
               Proved
    <3> QED
        BY <3>4 DEF Abstract!Next
  <2>3. ASSUME NEW r \in Request, RequestSend(r) \/ RequestSendFails(r)
        PROVE  Abstract!Next \/ UNCHANGED <<email, Known, Proved>>
    <3>1. UNCHANGED <<email, signedUp>> /\ Known' = Known
        BY <2>3 DEF RequestSend, RequestSendFails, users, Known
    <3>2. CASE Proved' = Proved
        BY <3>1, <3>2
    <3>3. CASE Proved' = Proved \cup {<<who[r], addr[r]>>}
      <4>1. PICK u \in User, e \in Email : u = who[r] /\ e = addr[r]
        BY <2>3, SendProves DEF Known
      <4>2. u \in Known
        BY <2>3, <4>1, SendProves
      <4>3. Abstract!Prove(u, e)
        BY <3>1, <3>3, <4>1, <4>2 DEF Abstract!Prove, Known, Proved
      <4> QED
        BY <4>3 DEF Abstract!Next
    <3> QED
        BY <2>3, <3>2, <3>3, SendProves
  <2>4. ASSUME NEW r \in Request, ConfirmUpdate(r) PROVE Abstract!Next
    <3>1. PICK u \in User, e \in Email :
              u = who[r] /\ e = addr[r] /\ <<u, e>> \in Proved
        BY <2>4 DEF ConfirmUpdate, CallInv, Proved
    <3>2. Known' = Known /\ Proved' = Proved
        BY <2>4 DEF ConfirmUpdate, Known, Proved
    <3>3. Abstract!Move(u, e)
        BY <2>4, <3>1, <3>2
           DEF ConfirmUpdate, TakenByOther, Exists, Abstract!Move,
               Abstract!Free, Known, Proved
    <3> QED
        BY <3>3 DEF Abstract!Next
  <2>5. ASSUME NEW u \in User, Delete(u) PROVE Abstract!Next
    <3>1. Known' = Known /\ Proved' = Proved
        BY <2>5 DEF Delete, Known, Proved
    <3>2. Abstract!Leave(u)
        BY <2>5, <3>1 DEF Delete, Exists, Abstract!Leave, Known, Proved
    <3> QED
        BY <3>2 DEF Abstract!Next
  <2>6. ASSUME NEW r \in Request, NEW t \in Token, RequestIssue(r, t)
        PROVE  UNCHANGED <<email, Known, Proved>>
    BY <2>6, IssueProvesNothing DEF RequestIssue, users, Known
  <2>7. ASSUME NEW r \in Request,
               \/ SignUpRateLimited(r)
               \/ \E e \in Email : SignUpTaken(r, e) \/ SignUpLookup(r, e)
               \/ SignUpConflict(r)
               \/ \E u \in User, e \in Email :
                     RequestTaken(r, u, e) \/ RequestLookup(r, u, e)
               \/ RequestNoUser(r)
               \/ ConfirmInvalid(r)
               \/ \E t \in Token : ConfirmExpired(r, t) \/ ConfirmLookup(r, t)
               \/ ConfirmConflict(r) \/ ConfirmGone(r)
               \/ ConfirmMark(r) \/ ConfirmMarkFails(r)
               \/ Fail(r)
        PROVE  UNCHANGED <<email, Known, Proved>>
    BY <2>1, <2>7
       DEF SignUpRateLimited, SignUpTaken, SignUpLookup, SignUpConflict,
           RequestTaken, RequestLookup, RequestNoUser, ConfirmInvalid,
           ConfirmExpired, ConfirmLookup, ConfirmConflict, ConfirmGone,
           ConfirmMark, ConfirmMarkFails, Fail, users, tokens
  <2>8. ASSUME UNCHANGED vars \/ \E t \in Token : Expire(t)
        PROVE  UNCHANGED <<email, Known, Proved>>
    BY <2>1, <2>8 DEF vars, Expire, users
  <2> QED
    BY <2>2, <2>3, <2>4, <2>5, <2>6, <2>7, <2>8 DEF Next
<1> QED
    BY <1>1, <1>2, IndInvCorrect, PTL
       DEF Spec, ImplementsAddressBook, Abstract!Spec
=============================================================================
