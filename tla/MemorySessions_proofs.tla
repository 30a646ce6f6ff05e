----------------------- MODULE MemorySessions_proofs -----------------------
(***************************************************************************)
(* Proofs about MemorySessions, for any sets of sessions and calls.        *)
(***************************************************************************)
EXTENDS MemorySessions, TLAPS

\* While calls follow each other: only one is in flight, the account it is
\* about to delete has no live session, and after a deletion nothing is left
\* that could create one.
Alone ==
    ~overlap =>
        /\ \A q, r \in Request : pc[q] # "idle" /\ pc[r] # "idle" => q = r
        /\ \A r \in Request : pc[r] = "delete" => live = {}
        /\ ~exists => \A r \in Request :
                          pc[r] \notin {"create", "rotate", "revokeall"}

\* A refresh between its two store calls had read a live row.
Entitled == \A r \in Request : pc[r] = "rotate" => r \in entitled

\* A family is named after a session that exists.
Rooted == \A s \in rows : family[s] \in rows

\* The inductive invariant behind the theorems.
IndInv == TypeOK /\ Rooted /\ Alone /\ Entitled /\ DeletedUserHasNoSession

\* Init establishes it.
LEMMA InitInv == Init => IndInv
    BY NoSessionAssumption
    DEF Init, IndInv, TypeOK, Rooted, Alone, Entitled,
        DeletedUserHasNoSession, rows, Step

\* A call begins.
LEMMA BeginStep ==
    ASSUME IndInv, NEW r \in Request,
           \/ LoginLookup(r) \/ RevokeAllForUser(r) \/ DeleteLookup(r)
           \/ \E s \in SessionID : \/ RefreshLookup(r, s) \/ RefreshReused(r, s)
                                   \/ LogoutLookup(r, s)
    PROVE  IndInv'
<1> USE NoSessionAssumption DEF IndInv, Begin, table
<1>1. TypeOK'
  <2>1. CASE LoginLookup(r) \/ DeleteLookup(r)
    BY <2>1 DEF LoginLookup, DeleteLookup, TypeOK, rows, Step
  <2>2. CASE RevokeAllForUser(r)
    BY <2>2 DEF RevokeAllForUser, SetRevoked, TypeOK, rows, Step
  <2>3. ASSUME NEW s \in rows, NEW step \in {"rotate", "reuse", "revoke"},
               Begin(r, step, s), UNCHANGED <<exists, table>>,
               entitled' \subseteq Request
        PROVE  TypeOK'
    <3>1. rows' = rows
        BY <2>3 DEF rows
    <3>2. s # NoSession
        BY DEF TypeOK, rows
    <3> QED
        BY <2>3, <3>1, <3>2 DEF TypeOK, Step
  <2>4. ASSUME NEW s \in SessionID,
               RefreshLookup(r, s) \/ RefreshReused(r, s) \/ LogoutLookup(r, s)
        PROVE  TypeOK'
    <3> HIDE DEF Begin
    <3> QED
        BY <2>3, <2>4 DEF RefreshLookup, RefreshReused, LogoutLookup, rows,
                          TypeOK
  <2> QED
    BY <2>1, <2>2, <2>4
<1> USE DEF LoginLookup, RevokeAllForUser, DeleteLookup, RefreshLookup,
            RefreshReused, LogoutLookup, SetRevoked, TypeOK
<1>2. Alone'
  <2> SUFFICES ASSUME ~overlap' PROVE Alone'
    BY DEF Alone
  <2>1. ~overlap /\ \A q \in Request : pc[q] = "idle"
    OBVIOUS
  <2>2. \A q \in Request : q # r => pc'[q] = "idle"
    BY <2>1
  <2>3. pc'[r] # "delete"
    OBVIOUS
  <2>4. ~exists' => pc'[r] \notin {"create", "rotate", "revokeall"}
    BY <2>1 DEF DeletedUserHasNoSession
  <2> QED
    BY <2>2, <2>3, <2>4 DEF Alone
<1>3. Entitled'
    BY DEF Entitled
<1>4. DeletedUserHasNoSession'
    BY DEF DeletedUserHasNoSession
<1>5. Rooted'
    BY DEF Rooted, rows
<1> QED
    BY <1>1, <1>2, <1>3, <1>4, <1>5

\* A call goes on to its last store call, or to its last but one.
LEMMA GoOnStep ==
    ASSUME IndInv, NEW r \in Request,
           \/ RevokeFamily(r) \/ GiveUp(r) \/ Revoke(r)
           \/ DeleteRevoke(r) \/ Delete(r)
           \/ \E n \in SessionID : Create(r, n) \/ RotateToken(r, n)
    PROVE  IndInv'
<1> USE NoSessionAssumption DEF IndInv, Return, table, SetRevoked
<1>1. TypeOK'
  <2>1. CASE RevokeFamily(r)
    BY <2>1 DEF RevokeFamily, InFamily, TypeOK, rows, Step
  <2>2. CASE GiveUp(r) \/ Delete(r)
    BY <2>2 DEF GiveUp, Delete, TypeOK, rows, Step
  <2>3. CASE Revoke(r)
    BY <2>3 DEF Revoke, TypeOK, rows, Step
  <2>4. CASE DeleteRevoke(r)
    BY <2>4 DEF DeleteRevoke, TypeOK, rows, Step
  <2>5. ASSUME NEW n \in SessionID, Create(r, n) PROVE TypeOK'
    BY <2>5 DEF Create, TypeOK, rows, Step
  <2>6. ASSUME NEW n \in SessionID, RotateToken(r, n) PROVE TypeOK'
    BY <2>6 DEF RotateToken, TypeOK, rows, Step
  <2> QED
    BY <2>1, <2>2, <2>3, <2>4, <2>5, <2>6
<1> USE DEF RevokeFamily, GiveUp, Revoke, DeleteRevoke, Delete, Create,
            RotateToken, TypeOK
<1>2. Alone'
    BY DEF Alone, Step
<1>3. Entitled'
    BY DEF Entitled
<1>4. DeletedUserHasNoSession'
    BY DEF Alone, DeletedUserHasNoSession
<1>5. Rooted'
    BY DEF Rooted, rows, InFamily
<1> QED
    BY <1>1, <1>2, <1>3, <1>4, <1>5

\* Every step keeps the invariant.
LEMMA IndInvStep == IndInv /\ [Next]_vars => IndInv'
<1> SUFFICES ASSUME IndInv, [Next]_vars PROVE IndInv'
    OBVIOUS
<1>1. CASE UNCHANGED vars
    BY <1>1 DEF vars, IndInv, TypeOK, Rooted, Alone, Entitled,
                DeletedUserHasNoSession, rows
<1> QED
    BY <1>1, BeginStep, GoOnStep DEF Next

\* The inductive invariant holds of every reachable state.
THEOREM IndInvCorrect == Spec => []IndInv
    BY InitInv, IndInvStep, PTL DEF Spec

\* Type correctness of the maps and of the calls in flight.
THEOREM TypeCorrect == Spec => []TypeOK
    BY IndInvCorrect, PTL DEF IndInv

\* Sequential callers find no live session of a user they have deleted.
THEOREM DeletedUserHasNoSessionCorrect == Spec => []DeletedUserHasNoSession
    BY IndInvCorrect, PTL DEF IndInv

\* Only a refresh that had read a live token reopens a closed family.
THEOREM ReopenedOnlyByRaceCorrect == Spec => ReopenedOnlyByRace
<1> DEFINE Raced(f) == \E r \in entitled : pc[r] = "rotate" /\ family[held[r]] = f
<1>1. IndInv /\ [Next]_vars
        => [\A f \in SessionID : Closed(f) /\ ~Closed(f)' => Raced(f)]_vars
  <2> SUFFICES ASSUME IndInv, Next, NEW f \in SessionID, Closed(f), ~Closed(f)'
               PROVE  Raced(f)
    OBVIOUS
  <2> USE DEF IndInv, TypeOK, Closed, InFamily, rows
  <2>1. ASSUME live' \subseteq live, rows' = rows, family' = family
        PROVE  FALSE
    BY <2>1
  <2>2. ASSUME NEW r \in Request, NEW n \in SessionID \ rows, NEW g \in rows,
               live' \subseteq live \cup {n}, rows' = rows \cup {n},
               family' = [family EXCEPT ![n] = g]
        PROVE  f = g
    BY <2>2
  <2>3. ASSUME NEW r \in Request, NEW n \in SessionID, Create(r, n) PROVE FALSE
    BY <2>3 DEF Create, Rooted
  <2>4. ASSUME NEW r \in Request, NEW n \in SessionID, RotateToken(r, n)
        PROVE  Raced(f)
    <3>1. held[r] \in rows /\ r \in entitled
        BY <2>4, NoSessionAssumption DEF RotateToken, Entitled
    <3>2. family[held[r]] \in rows
        BY <3>1 DEF Rooted
    <3>3. f = family[held[r]]
        BY <2>2, <2>4, <3>1, <3>2 DEF RotateToken
    <3> QED
        BY <2>4, <3>1, <3>3 DEF RotateToken
  <2>5. ASSUME NEW r \in Request,
               \/ LoginLookup(r) \/ RevokeFamily(r) \/ GiveUp(r)
               \/ Revoke(r) \/ RevokeAllForUser(r)
               \/ DeleteLookup(r) \/ DeleteRevoke(r) \/ Delete(r)
               \/ \E s \in SessionID : \/ RefreshLookup(r, s)
                                       \/ RefreshReused(r, s)
                                       \/ LogoutLookup(r, s)
        PROVE  FALSE
    BY <2>1, <2>5, NoSessionAssumption
       DEF LoginLookup, RevokeFamily, GiveUp, Revoke, RevokeAllForUser,
           DeleteLookup, DeleteRevoke, Delete, RefreshLookup, RefreshReused,
           LogoutLookup, SetRevoked, table
  <2> QED
    BY <2>3, <2>4, <2>5 DEF Next
<1> QED
    BY <1>1, IndInvCorrect, PTL DEF Spec, ReopenedOnlyByRace
-----------------------------------------------------------------------------
(***************************************************************************)
(* The refinement.  Until two calls overlap, a family has at most one live *)
(* row and a refresh still holds a live one when it rotates: it is then    *)
(* the family's only one, and RotateToken need not look again.             *)
(***************************************************************************)

\* What is true of the rows while calls follow each other.
Sequential ==
    ~overlap =>
        /\ \A s, t \in live : family[s] = family[t] => s = t
        /\ \A r \in Request : pc[r] = "rotate" => held[r] \in live

\* Every step keeps it.
LEMMA SequentialStep ==
    ASSUME IndInv, Sequential, [Next]_vars
    PROVE  Sequential'
<1> USE NoSessionAssumption
<1> SUFFICES ASSUME ~overlap'
             PROVE  /\ \A s, t \in live' : family'[s] = family'[t] => s = t
                    /\ \A r \in Request : pc'[r] = "rotate" => held'[r] \in live'
    BY DEF Sequential
<1>1. ~overlap
    BY DEF vars, Next, LoginLookup, RevokeFamily, GiveUp, Revoke,
           RevokeAllForUser, DeleteLookup, DeleteRevoke, Delete, RefreshLookup,
           RefreshReused, LogoutLookup, Create, RotateToken, Begin, Return
<1>2. \A s, t \in live : family[s] = family[t] => s = t
    BY <1>1 DEF Sequential
<1>3. \A r \in Request : pc[r] = "rotate" => held[r] \in live
    BY <1>1 DEF Sequential
<1>4. \A q, r \in Request : pc[q] # "idle" /\ pc[r] # "idle" => q = r
    BY <1>1 DEF IndInv, Alone
<1>5. \A s \in live : s \in SessionID /\ family[s] \in rows
    BY DEF IndInv, Rooted, TypeOK, rows
<1>6. ASSUME NEW r \in Request,
             \/ LoginLookup(r) \/ RevokeAllForUser(r) \/ DeleteLookup(r)
             \/ \E s \in SessionID : \/ RefreshLookup(r, s)
                                     \/ RefreshReused(r, s)
                                     \/ LogoutLookup(r, s)
      PROVE  /\ family' = family /\ live' \subseteq live
             /\ \A q \in Request : pc'[q] = "rotate" => held'[q] \in live'
  <2>1. \A q \in Request : pc[q] = "idle"
    BY <1>6 DEF LoginLookup, RevokeAllForUser, DeleteLookup, RefreshLookup,
                RefreshReused, LogoutLookup, Begin
  <2> QED
    BY <1>6, <2>1
       DEF IndInv, TypeOK, LoginLookup, RevokeAllForUser, DeleteLookup,
           RefreshLookup, RefreshReused, LogoutLookup, Begin, SetRevoked, table
<1>7. ASSUME NEW r \in Request,
             \/ RevokeFamily(r) \/ GiveUp(r) \/ Revoke(r)
             \/ DeleteRevoke(r) \/ Delete(r)
             \/ \E n \in SessionID : Create(r, n) \/ RotateToken(r, n)
      PROVE  \A q \in Request : pc'[q] # "rotate"
    BY <1>4, <1>7 DEF IndInv, TypeOK, RevokeFamily, GiveUp, Revoke,
                      DeleteRevoke, Delete, Create, RotateToken, Return
<1>8. ASSUME NEW r \in Request,
             \/ RevokeFamily(r) \/ GiveUp(r) \/ Revoke(r)
             \/ DeleteRevoke(r) \/ Delete(r)
      PROVE  family' = family /\ live' \subseteq live
    BY <1>8 DEF RevokeFamily, GiveUp, Revoke, DeleteRevoke, Delete, SetRevoked,
                table
<1>9. ASSUME NEW r \in Request, NEW n \in SessionID, Create(r, n)
      PROVE  \A s, t \in live' : family'[s] = family'[t] => s = t
    BY <1>2, <1>5, <1>9 DEF IndInv, TypeOK, Create
<1>10. ASSUME NEW r \in Request, NEW n \in SessionID, RotateToken(r, n)
       PROVE  \A s, t \in live' : family'[s] = family'[t] => s = t
  <2>1. held[r] \in live
    BY <1>3, <1>10 DEF RotateToken
  <2> QED
    BY <1>2, <1>5, <1>10, <2>1 DEF IndInv, TypeOK, RotateToken, rows
<1>11. CASE UNCHANGED vars
    BY <1>2, <1>3, <1>11 DEF vars
<1> QED
    BY <1>2, <1>6, <1>7, <1>8, <1>9, <1>10, <1>11 DEF Next

\* What the refinement mapping makes of a family, while calls follow each
\* other.
MappingFacts ==
    ~overlap =>
        /\ \A s \in live : CurrentOf(family[s]) = s
        /\ \A f \in SessionID :
              /\ InFamily(f) = {} => CurrentOf(f) = "unused"
              /\ Closed(f) => CurrentOf(f) = "dead"
              /\ CurrentOf(f) \in SessionID
                    => CurrentOf(f) \in live /\ family[CurrentOf(f)] = f

LEMMA Mapping == IndInv /\ Sequential => MappingFacts
<1> SUFFICES ASSUME IndInv, Sequential, ~overlap PROVE MappingFacts
    BY DEF MappingFacts
<1> USE DEF IndInv, TypeOK, rows
<1>1. ASSUME NEW s \in live PROVE CurrentOf(family[s]) = s
  <2>1. InFamily(family[s]) # {} /\ InFamily(family[s]) \cap live = {s}
    BY DEF InFamily, Sequential
  <2>2. CurrentOf(family[s]) = CHOOSE t \in InFamily(family[s]) : t \in live
    BY <2>1 DEF CurrentOf
  <2>3. \A t \in InFamily(family[s]) : t \in live <=> t = s
    BY <2>1
  <2>4. s \in InFamily(family[s])
    BY <2>1
  <2> QED
    BY <2>2, <2>3, <2>4
<1>2. ASSUME NEW f \in SessionID, InFamily(f) = {} PROVE CurrentOf(f) = "unused"
    BY <1>2 DEF CurrentOf
<1>3. ASSUME NEW f \in SessionID, Closed(f) PROVE CurrentOf(f) = "dead"
    BY <1>3 DEF CurrentOf, Closed
<1>4. ASSUME NEW f \in SessionID, CurrentOf(f) \in SessionID
      PROVE  CurrentOf(f) \in live /\ family[CurrentOf(f)] = f
  <2>1. InFamily(f) \cap live # {}
    BY <1>2, <1>3, <1>4, FamilyMarksAssumption DEF Closed
  <2>2. PICK s \in live : family[s] = f
    BY <2>1 DEF InFamily
  <2> QED
    BY <1>1, <2>2
<1> QED
    BY <1>1, <1>2, <1>3, <1>4 DEF MappingFacts

\* The hypotheses under which a step is mapped to one of SessionFamilies.
Mapped == IndInv /\ Sequential /\ MappingFacts /\ ~overlap

\* A family with the same rows and the same live rows keeps its image.
LEMMA SameImage ==
    ASSUME Mapped, Mapped', NEW f \in SessionID,
           \A s \in SessionID :
              /\ s \in rows /\ family[s] = f <=> (s \in rows /\ family[s] = f)'
              /\ s \in live /\ family[s] = f <=> (s \in live /\ family[s] = f)'
    PROVE  CurrentOf(f)' = CurrentOf(f)
<1>0. rows \subseteq SessionID /\ rows' \subseteq SessionID
    BY DEF Mapped, IndInv, TypeOK, rows
<1>1. InFamily(f)' = InFamily(f)
    BY <1>0 DEF InFamily
<1>2. CASE InFamily(f) = {}
    BY <1>1, <1>2 DEF Mapped, MappingFacts
<1>3. ASSUME NEW s \in live, family[s] = f PROVE CurrentOf(f)' = CurrentOf(f)
    BY <1>0, <1>3 DEF Mapped, MappingFacts, rows
<1>4. CASE Closed(f)
  <2>1. Closed(f)'
    BY <1>0, <1>1, <1>4 DEF Closed, InFamily, rows
  <2> QED
    BY <1>4, <2>1 DEF Mapped, MappingFacts
<1> QED
    BY <1>2, <1>3, <1>4 DEF Closed, InFamily

\* The redeemable tokens of the abstract specification are the live rows.
LEMMA CurrentIsLive ==
    ASSUME Mapped
    PROVE  Abstract!Current = live
<1> USE DEF Mapped, IndInv, TypeOK, Rooted, rows
<1>1. ASSUME NEW s \in live
      PROVE  s \in {CurrentOf(f) : f \in SessionID} \cap SessionID
    BY DEF MappingFacts
<1>2. ASSUME NEW s \in {CurrentOf(f) : f \in SessionID} \cap SessionID
      PROVE  s \in live
    BY <1>2 DEF MappingFacts
<1> QED
    BY <1>1, <1>2 DEF Abstract!Current

\* SessionStore.Create opens a family.
LEMMA CreateOpens ==
    ASSUME Mapped, Mapped', NEW r \in Request, NEW n \in SessionID, Create(r, n)
    PROVE  Abstract!Open(n)
<1> USE DEF Mapped, IndInv, TypeOK, rows, Create
<1>1. InFamily(n) = {}
    BY DEF Rooted, InFamily
<1>2. CurrentOf(n) = "unused" /\ CurrentOf(n)' = n
    BY <1>1 DEF MappingFacts
<1>3. ASSUME NEW f \in SessionID \ {n} PROVE CurrentOf(f)' = CurrentOf(f)
    BY SameImage
<1>4. [f \in SessionID |-> CurrentOf(f)]'
        = [[f \in SessionID |-> CurrentOf(f)] EXCEPT ![n] = n]
    BY <1>2, <1>3
<1>5. n \notin Abstract!Current \cup revoked
    BY CurrentIsLive
<1> QED
    BY <1>2, <1>4, <1>5 DEF Abstract!Open

\* SessionStore.RotateToken rotates: the row it revokes is still the live one.
LEMMA RotateTokenRotates ==
    ASSUME Mapped, Mapped', NEW r \in Request, NEW n \in SessionID,
           RotateToken(r, n)
    PROVE  family[held[r]] \in SessionID /\ Abstract!Rotate(family[held[r]], n)
<1> USE DEF Mapped, IndInv, TypeOK, rows, RotateToken
<1>0. PICK a \in live, g \in SessionID : a = held[r] /\ g = family[a]
    BY DEF Sequential, Rooted
<1>1. CurrentOf(g) = a
    BY <1>0 DEF MappingFacts
<1>2. /\ family'[n] = g /\ n \in live' /\ n # a
      /\ \A s \in SessionID \ {n} : family'[s] = family[s]
    BY <1>0
<1>3. CurrentOf(g)' = n
    BY <1>2 DEF MappingFacts
<1>4. ASSUME NEW f \in SessionID \ {g} PROVE CurrentOf(f)' = CurrentOf(f)
    BY <1>0, <1>2, SameImage
<1>5. [f \in SessionID |-> CurrentOf(f)]'
        = [[f \in SessionID |-> CurrentOf(f)] EXCEPT ![g] = n]
    BY <1>3, <1>4
<1>6. n \notin Abstract!Current \cup revoked
    BY CurrentIsLive
<1> QED
    BY <1>0, <1>1, <1>5, <1>6 DEF Abstract!Rotate

\* Setting RevokedAt of some rows kills the families of the live ones.
LEMMA RevokingKills ==
    ASSUME Mapped, Mapped', NEW R \in SUBSET rows, SetRevoked(R)
    PROVE  \E F \in SUBSET SessionID : Abstract!Kill(F)
<1> USE DEF Mapped, IndInv, TypeOK, Rooted, rows, SetRevoked
<1> DEFINE K == R \cap live
<1>b. K \subseteq live /\ live' = live \ K /\ revoked' = revoked \cup K
    OBVIOUS
<1> HIDE DEF K
<1>0. PICK H \in SUBSET live : live' = live \ H /\ revoked' = revoked \cup H
    BY <1>b
<1>a. {family[s] : s \in H} \in SUBSET SessionID
    OBVIOUS
<1> PICK F \in SUBSET SessionID : F = {family[s] : s \in H}
    BY <1>a
<1>1. ASSUME NEW s \in H
      PROVE  CurrentOf(family[s]) = s /\ CurrentOf(family[s])' = "dead"
  <2>1. CurrentOf(family[s]) = s
    BY DEF MappingFacts
  <2>2. Closed(family[s])'
    BY <1>0 DEF Closed, InFamily, Sequential
  <2> QED
    BY <2>1, <2>2 DEF MappingFacts
<1>2. ASSUME NEW f \in SessionID \ F PROVE CurrentOf(f)' = CurrentOf(f)
    BY <1>0, SameImage
<1>3. \A f \in F : f \in SessionID /\ CurrentOf(f) \in SessionID
    BY <1>1
<1>4. [f \in SessionID |-> CurrentOf(f)]'
        = [f \in SessionID |-> IF f \in F THEN "dead" ELSE CurrentOf(f)]
    BY <1>1, <1>2
<1>5. \A f \in F : [g \in SessionID |-> CurrentOf(g)][f] = CurrentOf(f)
    BY <1>3
<1>6. H = {s \in SessionID :
              \E f \in F : s = [g \in SessionID |-> CurrentOf(g)][f]}
  <2>1. H = {s \in SessionID : \E f \in F : s = CurrentOf(f)}
    BY <1>1
  <2> QED
    BY <1>5, <2>1
<1>7. [f \in SessionID |->
          IF f \in F THEN "dead" ELSE [g \in SessionID |-> CurrentOf(g)][f]]
        = [f \in SessionID |-> IF f \in F THEN "dead" ELSE CurrentOf(f)]
    OBVIOUS
<1>8. Abstract!Kill(F)
    BY <1>0, <1>3, <1>4, <1>5, <1>6, <1>7 DEF Abstract!Kill
<1> QED
    BY <1>8

\* Until two calls overlap, the in-memory stores implement SessionFamilies.
THEOREM SequentialImplementsCorrect == Spec => SequentialImplements
<1>1. Init => Abstract!Init /\ Sequential
    BY DEF Init, Abstract!Init, CurrentOf, InFamily, rows, Sequential
<1>2. IndInv /\ Sequential /\ MappingFacts
        /\ IndInv' /\ Sequential' /\ MappingFacts' /\ [Next]_vars
        => [overlap' \/ Abstract!Next]_<<Abstract!vars, overlap>>
  <2> SUFFICES ASSUME IndInv, Sequential, MappingFacts,
                      IndInv', Sequential', MappingFacts', [Next]_vars,
                      ~overlap'
               PROVE  Abstract!Next \/ UNCHANGED <<Abstract!vars, overlap>>
    OBVIOUS
  <2>1. ~overlap
    BY DEF vars, Next, LoginLookup, RevokeFamily, GiveUp, Revoke,
           RevokeAllForUser, DeleteLookup, DeleteRevoke, Delete, RefreshLookup,
           RefreshReused, LogoutLookup, Create, RotateToken, Begin, Return
  <2>2. Mapped /\ Mapped'
    BY <2>1 DEF Mapped
  <2>3. CASE UNCHANGED table
    <3>1. ASSUME NEW f \in SessionID PROVE CurrentOf(f)' = CurrentOf(f)
        BY <2>3 DEF table, CurrentOf, InFamily, rows
    <3>2. overlap' = overlap
        BY <2>1, Zenon DEF IndInv, TypeOK
    <3>3. UNCHANGED Abstract!vars
        BY <2>3, <3>1 DEF table, Abstract!vars
    <3> QED
        BY <3>2, <3>3
  <2>4. ASSUME NEW R \in SUBSET rows, SetRevoked(R) PROVE Abstract!Next
    BY <2>2, <2>4, RevokingKills DEF Abstract!Next
  <2>5. ASSUME NEW r \in Request, RevokeFamily(r) \/ Revoke(r)
                                    \/ RevokeAllForUser(r) \/ DeleteRevoke(r)
        PROVE  \E R \in SUBSET rows : SetRevoked(R)
    BY <2>5, NoSessionAssumption
       DEF IndInv, TypeOK, rows, RevokeFamily, Revoke, RevokeAllForUser,
           DeleteRevoke, InFamily
  <2>6. ASSUME NEW r \in Request, NEW n \in SessionID,
               Create(r, n) \/ RotateToken(r, n)
        PROVE  Abstract!Next
    BY <2>2, <2>6, CreateOpens, RotateTokenRotates DEF Abstract!Next
  <2>7. ASSUME NEW r \in Request,
               \/ LoginLookup(r) \/ GiveUp(r) \/ DeleteLookup(r) \/ Delete(r)
               \/ \E s \in SessionID : \/ RefreshLookup(r, s)
                                       \/ RefreshReused(r, s)
                                       \/ LogoutLookup(r, s)
        PROVE  UNCHANGED table
    BY <2>7 DEF LoginLookup, GiveUp, DeleteLookup, Delete, RefreshLookup,
                RefreshReused, LogoutLookup, table
  <2> QED
    BY <2>3, <2>4, <2>5, <2>6, <2>7 DEF Next, vars, table
<1>3. IndInv /\ Sequential /\ [Next]_vars => Sequential'
    BY SequentialStep
<1> QED
    BY <1>1, <1>2, <1>3, IndInvCorrect, Mapping, PTL
       DEF Spec, SequentialImplements
=============================================================================
