--------------------------- MODULE MemorySessions ---------------------------
(***************************************************************************)
(* The session handlers over store/memory, the stores of the tests and of  *)
(* local experiments.  Every store call holds one mutex, so a call is      *)
(* atomic; a handler makes several, and other handlers run in between.     *)
(*                                                                         *)
(* Three things differ from Postgres.  RotateToken does not look whether   *)
(* the old row is still live, rows are never removed, and a session needs  *)
(* no user: users and sessions are two maps without a foreign key.  So the *)
(* in-memory layer keeps the promise of SessionFamilies as long as calls   *)
(* follow each other, which is how the tests use it, and the properties    *)
(* below say what is left of it when they overlap.                         *)
(*                                                                         *)
(* One user, whose sessions these are.  A refused call (no such row, wrong *)
(* password) changes nothing: a stutter.  Recording an audit event appends *)
(* to a list nobody here reads.                                            *)
(***************************************************************************)

CONSTANTS SessionID,   \* ids of sessions; a refresh token names its session
          Request,     \* calls that may be in flight together
          NoSession    \* held[r] of a call that holds no session

ASSUME NoSessionAssumption == NoSession \notin SessionID
ASSUME FamilyMarksAssumption == {"unused", "dead"} \cap SessionID = {}

VARIABLES
    exists,     \* the user is in UserStore.byID
    live,       \* rows of SessionStore.byID with RevokedAt = nil
    revoked,    \* rows with RevokedAt set
    family,     \* FamilyID of a row
    pc,         \* the next store call of each call in flight
    held,       \* the session it has read
    entitled,   \* history: refreshes whose token was live when it was read
    overlap     \* history: two calls have been in flight together

table == <<live, revoked, family>>
vars == <<exists, live, revoked, family, pc, held, entitled, overlap>>

Step == {"idle", "create", "rotate", "reuse", "revoke", "revokeall", "delete"}
rows == live \cup revoked

TypeOK ==
    /\ exists \in BOOLEAN
    /\ live \subseteq SessionID
    /\ revoked \subseteq SessionID \ live
    /\ family \in [SessionID -> SessionID \cup {NoSession}]
    /\ \A s \in SessionID : s \in rows <=> family[s] # NoSession
    /\ pc \in [Request -> Step]
    /\ held \in [Request -> rows \cup {NoSession}]
    /\ \A r \in Request : held[r] # NoSession
                              <=> pc[r] \in {"rotate", "reuse", "revoke"}
    /\ entitled \subseteq Request
    /\ overlap \in BOOLEAN

Init ==
    /\ exists = TRUE
    /\ live = {}
    /\ revoked = {}
    /\ family = [s \in SessionID |-> NoSession]
    /\ pc = [r \in Request |-> "idle"]
    /\ held = [r \in Request |-> NoSession]
    /\ entitled = {}
    /\ overlap = FALSE
-----------------------------------------------------------------------------
\* A call begins: its first store call is made, step is the next.
Begin(r, step, s) ==
    /\ pc[r] = "idle"
    /\ pc' = [pc EXCEPT ![r] = step]
    /\ held' = [held EXCEPT ![r] = s]
    /\ overlap' = (overlap \/ \E q \in Request : pc[q] # "idle")

Return(r) ==
    /\ pc' = [pc EXCEPT ![r] = "idle"]
    /\ held' = [held EXCEPT ![r] = NoSession]
    /\ entitled' = entitled \ {r}
    /\ UNCHANGED overlap

\* The rows S get a RevokedAt, again if they have one.
SetRevoked(S) ==
    /\ live' = live \ S
    /\ revoked' = revoked \cup S
    /\ UNCHANGED family

InFamily(f) == {s \in rows : family[s] = f}
-----------------------------------------------------------------------------
(* Login and RefreshToken.                                                 *)

\* GetByEmail found the user and the password is right.
LoginLookup(r) ==
    /\ exists
    /\ Begin(r, "create", NoSession)
    /\ UNCHANGED <<exists, table, entitled>>

\* SessionStore.Create
Create(r, n) ==
    /\ pc[r] = "create"
    /\ n \notin rows
    /\ live' = live \cup {n}
    /\ family' = [family EXCEPT ![n] = n]
    /\ Return(r)
    /\ UNCHANGED <<exists, revoked>>

\* Mutant: token.Rotate without its look at RevokedAt.
RefreshLookupUnchecked(r, s) ==
    /\ s \in rows
    /\ Begin(r, "rotate", s)
    /\ entitled' = IF s \in live THEN entitled \cup {r} ELSE entitled
    /\ UNCHANGED <<exists, table>>

\* SessionStore.GetByTokenHash of a live row ...
RefreshLookup(r, s) ==
    /\ s \in live
    /\ Begin(r, "rotate", s)
    /\ entitled' = entitled \cup {r}
    /\ UNCHANGED <<exists, table>>

\* ... and of a revoked one.
RefreshReused(r, s) ==
    /\ s \in revoked
    /\ Begin(r, "reuse", s)
    /\ UNCHANGED <<exists, table, entitled>>

\* Mutant: the new row without the revocation of the old one.
RotateTokenKeepOld(r, n) ==
    /\ pc[r] = "rotate"
    /\ n \notin rows
    /\ live' = live \cup {n}
    /\ family' = [family EXCEPT ![n] = family[held[r]]]
    /\ Return(r)
    /\ UNCHANGED <<exists, revoked>>

\* Mutant: the new row without the family of the old one.
RotateTokenNoFamily(r, n) ==
    /\ pc[r] = "rotate"
    /\ n \notin rows
    /\ live' = (live \ {held[r]}) \cup {n}
    /\ revoked' = revoked \cup {held[r]}
    /\ Return(r)
    /\ UNCHANGED <<exists, family>>

\* SessionStore.RotateToken: the old row is revoked, whatever it is by now,
\* and the new one added.
RotateToken(r, n) ==
    /\ pc[r] = "rotate"
    /\ n \notin rows
    /\ live' = (live \ {held[r]}) \cup {n}
    /\ revoked' = revoked \cup {held[r]}
    /\ family' = [family EXCEPT ![n] = family[held[r]]]
    /\ Return(r)
    /\ UNCHANGED exists

\* SessionStore.RevokeFamily, the reuse response.
RevokeFamily(r) ==
    /\ pc[r] = "reuse"
    /\ SetRevoked(InFamily(family[held[r]]))
    /\ Return(r)
    /\ UNCHANGED exists

\* A generator fails between the store calls of a login or a rotation.
GiveUp(r) ==
    /\ pc[r] \in {"create", "rotate"}
    /\ Return(r)
    /\ UNCHANGED <<exists, table>>
-----------------------------------------------------------------------------
(* Logout, RevokeSession, LogoutAll, ChangePassword and DeleteAccount.     *)

\* GetByID and the ownership check; the row may be revoked already.
LogoutLookup(r, s) ==
    /\ s \in rows
    /\ Begin(r, "revoke", s)
    /\ UNCHANGED <<exists, table, entitled>>

Revoke(r) ==
    /\ pc[r] = "revoke"
    /\ SetRevoked({held[r]})
    /\ Return(r)
    /\ UNCHANGED exists

\* SessionStore.RevokeAllForUser: all of LogoutAll, and the end of
\* ChangePassword.
RevokeAllForUser(r) ==
    /\ Begin(r, "idle", NoSession)
    /\ SetRevoked(live)
    /\ UNCHANGED <<exists, entitled>>

\* DeleteAccount: the password is right,
DeleteLookup(r) ==
    /\ exists
    /\ Begin(r, "revokeall", NoSession)
    /\ UNCHANGED <<exists, table, entitled>>

\* Mutant: DeleteAccount leaves the sessions to a cascade.
DeleteRevokeNothing(r) ==
    /\ pc[r] = "revokeall"
    /\ pc' = [pc EXCEPT ![r] = "delete"]
    /\ UNCHANGED <<exists, table, held, entitled, overlap>>

\* every session is revoked,
DeleteRevoke(r) ==
    /\ pc[r] = "revokeall"
    /\ SetRevoked(live)
    /\ pc' = [pc EXCEPT ![r] = "delete"]
    /\ UNCHANGED <<exists, held, entitled, overlap>>

\* and the user is removed, if nobody else has done so.
Delete(r) ==
    /\ pc[r] = "delete"
    /\ exists' = FALSE
    /\ Return(r)
    /\ UNCHANGED table
-----------------------------------------------------------------------------
Next ==
    \E r \in Request :
        \/ LoginLookup(r)
        \/ RevokeFamily(r) \/ GiveUp(r)
        \/ Revoke(r) \/ RevokeAllForUser(r)
        \/ DeleteLookup(r) \/ DeleteRevoke(r) \/ Delete(r)
        \/ \E s \in SessionID :
              \/ Create(r, s)
              \/ RefreshLookup(r, s) \/ RefreshReused(r, s)
              \/ RotateToken(r, s)
              \/ LogoutLookup(r, s)

Spec == Init /\ [][Next]_vars
-----------------------------------------------------------------------------
(* Properties.                                                             *)

CurrentOf(f) ==
    IF InFamily(f) = {} THEN "unused"
    ELSE IF InFamily(f) \cap live = {} THEN "dead"
    ELSE CHOOSE s \in InFamily(f) : s \in live

Abstract == INSTANCE SessionFamilies
                WITH Unused <- "unused", Dead <- "dead",
                     current <- [f \in SessionID |-> CurrentOf(f)],
                     spent <- revoked

\* Calls that follow each other see the same session families over the
\* in-memory stores as over Postgres: what a sequential test of rotation,
\* reuse and logout shows holds for both (memory.SessionStore).
SequentialImplements ==
    Abstract!Init /\ [][overlap' \/ Abstract!Next]_<<Abstract!vars, overlap>>

Closed(f) == InFamily(f) # {} /\ InFamily(f) \cap live = {}

\* A closed family gets a live session again only by a refresh that had read
\* its token before the family was closed (memory.SessionStore.RotateToken
\* does not repeat the test of token.Rotate).
ReopenedOnlyByRace ==
    [][\A f \in SessionID : Closed(f) /\ ~Closed(f)' =>
           \E r \in entitled : pc[r] = "rotate" /\ family[held[r]] = f]_vars

\* Without a foreign key a deleted user keeps no live session because
\* auth.DeleteAccount revokes them itself before it deletes, as long as no
\* login or refresh was in flight.
DeletedUserHasNoSession == ~exists /\ ~overlap => live = {}
=============================================================================
