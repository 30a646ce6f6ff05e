-------------------------- MODULE RefreshSessions --------------------------
(***************************************************************************)
(* The session layer of the engine over the Postgres session store: login  *)
(* (the part after the password check), RefreshToken with rotation and     *)
(* reuse detection, Logout, RevokeSession and LogoutAll, any number of     *)
(* them in flight at once, in one process or in many.                      *)
(*                                                                         *)
(* The database table sessions is live, revoked, family and owner: the     *)
(* committed rows with revoked_at NULL, those with revoked_at set, and     *)
(* their family_id and user_id.  A refresh token is identified with the id *)
(* of the row that holds its hash: both are unguessable and unique.        *)
(*                                                                         *)
(* Statements run at READ COMMITTED, the isolation level of                *)
(* BeginTx(ctx, nil) and of a lone statement.  A single-row UPDATE waits   *)
(* for the row's lock and tests its WHERE clause again on the committed    *)
(* row.  An UPDATE of many rows first takes a snapshot (seen), then locks  *)
(* the rows of the snapshot one by one in any order (held), testing each   *)
(* again, and changes the locked ones when it commits.  A row that another *)
(* transaction inserts after the snapshot is not part of the statement.    *)
(***************************************************************************)
CONSTANTS User,        \* user ids
          SessionID,   \* session ids; bounds the rows ever inserted
          Request,     \* calls that may be in flight together
          NoSession,   \* no session id
          NoUser       \* the owner of a row that does not exist

ASSUME NoSessionAssumption == NoSession \notin SessionID
ASSUME NoUserAssumption == NoUser \notin User
ASSUME FamilyMarksAssumption == {"unused", "dead"} \cap SessionID = {}

VARIABLES
    live,       \* rows with revoked_at IS NULL
    revoked,    \* rows with revoked_at set
    family,     \* family_id of a row
    owner,      \* user_id of a row
    issued,     \* refresh tokens that reached a client
    pc,         \* where each call in flight is
    op,         \* what it is doing
    arg,        \* the session it looked up
    fresh,      \* the session id it generated
    seen,       \* the rows its revoking statement must revoke
    held,       \* the rows its open transaction has updated and locked
    result,     \* what it answers
    event       \* the audit event it recorded

table == <<live, revoked, family, owner>>
call == <<pc, op, arg, fresh, seen, held, result, event>>
vars == <<live, revoked, family, owner, issued,
          pc, op, arg, fresh, seen, held, result, event>>

Step == {"idle", "rotate", "insert", "family", "revoking", "revoke",
         "record", "done"}

Operation == {"none", "login", "rotate", "reuse", "logout",
              "session_revoke", "logout_all"}

Answer == {"none", "ok", "ErrInvalidToken", "ErrTokenReused",
           "ErrNotFound", "ErrSessionNotOwned", "error"}

AuditEvent == {"none", "login_success", "token_rotated",
               "token_reuse_detected", "logout", "session_revoked",
               "logout_all"}

\* The event a completed operation records, and what it answers.
EventOf(o) ==
    CASE o = "login"          -> "login_success"
      [] o = "rotate"         -> "token_rotated"
      [] o = "reuse"          -> "token_reuse_detected"
      [] o = "logout"         -> "logout"
      [] o = "session_revoke" -> "session_revoked"
      [] o = "logout_all"     -> "logout_all"
      [] OTHER                -> "none"

AnswerOf(o) == IF o = "reuse" THEN "ErrTokenReused" ELSE "ok"

rows == live \cup revoked

\* Ids that ids.New may still return.
Unseen == SessionID \ (rows \cup {fresh[r] : r \in Request})

LockedByOther(r, s) == \E q \in Request \ {r} : s \in held[q]

\* ListByUser, and what the two bulk UPDATEs match.
ListByUser(u) == {s \in live : owner[s] = u}
LiveInFamily(f) == {s \in live : family[s] = f}

TypeOK ==
    /\ live \subseteq SessionID
    /\ revoked \subseteq SessionID
    /\ family \in [SessionID -> SessionID]
    /\ owner \in [SessionID -> User \cup {NoUser}]
    /\ issued \subseteq SessionID
    /\ pc \in [Request -> Step]
    /\ op \in [Request -> Operation]
    /\ arg \in [Request -> SessionID \cup {NoSession}]
    /\ fresh \in [Request -> SessionID \cup {NoSession}]
    /\ seen \in [Request -> SUBSET SessionID]
    /\ held \in [Request -> SUBSET SessionID]
    /\ result \in [Request -> Answer]
    /\ event \in [Request -> AuditEvent]

Init ==
    /\ live = {}
    /\ revoked = {}
    /\ family = [s \in SessionID |-> s]
    /\ owner = [s \in SessionID |-> NoUser]
    /\ issued = {}
    /\ pc = [r \in Request |-> "idle"]
    /\ op = [r \in Request |-> "none"]
    /\ arg = [r \in Request |-> NoSession]
    /\ fresh = [r \in Request |-> NoSession]
    /\ seen = [r \in Request |-> {}]
    /\ held = [r \in Request |-> {}]
    /\ result = [r \in Request |-> "none"]
    /\ event = [r \in Request |-> "none"]
-----------------------------------------------------------------------------
(* How a call moves on.                                                    *)

Goto(r, step) == pc' = [pc EXCEPT ![r] = step]

\* An early return: no audit event; an open transaction is rolled back.
Abandon(r, answer) ==
    /\ Goto(r, "done")
    /\ result' = [result EXCEPT ![r] = answer]
    /\ op' = [op EXCEPT ![r] = "none"]
    /\ arg' = [arg EXCEPT ![r] = NoSession]
    /\ fresh' = [fresh EXCEPT ![r] = NoSession]
    /\ seen' = [seen EXCEPT ![r] = {}]
    /\ held' = [held EXCEPT ![r] = {}]
    /\ UNCHANGED <<event, issued>>

\* INSERT INTO sessions of row n.
Insert(n, f, u) ==
    /\ family' = [family EXCEPT ![n] = f]
    /\ owner' = [owner EXCEPT ![n] = u]
-----------------------------------------------------------------------------
(* Login, from the point where the password has been accepted.             *)

\* ids.New and refreshGen.New, then the INSERT, one autocommitted statement.
LoginCreate(r, u, n) ==
    /\ pc[r] = "idle"
    /\ n \in Unseen
    /\ live' = live \cup {n}
    /\ Insert(n, n, u)
    /\ Goto(r, "record")
    /\ op' = [op EXCEPT ![r] = "login"]
    /\ fresh' = [fresh EXCEPT ![r] = n]
    /\ UNCHANGED <<revoked, issued, arg, seen, held, result, event>>
-----------------------------------------------------------------------------
(* RefreshToken.                                                           *)

\* GetByTokenHash finds no row, or fails: both are ErrInvalidToken.
RefreshInvalid(r) ==
    /\ pc[r] = "idle"
    /\ Abandon(r, "ErrInvalidToken")
    /\ UNCHANGED table

\* The row is live: generate the new token and session id, then rotate.
RefreshLookupLive(r, t, n) ==
    /\ pc[r] = "idle"
    /\ t \in issued \cap live
    /\ n \in Unseen
    /\ Goto(r, "rotate")
    /\ op' = [op EXCEPT ![r] = "rotate"]
    /\ arg' = [arg EXCEPT ![r] = t]
    /\ fresh' = [fresh EXCEPT ![r] = n]
    /\ UNCHANGED <<table, issued, seen, held, result, event>>

\* The row is already revoked: a reuse, answered by revoking the family.
RefreshLookupReused(r, t) ==
    /\ pc[r] = "idle"
    /\ t \in issued \cap revoked
    /\ Goto(r, "family")
    /\ op' = [op EXCEPT ![r] = "reuse"]
    /\ arg' = [arg EXCEPT ![r] = t]
    /\ UNCHANGED <<table, issued, fresh, seen, held, result, event>>

\* Mutant: the UPDATE without "AND revoked_at IS NULL".
RotateUpdateUnchecked(r) ==
    /\ pc[r] = "rotate"
    /\ ~LockedByOther(r, arg[r])
    /\ held' = [held EXCEPT ![r] = {arg[r]}]
    /\ Goto(r, "insert")
    /\ UNCHANGED <<table, issued, op, arg, fresh, seen, result, event>>

\* RotateToken's UPDATE, once it has the row's lock: the row is revoked in
\* the open transaction if it still has revoked_at NULL ...
RotateUpdate(r) ==
    /\ pc[r] = "rotate"
    /\ ~LockedByOther(r, arg[r])
    /\ arg[r] \in live
    /\ held' = [held EXCEPT ![r] = {arg[r]}]
    /\ Goto(r, "insert")
    /\ UNCHANGED <<table, issued, op, arg, fresh, seen, result, event>>

\* ... and otherwise no row is affected: ErrNotFound.
RotateRefused(r) ==
    /\ pc[r] = "rotate"
    /\ ~LockedByOther(r, arg[r])
    /\ arg[r] \notin live
    /\ Abandon(r, "ErrNotFound")
    /\ UNCHANGED table

\* Mutant: FamilyID: newID instead of existing.FamilyID.
RotateCommitNewFamily(r) ==
    /\ pc[r] = "insert"
    /\ live' = (live \ held[r]) \cup {fresh[r]}
    /\ revoked' = revoked \cup held[r]
    /\ Insert(fresh[r], fresh[r], owner[arg[r]])
    /\ held' = [held EXCEPT ![r] = {}]
    /\ Goto(r, "record")
    /\ UNCHANGED <<issued, op, arg, fresh, seen, result, event>>

\* RotateToken's INSERT and COMMIT: the successor joins its family.
RotateCommit(r) ==
    /\ pc[r] = "insert"
    /\ live' = (live \ held[r]) \cup {fresh[r]}
    /\ revoked' = revoked \cup held[r]
    /\ Insert(fresh[r], family[arg[r]], owner[arg[r]])
    /\ held' = [held EXCEPT ![r] = {}]
    /\ Goto(r, "record")
    /\ UNCHANGED <<issued, op, arg, fresh, seen, result, event>>
-----------------------------------------------------------------------------
(* Revoking many rows: RevokeFamily and RevokeAllForUser.                  *)

\* Mutant: the reuse response revokes by user_id instead of family_id.
RevokeFamilyByUser(r) ==
    /\ pc[r] = "family"
    /\ seen' = [seen EXCEPT ![r] = ListByUser(owner[arg[r]])]
    /\ Goto(r, "revoking")
    /\ UNCHANGED <<table, issued, op, arg, fresh, held, result, event>>

\* RevokeFamily starts: the snapshot of its UPDATE.
RevokeFamily(r) ==
    /\ pc[r] = "family"
    /\ seen' = [seen EXCEPT ![r] = LiveInFamily(family[arg[r]])]
    /\ Goto(r, "revoking")
    /\ UNCHANGED <<table, issued, op, arg, fresh, held, result, event>>

\* LogoutAll calls RevokeAllForUser at once.
LogoutAll(r, u) ==
    /\ pc[r] = "idle"
    /\ seen' = [seen EXCEPT ![r] = ListByUser(u)]
    /\ op' = [op EXCEPT ![r] = "logout_all"]
    /\ Goto(r, "revoking")
    /\ UNCHANGED <<table, issued, arg, fresh, held, result, event>>

\* Rows of the snapshot that the statement has still to lock.
Remaining(r) == (seen[r] \cap live) \ held[r]

LockRow(r, s) ==
    /\ pc[r] = "revoking"
    /\ s \in Remaining(r)
    /\ ~LockedByOther(r, s)
    /\ held' = [held EXCEPT ![r] = @ \cup {s}]
    /\ UNCHANGED <<table, issued, pc, op, arg, fresh, seen, result, event>>

\* Mutant: a statement that skips locked rows instead of waiting for them.
RevokeCommitSkipLocked(r) ==
    /\ pc[r] = "revoking"
    /\ \A s \in Remaining(r) : LockedByOther(r, s)
    /\ live' = live \ held[r]
    /\ revoked' = revoked \cup held[r]
    /\ held' = [held EXCEPT ![r] = {}]
    /\ Goto(r, "record")
    /\ UNCHANGED <<family, owner, issued, op, arg, fresh, seen, result, event>>

\* The statement commits when every row of the snapshot is locked by it or
\* was revoked by somebody else while it waited.
RevokeCommit(r) ==
    /\ pc[r] = "revoking"
    /\ Remaining(r) = {}
    /\ live' = live \ held[r]
    /\ revoked' = revoked \cup held[r]
    /\ held' = [held EXCEPT ![r] = {}]
    /\ Goto(r, "record")
    /\ UNCHANGED <<family, owner, issued, op, arg, fresh, seen, result, event>>
-----------------------------------------------------------------------------
(* Revoking one row: Logout and RevokeSession.                             *)

\* GetByID and the ownership check.
LogoutLookup(r, o, s, u) ==
    /\ pc[r] = "idle"
    /\ s \in rows
    /\ owner[s] = u
    /\ Goto(r, "revoke")
    /\ op' = [op EXCEPT ![r] = o]
    /\ arg' = [arg EXCEPT ![r] = s]
    /\ UNCHANGED <<table, issued, fresh, seen, held, result, event>>

\* GetByID fails or finds no row, or the row is somebody else's.
LogoutRefused(r, s, u) ==
    /\ pc[r] = "idle"
    /\ \/ Abandon(r, "error")
       \/ s \notin rows /\ Abandon(r, "ErrNotFound")
       \/ s \in rows /\ owner[s] # u /\ Abandon(r, "ErrSessionNotOwned")
    /\ UNCHANGED table

\* Revoke, one autocommitted UPDATE.
RevokeOne(r) ==
    /\ pc[r] = "revoke"
    /\ ~LockedByOther(r, arg[r])
    /\ arg[r] \in live
    /\ live' = live \ {arg[r]}
    /\ revoked' = revoked \cup {arg[r]}
    /\ seen' = [seen EXCEPT ![r] = {arg[r]}]
    /\ Goto(r, "record")
    /\ UNCHANGED <<family, owner, issued, op, arg, fresh, held, result, event>>

\* checkRowsAffected: somebody else revoked it first.
RevokeOneRefused(r) ==
    /\ pc[r] = "revoke"
    /\ ~LockedByOther(r, arg[r])
    /\ arg[r] \notin live
    /\ Abandon(r, "ErrNotFound")
    /\ UNCHANGED table
-----------------------------------------------------------------------------
(* The end of every call.                                                  *)

\* The audit event is recorded, or its failure only logged; then the answer.
Record(r) ==
    /\ pc[r] = "record"
    /\ \/ event' = [event EXCEPT ![r] = EventOf(op[r])]
       \/ UNCHANGED event
    /\ result' = [result EXCEPT ![r] = AnswerOf(op[r])]
    /\ Goto(r, "done")
    /\ UNCHANGED <<table, issued, op, arg, fresh, seen, held>>

\* Mutant: a token is handed out whether or not one was generated.
ReturnAlwaysToken(r) ==
    /\ pc[r] = "done"
    /\ issued' = issued \cup {fresh[r]}
    /\ Goto(r, "idle")
    /\ op' = [op EXCEPT ![r] = "none"]
    /\ arg' = [arg EXCEPT ![r] = NoSession]
    /\ fresh' = [fresh EXCEPT ![r] = NoSession]
    /\ seen' = [seen EXCEPT ![r] = {}]
    /\ result' = [result EXCEPT ![r] = "none"]
    /\ event' = [event EXCEPT ![r] = "none"]
    /\ UNCHANGED <<table, held>>

\* The caller has the answer, and with "ok" the new refresh token if any.
Return(r) ==
    /\ pc[r] = "done"
    /\ issued' = IF result[r] = "ok" THEN issued \cup ({fresh[r]} \ {NoSession})
                                     ELSE issued
    /\ Goto(r, "idle")
    /\ op' = [op EXCEPT ![r] = "none"]
    /\ arg' = [arg EXCEPT ![r] = NoSession]
    /\ fresh' = [fresh EXCEPT ![r] = NoSession]
    /\ seen' = [seen EXCEPT ![r] = {}]
    /\ result' = [result EXCEPT ![r] = "none"]
    /\ event' = [event EXCEPT ![r] = "none"]
    /\ UNCHANGED <<table, held>>

\* Mutant: RotateToken without "defer tx.Rollback()".
FailWithoutRollback(r) ==
    /\ pc[r] \notin {"idle", "done"}
    /\ Goto(r, "done")
    /\ result' = [result EXCEPT ![r] = "error"]
    /\ op' = [op EXCEPT ![r] = "none"]
    /\ arg' = [arg EXCEPT ![r] = NoSession]
    /\ fresh' = [fresh EXCEPT ![r] = NoSession]
    /\ seen' = [seen EXCEPT ![r] = {}]
    /\ UNCHANGED <<table, issued, held, event>>

\* A statement fails, the context is cancelled, the process crashes or the
\* answer is lost: the open transaction is rolled back, what was committed
\* stays, and the caller gets an error or nothing.
Fail(r) ==
    /\ pc[r] \notin {"idle", "done"}
    /\ Abandon(r, "error")
    /\ UNCHANGED table
-----------------------------------------------------------------------------
(* Deadlock between bulk UPDATEs.  Only a statement of many rows waits     *)
(* while it holds locks; Postgres aborts one statement of every cycle.     *)

Blocked(r) ==
    /\ pc[r] = "revoking"
    /\ Remaining(r) # {}
    /\ \A s \in Remaining(r) : LockedByOther(r, s)

WaitsFor(r, q) == Blocked(r) /\ Remaining(r) \cap held[q] # {}

Deadlocked(r) ==
    \E D \in SUBSET Request :
        /\ r \in D
        /\ \A p \in D : /\ \E q \in D : WaitsFor(p, q)
                        /\ \E q \in D : WaitsFor(q, p)

DeadlockVictim(r) ==
    /\ Deadlocked(r)
    /\ Abandon(r, "error")
    /\ UNCHANGED table
-----------------------------------------------------------------------------
\* A client or an administrator makes a call.  The userID a logout is given
\* may be anybody's.
Begin(r) ==
    \/ \E u \in User, n \in SessionID : LoginCreate(r, u, n)
    \/ RefreshInvalid(r)
    \/ \E t, n \in SessionID : RefreshLookupLive(r, t, n)
    \/ \E t \in SessionID : RefreshLookupReused(r, t)
    \/ \E u \in User : LogoutAll(r, u)
    \/ \E o \in {"logout", "session_revoke"}, s \in SessionID, u \in User :
          LogoutLookup(r, o, s, u)
    \/ \E s \in SessionID, u \in User \cup {NoUser} : LogoutRefused(r, s, u)

\* A call in flight does its next step.
Advance(r) ==
    \/ RotateUpdate(r) \/ RotateRefused(r) \/ RotateCommit(r)
    \/ RevokeFamily(r) \/ (\E s \in SessionID : LockRow(r, s))
    \/ RevokeCommit(r) \/ DeadlockVictim(r)
    \/ RevokeOne(r) \/ RevokeOneRefused(r)
    \/ Record(r) \/ Return(r)

Next == \E r \in Request : Begin(r) \/ Advance(r) \/ Fail(r)

\* A call whose next step is possible again and again does it: goroutines
\* are scheduled, statements terminate, the lock manager queues the waiters
\* of a row, and the deadlock detector runs.  The fairness is strong because
\* a row that is free may be locked again before the waiter gets it.
\* Nothing is assumed of new calls or of failures.
Fairness == \A r \in Request : SF_vars(Advance(r))

Spec == Init /\ [][Next]_vars

FairSpec == Spec /\ Fairness
-----------------------------------------------------------------------------
(* Safety.                                                                 *)

\* A family never has two redeemable tokens, however refreshes, logouts and
\* reuse responses interleave (token.Rotate, SessionStore.RotateToken).
AtMostOneLive ==
    \A s, t \in live : family[s] = family[t] => s = t

\* A family that has lost its last live session never gets one again: a
\* refresh that looked its token up before a logout or a reuse response and
\* rotates after it does not bring the family back (SessionStore.RotateToken).
DeadFamilyStaysDead ==
    [][\A f \in SessionID :
          f \in rows /\ LiveInFamily(f) = {} => LiveInFamily(f)' = {}]_vars

\* A call that answers, or records in the audit trail, that it revoked
\* sessions has revoked all those that were live when its statement began,
\* also one that a rotation had locked and then rolled back (Logout,
\* RevokeSession, LogoutAll, RefreshToken on reuse).
RevocationEffective ==
    \A r \in Request :
        (result[r] # "none" \/ event[r] # "none") => seen[r] \cap live = {}

\* The reuse response is never the victim of a deadlock: RevokeFamily has at
\* most one row to lock, so it never waits while it holds a lock that
\* somebody else needs (SessionStore.RevokeFamily).
ReuseNeverDeadlocks ==
    \A r \in Request : op[r] = "reuse" => ~Deadlocked(r)

\* Everything above, in one specification: the session layer implements
\* SessionFamilies.
CurrentOf(f) ==
    IF ~(f \in rows /\ family[f] = f) THEN "unused"
    ELSE IF LiveInFamily(f) = {} THEN "dead"
    ELSE CHOOSE s \in LiveInFamily(f) : TRUE

Abstract == INSTANCE SessionFamilies
                WITH Unused <- "unused", Dead <- "dead",
                     current <- [f \in SessionID |-> CurrentOf(f)],
                     spent <- revoked

\* Rotation is atomic, a spent token never becomes redeemable again, and a
\* revoked family stays closed (the session layer as a whole).
ImplementsSessionFamilies == Abstract!Spec

\* The table: a row is live or revoked, the first row of a family carries
\* its id, and a family has at most one live row.
TableInv ==
    /\ live \cap revoked = {}
    /\ \A s \in rows : family[s] \in rows /\ family[family[s]] = family[s]
    /\ AtMostOneLive

\* The locks: only an open transaction holds any, only on live rows, and no
\* row is held twice.
LockInv ==
    /\ \A r \in Request :
          /\ held[r] \subseteq live
          /\ pc[r] \notin {"insert", "revoking"} => held[r] = {}
          /\ pc[r] = "insert" => held[r] = {arg[r]}
          /\ pc[r] = "revoking" => held[r] \subseteq seen[r]
    /\ \A r, q \in Request : r # q => held[r] \cap held[q] = {}

\* The calls: what each one knows of the table at each step.
CallInv ==
    /\ \A r \in Request :
          /\ pc[r] \in {"rotate", "insert"} => fresh[r] \in SessionID \ rows
          /\ pc[r] \in {"rotate", "insert", "family", "revoke"} => arg[r] \in rows
          /\ seen[r] \subseteq rows
          /\ pc[r] \in {"idle", "rotate", "insert", "family", "revoke"} => seen[r] = {}
          /\ pc[r] \in {"record", "done"} => seen[r] \cap live = {}
          /\ pc[r] # "done" => result[r] = "none" /\ event[r] = "none"
          /\ op[r] = "reuse" => \A s, t \in seen[r] : s = t
    /\ \A r, q \in Request :
          r # q /\ fresh[r] # NoSession => fresh[r] # fresh[q]

\* The inductive invariant behind the theorems: a row is revoked and
\* succeeded only under its lock, and the lock is what excludes the others
\* (SessionStore.RotateToken, Revoke, RevokeFamily, RevokeAllForUser).
IndInv == TypeOK /\ TableInv /\ LockInv /\ CallInv
-----------------------------------------------------------------------------
(* Liveness.                                                               *)

\* Every call returns: nobody waits for a row lock for ever, not even when
\* bulk revocations deadlock (every handler of the session layer).
EveryCallReturns ==
    \A r \in Request : pc[r] # "idle" ~> pc[r] = "idle"
-----------------------------------------------------------------------------
(* What the comments say and the store does not do.                        *)

\* token/refresh.go: "The entire session family has already been revoked by
\* the time this is returned", of ErrTokenReused.
ReuseKillsFamily ==
    \A r \in Request :
        result[r] = "ErrTokenReused" => LiveInFamily(family[arg[r]]) = {}
=============================================================================
