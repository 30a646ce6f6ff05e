------------------------------ MODULE Accounts ------------------------------
(***************************************************************************)
(* One account from the outside: Login, RefreshToken, the logouts,         *)
(* ChangePassword and DeleteAccount, any number of them in flight, over    *)
(* the tables users, sessions and audit_events with their foreign keys,    *)
(* and the access tokens that stay valid whatever happens to the tables.   *)
(*                                                                         *)
(* Sessions are taken as SessionFamilies has them, which RefreshSessions   *)
(* implements: a family is open while it has a redeemable token, a         *)
(* rotation keeps it open, and a revocation closes it.  A bulk UPDATE      *)
(* works on a snapshot: seen[r] are the families whose live row is in it.  *)
(* A rotation replaces that row, and the family drops out of seen.         *)
(*                                                                         *)
(* A password is right or wrong for the row that was read; which one it    *)
(* was is history (stale, old).  access is the time left of the youngest   *)
(* access token of this user; a token lives at most TTL (module Engine).   *)
(* A call that is refused before its first write to these tables changes   *)
(* nothing here: a stutter.  Events without a user (no_such_user) are not  *)
(* about this account.                                                     *)
(***************************************************************************)
EXTENDS Naturals

CONSTANTS Family,    \* session families; bounds the logins
          Request,   \* calls that may be in flight together
          TTL        \* Config.AccessTokenTTL, in ticks

ASSUME TTLAssumption == TTL \in Nat \ {0}

VARIABLES
    exists,     \* the row in users
    open,       \* families with a live row in sessions
    closed,     \* families with revoked rows only
    trail,      \* rows of audit_events about this account
    access,     \* time until the youngest access token expires
    pc,         \* where each call in flight is
    op,         \* what it is doing
    seen,       \* the families its revoking statement closes
    stale,      \* history: logins that compared a password since replaced
    old,        \* history: open families of a password since replaced
    raced,      \* history: those that slipped past the last change
    unrevoked,  \* history: those whose revocation failed
    botched     \* history: a DeleteAccount failed at its last statement

tables == <<exists, open, closed, trail>>
history == <<stale, old, raced, unrevoked, botched>>
vars == <<exists, open, closed, trail, access, pc, op, seen,
          stale, old, raced, unrevoked, botched>>

Step == {"idle", "create", "issue", "update", "revoke", "revoking", "record",
         "delete"}
Operation == {"none", "login", "refresh", "logout", "change", "delete"}
AuditEvent == [type : {"account_deleted", "other"}, attributed : BOOLEAN]

EventOf(o) == IF o = "delete" THEN "account_deleted" ELSE "other"
rows == open \cup closed

TypeOK ==
    /\ exists \in BOOLEAN
    /\ open \subseteq Family
    /\ closed \subseteq Family
    /\ trail \subseteq AuditEvent
    /\ access \in 0..TTL
    /\ pc \in [Request -> Step]
    /\ op \in [Request -> Operation]
    /\ seen \in [Request -> SUBSET Family]
    /\ stale \subseteq Request
    /\ old \subseteq Family
    /\ raced \subseteq Family
    /\ unrevoked \subseteq Family
    /\ botched \in BOOLEAN

\* The user has signed up.
Init ==
    /\ exists = TRUE
    /\ open = {}
    /\ closed = {}
    /\ trail = {}
    /\ access = 0
    /\ pc = [r \in Request |-> "idle"]
    /\ op = [r \in Request |-> "none"]
    /\ seen = [r \in Request |-> {}]
    /\ stale = {}
    /\ old = {}
    /\ raced = {}
    /\ unrevoked = {}
    /\ botched = FALSE
-----------------------------------------------------------------------------
(* How a call moves on.                                                    *)

Goto(r, step) ==
    /\ pc' = [pc EXCEPT ![r] = step]
    /\ UNCHANGED op

Begin(r, o, step) ==
    /\ pc[r] = "idle"
    /\ pc' = [pc EXCEPT ![r] = step]
    /\ op' = [op EXCEPT ![r] = o]

Return(r) ==
    /\ pc' = [pc EXCEPT ![r] = "idle"]
    /\ op' = [op EXCEPT ![r] = "none"]

\* The live rows of the families in F are revoked.
Close(F) ==
    /\ open' = open \ F
    /\ closed' = closed \cup (open \cap F)
    /\ old' = old \ F
    /\ raced' = raced \ F
    /\ unrevoked' = unrevoked \ F

\* A password change whose revoking statement is still to take its snapshot.
Pending == \E r \in Request : op[r] = "change" /\ pc[r] = "revoke"
-----------------------------------------------------------------------------
(* Login and RefreshToken.                                                 *)

\* The row is read and the password is the right one.
LoginAccepted(r) ==
    /\ exists
    /\ Begin(r, "login", "create")
    /\ UNCHANGED <<tables, access, seen, history>>

\* The password is wrong: the event login_failed, and account_locked after it
\* if the attempt locks the account, which adds nothing to the trail here.
LoginWrong(r) ==
    /\ exists
    /\ Begin(r, "login", "record")
    /\ UNCHANGED <<tables, access, seen, history>>

\* Mutant: sessions.user_id without its foreign key.
LoginCreateUnchecked(r, f) ==
    /\ pc[r] = "create"
    /\ f \notin rows
    /\ open' = open \cup {f}
    /\ old' = IF r \in stale THEN old \cup {f} ELSE old
    /\ raced' = IF r \in stale /\ ~Pending THEN raced \cup {f} ELSE raced
    /\ stale' = stale \ {r}
    /\ Goto(r, "issue")
    /\ UNCHANGED <<exists, closed, trail, access, seen, unrevoked, botched>>

\* sessions.Create: the row needs its user.
LoginCreate(r, f) ==
    /\ pc[r] = "create"
    /\ exists
    /\ f \notin rows
    /\ open' = open \cup {f}
    /\ old' = IF r \in stale THEN old \cup {f} ELSE old
    /\ raced' = IF r \in stale /\ ~Pending THEN raced \cup {f} ELSE raced
    /\ stale' = stale \ {r}
    /\ Goto(r, "issue")
    /\ UNCHANGED <<exists, closed, trail, access, seen, unrevoked, botched>>

LoginCreateRefused(r) ==
    /\ pc[r] = "create"
    /\ ~exists
    /\ stale' = stale \ {r}
    /\ Return(r)
    /\ UNCHANGED <<tables, access, seen, old, raced, unrevoked, botched>>

\* token.Rotate up to the COMMIT of RotateToken.
Rotate(r, f) ==
    /\ f \in open
    /\ Begin(r, "refresh", "issue")
    /\ seen' = [q \in Request |-> seen[q] \ {f}]
    /\ raced' = IF ~Pending /\ \E q \in Request : op[q] = "change" /\ f \in seen[q]
                THEN raced \cup {f} ELSE raced
    /\ UNCHANGED <<tables, access, stale, old, unrevoked, botched>>

\* Mutant: the new token starts when the one before it ends.
IssueQueued(r) ==
    /\ pc[r] = "issue"
    /\ access' = access + TTL
    /\ Goto(r, "record")
    /\ UNCHANGED <<tables, seen, history>>

\* jwtIssuer.Issue
Issue(r) ==
    /\ pc[r] = "issue"
    /\ access' = TTL
    /\ Goto(r, "record")
    /\ UNCHANGED <<tables, seen, history>>
-----------------------------------------------------------------------------
(* The logouts (module RefreshSessions has the details).                   *)

\* Logout, RevokeSession or a reuse response has closed a family and goes on
\* to record it.
Kill(r, f) ==
    /\ f \in open
    /\ Begin(r, "logout", "record")
    /\ Close({f})
    /\ UNCHANGED <<exists, trail, access, seen, stale, botched>>

LogoutAll(r) ==
    /\ Begin(r, "logout", "revoke")
    /\ UNCHANGED <<tables, access, seen, history>>
-----------------------------------------------------------------------------
(* ChangePassword and DeleteAccount.                                       *)

\* GetByID and Compare.
Confirmed(r, o) ==
    /\ exists
    /\ \/ o = "change" /\ Begin(r, o, "update")
       \/ o = "delete" /\ Begin(r, o, "revoke")
    /\ UNCHANGED <<tables, access, seen, history>>

\* users.UpdatePasswordHash: from here on the open families are old, and so
\* is the password the logins in flight have compared.  The revocation that
\* follows is for the families an earlier change has missed, too.
UpdatePassword(r) ==
    /\ pc[r] = "update"
    /\ exists
    /\ old' = open
    /\ stale' = {q \in Request : pc[q] = "create"}
    /\ raced' = {}
    /\ unrevoked' = {}
    /\ Goto(r, "revoke")
    /\ UNCHANGED <<tables, access, seen, botched>>

UpdateRefused(r) ==
    /\ pc[r] = "update"
    /\ ~exists
    /\ Return(r)
    /\ UNCHANGED <<tables, access, seen, history>>

\* Mutant: a bulk UPDATE that leaves one session alone.
RevokeAllButOne(r) ==
    /\ pc[r] = "revoke"
    /\ \E keep \in SUBSET open :
          /\ \A f, g \in keep : f = g
          /\ seen' = [seen EXCEPT ![r] = open \ keep]
    /\ Goto(r, "revoking")
    /\ UNCHANGED <<tables, access, history>>

\* RevokeAllForUser: the snapshot of its UPDATE ...
RevokeAllForUser(r) ==
    /\ pc[r] = "revoke"
    /\ seen' = [seen EXCEPT ![r] = open]
    /\ Goto(r, "revoking")
    /\ UNCHANGED <<tables, access, history>>

\* ... and its end.
RevokeCommit(r) ==
    /\ pc[r] = "revoking"
    /\ Close(seen[r])
    /\ seen' = [seen EXCEPT ![r] = {}]
    /\ Goto(r, "record")
    /\ UNCHANGED <<exists, trail, access, stale, botched>>

\* The old families that are left when the revocation of r is given up.
Uncovered(r) ==
    IF op[r] = "change" /\ pc[r] \in {"revoke", "revoking"}
    THEN old ELSE {}

\* The revocation fails: ChangePassword and DeleteAccount only log it and go
\* on (LogoutAll returns the error, which is Fail).
RevokeFails(r) ==
    /\ pc[r] \in {"revoke", "revoking"}
    /\ op[r] # "logout"
    /\ seen' = [seen EXCEPT ![r] = {}]
    /\ unrevoked' = unrevoked \cup Uncovered(r)
    /\ Goto(r, "record")
    /\ UNCHANGED <<tables, access, stale, old, raced, botched>>

\* Mutant: DeleteAccount returns once its event is recorded.
RecordAndReturn(r) ==
    /\ pc[r] = "record"
    /\ trail' = trail \cup {[type |-> EventOf(op[r]), attributed |-> TRUE]}
    /\ Return(r)
    /\ UNCHANGED <<exists, open, closed, access, seen, history>>

\* audit.Record: the event names the user, who must exist; a failure is only
\* logged.  DeleteAccount then goes on to its last statement.
Record(r) ==
    /\ pc[r] = "record"
    /\ \/ exists /\ trail' = trail \cup
                        {[type |-> EventOf(op[r]), attributed |-> TRUE]}
       \/ UNCHANGED trail
    /\ \/ op[r] = "delete" /\ Goto(r, "delete")
       \/ op[r] # "delete" /\ Return(r)
    /\ UNCHANGED <<exists, open, closed, access, seen, history>>

\* Mutant: sessions.user_id without ON DELETE CASCADE.
DeleteUserOnly(r) ==
    /\ pc[r] = "delete"
    /\ exists
    /\ exists' = FALSE
    /\ trail' = {[type |-> e.type, attributed |-> FALSE] : e \in trail}
    /\ Return(r)
    /\ UNCHANGED <<open, closed, access, seen, history>>

\* users.Delete: ON DELETE CASCADE for sessions, SET NULL for audit_events.
Delete(r) ==
    /\ pc[r] = "delete"
    /\ exists
    /\ exists' = FALSE
    /\ open' = {}
    /\ closed' = {}
    /\ trail' = {[type |-> e.type, attributed |-> FALSE] : e \in trail}
    /\ old' = {} /\ raced' = {} /\ unrevoked' = {}
    /\ Return(r)
    /\ UNCHANGED <<access, seen, stale, botched>>

DeleteRefused(r) ==
    /\ pc[r] = "delete"
    /\ ~exists
    /\ Return(r)
    /\ UNCHANGED <<tables, access, seen, history>>
-----------------------------------------------------------------------------
(* Failures, and the world around.                                         *)

\* A statement fails, the context is cancelled or the process crashes.
Fail(r) ==
    /\ pc[r] # "idle"
    /\ seen' = [seen EXCEPT ![r] = {}]
    /\ stale' = stale \ {r}
    /\ unrevoked' = unrevoked \cup Uncovered(r)
    /\ botched' = (botched \/ pc[r] = "delete")
    /\ Return(r)
    /\ UNCHANGED <<tables, access, old, raced>>

\* Time passes.
Tick ==
    /\ access > 0
    /\ access' = access - 1
    /\ UNCHANGED <<tables, pc, op, seen, history>>

\* VerifyToken looks at the token only.
VerifyToken == access > 0

Advance(r) ==
    \/ \E f \in Family : LoginCreate(r, f)
    \/ LoginCreateRefused(r) \/ Issue(r)
    \/ UpdatePassword(r) \/ UpdateRefused(r)
    \/ RevokeAllForUser(r) \/ RevokeCommit(r) \/ RevokeFails(r)
    \/ Record(r) \/ Delete(r) \/ DeleteRefused(r)

Next ==
    \/ Tick
    \/ \E r \in Request :
          \/ LoginAccepted(r) \/ LoginWrong(r) \/ LogoutAll(r)
          \/ \E f \in Family : Rotate(r, f) \/ Kill(r, f)
          \/ \E o \in {"change", "delete"} : Confirmed(r, o)
          \/ Advance(r)
          \/ Fail(r)

\* A call in flight does its next step, and time does not stop.
Fairness == WF_vars(Tick) /\ \A r \in Request : WF_vars(Advance(r))

Spec == Init /\ [][Next]_vars

FairSpec == Spec /\ Fairness
-----------------------------------------------------------------------------
(* Properties.                                                             *)

\* A deleted account leaves no session and no event with its id behind, also
\* when logins, refreshes and revocations were in flight (auth.DeleteAccount
\* and the foreign keys of the schema).
GoneMeansGone ==
    ~exists => rows = {} /\ \A e \in trail : ~e.attributed

\* The password changes in flight that are going to close family f.
Covering(f) ==
    {r \in Request : /\ op[r] = "change"
                     /\ pc[r] = "revoke" \/ (pc[r] = "revoking" /\ f \in seen[r])}

\* An open family that was opened with a password since replaced is about to
\* be closed by a password change in flight, unless it slipped past the last
\* change (its login had compared the old password and created the session
\* after the snapshot of the revoking statement, or it was rotated while that
\* statement ran), or the revocation failed.  What slips past one change does
\* not slip past the next (auth.ChangePassword).
OldSessionsCovered ==
    \A f \in old \ (raced \cup unrevoked) : Covering(f) # {}

\* auth/password.go: "On success, ALL sessions are revoked [...] any session
\* an attacker already opened must die too": when the revoking statement of
\* ChangePassword has succeeded and no other change is in flight, no session of
\* an old password is open, save for what an earlier failure has left.
OldSessionsDie ==
    [][\A r \in Request :
          /\ op[r] = "change" /\ RevokeCommit(r)
          /\ \A q \in Request \ {r} : op[q] # "change"
          => old' \subseteq unrevoked]_vars

\* While the account exists, an event that says it was deleted is ahead of
\* its deletion by no more than the statement of a call in flight, unless
\* that statement failed (auth.DeleteAccount records before it deletes).
DeletionEventHonest ==
    exists /\ [type |-> "account_deleted", attributed |-> TRUE] \in trail
        => botched \/ \E r \in Request : pc[r] = "delete"

\* A deleted user is locked out for good once the last access token has run
\* out, although VerifyToken never looks at the account: no call in flight
\* keeps producing access tokens (JWTIssuer.Verify, auth.Login, RefreshToken).
DeletedUserLosesAccess == ~exists ~> [](~VerifyToken)

\* auth/account.go: "Audit BEFORE delete -- the users FK is ON DELETE SET
\* NULL, so the event would lose its user_id attribution if recorded after".
DeletionAttributable ==
    \A e \in trail : e.type = "account_deleted" => e.attributed
=============================================================================
