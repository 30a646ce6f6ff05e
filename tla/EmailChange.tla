---------------------------- MODULE EmailChange ----------------------------
(***************************************************************************)
(* Who owns which e-mail address: SignUp, RequestEmailChange and           *)
(* ConfirmEmailChange over the Postgres users and verification_tokens      *)
(* tables, any number of calls in flight.                                  *)
(*                                                                         *)
(* email[u] is the address in the row of user u (users.email is UNIQUE).   *)
(* A verification token is identified with its row: newOwner and newEmail  *)
(* are its user_id and new_email.  Each store call is one autocommitted    *)
(* statement, so one step.  An expiry is an event that may happen to a     *)
(* token at any time after its creation, and the deletion of a user one    *)
(* that may happen to a user (Accounts has the rest of DeleteAccount).     *)
(***************************************************************************)
EXTENDS Naturals

CONSTANTS User,      \* user ids
          Email,     \* addresses
          Token,     \* verification tokens; bounds the rows ever inserted
          Request,   \* calls that may be in flight together
          Nobody,    \* no user id
          NoEmail,   \* no address: the user does not exist
          NoToken    \* no token

ASSUME AbsentAssumption ==
    /\ Nobody \notin User
    /\ NoEmail \notin Email
    /\ NoToken \notin Token

VARIABLES
    email,      \* users.email
    newOwner,   \* verification_tokens.user_id
    newEmail,   \* verification_tokens.new_email
    used,       \* tokens with used_at set
    expired,    \* tokens past expires_at
    mailed,     \* raw tokens that reached the new address
    pc,         \* where each call in flight is
    who,        \* the user it is about
    addr,       \* the address it is about
    arg,        \* the token it created or read
    answer,     \* what the last call of this slot was answered
    signedUp,   \* history: the address the user signed up with
    applied     \* history: how often each token has changed an address, up to 2

users == <<email, signedUp>>
tokens == <<newOwner, newEmail, used, expired, mailed, applied>>
call == <<pc, who, addr, arg, answer>>
vars == <<email, newOwner, newEmail, used, expired, mailed,
          pc, who, addr, arg, answer, signedUp, applied>>

Answer == {"none", "ok", "ErrRateLimited", "ErrUserExists",
           "ErrVerificationTokenInvalid", "ErrVerificationTokenExpired",
           "error"}

Step == {"idle", "create", "issue", "send", "update", "mark"}

Exists(u) == email[u] # NoEmail
Created == {t \in Token : newOwner[t] # Nobody}
\* The rows of verification_tokens: user_id is ON DELETE CASCADE.
Rows == {t \in Created : Exists(newOwner[t])}
Taken(e) == \E u \in User : email[u] = e
TakenByOther(u, e) == \E v \in User \ {u} : email[v] = e

TypeOK ==
    /\ email \in [User -> Email \cup {NoEmail}]
    /\ newOwner \in [Token -> User \cup {Nobody}]
    /\ newEmail \in [Token -> Email \cup {NoEmail}]
    /\ used \subseteq Token
    /\ expired \subseteq Token
    /\ mailed \subseteq Token
    /\ pc \in [Request -> Step]
    /\ who \in [Request -> User \cup {Nobody}]
    /\ addr \in [Request -> Email \cup {NoEmail}]
    /\ arg \in [Request -> Token \cup {NoToken}]
    /\ answer \in [Request -> Answer]
    /\ signedUp \in [User -> Email \cup {NoEmail}]
    /\ applied \in [Token -> 0..2]

Init ==
    /\ email = [u \in User |-> NoEmail]
    /\ newOwner = [t \in Token |-> Nobody]
    /\ newEmail = [t \in Token |-> NoEmail]
    /\ used = {}
    /\ expired = {}
    /\ mailed = {}
    /\ pc = [r \in Request |-> "idle"]
    /\ who = [r \in Request |-> Nobody]
    /\ addr = [r \in Request |-> NoEmail]
    /\ arg = [r \in Request |-> NoToken]
    /\ answer = [r \in Request |-> "none"]
    /\ signedUp = [u \in User |-> NoEmail]
    /\ applied = [t \in Token |-> 0]

Return(r, a) ==
    /\ pc' = [pc EXCEPT ![r] = "idle"]
    /\ who' = [who EXCEPT ![r] = Nobody]
    /\ addr' = [addr EXCEPT ![r] = NoEmail]
    /\ arg' = [arg EXCEPT ![r] = NoToken]
    /\ answer' = [answer EXCEPT ![r] = a]

Goto(r, step, u, e, t) ==
    /\ pc' = [pc EXCEPT ![r] = step]
    /\ who' = [who EXCEPT ![r] = u]
    /\ addr' = [addr EXCEPT ![r] = e]
    /\ arg' = [arg EXCEPT ![r] = t]
    /\ answer' = [answer EXCEPT ![r] = "none"]
-----------------------------------------------------------------------------
(* SignUp.                                                                 *)

\* limiter.Allow refuses the call.
SignUpRateLimited(r) ==
    /\ pc[r] = "idle"
    /\ Return(r, "ErrRateLimited")
    /\ UNCHANGED <<users, tokens>>

\* GetByEmail finds the address.
SignUpTaken(r, e) ==
    /\ pc[r] = "idle"
    /\ Taken(e)
    /\ Return(r, "ErrUserExists")
    /\ UNCHANGED <<users, tokens>>

\* GetByEmail finds nothing, or fails, which counts as nothing found.
SignUpLookup(r, e) ==
    /\ pc[r] = "idle"
    /\ Goto(r, "create", Nobody, e, NoToken)
    /\ UNCHANGED <<users, tokens>>

\* Mutant: a users table without UNIQUE (email).
SignUpCreateAnyway(r, u) ==
    /\ pc[r] = "create"
    /\ signedUp[u] = NoEmail
    /\ email' = [email EXCEPT ![u] = addr[r]]
    /\ signedUp' = [signedUp EXCEPT ![u] = addr[r]]
    /\ Return(r, "ok")
    /\ UNCHANGED tokens

\* users.Create with a new id; then the audit event signup_success.
SignUpCreate(r, u) ==
    /\ pc[r] = "create"
    /\ signedUp[u] = NoEmail
    /\ ~Taken(addr[r])
    /\ email' = [email EXCEPT ![u] = addr[r]]
    /\ signedUp' = [signedUp EXCEPT ![u] = addr[r]]
    /\ Return(r, "ok")
    /\ UNCHANGED tokens

\* UNIQUE (email) refuses the row: somebody else was faster.
SignUpConflict(r) ==
    /\ pc[r] = "create"
    /\ Taken(addr[r])
    /\ Return(r, "error")
    /\ UNCHANGED <<users, tokens>>
-----------------------------------------------------------------------------
(* RequestEmailChange.                                                     *)

RequestTaken(r, u, e) ==
    /\ pc[r] = "idle"
    /\ Taken(e)
    /\ Return(r, "ErrUserExists")
    /\ UNCHANGED <<users, tokens>>

\* Mutant: the mail goes out without a token having been stored.
RequestLookupUnstored(r, u, e) ==
    /\ pc[r] = "idle"
    /\ Goto(r, "send", u, e, NoToken)
    /\ UNCHANGED <<users, tokens>>

\* GetByEmail finds nothing, or fails, which counts as nothing found.
RequestLookup(r, u, e) ==
    /\ pc[r] = "idle"
    /\ Goto(r, "issue", u, e, NoToken)
    /\ UNCHANGED <<users, tokens>>

\* Mutant: the address is changed when the change is requested; the mail that
\* proves it is still to come, and may fail.
RequestIssueAndApply(r, t) ==
    /\ pc[r] = "issue"
    /\ Exists(who[r])
    /\ t \notin Created
    /\ ~TakenByOther(who[r], addr[r])
    /\ email' = [email EXCEPT ![who[r]] = addr[r]]
    /\ newOwner' = [newOwner EXCEPT ![t] = who[r]]
    /\ newEmail' = [newEmail EXCEPT ![t] = addr[r]]
    /\ Goto(r, "send", who[r], addr[r], t)
    /\ UNCHANGED <<signedUp, used, expired, mailed, applied>>

\* verifications.Create of a fresh token; the user must exist (foreign key).
RequestIssue(r, t) ==
    /\ pc[r] = "issue"
    /\ Exists(who[r])
    /\ t \notin Created
    /\ newOwner' = [newOwner EXCEPT ![t] = who[r]]
    /\ newEmail' = [newEmail EXCEPT ![t] = addr[r]]
    /\ Goto(r, "send", who[r], addr[r], t)
    /\ UNCHANGED <<users, used, expired, mailed, applied>>

RequestNoUser(r) ==
    /\ pc[r] = "issue"
    /\ ~Exists(who[r])
    /\ Return(r, "error")
    /\ UNCHANGED <<users, tokens>>

\* SendVerification to the new address; then the audit event
\* email_change_requested.
RequestSend(r) ==
    /\ pc[r] = "send"
    /\ mailed' = mailed \cup {arg[r]}
    /\ Return(r, "ok")
    /\ UNCHANGED <<users, newOwner, newEmail, used, expired, applied>>

\* The sender reports an error, with or without having sent the mail.  The
\* token stays in the table.
RequestSendFails(r) ==
    /\ pc[r] = "send"
    /\ \/ mailed' = mailed \cup {arg[r]}
       \/ UNCHANGED mailed
    /\ Return(r, "error")
    /\ UNCHANGED <<users, newOwner, newEmail, used, expired, applied>>
-----------------------------------------------------------------------------
(* ConfirmEmailChange.                                                     *)

\* GetByTokenHash finds no row or fails, or the row is used.
ConfirmInvalid(r) ==
    /\ pc[r] = "idle"
    /\ Return(r, "ErrVerificationTokenInvalid")
    /\ UNCHANGED <<users, tokens>>

ConfirmExpired(r, t) ==
    /\ pc[r] = "idle"
    /\ t \in (Rows \cap mailed \cap expired) \ used
    /\ Return(r, "ErrVerificationTokenExpired")
    /\ UNCHANGED <<users, tokens>>

\* Mutant: UsedAt is not looked at.
ConfirmLookupUsed(r, t) ==
    /\ pc[r] = "idle"
    /\ t \in (Rows \cap mailed) \ expired
    /\ Goto(r, "update", newOwner[t], newEmail[t], t)
    /\ UNCHANGED <<users, tokens>>

\* The row is unused and in time; from here on it may be out of date.
ConfirmLookup(r, t) ==
    /\ pc[r] = "idle"
    /\ t \in (Rows \cap mailed) \ (used \cup expired)
    /\ Goto(r, "update", newOwner[t], newEmail[t], t)
    /\ UNCHANGED <<users, tokens>>

\* Mutant: an UpdateEmail that puts the row back if it is gone.
ConfirmUpdateUpsert(r) ==
    /\ pc[r] = "update"
    /\ ~TakenByOther(who[r], addr[r])
    /\ email' = [email EXCEPT ![who[r]] = addr[r]]
    /\ applied' = [applied EXCEPT ![arg[r]] = IF @ = 2 THEN 2 ELSE @ + 1]
    /\ Goto(r, "mark", who[r], addr[r], arg[r])
    /\ UNCHANGED <<signedUp, newOwner, newEmail, used, expired, mailed>>

\* users.UpdateEmail
ConfirmUpdate(r) ==
    /\ pc[r] = "update"
    /\ Exists(who[r])
    /\ ~TakenByOther(who[r], addr[r])
    /\ email' = [email EXCEPT ![who[r]] = addr[r]]
    /\ applied' = [applied EXCEPT ![arg[r]] = IF @ = 2 THEN 2 ELSE @ + 1]
    /\ Goto(r, "mark", who[r], addr[r], arg[r])
    /\ UNCHANGED <<signedUp, newOwner, newEmail, used, expired, mailed>>

\* UNIQUE (email) refuses the new address; the token stays unused.
ConfirmConflict(r) ==
    /\ pc[r] = "update"
    /\ Exists(who[r])
    /\ TakenByOther(who[r], addr[r])
    /\ Return(r, "error")
    /\ UNCHANGED <<users, tokens>>

\* The user has been deleted since: no row is affected.
ConfirmGone(r) ==
    /\ pc[r] = "update"
    /\ ~Exists(who[r])
    /\ Return(r, "error")
    /\ UNCHANGED <<users, tokens>>

\* verifications.MarkUsed, which changes nothing when somebody else did it
\* first (the error is only logged); then the audit event email_changed.
ConfirmMark(r) ==
    /\ pc[r] = "mark"
    /\ arg[r] \in Rows
    /\ used' = used \cup {arg[r]}
    /\ Return(r, "ok")
    /\ UNCHANGED <<users, newOwner, newEmail, expired, mailed, applied>>

\* MarkUsed fails or finds no row: only logged, the call succeeds.
ConfirmMarkFails(r) ==
    /\ pc[r] = "mark"
    /\ Return(r, "ok")
    /\ UNCHANGED <<users, tokens>>
-----------------------------------------------------------------------------
\* A statement fails, the context is cancelled or the process crashes.
Fail(r) ==
    /\ pc[r] # "idle"
    /\ Return(r, "error")
    /\ UNCHANGED <<users, tokens>>

\* An hour has passed since the token was created.
Expire(t) ==
    /\ t \in Rows \ expired
    /\ expired' = expired \cup {t}
    /\ UNCHANGED <<users, call, newOwner, newEmail, used, mailed, applied>>

\* users.Delete, the last statement of auth.DeleteAccount.  The tokens of the
\* user go with the row (Rows) and so do their columns; the id is not used
\* again.
Delete(u) ==
    /\ Exists(u)
    /\ email' = [email EXCEPT ![u] = NoEmail]
    /\ used' = {t \in used : newOwner[t] # u}
    /\ expired' = {t \in expired : newOwner[t] # u}
    /\ UNCHANGED <<signedUp, newOwner, newEmail, mailed, applied, call>>

Next ==
    \/ \E t \in Token : Expire(t)
    \/ \E u \in User : Delete(u)
    \/ \E r \in Request :
        \/ SignUpRateLimited(r)
        \/ \E e \in Email : SignUpTaken(r, e) \/ SignUpLookup(r, e)
        \/ \E u \in User : SignUpCreate(r, u)
        \/ SignUpConflict(r)
        \/ \E u \in User, e \in Email :
              RequestTaken(r, u, e) \/ RequestLookup(r, u, e)
        \/ \E t \in Token : RequestIssue(r, t)
        \/ RequestNoUser(r) \/ RequestSend(r) \/ RequestSendFails(r)
        \/ ConfirmInvalid(r)
        \/ \E t \in Token : ConfirmExpired(r, t) \/ ConfirmLookup(r, t)
        \/ ConfirmUpdate(r) \/ ConfirmConflict(r) \/ ConfirmGone(r)
        \/ ConfirmMark(r) \/ ConfirmMarkFails(r)
        \/ Fail(r)

Spec == Init /\ [][Next]_vars
-----------------------------------------------------------------------------
\* However sign-ups and confirmations race past their lookups, no address
\* belongs to two users (auth.SignUp, auth.ConfirmEmailChange).
EmailsUnique ==
    \A u, v \in User : u # v /\ Exists(u) => email[u] # email[v]

\* A user's address is the one of the sign-up or one to which a token of this
\* very user was mailed: nobody moves an account to an address that was not
\* shown to be reachable (auth.RequestEmailChange, auth.ConfirmEmailChange).
AddressProved ==
    \A u \in User : Exists(u) =>
        \/ email[u] = signedUp[u]
        \/ \E t \in mailed : newOwner[t] = u /\ newEmail[t] = email[u]

\* A token that is used, expired or deleted with its user.
Spent == used \cup expired \cup (Created \ Rows)

\* A spent token changes an address only through a call that had read it
\* before: once those have returned it is inert (auth.ConfirmEmailChange).
SpentTokenInert ==
    [][\A t \in Spent :
          (\A r \in Request : arg[r] = t => pc[r] # "update")
             => /\ applied'[t] = applied[t]
                /\ \A r \in Request : arg'[r] = t => pc'[r] # "update"]_vars

\* The above in one specification: however its calls interleave and fail,
\* the component is an address book.
Abstract == INSTANCE AddressBook
                WITH known <- {u \in User : signedUp[u] # NoEmail},
                     proved <- {<<newOwner[t], newEmail[t]>> : t \in mailed}

\* An address has one owner, an account moves only to an address it was
\* proved to reach, and a deleted account stays deleted: a confirmation that
\* had read its token before the deletion does not bring it back
\* (auth.SignUp, auth.ConfirmEmailChange, auth.DeleteAccount).
ImplementsAddressBook == Abstract!Spec

\* store/interfaces.go: a VerificationToken "represents a single-use,
\* expiring token".
TokenSingleUse == \A t \in Token : applied[t] <= 1

=============================================================================
