-------------------------- MODULE SessionFamilies --------------------------
(***************************************************************************)
(* What the session layer promises to the holders of refresh tokens,       *)
(* without locks, statements or calls in flight.                           *)
(*                                                                         *)
(* A login opens a family.  An open family has exactly one redeemable      *)
(* token, current[f].  A rotation replaces it by a token never seen        *)
(* before, in one step; a revocation closes the family for good.  A token  *)
(* that was current once and is not any more is spent, and stays spent.    *)
(***************************************************************************)
CONSTANTS SessionID,   \* sessions, and the refresh tokens that name them
          Unused,      \* current[f] of a family no login has opened
          Dead         \* current[f] of a family that has been revoked

VARIABLES current,     \* family -> its only redeemable token
          spent        \* tokens that were redeemable and are no longer

vars == <<current, spent>>

Current == {current[f] : f \in SessionID} \cap SessionID

Init == /\ current = [f \in SessionID |-> Unused]
        /\ spent = {}

\* A login: the first session's id doubles as the id of its family.
Open(f) ==
    /\ current[f] = Unused
    /\ f \notin Current \cup spent
    /\ current' = [current EXCEPT ![f] = f]
    /\ UNCHANGED spent

\* A refresh: the old token is spent in the step that makes the new one.
Rotate(f, n) ==
    /\ current[f] \in SessionID
    /\ n \notin Current \cup spent
    /\ current' = [current EXCEPT ![f] = n]
    /\ spent' = spent \cup {current[f]}

\* A logout or a reuse response: it closes a set of open families at once.
Kill(F) ==
    /\ \A f \in F : current[f] \in SessionID
    /\ current' = [f \in SessionID |-> IF f \in F THEN Dead ELSE current[f]]
    /\ spent' = spent \cup {s \in SessionID : \E f \in F : s = current[f]}

Next == \/ \E f \in SessionID : Open(f)
        \/ \E f, n \in SessionID : Rotate(f, n)
        \/ \E F \in SUBSET SessionID : Kill(F)

Spec == Init /\ [][Next]_vars
=============================================================================
