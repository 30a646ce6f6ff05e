---------------------------- MODULE AddressBook ----------------------------
(***************************************************************************)
(* What sign-up, e-mail change and account deletion promise together,      *)
(* without tokens, statements or calls in flight.                          *)
(*                                                                         *)
(* An account takes a free address when it is opened, moves to another one *)
(* only after that one was proved to reach its holder, and gives its       *)
(* address up when it is closed, for good.                                 *)
(***************************************************************************)
CONSTANTS User,      \* account ids
          Email,     \* addresses
          NoEmail    \* email[u] of an account that is not open

VARIABLES email,     \* the address of an account
          known,     \* accounts that have been opened, closed ones included
          proved     \* pairs of an account and an address that reached it

vars == <<email, known, proved>>

Free(u, e) == \A v \in User \ {u} : email[v] # e

Init == /\ email = [u \in User |-> NoEmail]
        /\ known = {}
        /\ proved = {}

Register(u, e) ==
    /\ u \notin known
    /\ Free(u, e)
    /\ email' = [email EXCEPT ![u] = e]
    /\ known' = known \cup {u}
    /\ UNCHANGED proved

\* A mail for account u has reached address e.
Prove(u, e) ==
    /\ u \in known
    /\ proved' = proved \cup {<<u, e>>}
    /\ UNCHANGED <<email, known>>

Move(u, e) ==
    /\ email[u] # NoEmail
    /\ <<u, e>> \in proved
    /\ Free(u, e)
    /\ email' = [email EXCEPT ![u] = e]
    /\ UNCHANGED <<known, proved>>

Leave(u) ==
    /\ email[u] # NoEmail
    /\ email' = [email EXCEPT ![u] = NoEmail]
    /\ UNCHANGED <<known, proved>>

Next == \E u \in User :
            \/ Leave(u)
            \/ \E e \in Email : Register(u, e) \/ Prove(u, e) \/ Move(u, e)

Spec == Init /\ [][Next]_vars
=============================================================================
