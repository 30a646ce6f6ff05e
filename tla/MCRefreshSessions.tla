------------------------- MODULE MCRefreshSessions -------------------------
(* Instances of RefreshSessions for TLC.                                   *)
EXTENDS RefreshSessions, TLC

\* Sessions, calls and users are interchangeable: no action or safety
\* property names one of them.
Symmetry == Permutations(SessionID) \cup Permutations(Request)
                \cup Permutations(User)

\* Of the ids not in use, which appear nowhere in the state, a call generates
\* a fixed one: any other gives the same behaviour up to the names of ids.
FixedIds ==
    Unseen = {} \/ \A r \in Request :
        fresh'[r] \in {fresh[r], NoSession, CHOOSE n \in Unseen : TRUE}

\* The specification up to the names of the ids, with its fairness.
FixedIdsSpec == Init /\ [][Next /\ FixedIds]_vars /\ Fairness
=============================================================================
