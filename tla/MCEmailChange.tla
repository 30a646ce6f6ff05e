--------------------------- MODULE MCEmailChange ---------------------------
(* Instances of EmailChange for TLC.                                       *)
EXTENDS EmailChange, TLC

\* No action or property names a user, an address, a token or a call.
Symmetry == Permutations(User) \cup Permutations(Email)
                \cup Permutations(Token) \cup Permutations(Request)
=============================================================================
