----------------------------- MODULE MCLockout -----------------------------
(* Instances of Lockout for TLC.                                           *)
EXTENDS Lockout, TLC

\* No action or safety property names an attempt.
Symmetry == Permutations(Request)
=============================================================================
