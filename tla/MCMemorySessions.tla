-------------------------- MODULE MCMemorySessions --------------------------
(* Instances of MemorySessions for TLC.                                    *)
EXTENDS MemorySessions, TLC

\* Sessions and calls are interchangeable: no action or property names one.
Symmetry == Permutations(SessionID) \cup Permutations(Request)
=============================================================================
