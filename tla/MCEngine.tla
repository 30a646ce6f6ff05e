------------------------------ MODULE MCEngine ------------------------------
(* Instances of Engine for TLC.                                            *)
EXTENDS Engine

CONSTANTS k1, k2

\* All knobs unset but the ones of over.
Knobs(over) == [k \in Knob |-> IF k \in DOMAIN over THEN over[k] ELSE 0]

Full == [secret |-> k1, parts |-> Part \ {"logger"}, knob |-> Knobs(<<>>)]

With(over) == [Full EXCEPT !.knob = Knobs(over)]

\* Complete configurations with TTLs below, at and beside whole seconds and
\* another secret; every set of optional parts; one required thing missing;
\* and knobs at the ends of their ranges and below zero.
MCConfigs ==
    {With([ttl |-> t]) : t \in {-1, 1, 4, 6, 7}}
    \cup {[With([ttl |-> 5]) EXCEPT !.secret = s] : s \in {k2, NoSecret}}
    \cup {[Full EXCEPT !.parts = Required \cup P] :
              P \in SUBSET {"verifications", "sender"}}
    \cup {[Full EXCEPT !.parts = @ \ {p}] : p \in Required}
    \cup {With([cost |-> c]) : c \in {3, 4, 31, 32}}
    \cup {With([bytes |-> b]) : b \in {-1, 15, 16}}
    \cup {With([attempts |-> -1, window |-> -1, threshold |-> -1,
                duration |-> -1])}
=============================================================================
