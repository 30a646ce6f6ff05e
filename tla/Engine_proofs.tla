--------------------------- MODULE Engine_proofs ---------------------------
(***************************************************************************)
(* Proofs about Engine, for any set of configurations and any number of    *)
(* ticks to a second.                                                      *)
(***************************************************************************)
EXTENDS Engine, TLAPS

\* A token's expiry is the truncated end of its TTL.
Dated == token # NoToken => token.exp = Expiry(token.issued, token.ttl)

\* The inductive invariant behind the theorems.
IndInv == TypeOK /\ EngineWellFormed /\ NilSafe /\ Dated

\* applyDefaults leaves no knob at zero, and returns a Config.
LEMMA DefaultsApplied ==
    ASSUME NEW c \in Config
    PROVE  /\ applyDefaults(c) \in Config
           /\ applyDefaults(c).secret = c.secret
           /\ applyDefaults(c).parts = c.parts \cup {"logger"}
           /\ \A k \in Knob : \/ applyDefaults(c).knob[k] >= 1
                              \/ /\ c.knob[k] < 0
                                 /\ applyDefaults(c).knob[k] = c.knob[k]
<1>1. \A k \in Knob : Default[k] \in Int /\ Default[k] >= 1
    BY EngineAssumption DEF Default, Knob
<1>2. \A k \in Knob : c.knob[k] \in Int
    BY DEF Config
<1>3. applyDefaults(c).knob
        = [k \in Knob |-> IF c.knob[k] = 0 THEN Default[k] ELSE c.knob[k]]
    BY DEF applyDefaults, Config
<1>4. applyDefaults(c).secret = c.secret
      /\ applyDefaults(c).parts = c.parts \cup {"logger"}
    BY DEF applyDefaults, Config
<1>5. \A k \in Knob : \/ applyDefaults(c).knob[k] >= 1
                      \/ /\ c.knob[k] < 0
                         /\ applyDefaults(c).knob[k] = c.knob[k]
    BY <1>1, <1>2, <1>3
<1>6. applyDefaults(c).knob \in [Knob -> Int]
    BY <1>1, <1>2, <1>3
<1>7. applyDefaults(c) \in Config
    BY <1>4, <1>6 DEF applyDefaults, Config, Part
<1> QED
    BY <1>4, <1>5, <1>7

\* Truncation loses less than a second and adds nothing.
LEMMA Truncation ==
    ASSUME NEW t \in Nat
    PROVE  /\ NumericDate(t) \in Nat
           /\ NumericDate(t) <= t
           /\ t < NumericDate(t) + Second
<1> DEFINE q == t \div Second
<1>1. q \in Nat /\ q * Second <= t /\ t < q * Second + Second
    BY EngineAssumption, SMTT(30)
<1>2. NumericDate(t) = q * Second
    BY DEF NumericDate
<1>3. q * Second \in Nat
    BY <1>1, EngineAssumption
<1> QED
    BY <1>1, <1>2, <1>3

\* Init establishes the invariant.
LEMMA InitInv == Init => IndInv
    BY EngineAssumption
    DEF Init, IndInv, TypeOK, EngineWellFormed, NilSafe, Dated, Up

\* New keeps it: what validate and the constructors let through is well formed.
LEMMA NewStep ==
    ASSUME IndInv, NEW c \in Configs, New(c)
    PROVE  IndInv'
<1> DEFINE d == applyDefaults(c)
<1>1. c \in Config
    BY EngineAssumption
<1>2. /\ d \in Config
      /\ d.secret = c.secret
      /\ d.parts = c.parts \cup {"logger"}
      /\ \A k \in Knob : \/ d.knob[k] >= 1
                         \/ c.knob[k] < 0 /\ d.knob[k] = c.knob[k]
    BY <1>1, DefaultsApplied
<1> HIDE DEF d
<1>3. /\ engine' = [given |-> c, config |-> d]
      /\ used' = {}
      /\ UNCHANGED <<clock, token>>
      /\ validate(c)
      /\ d.knob["cost"] \in 4..31 /\ d.knob["bytes"] >= 16
      /\ d.secret # NoSecret /\ d.knob["ttl"] > 0
    BY DEF New, NewBcryptHasher, NewCryptoRandTokenGenerator, NewJWTIssuer, d
<1>4. TypeOK'
    BY <1>2, <1>3 DEF IndInv, TypeOK
<1>5. EngineWellFormed'
  <2>1. d.secret \in Secret
    BY <1>2, <1>3 DEF Config
  <2>2. Required \cup {"logger"} \subseteq d.parts
    BY <1>2, <1>3 DEF validate
  <2>3. d.knob["ttl"] >= 1
    BY <1>2, <1>3 DEF Config, Knob
  <2> QED
    BY <1>2, <1>3, <2>1, <2>2, <2>3 DEF EngineWellFormed
<1>6. NilSafe' /\ Dated'
    BY <1>3 DEF IndInv, NilSafe, Dated
<1> QED
    BY <1>4, <1>5, <1>6 DEF IndInv

\* The guards of the facade cover every optional part a function uses.
LEMMA CallStep ==
    ASSUME IndInv, NEW f \in DOMAIN Uses, Call(f)
    PROVE  IndInv'
<1>1. UNCHANGED <<engine, clock, token>> /\ Up
    BY DEF Call
<1>2. Required \cup {"logger"} \subseteq engine.config.parts
    BY <1>1 DEF IndInv, EngineWellFormed
<1>3. Uses[f] \subseteq Part
    BY DEF Uses, Part
<1>4. NotConfigured(f) \/ Uses[f] \subseteq engine.config.parts
    BY <1>2 DEF NotConfigured, Uses, Required
<1>5. used' \subseteq Part /\ used' \subseteq engine.config.parts
    BY <1>3, <1>4 DEF Call
<1> QED
    BY <1>1, <1>5
       DEF IndInv, TypeOK, EngineWellFormed, NilSafe, Dated, Up

\* A token is dated when it is issued, and never again.
LEMMA IssueStep ==
    ASSUME IndInv, Issue
    PROVE  IndInv'
<1> DEFINE ttl == engine.config.knob["ttl"]
<1>1. UNCHANGED <<engine, clock, used>> /\ Up
    BY DEF Issue
<1>2. ttl \in Nat \ {0} /\ engine.config.secret \in Secret
    BY <1>1 DEF IndInv, TypeOK, EngineWellFormed, Up, Config, Knob
<1>3. clock \in Nat
    BY EngineAssumption DEF IndInv, TypeOK
<1>4. Expiry(clock, ttl) \in Nat
    BY <1>2, <1>3, Truncation DEF Expiry
<1>5. token' = [secret |-> engine.config.secret, issued |-> clock,
                ttl |-> ttl, exp |-> Expiry(clock, ttl)]
    BY DEF Issue
<1> HIDE DEF ttl
<1>6. token' \in AccessToken /\ Dated'
    BY <1>2, <1>3, <1>4, <1>5 DEF AccessToken, Dated, Expiry, NumericDate
<1> QED
    BY <1>1, <1>6 DEF IndInv, TypeOK, EngineWellFormed, NilSafe, Up

\* Every step keeps the invariant.
LEMMA IndInvStep == IndInv /\ [Next]_vars => IndInv'
<1> SUFFICES ASSUME IndInv, [Next]_vars PROVE IndInv'
    OBVIOUS
<1>1. CASE Tick
    BY <1>1, EngineAssumption DEF Tick, IndInv, TypeOK, EngineWellFormed,
                                 NilSafe, Dated, Up
<1>2. CASE Stop
    BY <1>2 DEF Stop, IndInv, TypeOK, EngineWellFormed, NilSafe, Dated, Up
<1>3. CASE UNCHANGED vars
    BY <1>3 DEF vars, IndInv, TypeOK, EngineWellFormed, NilSafe, Dated, Up
<1> QED
    BY <1>1, <1>2, <1>3, NewStep, CallStep, IssueStep DEF Next

\* The inductive invariant holds of every reachable state.
THEOREM IndInvCorrect == Spec => []IndInv
    BY InitInv, IndInvStep, PTL DEF Spec

\* Type correctness of engine, clock and token.
THEOREM TypeCorrect == Spec => []TypeOK
    BY IndInvCorrect, PTL DEF IndInv

\* Whatever Config New accepts, the engine it returns is well formed.
THEOREM EngineWellFormedCorrect == Spec => []EngineWellFormed
    BY IndInvCorrect, PTL DEF IndInv

\* Whatever is left out of the Config, no call uses a part that is missing.
THEOREM NilSafeCorrect == Spec => []NilSafe
    BY IndInvCorrect, PTL DEF IndInv

\* Whatever the TTL and the resolution of the clock, an accepted token is
\* younger than its TTL.
THEOREM NeverOutlivesTTLCorrect == Spec => []NeverOutlivesTTL
<1>1. IndInv => NeverOutlivesTTL
  <2> SUFFICES ASSUME IndInv, Verify PROVE clock < token.issued + token.ttl
    BY DEF NeverOutlivesTTL
  <2>1. token \in AccessToken /\ clock < token.exp /\ clock \in Nat
    BY EngineAssumption DEF IndInv, TypeOK, Verify
  <2>2. /\ token.issued \in Nat /\ token.ttl \in Nat /\ token.exp \in Nat
        /\ token.issued + token.ttl \in Nat
    BY <2>1 DEF AccessToken
  <2>3. token.exp <= token.issued + token.ttl
    BY <2>2, Truncation DEF IndInv, Dated, Expiry, Verify
  <2> QED
    BY <2>1, <2>2, <2>3
<1> QED
    BY <1>1, IndInvCorrect, PTL

\* ... and it is accepted until less than a second of its TTL is left.
THEOREM LivesAlmostTTLCorrect == Spec => []LivesAlmostTTL
<1>1. IndInv => LivesAlmostTTL
  <2> SUFFICES ASSUME IndInv, Up, token # NoToken,
                      token.secret = engine.config.secret,
                      clock + Second <= token.issued + token.ttl
               PROVE  Verify
    BY DEF LivesAlmostTTL
  <2>1. token \in AccessToken /\ clock \in Nat
    BY EngineAssumption DEF IndInv, TypeOK
  <2>2. /\ token.issued \in Nat /\ token.ttl \in Nat /\ token.exp \in Nat
        /\ token.issued + token.ttl \in Nat
    BY <2>1 DEF AccessToken
  <2>3. token.issued + token.ttl < token.exp + Second
    BY <2>2, Truncation DEF IndInv, Dated, Expiry
  <2>4. clock < token.exp
    BY <2>1, <2>2, <2>3, EngineAssumption
  <2> QED
    BY <2>4 DEF Verify
<1> QED
    BY <1>1, IndInvCorrect, PTL
=============================================================================
