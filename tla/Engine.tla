------------------------------- MODULE Engine -------------------------------
(***************************************************************************)
(* New: what a Config must have, which defaults it gets and which engines  *)
(* can be built from it; the facade's guards for the optional parts; and   *)
(* the access tokens of JWTIssuer across restarts of the process with      *)
(* another Config.                                                         *)
(*                                                                         *)
(* A Config is the set of parts it injects, the secret, and its tuning     *)
(* knobs.  Time is in ticks, Second of them to a second: a JWT carries     *)
(* whole seconds, the clock and the TTL do not.  Signing is ideal: a token *)
(* verifies under the secret it was signed with and under no other.        *)
(***************************************************************************)
EXTENDS Integers

CONSTANTS Second,     \* ticks per second
          Secret,     \* non-empty values of Config.JWTSecret
          NoSecret,   \* the empty string
          Configs,    \* the configurations the process is started with
          Horizon,    \* last tick of a run; bounds the clock
          NoEngine,   \* engine while the process is down
          NoToken     \* token before the first one is issued

Part == {"users", "sessions", "audit", "verifications", "sender", "logger"}
Required == {"users", "sessions", "audit"}
Knob == {"ttl", "cost", "bytes", "attempts", "window", "threshold", "duration"}

Config == [secret : Secret \cup {NoSecret},
           parts  : SUBSET Part,
           knob   : [Knob -> Int]]

ASSUME EngineAssumption ==
    /\ Second \in Nat \ {0}
    /\ Horizon \in Nat /\ Horizon >= Second
    /\ NoSecret \notin Secret
    /\ Configs \subseteq Config

VARIABLES
    engine,   \* the Config that New was given, and what it made of it
    clock,    \* time.Now
    token,    \* one access token in somebody's hands
    used      \* the parts the last call of the facade has used

vars == <<engine, clock, token, used>>

Up == engine # NoEngine

AccessToken == [secret : Secret, issued : Nat, ttl : Nat \ {0}, exp : Nat]

TypeOK ==
    /\ engine \in [given : Configs, config : Config] \cup {NoEngine}
    /\ clock \in 0..Horizon
    /\ token \in AccessToken \cup {NoToken}
    /\ used \subseteq Part

\* The process may be started at any moment within a second.
Init ==
    /\ engine = NoEngine
    /\ clock \in 0..(Second - 1)
    /\ token = NoToken
    /\ used = {}
-----------------------------------------------------------------------------
(* Construction.                                                           *)

validate(c) == c.secret # NoSecret /\ Required \subseteq c.parts

Default ==
    [ttl |-> 15 * 60 * Second, cost |-> 10, bytes |-> 32, attempts |-> 10,
     window |-> 60 * Second, threshold |-> 5, duration |-> 15 * 60 * Second]

\* Mutant: the lockout's defaults forgotten.
applyDefaultsSome(c) ==
    [secret |-> c.secret,
     parts  |-> c.parts \cup {"logger"},
     knob   |-> [k \in Knob |->
                    IF c.knob[k] = 0 /\ k \notin {"threshold", "duration"}
                    THEN Default[k] ELSE c.knob[k]]]

\* Only zero is replaced: a negative knob stays.
applyDefaults(c) ==
    [secret |-> c.secret,
     parts  |-> c.parts \cup {"logger"},
     knob   |-> [k \in Knob |->
                    IF c.knob[k] = 0 THEN Default[k] ELSE c.knob[k]]]

NewBcryptHasher(cost) == cost \in 4..31

NewCryptoRandTokenGenerator(byteLength) == byteLength >= 16

\* Mutant: no look at the TTL.
NewJWTIssuerAnyTTL(secret, ttl) == secret # NoSecret

NewJWTIssuer(secret, ttl) == secret # NoSecret /\ ttl > 0

\* A Config that New refuses leaves the process down.
New(c) ==
    LET d == applyDefaults(c)
    IN  /\ ~Up
        /\ validate(c)
        /\ NewBcryptHasher(d.knob["cost"])
        /\ NewCryptoRandTokenGenerator(d.knob["bytes"])
        /\ NewJWTIssuer(d.secret, d.knob["ttl"])
        /\ engine' = [given |-> c, config |-> d]
        /\ used' = {}
        /\ UNCHANGED <<clock, token>>

\* The process ends, and may be started again with another Config.
Stop ==
    /\ Up
    /\ engine' = NoEngine
    /\ used' = {}
    /\ UNCHANGED <<clock, token>>
-----------------------------------------------------------------------------
(* The facade: the parts each function hands to the handler.               *)

Uses ==
    [SignUp             |-> {"users", "audit", "logger"},
     Login              |-> {"users", "sessions", "audit", "logger"},
     ChangePassword     |-> {"users", "sessions", "audit", "logger"},
     DeleteAccount      |-> {"users", "sessions", "audit", "logger"},
     RequestEmailChange |-> {"users", "verifications", "sender", "audit",
                             "logger"},
     ConfirmEmailChange |-> {"users", "verifications", "audit", "logger"},
     Logout             |-> {"sessions", "audit", "logger"},
     LogoutAll          |-> {"sessions", "audit", "logger"},
     RefreshToken       |-> {"sessions", "audit", "logger"},
     ListSessions       |-> {"sessions"},
     RevokeSession      |-> {"sessions", "audit", "logger"}]

\* Mutant: RequestEmailChange refuses only when both parts are missing.
NotConfiguredBoth(f) ==
    \/ f = "RequestEmailChange"
          /\ engine.config.parts \cap {"verifications", "sender"} = {}
    \/ f = "ConfirmEmailChange" /\ "verifications" \notin engine.config.parts

\* ErrEmailChangeNotConfigured
NotConfigured(f) ==
    \/ f = "RequestEmailChange"
          /\ ~({"verifications", "sender"} \subseteq engine.config.parts)
    \/ f = "ConfirmEmailChange" /\ "verifications" \notin engine.config.parts

Call(f) ==
    /\ Up
    /\ used' = IF NotConfigured(f) THEN {} ELSE Uses[f]
    /\ UNCHANGED <<engine, clock, token>>
-----------------------------------------------------------------------------
(* Access tokens.                                                          *)

\* jwt.NewNumericDate: whole seconds.
NumericDate(t) == (t \div Second) * Second

\* Mutant: rounded up.
ExpiryUp(now, ttl) == NumericDate(now + ttl + Second - 1)

\* Mutant: the TTL counts from the issued-at claim, which is truncated too.
ExpiryFromClaim(now, ttl) == NumericDate(NumericDate(now) + ttl)

Expiry(now, ttl) == NumericDate(now + ttl)

\* The token of a Login or a RefreshToken.
Issue ==
    LET ttl == engine.config.knob["ttl"]
    IN  /\ Up
        /\ token' = [secret |-> engine.config.secret, issued |-> clock,
                     ttl |-> ttl, exp |-> Expiry(clock, ttl)]
        /\ UNCHANGED <<engine, clock, used>>

\* VerifyToken accepts the token.
Verify ==
    /\ Up
    /\ token # NoToken
    /\ token.secret = engine.config.secret
    /\ clock < token.exp

\* Time passes.
Tick ==
    /\ clock < Horizon
    /\ clock' = clock + 1
    /\ UNCHANGED <<engine, token, used>>
-----------------------------------------------------------------------------
Next ==
    \/ Tick \/ Stop \/ Issue
    \/ \E c \in Configs : New(c)
    \/ \E f \in DOMAIN Uses : Call(f)

Spec == Init /\ [][Next]_vars
-----------------------------------------------------------------------------
(* Properties.                                                             *)

\* An engine that New returns has its secret and stores, a hash cost and a
\* token length that are not weak, and a positive TTL; and, unless a negative
\* value was asked for, the positive threshold, duration, limit and window
\* that modules Lockout and RateLimiter assume (Config.validate,
\* applyDefaults and the constructors that New calls).
EngineWellFormed ==
    Up => LET e == engine.config
          IN  /\ e.secret \in Secret
              /\ Required \cup {"logger"} \subseteq e.parts
              /\ e.knob["cost"] \in 4..31
              /\ e.knob["bytes"] >= 16
              /\ \A k \in Knob : e.knob[k] >= 1 \/ engine.given.knob[k] < 0
              /\ e.knob["ttl"] >= 1

\* No call reaches a part that was not configured: the e-mail change without
\* its store or its sender is an error, not a nil dereference
\* (RequestEmailChange, ConfirmEmailChange).
NilSafe == Up => used \subseteq engine.config.parts

\* An accepted token is younger than the TTL it was issued with, also when
\* the process was restarted with another TTL (JWTIssuer.Issue, Verify).
NeverOutlivesTTL == Verify => clock < token.issued + token.ttl

\* Truncation to seconds costs a token less than a second of its life: until
\* then it is accepted under its secret, restarts included.  A TTL below a
\* second promises nothing (JWTIssuer.Issue).
LivesAlmostTTL ==
    /\ Up
    /\ token # NoToken
    /\ token.secret = engine.config.secret
    /\ clock + Second <= token.issued + token.ttl
    => Verify
=============================================================================
