----------------------------- MODULE MCIdentity -----------------------------
(* The shared stores, the SDKs, capabilities, HTTP signatures, threshold   *)
(* keys, revocation and key rotation share nothing; a behaviour is about   *)
(* one of them.                                                            *)
EXTENDS RedisReplay, CloudflareStores, SdkInterop, Capability, HttpSignatures,
            ThresholdSigning, Revocation, KeyDistribution, TLC

CONSTANTS n1, e1, e2, bot1

VARIABLE part      \* the part of the system this behaviour is about

MCExpiresAt == n1 :> 2
MCBatches == {<<n1>>, <<n1, n1>>}
MCTtl == e1 :> 3 @@ e2 :> 1

(* Half milliseconds: a fraction, a lifetime of zero, one at the limit and *)
(* one above it.                                                           *)
MCTimes == {2, 3}
MCTtls == {0, 4, 6}

(* Scopes that narrow each other by path, by segment and by method. *)
MCBudgets == {1, Unlimited}
MCScopes == [
  all  |-> {[glob |-> <<"a", "**">>, methods |-> {}],
            [glob |-> <<"*">>, methods |-> {"PUT"}]},
  part |-> {[glob |-> <<"a", "?">>, methods |-> {"GET", "PUT"}],
            [glob |-> <<"a">>, methods |-> {"PUT"}]}]

(* The second client's directory also publishes the first one's key; the   *)
(* first one's also holds a key pair and a key of another kind.            *)
Jwk(x) == [x |-> x, ed25519 |-> TRUE, d |-> FALSE]
MCDirectory ==
  [b \in Bots |->
     IF b = bot1 THEN {Jwk(bot1)} \cup {[Jwk(x) EXCEPT !.d = TRUE] : x \in Bots}
                                  \cup {[Jwk(x) EXCEPT !.ed25519 = FALSE] : x \in Bots}
     ELSE {Jwk(x) : x \in Bots}]

(* The calls of a part are alike, and so are its processes. *)
IdentitySymmetry == Permutations(Requests) \cup Permutations(Hosts)

mcVars == <<part, redisVars, edgeVars, sdkVars, capVars, hsVars, thresholdVars, revVars,
            kdVars>>

MCInit ==
  /\ part \in {"redis", "edge", "sdk", "capability", "http", "threshold", "revocation",
            "keys"}
  /\ RedisInit
  /\ EdgeInit
  /\ SdkInit
  /\ CapInit
  /\ HsInit
  /\ ThresholdInit
  /\ RevocationInit
  /\ KeysInit
  /\ part # "redis" => mode = "cluster"
  /\ part # "edge" => store = CHOOSE s \in Stores : TRUE

(* Parts that come to an end: a bound is reached or nothing is left to do. *)
Stops == part \in {"sdk", "capability", "http", "threshold", "revocation",
            "keys"} /\ UNCHANGED mcVars

MCNext ==
  \/ /\ part = "redis" /\ RedisNext
     /\ UNCHANGED <<part, edgeVars, sdkVars, capVars, hsVars, thresholdVars, revVars,
            kdVars>>
  \/ /\ part = "edge" /\ EdgeNext
     /\ UNCHANGED <<part, redisVars, sdkVars, capVars, hsVars, thresholdVars, revVars,
            kdVars>>
  \/ /\ part = "sdk" /\ SdkNext
     /\ UNCHANGED <<part, redisVars, edgeVars, capVars, hsVars, thresholdVars, revVars,
            kdVars>>
  \/ /\ part = "capability" /\ CapNext
     /\ UNCHANGED <<part, redisVars, edgeVars, sdkVars, hsVars, thresholdVars, revVars,
            kdVars>>
  \/ /\ part = "http" /\ HsNext
     /\ UNCHANGED <<part, redisVars, edgeVars, sdkVars, capVars, thresholdVars, revVars,
            kdVars>>
  \/ /\ part = "threshold" /\ ThresholdNext
     /\ UNCHANGED <<part, redisVars, edgeVars, sdkVars, capVars, hsVars, revVars, kdVars>>
  \/ /\ part = "revocation" /\ RevocationNext
     /\ UNCHANGED <<part, redisVars, edgeVars, sdkVars, capVars, hsVars, thresholdVars,
            kdVars>>
  \/ /\ part = "keys" /\ KeysNext
     /\ UNCHANGED <<part, redisVars, edgeVars, sdkVars, capVars, hsVars, thresholdVars,
            revVars>>
  \/ Stops

MCSpec == MCInit /\ [][MCNext]_mcVars

(* The variables of every part have their types. *)
PartsTypeOK ==
  /\ RedisTypeOK /\ EdgeTypeOK /\ SdkTypeOK /\ CapTypeOK /\ HsTypeOK
  /\ ThresholdTypeOK /\ RevocationTypeOK /\ KeysTypeOK
=============================================================================
