-------------------------------- MODULE Dpop --------------------------------
(***************************************************************************)
(* DPoP (dpop.ts): proofs made by the holder of a key for one request,     *)
(* server nonces, and verifyDpopProof(), whose last step is the jti in the *)
(* replay store.  Verifications overlap and wait between their steps; the  *)
(* time of a proof is in whole seconds, the clock is finer.                *)
(***************************************************************************)
EXTENDS Integers, FiniteSets

CONSTANTS DpopCalls,       \* concurrent verifyDpopProof() calls
          ClientKeys,      \* key pairs, named by their thumbprint
          Targets,         \* method and URL of a request
          Tokens, NoToken, \* access tokens
          BoundTo,         \* token -> its cnf.jkt
          Jtis,
          IssueTimes,      \* the seconds clients put into proofs; clocks are off
          NoNonce,
          NonceRequired,   \* nonce.required
          TicksPerSecond,
          SkewS, MaxAgeS,  \* clockSkewMs and maxAgeMs, in seconds
          NonceSkewS,      \* how far ahead a nonce may be; 30 in the code
          NonceLifetime,   \* lifetimeMs of a server nonce, in ticks
          MaxProofs, MaxNonces,   \* bounds on what is made and issued
          DpopDelay,       \* longest verifyDpopProof() call, in ticks
          DpopTimeLimit    \* bound on the clock

ASSUME DpopAssumption ==
  /\ IssueTimes \subseteq Int
  /\ BoundTo \in [Tokens -> ClientKeys]
  /\ NoToken \notin Tokens
  /\ NonceRequired \in BOOLEAN
  /\ TicksPerSecond \in Nat \ {0}
  /\ SkewS \in Nat /\ MaxAgeS \in Nat /\ NonceSkewS \in Nat
  /\ NonceLifetime \in Nat /\ DpopDelay \in Nat /\ DpopTimeLimit \in Nat
  /\ MaxProofs \in Nat /\ MaxNonces \in Nat

VARIABLES dpopTime,
          made,            \* the proofs clients have signed
          nonces,          \* seconds for which the server issued a nonce
          jtis,            \* replay store: <<jkt, jti>> -> expiry
          dpopAt,          \* the calls: place, start, proof, request
          (* history, read by the properties only *)
          proofUses        \* the accepted proofs, with request and instants

dpopVars == <<dpopTime, made, nonces, jtis, dpopAt, proofUses>>

InSeconds(t) == t \div TicksPerSecond

(* ath: the token hashed into the proof *)
Claims ==
  [jti : Jtis, target : Targets, iat : IssueTimes,
   nonce : Nat \cup {NoNonce}, ath : Tokens \cup {NoToken}]

(* A proof carries its key, and the signature of a key over its claims. *)
Proofs == [jwk : ClientKeys, claims : Claims, signedBy : ClientKeys, signed : Claims]

DpopRequests == [target : Targets, token : Tokens \cup {NoToken}]

DpopIdle == [at |-> "idle"]

DpopInit ==
  /\ dpopTime = 0
  /\ made = {}
  /\ nonces = {}
  /\ jtis = [k \in ClientKeys \X Jtis |-> 0]
  /\ dpopAt = [c \in DpopCalls |-> DpopIdle]
  /\ proofUses = {}

(* createDpopProof: for one request, with a nonce the server sent; the jti *)
(* is random.                                                              *)
CreateProof(k, claims) ==
  /\ Cardinality(made) < MaxProofs
  /\ \A p \in made : p.jwk = k => p.claims.jti # claims.jti
  /\ made' = made \cup
       {[jwk |-> k, claims |-> claims, signedBy |-> k, signed |-> claims]}
  /\ UNCHANGED <<dpopTime, nonces, jtis, dpopAt, proofUses>>

(* DpopNonceIssuer.issue: the second, with its MAC *)
IssueNonce ==
  /\ Cardinality(nonces) < MaxNonces
  /\ nonces' = nonces \cup {InSeconds(dpopTime)}
  /\ UNCHANGED <<dpopTime, made, jtis, dpopAt, proofUses>>

(* What may arrive: a proof as it was made, or with other claims or        *)
(* another key under the old signature.                                    *)
Arriving ==
  made \cup
  {[p EXCEPT !.claims.target = t] : p \in made, t \in Targets} \cup
  {[p EXCEPT !.claims.ath = t] : p \in made, t \in Tokens} \cup
  {[p EXCEPT !.jwk = k] : p \in made, k \in ClientKeys}

(* jwsVerify with the key the proof carries *)
ProofSigned(p) == p.signedBy = p.jwk /\ p.signed = p.claims

(* Whole seconds against iat *)
InTime(p, now) ==
  /\ p.claims.iat <= InSeconds(now) + SkewS
  /\ InSeconds(now) - p.claims.iat <= MaxAgeS + SkewS

(* Up to where now has been read and compared: structure, signature,       *)
(* method and URL, time.                                                   *)
ReadProof(c, p, r) ==
  /\ dpopAt[c].at = "idle"
  /\ ProofSigned(p)
  /\ p.claims.target = r.target
  /\ InTime(p, dpopTime)
  /\ dpopAt' = [dpopAt EXCEPT ![c] =
       [at |-> "nonce", now |-> dpopTime, proof |-> p, request |-> r]]
  /\ UNCHANGED <<dpopTime, made, nonces, jtis, proofUses>>

(* DpopNonceIssuer.validate, at its own time: authentic, not older than    *)
(* its lifetime, not from too far ahead                                    *)
NonceValid(n) ==
  /\ n \in nonces
  /\ n * TicksPerSecond <= dpopTime + NonceSkewS * TicksPerSecond
  /\ dpopTime <= n * TicksPerSecond + NonceLifetime

NonceAccepted(p) ==
  IF p.claims.nonce = NoNonce THEN ~NonceRequired ELSE NonceValid(p.claims.nonce)

(* With a token: the proof hashes it, and its key is the one it is bound   *)
(* to.                                                                     *)
TokenBound(p, r) ==
  r.token # NoToken => p.claims.ath = r.token /\ p.jwk = BoundTo[r.token]

ValidateNonce(c) ==
  /\ dpopAt[c].at = "nonce"
  /\ NonceAccepted(dpopAt[c].proof)
  /\ TokenBound(dpopAt[c].proof, dpopAt[c].request)
  /\ dpopAt' = [dpopAt EXCEPT ![c].at = "store"]
  /\ UNCHANGED <<dpopTime, made, nonces, jtis, proofUses>>

JtiKey(p) == <<p.jwk, p.claims.jti>>

(* Fault: the store is asked for one skew only. *)
JtiHeldBriefly == (MaxAgeS + SkewS) * TicksPerSecond

(* How long the store is asked to remember the jti *)
JtiHold == (MaxAgeS + 2 * SkewS) * TicksPerSecond

(* replayStore.check: not seen *)
AcceptProof(c) ==
  LET call == dpopAt[c] IN
  /\ call.at = "store"
  /\ jtis[JtiKey(call.proof)] <= dpopTime
  /\ jtis' = [jtis EXCEPT ![JtiKey(call.proof)] = dpopTime + JtiHold]
  /\ proofUses' = proofUses \cup
       {[proof |-> call.proof, request |-> call.request, at |-> dpopTime]}
  /\ dpopAt' = [dpopAt EXCEPT ![c] = DpopIdle]
  /\ UNCHANGED <<dpopTime, made, nonces>>

(* Nonce, token or key refused, or the jti seen before *)
RefuseProof(c) ==
  LET call == dpopAt[c] IN
  /\ \/ call.at = "nonce" /\ ~NonceAccepted(call.proof)
     \/ call.at = "nonce" /\ ~TokenBound(call.proof, call.request)
     \/ call.at = "store" /\ jtis[JtiKey(call.proof)] > dpopTime
  /\ dpopAt' = [dpopAt EXCEPT ![c] = DpopIdle]
  /\ UNCHANGED <<dpopTime, made, nonces, jtis, proofUses>>

DpopTick ==
  /\ dpopTime < DpopTimeLimit
  /\ \A c \in DpopCalls : dpopAt[c].at # "idle" => dpopTime < dpopAt[c].now + DpopDelay
  /\ dpopTime' = dpopTime + 1
  /\ UNCHANGED <<made, nonces, jtis, dpopAt, proofUses>>

DpopNext ==
  \/ \E k \in ClientKeys, jti \in Jtis, target \in Targets, iat \in IssueTimes,
          nonce \in nonces \cup {NoNonce}, ath \in Tokens \cup {NoToken} :
       CreateProof(k, [jti |-> jti, target |-> target, iat |-> iat,
                       nonce |-> nonce, ath |-> ath])
  \/ IssueNonce
  \/ \E c \in DpopCalls :
       \/ \E p \in Arriving, r \in DpopRequests : ReadProof(c, p, r)
       \/ ValidateNonce(c)
       \/ AcceptProof(c)
       \/ RefuseProof(c)
  \/ DpopTick

DpopSpec == DpopInit /\ [][DpopNext]_dpopVars

-----------------------------------------------------------------------------
DpopPlaces ==
  {DpopIdle} \cup
  [at : {"nonce", "store"}, now : Nat, proof : Proofs, request : DpopRequests]

DpopTypeOK ==
  /\ dpopTime \in Nat
  /\ made \subseteq Proofs
  /\ nonces \subseteq Nat
  /\ jtis \in [ClientKeys \X Jtis -> Nat]
  /\ dpopAt \in [DpopCalls -> DpopPlaces]
  /\ proofUses \subseteq [proof : Proofs, request : DpopRequests, at : Nat]

(* dpop.ts:289: a proof is accepted once.  What is left is the last second *)
(* of its life: it can be accepted again only when the first acceptance    *)
(* came a whole skew before its own time, from a client whose clock is     *)
(* that far ahead.                                                         *)
ProofUsedOnce ==
  \A u, v \in proofUses :
    JtiKey(u.proof) = JtiKey(v.proof) /\ u.at < v.at =>
      u.at < (u.proof.claims.iat - SkewS + 1) * TicksPerSecond + DpopDelay

(* dpop.ts:282: whoever presents a token with a proof has a proof that the *)
(* holder of the token's key made for this very request and token, and     *)
(* where a nonce is required, after the server had issued it.              *)
HolderMadeIt ==
  \A u \in proofUses :
    /\ u.proof \in made
    /\ u.proof.claims.target = u.request.target
    /\ u.request.token # NoToken =>
         /\ u.proof.claims.ath = u.request.token
         /\ u.proof.signedBy = BoundTo[u.request.token]
    /\ NonceRequired => u.proof.claims.nonce \in nonces

(* dpop.ts:289: an accepted proof was made by the holder of the bound key  *)
(* for this very request and token, and is accepted again only in its last *)
(* second, when the client's clock is a whole skew ahead.                  *)
ProofsHold == ProofUsedOnce /\ HolderMadeIt
=============================================================================
