--------------------------- MODULE AdmissionProofs ---------------------------
(***************************************************************************)
(* What stands between a request and its execution besides the gateway     *)
(* itself: DPoP proofs, step-up approval, attested keys and agent cards.   *)
(***************************************************************************)
EXTENDS Dpop, StepUp, AgentIdentity, FiniteSetTheorems, TLAPS

-----------------------------------------------------------------------------
(* DPoP                                                                    *)

(* What clients made carries its maker's signature, one proof for a jti. *)
MadeOnce ==
  \A p \in made : /\ ProofSigned(p)
                  /\ \A q \in made : JtiKey(p) = JtiKey(q) => p = q

(* A call in progress has a proof its client made, was in time when it     *)
(* began, and has not been waiting longer than a call may; past the nonce  *)
(* it also fits its token.                                                 *)
CallSound(call) ==
  call.at # "idle" =>
    /\ call.proof \in made /\ call.proof.claims.target = call.request.target
    /\ InTime(call.proof, call.now)
    /\ call.now <= dpopTime /\ dpopTime <= call.now + DpopDelay
    /\ call.at = "store" =>
         /\ TokenBound(call.proof, call.request)
         /\ NonceRequired => call.proof.claims.nonce \in nonces

(* The store still holds the jti of what was accepted. *)
UsesHeld ==
  \A u \in proofUses :
    u.at <= dpopTime /\ u.at + JtiHold <= jtis[JtiKey(u.proof)]

DpopIInv ==
  /\ DpopTypeOK /\ MadeOnce
  /\ \A c \in DpopCalls : CallSound(dpopAt[c])
  /\ UsesHeld /\ HolderMadeIt /\ ProofUsedOnce

(* The last tick of a second. *)
LEMMA LastTick ==
  ASSUME NEW t \in Nat, NEW q \in Int, InSeconds(t) <= q
  PROVE  t < (q + 1) * TicksPerSecond
<1>1. TicksPerSecond \in Nat /\ TicksPerSecond > 0
  BY DpopAssumption
<1> DEFINE s == t \div TicksPerSecond
<1>2. s \in Int /\ s <= q /\ t < s * TicksPerSecond + TicksPerSecond
  BY <1>1 DEF InSeconds
<1> HIDE DEF s
<1>3. s * TicksPerSecond <= q * TicksPerSecond
  BY <1>1, <1>2
<1>4. (q + 1) * TicksPerSecond = q * TicksPerSecond + TicksPerSecond
  BY <1>1
<1> QED BY <1>1, <1>2, <1>3, <1>4

(* A proof that is in time is accepted before its age and one skew, and    *)
(* the longest call, are over; the jti is held for both skews.             *)
LEMMA LateUse ==
  ASSUME NEW iat \in Int, NEW first \in Nat, NEW now \in Nat, NEW at \in Nat,
         InSeconds(now) - iat <= MaxAgeS + SkewS, at <= now + DpopDelay,
         first + JtiHold <= at
  PROVE  first < (iat - SkewS + 1) * TicksPerSecond + DpopDelay
<1>0. /\ TicksPerSecond \in Nat /\ SkewS \in Nat /\ MaxAgeS \in Nat /\ DpopDelay \in Nat
      /\ TicksPerSecond > 0
  BY DpopAssumption
<1>1. InSeconds(now) \in Int
  BY <1>0 DEF InSeconds
<1>2. now < (iat + MaxAgeS + SkewS + 1) * TicksPerSecond
  BY <1>0, <1>1, LastTick
<1> DEFINE a == iat - SkewS + 1
           b == MaxAgeS + 2 * SkewS
<1>3. a \in Int /\ b \in Int /\ iat + MaxAgeS + SkewS + 1 = a + b
  BY <1>0
<1>4. now < (a + b) * TicksPerSecond
  BY <1>2, <1>3
<1>5. JtiHold = b * TicksPerSecond
  BY DEF JtiHold
<1> HIDE DEF a, b
<1>6. (a + b) * TicksPerSecond = a * TicksPerSecond + b * TicksPerSecond
  BY <1>0, <1>3
<1>7. first < a * TicksPerSecond + DpopDelay
  BY <1>0, <1>3, <1>4, <1>5, <1>6
<1> QED BY <1>7 DEF a

(* Whatever is changed under a signature does not verify: a proof that     *)
(* does is one that was made.                                              *)
LEMMA SignedWasMade ==
  ASSUME made \subseteq Proofs, MadeOnce, NEW p \in Arriving, ProofSigned(p)
  PROVE  p \in made
<1>1. CASE \E m \in made, t \in Targets : p = [m EXCEPT !.claims.target = t]
  <2>1. PICK m \in made, t \in Targets : p = [m EXCEPT !.claims.target = t]
    BY <1>1
  <2>2. m \in Proofs /\ ProofSigned(m)
    BY DEF MadeOnce
  <2>3. /\ p.jwk = m.jwk /\ p.signedBy = m.signedBy /\ p.signed = m.signed
        /\ p = [m EXCEPT !.claims = p.claims]
    BY <2>1, <2>2 DEF Proofs
  <2>4. p.claims = m.claims
    BY <2>2, <2>3 DEF ProofSigned
  <2> QED BY <2>2, <2>3, <2>4 DEF Proofs
<1>2. CASE \E m \in made, t \in Tokens : p = [m EXCEPT !.claims.ath = t]
  <2>1. PICK m \in made, t \in Tokens : p = [m EXCEPT !.claims.ath = t]
    BY <1>2
  <2>2. m \in Proofs /\ ProofSigned(m)
    BY DEF MadeOnce
  <2>3. /\ p.jwk = m.jwk /\ p.signedBy = m.signedBy /\ p.signed = m.signed
        /\ p = [m EXCEPT !.claims = p.claims]
    BY <2>1, <2>2 DEF Proofs
  <2>4. p.claims = m.claims
    BY <2>2, <2>3 DEF ProofSigned
  <2> QED BY <2>2, <2>3, <2>4 DEF Proofs
<1>3. CASE \E m \in made, k \in ClientKeys : p = [m EXCEPT !.jwk = k]
  <2>1. PICK m \in made, k \in ClientKeys : p = [m EXCEPT !.jwk = k]
    BY <1>3
  <2>2. m \in Proofs /\ ProofSigned(m)
    BY DEF MadeOnce
  <2>3. p.jwk = k /\ p.signedBy = m.signedBy
    BY <2>1, <2>2 DEF Proofs
  <2>4. k = m.jwk
    BY <2>2, <2>3 DEF ProofSigned
  <2> QED BY <2>1, <2>2, <2>4 DEF Proofs
<1> QED BY <1>1, <1>2, <1>3 DEF Arriving

(* A fresh verifier satisfies the invariant. *)
LEMMA DpopInitInv == DpopInit => DpopIInv
<1> SUFFICES ASSUME DpopInit PROVE DpopIInv
  OBVIOUS
<1>1. DpopTypeOK
  BY DEF DpopInit, DpopTypeOK, DpopPlaces
<1>2. MadeOnce /\ UsesHeld /\ HolderMadeIt /\ ProofUsedOnce
  BY DEF DpopInit, MadeOnce, UsesHeld, HolderMadeIt, ProofUsedOnce
<1>3. \A c \in DpopCalls : CallSound(dpopAt[c])
  BY DEF DpopInit, CallSound, DpopIdle
<1> QED BY <1>1, <1>2, <1>3 DEF DpopIInv

(* Making proofs, issuing nonces, every step of a verification and the     *)
(* passing of time preserve it.                                            *)
LEMMA DpopNextInv == DpopIInv /\ [DpopNext]_dpopVars => DpopIInv'
<1> SUFFICES ASSUME DpopIInv, [DpopNext]_dpopVars PROVE DpopIInv'
  OBVIOUS
<1>t. /\ DpopTypeOK /\ MadeOnce /\ UsesHeld /\ HolderMadeIt /\ ProofUsedOnce
      /\ \A c \in DpopCalls : CallSound(dpopAt[c])
      /\ dpopTime \in Nat /\ made \subseteq Proofs /\ nonces \subseteq Nat
      /\ jtis \in [ClientKeys \X Jtis -> Nat] /\ dpopAt \in [DpopCalls -> DpopPlaces]
      /\ IssueTimes \subseteq Int /\ DpopDelay \in Nat
  BY DpopAssumption DEF DpopIInv, DpopTypeOK
<1>p. \A c \in DpopCalls : dpopAt[c].at # "idle" =>
        /\ dpopAt[c].at \in {"nonce", "store"} /\ dpopAt[c].now \in Nat
        /\ dpopAt[c].proof \in Proofs /\ dpopAt[c].request \in DpopRequests
  BY <1>t DEF DpopPlaces, DpopIdle
<1>h. JtiHold \in Nat
  BY DpopAssumption DEF JtiHold
<1>k. \A p \in Proofs : /\ JtiKey(p) \in ClientKeys \X Jtis
                        /\ p.claims.iat \in Int
  BY <1>t DEF JtiKey, Proofs, Claims
(* What is made, issued and past stays. *)
<1>1. ASSUME made \subseteq made', nonces \subseteq nonces', dpopTime' = dpopTime,
             UNCHANGED <<jtis, dpopAt, proofUses>>
      PROVE  /\ \A c \in DpopCalls : CallSound(dpopAt[c])'
             /\ UsesHeld' /\ HolderMadeIt' /\ ProofUsedOnce'
  BY <1>1, <1>t DEF CallSound, UsesHeld, HolderMadeIt, ProofUsedOnce
<1>2. ASSUME NEW k \in ClientKeys, NEW cs \in Claims, CreateProof(k, cs)
      PROVE  DpopIInv'
  <2> DEFINE p == [jwk |-> k, claims |-> cs, signedBy |-> k, signed |-> cs]
  <2>1. /\ p \in Proofs /\ ProofSigned(p) /\ JtiKey(p) = <<k, cs.jti>>
        /\ made' = made \cup {p} /\ UNCHANGED <<dpopTime, nonces, jtis, dpopAt, proofUses>>
        /\ \A q \in made : q.jwk = k => q.claims.jti # cs.jti
    BY <1>2 DEF CreateProof, Proofs, ProofSigned, JtiKey
  <2> HIDE DEF p
  <2>2. \A q \in made : JtiKey(q) # JtiKey(p)
    BY <2>1 DEF JtiKey
  <2>3. MadeOnce'
    BY <2>1, <2>2, <1>t DEF MadeOnce
  <2>4. DpopTypeOK'
    BY <2>1, <1>t DEF DpopTypeOK
  <2> QED BY <1>1, <2>1, <2>3, <2>4 DEF DpopIInv
<1>3. CASE IssueNonce
  <2>1. /\ nonces' = nonces \cup {InSeconds(dpopTime)}
        /\ UNCHANGED <<dpopTime, made, jtis, dpopAt, proofUses>>
    BY <1>3 DEF IssueNonce
  <2>2. InSeconds(dpopTime) \in Nat
    BY <1>t, DpopAssumption DEF InSeconds
  <2>3. DpopTypeOK' /\ MadeOnce'
    BY <2>1, <2>2, <1>t DEF DpopTypeOK, MadeOnce
  <2> QED BY <1>1, <2>1, <2>3 DEF DpopIInv
(* A call moves, or goes back to idle; the rest stays. *)
<1>4. ASSUME NEW c \in DpopCalls, NEW call \in DpopPlaces, CallSound(call),
             dpopAt' = [dpopAt EXCEPT ![c] = call],
             UNCHANGED <<dpopTime, made, nonces, jtis, proofUses>>
      PROVE  DpopIInv'
  <2>1. DpopTypeOK' /\ MadeOnce' /\ UsesHeld' /\ HolderMadeIt' /\ ProofUsedOnce'
    BY <1>4, <1>t DEF DpopTypeOK, MadeOnce, UsesHeld, HolderMadeIt, ProofUsedOnce
  <2>2. \A d \in DpopCalls : CallSound(dpopAt[d])'
    BY <1>4, <1>t DEF CallSound
  <2> QED BY <2>1, <2>2 DEF DpopIInv
<1>i. DpopIdle \in DpopPlaces /\ CallSound(DpopIdle)
  BY DEF DpopPlaces, DpopIdle, CallSound
<1>5. ASSUME NEW c \in DpopCalls, NEW p \in Arriving, NEW r \in DpopRequests,
             ReadProof(c, p, r)
      PROVE  DpopIInv'
  <2> DEFINE call == [at |-> "nonce", now |-> dpopTime, proof |-> p, request |-> r]
  <2>1. p \in made /\ p \in Proofs
    BY <1>5, <1>t, SignedWasMade DEF ReadProof
  <2>2. call \in DpopPlaces
    BY <2>1, <1>t DEF DpopPlaces
  <2>3. CallSound(call)
    BY <1>5, <2>1, <1>t DEF ReadProof, CallSound
  <2>4. /\ dpopAt' = [dpopAt EXCEPT ![c] = call]
        /\ UNCHANGED <<dpopTime, made, nonces, jtis, proofUses>>
    BY <1>5 DEF ReadProof
  <2> HIDE DEF call
  <2> QED BY <1>4, <2>2, <2>3, <2>4
<1>6. ASSUME NEW c \in DpopCalls, ValidateNonce(c) PROVE DpopIInv'
  <2> DEFINE call == [dpopAt[c] EXCEPT !.at = "store"]
             was == dpopAt[c]
  <2>1. /\ was.at = "nonce" /\ NonceAccepted(was.proof) /\ TokenBound(was.proof, was.request)
        /\ dpopAt' = [dpopAt EXCEPT ![c] = call]
        /\ UNCHANGED <<dpopTime, made, nonces, jtis, proofUses>>
    BY <1>6 DEF ValidateNonce
  <2>2. /\ call \in DpopPlaces /\ call.at = "store" /\ call.now = was.now
        /\ call.proof = was.proof /\ call.request = was.request
    BY <2>1, <1>t DEF DpopPlaces, DpopIdle
  <2>3. CallSound(was) /\ was.at # "idle"
    BY <2>1, <1>t
  <2>4. NonceRequired => was.proof.claims.nonce \in nonces
    BY <2>1 DEF NonceAccepted, NonceValid
  <2> HIDE DEF call, was
  <2>5. CallSound(call)
    BY <2>1, <2>2, <2>3, <2>4 DEF CallSound
  <2> QED BY <1>4, <2>1, <2>2, <2>5
<1>7. ASSUME NEW c \in DpopCalls, AcceptProof(c) PROVE DpopIInv'
  <2> DEFINE call == dpopAt[c]
             key == JtiKey(call.proof)
             use == [proof |-> call.proof, request |-> call.request, at |-> dpopTime]
  <2>1. /\ call.at = "store" /\ jtis[key] <= dpopTime
        /\ jtis' = [jtis EXCEPT ![key] = dpopTime + JtiHold]
        /\ proofUses' = proofUses \cup {use}
        /\ dpopAt' = [dpopAt EXCEPT ![c] = DpopIdle]
        /\ UNCHANGED <<dpopTime, made, nonces>>
    BY <1>7 DEF AcceptProof
  <2>2. /\ CallSound(call) /\ call.proof \in Proofs /\ call.request \in DpopRequests
        /\ call.now \in Nat
    BY <2>1, <1>t, <1>p
  <2>3. key \in ClientKeys \X Jtis
    BY <2>2, <1>k
  <2>4. DpopTypeOK'
    BY <2>1, <2>2, <2>3, <1>t, <1>h, <1>i DEF DpopTypeOK
  <2>5. MadeOnce' /\ \A d \in DpopCalls : CallSound(dpopAt[d])'
    BY <2>1, <1>t, <1>i DEF MadeOnce, CallSound
  <2>6. HolderMadeIt'
    <3>1. /\ call.proof \in made /\ call.proof.claims.target = call.request.target
          /\ TokenBound(call.proof, call.request)
          /\ NonceRequired => call.proof.claims.nonce \in nonces
          /\ call.proof.signedBy = call.proof.jwk
      BY <2>1, <2>2, <1>t DEF CallSound, MadeOnce, ProofSigned
    <3>2. /\ use.proof = call.proof /\ use.request = call.request
      OBVIOUS
    <3> HIDE DEF call, use
    <3> QED BY <3>1, <3>2, <2>1, <1>t DEF HolderMadeIt, TokenBound
  <2>7. UsesHeld'
    <3>1. /\ use.at = dpopTime /\ JtiKey(use.proof) = key
      OBVIOUS
    <3>2. \A u \in proofUses : JtiKey(u.proof) \in ClientKeys \X Jtis /\ u.at \in Nat
      BY <1>t, <1>k DEF DpopTypeOK
    <3> HIDE DEF key, use
    <3>3. ASSUME NEW u \in proofUses'
          PROVE  u.at <= dpopTime /\ u.at + JtiHold <= jtis'[JtiKey(u.proof)]
      <4>1. CASE u = use
        BY <4>1, <3>1, <2>1, <2>3, <1>t, <1>h
      <4>2. CASE u \in proofUses /\ JtiKey(u.proof) = key
        BY <4>2, <3>2, <2>1, <2>3, <1>t, <1>h DEF UsesHeld
      <4>3. CASE u \in proofUses /\ JtiKey(u.proof) # key
        BY <4>3, <3>2, <2>1, <2>3, <1>t, <1>h DEF UsesHeld
      <4> QED BY <4>1, <4>2, <4>3, <2>1
    <3> QED BY <3>3, <2>1 DEF UsesHeld
  <2>8. ProofUsedOnce'
    <3> SUFFICES ASSUME NEW u \in proofUses', NEW v \in proofUses',
                        JtiKey(u.proof) = JtiKey(v.proof), u.at < v.at
                 PROVE  u.at < (u.proof.claims.iat - SkewS + 1) * TicksPerSecond + DpopDelay
      BY DEF ProofUsedOnce
    <3>0. \A w \in proofUses : w.at \in Nat /\ w.at <= dpopTime /\ w.proof \in made
      BY <1>t DEF UsesHeld, DpopTypeOK, HolderMadeIt
    <3>1. CASE u \in proofUses /\ v \in proofUses
      BY <3>1, <1>t DEF ProofUsedOnce
    <3>2. CASE u = use
      <4>1. v.at <= dpopTime
        BY <3>0, <2>1, <1>t
      <4> QED BY <4>1, <3>0, <3>2, <2>1, <1>t
    <3>3. CASE u \in proofUses /\ v = use
      <4>1. JtiKey(u.proof) = key
        BY <3>3
      <4>2. u.proof = call.proof
        BY <4>1, <3>0, <3>3, <2>1, <2>2, <1>t DEF MadeOnce, CallSound
      <4>3. u.at \in Nat /\ u.at + JtiHold <= dpopTime
        BY <3>3, <3>0, <4>1, <2>1, <2>3, <1>t, <1>h DEF UsesHeld
      <4>4. /\ InSeconds(call.now) - call.proof.claims.iat <= MaxAgeS + SkewS
            /\ dpopTime <= call.now + DpopDelay
        BY <2>1, <2>2 DEF CallSound, InTime
      <4>5. call.proof.claims.iat \in Int
        BY <2>2, <1>k
      <4> HIDE DEF call
      <4>6. u.at < (call.proof.claims.iat - SkewS + 1) * TicksPerSecond + DpopDelay
        BY <4>3, <4>4, <4>5, <2>2, <1>t, LateUse
      <4> QED BY <4>2, <4>6
    <3> QED BY <3>1, <3>2, <3>3, <2>1
  <2> QED BY <2>4, <2>5, <2>6, <2>7, <2>8 DEF DpopIInv
<1>8. ASSUME NEW c \in DpopCalls, RefuseProof(c) PROVE DpopIInv'
  BY <1>8, <1>4, <1>i DEF RefuseProof
<1>9. CASE DpopTick
  <2>1. /\ dpopTime' = dpopTime + 1
        /\ \A c \in DpopCalls : dpopAt[c].at # "idle" => dpopTime < dpopAt[c].now + DpopDelay
        /\ UNCHANGED <<made, nonces, jtis, dpopAt, proofUses>>
    BY <1>9 DEF DpopTick
  <2>2. DpopTypeOK' /\ MadeOnce' /\ HolderMadeIt' /\ ProofUsedOnce'
    BY <2>1, <1>t DEF DpopTypeOK, MadeOnce, HolderMadeIt, ProofUsedOnce
  <2>3. UsesHeld'
    BY <2>1, <1>t DEF UsesHeld, DpopTypeOK
  <2>4. \A c \in DpopCalls : CallSound(dpopAt[c])'
    BY <2>1, <1>t, <1>p DEF CallSound
  <2> QED BY <2>2, <2>3, <2>4 DEF DpopIInv
<1>10. CASE UNCHANGED dpopVars
  BY <1>10, <1>1, <1>t DEF dpopVars, DpopIInv, DpopTypeOK, MadeOnce
<1>11. ASSUME NEW k \in ClientKeys, NEW jti \in Jtis, NEW target \in Targets,
              NEW iat \in IssueTimes, NEW nonce \in nonces \cup {NoNonce},
              NEW ath \in Tokens \cup {NoToken},
              CreateProof(k, [jti |-> jti, target |-> target, iat |-> iat,
                              nonce |-> nonce, ath |-> ath])
       PROVE  DpopIInv'
  <2>1. [jti |-> jti, target |-> target, iat |-> iat, nonce |-> nonce, ath |-> ath] \in Claims
    BY <1>t DEF Claims
  <2> QED BY <2>1, <1>11, <1>2
<1> QED BY <1>3, <1>5, <1>6, <1>7, <1>8, <1>9, <1>10, <1>11 DEF DpopNext

(* verifyDpopProof() accepts only what the holder of the key made for this *)
(* request and token, and accepts it once up to the last second of its     *)
(* life, for any number of calls, keys, skews and ages.                    *)
THEOREM DpopProofsHold == DpopSpec => []ProofsHold
<1>1. DpopInit => DpopIInv
  BY DpopInitInv
<1>2. DpopIInv /\ [DpopNext]_dpopVars => DpopIInv'
  BY DpopNextInv
<1>3. DpopIInv => ProofsHold
  BY DEF DpopIInv, ProofsHold
<1> QED BY <1>1, <1>2, <1>3, PTL DEF DpopSpec

-----------------------------------------------------------------------------
(* Step-up approval                                                        *)

ClaimBodies ==
  [sender : StepAgents, action : BoundActions, sources : Seq(Levels), trust : Levels,
   issuedAt : Nat, expiresAt : Nat]

GrantBodies ==
  [approver : Identities, subject : StepAgents, action : BoundActions,
   issuedAt : Nat, expiresAt : Nat]

StepTypeOK ==
  /\ stepTime \in Nat
  /\ context \in [StepAgents -> Seq(Levels)]
  /\ tainted \subseteq StepAgents
  /\ claims \subseteq [body : ClaimBodies, by : StepAgents, over : ClaimBodies]
  /\ approvals \subseteq [body : GrantBodies, by : Identities, over : GrantBodies]
  /\ clean \subseteq claims

(* Untrusted input leaves a mark, whatever came after it. *)
TaintShows ==
  \A a \in tainted : \E n \in 1 .. Len(context[a]) : context[a][n] = "untrusted"

(* A claim says trusted, and its sources say the same, only when its agent *)
(* had taken no untrusted input.                                           *)
TrustedIsClean ==
  \A d \in claims :
    /\ Authentic(d, d.body.sender)
    /\ d.body.trust = "trusted" /\ DeriveTrust(d.body.sources) = "trusted" => d \in clean

ApprovalsAuthentic == \A d \in approvals : Authentic(d, d.body.approver)

StepIInv ==
  /\ StepTypeOK /\ TaintShows /\ TrustedIsClean /\ ApprovalsAuthentic
  /\ UntrustedNeedsHuman

(* ProvenanceContext.add() keeps the mark of untrusted input, and leaves   *)
(* one where there was none, also when it is full.                         *)
LEMMA RecordedMarks ==
  ASSUME NEW s \in Seq(Levels), NEW level \in Levels
  PROVE  LET r == Recorded(s, level) IN
         /\ r \in Seq(Levels)
         /\ level = "untrusted" \/ (\E n \in 1 .. Len(s) : s[n] = "untrusted") =>
              \E n \in 1 .. Len(r) : r[n] = "untrusted"
<1>0. MAX_PROVENANCE_SOURCES \in Nat \ {0}
  BY StepUpAssumption
<1>1. CASE Len(s) < MAX_PROVENANCE_SOURCES
  <2>1. Recorded(s, level) = Append(s, level)
    BY <1>1 DEF Recorded
  <2>2. /\ Append(s, level) \in Seq(Levels) /\ Len(Append(s, level)) = Len(s) + 1
        /\ \A n \in 1 .. Len(s) : Append(s, level)[n] = s[n]
        /\ Append(s, level)[Len(s) + 1] = level
        /\ Len(s) \in Nat
    OBVIOUS
  <2> QED BY <2>1, <2>2
<1>2. CASE /\ ~(Len(s) < MAX_PROVENANCE_SOURCES)
           /\ level = "untrusted" /\ s[Len(s)] = "trusted"
  <2>1. Recorded(s, level) = [s EXCEPT ![Len(s)] = "untrusted"] /\ Len(s) \in 1 .. Len(s)
    BY <1>0, <1>2 DEF Recorded
  <2>2. [s EXCEPT ![Len(s)] = "untrusted"] \in Seq(Levels)
    BY <2>1 DEF Levels
  <2>3. /\ Len([s EXCEPT ![Len(s)] = "untrusted"]) = Len(s)
        /\ [s EXCEPT ![Len(s)] = "untrusted"][Len(s)] = "untrusted"
    BY <2>1
  <2> QED BY <2>1, <2>2, <2>3
<1>3. CASE /\ ~(Len(s) < MAX_PROVENANCE_SOURCES)
           /\ ~(level = "untrusted" /\ s[Len(s)] = "trusted")
  <2>1. Recorded(s, level) = s /\ Len(s) \in 1 .. Len(s)
    BY <1>0, <1>3 DEF Recorded
  <2>2. level = "untrusted" => s[Len(s)] = "untrusted"
    BY <1>3, <2>1 DEF Levels
  <2> QED BY <2>1, <2>2
<1> QED BY <1>1, <1>2, <1>3

(* A claim whose signature holds is one that was signed. *)
LEMMA ClaimWasSigned ==
  ASSUME StepTypeOK, TrustedIsClean, NEW d \in ArrivingClaims, d # NoClaim,
         d.over = d.body
  PROVE  d \in claims
<1> DEFINE Docs == [body : ClaimBodies, by : StepAgents, over : ClaimBodies]
<1>1. \A m \in claims : m \in Docs /\ m.over = m.body
  BY DEF StepTypeOK, TrustedIsClean, Authentic
<1>2. ASSUME NEW m \in claims, d.over = m.over, d = [m EXCEPT !.body = d.body]
      PROVE  d \in claims
  BY <1>1, <1>2
<1>3. ASSUME NEW m \in claims, NEW x \in BoundActions, d = [m EXCEPT !.body.action = x]
      PROVE  d \in claims
  BY <1>1, <1>2, <1>3
<1>4. ASSUME NEW m \in claims, d = Relabelled(m)
      PROVE  d \in claims
  BY <1>1, <1>2, <1>4 DEF Relabelled
<1>5. ASSUME NEW m \in claims, NEW a \in StepAgents, d = [m EXCEPT !.body.sender = a]
      PROVE  d \in claims
  BY <1>1, <1>2, <1>5
<1> QED BY <1>3, <1>4, <1>5 DEF ArrivingClaims

(* The same of an approval. *)
LEMMA ApprovalWasSigned ==
  ASSUME StepTypeOK, ApprovalsAuthentic, NEW d \in ArrivingApprovals, d # NoSignoff,
         d.over = d.body
  PROVE  d \in approvals
<1> DEFINE Docs == [body : GrantBodies, by : Identities, over : GrantBodies]
<1>1. \A m \in approvals : m \in Docs /\ m.over = m.body
  BY DEF StepTypeOK, ApprovalsAuthentic, Authentic
<1>2. ASSUME NEW m \in approvals, d.over = m.over, d = [m EXCEPT !.body = d.body]
      PROVE  d \in approvals
  BY <1>1, <1>2
<1>3. ASSUME NEW m \in approvals, NEW x \in BoundActions, d = [m EXCEPT !.body.action = x]
      PROVE  d \in approvals
  BY <1>1, <1>2, <1>3
<1>4. ASSUME NEW m \in approvals, NEW a \in Approvers, d = [m EXCEPT !.body.approver = a]
      PROVE  d \in approvals
  BY <1>1, <1>2, <1>4
<1>5. ASSUME NEW m \in approvals, NEW a \in StepAgents, d = [m EXCEPT !.body.subject = a]
      PROVE  d \in approvals
  BY <1>1, <1>2, <1>5
<1> QED BY <1>3, <1>4, <1>5 DEF ArrivingApprovals

(* Bound actions that agree on method, path and digest are one action. *)
LEMMA ActionsAreEqual ==
  ASSUME NEW x \in BoundActions, NEW y \in BoundActions, ActionsEqual(x, y)
  PROVE  x = y
BY DEF BoundActions, BindAction, ActionsEqual

(* Before anything is signed the invariant holds. *)
LEMMA StepInitInv == StepInit => StepIInv
<1> SUFFICES ASSUME StepInit PROVE StepIInv
  OBVIOUS
<1>1. StepTypeOK
  BY DEF StepInit, StepTypeOK
<1>2. TaintShows /\ TrustedIsClean /\ ApprovalsAuthentic
  BY DEF StepInit, TaintShows, TrustedIsClean, ApprovalsAuthentic
<1>3. UntrustedNeedsHuman
  BY DEF StepInit, UntrustedNeedsHuman, Nothing
<1> QED BY <1>1, <1>2, <1>3 DEF StepIInv

(* Recording, signing, letting through and time preserve it. *)
LEMMA StepNextInv == StepIInv /\ [StepUpNext]_stepVars => StepIInv'
<1> SUFFICES ASSUME StepIInv, [StepUpNext]_stepVars PROVE StepIInv'
  OBVIOUS
<1>t. /\ StepTypeOK /\ TaintShows /\ TrustedIsClean /\ ApprovalsAuthentic
      /\ UntrustedNeedsHuman
      /\ stepTime \in Nat /\ context \in [StepAgents -> Seq(Levels)]
      /\ tainted \subseteq StepAgents
      /\ ClaimTtl \in Nat /\ GrantTtl \in Nat
  BY StepUpAssumption DEF StepIInv, StepTypeOK
(* The contexts change, the documents do not. *)
<1>1. ASSUME UNCHANGED <<claims, approvals, clean, passage>>, stepTime' \in Nat,
             context' \in [StepAgents -> Seq(Levels)], tainted' \subseteq StepAgents,
             TaintShows'
      PROVE  StepIInv'
  BY <1>1, <1>t DEF StepIInv, StepTypeOK, TrustedIsClean, ApprovalsAuthentic, UntrustedNeedsHuman
<1>2. ASSUME NEW a \in StepAgents, NewContext(a) PROVE StepIInv'
  <2>1. /\ context' = [context EXCEPT ![a] = << >>] /\ tainted' = tainted \ {a}
        /\ UNCHANGED <<stepTime, claims, approvals, clean, passage>>
    BY <1>2 DEF NewContext
  <2>2. TaintShows'
    BY <2>1, <1>t DEF TaintShows
  <2> QED BY <2>1, <2>2, <1>1, <1>t
<1>3. ASSUME NEW a \in StepAgents, NEW level \in Levels, AddSource(a, level) PROVE StepIInv'
  <2> DEFINE r == Recorded(context[a], level)
  <2>1. /\ context' = [context EXCEPT ![a] = r]
        /\ tainted' = IF level = "untrusted" THEN tainted \cup {a} ELSE tainted
        /\ UNCHANGED <<stepTime, claims, approvals, clean, passage>>
    BY <1>3 DEF AddSource
  <2>2. /\ r \in Seq(Levels)
        /\ level = "untrusted" \/ (\E n \in 1 .. Len(context[a]) : context[a][n] = "untrusted")
             => \E n \in 1 .. Len(r) : r[n] = "untrusted"
    BY <1>t, RecordedMarks
  <2> HIDE DEF r
  <2>3. ASSUME NEW b \in tainted'
        PROVE  \E n \in 1 .. Len(context'[b]) : context'[b][n] = "untrusted"
    <3>1. CASE b = a
      BY <3>1, <2>1, <2>2, <2>3, <1>t DEF TaintShows
    <3>2. CASE b # a
      BY <3>2, <2>1, <2>3, <1>t DEF TaintShows
    <3> QED BY <3>1, <3>2
  <2> QED BY <2>1, <2>2, <2>3, <1>1, <1>t DEF TaintShows
<1>4. ASSUME NEW a \in StepAgents, NEW x \in BoundActions, NEW label \in Levels,
             SignClaim(a, x, label)
      PROVE  StepIInv'
  <2> DEFINE body == [sender |-> a, action |-> x, sources |-> context[a], trust |-> label,
                      issuedAt |-> stepTime, expiresAt |-> stepTime + ClaimTtl]
             claim == SignedAs(a, body)
  <2>1. /\ claims' = claims \cup {claim}
        /\ clean' = IF a \in tainted THEN clean ELSE clean \cup {claim}
        /\ UNCHANGED <<stepTime, context, approvals, tainted, passage>>
    BY <1>4 DEF SignClaim
  <2>2. body \in ClaimBodies /\ body.sender = a /\ body.sources = context[a]
    BY <1>t DEF ClaimBodies
  <2> HIDE DEF body
  <2>3. /\ claim \in [body : ClaimBodies, by : StepAgents, over : ClaimBodies]
        /\ claim.body = body /\ claim.by = a /\ claim.over = body
    BY <2>2 DEF SignedAs
  <2>4. DeriveTrust(context[a]) = "trusted" => a \notin tainted
    BY <1>t DEF TaintShows, DeriveTrust
  <2> HIDE DEF claim
  <2>5. StepTypeOK' /\ TaintShows' /\ ApprovalsAuthentic'
    BY <2>1, <2>3, <1>t DEF StepTypeOK, TaintShows, ApprovalsAuthentic
  <2>6. TrustedIsClean'
    BY <2>1, <2>2, <2>3, <2>4, <1>t DEF TrustedIsClean, Authentic
  <2>7. UntrustedNeedsHuman'
    BY <2>1, <1>t DEF UntrustedNeedsHuman
  <2> QED BY <2>5, <2>6, <2>7 DEF StepIInv
<1>5. ASSUME NEW p \in Identities, NEW a \in StepAgents, NEW x \in BoundActions,
             SignGrant(p, a, x)
      PROVE  StepIInv'
  <2> DEFINE body == [approver |-> p, subject |-> a, action |-> x, issuedAt |-> stepTime,
                      expiresAt |-> stepTime + GrantTtl]
             grant == SignedAs(p, body)
  <2>1. /\ approvals' = approvals \cup {grant}
        /\ UNCHANGED <<stepTime, context, claims, tainted, clean, passage>>
    BY <1>5 DEF SignGrant
  <2>2. body \in GrantBodies /\ body.approver = p
    BY <1>t DEF GrantBodies
  <2> HIDE DEF body
  <2>3. /\ grant \in [body : GrantBodies, by : Identities, over : GrantBodies]
        /\ grant.body = body /\ grant.by = p /\ grant.over = body
    BY <2>2 DEF SignedAs
  <2> HIDE DEF grant
  <2>4. StepTypeOK' /\ TaintShows' /\ TrustedIsClean'
    BY <2>1, <2>3, <1>t DEF StepTypeOK, TaintShows, TrustedIsClean
  <2>5. ApprovalsAuthentic'
    BY <2>1, <2>2, <2>3, <1>t DEF ApprovalsAuthentic, Authentic
  <2>6. UntrustedNeedsHuman'
    BY <2>1, <1>t DEF UntrustedNeedsHuman
  <2> QED BY <2>4, <2>5, <2>6 DEF StepIInv
(* Only what was let through last changes. *)
<1>6. ASSUME UNCHANGED <<stepTime, context, claims, approvals, tainted, clean>>,
             UntrustedNeedsHuman'
      PROVE  StepIInv'
  BY <1>6, <1>t DEF StepIInv, StepTypeOK, TaintShows, TrustedIsClean, ApprovalsAuthentic
<1>7. ASSUME NEW a \in StepAgents, NEW r \in StepRequests, NEW d \in ArrivingClaims,
             LetThroughTrusted(a, r, d)
      PROVE  StepIInv'
  <2> DEFINE x == BindAction(r)
  <2>0. x \in BoundActions
    BY DEF BoundActions
  <2> HIDE DEF x
  <2>1. /\ EffectiveTrust(d, a, x) = "trusted"
        /\ passage' = [agent |-> a, action |-> x, on |-> "claim", doc |-> d]
        /\ UNCHANGED <<stepTime, context, claims, approvals, tainted, clean>>
    BY <1>7 DEF LetThroughTrusted, x
  <2>2. ProvenanceVerifies(d, a, x) /\ d.body.trust = "trusted"
    BY <2>1 DEF EffectiveTrust
  <2>3. d # NoClaim /\ d.over = d.body /\ d.by = a /\ DeriveTrust(d.body.sources) = "trusted"
    BY <2>2 DEF ProvenanceVerifies, Authentic
  <2>4. d \in claims
    BY <2>3, <1>t, ClaimWasSigned
  <2>5. d \in clean
    BY <2>2, <2>3, <2>4, <1>t DEF TrustedIsClean
  <2>6. d.body.action \in BoundActions
    BY <2>4, <1>t DEF StepTypeOK, ClaimBodies
  <2>7. d.body.action = x
    BY <2>0, <2>2, <2>6, ActionsAreEqual DEF ProvenanceVerifies
  <2>8. UntrustedNeedsHuman'
    BY <2>1, <2>3, <2>5, <2>7 DEF UntrustedNeedsHuman
  <2> QED BY <2>1, <2>8, <1>6
<1>8. ASSUME NEW a \in StepAgents, NEW r \in StepRequests, NEW d \in ArrivingClaims,
             NEW g \in ArrivingApprovals, LetThroughApproved(a, r, d, g)
      PROVE  StepIInv'
  <2> DEFINE x == BindAction(r)
  <2>0. x \in BoundActions
    BY DEF BoundActions
  <2> HIDE DEF x
  <2>1. /\ ApprovalVerifies(g, a, x)
        /\ passage' = [agent |-> a, action |-> x, on |-> "approval", doc |-> g]
        /\ UNCHANGED <<stepTime, context, claims, approvals, tainted, clean>>
    BY <1>8 DEF LetThroughApproved, x
  <2>3. /\ g # NoSignoff /\ g.over = g.body /\ g.body.subject = a
        /\ g.by \in Approvers \ {a}
    BY <2>1 DEF ApprovalVerifies, Authentic
  <2>4. g \in approvals
    BY <2>3, <1>t, ApprovalWasSigned
  <2>6. g.body.action \in BoundActions
    BY <2>4, <1>t DEF StepTypeOK, GrantBodies
  <2>7. g.body.action = x
    BY <2>0, <2>1, <2>6, ActionsAreEqual DEF ApprovalVerifies
  <2>8. UntrustedNeedsHuman'
    BY <2>1, <2>3, <2>4, <2>7 DEF UntrustedNeedsHuman
  <2> QED BY <2>1, <2>8, <1>6
<1>9. CASE StepTick
  <2>1. /\ stepTime' \in Nat
        /\ UNCHANGED <<context, claims, approvals, tainted, clean, passage>>
    BY <1>9, <1>t DEF StepTick
  <2>2. TaintShows'
    BY <2>1, <1>t DEF TaintShows
  <2> QED BY <2>1, <2>2, <1>1, <1>t
<1>10. CASE UNCHANGED stepVars
  <2>1. UNCHANGED <<stepTime, context, claims, approvals, tainted, clean, passage>>
    BY <1>10 DEF stepVars
  <2>2. TaintShows'
    BY <2>1, <1>t DEF TaintShows
  <2> QED BY <2>1, <2>2, <1>1, <1>t
<1>11. ASSUME NEW a \in StepAgents, NEW x \in BoundActions,
              SignProvenance(a, x) \/ LabelByHand(a, x)
       PROVE  StepIInv'
  <2>1. DeriveTrust(context[a]) \in Levels /\ "trusted" \in Levels
    BY DEF DeriveTrust, Levels
  <2> QED BY <2>1, <1>4, <1>11 DEF SignProvenance, LabelByHand
<1>12. ASSUME NEW a \in StepAgents, NEW x \in BoundActions,
              ApproveItself(a, x) \/ \E p \in Identities : IssueApproval(p, a, x)
       PROVE  StepIInv'
  <2>1. a \in Identities
    BY DEF Identities
  <2> QED BY <2>1, <1>5, <1>12 DEF ApproveItself, IssueApproval
<1> QED BY <1>2, <1>3, <1>7, <1>8, <1>9, <1>10, <1>11, <1>12 DEF StepUpNext

(* What untrusted input may have caused goes through only when another     *)
(* identity, an approver of the route, signed for this action; a trusted   *)
(* claim comes from an agent that had taken no untrusted input, for any    *)
(* number of agents, sources and documents.                                *)
THEOREM StepUpHolds == StepUpSpec => []UntrustedNeedsHuman
<1>1. StepInit => StepIInv
  BY StepInitInv
<1>2. StepIInv /\ [StepUpNext]_stepVars => StepIInv'
  BY StepNextInv
<1>3. StepIInv => UntrustedNeedsHuman
  BY DEF StepIInv
<1> QED BY <1>1, <1>2, <1>3, PTL DEF StepUpSpec

-----------------------------------------------------------------------------
(* Attested keys                                                           *)

AttestTypes ==
  /\ attestTime \in Nat
  /\ baseKeys \in [Workloads -> AgentKeys \cup {NoKey}]
  /\ statements \subseteq Statements /\ IsFiniteSet(statements)
  /\ withdrawn \subseteq 1 .. MaxStatements
  /\ attested \in [Workloads -> Cached]
  /\ lookup \in [Lookups -> LookupPlaces]
  /\ withdrawnAt \in [1 .. MaxStatements -> Nat]
  /\ droppedAt \in [Workloads \X AgentKeys -> Nat]
  /\ handed \subseteq
       [agent : Workloads, key : AgentKeys, at : Nat, why : {"cached", "verified"}]

(* What attesters sign is signed as it stands. *)
StatementsGenuine == \A s \in statements : s.body = s.signed

(* A call began no longer ago than a call may take, and its key was the    *)
(* registry's then; it compares t, read on the way, with its statement;    *)
(* what was not withdrawn when it asked is not withdrawn before t.         *)
LookupSound(call) ==
  /\ call.at # "idle" =>
       /\ call.began <= attestTime /\ attestTime <= call.began + LookupDelay
       /\ baseKeys[call.agent] # call.key => call.began <= droppedAt[<<call.agent, call.key>>]
  /\ call.at \in {"asked", "signed", "live"} => call.began <= call.t /\ call.t <= attestTime
  /\ call.at \in {"signed", "live"} =>
       /\ \E s \in statements : s.body = call.body
       /\ StatementFits(call.body, call)
  /\ call.at = "live" /\ call.body.id \in withdrawn => call.t <= withdrawnAt[call.body.id]

(* A cache entry rests on a statement and ends in time. *)
EntrySound(a, e) ==
  e.key # NoKey =>
    /\ e.until <= attestTime + CacheMs
    /\ \E s \in statements :
         LET b == s.body IN
         /\ b.agent = a /\ b.publicKey = e.key
         /\ b.attester \in AllowedAttesters /\ b.build \in ApprovedBuilds
         /\ e.until <= b.expiresAt
         /\ e.until <= b.issuedAt + MaxStatementAge + CacheMs
         /\ b.id \in withdrawn => e.until <= withdrawnAt[b.id] + CacheMs

(* What AttestedKeysHold says of one answer. *)
AnswerSound(h) ==
  /\ h.at <= attestTime
  /\ \E s \in statements :
       LET b == s.body IN
       /\ b.agent = h.agent /\ b.publicKey = h.key
       /\ b.attester \in AllowedAttesters /\ b.build \in ApprovedBuilds
       /\ h.at < b.expiresAt + (IF h.why = "cached" THEN 0 ELSE LookupDelay)
       /\ h.at <= b.issuedAt + MaxStatementAge + Lag
       /\ b.id \in withdrawn => h.at <= withdrawnAt[b.id] + Lag
  /\ baseKeys[h.agent] # h.key => h.at <= droppedAt[<<h.agent, h.key>>] + LookupDelay

AttestIInv ==
  /\ AttestTypes /\ StatementsGenuine
  /\ \A l \in Lookups : LookupSound(lookup[l])
  /\ \A a \in Workloads : EntrySound(a, attested[a])
  /\ \A h \in handed : AnswerSound(h)

(* The numbers among the constants. *)
LEMMA AttestNumbers ==
  /\ CacheMs \in Nat /\ LookupDelay \in Nat /\ MaxStatementAge \in Nat /\ Lag \in Nat
  /\ MaxStatements \in Nat /\ StatementLife \in Nat \ {0} /\ NoKey \notin AgentKeys
  /\ CacheMs <= Lag /\ LookupDelay <= Lag
BY AttestAssumption DEF Lag

(* The fields of a call in progress. *)
LEMMA LookupFields ==
  ASSUME NEW call \in LookupPlaces
  PROVE  /\ call.at \in {"idle", "based", "asked", "signed", "live"}
         /\ call.at # "idle" => /\ call.agent \in Workloads /\ call.key \in AgentKeys
                                /\ call.began \in Nat
         /\ call.at \in {"asked", "signed", "live"} => call.t \in Nat
         /\ call.at \in {"signed", "live"} => call.body \in Bodies
BY DEF LookupPlaces, LookupIdle

(* A statement whose signature holds is one that was issued. *)
LEMMA StatementWasIssued ==
  ASSUME statements \subseteq Statements, StatementsGenuine, NEW s \in Presented,
         s.body = s.signed
  PROVE  s \in statements
<1>1. \A m \in statements : m \in Statements /\ m.body = m.signed
  BY DEF StatementsGenuine
<1>2. ASSUME NEW m \in statements, s.signed = m.signed, s = [m EXCEPT !.body = s.body]
      PROVE  s \in statements
  BY <1>1, <1>2 DEF Statements
<1>3. ASSUME NEW m \in statements, NEW a \in Workloads, s = [m EXCEPT !.body.agent = a]
      PROVE  s \in statements
  BY <1>1, <1>2, <1>3 DEF Statements
<1>4. ASSUME NEW m \in statements, NEW k \in AgentKeys, s = [m EXCEPT !.body.publicKey = k]
      PROVE  s \in statements
  BY <1>1, <1>2, <1>4 DEF Statements
<1>5. ASSUME NEW m \in statements, NEW b \in Builds, s = [m EXCEPT !.body.build = b]
      PROVE  s \in statements
  BY <1>1, <1>2, <1>5 DEF Statements
<1> QED BY <1>3, <1>4, <1>5 DEF Presented

(* A fresh registry satisfies the invariant. *)
LEMMA AttestInitInv == AttestInit => AttestIInv
<1> SUFFICES ASSUME AttestInit PROVE AttestIInv
  OBVIOUS
<1>1. IsFiniteSet({}) /\ Uncached \in Cached /\ LookupIdle \in LookupPlaces
  BY FS_EmptySet DEF Uncached, Cached, LookupPlaces
<1>2. AttestTypes /\ StatementsGenuine
  BY <1>1 DEF AttestInit, AttestTypes, StatementsGenuine
<1>3. \A l \in Lookups : LookupSound(lookup[l])
  BY DEF AttestInit, LookupSound, LookupIdle
<1>4. \A a \in Workloads : EntrySound(a, attested[a])
  BY DEF AttestInit, EntrySound, Uncached
<1> QED BY <1>2, <1>3, <1>4 DEF AttestIInv, AttestInit

(* Issuing, withdrawing and changing keys, every step of a lookup and the  *)
(* passing of time preserve it.                                            *)
LEMMA AttestNextInv == AttestIInv /\ [AttestNext]_attestVars => AttestIInv'
<1> SUFFICES ASSUME AttestIInv, [AttestNext]_attestVars PROVE AttestIInv'
  OBVIOUS
<1>t. /\ AttestTypes /\ StatementsGenuine
      /\ attestTime \in Nat /\ statements \subseteq Statements
      /\ baseKeys \in [Workloads -> AgentKeys \cup {NoKey}]
      /\ withdrawn \subseteq 1 .. MaxStatements
      /\ attested \in [Workloads -> Cached] /\ lookup \in [Lookups -> LookupPlaces]
      /\ withdrawnAt \in [1 .. MaxStatements -> Nat]
      /\ droppedAt \in [Workloads \X AgentKeys -> Nat]
  BY DEF AttestIInv, AttestTypes
<1>s. /\ \A l \in Lookups : LookupSound(lookup[l])
      /\ \A a \in Workloads : EntrySound(a, attested[a])
      /\ \A h \in handed : AnswerSound(h)
  BY DEF AttestIInv
<1>f. /\ \A s \in statements :
           /\ s.body.id \in Nat /\ s.body.expiresAt \in Nat /\ s.body.issuedAt \in Nat
           /\ s.body \in Bodies
      /\ \A a \in Workloads : attested[a].until \in Nat
      /\ \A h \in handed : h.agent \in Workloads /\ h.key \in AgentKeys /\ h.at \in Nat
  BY <1>t DEF AttestTypes, Statements, Bodies, Cached
(* Statements are added, or nothing happens. *)
<1>1. ASSUME statements \subseteq statements', StatementsGenuine', AttestTypes',
             UNCHANGED <<attestTime, baseKeys, withdrawn, attested, lookup, withdrawnAt,
                         droppedAt, handed>>
      PROVE  AttestIInv'
  BY <1>1, <1>s DEF AttestIInv, LookupSound, EntrySound, AnswerSound
<1>2. ASSUME NEW a \in Workloads, NEW k \in AgentKeys, NEW b \in Builds, NEW t \in Attesters,
             IssueAttestation(a, k, b, t)
      PROVE  AttestIInv'
  <2> DEFINE n == Cardinality(statements) + 1
             body == [id |-> n, agent |-> a, publicKey |-> k, build |-> b, attester |-> t,
                      issuedAt |-> attestTime, expiresAt |-> attestTime + StatementLife]
             s == [body |-> body, signed |-> body]
  <2>1. /\ statements' = statements \cup {s}
        /\ UNCHANGED <<attestTime, baseKeys, withdrawn, attested, lookup, withdrawnAt,
                       droppedAt, handed>>
    BY <1>2 DEF IssueAttestation
  <2>2. IsFiniteSet(statements) /\ Cardinality(statements) \in Nat
    BY <1>t, FS_CardinalityType DEF AttestTypes
  <2>3. n \in Nat
    BY <2>2
  <2> HIDE DEF n
  <2>4. body \in Bodies
    BY <2>3, <1>t, AttestNumbers DEF Bodies
  <2> HIDE DEF body
  <2>5. s \in Statements /\ s.body = s.signed
    BY <2>4 DEF Statements
  <2> HIDE DEF s
  <2>6. IsFiniteSet(statements')
    BY <2>1, <2>2, FS_AddElement
  <2>7. AttestTypes' /\ StatementsGenuine'
    BY <2>1, <2>5, <2>6, <1>t DEF AttestTypes, StatementsGenuine
  <2> QED BY <1>1, <2>1, <2>7
<1>3. ASSUME NEW n \in 1 .. MaxStatements, WithdrawStatement(n) PROVE AttestIInv'
  <2>1. /\ withdrawn' = withdrawn \cup {n} /\ n \notin withdrawn
        /\ withdrawnAt' = [withdrawnAt EXCEPT ![n] = attestTime]
        /\ UNCHANGED <<attestTime, baseKeys, statements, attested, lookup, droppedAt, handed>>
    BY <1>3 DEF WithdrawStatement
  <2>2. AttestTypes' /\ StatementsGenuine'
    BY <2>1, <1>t DEF AttestTypes, StatementsGenuine
  <2>3. \A m \in withdrawn' :
          \/ m = n /\ withdrawnAt'[m] = attestTime
          \/ m \in withdrawn /\ withdrawnAt'[m] = withdrawnAt[m]
    <3>1. withdrawnAt'[n] = attestTime
      BY <2>1, <1>t
    <3>2. \A m \in withdrawn : m # n /\ m \in 1 .. MaxStatements
      BY <2>1, <1>t
    <3>3. \A m \in withdrawn : withdrawnAt'[m] = withdrawnAt[m]
      BY <3>2, <2>1, <1>t
    <3> QED BY <3>1, <3>3, <2>1
  <2>4. ASSUME NEW l \in Lookups PROVE LookupSound(lookup[l])'
    <3> DEFINE call == lookup[l]
    <3>1. LookupSound(call)
      BY <1>s
    <3>2. call.at = "live" => call.t <= attestTime
      BY <3>1 DEF LookupSound
    <3> HIDE DEF call
    <3>3. LookupSound(call)'
      BY <3>1, <3>2, <2>1, <2>3 DEF LookupSound, StatementFits, call
    <3> QED BY <3>3 DEF call
  <2>5. ASSUME NEW a \in Workloads PROVE EntrySound(a, attested[a])'
    <3> DEFINE e == attested[a]
    <3>1. EntrySound(a, e) /\ e.until \in Nat
      BY <1>s, <1>f
    <3>2. EntrySound(a, e)'
      BY <3>1, <2>1, <2>3, <1>f DEF EntrySound
    <3> QED BY <3>2
  <2>6. ASSUME NEW h \in handed PROVE AnswerSound(h)'
    <3>1. AnswerSound(h) /\ h.at \in Nat
      BY <1>s, <1>f
    <3>2. PICK s \in statements :
            /\ s.body.agent = h.agent /\ s.body.publicKey = h.key
            /\ s.body.attester \in AllowedAttesters /\ s.body.build \in ApprovedBuilds
            /\ h.at < s.body.expiresAt + (IF h.why = "cached" THEN 0 ELSE LookupDelay)
            /\ h.at <= s.body.issuedAt + MaxStatementAge + Lag
            /\ s.body.id \in withdrawn => h.at <= withdrawnAt[s.body.id] + Lag
      BY <3>1 DEF AnswerSound
    <3>3. s.body.id \in withdrawn' => h.at <= withdrawnAt'[s.body.id] + Lag
      BY <3>1, <3>2, <2>3, <1>t, AttestNumbers DEF AnswerSound
    <3> QED BY <3>1, <3>2, <3>3, <2>1 DEF AnswerSound
  <2> QED BY <2>1, <2>2, <2>4, <2>5, <2>6 DEF AttestIInv
<1>4. ASSUME NEW a \in Workloads, NEW k \in AgentKeys \cup {NoKey}, ChangeBaseKey(a, k)
      PROVE  AttestIInv'
  <2>1. /\ k # baseKeys[a] /\ baseKeys' = [baseKeys EXCEPT ![a] = k]
        /\ droppedAt' = [p \in Workloads \X AgentKeys |->
             IF p = <<a, baseKeys[a]>> THEN attestTime ELSE droppedAt[p]]
        /\ UNCHANGED <<attestTime, statements, withdrawn, attested, lookup, withdrawnAt, handed>>
    BY <1>4 DEF ChangeBaseKey
  <2>2. AttestTypes' /\ StatementsGenuine'
    BY <2>1, <1>t DEF AttestTypes, StatementsGenuine
  (* A key that is not the registry's any more was dropped now or before. *)
  <2>3. ASSUME NEW w \in Workloads, NEW j \in AgentKeys, baseKeys'[w] # j
        PROVE  \/ droppedAt'[<<w, j>>] = attestTime
               \/ baseKeys[w] # j /\ droppedAt'[<<w, j>>] = droppedAt[<<w, j>>]
    <3>1. <<w, j>> \in Workloads \X AgentKeys
      OBVIOUS
    <3>2. CASE <<w, j>> = <<a, baseKeys[a]>>
      BY <3>1, <3>2, <2>1
    <3>3. CASE <<w, j>> # <<a, baseKeys[a]>>
      <4>1. droppedAt'[<<w, j>>] = droppedAt[<<w, j>>]
        BY <3>1, <3>3, <2>1
      <4>2. w = a => j # baseKeys[a]
        BY <3>3
      <4>3. w # a => baseKeys'[w] = baseKeys[w]
        BY <2>1, <1>t
      <4> QED BY <4>1, <4>2, <4>3, <2>3
    <3> QED BY <3>2, <3>3
  <2>4. ASSUME NEW l \in Lookups PROVE LookupSound(lookup[l])'
    <3> DEFINE call == lookup[l]
    <3>1. LookupSound(call) /\ call \in LookupPlaces
      BY <1>s, <1>t
    <3>2. call.at # "idle" => call.agent \in Workloads /\ call.key \in AgentKeys
      BY <3>1, LookupFields
    <3>3. call' = call
      BY <2>1
    <3> HIDE DEF call
    <3>4. call.at # "idle" /\ baseKeys'[call.agent] # call.key =>
            call.began <= droppedAt'[<<call.agent, call.key>>]
      BY <3>1, <3>2, <2>3 DEF LookupSound
    <3>5. LookupSound(call)'
      BY <3>1, <3>3, <3>4, <2>1 DEF LookupSound, StatementFits
    <3> QED BY <3>5 DEF call
  <2>5. \A w \in Workloads : EntrySound(w, attested[w])'
    BY <2>1, <1>s DEF EntrySound
  <2>6. ASSUME NEW h \in handed PROVE AnswerSound(h)'
    <3>1. /\ AnswerSound(h) /\ h.at \in Nat /\ attestTime \in Nat /\ LookupDelay \in Nat
          /\ h.agent \in Workloads /\ h.key \in AgentKeys
      BY <1>s, <1>f, <1>t, AttestNumbers
    <3>2. /\ h.at <= attestTime
          /\ baseKeys[h.agent] # h.key => h.at <= droppedAt[<<h.agent, h.key>>] + LookupDelay
      BY <3>1 DEF AnswerSound
    <3>3. baseKeys'[h.agent] # h.key =>
            \/ droppedAt'[<<h.agent, h.key>>] = attestTime
            \/ /\ baseKeys[h.agent] # h.key
               /\ droppedAt'[<<h.agent, h.key>>] = droppedAt[<<h.agent, h.key>>]
      BY <3>1, <2>3
    <3>4. baseKeys'[h.agent] # h.key => h.at <= droppedAt'[<<h.agent, h.key>>] + LookupDelay
      BY <3>1, <3>2, <3>3
    <3> QED BY <3>1, <3>4, <2>1 DEF AnswerSound
  <2> QED BY <2>1, <2>2, <2>4, <2>5, <2>6 DEF AttestIInv
<1>5. CASE AttestTick
  <2>1. /\ attestTime' = attestTime + 1
        /\ \A l \in Lookups :
             lookup[l].at # "idle" => attestTime < lookup[l].began + LookupDelay
        /\ UNCHANGED <<baseKeys, statements, withdrawn, attested, lookup, withdrawnAt,
                       droppedAt, handed>>
    BY <1>5 DEF AttestTick
  <2>2. AttestTypes' /\ StatementsGenuine'
    BY <2>1, <1>t DEF AttestTypes, StatementsGenuine
  <2>3. ASSUME NEW l \in Lookups PROVE LookupSound(lookup[l])'
    <3> DEFINE call == lookup[l]
    <3>1. LookupSound(call) /\ call \in LookupPlaces
      BY <1>s, <1>t
    <3>2. /\ call.at # "idle" => call.began \in Nat
          /\ call.at \in {"asked", "signed", "live"} => call.t \in Nat
          /\ call.at # "idle" => attestTime < call.began + LookupDelay
      BY <3>1, <2>1, LookupFields
    <3>3. call' = call
      BY <2>1
    <3> HIDE DEF call
    <3>4. LookupSound(call)'
      BY <3>1, <3>2, <3>3, <2>1, <1>t, AttestNumbers DEF LookupSound, StatementFits
    <3> QED BY <3>4 DEF call
  <2>4. \A a \in Workloads : EntrySound(a, attested[a])'
    BY <2>1, <1>s, <1>f, <1>t, AttestNumbers DEF EntrySound
  <2>5. ASSUME NEW h \in handed PROVE AnswerSound(h)'
    <3>1. AnswerSound(h) /\ h.at \in Nat
      BY <1>s, <1>f
    <3>2. h.at <= attestTime'
      BY <3>1, <2>1, <1>t DEF AnswerSound
    <3> QED BY <3>1, <3>2, <2>1 DEF AnswerSound
  <2> QED BY <2>1, <2>2, <2>3, <2>4, <2>5 DEF AttestIInv
(* A call moves: its new place, the cache and what is handed out hold. *)
<1>6. ASSUME NEW l \in Lookups, NEW call \in LookupPlaces, LookupSound(call),
             lookup' = [lookup EXCEPT ![l] = call],
             UNCHANGED <<attestTime, baseKeys, statements, withdrawn, withdrawnAt, droppedAt>>,
             attested' \in [Workloads -> Cached],
             \A a \in Workloads : attested'[a] = attested[a] \/ EntrySound(a, attested'[a]),
             handed' \subseteq
               [agent : Workloads, key : AgentKeys, at : Nat, why : {"cached", "verified"}],
             \A h \in handed' : h \in handed \/ AnswerSound(h)
      PROVE  AttestIInv'
  <2>1. AttestTypes' /\ StatementsGenuine'
    BY <1>6, <1>t DEF AttestTypes, StatementsGenuine
  <2>2. \A m \in Lookups : LookupSound(lookup'[m])
    BY <1>6, <1>s, <1>t
  <2>3. \A a \in Workloads : EntrySound(a, attested'[a])
    BY <1>6, <1>s
  <2>4. \A h \in handed' : AnswerSound(h)
    BY <1>6, <1>s
  <2>5. \A m \in Lookups : LookupSound(lookup[m])'
    BY <2>2, <1>6 DEF LookupSound, StatementFits
  <2>6. \A a \in Workloads : EntrySound(a, attested[a])'
    BY <2>3, <1>6 DEF EntrySound
  <2>7. \A h \in handed' : AnswerSound(h)'
    BY <2>4, <1>6 DEF AnswerSound
  <2> QED BY <2>1, <2>5, <2>6, <2>7 DEF AttestIInv
<1>i. LookupIdle \in LookupPlaces /\ LookupSound(LookupIdle)
  BY DEF LookupPlaces, LookupIdle, LookupSound
<1>c. ASSUME UNCHANGED <<attested, handed>>
      PROVE  /\ attested' \in [Workloads -> Cached]
             /\ \A a \in Workloads : attested'[a] = attested[a] \/ EntrySound(a, attested'[a])
             /\ handed' \subseteq
                 [agent : Workloads, key : AgentKeys, at : Nat, why : {"cached", "verified"}]
             /\ \A h \in handed' : h \in handed \/ AnswerSound(h)
  BY <1>c, <1>t DEF AttestTypes
<1>7. ASSUME NEW l \in Lookups, NEW a \in Workloads, AskBase(l, a) PROVE AttestIInv'
  <2> DEFINE call == [at |-> "based", agent |-> a, key |-> baseKeys[a], began |-> attestTime]
  <2>1. /\ baseKeys[a] # NoKey /\ lookup' = [lookup EXCEPT ![l] = call]
        /\ UNCHANGED <<attestTime, baseKeys, statements, withdrawn, withdrawnAt, droppedAt>>
        /\ UNCHANGED <<attested, handed>>
    BY <1>7 DEF AskBase
  <2>2. call \in LookupPlaces
    BY <2>1, <1>t DEF LookupPlaces
  <2>3. LookupSound(call)
    BY <1>t, AttestNumbers DEF LookupSound
  <2> HIDE DEF call
  <2> QED BY <2>1, <2>2, <2>3, <1>6, <1>c
<1>8. ASSUME NEW l \in Lookups, AskStatement(l) PROVE AttestIInv'
  <2> DEFINE was == lookup[l]
             call == [at |-> "asked", agent |-> was.agent, key |-> was.key,
                      began |-> was.began, t |-> attestTime]
  <2>1. /\ was.at = "based" /\ lookup' = [lookup EXCEPT ![l] = call]
        /\ UNCHANGED <<attestTime, baseKeys, statements, withdrawn, withdrawnAt, droppedAt>>
        /\ UNCHANGED <<attested, handed>>
    BY <1>8 DEF AskStatement
  <2>2. /\ was.agent \in Workloads /\ was.key \in AgentKeys /\ was.began \in Nat
        /\ LookupSound(was)
    BY <2>1, <1>t, <1>s, LookupFields
  <2>3. call \in LookupPlaces
    BY <2>2, <1>t DEF LookupPlaces
  <2>4. LookupSound(call)
    BY <2>1, <2>2, <1>t DEF LookupSound
  <2> HIDE DEF call
  <2> QED BY <2>1, <2>3, <2>4, <1>6, <1>c
<1>9. ASSUME NEW l \in Lookups, NEW s \in Presented, ReadStatement(l, s) PROVE AttestIInv'
  <2> DEFINE was == lookup[l]
             call == [at |-> "signed", agent |-> was.agent, key |-> was.key,
                      began |-> was.began, t |-> was.t, body |-> s.body]
  <2>1. /\ was.at = "asked" /\ lookup' = [lookup EXCEPT ![l] = call]
        /\ StatementFits(s.body, was) /\ s.body = s.signed
        /\ UNCHANGED <<attestTime, baseKeys, statements, withdrawn, withdrawnAt, droppedAt>>
        /\ UNCHANGED <<attested, handed>>
    BY <1>9 DEF ReadStatement
  <2>2. /\ was.agent \in Workloads /\ was.key \in AgentKeys /\ was.began \in Nat
        /\ was.t \in Nat /\ LookupSound(was)
    BY <2>1, <1>t, <1>s, LookupFields
  <2>3. s \in statements /\ s.body \in Bodies
    BY <2>1, <1>t, <1>f, StatementWasIssued
  <2>4. call \in LookupPlaces
    BY <2>2, <2>3 DEF LookupPlaces
  <2>5. LookupSound(call)
    BY <2>1, <2>2, <2>3, <1>t DEF LookupSound, StatementFits
  <2> HIDE DEF call
  <2> QED BY <2>1, <2>4, <2>5, <1>6, <1>c
<1>10. ASSUME NEW l \in Lookups, ReadRevoked(l) PROVE AttestIInv'
  <2> DEFINE was == lookup[l]
             call == [was EXCEPT !.at = "live"]
  <2>1. /\ was.at = "signed" /\ lookup' = [lookup EXCEPT ![l] = call]
        /\ was.body.id \notin withdrawn
        /\ UNCHANGED <<attestTime, baseKeys, statements, withdrawn, withdrawnAt, droppedAt>>
        /\ UNCHANGED <<attested, handed>>
    BY <1>10 DEF ReadRevoked
  <2>2. /\ call \in LookupPlaces /\ call.at = "live" /\ call.agent = was.agent
        /\ call.key = was.key /\ call.began = was.began /\ call.t = was.t
        /\ call.body = was.body
    <3>1. was \in [at : {"signed", "live"}, agent : Workloads, key : AgentKeys, began : Nat,
                   t : Nat, body : Bodies]
      BY <2>1, <1>t DEF LookupPlaces, LookupIdle
    <3> HIDE DEF was
    <3> QED BY <3>1 DEF LookupPlaces
  <2>3. LookupSound(was)
    BY <1>s
  <2> HIDE DEF call
  <2>5. LookupSound(call)
    BY <2>1, <2>2, <2>3 DEF LookupSound, StatementFits
  <2> QED BY <2>1, <2>2, <2>5, <1>6, <1>c
<1>11. ASSUME NEW l \in Lookups, AnswerFromCache(l) PROVE AttestIInv'
  <2> DEFINE call == lookup[l]
             h == [agent |-> call.agent, key |-> call.key, at |-> attestTime, why |-> "cached"]
  <2>1. /\ call.at = "based" /\ CacheHit(call) /\ handed' = {h}
        /\ lookup' = [lookup EXCEPT ![l] = LookupIdle]
        /\ UNCHANGED <<attestTime, baseKeys, statements, withdrawn, attested, withdrawnAt,
                       droppedAt>>
    BY <1>11 DEF AnswerFromCache, HandOut
  <2>2. /\ call.agent \in Workloads /\ call.key \in AgentKeys /\ call.began \in Nat
        /\ LookupSound(call)
    BY <2>1, <1>t, <1>s, LookupFields
  <2>3. /\ h \in [agent : Workloads, key : AgentKeys, at : Nat, why : {"cached", "verified"}]
        /\ h.agent = call.agent /\ h.key = call.key /\ h.at = attestTime /\ h.why = "cached"
    BY <2>2, <1>t
  <2> HIDE DEF h
  <2>4. PICK s \in statements :
          LET b == s.body
              e == attested[call.agent] IN
          /\ b.agent = call.agent /\ b.publicKey = e.key
          /\ b.attester \in AllowedAttesters /\ b.build \in ApprovedBuilds
          /\ e.until <= b.expiresAt
          /\ e.until <= b.issuedAt + MaxStatementAge + CacheMs
          /\ b.id \in withdrawn => e.until <= withdrawnAt[b.id] + CacheMs
    BY <2>1, <2>2, <1>s, AttestNumbers DEF EntrySound, CacheHit
  <2>5. attestTime < attested[call.agent].until /\ attested[call.agent].key = call.key
    BY <2>1, <2>2, <1>t, <1>f DEF CacheHit
  <2>6. baseKeys[h.agent] # h.key => h.at <= droppedAt[<<h.agent, h.key>>] + LookupDelay
    <3>1. baseKeys[h.agent] # h.key => call.began <= droppedAt[<<h.agent, h.key>>]
      BY <2>1, <2>2, <2>3 DEF LookupSound
    <3>2. attestTime <= call.began + LookupDelay
      BY <2>1, <2>2 DEF LookupSound
    <3>3. droppedAt[<<h.agent, h.key>>] \in Nat
      BY <2>2, <2>3, <1>t
    <3> QED BY <3>1, <3>2, <3>3, <2>2, <2>3, <1>t, AttestNumbers
  <2>n. /\ attested[call.agent].until \in Nat /\ attestTime \in Nat
        /\ s.body.expiresAt \in Nat /\ s.body.issuedAt \in Nat
        /\ s.body.id \in withdrawn => withdrawnAt[s.body.id] \in Nat
    BY <2>2, <1>t, <1>f
  <2> HIDE DEF call
  <2>7. s.body.id \in withdrawn => h.at <= withdrawnAt[s.body.id] + Lag
    BY <2>n, <2>3, <2>4, <2>5, AttestNumbers
  <2>8. h.at < s.body.expiresAt + 0 /\ h.at <= s.body.issuedAt + MaxStatementAge + Lag
    BY <2>n, <2>3, <2>4, <2>5, AttestNumbers
  <2>9. AnswerSound(h)
    BY <2>3, <2>4, <2>5, <2>6, <2>7, <2>8, <1>t DEF AnswerSound
  <2> QED BY <2>1, <2>3, <2>9, <1>6, <1>i, <1>t
<1>12. ASSUME NEW l \in Lookups, AnswerAttested(l) PROVE AttestIInv'
  <2> DEFINE call == lookup[l]
             e == [key |-> call.key, until |-> MinOf(call.t + CacheMs, call.body.expiresAt)]
             h == [agent |-> call.agent, key |-> call.key, at |-> attestTime,
                   why |-> "verified"]
  <2>1. /\ call.at = "live" /\ call.body.build \in ApprovedBuilds
        /\ attested' = [a \in Workloads |->
             IF a = call.agent THEN e
             ELSE IF CacheFull /\ a = Head(cacheOrder) THEN Uncached
             ELSE attested[a]]
        /\ handed' = {h}
        /\ lookup' = [lookup EXCEPT ![l] = LookupIdle]
        /\ UNCHANGED <<attestTime, baseKeys, statements, withdrawn, withdrawnAt, droppedAt>>
    BY <1>12 DEF AnswerAttested, HandOut
  <2>2. /\ call.agent \in Workloads /\ call.key \in AgentKeys /\ call.began \in Nat
        /\ call.t \in Nat /\ call.body \in Bodies /\ LookupSound(call)
    BY <2>1, <1>t, <1>s, LookupFields
  <2>3. /\ h \in [agent : Workloads, key : AgentKeys, at : Nat, why : {"cached", "verified"}]
        /\ h.agent = call.agent /\ h.key = call.key /\ h.at = attestTime /\ h.why = "verified"
    BY <2>2, <1>t
  <2>4. /\ e \in Cached /\ e.key = call.key /\ e.until \in Nat
        /\ e.until <= call.t + CacheMs /\ e.until <= call.body.expiresAt
    BY <2>2, AttestNumbers DEF Cached, MinOf, Bodies
  <2>5. Uncached \in Cached /\ \A a \in Workloads : EntrySound(a, Uncached)
    BY DEF Uncached, Cached, EntrySound
  <2>6. /\ \E s \in statements : s.body = call.body
        /\ StatementFits(call.body, call)
        /\ call.body.id \in withdrawn => call.t <= withdrawnAt[call.body.id]
        /\ call.began <= call.t /\ call.t <= attestTime
        /\ attestTime <= call.began + LookupDelay
        /\ baseKeys[call.agent] # call.key => call.began <= droppedAt[<<call.agent, call.key>>]
    BY <2>1, <2>2 DEF LookupSound
  <2>7. PICK s \in statements : s.body = call.body
    BY <2>6
  <2>8. /\ call.body.agent = call.agent /\ call.body.publicKey = call.key
        /\ call.body.attester \in AllowedAttesters
        /\ call.t < call.body.expiresAt /\ call.t - call.body.issuedAt <= MaxStatementAge
    BY <2>6 DEF StatementFits
  <2>9. /\ call.body.expiresAt \in Nat /\ call.body.issuedAt \in Nat
        /\ call.body.id \in withdrawn => withdrawnAt[call.body.id] \in Nat
        /\ droppedAt[<<call.agent, call.key>>] \in Nat
    BY <2>2, <1>t DEF Bodies
  <2>n. attestTime \in Nat
    BY <1>t
  <2> HIDE DEF call, e, h
  <2>10. EntrySound(call.agent, e)
    <3>1. /\ e.until <= attestTime + CacheMs
          /\ e.until <= call.body.issuedAt + MaxStatementAge + CacheMs
          /\ call.body.id \in withdrawn => e.until <= withdrawnAt[call.body.id] + CacheMs
      BY <2>2, <2>4, <2>6, <2>8, <2>9, <2>n, AttestNumbers
    <3> QED BY <3>1, <2>1, <2>4, <2>7, <2>8 DEF EntrySound
  <2>11. attested' \in [Workloads -> Cached]
    BY <2>1, <2>4, <2>5, <1>t
  <2>12. \A a \in Workloads : attested'[a] = attested[a] \/ EntrySound(a, attested'[a])
    BY <2>1, <2>5, <2>10
  <2>13. AnswerSound(h)
    <3>1. /\ h.at < call.body.expiresAt + LookupDelay
          /\ h.at <= call.body.issuedAt + MaxStatementAge + Lag
          /\ call.body.id \in withdrawn => h.at <= withdrawnAt[call.body.id] + Lag
          /\ baseKeys[h.agent] # h.key => h.at <= droppedAt[<<h.agent, h.key>>] + LookupDelay
      BY <2>2, <2>3, <2>6, <2>8, <2>9, <2>n, AttestNumbers
    <3> QED BY <3>1, <2>1, <2>2, <2>3, <2>7, <2>8, <2>n DEF AnswerSound
  <2> QED BY <2>1, <2>3, <2>11, <2>12, <2>13, <1>6, <1>i, <1>t
<1>13. ASSUME NEW l \in Lookups, AnswerNone(l) PROVE AttestIInv'
  <2> DEFINE call == lookup[l]
  <2>1. /\ call.at \in {"asked", "signed", "live"}
        /\ attested' = [attested EXCEPT ![call.agent] = Uncached]
        /\ lookup' = [lookup EXCEPT ![l] = LookupIdle]
        /\ UNCHANGED <<attestTime, baseKeys, statements, withdrawn, withdrawnAt, droppedAt, handed>>
    BY <1>13 DEF AnswerNone
  <2>2. Uncached \in Cached /\ \A a \in Workloads : EntrySound(a, Uncached)
    BY DEF Uncached, Cached, EntrySound
  <2>3. call.agent \in Workloads
    BY <2>1, <1>t, LookupFields
  <2>4. /\ attested' \in [Workloads -> Cached]
        /\ \A a \in Workloads : attested'[a] = attested[a] \/ EntrySound(a, attested'[a])
    BY <2>1, <2>2, <2>3, <1>t
  <2>5. handed' \subseteq
          [agent : Workloads, key : AgentKeys, at : Nat, why : {"cached", "verified"}]
    BY <2>1, <1>t DEF AttestTypes
  <2> QED BY <2>1, <2>4, <2>5, <1>6, <1>i, <1>t
<1>14. CASE UNCHANGED attestVars
  <2>1. UNCHANGED <<attestTime, baseKeys, statements, withdrawn, attested, lookup, withdrawnAt,
                    droppedAt, handed>>
    BY <1>14 DEF attestVars
  <2>2. AttestTypes' /\ StatementsGenuine'
    BY <2>1, <1>t DEF AttestTypes, StatementsGenuine
  <2> QED BY <2>1, <2>2, <1>1
<1> QED BY <1>2, <1>3, <1>4, <1>5, <1>7, <1>8, <1>9, <1>10, <1>11, <1>12, <1>13, <1>14
        DEF AttestNext

(* A key that is handed out belongs to an attested agent, for as long as   *)
(* the statement, the cache and one slow call allow and no longer.         *)
THEOREM AttestedKeys == AttestSpec => []AttestedKeysHold
<1>1. AttestInit => AttestIInv
  BY AttestInitInv
<1>2. AttestIInv /\ [AttestNext]_attestVars => AttestIInv'
  BY AttestNextInv
<1>3. AttestIInv => AttestedKeysHold
  BY DEF AttestIInv, AnswerSound, AttestedKeysHold
<1> QED BY <1>1, <1>2, <1>3, PTL DEF AttestSpec

-----------------------------------------------------------------------------
(* Agent cards                                                             *)

(* The i-th signature is by the key it names, over this card, and that key *)
(* was not revoked when the verification began.                            *)
SignedWell(card, gone, i) ==
  LET sig == card.signatures[i] IN
  sig.by = sig.kid /\ sig.over = card.content /\ sig.kid \notin gone

CardPlaces ==
  {CardIdle} \cup
  [at : {"loop"}, card : Cards, next : Nat \ {0}, verified : SUBSET KeyIds,
   failures : Nat, gone : SUBSET KeyIds]

(* The loop so far: the keys it verified have a good signature each, and   *)
(* without a failure every signature behind it is good.                    *)
LoopSound(call) ==
  call.at = "loop" =>
    /\ DeclaresOrigin(call.card.content)
    /\ call.gone \subseteq revokedKids
    /\ \A k \in call.verified :
         \E i \in DOMAIN call.card.signatures :
           call.card.signatures[i].kid = k /\ SignedWell(call.card, call.gone, i)
    /\ call.failures = 0 =>
         \A i \in DOMAIN call.card.signatures :
           i < call.next => SignedWell(call.card, call.gone, i)

CardIInv ==
  /\ cards \subseteq Cards
  /\ trustedKids \subseteq KeyIds /\ revokedKids \subseteq KeyIds
  /\ trustedKids \cap revokedKids = {}
  /\ cardAt \in [CardCalls -> CardPlaces]
  /\ \A c \in CardCalls : LoopSound(cardAt[c])
  /\ CardsHold

(* The invariant holds before the first card is read. *)
LEMMA CardInitInv == CardInit => CardIInv
<1> SUFFICES ASSUME CardInit PROVE CardIInv
  OBVIOUS
<1>1. cards \subseteq Cards
  <2>1. \A c \in Contents : [content |-> c, signatures |-> <<>>] \in Cards
    BY DEF Cards
  <2> QED BY <2>1 DEF CardInit
<1>2. cardAt \in [CardCalls -> CardPlaces] /\ \A c \in CardCalls : LoopSound(cardAt[c])
  BY DEF CardInit, CardPlaces, CardIdle, LoopSound
<1>3. CardsHold
  BY DEF CardInit, CardsHold
<1> QED BY <1>1, <1>2, <1>3 DEF CardInit, CardIInv

(* Every step of a signer, of the keys and of a verification preserves it. *)
LEMMA CardNextInv == CardIInv /\ [CardNext]_cardVars => CardIInv'
<1> SUFFICES ASSUME CardIInv, [CardNext]_cardVars PROVE CardIInv'
  OBVIOUS
<1>t. /\ cards \subseteq Cards
      /\ trustedKids \subseteq KeyIds /\ revokedKids \subseteq KeyIds
      /\ trustedKids \cap revokedKids = {}
      /\ cardAt \in [CardCalls -> CardPlaces]
      /\ \A c \in CardCalls : LoopSound(cardAt[c])
      /\ CardsHold
  BY DEF CardIInv
(* Only the keys or the cards change: revoked ones stay revoked. *)
<1>1. ASSUME UNCHANGED <<cardAt, acceptedCard>>, cards' \subseteq Cards,
             trustedKids' \subseteq KeyIds, revokedKids' \subseteq KeyIds,
             trustedKids' \cap revokedKids' = {}, revokedKids \subseteq revokedKids'
      PROVE  CardIInv'
  <2>1. \A c \in CardCalls : LoopSound(cardAt[c])'
    BY <1>1, <1>t DEF LoopSound
  <2>2. CardsHold'
    BY <1>1, <1>t DEF CardsHold
  <2> QED BY <1>1, <1>t, <2>1, <2>2 DEF CardIInv
<1>2. ASSUME NEW card \in cards, NEW kid \in KeyIds, NEW by \in KeyIds,
             SignAgentCard(card, kid, by)
      PROVE  CardIInv'
  <2> DEFINE sig == [kid |-> kid, by |-> by, over |-> card.content]
             new == [card EXCEPT !.signatures = Append(@, sig)]
  <2>1. cards' = cards \cup {new} /\ UNCHANGED <<trustedKids, revokedKids, cardAt, acceptedCard>>
    BY <1>2 DEF SignAgentCard
  <2>2. card \in [content : Contents, signatures : Seq(Signatures)]
    BY <1>t DEF Cards
  <2>3. sig \in Signatures
    BY <2>2 DEF Signatures
  <2> HIDE DEF sig
  <2>4. new \in Cards
    BY <2>2, <2>3 DEF Cards
  <2> QED BY <2>1, <2>4, <1>1, <1>t
<1>3. ASSUME NEW k \in KeyIds, TrustKey(k) \/ RevokeKey(k) PROVE CardIInv'
  BY <1>1, <1>3, <1>t DEF TrustKey, RevokeKey
(* A verification moves: its new place and what is accepted hold. *)
<1>4. ASSUME NEW c \in CardCalls, NEW call \in CardPlaces, LoopSound(call),
             cardAt' = [cardAt EXCEPT ![c] = call], CardsHold',
             UNCHANGED <<cards, trustedKids, revokedKids>>
      PROVE  CardIInv'
  <2>1. \A d \in CardCalls : LoopSound(cardAt'[d])
    BY <1>4, <1>t
  <2>2. \A d \in CardCalls : LoopSound(cardAt[d])'
    BY <2>1, <1>4 DEF LoopSound
  <2> QED BY <1>4, <1>t, <2>2 DEF CardIInv
<1>5. ASSUME UNCHANGED acceptedCard PROVE CardsHold'
  BY <1>5, <1>t DEF CardsHold
<1>6. ASSUME NEW c \in CardCalls, NEW card \in cards, NEW content \in Contents,
             ReadCard(c, card, content)
      PROVE  CardIInv'
  <2> DEFINE new == [card EXCEPT !.content = content]
             call == [at |-> "loop", card |-> new, next |-> 1, verified |-> {},
                      failures |-> 0, gone |-> revokedKids]
  <2>1. /\ DeclaresOrigin(content) /\ cardAt' = [cardAt EXCEPT ![c] = call]
        /\ UNCHANGED <<cards, trustedKids, revokedKids, acceptedCard>>
    BY <1>6 DEF ReadCard
  <2>2. new \in Cards /\ new.content = content /\ new.signatures \in Seq(Signatures)
    BY <1>t DEF Cards
  <2> HIDE DEF new
  <2>3. call \in CardPlaces
    BY <2>2, <1>t DEF CardPlaces
  <2>4. /\ call.card = new /\ call.next = 1 /\ call.verified = {}
        /\ call.gone = revokedKids
    OBVIOUS
  <2> HIDE DEF call
  <2>5. LoopSound(call)
    BY <2>1, <2>2, <2>4 DEF LoopSound
  <2> QED BY <2>1, <2>3, <2>5, <1>4, <1>5
<1>7. ASSUME NEW c \in CardCalls, cardAt[c].at = "loop"
      PROVE  /\ cardAt[c] \in [at : {"loop"}, card : Cards, next : Nat \ {0},
                               verified : SUBSET KeyIds, failures : Nat, gone : SUBSET KeyIds]
             /\ LoopSound(cardAt[c])
  BY <1>7, <1>t DEF CardPlaces, CardIdle
<1>8. ASSUME NEW c \in CardCalls, VerifyOne(c) PROVE CardIInv'
  <2> DEFINE was == cardAt[c]
             sig == was.card.signatures[was.next]
             good == [was EXCEPT !.next = @ + 1, !.verified = @ \cup {sig.kid}]
             bad == [was EXCEPT !.next = @ + 1, !.failures = @ + 1]
  <2>1. /\ was.at = "loop" /\ was.next <= Len(was.card.signatures)
        /\ cardAt' = [cardAt EXCEPT ![c] = IF Verifies(was.card, was.next) THEN good ELSE bad]
        /\ UNCHANGED <<cards, trustedKids, revokedKids, acceptedCard>>
    BY <1>8 DEF VerifyOne
  <2>2. /\ was \in [at : {"loop"}, card : Cards, next : Nat \ {0}, verified : SUBSET KeyIds,
                    failures : Nat, gone : SUBSET KeyIds]
        /\ LoopSound(was)
    BY <2>1, <1>7
  <2>3. was.card.signatures \in Seq(Signatures) /\ was.next \in DOMAIN was.card.signatures
    BY <2>1, <2>2 DEF Cards
  <2>4. sig \in Signatures /\ sig.kid \in KeyIds
    <3>1. \A q \in Seq(Signatures) : \A i \in DOMAIN q : q[i] \in Signatures
      OBVIOUS
    <3>2. sig \in Signatures
      BY <3>1, <2>3
    <3> HIDE DEF sig
    <3> QED BY <3>2 DEF Signatures
  <2>5. CASE Verifies(was.card, was.next)
    <3>1. SignedWell(was.card, was.gone, was.next)
      BY <2>5, <2>2, <2>1, <1>t DEF Verifies, SignedWell, LoopSound
    <3> DEFINE kid == sig.kid
    <3>0. kid \in KeyIds /\ was.card.signatures[was.next].kid = kid
      BY <2>4
    <3> DEFINE n == was.next + 1
               v == was.verified \cup {kid}
    <3>v. /\ n \in Nat \ {0} /\ v \in SUBSET KeyIds
          /\ good = [was EXCEPT !.next = n, !.verified = v]
      BY <3>0, <2>2
    <3> HIDE DEF kid, was, n, v
    <3>u. /\ [was EXCEPT !.next = n, !.verified = v] \in CardPlaces
          /\ LET m == [was EXCEPT !.next = n, !.verified = v] IN
             /\ m.at = "loop" /\ m.card = was.card /\ m.gone = was.gone
             /\ m.next = n /\ m.verified = v /\ m.failures = was.failures
      BY <3>v, <2>2 DEF CardPlaces
    <3>2. /\ good \in CardPlaces /\ good.at = "loop" /\ good.card = was.card
          /\ good.gone = was.gone
          /\ good.next = was.next + 1 /\ good.verified = was.verified \cup {kid}
          /\ good.failures = was.failures
      BY <3>u, <3>v DEF n, v
    <3> HIDE DEF good
    <3>n. was.next \in Nat /\ DOMAIN was.card.signatures \subseteq Nat
      BY <2>2, <2>3
    <3>3. LoopSound(good)
      <4>1. \A k \in good.verified :
              \E i \in DOMAIN good.card.signatures :
                good.card.signatures[i].kid = k /\ SignedWell(good.card, good.gone, i)
        BY <3>0, <3>1, <3>2, <2>1, <2>2, <2>3 DEF LoopSound
      <4>2. \A i \in Nat : i < was.next + 1 => i < was.next \/ i = was.next
        BY <3>n
      <4>3. good.failures = 0 =>
              \A i \in DOMAIN good.card.signatures :
                i < good.next => SignedWell(good.card, good.gone, i)
        BY <3>n, <4>2, <3>1, <3>2, <2>1, <2>2 DEF LoopSound
      <4> QED BY <4>1, <4>3, <3>2, <2>1, <2>2 DEF LoopSound
    <3> QED BY <3>2, <3>3, <2>1, <2>5, <1>4, <1>5 DEF was
  <2>6. CASE ~Verifies(was.card, was.next)
    <3> DEFINE n == was.next + 1
               f == was.failures + 1
    <3>v. /\ n \in Nat \ {0} /\ f \in Nat
          /\ bad = [was EXCEPT !.next = n, !.failures = f]
      BY <2>2
    <3> HIDE DEF was, n, f
    <3>u. /\ [was EXCEPT !.next = n, !.failures = f] \in CardPlaces
          /\ LET m == [was EXCEPT !.next = n, !.failures = f] IN
             /\ m.at = "loop" /\ m.card = was.card /\ m.gone = was.gone
             /\ m.verified = was.verified /\ m.failures = f
      BY <3>v, <2>2 DEF CardPlaces
    <3>1. /\ bad \in CardPlaces /\ bad.at = "loop" /\ bad.card = was.card
          /\ bad.gone = was.gone /\ bad.verified = was.verified
          /\ bad.failures = was.failures + 1 /\ was.failures \in Nat
      BY <3>u, <3>v, <2>2 DEF f
    <3> HIDE DEF bad
    <3>2. LoopSound(bad)
      BY <3>1, <2>1, <2>2 DEF LoopSound
    <3> QED BY <3>1, <3>2, <2>1, <2>6, <1>4, <1>5 DEF was
  <2> QED BY <2>5, <2>6
<1>9. ASSUME NEW c \in CardCalls, FinishCard(c) PROVE CardIInv'
  <2> DEFINE was == cardAt[c]
             new == [card |-> was.card, keyIds |-> was.verified, gone |-> was.gone]
  <2>1. /\ was.at = "loop" /\ was.next > Len(was.card.signatures)
        /\ acceptedCard' = IF CardPasses(was) THEN {new} ELSE acceptedCard
        /\ cardAt' = [cardAt EXCEPT ![c] = CardIdle]
        /\ UNCHANGED <<cards, trustedKids, revokedKids>>
    BY <1>9 DEF FinishCard
  <2>2. CardIdle \in CardPlaces /\ LoopSound(CardIdle)
    BY DEF CardPlaces, CardIdle, LoopSound
  <2>3. /\ was \in [at : {"loop"}, card : Cards, next : Nat \ {0}, verified : SUBSET KeyIds,
                    failures : Nat, gone : SUBSET KeyIds]
        /\ LoopSound(was)
    BY <2>1, <1>7
  <2>4. CASE CardPasses(was)
    <3>1. was.card.signatures \in Seq(Signatures) /\ was.next \in Nat
      BY <2>3 DEF Cards
    <3>2. \A i \in DOMAIN was.card.signatures : i < was.next
      BY <3>1, <2>1
    <3>3. new.card = was.card /\ new.keyIds = was.verified /\ new.gone = was.gone
      OBVIOUS
    <3> HIDE DEF was, new
    <3>4. CardsHold'
      BY <2>1, <2>3, <2>4, <3>2, <3>3
         DEF CardsHold, CardPasses, LoopSound, SignedWell, DeclaresOrigin
    <3> QED BY <2>1, <2>2, <3>4, <1>4
  <2>5. CASE ~CardPasses(was)
    BY <2>1, <2>2, <2>5, <1>4, <1>5
  <2> QED BY <2>4, <2>5
<1>10. CASE UNCHANGED cardVars
  BY <1>10, <1>1, <1>t DEF cardVars
<1> QED BY <1>2, <1>3, <1>6, <1>8, <1>9, <1>10 DEF CardNext

(* An accepted card is one that keys not revoked at the start of its       *)
(* verification signed as it stands, for the origin it came from.          *)
THEOREM CardsAccepted == CardSpec => []CardsHold
<1>1. CardInit => CardIInv
  BY CardInitInv
<1>2. CardIInv /\ [CardNext]_cardVars => CardIInv'
  BY CardNextInv
<1>3. CardIInv => CardsHold
  BY DEF CardIInv
<1> QED BY <1>1, <1>2, <1>3, PTL DEF CardSpec

(* Both halves of an agent's identity: the keys handed out for it and the  *)
(* cards accepted from it, whatever the registry, the cache, the attesters *)
(* and the signers do meanwhile.                                           *)
THEOREM AgentIdentities == AttestSpec /\ CardSpec => []IdentitiesHold
<1>1. AttestedKeysHold /\ CardsHold => IdentitiesHold
  BY DEF IdentitiesHold
<1> QED BY <1>1, AttestedKeys, CardsAccepted, PTL
=============================================================================
