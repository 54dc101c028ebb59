---------------------------- MODULE ThresholdSigning ----------------------------
(***************************************************************************)
(* m-of-n signing and key backup: participants sign an envelope, an        *)
(* aggregator that receives their partial signatures, perhaps more than    *)
(* once, combines the first m, and anyone verifies the result; a key is    *)
(* split into shares of which any m rebuild it.  A sum of BLS signatures   *)
(* is the bag of what was added; it verifies under a sum of public keys    *)
(* exactly when the two sums have the same summands, all over the message. *)
(***************************************************************************)
EXTENDS Integers, Sequences, FiniteSets, FiniteSetsExt, Functions

CONSTANTS Signers,       \* participants whose public key is known
          Messages,      \* versions of the envelope
          MinSigners,    \* m
          MaxDelivered,  \* bound on partial signatures received
          FieldOrder,    \* FIELD_ORDER: a small prime
          IndexRange,    \* values of the byte that holds a share's index
          MinShares,     \* values of m for splitPrivateKey()
          ShareCount     \* n

ASSUME ThresholdAssumption ==
  /\ MinSigners \in Nat /\ MaxDelivered \in Nat
  /\ FieldOrder \in Nat /\ ShareCount \in 1 .. FieldOrder - 1
  /\ ShareCount < IndexRange
  /\ MinShares \subseteq 2 .. ShareCount

VARIABLES partials,      \* partial signatures, as the aggregator received them
          combined,      \* {} or the threshold envelope
          accepted,      \* the envelope verified
          split,         \* {} or the key and its shares
          rebuilt        \* {} or the key rebuilt from m shares

thresholdVars == <<partials, combined, accepted, split, rebuilt>>

ThresholdInit ==
  /\ partials = <<>>
  /\ combined = {}
  /\ accepted = FALSE
  /\ split = {}
  /\ rebuilt = {}

-----------------------------------------------------------------------------
(* signEnvelopeBls(), and the partial signature reaches the aggregator: a  *)
(* participant that got no answer sends it again.                          *)
SignEnvelopeBls(signer, message) ==
  /\ Len(partials) < MaxDelivered /\ combined = {}
  /\ partials' = Append(partials, [signer |-> signer, over |-> message])
  /\ UNCHANGED <<combined, accepted, split, rebuilt>>

(* A sum: what was added, and how often. *)
SumOf(seq) == [x \in Range(seq) |-> Cardinality({i \in DOMAIN seq : seq[i] = x})]

(* aggregateSignatures(): the first m, whoever they are from. *)
AggregateSignatures(message) ==
  /\ Len(partials) >= MinSigners /\ combined = {}
  /\ LET selected == SubSeq(partials, 1, MinSigners) IN
     combined' = {[message |-> message,
                   signerIds |-> [i \in DOMAIN selected |-> selected[i].signer],
                   value |-> SumOf(selected)]}
  /\ UNCHANGED <<partials, accepted, split, rebuilt>>

(* An envelope changes on its way: its text, or one of its signer ids. *)
ChangeEnvelope ==
  /\ ~accepted /\ rebuilt = {}
  /\ \E e \in combined :
       \/ \E m \in Messages \ {e.message} : combined' = {[e EXCEPT !.message = m]}
       \/ \E i \in DOMAIN e.signerIds, s \in Signers :
            s # e.signerIds[i] /\ combined' = {[e EXCEPT !.signerIds[i] = s]}
  /\ UNCHANGED <<partials, accepted, split, rebuilt>>

(* Fault: the sum of the public keys is not compared with the signers'. *)
VerifiesAnySigner(e) ==
  /\ Len(e.signerIds) >= MinSigners
  /\ \A p \in DOMAIN e.value : p.over = e.message

Verifies(e) ==
  /\ Len(e.signerIds) >= MinSigners
  /\ e.value = SumOf([i \in DOMAIN e.signerIds |-> [signer |-> e.signerIds[i],
                                                    over |-> e.message]])

(* verifyThresholdEnvelope() *)
VerifyThresholdEnvelope ==
  /\ ~accepted
  /\ \E e \in combined : Verifies(e)
  /\ accepted' = TRUE
  /\ UNCHANGED <<partials, combined, split, rebuilt>>

-----------------------------------------------------------------------------
(* Arithmetic modulo FIELD_ORDER. *)
FieldMod(n) == n % FieldOrder

(* fieldPow(): squares and multiplies. *)
FieldPow(base, exp) ==
  LET pow[e \in 0 .. exp] ==
        IF e = 0 THEN 1
        ELSE LET half == pow[e \div 2] IN
             FieldMod(half * half * IF e % 2 = 1 THEN FieldMod(base) ELSE 1)
  IN pow[exp]

FieldInv(a) == FieldPow(a, FieldOrder - 2)

SumOver(S, f(_)) == FoldSet(LAMBDA i, acc : FieldMod(acc + f(i)), 0, S)
ProductOver(S, f(_)) == FoldSet(LAMBDA i, acc : FieldMod(acc * f(i)), 1, S)

(* The polynomial whose value at 0 is the key. *)
Share(secret, coefficients, x) ==
  [x |-> x % IndexRange,
   y |-> FieldMod(secret + SumOver(DOMAIN coefficients,
                                   LAMBDA i : coefficients[i] * FieldPow(x, i)))]

(* splitPrivateKey(): the coefficients are random. *)
SplitPrivateKey(secret, m) ==
  /\ split = {} /\ partials = <<>>
  /\ \E coefficients \in [1 .. m - 1 -> 0 .. FieldOrder - 1] :
       split' = {[secret |-> secret, m |-> m,
                  shares |-> [x \in 1 .. ShareCount |-> Share(secret, coefficients, x)]]}
  /\ UNCHANGED <<partials, combined, accepted, rebuilt>>

(* reconstructPrivateKey(): Lagrange's formula at 0. *)
Reconstruct(shares) ==
  SumOver(DOMAIN shares, LAMBDA i :
    shares[i].y * ProductOver(DOMAIN shares \ {i}, LAMBDA j :
                    FieldMod(-shares[j].x) * FieldInv(FieldMod(shares[i].x - shares[j].x))))

ReconstructPrivateKey ==
  /\ rebuilt = {}
  /\ \E s \in split : \E used \in [1 .. s.m -> 1 .. ShareCount] :
       /\ \A i, j \in DOMAIN used : used[i] = used[j] => i = j
       /\ rebuilt' = {Reconstruct([i \in DOMAIN used |-> s.shares[used[i]]])}
  /\ UNCHANGED <<partials, combined, accepted, split>>

ThresholdNext ==
  \/ \E signer \in Signers, message \in Messages :
       split = {} /\ SignEnvelopeBls(signer, message)
  \/ \E message \in Messages : AggregateSignatures(message)
  \/ ChangeEnvelope
  \/ VerifyThresholdEnvelope
  \/ \E secret \in 0 .. FieldOrder - 1, m \in MinShares : SplitPrivateKey(secret, m)
  \/ ReconstructPrivateKey

ThresholdSpec == ThresholdInit /\ [][ThresholdNext]_thresholdVars

-----------------------------------------------------------------------------
ThresholdTypeOK ==
  /\ \A i \in DOMAIN partials : partials[i].signer \in Signers /\ partials[i].over \in Messages
  /\ \A e \in combined : e.message \in Messages /\ e.signerIds \in Seq(Signers)
  /\ accepted \in BOOLEAN
  /\ \A s \in split : s.secret \in 0 .. FieldOrder - 1 /\ s.m \in MinShares
  /\ rebuilt \subseteq 0 .. FieldOrder - 1

(* sdk/threshold/src/index.ts:211: each participant an accepted envelope   *)
(* names signed this very envelope, whatever was sent twice or changed.    *)
NamedSignersSigned ==
  accepted => \A e \in combined : \A i \in DOMAIN e.signerIds :
    \E j \in DOMAIN partials :
      partials[j].signer = e.signerIds[i] /\ partials[j].over = e.message

(* sdk/threshold/src/index.ts:281: any m shares, taken in any order,       *)
(* rebuild the key.                                                        *)
AnySharesRebuild == \A s \in split : rebuilt \subseteq {s.secret}

(* sdk/threshold/src/index.ts:41: m is the minimum number of signers.      *)
MinimumSigners ==
  accepted => \A e \in combined :
    Cardinality({e.signerIds[i] : i \in DOMAIN e.signerIds}) >= MinSigners

(* sdk/threshold/src/index.ts:211,281: an accepted envelope was signed by  *)
(* whom it names, and m shares of a key are enough to have it back.        *)
ThresholdSound == NamedSignersSigned /\ AnySharesRebuild
=============================================================================
