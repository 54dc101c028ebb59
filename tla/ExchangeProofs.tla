--------------------------- MODULE ExchangeProofs ---------------------------
(***************************************************************************)
(* A payment is charged once, a large one on its own approval, and all of  *)
(* them together within the ceiling, for every set of payments, grants and *)
(* concurrent presentations; and what is paid is what payer, merchant and  *)
(* agent signed.  Then the two ends of an MCP connection: the gateway's    *)
(* audit trail says what happened to each line, and the server's handler   *)
(* runs once for the call it is told of, which the client is told in turn. *)
(***************************************************************************)
EXTENDS Mandate, MandateChain, McpGateway, McpChannel, FiniteSetTheorems,
        WellFoundedInduction, TLAPS

LEMMA InitInv == Init => IInv
BY MandateAssumption DEF Init, IInv, TypeOK, Ownership, ChargedStays, ChargedOnce,
   OwnApproval, Owns, PCs, None

(* A step of c that only moves its pc, and takes on no new claim. *)
LEMMA MoveOnly ==
  ASSUME IInv, NEW c \in Presentations, NEW to \in PCs \ {"idle", "charged"},
         pc[c] # "idle", pc' = [pc EXCEPT ![c] = to],
         UNCHANGED <<ledger, used, pay, grant, charges>>, stranded' \subseteq Ids,
         to \in {"reserved", "releasing", "authorised"} => Owns(c),
         to = "authorised" => ~NeedsApproval(pay[c])
  PROVE  IInv'
<1>1. \A d \in Presentations : Owns(d)' => Owns(d)
  BY DEF Owns, IInv, TypeOK
<1>2. TypeOK' /\ ChargedStays' /\ ChargedOnce'
  BY DEF IInv, TypeOK, ChargedStays, ChargedOnce
<1>3. Ownership'
  BY <1>1 DEF IInv, Ownership
<1>4. OwnApproval'
  BY DEF IInv, TypeOK, OwnApproval, NeedsApproval
<1> QED BY <1>2, <1>3, <1>4 DEF IInv

(* Giving back the reservation c owns, on the way out. *)
LEMMA GiveBackOwned ==
  ASSUME IInv, NEW c \in Presentations, Owns(c), GiveBack(c),
         pc' = [pc EXCEPT ![c] = "failed"],
         UNCHANGED <<used, pay, grant, charges, stranded>>
  PROVE  IInv'
<1> USE MandateAssumption
<1>1. /\ pay[c] \in Payments /\ pay[c].id \in Ids /\ charges[pay[c].id] = 0
      /\ ledger' = [ledger EXCEPT ![pay[c].id] = None]
      /\ \A d \in Presentations \ {c} : Owns(d) => pay[d].id # pay[c].id
  BY DEF IInv, TypeOK, Ownership, Owns, GiveBack
<1>2. /\ \A d \in Presentations : Owns(d)' => Owns(d) /\ d # c
      /\ \A d \in Presentations : Owns(d) => pay[d].id \in Ids
  BY DEF Owns, IInv, TypeOK
<1>3. TypeOK'
  BY <1>1 DEF IInv, TypeOK, PCs, None
<1>4. Ownership'
  <2>1. \A d \in Presentations : Owns(d)' => ledger'[pay[d].id] = ledger[pay[d].id]
    BY <1>1, <1>2 DEF IInv, TypeOK
  <2> QED BY <1>2, <2>1 DEF IInv, Ownership
<1>5. ChargedStays' /\ ChargedOnce'
  BY <1>1 DEF IInv, TypeOK, ChargedStays, ChargedOnce
<1>6. OwnApproval'
  BY DEF IInv, TypeOK, OwnApproval, NeedsApproval
<1> QED BY <1>3, <1>4, <1>5, <1>6 DEF IInv

LEMMA NextInv == IInv /\ [Next]_vars => IInv'
<1> SUFFICES ASSUME IInv, [Next]_vars PROVE IInv'
  OBVIOUS
<1> USE MandateAssumption
<1>t. TypeOK /\ Ownership /\ ChargedStays /\ ChargedOnce /\ OwnApproval
  BY DEF IInv
<1>1. ASSUME NEW c \in Presentations, NEW p \in Payments, NEW g \in Grants \cup {NoGrant},
             Present(c, p, g)
      PROVE  IInv'
  <2>1. /\ pc' = [pc EXCEPT ![c] = "checking"] /\ pay' = [pay EXCEPT ![c] = p]
        /\ grant' = [grant EXCEPT ![c] = g] /\ UNCHANGED <<ledger, used, charges, stranded>>
    BY <1>1 DEF Present, Goto
  <2>2. \A d \in Presentations : /\ Owns(d)' => Owns(d) /\ d # c
                                 /\ d # c => pay'[d] = pay[d] /\ grant'[d] = grant[d]
    BY <2>1, <1>t DEF Owns, TypeOK
  <2>3. TypeOK' /\ ChargedStays' /\ ChargedOnce'
    BY <2>1, <1>t DEF TypeOK, PCs, ChargedStays, ChargedOnce
  <2>4. Ownership'
    BY <2>1, <2>2, <1>t DEF Ownership
  <2>5. OwnApproval'
    BY <2>1, <2>2, <1>t DEF OwnApproval, TypeOK, NeedsApproval
  <2> QED BY <2>3, <2>4, <2>5 DEF IInv
<1>2. ASSUME NEW c \in Presentations,
             Refuse(c) \/ ReserveRefused(c) \/ AuthoriseSmall(c) \/ ApprovalFails(c)
               \/ ApprovalThrows(c)
      PROVE  IInv'
  <2>1. PICK to \in {"failed", "authorised", "releasing"} :
          /\ pc[c] \in {"checking", "reserved"} /\ pc' = [pc EXCEPT ![c] = to]
          /\ UNCHANGED <<ledger, used, pay, grant, charges>> /\ stranded' \subseteq Ids
          /\ to # "failed" => pc[c] = "reserved"
          /\ to = "authorised" => ~NeedsApproval(pay[c])
    BY <1>2, <1>t DEF Refuse, ReserveRefused, AuthoriseSmall, ApprovalFails, ApprovalThrows,
       Goto, TypeOK
  <2> QED BY <2>1, MoveOnly DEF PCs, Owns
<1>3. ASSUME NEW c \in Presentations, Reserve(c) PROVE IInv'
  <2>1. /\ pc[c] = "checking" /\ pc' = [pc EXCEPT ![c] = "reserved"]
        /\ ledger[pay[c].id] = None
        /\ ledger' = [ledger EXCEPT ![pay[c].id] = pay[c].amount]
        /\ UNCHANGED <<used, pay, grant, charges, stranded>>
    BY <1>3 DEF Reserve, Goto
  <2>2. pay[c] \in Payments /\ pay[c].id \in Ids /\ pay[c].amount \in Nat
    BY <2>1, <1>t DEF TypeOK
  <2>3. charges[pay[c].id] = 0
    BY <2>1, <2>2, <1>t DEF ChargedStays, TypeOK
  <2>4. TypeOK' /\ ChargedOnce' /\ ChargedStays'
    BY <2>1, <2>2, <1>t DEF TypeOK, PCs, ChargedOnce, ChargedStays, None
  <2>5. \A d \in Presentations : Owns(d)' => d = c \/ Owns(d)
    BY <2>1, <1>t DEF Owns, TypeOK
  <2>6. \A d \in Presentations : Owns(d) => pay[d].id # pay[c].id
    BY <2>1, <1>t DEF Ownership
  <2>7. \A i \in Ids : ledger[i] # None => ledger'[i] # None
    BY <2>1, <2>2, <1>t DEF TypeOK, None
  <2>8. ledger'[pay[c].id] # None
    BY <2>1, <2>2, <1>t DEF TypeOK, None
  <2>9. \A d \in Presentations : Owns(d) => pay[d].id \in Ids
    BY <1>t DEF TypeOK, Owns
  <2>10. Ownership'
    BY <2>1, <2>3, <2>5, <2>6, <2>7, <2>8, <2>9, <1>t DEF Ownership
  <2>11. OwnApproval'
    BY <2>1, <1>t DEF OwnApproval, TypeOK, NeedsApproval
  <2> QED BY <2>4, <2>10, <2>11 DEF IInv
<1>4. ASSUME NEW c \in Presentations, NoApproval(c) \/ Release(c) \/ ChargeFails(c)
      PROVE  IInv'
  <2>1. /\ Owns(c) /\ GiveBack(c) /\ pc' = [pc EXCEPT ![c] = "failed"]
        /\ UNCHANGED <<used, pay, grant, charges, stranded>>
    BY <1>4 DEF NoApproval, Release, ChargeFails, Goto, Owns
  <2> QED BY <2>1, GiveBackOwned
<1>5. ASSUME NEW c \in Presentations, AuthoriseLarge(c) PROVE IInv'
  <2>1. /\ pc[c] = "reserved" /\ pc' = [pc EXCEPT ![c] = "authorised"]
        /\ grant[c] # NoGrant /\ grant[c].for = pay[c] /\ grant[c] \notin used
        /\ used' = used \cup {grant[c]}
        /\ UNCHANGED <<ledger, pay, grant, charges, stranded>>
    BY <1>5 DEF AuthoriseLarge, Goto
  <2>2. TypeOK' /\ ChargedStays' /\ ChargedOnce'
    BY <2>1, <1>t DEF TypeOK, PCs, ChargedStays, ChargedOnce
  <2>3. \A d \in Presentations : Owns(d)' => Owns(d)
    BY <2>1, <1>t DEF Owns, TypeOK
  <2>4. Ownership'
    BY <2>1, <2>3, <1>t DEF Ownership
  <2>5. OwnApproval'
    BY <2>1, <1>t DEF OwnApproval, TypeOK, NeedsApproval
  <2> QED BY <2>2, <2>4, <2>5 DEF IInv
<1>6. ASSUME NEW c \in Presentations, Charge(c) PROVE IInv'
  <2>1. /\ pc[c] = "authorised" /\ pc' = [pc EXCEPT ![c] = "charged"]
        /\ charges' = [charges EXCEPT ![pay[c].id] = @ + 1]
        /\ UNCHANGED <<ledger, used, pay, grant, stranded>>
    BY <1>6 DEF Charge, Goto
  <2>2. /\ pay[c].id \in Ids /\ charges[pay[c].id] = 0 /\ ledger[pay[c].id] # None
        /\ \A d \in Presentations \ {c} : Owns(d) => pay[d].id # pay[c].id
    BY <2>1, <1>t DEF TypeOK, Ownership, Owns
  <2>3. TypeOK' /\ ChargedStays' /\ ChargedOnce'
    BY <2>1, <2>2, <1>t DEF TypeOK, PCs, ChargedStays, ChargedOnce
  <2>4. \A d \in Presentations : Owns(d)' => Owns(d) /\ d # c /\ pay[d].id \in Ids
    BY <2>1, <1>t DEF Owns, TypeOK
  <2>5. \A d \in Presentations : Owns(d)' => charges'[pay[d].id] = charges[pay[d].id]
    BY <2>1, <2>2, <2>4, <1>t DEF TypeOK
  <2>6. Ownership'
    BY <2>1, <2>4, <2>5, <1>t DEF Ownership
  <2>7. OwnApproval'
    BY <2>1, <1>t DEF OwnApproval, TypeOK, NeedsApproval
  <2> QED BY <2>3, <2>6, <2>7 DEF IInv
<1>7. ASSUME NEW c \in Presentations, Done(c) PROVE IInv'
  <2>1. /\ pc' = [pc EXCEPT ![c] = "idle"] /\ pay' = [pay EXCEPT ![c] = NoPayment]
        /\ grant' = [grant EXCEPT ![c] = NoGrant] /\ UNCHANGED <<ledger, used, charges, stranded>>
    BY <1>7 DEF Done
  <2>2. \A d \in Presentations : /\ Owns(d)' => Owns(d) /\ d # c
                                 /\ d # c => pay'[d] = pay[d] /\ grant'[d] = grant[d]
    BY <2>1, <1>t DEF Owns, TypeOK
  <2>3. TypeOK' /\ ChargedStays' /\ ChargedOnce'
    BY <2>1, <1>t DEF TypeOK, PCs, ChargedStays, ChargedOnce
  <2>4. Ownership'
    BY <2>1, <2>2, <1>t DEF Ownership
  <2>5. OwnApproval'
    BY <2>1, <2>2, <1>t DEF OwnApproval, TypeOK, NeedsApproval
  <2> QED BY <2>3, <2>4, <2>5 DEF IInv
<1>8. CASE UNCHANGED vars
  BY <1>8, <1>t DEF IInv, TypeOK, Ownership, ChargedStays, ChargedOnce, OwnApproval, Owns,
     NeedsApproval, vars, callVars
<1> QED
  BY <1>1, <1>2, <1>3, <1>4, <1>5, <1>6, <1>7, <1>8 DEF Next, Progress

(* The inductive invariant holds of every reachable state. *)
THEOREM Invariance == Spec => []IInv
<1>1. Init => IInv
  BY InitInv
<1>2. IInv /\ [Next]_vars => IInv'
  BY NextInv
<1> QED BY <1>1, <1>2, PTL DEF Spec

(* The ledger, the grants and the presentations keep their types; a call   *)
(* that has begun holds a payment until it is done.                        *)
THEOREM TypeCorrect == Spec => []TypeOK
<1>1. IInv => TypeOK
  BY DEF IInv
<1> QED BY <1>1, Invariance, PTL

(* However many presentations of a payment run at once, and whichever of   *)
(* them fail and give back, its id is charged at most once.                *)
THEOREM PaymentChargedOnce == Spec => []ChargedOnce
<1>1. IInv => ChargedOnce
  BY DEF IInv
<1> QED BY <1>1, Invariance, PTL

(* A payment above the threshold goes ahead only on a consumed grant for   *)
(* exactly that payment, and no two go ahead on the same grant.            *)
THEOREM LargePaymentApproved == Spec => []OwnApproval
<1>1. IInv => OwnApproval
  BY DEF IInv
<1> QED BY <1>1, Invariance, PTL

(* A presentation stops owning its reservation only by giving it back, by  *)
(* charging it or by stranding it.                                         *)
LEMMA StrandStep == IInv /\ OnlyThrowsStrand /\ [Next]_vars => OnlyThrowsStrand'
<1> SUFFICES ASSUME IInv, OnlyThrowsStrand, [Next]_vars,
                    NEW i \in Ids, i \notin stranded', ledger'[i] # None
             PROVE  charges'[i] > 0 \/ Decided(i)'
  BY DEF OnlyThrowsStrand
<1> USE MandateAssumption
<1>t. TypeOK
  BY DEF IInv
<1>1. CASE UNCHANGED vars
  BY <1>1 DEF OnlyThrowsStrand, Decided, Owns, vars, callVars
<1>2. ASSUME NEW c \in Presentations, NEW p \in Payments, NEW g \in Grants \cup {NoGrant},
             Present(c, p, g)
      PROVE  charges'[i] > 0 \/ Decided(i)'
  BY <1>2, <1>t DEF Present, Goto, OnlyThrowsStrand, Decided, Owns, TypeOK
<1>3. ASSUME NEW c \in Presentations, Refuse(c) \/ ReserveRefused(c) \/ Done(c)
      PROVE  charges'[i] > 0 \/ Decided(i)'
  BY <1>3, <1>t DEF Refuse, ReserveRefused, Done, Goto, OnlyThrowsStrand, Decided, Owns, TypeOK
<1>4. ASSUME NEW c \in Presentations,
             AuthoriseSmall(c) \/ ApprovalFails(c) \/ AuthoriseLarge(c)
      PROVE  charges'[i] > 0 \/ Decided(i)'
  BY <1>4, <1>t DEF AuthoriseSmall, ApprovalFails, AuthoriseLarge, Goto,
     OnlyThrowsStrand, Decided, Owns, TypeOK
<1>5. ASSUME NEW c \in Presentations, Reserve(c) PROVE charges'[i] > 0 \/ Decided(i)'
  <2>1. CASE i = pay[c].id
    BY <1>5, <1>t, <2>1 DEF Reserve, Goto, Decided, Owns, TypeOK
  <2>2. CASE i # pay[c].id
    BY <1>5, <1>t, <2>2 DEF Reserve, Goto, OnlyThrowsStrand, Decided, Owns, TypeOK
  <2> QED BY <2>1, <2>2
<1>6. ASSUME NEW c \in Presentations, NoApproval(c) \/ Release(c) \/ ChargeFails(c)
      PROVE  charges'[i] > 0 \/ Decided(i)'
  <2>1. /\ pc' = [pc EXCEPT ![c] = "failed"]
        /\ ledger' = [ledger EXCEPT ![pay[c].id] = None]
        /\ UNCHANGED <<pay, charges, stranded>>
    BY <1>6 DEF NoApproval, Release, ChargeFails, GiveBack, Goto
  <2>2. i # pay[c].id /\ ledger[i] # None
    BY <2>1, <1>t DEF TypeOK
  <2> QED BY <2>1, <2>2, <1>t DEF OnlyThrowsStrand, Decided, Owns, TypeOK
<1>7. ASSUME NEW c \in Presentations, ApprovalThrows(c) PROVE charges'[i] > 0 \/ Decided(i)'
  BY <1>7, <1>t DEF ApprovalThrows, Goto, OnlyThrowsStrand, Decided, Owns, TypeOK
<1>8. ASSUME NEW c \in Presentations, Charge(c) PROVE charges'[i] > 0 \/ Decided(i)'
  BY <1>8, <1>t DEF Charge, Goto, OnlyThrowsStrand, Decided, Owns, TypeOK
<1> QED
  BY <1>1, <1>2, <1>3, <1>4, <1>5, <1>6, <1>7, <1>8 DEF Next, Progress

(* However presentations interleave and fail, a spend that is neither      *)
(* charged nor being decided was left behind by an exception.              *)
THEOREM SpendStrandedOnlyByThrow == Spec => []OnlyThrowsStrand
<1>1. Init => OnlyThrowsStrand
  BY DEF Init, OnlyThrowsStrand, None
<1>2. IInv /\ OnlyThrowsStrand /\ [Next]_vars => OnlyThrowsStrand'
  BY StrandStep
<1> QED BY <1>1, <1>2, Invariance, PTL DEF Spec

(* Under any number of concurrent presentations, failures and hand-backs a *)
(* payment is charged once, a large one on its own approval, and what is   *)
(* reserved is charged, being decided, or stranded by an exception.        *)
THEOREM PaymentsAccountedFor == Spec => []PaymentsAccounted
BY PaymentChargedOnce, LargePaymentApproved, SpendStrandedOnlyByThrow, PTL
   DEF PaymentsAccounted

-----------------------------------------------------------------------------
(* Sums over finite sets                                                   *)

(* A set of naturals has a least element. *)
LEMMA LeastNatural ==
  ASSUME NEW T, T \subseteq Nat, T # {}
  PROVE  \E x \in T : \A y \in T : x <= y
<1> DEFINE R == OpToRel(<, Nat)
<1>1. \A x, y \in Nat : <<y, x>> \in R <=> y < x
  BY DEF OpToRel
<1>2. IsWellFoundedOn(R, Nat)
  BY NatLessThanWellFounded
<1> HIDE DEF R
<1>3. PICK x \in T : \A y \in T : ~(<<y, x>> \in R)
  BY <1>2, WFMin
<1>4. ASSUME NEW y \in T PROVE x <= y
  <2>1. x \in Nat /\ y \in Nat
    OBVIOUS
  <2>2. ~(y < x)
    BY <2>1, <1>1, <1>3
  <2> QED BY <2>1, <2>2
<1> QED BY <1>3, <1>4

(* A set of naturals closed under successor is all of them. *)
LEMMA Induction ==
  ASSUME NEW P, P \subseteq Nat, 0 \in P, \A n \in P : n + 1 \in P
  PROVE  P = Nat
<1> SUFFICES ASSUME Nat \ P # {} PROVE FALSE
  OBVIOUS
<1>1. PICK x \in Nat \ P : \A y \in Nat \ P : x <= y
  BY LeastNatural
<1>2. x - 1 \in Nat /\ x - 1 \notin Nat \ P
  BY <1>1
<1> QED BY <1>2, <1>1

(* The empty set counts 0, and taking an element out takes one. *)
LEMMA Smaller ==
  ASSUME NEW S, IsFiniteSet(S), NEW s \in SUBSET S
  PROVE  /\ IsFiniteSet(s) /\ Cardinality(s) \in Nat
         /\ Cardinality(s) <= Cardinality(S)
         /\ Cardinality(s) = 0 <=> s = {}
         /\ \A x \in s : s \ {x} \in SUBSET S /\ Cardinality(s \ {x}) = Cardinality(s) - 1
<1>1. IsFiniteSet(s) /\ Cardinality(s) <= Cardinality(S)
  BY FS_Subset
<1>2. Cardinality(s) \in Nat /\ (Cardinality(s) = 0 <=> s = {})
  BY <1>1, FS_CardinalityType, FS_EmptySet
<1>3. \A x \in s : Cardinality(s \ {x}) = Cardinality(s) - 1
  BY <1>1, FS_RemoveElement
<1> QED BY <1>1, <1>2, <1>3

(* g folds step over the subsets of S, taking out first what ch picks. *)
IsFold(g, S, V, base, step, ch) ==
  /\ g \in [SUBSET S -> V]
  /\ \A s \in SUBSET S :
       g[s] = IF s = {} THEN base ELSE step[<<ch[s], g[s \ {ch[s]}]>>]

(* There is such a fold over a finite set, by induction on how much of it  *)
(* is folded.                                                              *)
LEMMA FoldExists ==
  ASSUME NEW S, IsFiniteSet(S), NEW V, NEW base \in V, NEW step \in [S \X V -> V],
         NEW ch, \A s \in SUBSET S : s # {} => ch[s] \in s
  PROVE  \E g : IsFold(g, S, V, base, step, ch)
<1> DEFINE Folds(g, s) == g[s] = IF s = {} THEN base ELSE step[<<ch[s], g[s \ {ch[s]}]>>]
           P == {n \in Nat : \E g \in [SUBSET S -> V] :
                   \A s \in SUBSET S : Cardinality(s) <= n => Folds(g, s)}
<1>1. 0 \in P
  <2> DEFINE g == [s \in SUBSET S |-> base]
  <2>1. g \in [SUBSET S -> V]
    OBVIOUS
  <2>2. \A s \in SUBSET S : Cardinality(s) <= 0 => s = {}
    BY Smaller
  <2>3. Folds(g, {})
    OBVIOUS
  <2> QED BY <2>1, <2>2, <2>3
<1>2. ASSUME NEW n \in P PROVE n + 1 \in P
  <2>1. PICK g \in [SUBSET S -> V] : \A s \in SUBSET S : Cardinality(s) <= n => Folds(g, s)
    OBVIOUS
  <2> DEFINE h == [s \in SUBSET S |->
                     IF Cardinality(s) <= n THEN g[s]
                     ELSE IF s = {} THEN base ELSE step[<<ch[s], g[s \ {ch[s]}]>>]]
  <2>2. \A s \in SUBSET S : s # {} => ch[s] \in S /\ s \ {ch[s]} \in SUBSET S
    OBVIOUS
  <2>3. h \in [SUBSET S -> V]
    BY <2>2
  <2>4. ASSUME NEW s \in SUBSET S, Cardinality(s) <= n + 1 PROVE Folds(h, s)
    <3>1. CASE s = {}
      <4>1. Folds(g, s)
        <5>1. Cardinality(s) = 0 /\ n \in Nat
          BY <3>1, Smaller
        <5>2. Cardinality(s) <= n
          BY <5>1
        <5> QED BY <5>2, <2>1
      <4> QED BY <4>1, <3>1
    <3>2. CASE s # {}
      <4>1. ch[s] \in s /\ s \ {ch[s]} \in SUBSET S
        BY <3>2
      <4>2. Cardinality(s \ {ch[s]}) = Cardinality(s) - 1 /\ Cardinality(s) \in Nat
        BY <4>1, Smaller
      <4>n. n \in Nat
        OBVIOUS
      <4>3. Cardinality(s \ {ch[s]}) <= n
        BY <4>2, <4>n, <2>4
      <4>4. h[s \ {ch[s]}] = g[s \ {ch[s]}]
        BY <4>1, <4>3
      <4>5. h[s] = step[<<ch[s], g[s \ {ch[s]}]>>]
        <5>1. CASE Cardinality(s) <= n
          BY <5>1, <2>1, <3>2
        <5>2. CASE ~(Cardinality(s) <= n)
          BY <5>2, <3>2
        <5> QED BY <5>1, <5>2
      <4> QED BY <4>4, <4>5, <3>2
    <3> QED BY <3>1, <3>2
  <2> HIDE DEF h
  <2>5. n + 1 \in Nat
    OBVIOUS
  <2> QED BY <2>3, <2>4, <2>5
<1>3. Cardinality(S) \in P
  <2> HIDE DEF P
  <2>1. P \subseteq Nat
    BY DEF P
  <2>2. P = Nat
    BY <1>1, <1>2, <2>1, Induction
  <2> QED BY <2>2, FS_CardinalityType
<1>4. PICK g \in [SUBSET S -> V] :
        \A s \in SUBSET S : Cardinality(s) <= Cardinality(S) => Folds(g, s)
  BY <1>3
<1>5. \A s \in SUBSET S : Folds(g, s)
  BY <1>4, Smaller
<1> QED BY <1>5 DEF IsFold

(* The element the library's sums take out first. *)
Pick(s) == CHOOSE x \in s : TRUE

IsSum(g, f, S) ==
  g = [s \in SUBSET S |-> IF s = {} THEN 0 ELSE f[Pick(s)] + g[s \ {Pick(s)}]]

(* Numbers have a sum. *)
LEMMA SumExists ==
  ASSUME NEW S, IsFiniteSet(S), NEW f, \A x \in S : f[x] \in Nat
  PROVE  \E g : IsSum(g, f, S)
<1> DEFINE step == [p \in S \X Nat |-> f[p[1]] + p[2]]
           ch == [s \in SUBSET S |-> Pick(s)]
<1>1. step \in [S \X Nat -> Nat]
  OBVIOUS
<1>2. \A s \in SUBSET S : ch[s] = Pick(s) /\ (s # {} => Pick(s) \in s)
  BY DEF Pick
<1>3. \A x \in S, n \in Nat : step[<<x, n>>] = f[x] + n
  OBVIOUS
<1> HIDE DEF step, ch
<1>4. PICK g : IsFold(g, S, Nat, 0, step, ch)
  <2>1. 0 \in Nat /\ \A s \in SUBSET S : s # {} => ch[s] \in s
    BY <1>2
  <2> QED BY <1>1, <2>1, FoldExists
<1>5. ASSUME NEW s \in SUBSET S
      PROVE  g[s] = IF s = {} THEN 0 ELSE f[Pick(s)] + g[s \ {Pick(s)}]
  <2>1. CASE s # {}
    <3>1. Pick(s) \in s /\ ch[s] = Pick(s) /\ s \ {Pick(s)} \in SUBSET S
      BY <2>1, <1>2
    <3>2. g[s \ {Pick(s)}] \in Nat
      BY <3>1, <1>4 DEF IsFold
    <3> QED BY <2>1, <3>1, <3>2, <1>3, <1>4 DEF IsFold
  <2>2. CASE s = {}
    BY <2>2, <1>4 DEF IsFold
  <2> QED BY <2>1, <2>2
<1>6. g = [s \in SUBSET S |-> g[s]]
  BY <1>4 DEF IsFold
<1>7. IsSum(g, f, S)
  BY <1>5, <1>6 DEF IsSum
<1> QED BY <1>7

(* In whatever order: an element can be taken out first. *)
LEMMA SumTakesOut ==
  ASSUME NEW S, IsFiniteSet(S), NEW f, \A x \in S : f[x] \in Nat, NEW g, IsSum(g, f, S)
  PROVE  \A s \in SUBSET S : g[s] \in Nat /\ \A x \in s : g[s] = f[x] + g[s \ {x}]
<1> DEFINE Q(s) == g[s] \in Nat /\ \A x \in s : g[s] = f[x] + g[s \ {x}]
           P == {n \in Nat : \A s \in SUBSET S : Cardinality(s) <= n => Q(s)}
<1>0. \A s \in SUBSET S : g[s] = IF s = {} THEN 0 ELSE f[Pick(s)] + g[s \ {Pick(s)}]
  BY DEF IsSum
<1>e. Q({})
  BY <1>0
<1>1. 0 \in P
  <2>1. \A s \in SUBSET S : Cardinality(s) <= 0 => s = {}
    BY Smaller
  <2> HIDE DEF Q
  <2> QED BY <2>1, <1>e
<1>2. ASSUME NEW n \in P PROVE n + 1 \in P
  <2>n. n \in Nat /\ \A s \in SUBSET S : Cardinality(s) <= n => Q(s)
    OBVIOUS
  <2>1. ASSUME NEW s \in SUBSET S, Cardinality(s) <= n + 1 PROVE Q(s)
    <3>1. CASE s = {}
      <4> HIDE DEF Q
      <4> QED BY <3>1, <1>e
    <3>2. CASE s # {}
      <4> DEFINE c == Pick(s)
      <4>1. c \in s /\ g[s] = f[c] + g[s \ {c}]
        BY <3>2, <1>0 DEF Pick
      <4> HIDE DEF c
      <4>2. ASSUME NEW x \in s PROVE s \ {x} \in SUBSET S /\ Q(s \ {x})
        <5>1. Cardinality(s \ {x}) = Cardinality(s) - 1 /\ Cardinality(s) \in Nat
          BY Smaller
        <5>2. Cardinality(s \ {x}) <= n
          BY <5>1, <2>n, <2>1
        <5> QED BY <5>2, <2>n
      <4>3. g[s] \in Nat
        <5>1. g[s \ {c}] \in Nat /\ f[c] \in Nat
          BY <4>1, <4>2
        <5> QED BY <5>1, <4>1
      <4>4. ASSUME NEW x \in s, x # c PROVE g[s] = f[x] + g[s \ {x}]
        <5>1. x \in s \ {c} /\ c \in s \ {x}
          BY <4>1, <4>4
        <5>2. g[s \ {c}] = f[x] + g[(s \ {c}) \ {x}]
          BY <5>1, <4>1, <4>2
        <5>3. g[s \ {x}] = f[c] + g[(s \ {x}) \ {c}]
          BY <5>1, <4>2
        <5>4. (s \ {c}) \ {x} = (s \ {x}) \ {c}
          OBVIOUS
        <5>5. f[x] \in Nat /\ f[c] \in Nat /\ g[s \ {c}] \in Nat /\ g[s \ {x}] \in Nat
          BY <4>1, <4>2
        <5>6. g[(s \ {x}) \ {c}] \in Nat
          <6> DEFINE w == s \ {x}
          <6>1. /\ w \in SUBSET S /\ c \in w /\ Cardinality(s) \in Nat
                /\ Cardinality(w) = Cardinality(s) - 1
            BY <5>1, Smaller
          <6> HIDE DEF w
          <6>2. w \ {c} \in SUBSET S /\ Cardinality(w \ {c}) = Cardinality(w) - 1
            BY <6>1, Smaller
          <6>3. Cardinality(w \ {c}) <= n
            BY <6>1, <6>2, <2>n, <2>1
          <6>4. g[w \ {c}] \in Nat
            BY <6>2, <6>3, <2>n
          <6> QED BY <6>4 DEF w
        <5>7. g[s] = f[c] + (f[x] + g[(s \ {x}) \ {c}])
          BY <4>1, <5>2, <5>4
        <5> QED BY <5>3, <5>5, <5>6, <5>7
      <4> QED BY <4>1, <4>3, <4>4
    <3> QED BY <3>1, <3>2
  <2> HIDE DEF Q
  <2> QED BY <2>n, <2>1
<1>3. Cardinality(S) \in P
  <2> HIDE DEF P
  <2>1. P \subseteq Nat
    BY DEF P
  <2>2. P = Nat
    BY <1>1, <1>2, <2>1, Induction
  <2> QED BY <2>2, FS_CardinalityType
<1> QED BY <1>3, Smaller

(* The sum over a set depends on its elements' values alone. *)
LEMMA SumsAgree ==
  ASSUME NEW S, IsFiniteSet(S), NEW T, NEW f, NEW h, NEW a, NEW b,
         IsSum(a, f, S), IsSum(b, h, T), NEW U, U \subseteq S, U \subseteq T,
         \A x \in U : f[x] = h[x]
  PROVE  a[U] = b[U]
<1> DEFINE P == {n \in Nat : \A s \in SUBSET U : Cardinality(s) <= n => a[s] = b[s]}
<1>0. /\ \A s \in SUBSET U : a[s] = IF s = {} THEN 0 ELSE f[Pick(s)] + a[s \ {Pick(s)}]
      /\ \A s \in SUBSET U : b[s] = IF s = {} THEN 0 ELSE h[Pick(s)] + b[s \ {Pick(s)}]
      /\ IsFiniteSet(U)
  BY FS_Subset DEF IsSum
<1>1. 0 \in P
  <2>1. \A s \in SUBSET U : Cardinality(s) <= 0 => s = {}
    BY <1>0, Smaller
  <2> QED BY <2>1, <1>0
<1>2. ASSUME NEW n \in P PROVE n + 1 \in P
  <2>n. n \in Nat /\ \A s \in SUBSET U : Cardinality(s) <= n => a[s] = b[s]
    OBVIOUS
  <2>1. ASSUME NEW s \in SUBSET U, Cardinality(s) <= n + 1 PROVE a[s] = b[s]
    <3>1. CASE s = {}
      BY <3>1, <1>0
    <3>2. CASE s # {}
      <4>1. Pick(s) \in s /\ s \ {Pick(s)} \in SUBSET U
        BY <3>2 DEF Pick
      <4>2. /\ Cardinality(s \ {Pick(s)}) = Cardinality(s) - 1 /\ Cardinality(s) \in Nat
        BY <4>1, <1>0, Smaller
      <4>3. Cardinality(s \ {Pick(s)}) <= n
        BY <4>2, <2>n, <2>1
      <4>4. a[s \ {Pick(s)}] = b[s \ {Pick(s)}] /\ f[Pick(s)] = h[Pick(s)]
        BY <4>1, <4>3, <2>n
      <4> QED BY <3>2, <4>4, <1>0
    <3> QED BY <3>1, <3>2
  <2> QED BY <2>n, <2>1
<1>3. Cardinality(U) \in P
  <2> HIDE DEF P
  <2>1. P \subseteq Nat
    BY DEF P
  <2>2. P = Nat
    BY <1>1, <1>2, <2>1, Induction
  <2> QED BY <2>2, <1>0, FS_CardinalityType
<1>4. U \in SUBSET U /\ Cardinality(U) \in Nat
  BY <1>0, FS_CardinalityType
<1> QED BY <1>3, <1>4

-----------------------------------------------------------------------------
(* The ceiling                                                             *)

(* The library's sum over the ledger is such a sum. *)
LEMMA TotalIsSum ==
  ASSUME NEW l
  PROVE  Total(l) = (CHOOSE g : IsSum(g, l, Reserved(l)))[Reserved(l)]
BY DEF Total, MapThenSumSet, MapThenFoldSet, IsSum, Pick

(* The total without one reservation is less by what it reserved. *)
LEMMA TotalWithout ==
  ASSUME NEW l \in [Ids -> Nat \cup {None}], NEW i \in Ids, l[i] # None
  PROVE  /\ Total([l EXCEPT ![i] = None]) \in Nat
         /\ Total(l) = l[i] + Total([l EXCEPT ![i] = None])
<1> DEFINE m == [l EXCEPT ![i] = None]
           S == Reserved(l)
           T == Reserved(m)
           a == CHOOSE g : IsSum(g, l, S)
           b == CHOOSE g : IsSum(g, m, T)
<1>1. i \in S /\ T = S \ {i} /\ \A x \in T : m[x] = l[x]
  BY DEF Reserved
<1>2. IsFiniteSet(S) /\ IsFiniteSet(T)
  <2>1. S \subseteq Ids /\ T \subseteq Ids
    BY DEF Reserved
  <2> QED BY <2>1, MandateAssumption, FS_Subset
<1>3. (\A x \in S : l[x] \in Nat) /\ \A x \in T : m[x] \in Nat
  BY DEF Reserved
<1>4. Total(l) = a[S] /\ Total(m) = b[T]
  BY TotalIsSum
<1> HIDE DEF m, S, T
<1>5. IsSum(a, l, S) /\ IsSum(b, m, T)
  BY <1>2, <1>3, SumExists
<1> HIDE DEF a, b
<1>6. a[S] = l[i] + a[T]
  <2> DEFINE f == l
  <2>0. IsSum(a, f, S) /\ IsFiniteSet(S) /\ (\A x \in S : f[x] \in Nat) /\ f[i] = l[i]
    BY <1>2, <1>3, <1>5
  <2> HIDE DEF f
  <2>1. \A s \in SUBSET S : a[s] \in Nat /\ \A x \in s : a[s] = f[x] + a[s \ {x}]
    BY <2>0, SumTakesOut
  <2> QED BY <2>0, <2>1, <1>1
<1>7. a[T] = b[T]
  <2>1. T \subseteq S /\ T \subseteq T /\ \A x \in T : l[x] = m[x]
    BY <1>1
  <2> QED BY <2>1, <1>2, <1>5, SumsAgree
<1>8. b[T] \in Nat
  <2>1. \A s \in SUBSET T : b[s] \in Nat
    BY <1>2, <1>3, <1>5, SumTakesOut
  <2> QED BY <2>1
<1>9. Total(m) \in Nat /\ Total(l) = l[i] + Total(m)
  BY <1>4, <1>6, <1>7, <1>8
<1> QED BY <1>9 DEF m

(* Reserving adds to the total what the ledger checked; giving back takes  *)
(* from it.                                                                *)
LEMMA CeilingStep == IInv /\ CeilingHolds /\ [Next]_vars => CeilingHolds'
<1> SUFFICES ASSUME IInv, CeilingHolds, [Next]_vars PROVE CeilingHolds'
  OBVIOUS
<1>t. TypeOK /\ Ownership /\ ledger \in [Ids -> Nat \cup {None}]
  BY DEF IInv, TypeOK
<1>1. CASE UNCHANGED ledger
  BY <1>1 DEF CeilingHolds
<1>2. ASSUME NEW c \in Presentations, pc[c] # "idle"
      PROVE  pay[c].id \in Ids /\ pay[c].amount \in Nat
  BY <1>2, <1>t, MandateAssumption DEF TypeOK
<1>3. ASSUME NEW c \in Presentations, Reserve(c) PROVE CeilingHolds'
  <2> DEFINE i == pay[c].id
             n == pay[c].amount
  <2>1. /\ i \in Ids /\ n \in Nat /\ ledger[i] = None /\ n + Total(ledger) <= Ceiling
        /\ ledger' = [ledger EXCEPT ![i] = n]
    BY <1>2, <1>3 DEF Reserve, Goto
  <2> HIDE DEF i, n
  <2>2. /\ ledger' \in [Ids -> Nat \cup {None}] /\ ledger'[i] = n /\ n # None
        /\ [ledger' EXCEPT ![i] = None] = ledger
    <3>1. n # None
      BY <2>1 DEF None
    <3>2. ledger' \in [Ids -> Nat \cup {None}] /\ ledger'[i] = n
      BY <2>1, <1>t
    <3>3. \A x \in Ids : [ledger' EXCEPT ![i] = None][x] = ledger[x]
      BY <2>1, <3>2, <1>t
    <3>4. [ledger' EXCEPT ![i] = None] = ledger
      BY <3>2, <3>3, <1>t
    <3> QED BY <3>1, <3>2, <3>4
  <2>3. Total(ledger') = n + Total(ledger)
    BY <2>1, <2>2, TotalWithout
  <2>4. Total(ledger)' = Total(ledger')
    OBVIOUS
  <2> QED BY <2>1, <2>3, <2>4 DEF CeilingHolds
<1>4. ASSUME NEW c \in Presentations, NoApproval(c) \/ Release(c) \/ ChargeFails(c)
      PROVE  CeilingHolds'
  <2> DEFINE i == pay[c].id
  <2>1. /\ Owns(c) /\ pc[c] # "idle" /\ ledger' = [ledger EXCEPT ![i] = None]
    BY <1>4 DEF NoApproval, Release, ChargeFails, GiveBack, Goto, Owns
  <2>2. i \in Ids /\ ledger[i] # None /\ ledger[i] \in Nat
    BY <2>1, <1>2, <1>t DEF Ownership
  <2> HIDE DEF i
  <2>3. Total(ledger') \in Nat /\ Total(ledger) = ledger[i] + Total(ledger')
    BY <2>1, <2>2, <1>t, TotalWithout
  <2>4. Total(ledger)' = Total(ledger')
    OBVIOUS
  <2>5. Ceiling \in Nat /\ Total(ledger) <= Ceiling
    BY MandateAssumption DEF CeilingHolds
  <2> QED BY <2>2, <2>3, <2>4, <2>5 DEF CeilingHolds
<1> QED
  BY <1>1, <1>3, <1>4
     DEF Next, Progress, vars, Present, Refuse, ReserveRefused, AuthoriseSmall, ApprovalFails,
         ApprovalThrows, AuthoriseLarge, Charge, Done

(* Nothing is spent before the first payment. *)
LEMMA CeilingInit == Init => CeilingHolds
<1> SUFFICES ASSUME Init PROVE CeilingHolds
  OBVIOUS
<1>1. Reserved(ledger) = {}
  BY DEF Init, Reserved
<1> DEFINE a == CHOOSE g : IsSum(g, ledger, {})
<1>2. Total(ledger) = a[{}]
  BY <1>1, TotalIsSum
<1>3. IsSum(a, ledger, {})
  BY SumExists, FS_EmptySet
<1> HIDE DEF a
<1>4. a[{}] = 0
  BY <1>3 DEF IsSum
<1> QED BY <1>2, <1>4, MandateAssumption DEF CeilingHolds

(* However many payments are reserved, refused and given back at once,     *)
(* together they stay within what the payer allowed.                       *)
THEOREM CeilingRespected == Spec => []CeilingHolds
<1>1. Init => CeilingHolds
  BY CeilingInit
<1>2. IInv /\ CeilingHolds /\ [Next]_vars => CeilingHolds'
  BY CeilingStep
<1> QED BY <1>1, <1>2, Invariance, PTL DEF Spec

-----------------------------------------------------------------------------
(* The documents of a payment                                              *)

(* What circulates is signed by its author over what it says.  A payment's *)
(* digest is of the cart its agent saw.                                    *)
IntentsGenuine == \A d \in intents : d = SignedBy(Payer, d.body) /\ d.body.payer = Payer

CartsGenuine ==
  \A d \in carts : d = SignedBy(d.body.merchant, d.body) /\ d.body.items \in Items

PaymentsGenuine ==
  /\ DOMAIN agreed = {p.body.id : p \in payments}
  /\ \A p \in payments : /\ p = SignedBy(p.body.agent, p.body)
                         /\ p.body.cartDigest = CartDigest(agreed[p.body.id])

ChainIInv == IntentsGenuine /\ CartsGenuine /\ PaymentsGenuine /\ PaidAsAgreed

(* The last of the items that are left. *)
LEMMA LastItem ==
  ASSUME NEW n \in Nat, NEW s \in SUBSET (1 .. n), s # {}
  PROVE  Max(s) \in s
<1> DEFINE T == {n - y : y \in s}
<1>1. T \subseteq Nat /\ T # {}
  <2>1. \A y \in s : n - y \in Nat
    OBVIOUS
  <2> QED BY <2>1
<1>2. PICK t \in T : \A u \in T : t <= u
  BY <1>1, LeastNatural
<1>3. PICK x \in s : t = n - x
  <2>1. t \in {n - y : y \in s}
    BY <1>2
  <2> QED BY <2>1, Zenon
<1>4. ASSUME NEW y \in s PROVE x >= y
  <2>1. n - y \in T /\ x \in Nat /\ y \in Nat
    OBVIOUS
  <2> HIDE DEF T
  <2> QED BY <2>1, <1>2, <1>3
<1> QED BY <1>3, <1>4 DEF Max

(* What the two sums are over the first items of a list. *)
Cost(l, n) == l[n].quantity * l[n].unit

IsPrice(g, l) ==
  g = [s \in SUBSET DOMAIN l |->
         IF s = {} THEN 0 ELSE g[s \ {Max(s)}] + Cost(l, Max(s))]

CheckedSum(sum, l, n) ==
  IF sum = Overflow \/ l[n].quantity = 0 \/ sum + Cost(l, n) > MaxSafe
    THEN Overflow ELSE sum + Cost(l, n)

IsChecked(g, l) ==
  g = [s \in SUBSET DOMAIN l |->
         IF s = {} THEN 0 ELSE CheckedSum(g[s \ {Max(s)}], l, Max(s))]

LEMMA SumsAreFolds ==
  ASSUME NEW l
  PROVE  /\ Price(l) = (CHOOSE g : IsPrice(g, l))[DOMAIN l]
         /\ CheckedTotal(l) = (CHOOSE g : IsChecked(g, l))[DOMAIN l]
<1>1. Price(l) = (CHOOSE g : IsPrice(g, l))[DOMAIN l]
  BY DEF Price, FoldLeft, MapThenFoldSet, IsPrice, Cost
<1>2. CheckedTotal(l) = (CHOOSE g : IsChecked(g, l))[DOMAIN l]
  BY DEF CheckedTotal, FoldLeft, MapThenFoldSet, IsChecked, CheckedSum, Cost
<1> QED BY <1>1, <1>2

(* Both exist for the items that are sold. *)
LEMMA ItemSums ==
  ASSUME NEW l \in Items
  PROVE  (\E g : IsPrice(g, l)) /\ \E g : IsChecked(g, l)
<1> DEFINE D == DOMAIN l
           ch == [s \in SUBSET D |-> Max(s)]
           price == [p \in D \X Int |-> p[2] + Cost(l, p[1])]
           checked == [p \in D \X Int |-> CheckedSum(p[2], l, p[1])]
<1>1. /\ Len(l) \in Nat /\ D = 1 .. Len(l)
      /\ \A n \in D : l[n].quantity \in Nat /\ l[n].unit \in Nat
  BY MandateChainAssumption
<1>2. \A n \in D : Cost(l, n) \in Int
  BY <1>1 DEF Cost
<1>3. price \in [D \X Int -> Int] /\ checked \in [D \X Int -> Int]
  BY <1>2 DEF CheckedSum, Overflow
<1>4. /\ \A n \in D, x \in Int : price[<<n, x>>] = x + Cost(l, n)
      /\ \A n \in D, x \in Int : checked[<<n, x>>] = CheckedSum(x, l, n)
  OBVIOUS
<1>5. IsFiniteSet(D) /\ 0 \in Int
  <2>1. PICK m : m = Len(l)
    OBVIOUS
  <2>2. m \in Int /\ 1 \in Int
    BY <2>1, <1>1
  <2>3. IsFiniteSet(1 .. m)
    BY <2>2, FS_Interval
  <2> QED BY <2>1, <2>3, <1>1
<1>6. \A s \in SUBSET D : ch[s] = Max(s) /\ (s # {} => Max(s) \in s /\ ch[s] \in s)
  BY <1>1, LastItem
<1> HIDE DEF D, ch, price, checked
<1>7. PICK g : IsFold(g, D, Int, 0, price, ch)
  BY <1>3, <1>5, <1>6, FoldExists
<1>8. PICK h : IsFold(h, D, Int, 0, checked, ch)
  BY <1>3, <1>5, <1>6, FoldExists
<1>9. ASSUME NEW s \in SUBSET D, s # {}
      PROVE  /\ g[s] = g[s \ {Max(s)}] + Cost(l, Max(s))
             /\ h[s] = CheckedSum(h[s \ {Max(s)}], l, Max(s))
  <2>1. Max(s) \in D /\ ch[s] = Max(s) /\ s \ {Max(s)} \in SUBSET D
    BY <1>6, <1>9
  <2>2. g[s \ {Max(s)}] \in Int /\ h[s \ {Max(s)}] \in Int
    BY <2>1, <1>7, <1>8 DEF IsFold
  <2>3. /\ g[s] = price[<<Max(s), g[s \ {Max(s)}]>>]
        /\ h[s] = checked[<<Max(s), h[s \ {Max(s)}]>>]
    BY <2>1, <1>7, <1>8, <1>9 DEF IsFold
  <2> QED BY <2>1, <2>2, <2>3, <1>4
<1>10. g[{}] = 0 /\ h[{}] = 0 /\ g = [s \in SUBSET D |-> g[s]] /\ h = [s \in SUBSET D |-> h[s]]
  BY <1>7, <1>8 DEF IsFold
<1>11. IsPrice(g, l) /\ IsChecked(h, l)
  BY <1>9, <1>10 DEF IsPrice, IsChecked, D
<1> QED BY <1>11

(* checkedTotal, where it answers, is the price: by induction on the items *)
(* that are left.                                                          *)
LEMMA TotalIsPrice ==
  ASSUME NEW l \in Items, CheckedTotal(l) # Overflow
  PROVE  CheckedTotal(l) = Price(l)
<1> DEFINE D == DOMAIN l
           p == CHOOSE g : IsPrice(g, l)
           c == CHOOSE g : IsChecked(g, l)
           P == {n \in Nat : \A s \in SUBSET D :
                   (Cardinality(s) <= n /\ c[s] # Overflow) => c[s] = p[s]}
<1>1. IsPrice(p, l) /\ IsChecked(c, l)
  BY ItemSums
<1>2. Price(l) = p[D] /\ CheckedTotal(l) = c[D]
  BY SumsAreFolds
<1>3. Len(l) \in Nat /\ D = 1 .. Len(l) /\ IsFiniteSet(D)
  BY MandateChainAssumption, FS_Interval
<1>f. IsFiniteSet(D)
  BY <1>3
<1> HIDE DEF p, c
<1>4. ASSUME NEW s \in SUBSET D
      PROVE  /\ p[s] = IF s = {} THEN 0 ELSE p[s \ {Max(s)}] + Cost(l, Max(s))
             /\ c[s] = IF s = {} THEN 0 ELSE CheckedSum(c[s \ {Max(s)}], l, Max(s))
  BY <1>1 DEF IsPrice, IsChecked
<1>e. c[{}] = 0 /\ p[{}] = 0
  BY <1>1 DEF IsPrice, IsChecked
<1> HIDE DEF D
<1>5. 0 \in P
  <2>1. \A s \in SUBSET D : Cardinality(s) <= 0 => s = {}
    BY <1>f, Smaller
  <2>2. \A s \in SUBSET D : Cardinality(s) <= 0 => c[s] = p[s]
    BY <2>1, <1>e, Zenon
  <2> QED BY <2>2
<1>6. ASSUME NEW n \in P PROVE n + 1 \in P
  <2>n. n \in Nat /\ \A s \in SUBSET D :
          (Cardinality(s) <= n /\ c[s] # Overflow) => c[s] = p[s]
    OBVIOUS
  <2>1. ASSUME NEW s \in SUBSET D, Cardinality(s) <= n + 1, c[s] # Overflow PROVE c[s] = p[s]
    <3>1. CASE s = {}
      BY <3>1, <1>e, Zenon
    <3>2. CASE s # {}
      <4> DEFINE m == Max(s)
                 r == s \ {m}
      <4>1. m \in s
        BY <3>2, <1>3, LastItem
      <4>2. r \in SUBSET D /\ Cardinality(r) = Cardinality(s) - 1 /\ Cardinality(s) \in Nat
        BY <4>1, <1>f, Smaller
      <4>3. Cardinality(r) <= n
        BY <4>2, <2>n, <2>1
      <4>4. c[s] = CheckedSum(c[r], l, m) /\ p[s] = p[r] + Cost(l, m)
        BY <3>2, <1>4
      <4> HIDE DEF m, r
      <4>5. c[r] # Overflow /\ c[s] = c[r] + Cost(l, m)
        BY <4>4, <2>1 DEF CheckedSum
      <4>6. c[r] = p[r]
        BY <4>2, <4>3, <4>5, <2>n
      <4> QED BY <4>4, <4>5, <4>6
    <3> QED BY <3>1, <3>2
  <2> QED BY <2>n, <2>1
<1>7. Cardinality(D) \in P
  <2> HIDE DEF P
  <2>1. P \subseteq Nat
    BY DEF P
  <2>2. P = Nat
    BY <1>5, <1>6, <2>1, Induction
  <2> QED BY <2>2, <1>f, FS_CardinalityType
<1>8. D \in SUBSET D /\ Cardinality(D) <= Cardinality(D)
  BY <1>f, FS_CardinalityType
<1> QED BY <1>2, <1>7, <1>8

(* A document that arrives changed does not carry its author's signature. *)
LEMMA GenuineDocument ==
  ASSUME NEW docs, NEW edits, \A d \in docs : \E who : d = SignedBy(who, d.body),
         NEW doc \in Changed(docs, edits), doc.over = doc.body
  PROVE  doc \in docs
<1>1. CASE \E d \in docs : \E e \in edits[d] : doc = [d EXCEPT !.body = e]
  <2>1. PICK d \in docs : \E e \in edits[d] : doc = [d EXCEPT !.body = e]
    BY <1>1
  <2>2. PICK e \in edits[d] : doc = [d EXCEPT !.body = e]
    BY <2>1
  <2>3. PICK who : d = SignedBy(who, d.body)
    OBVIOUS
  <2>4. doc.over = d.body /\ doc.body = e /\ [d EXCEPT !.body = d.body] = d
    BY <2>2, <2>3 DEF SignedBy
  <2> QED BY <2>2, <2>4
<1> QED BY <1>1 DEF Changed

(* A payment that passes is what its parties signed and agreed. *)
LEMMA PassesAsAgreed ==
  ASSUME ChainIInv, NEW i \in ArrivingIntents, NEW c \in ArrivingCarts,
         NEW p \in ArrivingPayments, NEW m \in Merchants,
         Shape(i, c, p), Lives(i, IntentLifetime), Lives(c, CartLifetime),
         Linked(i, c, p, m), SignaturesHold(i, c, p), MoneyAgrees(c, p),
         Within(i.body.constraints, c, p)
  PROVE  /\ i \in intents /\ c \in carts /\ p \in payments
         /\ p.by = i.body.agent /\ agreed[p.body.id] = c
         /\ chainTime < i.body.expiresAt /\ chainTime < c.body.expiresAt
         /\ p.body.amount = Price(c.body.items)
         /\ c.body.items \in Items
<1>1. i.over = i.body /\ c.over = c.body /\ p.over = p.body /\ p.by = p.body.agent
  BY DEF SignaturesHold, SignatureOf
<1>2. i \in intents
  BY <1>1, GenuineDocument DEF ArrivingIntents, ChainIInv, IntentsGenuine
<1>3. c \in carts
  BY <1>1, GenuineDocument DEF ArrivingCarts, ChainIInv, CartsGenuine
<1>4. p \in payments
  BY <1>1, GenuineDocument DEF ArrivingPayments, ChainIInv, PaymentsGenuine
<1>5. p.by = i.body.agent
  BY <1>1 DEF Linked
<1>6. agreed[p.body.id] = c
  BY <1>4 DEF ChainIInv, PaymentsGenuine, MoneyAgrees, CartDigest
<1>7. c.body.items \in Items
  BY <1>3 DEF ChainIInv, CartsGenuine
<1>8. p.body.amount = Price(c.body.items)
  <2>1. /\ CheckedTotal(c.body.items) = p.body.amount
        /\ p.body.amount \in 0 .. MaxSafe
    BY DEF MoneyAgrees, Shape, IsMoney
  <2>2. p.body.amount # Overflow
    BY <2>1, MandateChainAssumption DEF Overflow
  <2> QED BY <2>1, <2>2, <1>7, TotalIsPrice
<1> QED BY <1>2, <1>3, <1>4, <1>5, <1>6, <1>7, <1>8 DEF Lives

(* Every step of the parties and of the verifier preserves the invariant. *)
LEMMA ChainNextInv == ChainIInv /\ [ChainNext]_chainVars => ChainIInv'
<1> SUFFICES ASSUME ChainIInv, [ChainNext]_chainVars PROVE ChainIInv'
  OBVIOUS
<1>t. IntentsGenuine /\ CartsGenuine /\ PaymentsGenuine /\ PaidAsAgreed
  BY DEF ChainIInv
(* Documents are added and nothing passes. *)
<1>1. ASSUME UNCHANGED authorised, intents \subseteq intents', carts \subseteq carts',
             payments \subseteq payments',
             \A p \in payments : agreed'[p.body.id] = agreed[p.body.id]
      PROVE  PaidAsAgreed'
  <2>1. DocumentsAgree'
    BY <1>1, <1>t DEF PaidAsAgreed, DocumentsAgree
  <2>2. AmountIsPrice'
    BY <1>1, <1>t DEF PaidAsAgreed, AmountIsPrice
  <2> QED BY <2>1, <2>2 DEF PaidAsAgreed
<1>2. ASSUME NEW a \in Agents, NEW k \in Constraints, IssueIntent(a, k) PROVE ChainIInv'
  <2>1. PICK n \in Unused(intents) :
          intents' = intents \cup {SignedBy(Payer, Intent(n, a, k))}
    BY <1>2 DEF IssueIntent
  <2>2. UNCHANGED <<carts, payments, agreed, authorised>>
    BY <1>2 DEF IssueIntent
  <2>3. IntentsGenuine'
    BY <2>1, <1>t DEF IntentsGenuine, SignedBy, Intent
  <2>4. CartsGenuine' /\ PaymentsGenuine'
    BY <2>2, <1>t DEF CartsGenuine, PaymentsGenuine
  <2> QED BY <2>1, <2>2, <2>3, <2>4, <1>1 DEF ChainIInv
<1>3. ASSUME NEW m, NEW body, body.merchant = m, body.items \in Items,
             carts' = carts \cup {SignedBy(m, body)},
             UNCHANGED <<intents, payments, agreed, authorised>>
      PROVE  ChainIInv'
  <2>1. CartsGenuine'
    BY <1>3, <1>t DEF CartsGenuine, SignedBy
  <2>2. IntentsGenuine' /\ PaymentsGenuine'
    BY <1>3, <1>t DEF IntentsGenuine, PaymentsGenuine
  <2> QED BY <2>1, <2>2, <1>1, <1>3 DEF ChainIInv
<1>4. ASSUME NEW m \in Merchants, NEW i \in intents, NEW l \in Items, NEW cur \in Currencies,
             IssueCart(m, i.body.id, cur, l)
      PROVE  ChainIInv'
  <2>1. PICK n : carts' = carts \cup
          {SignedBy(m, Cart(n, i.body.id, m, cur, l, CheckedTotal(l)))}
    BY <1>4 DEF IssueCart
  <2>2. UNCHANGED <<intents, payments, agreed, authorised>>
    BY <1>4 DEF IssueCart
  <2> DEFINE body == Cart(n, i.body.id, m, cur, l, CheckedTotal(l))
  <2>3. body.merchant = m /\ body.items = l
    BY DEF Cart
  <2> HIDE DEF body
  <2> QED BY <2>1, <2>2, <2>3, <1>3 DEF body
<1>5. ASSUME NEW c \in carts, NEW l \in Items, NEW t, RequoteCart(c, l, t) PROVE ChainIInv'
  <2> DEFINE m == c.body.merchant
             body == Cart(c.body.id, c.body.intentId, m, c.body.currency, l, t)
  <2>1. /\ carts' = carts \cup {SignedBy(m, body)}
        /\ UNCHANGED <<intents, payments, agreed, authorised>>
    BY <1>5 DEF RequoteCart
  <2>2. body.merchant = m /\ body.items = l
    BY DEF Cart
  <2> HIDE DEF m, body
  <2> QED BY <2>1, <2>2, <1>3
<1>6. ASSUME NEW a \in Agents, NEW i \in intents, NEW c \in carts, NEW amount,
             IssuePayment(a, i, c, amount)
      PROVE  ChainIInv'
  <2>1. PICK n \in Unused(payments) :
          /\ payments' = payments \cup {SignedBy(a, PaymentFor(n, a, i.body.id, c, amount))}
          /\ agreed' = [x \in DOMAIN agreed \cup {n} |-> IF x = n THEN c ELSE agreed[x]]
    BY <1>6 DEF IssuePayment
  <2>2. UNCHANGED <<intents, carts, authorised>>
    BY <1>6 DEF IssuePayment
  <2> DEFINE new == SignedBy(a, PaymentFor(n, a, i.body.id, c, amount))
  <2>3. /\ new = SignedBy(new.body.agent, new.body) /\ new.body.id = n
        /\ new.body.cartDigest = CartDigest(c)
    BY DEF SignedBy, PaymentFor
  <2>4. \A p \in payments : p.body.id # n
    BY DEF Unused
  <2>5. n \notin DOMAIN agreed
    BY <2>4, <1>t DEF PaymentsGenuine
  <2>6. /\ DOMAIN agreed' = DOMAIN agreed \cup {n} /\ agreed'[n] = c
        /\ \A k \in DOMAIN agreed : agreed'[k] = agreed[k]
    BY <2>1, <2>5
  <2> HIDE DEF new
  <2>7. PaymentsGenuine'
    <3>1. DOMAIN agreed' = {p.body.id : p \in payments'}
      BY <2>1, <2>3, <2>6, <1>t DEF new, PaymentsGenuine
    <3>2. \A p \in payments' : p = SignedBy(p.body.agent, p.body)
      BY <2>1, <2>3, <1>t DEF new, PaymentsGenuine
    <3>3. \A p \in payments' : p.body.cartDigest = CartDigest(agreed'[p.body.id])
      BY <2>1, <2>3, <2>6, <1>t DEF new, PaymentsGenuine, CartDigest
    <3> QED BY <3>1, <3>2, <3>3 DEF PaymentsGenuine, CartDigest
  <2>8. \A p \in payments : agreed'[p.body.id] = agreed[p.body.id]
    BY <2>6, <1>t DEF PaymentsGenuine
  <2>9. IntentsGenuine' /\ CartsGenuine'
    BY <2>2, <1>t DEF IntentsGenuine, CartsGenuine
  <2> QED BY <2>1, <2>2, <2>7, <2>8, <2>9, <1>1 DEF ChainIInv
<1>7. ASSUME NEW i \in ArrivingIntents, NEW c \in ArrivingCarts, NEW p \in ArrivingPayments,
             NEW m \in Merchants, VerifyChain(i, c, p, m)
      PROVE  ChainIInv'
  <2> DEFINE new == [intent |-> i, cart |-> c, payment |-> p, at |-> chainTime]
  <2>1. /\ authorised' = authorised \cup {new}
        /\ UNCHANGED <<chainTime, intents, carts, payments, agreed>>
    BY <1>7 DEF VerifyChain
  <2>2. /\ Linked(i, c, p, m) /\ Within(i.body.constraints, c, p)
        /\ i \in intents /\ c \in carts /\ p \in payments
        /\ p.by = i.body.agent /\ agreed[p.body.id] = c
        /\ chainTime < i.body.expiresAt /\ chainTime < c.body.expiresAt
        /\ p.body.amount = Price(c.body.items)
        /\ c.body.items \in Items
    BY <1>7, PassesAsAgreed DEF VerifyChain
  <2>3. DOMAIN c.body.items = 1 .. Len(c.body.items)
    BY <2>2, MandateChainAssumption
  <2>4. new.intent = i /\ new.cart = c /\ new.payment = p /\ new.at = chainTime
    OBVIOUS
  <2> HIDE DEF new
  <2>5. DocumentsAgree'
    BY <2>1, <2>2, <2>4, <1>t DEF PaidAsAgreed, DocumentsAgree
  <2>6. AmountIsPrice'
    <3>1. /\ p.body.currency = i.body.constraints.currency
          /\ c.body.currency = i.body.constraints.currency
      BY <2>2 DEF Linked
    <3> QED BY <2>1, <2>2, <2>3, <2>4, <3>1, <1>t DEF PaidAsAgreed, AmountIsPrice, Within
  <2>7. IntentsGenuine' /\ CartsGenuine' /\ PaymentsGenuine'
    BY <2>1, <1>t DEF IntentsGenuine, CartsGenuine, PaymentsGenuine
  <2> QED BY <2>5, <2>6, <2>7 DEF ChainIInv, PaidAsAgreed
<1>8. ASSUME UNCHANGED <<intents, carts, payments, agreed, authorised>> PROVE ChainIInv'
  <2>1. IntentsGenuine' /\ CartsGenuine' /\ PaymentsGenuine'
    BY <1>8, <1>t DEF IntentsGenuine, CartsGenuine, PaymentsGenuine
  <2> QED BY <2>1, <1>8, <1>1 DEF ChainIInv
<1>9. CASE ChainTick
  BY <1>9, <1>8 DEF ChainTick
<1>10. CASE UNCHANGED chainVars
  BY <1>10, <1>8 DEF chainVars
<1> QED BY <1>2, <1>4, <1>5, <1>6, <1>7, <1>9, <1>10 DEF ChainNext

(* What is paid is what payer, merchant and agent signed: this cart, at    *)
(* the price of its items and within the payer's bounds.                   *)
THEOREM PaymentsAsAgreed == ChainSpec => []PaidAsAgreed
<1>1. ChainInit => ChainIInv
  BY DEF ChainInit, ChainIInv, IntentsGenuine, CartsGenuine, PaymentsGenuine, PaidAsAgreed,
         DocumentsAgree, AmountIsPrice
<1>2. ChainIInv /\ [ChainNext]_chainVars => ChainIInv'
  BY ChainNextInv
<1>3. ChainIInv => PaidAsAgreed
  BY DEF ChainIInv
<1> QED BY <1>1, <1>2, <1>3, PTL DEF ChainSpec

-----------------------------------------------------------------------------
(* The MCP gateway                                                         *)

Events ==
  {"phase", "allow", "deny"} \X
  {"request_received", "request_error", "verification_failed", "request_success",
   "allowlist", "authorize", "rateLimit"}

(* The events of a line that was refused nothing, in their order. *)
Allows == <<<<"phase", "request_received">>, <<"allow", "allowlist">>,
            <<"allow", "authorize">>, <<"allow", "rateLimit">>>>

PassedFirst(t, n) == \A i \in 1 .. n : t[i] = Allows[i]

(* How many of them a line at a stage has. *)
Depth(s) ==
  IF s = "allowlist" THEN 1
  ELSE IF s = "authorize" THEN 2
  ELSE IF s = "rateLimit" THEN 3
  ELSE IF s \in {"work", "verify", "success"} THEN 4 ELSE 0

Underway == {"idle", "invalid", "received", "allowlist", "authorize", "rateLimit", "work",
             "verify", "success"}

(* The trail of a line that is not JSON, or that a stage refused. *)
RefusedTrail(t) ==
  \/ Len(t) = 0
  \/ \E n \in 1 .. 3 : /\ Len(t) = n + 1 /\ PassedFirst(t, n)
                       /\ t[n + 1] \in
                            {<<"deny", s>> : s \in {"allowlist", "authorize", "rateLimit"}}

(* A line has the events of the stages it passed and no others, its task   *)
(* ran only behind them all, and it is answered with what they say.        *)
LineSound(l) ==
  /\ stage[l] \in Underway \cup {"thrown", "done"}
  /\ trail[l] \in Seq(Events)
  /\ stage[l] \in Underway =>
       Len(trail[l]) = Depth(stage[l]) /\ PassedFirst(trail[l], Len(trail[l]))
  /\ stage[l] \in {"verify", "success"} => l \in worked
  /\ l \in worked => /\ stage[l] \in {"verify", "success", "thrown", "done"}
                     /\ Len(trail[l]) >= 4 /\ PassedFirst(trail[l], 4)
  /\ stage[l] = "thrown" /\ l \notin sinkFailed => RefusedTrail(trail[l]) /\ l \notin worked
  /\ answer[l] = "result" =>
       /\ stage[l] = "done" /\ l \in worked
       /\ Len(trail[l]) = 5 /\ PassedFirst(trail[l], 4)
       /\ trail[l][5] = <<"phase", "request_success">>
  /\ stage[l] = "done" /\ l \notin sinkFailed =>
       \A j \in DOMAIN trail[l] : trail[l][j] = <<"phase", "request_error">> =>
         /\ j = Len(trail[l])
         /\ l \notin worked
         /\ \A k \in 1 .. j - 1 : trail[l][k][1] = "deny" => answer[l] = trail[l][k][2]

(* The lines that took a token and may have used it. *)
Counted == worked \cup {l \in RpcLines : stage[l] = "work"}

GwTypes ==
  /\ stage = [l \in RpcLines |-> stage[l]]
  /\ trail = [l \in RpcLines |-> trail[l]]
  /\ answer = [l \in RpcLines |-> answer[l]]
  /\ worked \subseteq RpcLines

TokensCounted ==
  /\ tokens \in Nat /\ tokens <= TokenQuota
  /\ IsFiniteSet(Counted) /\ Cardinality(Counted) <= tokens

GwIInv == GwTypes /\ (\A l \in RpcLines : LineSound(l)) /\ TokensCounted

LEMMA GwInit == McpGatewayInit => GwIInv
<1> SUFFICES ASSUME McpGatewayInit PROVE GwIInv
  OBVIOUS
<1>1. GwTypes /\ Counted = {}
  BY DEF McpGatewayInit, GwTypes, Counted
<1>2. TokensCounted
  BY <1>1, FS_EmptySet, McpGatewayAssumption DEF TokensCounted, McpGatewayInit
<1>3. ASSUME NEW l \in RpcLines PROVE LineSound(l)
  BY DEF McpGatewayInit, LineSound, Underway, Depth, PassedFirst
<1> QED BY <1>1, <1>2, <1>3 DEF GwIInv

(* A step of one line leaves the others as they are. *)
OnlyLine(l) ==
  \A m \in RpcLines : m # l =>
    /\ stage'[m] = stage[m] /\ trail'[m] = trail[m] /\ answer'[m] = answer[m]
    /\ m \in worked' <=> m \in worked
    /\ m \in sinkFailed' <=> m \in sinkFailed

LEMMA OneLine ==
  ASSUME GwIInv, NEW l \in RpcLines, OnlyLine(l), LineSound(l)', GwTypes', TokensCounted'
  PROVE  GwIInv'
<1>1. ASSUME NEW m \in RpcLines PROVE LineSound(m)'
  <2>1. CASE m = l
    BY <2>1
  <2>2. CASE m # l
    <3>1. LineSound(m)
      BY DEF GwIInv
    <3>2. stage'[m] = stage[m] /\ trail'[m] = trail[m] /\ answer'[m] = answer[m]
      BY <2>2 DEF OnlyLine
    <3>3. (m \in worked' <=> m \in worked) /\ (m \in sinkFailed' <=> m \in sinkFailed)
      BY <2>2 DEF OnlyLine
    <3> QED BY ONLY <3>1, <3>2, <3>3 DEF LineSound
  <2> QED BY <2>1, <2>2
<1> QED BY <1>1 DEF GwIInv

(* Tokens are counted when no line is added, or one with its token. *)
LEMMA CountsKept ==
  ASSUME TokensCounted, Counted' \subseteq Counted, tokens' \in Nat, tokens <= tokens',
         tokens' <= TokenQuota
  PROVE  TokensCounted'
<1>1. IsFiniteSet(Counted') /\ Cardinality(Counted') <= Cardinality(Counted)
  BY FS_Subset DEF TokensCounted
<1>2. Cardinality(Counted) \in Nat /\ Cardinality(Counted') \in Nat
  BY <1>1, FS_CardinalityType DEF TokensCounted
<1> QED BY <1>1, <1>2 DEF TokensCounted

LEMMA CountsOne ==
  ASSUME TokensCounted, NEW l, Counted' = Counted \cup {l}, tokens' = tokens + 1,
         tokens < TokenQuota
  PROVE  TokensCounted'
<1>1. IsFiniteSet(Counted') /\ Cardinality(Counted') <= Cardinality(Counted) + 1
  <2>1. IsFiniteSet(Counted) /\ Cardinality(Counted) \in Nat
    BY FS_CardinalityType DEF TokensCounted
  <2> QED BY <2>1, FS_AddElement
<1>2. Cardinality(Counted) \in Nat /\ Cardinality(Counted') \in Nat
  BY <1>1, FS_CardinalityType DEF TokensCounted
<1> QED BY <1>1, <1>2, McpGatewayAssumption DEF TokensCounted

LEMMA OneEvent ==
  ASSUME NEW t \in Seq(Events), NEW e \in Events, NEW u, u = Append(t, e)
  PROVE  /\ u \in Seq(Events) /\ Len(t) \in Nat /\ Len(u) = Len(t) + 1
         /\ DOMAIN u = 1 .. Len(t) + 1 /\ u[Len(t) + 1] = e
         /\ \A i \in 1 .. Len(t) : u[i] = t[i]
OBVIOUS

(* Four events of stages passed, and one more, with no error among them. *)
LEMMA NoErrorYet ==
  ASSUME NEW t, NEW e, PassedFirst(t, 4), t[5] = e, e # <<"phase", "request_error">>
  PROVE  \A j \in 1 .. 5 : t[j] # <<"phase", "request_error">>
<1>1. \A j \in 1 .. 4 : Allows[j] # <<"phase", "request_error">>
  BY DEF Allows
<1>2. \A j \in 1 .. 4 : t[j] = Allows[j]
  BY DEF PassedFirst
<1>3. \A j \in 1 .. 5 : j \in 1 .. 4 \/ j = 5
  OBVIOUS
<1> QED BY <1>1, <1>2, <1>3

LEMMA GwNext == GwIInv /\ [McpGatewayNext]_gwVars => GwIInv'
<1> SUFFICES ASSUME GwIInv, [McpGatewayNext]_gwVars PROVE GwIInv'
  OBVIOUS
<1>t. /\ GwTypes /\ TokensCounted /\ \A l \in RpcLines : LineSound(l)
      /\ tokens \in Nat /\ tokens <= TokenQuota
  BY DEF GwIInv, TokensCounted
<1>1. ASSUME NEW l \in RpcLines, Start(l) PROVE GwIInv'
  <2>1. PICK s \in {"thrown", "invalid", "received"} :
          stage' = [stage EXCEPT ![l] = s]
    BY <1>1 DEF Start, Advance
  <2>2. stage[l] = "idle" /\ UNCHANGED <<trail, tokens, worked, answer, sinkFailed>>
    BY <1>1 DEF Start
  <2>3. OnlyLine(l) /\ stage'[l] = s /\ GwTypes'
    BY <2>1, <2>2, <1>t DEF OnlyLine, GwTypes
  <2>4. Counted' \subseteq Counted
    BY <2>2, <2>3, <1>t DEF Counted, OnlyLine
  <2>5. TokensCounted'
    BY <2>2, <2>4, <1>t, CountsKept
  <2>6. LineSound(l)'
    BY <2>2, <2>3, <1>t DEF LineSound, Underway, Depth, PassedFirst, RefusedTrail
  <2> QED BY <2>3, <2>5, <2>6, OneLine
<1>2. ASSUME NEW l \in RpcLines, Invalid(l) PROVE GwIInv'
  <2> DEFINE e == <<"phase", "request_error">>
  <2>1. /\ stage[l] = "invalid" /\ trail' = [trail EXCEPT ![l] = Append(@, e)]
        /\ answer' = [answer EXCEPT ![l] = "invalid_request"]
        /\ stage' = [stage EXCEPT ![l] = "done"]
        /\ UNCHANGED <<tokens, worked, sinkFailed>>
    BY <1>2 DEF Invalid, Log, Conclude, Advance
  <2>2. /\ OnlyLine(l) /\ GwTypes' /\ stage'[l] = "done" /\ answer'[l] = "invalid_request"
        /\ trail'[l] = Append(trail[l], e)
    BY <2>1, <1>t DEF OnlyLine, GwTypes
  <2>3. TokensCounted'
    <3>1. Counted' \subseteq Counted
      BY <2>1, <2>2, <1>t DEF Counted, OnlyLine
    <3> QED BY <3>1, <2>1, <1>t, CountsKept
  <2>4. trail[l] \in Seq(Events) /\ Len(trail[l]) = 0 /\ l \notin worked
    BY <2>1, <1>t DEF LineSound, Underway, Depth
  <2>5. /\ trail'[l] \in Seq(Events) /\ Len(trail'[l]) = 1 /\ DOMAIN trail'[l] = {1}
    <3>1. e \in Events
      BY DEF Events
    <3> QED BY <3>1, <2>2, <2>4, OneEvent
  <2>6. LineSound(l)'
    BY ONLY <2>1, <2>2, <2>4, <2>5 DEF LineSound, Underway
  <2> QED BY <2>2, <2>3, <2>6, OneLine
<1>3. ASSUME NEW l \in RpcLines, Received(l) PROVE GwIInv'
  <2> DEFINE e == <<"phase", "request_received">>
  <2>1. /\ stage[l] = "received" /\ trail' = [trail EXCEPT ![l] = Append(@, e)]
        /\ stage' = [stage EXCEPT ![l] = "allowlist"]
        /\ UNCHANGED <<tokens, worked, answer, sinkFailed>>
    BY <1>3 DEF Received, Log, Advance
  <2>2. /\ OnlyLine(l) /\ GwTypes' /\ stage'[l] = "allowlist" /\ answer'[l] = answer[l]
        /\ trail'[l] = Append(trail[l], e)
    BY <2>1, <1>t DEF OnlyLine, GwTypes
  <2>3. TokensCounted'
    <3>1. Counted' \subseteq Counted
      BY <2>1, <2>2, <1>t DEF Counted, OnlyLine
    <3> QED BY <3>1, <2>1, <1>t, CountsKept
  <2>4. trail[l] \in Seq(Events) /\ Len(trail[l]) = 0 /\ l \notin worked /\ answer[l] # "result"
    BY <2>1, <1>t DEF LineSound, Underway, Depth
  <2>5. trail'[l] \in Seq(Events) /\ Len(trail'[l]) = 1 /\ trail'[l][1] = e
    <3>1. e \in Events
      BY DEF Events
    <3> QED BY <3>1, <2>2, <2>4, OneEvent
  <2>6. PassedFirst(trail'[l], 1)
    BY <2>5 DEF PassedFirst, Allows
  <2>7. LineSound(l)'
    BY ONLY <2>1, <2>2, <2>4, <2>5, <2>6 DEF LineSound, Underway, Depth
  <2> QED BY <2>2, <2>3, <2>7, OneLine
<1>4. ASSUME NEW l \in RpcLines, Policy(l) PROVE GwIInv'
  <2> DEFINE s == stage[l]
             n == Depth(s)
  <2>0. /\ s \in {"allowlist", "authorize", "rateLimit"} /\ n \in 1 .. 3
        /\ UNCHANGED <<worked, answer, sinkFailed>>
    BY <1>4 DEF Policy, Depth
  <2>t. /\ trail[l] \in Seq(Events) /\ Len(trail[l]) = n /\ PassedFirst(trail[l], n)
        /\ l \notin worked /\ answer[l] # "result"
    BY <2>0, <1>t DEF LineSound, Underway
  <2>1. CASE StageAllowed(l, s)
    <3> DEFINE e == <<"allow", s>>
               w == NextStage(s)
    <3>1. /\ trail' = [trail EXCEPT ![l] = Append(@, e)]
          /\ stage' = [stage EXCEPT ![l] = w]
          /\ tokens' = IF s = "rateLimit" THEN tokens + 1 ELSE tokens
      BY <2>1, <1>4 DEF Policy, Log, Advance
    <3>2. /\ OnlyLine(l) /\ GwTypes' /\ stage'[l] = w /\ answer'[l] = answer[l]
          /\ trail'[l] = Append(trail[l], e)
      BY <3>1, <2>0, <1>t DEF OnlyLine, GwTypes
    <3>3. w = IF s = "allowlist" THEN "authorize" ELSE IF s = "authorize" THEN "rateLimit" ELSE "work"
      BY <2>0 DEF NextStage, Pipeline
    <3>4. e \in Events /\ e = Allows[n + 1] /\ Depth(w) = n + 1 /\ w \in Underway
      <4>1. e \in Events /\ w \in Underway
        BY <2>0, <3>3 DEF Events, Underway
      <4>2. CASE s = "allowlist"
        BY <4>1, <4>2, <3>3 DEF Allows, Depth
      <4>3. CASE s = "authorize"
        BY <4>1, <4>3, <3>3 DEF Allows, Depth
      <4>4. CASE s = "rateLimit"
        BY <4>1, <4>4, <3>3 DEF Allows, Depth
      <4> QED BY <2>0, <4>2, <4>3, <4>4
    <3>5. /\ trail'[l] \in Seq(Events) /\ Len(trail'[l]) = n + 1
          /\ trail'[l][n + 1] = e /\ \A i \in 1 .. n : trail'[l][i] = trail[l][i]
      BY <3>2, <3>4, <2>t, OneEvent
    <3>6. PassedFirst(trail'[l], n + 1)
      <4>1. \A i \in 1 .. n + 1 : i \in 1 .. n \/ i = n + 1
        BY <2>0
      <4>2. \A i \in 1 .. n : trail'[l][i] = Allows[i]
        BY <3>5, <2>t DEF PassedFirst
      <4> QED BY ONLY <4>1, <4>2, <3>4, <3>5 DEF PassedFirst
    <3>7. LineSound(l)'
      BY ONLY <2>0, <2>t, <3>2, <3>3, <3>4, <3>5, <3>6 DEF LineSound, Underway
    <3>8. TokensCounted'
      <4>1. CASE s = "rateLimit"
        <5>1. tokens < TokenQuota
          BY <4>1, <2>1 DEF StageAllowed
        <5>2. Counted' = Counted \cup {l}
          BY <4>1, <3>2, <3>3, <2>0 DEF Counted, OnlyLine
        <5> QED BY <4>1, <5>1, <5>2, <3>1, <1>t, CountsOne
      <4>2. CASE s # "rateLimit"
        <5>1. Counted' \subseteq Counted
          BY <4>2, <3>2, <3>3, <2>0 DEF Counted, OnlyLine
        <5> QED BY <4>2, <5>1, <3>1, <1>t, CountsKept
      <4> QED BY <4>1, <4>2
    <3> QED BY <3>2, <3>7, <3>8, OneLine
  <2>2. CASE ~StageAllowed(l, s)
    <3> DEFINE e == <<"deny", s>>
    <3>1. /\ trail' = [trail EXCEPT ![l] = Append(@, e)]
          /\ stage' = [stage EXCEPT ![l] = "thrown"]
          /\ tokens' = tokens
      BY <2>2, <1>4 DEF Policy, Log, Advance
    <3>2. /\ OnlyLine(l) /\ GwTypes' /\ stage'[l] = "thrown" /\ answer'[l] = answer[l]
          /\ trail'[l] = Append(trail[l], e)
      BY <3>1, <2>0, <1>t DEF OnlyLine, GwTypes
    <3>3. e \in Events /\ e \in {<<"deny", x>> : x \in {"allowlist", "authorize", "rateLimit"}}
      BY <2>0 DEF Events
    <3>4. /\ trail'[l] \in Seq(Events) /\ Len(trail'[l]) = n + 1
          /\ trail'[l][n + 1] = e /\ \A i \in 1 .. n : trail'[l][i] = trail[l][i]
      BY <3>2, <3>3, <2>t, OneEvent
    <3>5. RefusedTrail(trail'[l])
      BY <3>3, <3>4, <2>t, <2>0 DEF RefusedTrail, PassedFirst
    <3>6. LineSound(l)'
      BY ONLY <2>0, <2>t, <3>2, <3>4, <3>5 DEF LineSound, Underway
    <3>7. TokensCounted'
      <4>1. Counted' \subseteq Counted
        BY <3>2, <2>0 DEF Counted, OnlyLine
      <4> QED BY <4>1, <3>1, <1>t, CountsKept
    <3> QED BY <3>2, <3>6, <3>7, OneLine
  <2> QED BY <2>1, <2>2
<1>5. ASSUME NEW l \in RpcLines, Work(l) PROVE GwIInv'
  <2>1. /\ stage[l] = "work" /\ worked' = worked \cup {l}
        /\ stage' = [stage EXCEPT ![l] = "verify"]
        /\ UNCHANGED <<trail, tokens, answer, sinkFailed>>
    BY <1>5 DEF Work, Advance
  <2>2. OnlyLine(l) /\ GwTypes' /\ stage'[l] = "verify"
    BY <2>1, <1>t DEF OnlyLine, GwTypes
  <2>3. TokensCounted'
    <3>1. Counted' \subseteq Counted
      BY <2>1, <2>2 DEF Counted, OnlyLine
    <3> QED BY <3>1, <2>1, <1>t, CountsKept
  <2>4. LineSound(l) /\ Len(trail[l]) = 4 /\ PassedFirst(trail[l], 4) /\ l \in worked'
    BY <2>1, <1>t DEF LineSound, Underway, Depth
  <2>5. LineSound(l)'
    BY ONLY <2>1, <2>2, <2>4 DEF LineSound, Underway, Depth
  <2> QED BY <2>2, <2>3, <2>5, OneLine
<1>6. ASSUME NEW l \in RpcLines, Verify(l) PROVE GwIInv'
  <2>1. /\ stage[l] = "verify" /\ stage' = [stage EXCEPT ![l] = "success"]
        /\ UNCHANGED <<trail, tokens, worked, answer, sinkFailed>>
    BY <1>6 DEF Verify, Advance
  <2>2. OnlyLine(l) /\ GwTypes' /\ stage'[l] = "success"
    BY <2>1, <1>t DEF OnlyLine, GwTypes
  <2>3. TokensCounted'
    <3>1. Counted' \subseteq Counted
      BY <2>1, <2>2 DEF Counted, OnlyLine
    <3> QED BY <3>1, <2>1, <1>t, CountsKept
  <2>4. LineSound(l)'
    BY <2>1, <2>2, <1>t DEF LineSound, Underway, Depth
  <2> QED BY <2>2, <2>3, <2>4, OneLine
<1>7. ASSUME NEW l \in RpcLines, Succeed(l) PROVE GwIInv'
  <2> DEFINE e == <<"phase", "request_success">>
  <2>1. /\ stage[l] = "success" /\ trail' = [trail EXCEPT ![l] = Append(@, e)]
        /\ answer' = [answer EXCEPT ![l] = "result"]
        /\ stage' = [stage EXCEPT ![l] = "done"]
        /\ UNCHANGED <<tokens, worked, sinkFailed>>
    BY <1>7 DEF Succeed, Log, Conclude, Advance
  <2>2. /\ OnlyLine(l) /\ GwTypes' /\ stage'[l] = "done" /\ answer'[l] = "result"
        /\ trail'[l] = Append(trail[l], e)
    BY <2>1, <1>t DEF OnlyLine, GwTypes
  <2>3. TokensCounted'
    <3>1. Counted' \subseteq Counted
      BY <2>1, <2>2 DEF Counted, OnlyLine
    <3> QED BY <3>1, <2>1, <1>t, CountsKept
  <2>4. trail[l] \in Seq(Events) /\ Len(trail[l]) = 4 /\ PassedFirst(trail[l], 4) /\ l \in worked
    BY <2>1, <1>t DEF LineSound, Underway, Depth
  <2>5. /\ trail'[l] \in Seq(Events) /\ Len(trail'[l]) = 5 /\ trail'[l][5] = e
        /\ DOMAIN trail'[l] = 1 .. 5 /\ \A i \in 1 .. 4 : trail'[l][i] = trail[l][i]
    <3>1. e \in Events
      BY DEF Events
    <3> HIDE DEF e
    <3>2. PICK t, u : t = trail[l] /\ u = trail'[l]
      OBVIOUS
    <3>3. t \in Seq(Events) /\ u = Append(t, e) /\ Len(t) = 4
      BY <3>2, <2>2, <2>4
    <3>4. /\ u \in Seq(Events) /\ Len(u) = Len(t) + 1 /\ u[Len(t) + 1] = e
          /\ DOMAIN u = 1 .. Len(t) + 1 /\ \A i \in 1 .. Len(t) : u[i] = t[i]
      BY ONLY <3>1, <3>3, OneEvent
    <3>5. u \in Seq(Events) /\ Len(u) = 5 /\ u[5] = e /\ DOMAIN u = 1 .. 5
      BY ONLY <3>3, <3>4
    <3> QED BY ONLY <3>2, <3>3, <3>4, <3>5
  <2>6. PassedFirst(trail'[l], 4) /\ \A j \in 1 .. 5 : trail'[l][j] # <<"phase", "request_error">>
    <3>1. PassedFirst(trail'[l], 4)
      BY <2>4, <2>5 DEF PassedFirst
    <3>2. e # <<"phase", "request_error">>
      OBVIOUS
    <3>3. trail'[l][5] = e
      BY <2>5
    <3> HIDE DEF e
    <3>4. \A j \in 1 .. 5 : trail'[l][j] # <<"phase", "request_error">>
      BY ONLY <3>1, <3>2, <3>3, NoErrorYet
    <3> QED BY <3>1, <3>4
  <2>7. LineSound(l)'
    BY ONLY <2>1, <2>2, <2>4, <2>5, <2>6 DEF LineSound, Underway
  <2> QED BY <2>2, <2>3, <2>7, OneLine
<1>8. ASSUME NEW l \in RpcLines, Unverified(l) PROVE GwIInv'
  <2> DEFINE e == <<"phase", "verification_failed">>
  <2>1. /\ stage[l] \in {"work", "verify"} /\ trail' = [trail EXCEPT ![l] = Append(@, e)]
        /\ answer' = [answer EXCEPT ![l] = "internal"]
        /\ stage' = [stage EXCEPT ![l] = "done"]
        /\ UNCHANGED <<tokens, worked, sinkFailed>>
    BY <1>8 DEF Unverified, Log, Conclude, Advance
  <2>2. /\ OnlyLine(l) /\ GwTypes' /\ stage'[l] = "done" /\ answer'[l] = "internal"
        /\ trail'[l] = Append(trail[l], e)
    BY <2>1, <1>t DEF OnlyLine, GwTypes
  <2>3. TokensCounted'
    <3>1. Counted' \subseteq Counted
      BY <2>1, <2>2 DEF Counted, OnlyLine
    <3> QED BY <3>1, <2>1, <1>t, CountsKept
  <2>4. trail[l] \in Seq(Events) /\ Len(trail[l]) = 4 /\ PassedFirst(trail[l], 4)
    BY <2>1, <1>t DEF LineSound, Underway, Depth
  <2>5. /\ trail'[l] \in Seq(Events) /\ Len(trail'[l]) = 5 /\ trail'[l][5] = e
        /\ DOMAIN trail'[l] = 1 .. 5 /\ \A i \in 1 .. 4 : trail'[l][i] = trail[l][i]
    <3>1. e \in Events
      BY DEF Events
    <3> HIDE DEF e
    <3>2. PICK t, u : t = trail[l] /\ u = trail'[l]
      OBVIOUS
    <3>3. t \in Seq(Events) /\ u = Append(t, e) /\ Len(t) = 4
      BY <3>2, <2>2, <2>4
    <3>4. /\ u \in Seq(Events) /\ Len(u) = Len(t) + 1 /\ u[Len(t) + 1] = e
          /\ DOMAIN u = 1 .. Len(t) + 1 /\ \A i \in 1 .. Len(t) : u[i] = t[i]
      BY ONLY <3>1, <3>3, OneEvent
    <3>5. u \in Seq(Events) /\ Len(u) = 5 /\ u[5] = e /\ DOMAIN u = 1 .. 5
      BY ONLY <3>3, <3>4
    <3> QED BY ONLY <3>2, <3>3, <3>4, <3>5
  <2>6. PassedFirst(trail'[l], 4) /\ \A j \in 1 .. 5 : trail'[l][j] # <<"phase", "request_error">>
    <3>1. PassedFirst(trail'[l], 4)
      BY <2>4, <2>5 DEF PassedFirst
    <3>2. e # <<"phase", "request_error">>
      OBVIOUS
    <3>3. trail'[l][5] = e
      BY <2>5
    <3> HIDE DEF e
    <3>4. \A j \in 1 .. 5 : trail'[l][j] # <<"phase", "request_error">>
      BY ONLY <3>1, <3>2, <3>3, NoErrorYet
    <3> QED BY <3>1, <3>4
  <2>7. LineSound(l)'
    BY ONLY <2>1, <2>2, <2>4, <2>5, <2>6 DEF LineSound, Underway
  <2> QED BY <2>2, <2>3, <2>7, OneLine
<1>9. ASSUME NEW l \in RpcLines, Catch(l) PROVE GwIInv'
  <2> DEFINE e == <<"phase", "request_error">>
             t == trail[l]
             code == IF t = <<>> \/ l \in sinkFailed THEN "internal" ELSE t[Len(t)][2]
  <2>1. /\ stage[l] = "thrown" /\ trail' = [trail EXCEPT ![l] = Append(@, e)]
        /\ answer' = [answer EXCEPT ![l] = code]
        /\ stage' = [stage EXCEPT ![l] = "done"]
        /\ UNCHANGED <<tokens, worked, sinkFailed>>
    BY <1>9 DEF Catch, Log, Conclude, Advance
  <2>2. /\ OnlyLine(l) /\ GwTypes' /\ stage'[l] = "done" /\ answer'[l] = code
        /\ trail'[l] = Append(t, e)
    BY <2>1, <1>t DEF OnlyLine, GwTypes
  <2>3. TokensCounted'
    <3>1. Counted' \subseteq Counted
      BY <2>1, <2>2 DEF Counted, OnlyLine
    <3> QED BY <3>1, <2>1, <1>t, CountsKept
  <2>4. /\ t \in Seq(Events)
        /\ l \in worked => Len(t) >= 4 /\ PassedFirst(t, 4)
        /\ l \notin sinkFailed => RefusedTrail(t) /\ l \notin worked
    BY <2>1, <1>t DEF LineSound, Underway
  <2>5. /\ trail'[l] \in Seq(Events) /\ Len(trail'[l]) = Len(t) + 1 /\ Len(t) \in Nat
        /\ DOMAIN trail'[l] = 1 .. Len(t) + 1 /\ trail'[l][Len(t) + 1] = e
        /\ \A i \in 1 .. Len(t) : trail'[l][i] = t[i]
    <3>1. e \in Events
      BY DEF Events
    <3> QED BY <3>1, <2>2, <2>4, OneEvent
  (* A line refused by a stage has that refusal as its last event. *)
  <2>6. ASSUME l \notin sinkFailed
        PROVE  /\ code # "result"
               /\ \A k \in 1 .. Len(t) : /\ t[k] # e
                                         /\ t[k][1] = "deny" => code = t[k][2]
    <3>1. CASE Len(t) = 0
      <4>1. t = <<>>
        BY <3>1, <2>4
      <4> QED BY <4>1, <3>1
    <3>2. CASE \E n \in 1 .. 3 : /\ Len(t) = n + 1 /\ PassedFirst(t, n)
                                 /\ t[n + 1] \in {<<"deny", s>> :
                                      s \in {"allowlist", "authorize", "rateLimit"}}
      <4>1. PICK n \in 1 .. 3, s \in {"allowlist", "authorize", "rateLimit"} :
              Len(t) = n + 1 /\ PassedFirst(t, n) /\ t[n + 1] = <<"deny", s>>
        BY <3>2
      <4>2. t # <<>> /\ code = s
        BY <2>6, <4>1
      <4>3. \A k \in 1 .. n : t[k] # e /\ t[k][1] # "deny"
        <5>1. \A k \in 1 .. 3 : Allows[k] # e /\ Allows[k][1] # "deny"
          BY DEF Allows
        <5> QED BY <5>1, <4>1 DEF PassedFirst
      <4>4. \A k \in 1 .. Len(t) : k \in 1 .. n \/ k = n + 1
        BY <4>1
      <4>5. t[n + 1] # e /\ t[n + 1][2] = s
        BY <4>1
      <4> HIDE DEF code, e, t
      <4> QED BY <4>2, <4>3, <4>4, <4>5
    <3> QED BY <2>4, <2>6, <3>1, <3>2 DEF RefusedTrail
  <2>7. l \in worked => Len(trail'[l]) >= 4 /\ PassedFirst(trail'[l], 4)
    BY <2>4, <2>5 DEF PassedFirst
  <2>8. code # "result"
    BY <2>6
  <2>9. LineSound(l)'
    <3>1. l \notin sinkFailed' =>
            \A j \in DOMAIN trail'[l] : trail'[l][j] = e =>
              /\ j = Len(trail'[l]) /\ l \notin worked'
              /\ \A k \in 1 .. j - 1 : trail'[l][k][1] = "deny" => answer'[l] = trail'[l][k][2]
      BY <2>1, <2>2, <2>4, <2>5, <2>6
    <3> HIDE DEF code, t
    <3> QED BY ONLY <3>1, <2>1, <2>2, <2>5, <2>7, <2>8 DEF LineSound, Underway
  <2> QED BY <2>2, <2>3, <2>9, OneLine
<1>10. ASSUME NEW l \in RpcLines, SinkFails(l) PROVE GwIInv'
  <2>1. /\ sinkFailed' = sinkFailed \cup {l} /\ UNCHANGED <<trail, worked>>
        /\ stage[l] \in {"invalid", "received", "allowlist", "authorize", "rateLimit",
                         "success", "thrown"}
        /\ IF stage[l] = "thrown"
           THEN /\ answer' = [answer EXCEPT ![l] = "rejected"]
                /\ stage' = [stage EXCEPT ![l] = "done"]
           ELSE answer' = answer /\ stage' = [stage EXCEPT ![l] = "thrown"]
    BY <1>10 DEF SinkFails, Conclude, Advance
  <2>2. /\ OnlyLine(l) /\ GwTypes'
        /\ \/ stage[l] = "thrown" /\ stage'[l] = "done" /\ answer'[l] = "rejected"
           \/ stage[l] # "thrown" /\ stage'[l] = "thrown" /\ answer'[l] = answer[l]
    BY <2>1, <1>t DEF OnlyLine, GwTypes
  <2>3. TokensCounted'
    <3>1. Counted' \subseteq Counted
      BY <2>1, <2>2 DEF Counted, OnlyLine
    <3>2. tokens' \in Nat /\ tokens <= tokens' /\ tokens' <= TokenQuota
      BY <1>10, <1>t, McpGatewayAssumption DEF SinkFails, StageAllowed
    <3> QED BY <3>1, <3>2, <1>t, CountsKept
  <2>4. LineSound(l)'
    BY <2>1, <2>2, <1>t DEF LineSound, Underway
  <2> QED BY <2>2, <2>3, <2>4, OneLine
<1>11. CASE UNCHANGED gwVars
  BY <1>11 DEF gwVars, GwIInv, GwTypes, LineSound, TokensCounted, Counted
<1> QED
  BY <1>1, <1>2, <1>3, <1>4, <1>5, <1>6, <1>7, <1>8, <1>9, <1>10, <1>11
     DEF McpGatewayNext, HandleLine

(* What a line is answered with is what its audit trail says, and no more  *)
(* tasks run than there are tokens, for any lines handled together         *)
(* (createAipMcpGatewayRuntime).                                           *)
THEOREM TrailsMatch == McpGatewaySpec => []AnswerMatchesTrail
<1>1. McpGatewayInit => GwIInv
  BY GwInit
<1>2. GwIInv /\ [McpGatewayNext]_gwVars => GwIInv'
  BY GwNext
<1>3. GwIInv => AnswerMatchesTrail
  <2> SUFFICES ASSUME GwIInv PROVE AnswerMatchesTrail
    OBVIOUS
  <2>1. ResultFullyAudited
    <3> SUFFICES ASSUME NEW l \in RpcLines, answer[l] = "result"
                 PROVE  /\ l \in worked
                        /\ trail[l] = <<Allows[1], Allows[2], Allows[3], Allows[4],
                                        <<"phase", "request_success">>>>
      BY DEF ResultFullyAudited, Allows
    <3>1. /\ trail[l] \in Seq(Events) /\ l \in worked /\ Len(trail[l]) = 5
          /\ PassedFirst(trail[l], 4) /\ trail[l][5] = <<"phase", "request_success">>
      BY DEF GwIInv, LineSound
    <3>2. /\ trail[l][1] = Allows[1] /\ trail[l][2] = Allows[2]
          /\ trail[l][3] = Allows[3] /\ trail[l][4] = Allows[4]
      BY <3>1 DEF PassedFirst
    <3>3. trail[l] = [i \in 1 .. 5 |-> trail[l][i]]
      BY <3>1
    <3> QED BY <3>1, <3>2, <3>3
  <2>2. WorkWithinTokens
    <3>1. Cardinality(worked) <= TokenQuota
      <4>1. worked \subseteq Counted /\ IsFiniteSet(Counted) /\ Cardinality(Counted) <= tokens
        BY DEF GwIInv, TokensCounted, Counted
      <4>2. /\ IsFiniteSet(worked) /\ Cardinality(worked) <= Cardinality(Counted)
            /\ Cardinality(worked) \in Nat /\ Cardinality(Counted) \in Nat
        BY <4>1, FS_Subset, FS_CardinalityType
      <4> QED BY <4>1, <4>2, McpGatewayAssumption DEF GwIInv, TokensCounted
    <3>2. ASSUME NEW l \in worked
          PROVE  \E j \in DOMAIN trail[l] : trail[l][j] = <<"allow", "rateLimit">>
      <4>1. trail[l] \in Seq(Events) /\ Len(trail[l]) >= 4 /\ PassedFirst(trail[l], 4)
        BY DEF GwIInv, GwTypes, LineSound
      <4>2. 4 \in DOMAIN trail[l] /\ trail[l][4] = Allows[4]
        BY <4>1 DEF PassedFirst
      <4> QED BY <4>2 DEF Allows
    <3> QED BY <3>1, <3>2 DEF WorkWithinTokens
  <2>3. RefusalIsFinal
    BY DEF GwIInv, LineSound, RefusalIsFinal
  <2> QED BY <2>1, <2>2, <2>3 DEF AnswerMatchesTrail
<1> QED BY <1>1, <1>2, <1>3, PTL DEF McpGatewaySpec

-----------------------------------------------------------------------------
(* MCP client and server                                                   *)

McpTypes ==
  /\ call = [c \in Calls |-> call[c]]
  /\ inbox = [c \in Calls |-> inbox[c]]
  /\ ran = [c \in Calls |-> ran[c]]
  /\ pending \in Seq(Calls)

(* The handler has run for what the server has seen, once, and for what    *)
(* its replies call an answer.                                             *)
RanWhenSeen == \A c \in Calls : ran[c] = IF c \in serverSeen THEN 1 ELSE 0

AnswersRan == \A r \in replies : r.kind = "answer" => r.re \in Calls /\ ran[r.re] = 1

(* Over stdio a call waits in the queue once, and until a line reached it; *)
(* over HTTP nobody does.                                                  *)
QueueUnanswered ==
  /\ carrier = "http" => pending = <<>>
  /\ carrier # "http" =>
       /\ \A i \in 1 .. Len(pending) : /\ inbox[pending[i]] = NoLine
                                       /\ call[pending[i]] # "idle"
       /\ \A i, j \in 1 .. Len(pending) : pending[i] = pending[j] => i = j
       /\ \A c \in Calls : call[c] = "idle" => inbox[c] = NoLine

(* A call that ended had a line, and one that returned had the reply to it. *)
EndedOnALine ==
  \A c \in Calls :
    /\ call[c] \in {"returned", "refused"} => inbox[c] # NoLine
    /\ call[c] = "returned" => inbox[c] \in replies /\ inbox[c].re = c

McpIInv == McpTypes /\ RanWhenSeen /\ AnswersRan /\ QueueUnanswered /\ EndedOnALine

LEMMA McpInitInv == McpInit => McpIInv
<1> SUFFICES ASSUME McpInit PROVE McpIInv
  OBVIOUS
<1>1. McpTypes
  BY DEF McpInit, McpTypes
<1>2. RanWhenSeen /\ AnswersRan
  BY DEF McpInit, RanWhenSeen, AnswersRan
<1>3. QueueUnanswered /\ EndedOnALine
  BY DEF McpInit, QueueUnanswered, EndedOnALine
<1> QED BY <1>1, <1>2, <1>3 DEF McpIInv

(* The handler runs for a line it has not seen (wrapMcpServer). *)
LEMMA HandledOnce ==
  ASSUME McpIInv, NEW j, Handle(j)
  PROVE  /\ ran' = [c \in Calls |-> ran'[c]] /\ RanWhenSeen'
         /\ \A c \in Calls : ran[c] = 1 => ran'[c] = 1
         /\ Fresh(up[j].msg) => up[j].msg \in Calls /\ ran'[up[j].msg] = 1
<1> DEFINE line == up[j].msg
<1>1. /\ ran' = IF Fresh(line) THEN [ran EXCEPT ![line] = @ + 1] ELSE ran
      /\ serverSeen' = IF line = Junk THEN serverSeen ELSE serverSeen \cup {line}
  BY DEF Handle
<1>2. McpTypes /\ RanWhenSeen
  BY DEF McpIInv
<1> HIDE DEF line
<1>3. CASE Fresh(line)
  <2>1. line \in Calls /\ line \notin serverSeen /\ line # Junk
    BY <1>3, McpChannelAssumption DEF Fresh
  <2>2. /\ ran' = [c \in Calls |-> IF c = line THEN ran[c] + 1 ELSE ran[c]]
        /\ serverSeen' = serverSeen \cup {line}
    BY <1>1, <1>2, <1>3, <2>1 DEF McpTypes
  <2>3. RanWhenSeen'
    BY <2>1, <2>2, <1>2 DEF RanWhenSeen
  <2> QED BY <2>1, <2>2, <2>3, <1>2 DEF RanWhenSeen, line
<1>4. CASE ~Fresh(line)
  <2>1. ran' = ran /\ \A c \in Calls : c \in serverSeen' <=> c \in serverSeen
    BY <1>1, <1>4 DEF Fresh
  <2>2. RanWhenSeen'
    BY <2>1, <1>2 DEF RanWhenSeen
  <2> QED BY <2>1, <2>2, <1>2, <1>4 DEF McpTypes, line
<1> QED BY <1>3, <1>4

(* A line reaches a call that has none. *)
LEMMA LineArrives ==
  ASSUME McpIInv, NEW c \in Calls, NEW line, inbox[c] = NoLine,
         carrier = "http", inbox' = [inbox EXCEPT ![c] = line],
         replies \subseteq replies', UNCHANGED <<carrier, call, pending>>
  PROVE  /\ inbox' = [d \in Calls |-> inbox'[d]] /\ QueueUnanswered' /\ EndedOnALine'
<1>1. /\ inbox' = [d \in Calls |-> IF d = c THEN line ELSE inbox[d]]
  BY DEF McpIInv, McpTypes
<1>2. call[c] \notin {"returned", "refused"}
  BY DEF McpIInv, EndedOnALine
<1>3. EndedOnALine'
  BY <1>1, <1>2 DEF McpIInv, EndedOnALine
<1> QED BY <1>1, <1>3 DEF QueueUnanswered, McpIInv

(* No call is given a line. *)
LEMMA NoLineArrives ==
  ASSUME McpIInv, replies \subseteq replies', UNCHANGED <<carrier, call, pending, inbox>>
  PROVE  QueueUnanswered' /\ EndedOnALine'
BY DEF McpIInv, QueueUnanswered, EndedOnALine

LEMMA ResolveKeeps ==
  ASSUME McpIInv, NEW entry, NEW line, Resolve(entry, line), replies \subseteq replies',
         carrier \in {"stdio", "http"}, UNCHANGED <<carrier, call, pending>>
  PROVE  /\ inbox' = [d \in Calls |-> inbox'[d]] /\ QueueUnanswered' /\ EndedOnALine'
<1>1. CASE UNCHANGED inbox
  BY <1>1, NoLineArrives DEF McpIInv, McpTypes
<1>2. CASE carrier = "http" /\ inbox[entry.msg] = NoLine
           /\ inbox' = [inbox EXCEPT ![entry.msg] = line]
  <2>1. CASE entry.msg \in Calls
    <3>1. PICK c \in Calls : c = entry.msg
      BY <2>1
    <3> QED BY <3>1, <1>2, LineArrives
  <2>2. CASE entry.msg \notin Calls
    <3>1. inbox' = inbox
      BY <2>2, <1>2 DEF McpIInv, McpTypes
    <3> QED BY <3>1, <1>1
  <2> QED BY <2>1, <2>2
<1> QED BY <1>1, <1>2 DEF Resolve

LEMMA McpNextInv == McpIInv /\ carrier \in {"stdio", "http"} /\ [McpNext]_mcpVars => McpIInv'
<1> SUFFICES ASSUME McpIInv, carrier \in {"stdio", "http"}, [McpNext]_mcpVars PROVE McpIInv'
  OBVIOUS
<1>t. McpTypes /\ RanWhenSeen /\ AnswersRan /\ QueueUnanswered /\ EndedOnALine
  BY DEF McpIInv
<1>1. ASSUME NEW c \in Calls, Send(c) PROVE McpIInv'
  <2>1. /\ call[c] = "idle" /\ call' = [call EXCEPT ![c] = "waiting"]
        /\ pending' = IF carrier = "stdio" THEN Append(pending, c) ELSE pending
        /\ UNCHANGED <<carrier, inbox, ran, serverSeen, replies>>
    BY <1>1 DEF Send
  <2>2. /\ call' = [d \in Calls |-> IF d = c THEN "waiting" ELSE call[d]]
        /\ pending \in Seq(Calls) /\ pending' \in Seq(Calls)
    BY <2>1, <1>t DEF McpTypes
  <2>3. McpTypes' /\ RanWhenSeen' /\ AnswersRan' /\ EndedOnALine'
    BY <2>1, <2>2, <1>t DEF McpTypes, RanWhenSeen, AnswersRan, EndedOnALine
  <2>4. QueueUnanswered'
    <3>1. CASE carrier = "http"
      BY <3>1, <2>1, <1>t DEF QueueUnanswered
    <3>2. CASE carrier = "stdio"
      <4>1. /\ pending' = Append(pending, c) /\ Len(pending') = Len(pending) + 1
            /\ Len(pending) \in Nat /\ pending'[Len(pending) + 1] = c
            /\ \A i \in 1 .. Len(pending) : pending'[i] = pending[i] /\ pending[i] \in Calls
        BY <3>2, <2>1, <2>2
      <4>2. /\ \A i \in 1 .. Len(pending) :
                 inbox[pending[i]] = NoLine /\ call[pending[i]] # "idle"
            /\ \A i, j \in 1 .. Len(pending) : pending[i] = pending[j] => i = j
            /\ \A d \in Calls : call[d] = "idle" => inbox[d] = NoLine
        BY <3>2, <1>t DEF QueueUnanswered
      <4>3. \A i \in 1 .. Len(pending') : i \in 1 .. Len(pending) \/ i = Len(pending) + 1
        BY <4>1
      <4>4. \A i \in 1 .. Len(pending') : /\ inbox'[pending'[i]] = NoLine
                                          /\ call'[pending'[i]] # "idle"
        BY <4>1, <4>2, <4>3, <2>1, <2>2
      <4>5. \A i, j \in 1 .. Len(pending') : pending'[i] = pending'[j] => i = j
        BY <4>1, <4>2, <4>3, <2>1
      <4>6. \A d \in Calls : call'[d] = "idle" => inbox'[d] = NoLine
        BY <4>2, <2>1, <2>2
      <4> QED BY <4>4, <4>5, <4>6, <3>2, <2>1 DEF QueueUnanswered
    <3> QED BY <3>1, <3>2
  <2> QED BY <2>3, <2>4 DEF McpIInv
<1>2. ASSUME NEW c \in Calls, Decode(c) PROVE McpIInv'
  <2>1. /\ call[c] = "waiting" /\ inbox[c] # NoLine
        /\ call' = [call EXCEPT ![c] = IF Accepted(c) THEN "returned" ELSE "refused"]
        /\ UNCHANGED <<carrier, pending, inbox, ran, serverSeen, replies>>
    BY <1>2 DEF Decode
  <2>2. call' = [d \in Calls |-> IF d # c THEN call[d]
                                 ELSE IF Accepted(c) THEN "returned" ELSE "refused"]
    BY <2>1, <1>t DEF McpTypes
  <2>3. McpTypes' /\ RanWhenSeen' /\ AnswersRan'
    BY <2>1, <2>2, <1>t DEF McpTypes, RanWhenSeen, AnswersRan
  <2>4. EndedOnALine'
    BY <2>1, <2>2, <1>t DEF EndedOnALine, Accepted
  <2>5. QueueUnanswered'
    <3>1. \A i \in 1 .. Len(pending) : pending[i] \in Calls
      BY <1>t DEF McpTypes
    <3> QED BY <3>1, <2>1, <2>2, <1>t DEF QueueUnanswered
  <2> QED BY <2>3, <2>4, <2>5 DEF McpIInv
<1>3. CASE Serve
  <2>1. PICK j \in Turns :
          LET line == Reply(up[j].msg, IF Fresh(up[j].msg) THEN "answer" ELSE "refusal",
                            Cardinality(replies) + 1)
          IN  Handle(j) /\ Resolve(up[j], line) /\ replies' = replies \cup {line}
    BY <1>3 DEF Serve
  <2> DEFINE line == Reply(up[j].msg, IF Fresh(up[j].msg) THEN "answer" ELSE "refusal",
                           Cardinality(replies) + 1)
  <2>2. /\ Handle(j) /\ Resolve(up[j], line) /\ replies' = replies \cup {line}
        /\ UNCHANGED <<carrier, call, pending>>
    BY <2>1 DEF Handle
  <2>3. /\ ran' = [c \in Calls |-> ran'[c]] /\ RanWhenSeen'
        /\ \A c \in Calls : ran[c] = 1 => ran'[c] = 1
        /\ Fresh(up[j].msg) => up[j].msg \in Calls /\ ran'[up[j].msg] = 1
    BY <2>2, HandledOnce
  <2>4. line.kind = "answer" => line.re \in Calls /\ ran'[line.re] = 1
    BY <2>3 DEF Reply
  <2> HIDE DEF line
  <2>5. AnswersRan'
    BY <2>2, <2>3, <2>4, <1>t DEF AnswersRan
  <2>6. inbox' = [d \in Calls |-> inbox'[d]] /\ QueueUnanswered' /\ EndedOnALine'
    BY <2>2, ResolveKeeps
  <2> QED BY <2>2, <2>3, <2>5, <2>6, <1>t DEF McpIInv, McpTypes
<1>4. CASE SignFails
  <2>1. PICK j \in Turns : /\ Handle(j) /\ UNCHANGED replies
                           /\ UNCHANGED inbox \/ Resolve(up[j], Unreadable)
    BY <1>4 DEF SignFails
  <2>2. UNCHANGED <<carrier, call, pending>>
    BY <2>1 DEF Handle
  <2>3. /\ ran' = [c \in Calls |-> ran'[c]] /\ RanWhenSeen'
        /\ \A c \in Calls : ran[c] = 1 => ran'[c] = 1
    BY <2>1, HandledOnce
  <2>4. AnswersRan'
    BY <2>1, <2>3, <1>t DEF AnswersRan
  <2>5. inbox' = [d \in Calls |-> inbox'[d]] /\ QueueUnanswered' /\ EndedOnALine'
    <3>1. CASE UNCHANGED inbox
      BY <3>1, <2>1, <2>2, <1>t, NoLineArrives DEF McpTypes
    <3>2. CASE Resolve(up[j], Unreadable)
      BY <3>2, <2>1, <2>2, ResolveKeeps
    <3> QED BY <2>1, <3>1, <3>2
  <2> QED BY <2>2, <2>3, <2>4, <2>5, <1>t DEF McpIInv, McpTypes
<1>5. CASE ReadLine
  <2>1. UNCHANGED <<carrier, call, ran, serverSeen, replies>>
    BY <1>5 DEF ReadLine
  <2>2. RanWhenSeen' /\ AnswersRan'
    BY <2>1, <1>t DEF RanWhenSeen, AnswersRan
  <2>3. CASE pending = <<>>
    <3>1. UNCHANGED <<pending, inbox>>
      BY <1>5, <2>3 DEF ReadLine
    <3> QED BY <3>1, <2>1, <2>2, <1>t, NoLineArrives DEF McpIInv, McpTypes
  <2>4. CASE pending # <<>>
    <3> DEFINE h == Head(pending)
    <3>1. inbox' = [inbox EXCEPT ![h] = Head(down)] /\ pending' = Tail(pending)
      BY <1>5, <2>4 DEF ReadLine
    <3>2. /\ h \in Calls /\ h = pending[1] /\ Len(pending) \in Nat \ {0}
          /\ pending' \in Seq(Calls) /\ Len(pending') = Len(pending) - 1
          /\ \A i \in 1 .. Len(pending') : pending'[i] = pending[i + 1] /\ pending'[i] \in Calls
      BY <3>1, <2>4, <1>t DEF McpTypes
    <3> HIDE DEF h
    <3>3. inbox' = [d \in Calls |-> IF d = h THEN Head(down) ELSE inbox[d]]
      BY <3>1, <3>2, <1>t DEF McpTypes
    <3>4. /\ carrier # "http" /\ inbox[h] = NoLine /\ call[h] # "idle"
          /\ \A i \in 1 .. Len(pending) :
               inbox[pending[i]] = NoLine /\ call[pending[i]] # "idle"
          /\ \A i, j \in 1 .. Len(pending) : pending[i] = pending[j] => i = j
          /\ \A c \in Calls : call[c] = "idle" => inbox[c] = NoLine
      BY <3>2, <2>4, <1>t DEF QueueUnanswered
    <3>5. EndedOnALine'
      BY <3>3, <3>4, <2>1, <1>t DEF EndedOnALine
    <3>6. \A i \in 1 .. Len(pending') : i + 1 \in 1 .. Len(pending) /\ pending'[i] # h
      BY <3>2, <3>4
    <3>7. QueueUnanswered'
      <4>1. \A i \in 1 .. Len(pending') : /\ inbox'[pending'[i]] = NoLine
                                          /\ call'[pending'[i]] # "idle"
        <5> SUFFICES ASSUME NEW i \in 1 .. Len(pending')
                     PROVE  inbox'[pending'[i]] = NoLine /\ call'[pending'[i]] # "idle"
          OBVIOUS
        <5>1. PICK d \in Calls : d = pending'[i]
          BY <3>2
        <5>2. d # h /\ inbox[d] = NoLine /\ call[d] # "idle"
          BY <5>1, <3>2, <3>4, <3>6
        <5>3. inbox'[d] = NoLine
          BY ONLY <5>2, <3>3, d \in Calls
        <5> QED BY <5>1, <5>2, <5>3, <2>1
      <4>2. \A i, j \in 1 .. Len(pending') : pending'[i] = pending'[j] => i = j
        BY <3>2, <3>4, <3>6
      <4>3. \A c \in Calls : call'[c] = "idle" => inbox'[c] = NoLine
        BY <3>3, <3>4, <2>1
      <4> QED BY <4>1, <4>2, <4>3, <3>4, <2>1 DEF QueueUnanswered
    <3>8. McpTypes'
      BY <3>2, <3>3, <2>1, <1>t DEF McpTypes
    <3> QED BY <3>5, <3>7, <3>8, <2>2 DEF McpIInv
  <2> QED BY <2>3, <2>4
<1>6. ASSUME NEW c \in Calls, NEW line, AnswerInstead(c, line) PROVE McpIInv'
  <2>1. /\ carrier = "http" /\ inbox[c] = NoLine /\ inbox' = [inbox EXCEPT ![c] = line]
        /\ UNCHANGED <<carrier, call, pending, ran, serverSeen, replies>>
    BY <1>6 DEF AnswerInstead
  <2>2. inbox' = [d \in Calls |-> inbox'[d]] /\ QueueUnanswered' /\ EndedOnALine'
    BY <2>1, LineArrives
  <2> QED BY <2>1, <2>2, <1>t DEF McpIInv, McpTypes, RanWhenSeen, AnswersRan
<1>7. ASSUME UNCHANGED <<carrier, call, pending, inbox, ran, serverSeen, replies>>
      PROVE  McpIInv'
  BY <1>7, <1>t, NoLineArrives DEF McpIInv, McpTypes, RanWhenSeen, AnswersRan
<1>8. ASSUME NEW m, InsertUp(m) PROVE McpIInv'
  BY <1>8, <1>7 DEF InsertUp
<1>9. ASSUME NEW line, InsertDown(line) PROVE McpIInv'
  BY <1>9, <1>7 DEF InsertDown
<1>10. CASE UNCHANGED mcpVars
  BY <1>10, <1>7 DEF mcpVars
<1> QED
  BY <1>1, <1>2, <1>3, <1>4, <1>5, <1>6, <1>8, <1>9, <1>10 DEF McpNext

(* A request runs once, and a call returns the reply to it, whatever lines *)
(* are inserted, repeated or missing on either carrier (wrapMcpServer,     *)
(* wrapMcpClient).                                                         *)
THEOREM OnceForItsCaller == McpSpec => []RunsOnceForItsCaller
<1> DEFINE I == McpIInv /\ carrier \in {"stdio", "http"}
<1>1. McpInit => I
  BY McpInitInv DEF McpInit
<1>2. I /\ [McpNext]_mcpVars => I'
  <2>1. [McpNext]_mcpVars => carrier' = carrier
    BY DEF McpNext, mcpVars, Send, Decode, AnswerInstead, Serve, Handle, SignFails, ReadLine,
           InsertUp, InsertDown
  <2> QED BY <2>1, McpNextInv
<1>3. I => RunsOnceForItsCaller
  BY DEF McpIInv, RanWhenSeen, AnswersRan, EndedOnALine, RunsOnceForItsCaller,
         HandlerRunsOnce, NoCrossTalk
<1> HIDE DEF I
<1>4. McpSpec => []I
  BY <1>1, <1>2, PTL DEF McpSpec
<1> QED BY <1>3, <1>4, PTL
=============================================================================
