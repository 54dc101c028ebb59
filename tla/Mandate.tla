------------------------------- MODULE Mandate ------------------------------
(***************************************************************************)
(* verifyPayment() and the caller that charges after it, over one intent:  *)
(* the spend ledger's reservations, the human approval of large payments,  *)
(* and the hand-back of a reservation.  Presentations of the same or of    *)
(* different payments run concurrently; an action is what runs between two *)
(* awaits.  Expiry is not modelled: a payment or a grant may be refused at *)
(* any presentation.                                                       *)
(***************************************************************************)
EXTENDS Integers, FiniteSetsExt

CONSTANTS Presentations,      \* concurrent verifyPayment() calls
          Payments,           \* the payment mandates that may be presented
          Ids,                \* payment ids, the ledger's keys
          Grants,             \* the approval grants that may come with them
          NoPayment, NoGrant,
          Ceiling,            \* constraints.maxTotalMinor
          Threshold           \* constraints.requireApprovalAboveMinor

(* valid: shape, lifetimes, parties, chain, signatures, cart total, and    *)
(* the intent's own constraints are in order.                              *)
ASSUME MandateAssumption ==
  /\ Payments \subseteq [id : Ids, amount : Nat, valid : BOOLEAN]
  /\ IsFiniteSet(Ids)
  /\ Grants \subseteq [for : Payments, genuine : BOOLEAN]
  /\ NoPayment \notin Payments
  /\ NoGrant \notin Grants
  /\ Ceiling \in Nat \ {0}
  /\ Threshold \in Nat

VARIABLES ledger,             \* payment id -> reserved amount, or None
          used,               \* grants the approval replay store has seen
          pc, pay, grant,     \* the presentations
          (* history, read by the properties only *)
          charges,            \* how often each id was charged
          stranded            \* ids whose reservation an exception left behind

callVars == <<pc, pay, grant>>
vars == <<ledger, used, callVars, charges, stranded>>

None == -1

PCs == {"idle", "checking", "reserved", "releasing", "authorised", "charged", "failed"}

NeedsApproval(p) == p.amount > Threshold

Reserved(l) == {i \in Ids : l[i] # None}

Total(l) == MapThenSumSet(LAMBDA i : l[i], Reserved(l))

Init ==
  /\ ledger = [i \in Ids |-> None]
  /\ used = {}
  /\ pc = [c \in Presentations |-> "idle"]
  /\ pay = [c \in Presentations |-> NoPayment]
  /\ grant = [c \in Presentations |-> NoGrant]
  /\ charges = [i \in Ids |-> 0]
  /\ stranded = {}

Goto(c, from, to) == pc[c] = from /\ pc' = [pc EXCEPT ![c] = to]

Present(c, p, g) ==
  /\ Goto(c, "idle", "checking")
  /\ pay' = [pay EXCEPT ![c] = p]
  /\ grant' = [grant EXCEPT ![c] = g]
  /\ UNCHANGED <<ledger, used, charges, stranded>>

(* Any check before the ledger fails, or a key lookup finds nothing or     *)
(* throws.                                                                 *)
Refuse(c) ==
  /\ Goto(c, "checking", "failed")
  /\ UNCHANGED <<ledger, used, pay, grant, charges, stranded>>

(* ledger.reserve: 'duplicate' or 'exceeds-ceiling' *)
ReserveRefused(c) ==
  /\ Goto(c, "checking", "failed")
  /\ pay[c].valid
  /\ \/ ledger[pay[c].id] # None
     \/ pay[c].amount + Total(ledger) > Ceiling
  /\ UNCHANGED <<ledger, used, pay, grant, charges, stranded>>

(* Fault: the ceiling is checked against the payment alone. *)
ReserveOverCeiling(c) ==
  /\ Goto(c, "checking", "reserved")
  /\ pay[c].valid
  /\ ledger[pay[c].id] = None
  /\ pay[c].amount <= Ceiling
  /\ ledger' = [ledger EXCEPT ![pay[c].id] = pay[c].amount]
  /\ UNCHANGED <<used, pay, grant, charges, stranded>>

(* Fault: a payment that has a reservation is reserved again. *)
ReserveAgain(c) ==
  /\ Goto(c, "checking", "reserved")
  /\ pay[c].valid
  /\ pay[c].amount + Total(ledger) <= Ceiling
  /\ ledger' = [ledger EXCEPT ![pay[c].id] = pay[c].amount]
  /\ UNCHANGED <<used, pay, grant, charges, stranded>>

(* ledger.reserve: 'reserved' *)
Reserve(c) ==
  /\ Goto(c, "checking", "reserved")
  /\ pay[c].valid
  /\ ledger[pay[c].id] = None
  /\ pay[c].amount + Total(ledger) <= Ceiling
  /\ ledger' = [ledger EXCEPT ![pay[c].id] = pay[c].amount]
  /\ UNCHANGED <<used, pay, grant, charges, stranded>>

(* ledger.release(payment id) *)
GiveBack(c) == ledger' = [ledger EXCEPT ![pay[c].id] = None]

(* A small payment is authorised once its reservation stands. *)
AuthoriseSmall(c) ==
  /\ Goto(c, "reserved", "authorised")
  /\ ~NeedsApproval(pay[c])
  /\ UNCHANGED <<ledger, used, pay, grant, charges, stranded>>

(* A large payment without a grant: the reservation is given back. *)
NoApproval(c) ==
  /\ Goto(c, "reserved", "failed")
  /\ NeedsApproval(pay[c]) /\ grant[c] = NoGrant
  /\ GiveBack(c)
  /\ UNCHANGED <<used, pay, grant, charges, stranded>>

(* verifyApproval answers no: another payment's or a forged grant, a used  *)
(* one, an expired one, an unknown approver.                               *)
ApprovalFails(c) ==
  /\ Goto(c, "reserved", "releasing")
  /\ NeedsApproval(pay[c]) /\ grant[c] # NoGrant
  /\ UNCHANGED <<ledger, used, pay, grant, charges, stranded>>

Release(c) ==
  /\ Goto(c, "releasing", "failed")
  /\ GiveBack(c)
  /\ UNCHANGED <<used, pay, grant, charges, stranded>>

(* verifyApproval throws: the approver lookup or the replay store is down. *)
(* The exception leaves verifyPayment past the release.                    *)
ApprovalThrows(c) ==
  /\ Goto(c, "reserved", "failed")
  /\ NeedsApproval(pay[c]) /\ grant[c] # NoGrant
  /\ stranded' = stranded \cup {pay[c].id}
  /\ UNCHANGED <<ledger, used, pay, grant, charges>>

(* verifyApproval consumes the grant; module Approval shows it does so     *)
(* once.                                                                   *)
AuthoriseLarge(c) ==
  /\ Goto(c, "reserved", "authorised")
  /\ NeedsApproval(pay[c]) /\ grant[c] # NoGrant
  /\ grant[c].genuine /\ grant[c].for = pay[c]
  /\ grant[c] \notin used
  /\ used' = used \cup {grant[c]}
  /\ UNCHANGED <<ledger, pay, grant, charges, stranded>>

(* The caller charges, or fails to and gives the reservation back. *)
Charge(c) ==
  /\ Goto(c, "authorised", "charged")
  /\ charges' = [charges EXCEPT ![pay[c].id] = @ + 1]
  /\ UNCHANGED <<ledger, used, pay, grant, stranded>>

ChargeFails(c) ==
  /\ Goto(c, "authorised", "failed")
  /\ GiveBack(c)
  /\ UNCHANGED <<used, pay, grant, charges, stranded>>

Done(c) ==
  /\ pc[c] \in {"charged", "failed"}
  /\ pc' = [pc EXCEPT ![c] = "idle"]
  /\ pay' = [pay EXCEPT ![c] = NoPayment]
  /\ grant' = [grant EXCEPT ![c] = NoGrant]
  /\ UNCHANGED <<ledger, used, charges, stranded>>

(* The steps a presentation in progress takes by itself *)
Progress(c) ==
  \/ Refuse(c)
  \/ ReserveRefused(c)
  \/ Reserve(c)
  \/ AuthoriseSmall(c)
  \/ NoApproval(c)
  \/ ApprovalFails(c)
  \/ Release(c)
  \/ ApprovalThrows(c)
  \/ AuthoriseLarge(c)
  \/ Charge(c)
  \/ ChargeFails(c)
  \/ Done(c)

Next ==
  \E c \in Presentations :
    \/ \E p \in Payments, g \in Grants \cup {NoGrant} : Present(c, p, g)
    \/ Progress(c)

Spec == Init /\ [][Next]_vars

(* Every await settles, and the caller acts on the answer. *)
Fairness == \A c \in Presentations : WF_vars(Progress(c))

FairSpec == Spec /\ Fairness

-----------------------------------------------------------------------------
TypeOK ==
  /\ ledger \in [Ids -> Nat \cup {None}]
  /\ used \subseteq Grants
  /\ pc \in [Presentations -> PCs]
  /\ pay \in [Presentations -> Payments \cup {NoPayment}]
  /\ grant \in [Presentations -> Grants \cup {NoGrant}]
  /\ charges \in [Ids -> Nat]
  /\ stranded \subseteq Ids
  /\ \A c \in Presentations : pc[c] # "idle" => pay[c] \in Payments

Owns(c) == pc[c] \in {"reserved", "releasing", "authorised"}

(* Concurrent payments never add up to more than the intent's ceiling.     *)
CeilingHolds == Total(ledger) <= Ceiling

(* A payment id is charged at most once, however often and however         *)
(* concurrently it is presented, and although presentations that fail hand *)
(* reservations back: a hand-back never undoes another call's reservation. *)
ChargedOnce == \A i \in Ids : charges[i] <= 1

(* A large payment goes ahead on a grant for exactly this payment that no  *)
(* other payment has used.                                                 *)
OwnApproval ==
  \A c \in Presentations :
    pc[c] \in {"authorised", "charged"} /\ NeedsApproval(pay[c]) =>
      /\ grant[c] \in used /\ grant[c].for = pay[c]
      /\ \A d \in Presentations \ {c} :
           pc[d] \in {"authorised", "charged"} /\ NeedsApproval(pay[d]) =>
             grant[d] # grant[c]

Decided(i) == \E c \in Presentations : Owns(c) /\ pay[c].id = i

(* A failed verification records no spend: what is reserved is charged or  *)
(* still being decided.                                                    *)
FailureRecordsNoSpend ==
  \A i \in Ids : ledger[i] # None => charges[i] > 0 \/ Decided(i)

(* The same, but for the reservations an exception in verifyApproval left  *)
(* behind: no other failure, refused hand-back or race strands a spend.    *)
OnlyThrowsStrand ==
  \A i \in Ids \ stranded : ledger[i] # None => charges[i] > 0 \/ Decided(i)

(* mandate.ts:539: a payment is charged once, if large on an approval of   *)
(* its own, and a reservation that is not charged is handed back, but for  *)
(* the ones an exception strands.                                          *)
PaymentsAccounted == ChargedOnce /\ OwnApproval /\ OnlyThrowsStrand

(* Every reservation is eventually charged or given back, or an exception  *)
(* strands it.                                                             *)
ReservationSettles ==
  \A i \in Ids :
    ledger[i] # None ~> (charges[i] > 0 \/ ledger[i] = None \/ i \in stranded)

-----------------------------------------------------------------------------
(* The inductive invariant *)

(* A presentation that owns a reservation is the only one that does, and   *)
(* it is in the ledger, not yet charged.                                   *)
Ownership ==
  \A c \in Presentations : Owns(c) =>
    /\ ledger[pay[c].id] # None
    /\ charges[pay[c].id] = 0
    /\ \A d \in Presentations \ {c} : Owns(d) => pay[d].id # pay[c].id

(* A charged payment stays in the ledger. *)
ChargedStays == \A i \in Ids : charges[i] > 0 => ledger[i] # None

IInv == TypeOK /\ Ownership /\ ChargedStays /\ ChargedOnce /\ OwnApproval
=============================================================================
