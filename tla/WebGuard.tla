------------------------------ MODULE WebGuard ------------------------------
(***************************************************************************)
(* The WebMCP ToolGuard with its ReceiptLog: calls of one guarded tool in  *)
(* progress together, each authorised by a grant the page holds or by a    *)
(* delegated chain it carries, while grants are issued, revoked and        *)
(* expire.  A receipt's hash is <<receipt>>.                               *)
(***************************************************************************)
EXTENDS Integers, SequencesExt

CONSTANTS GuardCalls,     \* calls in progress at once
          WebGrants,      \* capability tokens
          Chain,          \* [WebGrants -> Seq(WebGrants)]: the delegation chain ending in it
          GrantExpiry,    \* [WebGrants -> Nat]: expiresAt
          GrantCap,       \* [WebGrants -> Nat]: the ceiling bound inside the token
          Covers,         \* [WebGrants -> BOOLEAN]: its scope covers the tool
          ToolMax,        \* limit.max of the tool
          Inputs,         \* calls made: [tool, bearer, amount, nonce], bearer {} or a leaf;
                          \* the tool is "guarded", "public" or "unknown"
          NoNonce,        \* the nonce field left out
          MaxReceipts,    \* bound on the calls made
          MaxGuardTime    \* bound on the clock

(* No grant, or the one that authorises a call. *)
IsGrant(s) == s = {} \/ \E g \in WebGrants : s = {g}

ASSUME GuardAssumption ==
  /\ Chain \in [WebGrants -> Seq(WebGrants)]
  /\ \A g \in WebGrants : Chain[g] # <<>> /\ Last(Chain[g]) = g
  /\ GrantExpiry \in [WebGrants -> Nat] /\ GrantCap \in [WebGrants -> Nat]
  /\ Covers \in [WebGrants -> BOOLEAN]
  /\ ToolMax \in Nat /\ MaxGuardTime \in Nat /\ MaxReceipts \in Nat
  /\ \A x \in Inputs : x.amount \in Nat /\ IsGrant(x.bearer)

VARIABLES guardTime,
          held,           \* the grants the page issued, in order
          revokedGrants,
          spent,          \* the replay checker: [key, until] records
          gcall,          \* the calls
          receipts, receiptTip,
          ran,            \* the calls whose handler ran
          unrecorded,     \* a handler threw: its call left no receipt
          mixed,          \* two receipts were being appended at once
          made            \* calls made so far

guardVars == <<guardTime, held, revokedGrants, spent, gcall, receipts, receiptTip, ran,
               unrecorded, mixed, made>>

IdleCall == [at |-> "idle", id |-> 0, tool |-> "guarded", bearer |-> {}, candidate |-> 1,
             amount |-> 0, nonce |-> NoNonce,
             grant |-> {}, late |-> FALSE, revokedBefore |-> {}, outcome |-> "none",
             receipt |-> <<>>]

GuardInit ==
  /\ guardTime = 0 /\ held = <<>> /\ revokedGrants = {} /\ spent = {} /\ ran = {}
  /\ gcall = [c \in GuardCalls |-> IdleCall]
  /\ receipts = <<>> /\ receiptTip = <<>> /\ mixed = FALSE /\ unrecorded = FALSE /\ made = 0

(* The candidates of decide(): the leaf of the chain the call carries, or  *)
(* every grant the page holds.                                             *)
Candidates(k) == IF k.bearer # {} THEN <<CHOOSE g \in k.bearer : TRUE>> ELSE held

(* effectiveCaps(): the least ceiling bound anywhere along the chain. *)
EffectiveCap(g) == Min({GrantCap[h] : h \in ToSet(Chain[g])})

(* evaluateLimit(): the field is within the tool's ceiling and the grant's. *)
WithinLimit(g, amount) == amount <= ToolMax /\ amount <= EffectiveCap(g)

(* verifyBearer(): every token of the chain is genuine and unexpired, the  *)
(* scope is covered, and the last token is not revoked.                    *)
BearerVerifies(g) ==
  /\ \A h \in ToSet(Chain[g]) : guardTime < GrantExpiry[h]
  /\ Covers[g] /\ g \notin revokedGrants

Usable(g) == g \notin revokedGrants /\ guardTime < GrantExpiry[g]

-----------------------------------------------------------------------------
(* grant() and revoke(). *)
IssueGrant(g) ==
  /\ Chain[g] = <<g>> /\ g \notin ToSet(held)
  /\ held' = Append(held, g)
  /\ UNCHANGED <<guardTime, revokedGrants, spent, gcall, receipts, receiptTip, ran,
                 unrecorded, mixed, made>>

RevokeGrant(g) ==
  /\ g \notin revokedGrants
  /\ revokedGrants' = revokedGrants \cup {g}
  /\ UNCHANGED <<guardTime, held, spent, gcall, receipts, receiptTip, ran, unrecorded,
                 mixed, made>>

(* The wrapped execute() is called. *)
Invoke(c, x) ==
  /\ gcall[c].at = "idle" /\ made < MaxReceipts
  /\ made' = made + 1
  /\ gcall' = [gcall EXCEPT ![c] =
       [IdleCall EXCEPT !.at = "deciding", !.id = made + 1, !.tool = x.tool,
                        !.bearer = x.bearer, !.amount = x.amount, !.nonce = x.nonce,
                        !.revokedBefore = revokedGrants]]
  /\ UNCHANGED <<guardTime, held, revokedGrants, spent, receipts, receiptTip, ran,
                 unrecorded, mixed>>

(* A refusal goes on to its receipt. *)
Refused(c) == gcall' = [gcall EXCEPT ![c].at = "recording", ![c].outcome = "refused"]

(* One turn of decide()'s loop up to its await: a revoked or expired grant *)
(* is passed over, any other is sent to be verified.  A bearer chain is    *)
(* verified before the loop.                                               *)
CheckCandidate(c) ==
  LET k == gcall[c] IN
  /\ k.at = "deciding" /\ k.tool = "guarded"
  /\ IF k.candidate > Len(Candidates(k)) THEN Refused(c)
     ELSE LET g == Candidates(k)[k.candidate] IN
          IF k.bearer # {} /\ ~BearerVerifies(g) THEN Refused(c)
          ELSE IF Usable(g)
          THEN gcall' = [gcall EXCEPT ![c].at = "verifying", ![c].grant = {g}]
          ELSE gcall' = [gcall EXCEPT ![c].candidate = @ + 1]
  /\ UNCHANGED <<guardTime, held, revokedGrants, spent, receipts, receiptTip, ran,
                 unrecorded, mixed, made>>

(* A tool without a scope is public and runs; a name that is not           *)
(* registered is refused by invoke().                                      *)
Unguarded(c) ==
  /\ gcall[c].at = "deciding" /\ gcall[c].tool # "guarded"
  /\ IF gcall[c].tool = "public"
     THEN gcall' = [gcall EXCEPT ![c].at = "executing"]
     ELSE Refused(c)
  /\ UNCHANGED <<guardTime, held, revokedGrants, spent, receipts, receiptTip, ran,
                 unrecorded, mixed, made>>

(* The signature is good: a grant that covers the call within its ceiling  *)
(* authorises it, any other is passed over.                                *)
CandidateVerified(c) ==
  LET k == gcall[c] IN
  /\ k.at = "verifying"
  /\ IF \A g \in k.grant : Covers[g] /\ WithinLimit(g, k.amount)
     THEN gcall' = [gcall EXCEPT ![c].at = "confirming",
                    ![c].revokedBefore = @ \cap k.grant]
     ELSE gcall' = [gcall EXCEPT ![c].at = "deciding", ![c].candidate = @ + 1,
                    ![c].grant = {}]
  /\ UNCHANGED <<guardTime, held, revokedGrants, spent, receipts, receiptTip, ran,
                 unrecorded, mixed, made>>

(* The human refuses. *)
ConfirmationDenied(c) ==
  /\ gcall[c].at = "confirming"
  /\ Refused(c)
  /\ UNCHANGED <<guardTime, held, revokedGrants, spent, receipts, receiptTip, ran,
                 unrecorded, mixed, made>>

(* InMemoryReplayChecker.check(): expired keys go, a key still there is a  *)
(* replay, and any other is kept until its grant expires at the least.     *)
Kept == {s \in spent : s.until > guardTime}

(* Fault: an accepted key is not written. *)
ConfirmedForgetting(c) ==
  LET k == gcall[c] IN
  /\ k.at = "confirming"
  /\ gcall' = [gcall EXCEPT ![c].at = "executing"]
  /\ spent' = Kept
  /\ UNCHANGED <<guardTime, held, revokedGrants, receipts, receiptTip, ran, unrecorded,
                 mixed, made>>

(* The human agrees, and the nonce is spent last. *)
Confirmed(c) ==
  LET k == gcall[c]
      g == CHOOSE h \in k.grant : TRUE
      key == <<g, k.nonce>>
  IN
  /\ k.at = "confirming"
  /\ IF k.nonce = NoNonce
     THEN gcall' = [gcall EXCEPT ![c].at = "executing"] /\ spent' = spent
     ELSE IF \E s \in Kept : s.key = key
          THEN Refused(c) /\ spent' = Kept
          ELSE /\ gcall' = [gcall EXCEPT ![c].at = "executing",
                            ![c].late = guardTime >= GrantExpiry[g]]
               /\ spent' = Kept \cup {[key |-> key,
                                       until |-> Max({GrantExpiry[g], guardTime + 1})]}
  /\ UNCHANGED <<guardTime, held, revokedGrants, receipts, receiptTip, ran, unrecorded,
                 mixed, made>>

Ran(c) == ran' = ran \cup {[call |-> gcall[c].id, grant |-> gcall[c].grant,
                            nonce |-> gcall[c].nonce, amount |-> gcall[c].amount,
                            late |-> gcall[c].late, revokedBefore |-> gcall[c].revokedBefore]}

(* The handler ran and returned: the receipt comes next. *)
Executed(c) ==
  /\ gcall[c].at = "executing"
  /\ Ran(c)
  /\ gcall' = [gcall EXCEPT ![c].at = "recording", ![c].outcome = "allowed"]
  /\ UNCHANGED <<guardTime, held, revokedGrants, spent, receipts, receiptTip, unrecorded,
                 mixed, made>>

(* The handler threw after it had begun: the call rejects and nothing more *)
(* is done.                                                                *)
ExecuteThrows(c) ==
  /\ gcall[c].at = "executing"
  /\ Ran(c) /\ unrecorded' = TRUE
  /\ gcall' = [gcall EXCEPT ![c] = IdleCall]
  /\ UNCHANGED <<guardTime, held, revokedGrants, spent, receipts, receiptTip, mixed, made>>

(* ReceiptLog.append(): the receipt takes its number and the tip, is       *)
(* signed, pushed, hashed.                                                 *)
BeginReceipt(c) ==
  /\ gcall[c].at = "recording"
  /\ gcall' = [gcall EXCEPT ![c].at = "signing",
       ![c].receipt = <<[seq |-> Len(receipts), prevHash |-> receiptTip,
                         call |-> gcall[c].id, outcome |-> gcall[c].outcome]>>]
  /\ mixed' = (mixed \/ \E d \in GuardCalls : gcall[d].at \in {"signing", "hashing"})
  /\ UNCHANGED <<guardTime, held, revokedGrants, spent, receipts, receiptTip, ran,
                 unrecorded, made>>

ReceiptSigned(c) ==
  /\ gcall[c].at = "signing"
  /\ receipts' = Append(receipts, gcall[c].receipt[1])
  /\ gcall' = [gcall EXCEPT ![c].at = "hashing"]
  /\ UNCHANGED <<guardTime, held, revokedGrants, spent, receiptTip, ran, unrecorded, mixed,
                 made>>

(* Fault: the tip stays where it was. *)
CallReturnsUnchained(c) ==
  /\ gcall[c].at = "hashing"
  /\ gcall' = [gcall EXCEPT ![c] = IdleCall]
  /\ UNCHANGED <<guardTime, held, revokedGrants, spent, receipts, receiptTip, ran,
                 unrecorded, mixed, made>>

(* The receipt is chained, and the call returns its outcome. *)
CallReturns(c) ==
  /\ gcall[c].at = "hashing"
  /\ receiptTip' = gcall[c].receipt
  /\ gcall' = [gcall EXCEPT ![c] = IdleCall]
  /\ UNCHANGED <<guardTime, held, revokedGrants, spent, receipts, ran, unrecorded, mixed,
                 made>>

GuardLater ==
  /\ guardTime < MaxGuardTime
  /\ guardTime' = guardTime + 1
  /\ UNCHANGED <<held, revokedGrants, spent, gcall, receipts, receiptTip, ran, unrecorded,
                 mixed, made>>

GuardNext ==
  \/ \E g \in WebGrants : IssueGrant(g) \/ RevokeGrant(g)
  \/ \E c \in GuardCalls :
       \/ \E x \in Inputs : Invoke(c, x)
       \/ Unguarded(c) \/ CheckCandidate(c) \/ CandidateVerified(c)
       \/ ConfirmationDenied(c) \/ Confirmed(c)
       \/ Executed(c) \/ ExecuteThrows(c)
       \/ BeginReceipt(c) \/ ReceiptSigned(c) \/ CallReturns(c)
  \/ GuardLater

GuardSpec == GuardInit /\ [][GuardNext]_guardVars

-----------------------------------------------------------------------------
(* verifyChain() of the receipts. *)
ReceiptsVerify(rs) ==
  \A i \in DOMAIN rs :
    rs[i].seq = i - 1 /\ rs[i].prevHash = IF i = 1 THEN <<>> ELSE <<rs[i - 1]>>

GuardTypeOK ==
  /\ guardTime \in 0 .. MaxGuardTime /\ made \in 0 .. MaxReceipts
  /\ ToSet(held) \subseteq WebGrants /\ revokedGrants \subseteq WebGrants
  /\ \A s \in spent : s.key[1] \in WebGrants /\ s.key[2] # NoNonce
  /\ \A c \in GuardCalls :
       /\ gcall[c].at \in {"idle", "deciding", "verifying", "confirming", "executing",
                           "recording", "signing", "hashing"}
       /\ gcall[c].at \in {"confirming", "executing"} /\ gcall[c].tool = "guarded" =>
            \E g \in WebGrants : gcall[c].grant = {g}
  /\ Len(receipts) <= made

(* guard.ts:420: the grant that let a handler run was not revoked when the *)
(* call was made, and the amount was within the tool's ceiling and every   *)
(* ceiling along the grant's chain (guard.ts:104).                         *)
RanWithinGrant ==
  \A r \in ran : \A g \in r.grant :
    /\ g \notin r.revokedBefore
    /\ r.amount <= ToolMax
    /\ \A h \in ToSet(Chain[g]) : r.amount <= GrantCap[h]

(* guard.ts:39: under one grant a call's nonce lets the handler run once,  *)
(* however calls and confirmations interleave.  Only a confirmation that   *)
(* came after the grant had expired may find the nonce forgotten.          *)
NonceRunsOnce ==
  \A r, s \in ran :
    r.grant # {} /\ r.grant = s.grant /\ r.nonce # NoNonce /\ r.nonce = s.nonce =>
      r = s \/ r.late \/ s.late

(* guard.ts:241: a call that is refused never spends its nonce: every      *)
(* nonce spent belongs to a call whose handler runs or has run.            *)
RefusedKeepsNonce ==
  \A s \in spent :
    \/ \E r \in ran : r.grant = {s.key[1]} /\ r.nonce = s.key[2]
    \/ \E c \in GuardCalls : /\ gcall[c].at = "executing"
                             /\ gcall[c].grant = {s.key[1]} /\ gcall[c].nonce = s.key[2]

(* receipts.ts:4: of every call that returned there is a receipt with its  *)
(* outcome; a call whose handler threw leaves none.  (Nor does one whose   *)
(* confirmation or replay store throws, which is left out.)                *)
ReturnedIsRecorded ==
  \A i \in 1 .. made :
    \/ \E c \in GuardCalls : gcall[c].id = i
    \/ unrecorded
    \/ \E j \in DOMAIN receipts :
         /\ receipts[j].call = i
         /\ (receipts[j].outcome = "allowed") = \E r \in ran : r.call = i

(* receipts.ts:64: receipts appended one at a time form a chain that       *)
(* verifies.                                                               *)
SerialReceiptsVerify == ~mixed => ReceiptsVerify(receipts)

(* guard.ts:337: although the user is asked to confirm between the check   *)
(* of a nonce and its use, a nonce is spent by a call that runs, and by    *)
(* one such call.                                                          *)
NonceSpentByOneRun == NonceRunsOnce /\ RefusedKeepsNonce

(* guard.ts:39, guard.ts:420: a guarded handler runs within its grant, and *)
(* once for a nonce.                                                       *)
RunsAuthorised == RanWithinGrant /\ NonceSpentByOneRun

(* receipts.ts:4: the receipts tell of every call that returned, in a      *)
(* chain that verifies if they were appended one at a time.                *)
ReceiptsHold == ReturnedIsRecorded /\ SerialReceiptsVerify
=============================================================================
