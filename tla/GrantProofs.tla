---------------------------- MODULE GrantProofs -----------------------------
(***************************************************************************)
(* What a grant gives, and what is left of it further down.  Under one     *)
(* grant a nonce lets the guarded handler of WebGuard run once, only a     *)
(* call that runs spends it, and a handler runs only within its grant, for *)
(* any grants, inputs and number of calls in progress; the receipts tell   *)
(* of every call that returned.  A capability chain that verifies narrows  *)
(* at every hop, for any scopes and any length.                            *)
(***************************************************************************)
EXTENDS Capability, WebGuard, WellFoundedInduction, TLAPS

(* A call is a record with these fields, whatever receipt it carries. *)
CallRecords(S) ==
  [at : S, id : S, tool : S, bearer : S, candidate : S, amount : S, nonce : S, grant : S,
   late : S, revokedBefore : S, outcome : S, receipt : S]

IsCall(k) == \E S : k \in CallRecords(S)

(* A call that has a grant was verified on it, or is being verified. *)
InOrder(k) ==
  /\ IsCall(k) /\ IsGrant(k.bearer) /\ IsGrant(k.grant)
  /\ k.at = "deciding" => k.grant = {}
  /\ k.at \in {"deciding", "verifying", "confirming"} => k.candidate \in Nat \ {0}
  /\ k.at \in {"verifying", "confirming"} => k.grant # {}

CallsTyped ==
  /\ gcall = [c \in GuardCalls |-> gcall[c]]
  /\ \A c \in GuardCalls : InOrder(gcall[c])

StateTyped ==
  /\ guardTime \in Nat
  /\ held \in Seq(WebGrants)
  /\ \A r \in ran : IsGrant(r.grant)
  /\ \A s \in spent : s.until \in Nat

(* The nonce is in the store until the grant has expired. *)
Remembered(grant, nonce) ==
  \A g \in grant :
    \/ \E s \in spent : s.key = <<g, nonce>> /\ s.until >= GrantExpiry[g]
    \/ guardTime >= GrantExpiry[g]

SameUse(a, b) == a.grant # {} /\ a.grant = b.grant /\ a.nonce # NoNonce /\ a.nonce = b.nonce

(* Whoever runs or has run is remembered, *)
RunsRemembered ==
  /\ \A r \in ran : r.nonce # NoNonce => Remembered(r.grant, r.nonce)
  /\ \A c \in GuardCalls : gcall[c].at = "executing" /\ gcall[c].nonce # NoNonce =>
       Remembered(gcall[c].grant, gcall[c].nonce)

(* and of two that run or have run on one nonce, one was late. *)
RunningOnce ==
  /\ \A c \in GuardCalls, r \in ran :
       gcall[c].at = "executing" /\ SameUse(gcall[c], r) => gcall[c].late \/ r.late
  /\ \A c, d \in GuardCalls :
       /\ c # d /\ gcall[c].at = "executing" /\ gcall[d].at = "executing"
       /\ SameUse(gcall[c], gcall[d])
       => gcall[c].late \/ gcall[d].late

Uses == RunsRemembered /\ RunningOnce /\ NonceRunsOnce /\ RefusedKeepsNonce

GuardIInv == CallsTyped /\ StateTyped /\ Uses

-----------------------------------------------------------------------------
(* Two calls that agree on what the invariant reads. *)
SameGrant(m, k) == m.nonce = k.nonce /\ m.grant = k.grant /\ m.bearer = k.bearer
Alike(m, k) == SameGrant(m, k) /\ m.late = k.late /\ m.candidate = k.candidate

Regranted(m, k, grant, n) == m.grant = grant /\ m.bearer = k.bearer /\ m.candidate = n

(* What an update of some fields of a call leaves in the others. *)
LEMMA AtFields ==
  ASSUME NEW call, IsCall(call), NEW v1
  PROVE  LET new == [call EXCEPT !.at = v1] IN
         IsCall(new) /\ new.at = v1 /\ Alike(new, call)
<1> DEFINE new == [call EXCEPT !.at = v1]
<1>1. PICK S : call \in CallRecords(S)
  BY DEF IsCall
<1>2. new \in CallRecords(S \cup {v1})
  BY <1>1 DEF CallRecords
<1>3. IsCall(new)
  BY <1>2 DEF IsCall
<1>4. new.at = v1 /\ Alike(new, call)
  BY <1>1 DEF CallRecords, Alike, SameGrant
<1> QED BY <1>3, <1>4

(* The call goes to its receipt. *)
LEMMA OutcomeFields ==
  ASSUME NEW call, IsCall(call), NEW v1, NEW v2
  PROVE  LET new == [call EXCEPT !.at = v1, !.outcome = v2] IN
         IsCall(new) /\ new.at = v1 /\ Alike(new, call)
<1> DEFINE new == [call EXCEPT !.at = v1, !.outcome = v2]
<1>1. PICK S : call \in CallRecords(S)
  BY DEF IsCall
<1>2. new \in CallRecords(S \cup {v1, v2})
  BY <1>1 DEF CallRecords
<1>3. IsCall(new)
  BY <1>2 DEF IsCall
<1>4. new.at = v1 /\ Alike(new, call)
  BY <1>1 DEF CallRecords, Alike, SameGrant
<1> QED BY <1>3, <1>4

(* It takes a receipt. *)
LEMMA ReceiptFields ==
  ASSUME NEW call, IsCall(call), NEW v1, NEW v2
  PROVE  LET new == [call EXCEPT !.at = v1, !.receipt = v2] IN
         IsCall(new) /\ new.at = v1 /\ Alike(new, call)
<1> DEFINE new == [call EXCEPT !.at = v1, !.receipt = v2]
<1>1. PICK S : call \in CallRecords(S)
  BY DEF IsCall
<1>2. new \in CallRecords(S \cup {v1, v2})
  BY <1>1 DEF CallRecords
<1>3. IsCall(new)
  BY <1>2 DEF IsCall
<1>4. new.at = v1 /\ Alike(new, call)
  BY <1>1 DEF CallRecords, Alike, SameGrant
<1> QED BY <1>3, <1>4

(* It is authorised. *)
LEMMA RevokedFields ==
  ASSUME NEW call, IsCall(call), NEW v1, NEW v2
  PROVE  LET new == [call EXCEPT !.at = v1, !.revokedBefore = v2] IN
         IsCall(new) /\ new.at = v1 /\ Alike(new, call)
<1> DEFINE new == [call EXCEPT !.at = v1, !.revokedBefore = v2]
<1>1. PICK S : call \in CallRecords(S)
  BY DEF IsCall
<1>2. new \in CallRecords(S \cup {v1, v2})
  BY <1>1 DEF CallRecords
<1>3. IsCall(new)
  BY <1>2 DEF IsCall
<1>4. new.at = v1 /\ Alike(new, call)
  BY <1>1 DEF CallRecords, Alike, SameGrant
<1> QED BY <1>3, <1>4

(* It runs on a nonce. *)
LEMMA LateFields ==
  ASSUME NEW call, IsCall(call), NEW v1, NEW v2
  PROVE  LET new == [call EXCEPT !.at = v1, !.late = v2] IN
         IsCall(new) /\ new.at = v1 /\ new.late = v2 /\ SameGrant(new, call)
<1> DEFINE new == [call EXCEPT !.at = v1, !.late = v2]
<1>1. PICK S : call \in CallRecords(S)
  BY DEF IsCall
<1>2. new \in CallRecords(S \cup {v1, v2})
  BY <1>1 DEF CallRecords
<1>3. IsCall(new)
  BY <1>2 DEF IsCall
<1>4. new.at = v1 /\ new.late = v2 /\ SameGrant(new, call)
  BY <1>1 DEF CallRecords, SameGrant
<1> QED BY <1>3, <1>4

(* A candidate is sent to be verified. *)
LEMMA GrantFields ==
  ASSUME NEW call, IsCall(call), NEW v1, NEW v2
  PROVE  LET new == [call EXCEPT !.at = v1, !.grant = v2] IN
         IsCall(new) /\ new.at = v1 /\ Regranted(new, call, v2, call.candidate)
<1> DEFINE new == [call EXCEPT !.at = v1, !.grant = v2]
<1>1. PICK S : call \in CallRecords(S)
  BY DEF IsCall
<1>2. new \in CallRecords(S \cup {v1, v2})
  BY <1>1 DEF CallRecords
<1>3. IsCall(new)
  BY <1>2 DEF IsCall
<1>4. new.at = v1 /\ Regranted(new, call, v2, call.candidate)
  BY <1>1 DEF CallRecords, Regranted
<1> QED BY <1>3, <1>4

(* A candidate is passed over. *)
LEMMA CandidateFields ==
  ASSUME NEW call, IsCall(call), NEW v1
  PROVE  LET new == [call EXCEPT !.candidate = v1] IN
         IsCall(new) /\ new.at = call.at /\ Regranted(new, call, call.grant, v1)
<1> DEFINE new == [call EXCEPT !.candidate = v1]
<1>1. PICK S : call \in CallRecords(S)
  BY DEF IsCall
<1>2. new \in CallRecords(S \cup {v1})
  BY <1>1 DEF CallRecords
<1>3. IsCall(new)
  BY <1>2 DEF IsCall
<1>4. new.at = call.at /\ Regranted(new, call, call.grant, v1)
  BY <1>1 DEF CallRecords, Regranted
<1> QED BY <1>3, <1>4

(* A candidate does not authorise it. *)
LEMMA RetryFields ==
  ASSUME NEW call, IsCall(call), NEW v1, NEW v2, NEW v3
  PROVE  LET new == [call EXCEPT !.at = v1, !.candidate = v2, !.grant = v3] IN
         IsCall(new) /\ new.at = v1 /\ Regranted(new, call, v3, v2)
<1> DEFINE new == [call EXCEPT !.at = v1, !.candidate = v2, !.grant = v3]
<1>1. PICK S : call \in CallRecords(S)
  BY DEF IsCall
<1>2. new \in CallRecords(S \cup {v1, v2, v3})
  BY <1>1 DEF CallRecords
<1>3. IsCall(new)
  BY <1>2 DEF IsCall
<1>4. new.at = v1 /\ Regranted(new, call, v3, v2)
  BY <1>1 DEF CallRecords, Regranted
<1> QED BY <1>3, <1>4

(* One call is replaced by another that is in order. *)
LEMMA ReplaceCall ==
  ASSUME CallsTyped, NEW c \in GuardCalls, NEW m, InOrder(m),
         gcall' = [gcall EXCEPT ![c] = m]
  PROVE  CallsTyped' /\ gcall'[c] = m /\ \A d \in GuardCalls \ {c} : gcall'[d] = gcall[d]
<1>1. gcall'[c] = m /\ \A d \in GuardCalls \ {c} : gcall'[d] = gcall[d]
  BY DEF CallsTyped
<1>2. gcall' = [d \in GuardCalls |-> gcall'[d]]
  BY DEF CallsTyped
<1>3. \A d \in GuardCalls : InOrder(gcall'[d])
  BY <1>1 DEF CallsTyped
<1> QED BY <1>1, <1>2, <1>3 DEF CallsTyped

(* A step after which no other call runs on a nonce, and the store and     *)
(* what ran are as before, preserves the uses.                             *)
LEMMA QuietKeepsUses ==
  ASSUME Uses, StateTyped, UNCHANGED <<spent, ran>>, guardTime' \in Nat, guardTime' >= guardTime,
         \A d \in GuardCalls :
           \/ gcall'[d] = gcall[d]
           \/ gcall[d].at # "executing" /\ (gcall'[d].at = "executing" =>
                                          gcall'[d].grant = {} \/ gcall'[d].nonce = NoNonce),
         \A d \in GuardCalls : IsGrant(gcall[d].grant), \A r \in ran : IsGrant(r.grant),
         GrantExpiry \in [WebGrants -> Nat]
  PROVE  Uses'
<1>1. ASSUME NEW n, NEW s, IsGrant(s), Remembered(s, n) PROVE Remembered(s, n)'
  <2>1. SUFFICES ASSUME NEW g \in s, guardTime >= GrantExpiry[g]
                 PROVE  guardTime' >= GrantExpiry[g]
    BY <1>1 DEF Remembered
  <2>2. GrantExpiry[g] \in Nat
    BY <1>1 DEF IsGrant
  <2> QED BY <2>1, <2>2 DEF StateTyped
<1>2. RunsRemembered'
  <2>1. \A r \in ran' : r.nonce # NoNonce => Remembered(r.grant, r.nonce)'
    BY <1>1 DEF Uses, RunsRemembered
  <2>2. ASSUME NEW d \in GuardCalls, gcall'[d].at = "executing", gcall'[d].nonce # NoNonce
        PROVE  Remembered(gcall[d].grant, gcall[d].nonce)'
    <3>1. CASE gcall'[d] = gcall[d]
      BY <1>1, <2>2, <3>1 DEF Uses, RunsRemembered
    <3>2. CASE gcall'[d].grant = {}
      BY <3>2 DEF Remembered
    <3> QED BY <2>2, <3>1, <3>2
  <2> QED BY <2>1, <2>2 DEF RunsRemembered
<1>3. RunningOnce'
  BY DEF Uses, RunningOnce, SameUse
<1>4. NonceRunsOnce'
  BY DEF Uses, NonceRunsOnce
<1>5. RefusedKeepsNonce'
  BY DEF Uses, RefusedKeepsNonce
<1> QED BY <1>2, <1>3, <1>4, <1>5 DEF Uses

(* A call that does not come to run on a nonce leaves the uses as they     *)
(* are.                                                                    *)
LEMMA QuietMove ==
  ASSUME GuardIInv, NEW c \in GuardCalls, NEW m, InOrder(m),
         gcall' = [gcall EXCEPT ![c] = m],
         UNCHANGED <<guardTime, held, spent, ran>>,
         gcall[c].at # "executing",
         m.at = "executing" => m.grant = {} \/ m.nonce = NoNonce
  PROVE  GuardIInv'
<1>1. CallsTyped /\ StateTyped /\ Uses
  BY DEF GuardIInv
<1>2. CallsTyped' /\ gcall'[c] = m /\ \A d \in GuardCalls \ {c} : gcall'[d] = gcall[d]
  BY <1>1, ReplaceCall
<1>3. StateTyped'
  BY <1>1 DEF StateTyped
<1>4. /\ guardTime' \in Nat /\ guardTime' >= guardTime
      /\ GrantExpiry \in [WebGrants -> Nat]
      /\ \A d \in GuardCalls : IsGrant(gcall[d].grant)
      /\ \A r \in ran : IsGrant(r.grant)
  BY <1>1, GuardAssumption DEF StateTyped, CallsTyped, InOrder
<1>5. \A d \in GuardCalls :
        \/ gcall'[d] = gcall[d]
        \/ gcall[d].at # "executing" /\ (gcall'[d].at = "executing" =>
                                          gcall'[d].grant = {} \/ gcall'[d].nonce = NoNonce)
  BY <1>2
<1>6. Uses'
  BY <1>1, <1>4, <1>5, QuietKeepsUses
<1> QED BY <1>2, <1>3, <1>6 DEF GuardIInv

(* The handler begins: what ran is recorded, and the call moves on. *)
LEMMA RunKeeps ==
  ASSUME GuardIInv, NEW c \in GuardCalls, NEW m, InOrder(m),
         gcall[c].at = "executing", m.at # "executing",
         gcall' = [gcall EXCEPT ![c] = m],
         Ran(c), UNCHANGED <<guardTime, held, spent>>
  PROVE  GuardIInv'
<1> DEFINE x == [call |-> gcall[c].id, grant |-> gcall[c].grant, nonce |-> gcall[c].nonce,
                 amount |-> gcall[c].amount, late |-> gcall[c].late,
                 revokedBefore |-> gcall[c].revokedBefore]
<1>1. CallsTyped /\ StateTyped /\ Uses
  BY DEF GuardIInv
<1>2. CallsTyped' /\ gcall'[c] = m /\ \A d \in GuardCalls \ {c} : gcall'[d] = gcall[d]
  BY <1>1, ReplaceCall
<1>3. /\ ran' = ran \cup {x} /\ IsGrant(gcall[c].grant)
      /\ x.grant = gcall[c].grant /\ x.nonce = gcall[c].nonce /\ x.late = gcall[c].late
  BY <1>1 DEF Ran, CallsTyped, InOrder
<1> HIDE DEF x
<1>4. StateTyped'
  BY <1>1, <1>3 DEF StateTyped
<1>5. \A n, g : Remembered(g, n) => Remembered(g, n)'
  BY DEF Remembered
<1>6. RunsRemembered'
  <2>1. \A r \in ran' : r.nonce # NoNonce => Remembered(r.grant, r.nonce)
    BY <1>1, <1>3 DEF Uses, RunsRemembered
  <2>2. \A d \in GuardCalls : gcall'[d].at = "executing" => d # c /\ gcall'[d] = gcall[d]
    BY <1>2
  <2>3. \A r \in ran' : r.nonce # NoNonce => Remembered(r.grant, r.nonce)'
    BY <2>1, <1>5
  <2>4. ASSUME NEW d \in GuardCalls, gcall'[d].at = "executing", gcall'[d].nonce # NoNonce
        PROVE  Remembered(gcall[d].grant, gcall[d].nonce)'
    BY <2>2, <2>4, <1>1, <1>5 DEF Uses, RunsRemembered
  <2> QED BY <2>3, <2>4 DEF RunsRemembered
<1>7. RunningOnce'
  BY <1>1, <1>2, <1>3 DEF Uses, RunningOnce, SameUse
<1>8. NonceRunsOnce'
  <2>1. ASSUME NEW r \in ran, SameUse(x, r) PROVE x.late \/ r.late
    BY <1>1, <1>3, <2>1 DEF Uses, RunningOnce, SameUse
  <2>2. ASSUME NEW r \in ran, SameUse(r, x) PROVE x.late \/ r.late
    BY <2>1, <2>2 DEF SameUse
  <2>3. \A r, t \in ran : SameUse(r, t) => r = t \/ r.late \/ t.late
    BY <1>1 DEF Uses, NonceRunsOnce, SameUse
  <2>4. \A r, t \in ran' : SameUse(r, t) => r = t \/ r.late \/ t.late
    BY <1>3, <2>1, <2>2, <2>3
  <2> QED BY <2>4 DEF NonceRunsOnce, SameUse
<1>9. RefusedKeepsNonce'
  <2>1. ASSUME NEW t \in spent
        PROVE  \/ \E r \in ran' : r.grant = {t.key[1]} /\ r.nonce = t.key[2]
               \/ \E d \in GuardCalls : /\ gcall'[d].at = "executing"
                                        /\ gcall'[d].grant = {t.key[1]}
                                        /\ gcall'[d].nonce = t.key[2]
    <3>1. CASE \E r \in ran : r.grant = {t.key[1]} /\ r.nonce = t.key[2]
      BY <3>1, <1>3
    <3>2. CASE \E d \in GuardCalls : /\ gcall[d].at = "executing"
                                     /\ gcall[d].grant = {t.key[1]}
                                     /\ gcall[d].nonce = t.key[2]
      <4>1. PICK d \in GuardCalls : /\ gcall[d].at = "executing"
                                    /\ gcall[d].grant = {t.key[1]}
                                    /\ gcall[d].nonce = t.key[2]
        BY <3>2
      <4>2. CASE d = c
        BY <4>1, <4>2, <1>3
      <4>3. CASE d # c
        BY <4>1, <4>3, <1>2
      <4> QED BY <4>2, <4>3
    <3> QED BY <1>1, <3>1, <3>2 DEF Uses, RefusedKeepsNonce
  <2> QED BY <2>1 DEF RefusedKeepsNonce
<1> QED BY <1>2, <1>4, <1>6, <1>7, <1>8, <1>9 DEF GuardIInv, Uses

(* The replay checker drops only what has expired. *)
LEMMA KeptRemembers ==
  ASSUME StateTyped, Kept \subseteq spent', UNCHANGED guardTime,
         NEW grant, NEW nonce, IsGrant(grant), Remembered(grant, nonce),
         GrantExpiry \in [WebGrants -> Nat]
  PROVE  Remembered(grant, nonce)'
<1>1. SUFFICES ASSUME NEW g \in grant,
                      NEW s \in spent, s.key = <<g, nonce>>, s.until >= GrantExpiry[g]
               PROVE  s \in spent' \/ guardTime >= GrantExpiry[g]
  BY DEF Remembered
<1>2. GrantExpiry[g] \in Nat /\ s.until \in Nat /\ guardTime \in Nat
  BY <1>1 DEF IsGrant, StateTyped
<1> QED BY <1>1, <1>2 DEF Kept

(* Of two naturals Max is at least each. *)
LEMMA MaxOfTwo ==
  ASSUME NEW a \in Nat, NEW b \in Nat
  PROVE  Max({a, b}) \in Nat /\ Max({a, b}) >= a
<1>1. \E x \in {a, b} : \A y \in {a, b} : x >= y
  OBVIOUS
<1>2. /\ Max({a, b}) \in {a, b}
      /\ \A y \in {a, b} : Max({a, b}) >= y
  BY <1>1 DEF Max
<1> QED BY <1>2

(* The nonce of a confirmed call is refused, or it is spent and no other   *)
(* call has run on it but after the grant expired.                         *)
LEMMA ConfirmedKeeps ==
  ASSUME GuardIInv, NEW c \in GuardCalls, Confirmed(c)
  PROVE  GuardIInv'
<1> DEFINE k == gcall[c]
<1>1. /\ CallsTyped /\ StateTyped /\ Uses /\ InOrder(k) /\ k.at = "confirming"
      /\ GrantExpiry \in [WebGrants -> Nat]
      /\ UNCHANGED <<guardTime, held, ran>>
  BY GuardAssumption DEF GuardIInv, Confirmed, CallsTyped
<1>2. PICK g \in WebGrants : k.grant = {g}
  BY <1>1 DEF InOrder, IsGrant
<1>3. (CHOOSE h \in k.grant : TRUE) = g
  BY <1>2
<1>4. ASSUME NEW m, m.at \in {"executing", "recording"}, IsCall(m), SameGrant(m, k)
      PROVE  InOrder(m)
  BY <1>1, <1>4 DEF InOrder, SameGrant
<1>5. CASE k.nonce = NoNonce
  <2> DEFINE m == [k EXCEPT !.at = "executing"]
  <2>1. IsCall(m) /\ m.at = "executing" /\ Alike(m, k)
    BY <1>1, AtFields DEF InOrder
  <2>2. gcall' = [gcall EXCEPT ![c] = m] /\ spent' = spent
    BY <1>5 DEF Confirmed
  <2> HIDE DEF m
  <2>3. InOrder(m) /\ m.nonce = NoNonce
    BY <2>1, <1>4, <1>5 DEF Alike, SameGrant
  <2> QED BY <1>1, <2>1, <2>2, <2>3, QuietMove
<1>6. CASE k.nonce # NoNonce /\ \E t \in Kept : t.key = <<g, k.nonce>>
  <2> DEFINE m == [k EXCEPT !.at = "recording", !.outcome = "refused"]
  <2>1. IsCall(m) /\ m.at = "recording" /\ Alike(m, k)
    BY <1>1, OutcomeFields DEF InOrder
  <2>2. gcall' = [gcall EXCEPT ![c] = m] /\ spent' = Kept
    BY <1>3, <1>6 DEF Confirmed, Refused
  <2> HIDE DEF m
  <2>3. CallsTyped' /\ gcall'[c] = m /\ \A d \in GuardCalls \ {c} : gcall'[d] = gcall[d]
    <3>1. InOrder(m)
      BY <2>1, <1>4 DEF Alike
    <3> QED BY <3>1, <2>2, <1>1, ReplaceCall
  <2>4. StateTyped'
    BY <1>1, <2>2 DEF StateTyped, Kept
  <2>5. \A d \in GuardCalls : gcall'[d].at = "executing" => gcall'[d] = gcall[d]
    BY <2>1, <2>3
  <2>6. \A d \in GuardCalls : gcall[d].at = "executing" => gcall'[d] = gcall[d]
    BY <1>1, <2>3
  <2>7. RunsRemembered'
    <3>1. ASSUME NEW s, NEW n, IsGrant(s), Remembered(s, n) PROVE Remembered(s, n)'
      BY <3>1, <1>1, <2>2, KeptRemembers
    <3>2. \A r \in ran' : r.nonce # NoNonce => Remembered(r.grant, r.nonce)'
      BY <1>1, <3>1 DEF Uses, RunsRemembered, StateTyped
    <3>3. ASSUME NEW d \in GuardCalls, gcall'[d].at = "executing", gcall'[d].nonce # NoNonce
          PROVE  Remembered(gcall[d].grant, gcall[d].nonce)'
      BY <2>5, <3>1, <3>3, <1>1 DEF Uses, RunsRemembered, CallsTyped, InOrder
    <3> QED BY <3>2, <3>3 DEF RunsRemembered
  <2>8. RunningOnce' /\ NonceRunsOnce'
    BY <2>5, <1>1 DEF Uses, RunningOnce, NonceRunsOnce, SameUse
  <2>9. RefusedKeepsNonce'
    <3>1. spent' \subseteq spent /\ ran' = ran
      BY <2>2, <1>1 DEF Kept
    <3> QED BY <3>1, <2>6, <1>1 DEF Uses, RefusedKeepsNonce
  <2> QED BY <2>3, <2>4, <2>7, <2>8, <2>9 DEF GuardIInv, Uses
<1>7. CASE k.nonce # NoNonce /\ ~\E t \in Kept : t.key = <<g, k.nonce>>
  <2> DEFINE late == guardTime >= GrantExpiry[g]
             m == [k EXCEPT !.at = "executing", !.late = late]
             x == [key |-> <<g, k.nonce>>, until |-> Max({GrantExpiry[g], guardTime + 1})]
  <2>1. IsCall(m) /\ m.at = "executing" /\ m.late = late /\ SameGrant(m, k)
    BY <1>1, LateFields DEF InOrder
  <2>2. gcall' = [gcall EXCEPT ![c] = m] /\ spent' = Kept \cup {x}
    BY <1>3, <1>7 DEF Confirmed
  <2>3. x.key = <<g, k.nonce>> /\ x.until \in Nat /\ x.until >= GrantExpiry[g]
    BY <1>1, MaxOfTwo DEF StateTyped
  <2> HIDE DEF m, x
  <2>4. CallsTyped' /\ gcall'[c] = m /\ \A d \in GuardCalls \ {c} : gcall'[d] = gcall[d]
    <3>1. InOrder(m)
      BY <2>1, <1>4
    <3> QED BY <3>1, <2>2, <1>1, ReplaceCall
  <2>5. StateTyped'
    BY <1>1, <2>2, <2>3 DEF StateTyped, Kept
  <2>6. ASSUME NEW s, NEW n, IsGrant(s), Remembered(s, n) PROVE Remembered(s, n)'
    BY <2>6, <1>1, <2>2, KeptRemembers
  <2>7. ASSUME Remembered({g}, k.nonce) PROVE late
    BY <1>1, <1>7, <2>7 DEF Remembered, Kept, StateTyped
  <2>8. \A r \in ran : SameUse(m, r) => late
    <3>1. SUFFICES ASSUME NEW r \in ran, SameUse(m, r) PROVE late
      OBVIOUS
    <3>2. r.grant = {g} /\ r.nonce = k.nonce
      BY <3>1, <2>1, <1>2 DEF SameUse, SameGrant
    <3>3. Remembered(r.grant, r.nonce)
      BY <3>2, <1>1, <1>7 DEF Uses, RunsRemembered
    <3> QED BY <2>7, <3>2, <3>3
  <2>9. \A d \in GuardCalls \ {c} : gcall[d].at = "executing" /\ SameUse(m, gcall[d]) => late
    <3>1. SUFFICES ASSUME NEW d \in GuardCalls \ {c}, gcall[d].at = "executing",
                          SameUse(m, gcall[d])
                   PROVE  late
      OBVIOUS
    <3>2. gcall[d].grant = {g} /\ gcall[d].nonce = k.nonce
      BY <3>1, <2>1, <1>2 DEF SameUse, SameGrant
    <3>3. Remembered(gcall[d].grant, gcall[d].nonce)
      BY <3>1, <3>2, <1>1, <1>7 DEF Uses, RunsRemembered
    <3> QED BY <2>7, <3>2, <3>3
  <2>10. RunsRemembered'
    <3>1. \A r \in ran' : r.nonce # NoNonce => Remembered(r.grant, r.nonce)'
      BY <1>1, <2>6 DEF Uses, RunsRemembered, StateTyped
    <3>2. ASSUME NEW d \in GuardCalls, gcall'[d].at = "executing", gcall'[d].nonce # NoNonce
          PROVE  Remembered(gcall[d].grant, gcall[d].nonce)'
      <4>1. CASE d = c
        <5>1. gcall'[d].grant = {g} /\ gcall'[d].nonce = k.nonce
          BY <4>1, <2>1, <2>4, <1>2 DEF SameGrant
        <5>2. x \in spent'
          BY <2>2
        <5> QED BY <5>1, <5>2, <2>3 DEF Remembered
      <4>2. CASE d # c
        BY <4>2, <2>4, <2>6, <3>2, <1>1 DEF Uses, RunsRemembered, CallsTyped, InOrder
      <4> QED BY <4>1, <4>2
    <3> QED BY <3>1, <3>2 DEF RunsRemembered
  <2>11. RunningOnce'
    <3> HIDE DEF late
    <3> QED BY <1>1, <2>1, <2>4, <2>8, <2>9 DEF Uses, RunningOnce, SameUse
  <2>12. NonceRunsOnce'
    BY <1>1 DEF Uses, NonceRunsOnce
  <2>13. RefusedKeepsNonce'
    <3>1. ASSUME NEW t \in Kept
          PROVE  \/ \E r \in ran' : r.grant = {t.key[1]} /\ r.nonce = t.key[2]
                 \/ \E d \in GuardCalls : /\ gcall'[d].at = "executing"
                                          /\ gcall'[d].grant = {t.key[1]}
                                          /\ gcall'[d].nonce = t.key[2]
      <4>1. \A d \in GuardCalls : gcall[d].at = "executing" => gcall'[d] = gcall[d]
        BY <1>1, <2>4
      <4> QED BY <4>1, <1>1 DEF Uses, RefusedKeepsNonce, Kept
    <3>2. gcall'[c].at = "executing" /\ gcall'[c].grant = {g} /\ gcall'[c].nonce = k.nonce
      BY <2>1, <2>4, <1>2 DEF SameGrant
    <3>3. x.key[1] = g /\ x.key[2] = k.nonce
      BY <2>3
    <3> QED BY <2>2, <3>1, <3>2, <3>3 DEF RefusedKeepsNonce
  <2> QED BY <2>4, <2>5, <2>10, <2>11, <2>12, <2>13 DEF GuardIInv, Uses
<1> QED BY <1>5, <1>6, <1>7

(* A call that is made, or that has returned, is in order. *)
LEMMA IdleInOrder ==
  /\ InOrder(IdleCall)
  /\ \A x \in Inputs :
       InOrder([IdleCall EXCEPT !.at = "deciding", !.id = made + 1, !.tool = x.tool,
                                !.bearer = x.bearer, !.amount = x.amount,
                                !.nonce = x.nonce, !.revokedBefore = revokedGrants])
<1>1. IsCall(IdleCall)
  <2> DEFINE S == {"idle", 0, "guarded", {}, 1, NoNonce, FALSE, "none", <<>>}
  <2>1. IdleCall \in CallRecords(S)
    BY DEF IdleCall, CallRecords
  <2> QED BY <2>1 DEF IsCall
<1>2. InOrder(IdleCall)
  BY <1>1 DEF InOrder, IdleCall, IsGrant
<1>3. ASSUME NEW x \in Inputs
      PROVE  InOrder([IdleCall EXCEPT !.at = "deciding", !.id = made + 1, !.tool = x.tool,
                                      !.bearer = x.bearer, !.amount = x.amount,
                                      !.nonce = x.nonce, !.revokedBefore = revokedGrants])
  <2> DEFINE m == [IdleCall EXCEPT !.at = "deciding", !.id = made + 1, !.tool = x.tool,
                                   !.bearer = x.bearer, !.amount = x.amount,
                                   !.nonce = x.nonce, !.revokedBefore = revokedGrants]
             S == {"deciding", made + 1, x.tool, x.bearer, x.amount, x.nonce, revokedGrants,
                   {}, 1, FALSE, "none", <<>>}
  <2>1. /\ m.at = "deciding" /\ m.bearer = x.bearer /\ m.candidate = 1 /\ m.grant = {}
        /\ m \in CallRecords(S)
    BY DEF IdleCall, CallRecords
  <2>2. IsCall(m)
    BY <2>1 DEF IsCall
  <2>3. IsGrant(x.bearer) /\ IsGrant({})
    BY GuardAssumption DEF IsGrant
  <2> HIDE DEF m
  <2>4. InOrder(m)
    BY <2>1, <2>2, <2>3 DEF InOrder
  <2> QED BY <2>4 DEF m
<1> QED BY <1>2, <1>3

(* A candidate that decide() tries is a grant. *)
LEMMA CandidateIsGrant ==
  ASSUME CallsTyped, StateTyped, NEW c \in GuardCalls, gcall[c].at = "deciding",
         ~(gcall[c].candidate > Len(Candidates(gcall[c])))
  PROVE  Candidates(gcall[c])[gcall[c].candidate] \in WebGrants
<1> DEFINE k == gcall[c]
<1>1. IsGrant(k.bearer) /\ k.candidate \in Nat \ {0}
  BY DEF CallsTyped, InOrder
<1>2. CASE k.bearer = {}
  <2>1. Candidates(k) = held
    BY <1>2 DEF Candidates
  <2> QED BY <2>1, <1>1 DEF StateTyped
<1>3. CASE k.bearer # {}
  <2>1. PICK g \in WebGrants : k.bearer = {g}
    BY <1>1, <1>3 DEF IsGrant
  <2>2. Candidates(k) = <<g>>
    BY <1>3, <2>1 DEF Candidates
  <2>3. Len(<<g>>) = 1 /\ <<g>>[1] = g
    OBVIOUS
  <2>4. k.candidate = 1
    BY <2>2, <2>3, <1>1
  <2> QED BY <2>2, <2>3, <2>4
<1> QED BY <1>2, <1>3

(* The invariant holds before the first call. *)
LEMMA GuardInitInv == GuardInit => GuardIInv
<1> SUFFICES ASSUME GuardInit PROVE GuardIInv
  OBVIOUS
<1>1. CallsTyped /\ \A c \in GuardCalls : gcall[c].at = "idle"
  BY IdleInOrder DEF GuardInit, CallsTyped, IdleCall
<1>2. StateTyped
  BY DEF GuardInit, StateTyped
<1>3. Uses
  BY <1>1 DEF GuardInit, Uses, RunsRemembered, RunningOnce, NonceRunsOnce, RefusedKeepsNonce
<1> QED BY <1>1, <1>2, <1>3 DEF GuardIInv

(* Every step of the page, of a call and of the clock preserves it. *)
LEMMA GuardNextInv == GuardIInv /\ [GuardNext]_guardVars => GuardIInv'
<1> SUFFICES ASSUME GuardIInv, [GuardNext]_guardVars PROVE GuardIInv'
  OBVIOUS
<1>t. /\ CallsTyped /\ StateTyped /\ Uses
      /\ GrantExpiry \in [WebGrants -> Nat] /\ guardTime \in Nat
      /\ \A d \in GuardCalls : InOrder(gcall[d]) /\ IsGrant(gcall[d].grant)
      /\ \A r \in ran : IsGrant(r.grant)
  BY GuardAssumption DEF GuardIInv, CallsTyped, StateTyped, InOrder
<1>1. ASSUME UNCHANGED <<spent, gcall, ran>>, guardTime' \in Nat, guardTime' >= guardTime,
             held' \in Seq(WebGrants)
      PROVE  GuardIInv'
  <2>1. CallsTyped' /\ StateTyped'
    BY <1>1, <1>t DEF CallsTyped, StateTyped
  <2>2. Uses'
    BY <1>1, <1>t, QuietKeepsUses
  <2> QED BY <2>1, <2>2 DEF GuardIInv
<1>2. ASSUME NEW g \in WebGrants, IssueGrant(g) \/ RevokeGrant(g) PROVE GuardIInv'
  BY <1>1, <1>2, <1>t DEF IssueGrant, RevokeGrant, StateTyped
<1>3. CASE GuardLater
  BY <1>1, <1>3, <1>t DEF GuardLater, StateTyped
<1>4. ASSUME NEW c \in GuardCalls, NEW x \in Inputs, Invoke(c, x) PROVE GuardIInv'
  <2> DEFINE m == [IdleCall EXCEPT !.at = "deciding", !.id = made + 1, !.tool = x.tool,
                                   !.bearer = x.bearer, !.amount = x.amount,
                                   !.nonce = x.nonce, !.revokedBefore = revokedGrants]
  <2>1. InOrder(m)
    BY IdleInOrder
  <2>2. m.at = "deciding"
    BY DEF IdleCall
  <2>3. /\ gcall' = [gcall EXCEPT ![c] = m] /\ gcall[c].at # "executing"
        /\ UNCHANGED <<guardTime, held, spent, ran>>
    BY <1>4 DEF Invoke
  <2> HIDE DEF m
  <2> QED BY <2>1, <2>2, <2>3, QuietMove
<1>5. ASSUME NEW c \in GuardCalls, Refused(c), gcall[c].at # "executing",
             UNCHANGED <<guardTime, held, spent, ran>>
      PROVE  GuardIInv'
  <2> DEFINE m == [gcall[c] EXCEPT !.at = "recording", !.outcome = "refused"]
  <2>1. IsCall(m) /\ m.at = "recording" /\ Alike(m, gcall[c])
    BY <1>t, OutcomeFields DEF InOrder
  <2>2. gcall' = [gcall EXCEPT ![c] = m]
    BY <1>5 DEF Refused
  <2> HIDE DEF m
  <2>3. InOrder(m)
    BY <2>1, <1>t DEF InOrder, Alike, SameGrant
  <2> QED BY <2>1, <2>2, <2>3, <1>5, QuietMove
<1>6. ASSUME NEW c \in GuardCalls, CheckCandidate(c) PROVE GuardIInv'
  <2> DEFINE k == gcall[c]
             g == Candidates(k)[k.candidate]
  <2>0. /\ k.at = "deciding" /\ UNCHANGED <<guardTime, held, spent, ran>>
        /\ \/ Refused(c)
           \/ /\ ~(k.candidate > Len(Candidates(k)))
              /\ \/ gcall' = [gcall EXCEPT ![c].at = "verifying", ![c].grant = {g}]
                 \/ gcall' = [gcall EXCEPT ![c].candidate = @ + 1]
    BY <1>6 DEF CheckCandidate
  <2>1. CASE Refused(c)
    BY <2>0, <2>1, <1>5
  <2>2. CASE /\ ~(k.candidate > Len(Candidates(k)))
             /\ gcall' = [gcall EXCEPT ![c].at = "verifying", ![c].grant = {g}]
    <3>1. g \in WebGrants
      BY <2>0, <2>2, <1>t, CandidateIsGrant
    <3> HIDE DEF g
    <3> DEFINE w == {g}
               m == [k EXCEPT !.at = "verifying", !.grant = w]
    <3>3. gcall' = [gcall EXCEPT ![c] = m]
      BY <2>2
    <3>w. IsGrant(w) /\ w # {}
      BY <3>1 DEF IsGrant
    <3> HIDE DEF w
    <3>2. IsCall(m) /\ m.at = "verifying" /\ Regranted(m, k, w, k.candidate)
      <4>1. IsCall(k)
        BY <1>t DEF InOrder
      <4> QED BY <4>1, GrantFields
    <3> HIDE DEF m
    <3>4. InOrder(m)
      BY <3>w, <3>2, <1>t, <2>0 DEF InOrder, Regranted
    <3> QED BY <3>2, <3>3, <3>4, <2>0, QuietMove
  <2>3. CASE gcall' = [gcall EXCEPT ![c].candidate = @ + 1]
    <3> DEFINE m == [k EXCEPT !.candidate = k.candidate + 1]
    <3>1. IsCall(m) /\ m.at = k.at /\ Regranted(m, k, k.grant, k.candidate + 1)
      BY <1>t, CandidateFields DEF InOrder
    <3>2. gcall' = [gcall EXCEPT ![c] = m]
      BY <2>3
    <3> HIDE DEF m
    <3>3. InOrder(m)
      BY <3>1, <1>t, <2>0 DEF InOrder, Regranted
    <3> QED BY <3>1, <3>2, <3>3, <2>0, QuietMove
  <2> QED BY <2>0, <2>1, <2>2, <2>3
<1>7. ASSUME NEW c \in GuardCalls, Unguarded(c) PROVE GuardIInv'
  <2>0. /\ gcall[c].at = "deciding" /\ UNCHANGED <<guardTime, held, spent, ran>>
        /\ Refused(c) \/ gcall' = [gcall EXCEPT ![c].at = "executing"]
    BY <1>7 DEF Unguarded
  <2>1. CASE Refused(c)
    BY <2>0, <2>1, <1>5
  <2>2. CASE gcall' = [gcall EXCEPT ![c].at = "executing"]
    <3> DEFINE m == [gcall[c] EXCEPT !.at = "executing"]
    <3>1. IsCall(m) /\ m.at = "executing" /\ Alike(m, gcall[c])
      BY <1>t, AtFields DEF InOrder
    <3>2. gcall' = [gcall EXCEPT ![c] = m]
      BY <2>2
    <3> HIDE DEF m
    <3>3. InOrder(m) /\ m.grant = {}
      BY <3>1, <1>t, <2>0 DEF InOrder, Alike, SameGrant
    <3> QED BY <3>1, <3>2, <3>3, <2>0, QuietMove
  <2> QED BY <2>0, <2>1, <2>2
<1>8. ASSUME NEW c \in GuardCalls, CandidateVerified(c) PROVE GuardIInv'
  <2> DEFINE k == gcall[c]
  <2>0. /\ k.at = "verifying" /\ UNCHANGED <<guardTime, held, spent, ran>>
        /\ \/ gcall' = [gcall EXCEPT ![c].at = "confirming",
                                     ![c].revokedBefore = @ \cap k.grant]
           \/ gcall' = [gcall EXCEPT ![c].at = "deciding", ![c].candidate = @ + 1,
                                     ![c].grant = {}]
    BY <1>8 DEF CandidateVerified
  <2>1. CASE gcall' = [gcall EXCEPT ![c].at = "confirming",
                                    ![c].revokedBefore = @ \cap k.grant]
    <3> DEFINE w == k.revokedBefore \cap k.grant
               m == [k EXCEPT !.at = "confirming", !.revokedBefore = w]
    <3>2. gcall' = [gcall EXCEPT ![c] = m]
      BY <2>1
    <3> HIDE DEF w
    <3>1. IsCall(m) /\ m.at = "confirming" /\ Alike(m, k)
      BY <1>t, RevokedFields DEF InOrder
    <3> HIDE DEF m
    <3>3. InOrder(m)
      BY <3>1, <1>t, <2>0 DEF InOrder, Alike, SameGrant
    <3> QED BY <3>1, <3>2, <3>3, <2>0, QuietMove
  <2>2. CASE gcall' = [gcall EXCEPT ![c].at = "deciding", ![c].candidate = @ + 1,
                                    ![c].grant = {}]
    <3> DEFINE w == k.candidate + 1
               u == {}
               m == [k EXCEPT !.at = "deciding", !.candidate = w, !.grant = u]
    <3>2. gcall' = [gcall EXCEPT ![c] = m]
      BY <2>2
    <3>w. w \in Nat \ {0} /\ u = {} /\ IsGrant(u)
      BY <1>t, <2>0 DEF InOrder, IsGrant
    <3> HIDE DEF w, u
    <3>1. IsCall(m) /\ m.at = "deciding" /\ Regranted(m, k, u, w)
      <4>1. IsCall(k)
        BY <1>t DEF InOrder
      <4> QED BY <4>1, RetryFields
    <3> HIDE DEF m
    <3>3. InOrder(m)
      BY <3>1, <3>w, <1>t, <2>0 DEF InOrder, Regranted
    <3> QED BY <3>1, <3>2, <3>3, <2>0, QuietMove
  <2> QED BY <2>0, <2>1, <2>2
<1>9. ASSUME NEW c \in GuardCalls, ConfirmationDenied(c) PROVE GuardIInv'
  BY <1>9, <1>5 DEF ConfirmationDenied
<1>10. ASSUME NEW c \in GuardCalls, Confirmed(c) PROVE GuardIInv'
  BY <1>10, ConfirmedKeeps
<1>11. ASSUME NEW c \in GuardCalls, Executed(c) PROVE GuardIInv'
  <2> DEFINE m == [gcall[c] EXCEPT !.at = "recording", !.outcome = "allowed"]
  <2>1. IsCall(m) /\ m.at = "recording" /\ Alike(m, gcall[c])
    BY <1>t, OutcomeFields DEF InOrder
  <2>2. /\ gcall' = [gcall EXCEPT ![c] = m] /\ gcall[c].at = "executing" /\ Ran(c)
        /\ UNCHANGED <<guardTime, held, spent>>
    BY <1>11 DEF Executed
  <2> HIDE DEF m
  <2>3. InOrder(m)
    BY <2>1, <1>t DEF InOrder, Alike, SameGrant
  <2> QED BY <2>1, <2>2, <2>3, RunKeeps
<1>12. ASSUME NEW c \in GuardCalls, ExecuteThrows(c) PROVE GuardIInv'
  <2>1. /\ gcall' = [gcall EXCEPT ![c] = IdleCall] /\ gcall[c].at = "executing" /\ Ran(c)
        /\ UNCHANGED <<guardTime, held, spent>> /\ IdleCall.at # "executing"
    BY <1>12 DEF ExecuteThrows, IdleCall
  <2> QED BY <2>1, IdleInOrder, RunKeeps
<1>13. ASSUME NEW c \in GuardCalls, BeginReceipt(c) PROVE GuardIInv'
  <2> DEFINE w == <<[seq |-> Len(receipts), prevHash |-> receiptTip,
                     call |-> gcall[c].id, outcome |-> gcall[c].outcome]>>
             m == [gcall[c] EXCEPT !.at = "signing", !.receipt = w]
  <2>1. /\ gcall' = [gcall EXCEPT ![c] = m] /\ gcall[c].at # "executing"
        /\ UNCHANGED <<guardTime, held, spent, ran>>
    BY <1>13 DEF BeginReceipt
  <2> HIDE DEF w
  <2>2. IsCall(m) /\ m.at = "signing" /\ Alike(m, gcall[c])
    BY <1>t, ReceiptFields DEF InOrder
  <2> HIDE DEF m
  <2>3. InOrder(m)
    BY <2>2, <1>t DEF InOrder, Alike, SameGrant
  <2> QED BY <2>1, <2>2, <2>3, QuietMove
<1>14. ASSUME NEW c \in GuardCalls, ReceiptSigned(c) PROVE GuardIInv'
  <2> DEFINE m == [gcall[c] EXCEPT !.at = "hashing"]
  <2>1. IsCall(m) /\ m.at = "hashing" /\ Alike(m, gcall[c])
    BY <1>t, AtFields DEF InOrder
  <2>2. /\ gcall' = [gcall EXCEPT ![c] = m] /\ gcall[c].at # "executing"
        /\ UNCHANGED <<guardTime, held, spent, ran>>
    BY <1>14 DEF ReceiptSigned
  <2> HIDE DEF m
  <2>3. InOrder(m)
    BY <2>1, <1>t DEF InOrder, Alike, SameGrant
  <2> QED BY <2>1, <2>2, <2>3, QuietMove
<1>15. ASSUME NEW c \in GuardCalls, CallReturns(c) PROVE GuardIInv'
  <2>1. /\ gcall' = [gcall EXCEPT ![c] = IdleCall] /\ gcall[c].at # "executing"
        /\ UNCHANGED <<guardTime, held, spent, ran>> /\ IdleCall.at # "executing"
    BY <1>15 DEF CallReturns, IdleCall
  <2> QED BY <2>1, IdleInOrder, QuietMove
<1>16. CASE UNCHANGED guardVars
  BY <1>16, <1>1, <1>t DEF guardVars, StateTyped
<1> QED
  BY <1>2, <1>3, <1>4, <1>6, <1>7, <1>8, <1>9, <1>10, <1>11, <1>12, <1>13, <1>14, <1>15,
     <1>16 DEF GuardNext

(* The inductive invariant holds of every reachable state. *)
THEOREM GuardInvariance == GuardSpec => []GuardIInv
<1>1. GuardInit => GuardIInv
  BY GuardInitInv
<1>2. GuardIInv /\ [GuardNext]_guardVars => GuardIInv'
  BY GuardNextInv
<1> QED BY <1>1, <1>2, PTL DEF GuardSpec

(* Under one grant the guarded handler runs once on a nonce, however calls *)
(* and confirmations interleave, unless the human confirmed after the      *)
(* grant had expired.                                                      *)
THEOREM NonceUsedOnce == GuardSpec => []NonceRunsOnce
<1>1. GuardIInv => NonceRunsOnce
  BY DEF GuardIInv, Uses
<1> QED BY <1>1, GuardInvariance, PTL

(* A refused call spends no nonce: each nonce in the store belongs to a    *)
(* call that runs or has run.                                              *)
THEOREM RefusalSpendsNothing == GuardSpec => []RefusedKeepsNonce
<1>1. GuardIInv => RefusedKeepsNonce
  BY DEF GuardIInv, Uses
<1> QED BY <1>1, GuardInvariance, PTL

(* A nonce is spent by a call that runs, and by one such call.             *)
THEOREM NonceSpent == GuardSpec => []NonceSpentByOneRun
BY NonceUsedOnce, RefusalSpendsNothing, PTL DEF NonceSpentByOneRun

-----------------------------------------------------------------------------
(* The grant behind a run                                                  *)

(* A set of naturals has a least element. *)
LEMMA LeastNatural ==
  ASSUME NEW T, T \subseteq Nat, T # {}
  PROVE  \E x \in T : \A y \in T : x <= y
<1> DEFINE R == OpToRel(<, Nat)
<1>1. \A x, y \in Nat : <<y, x>> \in R <=> y < x
  BY DEF OpToRel
<1>2. IsWellFoundedOn(R, Nat)
  BY NatLessThanWellFounded
<1> HIDE DEF R
<1>3. PICK x \in T : \A y \in T : ~(<<y, x>> \in R)
  BY <1>2, WFMin
<1>4. ASSUME NEW y \in T PROVE x <= y
  <2>1. x \in Nat /\ y \in Nat
    OBVIOUS
  <2>2. ~(y < x)
    BY <2>1, <1>1, <1>3
  <2> QED BY <2>1, <2>2
<1> QED BY <1>3, <1>4

(* What is within the least ceiling of a chain is within each of them. *)
LEMMA WithinChain ==
  ASSUME NEW g \in WebGrants, NEW amount \in Nat, amount <= EffectiveCap(g)
  PROVE  \A h \in ToSet(Chain[g]) : amount <= GrantCap[h]
<1> DEFINE C == {GrantCap[h] : h \in ToSet(Chain[g])}
<1>1. Chain[g] \in Seq(WebGrants) /\ Chain[g] # <<>> /\ GrantCap \in [WebGrants -> Nat]
  BY GuardAssumption
<1>2. ToSet(Chain[g]) \subseteq WebGrants /\ 1 \in DOMAIN Chain[g]
  BY <1>1 DEF ToSet
<1>3. C \subseteq Nat /\ C # {}
  BY <1>1, <1>2 DEF ToSet
<1>4. EffectiveCap(g) = Min(C)
  BY DEF EffectiveCap
<1>5. \A h \in ToSet(Chain[g]) : GrantCap[h] \in C
  OBVIOUS
<1> HIDE DEF C
<1>6. Min(C) \in C /\ \A y \in C : Min(C) <= y
  BY <1>3, LeastNatural DEF Min
<1>7. ASSUME NEW h \in ToSet(Chain[g]) PROVE amount <= GrantCap[h]
  <2>1. Min(C) \in Nat /\ GrantCap[h] \in Nat /\ Min(C) <= GrantCap[h] /\ amount <= Min(C)
    BY <1>3, <1>4, <1>5, <1>6
  <2> QED BY <2>1
<1> QED BY <1>7

(* The amount is within the tool's ceiling and every one of the chain. *)
CoversAmount(g, amount) ==
  amount <= ToolMax /\ \A h \in ToSet(Chain[g]) : amount <= GrantCap[h]

(* What is known of the grant at each point of a call. *)
GrantSound(k) ==
  /\ k.at # "idle" => k.amount \in Nat
  /\ k.at = "deciding" => k.revokedBefore \subseteq revokedGrants
  /\ k.at = "verifying" =>
       k.revokedBefore \subseteq revokedGrants /\ k.grant \cap k.revokedBefore = {}
  /\ k.at \in {"confirming", "executing"} =>
       /\ k.grant \cap k.revokedBefore = {}
       /\ \A g \in k.grant : CoversAmount(g, k.amount)

GrantsSound == RanWithinGrant /\ \A c \in GuardCalls : GrantSound(gcall[c])

(* The fields a step leaves as they are. *)
SameTerms(m, k) ==
  m.grant = k.grant /\ m.amount = k.amount /\ m.revokedBefore = k.revokedBefore

(* A call moves on, and what its new place asks of the grant holds. *)
LEMMA MoveKeepsGrants ==
  ASSUME GrantsSound, CallsTyped, NEW c \in GuardCalls, NEW m, GrantSound(m),
         gcall' = [gcall EXCEPT ![c] = m], UNCHANGED <<revokedGrants, ran>>
  PROVE  GrantsSound'
<1>1. \A d \in GuardCalls : gcall'[d] = IF d = c THEN m ELSE gcall[d]
  BY DEF CallsTyped
<1>2. \A d \in GuardCalls : GrantSound(gcall'[d])
  BY <1>1 DEF GrantsSound
<1>3. \A d \in GuardCalls : GrantSound(gcall[d])'
  BY <1>2 DEF GrantSound, CoversAmount
<1>4. RanWithinGrant'
  BY DEF GrantsSound, RanWithinGrant
<1> QED BY <1>3, <1>4 DEF GrantsSound

(* The handler runs on what was confirmed. *)
LEMMA RunKeepsGrants ==
  ASSUME GrantsSound, CallsTyped, NEW c \in GuardCalls, NEW m, GrantSound(m),
         gcall[c].at = "executing", Ran(c),
         gcall' = [gcall EXCEPT ![c] = m], UNCHANGED revokedGrants
  PROVE  GrantsSound'
<1> DEFINE x == [call |-> gcall[c].id, grant |-> gcall[c].grant, nonce |-> gcall[c].nonce,
                 amount |-> gcall[c].amount, late |-> gcall[c].late,
                 revokedBefore |-> gcall[c].revokedBefore]
<1>1. \A d \in GuardCalls : gcall'[d] = IF d = c THEN m ELSE gcall[d]
  BY DEF CallsTyped
<1>2. \A d \in GuardCalls : GrantSound(gcall'[d])
  BY <1>1 DEF GrantsSound
<1>3. \A d \in GuardCalls : GrantSound(gcall[d])'
  BY <1>2 DEF GrantSound, CoversAmount
<1>4. /\ ran' = ran \cup {x} /\ x.grant = gcall[c].grant /\ x.amount = gcall[c].amount
      /\ x.revokedBefore = gcall[c].revokedBefore
  BY DEF Ran
<1> HIDE DEF x
<1>5. \A g \in x.grant : g \notin x.revokedBefore /\ CoversAmount(g, x.amount)
  BY <1>4 DEF GrantsSound, GrantSound
<1>6. RanWithinGrant'
  BY <1>4, <1>5 DEF GrantsSound, RanWithinGrant, CoversAmount
<1> QED BY <1>3, <1>6 DEF GrantsSound

(* Every step preserves what is known of the grants. *)
LEMMA GrantsNext ==
  GuardIInv /\ GrantsSound /\ [GuardNext]_guardVars => GrantsSound'
<1> SUFFICES ASSUME GuardIInv, GrantsSound, [GuardNext]_guardVars PROVE GrantsSound'
  OBVIOUS
<1>t. /\ CallsTyped /\ StateTyped
      /\ \A d \in GuardCalls : InOrder(gcall[d]) /\ IsCall(gcall[d]) /\ GrantSound(gcall[d])
  BY DEF GuardIInv, CallsTyped, InOrder, GrantsSound
<1>1. ASSUME UNCHANGED <<gcall, ran>>, revokedGrants \subseteq revokedGrants'
      PROVE  GrantsSound'
  BY <1>1, <1>t DEF GrantsSound, RanWithinGrant, GrantSound, CoversAmount
<1>i. GrantSound(IdleCall)
  BY DEF IdleCall, GrantSound
<1>2. ASSUME NEW g \in WebGrants, IssueGrant(g) \/ RevokeGrant(g) PROVE GrantsSound'
  BY <1>1, <1>2 DEF IssueGrant, RevokeGrant
<1>3. CASE GuardLater
  BY <1>1, <1>3 DEF GuardLater
<1>4. ASSUME NEW c \in GuardCalls, NEW x \in Inputs, Invoke(c, x) PROVE GrantsSound'
  <2> DEFINE m == [IdleCall EXCEPT !.at = "deciding", !.id = made + 1, !.tool = x.tool,
                                   !.bearer = x.bearer, !.amount = x.amount,
                                   !.nonce = x.nonce, !.revokedBefore = revokedGrants]
  <2>1. m.at = "deciding" /\ m.amount = x.amount /\ m.revokedBefore = revokedGrants
    BY DEF IdleCall
  <2>2. gcall' = [gcall EXCEPT ![c] = m] /\ UNCHANGED <<revokedGrants, ran>>
    BY <1>4 DEF Invoke
  <2> HIDE DEF m
  <2>3. GrantSound(m)
    BY <2>1, GuardAssumption DEF GrantSound
  <2> QED BY <2>2, <2>3, <1>t, MoveKeepsGrants
(* To a place where nothing is asked but that the amount is a number. *)
<1>5. ASSUME NEW c \in GuardCalls, NEW v1, NEW v2, gcall[c].at # "idle",
             v1 \notin {"idle", "deciding", "verifying", "confirming", "executing"}
      PROVE  /\ GrantSound([gcall[c] EXCEPT !.at = v1])
             /\ GrantSound([gcall[c] EXCEPT !.at = v1, !.outcome = v2])
             /\ GrantSound([gcall[c] EXCEPT !.at = v1, !.receipt = v2])
  <2> DEFINE k == gcall[c]
  <2>1. PICK S : k \in CallRecords(S)
    BY <1>t DEF IsCall
  <2>2. k.amount \in Nat
    BY <1>t, <1>5 DEF GrantSound
  <2> HIDE DEF k
  <2>3. \A m : m.at = v1 /\ m.amount = k.amount => GrantSound(m)
    BY <2>2, <1>5 DEF GrantSound
  <2>4. LET m == [k EXCEPT !.at = v1] IN m.at = v1 /\ m.amount = k.amount
    BY <2>1 DEF CallRecords
  <2>5. LET m == [k EXCEPT !.at = v1, !.outcome = v2] IN m.at = v1 /\ m.amount = k.amount
    BY <2>1 DEF CallRecords
  <2>6. LET m == [k EXCEPT !.at = v1, !.receipt = v2] IN m.at = v1 /\ m.amount = k.amount
    BY <2>1 DEF CallRecords
  <2>7. /\ GrantSound([k EXCEPT !.at = v1])
        /\ GrantSound([k EXCEPT !.at = v1, !.outcome = v2])
        /\ GrantSound([k EXCEPT !.at = v1, !.receipt = v2])
    BY <2>3, <2>4, <2>5, <2>6
  <2> QED BY <2>7 DEF k
<1>6. ASSUME NEW c \in GuardCalls, Refused(c), gcall[c].at # "idle",
             UNCHANGED <<revokedGrants, ran>>
      PROVE  GrantsSound'
  <2> DEFINE m == [gcall[c] EXCEPT !.at = "recording", !.outcome = "refused"]
  <2>1. gcall' = [gcall EXCEPT ![c] = m]
    BY <1>6 DEF Refused
  <2>2. GrantSound(m)
    BY <1>5, <1>6
  <2> HIDE DEF m
  <2> QED BY <2>1, <2>2, <1>6, <1>t, MoveKeepsGrants
<1>7. ASSUME NEW c \in GuardCalls, CheckCandidate(c) PROVE GrantsSound'
  <2> DEFINE k == gcall[c]
             g == Candidates(k)[k.candidate]
  <2>0. /\ k.at = "deciding" /\ UNCHANGED <<revokedGrants, ran>>
        /\ \/ Refused(c)
           \/ /\ g \notin revokedGrants
              /\ gcall' = [gcall EXCEPT ![c].at = "verifying", ![c].grant = {g}]
           \/ gcall' = [gcall EXCEPT ![c].candidate = @ + 1]
    BY <1>7 DEF CheckCandidate, Usable
  <2>s. PICK S : k \in CallRecords(S)
    BY <1>t DEF IsCall
  <2>k. k.amount \in Nat /\ k.revokedBefore \subseteq revokedGrants
    BY <2>0, <1>t DEF GrantSound
  <2>1. CASE Refused(c)
    BY <2>0, <2>1, <1>6
  <2>2. CASE /\ g \notin revokedGrants
             /\ gcall' = [gcall EXCEPT ![c].at = "verifying", ![c].grant = {g}]
    <3> DEFINE w == {g}
               m == [k EXCEPT !.at = "verifying", !.grant = w]
    <3>1. gcall' = [gcall EXCEPT ![c] = m] /\ w \cap revokedGrants = {}
      BY <2>2
    <3> HIDE DEF k, g, w
    <3>2. /\ m.at = "verifying" /\ m.grant = w /\ m.amount = k.amount
          /\ m.revokedBefore = k.revokedBefore
      BY <2>s DEF CallRecords
    <3> HIDE DEF m
    <3>3. GrantSound(m)
      BY <2>k, <3>1, <3>2 DEF GrantSound
    <3> QED BY <3>1, <3>3, <2>0, <1>t, MoveKeepsGrants
  <2>3. CASE gcall' = [gcall EXCEPT ![c].candidate = @ + 1]
    <3> DEFINE w == k.candidate + 1
               m == [k EXCEPT !.candidate = w]
    <3>1. gcall' = [gcall EXCEPT ![c] = m]
      BY <2>3
    <3> HIDE DEF k, w
    <3>2. m.at = k.at /\ m.amount = k.amount /\ m.revokedBefore = k.revokedBefore
      BY <2>s DEF CallRecords
    <3> HIDE DEF m
    <3>3. GrantSound(m)
      BY <2>0, <2>k, <3>2 DEF GrantSound
    <3> QED BY <3>1, <3>3, <2>0, <1>t, MoveKeepsGrants
  <2> QED BY <2>0, <2>1, <2>2, <2>3
(* To run, with the grant as it is. *)
<1>8. ASSUME NEW c \in GuardCalls, NEW v, gcall[c].at # "idle",
             /\ gcall[c].grant \cap gcall[c].revokedBefore = {}
             /\ \A g \in gcall[c].grant : CoversAmount(g, gcall[c].amount)
      PROVE  /\ GrantSound([gcall[c] EXCEPT !.at = "executing"])
             /\ GrantSound([gcall[c] EXCEPT !.at = "executing", !.late = v])
  <2> DEFINE k == gcall[c]
  <2>1. PICK S : k \in CallRecords(S)
    BY <1>t DEF IsCall
  <2>2. /\ k.amount \in Nat /\ k.grant \cap k.revokedBefore = {}
        /\ \A g \in k.grant : CoversAmount(g, k.amount)
    BY <1>t, <1>8 DEF GrantSound
  <2> HIDE DEF k
  <2>3. \A m : m.at = "executing" /\ SameTerms(m, k) => GrantSound(m)
    BY <2>2 DEF GrantSound, SameTerms
  <2>4. LET m == [k EXCEPT !.at = "executing"] IN m.at = "executing" /\ SameTerms(m, k)
    BY <2>1 DEF CallRecords, SameTerms
  <2>5. LET m == [k EXCEPT !.at = "executing", !.late = v] IN
        m.at = "executing" /\ SameTerms(m, k)
    BY <2>1 DEF CallRecords, SameTerms
  <2>6. /\ GrantSound([k EXCEPT !.at = "executing"])
        /\ GrantSound([k EXCEPT !.at = "executing", !.late = v])
    BY <2>3, <2>4, <2>5
  <2> QED BY <2>6 DEF k
<1>9. ASSUME NEW c \in GuardCalls, Unguarded(c) PROVE GrantsSound'
  <2>0. /\ gcall[c].at = "deciding" /\ UNCHANGED <<revokedGrants, ran>>
        /\ Refused(c) \/ gcall' = [gcall EXCEPT ![c].at = "executing"]
    BY <1>9 DEF Unguarded
  <2>1. CASE Refused(c)
    BY <2>0, <2>1, <1>6
  <2>2. CASE gcall' = [gcall EXCEPT ![c].at = "executing"]
    <3> DEFINE m == [gcall[c] EXCEPT !.at = "executing"]
    <3>1. gcall' = [gcall EXCEPT ![c] = m]
      BY <2>2
    <3>2. gcall[c].grant = {}
      BY <2>0, <1>t DEF InOrder
    <3>3. GrantSound(m)
      BY <3>2, <2>0, <1>8
    <3> HIDE DEF m
    <3> QED BY <3>1, <3>3, <2>0, <1>t, MoveKeepsGrants
  <2> QED BY <2>0, <2>1, <2>2
<1>10. ASSUME NEW c \in GuardCalls, CandidateVerified(c) PROVE GrantsSound'
  <2> DEFINE k == gcall[c]
  <2>0. /\ k.at = "verifying" /\ UNCHANGED <<revokedGrants, ran>>
        /\ \/ /\ \A g \in k.grant : WithinLimit(g, k.amount)
              /\ gcall' = [gcall EXCEPT ![c].at = "confirming",
                                        ![c].revokedBefore = @ \cap k.grant]
           \/ gcall' = [gcall EXCEPT ![c].at = "deciding", ![c].candidate = @ + 1,
                                     ![c].grant = {}]
    BY <1>10 DEF CandidateVerified
  <2>s. PICK S : k \in CallRecords(S)
    BY <1>t DEF IsCall
  <2>k. /\ k.amount \in Nat /\ k.revokedBefore \subseteq revokedGrants
        /\ k.grant \cap k.revokedBefore = {} /\ IsGrant(k.grant)
    BY <2>0, <1>t DEF GrantSound, InOrder
  <2>1. CASE /\ \A g \in k.grant : WithinLimit(g, k.amount)
             /\ gcall' = [gcall EXCEPT ![c].at = "confirming",
                                       ![c].revokedBefore = @ \cap k.grant]
    <3> DEFINE w == k.revokedBefore \cap k.grant
               m == [k EXCEPT !.at = "confirming", !.revokedBefore = w]
    <3>1. gcall' = [gcall EXCEPT ![c] = m] /\ w = {}
      BY <2>1, <2>k
    <3>2. \A g \in k.grant : CoversAmount(g, k.amount)
      BY <2>1, <2>k, WithinChain DEF WithinLimit, CoversAmount, IsGrant
    <3> HIDE DEF k, w
    <3>3. m.at = "confirming" /\ m.grant = k.grant /\ m.amount = k.amount /\ m.revokedBefore = w
      BY <2>s DEF CallRecords
    <3> HIDE DEF m
    <3>4. GrantSound(m)
      BY <2>k, <3>1, <3>2, <3>3 DEF GrantSound
    <3> QED BY <3>1, <3>4, <2>0, <1>t, MoveKeepsGrants
  <2>2. CASE gcall' = [gcall EXCEPT ![c].at = "deciding", ![c].candidate = @ + 1,
                                    ![c].grant = {}]
    <3> DEFINE w == k.candidate + 1
               u == {}
               m == [k EXCEPT !.at = "deciding", !.candidate = w, !.grant = u]
    <3>1. gcall' = [gcall EXCEPT ![c] = m]
      BY <2>2
    <3> HIDE DEF k, w, u
    <3>2. m.at = "deciding" /\ m.amount = k.amount /\ m.revokedBefore = k.revokedBefore
      BY <2>s DEF CallRecords
    <3> HIDE DEF m
    <3>3. GrantSound(m)
      BY <2>k, <3>2 DEF GrantSound
    <3> QED BY <3>1, <3>3, <2>0, <1>t, MoveKeepsGrants
  <2> QED BY <2>0, <2>1, <2>2
<1>11. ASSUME NEW c \in GuardCalls, ConfirmationDenied(c) PROVE GrantsSound'
  BY <1>11, <1>6 DEF ConfirmationDenied
<1>12. ASSUME NEW c \in GuardCalls, Confirmed(c) PROVE GrantsSound'
  <2> DEFINE late == guardTime >= GrantExpiry[CHOOSE h \in gcall[c].grant : TRUE]
             m == [gcall[c] EXCEPT !.at = "executing"]
             n == [gcall[c] EXCEPT !.at = "executing", !.late = late]
  <2>0. /\ gcall[c].at = "confirming" /\ UNCHANGED <<revokedGrants, ran>>
        /\ \/ Refused(c)
           \/ gcall' = [gcall EXCEPT ![c] = m]
           \/ gcall' = [gcall EXCEPT ![c] = n]
    BY <1>12 DEF Confirmed
  <2>1. CASE Refused(c)
    BY <2>0, <2>1, <1>6
  <2> HIDE DEF late
  <2>2. GrantSound(m) /\ GrantSound(n)
    <3>1. /\ gcall[c].grant \cap gcall[c].revokedBefore = {}
          /\ \A g \in gcall[c].grant : CoversAmount(g, gcall[c].amount)
      BY <2>0, <1>t DEF GrantSound
    <3> QED BY <3>1, <2>0, <1>8
  <2> HIDE DEF m, n
  <2> QED BY <2>0, <2>1, <2>2, <1>t, MoveKeepsGrants
<1>13. ASSUME NEW c \in GuardCalls, Executed(c) PROVE GrantsSound'
  <2> DEFINE m == [gcall[c] EXCEPT !.at = "recording", !.outcome = "allowed"]
  <2>1. /\ gcall' = [gcall EXCEPT ![c] = m] /\ gcall[c].at = "executing" /\ Ran(c)
        /\ UNCHANGED revokedGrants
    BY <1>13 DEF Executed
  <2>2. GrantSound(m)
    BY <2>1, <1>5
  <2> HIDE DEF m
  <2> QED BY <2>1, <2>2, <1>t, RunKeepsGrants
<1>14. ASSUME NEW c \in GuardCalls, ExecuteThrows(c) PROVE GrantsSound'
  BY <1>14, <1>i, <1>t, RunKeepsGrants DEF ExecuteThrows
<1>15. ASSUME NEW c \in GuardCalls, BeginReceipt(c) PROVE GrantsSound'
  <2> DEFINE w == <<[seq |-> Len(receipts), prevHash |-> receiptTip,
                     call |-> gcall[c].id, outcome |-> gcall[c].outcome]>>
             m == [gcall[c] EXCEPT !.at = "signing", !.receipt = w]
  <2>1. /\ gcall' = [gcall EXCEPT ![c] = m] /\ gcall[c].at = "recording"
        /\ UNCHANGED <<revokedGrants, ran>>
    BY <1>15 DEF BeginReceipt
  <2> HIDE DEF w
  <2>2. GrantSound(m)
    BY <2>1, <1>5
  <2> HIDE DEF m
  <2> QED BY <2>1, <2>2, <1>t, MoveKeepsGrants
<1>16. ASSUME NEW c \in GuardCalls, ReceiptSigned(c) PROVE GrantsSound'
  <2> DEFINE m == [gcall[c] EXCEPT !.at = "hashing"]
  <2>1. /\ gcall' = [gcall EXCEPT ![c] = m] /\ gcall[c].at = "signing"
        /\ UNCHANGED <<revokedGrants, ran>>
    BY <1>16 DEF ReceiptSigned
  <2>2. GrantSound(m)
    BY <2>1, <1>5
  <2> HIDE DEF m
  <2> QED BY <2>1, <2>2, <1>t, MoveKeepsGrants
<1>17. ASSUME NEW c \in GuardCalls, CallReturns(c) PROVE GrantsSound'
  BY <1>17, <1>i, <1>t, MoveKeepsGrants DEF CallReturns
<1>18. CASE UNCHANGED guardVars
  BY <1>18, <1>1 DEF guardVars
<1> QED
  BY <1>2, <1>3, <1>4, <1>7, <1>9, <1>10, <1>11, <1>12, <1>13, <1>14, <1>15, <1>16, <1>17,
     <1>18 DEF GuardNext

(* A guarded handler runs on a grant that was not revoked when the call    *)
(* was made, on an amount within every ceiling of the chain, and once for  *)
(* a nonce.                                                                *)
THEOREM Authorised == GuardSpec => []RunsAuthorised
<1>1. GuardInit => GrantsSound
  BY DEF GuardInit, GrantsSound, RanWithinGrant, GrantSound, IdleCall
<1>2. GuardIInv /\ GrantsSound /\ [GuardNext]_guardVars => GrantsSound'
  BY GrantsNext
<1>3. GuardIInv /\ GrantsSound => RunsAuthorised
  BY DEF GuardIInv, Uses, GrantsSound, RunsAuthorised, NonceSpentByOneRun
<1> QED BY <1>1, <1>2, <1>3, GuardInvariance, PTL DEF GuardSpec

(***************************************************************************)
(* Receipts                                                                *)
(***************************************************************************)

HasRun(i) == \E r \in ran : r.call = i

(* There is a receipt of call i, with its outcome.                         *)
Told(i) ==
  \E j \in DOMAIN receipts :
    receipts[j].call = i /\ (receipts[j].outcome = "allowed" <=> HasRun(i))

Accounted(i) == (\E c \in GuardCalls : gcall[c].id = i) \/ unrecorded \/ Told(i)

BeforeReceipt == {"deciding", "verifying", "confirming", "executing"}
AtReceipt == {"recording", "signing", "hashing"}

(* What a call in progress has done: its handler ran if it goes to its     *)
(* receipt as allowed, and its receipt is there once it is pushed.         *)
Progress(k) ==
  /\ k.at = "idle" => k.id = 0
  /\ k.at # "idle" => k.id \in 1 .. made /\ k.at \in BeforeReceipt \cup AtReceipt
  /\ k.at \in BeforeReceipt => ~HasRun(k.id)
  /\ k.at \in AtReceipt => (k.outcome = "allowed" <=> HasRun(k.id))
  /\ k.at = "signing" => \E x : k.receipt = <<x>> /\ x.call = k.id /\ x.outcome = k.outcome
  /\ k.at = "hashing" => Told(k.id)

(* Each call has an id of its own, and one that has returned has a         *)
(* receipt.                                                                *)
EveryCallTold ==
  /\ made \in Nat
  /\ \E S : receipts \in Seq(S)
  /\ \A r \in ran : r.call \in 1 .. made
  /\ \A c \in GuardCalls : Progress(gcall[c])
  /\ \A c, d \in GuardCalls :
       c # d /\ gcall[c].at # "idle" /\ gcall[d].at # "idle" => gcall[c].id # gcall[d].id
  /\ \A i \in 1 .. made : Accounted(i)

(* The hash of the last receipt                                            *)
TipOf(rs) == IF Len(rs) = 0 THEN << >> ELSE <<rs[Len(rs)]>>

Appending(k) == k.at \in {"signing", "hashing"}

(* One receipt at a time: it follows the last one, and is the last one     *)
(* until the tip has moved.                                                *)
OneReceipt ==
  /\ ReceiptsVerify(receipts)
  /\ \A c, d \in GuardCalls : Appending(gcall[c]) /\ Appending(gcall[d]) => c = d
  /\ (\A c \in GuardCalls : gcall[c].at # "hashing") => receiptTip = TipOf(receipts)
  /\ \A c \in GuardCalls :
       /\ gcall[c].at = "signing" =>
            \E x : /\ gcall[c].receipt = <<x>> /\ x.seq = Len(receipts)
                   /\ x.prevHash = TipOf(receipts)
       /\ gcall[c].at = "hashing" => gcall[c].receipt = TipOf(receipts) /\ Len(receipts) > 0

ReceiptsInv == EveryCallTold /\ (~mixed => OneReceipt)

(* The calls after a step of c.                                            *)
LEMMA Moved ==
  ASSUME CallsTyped, NEW c \in GuardCalls, NEW m, gcall' = [gcall EXCEPT ![c] = m]
  PROVE  \A d \in GuardCalls : gcall'[d] = IF d = c THEN m ELSE gcall[d]
BY DEF CallsTyped

(* A step of a call that leaves the receipts and what ran as they are.     *)
LEMMA QuietTold ==
  ASSUME CallsTyped, ReceiptsInv, NEW c \in GuardCalls, NEW m, gcall' = [gcall EXCEPT ![c] = m],
         UNCHANGED <<receipts, receiptTip, ran, unrecorded, mixed, made>>,
         m.id = gcall[c].id, gcall[c].at \in BeforeReceipt,
         m.at \in BeforeReceipt \/ (m.at = "recording" /\ m.outcome # "allowed")
  PROVE  ReceiptsInv'
<1>1. \A d \in GuardCalls : gcall'[d] = IF d = c THEN m ELSE gcall[d]
  BY Moved
<1>2. \A i : (HasRun(i)' <=> HasRun(i)) /\ (Told(i)' <=> Told(i))
  BY DEF HasRun, Told
<1>3. Progress(m)'
  <2>1. Progress(gcall[c])
    BY DEF ReceiptsInv, EveryCallTold
  <2>2. gcall[c].at # "idle" /\ m.id \in 1 .. made /\ ~HasRun(m.id)
    BY <2>1 DEF Progress, BeforeReceipt
  <2>3. HasRun(m.id)' <=> HasRun(m.id)
    BY <1>2
  <2> QED BY <2>2, <2>3 DEF Progress, BeforeReceipt, AtReceipt
<1>4. ASSUME NEW d \in GuardCalls PROVE Progress(gcall[d])'
  <2>1. CASE d = c
    <3>1. gcall'[d] = m
      BY <1>1, <2>1
    <3> QED BY <1>3, <3>1 DEF Progress
  <2>2. CASE d # c
    <3>1. gcall'[d] = gcall[d] /\ Progress(gcall[d])
      BY <1>1, <2>2 DEF ReceiptsInv, EveryCallTold
    <3> QED BY <1>2, <3>1 DEF Progress
  <2> QED BY <2>1, <2>2
<1>5. EveryCallTold'
  <2>1. gcall[c].at # "idle" /\ m.at # "idle"
    BY DEF BeforeReceipt
  <2>2. \A d \in GuardCalls :
          gcall'[d].id = gcall[d].id /\ (gcall'[d].at # "idle" => gcall[d].at # "idle")
    BY <1>1, <2>1
  <2>3. \A i \in 1 .. made : Accounted(i)'
    BY <1>2, <2>2 DEF ReceiptsInv, EveryCallTold, Accounted
  <2> QED BY <1>4, <2>2, <2>3 DEF ReceiptsInv, EveryCallTold
<1>6. ~mixed' => OneReceipt'
  <2>1. \A d \in GuardCalls : Appending(gcall'[d]) \/ Appending(gcall[d]) => gcall'[d] = gcall[d]
    BY <1>1 DEF Appending, BeforeReceipt
  <2>2. \A d \in GuardCalls : (gcall'[d].at = "hashing") = (gcall[d].at = "hashing")
    BY <2>1 DEF Appending
  <2> QED BY <2>1, <2>2 DEF ReceiptsInv, OneReceipt, Appending
<1> QED BY <1>5, <1>6 DEF ReceiptsInv

(* A step of the page or of the clock.                                     *)
LEMMA NothingTold ==
  ASSUME ReceiptsInv,
         UNCHANGED <<gcall, receipts, receiptTip, ran, unrecorded, mixed, made>>
  PROVE  ReceiptsInv'
<1>1. \A i : (HasRun(i)' <=> HasRun(i)) /\ (Told(i)' <=> Told(i))
  BY DEF HasRun, Told
<1>2. ASSUME NEW d \in GuardCalls PROVE Progress(gcall[d])'
  BY <1>1 DEF ReceiptsInv, EveryCallTold, Progress
<1>3. \A i \in 1 .. made : Accounted(i)'
  BY <1>1 DEF ReceiptsInv, EveryCallTold, Accounted
<1>4. EveryCallTold'
  BY <1>2, <1>3 DEF ReceiptsInv, EveryCallTold
<1>5. ~mixed' => OneReceipt'
  BY DEF ReceiptsInv, OneReceipt
<1> QED BY <1>4, <1>5 DEF ReceiptsInv

(* A call begins.                                                          *)
LEMMA InvokeTold ==
  ASSUME CallsTyped, ReceiptsInv, NEW c \in GuardCalls, NEW x \in Inputs, Invoke(c, x)
  PROVE  ReceiptsInv'
<1> DEFINE m == [IdleCall EXCEPT !.at = "deciding", !.id = made + 1, !.tool = x.tool,
                                 !.bearer = x.bearer, !.amount = x.amount,
                                 !.nonce = x.nonce, !.revokedBefore = revokedGrants]
<1>1. /\ gcall[c].at = "idle" /\ made' = made + 1 /\ gcall' = [gcall EXCEPT ![c] = m]
      /\ UNCHANGED <<receipts, receiptTip, ran, unrecorded, mixed>>
  BY DEF Invoke
<1>2. m.at = "deciding" /\ m.id = made + 1
  BY DEF IdleCall
<1> HIDE DEF m
<1>3. \A d \in GuardCalls : gcall'[d] = IF d = c THEN m ELSE gcall[d]
  BY <1>1, Moved
<1>4. made \in Nat /\ \A i \in 1 .. made : i \in 1 .. made' /\ i # made + 1
  BY <1>1 DEF ReceiptsInv, EveryCallTold
<1>5. \A i : (HasRun(i)' <=> HasRun(i)) /\ (Told(i)' <=> Told(i))
  BY <1>1 DEF HasRun, Told
<1>6. ASSUME NEW d \in GuardCalls PROVE Progress(gcall[d])'
  <2>1. CASE d = c
    <3>1. gcall'[d].at = "deciding" /\ gcall'[d].id = made + 1
      BY <1>2, <1>3, <2>1
    <3>2. ~HasRun(made + 1)
      BY <1>4 DEF ReceiptsInv, EveryCallTold, HasRun
    <3>3. made + 1 \in 1 .. made'
      BY <1>1, <1>4
    <3> QED BY <1>5, <3>1, <3>2, <3>3 DEF Progress, BeforeReceipt, AtReceipt
  <2>2. CASE d # c
    <3>1. gcall'[d] = gcall[d] /\ Progress(gcall[d])
      BY <1>3, <2>2 DEF ReceiptsInv, EveryCallTold
    <3> QED BY <1>4, <1>5, <3>1 DEF Progress
  <2> QED BY <2>1, <2>2
<1>7. ASSUME NEW d \in GuardCalls, NEW e \in GuardCalls, d # e,
             gcall'[d].at # "idle", gcall'[e].at # "idle"
      PROVE  gcall'[d].id # gcall'[e].id
  <2>1. \A b \in GuardCalls \ {c} : gcall'[b] = gcall[b] /\
          (gcall[b].at # "idle" => gcall[b].id \in 1 .. made)
    BY <1>3 DEF ReceiptsInv, EveryCallTold, Progress
  <2>2. gcall'[c].id = made + 1
    BY <1>2, <1>3
  <2> QED BY <1>4, <1>7, <2>1, <2>2 DEF ReceiptsInv, EveryCallTold
<1>8. ASSUME NEW i \in 1 .. made' PROVE Accounted(i)'
  <2>1. CASE i = made + 1
    BY <1>2, <1>3, <2>1 DEF Accounted
  <2>2. CASE i # made + 1
    <3>1. i \in 1 .. made
      BY <1>1, <1>4, <2>2
    <3>2. (\E d \in GuardCalls : gcall[d].id = i) \/ unrecorded \/ Told(i)
      BY <3>1 DEF ReceiptsInv, EveryCallTold, Accounted
    <3>3. ASSUME NEW d \in GuardCalls, gcall[d].id = i PROVE d # c
      BY <1>1, <3>1, <3>3 DEF ReceiptsInv, EveryCallTold, Progress
    <3> QED BY <1>1, <1>3, <1>5, <3>2, <3>3 DEF Accounted
  <2> QED BY <2>1, <2>2
<1>9. EveryCallTold'
  BY <1>1, <1>4, <1>6, <1>7, <1>8 DEF ReceiptsInv, EveryCallTold
<1>10. ~mixed' => OneReceipt'
  <2>1. \A d \in GuardCalls : Appending(gcall'[d]) \/ Appending(gcall[d]) => gcall'[d] = gcall[d]
    BY <1>1, <1>2, <1>3 DEF Appending
  <2>2. \A d \in GuardCalls : (gcall'[d].at = "hashing") = (gcall[d].at = "hashing")
    BY <2>1 DEF Appending
  <2> QED BY <1>1, <2>1, <2>2 DEF ReceiptsInv, OneReceipt, Appending
<1> QED BY <1>9, <1>10 DEF ReceiptsInv

(* The handler runs, and returns or throws.                                *)
LEMMA RunTold ==
  ASSUME CallsTyped, ReceiptsInv, NEW c \in GuardCalls, NEW m, gcall' = [gcall EXCEPT ![c] = m],
         gcall[c].at = "executing", Ran(c),
         UNCHANGED <<receipts, receiptTip, mixed, made>>,
         \/ m.id = gcall[c].id /\ m.at = "recording" /\ m.outcome = "allowed" /\ UNCHANGED unrecorded
         \/ m.at = "idle" /\ m.id = 0 /\ unrecorded'
  PROVE  ReceiptsInv'
<1>1. \A d \in GuardCalls : gcall'[d] = IF d = c THEN m ELSE gcall[d]
  BY Moved
<1>2. PICK n : n = gcall[c].id
  OBVIOUS
<1>3. n \in 1 .. made /\ made \in Nat
  BY <1>2 DEF ReceiptsInv, EveryCallTold, Progress
<1>4. \A i : HasRun(i)' <=> HasRun(i) \/ i = n
  <2> DEFINE x == [call |-> gcall[c].id, grant |-> gcall[c].grant, nonce |-> gcall[c].nonce,
                   amount |-> gcall[c].amount, late |-> gcall[c].late,
                   revokedBefore |-> gcall[c].revokedBefore]
  <2>1. ran' = ran \cup {x} /\ x.call = n
    BY <1>2 DEF Ran
  <2> HIDE DEF x
  <2> QED BY <2>1 DEF HasRun
<1>5. \A i : i # n => (Told(i)' <=> Told(i))
  BY <1>4 DEF Told
<1>6. \A r \in ran' : r.call \in 1 .. made
  BY <1>2, <1>3 DEF Ran, ReceiptsInv, EveryCallTold
<1>7. ASSUME NEW d \in GuardCalls PROVE Progress(gcall[d])'
  <2>1. CASE d = c
    <3>1. gcall'[d] = m
      BY <1>1, <2>1
    <3>2. CASE m.id = gcall[c].id /\ m.at = "recording" /\ m.outcome = "allowed"
      <4>1. HasRun(gcall[d].id)'
        BY <1>2, <1>4, <3>1, <3>2
      <4> QED BY <1>2, <1>3, <3>1, <3>2, <4>1 DEF Progress, BeforeReceipt, AtReceipt
    <3>3. CASE m.at = "idle" /\ m.id = 0
      BY <3>1, <3>3 DEF Progress, BeforeReceipt, AtReceipt
    <3> QED BY <3>2, <3>3
  <2>2. CASE d # c
    <3>1. gcall'[d] = gcall[d] /\ Progress(gcall[d])
      BY <1>1, <2>2 DEF ReceiptsInv, EveryCallTold
    <3>2. CASE gcall[d].at = "idle"
      BY <3>1, <3>2 DEF Progress, BeforeReceipt, AtReceipt
    <3>3. CASE gcall[d].at # "idle"
      <4>1. gcall[d].id # n
        BY <1>2, <2>2, <3>3 DEF ReceiptsInv, EveryCallTold
      <4>2. /\ HasRun(gcall[d].id)' <=> HasRun(gcall[d].id)
            /\ Told(gcall[d].id)' <=> Told(gcall[d].id)
        BY <1>4, <1>5, <3>1, <4>1
      <4> QED BY <3>1, <4>2 DEF Progress
    <3> QED BY <3>2, <3>3
  <2> QED BY <2>1, <2>2
<1>8. ASSUME NEW d \in GuardCalls, NEW e \in GuardCalls, d # e,
             gcall'[d].at # "idle", gcall'[e].at # "idle"
      PROVE  gcall'[d].id # gcall'[e].id
  BY <1>1, <1>8 DEF ReceiptsInv, EveryCallTold
<1>9. ASSUME NEW i \in 1 .. made' PROVE Accounted(i)'
  <2>1. CASE unrecorded'
    BY <2>1 DEF Accounted
  <2>2. CASE UNCHANGED unrecorded /\ m.id = gcall[c].id
    <3>1. Accounted(i)
      BY DEF ReceiptsInv, EveryCallTold
    <3>2. \A d \in GuardCalls : gcall'[d].id = gcall[d].id
      BY <1>1, <2>2
    <3>3. CASE i = n
      BY <1>2, <3>2, <3>3 DEF Accounted
    <3>4. CASE i # n
      BY <1>5, <2>2, <3>1, <3>2, <3>4 DEF Accounted
    <3> QED BY <3>3, <3>4
  <2> QED BY <2>1, <2>2
<1>10. EveryCallTold'
  BY <1>6, <1>7, <1>8, <1>9 DEF ReceiptsInv, EveryCallTold
<1>11. ~mixed' => OneReceipt'
  <2>1. \A d \in GuardCalls : Appending(gcall'[d]) \/ Appending(gcall[d]) => gcall'[d] = gcall[d]
    BY <1>1 DEF Appending
  <2>2. \A d \in GuardCalls : (gcall'[d].at = "hashing") = (gcall[d].at = "hashing")
    BY <2>1 DEF Appending
  <2> QED BY <2>1, <2>2 DEF ReceiptsInv, OneReceipt, Appending
<1> QED BY <1>10, <1>11 DEF ReceiptsInv

(* append() takes the number and the tip.                                  *)
LEMMA BeginTold ==
  ASSUME CallsTyped, ReceiptsInv, NEW c \in GuardCalls, IsCall(gcall[c]), BeginReceipt(c)
  PROVE  ReceiptsInv'
<1> DEFINE w == [seq |-> Len(receipts), prevHash |-> receiptTip,
                 call |-> gcall[c].id, outcome |-> gcall[c].outcome]
           slip == <<w>>
           m == [gcall[c] EXCEPT !.at = "signing", !.receipt = slip]
<1>1. /\ gcall' = [gcall EXCEPT ![c] = m] /\ gcall[c].at = "recording"
      /\ mixed' = (mixed \/ \E d \in GuardCalls : Appending(gcall[d]))
      /\ UNCHANGED <<receipts, receiptTip, ran, unrecorded, made>>
  BY DEF BeginReceipt, Appending
<1>2. /\ w.seq = Len(receipts) /\ w.prevHash = receiptTip /\ w.call = gcall[c].id
      /\ w.outcome = gcall[c].outcome
  OBVIOUS
<1> HIDE DEF w
<1>3. slip = <<w>>
  OBVIOUS
<1> HIDE DEF slip
<1>4. m.at = "signing" /\ m.receipt = slip /\ m.id = gcall[c].id /\ m.outcome = gcall[c].outcome
  BY DEF IsCall, CallRecords
<1> HIDE DEF m
<1>5. \A d \in GuardCalls : gcall'[d] = IF d = c THEN m ELSE gcall[d]
  BY <1>1, Moved
<1>6. \A i : (HasRun(i)' <=> HasRun(i)) /\ (Told(i)' <=> Told(i))
  BY <1>1 DEF HasRun, Told
<1>7. ASSUME NEW d \in GuardCalls PROVE Progress(gcall[d])'
  <2>1. CASE d = c
    <3>1. gcall'[d] = m /\ Progress(gcall[c])
      BY <1>5, <2>1 DEF ReceiptsInv, EveryCallTold
    <3>2. PICK id, k : id = gcall[c].id /\ k = gcall'[d]
      OBVIOUS
    <3>3. id \in 1 .. made /\ (gcall[c].outcome = "allowed" <=> HasRun(id))
      BY <1>1, <3>1, <3>2 DEF Progress, AtReceipt
    <3>4. /\ k.at = "signing" /\ k.id = id /\ k.outcome = gcall[c].outcome /\ k.receipt = <<w>>
          /\ w.call = id /\ w.outcome = k.outcome
      BY <1>2, <1>3, <1>4, <3>1, <3>2
    <3>5. k.outcome = "allowed" <=> HasRun(k.id)'
      BY <1>6, <3>3, <3>4
    <3>6. Progress(k)'
      BY <1>1, <3>3, <3>4, <3>5 DEF Progress, BeforeReceipt, AtReceipt
    <3> QED BY <3>2, <3>6 DEF Progress
  <2>2. CASE d # c
    <3>1. gcall'[d] = gcall[d] /\ Progress(gcall[d])
      BY <1>5, <2>2 DEF ReceiptsInv, EveryCallTold
    <3> QED BY <1>1, <1>6, <3>1 DEF Progress
  <2> QED BY <2>1, <2>2
<1>8. \A d \in GuardCalls : gcall'[d].id = gcall[d].id /\ (gcall'[d].at = "idle" <=> gcall[d].at = "idle")
  BY <1>1, <1>4, <1>5
<1>9. \A i \in 1 .. made : Accounted(i)'
  BY <1>1, <1>6, <1>8 DEF ReceiptsInv, EveryCallTold, Accounted
<1>10. EveryCallTold'
  BY <1>1, <1>7, <1>8, <1>9 DEF ReceiptsInv, EveryCallTold
<1>11. ASSUME ~mixed' PROVE OneReceipt'
  <2>1. OneReceipt /\ \A d \in GuardCalls : ~Appending(gcall[d])
    BY <1>1, <1>11 DEF ReceiptsInv
  <2>2. receiptTip = TipOf(receipts)
    BY <2>1 DEF OneReceipt, Appending
  <2>3. \A d \in GuardCalls : Appending(gcall'[d]) => d = c
    BY <1>5, <2>1
  <2>4. gcall'[c] = m /\ \A d \in GuardCalls : gcall'[d].at # "hashing"
    BY <1>4, <1>5, <2>1 DEF Appending
  <2>5. ASSUME NEW d \in GuardCalls, gcall'[d].at = "signing"
        PROVE  \E x : /\ gcall'[d].receipt = <<x>> /\ x.seq = Len(receipts')
                      /\ x.prevHash = TipOf(receipts')
    <3>1. d = c
      BY <2>3, <2>5 DEF Appending
    <3> QED BY <1>1, <1>2, <1>3, <1>4, <2>2, <2>4, <3>1
  <2> QED BY <1>1, <2>1, <2>2, <2>3, <2>4, <2>5 DEF OneReceipt, Appending
<1> QED BY <1>10, <1>11 DEF ReceiptsInv

(* The receipt is signed and pushed.                                       *)
LEMMA SignedTold ==
  ASSUME CallsTyped, ReceiptsInv, NEW c \in GuardCalls, IsCall(gcall[c]), ReceiptSigned(c)
  PROVE  ReceiptsInv'
<1> DEFINE m == [gcall[c] EXCEPT !.at = "hashing"]
<1>1. /\ gcall' = [gcall EXCEPT ![c] = m] /\ gcall[c].at = "signing"
      /\ receipts' = Append(receipts, gcall[c].receipt[1])
      /\ UNCHANGED <<receiptTip, ran, unrecorded, mixed, made>>
  BY DEF ReceiptSigned
<1>2. /\ m.at = "hashing" /\ m.receipt = gcall[c].receipt /\ m.id = gcall[c].id
      /\ m.outcome = gcall[c].outcome
  BY DEF IsCall, CallRecords
<1> HIDE DEF m
<1>3. \A d \in GuardCalls : gcall'[d] = IF d = c THEN m ELSE gcall[d]
  BY <1>1, Moved
<1>4. Progress(gcall[c])
  BY DEF ReceiptsInv, EveryCallTold
<1>5. PICK x : gcall[c].receipt = <<x>> /\ x.call = gcall[c].id /\ x.outcome = gcall[c].outcome
  BY <1>1, <1>4 DEF Progress
<1>6. PICK S : receipts \in Seq(S)
  BY DEF ReceiptsInv, EveryCallTold
<1>7. PICK n : n = Len(receipts)
  OBVIOUS
<1>8. /\ receipts' = Append(receipts, x) /\ receipts' \in Seq(S \cup {x}) /\ n \in Nat
      /\ Len(receipts') = n + 1 /\ receipts'[n + 1] = x
      /\ \A j \in 1 .. n : receipts'[j] = receipts[j]
  <2>1. receipts' = Append(receipts, x)
    BY <1>1, <1>5
  <2>2. receipts \in Seq(S \cup {x}) /\ x \in S \cup {x} /\ n \in Nat
    BY <1>6, <1>7
  <2> QED BY <1>7, <2>1, <2>2
<1>9. \A i : HasRun(i)' <=> HasRun(i)
  BY <1>1 DEF HasRun
<1>10. \A i : Told(i) => Told(i)'
  BY <1>6, <1>7, <1>8, <1>9 DEF Told
<1>11. PICK id : id = gcall[c].id
  OBVIOUS
<1>12. Told(id)' /\ (gcall[c].outcome = "allowed" <=> HasRun(id)) /\ id \in 1 .. made
  <2>1. (gcall[c].outcome = "allowed" <=> HasRun(id)) /\ id \in 1 .. made
    BY <1>1, <1>4, <1>11 DEF Progress, AtReceipt
  <2>2. receipts'[n + 1].call = id /\ (receipts'[n + 1].outcome = "allowed" <=> HasRun(id)')
    BY <1>5, <1>8, <1>9, <1>11, <2>1
  <2>3. (n + 1) \in DOMAIN receipts'
    BY <1>8
  <2> QED BY <2>1, <2>2, <2>3 DEF Told
<1>17. ASSUME NEW d \in GuardCalls PROVE Progress(gcall[d])'
  <2>1. CASE d = c
    <3>2. PICK k : k = gcall'[d]
      OBVIOUS
    <3>4. k.at = "hashing" /\ k.id = id /\ k.outcome = gcall[c].outcome
      BY <1>2, <1>3, <1>11, <2>1, <3>2
    <3>5. (k.outcome = "allowed" <=> HasRun(k.id)') /\ Told(k.id)'
      BY <1>9, <1>12, <3>4
    <3>6. Progress(k)'
      BY <1>1, <1>12, <3>4, <3>5 DEF Progress, BeforeReceipt, AtReceipt
    <3> QED BY <3>2, <3>6 DEF Progress
  <2>2. CASE d # c
    <3>1. gcall'[d] = gcall[d] /\ Progress(gcall[d])
      BY <1>3, <2>2 DEF ReceiptsInv, EveryCallTold
    <3> QED BY <1>1, <1>9, <1>10, <3>1 DEF Progress
  <2> QED BY <2>1, <2>2
<1>13. \A d \in GuardCalls : gcall'[d].id = gcall[d].id /\ (gcall'[d].at = "idle" <=> gcall[d].at = "idle")
  BY <1>1, <1>2, <1>3
<1>14. \A i \in 1 .. made : Accounted(i)'
  BY <1>1, <1>10, <1>13 DEF ReceiptsInv, EveryCallTold, Accounted
<1>15. EveryCallTold'
  BY <1>1, <1>8, <1>17, <1>13, <1>14 DEF ReceiptsInv, EveryCallTold
<1>16. ASSUME ~mixed' PROVE OneReceipt'
  <2>1. OneReceipt
    BY <1>1, <1>16 DEF ReceiptsInv
  <2>2. \A d \in GuardCalls : Appending(gcall'[d]) => d = c
    BY <1>1, <1>3, <2>1 DEF OneReceipt, Appending
  <2>3. gcall'[c] = m
    BY <1>3
  <2>4. x.seq = n /\ x.prevHash = TipOf(receipts)
    BY <1>1, <1>5, <1>7, <2>1 DEF OneReceipt
  <2>5. TipOf(receipts') = <<x>>
    BY <1>8 DEF TipOf
  <2>6. ReceiptsVerify(receipts')
    <3>1. \A i \in 1 .. n : receipts[i].seq = i - 1 /\
            receipts[i].prevHash = IF i = 1 THEN <<>> ELSE <<receipts[i - 1]>>
      BY <1>6, <1>7, <2>1 DEF OneReceipt, ReceiptsVerify
    <3>2. x.prevHash = IF n + 1 = 1 THEN <<>> ELSE <<receipts'[n]>>
      BY <1>7, <1>8, <2>4 DEF TipOf
    <3>3. ASSUME NEW i \in 1 .. n + 1
          PROVE  receipts'[i].seq = i - 1 /\
                   receipts'[i].prevHash = IF i = 1 THEN <<>> ELSE <<receipts'[i - 1]>>
      <4>1. CASE i = n + 1
        BY <1>8, <2>4, <3>2, <4>1
      <4>2. CASE i # n + 1
        <5>1. i \in 1 .. n /\ (i # 1 => i - 1 \in 1 .. n)
          BY <1>8, <4>2
        <5> QED BY <1>8, <3>1, <5>1
      <4> QED BY <4>1, <4>2
    <3>4. DOMAIN receipts' = 1 .. n + 1
      BY <1>8
    <3> QED BY <3>3, <3>4 DEF ReceiptsVerify
  <2>7. Len(receipts') > 0
    BY <1>8
  <2>8. ASSUME NEW d \in GuardCalls, gcall'[d].at = "signing" \/ gcall'[d].at = "hashing"
        PROVE  gcall'[d].at = "hashing" /\ gcall'[d].receipt = TipOf(receipts')
    BY <1>2, <1>5, <2>2, <2>3, <2>5, <2>8 DEF Appending
  <2>9. ~(\A d \in GuardCalls : gcall'[d].at # "hashing")
    BY <1>2, <2>3
  <2> QED BY <2>2, <2>6, <2>7, <2>8, <2>9 DEF OneReceipt, Appending
<1> QED BY <1>15, <1>16 DEF ReceiptsInv

(* The receipt is chained, and the call ends.                              *)
LEMMA ReturnTold ==
  ASSUME CallsTyped, ReceiptsInv, NEW c \in GuardCalls, CallReturns(c)
  PROVE  ReceiptsInv'
<1>1. /\ gcall' = [gcall EXCEPT ![c] = IdleCall] /\ gcall[c].at = "hashing"
      /\ receiptTip' = gcall[c].receipt
      /\ UNCHANGED <<receipts, ran, unrecorded, mixed, made>>
  BY DEF CallReturns
<1>2. IdleCall.at = "idle" /\ IdleCall.id = 0
  BY DEF IdleCall
<1>3. \A d \in GuardCalls : gcall'[d] = IF d = c THEN IdleCall ELSE gcall[d]
  BY <1>1, Moved
<1>4. Progress(gcall[c])
  BY DEF ReceiptsInv, EveryCallTold
<1>6. \A i : (HasRun(i)' <=> HasRun(i)) /\ (Told(i)' <=> Told(i))
  BY <1>1 DEF HasRun, Told
<1>7. ASSUME NEW d \in GuardCalls PROVE Progress(gcall[d])'
  <2>1. CASE d = c
    <3>1. gcall'[d].at = "idle" /\ gcall'[d].id = 0
      BY <1>2, <1>3, <2>1
    <3> QED BY <3>1 DEF Progress, BeforeReceipt, AtReceipt
  <2>2. CASE d # c
    <3>1. gcall'[d] = gcall[d] /\ Progress(gcall[d])
      BY <1>3, <2>2 DEF ReceiptsInv, EveryCallTold
    <3> QED BY <1>1, <1>6, <3>1 DEF Progress
  <2> QED BY <2>1, <2>2
<1>8. ASSUME NEW d \in GuardCalls, NEW e \in GuardCalls, d # e,
             gcall'[d].at # "idle", gcall'[e].at # "idle"
      PROVE  gcall'[d].id # gcall'[e].id
  BY <1>2, <1>3, <1>8 DEF ReceiptsInv, EveryCallTold
<1>9. ASSUME NEW i \in 1 .. made' PROVE Accounted(i)'
  <2>1. Accounted(i)
    BY <1>1 DEF ReceiptsInv, EveryCallTold
  <2>2. CASE i = gcall[c].id
    <3>1. Told(gcall[c].id)
      BY <1>1, <1>4 DEF Progress
    <3>2. Told(i)'
      BY <1>6, <2>2, <3>1
    <3> QED BY <3>2 DEF Accounted
  <2>3. CASE i # gcall[c].id
    BY <1>1, <1>3, <1>6, <2>1, <2>3 DEF Accounted
  <2> QED BY <2>2, <2>3
<1>10. EveryCallTold'
  BY <1>1, <1>7, <1>8, <1>9 DEF ReceiptsInv, EveryCallTold
<1>11. ASSUME ~mixed' PROVE OneReceipt'
  <2>1. OneReceipt
    BY <1>1, <1>11 DEF ReceiptsInv
  <2>2. \A d \in GuardCalls : Appending(gcall[d]) => d = c
    BY <1>1, <2>1 DEF OneReceipt, Appending
  <2>3. \A d \in GuardCalls : ~Appending(gcall'[d])
    BY <1>2, <1>3, <2>2 DEF Appending
  <2>4. receiptTip' = TipOf(receipts)
    BY <1>1, <2>1 DEF OneReceipt
  <2> QED BY <1>1, <2>1, <2>3, <2>4 DEF OneReceipt, Appending
<1> QED BY <1>10, <1>11 DEF ReceiptsInv

LEMMA ReceiptsInit == GuardInit => ReceiptsInv
<1> SUFFICES ASSUME GuardInit PROVE ReceiptsInv
  OBVIOUS
<1>1. /\ \A c \in GuardCalls : gcall[c].at = "idle" /\ gcall[c].id = 0
      /\ receipts = <<>> /\ receiptTip = <<>> /\ ran = {} /\ made = 0
  BY DEF GuardInit, IdleCall
<1>2. receipts \in Seq({}) /\ Len(receipts) = 0 /\ DOMAIN receipts = {}
  BY <1>1
<1>3. EveryCallTold
  BY <1>1, <1>2 DEF EveryCallTold, Progress, BeforeReceipt, AtReceipt
<1>4. OneReceipt
  BY <1>1, <1>2 DEF OneReceipt, ReceiptsVerify, Appending, TipOf
<1> QED BY <1>3, <1>4 DEF ReceiptsInv

(* Every step keeps what the receipts tell.                                *)
LEMMA ReceiptsNext == GuardIInv /\ ReceiptsInv /\ [GuardNext]_guardVars => ReceiptsInv'
<1> SUFFICES ASSUME GuardIInv, ReceiptsInv, [GuardNext]_guardVars PROVE ReceiptsInv'
  OBVIOUS
<1>t. CallsTyped /\ \A c \in GuardCalls : IsCall(gcall[c])
  BY DEF GuardIInv, CallsTyped, InOrder
<1>1. ASSUME NEW g \in WebGrants, IssueGrant(g) \/ RevokeGrant(g) PROVE ReceiptsInv'
  BY <1>1, NothingTold DEF IssueGrant, RevokeGrant
<1>2. CASE GuardLater \/ UNCHANGED guardVars
  BY <1>2, NothingTold DEF GuardLater, guardVars
<1>3. ASSUME NEW c \in GuardCalls, NEW x \in Inputs, Invoke(c, x) PROVE ReceiptsInv'
  BY <1>3, <1>t, InvokeTold
<1>4. ASSUME NEW c \in GuardCalls, Refused(c), gcall[c].at \in BeforeReceipt,
             UNCHANGED <<receipts, receiptTip, ran, unrecorded, mixed, made>>
      PROVE  ReceiptsInv'
  <2>1. PICK m : m = [gcall[c] EXCEPT !.at = "recording", !.outcome = "refused"]
    OBVIOUS
  <2>2. m.id = gcall[c].id /\ m.at = "recording" /\ m.outcome # "allowed"
    BY <1>t, <2>1 DEF IsCall, CallRecords
  <2>3. gcall' = [gcall EXCEPT ![c] = m]
    BY <1>4, <2>1 DEF Refused
  <2> QED BY <1>4, <1>t, <2>2, <2>3, QuietTold
<1>5. ASSUME NEW c \in GuardCalls, CheckCandidate(c) PROVE ReceiptsInv'
  <2> DEFINE g == Candidates(gcall[c])[gcall[c].candidate]
             S == {g}
  <2>0. /\ gcall[c].at \in BeforeReceipt
        /\ UNCHANGED <<receipts, receiptTip, ran, unrecorded, mixed, made>>
        /\ \/ Refused(c)
           \/ gcall' = [gcall EXCEPT ![c].at = "verifying", ![c].grant = S]
           \/ gcall' = [gcall EXCEPT ![c].candidate = @ + 1]
    BY <1>5 DEF CheckCandidate, BeforeReceipt
  <2> HIDE DEF S
  <2>1. CASE gcall' = [gcall EXCEPT ![c].at = "verifying", ![c].grant = S]
    <3>1. PICK m : m = [gcall[c] EXCEPT !.at = "verifying", !.grant = S]
      OBVIOUS
    <3>2. m.id = gcall[c].id /\ m.at \in BeforeReceipt
      BY <1>t, <3>1 DEF IsCall, CallRecords, BeforeReceipt
    <3>3. gcall' = [gcall EXCEPT ![c] = m]
      BY <2>1, <3>1
    <3> QED BY <1>t, <2>0, <3>2, <3>3, QuietTold
  <2>2. CASE gcall' = [gcall EXCEPT ![c].candidate = @ + 1]
    <3>1. PICK m : m = [gcall[c] EXCEPT !.candidate = @ + 1]
      OBVIOUS
    <3>2. m.id = gcall[c].id /\ m.at \in BeforeReceipt
      BY <1>t, <2>0, <3>1 DEF IsCall, CallRecords
    <3>3. gcall' = [gcall EXCEPT ![c] = m]
      BY <2>2, <3>1
    <3> QED BY <1>t, <2>0, <3>2, <3>3, QuietTold
  <2> QED BY <2>0, <2>1, <2>2, <1>4
<1>6. ASSUME NEW c \in GuardCalls, Unguarded(c) PROVE ReceiptsInv'
  <2>0. /\ gcall[c].at \in BeforeReceipt
        /\ UNCHANGED <<receipts, receiptTip, ran, unrecorded, mixed, made>>
        /\ Refused(c) \/ gcall' = [gcall EXCEPT ![c].at = "executing"]
    BY <1>6 DEF Unguarded, BeforeReceipt
  <2>1. CASE gcall' = [gcall EXCEPT ![c].at = "executing"]
    <3>1. PICK m : m = [gcall[c] EXCEPT !.at = "executing"]
      OBVIOUS
    <3>2. m.id = gcall[c].id /\ m.at \in BeforeReceipt
      BY <1>t, <3>1 DEF IsCall, CallRecords, BeforeReceipt
    <3>3. gcall' = [gcall EXCEPT ![c] = m]
      BY <2>1, <3>1
    <3> QED BY <1>t, <2>0, <3>2, <3>3, QuietTold
  <2> QED BY <2>0, <2>1, <1>4
<1>7. ASSUME NEW c \in GuardCalls, CandidateVerified(c) PROVE ReceiptsInv'
  <2> DEFINE w == gcall[c].revokedBefore \cap gcall[c].grant
             n == gcall[c].candidate + 1
  <2>0. /\ gcall[c].at \in BeforeReceipt
        /\ UNCHANGED <<receipts, receiptTip, ran, unrecorded, mixed, made>>
        /\ \/ gcall' = [gcall EXCEPT ![c] = [gcall[c] EXCEPT !.at = "confirming",
                                                             !.revokedBefore = w]]
           \/ gcall' = [gcall EXCEPT ![c] = [gcall[c] EXCEPT !.at = "deciding", !.candidate = n,
                                                             !.grant = {}]]
    BY <1>7 DEF CandidateVerified, BeforeReceipt
  <2> HIDE DEF w, n
  <2>1. PICK m1, m2 : /\ m1 = [gcall[c] EXCEPT !.at = "confirming", !.revokedBefore = w]
                      /\ m2 = [gcall[c] EXCEPT !.at = "deciding", !.candidate = n, !.grant = {}]
    OBVIOUS
  <2>2. /\ m1.id = gcall[c].id /\ m1.at \in BeforeReceipt
        /\ m2.id = gcall[c].id /\ m2.at \in BeforeReceipt
    BY <1>t, <2>1 DEF IsCall, CallRecords, BeforeReceipt
  <2> QED BY <1>t, <2>0, <2>1, <2>2, QuietTold
<1>8. ASSUME NEW c \in GuardCalls, ConfirmationDenied(c) PROVE ReceiptsInv'
  BY <1>8, <1>4 DEF ConfirmationDenied, BeforeReceipt
<1>9. ASSUME NEW c \in GuardCalls, Confirmed(c) PROVE ReceiptsInv'
  <2> DEFINE late == guardTime >= GrantExpiry[CHOOSE h \in gcall[c].grant : TRUE]
  <2>0. /\ gcall[c].at \in BeforeReceipt
        /\ UNCHANGED <<receipts, receiptTip, ran, unrecorded, mixed, made>>
        /\ \/ Refused(c)
           \/ gcall' = [gcall EXCEPT ![c] = [gcall[c] EXCEPT !.at = "executing"]]
           \/ gcall' = [gcall EXCEPT ![c] = [gcall[c] EXCEPT !.at = "executing", !.late = late]]
    BY <1>9 DEF Confirmed, BeforeReceipt
  <2> HIDE DEF late
  <2>1. PICK m1, m2 : /\ m1 = [gcall[c] EXCEPT !.at = "executing"]
                      /\ m2 = [gcall[c] EXCEPT !.at = "executing", !.late = late]
    OBVIOUS
  <2>2. /\ m1.id = gcall[c].id /\ m1.at \in BeforeReceipt
        /\ m2.id = gcall[c].id /\ m2.at \in BeforeReceipt
    BY <1>t, <2>1 DEF IsCall, CallRecords, BeforeReceipt
  <2> QED BY <1>t, <1>4, <2>0, <2>1, <2>2, QuietTold
<1>10. ASSUME NEW c \in GuardCalls, Executed(c) PROVE ReceiptsInv'
  <2>1. PICK m : m = [gcall[c] EXCEPT !.at = "recording", !.outcome = "allowed"]
    OBVIOUS
  <2>2. m.id = gcall[c].id /\ m.at = "recording" /\ m.outcome = "allowed"
    BY <1>t, <2>1 DEF IsCall, CallRecords
  <2>3. /\ gcall' = [gcall EXCEPT ![c] = m] /\ gcall[c].at = "executing" /\ Ran(c)
        /\ UNCHANGED <<receipts, receiptTip, unrecorded, mixed, made>>
    BY <1>10, <2>1 DEF Executed
  <2> QED BY <1>t, <2>2, <2>3, RunTold
<1>11. ASSUME NEW c \in GuardCalls, ExecuteThrows(c) PROVE ReceiptsInv'
  <2>1. PICK m : m = IdleCall
    OBVIOUS
  <2>2. m.at = "idle" /\ m.id = 0
    BY <2>1 DEF IdleCall
  <2>3. /\ gcall' = [gcall EXCEPT ![c] = m] /\ gcall[c].at = "executing" /\ Ran(c)
        /\ unrecorded' /\ UNCHANGED <<receipts, receiptTip, mixed, made>>
    BY <1>11, <2>1 DEF ExecuteThrows
  <2> QED BY <1>t, <2>2, <2>3, RunTold
<1>12. ASSUME NEW c \in GuardCalls, BeginReceipt(c) \/ ReceiptSigned(c) \/ CallReturns(c)
       PROVE  ReceiptsInv'
  BY <1>12, <1>t, BeginTold, SignedTold, ReturnTold
<1> QED
  BY <1>1, <1>2, <1>3, <1>5, <1>6, <1>7, <1>8, <1>9, <1>10, <1>11, <1>12 DEF GuardNext

(* The receipts tell of every call that returned whether its handler ran,  *)
(* unless a handler threw, and they verify as a chain if append() was      *)
(* never called before an earlier one was done: for any number of calls in *)
(* progress.                                                               *)
THEOREM ReceiptsTell == GuardSpec => []ReceiptsHold
<1>1. GuardInit => ReceiptsInv
  BY ReceiptsInit
<1>2. GuardIInv /\ ReceiptsInv /\ [GuardNext]_guardVars => ReceiptsInv'
  BY ReceiptsNext
<1>3. ReceiptsInv => ReceiptsHold
  <2>1. SUFFICES ASSUME ReceiptsInv PROVE ReturnedIsRecorded /\ SerialReceiptsVerify
    BY DEF ReceiptsHold
  <2>2. ReturnedIsRecorded
    BY <2>1 DEF ReceiptsInv, EveryCallTold, Accounted, Told, HasRun, ReturnedIsRecorded
  <2>3. SerialReceiptsVerify
    BY <2>1 DEF ReceiptsInv, OneReceipt, SerialReceiptsVerify
  <2> QED BY <2>2, <2>3
<1> QED BY <1>1, <1>2, <1>3, GuardInvariance, PTL DEF GuardSpec

-----------------------------------------------------------------------------
(* Capability chains *)

(* A list of scopes covers no request that another does not. *)
ListCovers(parent, child) ==
  \A path \in Paths, method \in Methods :
    TokenMatchesScope(child, path, method) => TokenMatchesScope(parent, path, method)

(* "**" stands at the end of a pattern. *)
StarsLast ==
  \A l \in ScopeLists : \A s \in Scopes[l] :
    \A j \in DOMAIN s.glob : s.glob[j] = "**" => j = Len(s.glob)

(* A pattern that pathGlobIsSubset() finds narrower matches nothing else. *)
LEMMA NarrowerMatches ==
  ASSUME NEW child, NEW parent, NEW path,
         Len(child) \in Nat \ {0}, DOMAIN child = 1 .. Len(child),
         Len(parent) \in Nat \ {0}, DOMAIN parent = 1 .. Len(parent),
         Len(path) \in Nat \ {0}, DOMAIN path = 1 .. Len(path),
         \A j \in DOMAIN parent : parent[j] = "**" => j = Len(parent),
         PathGlobIsSubset(child, parent), MatchGlob(child, path)
  PROVE  MatchGlob(parent, path)
<1>1. PICK at \in [DOMAIN path -> DOMAIN child] :
        /\ at[1] = 1 /\ at[Len(path)] = Len(child)
        /\ \A i \in DOMAIN path : SegmentMatches(child[at[i]], path[i])
        /\ \A i \in 2 .. Len(path) :
             at[i] = at[i - 1] + 1 \/ (at[i] = at[i - 1] /\ child[at[i]] = "**")
  BY DEF MatchGlob
<1>2. \A c, p, x : SegmentIsSubset(c, p) /\ SegmentMatches(c, x) => SegmentMatches(p, x)
  BY DEF SegmentIsSubset, SegmentMatches
<1>3. \A x : SegmentMatches("**", x)
  BY DEF SegmentMatches
<1>4. PICK stars : stars = {j \in DOMAIN parent : parent[j] = "**"}
  OBVIOUS
<1>5. CASE stars = {}
  <2>1. /\ Len(child) = Len(parent)
        /\ \A j \in 1 .. Len(parent) : child[j] # "**" /\ SegmentIsSubset(child[j], parent[j])
    BY <1>4, <1>5 DEF PathGlobIsSubset
  <2>2. at \in [DOMAIN path -> DOMAIN parent]
    BY <2>1
  <2>3. \A i \in DOMAIN path : SegmentMatches(parent[at[i]], path[i])
    BY <2>1, <2>2, <1>1, <1>2
  <2>4. \A i \in 2 .. Len(path) : at[i] = at[i - 1] + 1
    BY <2>1, <2>2, <1>1
  <2> QED BY <2>1, <2>2, <2>3, <2>4, <1>1 DEF MatchGlob
<1>6. CASE stars # {}
  <2>0. PICK n : n = Len(parent)
    OBVIOUS
  <2>1. stars = {n} /\ parent[n] = "**" /\ n \in DOMAIN parent /\ n \in Nat \ {0}
    BY <2>0, <1>4, <1>6
  <2>2. Min(stars) = n
    BY <2>1 DEF Min
  <2>3. /\ Len(child) > n - 1
        /\ \A j \in 1 .. n - 1 : child[j] # "**" /\ SegmentIsSubset(child[j], parent[j])
    BY <1>4, <1>6, <2>2 DEF PathGlobIsSubset
  <2>4. PICK to : to = [i \in DOMAIN path |-> IF at[i] < n THEN at[i] ELSE n]
    OBVIOUS
  <2>5. \A i \in DOMAIN path : at[i] \in 1 .. Len(child)
    BY <1>1
  <2>6. to \in [DOMAIN path -> DOMAIN parent]
    BY <2>0, <2>1, <2>4, <2>5
  <2>7. to[1] = 1 /\ to[Len(path)] = n
    BY <2>1, <2>3, <2>4, <2>5, <1>1
  <2>8. ASSUME NEW i \in DOMAIN path PROVE SegmentMatches(parent[to[i]], path[i])
    <3>1. CASE at[i] < n
      <4>1. to[i] = at[i] /\ at[i] \in 1 .. n - 1
        BY <3>1, <2>1, <2>4, <2>5
      <4> QED BY <4>1, <2>3, <1>1, <1>2
    <3>2. CASE ~(at[i] < n)
      <4>1. to[i] = n
        BY <3>2, <2>4
      <4> QED BY <4>1, <2>1, <1>3
    <3> QED BY <3>1, <3>2
  <2>9. ASSUME NEW i \in 2 .. Len(path)
        PROVE  to[i] = to[i - 1] + 1 \/ (to[i] = to[i - 1] /\ parent[to[i]] = "**")
    <3>1. i \in DOMAIN path /\ i - 1 \in DOMAIN path
      OBVIOUS
    <3>2. /\ to[i] = (IF at[i] < n THEN at[i] ELSE n)
          /\ to[i - 1] = (IF at[i - 1] < n THEN at[i - 1] ELSE n)
          /\ at[i] \in Nat \ {0} /\ at[i - 1] \in Nat \ {0}
      BY <3>1, <2>4, <2>5
    <3>3. CASE at[i] = at[i - 1] + 1
      BY <3>2, <3>3, <2>1
    <3>4. CASE at[i] = at[i - 1] /\ child[at[i]] = "**"
      <4>1. ~(at[i] < n)
        BY <3>2, <3>4, <2>1, <2>3
      <4> QED BY <4>1, <3>2, <3>4, <2>1
    <3> QED BY <3>3, <3>4, <1>1
  <2> QED BY <2>0, <2>6, <2>7, <2>8, <2>9 DEF MatchGlob
<1> QED BY <1>5, <1>6

(* So does a list of scopes that scopesAreSubset() finds narrower. *)
LEMMA NarrowerCovers ==
  ASSUME StarsLast, NEW child \in ScopeLists, NEW parent \in ScopeLists,
         <<child, parent>> \in Narrower
  PROVE  ListCovers(parent, child)
<1>1. ScopesAreSubset(child, parent)
  BY DEF Narrower
<1>2. SUFFICES ASSUME NEW path \in Paths, NEW method \in Methods,
                      TokenMatchesScope(child, path, method)
               PROVE  TokenMatchesScope(parent, path, method)
  BY DEF ListCovers
<1>3. PICK c \in Scopes[child] : MatchGlob(c.glob, path) /\ (c.methods = {} \/ method \in c.methods)
  BY <1>2 DEF TokenMatchesScope
<1>4. PICK p \in Scopes[parent] : ScopeIsSubset(c, p)
  BY <1>1 DEF ScopesAreSubset
<1>5. p.methods = {} \/ method \in p.methods
  BY <1>3, <1>4 DEF ScopeIsSubset
<1>6. /\ Len(c.glob) \in Nat \ {0} /\ DOMAIN c.glob = 1 .. Len(c.glob)
      /\ Len(p.glob) \in Nat \ {0} /\ DOMAIN p.glob = 1 .. Len(p.glob)
      /\ \A j \in DOMAIN p.glob : p.glob[j] = "**" => j = Len(p.glob)
  BY CapabilityAssumption DEF StarsLast
<1>7. Len(path) \in Nat \ {0} /\ DOMAIN path = 1 .. Len(path)
  <2>1. PICK n \in 1 .. PathLength : path \in [1 .. n -> Literals]
    BY DEF Paths
  <2>2. path \in Seq(Literals) /\ DOMAIN path = 1 .. n /\ n \in Nat \ {0}
    BY <2>1, CapabilityAssumption
  <2> QED BY <2>2
<1>8. PathGlobIsSubset(c.glob, p.glob)
  BY <1>4 DEF ScopeIsSubset
<1>9. PICK cg, pg : cg = c.glob /\ pg = p.glob
  OBVIOUS
<1>10. MatchGlob(pg, path)
  BY <1>3, <1>6, <1>7, <1>8, <1>9, NarrowerMatches
<1> QED BY <1>5, <1>9, <1>10 DEF TokenMatchesScope

(* Going along a chain from its root. *)
LEMMA FromRoot ==
  ASSUME NEW n \in Nat \ {0}, NEW B, 1 \in B, \A i \in 1 .. n - 1 : i \in B => i + 1 \in B
  PROVE  1 .. n \subseteq B
<1> SUFFICES ASSUME (1 .. n) \ B # {} PROVE FALSE
  OBVIOUS
<1>1. PICK T : T = (1 .. n) \ B
  OBVIOUS
<1>2. T \subseteq Nat /\ T # {}
  BY <1>1
<1>3. PICK x \in T : \A y \in T : x <= y
  BY <1>2, LeastNatural
<1>4. x - 1 \in 1 .. n - 1 /\ x - 1 \notin T
  BY <1>1, <1>3
<1> QED BY <1>1, <1>3, <1>4

(* The other way round. *)
LEMMA FromEnd ==
  ASSUME NEW n \in Nat \ {0}, NEW B, n \in B, \A i \in 2 .. n : i \in B => i - 1 \in B
  PROVE  1 .. n \subseteq B
<1> DEFINE D == {n + 1 - i : i \in (1 .. n) \cap B}
<1>1. \A j \in 1 .. n : n + 1 - j \in B => j \in D
  <2>1. SUFFICES ASSUME NEW j \in 1 .. n, n + 1 - j \in B PROVE j \in D
    OBVIOUS
  <2>2. n + 1 - j \in 1 .. n /\ j = n + 1 - (n + 1 - j)
    OBVIOUS
  <2> QED BY <2>1, <2>2
<1>2. \A j \in 1 .. n : j \in D => n + 1 - j \in B
  OBVIOUS
<1> HIDE DEF D
<1>3. 1 \in D
  BY <1>1
<1>4. ASSUME NEW j \in 1 .. n - 1, j \in D PROVE j + 1 \in D
  <2>1. n + 1 - j \in 2 .. n /\ n + 1 - j \in B /\ j + 1 \in 1 .. n
    BY <1>2, <1>4
  <2>2. n + 1 - (j + 1) \in B
    <3>1. (n + 1 - j) - 1 \in B
      BY <2>1
    <3>2. (n + 1 - j) - 1 = n + 1 - (j + 1)
      BY <2>1
    <3> QED BY <3>1, <3>2
  <2> QED BY <2>1, <2>2, <1>1
<1>5. 1 .. n \subseteq D
  BY ONLY n \in Nat \ {0}, <1>3, <1>4, FromRoot
<1>6. ASSUME NEW i \in 1 .. n PROVE i \in B
  <2>1. n + 1 - i \in 1 .. n
    OBVIOUS
  <2>2. n + 1 - (n + 1 - i) \in B
    BY <2>1, <1>2, <1>5
  <2>3. n + 1 - (n + 1 - i) = i
    OBVIOUS
  <2> QED BY <2>2, <2>3
<1> QED BY <1>6

(* What is signed. *)
TokenRecords ==
  [issuer : Agents, subject : Agents, scopes : ScopeLists, expiresAt : Nat, depth : Nat,
   parent : Nat, max : Nat \cup {Unlimited}, byHand : BOOLEAN]

(* What delegateCapabilityToken() signed follows its parent, with one      *)
(* delegation less to give.                                                *)
TokenSound(id) ==
  LET t == tokens[id] IN
  /\ t.parent < id
  /\ t.parent = 0 => t.depth = 0
  /\ t.parent # 0 /\ ~t.byHand =>
       HopFollows(t, t.parent, tokens[t.parent]) /\ t.max = NextBudget(tokens[t.parent])

(* The inductive invariant: every token there is came about as it should. *)
CapIInv ==
  /\ capTime \in Nat /\ tokens \in Seq(TokenRecords) /\ Len(tokens) <= MaxTokens
  /\ \A id \in 1 .. Len(tokens) : TokenSound(id)

(* Signing one more sound token keeps the invariant. *)
LEMMA SignedToken ==
  ASSUME CapIInv, Len(tokens) < MaxTokens, UNCHANGED capTime, NEW t \in TokenRecords, Signed(t),
         t.parent \in 0 .. Len(tokens), t.parent = 0 => t.depth = 0,
         t.parent # 0 /\ ~t.byHand =>
           HopFollows(t, t.parent, tokens[t.parent]) /\ t.max = NextBudget(tokens[t.parent])
  PROVE  CapIInv'
<1> USE CapabilityAssumption
<1>1. PICK n, q : n = Len(tokens) /\ q = tokens
  OBVIOUS
<1>2. q \in Seq(TokenRecords) /\ n = Len(q) /\ n \in Nat /\ tokens' = Append(q, t)
  BY <1>1 DEF CapIInv, Signed
<1>3. /\ Append(q, t) \in Seq(TokenRecords) /\ Len(Append(q, t)) = n + 1
      /\ Append(q, t)[n + 1] = t /\ \A i \in 1 .. n : Append(q, t)[i] = q[i]
  BY ONLY <1>2, t \in TokenRecords
<1>4. /\ tokens' \in Seq(TokenRecords) /\ Len(tokens') = n + 1
      /\ tokens'[n + 1] = t /\ \A i \in 1 .. n : tokens'[i] = tokens[i]
  BY <1>1, <1>2, <1>3
<1>5. capTime' \in Nat /\ Len(tokens') <= MaxTokens
  BY <1>1, <1>2, <1>4 DEF CapIInv
<1>6. ASSUME NEW id \in 1 .. n PROVE TokenSound(id)'
  <2>0. tokens[id] \in TokenRecords /\ TokenSound(id)
    BY <1>1, <1>2 DEF CapIInv
  <2>1. TokenSound(id) /\ tokens[id].parent \in Nat /\ tokens'[id] = tokens[id]
    BY <2>0, <1>4 DEF TokenRecords
  <2>2. tokens[id].parent # 0 => tokens'[tokens[id].parent] = tokens[tokens[id].parent]
    <3>1. tokens[id].parent # 0 => tokens[id].parent \in 1 .. n
      BY <2>1, <1>2 DEF TokenSound
    <3> QED BY <3>1, <1>4
  <2>3. PICK u, v : u = tokens[id] /\ v = tokens[u.parent]
    OBVIOUS
  <2>4. tokens'[id] = u /\ (u.parent # 0 => tokens'[u.parent] = v)
    BY <2>1, <2>2, <2>3
  <2> QED BY <2>1, <2>3, <2>4 DEF TokenSound
<1>7. TokenSound(n + 1)'
  <2>1. t.parent < n + 1 /\ (t.parent # 0 => tokens'[t.parent] = tokens[t.parent])
    BY <1>1, <1>2, <1>4
  <2> QED BY <2>1, <1>4 DEF TokenSound
<1>8. \A id \in 1 .. n + 1 : id \in 1 .. n \/ id = n + 1
  BY <1>2
<1> QED BY <1>4, <1>5, <1>6, <1>7, <1>8 DEF CapIInv

(* Every step keeps it. *)
LEMMA CapNextInv == CapIInv /\ [CapNext]_capVars => CapIInv'
<1> SUFFICES ASSUME CapIInv, [CapNext]_capVars PROVE CapIInv'
  OBVIOUS
<1> USE CapabilityAssumption
<1>t. capTime \in Nat /\ tokens \in Seq(TokenRecords) /\ Len(tokens) \in Nat
  BY DEF CapIInv
<1>1. ASSUME NEW issuer \in Agents, NEW subject \in Agents, NEW scopes \in ScopeLists,
             NEW ttl \in Lifetimes, NEW budget \in Budgets, tokens = <<>>,
             Issue(issuer, subject, scopes, ttl, budget)
      PROVE  CapIInv'
  <2>1. PICK x : x = capTime + ttl
    OBVIOUS
  <2>2. x \in Nat
    BY <2>1, <1>t
  <2>3. PICK t : t = [issuer |-> issuer, subject |-> subject, scopes |-> scopes, expiresAt |-> x,
                      depth |-> 0, parent |-> 0, max |-> budget, byHand |-> FALSE]
    OBVIOUS
  <2>4. t \in TokenRecords /\ t.parent = 0 /\ t.depth = 0
    BY <2>2, <2>3 DEF TokenRecords
  <2>5. Signed(t) /\ UNCHANGED capTime
    BY <1>1, <2>1, <2>3 DEF Issue
  <2>6. Len(tokens) < MaxTokens
    BY <1>1
  <2> QED BY <2>4, <2>5, <2>6, <1>t, SignedToken
<1>2. ASSUME Len(tokens) < MaxTokens, NEW id \in DOMAIN tokens, NEW subject \in Agents,
             NEW scopes \in ScopeLists, NEW ttl \in Lifetimes, Delegate(id, subject, scopes, ttl)
      PROVE  CapIInv'
  <2>0. id \in 1 .. Len(tokens)
    BY <1>t
  <2>1. PICK p, x, b, d : /\ p = tokens[id] /\ x = capTime + ttl /\ b = NextBudget(p)
                          /\ d = p.depth + 1
    OBVIOUS
  <2>2. p \in TokenRecords /\ MayDelegate(p, scopes, ttl)
    BY <1>2, <2>0, <2>1, <1>t DEF Delegate
  <2>3. x \in Nat /\ d \in Nat /\ b \in Nat \cup {Unlimited} /\ x <= p.expiresAt
    <3>1. p.expiresAt \in Nat /\ p.depth \in Nat /\ p.max \in Nat \cup {Unlimited}
      BY <2>2 DEF TokenRecords
    <3>2. x \in Nat /\ d \in Nat /\ x <= p.expiresAt
      BY <2>1, <2>2, <3>1, <1>t DEF MayDelegate
    <3>3. p.max # 0
      BY <2>2 DEF MayDelegate
    <3>4. b \in Nat \cup {Unlimited}
      BY ONLY <2>1, <3>1, <3>3 DEF NextBudget, Unlimited
    <3> QED BY <3>2, <3>4
  <2>4. PICK t : t = [issuer |-> p.subject, subject |-> subject, scopes |-> scopes, expiresAt |-> x,
                      depth |-> d, parent |-> id, max |-> b, byHand |-> FALSE]
    OBVIOUS
  <2>5. /\ t \in TokenRecords /\ t.parent = id /\ t.max = b /\ t.issuer = p.subject
        /\ t.depth = d /\ t.expiresAt = x /\ t.scopes = scopes
    <3>1. p.subject \in Agents /\ id \in Nat
      BY <2>0, <2>2 DEF TokenRecords
    <3> QED BY <3>1, <2>3, <2>4 DEF TokenRecords
  <2>6. Signed(t) /\ UNCHANGED capTime
    BY <1>2, <2>1, <2>4 DEF Delegate
  <2>7. HopFollows(t, id, p)
    BY <2>1, <2>2, <2>3, <2>5 DEF HopFollows, MayDelegate
  <2>8. t.parent \in 0 .. Len(tokens) /\ t.parent # 0 /\ p = tokens[t.parent]
    BY <2>0, <2>1, <2>5, <1>t
  <2> QED BY <1>2, <2>1, <2>5, <2>6, <2>7, <2>8, SignedToken
<1>3. ASSUME Len(tokens) < MaxTokens, NEW id \in DOMAIN tokens, NEW subject \in Agents,
             NEW scopes \in ScopeLists, NEW ttl \in Lifetimes, NEW signer \in Agents,
             NEW budget \in Budgets, SignByHand(signer, id, subject, scopes, ttl, budget)
      PROVE  CapIInv'
  <2>0. id \in 1 .. Len(tokens) /\ tokens[id] \in TokenRecords
    BY <1>t
  <2>1. PICK x, d : x = capTime + ttl /\ d = tokens[id].depth + 1
    OBVIOUS
  <2>2. x \in Nat /\ d \in Nat /\ id \in Nat
    BY <2>0, <2>1, <1>t DEF TokenRecords
  <2>3. PICK t : t = [issuer |-> signer, subject |-> subject, scopes |-> scopes, expiresAt |-> x,
                      depth |-> d, parent |-> id, max |-> budget, byHand |-> TRUE]
    OBVIOUS
  <2>4. t \in TokenRecords /\ t.parent = id /\ t.byHand
    BY <2>2, <2>3 DEF TokenRecords
  <2>5. Signed(t) /\ UNCHANGED capTime
    BY <1>3, <2>1, <2>3 DEF SignByHand
  <2>6. t.parent \in 0 .. Len(tokens) /\ t.parent # 0
    BY <2>0, <2>4, <1>t
  <2> QED BY <1>3, <2>4, <2>5, <2>6, SignedToken
<1>4. ASSUME CapLater \/ UNCHANGED capVars PROVE CapIInv'
  <2>1. capTime' \in Nat /\ UNCHANGED tokens
    BY <1>4, <1>t DEF CapLater, capVars
  <2>2. \A id \in 1 .. Len(tokens) : TokenSound(id)'
    BY <2>1 DEF CapIInv, TokenSound
  <2> QED BY <2>1, <2>2 DEF CapIInv
<1> QED BY <1>1, <1>2, <1>3, <1>4 DEF CapNext

(* A chain that is presented is a sequence of tokens there are. *)
LEMMA ChainFacts ==
  ASSUME CapIInv, NEW chain \in Chains
  PROVE  /\ Len(chain) \in Nat \ {0} /\ DOMAIN chain = 1 .. Len(chain)
         /\ \A i \in 1 .. Len(chain) : /\ chain[i] \in 1 .. Len(tokens)
                                       /\ tokens[chain[i]] \in TokenRecords
<1>1. PICK n : n = Len(tokens)
  OBVIOUS
<1>2. n \in 0 .. MaxTokens
  BY <1>1, CapabilityAssumption DEF CapIInv
<1>3. ChainsOver[n] = {c \in UNION {[1 .. k -> 1 .. n] : k \in 1 .. n} :
                         \A i \in 2 .. Len(c) : c[i - 1] < c[i]}
  BY <1>2 DEF ChainsOver
<1>4. PICK k \in 1 .. n : chain \in [1 .. k -> 1 .. n]
  <2>1. chain \in UNION {[1 .. k -> 1 .. n] : k \in 1 .. n}
    BY <1>1, <1>3 DEF Chains
  <2> QED BY <2>1
<1>5. chain \in Seq(1 .. n) /\ DOMAIN chain = 1 .. k /\ k \in Nat \ {0}
  BY <1>2, <1>4
<1>6. Len(chain) = k
  BY <1>5
<1>7. \A i \in 1 .. k : chain[i] \in 1 .. Len(tokens)
  BY <1>1, <1>4
<1>8. \A j \in 1 .. Len(tokens) : tokens[j] \in TokenRecords
  BY DEF CapIInv
<1> QED BY <1>5, <1>6, <1>7, <1>8

(* A covered list is in no pair with what it covers. *)
LEMMA CoversWithin ==
  ASSUME NEW parent, NEW child, ListCovers(parent, child)
  PROVE  <<child, parent>> \notin Exceeds
<1> SUFFICES ASSUME <<child, parent>> \in Exceeds PROVE FALSE
  OBVIOUS
<1>1. PICK r \in [child : ScopeLists, parent : ScopeLists, path : Paths, method : Methods] :
        /\ TokenMatchesScope(r.child, r.path, r.method)
        /\ ~TokenMatchesScope(r.parent, r.path, r.method)
        /\ <<child, parent>> = <<r.child, r.parent>>
  BY DEF Exceeds
<1>2. PICK path, method : path = r.path /\ method = r.method
  OBVIOUS
<1>3. path \in Paths /\ method \in Methods /\ r.child = child /\ r.parent = parent
  BY <1>1, <1>2
<1> QED BY <1>1, <1>2, <1>3 DEF ListCovers

(* Each hop narrows the one before, so the last token narrows them all. *)
LEMMA ChainNarrows ==
  ASSUME StarsLast, CapIInv PROVE DelegationNarrows
<1>1. SUFFICES ASSUME NEW chain \in Chains, VerifyCapabilityChain(chain), NEW i \in DOMAIN chain
               PROVE  /\ <<tokens[chain[Len(chain)]].scopes,
                           tokens[chain[i]].scopes>> \notin Exceeds
                      /\ capTime < tokens[chain[i]].expiresAt
  BY DEF DelegationNarrows
<1>2. PICK n, s : n = Len(chain) /\ s = [j \in 1 .. n |-> tokens[chain[j]].scopes]
  OBVIOUS
<1>3. n \in Nat \ {0} /\ i \in 1 .. n
  BY <1>2, ChainFacts
<1>4. \A j \in 1 .. n : s[j] \in ScopeLists
  <2>1. \A j \in 1 .. n : tokens[chain[j]] \in TokenRecords
    BY <1>2, ChainFacts
  <2> QED BY <2>1, <1>2 DEF TokenRecords
<1>5. ASSUME NEW j \in 2 .. n PROVE ListCovers(s[j - 1], s[j])
  <2>1. <<tokens[chain[j]].scopes, tokens[chain[j - 1]].scopes>> \in Narrower
    BY <1>1, <1>2 DEF VerifyCapabilityChain, HopFollows
  <2>2. j \in 1 .. n /\ j - 1 \in 1 .. n
    BY <1>3
  <2>3. <<s[j], s[j - 1]>> \in Narrower /\ s[j] \in ScopeLists /\ s[j - 1] \in ScopeLists
    BY <2>1, <2>2, <1>2, <1>4
  <2> QED BY <2>3, NarrowerCovers
<1>6. PICK B : B = {j \in 1 .. n : ListCovers(s[j], s[n])}
  OBVIOUS
<1>7. n \in B
  BY <1>3, <1>6 DEF ListCovers
<1>8. ASSUME NEW j \in 2 .. n, j \in B PROVE j - 1 \in B
  <2>1. ListCovers(s[j], s[n]) /\ ListCovers(s[j - 1], s[j])
    BY <1>5, <1>6, <1>8
  <2>2. ListCovers(s[j - 1], s[n])
    BY <2>1 DEF ListCovers
  <2>3. j - 1 \in 1 .. n
    BY <1>3
  <2> QED BY <2>2, <2>3, <1>6
<1>9. 1 .. n \subseteq B
  BY ONLY <1>3, <1>7, <1>8, FromEnd
<1>10. ListCovers(s[i], s[n])
  BY <1>3, <1>6, <1>9
<1>11. <<s[n], s[i]>> \notin Exceeds
  BY <1>10, CoversWithin
<1>12. s[n] = tokens[chain[n]].scopes /\ s[i] = tokens[chain[i]].scopes
  BY <1>2, <1>3
<1>13. capTime < tokens[chain[i]].expiresAt
  BY <1>1 DEF VerifyCapabilityChain, TokenVerifies
<1> QED BY <1>2, <1>11, <1>12, <1>13

(* The hops of a chain the library made follow one another. *)
LEMMA LibraryHops ==
  ASSUME CapIInv, NEW chain \in Chains, LibraryChain(chain), NEW i \in 2 .. Len(chain)
  PROVE  /\ HopFollows(tokens[chain[i]], chain[i - 1], tokens[chain[i - 1]])
         /\ tokens[chain[i]].max = NextBudget(tokens[chain[i - 1]])
<1>1. /\ i \in DOMAIN chain /\ i - 1 \in 1 .. Len(chain)
      /\ chain[i] \in 1 .. Len(tokens) /\ chain[i - 1] \in 1 .. Len(tokens)
  BY ChainFacts
<1>2. TokenSound(chain[i])
  BY <1>1 DEF CapIInv
<1>3. tokens[chain[i]].parent = chain[i - 1] /\ ~tokens[chain[i]].byHand /\ chain[i - 1] # 0
  BY <1>1 DEF LibraryChain
<1> QED BY <1>2, <1>3 DEF TokenSound

(* The verifier asks for nothing that delegateCapabilityToken() left out:  *)
(* expiries only get earlier, so the last one decides.                     *)
LEMMA LibraryVerifies ==
  ASSUME CapIInv PROVE DelegatedVerifies
<1>1. SUFFICES ASSUME NEW chain \in Chains, LibraryChain(chain),
                      capTime < tokens[chain[Len(chain)]].expiresAt
               PROVE  VerifyCapabilityChain(chain)
  BY DEF DelegatedVerifies
<1>2. PICK n, e : n = Len(chain) /\ e = [j \in 1 .. n |-> tokens[chain[j]].expiresAt]
  OBVIOUS
<1>3. n \in Nat \ {0} /\ DOMAIN chain = 1 .. n
  BY <1>2, ChainFacts
<1>4. \A j \in 2 .. n : HopFollows(tokens[chain[j]], chain[j - 1], tokens[chain[j - 1]])
  BY <1>1, <1>2, LibraryHops
<1>5. capTime \in Nat /\ \A j \in 1 .. n : e[j] \in Nat
  <2>1. \A j \in 1 .. n : tokens[chain[j]] \in TokenRecords
    BY <1>2, ChainFacts
  <2> QED BY <2>1, <1>2 DEF TokenRecords, CapIInv
<1>6. ASSUME NEW j \in 2 .. n PROVE e[j] <= e[j - 1]
  <2>1. j \in 1 .. n /\ j - 1 \in 1 .. n
    BY <1>3
  <2>2. tokens[chain[j]].expiresAt <= tokens[chain[j - 1]].expiresAt
    BY <1>4 DEF HopFollows
  <2> QED BY <2>1, <2>2, <1>2
<1>7. PICK B : B = {j \in 1 .. n : capTime < e[j]}
  OBVIOUS
<1>8. n \in B
  BY <1>1, <1>2, <1>3, <1>7
<1>9. ASSUME NEW j \in 2 .. n, j \in B PROVE j - 1 \in B
  <2>1. j \in 1 .. n /\ j - 1 \in 1 .. n
    BY <1>3
  <2>2. capTime < e[j] /\ e[j] <= e[j - 1]
    BY <1>6, <1>7, <1>9
  <2>3. capTime < e[j - 1]
    BY <2>1, <2>2, <1>5
  <2> QED BY <2>1, <2>3, <1>7
<1>10. 1 .. n \subseteq B
  BY ONLY <1>3, <1>8, <1>9, FromEnd
<1>11. \A j \in DOMAIN chain : TokenVerifies(tokens[chain[j]])
  <2>1. SUFFICES ASSUME NEW j \in 1 .. n PROVE TokenVerifies(tokens[chain[j]])
    BY <1>3
  <2>2. capTime < tokens[chain[j]].expiresAt
    BY <1>2, <1>7, <1>10
  <2>3. tokens[chain[j]].issuer \in Known
    BY <1>1, <1>3 DEF LibraryChain
  <2> QED BY <2>2, <2>3 DEF TokenVerifies
<1>12. tokens[chain[1]].depth = 0
  <2>1. TokenSound(chain[1])
    BY <1>2, <1>3, ChainFacts DEF CapIInv
  <2> QED BY <2>1, <1>1 DEF TokenSound, LibraryChain
<1>13. chain # <<>>
  BY <1>2, <1>3
<1> QED BY <1>2, <1>4, <1>11, <1>12, <1>13 DEF VerifyCapabilityChain

(* A budget is one less at every hop, and a hop needs one that is not 0. *)
LEMMA LibraryKeepsBudget ==
  ASSUME CapIInv PROVE LibraryBudget
<1>1. SUFFICES ASSUME NEW chain \in Chains, LibraryChain(chain), tokens[chain[1]].max # Unlimited
               PROVE  Len(chain) - 1 <= tokens[chain[1]].max
  BY DEF LibraryBudget, WithinBudget
<1>2. PICK n, m : n = Len(chain) /\ m = [j \in 1 .. n |-> tokens[chain[j]].max]
  OBVIOUS
<1>3. n \in Nat \ {0}
  BY <1>2, ChainFacts
<1>4. m[1] \in Nat /\ m[1] = tokens[chain[1]].max
  <2>1. tokens[chain[1]] \in TokenRecords
    BY <1>2, <1>3, ChainFacts
  <2> QED BY <2>1, <1>1, <1>2, <1>3 DEF TokenRecords
<1>5. ASSUME NEW j \in 1 .. n - 1, m[j] \in Nat PROVE m[j] # 0 /\ m[j + 1] = m[j] - 1
  <2>1. j + 1 \in 2 .. n /\ (j + 1) - 1 = j /\ j \in 1 .. n /\ j + 1 \in 1 .. n
    BY <1>3
  <2>2. PICK k : k = j + 1
    OBVIOUS
  <2>3. /\ HopFollows(tokens[chain[k]], chain[k - 1], tokens[chain[k - 1]])
        /\ tokens[chain[k]].max = NextBudget(tokens[chain[k - 1]])
    BY <2>1, <2>2, <1>1, <1>2, LibraryHops
  <2>4. tokens[chain[j]].max # 0 /\ tokens[chain[k]].max = NextBudget(tokens[chain[j]])
    BY <2>1, <2>2, <2>3 DEF HopFollows
  <2>5. m[j] = tokens[chain[j]].max /\ m[k] = tokens[chain[k]].max
    BY <2>1, <2>2, <1>2
  <2> QED BY <2>2, <2>4, <2>5, <1>5 DEF NextBudget, Unlimited
<1>6. PICK B : B = {j \in 1 .. n : m[j] \in Nat /\ m[j] = m[1] - (j - 1)}
  OBVIOUS
<1>7. 1 \in B
  BY <1>3, <1>4, <1>6
<1>8. ASSUME NEW j \in 1 .. n - 1, j \in B PROVE j + 1 \in B
  BY <1>3, <1>4, <1>5, <1>6, <1>8
<1>9. 1 .. n \subseteq B
  BY ONLY <1>3, <1>7, <1>8, FromRoot
<1>10. m[n] \in Nat /\ m[n] = m[1] - (n - 1)
  BY <1>3, <1>6, <1>9
<1> QED BY <1>2, <1>3, <1>4, <1>10

(* Whoever signed its hops, a chain that verifyCapabilityChain() accepts   *)
(* covers nothing that a token on the way does not cover, and what         *)
(* delegateCapabilityToken() signs is accepted until it expires and keeps  *)
(* to its root's budget, for any agents, scopes and chains of any length.  *)
(* pathGlobIsSubset() ends its comparison at the first "**" of the parent, *)
(* so the patterns are taken to have it at the end only.                   *)
THEOREM DelegationHolds ==
  ASSUME StarsLast
  PROVE  CapSpec => []DelegationSound
<1>1. CapInit => CapIInv
  <2> SUFFICES ASSUME CapInit PROVE CapIInv
    OBVIOUS
  <2>1. capTime = 0 /\ tokens = <<>>
    BY DEF CapInit
  <2>2. tokens \in Seq(TokenRecords) /\ Len(tokens) = 0
    BY <2>1
  <2> QED BY <2>1, <2>2, CapabilityAssumption DEF CapIInv
<1>2. CapIInv => DelegationSound
  BY ChainNarrows, LibraryKeepsBudget, LibraryVerifies DEF DelegationSound
<1> QED BY <1>1, <1>2, CapNextInv, PTL DEF CapSpec
=============================================================================
