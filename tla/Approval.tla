------------------------------ MODULE Approval ------------------------------
(***************************************************************************)
(* verifyApproval(): a grant signed by an approver authorises one action   *)
(* once.  Presentations of the same grant run concurrently; each reads the *)
(* time when it starts, awaits the approver's key and the signature check, *)
(* and consumes the grant through the replay store last.                   *)
(***************************************************************************)
EXTENDS MemoryReplayStore

CONSTANTS Presentations,   \* concurrent verifyApproval() calls
          Grants,          \* the grants that may be presented
          Actions,         \* subject + bound action of a request
          NoGrant,
          Skew,            \* clockSkewMs
          MAX_APPROVAL_TTL_MS,
          MaxDelay,        \* longest time from a call's start to its check()
          MaxClock         \* bound on the clock

(* permitted: the approver is allowed for this route and is not the        *)
(* subject; genuine: the approver's key verifies the signature.  A genuine *)
(* grant's id names one grant: the signature covers every field.           *)
ASSUME ApprovalAssumption ==
  /\ Grants \subseteq [id : Keys, action : Actions, issuedAt : Nat, expiresAt : Nat,
                       permitted : BOOLEAN, genuine : BOOLEAN]
  /\ \A g, h \in Grants : g.genuine /\ h.genuine /\ g.id = h.id => g = h
  /\ NoGrant \notin Grants
  /\ Skew \in Nat
  /\ MAX_APPROVAL_TTL_MS \in Nat
  /\ MaxDelay \in Nat
  /\ MaxClock \in Nat

VARIABLES clock,
          store,            \* the replay store: grant id -> held until
          pc, grant, now,   \* the presentations
          used              \* history: ids of the grants that authorised

callVars == <<pc, grant, now>>
vars == <<clock, store, callVars, used>>

PCs == {"idle", "lookup", "verify", "granted", "denied"}

(* The checks of a presentation for action a that precede the first await  *)
Admissible(g, a, t) ==
  /\ g.permitted
  /\ g.expiresAt > g.issuedAt
  /\ g.expiresAt - g.issuedAt <= MAX_APPROVAL_TTL_MS
  /\ g.issuedAt <= t + Skew
  /\ t < g.expiresAt
  /\ g.action = a

Init ==
  /\ clock = 0
  /\ store = Empty
  /\ pc = [p \in Presentations |-> "idle"]
  /\ grant = [p \in Presentations |-> NoGrant]
  /\ now = [p \in Presentations |-> 0]
  /\ used = {}

Goto(p, from, to) == pc[p] = from /\ pc' = [pc EXCEPT ![p] = to]

Present(p, g, a) ==
  /\ Goto(p, "idle", IF Admissible(g, a, clock) THEN "lookup" ELSE "denied")
  /\ grant' = [grant EXCEPT ![p] = g]
  /\ now' = [now EXCEPT ![p] = clock]
  /\ UNCHANGED <<clock, store, used>>

(* approverKeys.getPublicKey finds a key. *)
KeyFound(p) ==
  /\ Goto(p, "lookup", "verify")
  /\ UNCHANGED <<clock, store, grant, now, used>>

(* It finds none, or throws. *)
KeyMissing(p) ==
  /\ Goto(p, "lookup", "denied")
  /\ UNCHANGED <<clock, store, grant, now, used>>

(* Fault: the grant is consumed before its signature is known good. *)
RejectAfterConsume(p) ==
  /\ Goto(p, "verify", "denied")
  /\ ~grant[p].genuine
  /\ store' = Checked(store, grant[p].id, 1, clock)
  /\ UNCHANGED <<clock, grant, now, used>>

RejectSignature(p) ==
  /\ Goto(p, "verify", "denied")
  /\ ~grant[p].genuine
  /\ UNCHANGED <<clock, store, grant, now, used>>

(* How long the store will remember the grant: what was left of its life   *)
(* when the call started, and the skew.                                    *)
HoldFor(p) ==
  LET left == grant[p].expiresAt - now[p]
  IN  (IF left >= 1 THEN left ELSE 1) + Skew

(* replayStore.check(id, remaining + skew) *)
RejectUsed(p) ==
  /\ Goto(p, "verify", "denied")
  /\ grant[p].genuine
  /\ Refuses(store, grant[p].id, clock)
  /\ store' = Checked(store, grant[p].id, HoldFor(p), clock)
  /\ UNCHANGED <<clock, grant, now, used>>

(* Fault: the store's answer is not looked at. *)
ConsumeSeen(p) ==
  /\ Goto(p, "verify", "granted")
  /\ grant[p].genuine
  /\ Seen(store, grant[p].id, clock) \/ ~Full(store, clock)
  /\ store' = Checked(store, grant[p].id, HoldFor(p), clock)
  /\ used' = used \cup {grant[p].id}
  /\ UNCHANGED <<clock, grant, now>>

Consume(p) ==
  /\ Goto(p, "verify", "granted")
  /\ grant[p].genuine
  /\ ~Refuses(store, grant[p].id, clock)
  /\ store' = Checked(store, grant[p].id, HoldFor(p), clock)
  /\ used' = used \cup {grant[p].id}
  /\ UNCHANGED <<clock, grant, now>>

Finish(p) ==
  /\ pc[p] \in {"granted", "denied"}
  /\ pc' = [pc EXCEPT ![p] = "idle"]
  /\ grant' = [grant EXCEPT ![p] = NoGrant]
  /\ now' = [now EXCEPT ![p] = 0]
  /\ UNCHANGED <<clock, store, used>>

Waiting(p) == pc[p] \in {"lookup", "verify"}

(* Time passes; no call in progress outlives MaxDelay. *)
Tick ==
  /\ clock < MaxClock
  /\ \A p \in Presentations : Waiting(p) => clock < now[p] + MaxDelay
  /\ clock' = clock + 1
  /\ UNCHANGED <<store, callVars, used>>

Next ==
  \/ \E p \in Presentations :
       \/ \E g \in Grants, a \in Actions : Present(p, g, a)
       \/ KeyFound(p)
       \/ KeyMissing(p)
       \/ RejectSignature(p)
       \/ RejectUsed(p)
       \/ Consume(p)
       \/ Finish(p)
  \/ Tick

Spec == Init /\ [][Next]_vars

-----------------------------------------------------------------------------
TypeOK ==
  /\ clock \in Nat
  /\ store \in Windows
  /\ pc \in [Presentations -> PCs]
  /\ grant \in [Presentations -> Grants \cup {NoGrant}]
  /\ \A p \in Presentations : pc[p] # "idle" => grant[p] \in Grants
  /\ now \in [Presentations -> Nat]
  /\ used \subseteq Keys

(* A grant authorises at most one request, however many presentations of   *)
(* it run at once and however close to its expiry they start.              *)
SingleUse ==
  [][\A p \in Presentations :
       pc[p] = "verify" /\ pc'[p] = "granted" => grant[p].id \notin used]_vars

(* Only a use that succeeded burns a grant: a presentation that fails any  *)
(* check, or a forged grant with a known id, leaves it to its rightful     *)
(* subject.                                                                *)
BurnedOnlyByUse == \A k \in Keys : store[k] # NoEntry => k \in used

-----------------------------------------------------------------------------
(* The inductive invariant *)

(* A call in progress started while its grant was valid, and not longer    *)
(* ago than MaxDelay.                                                      *)
RecentStart ==
  \A p \in Presentations : Waiting(p) =>
    /\ now[p] <= clock
    /\ clock <= now[p] + MaxDelay
    /\ now[p] < grant[p].expiresAt

(* A used grant is remembered until its expiry and the skew are past. *)
UsedRemembered ==
  \A g \in Grants : g.genuine /\ g.id \in used =>
    \/ store[g.id] >= g.expiresAt + Skew
    \/ clock >= g.expiresAt + Skew

IInv == TypeOK /\ RecentStart /\ UsedRemembered /\ BurnedOnlyByUse
=============================================================================
