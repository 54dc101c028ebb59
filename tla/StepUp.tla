------------------------------- MODULE StepUp -------------------------------
(***************************************************************************)
(* Step-up approval of actions that untrusted input may have caused: an    *)
(* agent's ProvenanceContext, the claims it signs about an action          *)
(* (provenance.ts), the grants approvers sign (approval.ts), and the       *)
(* gateway's rule (enforceApproval) that lets an action through on a       *)
(* trusted claim or else on a grant.  Single use of grants is module       *)
(* Approval's.                                                             *)
(***************************************************************************)
EXTENDS Integers, Sequences, FiniteSets

CONSTANTS StepAgents,        \* authenticated senders
          Approvers,         \* the route's approvers; may name agents
          StepRequests,      \* method, path and body of what agents do
          NoClaim, NoSignoff,
          MAX_PROVENANCE_SOURCES,
          ClaimTtl, MaxClaimTtl, GrantTtl, MaxGrantTtl,
          StepSkew,
          MaxClaims, MaxApprovals,  \* bounds on the documents
          StepTimeLimit             \* bound on the clock

Identities == StepAgents \cup Approvers

ASSUME StepUpAssumption ==
  /\ MAX_PROVENANCE_SOURCES \in Nat \ {0}
  /\ MaxClaimTtl \in Nat /\ MaxGrantTtl \in Nat
  /\ ClaimTtl \in 1 .. MaxClaimTtl /\ GrantTtl \in 1 .. MaxGrantTtl
  /\ StepSkew \in Nat /\ StepTimeLimit \in Nat
  /\ MaxClaims \in Nat /\ MaxApprovals \in Nat

VARIABLES stepTime,
          context,         \* agent -> trust of the sources it recorded
          claims, approvals,  \* the documents in circulation
          (* history, read by the properties only *)
          tainted,         \* agents whose task took untrusted input
          clean,           \* claims signed by a runtime free of it
          passage          \* the last action let through, and on what

stepVars == <<stepTime, context, claims, approvals, tainted, clean, passage>>

Nothing == [on |-> "nothing"]

StepInit ==
  /\ stepTime = 0
  /\ context = [a \in StepAgents |-> << >>]
  /\ claims = {} /\ approvals = {}
  /\ tainted = {} /\ clean = {}
  /\ passage = Nothing

Levels == {"trusted", "untrusted"}

(* bindAction: a digest stands for its body. *)
BindAction(r) == [method |-> r.method, path |-> r.path, bodySha256 |-> <<r.body>>]

BoundActions == {BindAction(r) : r \in StepRequests}

ActionsEqual(x, y) ==
  x.method = y.method /\ x.path = y.path /\ x.bodySha256 = y.bodySha256

(* deriveTrust: no sources is not clean *)
DeriveTrust(s) ==
  IF s # << >> /\ \A n \in 1 .. Len(s) : s[n] = "trusted" THEN "trusted" ELSE "untrusted"

(* new ProvenanceContext() *)
NewContext(a) ==
  /\ context' = [context EXCEPT ![a] = << >>]
  /\ tainted' = tainted \ {a}
  /\ UNCHANGED <<stepTime, claims, approvals, clean, passage>>

(* Fault: a full context drops what comes. *)
RecordedOrDropped(s, level) ==
  IF Len(s) < MAX_PROVENANCE_SOURCES THEN Append(s, level) ELSE s

(* A full context drops no taint: its last source becomes the marker. *)
Recorded(s, level) ==
  IF Len(s) < MAX_PROVENANCE_SOURCES THEN Append(s, level)
  ELSE IF level = "untrusted" /\ s[Len(s)] = "trusted"
       THEN [s EXCEPT ![Len(s)] = "untrusted"]
       ELSE s

(* ProvenanceContext.add *)
AddSource(a, level) ==
  /\ context' = [context EXCEPT ![a] = Recorded(@, level)]
  /\ tainted' = IF level = "untrusted" THEN tainted \cup {a} ELSE tainted
  /\ UNCHANGED <<stepTime, claims, approvals, clean, passage>>

-----------------------------------------------------------------------------
(* A document is its content, who signed, and what was signed. *)
SignedAs(who, content) == [body |-> content, by |-> who, over |-> content]

Authentic(doc, who) == doc.by = who /\ doc.over = doc.body

SignClaim(a, action, label) ==
  LET claim == SignedAs(a, [sender |-> a, action |-> action, sources |-> context[a],
                            trust |-> label, issuedAt |-> stepTime,
                            expiresAt |-> stepTime + ClaimTtl])
  IN
  /\ Cardinality(claims) < MaxClaims
  /\ claims' = claims \cup {claim}
  /\ clean' = IF a \in tainted THEN clean ELSE clean \cup {claim}
  /\ UNCHANGED <<stepTime, context, approvals, tainted, passage>>

SignProvenance(a, action) == SignClaim(a, action, DeriveTrust(context[a]))

(* A claim labelled by hand, not by its sources *)
LabelByHand(a, action) == SignClaim(a, action, "trusted")

SignGrant(approver, subject, action) ==
  /\ Cardinality(approvals) < MaxApprovals
  /\ approvals' = approvals \cup
       {SignedAs(approver, [approver |-> approver, subject |-> subject,
                            action |-> action, issuedAt |-> stepTime,
                            expiresAt |-> stepTime + GrantTtl])}
  /\ UNCHANGED <<stepTime, context, claims, tainted, clean, passage>>

IssueApproval(approver, subject, action) ==
  /\ approver # subject
  /\ SignGrant(approver, subject, action)

(* A grant an agent signs by hand, for itself *)
ApproveItself(a, action) == SignGrant(a, a, action)

-----------------------------------------------------------------------------
(* A claim whose taint was washed out under the old signature. *)
Relabelled(d) == [d EXCEPT !.body.sources = <<"trusted">>, !.body.trust = "trusted"]

(* What arrives, as parsing leaves it: nothing (whatever is malformed), a  *)
(* document as signed, or one changed under the old signature.             *)
ArrivingClaims ==
  {NoClaim} \cup claims \cup
  {[d EXCEPT !.body.action = x] : d \in claims, x \in BoundActions} \cup
  {Relabelled(d) : d \in claims} \cup
  {[d EXCEPT !.body.sender = a] : d \in claims, a \in StepAgents}

ArrivingApprovals ==
  {NoSignoff} \cup approvals \cup
  {[d EXCEPT !.body.action = x] : d \in approvals, x \in BoundActions} \cup
  {[d EXCEPT !.body.approver = a] : d \in approvals, a \in Approvers} \cup
  {[d EXCEPT !.body.subject = a] : d \in approvals, a \in StepAgents}

Current(body, longest) ==
  /\ body.expiresAt > body.issuedAt
  /\ body.expiresAt - body.issuedAt <= longest
  /\ body.issuedAt <= stepTime + StepSkew
  /\ stepTime < body.expiresAt

(* verifyProvenance, for the authenticated sender and the bound action *)
ProvenanceVerifies(d, a, action) ==
  /\ d # NoClaim
  /\ d.body.sender = a
  /\ d.body.trust = DeriveTrust(d.body.sources)
  /\ Current(d.body, MaxClaimTtl)
  /\ ActionsEqual(d.body.action, action)
  /\ Authentic(d, d.body.sender)

(* effectiveTrust: a claim that does not verify is untrusted. *)
EffectiveTrust(d, a, action) ==
  IF ProvenanceVerifies(d, a, action) THEN d.body.trust ELSE "untrusted"

(* verifyApproval, up to the store *)
ApprovalVerifies(d, a, action) ==
  /\ d # NoSignoff
  /\ d.body.approver \in Approvers
  /\ d.body.approver # d.body.subject
  /\ Current(d.body, MaxGrantTtl)
  /\ d.body.subject = a
  /\ ActionsEqual(d.body.action, action)
  /\ Authentic(d, d.body.approver)

(* enforceApproval where the rule is 'untrusted': trusted inputs need no   *)
(* human.                                                                  *)
LetThroughTrusted(a, r, d) ==
  LET action == BindAction(r) IN
  /\ EffectiveTrust(d, a, action) = "trusted"
  /\ passage' = [agent |-> a, action |-> action, on |-> "claim", doc |-> d]
  /\ UNCHANGED <<stepTime, context, claims, approvals, tainted, clean>>

LetThroughApproved(a, r, d, g) ==
  LET action == BindAction(r) IN
  /\ EffectiveTrust(d, a, action) = "untrusted"
  /\ ApprovalVerifies(g, a, action)
  /\ passage' = [agent |-> a, action |-> action, on |-> "approval", doc |-> g]
  /\ UNCHANGED <<stepTime, context, claims, approvals, tainted, clean>>

StepTick ==
  /\ stepTime < StepTimeLimit
  /\ stepTime' = stepTime + 1
  /\ UNCHANGED <<context, claims, approvals, tainted, clean, passage>>

StepUpNext ==
  \/ \E a \in StepAgents :
       \/ NewContext(a)
       \/ \E level \in Levels : AddSource(a, level)
       \/ \E x \in BoundActions :
            \/ SignProvenance(a, x)
            \/ LabelByHand(a, x)
            \/ ApproveItself(a, x)
            \/ \E p \in Identities : IssueApproval(p, a, x)
       \/ \E r \in StepRequests, d \in ArrivingClaims :
            \/ LetThroughTrusted(a, r, d)
            \/ \E g \in ArrivingApprovals : LetThroughApproved(a, r, d, g)
  \/ StepTick

StepUpSpec == StepInit /\ [][StepUpNext]_stepVars

-----------------------------------------------------------------------------
(* gateway.ts:334: what untrusted input may have caused, a human has seen. *)
(* An action goes through because the agent's runtime said, of this very   *)
(* action, that none of its inputs was untrusted, however many there were; *)
(* or because an approver other than the agent signed for it.              *)
UntrustedNeedsHuman ==
  LET u == passage IN
  /\ u.on = "claim" =>
       /\ u.doc \in clean
       /\ u.doc.by = u.agent /\ u.doc.body.action = u.action
  /\ u.on = "approval" =>
       /\ u.doc \in approvals
       /\ u.doc.by \in Approvers \ {u.agent}
       /\ u.doc.body.subject = u.agent /\ u.doc.body.action = u.action
=============================================================================
