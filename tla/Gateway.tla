------------------------------- MODULE Gateway ------------------------------
(***************************************************************************)
(* Protocol7h3Gateway.verify() and the forwarding after it: how a request  *)
(* is authenticated (a signed envelope, an HTTP message signature, a DPoP  *)
(* proof or a capability chain), and how the shared replay store, the rate *)
(* limiter and the approval gate are consulted, in that order.  Requests   *)
(* run concurrently; an action is what runs between two awaits.  The three *)
(* single-use credentials and the approvals default to one replay store.   *)
(***************************************************************************)
EXTENDS MemoryReplayStore, RateLimiter

CONSTANTS Calls,          \* concurrent verify() calls
          Requests,       \* the requests that may arrive
          NoRequest,
          NoLimit,
          NoGrant,
          Skew,           \* clock skew tolerated by every scheme
          MaxAge,         \* maxAgeMs of HTTP signatures and DPoP proofs
          MaxDelay        \* longest verify() call

Schemes == {"envelope", "http-signature", "dpop"}

(* A credential's id is its nonce or jti, its alg the envelope's.  genuine *)
(* stands for everything its verification checks but time.                 *)
Credentials ==
  [kind : Schemes \cup {"capability", "none"}, id : Keys, sender : Senders,
   alg : {"ed25519", "hmac"}, genuine : BOOLEAN, timestampMs : Nat,
   ttlMs : Nat \ {0}]

(* What normalizeGatewayPath and matchPolicy find for the request's path.  *)
(* matched is FALSE where no policy matches and defaultPolicy is 'deny';   *)
(* require is "none" where it is 'allow'.                                  *)
Routes ==
  [valid : BOOLEAN, matched : BOOLEAN,
   require : {"ed25519", "hmac", "any", "http-signature", "dpop", "none"},
   allowedSenders : SUBSET Senders, rateLimit : Policies \cup {NoLimit},
   approval : {"no", "always", "untrusted"}]

(* grant: the id of an approval for exactly this request, and its expiry;  *)
(* trusted: its provenance claim verifies and labels its inputs trusted.   *)
(* Store keys do not clash: approvals have a prefix of their own, and      *)
(* honest signers pick fresh nonces, so a genuine credential's id is its.  *)
ASSUME GatewayAssumption ==
  /\ Requests \subseteq
       [route : Routes, cred : Credentials, trusted : BOOLEAN,
        grant : Keys \cup {NoGrant}, grantExpiresAt : Nat]
  /\ \A r \in Requests : ~r.route.matched =>
       /\ r.route.allowedSenders = {} /\ r.route.rateLimit = NoLimit
       /\ r.route.approval = "no"
  /\ \A r, s \in Requests :
       /\ r.grant # s.cred.id
       /\ r.grant = s.grant /\ r.grant # NoGrant =>
            r.route = s.route /\ r.cred.sender = s.cred.sender
  /\ \A r, s \in Requests :
       /\ r.cred.kind \in Schemes /\ s.cred.kind \in Schemes
       /\ r.cred.genuine /\ s.cred.genuine /\ r.cred.id = s.cred.id
       => r.cred = s.cred
  /\ NoRequest \notin Requests
  /\ NoLimit \notin Policies
  /\ IsFiniteSet(Calls)
  /\ Skew \in Nat /\ MaxAge \in Nat
  /\ MaxDelay \in Nat

VARIABLES store,                    \* config.replayStore
          pc, req, since,           \* the calls: place, request, start
          (* history, read by the properties only *)
          lastUse,                  \* credential id -> when it was last taken
          spent,                    \* approvals the gate consumed
          passed                    \* sender -> instants its requests passed
                                    \* a route with a rate limit

callVars == <<pc, req, since>>
windowVars == <<windows, order, admitted>>
historyVars == <<lastUse, spent, passed>>
vars == <<clock, store, windowVars, callVars, historyVars>>

Never == -1

PCs == {"idle", "arrived", "fresh", "authenticated", "admitted", "ok",
        "denied", "forwarded"}

-----------------------------------------------------------------------------
Cred(c) == req[c].cred
Route(c) == req[c].route

Scheme(route) ==
  IF route.require \in {"http-signature", "dpop"} THEN route.require ELSE "envelope"

(* The last instant at which the credential passes the freshness checks *)
LastValid(cred) ==
  IF cred.kind = "envelope" THEN cred.timestampMs + cred.ttlMs
  ELSE cred.timestampMs + MaxAge + Skew

Fresh(cred, now) == cred.timestampMs <= now + Skew /\ now <= LastValid(cred)

(* Fault: the store is asked to remember a credential for its age only. *)
HoldForAge(cred) == IF cred.kind = "envelope" THEN cred.ttlMs ELSE MaxAge

(* How long the store is asked to remember the credential *)
HoldFor(cred) ==
  CASE cred.kind = "envelope"       -> cred.ttlMs
    [] cred.kind = "http-signature" -> MaxAge + Skew
    [] OTHER                        -> MaxAge + 2 * Skew

AlgAccepted(route, cred) ==
  cred.kind = "envelope" => route.require \in {"any", cred.alg}

SenderAllowed(route, sender) ==
  route.allowedSenders = {} \/ sender \in route.allowedSenders

ApprovalNeeded(r) ==
  \/ r.route.approval = "always"
  \/ r.route.approval = "untrusted" /\ ~r.trusted

-----------------------------------------------------------------------------
Init ==
  /\ clock = 0
  /\ store = Empty
  /\ windows = [s \in Senders |-> << >>]
  /\ order = << >>
  /\ admitted = [s \in Senders |-> << >>]
  /\ pc = [c \in Calls |-> "idle"]
  /\ req = [c \in Calls |-> NoRequest]
  /\ since = [c \in Calls |-> 0]
  /\ lastUse = [k \in Keys |-> Never]
  /\ spent = {}
  /\ passed = [s \in Senders |-> << >>]

Goto(c, from, to) == pc[c] = from /\ pc' = [pc EXCEPT ![c] = to]

(* Where verify() stands at its first await.  A capability chain is looked *)
(* at before the route's own requirement, and before the default policy.   *)
Start(r) ==
  CASE ~r.route.valid                            -> "denied"
    [] r.route.valid /\ r.route.require = "none" -> "ok"
    [] OTHER -> IF r.cred.kind = "capability" \/ r.route.matched THEN "arrived"
                ELSE "denied"

Arrive(c, r) ==
  /\ Goto(c, "idle", Start(r))
  /\ req' = [req EXCEPT ![c] = r]
  /\ since' = [since EXCEPT ![c] = clock]
  /\ UNCHANGED <<clock, store, windowVars, historyVars>>

(* The credential's times are read: they pass. *)
CheckFresh(c) ==
  /\ Goto(c, "arrived", "fresh")
  /\ Cred(c).kind = Scheme(Route(c))
  /\ Fresh(Cred(c), clock)
  /\ UNCHANGED <<clock, store, windowVars, req, since, historyVars>>

(* No credential of the kind the route wants, or one that is not fresh;    *)
(* and at any await a key, a token or a chain that is not found.           *)
Unauthenticated(c) ==
  /\ \/ Goto(c, "arrived", "denied")
     \/ Goto(c, "fresh", "denied")
  /\ UNCHANGED <<clock, store, windowVars, req, since, historyVars>>

(* verifyCapabilityChain and tokenMatchesScope succeed. *)
CapabilityOk(c) ==
  /\ Goto(c, "arrived", "authenticated")
  /\ Cred(c).kind = "capability"
  /\ Cred(c).genuine
  /\ UNCHANGED <<clock, store, windowVars, req, since, historyVars>>

CheckStore(c) == store' = Checked(store, Cred(c).id, HoldFor(Cred(c)), clock)

(* The signature verifies and replayStore.check() finds the credential. *)
ReplayDetected(c) ==
  /\ Goto(c, "fresh", "denied")
  /\ Cred(c).genuine
  /\ Refuses(store, Cred(c).id, clock)
  /\ CheckStore(c)
  /\ UNCHANGED <<clock, windowVars, req, since, historyVars>>

(* It does not: the credential is taken, whatever the checks to come say.  *)
TakeCredential(c) ==
  /\ Goto(c, "fresh", "authenticated")
  /\ Cred(c).genuine
  /\ ~Refuses(store, Cred(c).id, clock)
  /\ CheckStore(c)
  /\ lastUse' = [lastUse EXCEPT ![Cred(c).id] = clock]
  /\ UNCHANGED <<clock, windowVars, req, since, spent, passed>>

(* The envelope's algorithm, then allowedSenders *)
NotAdmitted(c) ==
  /\ Goto(c, "authenticated", "denied")
  /\ \/ ~AlgAccepted(Route(c), Cred(c))
     \/ ~SenderAllowed(Route(c), Cred(c).sender)
  /\ UNCHANGED <<clock, store, windowVars, req, since, historyVars>>

Admissible(c) ==
  AlgAccepted(Route(c), Cred(c)) /\ SenderAllowed(Route(c), Cred(c).sender)

(* rateLimiter.consume(sender, policy.rateLimit) *)
UseQuota(c) == Consume(Cred(c).sender, Route(c).rateLimit)

QuotaLeft(c) == Allowed(windows[Cred(c).sender], Route(c).rateLimit, clock)

(* Fault: the approval is consumed before the rate limit is consulted. *)
RateLimitedAfterGrant(c) ==
  /\ Goto(c, "authenticated", "denied")
  /\ Admissible(c)
  /\ Route(c).rateLimit # NoLimit
  /\ ~QuotaLeft(c)
  /\ UseQuota(c)
  /\ req[c].grant # NoGrant
  /\ store' = Checked(store, req[c].grant, Skew + 1, clock)
  /\ UNCHANGED <<req, since, historyVars>>

RateLimited(c) ==
  /\ Goto(c, "authenticated", "denied")
  /\ Admissible(c)
  /\ Route(c).rateLimit # NoLimit
  /\ ~QuotaLeft(c)
  /\ UseQuota(c)
  /\ UNCHANGED <<store, req, since, historyVars>>

(* Fault: a capability is not counted against the rate limit. *)
AdmitUncounted(c) ==
  /\ Goto(c, "authenticated", "admitted")
  /\ Admissible(c)
  /\ \/ /\ Route(c).rateLimit = NoLimit \/ Cred(c).kind = "capability"
        /\ UNCHANGED <<clock, windowVars>>
     \/ Route(c).rateLimit # NoLimit /\ QuotaLeft(c) /\ UseQuota(c)
  /\ UNCHANGED <<store, req, since, historyVars>>

Admit(c) ==
  /\ Goto(c, "authenticated", "admitted")
  /\ Admissible(c)
  /\ \/ Route(c).rateLimit = NoLimit /\ UNCHANGED <<clock, windowVars>>
     \/ Route(c).rateLimit # NoLimit /\ QuotaLeft(c) /\ UseQuota(c)
  /\ UNCHANGED <<store, req, since, historyVars>>

Pass(c) ==
  /\ Goto(c, "admitted", "ok")
  /\ passed' = IF Route(c).rateLimit = NoLimit THEN passed
               ELSE [passed EXCEPT ![Cred(c).sender] = Append(@, clock)]

(* No approval rule, or its inputs are trusted *)
NoApprovalNeeded(c) ==
  /\ Pass(c)
  /\ ~ApprovalNeeded(req[c])
  /\ UNCHANGED <<clock, store, windowVars, req, since, lastUse, spent>>

(* No grant, or verifyApproval refuses it before the replay store *)
ApprovalDenied(c) ==
  /\ Goto(c, "admitted", "denied")
  /\ ApprovalNeeded(req[c])
  /\ UNCHANGED <<clock, store, windowVars, req, since, historyVars>>

(* verifyApproval's check(): what is left of the grant's life at a moment  *)
(* of this call, and the skew                                              *)
CheckGrant(c) ==
  \E now \in since[c] .. clock :
    /\ now < req[c].grantExpiresAt
    /\ store' = Checked(store, req[c].grant, req[c].grantExpiresAt - now + Skew, clock)

ApprovalUsed(c) ==
  /\ Goto(c, "admitted", "denied")
  /\ ApprovalNeeded(req[c]) /\ req[c].grant # NoGrant
  /\ Refuses(store, req[c].grant, clock)
  /\ CheckGrant(c)
  /\ UNCHANGED <<clock, windowVars, req, since, historyVars>>

Approved(c) ==
  /\ Pass(c)
  /\ ApprovalNeeded(req[c]) /\ req[c].grant # NoGrant
  /\ ~Refuses(store, req[c].grant, clock)
  /\ CheckGrant(c)
  /\ spent' = spent \cup {req[c].grant}
  /\ UNCHANGED <<clock, windowVars, req, since, lastUse>>

(* handle() fetches the upstream with the request; verify()'s denial is    *)
(* answered without it.                                                    *)
Forward(c) ==
  /\ Goto(c, "ok", "forwarded")
  /\ UNCHANGED <<clock, store, windowVars, req, since, historyVars>>

Finish(c) ==
  /\ pc[c] \in {"denied", "forwarded"}
  /\ pc' = [pc EXCEPT ![c] = "idle"]
  /\ req' = [req EXCEPT ![c] = NoRequest]
  /\ since' = [since EXCEPT ![c] = 0]
  /\ UNCHANGED <<clock, store, windowVars, historyVars>>

Verifying(c) == pc[c] \in {"arrived", "fresh", "authenticated", "admitted"}

(* Time passes; no verify() outlives MaxDelay. *)
Tick ==
  /\ clock < MaxClock
  /\ \A c \in Calls : Verifying(c) => clock < since[c] + MaxDelay
  /\ clock' = clock + 1
  /\ UNCHANGED <<store, windowVars, callVars, historyVars>>

CallStep(c) ==
  \/ \E r \in Requests : Arrive(c, r)
  \/ CheckFresh(c)
  \/ Unauthenticated(c)
  \/ CapabilityOk(c)
  \/ ReplayDetected(c)
  \/ TakeCredential(c)
  \/ NotAdmitted(c)
  \/ RateLimited(c)
  \/ Admit(c)
  \/ NoApprovalNeeded(c)
  \/ ApprovalDenied(c)
  \/ ApprovalUsed(c)
  \/ Approved(c)
  \/ Forward(c)
  \/ Finish(c)

Next == (\E c \in Calls : CallStep(c)) \/ Tick

Spec == Init /\ [][Next]_vars

-----------------------------------------------------------------------------
(* Properties *)

TypeOK ==
  /\ clock \in Nat
  /\ store \in Windows
  /\ pc \in [Calls -> PCs]
  /\ req \in [Calls -> Requests \cup {NoRequest}]
  /\ \A c \in Calls : pc[c] # "idle" => req[c] \in Requests
  /\ since \in [Calls -> Nat]
  /\ lastUse \in [Keys -> Nat \cup {Never}]
  /\ spent \subseteq Keys

Takes(c) == pc[c] = "fresh" /\ pc'[c] = "authenticated"

(* A DPoP proof is held for one skew longer than the other two. *)
Margin(cred) == IF cred.kind = "dpop" THEN Skew ELSE 0

(* What the store's window really protects.  A credential is taken a       *)
(* second time only if it was last taken so early that the hold, counted   *)
(* from then, ends while a call can still find it fresh: an envelope or an *)
(* HTTP signature no later than its own timestamp plus the delay of a      *)
(* call, a DPoP proof one skew before that.                                *)
SecondUseNeedsEarlyFirst ==
  [][\A c \in Calls : Takes(c) =>
       LET cred == Cred(c)
       IN  \/ lastUse[cred.id] = Never
           \/ lastUse[cred.id] + Margin(cred) <= cred.timestampMs + MaxDelay]_vars

(* A credential is taken at most once. *)
TakenOnce == [][\A c \in Calls : Takes(c) => lastUse[Cred(c).id] = Never]_vars

Elements(s) == 1 .. Len(s)

(* Whichever way a sender authenticates, and although requests wait for    *)
(* their approval between being counted and passing, the requests that     *)
(* pass within a window shorter than the limit's by the longest wait never *)
(* exceed its quota.                                                       *)
PassesWithinQuota ==
  \A s \in Senders, p \in Policies, t \in 0 .. clock :
    Cardinality({i \in Elements(passed[s]) :
                   passed[s][i] > t - (p.windowMs - MaxDelay) /\ passed[s][i] <= t})
      <= p.requests

(* The store holds an approval only if a request passed on it: one that is *)
(* refused for any reason, at whichever check, leaves its approval unused. *)
RefusalKeepsGrant ==
  \A r \in Requests :
    r.grant # NoGrant /\ store[r.grant] # NoEntry => r.grant \in spent

(* A route for HTTP signatures or DPoP proofs is passed with nothing else. *)
OwnSchemeOnly ==
  \A c \in Calls :
    pc[c] = "ok" /\ Route(c).require \in {"http-signature", "dpop"} =>
      Cred(c).kind = Route(c).require

-----------------------------------------------------------------------------
(* The inductive invariant *)

(* A call that verifies started no longer ago than MaxDelay; and one about *)
(* to take a credential of its route's scheme started while it was valid.  *)
RecentStart ==
  \A c \in Calls :
    /\ Verifying(c) => since[c] <= clock /\ clock <= since[c] + MaxDelay
    /\ pc[c] = "fresh" => /\ Cred(c).kind \in Schemes
                          /\ since[c] <= LastValid(Cred(c))

(* The store holds a credential that was taken until its last use and the  *)
(* hold are past.                                                          *)
TakenHeld ==
  \A r \in Requests :
    LET cred == r.cred
        until == lastUse[cred.id] + HoldFor(cred)
    IN  cred.kind \in Schemes /\ cred.genuine /\ lastUse[cred.id] # Never =>
          store[cred.id] >= until \/ clock >= until

IInv == TypeOK /\ RecentStart /\ TakenHeld /\ RefusalKeepsGrant
=============================================================================
