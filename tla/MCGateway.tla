----------------------------- MODULE MCGateway ------------------------------
(* Two senders on routes of every kind, some sharing one rate limit.       *)
EXTENDS Gateway, TLC

CONSTANTS a, b, k1, k2, k3, g1

Limit == [requests |-> 1, windowMs |-> 3]
MCPolicies == {Limit}

(* A route that is switched off: its limit lets nothing through. *)
Closed == [requests |-> 0, windowMs |-> 1]
MCRoutePolicies == {Closed}

Path(require, limit, approval) ==
  [valid |-> TRUE, matched |-> TRUE, require |-> require,
   allowedSenders |-> {}, rateLimit |-> limit, approval |-> approval]

Unmatched == [Path("any", NoLimit, "no") EXCEPT !.matched = FALSE]
BadPath == [Path("any", NoLimit, "no") EXCEPT !.valid = FALSE]
OnlyB == [Path("any", NoLimit, "no") EXCEPT !.allowedSenders = {b}]

Credential(kind, id, sender, ts) ==
  [kind |-> kind, id |-> id, sender |-> sender, alg |-> "ed25519",
   genuine |-> TRUE, timestampMs |-> ts, ttlMs |-> 2]

Forged(cred) == [cred EXCEPT !.genuine = FALSE]

Request(route, cred) ==
  [route |-> route, cred |-> cred, trusted |-> FALSE, grant |-> NoGrant,
   grantExpiresAt |-> 0]

WithGrant(r) == [r EXCEPT !.grant = g1, !.grantExpiresAt = 3]

Envelope == Credential("envelope", k1, a, 1)
Proof == Credential("dpop", k2, b, 1)
Signature == Credential("http-signature", k3, b, 1)
Capability == Credential("capability", k1, a, 0)

(* A sender's envelope and its capability under one rate limit, with one   *)
(* approval for both, with none, and on a route that asks for none.        *)
Guarded == Path("ed25519", Limit, "untrusted")

MCRequests ==
  {WithGrant(Request(Guarded, Envelope)),
   WithGrant(Request(Guarded, Capability)),
   Request(Guarded, Capability),
   Request(Path("any", Limit, "no"), Capability)}

(* The three single-use schemes, and every way a route can treat them *)
MCRoutes ==
  {Request(Path("hmac", NoLimit, "no"), Envelope),
   [Request(Path("any", NoLimit, "untrusted"), Envelope) EXCEPT !.trusted = TRUE],
   [Request(Path("any", NoLimit, "untrusted"), Capability)
      EXCEPT !.grant = g1, !.grantExpiresAt = 1],
   Request(Path("any", Closed, "no"), Capability),
   Request(OnlyB, Capability),
   Request(Unmatched, Envelope),
   Request(BadPath, Envelope),
   Request(Path("http-signature", NoLimit, "no"), Signature),
   Request(Path("dpop", NoLimit, "no"), Proof),
   Request(Path("none", NoLimit, "no"), Forged(Envelope))}

MCEnvelopesOnly == {Request(Path("any", NoLimit, "no"), Envelope)}

MCSchemes ==
  {Request(Path("http-signature", NoLimit, "no"), Signature),
   Request(Path("http-signature", NoLimit, "no"), Capability)}

Symmetry == Permutations(Calls)
=============================================================================
