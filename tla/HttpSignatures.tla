---------------------------- MODULE HttpSignatures ----------------------------
(***************************************************************************)
(* HTTP message signatures in their Web Bot Auth profile: a client signs   *)
(* chosen parts of a request and names the directory of its keys, another  *)
(* one may add its own signature, the request is changed on the way, and a *)
(* server verifies the first signature of the profile.  A header name is   *)
(* in lower case and a field's values are one list, as Node delivers them. *)
(* Time is in halves of a second; created and expires are in seconds.      *)
(***************************************************************************)
EXTENDS Integers, FiniteSets, SequencesExt

CONSTANTS Bots,          \* clients, each with one key
          Directory,     \* the JWKs published at each client's agent URL
          HsAllowed,      \* keys accepted from a request that names no agent
          HsLifetimes,   \* expires - created, in seconds
          HsMaxAge,      \* maxAgeMs, in seconds
          HsSkew,        \* clockSkewMs, in seconds
          MaxHsTime,     \* bound on the clock, in halves of a second
          MaxChanges,    \* bound on changes made to the request on its way
          MaxVerified    \* bound on accepted requests

(* A published key: Ed25519 or of another kind, with its private part (d)  *)
(* or without.  Its x and the SPKI a client has name the same key.         *)
Jwks == [x : Bots, ed25519 : BOOLEAN, d : BOOLEAN]

ASSUME HttpSignaturesAssumption ==
  /\ HsAllowed \subseteq Bots /\ Directory \in [Bots -> SUBSET Jwks]
  /\ HsLifetimes \subseteq Nat /\ HsMaxAge \in Nat /\ HsSkew \in Nat
  /\ MaxHsTime \in Nat /\ MaxChanges \in Nat /\ MaxVerified \in Nat

VARIABLES hsTime,
          request,       \* {} or the request on its way
          signings,      \* everything a key was used to sign
          hsNonces,      \* nonceStore: [key, nonce, until]
          verified       \* the accepted requests, in order

hsVars == <<hsTime, request, signings, hsNonces, verified>>

(* The clock starts where a client whose clock is behind still reads 0. *)
HsInit ==
  /\ hsTime = 2 * HsSkew
  /\ request = {}
  /\ signings = {}
  /\ hsNonces = {}
  /\ verified = <<>>

NoBot == "none"
Seconds == hsTime \div 2

-----------------------------------------------------------------------------
(* A Signature-Agent field is its list of members; a plain string is one   *)
(* with no label.                                                          *)
Plain(url) == [label |-> "", url |-> url]
Labelled(url) == [label |-> "agent", url |-> url]

(* getDictionaryMember(): a plain string does not parse as a member, and   *)
(* of two members of one label the later one counts.                       *)
DictionaryMember(field) ==
  {field[i].url : i \in {k \in DOMAIN field :
      /\ \A j \in DOMAIN field : field[j].label # ""
      /\ \A j \in DOMAIN field : j > k => field[j].label # field[k].label}}

AgentComponents == {"signature-agent", "signature-agent;key"}

(* resolveComponent(): {} when the component cannot be resolved. *)
ResolveComponent(c, m) ==
  CASE c = "@authority" -> {m.authority}
    [] c = "@method" -> {m.method}
    [] c = "@path" -> {m.path}
    [] c = "@query" -> {m.query}
    [] c = "signature-agent" -> IF m.agent = <<>> THEN {} ELSE {m.agent}
    [] c = "signature-agent;key" -> DictionaryMember(m.agent)
    [] c = "content-digest" -> IF m.digest = {} THEN {} ELSE {m.digest}

(* buildSignatureBase() *)
SignatureBase(components, params, m) ==
  [params |-> params, lines |-> [c \in components |-> ResolveComponent(c, m)]]

(* verifyContentDigest(): every digest of a known algorithm matches, and   *)
(* there is one.                                                           *)
VerifyContentDigest(digest, body) ==
  LET known == {d \in digest : d.alg = "sha-256"} IN
  known # {} /\ \A d \in known : d.of = body

-----------------------------------------------------------------------------
(* signMessage(): the signature joins the fields of the request, first or  *)
(* last.                                                                   *)
SignMessage(bot, agent, m, components, params, sigs, changes) ==
  LET s == [components |-> components, params |-> params,
            by |-> bot, over |-> SignatureBase(components, params, m)]
  IN /\ signings' = signings \cup {[by |-> bot, agent |-> agent, message |-> m,
                                    params |-> params, components |-> components]}
     /\ \E joined \in {<<s>> \o sigs, sigs \o <<s>>} :
          request' = {[message |-> m, sigs |-> joined, changes |-> changes]}

(* The client's clock is at most the skew away from the server's.  A nonce *)
(* is the number of signatures made so far.                                *)
Params(bot, created, lifetime) ==
  [created |-> created, expires |-> created + lifetime, keyid |-> bot,
   nonce |-> Cardinality(signings), tag |-> "web-bot-auth"]

Created == {Seconds - HsSkew, Seconds, Seconds + HsSkew}

TargetComponents(m, identityOnly) ==
  {"@authority"} \cup (IF identityOnly THEN {} ELSE {"@method", "@path"})
                 \cup (IF identityOnly \/ m.query = "?" THEN {} ELSE {"@query"})

(* signWebBotAuthRequest() *)
SignWebBotAuthRequest(bot, query, body, form, identityOnly, created, lifetime) ==
  /\ signings = {}
  /\ LET m == [authority |-> "x", method |-> "x", path |-> "x", query |-> query,
               body |-> body,
               agent |-> CASE form = "string" -> <<Plain(bot)>>
                           [] form = "dictionary" -> <<Labelled(bot)>>
                           [] form = "none" -> <<>>,
               digest |-> IF body = "" THEN {} ELSE {[alg |-> "sha-256", of |-> body]}]
         agent == CASE form = "string" -> {"signature-agent"}
                    [] form = "dictionary" -> {"signature-agent;key"}
                    [] form = "none" -> {}
         digest == IF body = "" THEN {} ELSE {"content-digest"}
     IN SignMessage(bot, IF form = "none" THEN NoBot ELSE bot, m,
                    TargetComponents(m, identityOnly) \cup agent \cup digest,
                    Params(bot, created, lifetime), <<>>, 0)
  /\ UNCHANGED <<hsTime, hsNonces, verified>>

(* What happens to a request on its way happens before time passes: the    *)
(* checks look at the clock only when the server reads it.                 *)
OnItsWay == hsTime = 2 * HsSkew /\ verified = <<>>

(* Another client signs the request it was handed, naming no agent. *)
CoSign(bot) ==
  /\ OnItsWay /\ Cardinality(signings) = 1
  /\ \E r \in request :
       SignMessage(bot, NoBot, r.message, TargetComponents(r.message, FALSE),
                   Params(bot, Seconds, HsMaxAge), r.sigs, r.changes)
  /\ UNCHANGED <<hsTime, hsNonces, verified>>

(* One part of the request is other than it was sent. *)
Changed(r) ==
  {[r EXCEPT !.message.authority = "y"], [r EXCEPT !.message.method = "y"],
   [r EXCEPT !.message.path = "y"], [r EXCEPT !.message.query = "?y"],
   [r EXCEPT !.message.body = "other"], [r EXCEPT !.message.digest = {}],
   [r EXCEPT !.message.digest = @ \cup {[alg |-> "md5", of |-> "other"]}]}
  \cup {[r EXCEPT !.message.agent = a] :
          a \in UNION {{<<Plain(b)>>, <<Labelled(b)>>,
                        Append(r.message.agent, Labelled(b))} : b \in Bots}}
  \cup {[r EXCEPT !.sigs[i].params.expires = @ + 1] : i \in DOMAIN r.sigs}
  \cup {[r EXCEPT !.sigs[i].params.tag = "other"] : i \in DOMAIN r.sigs}

ChangeRequest ==
  /\ OnItsWay
  /\ \E r \in request :
       /\ r.changes < MaxChanges
       /\ \E other \in Changed(r) \ {r} : request' = {[other EXCEPT !.changes = @ + 1]}
  /\ UNCHANGED <<hsTime, signings, hsNonces, verified>>

-----------------------------------------------------------------------------
(* verifyMessage(): the first signature of the profile, and no other.      *)
Candidates(r) == {i \in DOMAIN r.sigs : r.sigs[i].params.tag = "web-bot-auth"}
FirstCandidate(r) ==
  {i \in Candidates(r) : \A j \in Candidates(r) : i <= j}

(* The Signature-Agent component a signature covers. *)
CoveredAgent(s) == s.components \cap AgentComponents

(* Fault: a Signature-Agent that is not covered is read all the same. *)
AgentFromHeaderUncovered(s, m) ==
  IF m.agent = <<>> THEN {NoBot} ELSE {m.agent[Len(m.agent)].url}

(* agentFromHeader(): {} refuses; the field is read the way it was signed. *)
AgentFromHeader(s, m) ==
  CASE m.agent = <<>> -> {NoBot}
    [] m.agent # <<>> /\ CoveredAgent(s) = {} -> {}
    [] m.agent # <<>> /\ CoveredAgent(s) = {"signature-agent"} ->
         {a.url : a \in {b \in ToSet(m.agent) : Len(m.agent) = 1 /\ b.label = ""}}
    [] m.agent # <<>> /\ CoveredAgent(s) = {"signature-agent;key"} ->
         DictionaryMember(m.agent)

IsEd25519Jwk(j) == j.ed25519 /\ ~j.d

(* fetchKeyDirectory(): the well-formed keys of the document; one that can *)
(* not be had refuses the request.                                         *)
FetchKeyDirectory(agent) == {j.x : j \in {k \in Directory[agent] : IsEd25519Jwk(k)}}

(* resolveKey: the published key whose thumbprint is the keyid. *)
ResolveKey(agent, keyid) ==
  {k \in IF agent = NoBot THEN HsAllowed ELSE FetchKeyDirectory(agent) : k = keyid}

(* The signature may be used now: the seconds are rounded down. *)
Timely(p) ==
  /\ p.created <= Seconds + HsSkew
  /\ Seconds - p.created <= HsMaxAge + HsSkew
  /\ Seconds < p.expires

(* The signature covers what is required, which includes the digest of a   *)
(* body that is there.                                                     *)
Covers(s, m) ==
  "@authority" \in s.components /\ (m.body # "" => "content-digest" \in s.components)

Authentic(s, m, agent) ==
  /\ s.by \in ResolveKey(agent, s.params.keyid)
  /\ \A c \in s.components : ResolveComponent(c, m) # {}
  /\ s.over = SignatureBase(s.components, s.params, m)

BodyMatches(s, m) ==
  "content-digest" \in s.components => VerifyContentDigest(m.digest, m.body)

HoldUntil == hsTime + 2 * (HsMaxAge + HsSkew)

(* verifyWebBotAuthRequest(): the nonce is taken last. *)
VerifyWebBotAuthRequest ==
  /\ Len(verified) < MaxVerified
  /\ \E r \in request : \E i \in FirstCandidate(r) :
       LET s == r.sigs[i] IN
       \E agent \in AgentFromHeader(s, r.message) :
         /\ Covers(s, r.message)
         /\ Timely(s.params)
         /\ Authentic(s, r.message, agent)
         /\ BodyMatches(s, r.message)
         /\ ~\E n \in hsNonces :
               n.key = s.params.keyid /\ n.nonce = s.params.nonce /\ n.until > hsTime
         /\ hsNonces' = hsNonces \cup {[key |-> s.params.keyid, nonce |-> s.params.nonce,
                                        until |-> HoldUntil]}
         /\ verified' = Append(verified, [message |-> r.message, agent |-> agent,
                                          keyid |-> s.params.keyid, params |-> s.params])
  /\ UNCHANGED <<hsTime, request, signings>>

HsLater ==
  /\ hsTime < MaxHsTime
  /\ request # {}
  /\ hsTime' = hsTime + 1
  /\ UNCHANGED <<request, signings, hsNonces, verified>>

HsNext ==
  \/ \E bot \in Bots, query \in {"?", "?x"}, body \in {"", "body"},
        form \in {"string", "dictionary", "none"}, identityOnly \in BOOLEAN,
        created \in Created, lifetime \in HsLifetimes :
       SignWebBotAuthRequest(bot, query, body, form, identityOnly, created, lifetime)
  \/ \E bot \in Bots : CoSign(bot)
  \/ ChangeRequest
  \/ VerifyWebBotAuthRequest
  \/ HsLater

HsSpec == HsInit /\ [][HsNext]_hsVars

-----------------------------------------------------------------------------
HsTypeOK ==
  /\ hsTime \in 0 .. MaxHsTime
  /\ \A s \in signings : s.by \in Bots /\ s.params.created \in Nat
  /\ \A n \in hsNonces : n.key \in Bots /\ n.until \in Nat
  /\ \A i \in DOMAIN verified : verified[i].agent \in Bots \cup {NoBot}

(* webBotAuth.ts:246: the identity an accepted request is given is that of *)
(* a client that signed it: the key's holder itself named the agent URL    *)
(* (or none), and signed this authority, these parameters and this body,   *)
(* and every other part its signature covers, whoever signed beside it and *)
(* whatever changed on the way.                                            *)
AcceptedWasSigned ==
  \A i \in DOMAIN verified :
    LET v == verified[i] IN
    \E s \in signings :
      /\ s.by = v.keyid /\ s.params = v.params
      /\ s.agent = v.agent
      /\ v.message.body # "" => v.message.body = s.message.body
      /\ \A c \in s.components :
           ResolveComponent(c, v.message) = ResolveComponent(c, s.message)

(* webBotAuth.ts:199: a signature whose lifetime is no longer than the     *)
(* maximum age (both default to a minute) is accepted once, even when its  *)
(* client's clock runs ahead and seconds are rounded.                      *)
SignatureUsedOnce ==
  \A i, j \in DOMAIN verified :
    /\ i # j /\ verified[i].params = verified[j].params
    => verified[i].params.expires - verified[i].params.created > HsMaxAge

(* webBotAuth.ts:246: what is accepted as an agent's request is one the    *)
(* agent signed, and it is accepted once.                                  *)
AcceptedRequestsHold == AcceptedWasSigned /\ SignatureUsedOnce
=============================================================================
