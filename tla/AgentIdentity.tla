---------------------------- MODULE AgentIdentity ----------------------------
(***************************************************************************)
(* Who is behind a key.  Attestation (attestation.ts): statements that an  *)
(* agent's key belongs to a build, and the registry that hands out the     *)
(* keys of attested agents only, with a cache of what it verified.  Agent  *)
(* cards (agentIdentity.ts): cards carrying signatures, verified one       *)
(* signature after the other while the trusted keys change.                *)
(***************************************************************************)
EXTENDS Integers, Sequences, FiniteSets

CONSTANTS Lookups,            \* concurrent getPublicKey() calls
          Workloads, AgentKeys, NoKey,
          Attesters, AllowedAttesters,
          Builds, ApprovedBuilds,      \* a measurement, and the digests approved
          StatementLife, AttestSkew, MaxStatementAge,
          CacheMs, MaxCacheEntries,
          LookupDelay,        \* longest getPublicKey() call
          MaxStatements,      \* bound on what is issued
          AttestTimeLimit,    \* bound on the clock
          CardCalls,          \* concurrent verifyAgentCard() calls
          KeyIds,             \* keys that sign cards
          Contents,           \* a card without its signatures
          OriginsOf,          \* content -> the origins it declares
          ExpectedOrigin, RequireAll,
          MaxSignatures,
          MaxSignings         \* bound on what is signed

ASSUME AttestAssumption ==
  /\ NoKey \notin AgentKeys
  /\ AllowedAttesters \subseteq Attesters
  /\ ApprovedBuilds \subseteq Builds
  /\ StatementLife \in Nat \ {0}
  /\ AttestSkew \in Nat /\ MaxStatementAge \in Nat
  /\ CacheMs \in Nat /\ MaxCacheEntries \in Nat
  /\ LookupDelay \in Nat /\ AttestTimeLimit \in Nat /\ MaxStatements \in Nat

ASSUME CardAssumption ==
  /\ RequireAll \in BOOLEAN
  /\ MaxSignatures \in Nat /\ MaxSignings \in Nat

VARIABLES attestTime,
          baseKeys,         \* the registry underneath: agent -> key or NoKey
          statements,       \* what the attesters have signed
          withdrawn,        \* ids for which isRevoked answers yes
          attested,         \* the cache: agent -> key and until
          cacheOrder,       \* its insertion order
          lookup,           \* the calls
          (* history, read by the properties only *)
          withdrawnAt,      \* id -> when it was withdrawn
          droppedAt,        \* agent, key -> when the registry last dropped it
          handed            \* the key handed out last: for whom, when and why

VARIABLES cards,            \* the cards operators have signed
          trustedKids, revokedKids,   \* what resolveKey knows
          cardAt,           \* the calls: card, place in the loop, verdicts
          acceptedCard          \* history: the card accepted last

attestVars == <<attestTime, baseKeys, statements, withdrawn, attested, cacheOrder,
                lookup, withdrawnAt, droppedAt, handed>>

cardVars == <<cards, trustedKids, revokedKids, cardAt, acceptedCard>>

-----------------------------------------------------------------------------
(* Statements                                                              *)

Bodies ==
  [id : Nat, agent : Workloads, publicKey : AgentKeys, build : Builds,
   attester : Attesters, issuedAt : Nat, expiresAt : Nat]

(* What the verifier is shown, and what its signature covers *)
Statements == [body : Bodies, signed : Bodies]

Cached == [key : AgentKeys \cup {NoKey}, until : Nat]
Uncached == [key |-> NoKey, until |-> 0]

LookupIdle == [at |-> "idle"]

AttestInit ==
  /\ attestTime = 0
  /\ baseKeys \in [Workloads -> AgentKeys \cup {NoKey}]
  /\ statements = {}
  /\ withdrawn = {}
  /\ attested = [a \in Workloads |-> Uncached]
  /\ cacheOrder = <<>>
  /\ lookup = [l \in Lookups |-> LookupIdle]
  /\ withdrawnAt = [n \in 1..MaxStatements |-> 0]
  /\ droppedAt = [p \in Workloads \X AgentKeys |-> 0]
  /\ handed = {}

(* issueAttestation: some attester measures a build running with a key *)
IssueAttestation(a, k, b, t) ==
  LET n == Cardinality(statements) + 1
      body == [id |-> n, agent |-> a, publicKey |-> k, build |-> b, attester |-> t,
               issuedAt |-> attestTime, expiresAt |-> attestTime + StatementLife] IN
  /\ n <= MaxStatements
  /\ statements' = statements \cup {[body |-> body, signed |-> body]}
  /\ UNCHANGED <<attestTime, baseKeys, withdrawn, attested, cacheOrder, lookup,
                 withdrawnAt, droppedAt, handed>>

WithdrawStatement(n) ==
  /\ \E s \in statements : s.body.id = n
  /\ n \notin withdrawn
  /\ withdrawn' = withdrawn \cup {n}
  /\ withdrawnAt' = [withdrawnAt EXCEPT ![n] = attestTime]
  /\ UNCHANGED <<attestTime, baseKeys, statements, attested, cacheOrder, lookup,
                 droppedAt, handed>>

(* The registry underneath changes an agent's key. *)
ChangeBaseKey(a, k) ==
  /\ k # baseKeys[a]
  /\ baseKeys' = [baseKeys EXCEPT ![a] = k]
  /\ droppedAt' = [p \in Workloads \X AgentKeys |->
       IF p = <<a, baseKeys[a]>> THEN attestTime ELSE droppedAt[p]]
  /\ UNCHANGED <<attestTime, statements, withdrawn, attested, cacheOrder, lookup,
                 withdrawnAt, handed>>

(* What getAttestation may come back with: a statement as it was issued,   *)
(* or one with another agent, key or build under the old signature.        *)
Presented ==
  statements \cup
  {[s EXCEPT !.body.agent = a] : s \in statements, a \in Workloads} \cup
  {[s EXCEPT !.body.publicKey = k] : s \in statements, k \in AgentKeys} \cup
  {[s EXCEPT !.body.build = b] : s \in statements, b \in Builds}

-----------------------------------------------------------------------------
(* createAttestedKeyRegistry().getPublicKey                                *)

(* base.getPublicKey; no key, no answer *)
AskBase(l, a) ==
  /\ lookup[l].at = "idle"
  /\ baseKeys[a] # NoKey
  /\ lookup' = [lookup EXCEPT ![l] =
       [at |-> "based", agent |-> a, key |-> baseKeys[a], began |-> attestTime]]
  /\ UNCHANGED <<attestTime, baseKeys, statements, withdrawn, attested, cacheOrder,
                 withdrawnAt, droppedAt, handed>>

HandOut(call, why) ==
  handed' = {[agent |-> call.agent, key |-> call.key, at |-> attestTime, why |-> why]}

(* Fault: what was verified for one key is served for another. *)
CacheServesAnyKey(call) == attested[call.agent].until > attestTime

CacheHit(call) ==
  /\ attested[call.agent].key = call.key
  /\ attested[call.agent].until > attestTime

AnswerFromCache(l) ==
  /\ lookup[l].at = "based"
  /\ CacheHit(lookup[l])
  /\ HandOut(lookup[l], "cached")
  /\ lookup' = [lookup EXCEPT ![l] = LookupIdle]
  /\ UNCHANGED <<attestTime, baseKeys, statements, withdrawn, attested, cacheOrder,
                 withdrawnAt, droppedAt>>

(* t is read; the statement is asked for. *)
AskStatement(l) ==
  /\ lookup[l].at = "based"
  /\ ~CacheHit(lookup[l])
  /\ lookup' = [lookup EXCEPT ![l] =
       [at |-> "asked", agent |-> lookup[l].agent, key |-> lookup[l].key,
        began |-> lookup[l].began, t |-> attestTime]]
  /\ UNCHANGED <<attestTime, baseKeys, statements, withdrawn, attested, cacheOrder,
                 withdrawnAt, droppedAt, handed>>

(* verifyAttestation up to its first await, with now = t *)
StatementFits(b, call) ==
  /\ b.attester \in AllowedAttesters
  /\ b.issuedAt <= call.t + AttestSkew
  /\ call.t < b.expiresAt
  /\ call.t - b.issuedAt <= MaxStatementAge
  /\ b.agent = call.agent
  /\ b.publicKey = call.key

ReadStatement(l, s) ==
  /\ lookup[l].at = "asked"
  /\ StatementFits(s.body, lookup[l])
  /\ s.body = s.signed
  /\ lookup' = [lookup EXCEPT ![l] =
       [at |-> "signed", agent |-> lookup[l].agent, key |-> lookup[l].key,
        began |-> lookup[l].began, t |-> lookup[l].t, body |-> s.body]]
  /\ UNCHANGED <<attestTime, baseKeys, statements, withdrawn, attested, cacheOrder,
                 withdrawnAt, droppedAt, handed>>

(* isRevoked is read where the ids are kept; the answer takes its time. *)
ReadRevoked(l) ==
  /\ lookup[l].at = "signed"
  /\ lookup[l].body.id \notin withdrawn
  /\ lookup' = [lookup EXCEPT ![l].at = "live"]
  /\ UNCHANGED <<attestTime, baseKeys, statements, withdrawn, attested, cacheOrder,
                 withdrawnAt, droppedAt, handed>>

MinOf(x, y) == IF x < y THEN x ELSE y

(* cache.set: the oldest entry goes first when the cache is full, even to  *)
(* make room for an agent that is in it.                                   *)
CacheFull == Len(cacheOrder) >= MaxCacheEntries /\ cacheOrder # <<>>

AfterEviction == IF CacheFull THEN Tail(cacheOrder) ELSE cacheOrder

Entered(a) ==
  IF \E i \in DOMAIN AfterEviction : AfterEviction[i] = a
    THEN AfterEviction
    ELSE Append(AfterEviction, a)

(* The rest of verifyAttestation and the cache: until is counted from t    *)
(* and ends with the statement.                                            *)
AnswerAttested(l) ==
  LET call == lookup[l]
      entry == [key |-> call.key, until |-> MinOf(call.t + CacheMs, call.body.expiresAt)]
  IN
  /\ call.at = "live"
  /\ call.body.build \in ApprovedBuilds
  /\ attested' = [a \in Workloads |->
       IF a = call.agent THEN entry
       ELSE IF CacheFull /\ a = Head(cacheOrder) THEN Uncached
       ELSE attested[a]]
  /\ cacheOrder' = Entered(call.agent)
  /\ HandOut(call, "verified")
  /\ lookup' = [lookup EXCEPT ![l] = LookupIdle]
  /\ UNCHANGED <<attestTime, baseKeys, statements, withdrawn, withdrawnAt, droppedAt>>

(* No statement, one that does not pass, or a call that throws: the entry  *)
(* goes, and there is no key.                                              *)
AnswerNone(l) ==
  LET call == lookup[l]
      Others(a) == a # call.agent IN
  /\ call.at \in {"asked", "signed", "live"}
  /\ attested' = [attested EXCEPT ![call.agent] = Uncached]
  /\ cacheOrder' = SelectSeq(cacheOrder, Others)
  /\ lookup' = [lookup EXCEPT ![l] = LookupIdle]
  /\ UNCHANGED <<attestTime, baseKeys, statements, withdrawn, withdrawnAt, droppedAt,
                 handed>>

AttestTick ==
  /\ attestTime < AttestTimeLimit
  /\ \A l \in Lookups :
       lookup[l].at # "idle" => attestTime < lookup[l].began + LookupDelay
  /\ attestTime' = attestTime + 1
  /\ UNCHANGED <<baseKeys, statements, withdrawn, attested, cacheOrder, lookup,
                 withdrawnAt, droppedAt, handed>>

AttestNext ==
  \/ \E a \in Workloads, k \in AgentKeys, b \in Builds, t \in Attesters :
       IssueAttestation(a, k, b, t)
  \/ \E n \in 1..MaxStatements : WithdrawStatement(n)
  \/ \E a \in Workloads, k \in AgentKeys \cup {NoKey} : ChangeBaseKey(a, k)
  \/ \E l \in Lookups :
       \/ \E a \in Workloads : AskBase(l, a)
       \/ AnswerFromCache(l)
       \/ AskStatement(l)
       \/ \E s \in Presented : ReadStatement(l, s)
       \/ ReadRevoked(l)
       \/ AnswerAttested(l)
       \/ AnswerNone(l)
  \/ AttestTick

AttestSpec == AttestInit /\ [][AttestNext]_attestVars
-----------------------------------------------------------------------------
(* Agent cards                                                             *)

(* kid is what the header claims, by the key that really signed, over the  *)
(* canonical card without its signatures.                                  *)
Signatures == [kid : KeyIds, by : KeyIds, over : Contents]

Cards == [content : Contents, signatures : Seq(Signatures)]

CardIdle == [at |-> "idle"]

CardInit ==
  /\ cards = {[content |-> c, signatures |-> <<>>] : c \in Contents}
  /\ trustedKids \in SUBSET KeyIds
  /\ revokedKids = {}
  /\ cardAt = [c \in CardCalls |-> CardIdle]
  /\ acceptedCard = {}

(* signAgentCard keeps the signatures that are there. *)
SignAgentCard(card, kid, by) ==
  /\ Cardinality(cards) < Cardinality(Contents) + MaxSignings
  /\ cards' = cards \cup
       {[card EXCEPT !.signatures =
           Append(@, [kid |-> kid, by |-> by, over |-> card.content])]}
  /\ UNCHANGED <<trustedKids, revokedKids, cardAt, acceptedCard>>

(* resolveKey answers from keys that come and go; a revoked key is gone. *)
TrustKey(k) ==
  /\ k \notin trustedKids \cup revokedKids
  /\ trustedKids' = trustedKids \cup {k}
  /\ UNCHANGED <<cards, revokedKids, cardAt, acceptedCard>>

RevokeKey(k) ==
  /\ k \in trustedKids
  /\ trustedKids' = trustedKids \ {k}
  /\ revokedKids' = revokedKids \cup {k}
  /\ UNCHANGED <<cards, cardAt, acceptedCard>>

(* cardOrigins has the origin the card was fetched from. *)
DeclaresOrigin(content) == ExpectedOrigin \in OriginsOf[content]

(* verifyAgentCard before its loop.  The card may carry the signatures of  *)
(* another one.                                                            *)
ReadCard(c, card, content) ==
  /\ cardAt[c].at = "idle"
  /\ Len(card.signatures) \in 1..MaxSignatures
  /\ DeclaresOrigin(content)
  /\ cardAt' = [cardAt EXCEPT ![c] =
       [at |-> "loop", card |-> [card EXCEPT !.content = content], next |-> 1,
        verified |-> {}, failures |-> 0, gone |-> revokedKids]]
  /\ UNCHANGED <<cards, trustedKids, revokedKids, acceptedCard>>

(* verifyOne: the trusted key for kid signed this very content. *)
Verifies(card, i) ==
  LET sig == card.signatures[i] IN
  /\ sig.kid \in trustedKids
  /\ sig.by = sig.kid
  /\ sig.over = card.content

VerifyOne(c) ==
  LET call == cardAt[c] IN
  /\ call.at = "loop"
  /\ call.next <= Len(call.card.signatures)
  /\ cardAt' = [cardAt EXCEPT ![c] =
       IF Verifies(call.card, call.next)
         THEN [call EXCEPT !.next = @ + 1,
                           !.verified = @ \cup {call.card.signatures[call.next].kid}]
         ELSE [call EXCEPT !.next = @ + 1, !.failures = @ + 1]]
  /\ UNCHANGED <<cards, trustedKids, revokedKids, acceptedCard>>

CardPasses(call) == call.verified # {} /\ (RequireAll => call.failures = 0)

FinishCard(c) ==
  LET call == cardAt[c] IN
  /\ call.at = "loop"
  /\ call.next > Len(call.card.signatures)
  /\ acceptedCard' = IF CardPasses(call)
       THEN {[card |-> call.card, keyIds |-> call.verified, gone |-> call.gone]}
       ELSE acceptedCard
  /\ cardAt' = [cardAt EXCEPT ![c] = CardIdle]
  /\ UNCHANGED <<cards, trustedKids, revokedKids>>

CardNext ==
  \/ \E card \in cards, kid, by \in KeyIds : SignAgentCard(card, kid, by)
  \/ \E k \in KeyIds : TrustKey(k) \/ RevokeKey(k)
  \/ \E c \in CardCalls :
       \/ \E card \in cards, content \in Contents : ReadCard(c, card, content)
       \/ VerifyOne(c)
       \/ FinishCard(c)

CardSpec == CardInit /\ [][CardNext]_cardVars

-----------------------------------------------------------------------------
LookupPlaces ==
  {LookupIdle} \cup
  [at : {"based"}, agent : Workloads, key : AgentKeys, began : Nat] \cup
  [at : {"asked"}, agent : Workloads, key : AgentKeys, began : Nat, t : Nat] \cup
  [at : {"signed", "live"}, agent : Workloads, key : AgentKeys, began : Nat, t : Nat,
   body : Bodies]

AttestTypeOK ==
  /\ attestTime \in Nat
  /\ baseKeys \in [Workloads -> AgentKeys \cup {NoKey}]
  /\ statements \subseteq Statements
  /\ withdrawn \subseteq Nat
  /\ attested \in [Workloads -> Cached]
  /\ cacheOrder \in Seq(Workloads)
  /\ lookup \in [Lookups -> LookupPlaces]
  /\ withdrawnAt \in [1..MaxStatements -> Nat]
  /\ droppedAt \in [Workloads \X AgentKeys -> Nat]
  /\ handed \subseteq
       [agent : Workloads, key : AgentKeys, at : Nat, why : {"cached", "verified"}]

Lag == IF LookupDelay < CacheMs THEN CacheMs ELSE LookupDelay

(* attestation.ts:304: a key that is handed out belongs to an agent that   *)
(* an allowed attester measured, with this key, as an approved build.  A   *)
(* cached answer ends with the statement; a withdrawn statement, or one    *)
(* too old, is used no longer than the cache or one slow call lasts; and   *)
(* the cache never keeps a key the registry underneath has dropped.        *)
AttestedKeysHold ==
  \A h \in handed :
    /\ \E s \in statements :
         LET m == s.body IN
         /\ m.agent = h.agent /\ m.publicKey = h.key
         /\ m.attester \in AllowedAttesters /\ m.build \in ApprovedBuilds
         /\ h.at < m.expiresAt + (IF h.why = "cached" THEN 0 ELSE LookupDelay)
         /\ h.at <= m.issuedAt + MaxStatementAge + Lag
         /\ m.id \in withdrawn => h.at <= withdrawnAt[m.id] + Lag
    /\ baseKeys[h.agent] # h.key => h.at <= droppedAt[<<h.agent, h.key>>] + LookupDelay

(* agentIdentity.ts:360: an accepted card declares the expected origin,    *)
(* and keys that were not revoked when the verification began signed       *)
(* exactly its content, every one of them where all are required.          *)
CardsHold ==
  \A a \in acceptedCard :
    LET Good(i) ==
          LET sig == a.card.signatures[i] IN
          sig.by = sig.kid /\ sig.over = a.card.content /\ sig.kid \notin a.gone IN
    /\ ExpectedOrigin \in OriginsOf[a.card.content]
    /\ a.keyIds # {}
    /\ \A k \in a.keyIds :
         \E i \in DOMAIN a.card.signatures : a.card.signatures[i].kid = k /\ Good(i)
    /\ RequireAll => \A i \in DOMAIN a.card.signatures : Good(i)

(* attestation.ts:304, agentIdentity.ts:360: keys that are handed out are  *)
(* attested, but for a bounded lag, and cards that are accepted are signed *)
(* by unrevoked keys and declare the expected origin.                      *)
IdentitiesHold == AttestedKeysHold /\ CardsHold
=============================================================================
