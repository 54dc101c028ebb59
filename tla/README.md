# TLA+ specifications of the 7h3 protocol

The 7h3 protocol signs every message an agent sends and verifies it where it
arrives. Signatures settle who wrote a message. What they do not settle is kept
in state: which messages were seen, which keys are still good, which approvals and
nonces are spent, how much of a budget is reserved, what a log already says. That
state is shared by asynchronous calls that give up the thread at every `await`, and
by processes that fail separately, and it is what these modules are about.

Paths below are relative to the repository (`src/protocol.ts` is
`src/src/protocol.ts` in `PROJECT.json`).

## 1. The system

| Component | State | Operations | Hard part |
|---|---|---|---|
| Replay cache (`protocolReplay.ts`) | Map key → expiry, heap over the same keys | `consume`, `prune`, eviction | two structures in step; capacity; the last instant of a lifetime |
| Envelope transport (`protocolTransport.ts`, `protocol.ts`) | material cache, replay cache, calls in flight | `receiveEnvelope`, `SessionTransport` | `nowMs` is read once and used after awaits; cached material outlives a revocation |
| Envelopes in five SDKs (`protocol.ts`, `sdk/browser`, `sdk/python`, `sdk/go`, `sdk/rust`) | none | canonical form, sign, encode, decode, validate, verify | five implementations of one format |
| Replay and rate stores (`replayStores.ts`, `redisClient.ts`, `cloudflare/src`) | key → expiry in memory, Redis, KV, Durable Objects | `check`, `reserve`, alarms | capacity, failover, read-then-write, one alarm |
| Revocation (`revocation.ts`) | Redis set, a cache per node | `revoke`, `isRevoked` | a stale read overwriting a newer write |
| Key rotation and lookup (`keyInfra.ts`, `keyRegistry.ts`) | keys with ends, document cache, answer cache | `rotateIfNeeded`, `getPublicKey` | overlapping rotations, stacked caches |
| Key log (`keyLog.ts`) | hash chain, head, the registry's view | `register`, `rotate`, `revoke`, checkpoint, load | overlapping appends, a restarted operator |
| Gateway (`gateway.ts`, `routePolicy.ts`, `httpBinding.ts`) | replay store, rate limiter | `verify`, `handle` | four authentication paths, the order of the checks |
| HTTP signatures, Web Bot Auth, DPoP (`httpMessageSignatures.ts`, `webBotAuth.ts`, `dpop.ts`) | nonce store, issued nonces | sign, verify | which parts are covered; how long a nonce is held; whole seconds |
| Rate limiter (`rateLimiter.ts`) | sender → instants, in order of last use | `consume`, `check`, `reset`, `clear` | more senders than the Map holds |
| Approvals and provenance (`approval.ts`, `provenance.ts`) | the replay store, an agent's sources | `verifyApproval`, claims, `enforceApproval` | single use near the expiry; what untrusted input leaves behind |
| Attestation and agent cards (`attestation.ts`, `agentIdentity.ts`) | cache of attested keys, trusted keys | `getPublicKey`, `verifyAgentCard` | statements and keys that go while a call waits or a cache holds |
| Payment mandates (`mandate.ts`) | spend ledger, approvals, signed documents | `verifyPayment`, `reserve`, `release`, the charge | failure between reservation and release; three documents that must agree |
| Capabilities (`capability.ts`) | none | issue, delegate, verify a chain | attenuation along a chain, globs |
| WebMCP guard (`sdk/webmcp`) | grants, spent nonces, receipts | `call`, confirm, `revoke` | a user is asked between check and use |
| Tool pinning (`mcpToolPinning.ts`) | pins, verdicts, time of the last sweep | `tools/list`, `tools/call`, `invalidate` | sweeps page by page while others list and call |
| MCP (`mcpWrapper.ts`, `mcpTransports.ts`, `mcpGateway.ts`, `frameworkAdapters.ts`) | pending calls, audit trail, tokens | send, serve, `handleLine` | answers matched by order; a sink that fails |
| Streams (`stream.ts`, `mcpSse.ts`, `wsBinding.ts`) | sequence numbers, reader state | write, finalize, feed | numbering before a signature is ready |
| Bindings (queue, webhook, gRPC, HTTP, WebSocket; four languages) | replay caches | verify a message | order of checks, duplicates in flight |
| Audit log (`auditLog.ts`) | hash chain, bounded | `log`, `verifyAuditChain` | overlapping calls, eviction |
| Threshold keys (`sdk/threshold`) | partial signatures, shares | sign, aggregate, verify, split, rebuild | duplicates; one-byte indices |

How they interact. A transport asks its material cache, then the resolver (registry,
keyring, revocation store), verifies the signature and then asks the replay cache.
The gateway authenticates a request with an envelope, an HTTP signature, a DPoP
proof or a capability chain, takes the credential's nonce in the replay store, asks
the rate limiter, and asks the approval gate last; the gate uses the same store by
default (`gateway.ts:209-263`). `verifyPayment` reserves in the ledger, calls
`verifyApproval`, and hands back on failure; its caller charges. The MCP gateway
takes a line through allowlist, authorisation and tokens, and writes an audit event
at each stage. Code between two awaits is atomic; everything else interleaves.

What makes each part correct:

* replay: an accepted message is not accepted again while it is valid, in whichever
  store; a forgery does not block the genuine message; caches stay bounded;
* keys: a revoked key stops being accepted within a bounded time, a rotated one is
  found in a bounded time, a signer always has a key, a log does not lose history;
* authority: a credential, an approval, a nonce is used once; a delegated chain
  never covers more than its root; a refused request spends nothing;
* quotas and money: a quota holds in every window, a ceiling holds, a payment is
  charged once, nothing stays reserved that will not be charged;
* delivery: what is handed over is what was signed, in order, whole, once, and
  every call and every line is answered.

`PROJECT.json` lists the hazards behind these, each at its line.

## 2. The modules

| Module | Models | Uses |
|---|---|---|
| `ReplayWindow` | a bounded window of keys and expiries, as operators | – |
| `ReplayCache` | abstract specification of a replay cache | `ReplayWindow` |
| `InMemoryReplayCache` | the Map and the heap, statement by statement; implements `ReplayCache` | `ReplayCache` (INSTANCE) |
| `Transport` | `receiveEnvelope`, material cache, resolver, revocation | `ReplayWindow` |
| `SdkInterop` | an envelope between the five SDKs | – |
| `MemoryReplayStore` | `MemoryReplayStore.check` | `ReplayWindow` |
| `RedisReplay` | the Redis store, its pipeline, the cluster store, the error behaviours | – |
| `CloudflareStores` | replay and rate stores in KV and in Durable Objects | – |
| `Revocation` | the Redis revocation store with a cache per node | – |
| `KeyDistribution` | rotation manager, key document, caching registries | – |
| `KeyLog` | operator, verification, checkpoint, registry | – |
| `Gateway` | `verify` and `handle` over one store and one limiter | `MemoryReplayStore`, `RateLimiter` |
| `HttpSignatures` | signing and verifying under the Web Bot Auth profile, the key directory | – |
| `Dpop` | proofs, server nonces, `verifyDpopProof` | – |
| `StepUp` | provenance contexts and claims, approvals by humans, `enforceApproval` | – |
| `AgentIdentity` | attestation statements, the attested registry and its cache, agent cards | – |
| `RateLimiter` | `SlidingWindowRateLimiter` | `Lists` |
| `Lists` | `Array.filter` by positions, without recursion | – |
| `Approval` | `verifyApproval` | `MemoryReplayStore` |
| `Mandate` | `verifyPayment` from the ledger on, `MemorySpendLedger`, the caller that charges | – |
| `MandateChain` | intent, cart and payment, and what `verifyPayment` checks of them before the ledger | – |
| `Capability` | tokens, delegation, hops signed by hand, chain verification, globs | – |
| `WebGuard` | the WebMCP guard and its receipts | – |
| `ToolPinning` | `guardMcpClient` and its `ToolGuard` | – |
| `McpChannel` | wrapped client and server over stdio and HTTP | – |
| `McpGateway` | `handleLine` with its audit trail | – |
| `SignedStream`, `SignedSse` | writer, path and reader of signed streams | – |
| `Bindings` | every binding as a pipeline of checks, with its cache | `ReplayWindow` |
| `AuditLog` | `InMemoryAuditLog` and `verifyAuditChain` | – |
| `ThresholdSigning` | m-of-n signatures, Shamir shares over a small field | – |
| `ListProofs` | facts about counting and filtered lists | `Lists` |
| `…Proofs` (7) | the theorems, section 4 | the modules they are about |

The `MC` modules give the constants small values. An operator whose comment starts
with *Fault:* is a plausible bug of the definition below it; no specification uses
it, and `PROJECT.json` says which property catches it.

**Calls.** An asynchronous function is a set of concurrent calls, each with a
program counter (`pc`, `at`, `stage`) and its local variables. An action is what
runs between two awaits. A call that ends frees its slot, so a finite set of slots
stands for calls without end, of which so many run at once.

**Time.** A module's clock (`clock`, `now`, `wall`, `bindTime`, ...) is
`Date.now()` in abstract units. What a call read when it started is kept with the
call where the code keeps it. `HttpSignatures` counts halves of a second and `Dpop`
ticks of one, so that the rounding to seconds happens; `CloudflareStores` has a `Second`, for KV's
lifetimes; `SdkInterop` has halves of a millisecond, for fractions.

**Data.** A message, grant or payment is a record of the fields the checks read.
Cryptography is a field (`signedWith`, `genuine`), and a hash is `<<x>>`, the thing
it is of. A BLS sum is the bag of what was added.

### Replay caches and stores

`InMemoryReplayCache`: `Rise` and `Sink` are one round of the loops of
`ExpiryMinHeap`'s `bubbleUp` and `bubbleDown`, `Rounds` runs a loop to its break,
`Push` and `Pop` are its methods; `PruneHeap`, `EvictOne` and `HeapConsume` are `prune`, `evictOne`
and the whole of `consume`. Callers pass their own `nowMs`, which need not grow.
The abstract cache keeps key → expiry; any key of earliest expiry may be evicted.

`RedisReplay`: `Reserve` begins a `reserve`/`reserveMany`, `PipelineSet` is one
`SET NX PX` at the server, `PipelineReply` and `PipelineThrows` are the client's
two outcomes (the reply can be lost after the command ran), `Degrade` the
`errorBehavior`. `ClusterCheck`, `NodeChecks`, `NodeThrows`, `ClusterAnswers` are
`ClusterRedisReplayStore.check`; `NodeRestarts` empties a node.

`CloudflareStores`: KV's get and put are two actions, and every datacenter reads a
copy of its own: what was put there at once, what was put elsewhere when it arrives
(`KvNonceArrives`, `KvWindowArrives`), at any later time or never. That is what
`kv-replay-store.ts:6-12` says of KV, which is external. An entry that arrives is
the last one put; that a datacenter may also see one between is left out. A Durable
Object's handler is one action (`DoCheck`, `DoConsume`), its alarm another (`DoAlarm`,
`DoRateAlarm`).

`Bindings`: a binding is a sequence of named checks (`Pipelines`, one per binding
and language); `Arrive` starts a call, `Check` runs its next check at whatever
time it gets the thread. On the way a message may be altered in what is signed, or
in what travels beside the envelope: a queue message's payload, a gRPC request, an
HTTP body, path and method. In the bindings of `Enclosed` nothing does; in those of
`Unread` it is handed over without a check.

### Transport

| Code in `receiveEnvelope` | Actions |
|---|---|
| decode (270-293) | `Receive`, `DecodeFails` |
| skew, validation, missing signature (295-335) | `RejectEarly`, `AcceptUnsigned` |
| material cache, resolver (337-370) | `LookupHit`, `LookupMiss`, `ResolverReads`, `ResolverThrows`, `StoreMaterial`, `RejectNoMaterial` |
| signature (372-383) | `RejectBadSignature` |
| replay (385-406) | `RejectReplay`, `Accept` |

`Revoke` and `Rotate` change what the resolver finds, also while a call awaits it.

`SdkInterop`: one letter is signed by one SDK, encoded in one of two shapes, perhaps
changed in one field, and judged by all five at one instant. `…Canonical`,
`…Valid` and `…Verify` exist per SDK where the SDKs differ.

### Keys

`Revocation`: `AnswerCached` is an `isRevoked()` that finds a fresh entry, `AskRedis`
one that does not; `RedisReplies`, `ReadDone` and `ReadThrows` are what comes of it.
`told` is the last answer and what it rests on: a fresh entry, Redis, a stale entry
or `errorBehavior`. `RevokeSet` and `RevokeCached` are `revoke`, which writes Redis,
then the local cache. `KeyDistribution`: `BeginRotation` gives the current key its end and waits
for a key pair (`Rotated`, `RotationFails`); a lookup goes through an answer cache, a
withdrawal list and a document cache. `KeyLog`: `append` takes index and
predecessor, then waits for signature and hash; `RestartOperator` empties it;
the registry fetches, verifies, and compares with its checkpoint. `VerifyKeyLog` and
`ResolveKeyLog` go entry by entry, as the code's loops do.

### Gateway, RateLimiter, HttpSignatures, Dpop

`Arrive` is `verify` up to its first await: the path, the policy, the capability
header that is looked at before the route's requirement. `CheckFresh` reads the
times of the credential, `TakeCredential` and `ReplayDetected` are the replay
store's answers, `NotAdmitted`, `RateLimited` and `Admit` the checks after it,
`NoApprovalNeeded`, `ApprovalDenied`, `ApprovalUsed` and `Approved` the approval
gate, `Forward` the upstream request. The limiter's `windows` and `order` are one
JavaScript Map; its three eviction loops are `Shrunk`. `HttpSignatures` signs a
chosen set of components, lets a second client co-sign and the path change a part,
and verifies the first signature of the profile, digest and agent header included.
`Dpop`: `CreateProof` and `IssueNonce` are the client and the server's nonces;
`ReadProof` is `verifyDpopProof` up to its first await, `ValidateNonce` the nonce and
the token binding, `AcceptProof` the jti in the store.

### Authority and money

`Approval`: `Present` does the checks before the first await, then the approver
lookup, the signature, and `check()` with the hold computed from the call's start.
`Mandate`: `Reserve`/`ReserveRefused` are the synchronous `reserve`; `NoApproval`,
`ApprovalFails` + `Release`, `ApprovalThrows`, `AuthoriseLarge` the ways out of the
approval; `Charge` and `ChargeFails` are the caller, external to the repository,
which does what the comment on `SpendLedger.release` asks. `Capability` keeps every
token ever signed; a hop may be signed by hand, past the library's checks.
`MandateChain` has a merchant and an agent that sign by hand (`RequoteCart`,
`IssuePayment`) and documents changed on the way (`ArrivingCarts`, ...);
`VerifyChain` is `verifyPayment` up to `ledger.reserve`. `StepUp`: `AddSource` is
`ProvenanceContext.add`, full contexts included; `SignProvenance` signs what the
context says, `LabelByHand` and `ApproveItself` what an agent would like it to say;
`LetThroughTrusted` and `LetThroughApproved` are the gateway's rule. `AgentIdentity`
follows `getPublicKey` over the cache, the registry underneath, the statement and
the revocation check, while all of them change; `VerifyOne` is one turn of the loop
in `verifyAgentCard`.
`WebGuard` follows a call from candidate grants over verification, confirmation,
nonce, handler and receipt; `ToolPinning` a request from sweep over verdict to
forwarding.

### MCP, streams, logs

`McpChannel` has two lines of text between client and server, with inserted copies,
strangers' lines and junk. `McpGateway` has one program counter per line over the
stages and the audit event after each. `SignedStream` and `SignedSse` number an item
before its signature is ready, and a path drops, repeats, reorders and mixes. A text
is a sequence of symbols, the line break that joins the chunks among them.
`AuditLog` is `log()` in three steps, eviction, and the verification of edited
copies.

## 3. The runs

| Run | Instance | Shows |
|---|---|---|
| `transport_replay` | 2 calls, 3 keys, room for 2, 5 envelopes | no replay of a live acceptance but after an eviction; forgeries take up nothing; revocation is effective without the material cache |
| `transport_keys` | 2 calls, 2 slots, a material cache of 1 | the cache's bound, and how long material outlives its last use |
| `transport_revoked` | 1 call, material cache | **violated:** a revoked key is accepted from the cache |
| `gateway_admission` | parts `gateway` (2 calls, 4 requests of one sender, a store of 2), `dpop`, `stepup`, `attest`, `card`, `chain` | the quota holds for what passes; only a request that passed spends an approval; accepted proofs were made for the request and are not reused; untrusted input needs a human; keys are attested, cards signed; payments are as agreed |
| `gateway_single_use` | 2 calls, 10 requests, every kind of route | exactly when a credential can be taken twice |
| `gateway_replay` | 1 call | **violated:** a post-dated envelope is taken twice |
| `gateway_scheme` | 1 call | **violated:** a capability passes an HTTP-signature route |
| `identity` | parts `redis`, `edge`, `sdk`, `capability`, `http`, `threshold`, `revocation`, `keys` | fresh once per store under failures; what KV and Durable Objects keep; the SDKs agree; chains narrow; accepted requests were signed and are accepted once; rotations reach verifiers in time, and on which grounds a revoked key still passes |
| `authority` | parts `approval`, `bindings`, `guard`, `pinning`, `keylog`, `stream`, `sse`, `audit` | single use of grants and nonces; messages handed over once, what is signed as it was; pinned tools only; trusted history; whole streams; chains that verify |
| `exchange` | parts `mandate`, `limiter`, `mcp`, `line`, `heap` | ceiling and accounting; quota under floods; answers to the right call; trail and answer agree; the heap implements `ReplayCache`; everything settles |
| `mandate_leak` | 2 presentations | **violated:** an exception leaves the spend recorded |
| `threshold_minimum` | 3 participants, m = 2 | **violated:** one participant counts twice |

**Parts.** Components that share no state are checked in one run: variable `part`
says which of them a behaviour is about, the others stay as they are. `Stops`
lets the parts that come to an end (a bound on what they record) stutter; deadlock
is checked for the rest. A property of the form `A /\ B` has its parts defined and
commented above it; `PartsTypeOK` and `PartsConsistent` are the type invariants of
all parts together, with the agreement of structures that are kept twice.

**Bounds.** Clocks run long enough for a lifetime to start, to end and to be
outlived by one delayed call. A proof of `Dpop` has one issue time, a second ahead
of the clock at the start. A payment has one intent, two carts and one payment
document, and among the item lists one whose total is past the safe integers.
Capacities are one below what wants in, so eviction
and fail-closed refusal happen. Two concurrent calls suffice for races between one
call's check and another's update. The heap holds four items, where `bubbleDown`
has a choice of children. Redis has two hosts, two nodes, a key alone and twice in
a batch. A log has three entries (a key, its successor, its revocation), a chain
three tokens, a stream three chunks and a fourth frame, a pin set two pages. The
field of `ThresholdSigning` has seven elements and four shares; a share's index
wraps at 6 there, as it does at 256 in the code. KV has two
datacenters. Symmetry is over calls in the
transport and gateway runs, in `authority` over `Requests`, the concurrent calls of the
parts, and in `identity` over `Requests` and `Hosts`, where the calls run; the others
have none.

**Fairness.** Only in `exchange`. A presentation in progress takes its next step;
the MCP server serves a line it has, the client reads one it has and decodes what
it read; a JSON-RPC line in `handleLine` moves on. Each is a promise of the same
process that settles, or a line reader that runs while its process lives. Which
answer comes, and whether a fault happens, is open; no fault is ever required.
`EverythingSettles` is the result: `ReservationSettles`, `EveryCallEnds` and
`EveryLineAnswered` together.

### What the code does not promise

Five runs end in a counterexample; `PROJECT.json` quotes the lines they contradict.

1. `transport_revoked`: the material cache is asked before the resolver, and every
   envelope it serves prolongs its entry. `QuietPeriodFlushes` is the bound there is.
2. `gateway_replay`: the nonce is held for `ttlMs` from the check, and the envelope
   is valid until `timestampMs + ttlMs`, which a post-dated one moves into the
   future. `SecondUseNeedsEarlyFirst` is the exact condition.
3. `gateway_scheme`: the capability branch precedes the route's requirement.
4. `mandate_leak`: an exception between `reserve` and `release`.
   `OnlyThrowsStrand` says nothing else does this.
5. `threshold_minimum`: `m` partial signatures are counted, not `m` signers.

Narrower limits show in how the passing properties are stated.

*Replay and quotas.*
* `NoReplayBeforeExpiry` ends at `acceptedUntil <= clock`: at the very instant
  `timestampMs + ttlMs` an envelope is still fresh (`protocol.ts:427`) and no longer
  remembered (`protocolReplay.ts:111`). It speaks of `clock`, not of a call's
  `nowMs`: a duplicate that waits past the expiry is accepted with a `nowMs` before
  it. The webhook cache drops its entry at the exact expiry too.
* `WithinQuota` needs routes with one `windowMs`: senders have one list of instants
  for all routes (`rateLimiter.ts:43-56`). `QuotaSurvivesFlood` measures the stored
  window, not its live part, as the second eviction loop does (`rateLimiter.ts:81`).
* In KV two checks both find a nonce absent when they overlap, and also when the
  second is made, however late, in a datacenter the first one's put has not reached.
  Likewise requests are not counted against each other, and a window that is put or
  arrives replaces what others counted. A Durable Object has one alarm, which every
  check replaces.
* The envelope of a gRPC call signs the word `grpc-call` (`grpcBinding.ts:38`), that of
  an HTTP request in a header nothing of body, path and method (`httpBinding.ts:146`,
  `go/http.go:126`). The request beside it is handed over whatever it has become, also
  with the envelope of another request. `HandedOverOnce` promises no more there than
  that the envelope is as it was signed and was used once.
* A refused request has used up its envelope: the gateway takes the nonce before it
  checks algorithm, sender, rate limit and approval (`gateway.ts:566`). A queue
  message whose payload was damaged has used up its nonce as well. WebSocket
  messages are handed over in the order their verifications end.
* A DPoP proof of a client whose clock is a whole skew ahead can be accepted again in
  the last second of its life: times are compared in seconds, the jti is held in
  milliseconds (`ProofUsedOnce`).
* An HTTP signature with a lifetime above `maxAge` can be accepted twice when its
  client's clock is ahead. The Go HTTP binding checks only the end of the lifetime.

*Keys.*
* Until one cache lifetime has passed a revocation may not be seen; with
  `errorBehavior: 'allow'` and no entry, never while Redis fails. When the client throws, the
  entry the call found at its start is served however old it is (`revocation.ts:109`),
  with `'reject'` too: a node whose entry says "not revoked" says so until Redis
  answers again, although `docs/KEY_REVOCATION.md:53` has every client error treated as
  a revocation. A read in flight may overwrite the entry of the node's own `revoke()`,
  so even that node may (`revocation.ts:72-74` says known revocations keep being
  enforced). `RevocationTakesEffect` lists the four grounds and the limit of each.
* A new key is used before the verifiers' caches know it, and a negative answer is
  cached like any other. `RollingKeyring.revoke` marks only the first record of a
  (sender, keyId).
* Overlapping appends leave a key log that no longer verifies, although
  `keyLog.ts:160` says it always must; hence `SerialLogVerifies`. An honest
  operator that restarts can issue conflicting checkpoints.

*Authority.*
* With `**` in the middle of a parent's glob, `pathGlobIsSubset` does not compare
  what follows it (`capability.ts:166`, against `:147`); the instance has `**` last
  only. `maxDelegations` binds tokens made by the library, not hops signed by hand.
* A nonce of the WebMCP guard is kept per grant id; revoking a root grant does not
  stop a chain delegated from it; a handler, a `confirm` or a replay store that throws
  leaves no receipt.
* `invalidate()` during a sweep does not stop the sweep from recording its
  verdicts; a duplicate tool name is noticed within one page.
* With 256 shares or more two have the same one-byte index (`index.ts:330`).

*Delivery and logs.*
* `finalize()` while writes wait signs what is recorded so far, a prefix. Chunks
  are joined by line breaks and not escaped (`stream.ts:194-197`): a chunk that spells
  out the line of a second has the message of the two, and passes for them, although
  `stream.ts:192` says that the join keeps chunks from blending. `AcceptedIsWhole` is
  about the message; about the chunks only where no text has a line break.
  `SignedSseReader.feed` must not be called again before it returned.
* An audit sink that fails after a task ran turns its result into an error answer.
* Overlapping `log()` calls break the audit chain, an evicted first entry makes it
  unverifiable, and a cut end cannot be seen.
* The SDKs agree on a common domain only (`Common`): Go leaves out empty optional
  fields and escapes U+2028/2029, Python truncates fractions, a JSON text with both
  shapes is read as compact in TypeScript and as full in Python and Rust, Python and
  Rust skip the time checks without a `now`, the browser knows ED25519 only.

## 4. The proofs

TLAPS proves these for every value of the constants that satisfies the modules'
assumptions; no bound on the calls or the data is used.

**TransportProofs.** The invariant `IInv` adds to the type invariant: a call's
`nowMs` lies in the past; a call beyond the early checks carries an envelope that
passed them; what is held was accepted (`OnlyAcceptedHeld`); and `AcceptedHeld`, an
acceptance still live at `clock` is held with its expiry unless its key was evicted.
The last is why replay safety holds although calls prune with stale times: pruning
with a time in the past drops only what is expired now. `RevocationEffective` needs
its own invariant, `FreshMaterial`, and assumes there is no material cache;
`MaterialHorizon` is the bound that holds with one. `MaterialCacheSound` adds that
the cache keeps to its capacity, from what deleting and adding a key does to the
order of a Map (`WithoutOne`, `TailOne`, `AppendOne`).
*The heap* (`HeapCacheImplements`, `HeapInStep`): `CacheIInv` says that the cache
keeps to its capacity and that the heap `Mirrors` the Map: it is in order, no key
has two items, and its items are the Map's entries. Of `bubbleUp` the loop invariant is
`RisesIn`, of `bubbleDown` `SinksIn`: a heap but for the item that moves, whose
parent and children are in order with each other. A round keeps them, moves the
item on or leaves a heap (`RiseStep`, `SinkStep`), so as many rounds as there are
items make one (`RoundsReach`), out of the same items (`Swapped`). Hence the first item is of an
earliest entry of the Map (`FirstOut`), `prune` may stop where it does
(`PruneHeapPrunes`), `evictOne` takes that entry and never comes to its fallback
(`EvictTakesFirst`), and each step is one of `ReplayCache`.

**AuthorityProofs.** `GrantUsedOnce` needs `UsedRemembered`: a used grant stays in
the store until its expiry and the skew are past. A presentation that started while
the grant was valid checks the store at most `MaxDelay` later, so the theorem
assumes `MaxDelay <= Skew`. The skew's job here is to cover slow calls.
*Bindings* (`BindIInv`): a call in progress has what the checks behind it asked for
(`Running`); a call that passed the replay check, and whatever was handed over, has
its key held until the end of its hold, unless the cache gave the key up or that
time is over (`ClaimsKept`); and of two with one key, one passed the check when the
other's hold had ended, whether they were handed over or are still on their way
(`OneAtATime`). The last has to speak of calls in progress because a pipeline may
have checks behind the replay check. `PipelineFacts` says what the fourteen
pipelines share: those that are handed something beside the envelope leave it unread or compare
it (`Running` says what is left to find), and `CacheStep` that a check leaves a hold alone unless it is over
now or the key counts as dropped, although it prunes with an older instant.
*Events*: `ExpectsNext`: the reader's next number is the number of
messages it returned, all of one stream, the one it is bound to once it has
returned one. `FedWhileOpen`: an event is being verified only while the reader is
neither ended nor failed. An event that passes `Fits` then extends the prefix by one
or ends it. *Pinning* (`PinIInv`): no verdict is older than the last sweep and
none is of the future; the verdict a call is decided on was recorded since the call
began, or less than the maximum age before (`DecidedOnRecent`); the pins are those
approved for this server, where there are any, and what was shown is still pinned.
*Audit* (`AuditIInv`): the entries kept are the last ones
logged (`KeptAreLast`), and calls that did not overlap logged entries each of which
carries the hash of the one before it, none of them twice (`SerialChain`). That
whatever verifies is a beginning of it is shown by the least position where a copy
differs.
*Streams* (`StreamIInv`): a reader whose final frame verifies has chunks of the content
message `finalize()` signed, for any texts. That these are the chunks is a lemma under the
condition that no text has a line break (`SameMessage`): then a chunk is one line, which
its index and text can be read from, and the last line of a message can be told from
what stands before it (`LinesOnce`). With a line break it is false of the code. What
the writer sealed is in order because the reader only takes 0, 1, 2, ...; a writer
whose calls do not overlap sends what it wrote as it wrote it (`SentAsWritten`), so a
frame the reader refuses is not the next one (`FedIsGot`).

**ListProofs.** `filter` is `Picked(s, at)`: the elements of `s` at the positions `at`,
by rank. `PickedPlaces` gives the increasing bijection between the positions of the
result and `at`, by induction over sets of numbers; from it come the lemmas on the
count of elements that meet a condition (`CountIn`), kept by filtering and increased
by appending.

**GatewayProofs.** `SingleUseWindow` rests on two facts: the store holds a taken
credential until its last use plus the hold, or that time has passed (it drops only
what has expired, even when it is full); and a call about to take a credential
found it fresh no longer than `MaxDelay` ago. `RefusedKeepsApproval` needs that
credentials and approvals never share a key. Both, like `GrantUsedOnce`, start from
a lemma on what one `check()` does to each key.
*Rate limiter*: `QuotaHolds` counts by thresholds. For every instant from one window
before now on, a sender's list has at least as many instants after it as requests
were admitted after it (`Counted`); an admission adds one to both, `filter` and the
Map's eviction drop only what lies before. It assumes routes that agree on
`windowMs`, because the property is false of the code otherwise: a route with a
shorter window erases instants from the sender's one list that the others still
count. `TrackingBounded` needs that the Map's order has each tracked sender once and
exactly those with a window (`LimiterShape`), through all three eviction loops;
`FloodKeepsQuota`, that the third loop is reached only when the second has taken
every sender with room (`SparesFull`), and takes limits that let something through.
*Quota at the gateway*: `PassedWithinQuota`. A request is counted before its approval
and passes after it, so the windows it passes in are shifted by its wait. `Covered`:
what passed since an instant, and what waits for approval and can still pass, is no
more than the list has from `MaxDelay` before it on. It is stated for one rate
limit and a Map with room for every sender: an evicted sender starts afresh, and the
flood theorem says when.

**AdmissionProofs.** *DPoP* (`DpopIInv`): clients make one proof for a jti; a call in
progress has such a proof, found it in time when it began and has not waited longer
than a call may; and the jti of an accepted proof is held for age and both skews
from its acceptance (`UsesHeld`). The arithmetic of seconds and ticks is in
`LastTick` and `LateUse`, and gives the one second that is left open.
*Step-up* (`StepIInv`): untrusted input leaves a mark in the agent's context whatever
is added after it (`TaintShows`, with `RecordedMarks` for a context that is full), so
a claim that says trusted, and whose sources say the same, was signed free of it.
*Attestation* (`AttestIInv`): what a lookup in progress knows was true when it read
it (`LookupSound`), and a cache entry ends with the first of its statement, its
lifetime and, counted from the withdrawal, one cache lifetime (`EntrySound`).
*Cards* (`CardIInv`): the loop so far has found a good signature for each key it
counts, and without a failure every signature behind it is good (`LoopSound`).

**ExchangeProofs.** *Payments*. `Ownership`: a presentation between reservation and
outcome is the only one with its payment id, which is in the ledger and uncharged. Hence
`release`, which deletes by id, can only delete the caller's own reservation, and
with `ChargedStays` a charged id is never reserved again. `PaymentsAccountedFor`
puts the three results together. `CeilingRespected` is about a sum over the ledger:
`FoldExists` and `SumTakesOut` establish, by induction on the number of elements,
that a sum over a finite set exists and loses exactly the term that is taken out.
Induction is over a set of numbers closed under successor (`Induction`), so that no
operator has to be a parameter. `PaymentsAsAgreed` uses the same for the total of a
cart (`TotalIsPrice`: the total the code recomputes is the price, unless it passed
the safe integers); its invariant says documents in circulation carry their
authors' signatures, and a payment's digest is of the cart its agent saw.
*MCP gateway* (`GwIInv`): the trail of a line on its way is exactly the first events
of a line that is let through, as many as its stage says, and a line that ended has
one of the few trails a line can end with (`LineSound`); a token was spent for every
line whose task ran or is about to (`TokensCounted`), so tasks stay within the quota.
*MCP channel* (`McpIInv`): the handler ran for a request exactly if its server has
seen it (`RanWhenSeen`), what travels or waits as an answer was made by a run
(`AnswersRan`), the stdio client's queue holds only calls that have none
(`QueueUnanswered`), and a call that returned had the reply to it (`EndedOnALine`).

**IdentityProofs.** *Revocation*: `RevocationTakesEffect` is not inductive: a read
that began before the revocation may still write "not revoked". The strengthening
says that reads, the revocation and the answer lie in the past (`PastReads`,
`PastRevocation`, `PastAnswer`), that an entry, also one a read carries, is fresh for
at most `CacheTtl` from now (`FreshBriefly`, `FoundBriefly`), and that while Redis has the
revocation, an entry that says "not revoked" ends within `CacheTtl` of it, whether a
node has it or a read will serve it, and a reply that says so is to a read begun by
then (`OldEntries`).
*Lookups* (`CachesIInv`): a copy of the key document is kept for `CacheMs` from when it was read, an answer made from it for `TtlMs`
more, and for no longer than `TtlMs` from the withdrawal of its key, because a
lookup in progress began before that (`LookupsInProgress`). `RotationHolds` needs
that a key only gets its end when a rotation begins. *Redis* (`RedisIInv`): a node
whose entry for a key is missing or too short has given the key to nobody, and while
the envelope is valid it gave it to one call, which has answered or has yet to
(`GivenOnce`). *HTTP signatures* (`HsIInv`): a signature stays over what its client
signed whatever the path does to the request (`SigsGenuine`), a client names its
agent in a field it covers, and an accepted nonce is held until its signature
expires unless that lives longer than the maximum age (`NoncesHeld`).
*SDKs* (`SdkIInv`): every SDK's canonical form determines what it says of an envelope
(`TellsOf`, `CanonicalTells`), so what a verifier reads of a text is what was signed;
on the common domain the forms of all SDKs coincide, and so do their verdicts
(`CommonCanonical`, `CommonVerdict`).
*Cloudflare stores* (`EdgeIInv`): an entry lasts as long as the nonce is taken, in each
datacenter's copy as far as its put has arrived there
(`NoncesKept`), at most one worker is between its get and its put unless requests
raced (`OneAtWork`), and the list of instants has, from the longest lag before an
instant on, as many as were let through since (`StampsCover`). That is the quota by
thresholds again, with two clocks.
*Key log* (`LogIInv`): the difficulty is that overlapping appends leave a log that
does not verify, yet a checkpoint taken of it must not be satisfied by another history. A
head `Commits` to a log when no other log of that length verifies with that head.
`Committed` says so of the operator's head and of the trusted checkpoint. It is kept
because the `prevHash` of an entry underway commits to the log it was built on
(`UnderwayCommits`), and an entry pushed to another place than its index commits to
whatever it is pushed to, for nothing verifies with it there (`CommitsLate`). `Serial` holds what
is known besides while nothing overlaps. What the registry resolves follows from an
induction over the entries that verified (`KeysUpTo`), and is of a log that continues the
checkpoint's (`CheckpointTells`).
*Threshold signatures* (`SignedIInv`): an envelope's sum stays that of the first m
partial signatures received while its text and names change, and what was accepted
verifies as it is.

**GrantProofs.** *WebMCP guard*. `RunsRemembered`: a run under a grant has its nonce in the
store until the grant expires; `RunningOnce`: of the calls whose handler is running
no two have the same grant and nonce, and none repeats a run. Together with the
step that looks for the nonce and records it in one piece of synchronous code they
give `NonceUsedOnce`, and `RefusalSpendsNothing` by the converse. `Authorised` adds
`RanWithinGrant`: from the verification on a call knows a grant that was not revoked
when it was made and whose chain covers its amount (`GrantSound`), and the least
ceiling of a chain, which the code compares with, is there to be found (`WithinChain`).
*Receipts* (`ReceiptsInv`): calls in progress have ids of their own, and those that
ended left a receipt that says what they did (`EveryCallTold`); a receipt in the
making follows the last one until another call moves the tip (`OneReceipt`).
*Capabilities* (`CapIInv`): a token names a parent signed before it, and one that
`delegateCapabilityToken` signed follows its parent with one delegation less to give
(`TokenSound`). `NarrowerMatches` is the soundness of `pathGlobIsSubset`: from a way
the child's pattern matches a path it makes one for the parent's. It needs `**` to
be the last segment of a pattern (`StarsLast`, a hypothesis of `DelegationHolds`
that every pattern in the repository's tests and docs meets and the code does not
enforce): the comparison ends at the first `**`, see section 3. `FromRoot` and `FromEnd` carry a
fact along a chain of any length; they rest, as `WithinChain` does, on the least
number of a set.

**Only model-checked.** Liveness under fairness, which the prover does not do.
That m shares rebuild a key (`AnySharesRebuild`): it rests on Lagrange's formula and
on `FIELD_ORDER` being prime. `PartsConsistent` and `PartsTypeOK` as a whole: each
joins facts of components that share nothing. Of their parts, `HeapMatchesEntries`,
`HeapOrdered`, `WithinCapacity`, `BoundedTracking`, `BurnedOnlyByUse`, `UsedRemembered` and
`SerialLogVerifies` are proved where their component is.

## 5. What is not modelled

* Byte encodings (CBOR, binary), hashing, encryption, key formats, post-quantum
  signatures: functions of their arguments without state.
* The prompt-injection guard: what it finds is a matter of its patterns.
* Policy enforcer, metrics, telemetry: they decide nothing, or from one envelope.
  Their awaits in `receiveEnvelope` add interleaving only between steps that touch
  no shared state.
* The batch worker pool of the transport: its calls are concurrent calls of
  `Transport`; what is left is the order of an array of results.
* Of the SDKs: key managers, replay caches and agents in Python, Go and Rust.
* The Cloudflare worker, which builds a gateway per request; command line, MCP
  server, demos, benchmarks, installers.

## 6. Plan

Done: the components of section 2. Left, in this order:

1. A proof of `AnySharesRebuild`, from Lagrange's formula over a prime field.
2. A composition of `Revocation` with `Transport`: one bound from `revoke()` to the
   last acceptance through both caches.
3. Lookups that overlap with appends in `KeyLog`, on a log of more than three.
4. The replay caches of the Python, Go and Rust SDKs against `ReplayCache`.
