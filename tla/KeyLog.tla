------------------------------- MODULE KeyLog -------------------------------
(***************************************************************************)
(* The signed key log: the operator's KeyLog class with register(),        *)
(* rotate(), revoke() and checkpoint() calls in progress together, the     *)
(* verification of a published log, and a createKeyLogRegistry() that      *)
(* resolves keys from it, with a checkpoint it trusts or without.          *)
(* An entry's hash is <<entry>>: SHA-256 over the whole signed entry.      *)
(***************************************************************************)
EXTENDS Integers, SequencesExt

CONSTANTS Calls,           \* what is appended: [type, subject, keyId, publicKey]
          NoKey,           \* the publicKey field left out
          Appends,         \* append() calls in progress at once
          RefreshMs,       \* refreshMs of the registry
          MaxLog,          \* bound on the entries built and not refused
          MaxLogTime,      \* bound on the clock
          MaxRestarts      \* bound on restarts of the operator

ASSUME KeyLogAssumption ==
  /\ RefreshMs \in Nat /\ MaxLog \in Nat /\ MaxLogTime \in Nat /\ MaxRestarts \in Nat
  /\ \A k \in Calls :
       /\ k.type \in {"register", "rotate", "revoke"}
       /\ k.type = "revoke" <=> k.publicKey = NoKey

VARIABLES logTime,
          log, head,       \* the operator's entries and chain head
          keyRules,        \* its KeyLogState
          append,          \* the append() calls
          overlapped,      \* two calls ran at once, or a checkpoint ran in a call
          trusted,         \* the checkpoint the registry holds, with the log it was taken of
          loading,         \* the registry's load() in progress
          resolvedFrom,    \* the registry's cache: what it resolved, when, from which log
          built, restarts  \* the entries not refused and the restarts so far

klVars == <<logTime, log, head, keyRules, append, overlapped, trusted,
            loading, resolvedFrom, built, restarts>>

GenesisHash == <<>>
EntryHash(e) == <<e>>

-----------------------------------------------------------------------------
(* KeyLogState.  keys holds every (subject, keyId, publicKey) registered,  *)
(* active the current ones, revokedIds the revoked (subject, keyId).       *)
NoKeys == [keys |-> {}, active |-> {}, revokedIds |-> {}]

KeysOf(ks, s) == {k \in ks.keys : k.subject = s}
ActiveOf(ks, s) == {k \in ks.active : k.subject = s}
RevokedPublicKeys(ks) ==
  {k.publicKey : k \in {x \in ks.keys : <<x.subject, x.keyId>> \in ks.revokedIds}}

(* apply(): the entry breaks a rule. *)
Breaks(ks, e) ==
  IF e.type = "revoke"
  THEN \/ e.publicKey # NoKey
       \/ ~\E k \in KeysOf(ks, e.subject) : k.keyId = e.keyId
       \/ <<e.subject, e.keyId>> \in ks.revokedIds
  ELSE \/ e.publicKey = NoKey
       \/ (e.type = "rotate") # (ActiveOf(ks, e.subject) # {})
       \/ \E k \in KeysOf(ks, e.subject) : k.keyId = e.keyId
       \/ e.publicKey \in RevokedPublicKeys(ks)
       \/ \E k \in ks.keys : k.publicKey = e.publicKey

(* apply(): the state after an entry that breaks none. *)
Applied(ks, e) ==
  IF e.type = "revoke"
  THEN [ks EXCEPT !.revokedIds = @ \cup {<<e.subject, e.keyId>>},
                  !.active = {k \in @ : ~(k.subject = e.subject /\ k.keyId = e.keyId)}]
  ELSE LET key == [subject |-> e.subject, keyId |-> e.keyId, publicKey |-> e.publicKey]
       IN  [ks EXCEPT !.keys = @ \cup {key},
                      !.active = {k \in @ : k.subject # e.subject} \cup {key}]

(* verifyKeyLog(): index, chain, signature, time and rules, entry by entry. *)
VerifyStep(v, e) ==
  [ok   |-> /\ v.ok /\ e.index = v.size /\ e.prevHash = v.head
            /\ e.at >= v.last /\ ~Breaks(v.ks, e),
   size |-> v.size + 1, head |-> EntryHash(e), last |-> e.at, ks |-> Applied(v.ks, e)]

NothingVerified ==
  [ok |-> TRUE, size |-> 0, head |-> GenesisHash, last |-> 0, ks |-> NoKeys]

VerifyKeyLog(entries) ==
  LET upTo[n \in 0 .. Len(entries)] ==
        IF n = 0 THEN NothingVerified ELSE VerifyStep(upTo[n - 1], entries[n])
  IN  upTo[Len(entries)]

(* Fault: only the size of the history is compared. *)
ExtendsBySize(cp, entries) == Len(entries) >= cp.size

(* logExtendsCheckpoint(): the log still begins with what cp committed to. *)
ExtendsCheckpoint(cp, entries) ==
  /\ Len(entries) >= cp.size
  /\ LET v == VerifyKeyLog(SubSeq(entries, 1, cp.size)) IN v.ok /\ v.head = cp.headHash

(* resolveKeyLog(): the active keys a log ends with. *)
ResolveStep(active, e) ==
  IF e.type = "revoke" THEN {k \in active : ~(k.subject = e.subject /\ k.keyId = e.keyId)}
  ELSE {k \in active : k.subject # e.subject}
         \cup {[subject |-> e.subject, keyId |-> e.keyId, publicKey |-> e.publicKey]}

ResolveKeyLog(entries) ==
  LET upTo[n \in 0 .. Len(entries)] ==
        IF n = 0 THEN {} ELSE ResolveStep(upTo[n - 1], entries[n])
  IN  upTo[Len(entries)]

-----------------------------------------------------------------------------
NoAppend == [at |-> "idle", entry |-> <<>>]
NoCheckpoint == [size |-> 0, headHash |-> GenesisHash, of |-> <<>>]
NoLoad == [at |-> "idle", since |-> 0, entries |-> <<>>]
NothingResolved == [known |-> FALSE, ok |-> FALSE, keys |-> {}, since |-> 0,
                    entries |-> <<>>]

KeyLogInit ==
  /\ logTime = 0 /\ log = <<>> /\ head = GenesisHash /\ keyRules = NoKeys
  /\ append = [a \in Appends |-> NoAppend]
  /\ overlapped = FALSE /\ trusted = NoCheckpoint
  /\ loading = NoLoad /\ resolvedFrom = NothingResolved /\ built = 0 /\ restarts = 0

Busy == \E a \in Appends : append[a].at # "idle"
LastTime == IF log = <<>> THEN 0 ELSE Last(log).at

(* append() up to its first await: the entry takes its position, its       *)
(* predecessor and its time, and is sent to be signed.                     *)
BeginAppend(a, k) ==
  /\ append[a].at = "idle" /\ built < MaxLog
  /\ append' = [append EXCEPT ![a] =
       [at |-> "signing",
        entry |-> <<[index |-> Len(log), type |-> k.type, subject |-> k.subject,
                     keyId |-> k.keyId, publicKey |-> k.publicKey, prevHash |-> head,
                     at |-> Max({logTime, LastTime})]>>]]
  /\ built' = built + 1 /\ overlapped' = (overlapped \/ Busy)
  /\ UNCHANGED <<logTime, log, head, keyRules, trusted, loading, resolvedFrom, restarts>>

(* The signature is there: an entry that breaks a rule is refused, any     *)
(* other is pushed and its hash is computed.                               *)
SignedEntry(a) ==
  /\ append[a].at = "signing"
  /\ LET e == append[a].entry[1] IN
       IF Breaks(keyRules, e)
       THEN /\ append' = [append EXCEPT ![a] = NoAppend] /\ built' = built - 1
            /\ UNCHANGED <<log, keyRules>>
       ELSE /\ keyRules' = Applied(keyRules, e)
            /\ log' = Append(log, e)
            /\ append' = [append EXCEPT ![a].at = "hashing"] /\ UNCHANGED built
  /\ UNCHANGED <<logTime, head, overlapped, trusted, loading, resolvedFrom, restarts>>

(* The hash is there: it is the new head, and append() returns. *)
HashedEntry(a) ==
  /\ append[a].at = "hashing"
  /\ head' = EntryHash(append[a].entry[1])
  /\ append' = [append EXCEPT ![a] = NoAppend]
  /\ UNCHANGED <<logTime, log, keyRules, overlapped, trusted, loading, resolvedFrom, built,
                 restarts>>

(* checkpoint(): the size and the head as they stand are signed, and the   *)
(* registry is given the checkpoint to trust.                              *)
TakeCheckpoint ==
  /\ trusted' = [size |-> Len(log), headHash |-> head, of |-> log]
  /\ overlapped' = (overlapped \/ Busy)
  /\ UNCHANGED <<logTime, log, head, keyRules, append, loading, resolvedFrom, built,
                 restarts>>

(* load() of the registry: a cache that is not fresh is loaded again.  The *)
(* entries are the published ones at some later moment.                    *)
BeginLoad ==
  /\ loading.at = "idle"
  /\ ~(resolvedFrom.known /\ logTime - resolvedFrom.since < RefreshMs)
  /\ loading' = [at |-> "fetching", since |-> logTime, entries |-> <<>>]
  /\ UNCHANGED <<logTime, log, head, keyRules, append, overlapped, trusted, resolvedFrom,
                 built, restarts>>

Fetched ==
  /\ loading.at = "fetching"
  /\ loading' = [loading EXCEPT !.at = "verifying", !.entries = log]
  /\ UNCHANGED <<logTime, log, head, keyRules, append, overlapped, trusted, resolvedFrom,
                 built, restarts>>

(* Verified: only a log that verifies and extends the trusted checkpoint   *)
(* yields keys, and the outcome is cached from the start of the load.      *)
Loaded(ok) ==
  /\ resolvedFrom' = [known |-> TRUE, ok |-> ok, since |-> loading.since,
                      entries |-> IF ok THEN loading.entries ELSE <<>>,
                      keys |-> IF ok THEN ResolveKeyLog(loading.entries) ELSE {}]
  /\ loading' = NoLoad
  /\ UNCHANGED <<logTime, log, head, keyRules, append, overlapped, trusted, built,
                 restarts>>

LoadDone ==
  /\ loading.at = "verifying"
  /\ Loaded(VerifyKeyLog(loading.entries).ok
            /\ (trusted = NoCheckpoint \/ ExtendsCheckpoint(trusted, loading.entries)))

LoadFails == loading.at = "fetching" /\ Loaded(FALSE)

(* The operator restarts: KeyLog begins empty and knows nothing.  The      *)
(* calls that were in progress are gone.                                   *)
RestartOperator ==
  /\ restarts < MaxRestarts
  /\ restarts' = restarts + 1
  /\ log' = <<>> /\ head' = GenesisHash /\ keyRules' = NoKeys
  /\ append' = [a \in Appends |-> NoAppend]
  /\ UNCHANGED <<logTime, overlapped, trusted, loading, resolvedFrom, built>>

LogLater ==
  /\ logTime < MaxLogTime
  /\ logTime' = logTime + 1
  /\ UNCHANGED <<log, head, keyRules, append, overlapped, trusted, loading, resolvedFrom,
                 built, restarts>>

KeyLogNext ==
  \/ \E a \in Appends, k \in Calls : BeginAppend(a, k)
  \/ \E a \in Appends : SignedEntry(a) \/ HashedEntry(a)
  \/ TakeCheckpoint
  \/ BeginLoad \/ Fetched \/ LoadDone \/ LoadFails
  \/ RestartOperator \/ LogLater

KeyLogSpec == KeyLogInit /\ [][KeyLogNext]_klVars

-----------------------------------------------------------------------------
KeyLogEntry(e) ==
  /\ e.index \in 0 .. MaxLog - 1 /\ e.at \in 0 .. MaxLogTime
  /\ [type |-> e.type, subject |-> e.subject, keyId |-> e.keyId,
      publicKey |-> e.publicKey] \in Calls

KeyLogTypeOK ==
  /\ logTime \in 0 .. MaxLogTime /\ restarts \in 0 .. MaxRestarts
  /\ \A i \in DOMAIN log : KeyLogEntry(log[i])
  /\ \A a \in Appends : /\ append[a].at \in {"idle", "signing", "hashing"}
                        /\ append[a].at # "idle" => KeyLogEntry(append[a].entry[1])
  /\ keyRules.active \subseteq keyRules.keys
  /\ overlapped \in BOOLEAN
  /\ loading.at \in {"idle", "fetching", "verifying"}
  /\ resolvedFrom.ok \in BOOLEAN

(* keyLog.ts:157: as long as no two calls overlap, what the operator has   *)
(* written verifies, between any two steps of an append too, and a         *)
(* checkpoint commits to the log it was taken of.                          *)
SerialLogVerifies ==
  ~overlapped =>
    /\ VerifyKeyLog(log).ok
    /\ ~Busy => VerifyKeyLog(log).head = head
    /\ ExtendsCheckpoint(trusted, trusted.of)

(* keyLog.ts:27: in a log that verifies a public key is registered once:   *)
(* no later entry, of any subject, brings a revoked key back, and the keys *)
(* resolved from the log are unrevoked, one per subject.                   *)
RevokedStaysRevoked ==
  resolvedFrom.ok =>
    LET es == resolvedFrom.entries IN
    /\ \A k \in resolvedFrom.keys :
         /\ ~\E i \in DOMAIN es : /\ es[i].type = "revoke"
                                 /\ es[i].subject = k.subject /\ es[i].keyId = k.keyId
         /\ \A l \in resolvedFrom.keys :
              k.subject = l.subject \/ k.publicKey = l.publicKey => k = l
    /\ \A i, j \in DOMAIN es :
         es[i].publicKey # NoKey /\ es[i].publicKey = es[j].publicKey => i = j

(* keyLog.ts:354: the registry never resolves keys from a log that drops   *)
(* or changes the history its trusted checkpoint was taken of.             *)
CheckpointPins ==
  resolvedFrom'.ok => IsPrefix(trusted.of, resolvedFrom'.entries)

(* keyLog.ts:354: however appends, restarts and refreshes interleave, what *)
(* the registry resolves are unrevoked keys from a continuation of the     *)
(* history it trusts.                                                      *)
ResolvesTrustedKeys ==
  [][resolvedFrom' # resolvedFrom => RevokedStaysRevoked' /\ CheckpointPins]_klVars
=============================================================================
