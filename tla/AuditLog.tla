------------------------------ MODULE AuditLog ------------------------------
(***************************************************************************)
(* InMemoryAuditLog: log() calls in progress together, the bound on the    *)
(* entries kept, and verifyAuditChain() of a copy someone may have edited. *)
(* An entry's hash is <<entry>>: SHA-256 over the whole signed entry.      *)
(***************************************************************************)
EXTENDS Integers, SequencesExt

CONSTANTS Loggers,        \* log() calls in progress at once
          AuditEvents,    \* what is logged
          MaxAuditEntries, \* maxEntries
          MaxLogged       \* bound on the log() calls

ASSUME AuditAssumption == MaxAuditEntries \in Nat \ {0} /\ MaxLogged \in Nat

VARIABLES auditEntries, tip,
          logging,        \* the log() calls in progress
          everLogged,     \* every entry pushed, in order
          crossed,        \* two log() calls ran at once
          audited         \* the last copy verified and the outcome

auditVars == <<auditEntries, tip, logging, everLogged, crossed, audited>>

AuditGenesis == <<>>
AuditEntryHash(e) == <<e>>
NoLogging == [at |-> "idle", entry |-> <<>>]

AuditInit ==
  /\ auditEntries = <<>> /\ tip = AuditGenesis /\ everLogged = <<>>
  /\ logging = [l \in Loggers |-> NoLogging]
  /\ crossed = FALSE /\ audited = [copy |-> <<>>, ok |-> TRUE]

(* Fault: every entry's signature is checked, not the links. *)
VerifySignaturesOnly(copy) == TRUE

(* verifyAuditChain(): every entry's signature is good, an edited copy of  *)
(* one being no entry at all, so what is left to check are the links.      *)
VerifyAuditChain(copy) ==
  \A i \in DOMAIN copy :
    copy[i].prevHash = IF i = 1 THEN AuditGenesis ELSE AuditEntryHash(copy[i - 1])

-----------------------------------------------------------------------------
(* log() up to the signature: the entry takes the tip as it is. *)
BeginLog(l, event) ==
  /\ logging[l].at = "idle"
  /\ Len(everLogged) + Cardinality({m \in Loggers : logging[m].at = "signing"}) < MaxLogged
  /\ logging' = [logging EXCEPT ![l] =
       [at |-> "signing", entry |-> <<[event |-> event, prevHash |-> tip]>>]]
  /\ crossed' = (crossed \/ \E m \in Loggers : logging[m].at # "idle")
  /\ UNCHANGED <<auditEntries, tip, everLogged, audited>>

(* The signature is there: at the limit the oldest entry makes room, and   *)
(* the entry is pushed.                                                    *)
SignedLog(l) ==
  /\ logging[l].at = "signing"
  /\ LET e == logging[l].entry[1] IN
       /\ auditEntries' = IF Len(auditEntries) >= MaxAuditEntries
                          THEN Append(Tail(auditEntries), e)
                          ELSE Append(auditEntries, e)
       /\ everLogged' = Append(everLogged, e)
  /\ logging' = [logging EXCEPT ![l].at = "hashing"]
  /\ UNCHANGED <<tip, crossed, audited>>

HashedLog(l) ==
  /\ logging[l].at = "hashing"
  /\ tip' = AuditEntryHash(logging[l].entry[1])
  /\ logging' = [logging EXCEPT ![l] = NoLogging]
  /\ UNCHANGED <<auditEntries, everLogged, crossed, audited>>

(* A copy is verified: what query() returned, or that with one entry       *)
(* removed or two exchanged.                                               *)
Copies ==
  {auditEntries}
  \cup {RemoveAt(auditEntries, i) : i \in DOMAIN auditEntries}
  \cup {[auditEntries EXCEPT ![i] = auditEntries[j], ![j] = auditEntries[i]] :
          i, j \in DOMAIN auditEntries}

Audit(copy) ==
  /\ audited' = [copy |-> copy, ok |-> VerifyAuditChain(copy)]
  /\ UNCHANGED <<auditEntries, tip, logging, everLogged, crossed>>

AuditNext ==
  \/ \E l \in Loggers, v \in AuditEvents : BeginLog(l, v)
  \/ \E l \in Loggers : SignedLog(l) \/ HashedLog(l)
  \/ \E copy \in Copies : Audit(copy)

AuditSpec == AuditInit /\ [][AuditNext]_auditVars

-----------------------------------------------------------------------------
AuditTypeOK ==
  /\ Len(auditEntries) <= MaxAuditEntries /\ Len(everLogged) <= MaxLogged
  /\ \A i \in DOMAIN everLogged : everLogged[i].event \in AuditEvents
  /\ \A l \in Loggers : logging[l].at \in {"idle", "signing", "hashing"}
  /\ crossed \in BOOLEAN /\ audited.ok \in BOOLEAN

(* auditLog.ts:104: calls that follow one another leave a chain that       *)
(* verifies until the limit drops its first entry; after that no copy of   *)
(* the whole log does.                                                     *)
SerialAuditVerifies ==
  ~crossed => /\ VerifyAuditChain(everLogged)
              /\ Len(everLogged) > MaxAuditEntries => ~VerifyAuditChain(auditEntries)

(* auditLog.ts:187: a copy that verifies is the beginning of what serial   *)
(* calls logged: no entry was removed before its last one, and none moved. *)
TamperEvident == ~crossed /\ audited.ok => IsPrefix(audited.copy, everLogged)

(* auditLog.ts:187: the chain of serial calls verifies until it is cut at  *)
(* the limit, and a copy that verifies is a beginning of it.               *)
AuditChainHolds == SerialAuditVerifies /\ TamperEvident
=============================================================================
