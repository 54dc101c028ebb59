---------------------------- MODULE MCAuthority -----------------------------
(* Approvals, the queue, WebSocket, webhook and gRPC bindings, the WebMCP  *)
(* guard, tool pinning, the key log, signed streams and the audit log      *)
(* share nothing; a behaviour is about one of them.                        *)
EXTENDS Approval, Bindings, WebGuard, ToolPinning, KeyLog, SignedStream, SignedSse,
            AuditLog, TLC

CONSTANTS g1, g2, pay, read

VARIABLE part      \* the part of the system this behaviour is about

(* Two grants, a forged copy of the first, two actions; the store has room *)
(* for one grant, so that it also fails closed.                            *)
Grant(id, a, from, to, permitted, genuine) ==
  [id |-> id, action |-> a, issuedAt |-> from, expiresAt |-> to,
   permitted |-> permitted, genuine |-> genuine]

MCGrants ==
  {Grant(g1, pay, 0, 2, TRUE, TRUE),
   Grant(g1, pay, 0, 3, TRUE, FALSE),
   Grant(g2, read, 1, 4, TRUE, TRUE),
   Grant(g2, read, 1, 4, FALSE, FALSE)}

(* The second message is dated ahead. *)
MCStamp == g1 :> 0 @@ g2 :> 2
MCLifetime == g1 :> 1 @@ g2 :> 1

(* A capability and one delegated from it that claims a higher ceiling. *)
MCWebGrants == {"root", "leaf"}
MCChain == [root |-> <<"root">>, leaf |-> <<"root", "leaf">>]
MCExpiry == [root |-> 2, leaf |-> 1]
MCCap == [root |-> 1, leaf |-> 2]
MCCovers == [x \in MCWebGrants |-> TRUE]
Input(tool, bearer, amount, nonce) ==
  [tool |-> tool, bearer |-> bearer, amount |-> amount, nonce |-> nonce]
MCInputs ==
  {Input("guarded", {}, 1, "n1"), Input("guarded", {"leaf"}, 2, ""),
   Input("guarded", {"leaf"}, 1, "n1"), Input("public", {}, 0, "n1"),
   Input("unknown", {}, 0, "")}

(* One pinned tool and one that is not, on two pages; another server has   *)
(* pins of its own.                                                        *)
MCNames == {"a", "b"}
MCPage == [a |-> 1, b |-> 2]
MCApproved == [here |-> [a |-> "v1", b |-> "absent"], there |-> [a |-> "v2", b |-> "v1"]]

(* A key, its successor and its revocation. *)
Call(type, id, pk) == [type |-> type, subject |-> "s1", keyId |-> id, publicKey |-> pk]
MCCalls ==
  {Call("register", "k1", "p1"), Call("rotate", "k2", "p2"), Call("revoke", "k1", NoKey)}

(* What another stream of the same signer left on the wire. *)
Letter == -3
(* The second text is a letter and then, on a new line, "1:" and a letter. *)
MCTexts == {<<Letter>>, <<Letter, LineBreak, 1, Colon, Letter>>}
MCOther == {Chunk(0, <<Letter, LineBreak, 1, Colon, Letter>>), Chunk(1, <<Letter>>),
            Final(2, Message(<<Chunk(0, <<Letter, LineBreak, 1, Colon, Letter>>),
                               Chunk(1, <<Letter>>)>>))}
MCOtherEvents ==
  {Event(Other, 0, "message", 0), Event(Other, 1, "end", 1), Event(Other, 0, "end", 2)}

mcVars == <<part, vars, bindVars, guardVars, pinVars, klVars, streamVars, sseVars,
            auditVars>>

MCInit ==
  /\ part \in {"approval", "bindings", "guard", "pinning", "keylog", "stream", "sse",
            "audit"}
  /\ Init
  /\ BindingsInit
  /\ GuardInit
  /\ PinInit
  /\ KeyLogInit
  /\ StreamInit
  /\ SseInit
  /\ AuditInit
  /\ part # "bindings" => binding = CHOOSE b \in Pipelines : TRUE
  /\ part # "pinning" => served = [n \in Names |-> "v1"]
  /\ served["b"] # "v2"

(* Parts that come to an end: a bound is reached or nothing is left to do. *)
Stops == part \in {"bindings", "guard", "pinning", "keylog", "stream", "sse",
            "audit"} /\ UNCHANGED mcVars

MCNext ==
  \/ /\ part = "approval" /\ Next
     /\ UNCHANGED <<part, bindVars, guardVars, pinVars, klVars, streamVars, sseVars,
            auditVars>>
  \/ /\ part = "bindings" /\ BindingsNext
     /\ UNCHANGED <<part, vars, guardVars, pinVars, klVars, streamVars, sseVars,
            auditVars>>
  \/ /\ part = "guard" /\ GuardNext
     /\ UNCHANGED <<part, vars, bindVars, pinVars, klVars, streamVars, sseVars,
            auditVars>>
  \/ /\ part = "pinning" /\ PinNext
     /\ UNCHANGED <<part, vars, bindVars, guardVars, klVars, streamVars, sseVars,
            auditVars>>
  \/ /\ part = "keylog" /\ KeyLogNext
     /\ UNCHANGED <<part, vars, bindVars, guardVars, pinVars, streamVars, sseVars,
            auditVars>>
  \/ /\ part = "stream" /\ StreamNext
     /\ UNCHANGED <<part, vars, bindVars, guardVars, pinVars, klVars, sseVars, auditVars>>
  \/ /\ part = "sse" /\ SseNext
     /\ UNCHANGED <<part, vars, bindVars, guardVars, pinVars, klVars, streamVars,
            auditVars>>
  \/ /\ part = "audit" /\ AuditNext
     /\ UNCHANGED <<part, vars, bindVars, guardVars, pinVars, klVars, streamVars,
            sseVars>>
  \/ Stops

MCSpec == MCInit /\ [][MCNext]_mcVars

(* The variables of every part have their types, the approval store holds  *)
(* exactly the grants that were used, as long as one could be presented,   *)
(* and a key log written by serial appends agrees with its head and its    *)
(* checkpoint.                                                             *)
PartsConsistent ==
  /\ TypeOK /\ BindingsTypeOK /\ GuardTypeOK /\ PinTypeOK /\ KeyLogTypeOK
  /\ StreamTypeOK /\ SseTypeOK /\ AuditTypeOK
  /\ BurnedOnlyByUse /\ UsedRemembered /\ SerialLogVerifies

(* The calls, slots, requests and appends of a part are alike. *)
AuthoritySymmetry == Permutations(Requests)
=============================================================================
