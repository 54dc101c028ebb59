---------------------------- MODULE MCAdmission -----------------------------
(* Before a request is acted on: the gateway, DPoP proofs, step-up         *)
(* approval, attested keys and agent cards, and the documents of a         *)
(* payment.  They share nothing here; a behaviour is about one of them.    *)
EXTENDS MCGateway, Dpop, StepUp, AgentIdentity, MandateChain

CONSTANTS p1, agent, shop, stall, here, elsewhere

VARIABLE part      \* the part of the system this behaviour is about

(* DPoP: the token is bound to the first key. *)
MCBoundTo == [t \in Tokens |-> p1]

(* One path, with two bodies *)
MCStepRequests == [method : {"POST"}, path : {"/pay"}, body : {"small", "large"}]

(* Cards: one is for this origin, one for two. *)
MCOriginsOf == [c \in Contents |-> IF c = here THEN {here} ELSE {here, elsewhere}]

(* Mandates: a list of merchants or of categories; among the lists of      *)
(* items one whose total is past the safe integers.                        *)
Bounds(total, per, ms, cs) ==
  [currency |-> "EUR", maxTotal |-> total, maxPerPurchase |-> per, merchants |-> ms, categories |-> cs]
MCConstraints == {Bounds(4, 3, {shop}, NoBound), Bounds(4, NoBound, NoBound, {"food"})}

Line(category, quantity, unit) ==
  [category |-> category, quantity |-> quantity, unit |-> unit]
MCItems ==
  {<<Line("food", 2, 1)>>, <<Line("food", 1, 2), Line("toy", 1, 1)>>,
   <<Line("food", 2, 3)>>}

admissionVars == <<part, vars, dpopVars, stepVars, attestVars, cardVars, chainVars>>

AdmissionInit ==
  /\ part \in {"gateway", "dpop", "stepup", "attest", "card", "chain"}
  /\ Init /\ DpopInit /\ StepInit /\ AttestInit /\ CardInit /\ ChainInit
  /\ part # "attest" => baseKeys = [w \in Workloads |-> NoKey]
  /\ part # "card" => trustedKids = {}

(* Parts that come to an end: a bound is reached or nothing is left to do. *)
AdmissionStops == part # "gateway" /\ UNCHANGED admissionVars

AdmissionNext ==
  \/ /\ part = "gateway" /\ Next
     /\ UNCHANGED <<part, dpopVars, stepVars, attestVars, cardVars, chainVars>>
  \/ /\ part = "dpop" /\ DpopNext
     /\ UNCHANGED <<part, vars, stepVars, attestVars, cardVars, chainVars>>
  \/ /\ part = "stepup" /\ StepUpNext
     /\ UNCHANGED <<part, vars, dpopVars, attestVars, cardVars, chainVars>>
  \/ /\ part = "attest" /\ AttestNext
     /\ UNCHANGED <<part, vars, dpopVars, stepVars, cardVars, chainVars>>
  \/ /\ part = "card" /\ CardNext
     /\ UNCHANGED <<part, vars, dpopVars, stepVars, attestVars, chainVars>>
  \/ /\ part = "chain" /\ ChainNext
     /\ UNCHANGED <<part, vars, dpopVars, stepVars, attestVars, cardVars>>
  \/ AdmissionStops

AdmissionSpec == AdmissionInit /\ [][AdmissionNext]_admissionVars

AdmissionSymmetry ==
  Permutations(Calls) \cup Permutations(DpopCalls) \cup Permutations(Lookups)
=============================================================================
