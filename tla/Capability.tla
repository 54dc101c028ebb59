------------------------------ MODULE Capability ------------------------------
(***************************************************************************)
(* Capability tokens: an issuer signs a root token, its subject delegates  *)
(* a part of it to the next, and a verifier is shown the whole chain.      *)
(* delegateCapabilityToken() checks what it signs, but a subject holds its *)
(* own key and may sign any hop by hand, so verifyCapabilityChain() has to *)
(* check every hop again.                                                  *)
(***************************************************************************)
EXTENDS Integers, Sequences, FiniteSetsExt

CONSTANTS Agents,
          Known,         \* agents whose public key the registry has
          Literals,      \* path segments; "" is the empty one
          PathLength,    \* bound on the segments of a path
          ScopeLists,    \* the lists of scopes tokens carry, by name
          Scopes,        \* the scopes of each list
          Methods,
          Lifetimes,     \* ttlMs
          Budgets,       \* maxDelegations of roots and of hops signed by hand
          MaxTokens,     \* bound on tokens
          MaxCapTime     \* bound on the clock

(* maxDelegations: undefined *)
Unlimited == -1

ASSUME CapabilityAssumption ==
  /\ Known \subseteq Agents
  /\ PathLength \in Nat /\ MaxTokens \in Nat \ {0} /\ MaxCapTime \in Nat
  /\ Lifetimes \subseteq Nat /\ DOMAIN Scopes = ScopeLists
  /\ Budgets \subseteq Nat \cup {Unlimited}
  /\ \A l \in ScopeLists : \A s \in Scopes[l] :
       Len(s.glob) \in Nat \ {0} /\ DOMAIN s.glob = 1 .. Len(s.glob)

Paths == UNION {[1 .. n -> Literals] : n \in 1 .. PathLength}

VARIABLES capTime,
          tokens       \* every token that was signed, by its id

capVars == <<capTime, tokens>>

CapInit ==
  /\ capTime = 0
  /\ tokens = <<>>

-----------------------------------------------------------------------------
(* matchGlob(), segment by segment: "*" stands for one segment, "?" for    *)
(* one that is a single character, "**" for one or more.                   *)
SegmentMatches(pattern, segment) ==
  \/ pattern \in {"*", "**"}
  \/ pattern = "?" /\ segment # ""
  \/ pattern # "?" /\ pattern = segment

MatchGlob(glob, path) ==
  \E at \in [DOMAIN path -> DOMAIN glob] :
    /\ at[1] = 1 /\ at[Len(path)] = Len(glob)
    /\ \A i \in DOMAIN path : SegmentMatches(glob[at[i]], path[i])
    /\ \A i \in 2 .. Len(path) :
         at[i] = at[i - 1] + 1 \/ (at[i] = at[i - 1] /\ glob[at[i]] = "**")

(* tokenMatchesScope(): methods {} stands for undefined, any method. *)
TokenMatchesScope(list, path, method) ==
  \E s \in Scopes[list] :
    MatchGlob(s.glob, path) /\ (s.methods = {} \/ method \in s.methods)

SegmentIsSubset(child, parent) == child = parent \/ (parent = "*" /\ child # "**")

(* pathGlobIsSubset(): the first "**" of the parent ends the comparison. *)
PathGlobIsSubset(child, parent) ==
  LET stars == {j \in DOMAIN parent : parent[j] = "**"}
      compared == IF stars = {} THEN Len(parent) ELSE Min(stars) - 1
  IN /\ IF stars = {} THEN Len(child) = compared ELSE Len(child) > compared
     /\ \A j \in 1 .. compared : child[j] # "**" /\ SegmentIsSubset(child[j], parent[j])

ScopeIsSubset(child, parent) ==
  /\ PathGlobIsSubset(child.glob, parent.glob)
  /\ parent.methods # {} => child.methods # {} /\ child.methods \subseteq parent.methods

ScopesAreSubset(child, parent) ==
  \A c \in Scopes[child] : \E p \in Scopes[parent] : ScopeIsSubset(c, p)

(* The pairs of lists it holds of. *)
Narrower == {l \in ScopeLists \X ScopeLists : ScopesAreSubset(l[1], l[2])}

-----------------------------------------------------------------------------
Signed(token) == tokens' = Append(tokens, token)

(* issueCapabilityToken() *)
Issue(issuer, subject, scopes, ttl, budget) ==
  /\ Signed([issuer |-> issuer, subject |-> subject, scopes |-> scopes,
             expiresAt |-> capTime + ttl, depth |-> 0, parent |-> 0, max |-> budget,
             byHand |-> FALSE])
  /\ UNCHANGED capTime

NextBudget(parent) == IF parent.max = Unlimited THEN Unlimited ELSE parent.max - 1

MayDelegate(parent, scopes, ttl) ==
  /\ capTime < parent.expiresAt
  /\ parent.max # 0
  /\ <<scopes, parent.scopes>> \in Narrower
  /\ ttl <= parent.expiresAt - capTime

(* delegateCapabilityToken() *)
Delegate(id, subject, scopes, ttl) ==
  LET parent == tokens[id] IN
  /\ MayDelegate(parent, scopes, ttl)
  /\ Signed([issuer |-> parent.subject, subject |-> subject, scopes |-> scopes,
             expiresAt |-> capTime + ttl, depth |-> parent.depth + 1, parent |-> id,
             max |-> NextBudget(parent), byHand |-> FALSE])
  /\ UNCHANGED capTime

(* An agent signs what it likes with its own key. *)
SignByHand(signer, id, subject, scopes, ttl, budget) ==
  /\ Signed([issuer |-> signer, subject |-> subject, scopes |-> scopes,
             expiresAt |-> capTime + ttl, depth |-> tokens[id].depth + 1, parent |-> id,
             max |-> budget, byHand |-> TRUE])
  /\ UNCHANGED capTime

-----------------------------------------------------------------------------
(* verifyCapabilityChain(): one token on its own.  Every token was signed  *)
(* with its issuer's key, another one's would not verify.                  *)
TokenVerifies(token) == capTime < token.expiresAt /\ token.issuer \in Known

(* Fault: the scopes of a hop are left to delegateCapabilityToken(). *)
HopFollowsAnyScope(token, id, prev) ==
  /\ token.issuer = prev.subject
  /\ token.parent = id
  /\ token.depth = prev.depth + 1
  /\ prev.max # 0
  /\ token.expiresAt <= prev.expiresAt

(* The links, and the three checks that make a hop narrow the one before. *)
HopFollows(token, id, prev) ==
  /\ token.issuer = prev.subject
  /\ token.parent = id
  /\ token.depth = prev.depth + 1
  /\ prev.max # 0
  /\ token.expiresAt <= prev.expiresAt
  /\ <<token.scopes, prev.scopes>> \in Narrower

VerifyCapabilityChain(chain) ==
  /\ chain # <<>>
  /\ tokens[chain[1]].depth = 0
  /\ \A i \in DOMAIN chain : TokenVerifies(tokens[chain[i]])
  /\ \A i \in 2 .. Len(chain) :
       HopFollows(tokens[chain[i]], chain[i - 1], tokens[chain[i - 1]])

CapLater ==
  /\ capTime < MaxCapTime
  /\ capTime' = capTime + 1
  /\ UNCHANGED tokens

CapNext ==
  \/ \E issuer, subject \in Agents, scopes \in ScopeLists, ttl \in Lifetimes,
        budget \in Budgets :
       tokens = <<>> /\ Issue(issuer, subject, scopes, ttl, budget)
  \/ Len(tokens) < MaxTokens /\
     \E id \in DOMAIN tokens, subject \in Agents, scopes \in ScopeLists, ttl \in Lifetimes :
       \/ Delegate(id, subject, scopes, ttl)
       \/ \E signer \in Agents, budget \in Budgets :
            SignByHand(signer, id, subject, scopes, ttl, budget)
  \/ CapLater

CapSpec == CapInit /\ [][CapNext]_capVars

-----------------------------------------------------------------------------
(* A token's parent was signed before it, so no other sequence of n tokens *)
(* has the links of a chain.                                               *)
ChainsOver ==
  [n \in 0 .. MaxTokens |->
     {c \in UNION {[1 .. k -> 1 .. n] : k \in 1 .. n} : \A i \in 2 .. Len(c) : c[i - 1] < c[i]}]
Chains == ChainsOver[Len(tokens)]

CapTypeOK ==
  /\ capTime \in Nat
  /\ \A id \in DOMAIN tokens :
       /\ tokens[id].issuer \in Agents /\ tokens[id].subject \in Agents
       /\ tokens[id].scopes \in ScopeLists
       /\ tokens[id].expiresAt \in Nat
       /\ tokens[id].parent \in 0 .. id - 1
       /\ tokens[id].max \in Nat \cup {Unlimited}

(* The pairs of lists of which the first covers a request that the second  *)
(* does not.                                                               *)
Exceeds ==
  {<<r.child, r.parent>> :
     r \in {x \in [child : ScopeLists, parent : ScopeLists, path : Paths,
                   method : Methods] :
              /\ TokenMatchesScope(x.child, x.path, x.method)
              /\ ~TokenMatchesScope(x.parent, x.path, x.method)}}

(* capability.ts:353: whoever signed the hops, an accepted chain ends in a *)
(* token that covers nothing its root, or any token on the way, does not   *)
(* cover, and none of them has expired.                                    *)
DelegationNarrows ==
  \A chain \in Chains : VerifyCapabilityChain(chain) =>
    \A i \in DOMAIN chain :
      /\ <<tokens[chain[Len(chain)]].scopes, tokens[chain[i]].scopes>> \notin Exceeds
      /\ capTime < tokens[chain[i]].expiresAt

(* The tokens from the root to id. *)
LibraryChain(chain) ==
  /\ tokens[chain[1]].parent = 0
  /\ \A i \in DOMAIN chain : ~tokens[chain[i]].byHand /\ tokens[chain[i]].issuer \in Known
  /\ \A i \in 2 .. Len(chain) : tokens[chain[i]].parent = chain[i - 1]

(* capability.ts:226: what delegateCapabilityToken() signs, the verifier   *)
(* accepts until the last token expires: the two lists of checks agree.    *)
DelegatedVerifies ==
  \A chain \in Chains :
    LibraryChain(chain) /\ capTime < tokens[chain[Len(chain)]].expiresAt
      => VerifyCapabilityChain(chain)

(* capability.ts:28: maxDelegations is how many more times a token can be  *)
(* re-delegated.                                                           *)
WithinBudget(chain) ==
  tokens[chain[1]].max # Unlimited => Len(chain) - 1 <= tokens[chain[1]].max

(* capability.ts:261: chains made with delegateCapabilityToken() stay      *)
(* within the budget of their root.                                        *)
LibraryBudget == \A chain \in Chains : LibraryChain(chain) => WithinBudget(chain)

(* capability.ts:226,353: delegating and verifying fit together.  What the *)
(* verifier accepts was narrowed at every hop, and what the library signs  *)
(* keeps to its budget and is accepted.                                    *)
DelegationSound == DelegationNarrows /\ LibraryBudget /\ DelegatedVerifies
=============================================================================
