---------------------------- MODULE MandateChain ----------------------------
(***************************************************************************)
(* The documents behind a payment (mandate.ts): an intent the payer signs, *)
(* a cart the merchant signs, a payment the agent signs, and what          *)
(* verifyPayment() checks of them before it asks the ledger (module        *)
(* Mandate).  The library signs what it computes; a merchant or an agent   *)
(* may sign by hand what it likes, and anyone may change a document.       *)
(***************************************************************************)
EXTENDS Integers, FiniteSets, SequencesExt

CONSTANTS Payer, Agents, Merchants,
          Constraints,     \* the intents' constraints the payer may choose
          Items,           \* the item lists a merchant may sell
          Currencies,
          DocIds,          \* ids: random, so honest ones are fresh
          NoBound,         \* an optional bound that is not set
          MaxSafe,         \* Number.MAX_SAFE_INTEGER
          IntentLifetime, CartLifetime, PaymentLifetime,
          ChainSkew,
          MaxIntents, MaxCarts, MaxPayments,   \* bounds on the documents
          ChainTimeLimit   \* bound on the clock

(* merchants and categories: a set, or NoBound for any *)
ASSUME MandateChainAssumption ==
  /\ \A k \in Constraints :
       /\ k.currency \in Currencies
       /\ k.maxTotal \in 1 .. MaxSafe
       /\ k.maxPerPurchase \in 1 .. k.maxTotal \/ k.maxPerPurchase = NoBound
  /\ \A l \in Items :
       /\ Len(l) \in Nat \ {0} /\ DOMAIN l = 1 .. Len(l)
       /\ \A n \in DOMAIN l : l[n].quantity \in Nat /\ l[n].unit \in Nat
  /\ NoBound \notin Int
  /\ {IntentLifetime, CartLifetime, PaymentLifetime} \subseteq Nat \ {0}
  /\ ChainSkew \in Nat /\ MaxSafe \in Nat
  /\ {MaxIntents, MaxCarts, MaxPayments, ChainTimeLimit} \subseteq Nat

VARIABLES chainTime,
          intents, carts, payments,   \* the documents in circulation
          (* history, read by the properties only *)
          agreed,                     \* payment id -> the cart its agent saw
          authorised                  \* documents that passed, with the time

chainVars == <<chainTime, intents, carts, payments, agreed, authorised>>

(* A document is its content and a signature: of whom, over what. *)
SignedBy(who, content) == [body |-> content, by |-> who, over |-> content]

SignatureOf(doc, who) == doc.by = who /\ doc.over = doc.body

ChainInit ==
  /\ chainTime = 0
  /\ intents = {} /\ carts = {} /\ payments = {}
  /\ agreed = << >>
  /\ authorised = {}

-----------------------------------------------------------------------------
Overflow == -1

(* checkedTotal: null on a quantity of zero or past the safe integers *)
CheckedTotal(items) ==
  FoldLeft(LAMBDA sum, i :
             IF \/ sum = Overflow \/ i.quantity = 0
                \/ sum + i.quantity * i.unit > MaxSafe
             THEN Overflow
             ELSE sum + i.quantity * i.unit,
           0, items)

(* What the items cost *)
Price(items) == FoldLeft(LAMBDA sum, i : sum + i.quantity * i.unit, 0, items)

Unused(docs) == {n \in DocIds : \A d \in docs : d.body.id # n}

Intent(n, agent, k) ==
  [id |-> n, payer |-> Payer, agent |-> agent, constraints |-> k,
   issuedAt |-> chainTime, expiresAt |-> chainTime + IntentLifetime]

IssueIntent(agent, k) ==
  /\ Cardinality(intents) < MaxIntents
  /\ \E n \in Unused(intents) :
       intents' = intents \cup {SignedBy(Payer, Intent(n, agent, k))}
  /\ UNCHANGED <<chainTime, carts, payments, agreed, authorised>>

Cart(n, i, m, currency, items, total) ==
  [id |-> n, intentId |-> i, merchant |-> m, currency |-> currency, items |-> items,
   total |-> total, issuedAt |-> chainTime, expiresAt |-> chainTime + CartLifetime]

IssueCart(m, i, currency, items) ==
  /\ Cardinality(carts) < MaxCarts
  /\ CheckedTotal(items) # Overflow
  /\ \E n \in Unused(carts) :
       carts' = carts \cup
         {SignedBy(m, Cart(n, i, m, currency, items, CheckedTotal(items)))}
  /\ UNCHANGED <<chainTime, intents, payments, agreed, authorised>>

(* A merchant signs by hand: another list of items, or another total,      *)
(* under an id it has used before.                                         *)
RequoteCart(c, items, total) ==
  /\ Cardinality(carts) < MaxCarts
  /\ carts' = carts \cup
       {SignedBy(c.body.merchant,
                Cart(c.body.id, c.body.intentId, c.body.merchant, c.body.currency,
                     items, total))}
  /\ UNCHANGED <<chainTime, intents, payments, agreed, authorised>>

(* cartDigest: of the content and the signature *)
CartDigest(c) == <<c>>

PaymentFor(n, agent, i, c, amount) ==
  [id |-> n, intentId |-> i, cartId |-> c.body.id, cartDigest |-> CartDigest(c),
   merchant |-> c.body.merchant, agent |-> agent, amount |-> amount,
   currency |-> c.body.currency, issuedAt |-> chainTime, expiresAt |-> chainTime + PaymentLifetime]

(* issuePaymentMandate, or the agent by hand with an amount of its own;    *)
(* agreed records the cart the agent saw.                                  *)
IssuePayment(agent, i, c, amount) ==
  /\ Cardinality(payments) < MaxPayments
  /\ \E n \in Unused(payments) :
       /\ payments' = payments \cup
            {SignedBy(agent, PaymentFor(n, agent, i.body.id, c, amount))}
       /\ agreed' = [x \in DOMAIN agreed \cup {n} |-> IF x = n THEN c ELSE agreed[x]]
  /\ UNCHANGED <<chainTime, intents, carts, authorised>>

-----------------------------------------------------------------------------
(* What a document may look like when it arrives *)
Changed(docs, edits) ==
  docs \cup UNION {{[d EXCEPT !.body = e] : e \in edits[d]} : d \in docs}

ArrivingIntents ==
  Changed(intents, [d \in intents |->
    {[d.body EXCEPT !.constraints = k] : k \in Constraints} \cup
    {[d.body EXCEPT !.agent = a] : a \in Agents}])

ArrivingCarts ==
  Changed(carts, [d \in carts |-> {[d.body EXCEPT !.items = l] : l \in Items}])

ArrivingPayments ==
  Changed(payments, [d \in payments |->
    {[d.body EXCEPT !.cartDigest = CartDigest(c), !.cartId = c.body.id] : c \in carts}])

IsMoney(n) == n \in 0 .. MaxSafe

(* shape: what is not a document with amounts is refused first. *)
Shape(i, c, p) ==
  /\ IsMoney(c.body.total) /\ IsMoney(p.body.amount)
  /\ i.body.constraints.maxTotal \in 1 .. MaxSafe

Lives(doc, longest) ==
  /\ doc.body.expiresAt > doc.body.issuedAt
  /\ doc.body.expiresAt - doc.body.issuedAt <= longest
  /\ doc.body.issuedAt <= chainTime + ChainSkew
  /\ chainTime < doc.body.expiresAt

(* Parties and references: the chain hangs together. *)
Linked(i, c, p, merchant) ==
  /\ i.body.payer = Payer
  /\ c.body.merchant = merchant /\ p.body.merchant = merchant
  /\ p.body.agent = i.body.agent
  /\ c.body.intentId = i.body.id /\ p.body.intentId = i.body.id
  /\ p.body.cartId = c.body.id
  /\ c.body.currency = i.body.constraints.currency
  /\ p.body.currency = i.body.constraints.currency

SignaturesHold(i, c, p) ==
  /\ SignatureOf(i, i.body.payer)
  /\ SignatureOf(c, c.body.merchant)
  /\ SignatureOf(p, p.body.agent)

(* Fault: the payment is matched with its cart by id and amount alone. *)
AmountsMatch(c, p) ==
  /\ CheckedTotal(c.body.items) = c.body.total
  /\ p.body.amount = c.body.total

(* The money: recomputed, and for exactly this cart *)
MoneyAgrees(c, p) ==
  /\ CheckedTotal(c.body.items) = c.body.total
  /\ p.body.cartDigest = CartDigest(c)
  /\ p.body.amount = c.body.total

Within(k, c, p) ==
  /\ k.merchants # NoBound => c.body.merchant \in k.merchants
  /\ k.categories # NoBound =>
       \A n \in 1 .. Len(c.body.items) : c.body.items[n].category \in k.categories
  /\ k.maxPerPurchase # NoBound => p.body.amount <= k.maxPerPurchase
  /\ p.body.amount <= k.maxTotal

(* verifyPayment up to ledger.reserve.  Its awaits read registries that do *)
(* not change here, so the checks are one step.                            *)
VerifyChain(i, c, p, merchant) ==
  /\ Shape(i, c, p)
  /\ Lives(i, IntentLifetime) /\ Lives(c, CartLifetime) /\ Lives(p, PaymentLifetime)
  /\ Linked(i, c, p, merchant)
  /\ SignaturesHold(i, c, p)
  /\ MoneyAgrees(c, p)
  /\ Within(i.body.constraints, c, p)
  /\ authorised' = authorised \cup
       {[intent |-> i, cart |-> c, payment |-> p, at |-> chainTime]}
  /\ UNCHANGED <<chainTime, intents, carts, payments, agreed>>

ChainTick ==
  /\ chainTime < ChainTimeLimit
  /\ chainTime' = chainTime + 1
  /\ UNCHANGED <<intents, carts, payments, agreed, authorised>>

ChainNext ==
  \/ \E a \in Agents, k \in Constraints : IssueIntent(a, k)
  \/ \E m \in Merchants, i \in intents, l \in Items, cur \in Currencies :
       IssueCart(m, i.body.id, cur, l)
  \/ \E c \in carts, l \in Items :
       \E t \in {Price(l), Price(l) + 1} : RequoteCart(c, l, t)
  \/ \E a \in Agents, i \in intents, c \in carts :
       \E amount \in {c.body.total, c.body.total - 1} : IssuePayment(a, i, c, amount)
  \/ \E i \in ArrivingIntents, c \in ArrivingCarts, p \in ArrivingPayments, m \in Merchants :
       VerifyChain(i, c, p, m)
  \/ ChainTick

ChainSpec == ChainInit /\ [][ChainNext]_chainVars

-----------------------------------------------------------------------------
(* mandate.ts:506: what passes is what all three signed.  The payer signed *)
(* these constraints for the agent that pays; the agent, when it signed,   *)
(* had this very cart before it, whatever else the merchant signed under   *)
(* the same id; the merchant signed it; none of it had expired.            *)
DocumentsAgree ==
  \A u \in authorised :
    /\ u.intent \in intents /\ u.cart \in carts /\ u.payment \in payments
    /\ u.payment.by = u.intent.body.agent
    /\ agreed[u.payment.body.id] = u.cart
    /\ u.at < u.intent.body.expiresAt /\ u.at < u.cart.body.expiresAt

(* mandate.ts:505: the amount is the price of the items, in the payer's    *)
(* currency and bounds, also when merchant and agent signed other totals.  *)
AmountIsPrice ==
  \A u \in authorised :
    LET k == u.intent.body.constraints
        amount == u.payment.body.amount IN
    /\ amount = Price(u.cart.body.items)
    /\ u.payment.body.currency = k.currency /\ u.cart.body.currency = k.currency
    /\ amount <= k.maxTotal
    /\ k.maxPerPurchase # NoBound => amount <= k.maxPerPurchase
    /\ k.categories # NoBound =>
         {u.cart.body.items[n].category : n \in DOMAIN u.cart.body.items} \subseteq k.categories

(* mandate.ts:506: what is paid is what payer, merchant and agent signed   *)
(* for this very cart, and the amount is its price, within the bounds.     *)
PaidAsAgreed == DocumentsAgree /\ AmountIsPrice
=============================================================================
