----------------------------- MODULE Proposals -----------------------------
(***************************************************************************)
(* From what an agent proposes to what the rail is asked to charge:        *)
(* resolution against the price book (gateway/core.py, pricebook.py,       *)
(* resolve.py), merchants' signed quotes (quote.py), the ten constraint    *)
(* evaluators (constraints.py), the intent a basket is filed under         *)
(* (action.py) and the approval of the principal.                          *)
(*                                                                         *)
(* Gateway models how calls interleave and lets a proposal be an intent    *)
(* with an amount; here one call runs at a time and the amount, the intent *)
(* and every verdict are computed.  A proposal names SKUs and quantities   *)
(* and may attach a quote to a line; a raw proposal is an amount and       *)
(* nothing else.  An entry of the ledger keeps the state its call left it  *)
(* in, and an approval does not expire (Gateway and Approvals model what   *)
(* happens to them).  Calls that change no state (an unknown SKU, an       *)
(* intent the ledger knows, a refusal) are stuttering steps.               *)
(***************************************************************************)
EXTENDS Integers, Sequences, FiniteSets, Money, Lattice

CONSTANTS
  Missing,     \* no quote, no merchant id, no category
  Book,        \* the price book: Book[sku] = [price, category]
  Fold,        \* Fold[name]: the name stripped and in lower case
  Resolved,    \* MerchantResolver: the id a name resolves to, or Missing
  Curated,     \* CategoryResolver: the category of a SKU's title, or Missing
  Keyring,     \* Keyring[merchant]: the public keys held for a folded name
  MaxAge,      \* quote_max_age
  Proposed,    \* the proposals an agent may make
  Policies,    \* the mandates a gateway may serve
  Enforcing,   \* Mode.ENFORCE (otherwise Mode.OBSERVE)
  MaxClock,    \* bound on the clock
  MaxAsked,    \* bound on the intents the principal is asked about
  MaxOrders    \* bound on the orders sent to the rail

(* A proposal is [name, items, amount]: items is a sequence of             *)
(* [sku, qty, quote]; a proposal without items is raw and has its amount.  *)
ASSUME ProposalsAssumption ==
  /\ \A s \in DOMAIN Book : Book[s].price \in Nat
  /\ MaxAge \in Nat /\ MaxClock \in Nat /\ MaxAsked \in Nat /\ MaxOrders \in Nat
  /\ Enforcing \in BOOLEAN
  /\ \A r \in Proposed :
       /\ r.amount \in Nat /\ Len(r.basket) \in Nat
       /\ r.basket = [k \in 1 .. Len(r.basket) |-> r.basket[k]]
       /\ \A k \in DOMAIN r.basket :
            /\ r.basket[k].qty \in Nat \ {0}
            /\ LET q == r.basket[k].quote
               IN  q # Missing => {q.price, q.issued, q.expires} \subseteq Int
  /\ \A p \in Policies :
       /\ {p.total, p.tx, p.item, p.velocity, p.units, p.threshold} \subseteq Nat
       /\ {p.after, p.before} \subseteq Int

VARIABLES
  site,      \* the policy the gateway serves, and whether it has a resolver
  time,      \* datetime.now
  ledger,    \* ledger[i]: state, amount and SKUs of the entry for intent i
  asked,     \* asked[i]: the amount of the open PendingItem of intent i
  approved,  \* intents with an approval in the ApprovalStore
  grantedAt,   \* history: grantedAt[i], the amount i was last approved at
  sent       \* history: the create_order calls, in order

basketVars == <<site, time, ledger, asked, approved, grantedAt, sent>>

NoEntries == [i \in {} |-> Missing]

BasketInit ==
  /\ site \in [policy : Policies, resolver : BOOLEAN]
  /\ time = 0
  /\ ledger = NoEntries
  /\ asked = NoEntries
  /\ approved = {}
  /\ grantedAt = NoEntries
  /\ sent = <<>>

-----------------------------------------------------------------------------
(* Quotes: [parses, merchant, signer, sku, price, currency, stamped,       *)
(* issued, expires].  The signature covers the payload, so a payload that  *)
(* was changed is one whose signer is nobody's key.                        *)

(* Mutant: the quote's merchant is not compared with the proposal's, so a  *)
(* shop prices another shop's goods.                                       *)
VerifyQuote_AnyMerchant(q, name, sku, now) ==
  /\ q.parses
  /\ q.signer \in Keyring[q.merchant]
  /\ q.sku = sku
  /\ q.currency = "INR" /\ q.stamped
  /\ q.issued <= now /\ now < q.expires
  /\ now - q.issued <= MaxAge
  /\ q.price >= 0

(* verify_quote returns the quote's price; otherwise it raises one of the  *)
(* QuoteErrors, which propose turns into a DENY whatever the error is.     *)
VerifyQuote(q, name, sku, now) ==
  /\ q.parses
  /\ q.signer \in Keyring[q.merchant]
  /\ q.merchant = Fold[name]
  /\ q.sku = sku
  /\ q.currency = "INR" /\ q.stamped
  /\ q.issued <= now /\ now < q.expires
  /\ now - q.issued <= MaxAge
  /\ q.price >= 0

QuotesHold(r, now) ==
  \A k \in DOMAIN r.basket :
    r.basket[k].quote # Missing =>
      VerifyQuote(r.basket[k].quote, r.name, r.basket[k].sku, now)

(* _resolve_to_action and _resolve_raw_to_action: the lines with the       *)
(* prices they resolve to, and their total.  One quote that fails strips   *)
(* every quote of the basket.                                              *)
Known ==
  {r \in Proposed : \A k \in DOMAIN r.basket : r.basket[k].sku \in DOMAIN Book}

UnitPrice(it, quoted) ==
  IF quoted /\ it.quote # Missing THEN it.quote.price ELSE Book[it.sku].price

Lines(r, quoted) ==
  [k \in DOMAIN r.basket |->
     [sku |-> r.basket[k].sku, qty |-> r.basket[k].qty,
      quote |-> IF quoted THEN r.basket[k].quote ELSE Missing,
      price |-> UnitPrice(r.basket[k], quoted)]]

LineAmounts(priced) == [k \in DOMAIN priced |-> priced[k].qty * priced[k].price]

Action(r, quoted) ==
  LET priced == Lines(r, quoted)
  IN  [name |-> r.name, priced |-> priced,
       amount |-> IF r.basket = <<>> THEN r.amount
                  ELSE Total(DOMAIN priced, LineAmounts(priced))]

Resolutions == [r \in Known |-> [quoted \in BOOLEAN |-> Action(r, quoted)]]

ResolveToAction(r, now) == Resolutions[r][QuotesHold(r, now)]

SkusOf(priced) == {priced[k].sku : k \in DOMAIN priced}

(* canonical_intent.  The lines are sorted by SKU with a stable sort: the  *)
(* quantities of one SKU stay in the order the agent gave them.            *)

(* Mutant: what the agent attaches to a line is part of the intent.        *)
CanonicalIntent_WithQuotes ==
  [r \in Proposed |->
     [merchant |-> Fold[r.name], lots |-> r.basket, amount |-> r.amount]]

CanonicalIntent ==
  [r \in Proposed |->
     LET of(s) == {k \in DOMAIN r.basket : r.basket[k].sku = s}
         nth(P, n) == CHOOSE k \in P : Cardinality({j \in P : j <= k}) = n
     IN  [merchant |-> Fold[r.name],
          lots     |-> [s \in SkusOf(r.basket) |->
                          [n \in 1 .. Cardinality(of(s)) |->
                             r.basket[nth(of(s), n)].qty]],
          amount   |-> IF r.basket = <<>> THEN r.amount ELSE 0]]

-----------------------------------------------------------------------------
(* Ledger.state: the entries that count.                                   *)
LiveEntries == {i \in DOMAIN ledger : ledger[i].state \in {"PENDING", "COMMITTED"}}

SpentTotal == Total(LiveEntries, [i \in LiveEntries |-> ledger[i].amount])

(* The evaluators.  A clause the policy does not contain allows.           *)
DenyIf(id, cond) == IF id \in site.policy.has /\ cond THEN "DENY" ELSE "ALLOW"

BudgetPerTransaction(act) ==
  DenyIf("budget.per_transaction", act.amount > site.policy.tx)

BudgetTotal(act) ==
  DenyIf("budget.total", SpentTotal + act.amount > site.policy.total)

BudgetPerItem(act) ==
  DenyIf("budget.per_item",
         \E k \in DOMAIN act.priced :
           LineAmounts(act.priced)[k] > site.policy.item)

(* _resolve: without a resolver the agent's own spelling is the id, and    *)
(* categories are the price book's.                                        *)
Merchant(name) == IF site.resolver THEN Resolved[name] ELSE name

Category(sku) == IF site.resolver THEN Curated[sku] ELSE Book[sku].category

MerchantAllow(act) ==
  IF "merchant.allow" \notin site.policy.has \/ act.priced = <<>> THEN "ALLOW"
  ELSE IF Merchant(act.name) = Missing THEN "UNKNOWN"
  ELSE DenyIf("merchant.allow", Merchant(act.name) \notin site.policy.merchants)

(* Mutant: a category nobody knows is taken for a harmless one.            *)
CategoryDeny_UnknownPasses(act) ==
  DenyIf("category.deny",
         \E s \in SkusOf(act.priced) : Category(s) \in site.policy.denied)

CategoryDeny(act) ==
  LET categories == {Category(s) : s \in SkusOf(act.priced)}
  IN  IF "category.deny" \notin site.policy.has THEN "ALLOW"
      ELSE IF categories \cap site.policy.denied # {} THEN "DENY"
      ELSE IF Missing \in categories THEN "UNKNOWN"
      ELSE "ALLOW"

ItemDenyRecent(act) ==
  DenyIf("item.deny_recent",
         \E i \in LiveEntries : SkusOf(act.priced) \cap ledger[i].skus # {})

Velocity == DenyIf("velocity", Cardinality(LiveEntries) >= site.policy.velocity)

TimeWindow(now) ==
  DenyIf("time.window", ~(site.policy.after <= now /\ now < site.policy.before))

QuantityMaxPerItem(act) ==
  DenyIf("quantity.max_per_item",
         \E k \in DOMAIN act.priced : act.priced[k].qty > site.policy.units)

AfaRequired(act, ok) ==
  IF "afa.required" \in site.policy.has /\ act.amount > site.policy.threshold
     /\ ~ok
  THEN "UNKNOWN" ELSE "ALLOW"

(* Every clause but the last, and the quotes' own, which comes first.      *)
Others(r, now) ==
  LET act == ResolveToAction(r, now)
  IN  {IF QuotesHold(r, now) THEN "ALLOW" ELSE "DENY",
       BudgetPerTransaction(act), BudgetTotal(act), BudgetPerItem(act),
       MerchantAllow(act), CategoryDeny(act), ItemDenyRecent(act), Velocity,
       TimeWindow(now), QuantityMaxPerItem(act)}

EvaluateAll(r, now) ==
  Combine(Others(r, now) \cup
            {AfaRequired(ResolveToAction(r, now), CanonicalIntent[r] \in approved)})

-----------------------------------------------------------------------------
(* A call that gets past the price book and the ledger.                    *)
New(r) == r \in Known /\ CanonicalIntent[r] \notin DOMAIN ledger

(* POST /v1/orders opens a PendingItem when the verdict is UNKNOWN and the *)
(* first blocking clause is afa.required, the last one evaluated: every    *)
(* other clause allows.  An open item of the intent keeps its amount.      *)
AskPrincipal(r, verdict) ==
  LET i == CanonicalIntent[r]
  IN  asked' = IF verdict = "UNKNOWN" /\ Combine(Others(r, time)) = "ALLOW"
                  /\ EvaluateAll(r, time) = "UNKNOWN" /\ i \notin DOMAIN asked
                  /\ Cardinality((DOMAIN asked \cup DOMAIN grantedAt) \ {i}) < MaxAsked
               THEN [j \in DOMAIN asked \cup {i} |->
                       IF j = i THEN ResolveToAction(r, time).amount
                       ELSE asked[j]]
               ELSE asked

(* propose does not execute.                                               *)
Withhold(r) ==
  /\ New(r)
  /\ Enforcing /\ EvaluateAll(r, time) # "ALLOW"
  /\ AskPrincipal(r, EvaluateAll(r, time))
  /\ UNCHANGED <<site, time, ledger, approved, grantedAt, sent>>

(* propose reserves, asks the rail and settles the entry.  The rail        *)
(* executes the order, refuses it (or charges another amount, which ends   *)
(* the same way for the entry), or does not answer.                        *)
OrderAnswers == {"ok", "refused", "timeout"}

Execute(r, answer) ==
  LET i   == CanonicalIntent[r]
      act == ResolveToAction(r, time)
      v   == EvaluateAll(r, time)
  IN  /\ New(r)
      /\ Len(sent) < MaxOrders
      /\ v = "ALLOW" \/ ~Enforcing
      /\ ledger' = [j \in DOMAIN ledger \cup {i} |->
                      IF j # i THEN ledger[j]
                      ELSE [state  |-> CASE answer = "ok"      -> "COMMITTED"
                                         [] answer = "refused" -> "FAILED"
                                         [] answer = "timeout" -> "PENDING",
                            amount |-> act.amount, skus |-> SkusOf(act.priced)]]
      /\ sent' = Append(sent, [act |-> act, intent |-> i, at |-> time])
      /\ approved' = IF answer = "ok" THEN approved \ {i} ELSE approved
      /\ AskPrincipal(r, CASE answer = "ok"      -> v
                       [] answer = "refused" -> "DENY"
                       [] answer = "timeout" -> "UNKNOWN")
      /\ UNCHANGED <<site, time, grantedAt>>

(* POST /v1/approve.                                                       *)
Close(i) == asked' = [j \in DOMAIN asked \ {i} |-> asked[j]]

Approve(i) ==
  /\ i \in DOMAIN asked
  /\ Close(i)
  /\ approved' = approved \cup {i}
  /\ grantedAt' = [j \in DOMAIN grantedAt \cup {i} |->
                   IF j = i THEN asked[i] ELSE grantedAt[j]]
  /\ UNCHANGED <<site, time, ledger, sent>>

Reject(i) ==
  /\ i \in DOMAIN asked
  /\ Close(i)
  /\ UNCHANGED <<site, time, ledger, approved, grantedAt, sent>>

TimePasses ==
  /\ time < MaxClock
  /\ time' = time + 1
  /\ UNCHANGED <<site, ledger, asked, approved, grantedAt, sent>>

BasketNext ==
  \/ \E r \in Proposed : Withhold(r) \/ \E answer \in OrderAnswers : Execute(r, answer)
  \/ \E i \in DOMAIN asked : Approve(i) \/ Reject(i)
  \/ TimePasses

BasketSpec == BasketInit /\ [][BasketNext]_basketVars

-----------------------------------------------------------------------------
(* An entry has a state of idem.EntryState and an amount that is not       *)
(* negative, and what is approved was granted by the principal (idem.py,   *)
(* server.py, approval.py).                                                *)
BasketTypes ==
  /\ site \in [policy : Policies, resolver : BOOLEAN]
  /\ time \in 0 .. MaxClock
  /\ \A i \in DOMAIN ledger :
       /\ ledger[i].state \in {"PENDING", "COMMITTED", "FAILED"}
       /\ ledger[i].amount \in Nat
  /\ approved \subseteq DOMAIN grantedAt
  /\ Len(sent) <= MaxOrders

(* Each line of an order was charged at the price book's price, or at the  *)
(* price of a quote that the merchant the basket names signed for that     *)
(* SKU, in rupees, in force when the order was sent and no older than the  *)
(* gateway accepts; and never below zero (core.py, quote.py).              *)
SignedBySeller(q, o, sku) ==
  /\ q.signer \in Keyring[Fold[o.act.name]] /\ q.merchant = Fold[o.act.name]
  /\ q.sku = sku /\ q.currency = "INR"
  /\ o.at \in q.issued .. (q.expires - 1) /\ o.at <= q.issued + MaxAge

PricedBySeller ==
  \A n \in DOMAIN sent : \A k \in DOMAIN sent[n].act.priced :
    LET o == sent[n]
        l == o.act.priced[k]
    IN  /\ l.price >= 0
        /\ IF l.quote = Missing THEN l.price = Book[l.sku].price
           ELSE l.price = l.quote.price /\ SignedBySeller(l.quote, o, l.sku)

(* What an enforcing gateway has sent to the rail is within the mandate    *)
(* all together: order by order on the prices charged, and over the orders *)
(* that stand, whatever was quoted, respelt or approved on the way.  The   *)
(* quantity of a SKU is within its limit in a basket with one line for     *)
(* each SKU; with several lines each is, and the SKU need not be           *)
(* (UnitsCapped).  An order above the threshold was approved, not          *)
(* necessarily at its amount (ApprovedAmount).                             *)
Standing == {n \in DOMAIN sent : ledger[sent[n].intent].state # "FAILED"}

OneLinePerSku(a) == Cardinality(SkusOf(a.priced)) = Cardinality(DOMAIN a.priced)

UnitsOf(priced, s) ==
  Total({k \in DOMAIN priced : priced[k].sku = s}, [k \in DOMAIN priced |-> priced[k].qty])

OrderWithin(p, o) ==
  /\ "budget.per_transaction" \in p.has => o.act.amount <= p.tx
  /\ "afa.required" \in p.has =>
       o.act.amount <= p.threshold \/ o.intent \in DOMAIN grantedAt
  /\ "time.window" \in p.has => o.at \in p.after .. (p.before - 1)
  /\ "merchant.allow" \in p.has /\ o.act.priced # <<>> =>
       Merchant(o.act.name) \in p.merchants \ {Missing}
  /\ "category.deny" \in p.has =>
       \A s \in SkusOf(o.act.priced) : Category(s) \notin p.denied \cup {Missing}
  /\ \A k \in DOMAIN o.act.priced :
       LET l == o.act.priced[k]
       IN  /\ "budget.per_item" \in p.has => l.qty * l.price <= p.item
           /\ "quantity.max_per_item" \in p.has => l.qty <= p.units
  /\ "quantity.max_per_item" \in p.has /\ OneLinePerSku(o.act) =>
       \A s \in SkusOf(o.act.priced) : UnitsOf(o.act.priced, s) <= p.units

StandingWithin(p) ==
  /\ "budget.total" \in p.has =>
       Total(Standing, [n \in Standing |-> sent[n].act.amount]) <= p.total
  /\ "velocity" \in p.has => Cardinality(Standing) <= p.velocity
  /\ "item.deny_recent" \in p.has =>
       \A m, n \in Standing :
         m # n => SkusOf(sent[m].act.priced) \cap SkusOf(sent[n].act.priced) = {}

WithinMandate ==
  Enforcing =>
    /\ StandingWithin(site.policy)
    /\ \A n \in DOMAIN sent : OrderWithin(site.policy, sent[n])

(* One basket is sent once, whatever quotes it carries, however its        *)
(* merchant is spelt and in whatever order its lines come, if it has one   *)
(* line for each SKU; one raw amount is sent once.  "A stable fingerprint  *)
(* of intent, invariant under agent-steered fields" (action.py:127).       *)
Goods(a) ==
  [merchant |-> Fold[a.name],
   lots     |-> {[sku |-> a.priced[k].sku, qty |-> a.priced[k].qty] :
                   k \in DOMAIN a.priced},
   amount   |-> IF a.priced = <<>> THEN a.amount ELSE 0]

OncePerBasket ==
  \A m, n \in DOMAIN sent :
    /\ OneLinePerSku(sent[m].act) /\ OneLinePerSku(sent[n].act)
    /\ Goods(sent[m].act) = Goods(sent[n].act)
    => m = n

-----------------------------------------------------------------------------
(* Three promises the code does not keep, and TLC refutes each.            *)

(* "Maximum unit quantity for any single SKU" (ARCHITECTURE.md:127): the   *)
(* evaluator looks at each line by itself, and a SKU may have several.     *)
UnitsCapped ==
  Enforcing /\ "quantity.max_per_item" \in site.policy.has =>
    \A n \in DOMAIN sent :
      \A s \in SkusOf(sent[n].act.priced) :
        UnitsOf(sent[n].act.priced, s) <= site.policy.units

(* Two lines of one SKU in the other order are another intent, although    *)
(* tests/gateway/test_action.py:34 calls it order independent.             *)
OrderIndependent ==
  \A m, n \in DOMAIN sent :
    /\ Fold[sent[m].act.name] = Fold[sent[n].act.name]
    /\ Len(sent[m].act.priced) = 2 /\ Len(sent[n].act.priced) = 2
    /\ \A k \in 1 .. 2 : LET a == sent[m].act.priced[k]
                             b == sent[n].act.priced[3 - k]
                         IN  a.sku = b.sku /\ a.qty = b.qty
    => m = n

(* The principal's page says "Authorize" and the amount of the item        *)
(* (Approve.tsx:526); the approval releases the intent at whatever amount  *)
(* a later quote gives it (core.py:418).                                   *)
ApprovedAmount ==
  Enforcing /\ "afa.required" \in site.policy.has =>
    \A n \in DOMAIN sent :
      sent[n].act.amount > site.policy.threshold =>
        sent[n].act.amount <= grantedAt[sent[n].intent]
=============================================================================
