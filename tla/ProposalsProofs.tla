-------------------------- MODULE ProposalsProofs --------------------------
(***************************************************************************)
(* What the rail is asked to charge: proofs about module Proposals for     *)
(* every price book, keyring, mandate and set of proposals.                *)
(*                                                                         *)
(* An order is a proposal of the agent resolved at some time, under that   *)
(* proposal's intent (Orders).  That alone makes its prices the price      *)
(* book's or the seller's.  That the orders stay within the mandate needs  *)
(* what the ledger knows of them: it has one entry for each order, with    *)
(* the order's amount and SKUs, so the sum and the count the evaluators    *)
(* read are those of the orders that stand.                                *)
(***************************************************************************)
EXTENDS Proposals, OperatorProofs

Order(r, t) ==
  [act |-> ResolveToAction(r, t), intent |-> CanonicalIntent[r], at |-> t]

Orders == {Order(r, t) : r \in Known, t \in 0 .. MaxClock}

-----------------------------------------------------------------------------
(* What a proposal resolves to.                                            *)

LEMMA ResolvedTo ==
  ASSUME NEW r \in Known, NEW t \in Nat
  PROVE  /\ ResolveToAction(r, t).name = r.name
         /\ ResolveToAction(r, t).priced = Lines(r, QuotesHold(r, t))
         /\ DOMAIN ResolveToAction(r, t).priced = 1 .. Len(r.basket)
         /\ DOMAIN r.basket = 1 .. Len(r.basket) /\ Len(r.basket) \in Nat
         /\ ResolveToAction(r, t).amount =
              IF r.basket = <<>> THEN r.amount
              ELSE Total(DOMAIN ResolveToAction(r, t).priced,
                         LineAmounts(ResolveToAction(r, t).priced))
<1>1. QuotesHold(r, t) \in BOOLEAN
  BY DEF QuotesHold
<1>2. r \in Proposed
  BY DEF Known
<1>3. DOMAIN r.basket = 1 .. Len(r.basket) /\ Len(r.basket) \in Nat
  BY <1>2, ProposalsAssumption
<1> QED
  <2>1. ResolveToAction(r, t) = Action(r, QuotesHold(r, t))
    BY <1>1 DEF ResolveToAction, Resolutions
  <2>2. DOMAIN Lines(r, QuotesHold(r, t)) = 1 .. Len(r.basket)
    BY <1>3 DEF Lines
  <2> QED
    BY <1>3, <2>1, <2>2 DEF Action

(* Each line was priced by the book, or by a quote that holds.             *)
Priced(l, name, t) ==
  /\ l.price \in Nat /\ l.qty \in Nat /\ l.sku \in DOMAIN Book
  /\ IF l.quote = Missing THEN l.price = Book[l.sku].price
     ELSE /\ l.price = l.quote.price
          /\ VerifyQuote(l.quote, name, l.sku, t)
          /\ {l.quote.issued, l.quote.expires} \subseteq Int

LEMMA LinePriced ==
  ASSUME NEW r \in Known, NEW t \in Nat,
         NEW k \in DOMAIN ResolveToAction(r, t).priced
  PROVE  Priced(ResolveToAction(r, t).priced[k], r.name, t)
<1> DEFINE quoted == QuotesHold(r, t)
           it == r.basket[k]
           l == ResolveToAction(r, t).priced[k]
<1>1. r \in Proposed /\ k \in DOMAIN r.basket
  BY ResolvedTo, ProposalsAssumption DEF Known
<1>0. ResolveToAction(r, t).priced = Lines(r, quoted)
  BY ResolvedTo
<1>2. l = [sku |-> it.sku, qty |-> it.qty,
           quote |-> IF quoted THEN it.quote ELSE Missing,
           price |-> UnitPrice(it, quoted)]
  BY <1>0, <1>1 DEF Lines
<1>3. it.sku \in DOMAIN Book /\ Book[it.sku].price \in Nat
  BY <1>1, ProposalsAssumption DEF Known
<1>4. it.qty \in Nat
  BY <1>1, ProposalsAssumption
<1>5. CASE quoted /\ it.quote # Missing
  <2>1. VerifyQuote(it.quote, r.name, it.sku, t)
    BY <1>1, <1>5 DEF QuotesHold
  <2>2. {it.quote.price, it.quote.issued, it.quote.expires} \subseteq Int
    BY <1>1, <1>5, ProposalsAssumption
  <2>3. l.price = it.quote.price /\ l.quote = it.quote
    BY <1>2, <1>5 DEF UnitPrice
  <2>4. it.quote.price \in Nat
    BY <2>1, <2>2 DEF VerifyQuote
  <2> QED
    <3>1. l.sku = it.sku /\ l.qty = it.qty
      BY <1>2
    <3> SUFFICES Priced(l, r.name, t)
      OBVIOUS
    <3> HIDE DEF l, it
    <3> QED
      BY <1>3, <1>4, <1>5, <2>1, <2>2, <2>3, <2>4, <3>1 DEF Priced
<1>6. CASE ~(quoted /\ it.quote # Missing)
  <2>1. l.quote = Missing /\ l.price = Book[it.sku].price
    BY <1>2, <1>6 DEF UnitPrice
  <2> QED
    BY <1>2, <1>3, <1>4, <2>1 DEF Priced
<1> QED
  BY <1>5, <1>6

(* The total of a basket is an amount of paise.                            *)
LEMMA AmountType ==
  ASSUME NEW r \in Known, NEW t \in Nat
  PROVE  ResolveToAction(r, t).amount \in Nat
<1> DEFINE priced == ResolveToAction(r, t).priced
<1>1. CASE r.basket = <<>>
  <2>1. r \in Proposed
    BY DEF Known
  <2> QED
    BY <1>1, <2>1, ResolvedTo, ProposalsAssumption
<1>2. CASE r.basket # <<>>
  <2>1. IsFiniteSet(DOMAIN priced)
    <3>1. DOMAIN priced = 1 .. Len(r.basket) /\ Len(r.basket) \in Nat
      BY ResolvedTo
    <3> HIDE DEF priced
    <3> QED
      BY <3>1, FS_Interval
  <2>2. \A k \in DOMAIN priced : LineAmounts(priced)[k] \in Nat
    <3> TAKE k \in DOMAIN priced
    <3>1. priced[k].qty \in Nat /\ priced[k].price \in Nat
      BY LinePriced DEF Priced
    <3>2. LineAmounts(priced)[k] = priced[k].qty * priced[k].price
      BY DEF LineAmounts
    <3> HIDE DEF priced
    <3> QED
      BY <3>1, <3>2
  <2>3. ResolveToAction(r, t).amount = Total(DOMAIN priced, LineAmounts(priced))
    BY <1>2, ResolvedTo
  <2> HIDE DEF priced
  <2> QED
    BY <2>1, <2>2, <2>3, UnitsFinite
<1> QED
  BY <1>1, <1>2
-----------------------------------------------------------------------------
(* When every clause allows.                                               *)

LEMMA ClauseVerdicts ==
  ASSUME NEW r \in Known, NEW t \in Nat
  PROVE  /\ Others(r, t) \subseteq Verdict
         /\ Others(r, t) \cup
              {AfaRequired(ResolveToAction(r, t), CanonicalIntent[r] \in approved)}
              \subseteq Verdict
BY DEF Others, Verdict, DenyIf, BudgetPerTransaction, BudgetTotal, BudgetPerItem,
       MerchantAllow, CategoryDeny, ItemDenyRecent, Velocity, TimeWindow,
       QuantityMaxPerItem, AfaRequired

LEMMA AllowsEach ==
  ASSUME NEW r \in Known, NEW t \in Nat, EvaluateAll(r, t) = "ALLOW"
  PROVE  LET act == ResolveToAction(r, t)
         IN  /\ BudgetPerTransaction(act) = "ALLOW" /\ BudgetTotal(act) = "ALLOW"
             /\ BudgetPerItem(act) = "ALLOW" /\ MerchantAllow(act) = "ALLOW"
             /\ CategoryDeny(act) = "ALLOW" /\ ItemDenyRecent(act) = "ALLOW"
             /\ Velocity = "ALLOW" /\ TimeWindow(t) = "ALLOW"
             /\ QuantityMaxPerItem(act) = "ALLOW"
             /\ AfaRequired(act, CanonicalIntent[r] \in approved) = "ALLOW"
<1> DEFINE act == ResolveToAction(r, t)
           all == Others(r, t) \cup {AfaRequired(act, CanonicalIntent[r] \in approved)}
<1>1. all \subseteq Verdict /\ Combine(all) = "ALLOW"
  BY ClauseVerdicts DEF EvaluateAll
<1>2. all \subseteq {"ALLOW"}
  <2> HIDE DEF all
  <2> QED
    BY <1>1, CombineFailsClosed
<1> QED
  BY <1>2 DEF Others

(* In a basket with one line for each SKU the lines name different SKUs.   *)
LEMMA LinesApart ==
  ASSUME NEW r \in Known, NEW t \in Nat, OneLinePerSku(ResolveToAction(r, t))
  PROVE  LET priced == ResolveToAction(r, t).priced IN
         \A j, k \in DOMAIN priced : priced[j].sku = priced[k].sku => j = k
<1> DEFINE priced == ResolveToAction(r, t).priced
           skus == SkusOf(priced)
           f == [j \in DOMAIN priced |-> priced[j].sku]
<1>1. DOMAIN priced = 1 .. Len(r.basket) /\ Len(r.basket) \in Nat
  BY ResolvedTo
<1>2. f \in Surjection(DOMAIN priced, skus)
  BY DEF SkusOf, Surjection
<1>3. IsFiniteSet(DOMAIN priced) /\ Cardinality(DOMAIN priced) = Cardinality(skus)
  BY <1>1, FS_Interval DEF OneLinePerSku
<1>4. f \in Injection(DOMAIN priced, skus)
  <2> HIDE DEF f, priced, skus
  <2> QED  BY <1>2, <1>3, FS_SurjSameCardinalityImpliesInj
<1>5. \A i, j \in DOMAIN priced : f[i] = f[j] => i = j
  BY <1>4 DEF Injection, IsInjective
<1> QED  BY <1>5

(* What an order that every clause allows leaves to say about it alone.    *)
LEMMA AllowedWithin ==
  ASSUME BasketTypes, NEW r \in Known, EvaluateAll(r, time) = "ALLOW"
  PROVE  OrderWithin(site.policy, Order(r, time))
<1> DEFINE act == ResolveToAction(r, time)
           p == site.policy
           o == Order(r, time)
<1>1. time \in Nat /\ p \in Policies /\ site.policy \in Policies
  BY ProposalsAssumption DEF BasketTypes
<1>2. /\ o.act = act /\ o.intent = CanonicalIntent[r] /\ o.at = time
  BY DEF Order
<1>3. /\ {p.total, p.tx, p.item, p.velocity, p.units, p.threshold} \subseteq Nat
      /\ {p.after, p.before} \subseteq Int
  BY <1>1, ProposalsAssumption
<1>4. act.amount \in Nat
  BY <1>1, AmountType
<1>5. "budget.per_transaction" \in p.has => act.amount <= p.tx
  BY <1>1, <1>3, <1>4, AllowsEach DEF BudgetPerTransaction, DenyIf
<1>6. "afa.required" \in p.has =>
        act.amount <= p.threshold \/ CanonicalIntent[r] \in DOMAIN grantedAt
  BY <1>1, <1>3, <1>4, AllowsEach DEF AfaRequired, BasketTypes
<1>7. "time.window" \in p.has => time \in p.after .. (p.before - 1)
  BY <1>1, <1>3, AllowsEach DEF TimeWindow, DenyIf
<1>8. "merchant.allow" \in p.has /\ act.priced # <<>> =>
        Merchant(act.name) \in p.merchants \ {Missing}
  BY <1>1, AllowsEach DEF MerchantAllow, DenyIf
<1>9. "category.deny" \in p.has =>
        \A s \in SkusOf(act.priced) : Category(s) \notin p.denied \cup {Missing}
  BY <1>1, AllowsEach DEF CategoryDeny
<1>10. ASSUME NEW k \in DOMAIN act.priced
       PROVE  /\ "budget.per_item" \in p.has =>
                    act.priced[k].qty * act.priced[k].price <= p.item
              /\ "quantity.max_per_item" \in p.has => act.priced[k].qty <= p.units
  <2>1. act.priced[k].qty \in Nat /\ act.priced[k].price \in Nat
    BY <1>1, LinePriced DEF Priced
  <2>2. act.priced[k].qty * act.priced[k].price \in Nat
    BY <2>1
  <2>3. "budget.per_item" \in p.has => ~(LineAmounts(act.priced)[k] > p.item)
    BY <1>1, AllowsEach DEF BudgetPerItem, DenyIf
  <2>4. "quantity.max_per_item" \in p.has => ~(act.priced[k].qty > p.units)
    BY <1>1, AllowsEach DEF QuantityMaxPerItem, DenyIf
  <2>5. LineAmounts(act.priced)[k] = act.priced[k].qty * act.priced[k].price
    BY DEF LineAmounts
  <2> QED
    BY <1>3, <2>1, <2>2, <2>3, <2>4, <2>5
<1>11. ASSUME "quantity.max_per_item" \in p.has, OneLinePerSku(act),
              NEW s \in SkusOf(act.priced)
       PROVE  UnitsOf(act.priced, s) <= p.units
  <2> DEFINE priced == act.priced
             qty == [k \in DOMAIN priced |-> priced[k].qty]
  <2>1. PICK k \in DOMAIN priced : priced[k].sku = s
    BY DEF SkusOf
  <2>2. {j \in DOMAIN priced : priced[j].sku = s} = {k}
    BY <1>1, <1>11, <2>1, LinesApart
  <2>3. qty[k] \in Nat /\ qty[k] <= p.units
    BY <1>1, <1>10, <1>11, LinePriced DEF Priced
  <2>4. UnitsOf(priced, s) = Total({k}, qty)
    BY <2>2 DEF UnitsOf
  <2>5. Units({k}, qty) = {k} \X (1 .. qty[k])
    BY DEF Units
  <2> HIDE DEF qty, priced
  <2>6. Total({k}, qty) = qty[k]
    BY <2>3, <2>5, UnitsOfOne DEF Total
  <2>7. UnitsOf(priced, s) <= p.units
    BY <2>3, <2>4, <2>6
  <2> QED  BY <2>7 DEF priced
<1> HIDE DEF act
<1> QED
  BY <1>2, <1>5, <1>6, <1>7, <1>8, <1>9, <1>10, <1>11 DEF OrderWithin
-----------------------------------------------------------------------------
(* The invariant.                                                          *)

(* The ledger's entries and the orders correspond.                         *)
Filed ==
  /\ IsFiniteSet(DOMAIN ledger)
  /\ sent \in Seq(Orders)
  /\ \A n \in DOMAIN sent :
       /\ sent[n].intent \in DOMAIN ledger
       /\ ledger[sent[n].intent].amount = sent[n].act.amount
       /\ ledger[sent[n].intent].skus = SkusOf(sent[n].act.priced)
  /\ \A m, n \in DOMAIN sent : sent[m].intent = sent[n].intent => m = n

(* What the evaluators add up is what stands.                              *)
Counted ==
  /\ Total(Standing, [n \in Standing |-> sent[n].act.amount]) = SpentTotal
  /\ Cardinality(Standing) = Cardinality(LiveEntries)

ProposalInv == BasketTypes /\ Filed /\ Counted /\ WithinMandate

LEMMA ProposalInit == BasketInit => ProposalInv
<1> SUFFICES ASSUME BasketInit PROVE ProposalInv
  OBVIOUS
<1>1. DOMAIN ledger = {} /\ sent = <<>> /\ DOMAIN sent = {} /\ Len(sent) = 0
  BY DEF BasketInit, NoEntries
<1>2. BasketTypes
  BY <1>1, ProposalsAssumption DEF BasketInit, BasketTypes, NoEntries
<1>3. Filed
  <2>1. <<>> \in Seq(Orders)
    OBVIOUS
  <2> QED
    BY <1>1, <2>1, FS_EmptySet DEF Filed
<1>4. Standing = {} /\ LiveEntries = {}
  BY <1>1 DEF Standing, LiveEntries
<1>5. Counted
  <2>1. Units({}, [n \in {} |-> sent[n].act.amount]) = {}
        /\ Units({}, [i \in {} |-> ledger[i].amount]) = {}
    BY DEF Units
  <2> QED
    BY <1>4, <2>1, FS_EmptySet DEF Counted, SpentTotal, Total
<1>6. WithinMandate
  <2>1. site.policy \in Policies
    BY DEF BasketInit
  <2>2. Total(Standing, [n \in Standing |-> sent[n].act.amount]) = 0
    <3>1. Units({}, [n \in {} |-> sent[n].act.amount]) = {}
      BY DEF Units
    <3> QED
      BY <1>4, <3>1, FS_EmptySet DEF Total
  <2>3. Cardinality(Standing) = 0
    BY <1>4, FS_EmptySet
  <2>4. site.policy.total \in Nat /\ site.policy.velocity \in Nat
    BY <2>1, ProposalsAssumption
  <2>5. StandingWithin(site.policy)
    BY <1>4, <2>2, <2>3, <2>4 DEF StandingWithin
  <2> QED
    BY <1>1, <2>5 DEF WithinMandate
<1> QED
  BY <1>2, <1>3, <1>5, <1>6 DEF ProposalInv

(* A step that sends no order and withdraws no grant.                      *)
Quiet ==
  /\ UNCHANGED <<site, ledger, sent>>
  /\ DOMAIN grantedAt \subseteq DOMAIN grantedAt'

LEMMA QuietSteps ==
  ASSUME ProposalInv, [BasketNext]_basketVars
  PROVE  \/ /\ Quiet
            /\ time' \in 0 .. MaxClock /\ approved' \subseteq DOMAIN grantedAt'
         \/ \E r \in Proposed, answer \in OrderAnswers : Execute(r, answer)
<1> DEFINE Goal == /\ Quiet /\ time' \in 0 .. MaxClock
                   /\ approved' \subseteq DOMAIN grantedAt'
<1>0. time \in 0 .. MaxClock /\ approved \subseteq DOMAIN grantedAt
  BY DEF ProposalInv, BasketTypes
<1>1. ASSUME NEW r \in Proposed, Withhold(r) PROVE Goal
  BY <1>0, <1>1 DEF Withhold, Quiet
<1>2. ASSUME NEW i \in DOMAIN asked, Approve(i) PROVE Goal
  BY <1>0, <1>2 DEF Approve, Quiet
<1>3. ASSUME NEW i \in DOMAIN asked, Reject(i) PROVE Goal
  BY <1>0, <1>3 DEF Reject, Quiet
<1>4. ASSUME TimePasses PROVE Goal
  BY <1>0, <1>4, ProposalsAssumption DEF TimePasses, Quiet
<1>5. CASE UNCHANGED basketVars
  BY <1>0, <1>5 DEF basketVars, Quiet
<1> QED
  BY <1>1, <1>2, <1>3, <1>4, <1>5 DEF BasketNext

LEMMA QuietKeeps ==
  ASSUME ProposalInv, Quiet, time' \in 0 .. MaxClock,
         approved' \subseteq DOMAIN grantedAt'
  PROVE  ProposalInv'
<1>1. BasketTypes'
  BY DEF ProposalInv, BasketTypes, Quiet
<1>2. Standing' = Standing /\ LiveEntries' = LiveEntries /\ SpentTotal' = SpentTotal
  BY DEF Quiet, Standing, LiveEntries, SpentTotal
<1>3. Filed' /\ Counted'
  BY <1>2 DEF ProposalInv, Filed, Counted, Quiet
<1>4. ASSUME NEW o, OrderWithin(site.policy, o)
      PROVE  OrderWithin(site.policy, o)'
  BY <1>4 DEF OrderWithin, Quiet, Merchant, Category
<1>5. WithinMandate'
  BY <1>2, <1>4 DEF ProposalInv, WithinMandate, StandingWithin, Quiet
<1> QED
  BY <1>1, <1>3, <1>5 DEF ProposalInv
-----------------------------------------------------------------------------
(* An order is sent.                                                       *)

(* The state the rail's answer leaves the entry in.                        *)
Ending(answer) == CASE answer = "ok"      -> "COMMITTED"
                    [] answer = "refused" -> "FAILED"
                    [] answer = "timeout" -> "PENDING"

Entry(r, answer) ==
  [state |-> Ending(answer), amount |-> ResolveToAction(r, time).amount,
   skus |-> SkusOf(ResolveToAction(r, time).priced)]

(* All that an order sent changes, and what it was sent on.                *)
Sent(r, answer) ==
  /\ r \in Known /\ time \in Nat /\ time \in 0 .. MaxClock
  /\ CanonicalIntent[r] \notin DOMAIN ledger
  /\ Enforcing => EvaluateAll(r, time) = "ALLOW"
  /\ DOMAIN ledger' = DOMAIN ledger \cup {CanonicalIntent[r]}
  /\ \A j \in DOMAIN ledger : ledger'[j] = ledger[j]
  /\ ledger'[CanonicalIntent[r]] = Entry(r, answer)
  /\ Ending(answer) \in {"PENDING", "COMMITTED", "FAILED"}
  /\ sent' = Append(sent, Order(r, time))
  /\ Order(r, time) \in Orders /\ sent' \in Seq(Orders)
  /\ Len(sent) \in Nat /\ Len(sent') <= MaxOrders
  /\ DOMAIN sent' = DOMAIN sent \cup {Len(sent) + 1}
  /\ Len(sent) + 1 \notin DOMAIN sent
  /\ \A n \in DOMAIN sent : sent'[n] = sent[n]
  /\ sent'[Len(sent) + 1] = Order(r, time)
  /\ approved' \subseteq approved /\ UNCHANGED <<site, time, grantedAt>>

LEMMA ExecuteStep ==
  ASSUME ProposalInv, NEW r \in Proposed, NEW answer \in OrderAnswers,
         Execute(r, answer)
  PROVE  Sent(r, answer)
<1>1. r \in Known /\ CanonicalIntent[r] \notin DOMAIN ledger
  BY DEF Execute, New
<1>2. time \in 0 .. MaxClock /\ time \in Nat
  BY ProposalsAssumption DEF ProposalInv, BasketTypes
<1>3. Enforcing => EvaluateAll(r, time) = "ALLOW"
  BY DEF Execute
<1>4. /\ DOMAIN ledger' = DOMAIN ledger \cup {CanonicalIntent[r]}
      /\ \A j \in DOMAIN ledger : ledger'[j] = ledger[j]
      /\ ledger'[CanonicalIntent[r]] = Entry(r, answer)
  BY <1>1 DEF Execute, Entry, Ending
<1>5. Ending(answer) \in {"PENDING", "COMMITTED", "FAILED"}
  BY DEF Ending, OrderAnswers
<1>6. Order(r, time) \in Orders
  BY <1>1, <1>2 DEF Orders
<1>7. sent \in Seq(Orders) /\ sent' = Append(sent, Order(r, time))
  BY DEF ProposalInv, Filed, Execute, Order
<1>8. /\ sent' \in Seq(Orders) /\ Len(sent) \in Nat
      /\ Len(sent') = Len(sent) + 1
      /\ DOMAIN sent = 1 .. Len(sent)
      /\ DOMAIN sent' = 1 .. Len(sent) + 1
      /\ \A n \in DOMAIN sent : sent'[n] = sent[n]
      /\ sent'[Len(sent) + 1] = Order(r, time)
  BY <1>6, <1>7
<1>9. Len(sent') <= MaxOrders
  BY <1>8, ProposalsAssumption DEF Execute
<1>10. approved' \subseteq approved /\ UNCHANGED <<site, time, grantedAt>>
  BY DEF Execute
<1> QED
  BY <1>1, <1>2, <1>3, <1>4, <1>5, <1>6, <1>7, <1>8, <1>9, <1>10 DEF Sent

LEMMA ExecuteFiled ==
  ASSUME ProposalInv, NEW r \in Proposed, NEW answer \in OrderAnswers,
         Execute(r, answer)
  PROVE  BasketTypes' /\ Filed'
<1> DEFINE i == CanonicalIntent[r]
           new == Len(sent) + 1
<1>0. BasketTypes /\ Filed /\ Sent(r, answer)
  BY ExecuteStep DEF ProposalInv
<1>1. ResolveToAction(r, time).amount \in Nat
  BY <1>0, AmountType DEF Sent
<1>2. BasketTypes'
  <2>1. \A j \in DOMAIN ledger' :
          /\ ledger'[j].state \in {"PENDING", "COMMITTED", "FAILED"}
          /\ ledger'[j].amount \in Nat
    BY <1>0, <1>1 DEF Sent, BasketTypes, Entry
  <2> QED
    BY <1>0, <2>1 DEF Sent, BasketTypes
<1>3. IsFiniteSet(DOMAIN ledger')
  BY <1>0, FS_AddElement DEF Sent, Filed
<1>4. /\ Order(r, time).intent = i
      /\ Order(r, time).act = ResolveToAction(r, time)
  BY DEF Order
<1>5. \A n \in DOMAIN sent' :
        /\ sent'[n].intent \in DOMAIN ledger'
        /\ ledger'[sent'[n].intent].amount = sent'[n].act.amount
        /\ ledger'[sent'[n].intent].skus = SkusOf(sent'[n].act.priced)
  BY <1>0, <1>4 DEF Sent, Filed, Entry
<1>6. \A m, n \in DOMAIN sent' :
        sent'[m].intent = sent'[n].intent => m = n
  BY <1>0, <1>4 DEF Sent, Filed
<1>7. Filed'
  BY <1>0, <1>3, <1>5, <1>6 DEF Sent, Filed
<1> QED
  BY <1>2, <1>7

(* The new order stands when, and only when, its entry counts.             *)
LEMMA ExecuteSets ==
  ASSUME ProposalInv, NEW r \in Proposed, NEW answer \in OrderAnswers,
         Execute(r, answer)
  PROVE  /\ IsFiniteSet(LiveEntries) /\ IsFiniteSet(Standing)
         /\ CanonicalIntent[r] \notin LiveEntries /\ Len(sent) + 1 \notin Standing
         /\ IF Ending(answer) = "FAILED"
            THEN LiveEntries' = LiveEntries /\ Standing' = Standing
            ELSE /\ LiveEntries' = LiveEntries \cup {CanonicalIntent[r]}
                 /\ Standing' = Standing \cup {Len(sent) + 1}
<1> DEFINE i == CanonicalIntent[r]
           new == Len(sent) + 1
<1>0. BasketTypes /\ Filed /\ Sent(r, answer)
  BY ExecuteStep DEF ProposalInv
<1>1. IsFiniteSet(LiveEntries) /\ i \notin LiveEntries
  <2>1. LiveEntries \subseteq DOMAIN ledger
    BY DEF LiveEntries
  <2> QED
    BY <1>0, <2>1, FS_Subset DEF Sent, Filed
<1>2. IsFiniteSet(Standing) /\ new \notin Standing
  <2>1. Standing \subseteq 1 .. Len(sent) /\ Len(sent) \in Nat
    BY <1>0 DEF Sent, Standing, Filed
  <2>2. IsFiniteSet(1 .. Len(sent))
    BY <2>1, FS_Interval
  <2>3. IsFiniteSet(Standing)
    BY <2>1, <2>2, FS_Subset
  <2>4. new \notin 1 .. Len(sent)
    BY <2>1
  <2> QED
    BY <2>1, <2>3, <2>4
<1>3. LiveEntries' = IF Ending(answer) = "FAILED" THEN LiveEntries ELSE LiveEntries \cup {i}
  <2>1. ledger'[i].state = Ending(answer)
    BY <1>0 DEF Sent, Entry
  <2>2. LiveEntries' = {j \in DOMAIN ledger' : ledger'[j].state \in {"PENDING", "COMMITTED"}}
    BY DEF LiveEntries
  <2>3. \A j \in DOMAIN ledger : j \in LiveEntries' <=> j \in LiveEntries
    BY <1>0, <2>2 DEF Sent, LiveEntries
  <2>4. i \in LiveEntries' <=> Ending(answer) # "FAILED"
    BY <1>0, <2>1, <2>2 DEF Sent
  <2>5. LiveEntries' \subseteq DOMAIN ledger \cup {i} /\ LiveEntries \subseteq DOMAIN ledger
    BY <1>0, <2>2 DEF Sent, LiveEntries
  <2> QED
    BY <1>1, <2>3, <2>4, <2>5
<1>4. Standing' = IF Ending(answer) = "FAILED" THEN Standing
                  ELSE Standing \cup {new}
  <2>1. /\ sent'[new].intent = i
        /\ ledger'[i].state = Ending(answer)
    BY <1>0 DEF Sent, Entry, Order
  <2>2. Standing' = {n \in DOMAIN sent' : ledger'[sent'[n].intent].state # "FAILED"}
    BY DEF Standing
  <2>3. \A n \in DOMAIN sent : n \in Standing' <=> n \in Standing
    BY <1>0, <2>2 DEF Sent, Standing, Filed
  <2>4. new \in Standing' <=> Ending(answer) # "FAILED"
    BY <1>0, <2>1, <2>2 DEF Sent
  <2>5. Standing' \subseteq DOMAIN sent \cup {new} /\ Standing \subseteq DOMAIN sent
    BY <1>0, <2>2 DEF Sent, Standing
  <2>6. new \notin Standing
    BY <1>2
  <2> HIDE DEF new
  <2> QED
    BY <2>3, <2>4, <2>5, <2>6
<1> QED
  BY <1>1, <1>2, <1>3, <1>4
(* What the evaluators add up grows by the order's amount.                 *)
LEMMA SpentGrows ==
  ASSUME ProposalInv, NEW r \in Proposed, NEW answer \in OrderAnswers,
         Execute(r, answer), Ending(answer) # "FAILED"
  PROVE  SpentTotal \in Nat /\ SpentTotal' = SpentTotal + ResolveToAction(r, time).amount
<1> DEFINE i == CanonicalIntent[r]
           a == ResolveToAction(r, time).amount
           held == [j \in LiveEntries |-> ledger[j].amount]
           after == [j \in LiveEntries \cup {i} |-> ledger'[j].amount]
<1>0. BasketTypes /\ Sent(r, answer)
  BY ExecuteStep DEF ProposalInv
<1>1. /\ \A j \in LiveEntries : ledger'[j] = ledger[j] /\ ledger[j].amount \in Nat
      /\ ledger'[i].amount = a /\ a \in Nat
  BY <1>0, AmountType DEF Sent, LiveEntries, BasketTypes, Entry
<1>2. IsFiniteSet(LiveEntries) /\ i \notin LiveEntries /\ LiveEntries' = LiveEntries \cup {i}
  BY ExecuteSets
<1>3. /\ \A j \in LiveEntries \cup {i} : after[j] \in Nat
      /\ after[i] = a /\ \A j \in LiveEntries : after[j] = held[j] /\ held[j] \in Nat
  BY <1>1
<1>4. SpentTotal = Total(LiveEntries, held) /\ SpentTotal' = Total(LiveEntries \cup {i}, after)
  BY <1>2 DEF SpentTotal
<1> HIDE DEF i, held, after
<1>5. Total(LiveEntries \cup {i}, after) = Total(LiveEntries, after) + after[i]
  <2>1. IsFiniteSet(LiveEntries) /\ i \notin LiveEntries
    BY <1>2
  <2>2. \A j \in LiveEntries \cup {i} : after[j] \in Nat
    BY <1>3
  <2> QED
    BY <2>1, <2>2, TotalAdd
<1>6. Total(LiveEntries, after) = Total(LiveEntries, held) /\ Total(LiveEntries, held) \in Nat
  BY <1>2, <1>3, TotalSame, UnitsFinite
<1> QED
  BY <1>3, <1>4, <1>5, <1>6

LEMMA ExecuteCounted ==
  ASSUME ProposalInv, NEW r \in Proposed, NEW answer \in OrderAnswers,
         Execute(r, answer)
  PROVE  Counted'
<1> DEFINE i == CanonicalIntent[r]
           new == Len(sent) + 1
           a == ResolveToAction(r, time).amount
           held == [j \in LiveEntries |-> ledger[j].amount]
           charged == [n \in Standing |-> sent[n].act.amount]
<1>0. BasketTypes /\ Filed /\ Counted /\ Sent(r, answer)
  BY ExecuteStep DEF ProposalInv
<1>1. /\ \A j \in LiveEntries : ledger'[j] = ledger[j] /\ ledger[j].amount \in Nat
      /\ ledger'[i].amount = a
  BY <1>0 DEF Sent, LiveEntries, BasketTypes, Entry
<1>2. /\ \A n \in Standing : sent'[n] = sent[n] /\ sent[n].act.amount \in Nat
      /\ sent'[new].act.amount = a
  BY <1>0 DEF Sent, Standing, Filed, BasketTypes, Order
<1>3. a \in Nat
  BY <1>0, AmountType DEF Sent
<1>4. CASE Ending(answer) = "FAILED"
  <2>1. LiveEntries' = LiveEntries /\ Standing' = Standing
    BY <1>4, ExecuteSets
  <2>2. [j \in LiveEntries |-> ledger'[j].amount] = held
        /\ [n \in Standing |-> sent'[n].act.amount] = charged
    BY <1>1, <1>2
  <2> QED
    BY <1>0, <2>1, <2>2 DEF Counted, SpentTotal
<1>5. CASE Ending(answer) # "FAILED"
  <2>1. /\ IsFiniteSet(LiveEntries) /\ IsFiniteSet(Standing)
        /\ i \notin LiveEntries /\ new \notin Standing
        /\ LiveEntries' = LiveEntries \cup {i} /\ Standing' = Standing \cup {new}
    BY <1>5, ExecuteSets
  <2> DEFINE charged2 == [n \in Standing \cup {new} |-> sent'[n].act.amount]
  <2>2. SpentTotal' = SpentTotal + a
    BY <1>5, SpentGrows
  <2>3. Total(Standing \cup {new}, charged2) = Total(Standing, charged) + a
    <3>1. \A n \in Standing \cup {new} : charged2[n] \in Nat
      BY <1>2, <1>3
    <3>2. charged2[new] = a /\ \A n \in Standing : charged2[n] = charged[n]
      BY <1>2
    <3> HIDE DEF charged, charged2, new
    <3>3. Total(Standing \cup {new}, charged2) = Total(Standing, charged2) + charged2[new]
      BY <2>1, <3>1, TotalAdd
    <3>4. Total(Standing, charged2) = Total(Standing, charged)
      BY <3>2, TotalSame
    <3> QED
      BY <3>2, <3>3, <3>4
  <2>4. Cardinality(LiveEntries') = Cardinality(LiveEntries) + 1
        /\ Cardinality(Standing') = Cardinality(Standing) + 1
    BY <2>1, FS_AddElement
  <2>5. Total(Standing, charged) = SpentTotal
        /\ Cardinality(Standing) = Cardinality(LiveEntries)
    BY <1>0 DEF Counted
  <2>6. Total(Standing, [n \in Standing |-> sent[n].act.amount])'
          = Total(Standing \cup {new}, charged2)
    BY <2>1
  <2> HIDE DEF charged, charged2, a, new
  <2> QED
    BY <2>2, <2>3, <2>4, <2>5, <2>6 DEF Counted
<1> QED
  BY <1>4, <1>5

LEMMA ExecuteWithin ==
  ASSUME ProposalInv, NEW r \in Proposed, NEW answer \in OrderAnswers,
         Execute(r, answer)
  PROVE  WithinMandate'
<1> DEFINE i == CanonicalIntent[r]
           new == Len(sent) + 1
           act == ResolveToAction(r, time)
           p == site.policy
<1> SUFFICES ASSUME Enforcing
             PROVE  /\ StandingWithin(p)'
                    /\ \A n \in DOMAIN sent' : OrderWithin(p, sent[n])'
  BY DEF WithinMandate
<1>0. BasketTypes /\ Filed /\ Counted /\ Sent(r, answer) /\ StandingWithin(p)
      /\ \A n \in DOMAIN sent : OrderWithin(p, sent[n])
  BY ExecuteStep DEF ProposalInv, WithinMandate
<1>1. /\ r \in Known /\ time \in Nat /\ EvaluateAll(r, time) = "ALLOW"
      /\ p' = p /\ p \in Policies
  BY <1>0 DEF Sent, BasketTypes
<1>2. \A n \in DOMAIN sent' : OrderWithin(p, sent[n])'
  <2>1. OrderWithin(p, Order(r, time))
    BY <1>0, <1>1, AllowedWithin
  <2>2. \A n \in DOMAIN sent' : OrderWithin(p, sent'[n])
    BY <1>0, <2>1 DEF Sent
  <2>3. UNCHANGED <<site, grantedAt>>
    BY <1>0 DEF Sent
  <2> QED
    BY <2>2, <2>3 DEF OrderWithin, Merchant, Category
<1>3. CASE Ending(answer) = "FAILED"
  <2>1. Standing' = Standing /\ \A n \in Standing : sent'[n] = sent[n]
    BY <1>0, <1>3, ExecuteSets DEF Standing, Sent
  <2> QED
    BY <1>0, <1>1, <1>2, <2>1 DEF StandingWithin
<1>4. CASE Ending(answer) # "FAILED"
  <2>1. /\ IsFiniteSet(LiveEntries) /\ IsFiniteSet(Standing)
        /\ i \notin LiveEntries /\ new \notin Standing
        /\ LiveEntries' = LiveEntries \cup {i} /\ Standing' = Standing \cup {new}
    BY <1>4, ExecuteSets
  <2>2. Counted'
    BY ExecuteCounted
  <2>3. p.total \in Nat /\ p.velocity \in Nat
    BY <1>1, ProposalsAssumption
  <2>4. "budget.total" \in p.has => SpentTotal' <= p.total
    <3>1. act.amount \in Nat
      BY <1>1, AmountType
    <3>2. SpentTotal \in Nat /\ SpentTotal' = SpentTotal + act.amount
      BY <1>4, SpentGrows
    <3>3. "budget.total" \in p.has => ~(SpentTotal + act.amount > p.total)
      BY <1>1, AllowsEach DEF BudgetTotal, DenyIf
    <3> HIDE DEF act, p
    <3> QED
      BY <2>3, <3>1, <3>2, <3>3
  <2>5. "velocity" \in p.has => Cardinality(Standing') <= p.velocity
    <3>1. Cardinality(Standing') = Cardinality(Standing) + 1
          /\ Cardinality(Standing) \in Nat
      BY <2>1, FS_AddElement, FS_CardinalityType
    <3>2. "velocity" \in p.has => ~(Cardinality(LiveEntries) >= p.velocity)
      BY <1>1, AllowsEach DEF Velocity, DenyIf
    <3> QED
      BY <1>0, <2>3, <3>1, <3>2 DEF Counted
  <2>6. ASSUME "item.deny_recent" \in p.has,
               NEW m \in Standing', NEW n \in Standing', m # n
        PROVE  SkusOf(sent'[m].act.priced) \cap SkusOf(sent'[n].act.priced) = {}
    <3>1. \A j \in LiveEntries : SkusOf(act.priced) \cap ledger[j].skus = {}
      BY <1>1, <2>6, AllowsEach DEF ItemDenyRecent, DenyIf
    <3>2. \A k \in Standing :
            /\ sent'[k] = sent[k]
            /\ SkusOf(act.priced) \cap SkusOf(sent[k].act.priced) = {}
      <4> TAKE k \in Standing
      <4>1. k \in DOMAIN sent /\ sent[k].intent \in LiveEntries
        BY <1>0 DEF Standing, LiveEntries, Filed, BasketTypes
      <4> QED
        BY <1>0, <3>1, <4>1 DEF Filed, Sent
    <3>3. sent'[new].act = act
      BY <1>0 DEF Sent, Order
    <3>4. \A k, l \in Standing : k # l =>
            SkusOf(sent[k].act.priced) \cap SkusOf(sent[l].act.priced) = {}
      BY <1>0, <2>6 DEF StandingWithin
    <3> HIDE DEF act, new
    <3> QED
      BY <2>1, <2>6, <3>2, <3>3, <3>4
  <2>7. StandingWithin(p)'
    BY <1>1, <2>2, <2>4, <2>5, <2>6 DEF StandingWithin, Counted
  <2> QED
    BY <1>2, <2>7
<1> QED
  BY <1>3, <1>4
-----------------------------------------------------------------------------
(* The theorems.                                                           *)

LEMMA ProposalStep == ProposalInv /\ [BasketNext]_basketVars => ProposalInv'
<1> SUFFICES ASSUME ProposalInv, [BasketNext]_basketVars PROVE ProposalInv'
  OBVIOUS
<1>1. ASSUME NEW r \in Proposed, NEW answer \in OrderAnswers, Execute(r, answer)
      PROVE  ProposalInv'
  BY <1>1, ExecuteFiled, ExecuteCounted, ExecuteWithin DEF ProposalInv
<1> QED
  BY <1>1, QuietSteps, QuietKeeps

LEMMA ProposalAlways == BasketSpec => []ProposalInv
BY ProposalInit, ProposalStep, PTL DEF BasketSpec

(* The types, whatever is proposed.                                        *)
THEOREM ProposalTypes == BasketSpec => []BasketTypes
<1>1. ProposalInv => BasketTypes
  BY DEF ProposalInv
<1> QED  BY <1>1, ProposalAlways, PTL

(* Every line of every order is charged at the price book's price or at    *)
(* one its seller signed for it and that was in force.                     *)
THEOREM PricesCorrect == BasketSpec => []PricedBySeller
<1>1. ASSUME ProposalInv PROVE PricedBySeller
  <2>1. SUFFICES ASSUME NEW n \in DOMAIN sent,
                        NEW k \in DOMAIN sent[n].act.priced
        PROVE LET o == sent[n]
                  l == o.act.priced[k]
              IN  /\ l.price >= 0
                  /\ IF l.quote = Missing THEN l.price = Book[l.sku].price
                     ELSE l.price = l.quote.price /\ SignedBySeller(l.quote, o, l.sku)
    BY DEF PricedBySeller
  <2>2. sent[n] \in Orders
    BY <1>1 DEF ProposalInv, Filed
  <2>3. PICK r \in Known, t \in 0 .. MaxClock : sent[n] = Order(r, t)
    BY <2>2 DEF Orders
  <2>4. t \in Nat
    BY <2>3, ProposalsAssumption
  <2>5. /\ sent[n].act = ResolveToAction(r, t) /\ sent[n].at = t
        /\ sent[n].act.name = r.name
    BY <2>3, <2>4, ResolvedTo DEF Order
  <2>6. Priced(sent[n].act.priced[k], r.name, t)
    BY <2>4, <2>5, LinePriced
  <2> QED
    BY <2>4, <2>5, <2>6, ProposalsAssumption
       DEF Priced, VerifyQuote, SignedBySeller
<1> QED  BY <1>1, ProposalAlways, PTL

(* An enforcing gateway sends the rail nothing that its mandate, all its   *)
(* clauses together, does not permit.                                      *)
THEOREM MandateHeld == BasketSpec => []WithinMandate
<1>1. ProposalInv => WithinMandate
  BY DEF ProposalInv
<1> QED  BY <1>1, ProposalAlways, PTL

-----------------------------------------------------------------------------
(* One basket, one intent.  What a quote changes is a price, and neither   *)
(* the prices nor the spelling of the merchant are in the intent.          *)

(* A basket with one line for each SKU has lots of one line each.          *)
LEMMA LotOfOne ==
  ASSUME NEW r \in Known, NEW t \in Nat, OneLinePerSku(ResolveToAction(r, t)),
         NEW k \in DOMAIN r.basket
  PROVE  CanonicalIntent[r].lots[r.basket[k].sku] = [n \in 1 .. 1 |-> r.basket[k].qty]
<1> DEFINE priced == ResolveToAction(r, t).priced
           P == {j \in DOMAIN r.basket : r.basket[j].sku = r.basket[k].sku}
<1>1. /\ DOMAIN priced = 1 .. Len(r.basket) /\ DOMAIN r.basket = 1 .. Len(r.basket)
      /\ Len(r.basket) \in Nat /\ priced = Lines(r, QuotesHold(r, t))
  BY ResolvedTo
<1>2. \A j \in DOMAIN priced : priced[j].sku = r.basket[j].sku
  BY <1>1 DEF Lines
<1>6. \A j \in DOMAIN r.basket : r.basket[j].sku = r.basket[k].sku => j = k
  BY <1>1, <1>2, LinesApart
<1>7. P = {k} /\ Cardinality(P) = 1
  <2>1. P = {k}
    BY <1>6
  <2> QED  BY <2>1, FS_Singleton
<1>8. (CHOOSE i \in P : Cardinality({j \in P : j <= i}) = 1) = k
  <2>1. k <= k /\ {j \in P : j <= k} = P
    BY <1>1, <1>7
  <2> HIDE DEF P
  <2> QED  BY <1>7, <2>1
<1>9. r \in Proposed /\ r.basket[k].sku \in SkusOf(r.basket)
  BY DEF Known, SkusOf
<1> DEFINE lot(s) == {j \in DOMAIN r.basket : r.basket[j].sku = s}
           nth(Q, n) == CHOOSE i \in Q : Cardinality({j \in Q : j <= i}) = n
<1>10. CanonicalIntent[r].lots =
         [s \in SkusOf(r.basket) |->
            [n \in 1 .. Cardinality(lot(s)) |-> r.basket[nth(lot(s), n)].qty]]
  BY <1>9 DEF CanonicalIntent
<1>11. CanonicalIntent[r].lots[r.basket[k].sku] =
         [n \in 1 .. Cardinality(P) |-> r.basket[nth(P, n)].qty]
  BY <1>9, <1>10
<1>12. \A n \in 1 .. 1 : r.basket[nth(P, n)].qty = r.basket[k].qty
  <2> SUFFICES ASSUME NEW n \in 1 .. 1 PROVE nth(P, n) = k
    OBVIOUS
  <2>1. n = 1
    OBVIOUS
  <2> HIDE DEF P
  <2> QED  BY <1>8, <2>1
<1> HIDE DEF P, nth
<1> QED  BY <1>7, <1>11, <1>12

LEMMA SameGoodsSameIntent ==
  ASSUME NEW r \in Known, NEW t \in Nat, NEW q \in Known, NEW u \in Nat,
         OneLinePerSku(ResolveToAction(r, t)), OneLinePerSku(ResolveToAction(q, u)),
         Goods(ResolveToAction(r, t)) = Goods(ResolveToAction(q, u))
  PROVE  CanonicalIntent[r] = CanonicalIntent[q]
<1> DEFINE a == ResolveToAction(r, t)
           b == ResolveToAction(q, u)
           lotsOf(c) == {[sku |-> c.priced[k].sku, qty |-> c.priced[k].qty] :
                           k \in DOMAIN c.priced}
<1>1. /\ a.name = r.name /\ b.name = q.name
      /\ DOMAIN a.priced = DOMAIN r.basket /\ DOMAIN b.priced = DOMAIN q.basket
      /\ a.priced = Lines(r, QuotesHold(r, t)) /\ b.priced = Lines(q, QuotesHold(q, u))
  BY ResolvedTo
<1>2. /\ \A k \in DOMAIN r.basket : /\ a.priced[k].sku = r.basket[k].sku
                                   /\ a.priced[k].qty = r.basket[k].qty
      /\ \A k \in DOMAIN q.basket : /\ b.priced[k].sku = q.basket[k].sku
                                   /\ b.priced[k].qty = q.basket[k].qty
  BY <1>1 DEF Lines
<1>3. /\ Fold[a.name] = Fold[b.name] /\ lotsOf(a) = lotsOf(b)
      /\ (IF a.priced = <<>> THEN a.amount ELSE 0) = (IF b.priced = <<>> THEN b.amount ELSE 0)
  BY DEF Goods
<1>4. /\ \A k \in DOMAIN r.basket : \E j \in DOMAIN q.basket :
           r.basket[k].sku = q.basket[j].sku /\ r.basket[k].qty = q.basket[j].qty
      /\ \A k \in DOMAIN q.basket : \E j \in DOMAIN r.basket :
           q.basket[k].sku = r.basket[j].sku /\ q.basket[k].qty = r.basket[j].qty
  <2> DEFINE entry(k, c) == [sku |-> c.priced[k].sku, qty |-> c.priced[k].qty]
  <2>1. ASSUME NEW k \in DOMAIN a.priced
        PROVE  \E j \in DOMAIN b.priced :
                 a.priced[k].sku = b.priced[j].sku /\ a.priced[k].qty = b.priced[j].qty
    <3>1. entry(k, a) \in lotsOf(b)
      BY <1>3
    <3>2. PICK j \in DOMAIN b.priced : entry(k, a) = entry(j, b)
      BY <3>1
    <3>3. entry(k, a).sku = entry(j, b).sku /\ entry(k, a).qty = entry(j, b).qty
      BY <3>2
    <3> QED  BY <3>3
  <2>2. ASSUME NEW k \in DOMAIN b.priced
        PROVE  \E j \in DOMAIN a.priced :
                 b.priced[k].sku = a.priced[j].sku /\ b.priced[k].qty = a.priced[j].qty
    <3>1. entry(k, b) \in lotsOf(a)
      BY <1>3
    <3>2. PICK j \in DOMAIN a.priced : entry(k, b) = entry(j, a)
      BY <3>1
    <3>3. entry(k, b).sku = entry(j, a).sku /\ entry(k, b).qty = entry(j, a).qty
      BY <3>2
    <3> QED  BY <3>3
  <2> HIDE DEF a, b
  <2> QED  BY <1>1, <1>2, <2>1, <2>2
<1>5. SkusOf(r.basket) = SkusOf(q.basket)
  BY <1>4 DEF SkusOf
<1>6. CanonicalIntent[r].lots = CanonicalIntent[q].lots
  <2>1. /\ DOMAIN CanonicalIntent[r].lots = SkusOf(r.basket)
        /\ DOMAIN CanonicalIntent[q].lots = SkusOf(q.basket)
        /\ CanonicalIntent[r].lots =
             [s \in SkusOf(r.basket) |-> CanonicalIntent[r].lots[s]]
        /\ CanonicalIntent[q].lots =
             [s \in SkusOf(q.basket) |-> CanonicalIntent[q].lots[s]]
    BY DEF CanonicalIntent, Known
  <2>2. ASSUME NEW s \in SkusOf(r.basket)
        PROVE  CanonicalIntent[r].lots[s] = CanonicalIntent[q].lots[s]
    <3>1. PICK k \in DOMAIN r.basket : s = r.basket[k].sku
      BY DEF SkusOf
    <3>2. PICK j \in DOMAIN q.basket :
            r.basket[k].sku = q.basket[j].sku /\ r.basket[k].qty = q.basket[j].qty
      BY <1>4
    <3>3. /\ CanonicalIntent[r].lots[r.basket[k].sku] = [n \in 1 .. 1 |-> r.basket[k].qty]
          /\ CanonicalIntent[q].lots[q.basket[j].sku] = [n \in 1 .. 1 |-> q.basket[j].qty]
      BY LotOfOne
    <3> QED  BY <3>1, <3>2, <3>3
  <2> QED  BY <1>5, <2>1, <2>2
<1>7. /\ a.priced = <<>> <=> r.basket = <<>>
      /\ b.priced = <<>> <=> q.basket = <<>>
  <2>1. /\ r.basket = [k \in 1 .. Len(r.basket) |-> r.basket[k]]
        /\ q.basket = [k \in 1 .. Len(q.basket) |-> q.basket[k]]
    BY ProposalsAssumption DEF Known
  <2>2. /\ r.basket = <<>> <=> DOMAIN r.basket = {}
        /\ q.basket = <<>> <=> DOMAIN q.basket = {}
    BY <2>1
  <2>3. /\ Lines(r, QuotesHold(r, t)) = <<>> <=> DOMAIN r.basket = {}
        /\ Lines(q, QuotesHold(q, u)) = <<>> <=> DOMAIN q.basket = {}
    BY DEF Lines
  <2> QED  BY <1>1, <2>2, <2>3
<1>8. /\ r.basket = <<>> => a.amount = r.amount
      /\ q.basket = <<>> => b.amount = q.amount
  BY ResolvedTo
<1> HIDE DEF a, b
<1>9. (IF r.basket = <<>> THEN r.amount ELSE 0) = (IF q.basket = <<>> THEN q.amount ELSE 0)
  BY <1>3, <1>7, <1>8
<1>10. CanonicalIntent[r] =
         [merchant |-> Fold[r.name], lots |-> CanonicalIntent[r].lots,
          amount |-> IF r.basket = <<>> THEN r.amount ELSE 0]
  BY DEF CanonicalIntent, Known
<1>11. CanonicalIntent[q] =
         [merchant |-> Fold[q.name], lots |-> CanonicalIntent[q].lots,
          amount |-> IF q.basket = <<>> THEN q.amount ELSE 0]
  BY DEF CanonicalIntent, Known
<1> QED  BY <1>1, <1>3, <1>6, <1>9, <1>10, <1>11

(* A basket with one line for each SKU is sent once: with or without       *)
(* quotes, however its merchant is spelt and in whatever order its lines   *)
(* come, for any price book and any quotes; and so is a raw amount.        *)
THEOREM BasketsSentOnce == BasketSpec => []OncePerBasket
<1>1. ASSUME ProposalInv PROVE OncePerBasket
  <2> SUFFICES ASSUME NEW m \in DOMAIN sent, NEW n \in DOMAIN sent,
                      OneLinePerSku(sent[m].act), OneLinePerSku(sent[n].act),
                      Goods(sent[m].act) = Goods(sent[n].act)
               PROVE  m = n
    BY DEF OncePerBasket
  <2>1. sent[m] \in Orders /\ sent[n] \in Orders
    BY <1>1 DEF ProposalInv, Filed
  <2>2. PICK r \in Known, t \in 0 .. MaxClock : sent[m] = Order(r, t)
    BY <2>1 DEF Orders
  <2>3. PICK q \in Known, u \in 0 .. MaxClock : sent[n] = Order(q, u)
    BY <2>1 DEF Orders
  <2>4. t \in Nat /\ u \in Nat
    BY ProposalsAssumption
  <2>5. /\ sent[m].act = ResolveToAction(r, t) /\ sent[m].intent = CanonicalIntent[r]
        /\ sent[n].act = ResolveToAction(q, u) /\ sent[n].intent = CanonicalIntent[q]
    BY <2>2, <2>3 DEF Order
  <2>6. CanonicalIntent[r] = CanonicalIntent[q]
    BY <2>4, <2>5, SameGoodsSameIntent
  <2> QED  BY <1>1, <2>5, <2>6 DEF ProposalInv, Filed
<1> QED  BY <1>1, ProposalAlways, PTL
=============================================================================
