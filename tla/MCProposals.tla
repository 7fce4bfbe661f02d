---------------------------- MODULE MCProposals ----------------------------
(***************************************************************************)
(* Proposals on a small shop: quotes that hold, that raise or lower a      *)
(* price, and that fail one check each; baskets at and over every limit.   *)
(***************************************************************************)
EXTENDS Proposals, TLC

MCBook == ("milk" :> [price |-> 1, category |-> "dairy"])
       @@ ("wine" :> [price |-> 1, category |-> "alcohol"])
       @@ ("tea"  :> [price |-> 2, category |-> "drinks"])

MCFold == ("zepto" :> "zepto") @@ ("Zepto" :> "zepto") @@ ("other" :> "other")

MCResolved == ("zepto" :> "zepto") @@ ("Zepto" :> "zepto") @@ ("other" :> Missing)

MCCurated == ("milk" :> "dairy") @@ ("wine" :> "alcohol") @@ ("tea" :> Missing)

MCKeyring == ("zepto" :> {"kz"}) @@ ("other" :> {"ko"}) @@ ("nobody" :> {})

Sound == [parses |-> TRUE, merchant |-> "zepto", signer |-> "kz", sku |-> "milk",
          price |-> 3, currency |-> "INR", stamped |-> TRUE,
          issued |-> 0, expires |-> 3]

(* Quotes for milk that fail exactly one check of verify_quote.            *)
Unsound == {[Sound EXCEPT !.parses = FALSE],
            [Sound EXCEPT !.merchant = "nobody"],
            [Sound EXCEPT !.signer = "ko"],
            [Sound EXCEPT !.merchant = "other", !.signer = "ko"],
            [Sound EXCEPT !.sku = "tea"],
            [Sound EXCEPT !.currency = "USD"],
            [Sound EXCEPT !.stamped = FALSE],
            [Sound EXCEPT !.issued = 2],
            [Sound EXCEPT !.expires = 1],
            [Sound EXCEPT !.price = -1]}

Item(s, n, q) == [sku |-> s, qty |-> n, quote |-> q]

Buy(name, basket) == [name |-> name, basket |-> basket, amount |-> 0]

MCProposed ==
     {Buy("zepto", <<Item("milk", 1, q)>>) : q \in {Missing, Sound} \cup Unsound}
  \cup {Buy("Zepto", <<Item("milk", 1, Missing)>>)}
  \cup {Buy("zepto", <<Item(s, n, Missing)>>) : s \in {"milk", "tea"}, n \in {2, 3}}
  \cup {Buy("zepto", <<Item("wine", 2, Missing)>>),
        Buy("other", <<Item("milk", 2, Missing)>>)}
  \cup {Buy("zepto", <<Item("milk", 1, Missing), Item("tea", 1, Missing)>>),
        Buy("zepto", <<Item("tea", 1, Missing), Item("milk", 1, Sound)>>),
        Buy("zepto", <<Item("milk", 1, Missing), Item("milk", 2, Missing)>>),
        Buy("zepto", <<Item("milk", 2, Missing), Item("milk", 1, Missing)>>),
        Buy("zepto", <<Item("ghost", 1, Missing)>>)}
  \cup {[name |-> "zepto", basket |-> <<>>, amount |-> a] : a \in {0, 2, 6}}

Clauses == {"budget.total", "budget.per_transaction", "budget.per_item",
            "merchant.allow", "category.deny", "item.deny_recent", "velocity",
            "time.window", "quantity.max_per_item", "afa.required"}

Limits == [total |-> 6, tx |-> 5, item |-> 3, merchants |-> {"zepto"},
           denied |-> {"alcohol"}, velocity |-> 2, after |-> 0, before |-> 2,
           units |-> 2, threshold |-> 2]

Mandate(has, velocity) ==
  [f \in DOMAIN Limits \cup {"has"} |->
     IF f = "has" THEN has ELSE IF f = "velocity" THEN velocity ELSE Limits[f]]

(* All ten clauses; all but three that hide the others' effect; two.       *)
MCPolicies ==
  {Mandate(Clauses, 2),
   Mandate(Clauses \ {"item.deny_recent", "time.window", "velocity"}, 2),
   Mandate({"budget.total", "velocity"}, 1)}
=============================================================================
