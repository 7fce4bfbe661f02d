----------------------------- MODULE SpendGuard -----------------------------
(***************************************************************************)
(* What the gateway promises about money, with nothing of how: each        *)
(* intent's money is held at most once, only while the mandate has room    *)
(* for it, and what is held is spent or given back, once and for all.      *)
(* The states are those of the diagram in ARCHITECTURE.md, section 3.      *)
(***************************************************************************)
EXTENDS Naturals, FiniteSets, Money

CONSTANTS Intents, Basket, Amounts, BudgetMax, VelocityMax, DenyRecent

VARIABLE money   \* money[i]: the state and the amount of intent i

States == {"none", "PENDING", "COMMITTED", "FAILED"}

Counted == {i \in Intents : money[i].state \in {"PENDING", "COMMITTED"}}

Init == money = [i \in Intents |-> [state |-> "none", amount |-> 0]]

(* The mandate has room for intent i at amount a.                          *)
Room(i, a) ==
  /\ Total(Counted, [j \in Intents |-> money[j].amount]) + a <= BudgetMax
  /\ Cardinality(Counted) < VelocityMax
  /\ DenyRecent => \A j \in Counted : Basket[i] \cap Basket[j] = {}

Hold(i, a) ==
  /\ money[i].state = "none"
  /\ Room(i, a)
  /\ money' = [money EXCEPT ![i] = [state |-> "PENDING", amount |-> a]]

Settle(i, s) ==
  /\ money[i].state = "PENDING"
  /\ money' = [money EXCEPT ![i].state = s]

Next ==
  \E i \in Intents :
    \/ \E a \in Amounts : Hold(i, a)
    \/ \E s \in {"COMMITTED", "FAILED"} : Settle(i, s)

Spec == Init /\ [][Next]_money
=============================================================================
