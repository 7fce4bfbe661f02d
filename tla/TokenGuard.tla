----------------------------- MODULE TokenGuard -----------------------------
(***************************************************************************)
(* What the service promises about the money of its tokens, with nothing   *)
(* of handlers, runs and locks: while the session of a token lasts, its    *)
(* intents are held, spent and given back as SpendGuard says, whatever the *)
(* other tokens do; and a session ends whole, with all that was held.  The *)
(* promise is suspended for a token whose callers have met, until its      *)
(* session ends with none of them under way.                               *)
(***************************************************************************)
EXTENDS Naturals, FiniteSets

CONSTANTS Tokens, Intents, Price, BudgetMax

VARIABLES
  money,   \* money[t][i]: the state and the amount of intent i
  mixed    \* tokens for which nothing is promised

(* The clauses other than budget.total set no limit.                       *)
Guard(t) == INSTANCE SpendGuard WITH
  money <- money[t], Amounts <- {Price[i] : i \in Intents},
  VelocityMax <- Cardinality(Intents) + 1,
  DenyRecent <- FALSE, Basket <- [i \in Intents |-> {}]

Nothing == [i \in Intents |-> [state |-> "none", amount |-> 0]]

Init == money = [t \in Tokens |-> Nothing] /\ mixed = {}

(* One intent's money, at its price; anything, when the callers have met.  *)
Spend(t) ==
  /\ \/ t \in mixed
     \/ \E i \in Intents :
          \/ Guard(t)!Hold(i, Price[i])
          \/ \E s \in {"COMMITTED", "FAILED"} : Guard(t)!Settle(i, s)
  /\ \A u \in Tokens \ {t} : UNCHANGED money[u]
  /\ UNCHANGED mixed

Meet(t) == mixed' = mixed \cup {t} /\ UNCHANGED money

(* Sessions end, those of T; other sessions may begin in the same step.    *)
End(T) ==
  /\ money' = [t \in Tokens |-> IF t \in T THEN Nothing ELSE money[t]]
  /\ \E U \in SUBSET T : mixed' = (mixed \ T) \cup U

Next ==
  \/ \E t \in Tokens : Spend(t) \/ Meet(t)
  \/ \E T \in SUBSET Tokens : End(T)

Spec == Init /\ [][Next]_<<money, mixed>>
=============================================================================
