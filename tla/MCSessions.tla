----------------------------- MODULE MCSessions -----------------------------
(***************************************************************************)
(* Sessions on a small instance: one token, two intents that do not fit    *)
(* the budget together, two visitors.                                      *)
(***************************************************************************)
EXTENDS Sessions, TLC

MCPrice == [i \in Intents |-> 2]

Symmetric ==
  Permutations(Intents) \cup Permutations(Tokens) \cup Permutations(Visitors)
    \cup Permutations(Workers)
=============================================================================
