------------------------------- MODULE Money -------------------------------
(***************************************************************************)
(* Sums of money over a finite set of accounts.                            *)
(*                                                                         *)
(* The ledger adds up integer amounts of paise with Python's `sum`.  A sum *)
(* is written here as the number of single units the accounts hold, so     *)
(* that facts about it follow from facts about cardinalities and need no   *)
(* recursive definition: account x with amount[x] = 3 contributes the      *)
(* units <<x, 1>>, <<x, 2>>, <<x, 3>>.                                     *)
(***************************************************************************)
EXTENDS Naturals, FiniteSets

Units(S, amount) == UNION {{x} \X (1 .. amount[x]) : x \in S}

Total(S, amount) == Cardinality(Units(S, amount))
=============================================================================
