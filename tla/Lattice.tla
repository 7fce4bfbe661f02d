------------------------------ MODULE Lattice ------------------------------
(***************************************************************************)
(* The verdicts of the policy clauses and how they combine                 *)
(* (gateway/state.py, gateway/lattice.py): DENY > UNKNOWN > ALLOW, and no  *)
(* clause at all is ALLOW.                                                 *)
(***************************************************************************)
EXTENDS Naturals

Verdict == {"ALLOW", "UNKNOWN", "DENY"}

Rank == [v \in Verdict |->
           IF v = "ALLOW" THEN 0 ELSE IF v = "UNKNOWN" THEN 1 ELSE 2]

Combine(results) ==
  IF results = {} THEN "ALLOW"
  ELSE CHOOSE v \in results : \A w \in results : Rank[w] <= Rank[v]
=============================================================================
