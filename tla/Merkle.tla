------------------------------- MODULE Merkle -------------------------------
(***************************************************************************)
(* The Merkle tree over an audit log: the prover (gateway/merkle.py, which *)
(* recurses over the leaves) and the verifier (web/src/lib/merkle.ts, and  *)
(* the functions of the same shape in gateway/merkle.py, which walk the    *)
(* bits of an index and a size).  A hash is the term it hashes: equal only *)
(* to itself.  A leaf is the number of a record.                           *)
(*                                                                         *)
(* A slice leaves[from : from + n] of the leaves s is its length and its   *)
(* start; what is computed of slices is a function of the one, then of the *)
(* other.                                                                  *)
(***************************************************************************)
EXTENDS Integers, Sequences

EmptyRoot == <<>>
LeafHash(record) == <<record>>
NodeHash(left, right) == <<left, right>>

First(s, k) == SubSeq(s, 1, k)
-----------------------------------------------------------------------------
(* The prover.                                                             *)

\* The largest power of two below n is 1, or twice the largest below half of n.
LargestPowerBelow[n \in Nat] ==
  IF n <= 2 THEN 1 ELSE 2 * LargestPowerBelow[(n + 1) \div 2]

Hashes(s) ==
  LET Hash[n \in Nat] == [from \in Nat |->
        IF n = 0 THEN EmptyRoot
        ELSE IF n = 1 THEN LeafHash(s[from + 1])
        ELSE LET k == LargestPowerBelow[n]
             IN  NodeHash(Hash[k][from], Hash[n - k][from + k])]
  IN  Hash

TreeHash(s) == Hashes(s)[Len(s)][0]

\* The nodes beside the way from the leaf to the root, the lowest first.
Paths(index, s) ==
  LET Path[n \in Nat] == [from \in Nat |->
        IF n <= 1 THEN <<>>
        ELSE LET k == LargestPowerBelow[n]
             IN  IF index - from < k
                 THEN Append(Path[k][from], Hashes(s)[n - k][from + k])
                 ELSE Append(Path[n - k][from + k], Hashes(s)[k][from])]
  IN  Path

InclusionProof(index, s) == Paths(index, s)[Len(s)][0]

\* Mutant: what is left of a split is still taken to be a tree of its own.
Subproofs_KeepsFlag(m, s) ==
  LET Sub[n \in Nat] == [from \in Nat |-> [complete \in BOOLEAN |->
        IF n <= 1 \/ m - from = n THEN IF complete THEN <<>> ELSE <<Hashes(s)[n][from]>>
        ELSE LET k == LargestPowerBelow[n]
             IN  IF m - from <= k
                 THEN Append(Sub[k][from][complete], Hashes(s)[n - k][from + k])
                 ELSE Append(Sub[n - k][from + k][complete], Hashes(s)[k][from])]]
  IN  Sub

\* The nodes that make up the first m leaves, the lowest first, and those beside
\* them.
Subproofs(m, s) ==
  LET Sub[n \in Nat] == [from \in Nat |-> [complete \in BOOLEAN |->
        IF n <= 1 \/ m - from = n THEN IF complete THEN <<>> ELSE <<Hashes(s)[n][from]>>
        ELSE LET k == LargestPowerBelow[n]
             IN  IF m - from <= k
                 THEN Append(Sub[k][from][complete], Hashes(s)[n - k][from + k])
                 ELSE Append(Sub[n - k][from + k][FALSE], Hashes(s)[k][from])]]
  IN  Sub

ConsistencyProof(first, second, s) == Subproofs(first, First(s, second))[second][0][TRUE]
-----------------------------------------------------------------------------
(* The verifier.                                                           *)

\* Index and size, both halved while the last bit of the index is b; zero has no
\* bits.
Halvings[fn \in Nat] == [b \in {0, 1} |-> [sn \in Nat |->
  IF fn = 0 \/ fn % 2 # b THEN [fn |-> fn, sn |-> sn]
  ELSE Halvings[fn \div 2][b][sn \div 2]]]

HalvedWhileEven(p) == Halvings[p.fn][0][p.sn]
HalvedWhileOdd(p) == Halvings[p.fn][1][p.sn]

OnTheLeft(p) == p.fn % 2 = 1 \/ p.fn = p.sn   \* where the sibling stands

\* To the level of the next node, past those where nothing stands to the right.
Up(p) ==
  LET q == IF OnTheLeft(p) THEN HalvedWhileEven(p) ELSE p
  IN  [fn |-> q.fn \div 2, sn |-> q.sn \div 2]

Climbed(p, sibling) ==
  IF ~p.ok \/ p.sn = 0 THEN [p EXCEPT !.ok = FALSE]
  ELSE [fn |-> Up(p).fn, sn |-> Up(p).sn, ok |-> TRUE,
        current |-> IF OnTheLeft(p) THEN NodeHash(sibling, p.current)
                    ELSE NodeHash(p.current, sibling)]

\* The walk after each of its siblings.
Climbs(record, index, size, proof) ==
  LET At[i \in Nat] ==
        IF i = 0 THEN [fn |-> index, sn |-> size - 1, ok |-> TRUE,
                       current |-> LeafHash(record)]
        ELSE Climbed(At[i - 1], proof[i])
  IN  At

\* climbToRoot: where the walk arrives, and whether it arrived.
ClimbToRoot(record, index, size, proof) ==
  LET end == Climbs(record, index, size, proof)[Len(proof)]
  IN  [root |-> end.current, complete |-> end.ok /\ end.sn = 0]

VerifyInclusionProof(record, index, size, proof, root) ==
  /\ 0 <= index /\ index < size
  /\ ClimbToRoot(record, index, size, proof) = [root |-> root, complete |-> TRUE]

\* One node of a consistency proof: fr rebuilds the old root, sr the new one.
Extended(p, next) ==
  IF ~p.ok \/ p.sn = 0 THEN [p EXCEPT !.ok = FALSE]
  ELSE [fn |-> Up(p).fn, sn |-> Up(p).sn, ok |-> TRUE,
        fr |-> IF OnTheLeft(p) THEN NodeHash(next, p.fr) ELSE p.fr,
        sr |-> IF OnTheLeft(p) THEN NodeHash(next, p.sr) ELSE NodeHash(p.sr, next)]

\* The walk from p after each of the nodes.
Extensions(p, nodes) ==
  LET At[i \in Nat] == IF i = 0 THEN p ELSE Extended(At[i - 1], nodes[i])
  IN  At

VerifyConsistencyProof(first, second, firstRoot, secondRoot, proof) ==
  IF first < 1 \/ first > second THEN FALSE
  ELSE IF first = second THEN proof = <<>> /\ firstRoot = secondRoot
  ELSE LET start == HalvedWhileOdd([fn |-> first - 1, sn |-> second - 1])
           given == start.fn # 0      \* a power of two leaves its own root out
           node == IF given THEN proof[1] ELSE firstRoot
           nodes == IF given THEN Tail(proof) ELSE proof
           end == Extensions([fn |-> start.fn, sn |-> start.sn, ok |-> TRUE,
                              fr |-> node, sr |-> node], nodes)[Len(nodes)]
       IN  /\ given => proof # <<>>
           /\ end.ok /\ end.sn = 0 /\ end.fr = firstRoot /\ end.sr = secondRoot
=============================================================================
