----------------------------- MODULE MerkleProofs ----------------------------
(***************************************************************************)
(* Theorems about the proofs of the audit log, for logs of any length, and *)
(* about the dialog that checks a receipt against it.                      *)
(*                                                                         *)
(* A verifier halves an index and a size and never sees the tree.  Both    *)
(* are set on its levels: a level of width w has the nodes over w leaves   *)
(* each, the last of which may have fewer.  At says of a walk that it is   *)
(* at a node of a level, with what its index and size are then.  The path  *)
(* of a node is climbed to the node above (Reaches), whatever record is    *)
(* put at the leaf, and a consistency proof rebuilds of every node above   *)
(* the seed what the old tree and the new one have there (Builds).  Roots  *)
(* are the same of the same leaves only, so the verdict is what it says.   *)
(*                                                                         *)
(* The dialog: ReceiptInv says of every check what has been answered to it *)
(* so far, and of every log that it only grew or lost its head.            *)
(***************************************************************************)
EXTENDS MerkleLog, Receipts, OperatorProofs, SequenceTheorems

-----------------------------------------------------------------------------
(* The recursive functions of Merkle are what their definitions say.       *)

PowerBody(p, q, f, n) == IF n <= 2 THEN 1 ELSE 2 * f[(n + 1) \div 2]
Power == INSTANCE Recursion WITH Body <- PowerBody

LEMMA PowerIs ==
  \A n \in Nat : LargestPowerBelow[n] =
    IF n <= 2 THEN 1 ELSE 2 * LargestPowerBelow[(n + 1) \div 2]
<1>1. ASSUME NEW n \in Nat, NEW f, NEW g, \A i \in 0..(n - 1) : f[i] = g[i]
      PROVE  PowerBody(0, 0, f, n) = PowerBody(0, 0, g, n)
  <2>1. n > 2 => (n + 1) \div 2 \in 0..(n - 1)
    OBVIOUS
  <2> QED  BY <1>1, <2>1 DEF PowerBody
<1>2. \E F : F = [n \in Nat |-> PowerBody(0, 0, F, n)]
  BY <1>1, Power!RecursiveFunction
<1>3. LargestPowerBelow = [n \in Nat |-> PowerBody(0, 0, LargestPowerBelow, n)]
  BY <1>2, Zenon DEF LargestPowerBelow, PowerBody
<1> QED  BY <1>3, Zenon DEF PowerBody

(* It is at least one and less than n: both parts of a split are shorter.  *)
LEMMA PowerRange ==
  \A n \in Nat : /\ LargestPowerBelow[n] \in Nat \ {0}
                 /\ n > 1 => /\ LargestPowerBelow[n] \in 1..(n - 1)
                             /\ n - LargestPowerBelow[n] \in 1..(n - 1)
<1> DEFINE Good(n) == LargestPowerBelow[n] \in Nat \ {0} /\ (n > 1 => LargestPowerBelow[n] < n)
           T == {n \in Nat : ~Good(n)}
<1>1. T = {}
  <2> SUFFICES ASSUME T # {} PROVE FALSE
    OBVIOUS
  <2>1. PICK n \in T : \A m \in T : n <= m
    BY LeastNat
  <2> DEFINE h == (n + 1) \div 2
  <2>2. n \in Nat /\ (n > 2 => h \in Nat /\ h < n /\ h > 1 /\ 2 * h <= n + 1)
    OBVIOUS
  <2>3. n > 2 => Good(h)
    BY <2>1, <2>2
  <2>4. LargestPowerBelow[n] = IF n <= 2 THEN 1 ELSE 2 * LargestPowerBelow[h]
    BY PowerIs
  <2>5. Good(n)
    BY <2>2, <2>3, <2>4
  <2> QED  BY <2>1, <2>5
<1>2. \A n \in Nat : Good(n)
  BY <1>1
<1> QED  BY <1>2
(* Two functions that agree below n do so on the parts of a split of n.    *)
LEMMA SplitAgrees ==
  ASSUME NEW n \in Nat, n > 1, NEW f, NEW g, \A i \in 0..(n - 1) : f[i] = g[i]
  PROVE  /\ f[LargestPowerBelow[n]] = g[LargestPowerBelow[n]]
         /\ f[n - LargestPowerBelow[n]] = g[n - LargestPowerBelow[n]]
<1>1. LargestPowerBelow[n] \in 0..(n - 1) /\ n - LargestPowerBelow[n] \in 0..(n - 1)
  BY PowerRange
<1> QED  BY <1>1

HashBody(s, q, f, n) ==
  [from \in Nat |->
     IF n = 0 THEN EmptyRoot
     ELSE IF n = 1 THEN LeafHash(s[from + 1])
     ELSE LET k == LargestPowerBelow[n]
          IN  NodeHash(f[k][from], f[n - k][from + k])]
HashRec == INSTANCE Recursion WITH Body <- HashBody

LEMMA HashesAre ==
  ASSUME NEW s
  PROVE  \A n, from \in Nat : Hashes(s)[n][from] = HashBody(s, 0, Hashes(s), n)[from]
<1>1. ASSUME NEW n \in Nat, NEW f, NEW g, \A i \in 0..(n - 1) : f[i] = g[i]
      PROVE  HashBody(s, 0, f, n) = HashBody(s, 0, g, n)
  <2>1. n > 1 => /\ f[LargestPowerBelow[n]] = g[LargestPowerBelow[n]]
                 /\ f[n - LargestPowerBelow[n]] = g[n - LargestPowerBelow[n]]
    BY <1>1, SplitAgrees
  <2> QED  BY <2>1 DEF HashBody
<1>2. \E F : F = [n \in Nat |-> HashBody(s, 0, F, n)]
  BY <1>1, HashRec!RecursiveFunction
<1>3. Hashes(s) = [n \in Nat |-> HashBody(s, 0, Hashes(s), n)]
  BY <1>2, Zenon DEF Hashes, HashBody
<1> HIDE DEF HashBody
<1> QED  BY <1>3, Zenon

PathBody(index, s, f, n) ==
  [from \in Nat |->
     IF n <= 1 THEN <<>>
     ELSE LET k == LargestPowerBelow[n]
          IN  IF index - from < k
              THEN Append(f[k][from], Hashes(s)[n - k][from + k])
              ELSE Append(f[n - k][from + k], Hashes(s)[k][from])]
PathRec == INSTANCE Recursion WITH Body <- PathBody

LEMMA PathsAre ==
  ASSUME NEW index, NEW s
  PROVE  \A n, from \in Nat :
           Paths(index, s)[n][from] = PathBody(index, s, Paths(index, s), n)[from]
<1>1. ASSUME NEW n \in Nat, NEW f, NEW g, \A i \in 0..(n - 1) : f[i] = g[i]
      PROVE  PathBody(index, s, f, n) = PathBody(index, s, g, n)
  <2>1. n > 1 => /\ f[LargestPowerBelow[n]] = g[LargestPowerBelow[n]]
                 /\ f[n - LargestPowerBelow[n]] = g[n - LargestPowerBelow[n]]
    BY <1>1, SplitAgrees
  <2> QED  BY <2>1 DEF PathBody
<1>2. \E F : F = [n \in Nat |-> PathBody(index, s, F, n)]
  BY <1>1, PathRec!RecursiveFunction
<1>3. Paths(index, s) = [n \in Nat |-> PathBody(index, s, Paths(index, s), n)]
  BY <1>2, Zenon DEF Paths, PathBody
<1> HIDE DEF PathBody
<1> QED  BY <1>3, Zenon

SubAt(m, s, f, n, from, complete) ==
  IF n <= 1 \/ m - from = n THEN IF complete THEN <<>> ELSE <<Hashes(s)[n][from]>>
  ELSE LET k == LargestPowerBelow[n]
       IN  IF m - from <= k
           THEN Append(f[k][from][complete], Hashes(s)[n - k][from + k])
           ELSE Append(f[n - k][from + k][FALSE], Hashes(s)[k][from])
SubBody(m, s, f, n) ==
  [from \in Nat |-> [complete \in BOOLEAN |-> SubAt(m, s, f, n, from, complete)]]
SubRec == INSTANCE Recursion WITH Body <- SubBody

LEMMA SubproofsAre ==
  ASSUME NEW m, NEW s
  PROVE  \A n, from \in Nat, complete \in BOOLEAN :
           Subproofs(m, s)[n][from][complete]
             = SubAt(m, s, Subproofs(m, s), n, from, complete)
<1>1. ASSUME NEW n \in Nat, NEW f, NEW g, \A i \in 0..(n - 1) : f[i] = g[i]
      PROVE  SubBody(m, s, f, n) = SubBody(m, s, g, n)
  <2>1. n > 1 => /\ f[LargestPowerBelow[n]] = g[LargestPowerBelow[n]]
                 /\ f[n - LargestPowerBelow[n]] = g[n - LargestPowerBelow[n]]
    BY <1>1, SplitAgrees
  <2>2. ASSUME NEW from, NEW complete
        PROVE  SubAt(m, s, f, n, from, complete) = SubAt(m, s, g, n, from, complete)
    <3>1. CASE n <= 1
      BY <3>1, Zenon DEF SubAt
    <3>2. CASE n > 1
      BY <2>1, <3>2, Zenon DEF SubAt
    <3> QED  BY <3>1, <3>2
  <2> QED  BY <2>2 DEF SubBody
<1>2. \E F : F = [n \in Nat |-> SubBody(m, s, F, n)]
  BY <1>1, SubRec!RecursiveFunction
<1>3. Subproofs(m, s) = [n \in Nat |-> SubBody(m, s, Subproofs(m, s), n)]
  BY <1>2, Zenon DEF Subproofs, SubBody, SubAt
<1> HIDE DEF SubAt
<1>4. ASSUME NEW n \in Nat, NEW from \in Nat, NEW complete \in BOOLEAN
      PROVE  Subproofs(m, s)[n][from][complete] = SubAt(m, s, Subproofs(m, s), n, from, complete)
  <2>1. Subproofs(m, s)[n] = SubBody(m, s, Subproofs(m, s), n)
    BY <1>3, Zenon
  <2> QED  BY <2>1 DEF SubBody
<1> QED  BY <1>4

HalvingBody(p, q, f, fn) ==
  [b \in {0, 1} |-> [sn \in Nat |->
     IF fn = 0 \/ fn % 2 # b THEN [fn |-> fn, sn |-> sn] ELSE f[fn \div 2][b][sn \div 2]]]
HalvingRec == INSTANCE Recursion WITH Body <- HalvingBody

LEMMA HalvingsAre ==
  \A fn, sn \in Nat, b \in {0, 1} :
    Halvings[fn][b][sn] = IF fn = 0 \/ fn % 2 # b THEN [fn |-> fn, sn |-> sn]
                          ELSE Halvings[fn \div 2][b][sn \div 2]
<1>1. ASSUME NEW n \in Nat, NEW f, NEW g, \A i \in 0..(n - 1) : f[i] = g[i]
      PROVE  HalvingBody(0, 0, f, n) = HalvingBody(0, 0, g, n)
  <2>1. n > 0 => n \div 2 \in 0..(n - 1)
    OBVIOUS
  <2> QED  BY <1>1, <2>1 DEF HalvingBody
<1>2. \E F : F = [n \in Nat |-> HalvingBody(0, 0, F, n)]
  BY <1>1, HalvingRec!RecursiveFunction
<1>3. Halvings = [n \in Nat |-> HalvingBody(0, 0, Halvings, n)]
  BY <1>2, Zenon DEF Halvings, HalvingBody
<1> QED  BY <1>3 DEF HalvingBody

(* The walks: a node more is a step more.                                  *)
ClimbBody(p, q, f, i) == IF i = 0 THEN p ELSE Climbed(f[i - 1], q[i])
ClimbRec == INSTANCE Recursion WITH Body <- ClimbBody

ClimbStart(record, index, size) ==
  [fn |-> index, sn |-> size - 1, ok |-> TRUE, current |-> LeafHash(record)]

LEMMA ClimbsAre ==
  ASSUME NEW record, NEW index, NEW size, NEW proof
  PROVE  /\ Climbs(record, index, size, proof)[0] = ClimbStart(record, index, size)
         /\ \A i \in Nat \ {0} :
              Climbs(record, index, size, proof)[i]
                = Climbed(Climbs(record, index, size, proof)[i - 1], proof[i])
<1> DEFINE start == ClimbStart(record, index, size)
           C == Climbs(record, index, size, proof)
<1>1. ASSUME NEW n \in Nat, NEW f, NEW g, \A i \in 0..(n - 1) : f[i] = g[i]
      PROVE  ClimbBody(start, proof, f, n) = ClimbBody(start, proof, g, n)
  <2>1. n # 0 => f[n - 1] = g[n - 1]
    BY <1>1
  <2> QED  BY <2>1, Zenon DEF ClimbBody
<1>2. \E F : F = [n \in Nat |-> ClimbBody(start, proof, F, n)]
  <2> HIDE DEF start
  <2> QED  BY <1>1, ClimbRec!RecursiveFunction
<1>3. C = [n \in Nat |-> ClimbBody(start, proof, C, n)]
  BY <1>2, Zenon DEF Climbs, ClimbBody, ClimbStart
<1> HIDE DEF C, start
<1>4. \A n \in Nat : C[n] = ClimbBody(start, proof, C, n)
  BY <1>3, Zenon
<1>5. C[0] = start
  BY <1>4 DEF ClimbBody
<1>6. \A n \in Nat \ {0} : C[n] = Climbed(C[n - 1], proof[n])
  BY <1>4, Zenon DEF ClimbBody
<1> QED  BY <1>5, <1>6 DEF C, start

ExtensionBody(p, q, f, i) == IF i = 0 THEN p ELSE Extended(f[i - 1], q[i])
ExtensionRec == INSTANCE Recursion WITH Body <- ExtensionBody

LEMMA ExtensionsAre ==
  ASSUME NEW start, NEW nodes
  PROVE  /\ Extensions(start, nodes)[0] = start
         /\ \A i \in Nat \ {0} :
              Extensions(start, nodes)[i] = Extended(Extensions(start, nodes)[i - 1], nodes[i])
<1> DEFINE C == Extensions(start, nodes)
<1>1. ASSUME NEW n \in Nat, NEW f, NEW g, \A i \in 0..(n - 1) : f[i] = g[i]
      PROVE  ExtensionBody(start, nodes, f, n) = ExtensionBody(start, nodes, g, n)
  <2>1. n # 0 => f[n - 1] = g[n - 1]
    BY <1>1
  <2> QED  BY <2>1, Zenon DEF ExtensionBody
<1>2. \E F : F = [n \in Nat |-> ExtensionBody(start, nodes, F, n)]
  BY <1>1, ExtensionRec!RecursiveFunction
<1>3. C = [n \in Nat |-> ExtensionBody(start, nodes, C, n)]
  BY <1>2, Zenon DEF Extensions, ExtensionBody
<1> HIDE DEF C
<1>4. \A n \in Nat : C[n] = ExtensionBody(start, nodes, C, n)
  BY <1>3, Zenon
<1>5. C[0] = start
  BY <1>4 DEF ExtensionBody
<1>6. \A n \in Nat \ {0} : C[n] = Extended(C[n - 1], nodes[n])
  BY <1>4, Zenon DEF ExtensionBody
<1> QED  BY <1>5, <1>6 DEF C

(* Where a walk along all nodes of a proof ends.                           *)
ClimbEnd(record, index, size, proof) == Climbs(record, index, size, proof)[Len(proof)]
ExtendEnd(start, nodes) == Extensions(start, nodes)[Len(nodes)]

LEMMA ClimbAppend ==
  ASSUME NEW record, NEW index, NEW size, NEW S, NEW proof \in Seq(S), NEW h \in S
  PROVE  ClimbEnd(record, index, size, Append(proof, h))
           = Climbed(ClimbEnd(record, index, size, proof), h)
<1> DEFINE B == Climbs(record, index, size, proof)
           longer == Append(proof, h)
           C == Climbs(record, index, size, longer)
           T == {i \in 0..Len(proof) : B[i] # C[i]}
<1>0. /\ B[0] = ClimbStart(record, index, size) /\ \A i \in Nat \ {0} : B[i] = Climbed(B[i - 1], proof[i])
      /\ C[0] = ClimbStart(record, index, size) /\ \A i \in Nat \ {0} : C[i] = Climbed(C[i - 1], longer[i])
  <2>1. /\ B[0] = ClimbStart(record, index, size)
        /\ \A i \in Nat \ {0} : B[i] = Climbed(B[i - 1], proof[i])
    BY ClimbsAre
  <2> HIDE DEF longer
  <2>2. /\ C[0] = ClimbStart(record, index, size)
        /\ \A i \in Nat \ {0} : C[i] = Climbed(C[i - 1], longer[i])
    BY ClimbsAre
  <2> QED  BY <2>1, <2>2
<1>1. B[0] = C[0] /\ \A i \in Nat \ {0} : B[i] = Climbed(B[i - 1], proof[i])
                                       /\ C[i] = Climbed(C[i - 1], longer[i])
  <2> HIDE DEF B, C
  <2> QED  BY <1>0, Zenon
<1>2. /\ Len(proof) \in Nat /\ Len(longer) = Len(proof) + 1
      /\ longer[Len(proof) + 1] = h /\ \A i \in 1..Len(proof) : longer[i] = proof[i]
  OBVIOUS
<1>3. ClimbEnd(record, index, size, proof) = B[Len(proof)]
      /\ ClimbEnd(record, index, size, longer) = C[Len(longer)]
  BY Zenon DEF ClimbEnd
<1> HIDE DEF B, C, longer
<1>4. T = {}
  <2> SUFFICES ASSUME T # {} PROVE FALSE
    OBVIOUS
  <2>1. PICK i \in T : \A j \in T : i <= j
    <3>1. T \in SUBSET Nat
      BY <1>2
    <3> QED  BY <3>1, LeastNat
  <2>2. i \in Nat \ {0} /\ i \in 1..Len(proof)
    BY <1>1, <1>2
  <2>3. B[i - 1] = C[i - 1]
    BY <2>1, <2>2
  <2>4. B[i] = C[i]
    BY <1>1, <1>2, <2>2, <2>3, Zenon
  <2> QED  BY <2>4
<1>5. B[Len(proof)] = C[Len(proof)]
  BY <1>2, <1>4
<1>6. C[Len(proof) + 1] = Climbed(C[Len(proof)], h)
  <2>1. Len(proof) + 1 \in Nat \ {0} /\ (Len(proof) + 1) - 1 = Len(proof)
    BY <1>2
  <2> QED  BY <1>1, <1>2, <2>1, Zenon
<1> QED  BY <1>2, <1>3, <1>5, <1>6, Zenon DEF longer

LEMMA ExtendAppend ==
  ASSUME NEW start, NEW S, NEW nodes \in Seq(S), NEW h \in S
  PROVE  ExtendEnd(start, Append(nodes, h)) = Extended(ExtendEnd(start, nodes), h)
<1> DEFINE B == Extensions(start, nodes)
           longer == Append(nodes, h)
           C == Extensions(start, longer)
           T == {i \in 0..Len(nodes) : B[i] # C[i]}
<1>0. /\ B[0] = start /\ \A i \in Nat \ {0} : B[i] = Extended(B[i - 1], nodes[i])
      /\ C[0] = start /\ \A i \in Nat \ {0} : C[i] = Extended(C[i - 1], longer[i])
  <2>1. /\ B[0] = start
        /\ \A i \in Nat \ {0} : B[i] = Extended(B[i - 1], nodes[i])
    BY ExtensionsAre
  <2> HIDE DEF longer
  <2>2. /\ C[0] = start
        /\ \A i \in Nat \ {0} : C[i] = Extended(C[i - 1], longer[i])
    BY ExtensionsAre
  <2> QED  BY <2>1, <2>2
<1>1. B[0] = C[0] /\ \A i \in Nat \ {0} : B[i] = Extended(B[i - 1], nodes[i])
                                       /\ C[i] = Extended(C[i - 1], longer[i])
  <2> HIDE DEF B, C
  <2> QED  BY <1>0, Zenon
<1>2. /\ Len(nodes) \in Nat /\ Len(longer) = Len(nodes) + 1
      /\ longer[Len(nodes) + 1] = h /\ \A i \in 1..Len(nodes) : longer[i] = nodes[i]
  OBVIOUS
<1>3. ExtendEnd(start, nodes) = B[Len(nodes)] /\ ExtendEnd(start, longer) = C[Len(longer)]
  BY Zenon DEF ExtendEnd
<1> HIDE DEF B, C, longer
<1>4. T = {}
  <2> SUFFICES ASSUME T # {} PROVE FALSE
    OBVIOUS
  <2>1. PICK i \in T : \A j \in T : i <= j
    <3>1. T \in SUBSET Nat
      BY <1>2
    <3> QED  BY <3>1, LeastNat
  <2>2. i \in Nat \ {0} /\ i \in 1..Len(nodes)
    BY <1>1, <1>2
  <2>3. B[i - 1] = C[i - 1]
    BY <2>1, <2>2
  <2>4. B[i] = C[i]
    BY <1>1, <1>2, <2>2, <2>3, Zenon
  <2> QED  BY <2>4
<1>5. B[Len(nodes)] = C[Len(nodes)]
  BY <1>2, <1>4
<1>6. C[Len(nodes) + 1] = Extended(C[Len(nodes)], h)
  <2>1. Len(nodes) + 1 \in Nat \ {0} /\ (Len(nodes) + 1) - 1 = Len(nodes)
    BY <1>2
  <2> QED  BY <1>1, <1>2, <2>1, Zenon
<1> QED  BY <1>2, <1>3, <1>5, <1>6, Zenon DEF longer

-----------------------------------------------------------------------------
(* Powers of two, and the numbers between two of them.                     *)

IsPower(w) == w \in Nat \ {0} /\ LargestPowerBelow[2 * w] = w

LEMMA OneIsPower == IsPower(1)
BY PowerIs DEF IsPower

LEMMA DoubleIsPower ==
  ASSUME NEW w, IsPower(w)
  PROVE  IsPower(2 * w)
<1>1. w \in Nat \ {0} /\ 2 * (2 * w) \in Nat /\ 2 * (2 * w) > 2
      /\ (2 * (2 * w) + 1) \div 2 = 2 * w
  BY DEF IsPower
<1>2. LargestPowerBelow[2 * (2 * w)] = 2 * LargestPowerBelow[2 * w]
  BY <1>1, PowerIs
<1> QED  BY <1>1, <1>2 DEF IsPower

LEMMA HalfIsPower ==
  ASSUME NEW w, IsPower(w), w # 1
  PROVE  \E v : IsPower(v) /\ w = 2 * v /\ v < w
<1>1. w \in Nat /\ w > 1 /\ 2 * w > 2 /\ (2 * w + 1) \div 2 = w /\ 2 * w \in Nat
  BY DEF IsPower
<1>2. LargestPowerBelow[2 * w] = 2 * LargestPowerBelow[w]
  BY <1>1, PowerIs
<1>3. LargestPowerBelow[w] \in Nat \ {0} /\ w = 2 * LargestPowerBelow[w]
  BY <1>1, <1>2, PowerRange DEF IsPower
<1>4. IsPower(LargestPowerBelow[w])
  BY <1>3 DEF IsPower
<1> QED  BY <1>3, <1>4

LEMMA PowerBetween ==
  ASSUME NEW w, IsPower(w), NEW n \in Nat, w < n, n <= 2 * w
  PROVE  LargestPowerBelow[n] = w
<1> DEFINE T == {k \in Nat : \E u : IsPower(u) /\ u < k /\ k <= 2 * u /\ LargestPowerBelow[k] # u}
<1>1. T = {}
  <2> SUFFICES ASSUME T # {} PROVE FALSE
    OBVIOUS
  <2>1. PICK k \in T : \A j \in T : k <= j
    <3>1. T \in SUBSET Nat
      OBVIOUS
    <3> QED  BY <3>1, LeastNat
  <2>2. PICK u : IsPower(u) /\ u < k /\ k <= 2 * u /\ LargestPowerBelow[k] # u
    BY <2>1
  <2>3. k \in Nat /\ u \in Nat \ {0}
    BY <2>2 DEF IsPower
  <2>4. CASE u = 1
    BY <2>2, <2>3, <2>4, PowerIs
  <2>5. CASE u # 1
    <3>1. PICK v : IsPower(v) /\ u = 2 * v
      BY <2>2, <2>5, HalfIsPower
    <3> DEFINE h == (k + 1) \div 2
    <3>2. v \in Nat \ {0} /\ h \in Nat /\ v < h /\ h <= 2 * v /\ h < k /\ k > 2
      BY <2>2, <2>3, <3>1 DEF IsPower
    <3>3. h \notin T
      BY <2>1, <3>2
    <3>4. LargestPowerBelow[h] = v
      BY <3>1, <3>2, <3>3
    <3>5. LargestPowerBelow[k] = 2 * LargestPowerBelow[h]
      BY <2>3, <3>2, PowerIs
    <3> QED  BY <2>2, <3>1, <3>4, <3>5
  <2> QED  BY <2>4, <2>5
<1> QED  BY <1>1

LEMMA SplitIsPower ==
  ASSUME NEW n \in Nat, n > 1
  PROVE  /\ IsPower(LargestPowerBelow[n])
         /\ LargestPowerBelow[n] < n /\ n <= 2 * LargestPowerBelow[n]
<1> DEFINE Good(k) == /\ IsPower(LargestPowerBelow[k])
                      /\ LargestPowerBelow[k] < k /\ k <= 2 * LargestPowerBelow[k]
           T == {k \in Nat : k > 1 /\ ~Good(k)}
<1>1. T = {}
  <2> SUFFICES ASSUME T # {} PROVE FALSE
    OBVIOUS
  <2>1. PICK k \in T : \A j \in T : k <= j
    <3>1. T \in SUBSET Nat
      OBVIOUS
    <3> QED  BY <3>1, LeastNat
  <2>2. CASE k = 2
    BY <2>1, <2>2, PowerIs, OneIsPower
  <2>3. CASE k # 2
    <3> DEFINE h == (k + 1) \div 2
    <3>1. k \in Nat /\ k > 2 /\ h \in Nat /\ h > 1 /\ h < k /\ 2 * h <= k + 1 /\ k <= 2 * h
      BY <2>1, <2>3
    <3>2. Good(h)
      BY <2>1, <3>1
    <3>3. LargestPowerBelow[k] = 2 * LargestPowerBelow[h]
      BY <3>1, PowerIs
    <3>4. IsPower(LargestPowerBelow[k])
      BY <3>2, <3>3, DoubleIsPower
    <3>5. LargestPowerBelow[h] \in Nat
      BY <3>2 DEF IsPower
    <3> HIDE DEF h
    <3>6. LargestPowerBelow[k] < k /\ k <= 2 * LargestPowerBelow[k]
      BY <3>1, <3>2, <3>3, <3>5
    <3> QED  BY <2>1, <3>4, <3>6
  <2> QED  BY <2>2, <2>3
<1> QED  BY <1>1

LEMMA PowerAbove ==
  ASSUME NEW n \in Nat \ {0}
  PROVE  \E w : IsPower(w) /\ n <= w
<1>1. n > 1 => IsPower(2 * LargestPowerBelow[n]) /\ n <= 2 * LargestPowerBelow[n]
  BY SplitIsPower, DoubleIsPower
<1> QED  BY <1>1, OneIsPower

(* The next power of two is twice the one.                                 *)
LEMMA NextPower ==
  ASSUME NEW v, NEW w, IsPower(v), IsPower(w), v < w
  PROVE  2 * v <= w
<1>1. v \in Nat /\ w \in Nat \ {0} /\ w # 1
  BY DEF IsPower
<1>2. PICK u : IsPower(u) /\ w = 2 * u /\ u < w
  BY <1>1, HalfIsPower
<1>3. SUFFICES ASSUME w < 2 * v PROVE FALSE
  BY <1>1
<1>4. LargestPowerBelow[w] = v
  BY <1>1, <1>3, PowerBetween
<1>5. LargestPowerBelow[w] = u
  BY <1>1, <1>2, PowerBetween DEF IsPower
<1> QED  BY <1>1, <1>2, <1>3, <1>4, <1>5

(* Where a number stands among the multiples of w.                         *)
LEMMA InOrder ==
  ASSUME NEW a \in Nat, NEW b \in Nat, NEW w \in Nat \ {0}, NEW x \in Nat, NEW z \in Nat,
         x * w <= a, a <= b, b < z * w + w
  PROVE  x <= z
<1>1. SUFFICES ASSUME x > z PROVE FALSE
  OBVIOUS
<1>2. PICK d \in Nat : x = (z + 1) + d
  <2>1. x - (z + 1) \in Nat /\ x = (z + 1) + (x - (z + 1))
    BY <1>1
  <2> QED  BY <2>1
<1>3. x * w = z * w + w + d * w /\ d * w \in Nat /\ z * w \in Nat
  BY <1>2
<1> QED  BY <1>3

LEMMA SameNode ==
  ASSUME NEW a \in Nat, NEW w \in Nat \ {0}, NEW x \in Nat, NEW z \in Nat,
         x * w <= a, a < x * w + w, z * w <= a, a < z * w + w
  PROVE  x = z
<1>1. a <= a
  OBVIOUS
<1>2. x <= z
  BY <1>1, InOrder
<1>3. z <= x
  BY <1>1, InOrder
<1> QED  BY <1>2, <1>3

LEMMA Twice ==
  ASSUME NEW x \in Nat, NEW v \in Nat
  PROVE  /\ (2 * x) * v = x * (2 * v) /\ (2 * x + 1) * v = x * (2 * v) + v
         /\ x * (2 * v) \in Nat
OBVIOUS
-----------------------------------------------------------------------------
(* The hash of a slice says how long it is and what its leaves are.        *)

LEMMA HashNode ==
  ASSUME NEW s, NEW n \in Nat, NEW from \in Nat, n > 1
  PROVE  LET k == LargestPowerBelow[n]
         IN  Hashes(s)[n][from] = <<Hashes(s)[k][from], Hashes(s)[n - k][from + k]>>
<1>1. Hashes(s)[n][from] = HashBody(s, 0, Hashes(s), n)[from]
  BY HashesAre
<1> QED  BY <1>1 DEF HashBody, NodeHash

LEMMA HashLeaf ==
  ASSUME NEW s, NEW from \in Nat
  PROVE  Hashes(s)[0][from] = <<>> /\ Hashes(s)[1][from] = <<s[from + 1]>>
<1>1. Hashes(s)[0][from] = HashBody(s, 0, Hashes(s), 0)[from]
      /\ Hashes(s)[1][from] = HashBody(s, 0, Hashes(s), 1)[from]
  BY HashesAre
<1> QED  BY <1>1 DEF HashBody, LeafHash, EmptyRoot

Alike(s, i, t, j, n) == \A l \in 1..n : s[i + l] = t[j + l]

LEMMA SameLeaves ==
  \A n, i, j \in Nat : \A s, t : Alike(s, i, t, j, n) => Hashes(s)[n][i] = Hashes(t)[n][j]
<1> SUFFICES ASSUME NEW s, NEW t, NEW n \in Nat, NEW i \in Nat, NEW j \in Nat, Alike(s, i, t, j, n)
             PROVE  Hashes(s)[n][i] = Hashes(t)[n][j]
  OBVIOUS
<1> DEFINE T == {k \in Nat : \E a, b \in Nat : /\ \A l \in 1..k : s[a + l] = t[b + l]
                                               /\ Hashes(s)[k][a] # Hashes(t)[k][b]}
<1>1. T = {}
  <2> SUFFICES ASSUME T # {} PROVE FALSE
    OBVIOUS
  <2>1. PICK k \in T : \A m \in T : k <= m
    <3>1. T \in SUBSET Nat
      OBVIOUS
    <3> QED  BY <3>1, LeastNat
  <2>2. PICK a \in Nat, b \in Nat : /\ \A l \in 1..k : s[a + l] = t[b + l]
                                    /\ Hashes(s)[k][a] # Hashes(t)[k][b]
    BY <2>1
  <2>0. k \in Nat
    BY <2>1
  <2> HIDE DEF T
  <2>3. CASE k <= 1
    <3>1. CASE k = 0
      BY <2>2, <3>1, HashLeaf
    <3>2. CASE k = 1
      <4>1. s[a + 1] = t[b + 1]
        BY <2>2, <3>2
      <4>2. Hashes(s)[1][a] = <<s[a + 1]>> /\ Hashes(t)[1][b] = <<t[b + 1]>>
        BY HashLeaf
      <4> QED  BY <2>2, <3>2, <4>1, <4>2
    <3> QED  BY <2>0, <2>3, <3>1, <3>2
  <2>4. CASE k > 1
    <3> DEFINE p == LargestPowerBelow[k]
    <3>1. p \in Nat /\ k - p \in Nat /\ p < k /\ k - p < k
      BY <2>0, <2>4, PowerRange
    <3> HIDE DEF p
    <3>2. p \notin T /\ k - p \notin T
      BY <2>0, <2>1, <3>1
    <3>3. \A l \in 1..p : s[a + l] = t[b + l]
      BY <2>0, <2>2, <3>1
    <3>4. ASSUME NEW l \in 1..(k - p) PROVE s[(a + p) + l] = t[(b + p) + l]
      <4>1. p + l \in 1..k /\ (a + p) + l = a + (p + l) /\ (b + p) + l = b + (p + l)
        BY <2>0, <3>1
      <4> QED  BY <2>2, <4>1
    <3>5. Hashes(s)[p][a] = Hashes(t)[p][b]
      BY <3>1, <3>2, <3>3 DEF T
    <3>6. Hashes(s)[k - p][a + p] = Hashes(t)[k - p][b + p]
      <4>1. a + p \in Nat /\ b + p \in Nat
        BY <3>1
      <4> QED  BY <3>1, <3>2, <3>4, <4>1 DEF T
    <3>7. Hashes(s)[k][a] = <<Hashes(s)[p][a], Hashes(s)[k - p][a + p]>>
          /\ Hashes(t)[k][b] = <<Hashes(t)[p][b], Hashes(t)[k - p][b + p]>>
      BY <2>0, <2>4, HashNode DEF p
    <3> QED  BY <2>2, <3>5, <3>6, <3>7
  <2> QED  BY <2>0, <2>3, <2>4
<1> QED  BY <1>1, ZenonT(40) DEF Alike

LEMMA SamePair ==
  ASSUME NEW a, NEW b, NEW c, NEW d, <<a, b>> = <<c, d>>
  PROVE  a = c /\ b = d
OBVIOUS
LEMMA SameHash ==
  ASSUME NEW s, NEW t, NEW n \in Nat, NEW m \in Nat, NEW i \in Nat, NEW j \in Nat,
         Hashes(s)[n][i] = Hashes(t)[m][j]
  PROVE  n = m /\ Alike(s, i, t, j, n)
<1> DEFINE Same(k, q, a, b) == k = q /\ Alike(s, a, t, b, k)
           T == {k \in Nat : \E q, a, b \in Nat : /\ Hashes(s)[k][a] = Hashes(t)[q][b]
                                                  /\ ~Same(k, q, a, b)}
<1>1. T = {}
  <2> SUFFICES ASSUME T # {} PROVE FALSE
    OBVIOUS
  <2>1. PICK k \in T : \A p \in T : k <= p
    <3>1. T \in SUBSET Nat
      OBVIOUS
    <3> QED  BY <3>1, LeastNat
  <2>2. PICK q \in Nat, a \in Nat, b \in Nat : /\ Hashes(s)[k][a] = Hashes(t)[q][b]
                                               /\ ~Same(k, q, a, b)
    BY <2>1
  <2> HIDE DEF T
  <2>3. k \in Nat
    BY <2>1 DEF T
  <2>4. /\ Len(Hashes(s)[k][a]) = IF k > 1 THEN 2 ELSE k
        /\ Len(Hashes(t)[q][b]) = IF q > 1 THEN 2 ELSE q
    <3>1. ASSUME NEW r \in Nat, NEW c \in Nat, NEW u
          PROVE Len(Hashes(u)[r][c]) = IF r > 1 THEN 2 ELSE r
      <4>1. CASE r > 1
        <5>1. \E g, h : Hashes(u)[r][c] = <<g, h>>
          BY <4>1, HashNode
        <5> QED  BY <4>1, <5>1
      <4>2. CASE ~(r > 1)
        <5>1. CASE r = 0
          <6>1. Hashes(u)[0][c] = <<>>
            BY HashLeaf
          <6> QED  BY <5>1, <6>1
        <5>2. CASE r = 1
          <6>1. Hashes(u)[1][c] = <<u[c + 1]>>
            BY HashLeaf
          <6> QED  BY <5>2, <6>1
        <5> QED  BY <4>2, <5>1, <5>2
      <4> QED  BY <4>1, <4>2
    <3> QED  BY <2>3, <3>1
  <2>5. (k > 1 /\ q > 1) \/ (k = 0 /\ q = 0) \/ (k = 1 /\ q = 1)
    <3>1. (IF k > 1 THEN 2 ELSE k) = (IF q > 1 THEN 2 ELSE q)
      BY <2>2, <2>4, Zenon
    <3> QED  BY <2>3, <3>1
  <2>6. CASE k = 0 /\ q = 0
    BY <2>2, <2>6 DEF Alike
  <2>7. CASE k = 1 /\ q = 1
    <3>1. Hashes(s)[1][a] = <<s[a + 1]>> /\ Hashes(t)[1][b] = <<t[b + 1]>>
      BY HashLeaf
    <3>2. s[a + 1] = t[b + 1]
      BY <2>2, <2>7, <3>1
    <3> QED  BY <2>2, <2>7, <3>2 DEF Alike
  <2>8. CASE k > 1 /\ q > 1
    <3> DEFINE p == LargestPowerBelow[k]
               r == LargestPowerBelow[q]
    <3>1. p \in Nat /\ k - p \in Nat /\ p < k /\ k - p < k
          /\ r \in Nat /\ q - r \in Nat
      BY <2>3, <2>8, PowerRange
    <3>2. Hashes(s)[k][a] = <<Hashes(s)[p][a], Hashes(s)[k - p][a + p]>>
          /\ Hashes(t)[q][b] = <<Hashes(t)[r][b], Hashes(t)[q - r][b + r]>>
      BY <2>3, <2>8, HashNode
    <3> HIDE DEF p, r
    <3>3. p \notin T /\ k - p \notin T
      BY <2>1, <2>3, <3>1
    <3>4. Hashes(s)[p][a] = Hashes(t)[r][b] /\ Hashes(s)[k - p][a + p] = Hashes(t)[q - r][b + r]
      <4>1. <<Hashes(s)[p][a], Hashes(s)[k - p][a + p]>> = <<Hashes(t)[r][b], Hashes(t)[q - r][b + r]>>
        BY <2>2, <3>2, Zenon
      <4> QED  BY <4>1, SamePair, Zenon
    <3> HIDE DEF Same, Alike
    <3>5. Same(p, r, a, b)
      BY <3>1, <3>3, <3>4, Zenon DEF T
    <3>6. a + p \in Nat /\ b + r \in Nat
      BY <3>1
    <3>7. Same(k - p, q - r, a + p, b + r)
      BY <3>1, <3>3, <3>4, <3>6, Zenon DEF T
    <3>8. p = r /\ k = q
      BY <2>3, <3>1, <3>5, <3>7 DEF Same, Alike
    <3>9. ASSUME NEW l \in 1..k PROVE s[a + l] = t[b + l]
      <4>1. CASE l <= p
        BY <2>3, <3>1, <3>5, <4>1 DEF Same, Alike
      <4>2. CASE l > p
        <5>1. l - p \in 1..(k - p) /\ (a + p) + (l - p) = a + l /\ (b + r) + (l - p) = b + l
          BY <2>3, <3>1, <3>8, <4>2
        <5> QED  BY <3>7, <5>1 DEF Same, Alike
      <4> QED  BY <2>3, <3>1, <4>1, <4>2
    <3> QED  BY <2>2, <3>8, <3>9 DEF Same, Alike
  <2> QED  BY <2>5, <2>6, <2>7, <2>8
<1>2. Same(n, m, i, j)
  <2> HIDE DEF Same, Alike
  <2> QED  BY <1>1, Zenon
<1> QED  BY <1>2

-----------------------------------------------------------------------------
(* A walk at the node x of a level whose last node is z.  Beside the last  *)
(* node the bits of the index and of the size are the same, and those that *)
(* stand for levels without a sibling may not have been dropped yet.       *)
At(q, x, z) ==
  /\ q.ok = TRUE /\ q.fn \in Nat /\ q.sn \in Nat
  /\ x # z => q.fn = x /\ q.sn = z
  /\ x = z => /\ q.fn = q.sn /\ (q.fn = 0 <=> x = 0)
              /\ Halvings[q.fn][0][q.fn] = Halvings[x][0][x]

LEMMA AtOnce ==
  ASSUME NEW q, NEW x \in Nat, NEW z \in Nat, q.ok = TRUE, q.fn = x, q.sn = z
  PROVE  At(q, x, z)
BY DEF At

(* Where the last node of a level has no sibling it is the last one of the *)
(* level above.                                                            *)
LEMMA AtAbove ==
  ASSUME NEW q, NEW x \in Nat, At(q, 2 * x, 2 * x)
  PROVE  At(q, x, x)
<1>1. x # 0 => Halvings[2 * x][0][2 * x] = Halvings[x][0][x]
  <2>1. 2 * x \in Nat /\ (2 * x) % 2 = 0 /\ (2 * x) \div 2 = x
    OBVIOUS
  <2>2. \A k \in Nat \ {0} :
          k % 2 = 0 => Halvings[k][0][k] = Halvings[k \div 2][0][k \div 2]
    BY HalvingsAre
  <2> QED  BY <2>1, <2>2
<1>2. x = 0 => 2 * x = 0
  OBVIOUS
<1>3. Halvings[2 * x][0][2 * x] = Halvings[x][0][x]
  BY <1>1, <1>2
<1> QED  BY <1>3 DEF At

LEMMA Rise ==
  ASSUME NEW q, NEW x \in Nat, NEW z \in Nat, NEW y \in Nat, At(q, x, z),
         (x = 2 * y /\ x < z) \/ (x = 2 * y + 1 /\ x <= z)
  PROVE  /\ q.sn # 0 /\ Up(q) = [fn |-> y, sn |-> z \div 2]
         /\ OnTheLeft(q) <=> x = 2 * y + 1
<1>1. CASE x = 2 * y
  <2>1. q.fn = x /\ q.sn = z /\ x < z /\ x % 2 = 0 /\ x \div 2 = y
    BY <1>1 DEF At
  <2>2. ~OnTheLeft(q)
    BY <2>1 DEF OnTheLeft
  <2> QED  BY <1>1, <2>1, <2>2 DEF Up
<1>2. CASE x # 2 * y
  <2>1. x = 2 * y + 1 /\ x % 2 = 1 /\ x \div 2 = y /\ x <= z
    BY <1>2
  <2>2. CASE x # z
    <3>1. q.fn = x /\ q.sn = z /\ z \in Nat \ {0}
      BY <2>1, <2>2 DEF At
    <3>2. OnTheLeft(q)
      BY <2>1, <3>1 DEF OnTheLeft
    <3>3. HalvedWhileEven(q) = [fn |-> x, sn |-> z]
      <4>1. Halvings[x][0][z] = [fn |-> x, sn |-> z]
        BY <2>1, HalvingsAre
      <4> QED  BY <3>1, <4>1 DEF HalvedWhileEven
    <3> QED  BY <2>1, <3>1, <3>2, <3>3 DEF Up
  <2>3. CASE x = z
    <3>1. q.fn = q.sn /\ q.fn # 0 /\ Halvings[q.fn][0][q.fn] = Halvings[x][0][x]
      BY <2>1, <2>3 DEF At
    <3>2. OnTheLeft(q)
      BY <3>1 DEF OnTheLeft
    <3>3. HalvedWhileEven(q) = [fn |-> x, sn |-> x]
      <4>1. Halvings[x][0][x] = [fn |-> x, sn |-> x]
        BY <2>1, HalvingsAre
      <4> QED  BY <3>1, <4>1 DEF HalvedWhileEven
    <3> QED  BY <2>1, <2>3, <3>1, <3>2, <3>3 DEF Up
  <2> QED  BY <2>2, <2>3
<1> QED  BY <1>1, <1>2

LEMMA ClimbedAbove ==
  ASSUME NEW q, NEW h, NEW c \in Nat, NEW y \in Nat, NEW x \in Nat, At(q, c, y),
         (c = 2 * x /\ c < y) \/ (c = 2 * x + 1 /\ c <= y)
  PROVE  /\ At(Climbed(q, h), x, y \div 2)
         /\ Climbed(q, h).current = IF c = 2 * x THEN NodeHash(q.current, h)
                                    ELSE NodeHash(h, q.current)
<1>1. q.sn # 0 /\ Up(q) = [fn |-> x, sn |-> y \div 2] /\ (OnTheLeft(q) <=> c = 2 * x + 1)
  BY Rise
<1>2. q.ok = TRUE /\ (c # 2 * x <=> c = 2 * x + 1) /\ y \div 2 \in Nat
  BY DEF At
<1>3. Climbed(q, h) = [fn |-> x, sn |-> y \div 2, ok |-> TRUE,
                       current |-> IF OnTheLeft(q) THEN NodeHash(h, q.current)
                                   ELSE NodeHash(q.current, h)]
  BY <1>1, <1>2 DEF Climbed
<1>4. At(Climbed(q, h), x, y \div 2)
  BY <1>2, <1>3, AtOnce
<1> QED  BY <1>1, <1>2, <1>3, <1>4

(* The node x of the level of width w stands over the leaf i.              *)
Covers(x, w, i) == x * w <= i /\ i < x * w + w
Width(w, x, size) == IF size - x * w < w THEN size - x * w ELSE w

(* From a level to the one below: a node that is no wider than half of its *)
(* own width is the same node there, and every other is split in two.      *)
Halved(v, x, z, a, size, y) ==
  LET n == Width(2 * v, x, size)
      from == x * (2 * v)
  IN  /\ Covers(y, v, size - 1) /\ y \div 2 = z
      /\ \/ /\ n <= v /\ n = size - from /\ Covers(2 * x, v, a) /\ y = 2 * x /\ z = x
            /\ Width(v, 2 * x, size) = n
         \/ /\ a < from + v /\ v < n /\ Covers(2 * x, v, a) /\ 2 * x < y
            /\ Width(v, 2 * x, size) = v
         \/ /\ from + v <= a /\ v < n /\ Covers(2 * x + 1, v, a) /\ 2 * x + 1 <= y
            /\ Width(v, 2 * x + 1, size) = n - v

LEMMA Halve ==
  ASSUME NEW v \in Nat \ {0}, NEW x \in Nat, NEW z \in Nat, NEW a \in Nat, NEW size \in Nat,
         a < size, Covers(x, 2 * v, a), Covers(z, 2 * v, size - 1)
  PROVE  /\ Width(2 * v, x, size) \in Nat \ {0} /\ Width(2 * v, x, size) <= 2 * v
         /\ Width(2 * v, x, size) <= size - x * (2 * v)
         /\ \E y \in Nat : Halved(v, x, z, a, size, y)
<1> DEFINE b == size - 1
           n == Width(2 * v, x, size)
           from == x * (2 * v)
           last == z * (2 * v)
<1>0. b \in Nat /\ a <= b /\ size = b + 1
  OBVIOUS
<1>1. /\ from \in Nat /\ last \in Nat
      /\ (2 * x) * v = from /\ (2 * x + 1) * v = from + v
      /\ (2 * z) * v = last /\ (2 * z + 1) * v = last + v
  BY Twice
<1>2. /\ from <= a /\ a < from + 2 * v /\ last <= b /\ b < last + 2 * v
      /\ n = IF size - from < 2 * v THEN size - from ELSE 2 * v
  BY <1>0 DEF Covers, Width
<1> HIDE DEF n, from, last, b
<1>3. n \in Nat \ {0} /\ n <= size - from /\ n <= 2 * v
  BY <1>0, <1>1, <1>2
<1>4. PICK y \in Nat : y * v <= b /\ b < y * v + v /\ (y = 2 * z \/ y = 2 * z + 1)
  <2>1. CASE b < last + v
    BY <1>0, <1>1, <1>2, <2>1
  <2>2. CASE b >= last + v
    BY <1>0, <1>1, <1>2, <2>2
  <2> QED  BY <1>0, <1>1, <2>1, <2>2
<1>5. y \div 2 = z /\ y * v \in Nat
  BY <1>0, <1>4
<1>6. CASE n <= v
  <2>1. n = size - from /\ b < from + v /\ a < from + v
    BY <1>0, <1>1, <1>2, <1>6
  <2>2. 2 * x <= y
    <3>1. from <= b /\ b < y * v + v /\ 2 * x \in Nat
      BY <1>0, <1>1, <1>2, <1>4
    <3> QED  BY <1>0, <1>1, <1>4, <3>1, InOrder
  <2>3. y <= 2 * x
    <3>1. 2 * x \in Nat /\ y * v <= b /\ b < (2 * x) * v + v
      BY <1>0, <1>1, <1>4, <2>1
    <3> QED  BY <1>0, <1>4, <3>1, InOrder
  <2>4. y = 2 * x /\ z = x
    BY <1>0, <1>4, <2>2, <2>3
  <2>5. Covers(2 * x, v, a) /\ Width(v, 2 * x, size) = n /\ Covers(y, v, b)
    BY <1>0, <1>1, <1>2, <1>4, <1>6, <2>1 DEF Covers, Width
  <2> QED  BY <1>0, <1>3, <1>4, <1>5, <1>6, <2>1, <2>4, <2>5 DEF n, from, b, Halved
<1>7. CASE v < n /\ a < from + v
  <2>1. from + v <= b /\ size - from > v
    BY <1>0, <1>1, <1>2, <1>7
  <2>2. 2 * x + 1 <= y
    <3>1. 2 * x + 1 \in Nat /\ (2 * x + 1) * v <= b /\ b < y * v + v
      BY <1>0, <1>1, <1>4, <2>1
    <3> QED  BY <1>0, <1>4, <3>1, InOrder
  <2>3. Covers(2 * x, v, a) /\ Width(v, 2 * x, size) = v /\ Covers(y, v, b) /\ 2 * x < y
    BY <1>0, <1>1, <1>2, <1>4, <1>7, <2>1, <2>2 DEF Covers, Width
  <2> QED  BY <1>0, <1>3, <1>4, <1>5, <1>7, <2>3 DEF n, from, b, Halved
<1>8. CASE v < n /\ from + v <= a
  <2>1. 2 * x + 1 <= y
    <3>1. 2 * x + 1 \in Nat /\ (2 * x + 1) * v <= b /\ b < y * v + v
      BY <1>0, <1>1, <1>2, <1>4, <1>8
    <3> QED  BY <1>0, <1>4, <3>1, InOrder
  <2>2. Covers(2 * x + 1, v, a) /\ Width(v, 2 * x + 1, size) = n - v /\ Covers(y, v, b)
    BY <1>0, <1>1, <1>2, <1>3, <1>4, <1>8 DEF Covers, Width
  <2> QED  BY <1>0, <1>3, <1>4, <1>5, <1>8, <2>1, <2>2 DEF n, from, b, Halved
<1> QED  BY <1>0, <1>1, <1>3, <1>6, <1>7, <1>8
-----------------------------------------------------------------------------
(* An inclusion proof.                                                     *)


\* The leaves with another record at an index.
Altered(s, i, r) == [s EXCEPT ![i + 1] = r]

HashSet(s) == {Hashes(s)[p[1]][p[2]] : p \in Nat \X Nat}

LEMMA HashIn ==
  ASSUME NEW s, NEW n \in Nat, NEW i \in Nat
  PROVE  Hashes(s)[n][i] \in HashSet(s)
<1>1. <<n, i>> \in Nat \X Nat /\ <<n, i>>[1] = n /\ <<n, i>>[2] = i
  OBVIOUS
<1> QED  BY <1>1, Zenon DEF HashSet

Reaches(r, i, s, w) ==
  \A x, z \in Nat :
    Covers(x, w, i) /\ Covers(z, w, Len(s) - 1) =>
      LET n == Width(w, x, Len(s))
          path == Paths(i, s)[n][x * w]
          q == ClimbEnd(r, i, Len(s), path)
      IN  /\ path \in Seq(HashSet(s)) /\ At(q, x, z)
          /\ q.current = Hashes(Altered(s, i, r))[n][x * w]

LEMMA ReachesLeaf ==
  ASSUME NEW r, NEW S, NEW s \in Seq(S), NEW i \in Nat, i < Len(s)
  PROVE  Reaches(r, i, s, 1)
<1> SUFFICES ASSUME NEW x \in Nat, NEW z \in Nat, Covers(x, 1, i), Covers(z, 1, Len(s) - 1)
             PROVE  LET n == Width(1, x, Len(s))
                        path == Paths(i, s)[n][x * 1]
                        q == ClimbEnd(r, i, Len(s), path)
                    IN  /\ path \in Seq(HashSet(s)) /\ At(q, x, z)
                        /\ q.current = Hashes(Altered(s, i, r))[n][x * 1]
  BY DEF Reaches
<1>1. Len(s) \in Nat /\ x = i /\ z = Len(s) - 1 /\ x * 1 = i /\ Width(1, x, Len(s)) = 1
  BY DEF Covers, Width
<1>2. Paths(i, s)[1][i] = <<>>
  <2>1. Paths(i, s)[1][i] = PathBody(i, s, Paths(i, s), 1)[i]
    BY <1>1, PathsAre
  <2> QED  BY <1>1, <2>1 DEF PathBody
<1>3. ClimbEnd(r, i, Len(s), <<>>) = ClimbStart(r, i, Len(s))
  <2> DEFINE none == <<>>
  <2>1. Len(none) = 0
    OBVIOUS
  <2> HIDE DEF none
  <2>2. Climbs(r, i, Len(s), none)[0] = ClimbStart(r, i, Len(s))
    BY ClimbsAre
  <2>3. ClimbEnd(r, i, Len(s), none) = ClimbStart(r, i, Len(s))
    BY <2>1, <2>2 DEF ClimbEnd
  <2> QED  BY <2>3 DEF none
<1>4. At(ClimbStart(r, i, Len(s)), x, z)
  BY <1>1, AtOnce DEF ClimbStart
<1>5. ClimbStart(r, i, Len(s)).current = Hashes(Altered(s, i, r))[1][i]
  <2>1. Hashes(Altered(s, i, r))[1][i] = <<Altered(s, i, r)[i + 1]>>
    BY <1>1, HashLeaf
  <2>2. Altered(s, i, r)[i + 1] = r
    BY <1>1 DEF Altered
  <2> QED  BY <2>1, <2>2 DEF ClimbStart, LeafHash
<1>6. <<>> \in Seq(HashSet(s))
  OBVIOUS
<1> QED  BY <1>1, <1>2, <1>3, <1>4, <1>5, <1>6

LEMMA ElsewhereTheSame ==
  ASSUME NEW r, NEW S, NEW s \in Seq(S), NEW i \in Nat
  PROVE  \A a, k \in Nat : (i < a \/ a + k <= i) /\ a + k <= Len(s) =>
           Hashes(Altered(s, i, r))[k][a] = Hashes(s)[k][a]
<1> SUFFICES ASSUME NEW a \in Nat, NEW k \in Nat, i < a \/ a + k <= i, a + k <= Len(s)
             PROVE  Hashes(Altered(s, i, r))[k][a] = Hashes(s)[k][a]
  OBVIOUS
<1> DEFINE t == Altered(s, i, r)
<1>1. Alike(t, a, s, a, k)
  <2>1. ASSUME NEW l \in 1..k PROVE t[a + l] = s[a + l]
    <3>1. a + l \in 1..Len(s) /\ a + l # i + 1
      OBVIOUS
    <3> QED  BY <3>1 DEF Altered
  <2> QED  BY <2>1 DEF Alike
<1> HIDE DEF t
<1>2. Hashes(t)[k][a] = Hashes(s)[k][a]
  BY <1>1, SameLeaves
<1> QED  BY <1>2 DEF t

LEMMA ReachesAbove ==
  ASSUME NEW r, NEW S, NEW s \in Seq(S), NEW i \in Nat, i < Len(s),
         NEW v, IsPower(v), Reaches(r, i, s, v)
  PROVE  Reaches(r, i, s, 2 * v)
<1> DEFINE N == Len(s)
           t == Altered(s, i, r)
           End(path) == ClimbEnd(r, i, N, path)
<1> SUFFICES ASSUME NEW x \in Nat, NEW z \in Nat,
                    Covers(x, 2 * v, i), Covers(z, 2 * v, N - 1)
             PROVE  LET n == Width(2 * v, x, N)
                        path == Paths(i, s)[n][x * (2 * v)]
                    IN  /\ path \in Seq(HashSet(s)) /\ At(End(path), x, z)
                        /\ End(path).current = Hashes(t)[n][x * (2 * v)]
  BY DEF Reaches
<1> DEFINE n == Width(2 * v, x, N)
           from == x * (2 * v)
           P == Paths(i, s)
<1>1. N \in Nat /\ v \in Nat \ {0} /\ i \in Nat /\ N - 1 \in Nat /\ i <= N - 1 /\ (N - 1) + 1 = N
  BY DEF IsPower
<1>2. n \in Nat \ {0} /\ n <= 2 * v /\ n <= N - from /\ \E y \in Nat : Halved(v, x, z, i, N, y)
  <2> HIDE DEF N, t
  <2> QED  BY <1>1, Halve
<1>3. PICK y \in Nat : Halved(v, x, z, i, N, y)
  BY <1>2
<1>0. /\ Covers(y, v, N - 1) /\ y \div 2 = z
      /\ \/ /\ n <= v /\ n = N - from /\ Covers(2 * x, v, i) /\ y = 2 * x /\ z = x
            /\ Width(v, 2 * x, N) = n
         \/ /\ i < from + v /\ v < n /\ Covers(2 * x, v, i) /\ 2 * x < y
            /\ Width(v, 2 * x, N) = v
         \/ /\ from + v <= i /\ v < n /\ Covers(2 * x + 1, v, i) /\ 2 * x + 1 <= y
            /\ Width(v, 2 * x + 1, N) = n - v
  BY <1>3, Zenon DEF Halved
<1>4. from \in Nat /\ (2 * x) * v = from /\ (2 * x + 1) * v = from + v
      /\ 2 * x \in Nat /\ 2 * x + 1 \in Nat
  BY <1>1, Twice
<1>5. ASSUME NEW c \in Nat, Covers(c, v, i)
      PROVE  LET path == P[Width(v, c, N)][c * v]
             IN  /\ path \in Seq(HashSet(s)) /\ At(End(path), c, y)
                 /\ End(path).current = Hashes(t)[Width(v, c, N)][c * v]
  BY <1>0, <1>5 DEF Reaches
<1>6. ASSUME v < n
      PROVE  /\ n > 1 /\ n - v \in Nat /\ from + v \in Nat
             /\ P[n][from] = IF i - from < v
                             THEN Append(P[v][from], Hashes(s)[n - v][from + v])
                             ELSE Append(P[n - v][from + v], Hashes(s)[v][from])
             /\ Hashes(t)[n][from] = NodeHash(Hashes(t)[v][from], Hashes(t)[n - v][from + v])
  <2>1. n \in Nat /\ n > 1 /\ n - v \in Nat /\ from + v \in Nat
    BY <1>1, <1>2, <1>4, <1>6
  <2>2. LargestPowerBelow[n] = v
    BY <1>2, <1>6, PowerBetween
  <2> HIDE DEF n, from, t, N, P
  <2>3. P[n][from] = PathBody(i, s, P, n)[from]
    BY <1>4, <2>1, PathsAre DEF P
  <2>4. Hashes(t)[n][from] = <<Hashes(t)[v][from], Hashes(t)[n - v][from + v]>>
    BY <1>4, <2>1, <2>2, HashNode
  <2> QED  BY <1>4, <2>1, <2>2, <2>3, <2>4 DEF PathBody, NodeHash
<1>7. \A a, k \in Nat :
        (i < a \/ a + k <= i) /\ a + k <= N => Hashes(t)[k][a] = Hashes(s)[k][a]
  <2>2. \A a, k \in Nat :
        (i < a \/ a + k <= i) /\ a + k <= Len(s) =>
          Hashes(Altered(s, i, r))[k][a] = Hashes(s)[k][a]
    BY ElsewhereTheSame
  <2> QED  BY <2>2
<1> HIDE DEF n, from, t, N, P
<1>8. ASSUME NEW path \in Seq(HashSet(s)), NEW h \in HashSet(s), NEW c \in Nat, At(End(path), c, y),
             (c = 2 * x /\ c < y) \/ (c = 2 * x + 1 /\ c <= y)
      PROVE  /\ Append(path, h) \in Seq(HashSet(s))
             /\ At(End(Append(path, h)), x, z)
             /\ End(Append(path, h)).current
                  = IF c = 2 * x THEN NodeHash(End(path).current, h)
                    ELSE NodeHash(h, End(path).current)
  <2>1. End(Append(path, h)) = Climbed(End(path), h)
    BY ClimbAppend
  <2>2. Append(path, h) \in Seq(HashSet(s))
    BY <1>8
  <2> HIDE DEF End
  <2>3. y \div 2 = z
    BY <1>0
  <2>4. /\ At(Climbed(End(path), h), x, y \div 2)
        /\ Climbed(End(path), h).current = IF c = 2 * x THEN NodeHash(End(path).current, h)
                                           ELSE NodeHash(h, End(path).current)
    BY <1>8, ClimbedAbove
  <2> QED  BY <2>1, <2>2, <2>3, <2>4, Zenon
<1> SUFFICES /\ P[n][from] \in Seq(HashSet(s)) /\ At(End(P[n][from]), x, z)
             /\ End(P[n][from]).current = Hashes(t)[n][from]
  BY DEF n, from, P
<1> HIDE DEF End
<1>9. CASE n <= v
  <2>1. Width(v, 2 * x, N) = n /\ Covers(2 * x, v, i) /\ y = 2 * x /\ z = x
    BY <1>1, <1>2, <1>0, <1>9
  <2>2. /\ P[n][from] \in Seq(HashSet(s)) /\ At(End(P[n][from]), 2 * x, 2 * x)
        /\ End(P[n][from]).current = Hashes(t)[n][from]
    BY <1>4, <1>5, <2>1
  <2> QED  BY <2>1, <2>2, AtAbove
<1>10. CASE v < n /\ i < from + v
  <2>1. Covers(2 * x, v, i) /\ 2 * x < y /\ Width(v, 2 * x, N) = v
    BY <1>1, <1>2, <1>0, <1>4, <1>10
  <2>2. /\ P[v][from] \in Seq(HashSet(s)) /\ At(End(P[v][from]), 2 * x, y)
        /\ End(P[v][from]).current = Hashes(t)[v][from]
    BY <1>4, <1>5, <2>1
  <2> DEFINE h == Hashes(s)[n - v][from + v]
  <2>3. h \in HashSet(s) /\ h = Hashes(t)[n - v][from + v]
    <3>1. i < from + v /\ (from + v) + (n - v) <= N
      BY <1>1, <1>2, <1>4, <1>10
    <3> QED  BY <1>6, <1>7, <1>10, <3>1, HashIn
  <2>4. P[n][from] = Append(P[v][from], h) /\ Hashes(t)[n][from] = NodeHash(Hashes(t)[v][from], h)
    <3>1. i - from < v
      BY <1>1, <1>4, <1>10
    <3> QED  BY <1>6, <1>10, <2>3, <3>1, Zenon
  <2> HIDE DEF h
  <2> QED  BY <1>4, <1>8, <2>1, <2>2, <2>3, <2>4
<1>11. CASE v < n /\ from + v <= i
  <2>1. Covers(2 * x + 1, v, i) /\ 2 * x + 1 <= y /\ Width(v, 2 * x + 1, N) = n - v
    BY <1>1, <1>2, <1>0, <1>4, <1>11
  <2>2. /\ P[n - v][from + v] \in Seq(HashSet(s)) /\ At(End(P[n - v][from + v]), 2 * x + 1, y)
        /\ End(P[n - v][from + v]).current = Hashes(t)[n - v][from + v]
    BY <1>4, <1>5, <2>1
  <2> DEFINE h == Hashes(s)[v][from]
  <2>3. h \in HashSet(s) /\ h = Hashes(t)[v][from]
    <3>1. from + v <= i /\ from + v <= N
      BY <1>1, <1>2, <1>4, <1>11
    <3> QED  BY <1>1, <1>4, <1>7, <1>11, <3>1, HashIn
  <2>4. P[n][from] = Append(P[n - v][from + v], h)
        /\ Hashes(t)[n][from] = NodeHash(h, Hashes(t)[n - v][from + v])
    <3>1. ~(i - from < v)
      BY <1>1, <1>4, <1>11
    <3> QED  BY <1>6, <1>11, <2>3, <3>1, Zenon
  <2> HIDE DEF h
  <2> QED  BY <1>4, <1>8, <2>1, <2>2, <2>3, <2>4, SMTT(40)
<1>12. n <= v \/ (v < n /\ i < from + v) \/ (v < n /\ from + v <= i)
  BY <1>1, <1>2, <1>4
<1> QED  BY <1>9, <1>10, <1>11, <1>12

LEMMA Reached ==
  ASSUME NEW r, NEW S, NEW s \in Seq(S), NEW i \in Nat, i < Len(s)
  PROVE  \A w : IsPower(w) => Reaches(r, i, s, w)
<1> DEFINE T == {w \in Nat : IsPower(w) /\ ~Reaches(r, i, s, w)}
<1>1. T = {}
  <2> SUFFICES ASSUME T # {} PROVE FALSE
    OBVIOUS
  <2>1. PICK w \in T : \A u \in T : w <= u
    <3>1. T \in SUBSET Nat
      OBVIOUS
    <3> QED  BY <3>1, LeastNat
  <2>2. IsPower(w) /\ ~Reaches(r, i, s, w) /\ w # 1
    BY <2>1, ReachesLeaf
  <2>3. PICK v : IsPower(v) /\ w = 2 * v /\ v < w
    BY <2>2, HalfIsPower
  <2>4. Reaches(r, i, s, v)
    BY <2>1, <2>2, <2>3 DEF IsPower
  <2> QED  BY <2>2, <2>3, <2>4, ReachesAbove
<1> QED  BY <1>1 DEF IsPower

(* Whatever the record, the walk up the inclusion proof of a leaf arrives  *)
(* at the root of the log with the record in its place.                    *)
LEMMA WalkReachesTheRoot ==
  ASSUME NEW r, NEW S, NEW s \in Seq(S), NEW i \in Nat, i < Len(s)
  PROVE  ClimbToRoot(r, i, Len(s), InclusionProof(i, s))
           = [root |-> TreeHash(Altered(s, i, r)), complete |-> TRUE]
<1> DEFINE N == Len(s)
           path == Paths(i, s)[N][0]
           q == ClimbEnd(r, i, N, path)
<1>1. N \in Nat \ {0}
  OBVIOUS
<1>2. PICK w : IsPower(w) /\ N <= w
  BY <1>1, PowerAbove
<1>3. w \in Nat \ {0} /\ 0 * w = 0
  BY <1>2 DEF IsPower
<1>4. Covers(0, w, i) /\ Covers(0, w, N - 1) /\ Width(w, 0, N) = N
  BY <1>1, <1>2, <1>3 DEF Covers, Width
<1>5. Reaches(r, i, s, w)
  BY <1>2, Reached
<1>6. At(q, 0, 0) /\ q.current = Hashes(Altered(s, i, r))[N][0]
  <2>1. LET n == Width(w, 0, N)
            p == Paths(i, s)[n][0 * w]
        IN  /\ At(ClimbEnd(r, i, N, p), 0, 0)
            /\ ClimbEnd(r, i, N, p).current = Hashes(Altered(s, i, r))[n][0 * w]
    BY <1>4, <1>5, Zenon DEF Reaches
  <2> QED  BY <1>3, <1>4, <2>1
<1>7. q.ok = TRUE /\ q.sn = 0
  BY <1>6 DEF At
<1>8. Len(Altered(s, i, r)) = N
  BY DEF Altered
<1>9. TreeHash(Altered(s, i, r)) = q.current
  BY <1>6, <1>8, Zenon DEF TreeHash
<1>10. ClimbToRoot(r, i, N, InclusionProof(i, s)) = [root |-> q.current, complete |-> q.ok /\ q.sn = 0]
  BY Zenon DEF ClimbToRoot, InclusionProof, ClimbEnd
<1> QED  BY <1>7, <1>9, <1>10

(* The verifier accepts the proof of a leaf for the record that is there   *)
(* and for no other.                                                       *)
THEOREM InclusionIsDecided ==
  ASSUME NEW r, NEW S, NEW s \in Seq(S), NEW i \in Nat, i < Len(s)
  PROVE  VerifyInclusionProof(r, i, Len(s), InclusionProof(i, s), TreeHash(s)) <=> r = s[i + 1]
<1> DEFINE t == Altered(s, i, r)
<1>1. VerifyInclusionProof(r, i, Len(s), InclusionProof(i, s), TreeHash(s)) <=> TreeHash(t) = TreeHash(s)
  <2>1. ClimbToRoot(r, i, Len(s), InclusionProof(i, s)) = [root |-> TreeHash(t), complete |-> TRUE]
    BY WalkReachesTheRoot
  <2>2. Len(s) \in Nat /\ 0 <= i
    OBVIOUS
  <2> HIDE DEF t
  <2>3. \A a, b : [root |-> a, complete |-> TRUE] = [root |-> b, complete |-> TRUE] <=> a = b
    OBVIOUS
  <2> QED  BY <2>1, <2>2, <2>3, Zenon DEF VerifyInclusionProof
<1>2. Len(t) = Len(s) /\ t[i + 1] = r /\ i + 1 \in 1..Len(s) /\ Len(s) \in Nat
  BY DEF Altered
<1>3. ASSUME r = s[i + 1] PROVE t = s
  BY <1>3 DEF Altered
<1>4. ASSUME TreeHash(t) = TreeHash(s) PROVE r = s[i + 1]
  <2>1. Hashes(t)[Len(s)][0] = Hashes(s)[Len(s)][0]
    BY <1>2, <1>4, Zenon DEF TreeHash
  <2> DEFINE n == Len(s)
  <2>2. n \in Nat /\ i + 1 \in 1..n
    OBVIOUS
  <2> HIDE DEF t, n
  <2>3. \A u, c : Hashes(u)[n][0] = Hashes(c)[n][0] => Alike(u, 0, c, 0, n)
    BY <2>2, SameHash
  <2>4. Alike(t, 0, s, 0, n)
    BY <2>1, <2>3, Zenon DEF n
  <2>5. t[0 + (i + 1)] = s[0 + (i + 1)]
    BY <2>2, <2>4, Zenon DEF Alike
  <2>6. 0 + (i + 1) = i + 1
    OBVIOUS
  <2> QED  BY <1>2, <2>5, <2>6
<1> QED  BY <1>1, <1>3, <1>4

-----------------------------------------------------------------------------
(* A consistency proof.  Its old tree ends in the node x of the level of   *)
(* width w, an even one: all above it is in the proof.                     *)

Halted(a, b) ==
  \E w, x, y, z \in Nat :
    /\ IsPower(w) /\ x = 2 * y /\ a + 1 = x * w + w /\ Covers(z, w, b)
    /\ Halvings[a][1][b] = [fn |-> x, sn |-> z]

LEMMA HalvedIsHalted ==
  \A a, b \in Nat : Halted(a, b)
<1> DEFINE T == {a \in Nat : \E b \in Nat : ~Halted(a, b)}
<1>1. T = {}
  <2> SUFFICES ASSUME T # {} PROVE FALSE
    OBVIOUS
  <2>1. PICK a \in T : \A c \in T : a <= c
    <3>1. T \in SUBSET Nat
      OBVIOUS
    <3> QED  BY <3>1, LeastNat
  <2>2. PICK b \in Nat : ~Halted(a, b)
    BY <2>1
  <2>3. a \in Nat
    BY <2>1
  <2>4. CASE a = 0 \/ a % 2 # 1
    <3>1. \E y \in Nat : a = 2 * y
      <4>1. a = 2 * (a \div 2) /\ a \div 2 \in Nat
        BY <2>3, <2>4
      <4> QED  BY <4>1
    <3>2. a + 1 = a * 1 + 1 /\ Covers(b, 1, b)
      BY <2>3 DEF Covers
    <3>3. Halvings[a][1][b] = [fn |-> a, sn |-> b]
      BY <2>3, <2>4, HalvingsAre
    <3> QED  BY <2>2, <2>3, <3>1, <3>2, <3>3, OneIsPower DEF Halted
  <2>5. CASE ~(a = 0 \/ a % 2 # 1)
    <3> DEFINE h == a \div 2
               g == b \div 2
    <3>1. h \in Nat /\ h < a /\ a = 2 * h + 1 /\ g \in Nat /\ 2 * g <= b /\ b <= 2 * g + 1
      BY <2>3, <2>5
    <3>2. Halvings[a][1][b] = Halvings[h][1][g]
      BY <2>3, <2>5, HalvingsAre
    <3> HIDE DEF h, g
    <3>3. Halted(h, g)
      BY <2>1, <2>3, <3>1
    <3>4. PICK w \in Nat, x \in Nat, y \in Nat, z \in Nat :
            /\ IsPower(w) /\ x = 2 * y /\ h + 1 = x * w + w /\ Covers(z, w, g)
            /\ Halvings[h][1][g] = [fn |-> x, sn |-> z]
      BY <3>3, Zenon DEF Halted
    <3>5. IsPower(2 * w)
      BY <3>4, DoubleIsPower
    <3>6. x * (2 * w) = 2 * (x * w) /\ z * (2 * w) = 2 * (z * w) /\ x * w \in Nat /\ z * w \in Nat
      OBVIOUS
    <3>7. a + 1 = x * (2 * w) + 2 * w
      BY <3>1, <3>4, <3>6
    <3>8. Covers(z, 2 * w, b)
      <4>1. z * w <= g /\ g < z * w + w
        BY <3>4 DEF Covers
      <4>2. z * (2 * w) <= b /\ b < z * (2 * w) + 2 * w
        BY <3>1, <3>6, <4>1
      <4> QED  BY <4>2 DEF Covers
    <3>9. 2 * w \in Nat
      OBVIOUS
    <3> QED  BY <2>2, <3>2, <3>4, <3>5, <3>7, <3>8, <3>9, Zenon DEF Halted
  <2> QED  BY <2>4, <2>5
<1> QED  BY <1>1

LEMMA ExtendedAbove ==
  ASSUME NEW q, NEW h, NEW c \in Nat, NEW y \in Nat, NEW x \in Nat, At(q, c, y),
         (c = 2 * x /\ c < y) \/ (c = 2 * x + 1 /\ c <= y)
  PROVE  /\ At(Extended(q, h), x, y \div 2)
         /\ Extended(q, h).fr = IF c = 2 * x THEN q.fr ELSE NodeHash(h, q.fr)
         /\ Extended(q, h).sr = IF c = 2 * x THEN NodeHash(q.sr, h) ELSE NodeHash(h, q.sr)
<1>1. q.sn # 0 /\ Up(q) = [fn |-> x, sn |-> y \div 2] /\ (OnTheLeft(q) <=> c = 2 * x + 1)
  BY Rise
<1>2. q.ok = TRUE /\ (c # 2 * x <=> c = 2 * x + 1) /\ y \div 2 \in Nat
  BY DEF At
<1>3. Extended(q, h) = [fn |-> x, sn |-> y \div 2, ok |-> TRUE,
                        fr |-> IF OnTheLeft(q) THEN NodeHash(h, q.fr) ELSE q.fr,
                        sr |-> IF OnTheLeft(q) THEN NodeHash(h, q.sr) ELSE NodeHash(q.sr, h)]
  BY <1>1, <1>2 DEF Extended
<1>4. At(Extended(q, h), x, y \div 2)
  BY <1>2, <1>3, AtOnce
<1> QED  BY <1>1, <1>2, <1>3, <1>4

(* The walk starts at that node, in a tree t that is s but for the leaves  *)
(* of a root which the proof left out.                                     *)
Start(t, w, x, z) ==
  [fn |-> x, sn |-> z, ok |-> TRUE, fr |-> Hashes(t)[w][x * w], sr |-> Hashes(t)[w][x * w]]
Given(s, w, x) == IF x # 0 THEN <<Hashes(s)[w][x * w]>> ELSE <<>>

SameBeyond(s, t, m) ==
  \A a, k \in Nat : m <= a /\ a + k <= Len(s) => Hashes(t)[k][a] = Hashes(s)[k][a]

Splits(m, s, t, w, x, z) ==
  /\ IsPower(w) /\ w \in Nat \ {0} /\ x \in Nat /\ (\E y \in Nat : x = 2 * y) /\ z \in Nat
  /\ m \in Nat \ {0} /\ m < Len(s) /\ m = x * w + w /\ Covers(z, w, Len(s) - 1)
  /\ SameBeyond(s, t, m) /\ (x # 0 => t = s)

Leftmost(from) == from = 0

Built(m, s, t, start, given, c, e, w) ==
  LET n == Width(w, c, Len(s))
      from == c * w
  IN  \E nodes \in Seq(HashSet(s)) :
        /\ Subproofs(m, s)[n][from][Leftmost(from)] = given \o nodes
        /\ At(ExtendEnd(start, nodes), c, e)
        /\ ExtendEnd(start, nodes).fr = Hashes(t)[m - from][from]
        /\ ExtendEnd(start, nodes).sr = Hashes(t)[n][from]

Builds(m, s, t, u, x, z, w) ==
  \A c, e \in Nat :
    Covers(c, w, m - 1) /\ Covers(e, w, Len(s) - 1) =>
      /\ w = u \/ m - c * w < Width(w, c, Len(s))
      /\ Built(m, s, t, Start(t, u, x, z), Given(s, u, x), c, e, w)

LEMMA BuildsFirst ==
  ASSUME NEW m, NEW S, NEW s \in Seq(S), NEW t, NEW u, NEW x, NEW z, Splits(m, s, t, u, x, z)
  PROVE  Builds(m, s, t, u, x, z, u)
<1> SUFFICES ASSUME NEW c \in Nat, NEW e \in Nat,
                    Covers(c, u, m - 1), Covers(e, u, Len(s) - 1)
             PROVE  Built(m, s, t, Start(t, u, x, z), Given(s, u, x), c, e, u)
  BY DEF Builds
<1> DEFINE N == Len(s)
           from == x * u
<1>1. /\ u \in Nat \ {0} /\ x \in Nat /\ z \in Nat /\ m \in Nat \ {0} /\ N \in Nat /\ m < N
      /\ m = from + u /\ Covers(z, u, N - 1) /\ m - 1 \in Nat /\ N - 1 \in Nat
  BY DEF Splits
<1>2. c = x
  <2>1. x * u <= m - 1 /\ m - 1 < x * u + u /\ x * u \in Nat
    BY <1>1
  <2>2. c * u <= m - 1 /\ m - 1 < c * u + u
    BY DEF Covers
  <2> HIDE DEF N, from
  <2> QED  BY <1>1, <2>1, <2>2, SameNode
<1>3. e = z
  <2>1. z * u <= N - 1 /\ N - 1 < z * u + u /\ e * u <= N - 1 /\ N - 1 < e * u + u
    BY <1>1 DEF Covers
  <2> HIDE DEF N, from
  <2> QED  BY <1>1, <2>1, SameNode
<1>4. from \in Nat /\ (from = 0 <=> x = 0)
  BY <1>1
<1>5. Width(u, x, N) = u /\ m - from = u
  BY <1>1, <1>4 DEF Width
<1>6. Subproofs(m, s)[u][from][Leftmost(from)] = Given(s, u, x)
  <2>1. Subproofs(m, s)[u][from][Leftmost(from)] = SubAt(m, s, Subproofs(m, s), u, from, Leftmost(from))
    <3>1. Leftmost(from) \in BOOLEAN
      BY DEF Leftmost
    <3> HIDE DEF from
    <3>2. \A g \in BOOLEAN :
            Subproofs(m, s)[u][from][g] = SubAt(m, s, Subproofs(m, s), u, from, g)
      BY <1>1, <1>4, SubproofsAre
    <3> QED  BY <3>1, <3>2, Zenon
  <2>2. SubAt(m, s, Subproofs(m, s), u, from, Leftmost(from)) = IF Leftmost(from) THEN <<>> ELSE <<Hashes(s)[u][from]>>
    BY <1>5, Zenon DEF SubAt
  <2> QED  BY <1>4, <2>1, <2>2 DEF Given, Leftmost
<1> DEFINE start == Start(t, u, x, z)
           given == Given(s, u, x)
           none == <<>>
<1>7. given \o none = given /\ Len(none) = 0 /\ none \in Seq(HashSet(s))
  BY DEF Given
<1> HIDE DEF start, given, none, from, N
<1>8. ExtendEnd(start, none) = start
  <2>1. Extensions(start, none)[0] = start
    BY ExtensionsAre
  <2> QED  BY <1>7, <2>1 DEF ExtendEnd
<1>9. /\ At(start, x, z)
      /\ start.fr = Hashes(t)[u][from] /\ start.sr = Hashes(t)[u][from]
  BY <1>1, AtOnce DEF start, Start, from
<1>10. \E nodes \in Seq(HashSet(s)) :
        /\ Subproofs(m, s)[u][from][Leftmost(from)] = given \o nodes
        /\ At(ExtendEnd(start, nodes), x, z)
        /\ ExtendEnd(start, nodes).fr = Hashes(t)[m - from][from]
        /\ ExtendEnd(start, nodes).sr = Hashes(t)[u][from]
  BY <1>5, <1>6, <1>7, <1>8, <1>9, Zenon DEF given
<1> QED  BY <1>2, <1>3, <1>5, <1>10 DEF Built, start, given, N, from

AppendsToTheEnd(H) ==
  \A a, b \in Seq(H), h \in H :
    Append(b, h) \in Seq(H) /\ Append(a \o b, h) = a \o Append(b, h)

LEMMA AppendToConcat ==
  ASSUME NEW H
  PROVE  AppendsToTheEnd(H)
<1> SUFFICES ASSUME NEW a \in Seq(H), NEW b \in Seq(H), NEW h \in H
             PROVE  Append(b, h) \in Seq(H) /\ Append(a \o b, h) = a \o Append(b, h)
  BY Zenon DEF AppendsToTheEnd
<1>1. a \o b \in Seq(H) /\ Append(b, h) \in Seq(H) /\ Len(Append(a \o b, h)) = Len(a) + Len(b) + 1
      /\ Len(a \o Append(b, h)) = Len(a) + Len(b) + 1
      /\ Append(a \o b, h) \in Seq(H) /\ a \o Append(b, h) \in Seq(H)
  OBVIOUS
<1>2. ASSUME NEW j \in 1..(Len(a) + Len(b) + 1)
      PROVE  Append(a \o b, h)[j] = (a \o Append(b, h))[j]
  OBVIOUS
<1> QED  BY <1>1, <1>2, SMTT(40)

LEMMA BuildsAbove ==
  ASSUME NEW m, NEW S, NEW s \in Seq(S), NEW t, NEW u, NEW x, NEW z, Splits(m, s, t, u, x, z),
         NEW v, IsPower(v), u <= v, Builds(m, s, t, u, x, z, v)
  PROVE  Builds(m, s, t, u, x, z, 2 * v)
<1> DEFINE N == Len(s)
           start == Start(t, u, x, z)
           given == Given(s, u, x)
           End(nodes) == ExtendEnd(start, nodes)
           Sub == Subproofs(m, s)
<1> SUFFICES ASSUME NEW c \in Nat, NEW e \in Nat,
                    Covers(c, 2 * v, m - 1), Covers(e, 2 * v, N - 1)
             PROVE  /\ m - c * (2 * v) < Width(2 * v, c, N)
                    /\ Built(m, s, t, start, given, c, e, 2 * v)
  BY DEF Builds
<1> DEFINE n == Width(2 * v, c, N)
           from == c * (2 * v)
<1>1. /\ N \in Nat /\ v \in Nat \ {0} /\ m \in Nat \ {0} /\ m < N
      /\ m - 1 \in Nat /\ m - 1 < N
      /\ u \in Nat \ {0} /\ x \in Nat /\ m = x * u + u /\ x * u \in Nat
  BY DEF IsPower, Splits
<1>2. n \in Nat \ {0} /\ n <= 2 * v /\ n <= N - from /\ \E y \in Nat : Halved(v, c, e, m - 1, N, y)
  <2> HIDE DEF N
  <2> QED  BY <1>1, Halve
<1>3. PICK y \in Nat : Halved(v, c, e, m - 1, N, y)
  BY <1>2
<1>4. /\ Covers(y, v, N - 1) /\ y \div 2 = e
      /\ \/ /\ n <= v /\ n = N - from /\ Covers(2 * c, v, m - 1) /\ y = 2 * c /\ e = c
            /\ Width(v, 2 * c, N) = n
         \/ /\ m - 1 < from + v /\ v < n /\ Covers(2 * c, v, m - 1) /\ 2 * c < y
            /\ Width(v, 2 * c, N) = v
         \/ /\ from + v <= m - 1 /\ v < n /\ Covers(2 * c + 1, v, m - 1) /\ 2 * c + 1 <= y
            /\ Width(v, 2 * c + 1, N) = n - v
  BY <1>3, Zenon DEF Halved
<1>5. /\ from \in Nat /\ (2 * c) * v = from /\ (2 * c + 1) * v = from + v
      /\ 2 * c \in Nat /\ 2 * c + 1 \in Nat /\ from <= m - 1 /\ m - 1 < from + 2 * v
  BY <1>1, Twice DEF Covers
<1>6. ASSUME NEW d \in Nat, Covers(d, v, m - 1)
      PROVE  /\ v = u \/ m - d * v < Width(v, d, N)
             /\ Built(m, s, t, start, given, d, y, v)
  BY <1>4, <1>6 DEF Builds
<1> HIDE DEF n, from, N, Sub, start, given
<1>7. ASSUME v < n
      PROVE  /\ n > 1 /\ n - v \in Nat \ {0} /\ from + v \in Nat
             /\ m - from # n =>
                  Sub[n][from][Leftmost(from)]
                    = IF m - from <= v
                      THEN Append(Sub[v][from][Leftmost(from)], Hashes(s)[n - v][from + v])
                      ELSE Append(Sub[n - v][from + v][FALSE], Hashes(s)[v][from])
             /\ Hashes(t)[n][from] = NodeHash(Hashes(t)[v][from], Hashes(t)[n - v][from + v])
  <2>1. n \in Nat /\ n > 1 /\ n - v \in Nat \ {0} /\ from + v \in Nat
    BY <1>1, <1>2, <1>5, <1>7
  <2>2. LargestPowerBelow[n] = v
    BY <1>2, <1>7, PowerBetween
  <2>3. Sub[n][from][Leftmost(from)] = SubAt(m, s, Sub, n, from, Leftmost(from))
    <3>1. Leftmost(from) \in BOOLEAN
      BY DEF Leftmost
    <3>2. \A g \in BOOLEAN : Sub[n][from][g] = SubAt(m, s, Sub, n, from, g)
      BY <1>5, <2>1, SubproofsAre DEF Sub
    <3> QED  BY <3>1, <3>2, Zenon
  <2>4. Hashes(t)[n][from] = <<Hashes(t)[v][from], Hashes(t)[n - v][from + v]>>
    BY <1>5, <2>1, <2>2, HashNode
  <2>5. ~(n <= 1)
    BY <2>1
  <2>6. m - from # n =>
          SubAt(m, s, Sub, n, from, Leftmost(from))
            = IF m - from <= v
              THEN Append(Sub[v][from][Leftmost(from)], Hashes(s)[n - v][from + v])
              ELSE Append(Sub[n - v][from + v][FALSE], Hashes(s)[v][from])
    BY <2>2, <2>5, Zenon DEF SubAt
  <2> QED  BY <2>1, <2>3, <2>4, <2>6 DEF NodeHash
<1>8. \A a, k \in Nat : m <= a /\ a + k <= N => Hashes(t)[k][a] = Hashes(s)[k][a]
  BY DEF Splits, SameBeyond, N
<1>9. given \in Seq(HashSet(s))
  BY HashIn, <1>1 DEF given, Given
<1>10. ASSUME NEW nodes \in Seq(HashSet(s)), NEW h \in HashSet(s)
       PROVE  /\ Append(nodes, h) \in Seq(HashSet(s))
              /\ Append(given \o nodes, h) = given \o Append(nodes, h)
              /\ End(Append(nodes, h)) = Extended(End(nodes), h)
  <2>1. Append(nodes, h) \in Seq(HashSet(s)) /\ Append(given \o nodes, h) = given \o Append(nodes, h)
    <3> DEFINE H == HashSet(s)
    <3>1. given \in Seq(H) /\ nodes \in Seq(H) /\ h \in H
      BY <1>9
    <3> HIDE DEF H
    <3>2. AppendsToTheEnd(H)
      BY AppendToConcat
    <3>3. Append(nodes, h) \in Seq(H) /\ Append(given \o nodes, h) = given \o Append(nodes, h)
      BY <3>1, <3>2, Zenon DEF AppendsToTheEnd
    <3> QED  BY <3>3 DEF H
  <2> QED  BY <2>1, ExtendAppend
<1> HIDE DEF End
<1>11. SUFFICES /\ m - from < n
                /\ \E nodes \in Seq(HashSet(s)) :
                     /\ Sub[n][from][Leftmost(from)] = given \o nodes
                     /\ At(End(nodes), c, e)
                     /\ End(nodes).fr = Hashes(t)[m - from][from]
                     /\ End(nodes).sr = Hashes(t)[n][from]
  BY DEF Built, n, from, N, Sub, End, start, given
<1>12. ASSUME NEW d \in Nat, Covers(d, v, m - 1)
       PROVE  \E nodes \in Seq(HashSet(s)) :
                /\ Sub[Width(v, d, N)][d * v][Leftmost(d * v)] = given \o nodes
                /\ At(End(nodes), d, y)
                /\ End(nodes).fr = Hashes(t)[m - d * v][d * v]
                /\ End(nodes).sr = Hashes(t)[Width(v, d, N)][d * v]
  BY <1>6, <1>12, Zenon DEF Built, N, Sub, End, start, given
<1>13. CASE n <= v
  <2>1. Width(v, 2 * c, N) = n /\ Covers(2 * c, v, m - 1) /\ y = 2 * c /\ e = c /\ n = N - from
    BY <1>1, <1>2, <1>4, <1>13
  <2>2. m - from < n
    BY <1>1, <1>5, <2>1
  <2>3. PICK nodes \in Seq(HashSet(s)) :
                /\ Sub[n][from][Leftmost(from)] = given \o nodes
                /\ At(End(nodes), 2 * c, 2 * c)
                /\ End(nodes).fr = Hashes(t)[m - from][from]
                /\ End(nodes).sr = Hashes(t)[n][from]
    <3>1. \E nodes \in Seq(HashSet(s)) :
                /\ Sub[Width(v, 2 * c, N)][(2 * c) * v][Leftmost((2 * c) * v)] = given \o nodes
                /\ At(End(nodes), 2 * c, y)
                /\ End(nodes).fr = Hashes(t)[m - (2 * c) * v][(2 * c) * v]
                /\ End(nodes).sr = Hashes(t)[Width(v, 2 * c, N)][(2 * c) * v]
      BY <1>5, <1>12, <2>1
    <3> QED  BY <1>5, <2>1, <3>1
  <2>4. At(End(nodes), c, e)
    BY <2>1, <2>3, AtAbove
  <2> QED  BY <2>2, <2>3, <2>4
<1>14. CASE v < n /\ m - 1 < from + v
  <2>1. Width(v, 2 * c, N) = v /\ Covers(2 * c, v, m - 1) /\ 2 * c < y
    BY <1>1, <1>2, <1>4, <1>5, <1>14
  <2>2. m - from < n /\ m - from # n /\ m - from <= v /\ m <= from + v /\ (from + v) + (n - v) <= N
    BY <1>1, <1>2, <1>5, <1>14
  <2>3. PICK nodes \in Seq(HashSet(s)) :
                /\ Sub[v][from][Leftmost(from)] = given \o nodes
                /\ At(End(nodes), 2 * c, y)
                /\ End(nodes).fr = Hashes(t)[m - from][from]
                /\ End(nodes).sr = Hashes(t)[v][from]
    BY <1>5, <1>12, <2>1
  <2> DEFINE h == Hashes(s)[n - v][from + v]
             more == Append(nodes, h)
  <2>4. h \in HashSet(s) /\ h = Hashes(t)[n - v][from + v]
    BY <1>7, <1>8, <1>14, <2>2, HashIn
  <2>5. /\ Sub[n][from][Leftmost(from)] = Append(given \o nodes, h)
        /\ Hashes(t)[n][from] = NodeHash(Hashes(t)[v][from], h)
    BY <1>7, <1>14, <2>2, <2>3, <2>4
  <2> HIDE DEF h
  <2>6. /\ more \in Seq(HashSet(s)) /\ End(more) = Extended(End(nodes), h)
        /\ Sub[n][from][Leftmost(from)] = given \o more
    BY <1>10, <2>4, <2>5
  <2> DEFINE q == End(nodes)
  <2> HIDE DEF more, q
  <2>7. /\ At(Extended(q, h), c, y \div 2)
        /\ Extended(q, h).fr = q.fr /\ Extended(q, h).sr = NodeHash(q.sr, h)
    <3>1. At(q, 2 * c, y)
      BY <2>3 DEF q
    <3> QED  BY <1>5, <2>1, <3>1, ExtendedAbove
  <2>8. /\ At(End(more), c, e) /\ End(more).fr = Hashes(t)[m - from][from]
        /\ End(more).sr = Hashes(t)[n][from]
    BY <1>4, <2>3, <2>5, <2>6, <2>7, Zenon DEF q
  <2> QED  BY <2>2, <2>6, <2>8
<1>15. CASE v < n /\ from + v <= m - 1
  <2>1. Width(v, 2 * c + 1, N) = n - v /\ Covers(2 * c + 1, v, m - 1) /\ 2 * c + 1 <= y
    BY <1>1, <1>2, <1>4, <1>5, <1>15
  <2>2. v # u
    <3>1. SUFFICES ASSUME v = u PROVE FALSE
      OBVIOUS
    <3>2. x * v <= m - 1 /\ m - 1 < x * v + v
      BY <1>1, <3>1
    <3>3. (2 * c + 1) * v <= m - 1 /\ m - 1 < (2 * c + 1) * v + v
      BY <2>1 DEF Covers
    <3>4. x <= 2 * c + 1 /\ 2 * c + 1 <= x
      BY <1>1, <1>5, <3>2, <3>3, SameNode
    <3>5. \E k \in Nat : x = 2 * k
      BY DEF Splits
    <3> QED  BY <1>1, <3>4, <3>5
  <2>3. m - (from + v) < n - v
    <3>1. m - (2 * c + 1) * v < Width(v, 2 * c + 1, N)
      BY <1>5, <1>6, <2>1, <2>2
    <3> QED  BY <1>5, <2>1, <3>1
  <2>4. /\ m - from < n /\ m - from # n /\ ~(m - from <= v) /\ from + v # 0
        /\ m - from \in Nat /\ v < m - from /\ m - from <= 2 * v /\ m - from > 1
        /\ (m - from) - v = m - (from + v)
    BY <1>1, <1>2, <1>5, <1>15, <2>3
  <2>5. PICK nodes \in Seq(HashSet(s)) :
                /\ Sub[n - v][from + v][FALSE] = given \o nodes
                /\ At(End(nodes), 2 * c + 1, y)
                /\ End(nodes).fr = Hashes(t)[m - (from + v)][from + v]
                /\ End(nodes).sr = Hashes(t)[n - v][from + v]
    <3>1. Leftmost(from + v) = FALSE
      BY <2>4 DEF Leftmost
    <3>2. \E nodes \in Seq(HashSet(s)) :
            LET d == 2 * c + 1
            IN  /\ Sub[Width(v, d, N)][d * v][Leftmost(d * v)] = given \o nodes
                /\ At(End(nodes), d, y)
                /\ End(nodes).fr = Hashes(t)[m - d * v][d * v]
                /\ End(nodes).sr = Hashes(t)[Width(v, d, N)][d * v]
      BY <1>5, <1>12, <2>1
    <3> QED  BY <1>5, <2>1, <3>1, <3>2
  <2> DEFINE h == Hashes(s)[v][from]
             more == Append(nodes, h)
  <2>6. h \in HashSet(s) /\ h = Hashes(t)[v][from]
    <3>1. x # 0
      <4>1. SUFFICES ASSUME x = 0 PROVE FALSE
        OBVIOUS
      <4>2. m = u
        BY <1>1, <4>1
      <4> QED  BY <1>1, <1>5, <1>15, <4>2
    <3>2. t = s
      BY <3>1 DEF Splits
    <3> QED  BY <1>1, <1>5, <3>2, HashIn
  <2>7. /\ Sub[n][from][Leftmost(from)] = Append(given \o nodes, h)
        /\ Hashes(t)[n][from] = NodeHash(h, Hashes(t)[n - v][from + v])
    BY <1>7, <1>15, <2>4, <2>5, <2>6
  <2>8. Hashes(t)[m - from][from] = NodeHash(h, Hashes(t)[m - (from + v)][from + v])
    <3>1. LargestPowerBelow[m - from] = v
      BY <2>4, PowerBetween
    <3>2. Hashes(t)[m - from][from] = <<Hashes(t)[v][from], Hashes(t)[(m - from) - v][from + v]>>
      BY <1>5, <2>4, <3>1, HashNode
    <3> QED  BY <2>4, <2>6, <3>2 DEF NodeHash
  <2> HIDE DEF h
  <2>9. /\ more \in Seq(HashSet(s)) /\ End(more) = Extended(End(nodes), h)
        /\ Sub[n][from][Leftmost(from)] = given \o more
    BY <1>10, <2>6, <2>7
  <2> DEFINE q == End(nodes)
  <2> HIDE DEF more, q
  <2>10. /\ At(Extended(q, h), c, y \div 2)
         /\ Extended(q, h).fr = NodeHash(h, q.fr) /\ Extended(q, h).sr = NodeHash(h, q.sr)
    <3>1. At(q, 2 * c + 1, y)
      BY <2>5 DEF q
    <3>2. 2 * c + 1 # 2 * c
      BY <1>5
    <3> QED  BY <1>5, <2>1, <3>1, <3>2, ExtendedAbove
  <2>11. /\ At(End(more), c, e) /\ End(more).fr = Hashes(t)[m - from][from]
         /\ End(more).sr = Hashes(t)[n][from]
    BY <1>4, <2>5, <2>7, <2>8, <2>9, <2>10, Zenon DEF q
  <2> QED  BY <2>4, <2>9, <2>11
<1>16. n <= v \/ (v < n /\ m - 1 < from + v) \/ (v < n /\ from + v <= m - 1)
  BY <1>1, <1>2, <1>5
<1> QED  BY <1>13, <1>14, <1>15, <1>16

LEMMA EveryLevelIsBuilt ==
  ASSUME NEW m, NEW S, NEW s \in Seq(S), NEW t, NEW u, NEW x, NEW z, Splits(m, s, t, u, x, z)
  PROVE  \A w : IsPower(w) /\ u <= w => Builds(m, s, t, u, x, z, w)
<1> DEFINE T == {w \in Nat : IsPower(w) /\ u <= w /\ ~Builds(m, s, t, u, x, z, w)}
<1>1. T = {}
  <2> SUFFICES ASSUME T # {} PROVE FALSE
    OBVIOUS
  <2>1. PICK w \in T : \A k \in T : w <= k
    <3>1. T \in SUBSET Nat
      OBVIOUS
    <3> QED  BY <3>1, LeastNat
  <2>2. IsPower(w) /\ u <= w /\ ~Builds(m, s, t, u, x, z, w) /\ w # u
    BY <2>1, BuildsFirst
  <2>3. IsPower(u) /\ u \in Nat \ {0} /\ w \in Nat
    BY <2>2 DEF Splits, IsPower
  <2>4. PICK v : IsPower(v) /\ w = 2 * v /\ v < w
    BY <2>2, <2>3, HalfIsPower
  <2>5. u <= v
    <3>1. u < w /\ v \in Nat
      BY <2>2, <2>3, <2>4 DEF IsPower
    <3>2. 2 * u <= w
      BY <2>2, <2>3, <3>1, NextPower
    <3> QED  BY <2>3, <2>4, <3>1, <3>2
  <2>6. Builds(m, s, t, u, x, z, v)
    BY <2>1, <2>4, <2>5 DEF IsPower
  <2> QED  BY <2>2, <2>4, <2>5, <2>6, BuildsAbove
<1> QED  BY <1>1 DEF IsPower

Rebuilds(m, s, t, u, x, z) ==
  \E nodes \in Seq(HashSet(s)) :
    /\ ConsistencyProof(m, Len(s), s) = Given(s, u, x) \o nodes
    /\ LET end == ExtendEnd(Start(t, u, x, z), nodes)
       IN  /\ end.ok = TRUE /\ end.sn = 0
           /\ end.fr = Hashes(t)[m][0] /\ end.sr = Hashes(t)[Len(s)][0]

(* The walk up a consistency proof arrives at the roots of t.              *)
LEMMA WalkRebuildsTheRoots ==
  ASSUME NEW m, NEW S, NEW s \in Seq(S), NEW t, NEW u, NEW x, NEW z, Splits(m, s, t, u, x, z)
  PROVE  Rebuilds(m, s, t, u, x, z)
<1> DEFINE N == Len(s)
<1>1. N \in Nat \ {0} /\ m \in Nat \ {0} /\ m < N /\ m - 1 \in Nat /\ u <= m /\ u \in Nat
  <2>1. m \in Nat \ {0} /\ m < N /\ u \in Nat /\ m = x * u + u /\ x * u \in Nat
    BY DEF Splits
  <2> QED  BY <2>1
<1>2. PICK w : IsPower(w) /\ N <= w
  BY <1>1, PowerAbove
<1>3. w \in Nat \ {0} /\ 0 * w = 0 /\ u <= w
  BY <1>1, <1>2 DEF IsPower
<1>4. Covers(0, w, m - 1) /\ Covers(0, w, N - 1) /\ Width(w, 0, N) = N
  BY <1>1, <1>2, <1>3 DEF Covers, Width
<1>5. Builds(m, s, t, u, x, z, w)
  BY <1>2, <1>3, EveryLevelIsBuilt
<1> DEFINE start == Start(t, u, x, z)
           given == Given(s, u, x)
<1> HIDE DEF start, given
<1>6. Built(m, s, t, start, given, 0, 0, w)
  <2>1. 0 \in Nat
    OBVIOUS
  <2> QED  BY <1>4, <1>5, <2>1, Zenon DEF Builds, start, given
<1>7. \E nodes \in Seq(HashSet(s)) :
        /\ Subproofs(m, s)[N][0][Leftmost(0)] = given \o nodes
        /\ At(ExtendEnd(start, nodes), 0, 0)
        /\ ExtendEnd(start, nodes).fr = Hashes(t)[m - 0][0]
        /\ ExtendEnd(start, nodes).sr = Hashes(t)[N][0]
  BY <1>3, <1>4, <1>6 DEF Built
<1>8. Leftmost(0) = TRUE /\ m - 0 = m
  BY <1>1 DEF Leftmost
<1>9. First(s, N) = s
  BY DEF First
<1>10. ConsistencyProof(m, N, s) = Subproofs(m, s)[N][0][TRUE]
  BY <1>9, Zenon DEF ConsistencyProof
<1> HIDE DEF N
<1>11. PICK nodes \in Seq(HashSet(s)) :
        /\ Subproofs(m, s)[N][0][TRUE] = given \o nodes
        /\ At(ExtendEnd(start, nodes), 0, 0)
        /\ ExtendEnd(start, nodes).fr = Hashes(t)[m][0]
        /\ ExtendEnd(start, nodes).sr = Hashes(t)[N][0]
  BY <1>7, <1>8
<1>12. ExtendEnd(start, nodes).ok = TRUE /\ ExtendEnd(start, nodes).sn = 0
  BY <1>11 DEF At
<1> QED  BY <1>10, <1>11, <1>12, Zenon DEF start, given, N, Rebuilds

LEMMA AlikeIsFirst ==
  ASSUME NEW S, NEW s \in Seq(S), NEW old \in Seq(S), Len(old) <= Len(s)
  PROVE  Alike(s, 0, old, 0, Len(old)) <=> First(s, Len(old)) = old
<1>1. ASSUME Alike(s, 0, old, 0, Len(old)) PROVE First(s, Len(old)) = old
  <2>1. \A l \in 1..Len(old) : s[l] = old[l]
    BY <1>1 DEF Alike
  <2>2. Len(First(s, Len(old))) = Len(old) /\ First(s, Len(old)) \in Seq(S)
        /\ \A l \in 1..Len(old) : First(s, Len(old))[l] = s[l]
    BY DEF First
  <2> HIDE DEF First
  <2> QED  BY <2>1, <2>2
<1>2. ASSUME First(s, Len(old)) = old PROVE Alike(s, 0, old, 0, Len(old))
  <2>1. \A l \in 1..Len(old) : First(s, Len(old))[l] = s[l]
    BY DEF First
  <2> QED  BY <1>2, <2>1 DEF Alike
<1> QED  BY <1>1, <1>2

LEMMA SameRoot ==
  ASSUME NEW s, NEW t, NEW n \in Nat
  PROVE  Hashes(s)[n][0] = Hashes(t)[n][0] <=> Alike(s, 0, t, 0, n)
<1>1. 0 \in Nat
  OBVIOUS
<1> QED  BY <1>1, SameHash, SameLeaves

(* The leaves that the verifier rebuilds a tree of when the old root is    *)
(* all there is of the old leaves.                                         *)
Overlaid(old, s) == [j \in 1..Len(s) |-> IF j <= Len(old) THEN old[j] ELSE s[j]]

LEMMA OverlaidIsAlike ==
  ASSUME NEW S, NEW s \in Seq(S), NEW old \in Seq(S), Len(old) < Len(s)
  PROVE  /\ SameBeyond(s, Overlaid(old, s), Len(old))
         /\ Alike(Overlaid(old, s), 0, old, 0, Len(old))
<1> DEFINE t == Overlaid(old, s)
<1>1. ASSUME NEW a \in Nat, NEW k \in Nat, Len(old) <= a, a + k <= Len(s)
      PROVE  Alike(t, a, s, a, k)
  <2>1. ASSUME NEW l \in 1..k PROVE t[a + l] = s[a + l]
    <3>1. a + l \in 1..Len(s) /\ ~(a + l <= Len(old))
      BY <1>1
    <3> QED  BY <3>1 DEF Overlaid
  <2> QED  BY <2>1 DEF Alike
<1>2. ASSUME NEW a \in Nat, NEW k \in Nat, Len(old) <= a, a + k <= Len(s)
      PROVE  Hashes(t)[k][a] = Hashes(s)[k][a]
  <2>1. Alike(t, a, s, a, k)
    BY <1>1, <1>2
  <2> HIDE DEF t
  <2> QED  BY <2>1, SameLeaves
<1>3. Alike(t, 0, old, 0, Len(old))
  <2>1. ASSUME NEW l \in 1..Len(old) PROVE t[0 + l] = old[0 + l]
    BY DEF Overlaid
  <2> QED  BY <2>1 DEF Alike
<1> QED  BY <1>2, <1>3, Zenon DEF SameBeyond

\* What the verifier makes of a proof and two roots, where it is to walk.
Accepts(proof, firstRoot, secondRoot, x, z) ==
  LET node == IF x # 0 THEN proof[1] ELSE firstRoot
      nodes == IF x # 0 THEN Tail(proof) ELSE proof
      end == ExtendEnd([fn |-> x, sn |-> z, ok |-> TRUE, fr |-> node, sr |-> node], nodes)
  IN  /\ x # 0 => proof # <<>>
      /\ end.ok /\ end.sn = 0 /\ end.fr = firstRoot /\ end.sr = secondRoot

LEMMA VerifyAccepts ==
  ASSUME NEW first \in Nat \ {0}, NEW second \in Nat, first < second,
         NEW firstRoot, NEW secondRoot, NEW proof, NEW x, NEW z,
         Halvings[first - 1][1][second - 1] = [fn |-> x, sn |-> z]
  PROVE  VerifyConsistencyProof(first, second, firstRoot, secondRoot, proof)
           <=> Accepts(proof, firstRoot, secondRoot, x, z)
<1>1. ~(first < 1 \/ first > second) /\ first # second
  OBVIOUS
<1> DEFINE start == HalvedWhileOdd([fn |-> first - 1, sn |-> second - 1])
<1>2. start = [fn |-> x, sn |-> z]
  BY DEF HalvedWhileOdd
<1>3. start.fn = x /\ start.sn = z
  BY <1>2
<1> HIDE DEF start
<1>4. VerifyConsistencyProof(first, second, firstRoot, secondRoot, proof)
        <=> LET given == start.fn # 0
                node == IF given THEN proof[1] ELSE firstRoot
                nodes == IF given THEN Tail(proof) ELSE proof
                end == Extensions([fn |-> start.fn, sn |-> start.sn, ok |-> TRUE,
                                   fr |-> node, sr |-> node], nodes)[Len(nodes)]
            IN  /\ given => proof # <<>>
                /\ end.ok /\ end.sn = 0 /\ end.fr = firstRoot /\ end.sr = secondRoot
  BY <1>1, Zenon DEF VerifyConsistencyProof, start
<1> QED  BY <1>3, <1>4, Zenon DEF Accepts, ExtendEnd

(* A proof of the leaves s for old leaves and new ones: it is accepted     *)
(* only if the new ones begin with the old ones, and then always if s are  *)
(* the new ones.                                                           *)
LEMMA UnequalSizes ==
  ASSUME NEW S, NEW s \in Seq(S), NEW old \in Seq(S), NEW new \in Seq(S),
         old # <<>>, Len(old) < Len(s), Len(new) = Len(s)
  PROVE  LET verdict == VerifyConsistencyProof(Len(old), Len(s), TreeHash(old), TreeHash(new),
                          ConsistencyProof(Len(old), Len(s), s))
         IN  /\ verdict => First(new, Len(old)) = old
             /\ new = s /\ First(s, Len(old)) = old => verdict
<1> DEFINE m == Len(old)
           N == Len(s)
           proof == ConsistencyProof(m, N, s)
<1>1. m \in Nat \ {0} /\ N \in Nat /\ m < N /\ m - 1 \in Nat /\ N - 1 \in Nat /\ Len(new) = N
  OBVIOUS
<1>2. PICK w \in Nat, x \in Nat, y \in Nat, z \in Nat :
        /\ IsPower(w) /\ x = 2 * y /\ (m - 1) + 1 = x * w + w /\ Covers(z, w, N - 1)
        /\ Halvings[m - 1][1][N - 1] = [fn |-> x, sn |-> z]
  <2>1. Halted(m - 1, N - 1)
    BY <1>1, HalvedIsHalted
  <2> QED  BY <2>1, Zenon DEF Halted
<1>3. /\ IsPower(w) /\ w \in Nat \ {0} /\ x \in Nat /\ (\E k \in Nat : x = 2 * k) /\ z \in Nat
      /\ m = x * w + w /\ Covers(z, w, N - 1)
  <2> HIDE DEF m, N
  <2>1. w \in Nat \ {0}
    BY <1>2, Zenon DEF IsPower
  <2>2. \E k \in Nat : x = 2 * k
    BY <1>2, Zenon
  <2>3. (m - 1) + 1 = m
    BY <1>1
  <2> QED  BY <1>2, <2>1, <2>2, <2>3, Zenon
<1> DEFINE verdict == VerifyConsistencyProof(m, N, TreeHash(old), TreeHash(new), proof)
           t == IF x # 0 THEN s ELSE Overlaid(old, s)
           start == Start(t, w, x, z)
           given == Given(s, w, x)
<1>4. verdict <=> Accepts(proof, TreeHash(old), TreeHash(new), x, z)
  <2> HIDE DEF m, N, proof
  <2> QED  BY <1>1, <1>2, VerifyAccepts
<1>5. Splits(m, s, t, w, x, z)
  <2>1. SameBeyond(s, t, m)
    <3>1. SameBeyond(s, Overlaid(old, s), m)
      BY OverlaidIsAlike
    <3>2. SameBeyond(s, s, m)
      BY DEF SameBeyond
    <3> HIDE DEF m
    <3> QED  BY <3>1, <3>2
  <2>2. x # 0 => t = s
    OBVIOUS
  <2> HIDE DEF m, N, t
  <2> QED  BY <1>1, <1>3, <2>1, <2>2 DEF Splits, N
<1>6. TreeHash(old) = Hashes(old)[m][0] /\ TreeHash(new) = Hashes(new)[N][0]
  BY <1>1, Zenon DEF TreeHash
<1>7. PICK nodes \in Seq(HashSet(s)) :
        /\ proof = given \o nodes
        /\ ExtendEnd(start, nodes).ok = TRUE /\ ExtendEnd(start, nodes).sn = 0
        /\ ExtendEnd(start, nodes).fr = Hashes(t)[m][0]
        /\ ExtendEnd(start, nodes).sr = Hashes(t)[N][0]
  <2> HIDE DEF m, t
  <2>1. Rebuilds(m, s, t, w, x, z)
    BY <1>5, WalkRebuildsTheRoots
  <2> QED  BY <2>1, Zenon DEF Rebuilds
<1>8. CASE x # 0
  <2>1. t = s
    BY <1>8
  <2> DEFINE g == Hashes(s)[w][x * w]
  <2>2. start = [fn |-> x, sn |-> z, ok |-> TRUE, fr |-> g, sr |-> g]
    BY <2>1 DEF Start
  <2>3. g \in HashSet(s)
    <3>1. w \in Nat /\ x * w \in Nat
      BY <1>3
    <3> DEFINE k == x * w
    <3> HIDE DEF k
    <3>2. \A c : Hashes(c)[w][k] \in HashSet(c)
      BY <3>1, HashIn DEF k
    <3> QED  BY <3>2, Zenon DEF k
  <2>4. given = <<g>>
    BY <1>8 DEF Given
  <2> HIDE DEF g, m, N, proof, start, given, t
  <2>5. proof # <<>> /\ proof[1] = g /\ Tail(proof) = nodes
    <3> DEFINE H == HashSet(s)
    <3>1. nodes \in Seq(H) /\ g \in H
      BY <2>3
    <3> HIDE DEF H
    <3>2. <<g>> \o nodes # <<>> /\ (<<g>> \o nodes)[1] = g
      BY <3>1
    <3>3. Tail(<<g>> \o nodes) = nodes
      BY <3>1
    <3> QED  BY <1>7, <2>4, <3>2, <3>3
  <2>6. Accepts(proof, TreeHash(old), TreeHash(new), x, z)
          <=> Hashes(s)[m][0] = Hashes(old)[m][0] /\ Hashes(s)[N][0] = Hashes(new)[N][0]
    <3>1. Accepts(proof, TreeHash(old), TreeHash(new), x, z)
            <=> /\ proof # <<>>
                /\ LET end == ExtendEnd([fn |-> x, sn |-> z, ok |-> TRUE,
                                        fr |-> proof[1], sr |-> proof[1]], Tail(proof))
                   IN  end.ok /\ end.sn = 0 /\ end.fr = TreeHash(old) /\ end.sr = TreeHash(new)
      BY <1>8 DEF Accepts
    <3>2. Accepts(proof, TreeHash(old), TreeHash(new), x, z)
            <=> LET end == ExtendEnd(start, nodes)
                IN  end.ok /\ end.sn = 0 /\ end.fr = TreeHash(old) /\ end.sr = TreeHash(new)
      BY <2>2, <2>5, <3>1, Zenon
    <3>3. /\ ExtendEnd(start, nodes).fr = Hashes(s)[m][0]
          /\ ExtendEnd(start, nodes).sr = Hashes(s)[N][0]
      BY <1>7, <2>1, Zenon
    <3> QED  BY <1>6, <1>7, <3>2, <3>3, Zenon
  <2>7. verdict <=> Alike(s, 0, old, 0, m) /\ Alike(s, 0, new, 0, N)
    BY <1>1, <1>4, <2>6, SameRoot
  <2>8. /\ Alike(s, 0, old, 0, m) <=> First(s, m) = old
        /\ Alike(s, 0, new, 0, N) <=> First(s, N) = new
        /\ First(s, N) = s
    <3>1. Alike(s, 0, old, 0, m) <=> First(s, m) = old
      BY <1>1, AlikeIsFirst DEF m, N
    <3>2. Alike(s, 0, new, 0, N) <=> First(s, N) = new
      <4>1. Len(new) <= Len(s)
        BY <1>1 DEF N
      <4> QED  BY <1>1, <4>1, AlikeIsFirst
    <3>3. First(s, N) = s
      BY DEF First, N
    <3> QED  BY <3>1, <3>2, <3>3
  <2> QED  BY <2>7, <2>8 DEF proof, m, N
<1>9. CASE x = 0
  <2>1. t = Overlaid(old, s) /\ w = m /\ x * w = 0
    BY <1>3, <1>9
  <2>2. Alike(t, 0, old, 0, m)
    BY <2>1, OverlaidIsAlike
  <2> HIDE DEF t
  <2>3. start = [fn |-> x, sn |-> z, ok |-> TRUE, fr |-> Hashes(t)[m][0], sr |-> Hashes(t)[m][0]]
    BY <2>1 DEF Start
  <2>4. proof = nodes
    <3>1. given = <<>>
      BY <1>9 DEF Given
    <3> DEFINE H == HashSet(s)
    <3>2. nodes \in Seq(H)
      OBVIOUS
    <3> HIDE DEF H, given, proof
    <3>3. <<>> \o nodes = nodes
      BY <3>2
    <3> QED  BY <1>7, <3>1, <3>3
  <2> HIDE DEF m, N, proof, start, given, verdict
  <2>5. Hashes(t)[m][0] = TreeHash(old)
    BY <1>1, <1>6, <2>2, SameRoot
  <2>6. Accepts(proof, TreeHash(old), TreeHash(new), x, z) <=> Hashes(t)[N][0] = Hashes(new)[N][0]
    BY <1>6, <1>7, <1>9, <2>3, <2>4, <2>5, Zenon DEF Accepts
  <2>7. verdict <=> Alike(t, 0, new, 0, N)
    BY <1>1, <1>4, <2>6, SameRoot
  <2>8. ASSUME verdict PROVE First(new, m) = old
    <3>1. ASSUME NEW l \in 1..m PROVE new[0 + l] = old[0 + l]
      <4>1. l \in 1..N /\ 0 + l = l
        BY <1>1
      <4>2. t[0 + l] = new[0 + l]
        BY <2>7, <2>8, <4>1 DEF Alike
      <4>3. t[0 + l] = old[0 + l]
        BY <2>2 DEF Alike
      <4> QED  BY <4>2, <4>3
    <3>2. Alike(new, 0, old, 0, m)
      BY <3>1 DEF Alike
    <3> QED  BY <1>1, <3>2, AlikeIsFirst DEF m
  <2>9. ASSUME new = s, First(s, m) = old PROVE verdict
    <3>1. Alike(s, 0, old, 0, m)
      BY <1>1, <2>9, AlikeIsFirst DEF m, N
    <3>2. ASSUME NEW l \in 1..N PROVE t[0 + l] = new[0 + l]
      <4>1. CASE l <= m
        BY <1>1, <2>1, <2>9, <3>1, <4>1 DEF Alike, Overlaid, m, N
      <4>2. CASE ~(l <= m)
        BY <1>1, <2>1, <2>9, <4>2 DEF Overlaid, m, N
      <4> QED  BY <4>1, <4>2
    <3>3. Alike(t, 0, new, 0, N)
      BY <3>2 DEF Alike
    <3> QED  BY <2>7, <3>3
  <2> QED  BY <2>8, <2>9 DEF verdict, proof, m, N
<1> QED  BY <1>8, <1>9

LEMMA EqualSizes ==
  ASSUME NEW S, NEW s \in Seq(S), NEW old \in Seq(S), NEW new \in Seq(S),
         old # <<>>, Len(old) = Len(s), Len(new) = Len(s)
  PROVE  VerifyConsistencyProof(Len(old), Len(s), TreeHash(old), TreeHash(new),
           ConsistencyProof(Len(old), Len(s), s)) <=> First(new, Len(old)) = old
<1> DEFINE N == Len(s)
           proof == ConsistencyProof(N, N, s)
<1>1. N \in Nat \ {0} /\ ~(N < 1 \/ N > N) /\ Len(old) = N /\ Len(new) = N
  OBVIOUS
<1>2. proof = <<>>
  <2>1. First(s, N) = s
    BY DEF First
  <2> HIDE DEF N
  <2>2. 0 \in Nat /\ TRUE \in BOOLEAN /\ N \in Nat /\ N - 0 = N
    BY <1>1
  <2>3. \A c : Subproofs(N, c)[N][0][TRUE] = SubAt(N, c, Subproofs(N, c), N, 0, TRUE)
    BY <2>2, SubproofsAre
  <2>4. SubAt(N, s, Subproofs(N, s), N, 0, TRUE) = <<>>
    BY <2>2, Zenon DEF SubAt
  <2> QED  BY <2>1, <2>3, <2>4, Zenon DEF ConsistencyProof
<1>3. First(new, N) = new
  BY <1>1 DEF First
<1>4. TreeHash(old) = TreeHash(new) <=> new = old
  <2>1. TreeHash(old) = Hashes(old)[N][0] /\ TreeHash(new) = Hashes(new)[N][0]
    BY <1>1, Zenon DEF TreeHash
  <2>2. Alike(new, 0, old, 0, N) <=> new = old
    <3>1. Len(old) <= Len(new)
      BY <1>1
    <3>2. Alike(new, 0, old, 0, Len(old)) <=> First(new, Len(old)) = old
      BY <3>1, AlikeIsFirst
    <3> QED  BY <1>1, <1>3, <3>2
  <2> HIDE DEF N
  <2>3. \A c, d : Hashes(c)[N][0] = Hashes(d)[N][0] <=> Alike(c, 0, d, 0, N)
    BY <1>1, SameRoot
  <2> QED  BY <2>1, <2>2, <2>3, Zenon
<1> HIDE DEF N, proof
<1>5. VerifyConsistencyProof(N, N, TreeHash(old), TreeHash(new), proof)
        <=> proof = <<>> /\ TreeHash(old) = TreeHash(new)
  BY <1>1, Zenon DEF VerifyConsistencyProof
<1> QED  BY <1>1, <1>2, <1>3, <1>4, <1>5 DEF N, proof

(* Of two logs of any size: a consistency proof is accepted only if the    *)
(* new leaves begin with the old ones, and then if it was made of them.    *)
THEOREM ConsistencyIsDecided ==
  ASSUME NEW S, NEW s \in Seq(S), NEW old \in Seq(S), NEW new \in Seq(S),
         old # <<>>, Len(old) <= Len(s), Len(new) = Len(s)
  PROVE  LET verdict == VerifyConsistencyProof(Len(old), Len(s), TreeHash(old), TreeHash(new),
                          ConsistencyProof(Len(old), Len(s), s))
         IN  /\ verdict => First(new, Len(old)) = old
             /\ new = s /\ First(s, Len(old)) = old => verdict
<1>1. CASE Len(old) = Len(s)
  BY <1>1, EqualSizes
<1>2. CASE Len(old) < Len(s)
  BY <1>2, UnequalSizes
<1>3. Len(old) = Len(s) \/ Len(old) < Len(s)
  OBVIOUS
<1> QED  BY <1>1, <1>2, <1>3
-----------------------------------------------------------------------------
(* The log, whatever is appended to it and changed of it.                  *)

Distinct(s) == \A i, j \in 1..Len(s) : s[i] = s[j] => i = j

LogInv ==
  /\ hashes \in Nat
  /\ leaves \in Seq(Nat) /\ kept \in Seq(Nat)
  /\ \A i \in 1..Len(leaves) : leaves[i] <= hashes
  /\ Distinct(leaves)

LEMMA LogInvAlways == LogSpec => []LogInv
<1>1. LogInit => LogInv
  BY DEF LogInit, LogInv, Distinct
<1>2. LogInv /\ [LogNext]_logVars => LogInv'
  <2> SUFFICES ASSUME LogInv, [LogNext]_logVars PROVE LogInv'
    OBVIOUS
  <2> USE DEF LogInv, Distinct
  <2>1. CASE AppendLeaf
    BY <2>1 DEF AppendLeaf
  <2>2. CASE KeepHead
    BY <2>2 DEF KeepHead
  <2>3. ASSUME NEW j \in DOMAIN leaves, AlterLeaf(j), UNCHANGED kept PROVE LogInv'
    BY <2>3 DEF AlterLeaf
  <2>4. ASSUME NEW j \in DOMAIN leaves, DropLeaf(j), UNCHANGED kept PROVE LogInv'
    <3>1. Len(leaves) \in Nat \ {0} /\ j \in 1..Len(leaves)
      OBVIOUS
    <3>2. leaves' = [i \in 1..(Len(leaves) - 1) |-> leaves[IF i < j THEN i ELSE i + 1]]
          /\ hashes' = hashes /\ kept' = kept
      BY <2>4 DEF DropLeaf
    <3>3. \A i \in 1..(Len(leaves) - 1) :
            (IF i < j THEN i ELSE i + 1) \in 1..Len(leaves)
      BY <3>1
    <3>4. leaves' \in Seq(Nat) /\ Len(leaves') = Len(leaves) - 1
      <4>1. Len(leaves) - 1 \in Nat
        BY <3>1
      <4>2. \A i \in 1..(Len(leaves) - 1) : leaves[IF i < j THEN i ELSE i + 1] \in Nat
        BY <3>3
      <4> QED  BY <3>2, <4>1, <4>2
    <3>5. \A i \in 1..Len(leaves') : leaves'[i] = leaves[IF i < j THEN i ELSE i + 1]
      BY <3>2, <3>4
    <3>6. \A i \in 1..Len(leaves') : leaves'[i] <= hashes'
      BY <3>2, <3>3, <3>4, <3>5
    <3>7. Distinct(leaves)'
      <4> SUFFICES ASSUME NEW i \in 1..Len(leaves'), NEW k \in 1..Len(leaves'), leaves'[i] = leaves'[k]
                   PROVE  i = k
        OBVIOUS
      <4>1. (IF i < j THEN i ELSE i + 1) = (IF k < j THEN k ELSE k + 1)
        BY <3>3, <3>4, <3>5
      <4>2. i \in Nat /\ k \in Nat /\ j \in Nat
        BY <3>1, <3>4
      <4> HIDE DEF LogInv, Distinct
      <4> QED  BY <4>1, <4>2
    <3> QED  BY <3>2, <3>4, <3>6, <3>7
  <2>5. ASSUME NEW j \in DOMAIN leaves, SwapLeaves(j), UNCHANGED kept PROVE LogInv'
    <3>1. /\ Len(leaves) \in Nat /\ j \in 1..Len(leaves) /\ j + 1 \in 1..Len(leaves)
          /\ leaves' = [leaves EXCEPT ![j] = leaves[j + 1], ![j + 1] = leaves[j]]
          /\ hashes' = hashes /\ kept' = kept
      BY <2>5 DEF SwapLeaves
    <3>2. leaves' \in Seq(Nat) /\ Len(leaves') = Len(leaves)
      BY <3>1
    <3> DEFINE From(i) == IF i = j THEN j + 1 ELSE IF i = j + 1 THEN j ELSE i
    <3>3. \A i \in 1..Len(leaves) : From(i) \in 1..Len(leaves) /\ leaves'[i] = leaves[From(i)]
      BY <3>1
    <3>4. \A i, k \in 1..Len(leaves) : From(i) = From(k) => i = k
      BY <3>1
    <3> HIDE DEF From
    <3>5. \A i \in 1..Len(leaves) : leaves'[i] <= hashes
      BY <3>3
    <3>6. Distinct(leaves)'
      <4> SUFFICES ASSUME NEW i \in 1..Len(leaves'), NEW k \in 1..Len(leaves'), leaves'[i] = leaves'[k]
                   PROVE  i = k
        OBVIOUS
      <4>1. i \in 1..Len(leaves) /\ k \in 1..Len(leaves)
        BY <3>2
      <4>2. From(i) = From(k)
        BY <3>3, <4>1
      <4> QED  BY <3>4, <4>1, <4>2
    <3>7. \A i \in 1..Len(leaves') : leaves'[i] <= hashes'
      BY <3>1, <3>2, <3>5
    <3> HIDE DEF Distinct
    <3>8. hashes' \in Nat /\ kept' \in Seq(Nat)
      BY <3>1
    <3> QED  BY <3>2, <3>6, <3>7, <3>8, Zenon
  <2>6. CASE UNCHANGED logVars
    BY <2>6 DEF logVars
  <2> QED  BY <2>1, <2>2, <2>3, <2>4, <2>5, <2>6 DEF LogNext
<1> QED  BY <1>1, <1>2, PTL DEF LogSpec

(* Whatever is appended to a log or changed of it, however large it gets:  *)
(* the proof of a leaf is accepted for that leaf alone, and a consistency  *)
(* proof since the head that somebody keeps exactly if the log still       *)
(* begins with what the head was of (gateway/merkle.py, lib/merkle.ts).    *)
THEOREM ProofsAlwaysDecide == LogSpec => []ProofsDecide
<1>1. LogInv => ProofsDecide
  <2> SUFFICES ASSUME LogInv PROVE ProofsDecide
    OBVIOUS
  <2>1. leaves \in Seq(Nat) /\ kept \in Seq(Nat) /\ Distinct(leaves)
    BY DEF LogInv
  <2>2. ASSUME NEW i \in DOMAIN leaves, NEW j \in DOMAIN leaves
        PROVE  VerifyInclusionProof(leaves[j], i - 1, Len(leaves), InclusionProof(i - 1, leaves),
                 TreeHash(leaves)) <=> i = j
    <3>1. i \in 1..Len(leaves) /\ j \in 1..Len(leaves) /\ i - 1 \in Nat /\ i - 1 < Len(leaves)
          /\ (i - 1) + 1 = i
      BY <2>1
    <3>2. VerifyInclusionProof(leaves[j], i - 1, Len(leaves), InclusionProof(i - 1, leaves),
                 TreeHash(leaves)) <=> leaves[j] = leaves[(i - 1) + 1]
      BY <2>1, <3>1, InclusionIsDecided
    <3>3. leaves[j] = leaves[i] <=> i = j
      BY <2>1, <3>1 DEF Distinct
    <3> QED  BY <3>1, <3>2, <3>3
  <2>3. ASSUME kept # <<>>, Len(kept) <= Len(leaves)
        PROVE  VerifyConsistencyProof(Len(kept), Len(leaves), TreeHash(kept), TreeHash(leaves),
                 ConsistencyProof(Len(kept), Len(leaves), leaves))
                 <=> First(leaves, Len(kept)) = kept
    BY <2>1, <2>3, ConsistencyIsDecided
  <2> QED  BY <2>2, <2>3, Zenon DEF ProofsDecide, ProofsAgree, RewriteIsSeen
<1> QED  BY <1>1, LogInvAlways, PTL
-----------------------------------------------------------------------------
(* The dialog that checks a receipt.                                       *)

HeadType == [log : Nat, leaves : Seq(Nat)]
AnswerSet == {InclusionProof(p[1], p[2]) : p \in Nat \X Seq(Nat)} \cup {<<>>}
CheckType ==
  [pc : {"asked", "found", "head", "unbroken", "climb", "done"},
   log : Nat, ref : Nat, tamper : BOOLEAN, head : HeadType, signed : BOOLEAN,
   seq : Nat, listed : BOOLEAN, proof : AnswerSet, size : Nat, leaf : Nat,
   since : HeadType, unbroken : {"absent", "holds", "broken"}]
PageType ==
  [record : BOOLEAN, verdict : {"none", "pass", "fail"}, of : Nat,
   unbroken : {"absent", "holds", "broken"}, error : BOOLEAN]

\* The types, and that a log never has more records than were written.
ReceiptTyped ==
  /\ MaxLogged \in Nat /\ written \in 0..MaxLogged /\ rewrites \in Nat
  /\ logs \in Seq(Seq(Nat)) /\ logs # <<>> /\ witnessed \in HeadType
  /\ dialog \in [ref : Nat, tampered : BOOLEAN] /\ dialog.ref <= written
  /\ checks \in Seq(CheckType) /\ page \in PageType

\* A record hash that is stored later is larger than these.
Bounded(s, m) == \A j \in 1..Len(s) : s[j] <= m
Absent(ref, s) == \A j \in 1..Len(s) : s[j] # ref

LogsOK(ls, w, rw) ==
  \A t \in 1..Len(ls) : Len(ls[t]) <= w /\ Bounded(ls[t], MaxLogged + rw)

\* A head is of a log, which has only grown since.
HeadOK(h, ls, rw) ==
  /\ h.log \in DOMAIN ls /\ Len(h.leaves) <= Len(ls[h.log])
  /\ Bounded(h.leaves, MaxLogged + rw)

Claims(c, ls) ==
  LET extends == c.since # NoHead /\ Extends(c.head.leaves, c.since.leaves)
  IN  /\ c.unbroken = "holds" => extends
      /\ c.unbroken = "broken" /\ c.since.log = c.log =>
           ~extends \/ ~Extends(ls[c.log], c.head.leaves)

\* The proof was made of the log as it was when it was asked for.
Proven(c) ==
  /\ c.seq \in 1..c.size
  /\ \E s \in Seq(Nat) : Len(s) = c.size /\ c.proof = InclusionProof(c.seq - 1, s)

\* A record that the list shows is one the head already had some of: an empty
\* log is not the log of a receipt that could be asked for by then.
Served(c, ls) ==
  /\ c.head # NoHead => c.head.log = c.log
  /\ c.seq <= Len(ls[c.log])
  /\ c.pc = "asked" =>
       /\ c.head = NoHead \/ ~c.listed
       /\ c.head # NoHead /\ c.head.leaves = <<>> => Absent(c.ref, ls[c.log])
  /\ c.pc \in {"found", "head", "unbroken", "climb"} =>
       c.head # NoHead /\ c.head.leaves # <<>> /\ c.seq # 0
  /\ c.pc \in {"head", "unbroken", "climb"} => Proven(c)

Compared(c, ls) ==
  /\ c.since # NoHead => c.since.leaves # <<>> /\ Len(c.since.leaves) < Len(c.head.leaves)
  /\ c.pc \in {"asked", "found", "head"} => c.since = NoHead /\ c.unbroken = "absent"
  /\ c.pc = "unbroken" => c.since # NoHead
  /\ c.unbroken # "absent" => c.head # NoHead
  /\ Claims(c, ls)

CheckOK(c, ls, w, rw) ==
  /\ c.log \in DOMAIN ls /\ c.ref \in 1..w
  /\ c.head = NoHead \/ HeadOK(c.head, ls, rw)
  /\ Served(c, ls) /\ Compared(c, ls)

Earned(c) == ~c.tamper /\ c.seq \in DOMAIN c.head.leaves /\ c.head.leaves[c.seq] = c.ref

ReceiptInv ==
  /\ ReceiptTyped
  /\ LogsOK(logs, written, rewrites)
  /\ witnessed = NoHead \/ (HeadOK(witnessed, logs, rewrites) /\ witnessed.leaves # <<>>)
  /\ \A r \in DOMAIN checks : CheckOK(checks[r], logs, written, rewrites)
  /\ page.verdict = "pass" =>
       page.of \in DOMAIN checks /\ checks[page.of].pc = "done" /\ Earned(checks[page.of])

LEMMA ReceiptsBegin == ReceiptInit => ReceiptInv
<1> SUFFICES ASSUME ReceiptInit PROVE ReceiptInv
  OBVIOUS
<1> USE DEF ReceiptInit, ReceiptInv
<1>1. ReceiptTyped
  <2>1. <<>> \in Seq(Nat) /\ <<>> \in Seq(CheckType) /\ logs \in Seq(Seq(Nat)) /\ logs # <<>>
    OBVIOUS
  <2> QED  BY <2>1, ReceiptAssumption DEF ReceiptTyped, NoHead, HeadType, Unchecked, PageType, Closed
<1>2. LogsOK(logs, written, rewrites)
  BY DEF LogsOK, Bounded
<1> QED  BY <1>1, <1>2 DEF Unchecked
-----------------------------------------------------------------------------
(* The log under a check: records are added and rewritten.                 *)

\* What is new in a log is larger than the hashes there were.
Later(s, s2, w, m) ==
  /\ Len(s) <= Len(s2)
  /\ \A j \in 1..Len(s2) : \/ j <= Len(s) /\ s2[j] = s[j]
                           \/ s2[j] > w /\ (j <= Len(s) => s2[j] > m)

Grown(ls, w, rw, ls2, w2, rw2) ==
  /\ MaxLogged \in Nat /\ {w, rw, w2, rw2} \subseteq Nat /\ {ls, ls2} \subseteq Seq(Seq(Nat))
  /\ Len(ls) <= Len(ls2) /\ w <= w2 /\ rw <= rw2
  /\ \A t \in 1..Len(ls) : Later(ls[t], ls2[t], w, MaxLogged + rw)

LEMMA BoundGrows ==
  ASSUME NEW s \in Seq(Nat), NEW m \in Nat, NEW m2 \in Nat, m <= m2, Bounded(s, m)
  PROVE  Bounded(s, m2)
BY DEF Bounded

LEMMA AbsentStands ==
  ASSUME NEW s \in Seq(Nat), NEW s2 \in Seq(Nat), NEW w \in Nat, NEW m \in Nat,
         Later(s, s2, w, m), NEW ref \in 1..w, Absent(ref, s)
  PROVE  Absent(ref, s2)
BY SMTT(40) DEF Absent, Later

(* A log that was rewritten never again begins with what it was then.      *)
LEMMA RewrittenStands ==
  ASSUME NEW s \in Seq(Nat), NEW s2 \in Seq(Nat), NEW w \in Nat, NEW m \in Nat,
         Later(s, s2, w, m), NEW h \in Seq(Nat), Bounded(h, m), Len(h) <= Len(s), ~Extends(s, h)
  PROVE  ~Extends(s2, h)
<1>1. First(s, Len(h)) # h
  BY DEF Extends
<1>2. PICK j \in 1..Len(h) : s[j] # h[j]
  <2>1. ~Alike(s, 0, h, 0, Len(h))
    BY <1>1, AlikeIsFirst
  <2> QED  BY <2>1 DEF Alike
<1>3. s2[j] # h[j]
  <2>1. j \in Nat /\ j <= Len(s) /\ j \in 1..Len(s2) /\ h[j] \in Nat /\ s2[j] \in Nat
    BY SMTT(40) DEF Later
  <2>2. s2[j] = s[j] \/ s2[j] > m
    BY <2>1 DEF Later
  <2>3. h[j] <= m
    BY DEF Bounded
  <2> QED  BY <1>2, <2>1, <2>2, <2>3
<1>4. ~Alike(s2, 0, h, 0, Len(h))
  BY <1>2, <1>3 DEF Alike
<1>5. Len(h) <= Len(s2)
  BY DEF Later
<1>6. First(s2, Len(h)) # h
  BY <1>4, <1>5, AlikeIsFirst
<1> QED  BY <1>6 DEF Extends

LEMMA CheckStands ==
  ASSUME NEW ls, NEW w, NEW rw, NEW ls2, NEW w2, NEW rw2, Grown(ls, w, rw, ls2, w2, rw2)
  PROVE  \A c \in CheckType : CheckOK(c, ls, w, rw) => CheckOK(c, ls2, w2, rw2)
<1> SUFFICES ASSUME NEW c \in CheckType, CheckOK(c, ls, w, rw) PROVE CheckOK(c, ls2, w2, rw2)
  OBVIOUS
<1>0. /\ w \in Nat /\ rw \in Nat /\ w2 \in Nat /\ rw2 \in Nat /\ MaxLogged \in Nat
      /\ ls \in Seq(Seq(Nat)) /\ ls2 \in Seq(Seq(Nat))
  BY DEF Grown
<1>1. /\ c.log \in DOMAIN ls /\ c.log \in DOMAIN ls2 /\ c.ref \in 1..w /\ c.ref \in 1..w2
      /\ ls[c.log] \in Seq(Nat) /\ ls2[c.log] \in Seq(Nat)
      /\ MaxLogged + rw \in Nat /\ MaxLogged + rw2 \in Nat
      /\ MaxLogged + rw <= MaxLogged + rw2
  <2>1. c.log \in DOMAIN ls /\ c.ref \in 1..w /\ w <= w2 /\ rw <= rw2 /\ Len(ls) <= Len(ls2)
    BY DEF CheckOK, Grown
  <2>2. c.log \in 1..Len(ls) /\ c.log \in 1..Len(ls2)
    BY <1>0, <2>1
  <2>3. ls[c.log] \in Seq(Nat) /\ ls2[c.log] \in Seq(Nat)
    BY <1>0, <2>2
  <2> QED  BY <1>0, <2>1, <2>2, <2>3
<1>2. Later(ls[c.log], ls2[c.log], w, MaxLogged + rw) /\ Len(ls[c.log]) <= Len(ls2[c.log])
  <2>1. c.log \in 1..Len(ls)
    BY <1>0, <1>1
  <2> QED  BY <2>1 DEF Grown, Later
<1>3. c.head.leaves \in Seq(Nat) /\ c.since.leaves \in Seq(Nat) /\ c.seq \in Nat
  BY DEF CheckType, HeadType
<1>4. Served(c, ls) /\ Compared(c, ls) /\ (c.head = NoHead \/ HeadOK(c.head, ls, rw))
  BY DEF CheckOK
<1>5. c.head # NoHead => c.head.log = c.log
  BY <1>4 DEF Served
<1>6. c.head = NoHead \/ HeadOK(c.head, ls2, rw2)
  <2>1. SUFFICES ASSUME c.head # NoHead PROVE HeadOK(c.head, ls2, rw2)
    OBVIOUS
  <2>2. c.head.log = c.log /\ Len(c.head.leaves) <= Len(ls[c.log])
        /\ Bounded(c.head.leaves, MaxLogged + rw)
    BY <1>4, <1>5, <2>1 DEF HeadOK
  <2>3. Bounded(c.head.leaves, MaxLogged + rw2)
    BY <1>1, <1>3, <2>2, BoundGrows
  <2> QED  BY <1>1, <1>2, <1>3, <2>2, <2>3 DEF HeadOK
<1>7. Served(c, ls2)
  <2>1. Absent(c.ref, ls[c.log]) => Absent(c.ref, ls2[c.log])
    BY <1>0, <1>1, <1>2, AbsentStands
  <2>2. c.seq <= Len(ls[c.log]) => c.seq <= Len(ls2[c.log])
    BY <1>1, <1>2, <1>3
  <2> QED  BY <1>4, <2>1, <2>2 DEF Served
<1>8. Compared(c, ls2)
  <2>1. ASSUME c.unbroken = "broken", ~Extends(ls[c.log], c.head.leaves)
        PROVE  ~Extends(ls2[c.log], c.head.leaves)
    <3>1. Len(c.head.leaves) <= Len(ls[c.log]) /\ Bounded(c.head.leaves, MaxLogged + rw)
      BY <1>4, <1>5, <2>1 DEF Compared, HeadOK
    <3> QED  BY <1>1, <1>2, <1>3, <2>1, <3>1, <1>0, RewrittenStands
  <2> QED  BY <1>4, <2>1 DEF Compared, Claims
<1> QED  BY <1>1, <1>6, <1>7, <1>8 DEF CheckOK

LEMMA HeadStands ==
  ASSUME NEW ls, NEW w, NEW rw, NEW ls2, NEW w2, NEW rw2, Grown(ls, w, rw, ls2, w2, rw2)
  PROVE  \A h \in HeadType : HeadOK(h, ls, rw) => HeadOK(h, ls2, rw2)
<1> SUFFICES ASSUME NEW h \in HeadType, HeadOK(h, ls, rw) PROVE HeadOK(h, ls2, rw2)
  OBVIOUS
<1>0. /\ rw \in Nat /\ rw2 \in Nat /\ MaxLogged \in Nat
      /\ ls \in Seq(Seq(Nat)) /\ ls2 \in Seq(Seq(Nat))
  BY DEF Grown
<1>1. /\ h.log \in DOMAIN ls /\ Len(h.leaves) <= Len(ls[h.log]) /\ h.leaves \in Seq(Nat)
      /\ Bounded(h.leaves, MaxLogged + rw) /\ rw <= rw2 /\ Len(ls) <= Len(ls2)
  BY DEF HeadOK, Grown, HeadType
<1>2. h.log \in 1..Len(ls) /\ h.log \in 1..Len(ls2) /\ h.log \in DOMAIN ls2
  BY <1>0, <1>1
<1>3. ls[h.log] \in Seq(Nat) /\ ls2[h.log] \in Seq(Nat)
  BY <1>0, <1>2
<1>4. Len(ls[h.log]) <= Len(ls2[h.log])
  BY <1>2 DEF Grown, Later
<1>5. Bounded(h.leaves, MaxLogged + rw2)
  <2>1. MaxLogged + rw \in Nat /\ MaxLogged + rw2 \in Nat /\ MaxLogged + rw <= MaxLogged + rw2
    BY <1>0, <1>1
  <2> QED  BY <1>1, <2>1, BoundGrows
<1>6. Len(h.leaves) <= Len(ls2[h.log])
  BY <1>1, <1>3, <1>4
<1> QED  BY <1>2, <1>5, <1>6 DEF HeadOK

LEMMA LogMoves ==
  ASSUME ReceiptInv, written' \in 0..MaxLogged, rewrites' \in Nat, logs' \in Seq(Seq(Nat)),
         Grown(logs, written, rewrites, logs', written', rewrites'),
         LogsOK(logs', written', rewrites'), UNCHANGED <<witnessed, dialog, checks, page>>
  PROVE  ReceiptInv'
<1>1. /\ MaxLogged \in Nat /\ written \in Nat /\ rewrites \in Nat /\ written' \in Nat
      /\ logs \in Seq(Seq(Nat)) /\ logs # <<>> /\ witnessed \in HeadType
      /\ dialog \in [ref : Nat, tampered : BOOLEAN] /\ dialog.ref <= written
      /\ checks \in Seq(CheckType) /\ page \in PageType
  BY DEF ReceiptInv, ReceiptTyped
<1>2. written <= written' /\ Len(logs) <= Len(logs')
  BY DEF Grown
<1>3. ReceiptTyped'
  <2>1. logs' # <<>>
    BY <1>1, <1>2
  <2>2. dialog'.ref <= written'
    BY <1>1, <1>2
  <2>3. UNCHANGED <<witnessed, dialog, checks, page>>
    OBVIOUS
  <2> QED  BY <1>1, <2>1, <2>2, <2>3 DEF ReceiptTyped
<1>4. witnessed = NoHead \/ (HeadOK(witnessed, logs', rewrites') /\ witnessed.leaves # <<>>)
  <2>1. \A h \in HeadType : HeadOK(h, logs, rewrites) => HeadOK(h, logs', rewrites')
    BY HeadStands
  <2> QED  BY <1>1, <2>1, Zenon DEF ReceiptInv
<1>5. ASSUME NEW r \in DOMAIN checks PROVE CheckOK(checks[r], logs', written', rewrites')
  <2>1. checks[r] \in CheckType
    BY <1>1
  <2>2. CheckOK(checks[r], logs, written, rewrites)
    BY DEF ReceiptInv
  <2>3. \A c \in CheckType : CheckOK(c, logs, written, rewrites) => CheckOK(c, logs', written', rewrites')
    BY CheckStands
  <2> QED  BY <2>1, <2>2, <2>3, Zenon
<1>6. page.verdict = "pass" =>
        page.of \in DOMAIN checks /\ checks[page.of].pc = "done" /\ Earned(checks[page.of])
  BY DEF ReceiptInv
<1> QED  BY <1>3, <1>4, <1>5, <1>6, Zenon DEF ReceiptInv

LEMMA StartOverKeeps == ASSUME ReceiptInv, StartOver PROVE ReceiptInv'
<1>1. /\ MaxLogged \in Nat /\ written \in 0..MaxLogged /\ rewrites \in Nat
      /\ logs \in Seq(Seq(Nat))
      /\ LogsOK(logs, written, rewrites)
  BY DEF ReceiptInv, ReceiptTyped
<1>2. logs' = Append(logs, <<>>) /\ UNCHANGED <<witnessed, dialog, checks, page, written, rewrites>>
  BY DEF StartOver
<1>3. /\ logs' \in Seq(Seq(Nat)) /\ Len(logs') = Len(logs) + 1 /\ logs'[Len(logs) + 1] = <<>>
      /\ \A t \in 1..Len(logs) : logs'[t] = logs[t]
  <2>1. <<>> \in Seq(Nat)
    OBVIOUS
  <2> QED  BY <1>1, <1>2, <2>1
<1>4. Grown(logs, written, rewrites, logs', written, rewrites)
  <2>1. ASSUME NEW t \in 1..Len(logs) PROVE Later(logs[t], logs'[t], written, MaxLogged + rewrites)
    <3>1. logs'[t] = logs[t] /\ logs[t] \in Seq(Nat)
      BY <1>1, <1>3
    <3>2. \A s \in Seq(Nat) : Later(s, s, written, MaxLogged + rewrites)
      BY DEF Later
    <3> QED  BY <3>1, <3>2, Zenon
  <2> QED  BY <1>1, <1>3, <2>1 DEF Grown
<1>5. LogsOK(logs', written, rewrites)
  <2>1. ASSUME NEW t \in 1..Len(logs') PROVE Len(logs'[t]) <= written /\ Bounded(logs'[t], MaxLogged + rewrites)
    <3>1. CASE t \in 1..Len(logs)
      <4>1. Len(logs[t]) <= written /\ Bounded(logs[t], MaxLogged + rewrites) /\ logs'[t] = logs[t]
        BY <1>1, <1>3, <3>1, Zenon DEF LogsOK
      <4> QED  BY <4>1, Zenon
    <3>2. CASE t = Len(logs) + 1
      BY <1>1, <1>3, <3>2 DEF Bounded
    <3> QED  BY <1>1, <1>3, <3>1, <3>2
  <2> QED  BY <1>3, <2>1 DEF LogsOK
<1> QED  BY <1>1, <1>2, <1>3, <1>4, <1>5, LogMoves

LEMMA OneLogMoves ==
  ASSUME ReceiptInv, NEW s \in Seq(Nat), logs' = [logs EXCEPT ![Len(logs)] = s],
         written' \in written..MaxLogged, rewrites' \in Nat, rewrites <= rewrites',
         Later(logs[Len(logs)], s, written, MaxLogged + rewrites),
         Len(s) <= written', Bounded(s, MaxLogged + rewrites'),
         UNCHANGED <<witnessed, dialog, checks, page>>
  PROVE  ReceiptInv'
<1>1. /\ MaxLogged \in Nat /\ written \in 0..MaxLogged /\ rewrites \in Nat
      /\ logs \in Seq(Seq(Nat)) /\ logs # <<>> /\ LogsOK(logs, written, rewrites)
  BY DEF ReceiptInv, ReceiptTyped
<1> DEFINE n == Len(logs)
<1>2. n \in Nat \ {0} /\ n \in 1..n
  BY <1>1
<1>3. /\ logs' \in Seq(Seq(Nat)) /\ Len(logs') = n /\ logs'[n] = s
      /\ \A t \in 1..n : t # n => logs'[t] = logs[t]
  BY <1>1, <1>2
<1>4. \A t \in 1..n : logs[t] \in Seq(Nat) /\ Len(logs[t]) <= written
                     /\ Bounded(logs[t], MaxLogged + rewrites)
  BY <1>1 DEF LogsOK
<1> HIDE DEF n
<1>5. Grown(logs, written, rewrites, logs', written', rewrites')
  <2>1. ASSUME NEW t \in 1..n PROVE Later(logs[t], logs'[t], written, MaxLogged + rewrites)
    <3>1. CASE t = n
      BY <1>3, <3>1, Zenon DEF n
    <3>2. CASE t # n
      <4>1. \A u \in Seq(Nat) : Later(u, u, written, MaxLogged + rewrites)
        BY DEF Later
      <4> QED  BY <1>3, <1>4, <2>1, <3>2, <4>1, Zenon
    <3> QED  BY <3>1, <3>2
  <2>2. written \in Nat /\ written' \in Nat /\ written <= written'
    BY <1>1
  <2>3. Len(logs) <= Len(logs')
    <3>1. Len(logs') = Len(logs)
      BY <1>3, Zenon DEF n
    <3>2. Len(logs) \in Nat
      BY <1>1
    <3> QED  BY <3>1, <3>2
  <2>4. {logs, logs'} \subseteq Seq(Seq(Nat)) /\ {written, rewrites, written', rewrites'} \subseteq Nat
    BY <1>1, <1>3, <2>2
  <2> QED  BY <1>1, <2>1, <2>2, <2>3, <2>4 DEF Grown, n
<1>6. LogsOK(logs', written', rewrites')
  <2>1. ASSUME NEW t \in 1..n PROVE Len(logs'[t]) <= written' /\ Bounded(logs'[t], MaxLogged + rewrites')
    <3>1. CASE t = n
      BY <1>3, <3>1, Zenon
    <3>2. CASE t # n
      <4>1. logs'[t] = logs[t]
        BY <1>3, <2>1, <3>2, Zenon
      <4>2. \A u \in Seq(Nat) : Len(u) <= written /\ Bounded(u, MaxLogged + rewrites)
              => Len(u) <= written' /\ Bounded(u, MaxLogged + rewrites')
        BY <1>1, SMTT(40) DEF Bounded
      <4>3. logs[t] \in Seq(Nat) /\ Len(logs[t]) <= written /\ Bounded(logs[t], MaxLogged + rewrites)
        BY <1>4, <2>1, Zenon
      <4> QED  BY <4>1, <4>2, <4>3, Zenon
    <3> QED  BY <3>1, <3>2
  <2> QED  BY <1>3, <2>1, Zenon DEF LogsOK
<1>7. written' \in 0..MaxLogged
  BY <1>1
<1> QED  BY <1>3, <1>5, <1>6, <1>7, LogMoves

LEMMA AppendKeepsReceipts == ASSUME ReceiptInv, AppendRecord PROVE ReceiptInv'
<1>1. /\ MaxLogged \in Nat /\ written \in 0..MaxLogged /\ rewrites \in Nat
      /\ logs \in Seq(Seq(Nat)) /\ logs # <<>> /\ LogsOK(logs, written, rewrites)
  BY DEF ReceiptInv, ReceiptTyped
<1> DEFINE n == Len(logs)
           u == logs[n]
           s == Append(u, written + 1)
<1>2. n \in 1..n
  BY <1>1
<1>3. u \in Seq(Nat) /\ Len(u) <= written /\ Bounded(u, MaxLogged + rewrites)
  BY <1>1, <1>2 DEF LogsOK
<1>4. /\ logs' = [logs EXCEPT ![Len(logs)] = s] /\ written' = written + 1 /\ rewrites' = rewrites
      /\ written' \in written..MaxLogged /\ UNCHANGED <<witnessed, dialog, checks, page>>
  BY <1>1 DEF AppendRecord
<1> HIDE DEF u, n
<1>5. s \in Seq(Nat) /\ Len(s) <= written' /\ Later(u, s, written, MaxLogged + rewrites)
  BY <1>1, <1>3, <1>4 DEF Later
<1>6. Bounded(s, MaxLogged + rewrites')
  BY <1>1, <1>3, <1>4 DEF Bounded
<1> HIDE DEF s
<1>7. rewrites' \in Nat /\ rewrites <= rewrites'
  BY <1>1, <1>4
<1> QED  BY <1>4, <1>5, <1>6, <1>7, OneLogMoves DEF u, n

LEMMA RewriteKeeps ==
  ASSUME ReceiptInv, NEW j \in DOMAIN logs[Len(logs)], Rewrite(j) PROVE ReceiptInv'
<1>1. /\ MaxLogged \in Nat /\ written \in 0..MaxLogged /\ rewrites \in Nat
      /\ logs \in Seq(Seq(Nat)) /\ logs # <<>> /\ LogsOK(logs, written, rewrites)
  BY DEF ReceiptInv, ReceiptTyped
<1> DEFINE n == Len(logs)
           u == logs[n]
           s == [u EXCEPT ![j] = MaxLogged + rewrites + 1]
<1>2. n \in 1..n
  BY <1>1
<1>3. j \in DOMAIN u /\ u \in Seq(Nat) /\ Len(u) <= written /\ Bounded(u, MaxLogged + rewrites)
  BY <1>1, <1>2 DEF LogsOK
<1>4. /\ logs' = [logs EXCEPT ![n] = s] /\ rewrites' = rewrites + 1 /\ written' = written
      /\ UNCHANGED <<witnessed, dialog, checks, page>>
  BY <1>1 DEF Rewrite
<1> HIDE DEF u
<1>5. s \in Seq(Nat) /\ Len(s) <= written'
  BY <1>1, <1>3, <1>4, SMTT(40)
<1>6. Later(u, s, written, MaxLogged + rewrites)
  BY <1>1, <1>3, <1>4, SMTT(40) DEF Later
<1>7. Bounded(s, MaxLogged + rewrites')
  <2>1. ASSUME NEW i \in 1..Len(s) PROVE s[i] <= MaxLogged + rewrites'
    <3>1. i \in 1..Len(u) /\ (i # j => s[i] = u[i]) /\ (i = j => s[i] = MaxLogged + rewrites + 1)
      BY <1>3
    <3>2. u[i] <= MaxLogged + rewrites /\ u[i] \in Nat
      BY <1>3, <3>1 DEF Bounded
    <3> QED  BY <1>1, <1>4, <3>1, <3>2
  <2> QED  BY <2>1 DEF Bounded
<1> HIDE DEF s
<1>8. rewrites' \in Nat /\ rewrites <= rewrites' /\ written' \in written..MaxLogged
  BY <1>1, <1>4
<1> QED  BY <1>4, <1>5, <1>6, <1>7, <1>8, OneLogMoves DEF u, n
-----------------------------------------------------------------------------
(* The steps of a check.                                                   *)

\* What the page says of a check after a step of it.
Tells(r, d) ==
  /\ page' \in PageType
  /\ page'.verdict = "pass" =>
       \/ page.verdict = "pass" /\ page'.of = page.of
       \/ page'.of = r /\ d.pc = "done" /\ Earned(d)

LEMMA CheckMoves ==
  ASSUME ReceiptInv, NEW r \in DOMAIN checks, checks[r].pc # "done",
         NEW d \in CheckType, CheckOK(d, logs, written, rewrites),
         checks' = [checks EXCEPT ![r] = d], Tells(r, d), witnessed' \in HeadType,
         witnessed' = NoHead \/ (HeadOK(witnessed', logs, rewrites) /\ witnessed'.leaves # <<>>),
         UNCHANGED <<dialog, Service>>
  PROVE  ReceiptInv'
<1>1. /\ checks \in Seq(CheckType) /\ UNCHANGED <<logs, written, rewrites, dialog>>
  BY DEF ReceiptInv, ReceiptTyped, Service
<1>2. /\ checks' \in Seq(CheckType) /\ DOMAIN checks' = DOMAIN checks /\ checks'[r] = d
      /\ \A q \in DOMAIN checks : q # r => checks'[q] = checks[q]
  BY <1>1
<1>3. ReceiptTyped'
  BY <1>1, <1>2 DEF ReceiptInv, ReceiptTyped, Tells
<1>4. ASSUME NEW q \in DOMAIN checks' PROVE CheckOK(checks'[q], logs, written, rewrites)
  BY <1>2, <1>4, Zenon DEF ReceiptInv
<1>5. page'.verdict = "pass" =>
        page'.of \in DOMAIN checks' /\ checks'[page'.of].pc = "done" /\ Earned(checks'[page'.of])
  <2>1. SUFFICES ASSUME page'.verdict = "pass"
                 PROVE  /\ page'.of \in DOMAIN checks' /\ checks'[page'.of].pc = "done"
                        /\ Earned(checks'[page'.of])
    OBVIOUS
  <2>2. CASE page.verdict = "pass" /\ page'.of = page.of
    <3>1. page.of \in DOMAIN checks /\ checks[page.of].pc = "done" /\ Earned(checks[page.of])
      BY <2>2 DEF ReceiptInv
    <3>2. page.of # r
      BY <3>1
    <3>3. checks'[page'.of] = checks[page.of]
      BY <1>2, <2>2, <3>1, <3>2
    <3> QED  BY <1>2, <2>2, <3>1, <3>3
  <2>3. CASE page'.of = r /\ d.pc = "done" /\ Earned(d)
    BY <1>2, <2>3
  <2> QED  BY <2>1, <2>2, <2>3 DEF Tells
<1> QED  BY <1>1, <1>3, <1>4, <1>5, Zenon DEF ReceiptInv

(* What is known of a check, and of the log it asks.                       *)
LEMMA OfCheck ==
  ASSUME ReceiptInv, NEW r \in DOMAIN checks
  PROVE  /\ checks[r] \in CheckType /\ CheckOK(checks[r], logs, written, rewrites)
         /\ r \in Nat /\ checks[r].log \in Nat \ {0} /\ checks[r].log \in DOMAIN logs
         /\ Log(r) \in Seq(Nat) /\ Bounded(Log(r), MaxLogged + rewrites)
         /\ page \in PageType /\ witnessed \in HeadType
         /\ (witnessed = NoHead \/ (HeadOK(witnessed, logs, rewrites) /\ witnessed.leaves # <<>>))
<1>1. /\ logs \in Seq(Seq(Nat)) /\ LogsOK(logs, written, rewrites) /\ checks \in Seq(CheckType)
      /\ page \in PageType /\ witnessed \in HeadType
      /\ (witnessed = NoHead \/ (HeadOK(witnessed, logs, rewrites) /\ witnessed.leaves # <<>>))
      /\ CheckOK(checks[r], logs, written, rewrites)
  BY DEF ReceiptInv, ReceiptTyped
<1>2. checks[r].log \in 1..Len(logs)
  BY <1>1 DEF CheckOK
<1>3. Log(r) \in Seq(Nat) /\ Bounded(Log(r), MaxLogged + rewrites)
  BY <1>1, <1>2 DEF LogsOK, Log
<1>4. checks[r] \in CheckType /\ r \in Nat
  BY <1>1
<1> QED  BY <1>1, <1>2, <1>3, <1>4

LEMMA HeadServedKeeps ==
  ASSUME ReceiptInv, NEW r \in DOMAIN checks, HeadServed(r) PROVE ReceiptInv'
<1> DEFINE c == checks[r]
<1>1. PICK signed \in BOOLEAN :
        LET b == [c EXCEPT !.head = [log |-> c.log, leaves |-> Log(r)], !.signed = signed]
        IN  /\ checks' = [checks EXCEPT ![r] = [b EXCEPT !.pc = Joined(b)]]
            /\ page' = [page EXCEPT !.error = @ \/ Joined(b) = "done"]
  BY DEF HeadServed
<1> DEFINE h == [log |-> c.log, leaves |-> Log(r)]
           b == [c EXCEPT !.head = h, !.signed = signed]
           d == [b EXCEPT !.pc = Joined(b)]
<1>2. /\ c.pc = "asked" /\ c.head = NoHead /\ UNCHANGED <<witnessed, dialog, Service>>
      /\ c \in CheckType /\ CheckOK(c, logs, written, rewrites) /\ page \in PageType
  BY OfCheck DEF HeadServed
<1>3. h \in HeadType /\ HeadOK(h, logs, rewrites) /\ h # NoHead
  BY OfCheck DEF HeadOK, HeadType, Log, NoHead
<1>4. /\ b \in CheckType /\ b.head = h /\ b.listed = c.listed /\ b.seq = c.seq
  BY <1>2, <1>3 DEF CheckType
<1>5. Joined(b) = IF c.listed THEN IF c.seq = 0 THEN "done" ELSE "found" ELSE "asked"
  BY <1>3, <1>4 DEF Joined
<1>6. /\ d \in CheckType /\ d.head = h /\ d.log = c.log /\ d.ref = c.ref /\ d.since = c.since
      /\ d.unbroken = c.unbroken /\ d.seq = c.seq /\ d.listed = c.listed /\ d.pc = Joined(b)
  BY <1>2, <1>3, <1>5 DEF CheckType
<1> HIDE DEF b, d
<1>7. Served(d, logs)
  <2>1. Served(c, logs) /\ c.seq \in Nat
    BY <1>2 DEF CheckOK, CheckType
  <2>2. c.seq # 0 => h.leaves # <<>>
    BY <2>1, OfCheck DEF Served, Log
  <2>3. h.leaves = <<>> => Absent(d.ref, logs[d.log])
    BY <1>6 DEF Absent, Log
  <2> QED  BY <1>3, <1>5, <1>6, <2>1, <2>2, <2>3 DEF Served
<1>8. Compared(d, logs)
  <2>1. Compared(c, logs)
    BY <1>2 DEF CheckOK
  <2>2. d.since = NoHead /\ d.unbroken = "absent"
    BY <1>2, <1>6, <2>1 DEF Compared
  <2> QED  BY <1>5, <1>6, <2>2 DEF Compared, Claims
<1>9. CheckOK(d, logs, written, rewrites)
  BY <1>2, <1>3, <1>6, <1>7, <1>8 DEF CheckOK
<1>10. checks' = [checks EXCEPT ![r] = d] /\ page' = [page EXCEPT !.error = @ \/ Joined(b) = "done"]
  BY <1>1, Zenon DEF b, d
<1>11. Tells(r, d)
  BY <1>2, <1>10 DEF Tells, PageType
<1>12. /\ witnessed' \in HeadType
       /\ witnessed' = NoHead \/ (HeadOK(witnessed', logs, rewrites) /\ witnessed'.leaves # <<>>)
  BY <1>2, OfCheck
<1> QED  BY <1>2, <1>6, <1>9, <1>10, <1>11, <1>12, CheckMoves

(* The largest of a set of positions is one of them.                       *)
LEMMA MaxIsIn == ASSUME NEW n \in Nat, NEW T \in SUBSET (1..n), T # {} PROVE Max(T) \in T
<1> DEFINE U == {n - x : x \in T}
<1>1. U \in SUBSET Nat /\ U # {}
  <2>1. \A x \in T : n - x \in Nat
    OBVIOUS
  <2>2. U # {}
    BY Zenon
  <2> QED  BY <2>1, <2>2, Zenon
<1>2. PICK m \in U : \A k \in U : m <= k
  BY <1>1, LeastNat
<1>3. PICK x \in T : m = n - x
  <2>1. m \in U
    BY <1>2
  <2> QED  BY <2>1, Zenon
<1>4. \A y \in T : x >= y
  <2> SUFFICES ASSUME NEW y \in T PROVE x >= y
    OBVIOUS
  <2>1. n - y \in U
    OBVIOUS
  <2> QED  BY <1>2, <1>3, <2>1
<1> QED  BY <1>3, <1>4, Zenon DEF Max

LEMMA ListServedKeeps ==
  ASSUME ReceiptInv, NEW r \in DOMAIN checks, ListServed(r) PROVE ReceiptInv'
<1> DEFINE c == checks[r]
           at == {j \in DOMAIN Log(r) : Log(r)[j] = checks[r].ref}
           seq == IF at = {} THEN 0 ELSE Max(at)
           b == [c EXCEPT !.listed = TRUE, !.seq = seq]
           d == [b EXCEPT !.pc = Joined(b)]
<1>1. /\ c.pc = "asked" /\ ~c.listed /\ UNCHANGED <<witnessed, dialog, Service>>
      /\ checks' = [checks EXCEPT ![r] = d]
      /\ page' = [page EXCEPT !.error = @ \/ Joined(b) = "done"]
  BY DEF ListServed
<1>2. /\ c \in CheckType /\ CheckOK(c, logs, written, rewrites) /\ page \in PageType
  BY OfCheck
<1>3. seq \in Nat /\ seq <= Len(Log(r)) /\ (Absent(c.ref, Log(r)) => seq = 0)
  <2>1. Log(r) \in Seq(Nat)
    BY OfCheck
  <2>2. at \in SUBSET (1..Len(Log(r))) /\ Len(Log(r)) \in Nat
    BY <2>1
  <2>3. at # {} => seq \in at
    BY <2>2, MaxIsIn
  <2>4. Absent(c.ref, Log(r)) => at = {}
    BY <2>1 DEF Absent
  <2> HIDE DEF at
  <2>5. CASE at = {}
    BY <2>2, <2>5
  <2>6. CASE at # {}
    <3>1. seq \in at /\ ~Absent(c.ref, Log(r))
      BY <2>3, <2>4, <2>6
    <3>2. seq \in 1..Len(Log(r))
      BY <2>2, <3>1
    <3> QED  BY <2>2, <3>1, <3>2
  <2> QED  BY <2>5, <2>6
<1> HIDE DEF seq
<1>4. b \in CheckType /\ b.head = c.head /\ b.listed = TRUE /\ b.seq = seq
  BY <1>2, <1>3 DEF CheckType
<1>5. Joined(b) = IF c.head # NoHead THEN IF seq = 0 THEN "done" ELSE "found" ELSE "asked"
  BY <1>4 DEF Joined
<1>6. /\ d \in CheckType /\ d.head = c.head /\ d.log = c.log /\ d.ref = c.ref /\ d.since = c.since
      /\ d.unbroken = c.unbroken /\ d.seq = seq /\ d.listed = TRUE /\ d.pc = Joined(b)
  BY <1>2, <1>3, <1>5 DEF CheckType
<1> HIDE DEF b, d
<1>7. Served(d, logs)
  <2>1. Served(c, logs)
    BY <1>2 DEF CheckOK
  <2>2. c.head # NoHead /\ c.head.leaves = <<>> => seq = 0
    BY <1>1, <1>3, <2>1 DEF Served, Log
  <2> QED  BY <1>1, <1>3, <1>5, <1>6, <2>1, <2>2 DEF Served, Log
<1>8. Compared(d, logs)
  <2>1. Compared(c, logs)
    BY <1>2 DEF CheckOK
  <2>2. d.since = NoHead /\ d.unbroken = "absent"
    BY <1>1, <1>6, <2>1 DEF Compared
  <2> QED  BY <1>5, <1>6, <2>2 DEF Compared, Claims
<1>9. CheckOK(d, logs, written, rewrites)
  BY <1>2, <1>6, <1>7, <1>8 DEF CheckOK
<1>10. Tells(r, d)
  BY <1>1, <1>2 DEF Tells, PageType
<1>11. /\ witnessed' \in HeadType
       /\ witnessed' = NoHead \/ (HeadOK(witnessed', logs, rewrites) /\ witnessed'.leaves # <<>>)
  BY <1>1, OfCheck
<1> QED  BY <1>1, <1>6, <1>9, <1>10, <1>11, CheckMoves

(* What is let go when a check ends says nothing.                          *)
Ended(c) == [c EXCEPT !.pc = "done", !.proof = <<>>, !.size = 0, !.leaf = 0, !.signed = FALSE]

LEMMA EndedOK ==
  ASSUME NEW c \in CheckType, NEW ls, NEW w, NEW rw, CheckOK(c, ls, w, rw)
  PROVE  /\ Ended(c) \in CheckType /\ CheckOK(Ended(c), ls, w, rw) /\ Ended(c).pc = "done"
         /\ Earned(c) <=> Earned(Ended(c))
<1> DEFINE d == Ended(c)
<1>1. /\ d \in CheckType /\ d.head = c.head /\ d.log = c.log /\ d.ref = c.ref /\ d.since = c.since
      /\ d.unbroken = c.unbroken /\ d.seq = c.seq /\ d.listed = c.listed /\ d.pc = "done"
      /\ d.tamper = c.tamper
  BY DEF CheckType, Ended, AnswerSet
<1> HIDE DEF d
<1>2. CheckOK(d, ls, w, rw)
  BY <1>1 DEF CheckOK, Served, Compared, Claims
<1>3. Earned(c) <=> Earned(d)
  BY <1>1 DEF Earned
<1> QED  BY <1>1, <1>2, <1>3 DEF d

LEMMA FinishEnds ==
  ASSUME ReceiptInv, NEW r \in DOMAIN checks, EndCheck(r)
  PROVE  checks' = [checks EXCEPT ![r] = Ended(checks[r])]
BY OfCheck DEF EndCheck, Ended, CheckType

LEMMA UnansweredKeeps ==
  ASSUME ReceiptInv, NEW r \in DOMAIN checks, Unanswered(r) PROVE ReceiptInv'
<1> DEFINE d == Ended(checks[r])
<1>1. /\ checks[r].pc # "done" /\ UNCHANGED <<witnessed, dialog, Service>>
      /\ checks' = [checks EXCEPT ![r] = d] /\ page' = [page EXCEPT !.error = TRUE]
  BY FinishEnds DEF Unanswered
<1>2. d \in CheckType /\ CheckOK(d, logs, written, rewrites)
  BY OfCheck, EndedOK
<1> HIDE DEF d
<1>3. Tells(r, d)
  BY <1>1, OfCheck DEF Tells, PageType
<1>4. /\ witnessed' \in HeadType
      /\ witnessed' = NoHead \/ (HeadOK(witnessed', logs, rewrites) /\ witnessed'.leaves # <<>>)
  BY <1>1, OfCheck
<1> QED  BY <1>1, <1>2, <1>3, <1>4, CheckMoves

LEMMA ProofServedKeeps ==
  ASSUME ReceiptInv, NEW r \in DOMAIN checks, ProofServed(r) PROVE ReceiptInv'
<1> DEFINE c == checks[r]
           s == Log(r)
           path == InclusionProof(c.seq - 1, s)
           d == [c EXCEPT !.pc = "head", !.size = Len(s), !.leaf = s[c.seq], !.proof = path]
<1>1. /\ c \in CheckType /\ CheckOK(c, logs, written, rewrites) /\ s \in Seq(Nat)
      /\ page \in PageType /\ c.pc = "found" /\ UNCHANGED <<witnessed, dialog, Service>>
      /\ page' = [page EXCEPT !.record = TRUE]
  BY OfCheck DEF ProofServed
<1>2. checks' = [checks EXCEPT ![r] = d]
  BY OfCheck DEF ProofServed, CheckType
<1>3. c.seq \in 1..Len(s) /\ c.seq - 1 \in Nat
  <2>1. c.seq \in Nat /\ c.seq <= Len(s) /\ c.seq # 0
    BY <1>1 DEF CheckOK, Served, CheckType, Log
  <2> QED  BY <1>1, <2>1
<1>4. path \in AnswerSet
  <2>1. <<c.seq - 1, s>> \in Nat \X Seq(Nat)
    BY <1>1, <1>3
  <2>2. <<c.seq - 1, s>>[1] = c.seq - 1 /\ <<c.seq - 1, s>>[2] = s
    OBVIOUS
  <2> HIDE DEF s
  <2> QED  BY <2>1, <2>2, Zenon DEF AnswerSet
<1>5. /\ d \in CheckType /\ d.head = c.head /\ d.log = c.log /\ d.ref = c.ref /\ d.since = c.since
      /\ d.unbroken = c.unbroken /\ d.seq = c.seq /\ d.pc = "head" /\ d.size = Len(s)
      /\ d.proof = path
  <2>1. s[c.seq] \in Nat /\ Len(s) \in Nat
    BY <1>1, <1>3
  <2> HIDE DEF s, path
  <2> QED  BY <1>1, <1>4, <2>1 DEF CheckType
<1> HIDE DEF d
<1>6. Proven(d)
  <2>1. d.seq \in 1..d.size
    BY <1>3, <1>5
  <2>2. s \in Seq(Nat) /\ Len(s) = d.size /\ d.proof = InclusionProof(d.seq - 1, s)
    BY <1>1, <1>5
  <2> QED  BY <2>1, <2>2, Zenon DEF Proven
<1>7. Served(d, logs) /\ Compared(d, logs)
  <2>1. Served(c, logs) /\ Compared(c, logs)
    BY <1>1 DEF CheckOK
  <2> QED  BY <1>1, <1>5, <1>6, <2>1 DEF Served, Compared, Claims
<1>8. CheckOK(d, logs, written, rewrites)
  BY <1>1, <1>5, <1>7 DEF CheckOK
<1>9. Tells(r, d)
  BY <1>1 DEF Tells, PageType
<1>10. /\ witnessed' \in HeadType
       /\ witnessed' = NoHead \/ (HeadOK(witnessed', logs, rewrites) /\ witnessed'.leaves # <<>>)
  BY <1>1, OfCheck
<1> QED  BY <1>1, <1>2, <1>5, <1>8, <1>9, <1>10, CheckMoves

LEMMA HeadCheckedKeeps ==
  ASSUME ReceiptInv, NEW r \in DOMAIN checks, HeadChecked(r) PROVE ReceiptInv'
<1> DEFINE c == checks[r]
           older == witnessed # NoHead /\ Len(witnessed.leaves) < Len(c.head.leaves)
           d == IF ~c.signed THEN Ended(c)
                ELSE [c EXCEPT !.pc = IF older THEN "unbroken" ELSE "climb",
                               !.since = IF older THEN witnessed ELSE NoHead]
<1>1. /\ c \in CheckType /\ CheckOK(c, logs, written, rewrites) /\ c.pc = "head"
      /\ page \in PageType /\ witnessed \in HeadType /\ r \in Nat /\ UNCHANGED <<dialog, Service>>
      /\ page' = [page EXCEPT !.unbroken = "absent",
                              !.verdict = IF c.signed THEN @ ELSE "fail",
                              !.of = IF c.signed THEN @ ELSE r]
      /\ witnessed' = IF c.signed /\ witnessed = NoHead THEN c.head ELSE witnessed
  BY OfCheck DEF HeadChecked
<1>2. checks' = [checks EXCEPT ![r] = d]
  <2>1. CASE ~c.signed
    BY <2>1, FinishEnds DEF HeadChecked
  <2>2. CASE c.signed
    BY <2>2, OfCheck DEF HeadChecked, CheckType
  <2> QED  BY <2>1, <2>2
<1>3. /\ Served(c, logs) /\ Compared(c, logs) /\ c.head # NoHead /\ c.head.leaves # <<>>
      /\ HeadOK(c.head, logs, rewrites) /\ c.head \in HeadType
  <2>1. Served(c, logs) /\ Compared(c, logs) /\ (c.head = NoHead \/ HeadOK(c.head, logs, rewrites))
    BY <1>1 DEF CheckOK
  <2> QED  BY <1>1, <2>1 DEF Served, CheckType
<1>4. /\ witnessed' \in HeadType
      /\ witnessed' = NoHead \/ (HeadOK(witnessed', logs, rewrites) /\ witnessed'.leaves # <<>>)
  BY <1>1, <1>3, OfCheck
<1>5. d \in CheckType /\ CheckOK(d, logs, written, rewrites)
  <2>1. CASE ~c.signed
    BY <1>1, <2>1, EndedOK
  <2>2. CASE c.signed
    <3> DEFINE b == [c EXCEPT !.pc = IF older THEN "unbroken" ELSE "climb",
                              !.since = IF older THEN witnessed ELSE NoHead]
    <3>1. NoHead \in HeadType
      BY DEF NoHead, HeadType
    <3> HIDE DEF older
    <3>2. /\ b \in CheckType /\ b.head = c.head /\ b.log = c.log /\ b.ref = c.ref
          /\ b.since = (IF older THEN witnessed ELSE NoHead) /\ b.unbroken = c.unbroken
          /\ b.seq = c.seq /\ b.pc = (IF older THEN "unbroken" ELSE "climb")
          /\ b.size = c.size /\ b.proof = c.proof
      BY <1>1, <3>1 DEF CheckType
    <3> HIDE DEF b
    <3>3. Served(b, logs)
      <4>1. Proven(c) => Proven(b)
        BY <3>2, Zenon DEF Proven
      <4> QED  BY <1>1, <1>3, <3>2, <4>1 DEF Served
    <3>4. Compared(b, logs)
      <4>1. older => witnessed # NoHead /\ Len(witnessed.leaves) < Len(c.head.leaves)
                     /\ witnessed.leaves # <<>>
        BY OfCheck DEF older
      <4>2. b.unbroken = "absent"
        BY <1>1, <1>3, <3>2 DEF Compared
      <4> QED  BY <3>2, <4>1, <4>2 DEF Compared, Claims
    <3>5. CheckOK(b, logs, written, rewrites)
      BY <1>1, <3>2, <3>3, <3>4 DEF CheckOK
    <3> QED  BY <2>2, <3>2, <3>5, Zenon DEF b
  <2> QED  BY <2>1, <2>2
<1> HIDE DEF d
<1>6. Tells(r, d)
  <2>1. page' \in PageType
    BY <1>1 DEF PageType
  <2>2. page'.verdict = "pass" => page.verdict = "pass" /\ page'.of = page.of
    BY <1>1 DEF PageType
  <2> QED  BY <2>1, <2>2 DEF Tells
<1> QED  BY <1>1, <1>2, <1>4, <1>5, <1>6, CheckMoves

(* What is said of the log on the word of the verifier is so.              *)
LEMMA HoldsIsEarned ==
  ASSUME ReceiptInv, NEW r \in DOMAIN checks, checks[r].pc = "unbroken"
  PROVE  LET c == checks[r] IN
         IF Unbroken(c, Log(r)) THEN Extends(c.head.leaves, c.since.leaves)
         ELSE ~Extends(c.head.leaves, c.since.leaves) \/ ~Extends(Log(r), c.head.leaves)
<1> DEFINE c == checks[r]
           s == First(Log(r), Len(c.head.leaves))
           old == c.since.leaves
           new == c.head.leaves
<1>1. /\ c \in CheckType /\ CheckOK(c, logs, written, rewrites) /\ Log(r) \in Seq(Nat)
      /\ old \in Seq(Nat) /\ new \in Seq(Nat)
  BY OfCheck DEF CheckType, HeadType
<1>2. Len(new) <= Len(Log(r)) /\ old # <<>> /\ Len(old) < Len(new)
  <2>1. Served(c, logs) /\ Compared(c, logs) /\ (c.head = NoHead \/ HeadOK(c.head, logs, rewrites))
    BY <1>1 DEF CheckOK
  <2> QED  BY <2>1 DEF Served, Compared, HeadOK, Log
<1>3. s \in Seq(Nat) /\ Len(s) = Len(new) /\ First(s, Len(new)) = s
  BY <1>1, <1>2 DEF First
<1> HIDE DEF s
<1>4. Unbroken(c, Log(r)) <=>
        VerifyConsistencyProof(Len(old), Len(s), TreeHash(old), TreeHash(new),
          ConsistencyProof(Len(old), Len(s), s))
  <2>1. ConsistencyProof(Len(old), Len(new), Log(r)) = ConsistencyProof(Len(old), Len(new), s)
    BY <1>3, Zenon DEF ConsistencyProof, s
  <2> QED  BY <1>3, <2>1, Zenon DEF Unbroken
<1>5. Len(old) <= Len(s) /\ Len(new) = Len(s)
  BY <1>1, <1>2, <1>3
<1> HIDE DEF old, new
<1>6. /\ Unbroken(c, Log(r)) => First(new, Len(old)) = old
      /\ new = s /\ First(s, Len(old)) = old => Unbroken(c, Log(r))
  BY <1>1, <1>2, <1>3, <1>4, <1>5, ConsistencyIsDecided
<1>7. Extends(new, old) <=> First(new, Len(old)) = old
  BY <1>1, <1>2 DEF Extends
<1>8. Extends(Log(r), new) <=> s = new
  BY <1>1, <1>2 DEF Extends, s, new
<1> QED  BY <1>6, <1>7, <1>8 DEF old, new

LEMMA ConsistencyCheckedKeeps ==
  ASSUME ReceiptInv, NEW r \in DOMAIN checks, ConsistencyChecked(r) PROVE ReceiptInv'
<1> DEFINE c == checks[r]
           holds == Unbroken(c, Log(r))
<1>1. /\ c \in CheckType /\ CheckOK(c, logs, written, rewrites) /\ c.pc = "unbroken"
      /\ page \in PageType /\ r \in Nat /\ UNCHANGED <<witnessed, dialog, Service>>
  BY OfCheck DEF ConsistencyChecked
<1>2. Served(c, logs) /\ Compared(c, logs)
  BY <1>1 DEF CheckOK
<1>3. /\ witnessed' \in HeadType
      /\ witnessed' = NoHead \/ (HeadOK(witnessed', logs, rewrites) /\ witnessed'.leaves # <<>>)
  BY <1>1, OfCheck
<1>4. CASE checks' = [checks EXCEPT ![r].pc = "climb"] /\ UNCHANGED page
  <2> DEFINE d == [c EXCEPT !.pc = "climb"]
  <2>1. checks' = [checks EXCEPT ![r] = d]
    BY <1>4, OfCheck DEF CheckType
  <2>2. /\ d \in CheckType /\ d.head = c.head /\ d.log = c.log /\ d.ref = c.ref
        /\ d.since = c.since /\ d.unbroken = c.unbroken /\ d.seq = c.seq /\ d.pc = "climb"
        /\ d.size = c.size /\ d.proof = c.proof
    BY <1>1 DEF CheckType
  <2> HIDE DEF d
  <2>3. Served(d, logs)
    <3>1. Proven(c) => Proven(d)
      BY <2>2, Zenon DEF Proven
    <3> QED  BY <1>1, <1>2, <2>2, <3>1 DEF Served
  <2>4. Compared(d, logs)
    BY <1>1, <1>2, <2>2 DEF Compared, Claims
  <2>5. CheckOK(d, logs, written, rewrites)
    BY <1>1, <2>2, <2>3, <2>4 DEF CheckOK
  <2>6. Tells(r, d)
    BY <1>1, <1>4 DEF Tells
  <2> QED  BY <1>1, <1>3, <2>1, <2>2, <2>5, <2>6, CheckMoves
<1>5. CASE /\ checks' = [checks EXCEPT ![r].pc = IF holds THEN "climb" ELSE "done",
                                      ![r].unbroken = IF holds THEN "holds" ELSE "broken"]
           /\ page' = [page EXCEPT !.unbroken = IF holds THEN "holds" ELSE "broken",
                                   !.verdict = IF holds THEN @ ELSE "fail",
                                   !.of = IF holds THEN @ ELSE r]
  <2> DEFINE d == [c EXCEPT !.pc = IF holds THEN "climb" ELSE "done",
                            !.unbroken = IF holds THEN "holds" ELSE "broken"]
  <2>0. IF holds THEN Extends(c.head.leaves, c.since.leaves)
        ELSE ~Extends(c.head.leaves, c.since.leaves) \/ ~Extends(Log(r), c.head.leaves)
    BY <1>1, HoldsIsEarned
  <2> HIDE DEF holds
  <2>1. checks' = [checks EXCEPT ![r] = d]
    BY <1>5, OfCheck DEF CheckType
  <2>2. /\ d \in CheckType /\ d.head = c.head /\ d.log = c.log /\ d.ref = c.ref
        /\ d.since = c.since /\ d.unbroken = (IF holds THEN "holds" ELSE "broken")
        /\ d.seq = c.seq /\ d.pc = (IF holds THEN "climb" ELSE "done")
        /\ d.size = c.size /\ d.proof = c.proof
    BY <1>1 DEF CheckType
  <2> HIDE DEF d
  <2>3. Served(d, logs)
    <3>1. Proven(c) => Proven(d)
      BY <2>2, Zenon DEF Proven
    <3> QED  BY <1>1, <1>2, <2>2, <3>1 DEF Served
  <2>4. Compared(d, logs)
    <3>1. c.since # NoHead /\ c.head # NoHead
      BY <1>1, <1>2 DEF Compared, Served
    <3>2. Claims(d, logs)
      BY <2>0, <2>2, <3>1 DEF Claims, Log
    <3> QED  BY <1>2, <2>2, <3>1, <3>2 DEF Compared
  <2>5. CheckOK(d, logs, written, rewrites)
    BY <1>1, <2>2, <2>3, <2>4 DEF CheckOK
  <2>6. Tells(r, d)
    <3>1. page' \in PageType
      BY <1>1, <1>5 DEF PageType
    <3>2. page'.verdict = "pass" => page.verdict = "pass" /\ page'.of = page.of
      BY <1>1, <1>5 DEF PageType
    <3> QED  BY <3>1, <3>2 DEF Tells
  <2> QED  BY <1>1, <1>3, <2>1, <2>2, <2>5, <2>6, CheckMoves
<1> QED  BY <1>4, <1>5 DEF ConsistencyChecked

(* A walk that lands on the root of a head walked from the record that the *)
(* head has there.                                                         *)
LEMMA LandsOnTheRecord ==
  ASSUME NEW record, NEW s \in Seq(Nat), NEW h \in Seq(Nat), NEW n \in 1..Len(s),
         TreeHash(Altered(s, n - 1, record)) = TreeHash(h)
  PROVE  n \in DOMAIN h /\ h[n] = record
<1> DEFINE t == Altered(s, n - 1, record)
<1>1. Len(t) = Len(s) /\ t[n] = record /\ Len(s) \in Nat /\ Len(h) \in Nat /\ 0 \in Nat
  BY DEF Altered
<1> HIDE DEF t
<1>2. Hashes(t)[Len(t)][0] = Hashes(h)[Len(h)][0]
  BY Zenon DEF TreeHash, t
<1>3. Len(t) = Len(h) /\ Alike(t, 0, h, 0, Len(t))
  BY <1>1, <1>2, SameHash, ZenonT(40)
<1> QED  BY <1>1, <1>3 DEF Alike

LEMMA LandsIsEarned ==
  ASSUME ReceiptInv, NEW r \in DOMAIN checks, checks[r].pc = "climb",
         LET c == checks[r]
             climb == ClimbToRoot(RecordHash(c.ref, c.tamper), c.seq - 1, c.size, c.proof)
         IN  climb.complete /\ climb.root = TreeHash(c.head.leaves)
  PROVE  Earned(checks[r])
<1> DEFINE c == checks[r]
           record == RecordHash(c.ref, c.tamper)
           h == c.head.leaves
<1>1. /\ c \in CheckType /\ CheckOK(c, logs, written, rewrites) /\ h \in Seq(Nat)
      /\ c.ref \in Nat \ {0} /\ c.tamper \in BOOLEAN
  <2>1. /\ c \in CheckType /\ CheckOK(c, logs, written, rewrites) /\ written \in Nat
    BY OfCheck DEF ReceiptInv, ReceiptTyped
  <2> QED  BY <2>1 DEF CheckType, HeadType, CheckOK
<1>2. PICK s \in Seq(Nat) : Len(s) = c.size /\ c.proof = InclusionProof(c.seq - 1, s)
  BY <1>1 DEF CheckOK, Served, Proven
<1>3. c.seq \in 1..Len(s) /\ c.seq - 1 \in Nat /\ c.seq - 1 < Len(s)
  <2>1. c.seq \in 1..c.size
    BY <1>1 DEF CheckOK, Served, Proven
  <2> QED  BY <1>2, <2>1
<1>4. ClimbToRoot(record, c.seq - 1, c.size, c.proof)
        = [root |-> TreeHash(Altered(s, c.seq - 1, record)), complete |-> TRUE]
  <2>1. ClimbToRoot(record, c.seq - 1, Len(s), InclusionProof(c.seq - 1, s))
        = [root |-> TreeHash(Altered(s, c.seq - 1, record)), complete |-> TRUE]
    BY <1>3, WalkReachesTheRoot
  <2> QED  BY <1>2, <2>1, Zenon
<1>5. TreeHash(Altered(s, c.seq - 1, record)) = TreeHash(h)
  <2>1. ClimbToRoot(record, c.seq - 1, c.size, c.proof).root = TreeHash(h)
    OBVIOUS
  <2> HIDE DEF record, h, c
  <2> QED  BY <1>4, <2>1
<1>6. c.seq \in DOMAIN h /\ h[c.seq] = record
  <2> HIDE DEF record, h
  <2> QED  BY <1>1, <1>3, <1>5, LandsOnTheRecord
<1>7. h[c.seq] \in Nat
  BY <1>1, <1>6
<1>8. ~c.tamper /\ h[c.seq] = c.ref
  BY <1>1, <1>6, <1>7 DEF RecordHash
<1> QED  BY <1>6, <1>8 DEF Earned

LEMMA ClimbKeeps ==
  ASSUME ReceiptInv, NEW r \in DOMAIN checks, Climb(r) PROVE ReceiptInv'
<1> DEFINE c == checks[r]
           climb == ClimbToRoot(RecordHash(c.ref, c.tamper), c.seq - 1, c.size, c.proof)
           lands == climb.complete /\ climb.root = TreeHash(c.head.leaves)
           d == Ended(c)
<1>1. /\ c \in CheckType /\ CheckOK(c, logs, written, rewrites) /\ c.pc = "climb"
      /\ page \in PageType /\ r \in Nat /\ UNCHANGED <<witnessed, dialog, Service>>
      /\ page' = [page EXCEPT !.unbroken = c.unbroken, !.of = r,
                              !.verdict = IF lands THEN "pass" ELSE "fail"]
      /\ checks' = [checks EXCEPT ![r] = d]
  BY OfCheck, FinishEnds DEF Climb
<1>2. d \in CheckType /\ CheckOK(d, logs, written, rewrites) /\ d.pc = "done"
      /\ (Earned(c) <=> Earned(d))
  BY <1>1, EndedOK
<1>3. lands => Earned(c)
  BY <1>1, LandsIsEarned
<1> HIDE DEF lands, d
<1>4. Tells(r, d)
  <2>1. page' \in PageType /\ page'.of = r /\ (page'.verdict = "pass" => lands)
    BY <1>1 DEF PageType, CheckType
  <2> QED  BY <1>2, <1>3, <2>1 DEF Tells
<1>5. /\ witnessed' \in HeadType
      /\ witnessed' = NoHead \/ (HeadOK(witnessed', logs, rewrites) /\ witnessed'.leaves # <<>>)
  BY <1>1, OfCheck
<1> QED  BY <1>1, <1>2, <1>4, <1>5, CheckMoves
-----------------------------------------------------------------------------
(* The visitor.                                                            *)

LEMMA RunKeepsReceipts ==
  ASSUME ReceiptInv, NEW ref \in 1..written, NEW tamper \in BOOLEAN, RunCheck(ref, tamper),
         dialog' \in [ref : Nat, tampered : BOOLEAN], dialog'.ref <= written,
         UNCHANGED <<witnessed, Service>>
  PROVE  ReceiptInv'
<1>1. /\ MaxLogged \in Nat /\ written \in 0..MaxLogged /\ logs \in Seq(Seq(Nat)) /\ logs # <<>>
      /\ checks \in Seq(CheckType) /\ page \in PageType
      /\ UNCHANGED <<witnessed, logs, written, rewrites>>
  BY DEF ReceiptInv, ReceiptTyped, Service
<1> DEFINE n == Len(checks) + 1
           c == [pc |-> "asked", log |-> Len(logs), ref |-> ref, tamper |-> tamper,
                 head |-> NoHead, signed |-> FALSE, seq |-> 0, listed |-> FALSE,
                 proof |-> <<>>, size |-> 0, leaf |-> 0, since |-> NoHead, unbroken |-> "absent"]
<1>2. checks' = Append(checks, c) /\ page' = Unchecked(page.record)
  BY DEF RunCheck
<1>3. Len(logs) \in 1..Len(logs) /\ logs[Len(logs)] \in Seq(Nat)
  BY <1>1
<1>4. c \in CheckType
  BY <1>1, <1>3 DEF CheckType, NoHead, HeadType, AnswerSet
<1>5. CheckOK(c, logs, written, rewrites)
  <2>1. Served(c, logs)
    BY <1>3 DEF Served
  <2>2. Compared(c, logs)
    BY DEF Compared, Claims
  <2> QED  BY <1>1, <1>3, <2>1, <2>2 DEF CheckOK
<1> HIDE DEF c
<1>6. /\ checks' \in Seq(CheckType) /\ Len(checks') = n /\ checks'[n] = c
      /\ \A q \in 1..Len(checks) : checks'[q] = checks[q]
      /\ DOMAIN checks' = 1..n /\ DOMAIN checks = 1..Len(checks)
  BY <1>1, <1>2, <1>4
<1>7. ASSUME NEW q \in DOMAIN checks' PROVE CheckOK(checks'[q], logs, written, rewrites)
  <2>1. q \in 1..Len(checks) \/ q = n
    BY <1>1, <1>6
  <2>2. CASE q \in 1..Len(checks)
    BY <1>6, <2>2, Zenon DEF ReceiptInv
  <2>3. CASE q = n
    BY <1>5, <1>6, <2>3, Zenon
  <2> QED  BY <2>1, <2>2, <2>3
<1>8. page' \in PageType /\ page'.verdict = "none"
  BY <1>1, <1>2 DEF PageType, Unchecked
<1>9. ReceiptTyped'
  BY <1>1, <1>6, <1>8 DEF ReceiptInv, ReceiptTyped
<1> QED  BY <1>1, <1>7, <1>8, <1>9 DEF ReceiptInv

LEMMA OpenKeeps == ASSUME ReceiptInv, NEW ref \in 1..written, Open(ref) PROVE ReceiptInv'
<1>1. RunCheck(ref, FALSE) /\ UNCHANGED <<witnessed, Service>>
  BY DEF Open
<1>2. dialog' \in [ref : Nat, tampered : BOOLEAN] /\ dialog'.ref <= written
  BY DEF Open, ReceiptInv, ReceiptTyped
<1> QED  BY <1>1, <1>2, RunKeepsReceipts

LEMMA CloseKeeps == ASSUME ReceiptInv, CloseDialog PROVE ReceiptInv'
<1>1. /\ dialog' = [dialog EXCEPT !.ref = 0]
      /\ UNCHANGED <<witnessed, checks, page, logs, written, rewrites>>
  BY DEF CloseDialog, Closed, Service
<1>2. ReceiptTyped'
  <2>1. ReceiptTyped /\ dialog \in [ref : Nat, tampered : BOOLEAN] /\ written \in Nat
    BY DEF ReceiptInv, ReceiptTyped
  <2>2. dialog' \in [ref : Nat, tampered : BOOLEAN] /\ dialog'.ref <= written
    BY <1>1, <2>1
  <2> QED  BY <1>1, <2>1, <2>2 DEF ReceiptTyped
<1> QED  BY <1>1, <1>2 DEF ReceiptInv

LEMMA EditKeeps == ASSUME ReceiptInv, Edit PROVE ReceiptInv'
<1>1. /\ RunCheck(dialog.ref, ~dialog.tampered) /\ UNCHANGED <<witnessed, Service>>
      /\ dialog.ref # 0 /\ dialog' = [dialog EXCEPT !.tampered = ~@]
  BY DEF Edit, Closed
<1>2. /\ dialog \in [ref : Nat, tampered : BOOLEAN] /\ dialog.ref <= written /\ written \in Nat
  BY DEF ReceiptInv, ReceiptTyped
<1>3. dialog.ref \in 1..written /\ (~dialog.tampered) \in BOOLEAN
  BY <1>1, <1>2
<1>4. dialog' \in [ref : Nat, tampered : BOOLEAN] /\ dialog'.ref <= written
  BY <1>1, <1>2
<1> QED  BY <1>1, <1>3, <1>4, RunKeepsReceipts

LEMMA ReceiptStep == ReceiptInv /\ [ReceiptNext]_receiptVars => ReceiptInv'
<1> SUFFICES ASSUME ReceiptInv, [ReceiptNext]_receiptVars PROVE ReceiptInv'
  OBVIOUS
<1>1. ASSUME NEW ref \in 1..written, Open(ref) PROVE ReceiptInv'
  BY <1>1, OpenKeeps
<1>2. CASE CloseDialog
  BY <1>2, CloseKeeps
<1>3. CASE Edit
  BY <1>3, EditKeeps
<1>4. CASE StartOver
  BY <1>4, StartOverKeeps
<1>5. CASE AppendRecord
  BY <1>5, AppendKeepsReceipts
<1>6. ASSUME NEW j \in DOMAIN logs[Len(logs)], Rewrite(j) PROVE ReceiptInv'
  BY <1>6, RewriteKeeps
<1>7. ASSUME NEW r \in DOMAIN checks,
             \/ HeadServed(r) \/ ListServed(r) \/ Unanswered(r) \/ ProofServed(r)
             \/ HeadChecked(r) \/ ConsistencyChecked(r) \/ Climb(r)
      PROVE  ReceiptInv'
  BY <1>7, HeadServedKeeps, ListServedKeeps, UnansweredKeeps, ProofServedKeeps,
     HeadCheckedKeeps, ConsistencyCheckedKeeps, ClimbKeeps
<1>8. CASE UNCHANGED receiptVars
  <2>1. UNCHANGED <<logs, witnessed, dialog, checks, page, written, rewrites>>
    BY <1>8 DEF receiptVars
  <2> QED  BY <2>1 DEF ReceiptInv, ReceiptTyped
<1> QED  BY <1>1, <1>2, <1>3, <1>4, <1>5, <1>6, <1>7, <1>8 DEF ReceiptNext

(* What the dialog says of a receipt is so of the head that the log signed *)
(* for it, and what it says of the log is so of what this page saw of it,  *)
(* however many records are added or rewritten while checks are under way, *)
(* answered late or crossed by others (ReceiptVerifier.tsx).               *)
THEOREM ReceiptsAreEarned == ReceiptSpec => []ChecksAreEarned
<1>1. ReceiptInv => ChecksAreEarned
  <2> SUFFICES ASSUME ReceiptInv PROVE ChecksAreEarned
    OBVIOUS
  <2>1. VerifiedIsLogged
    BY Zenon DEF ReceiptInv, VerifiedIsLogged, Earned
  <2>2. ASSUME NEW r \in DOMAIN checks PROVE Claims(checks[r], logs)
    BY DEF ReceiptInv, CheckOK, Compared
  <2>3. UnbrokenIsEarned
    BY <2>2, Zenon DEF UnbrokenIsEarned, Claims, Log
  <2> QED  BY <2>1, <2>3 DEF ChecksAreEarned
<1> QED  BY <1>1, ReceiptsBegin, ReceiptStep, PTL DEF ReceiptSpec

ReceiptBounds == rewrites <= MaxRewrites /\ Len(logs) <= MaxSessions /\ Len(checks) <= MaxChecks

LEMMA ReceiptBoundsStep ==
  ReceiptInv /\ ReceiptBounds /\ [ReceiptNext]_receiptVars => ReceiptBounds'
<1> SUFFICES ASSUME ReceiptInv, ReceiptBounds, [ReceiptNext]_receiptVars PROVE ReceiptBounds'
  OBVIOUS
<1>1. /\ rewrites \in Nat /\ logs \in Seq(Seq(Nat)) /\ logs # <<>> /\ checks \in Seq(CheckType)
      /\ written \in Nat
  BY DEF ReceiptInv, ReceiptTyped
<1> USE DEF ReceiptBounds
<1>2. UNCHANGED <<rewrites, logs>> /\ Len(checks') <= MaxChecks => ReceiptBounds'
  OBVIOUS
<1>3. ASSUME NEW ref, NEW tamper, RunCheck(ref, tamper) PROVE Len(checks') <= MaxChecks
  BY <1>1, <1>3, ReceiptAssumption DEF RunCheck
<1>4. CASE (\E ref \in 1..written : Open(ref)) \/ Edit
  BY <1>2, <1>3, <1>4 DEF Open, Edit, Service
<1>5. CASE CloseDialog
  BY <1>5 DEF CloseDialog, Service
<1>6. CASE StartOver
  BY <1>1, <1>6, ReceiptAssumption DEF StartOver
<1>7. CASE AppendRecord
  BY <1>1, <1>7 DEF AppendRecord
<1>8. ASSUME NEW j \in DOMAIN logs[Len(logs)], Rewrite(j) PROVE ReceiptBounds'
  BY <1>1, <1>8, ReceiptAssumption DEF Rewrite
<1>9. ASSUME NEW r \in DOMAIN checks,
             \/ HeadServed(r) \/ ListServed(r) \/ Unanswered(r) \/ ProofServed(r)
             \/ HeadChecked(r) \/ ConsistencyChecked(r) \/ Climb(r)
      PROVE  ReceiptBounds'
  <2>1. \A f : Len([checks EXCEPT ![r] = f]) = Len(checks)
    BY <1>1
  <2>2. Len(checks') = Len(checks)
    <3>1. CASE HeadServed(r)
      BY <2>1, <3>1, Zenon DEF HeadServed
    <3>2. CASE ListServed(r)
      BY <2>1, <3>2, Zenon DEF ListServed
    <3>3. CASE ProofServed(r)
      BY <1>1, <3>3 DEF ProofServed
    <3>4. CASE Unanswered(r) \/ Climb(r)
      BY <2>1, <3>4, FinishEnds DEF Unanswered, Climb
    <3>5. CASE HeadChecked(r)
      BY <1>1, <2>1, <3>5, FinishEnds DEF HeadChecked
    <3>6. CASE ConsistencyChecked(r)
      BY <1>1, <3>6 DEF ConsistencyChecked
    <3> QED  BY <1>9, <3>1, <3>2, <3>3, <3>4, <3>5, <3>6
  <2>3. UNCHANGED Service
    BY <1>9, Zenon DEF HeadServed, ListServed, Unanswered, ProofServed, HeadChecked,
       ConsistencyChecked, Climb
  <2> QED  BY <2>2, <2>3 DEF Service
<1>10. CASE UNCHANGED receiptVars
  BY <1>10 DEF receiptVars
<1> QED  BY <1>4, <1>5, <1>6, <1>7, <1>8, <1>9, <1>10 DEF ReceiptNext

(* The dialog's state has its type: the position a receipt is looked up    *)
(* at is one in the logs, none of which has more records than were written *)
(* (ReceiptVerifier.tsx).                                                  *)
THEOREM ReceiptsTyped == ReceiptSpec => []ReceiptTypes
<1>1. ReceiptInit => ReceiptBounds
  BY ReceiptAssumption DEF ReceiptInit, ReceiptBounds
<1>2. ReceiptInv /\ ReceiptBounds => ReceiptTypes
  <2> SUFFICES ASSUME ReceiptInv, ReceiptBounds PROVE ReceiptTypes
    OBVIOUS
  <2>1. ASSUME NEW r \in DOMAIN checks PROVE checks[r].seq \in 0..MaxLogged
    <3>1. checks[r].seq \in Nat /\ checks[r].seq <= Len(Log(r)) /\ Log(r) \in Seq(Nat)
      BY OfCheck DEF CheckType, CheckOK, Served, Log
    <3>2. Len(Log(r)) <= written /\ written \in 0..MaxLogged
      <4>1. checks[r].log \in 1..Len(logs)
        BY OfCheck DEF ReceiptInv, ReceiptTyped
      <4> QED  BY <4>1 DEF ReceiptInv, ReceiptTyped, LogsOK, Log
    <3> QED  BY <3>1, <3>2, ReceiptAssumption
  <2>2. /\ written \in 0..MaxLogged /\ rewrites \in 0..MaxRewrites
        /\ Len(logs) \in 1..MaxSessions /\ Len(checks) <= MaxChecks
    BY ReceiptAssumption DEF ReceiptInv, ReceiptTyped, ReceiptBounds
  <2>3. page \in PageType
    BY DEF ReceiptInv, ReceiptTyped
  <2> QED  BY <2>1, <2>2, <2>3 DEF ReceiptTypes, PageType
<1> QED  BY <1>1, <1>2, ReceiptsBegin, ReceiptStep, ReceiptBoundsStep, PTL DEF ReceiptSpec
=============================================================================
