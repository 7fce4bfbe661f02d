--------------------------- MODULE OperatorProofs --------------------------
(***************************************************************************)
(* Facts about the operators the models share.  Money: what adding,        *)
(* removing or changing an account does to a total.  Lattice: the result   *)
(* of combining verdicts is one of those given and none outranks it, so    *)
(* ALLOW means every clause allowed ("rules fail closed",                  *)
(* gateway/lattice.py).  And the least-number principle, which is how the  *)
(* proofs go by induction.                                                 *)
(***************************************************************************)
EXTENDS Money, Lattice, FiniteSetTheorems, WellFoundedInduction, TLAPS

(* The units one account holds are as many as its amount.                  *)
LEMMA UnitsOfOne ==
  ASSUME NEW x, NEW n \in Nat
  PROVE  /\ IsFiniteSet({x} \X (1 .. n))
         /\ Cardinality({x} \X (1 .. n)) = n
<1>1. IsFiniteSet({x}) /\ Cardinality({x}) = 1
  BY FS_Singleton
<1>2. IsFiniteSet(1 .. n) /\ Cardinality(1 .. n) = n
  BY FS_Interval
<1>3. /\ IsFiniteSet({x} \X (1 .. n))
      /\ Cardinality({x} \X (1 .. n)) = Cardinality({x}) * Cardinality(1 .. n)
  BY <1>1, <1>2, FS_Product
<1> QED  BY <1>1, <1>2, <1>3

(* Finitely many accounts hold finitely many units.                        *)
LEMMA UnitsFinite ==
  ASSUME NEW S, IsFiniteSet(S), NEW amount,
         \A x \in S : amount[x] \in Nat
  PROVE  IsFiniteSet(Units(S, amount)) /\ Total(S, amount) \in Nat
<1> DEFINE T == {{x} \X (1 .. amount[x]) : x \in S}
           f == [x \in S |-> {x} \X (1 .. amount[x])]
<1>1. f \in Surjection(S, T)
  BY DEF Surjection
<1>2. IsFiniteSet(T)
  BY <1>1, FS_Surjection
<1>3. ASSUME NEW U \in T
      PROVE  IsFiniteSet(U)
  <2>1. PICK x \in S : U = {x} \X (1 .. amount[x])
    BY <1>3
  <2>2. amount[x] \in Nat
    OBVIOUS
  <2> QED  BY <2>1, <2>2, UnitsOfOne
<1>4. IsFiniteSet(UNION T)
  BY <1>2, <1>3, FS_UNION
<1>5. IsFiniteSet(Units(S, amount))
  BY <1>4 DEF Units
<1> QED  BY <1>5, FS_CardinalityType DEF Total

(* A new account adds its amount.                                          *)
LEMMA TotalAdd ==
  ASSUME NEW S, IsFiniteSet(S), NEW amount, NEW y, y \notin S,
         \A x \in S \cup {y} : amount[x] \in Nat
  PROVE  Total(S \cup {y}, amount) = Total(S, amount) + amount[y]
<1> DEFINE U == Units(S, amount)
           Y == {y} \X (1 .. amount[y])
<1>1. Units(S \cup {y}, amount) = U \cup Y
  BY DEF Units
<1>2. U \cap Y = {}
  BY DEF Units
<1>3. IsFiniteSet(U) /\ Cardinality(U) \in Nat
  BY UnitsFinite DEF Total
<1>4. IsFiniteSet(Y) /\ Cardinality(Y) = amount[y]
  BY UnitsOfOne
<1>5. Cardinality(U \cup Y) = Cardinality(U) + Cardinality(Y) - Cardinality(U \cap Y)
  BY <1>3, <1>4, FS_Union
<1>6. Cardinality(U \cap Y) = 0
  BY <1>2, FS_EmptySet
<1>7. amount[y] \in Nat
  OBVIOUS
<1>8. Cardinality(U \cup Y) = Cardinality(U) + amount[y]
  <2> HIDE DEF U, Y
  <2> QED  BY <1>3, <1>4, <1>5, <1>6, <1>7
<1> QED  BY <1>1, <1>8 DEF Total

(* Fewer accounts hold no more.                                            *)
LEMMA TotalMonotone ==
  ASSUME NEW S, IsFiniteSet(S), NEW T \in SUBSET S, NEW amount,
         \A x \in S : amount[x] \in Nat
  PROVE  Total(T, amount) <= Total(S, amount)
<1>1. Units(T, amount) \subseteq Units(S, amount)
  BY DEF Units
<1>2. IsFiniteSet(Units(S, amount))
  BY UnitsFinite
<1> QED  BY <1>1, <1>2, FS_Subset DEF Total

(* Only the amounts of the accounts summed matter.                         *)
LEMMA TotalSame ==
  ASSUME NEW S, NEW a, NEW b, \A x \in S : a[x] = b[x]
  PROVE  Total(S, a) = Total(S, b)
BY DEF Total, Units

(* Accounts that are each covered by an account of their own hold no more  *)
(* than those that cover them.                                             *)
LEMMA TotalCovered ==
  ASSUME NEW S, NEW T, IsFiniteSet(T), NEW a, NEW b,
         NEW h \in Injection(S, T),
         \A y \in T : b[y] \in Nat,
         \A x \in S : a[x] \in Nat /\ a[x] <= b[h[x]]
  PROVE  Total(S, a) <= Total(T, b)
<1> DEFINE f == [u \in Units(S, a) |-> <<h[u[1]], u[2]>>]
<1>1. ASSUME NEW u \in Units(S, a)
      PROVE  /\ u = <<u[1], u[2]>> /\ u[1] \in S /\ u[2] \in 1 .. a[u[1]]
             /\ f[u] = <<h[u[1]], u[2]>>
  BY DEF Units
<1>2. \A x \in S : h[x] \in T
  BY DEF Injection, IsInjective
<1>3. \A x, y \in S : h[x] = h[y] => x = y
  BY DEF Injection, IsInjective
<1>4. ASSUME NEW u \in Units(S, a)
      PROVE  f[u] \in Units(T, b)
  <2>0. /\ h[u[1]] \in T /\ a[u[1]] \in Nat /\ b[h[u[1]]] \in Nat
        /\ a[u[1]] <= b[h[u[1]]] /\ u[2] \in 1 .. a[u[1]]
    BY <1>1, <1>2
  <2> HIDE DEF f
  <2>1. h[u[1]] \in T /\ u[2] \in 1 .. b[h[u[1]]]
    BY <2>0
  <2> QED  BY <1>1, <2>1 DEF Units
<1>5. ASSUME NEW u \in Units(S, a), NEW w \in Units(S, a), f[u] = f[w]
      PROVE  u = w
  <2>1. <<h[u[1]], u[2]>> = <<h[w[1]], w[2]>>
    BY <1>1, <1>5
  <2>2. u[1] \in S /\ w[1] \in S /\ u = <<u[1], u[2]>> /\ w = <<w[1], w[2]>>
    BY <1>1
  <2>3. u[1] = w[1] /\ u[2] = w[2]
    BY <1>3, <2>1, <2>2
  <2> QED  BY <2>2, <2>3
<1>6. f \in Injection(Units(S, a), Units(T, b))
  BY <1>4, <1>5 DEF Injection, IsInjective
<1>7. IsFiniteSet(Units(T, b))
  BY UnitsFinite
<1> QED  BY <1>6, <1>7, FS_Injection DEF Total

(* Changing one account changes the total by as much.                      *)
LEMMA TotalUpdate ==
  ASSUME NEW S, IsFiniteSet(S), NEW y \in S, NEW a, NEW b,
         \A x \in S : a[x] \in Nat /\ b[x] \in Nat,
         \A x \in S : x # y => b[x] = a[x]
  PROVE  /\ Total(S, a) \in Nat /\ Total(S, b) \in Nat
         /\ Total(S, b) + a[y] = Total(S, a) + b[y]
<1> DEFINE R == S \ {y}
<1>1. /\ IsFiniteSet(R) /\ y \notin R /\ S = R \cup {y}
      /\ \A x \in R \cup {y} : a[x] \in Nat /\ b[x] \in Nat
  BY FS_Subset
<1> HIDE DEF R
<1>2. ASSUME NEW c, \A x \in R \cup {y} : c[x] \in Nat
      PROVE  Total(R \cup {y}, c) = Total(R, c) + c[y]
  BY <1>1, <1>2, TotalAdd
<1>3. /\ Total(R \cup {y}, a) = Total(R, a) + a[y]
      /\ Total(R \cup {y}, b) = Total(R, b) + b[y]
  BY <1>1, <1>2
<1>4. Total(R, a) = Total(R, b) /\ Total(R, a) \in Nat
  <2>1. \A x \in R : a[x] = b[x] /\ a[x] \in Nat
    BY DEF R
  <2> QED  BY <1>1, <2>1, TotalSame, UnitsFinite
<1>5. a[y] \in Nat /\ b[y] \in Nat
  OBVIOUS
<1>6. Total(S, a) = Total(R, a) + a[y] /\ Total(S, b) = Total(R, b) + b[y]
  BY <1>1, <1>2, <1>3
<1> QED  BY <1>4, <1>5, <1>6

(* Accounts that hold nothing.                                             *)
LEMMA TotalNothing ==
  ASSUME NEW S, NEW a, \A x \in S : a[x] = 0
  PROVE  Total(S, a) = 0
<1>1. \A x \in S : 1 .. a[x] = {}
  OBVIOUS
<1>2. Units(S, a) = {}
  BY <1>1 DEF Units
<1> QED  BY <1>2, FS_EmptySet DEF Total

(* Accounts that each hold no more.                                        *)
LEMMA TotalLess ==
  ASSUME NEW S, IsFiniteSet(S), NEW a, NEW b,
         \A x \in S : a[x] \in Nat /\ b[x] \in Nat /\ a[x] <= b[x]
  PROVE  Total(S, a) <= Total(S, b)
<1> DEFINE h == [x \in S |-> x]
<1>1. h \in Injection(S, S)
  BY DEF Injection, IsInjective
<1>2. \A x \in S : h[x] = x
  OBVIOUS
<1> HIDE DEF h
<1> QED  BY <1>1, <1>2, TotalCovered

-----------------------------------------------------------------------------
LEMMA RankValues ==
  Rank["ALLOW"] = 0 /\ Rank["UNKNOWN"] = 1 /\ Rank["DENY"] = 2
BY DEF Rank, Verdict

(* Some verdict of a non-empty set is not outranked.                       *)
LEMMA StrictestExists ==
  ASSUME NEW results \in SUBSET Verdict, results # {}
  PROVE  \E v \in results : \A w \in results : Rank[w] <= Rank[v]
<1>1. CASE "DENY" \in results
  BY <1>1, RankValues DEF Verdict
<1>2. CASE "DENY" \notin results /\ "UNKNOWN" \in results
  BY <1>2, RankValues DEF Verdict
<1>3. CASE "DENY" \notin results /\ "UNKNOWN" \notin results
  <2>1. results = {"ALLOW"}
    BY <1>3 DEF Verdict
  <2> QED  BY <2>1, RankValues
<1> QED  BY <1>1, <1>2, <1>3

(* combine returns the strictest verdict it was given.                     *)
LEMMA CombineStrictest ==
  ASSUME NEW results \in SUBSET Verdict, results # {}
  PROVE  /\ Combine(results) \in results
         /\ \A w \in results : Rank[w] <= Rank[Combine(results)]
BY StrictestExists DEF Combine

(* Fail closed: an ALLOW needs every clause to allow.                      *)
THEOREM CombineFailsClosed ==
  ASSUME NEW results \in SUBSET Verdict, Combine(results) = "ALLOW"
  PROVE  results \subseteq {"ALLOW"}
<1>1. CASE results = {}
  BY <1>1
<1>2. CASE results # {}
  <2>1. \A w \in results : Rank[w] <= Rank["ALLOW"]
    BY <1>2, CombineStrictest
  <2> QED  BY <2>1, RankValues DEF Verdict
<1> QED  BY <1>1, <1>2

(* The result is a verdict.                                                *)
LEMMA CombineType ==
  ASSUME NEW results \in SUBSET Verdict
  PROVE  Combine(results) \in Verdict
<1>1. CASE results = {}
  BY <1>1 DEF Combine, Verdict
<1>2. CASE results # {}
  BY <1>2, CombineStrictest
<1> QED  BY <1>1, <1>2

-----------------------------------------------------------------------------
(* A set of naturals has a least element.                                  *)
LEMMA LeastNat ==
  ASSUME NEW T \in SUBSET Nat, T # {}
  PROVE  \E n \in T : \A m \in T : n <= m
<1> DEFINE R == {ss \in Nat \X Nat : ss[1] < ss[2]}
<1>1. IsWellFoundedOn(R, Nat)
  BY NatLessThanWellFounded, Zenon DEF OpToRel
<1>2. PICK n \in T : \A m \in T : ~(<<m, n>> \in R)
  <2> HIDE DEF R
  <2> QED  BY <1>1, WFMin
<1>3. \A m \in T : ~(m < n)
  BY <1>2
<1> QED  BY <1>3
=============================================================================
