----------------------------- MODULE Recursion ------------------------------
(***************************************************************************)
(* Recursive functions on the naturals, F[n] given by F below n and two    *)
(* parameters.  The provers take no operator as an argument of a theorem; *)
(* it is an argument of this module, and whoever needs the theorem takes   *)
(* an instance with the body of the recursion.                             *)
(***************************************************************************)
EXTENDS Integers, OperatorProofs

CONSTANT Body(_, _, _, _)

(* Any two functions on the same beginning agree there, there is one on    *)
(* every beginning, and together they are the function on all of Nat.      *)
THEOREM RecursiveFunction ==
  ASSUME NEW p, NEW q,
         \A n \in Nat : \A f, g :
           (\A i \in 0..(n - 1) : f[i] = g[i]) => Body(p, q, f, n) = Body(p, q, g, n)
  PROVE  \E F : F = [n \in Nat |-> Body(p, q, F, n)]
<1> DEFINE Upto(f, n) == f = [i \in 0..n |-> Body(p, q, f, i)]
<1>1. ASSUME NEW n \in Nat, NEW f, NEW g, \A i \in 0..(n - 1) : f[i] = g[i]
      PROVE  Body(p, q, f, n) = Body(p, q, g, n)
  BY <1>1
<1>2. ASSUME NEW f, NEW n, Upto(f, n), NEW i \in 0..n
      PROVE  f[i] = Body(p, q, f, i)
  BY <1>2, Zenon
<1>3. ASSUME NEW n \in Nat, NEW m \in Nat, NEW f, NEW g, Upto(f, n), Upto(g, m), n <= m
      PROVE  \A i \in 0..n : f[i] = g[i]
  <2> DEFINE T == {i \in 0..n : f[i] # g[i]}
  <2> SUFFICES ASSUME T # {} PROVE FALSE
    OBVIOUS
  <2>1. PICK i \in T : \A j \in T : i <= j
    <3>1. T \in SUBSET Nat
      OBVIOUS
    <3> QED  BY <3>1, LeastNat
  <2>2. i \in Nat /\ i \in 0..n /\ i \in 0..m /\ \A j \in 0..(i - 1) : f[j] = g[j]
    <3>1. i \in Nat /\ i \in 0..n /\ i \in 0..m
      BY <1>3
    <3>2. ASSUME NEW j \in 0..(i - 1) PROVE f[j] = g[j]
      BY <2>1, <3>1
    <3> QED  BY <3>1, <3>2
  <2>3. f[i] = Body(p, q, f, i) /\ g[i] = Body(p, q, g, i)
    BY <1>2, <1>3, <2>2
  <2> QED  BY <1>1, <2>1, <2>2, <2>3
<1>4. \A n \in Nat : \E f : Upto(f, n)
  <2> DEFINE T == {n \in Nat : ~\E f : Upto(f, n)}
  <2> SUFFICES ASSUME T # {} PROVE FALSE
    BY Zenon
  <2>1. PICK n \in T : \A m \in T : n <= m
    BY LeastNat
  <2>2. PICK f : n > 0 => Upto(f, n - 1)
    BY <2>1
  <2> DEFINE g == [i \in 0..n |-> IF i < n THEN f[i] ELSE Body(p, q, f, n)]
  <2>3. ASSUME NEW i \in 0..n PROVE g[i] = Body(p, q, g, i)
    <3>1. \A j \in 0..(i - 1) : f[j] = g[j]
      BY <2>3
    <3>2. i < n => f[i] = Body(p, q, f, i)
      BY <1>2, <2>2, <2>1
    <3> QED  BY <1>1, <3>1, <3>2
  <2>4. Upto(g, n)
    BY <2>3, Zenon
  <2> QED  BY <2>1, <2>4
<1>5. PICK G : \A n \in Nat : Upto(G[n], n)
  <2> DEFINE H == [n \in Nat |-> CHOOSE f : Upto(f, n)]
  <2>1. \A n \in Nat : Upto(H[n], n)
    BY <1>4, Zenon
  <2> HIDE DEF H, Upto
  <2> QED  BY <2>1
<1> DEFINE F == [n \in Nat |-> G[n][n]]
<1>6. ASSUME NEW n \in Nat PROVE F[n] = Body(p, q, F, n)
  <2>1. F[n] = Body(p, q, G[n], n)
    <3>1. n \in 0..n
      OBVIOUS
    <3> QED  BY <1>2, <1>5, <3>1
  <2>2. ASSUME NEW i \in 0..(n - 1) PROVE G[n][i] = F[i]
    <3>1. i \in Nat /\ i <= n /\ i \in 0..i /\ F[i] = G[i][i]
      OBVIOUS
    <3> HIDE DEF F, Upto
    <3> QED  BY <1>3, <1>5, <3>1
  <2> HIDE DEF F
  <2> QED  BY <1>1, <2>1, <2>2
<1>7. F = [n \in Nat |-> Body(p, q, F, n)]
  BY <1>6
<1> HIDE DEF F
<1> QED  BY <1>7, Zenon
=============================================================================
