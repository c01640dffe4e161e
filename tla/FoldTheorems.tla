---------------------------- MODULE FoldTheorems ----------------------------
(***************************************************************************)
(* Facts about naturals, finite sets and folds that the proofs about the   *)
(* components share.  An induction is stated with the set of those for     *)
(* which the claim holds, since the provers instantiate no predicate; a    *)
(* fold's operator is a function for the same reason.                      *)
(***************************************************************************)
EXTENDS Integers, Sequences, FiniteSets, FiniteSetsExt, FiniteSetTheorems,
        WellFoundedInduction, TLAPS

\* A nonempty set of naturals has a least element.
LEMMA NatMin ==
  ASSUME NEW S, S \subseteq Nat, S # {}
  PROVE  \E x \in S : \A y \in S : x <= y
<1>1. IsWellFoundedOn(OpToRel(<, Nat), Nat)
  BY NatLessThanWellFounded
<1>2. PICK x \in S : \A y \in S : ~ (<<y, x>> \in OpToRel(<, Nat))
  BY <1>1, WFMin
<1>3. \A y \in S : ~ (y < x)
  BY <1>2 DEF OpToRel
<1>4. \A y \in S : x <= y
  BY <1>3
<1> QED
  BY <1>4

\* Induction over the naturals.
LEMMA NatSet ==
  ASSUME NEW S, 0 \in S, \A n \in Nat : n \in S => n + 1 \in S
  PROVE  Nat \subseteq S
<1> SUFFICES ASSUME Nat \ S # {} PROVE FALSE
  OBVIOUS
<1>1. PICK x \in Nat \ S : \A y \in Nat \ S : x <= y
  BY NatMin
<1>2. x # 0 /\ x - 1 \in Nat
  BY <1>1
<1>3. x - 1 \in S
  BY <1>1, <1>2
<1> QED
  BY <1>1, <1>2, <1>3

\* Induction over the finite sets.
LEMMA FiniteSetSet ==
  ASSUME NEW S, IsFiniteSet(S), NEW F, {} \in F,
         \A T \in SUBSET S, x \in S : T \in F /\ x \notin T => T \cup {x} \in F
  PROVE  SUBSET S \subseteq F
<1> DEFINE P(n) == \A T \in SUBSET S : Cardinality(T) = n => T \in F
           N == {n \in Nat : P(n)}
<1>1. \A T \in SUBSET S : IsFiniteSet(T) /\ Cardinality(T) \in Nat
  BY FS_Subset, FS_CardinalityType
<1>2. 0 \in N
  <2>1. \A T \in SUBSET S : Cardinality(T) = 0 => T = {}
    BY <1>1, FS_EmptySet
  <2> QED
    BY <2>1
<1>3. ASSUME NEW n \in Nat, n \in N
      PROVE  n + 1 \in N
  <2> SUFFICES ASSUME NEW T \in SUBSET S, Cardinality(T) = n + 1
               PROVE  T \in F
    OBVIOUS
  <2>1. T # {}
    <3>1. T = {} => Cardinality(T) = 0
      BY FS_EmptySet
    <3> QED
      BY <3>1
  <2>2. PICK x \in T : TRUE
    BY <2>1
  <2>3. Cardinality(T \ {x}) = n
    <3>1. IsFiniteSet(T)
      BY <1>1
    <3>2. Cardinality(T \ {x}) = Cardinality(T) - 1
      BY <2>2, <3>1, FS_RemoveElement
    <3> QED
      BY <3>2
  <2>4. T \ {x} \in F /\ T = (T \ {x}) \cup {x}
    BY <1>3, <2>3
  <2> QED
    BY <2>2, <2>4
<1> HIDE DEF N
<1>4. Nat \subseteq N
  BY <1>2, <1>3, NatSet
<1> QED
  BY <1>1, <1>4 DEF N

LEMMA UpToFinite ==
  ASSUME NEW n \in Nat
  PROVE  IsFiniteSet(1..n) /\ Cardinality(1..n) = n
<1>1. 1 \in Int /\ n \in Int
  OBVIOUS
<1>2. IsFiniteSet(1..n) /\ Cardinality(1..n) = IF 1 > n THEN 0 ELSE n - 1 + 1
  BY <1>1, FS_Interval
<1> QED
  BY <1>2

LEMMA BelowFinite ==
  ASSUME NEW n \in Nat
  PROVE  IsFiniteSet(0..n - 1) /\ Cardinality(0..n - 1) = n
<1>1. 0 \in Int /\ n - 1 \in Int
  OBVIOUS
<1>2. IsFiniteSet(0..n - 1) /\ Cardinality(0..n - 1) = IF 0 > n - 1 THEN 0 ELSE n - 1 - 0 + 1
  BY <1>1, FS_Interval
<1> QED
  BY <1>2

\* The size of the union of two disjoint sets.
LEMMA DisjointSizes ==
  ASSUME NEW A, NEW B, IsFiniteSet(A), IsFiniteSet(B), A \cap B = {}
  PROVE  /\ IsFiniteSet(A \cup B)
         /\ Cardinality(A) \in Nat /\ Cardinality(B) \in Nat
         /\ Cardinality(A \cup B) = Cardinality(A) + Cardinality(B)
<1>1. Cardinality(A \cap B) = 0
  BY FS_EmptySet
<1>2. Cardinality(A) \in Nat /\ Cardinality(B) \in Nat
  BY FS_CardinalityType
<1>3. /\ IsFiniteSet(A \cup B)
      /\ Cardinality(A \cup B) = Cardinality(A) + Cardinality(B) - Cardinality(A \cap B)
  BY FS_Union
<1> QED
  BY <1>1, <1>2, <1>3

\* V is made of n disjoint sets f[k] of p elements, and has n * p.
IsMadeOf(V, f, n, p) ==
  /\ \A k \in 1..n : IsFiniteSet(f[k]) /\ Cardinality(f[k]) = p
  /\ \A j, k \in 1..n : j # k => f[j] \cap f[k] = {}
  /\ \A x : x \in V <=> \E k \in 1..n : x \in f[k]

LEMMA UnionSize ==
  ASSUME NEW n \in Nat, NEW p \in Nat, NEW f, NEW V, IsMadeOf(V, f, n, p)
  PROVE  IsFiniteSet(V) /\ Cardinality(V) = n * p
<1> USE DEF IsMadeOf
<1> DEFINE U(m) == UNION {f[k] : k \in 1..m}
           N == {m \in Nat : m <= n => IsFiniteSet(U(m)) /\ Cardinality(U(m)) = m * p}
<1>1. 0 \in N
  <2>1. U(0) = {}
    OBVIOUS
  <2>2. IsFiniteSet(U(0)) /\ Cardinality(U(0)) = 0
    BY <2>1, FS_EmptySet
  <2> QED
    BY <2>2
<1>2. ASSUME NEW m \in Nat, m \in N PROVE m + 1 \in N
  <2> SUFFICES ASSUME m + 1 <= n
               PROVE  IsFiniteSet(U(m + 1)) /\ Cardinality(U(m + 1)) = (m + 1) * p
    OBVIOUS
  <2>1. 1..m + 1 = (1..m) \cup {m + 1} /\ m + 1 \in 1..n /\ 1..m \subseteq 1..n
        /\ \A k \in 1..m : k # m + 1
    OBVIOUS
  <2>2. U(m + 1) = U(m) \cup f[m + 1]
    BY <2>1
  <2>3. U(m) \cap f[m + 1] = {}
    BY <2>1
  <2>4. IsFiniteSet(U(m)) /\ Cardinality(U(m)) = m * p
    BY <1>2
  <2>5. IsFiniteSet(f[m + 1]) /\ Cardinality(f[m + 1]) = p
    BY <2>1
  <2> HIDE DEF U, N
  <2> PICK A, B : A = U(m) /\ B = f[m + 1]
    OBVIOUS
  <2>6. /\ IsFiniteSet(A \cup B)
        /\ Cardinality(A \cup B) = Cardinality(A) + Cardinality(B)
    BY <2>3, <2>4, <2>5, DisjointSizes
  <2>7. m * p + p = (m + 1) * p
    OBVIOUS
  <2> QED
    BY <2>2, <2>4, <2>5, <2>6, <2>7
<1>3. n \in N
  BY <1>1, <1>2, NatSet
<1>4. V = U(n)
  OBVIOUS
<1> QED
  BY <1>3, <1>4

\* A number is a multiple and a rest, and below m multiples it is one of m.
LEMMA DivMod ==
  ASSUME NEW n \in Nat, NEW d \in Nat \ {0}
  PROVE  /\ n \div d \in Nat /\ n % d \in 0..d - 1
         /\ n = d * (n \div d) + (n % d)
         /\ \A m \in Nat : n < m * d => n \div d < m
OBVIOUS

LEMMA Distributes ==
  \A a, b, d \in Nat : /\ a * d \in Nat
                        /\ (a + b) * d = a * d + b * d /\ (a + 1) * d = a * d + d
OBVIOUS

LEMMA MulAdd ==
  ASSUME NEW a \in Nat, NEW d \in Nat \ {0}, NEW b \in 0..d - 1
  PROVE  d * a + b \in Nat /\ (d * a + b) \div d = a /\ (d * a + b) % d = b
BY SMTT(30)

\* What different elements go to is as many.
LEMMA ImageSize ==
  ASSUME NEW I, IsFiniteSet(I), NEW T, NEW f \in [I -> T],
         \A i, j \in I : f[i] = f[j] => i = j,
         \A t \in T : \E i \in I : f[i] = t
  PROVE  IsFiniteSet(T) /\ Cardinality(T) = Cardinality(I)
<1>1. f \in Injection(I, T) /\ f \in Surjection(I, T)
  BY DEF Injection, IsInjective, Surjection
<1> QED
  BY <1>1, FS_Surjection
-----------------------------------------------------------------------------
\* What a fold over a finite set computes: from a base, with a step, one
\* element after the other in an order that c gives.
IsFold(g, S, base, c, step) ==
  \A T \in SUBSET S :
    g[T] = IF T = {} THEN base ELSE step[<<c[T], g[T \ {c[T]}]>>]

\* There is a function that does.
LEMMA FoldExists ==
  ASSUME NEW S, IsFiniteSet(S), NEW A, NEW base \in A, NEW step \in [S \X A -> A],
         NEW c, \A T \in SUBSET S : T # {} => c[T] \in T
  PROVE  \E g \in [SUBSET S -> A] : IsFold(g, S, base, c, step)
<1> DEFINE Eq(g, T) == g[T] = IF T = {} THEN base
                              ELSE step[<<c[T], g[T \ {c[T]}]>>]
           P(n) == \E g \in [SUBSET S -> A] :
                     \A T \in SUBSET S : Cardinality(T) <= n => Eq(g, T)
           N == {n \in Nat : P(n)}
<1>1. \A T \in SUBSET S : IsFiniteSet(T) /\ Cardinality(T) \in Nat
  BY FS_Subset, FS_CardinalityType
<1>2. \A T \in SUBSET S : T # {} =>
        /\ T \ {c[T]} \in SUBSET S /\ c[T] \in S
        /\ Cardinality(T \ {c[T]}) = Cardinality(T) - 1
  <2> SUFFICES ASSUME NEW T \in SUBSET S, T # {}
               PROVE  /\ T \ {c[T]} \in SUBSET S /\ c[T] \in S
                      /\ Cardinality(T \ {c[T]}) = Cardinality(T) - 1
    OBVIOUS
  <2>1. c[T] \in T
    OBVIOUS
  <2> DEFINE x == c[T]
  <2> HIDE DEF x
  <2>2. x \in T => Cardinality(T \ {x}) = Cardinality(T) - 1
    BY <1>1, FS_RemoveElement
  <2> QED
    BY <2>1, <2>2 DEF x
<1>3. 0 \in N
  <2>1. \A T \in SUBSET S : Cardinality(T) <= 0 => T = {}
    BY <1>1, FS_EmptySet
  <2> DEFINE g == [T \in SUBSET S |-> base]
  <2>2. g \in [SUBSET S -> A] /\ \A T \in SUBSET S : Cardinality(T) <= 0 => Eq(g, T)
    BY <2>1
  <2> QED
    BY <2>2
<1>4. ASSUME NEW n \in Nat, n \in N
      PROVE  n + 1 \in N
  <2>1. PICK g \in [SUBSET S -> A] :
          \A T \in SUBSET S : Cardinality(T) <= n => Eq(g, T)
    BY <1>4
  <2> DEFINE h == [T \in SUBSET S |->
                     IF Cardinality(T) = n + 1 THEN step[<<c[T], g[T \ {c[T]}]>>]
                     ELSE g[T]]
  <2>2. h \in [SUBSET S -> A]
    <3> SUFFICES ASSUME NEW T \in SUBSET S, Cardinality(T) = n + 1
                 PROVE  step[<<c[T], g[T \ {c[T]}]>>] \in A
      OBVIOUS
    <3>1. T # {}
      <4>1. T = {} => Cardinality(T) = 0
        BY FS_EmptySet
      <4> QED
        BY <4>1
    <3> QED
      BY <1>2, <3>1
  <2>3. ASSUME NEW T \in SUBSET S, Cardinality(T) <= n + 1
        PROVE  Eq(h, T)
    <3>1. CASE T = {}
      <4>1. Cardinality(T) = 0
        BY <3>1, FS_EmptySet
      <4>2. h[T] = g[T] /\ g[T] = base
        BY <2>1, <3>1, <4>1
      <4> QED
        BY <3>1, <4>2
    <3>2. CASE T # {}
      <4>1. /\ T \ {c[T]} \in SUBSET S
            /\ Cardinality(T \ {c[T]}) = Cardinality(T) - 1
            /\ Cardinality(T) \in Nat
        BY <1>1, <1>2, <3>2
      <4>2. h[T \ {c[T]}] = g[T \ {c[T]}]
        BY <2>3, <4>1
      <4>3. h[T] = step[<<c[T], g[T \ {c[T]}]>>]
        <5>1. CASE Cardinality(T) = n + 1
          BY <5>1
        <5>2. CASE Cardinality(T) # n + 1
          BY <2>1, <2>3, <3>2, <4>1, <5>2
        <5> QED
          BY <5>1, <5>2
      <4> QED
        BY <3>2, <4>2, <4>3
    <3> QED
      BY <3>1, <3>2
  <2> HIDE DEF h, Eq
  <2>4. P(n + 1)
    BY <2>2, <2>3
  <2> QED
    BY <2>4
<1> HIDE DEF N
<1>5. Cardinality(S) \in N
  BY <1>1, <1>3, <1>4, NatSet
<1>6. PICK g \in [SUBSET S -> A] :
        \A T \in SUBSET S : Cardinality(T) <= Cardinality(S) => Eq(g, T)
  BY <1>5 DEF N
<1>7. \A T \in SUBSET S : Cardinality(T) <= Cardinality(S)
  BY FS_Subset
<1> QED
  BY <1>6, <1>7 DEF IsFold
-----------------------------------------------------------------------------
\* g sums f over the subsets of S.
IsSumOf(g, S, f) ==
  /\ g \in [SUBSET S -> Int]
  /\ g[{}] = 0
  /\ \A T \in SUBSET S : \A x \in S \ T : g[T \cup {x}] = g[T] + f[x]

\* A sum that takes the element that c gives first.
AddsFirst(g, S, f, c) ==
  /\ f \in [S -> Int] /\ g \in [SUBSET S -> Int] /\ g[{}] = 0
  /\ \A T \in SUBSET S : T # {} => c[T] \in T /\ g[T] = f[c[T]] + g[T \ {c[T]}]

\* A sum does not depend on the order: one more element adds its value.
LEMMA SumAdds ==
  ASSUME NEW S, IsFiniteSet(S), NEW f, NEW c, NEW g, AddsFirst(g, S, f, c)
  PROVE  IsSumOf(g, S, f)
<1>0. /\ f \in [S -> Int] /\ g \in [SUBSET S -> Int] /\ g[{}] = 0
      /\ \A U \in SUBSET S : U # {} => c[U] \in U /\ g[U] = f[c[U]] + g[U \ {c[U]}]
  BY DEF AddsFirst
<1> DEFINE F == {U \in SUBSET S : \A y \in S \ U : g[U \cup {y}] = g[U] + f[y]}
           P(n) == \A U \in SUBSET S : Cardinality(U) = n => U \in F
           N == {n \in Nat : P(n)}
<1>1. \A U \in SUBSET S : IsFiniteSet(U) /\ Cardinality(U) \in Nat
  BY FS_Subset, FS_CardinalityType
<1>2. \A U \in SUBSET S, y \in S : y \in U => Cardinality(U \ {y}) = Cardinality(U) - 1
  BY <1>1, FS_RemoveElement
<1>3. ASSUME NEW n \in Nat, \A m \in 0..n - 1 : P(m)
      PROVE  P(n)
  <2> SUFFICES ASSUME NEW U \in SUBSET S, Cardinality(U) = n, NEW y \in S \ U
               PROVE  g[U \cup {y}] = g[U] + f[y]
    OBVIOUS
  <2> DEFINE V == U \cup {y}
             z == c[V]
  <2>1. V \in SUBSET S /\ V # {} /\ z \in V
    BY <1>0
  <2>2. g[V] = f[z] + g[V \ {z}]
    BY <1>0, <2>1
  <2>3. CASE z = y
    <3>1. V \ {z} = U
      BY <2>3
    <3>2. g[V] = f[y] + g[U]
      BY <2>2, <2>3, <3>1
    <3>3. f[y] \in Int /\ g[U] \in Int
      BY <1>0
    <3> HIDE DEF z
    <3> QED
      BY <3>2, <3>3
  <2>4. CASE z # y
    <3>1. z \in U /\ y \notin U \ {z} /\ U \ {z} \in SUBSET S
      BY <2>1, <2>4
    <3>2. V \ {z} = (U \ {z}) \cup {y}
      BY <2>1, <2>4
    <3> HIDE DEF V, z
    <3>3. Cardinality(U \ {z}) = n - 1 /\ n - 1 \in 0..n - 1
      <4>1. Cardinality(U \ {z}) \in Nat
        BY <1>1, <3>1
      <4> QED
        BY <1>2, <3>1, <4>1
    <3>4. U \ {z} \in F
      BY <1>3, <3>1, <3>3
    <3>5. g[V \ {z}] = g[U \ {z}] + f[y]
      BY <3>1, <3>2, <3>4
    <3>6. c[U] \in U /\ g[U] = f[c[U]] + g[U \ {c[U]}]
      BY <1>0, <3>1
    <3>7. g[U] = f[z] + g[U \ {z}]
      <4>1. CASE c[U] = z
        BY <3>6, <4>1
      <4>2. CASE c[U] # z
        <5> DEFINE w == c[U]
                   W == (U \ {z}) \ {w}
        <5>1. w \in U \ {z} /\ W \in SUBSET S /\ z \notin W /\ w \notin W
          BY <3>6, <4>2
        <5>2. U \ {w} = W \cup {z} /\ U \ {z} = W \cup {w}
          BY <1>0, <3>1, <5>1
        <5>3. Cardinality(W) \in 0..n - 1
          <6>1. Cardinality(W) = Cardinality(U \ {z}) - 1 /\ Cardinality(W) \in Nat
            <7> HIDE DEF w
            <7> QED
              BY <1>1, <1>2, <3>1, <5>1
          <6> QED
            BY <3>3, <6>1
        <5>4. W \in F
          <6> HIDE DEF W
          <6> QED
            BY <1>3, <5>1, <5>3
        <5>5. g[W \cup {z}] = g[W] + f[z] /\ g[W \cup {w}] = g[W] + f[w]
          BY <3>1, <5>1, <5>4
        <5>6. g[W] \in Int /\ f[z] \in Int /\ f[w] \in Int
          BY <1>0, <3>1, <5>1
        <5>7. g[U] = f[w] + g[U \ {w}]
          BY <3>6
        <5>8. g[U \ {w}] = g[W] + f[z] /\ g[U \ {z}] = g[W] + f[w]
          BY <5>2, <5>5
        <5> HIDE DEF w, W
        <5> QED
          BY <5>6, <5>7, <5>8
      <4> QED
        BY <4>1, <4>2
    <3> QED
      BY <1>0, <2>2, <3>1, <3>5, <3>7 DEF V
  <2> QED
    BY <2>3, <2>4
<1> DEFINE M == {n \in Nat : \A m \in 0..n : P(m)}
<1>4. Nat \subseteq M
  <2>1. 0 \in M
    <3>1. P(0)
      <4> HIDE DEF P
      <4> QED
        BY <1>3
    <3> QED
      BY <3>1
  <2>2. ASSUME NEW n \in Nat, n \in M
        PROVE  n + 1 \in M
    <3> HIDE DEF P
    <3>1. P(n + 1)
      BY <1>3, <2>2
    <3>2. \A m \in 0..n + 1 : m \in 0..n \/ m = n + 1
      OBVIOUS
    <3> QED
      BY <2>2, <3>1, <3>2
  <2> HIDE DEF M
  <2> QED
    BY <2>1, <2>2, NatSet
<1>5. \A U \in SUBSET S : P(Cardinality(U))
  <2> HIDE DEF P
  <2> QED
    BY <1>1, <1>4
<1>6. \A U \in SUBSET S : \A y \in S \ U : g[U \cup {y}] = g[U] + f[y]
  BY <1>5
<1> QED
  BY <1>0, <1>6 DEF IsSumOf

\* SumFunction, as a function of the set it sums over.
LEMMA SumOver ==
  ASSUME NEW S, IsFiniteSet(S), NEW f \in [S -> Int]
  PROVE  \E g : IsSumOf(g, S, f) /\ g[S] = SumFunction(f)
<1> DEFINE c == [T \in SUBSET S |-> CHOOSE x \in T : TRUE]
           step == [p \in S \X Int |-> f[p[1]] + p[2]]
           Body(h, s) == IF s = {} THEN 0
                         ELSE f[CHOOSE x \in s : TRUE] + h[s \ {CHOOSE x \in s : TRUE}]
           Iter(h) == h = [s \in SUBSET S |-> Body(h, s)]
           iter == CHOOSE h : Iter(h)
<1>1. SumFunction(f) = iter[S]
  BY Zenon DEF SumFunction, SumFunctionOnSet, FoldFunctionOnSet, MapThenFoldSet
<1>2. \A T \in SUBSET S : T # {} => c[T] \in T
  OBVIOUS
<1>3. 0 \in Int /\ step \in [S \X Int -> Int]
  OBVIOUS
<1>4. PICK g \in [SUBSET S -> Int] : IsFold(g, S, 0, c, step)
  <2> HIDE DEF c, step
  <2> QED
    BY <1>2, <1>3, FoldExists
<1>5. \A T \in SUBSET S : g[T] = Body(g, T)
  <2> SUFFICES ASSUME NEW T \in SUBSET S PROVE g[T] = Body(g, T)
    OBVIOUS
  <2>1. T # {} => c[T] = (CHOOSE x \in T : TRUE) /\ c[T] \in S /\ T \ {c[T]} \in SUBSET S
    BY <1>2
  <2> DEFINE y == CHOOSE x \in T : TRUE
  <2> HIDE DEF y
  <2>2. T # {} => c[T] = y /\ y \in S /\ T \ {y} \in SUBSET S
    BY <2>1 DEF y
  <2>3. g[T] = IF T = {} THEN 0 ELSE step[<<c[T], g[T \ {c[T]}]>>]
    BY <1>4 DEF IsFold
  <2>4. T # {} => g[T] = f[y] + g[T \ {y}]
    BY <2>2, <2>3
  <2> QED
    BY <2>3, <2>4 DEF y
<1>6. Iter(iter)
  <2>1. Iter(g)
    <3> HIDE DEF Body
    <3> QED
      BY <1>5
  <2> HIDE DEF Iter
  <2> QED
    BY <2>1
<1> HIDE DEF iter
<1>7. \A T \in SUBSET S : iter[T] = Body(iter, T)
  <2> HIDE DEF Body
  <2> QED
    BY <1>6
<1>8. \A T \in SUBSET S : iter[T] = g[T]
  <2> DEFINE N == {n \in Nat : \A T \in SUBSET S : Cardinality(T) = n => iter[T] = g[T]}
  <2>1. \A T \in SUBSET S : IsFiniteSet(T) /\ Cardinality(T) \in Nat
    BY FS_Subset, FS_CardinalityType
  <2>2. 0 \in N
    <3>1. \A T \in SUBSET S : Cardinality(T) = 0 => T = {}
      BY <2>1, FS_EmptySet
    <3>2. iter[{}] = g[{}]
      BY <1>5, <1>7
    <3> QED
      BY <3>1, <3>2
  <2>3. ASSUME NEW n \in Nat, n \in N PROVE n + 1 \in N
    <3> SUFFICES ASSUME NEW T \in SUBSET S, Cardinality(T) = n + 1 PROVE iter[T] = g[T]
      OBVIOUS
    <3> DEFINE y == CHOOSE x \in T : TRUE
    <3>1. T # {}
      <4>1. T = {} => Cardinality(T) = 0
        BY FS_EmptySet
      <4> QED
        BY <4>1
    <3>2. y \in T
      BY <3>1
    <3>3. iter[T] = f[y] + iter[T \ {y}] /\ g[T] = f[y] + g[T \ {y}]
      BY <1>5, <1>7, <3>1
    <3> HIDE DEF y
    <3>4. Cardinality(T \ {y}) = n
      BY <2>1, <3>2, FS_RemoveElement
    <3>5. iter[T \ {y}] = g[T \ {y}]
      BY <2>3, <3>4
    <3> QED
      BY <3>3, <3>5
  <2> HIDE DEF N
  <2>4. Nat \subseteq N
    BY <2>2, <2>3, NatSet
  <2> QED
    BY <2>1, <2>4 DEF N
<1>9. AddsFirst(g, S, f, c)
  BY <1>2, <1>5 DEF AddsFirst
<1> HIDE DEF c
<1>10. IsSumOf(g, S, f)
  BY <1>9, SumAdds
<1> QED
  BY <1>1, <1>8, <1>10

\* Sums of naturals.
LEMMA SumNat ==
  ASSUME NEW S, IsFiniteSet(S), NEW f \in [S -> Nat],
         NEW g, IsSumOf(g, S, f)
  PROVE  /\ \A T \in SUBSET S : g[T] \in Nat
         /\ \A x \in S : f[x] <= g[S]
<1> DEFINE F == {T \in SUBSET S : g[T] \in Nat}
<1>1. {} \in F
  BY DEF IsSumOf
<1>2. \A T \in SUBSET S, x \in S : T \in F /\ x \notin T => T \cup {x} \in F
  BY DEF IsSumOf
<1> HIDE DEF F
<1>3. SUBSET S \subseteq F
  BY <1>1, <1>2, FiniteSetSet
<1>4. \A T \in SUBSET S : g[T] \in Nat
  BY <1>3 DEF F
<1>5. ASSUME NEW x \in S PROVE f[x] <= g[S]
  <2>1. (S \ {x}) \cup {x} = S /\ S \ {x} \in SUBSET S /\ x \in S \ (S \ {x})
    OBVIOUS
  <2>2. g[S] = g[S \ {x}] + f[x]
    BY <2>1 DEF IsSumOf
  <2> QED
    BY <1>4, <2>1, <2>2
<1> QED
  BY <1>4, <1>5

\* Naturals that are positive on T sum up to its size only if they are one on
\* T and zero elsewhere.
LEMMA SumCounts ==
  ASSUME NEW S, IsFiniteSet(S), NEW f \in [S -> Nat],
         NEW T \in SUBSET S, \A x \in T : f[x] >= 1
  PROVE  /\ SumFunction(f) \in Nat /\ SumFunction(f) >= Cardinality(T)
         /\ SumFunction(f) = Cardinality(T) =>
              \A x \in S : f[x] = IF x \in T THEN 1 ELSE 0
<1> DEFINE One(x) == IF x \in T THEN 1 ELSE 0
           Ok(U, n) == n >= Cardinality(U \cap T) /\
                       (n = Cardinality(U \cap T) => \A x \in U : f[x] = One(x))
<1>1. f \in [S -> Int]
  OBVIOUS
<1>2. PICK g : IsSumOf(g, S, f) /\ g[S] = SumFunction(f)
  BY <1>1, SumOver
<1> DEFINE F == {U \in SUBSET S : Ok(U, g[U])}
<1>3. \A U \in SUBSET S : g[U] \in Nat
  BY <1>2, SumNat
<1>4. {} \in F
  <2>1. {} \cap T = {} /\ Cardinality({}) = 0
    BY FS_EmptySet
  <2>2. g[{}] = 0
    BY <1>2 DEF IsSumOf
  <2> QED
    BY <2>1, <2>2
<1>5. ASSUME NEW U \in SUBSET S, NEW x \in S, U \in F, x \notin U
      PROVE  U \cup {x} \in F
  <2>1. g[U \cup {x}] = g[U] + f[x]
    BY <1>2, <1>5 DEF IsSumOf
  <2>2. IsFiniteSet(U \cap T) /\ Cardinality(U \cap T) \in Nat
    BY FS_Subset, FS_CardinalityType
  <2> DEFINE n == Cardinality(U \cap T)
             m == Cardinality((U \cup {x}) \cap T)
  <2>3. m = n + One(x)
    <3>1. CASE x \in T
      <4>1. (U \cup {x}) \cap T = (U \cap T) \cup {x}
        BY <3>1
      <4>2. x \notin U \cap T
        BY <1>5
      <4> DEFINE V == U \cap T
      <4> HIDE DEF V
      <4>3. x \notin V => Cardinality(V \cup {x}) = Cardinality(V) + 1
        BY <2>2, FS_AddElement DEF V
      <4>4. m = n + 1
        BY <4>1, <4>2, <4>3 DEF V
      <4> QED
        BY <3>1, <4>4
    <3>2. CASE x \notin T
      <4>1. (U \cup {x}) \cap T = U \cap T
        BY <3>2
      <4>2. m = n /\ n \in Nat
        BY <2>2, <4>1
      <4> QED
        BY <3>2, <4>2
    <3> QED
      BY <3>1, <3>2
  <2> HIDE DEF n, m
  <2>4. g[U] >= n /\ (g[U] = n => \A y \in U : f[y] = One(y))
    BY <1>5 DEF n
  <2>5. f[x] \in Nat /\ f[x] >= One(x) /\ g[U] \in Nat /\ n \in Nat /\ One(x) \in Nat
    BY <1>3, <2>2 DEF n
  <2> HIDE DEF One
  <2>6. g[U] + f[x] >= m /\ (g[U] + f[x] = m => g[U] = n /\ f[x] = One(x))
    BY <2>3, <2>4, <2>5
  <2>7. Ok(U \cup {x}, g[U \cup {x}])
    BY <2>1, <2>4, <2>6 DEF m
  <2> QED
    BY <2>7
<1> HIDE DEF F
<1>6. SUBSET S \subseteq F
  BY <1>4, <1>5, FiniteSetSet
<1>7. Ok(S, g[S]) /\ S \cap T = T
  BY <1>6 DEF F
<1> QED
  BY <1>2, <1>3, <1>7

\* The sizes of disjoint sets add up to that of their union.
LEMMA SumSizes ==
  ASSUME NEW S, IsFiniteSet(S), NEW U, IsFiniteSet(U), NEW R \in [S -> SUBSET U],
         \A s, t \in S : s # t => R[s] \cap R[t] = {},
         NEW f \in [S -> Nat], \A s \in S : f[s] = Cardinality(R[s])
  PROVE  SumFunction(f) = Cardinality({u \in U : \E s \in S : u \in R[s]})
<1> DEFINE In(T) == {u \in U : \E s \in T : u \in R[s]}
<1>1. f \in [S -> Int]
  OBVIOUS
<1>2. PICK g : IsSumOf(g, S, f) /\ g[S] = SumFunction(f)
  BY <1>1, SumOver
<1> DEFINE F == {T \in SUBSET S : g[T] = Cardinality(In(T))}
<1>3. {} \in F
  <2>1. In({}) = {} /\ Cardinality({}) = 0
    BY FS_EmptySet
  <2> QED
    BY <1>2, <2>1 DEF IsSumOf
<1>4. ASSUME NEW T \in SUBSET S, NEW s \in S, T \in F, s \notin T
      PROVE  T \cup {s} \in F
  <2>1. g[T \cup {s}] = g[T] + f[s]
    BY <1>2, <1>4 DEF IsSumOf
  <2>2. In(T \cup {s}) = In(T) \cup R[s] /\ In(T) \cap R[s] = {}
    BY <1>4
  <2>3. /\ IsFiniteSet(In(T)) /\ Cardinality(In(T)) \in Nat
        /\ IsFiniteSet(R[s]) /\ Cardinality(R[s]) \in Nat
    <3>1. In(T) \in SUBSET U /\ R[s] \in SUBSET U
      OBVIOUS
    <3> HIDE DEF In
    <3> QED
      BY <3>1, FS_Subset, FS_CardinalityType
  <2> HIDE DEF In
  <2>4. Cardinality(In(T) \cup R[s]) = Cardinality(In(T)) + Cardinality(R[s])
    BY <2>2, <2>3, DisjointSizes
  <2> QED
    BY <1>4, <2>1, <2>2, <2>4
<1> HIDE DEF F
<1>5. SUBSET S \subseteq F
  BY <1>3, <1>4, FiniteSetSet
<1> QED
  BY <1>2, <1>5 DEF F

\* Sums of functions that agree but for one more element.
LEMMA SumMore ==
  ASSUME NEW S, IsFiniteSet(S), NEW x, x \notin S,
         NEW f \in [S -> Int], NEW h \in [S \cup {x} -> Int],
         \A y \in S : h[y] = f[y]
  PROVE  SumFunction(h) = SumFunction(f) + h[x]
<1>1. IsFiniteSet(S \cup {x})
  BY FS_AddElement
<1>2. PICK g : IsSumOf(g, S, f) /\ g[S] = SumFunction(f)
  BY SumOver
<1>3. PICK k : IsSumOf(k, S \cup {x}, h) /\ k[S \cup {x}] = SumFunction(h)
  BY <1>1, SumOver
<1> DEFINE F == {T \in SUBSET S : k[T] = g[T]}
<1>4. {} \in F
  BY <1>2, <1>3 DEF IsSumOf
<1>5. ASSUME NEW T \in SUBSET S, NEW y \in S, T \in F, y \notin T
      PROVE  T \cup {y} \in F
  <2>1. g[T \cup {y}] = g[T] + f[y]
    BY <1>2, <1>5 DEF IsSumOf
  <2>2. T \in SUBSET (S \cup {x}) /\ y \in (S \cup {x}) \ T
    BY <1>5
  <2>3. k[T \cup {y}] = k[T] + h[y]
    BY <1>3, <2>2 DEF IsSumOf
  <2> QED
    BY <1>5, <2>1, <2>3
<1> HIDE DEF F
<1>6. SUBSET S \subseteq F
  BY <1>4, <1>5, FiniteSetSet
<1>7. k[S] = g[S]
  BY <1>6 DEF F
<1>8. k[S \cup {x}] = k[S] + h[x]
  <2>1. S \in SUBSET (S \cup {x}) /\ x \in (S \cup {x}) \ S
    OBVIOUS
  <2> QED
    BY <1>3, <2>1 DEF IsSumOf
<1> QED
  BY <1>2, <1>3, <1>7, <1>8
\* A sum of which at most one term counts.
LEMMA SumZeros ==
  ASSUME NEW S, IsFiniteSet(S), NEW f \in [S -> Int], \A y \in S : f[y] = 0
  PROVE  SumFunction(f) = 0
<1>1. PICK g : IsSumOf(g, S, f) /\ g[S] = SumFunction(f)
  BY SumOver
<1> DEFINE F == {T \in SUBSET S : g[T] = 0}
<1>2. {} \in F
  BY <1>1 DEF IsSumOf
<1>3. \A T \in SUBSET S, x \in S : T \in F /\ x \notin T => T \cup {x} \in F
  BY <1>1 DEF IsSumOf
<1>4. S \in SUBSET S
  OBVIOUS
<1> HIDE DEF F
<1>5. SUBSET S \subseteq F
  BY <1>2, <1>3, FiniteSetSet
<1> QED
  BY <1>1, <1>4, <1>5 DEF F

LEMMA SumOne ==
  ASSUME NEW S, IsFiniteSet(S), NEW f \in [S -> Int], NEW x \in S,
         \A y \in S : y # x => f[y] = 0
  PROVE  SumFunction(f) = f[x]
<1> DEFINE T == S \ {x}
           h == [y \in T |-> f[y]]
<1>1. IsFiniteSet(T) /\ x \notin T /\ S = T \cup {x}
  BY FS_RemoveElement
<1>2. h \in [T -> Int] /\ (\A y \in T : h[y] = 0) /\ \A y \in T : f[y] = h[y]
  OBVIOUS
<1>3. f \in [T \cup {x} -> Int]
  BY <1>1
<1> HIDE DEF T, h
<1>4. SumFunction(h) = 0
  BY <1>1, <1>2, SumZeros
<1>5. SumFunction(f) = SumFunction(h) + f[x]
  BY <1>1, <1>2, <1>3, SumMore
<1> QED
  BY <1>4, <1>5
LEMMA SumAdd ==
  ASSUME NEW S, IsFiniteSet(S), NEW x, x \notin S, NEW r, \A y \in S \cup {x} : r[y] \in Int
  PROVE  SumFunction([i \in S \cup {x} |-> r[i]]) = SumFunction([i \in S |-> r[i]]) + r[x]
<1> DEFINE f == [i \in S |-> r[i]]
           h == [i \in S \cup {x} |-> r[i]]
<1>1. /\ f \in [S -> Int] /\ h \in [S \cup {x} -> Int] /\ h[x] = r[x]
      /\ \A y \in S : h[y] = f[y]
  OBVIOUS
<1> HIDE DEF f, h
<1>2. SumFunction(h) = SumFunction(f) + h[x]
  BY <1>1, SumMore
<1> QED
  BY <1>1, <1>2 DEF f, h

\* The sums of a sequence's first elements, and of a part of it.
LEMMA PrefixSum ==
  ASSUME NEW n \in Nat, NEW r \in [1..n -> Int], NEW m \in 1..n
  PROVE  SumFunction([i \in 1..m |-> r[i]]) =
           SumFunction([i \in 1..m - 1 |-> r[i]]) + r[m]
<1> DEFINE S == 1..m - 1
<1>1. m - 1 \in Nat /\ S \cup {m} = 1..m /\ m \notin S
      /\ \A y \in S \cup {m} : r[y] \in Int
  OBVIOUS
<1>2. IsFiniteSet(S)
  BY <1>1, UpToFinite
<1> HIDE DEF S
<1>3. SumFunction([i \in S \cup {m} |-> r[i]]) = SumFunction([i \in S |-> r[i]]) + r[m]
  BY <1>1, <1>2, SumAdd
<1> QED
  BY <1>1, <1>3 DEF S

\* A sum of differences is the difference of its ends.
LEMMA Telescope ==
  ASSUME NEW n \in Nat, NEW r \in [1..n -> Int], NEW g \in [0..n -> Int],
         \A j \in 1..n : r[j] = g[j] - g[j - 1]
  PROVE  SumFunction(r) = g[n] - g[0]
<1> DEFINE N == {m \in Nat : m <= n => SumFunction([i \in 1..m |-> r[i]]) = g[m] - g[0]}
<1>1. 0 \in N
  <2> DEFINE f == [i \in 1..0 |-> r[i]]
  <2>1. 1..0 = {} /\ IsFiniteSet(1..0)
    BY UpToFinite
  <2>2. f \in [1..0 -> Int] /\ \A y \in 1..0 : f[y] = 0
    BY <2>1
  <2> HIDE DEF f
  <2>3. SumFunction(f) = 0
    BY <2>1, <2>2, SumZeros
  <2>4. g[0] \in Int
    OBVIOUS
  <2> QED
    BY <2>3, <2>4 DEF f
<1>2. ASSUME NEW m \in Nat, m \in N PROVE m + 1 \in N
  <2> SUFFICES ASSUME m + 1 <= n
               PROVE  SumFunction([i \in 1..m + 1 |-> r[i]]) = g[m + 1] - g[0]
    OBVIOUS
  <2> PICK k : k = m + 1
    OBVIOUS
  <2>1. k \in 1..n /\ k - 1 = m /\ m \in 0..n /\ k \in 0..n /\ 0 \in 0..n
    OBVIOUS
  <2>2. SumFunction([i \in 1..m |-> r[i]]) = g[m] - g[0]
    BY <1>2, <2>1
  <2>3. SumFunction([i \in 1..k |-> r[i]]) = SumFunction([i \in 1..k - 1 |-> r[i]]) + r[k]
    BY <2>1, PrefixSum
  <2>4. r[k] = g[k] - g[m] /\ g[k] \in Int /\ g[m] \in Int /\ g[0] \in Int
    BY <2>1
  <2> QED
    BY <2>1, <2>2, <2>3, <2>4
<1> HIDE DEF N
<1>3. n \in N
  BY <1>1, <1>2, NatSet
<1>4. r = [i \in 1..n |-> r[i]]
  OBVIOUS
<1> QED
  BY <1>3, <1>4 DEF N

LEMMA SumPart ==
  ASSUME NEW n \in Nat, NEW v \in [1..n -> Int], NEW a \in 0..n, NEW b \in a..n
  PROVE  /\ SumFunction([i \in 1..a |-> v[i]]) \in Int
         /\ SumFunction([i \in 1..b |-> v[i]]) \in Int
         /\ SumFunction([i \in 1..b - a |-> v[a + i]]) =
              SumFunction([i \in 1..b |-> v[i]]) - SumFunction([i \in 1..a |-> v[i]])
<1> DEFINE P == [m \in 0..n |-> SumFunction([i \in 1..m |-> v[i]])]
           w == [i \in 1..b - a |-> v[a + i]]
           g == [m \in 0..b - a |-> P[a + m]]
<1>1. \A m \in 0..n : P[m] \in Int
  <2> SUFFICES ASSUME NEW m \in 0..n PROVE P[m] \in Int
    OBVIOUS
  <2> DEFINE S == 1..m
             f == [i \in S |-> v[i]]
  <2>1. IsFiniteSet(S) /\ f \in [S -> Int] /\ P[m] = SumFunction(f)
    BY UpToFinite
  <2> HIDE DEF f, S, P
  <2>2. PICK h : IsSumOf(h, S, f) /\ h[S] = SumFunction(f)
    BY <2>1, SumOver
  <2>3. h[S] \in Int
    BY <2>2 DEF IsSumOf
  <2> QED
    BY <2>1, <2>2, <2>3
<1>2. \A m \in 1..n : P[m] = P[m - 1] + v[m]
  <2> SUFFICES ASSUME NEW m \in 1..n PROVE P[m] = P[m - 1] + v[m]
    OBVIOUS
  <2>1. m \in 0..n /\ m - 1 \in 0..n
    OBVIOUS
  <2> QED
    BY <2>1, PrefixSum
<1>3. /\ P[a] = SumFunction([i \in 1..a |-> v[i]]) /\ P[b] = SumFunction([i \in 1..b |-> v[i]])
      /\ a \in 0..n /\ b \in 0..n /\ b - a \in Nat /\ a + (b - a) = b /\ a + 0 = a
  OBVIOUS
<1> HIDE DEF P
<1>4. w \in [1..b - a -> Int] /\ g \in [0..b - a -> Int]
  BY <1>1
<1>5. \A j \in 1..b - a : w[j] = g[j] - g[j - 1]
  <2> SUFFICES ASSUME NEW j \in 1..b - a PROVE w[j] = g[j] - g[j - 1]
    OBVIOUS
  <2>1. a + j \in 1..n /\ (a + j) - 1 = a + (j - 1) /\ a + (j - 1) \in 0..n
    OBVIOUS
  <2>2. P[a + j] = P[a + (j - 1)] + v[a + j]
    BY <1>2, <2>1
  <2>3. w[j] = v[a + j] /\ g[j] = P[a + j] /\ g[j - 1] = P[a + (j - 1)]
    OBVIOUS
  <2>4. v[a + j] \in Int /\ P[a + (j - 1)] \in Int
    BY <1>1, <2>1
  <2> QED
    BY <2>2, <2>3, <2>4
<1>6. g[b - a] = P[b] /\ g[0] = P[a]
  BY <1>3
<1> HIDE DEF g, w
<1>7. SumFunction(w) = P[b] - P[a]
  BY <1>3, <1>4, <1>5, <1>6, Telescope
<1> QED
  BY <1>1, <1>3, <1>7 DEF w
-----------------------------------------------------------------------------
(* Finite sets in a strict order R, a set of pairs.                         *)

IsOrder(R, S) ==
  /\ \A a \in S : <<a, a>> \notin R
  /\ \A a, b, c \in S : <<a, b>> \in R /\ <<b, c>> \in R => <<a, c>> \in R
  /\ \A a, b \in S : a # b => <<a, b>> \in R \/ <<b, a>> \in R

\* How many come before x.
RankIn(R, S, x) == Cardinality({u \in S : <<u, x>> \in R})

\* The ranks are 0..n - 1, each of one element.
LEMMA Ranks ==
  ASSUME NEW S, IsFiniteSet(S), NEW R, IsOrder(R, S), NEW n, n = Cardinality(S)
  PROVE  /\ \A x \in S : RankIn(R, S, x) \in 0..n - 1
         /\ \A x, y \in S : <<x, y>> \in R => RankIn(R, S, x) < RankIn(R, S, y)
         /\ \A k \in 0..n - 1 : \E x \in S : RankIn(R, S, x) = k
<1> DEFINE below(x) == {u \in S : <<u, x>> \in R}
           r == [x \in S |-> Cardinality(below(x))]
<1>1. \A x \in S : x \notin below(x) /\ below(x) \in SUBSET S /\ below(x) # S
  BY DEF IsOrder
<1>2. \A T \in SUBSET S : /\ IsFiniteSet(T) /\ Cardinality(T) \in Nat
                          /\ Cardinality(T) <= n /\ (T # S => Cardinality(T) < n)
  <2> SUFFICES ASSUME NEW T \in SUBSET S
               PROVE  /\ IsFiniteSet(T) /\ Cardinality(T) \in Nat
                      /\ Cardinality(T) <= n /\ (T # S => Cardinality(T) < n)
    OBVIOUS
  <2>1. IsFiniteSet(T) /\ Cardinality(T) <= n /\ (Cardinality(T) = n => T = S)
    BY FS_Subset
  <2>2. Cardinality(T) \in Nat /\ n \in Nat
    BY <2>1, FS_CardinalityType
  <2> QED
    BY <2>1, <2>2
<1>3. n \in Nat
  BY FS_CardinalityType
<1>4. \A x \in S : r[x] \in 0..n - 1
  <2> SUFFICES ASSUME NEW x \in S PROVE r[x] \in 0..n - 1
    OBVIOUS
  <2> PICK T : T = below(x)
    OBVIOUS
  <2>1. T \in SUBSET S /\ T # S
    BY <1>1
  <2>2. Cardinality(T) \in Nat /\ Cardinality(T) < n
    BY <1>2, <2>1
  <2> QED
    BY <1>3, <2>2
<1>5. ASSUME NEW x \in S, NEW y \in S, <<x, y>> \in R
      PROVE  r[x] < r[y]
  <2> PICK T, U : T = below(x) /\ U = below(y)
    OBVIOUS
  <2>1. T \in SUBSET U /\ x \in U /\ x \notin T
    BY <1>5 DEF IsOrder
  <2>2. IsFiniteSet(U) /\ Cardinality(U) \in Nat /\ Cardinality(T) \in Nat
    BY <1>1, <1>2
  <2>3. Cardinality(T) <= Cardinality(U) /\ (Cardinality(T) = Cardinality(U) => T = U)
    BY <2>1, <2>2, FS_Subset
  <2> QED
    BY <2>1, <2>2, <2>3
<1>6. \A x, y \in S : r[x] = r[y] => x = y
  <2> SUFFICES ASSUME NEW x \in S, NEW y \in S, r[x] = r[y], x # y PROVE FALSE
    OBVIOUS
  <2>1. <<x, y>> \in R \/ <<y, x>> \in R
    BY DEF IsOrder
  <2>2. r[x] \in 0..n - 1 /\ r[y] \in 0..n - 1
    BY <1>4
  <2> HIDE DEF r
  <2>3. r[x] < r[y] \/ r[y] < r[x]
    BY <1>5, <2>1
  <2> QED
    BY <2>2, <2>3
<1>7. \A x \in S : RankIn(R, S, x) = r[x]
  BY DEF RankIn
<1> DEFINE K == 0..n - 1
<1>8. IsFiniteSet(K) /\ Cardinality(K) = n
  BY <1>3, BelowFinite
<1>9. r \in Injection(S, K)
  <2>1. r \in [S -> K]
    BY <1>4
  <2> HIDE DEF r, K
  <2> QED
    BY <1>6, <2>1 DEF Injection, IsInjective
<1>10. \A k \in K : \E x \in S : r[x] = k
  <2> HIDE DEF r, K
  <2>1. r \in Surjection(S, K)
    BY <1>8, <1>9, FS_Injection
  <2> QED
    BY <2>1 DEF Surjection
<1> HIDE DEF r
<1> QED
  BY <1>4, <1>5, <1>7, <1>10

\* A finite set in its order, as a sequence.
OrderOf(R, S) ==
  [i \in 1..Cardinality(S) |-> CHOOSE x \in S : RankIn(R, S, x) = i - 1]

LEMMA InItsOrder ==
  ASSUME NEW S, IsFiniteSet(S), NEW R, IsOrder(R, S), NEW n, n = Cardinality(S),
         NEW q, q = OrderOf(R, S)
  PROVE  /\ n \in Nat /\ q \in [1..n -> S]
         /\ \A i, j \in 1..n : q[i] = q[j] => i = j
         /\ \A i, j \in 1..n : i < j => <<q[i], q[j]>> \in R
         /\ \A x \in S : \E i \in 1..n : q[i] = x
<1>1. n \in Nat
  BY FS_CardinalityType
<1>0. q = [i \in 1..n |-> CHOOSE x \in S : RankIn(R, S, x) = i - 1]
  BY DEF OrderOf
<1>2. /\ \A x \in S : RankIn(R, S, x) \in 0..n - 1
      /\ \A x, y \in S : <<x, y>> \in R => RankIn(R, S, x) < RankIn(R, S, y)
      /\ \A k \in 0..n - 1 : \E x \in S : RankIn(R, S, x) = k
  BY Ranks
<1>3. ASSUME NEW i \in 1..n
      PROVE  q[i] \in S /\ RankIn(R, S, q[i]) = i - 1
  <2>1. i - 1 \in 0..n - 1
    BY <1>1
  <2> QED
    BY <1>0, <1>2, <2>1
<1>4. \A x, y \in S : RankIn(R, S, x) = RankIn(R, S, y) => x = y
  <2> SUFFICES ASSUME NEW x \in S, NEW y \in S, RankIn(R, S, x) = RankIn(R, S, y), x # y
               PROVE  FALSE
    OBVIOUS
  <2>1. <<x, y>> \in R \/ <<y, x>> \in R
    BY DEF IsOrder
  <2>2. RankIn(R, S, x) < RankIn(R, S, y) \/ RankIn(R, S, y) < RankIn(R, S, x)
    BY <1>2, <2>1
  <2>3. RankIn(R, S, x) \in Int
    BY <1>2
  <2> QED
    BY <2>2, <2>3
<1>5. q \in [1..n -> S]
  BY <1>0, <1>3
<1>6. \A i, j \in 1..n : q[i] = q[j] => i = j
  <2> SUFFICES ASSUME NEW i \in 1..n, NEW j \in 1..n, q[i] = q[j] PROVE i = j
    OBVIOUS
  <2>1. RankIn(R, S, q[i]) = i - 1 /\ RankIn(R, S, q[i]) = j - 1
    BY <1>3
  <2> QED
    BY <1>1, <2>1
<1>7. ASSUME NEW x \in S PROVE \E i \in 1..n : q[i] = x
  <2>1. RankIn(R, S, x) \in 0..n - 1
    BY <1>2
  <2> PICK k \in 0..n - 1 : k = RankIn(R, S, x)
    BY <2>1
  <2>2. k + 1 \in 1..n /\ (k + 1) - 1 = k
    BY <1>1
  <2>3. q[k + 1] \in S /\ RankIn(R, S, q[k + 1]) = k
    BY <1>3, <2>2
  <2>4. q[k + 1] = x
    BY <1>4, <2>3
  <2> QED
    BY <2>2, <2>4
<1>8. ASSUME NEW i \in 1..n, NEW j \in 1..n, i < j PROVE <<q[i], q[j]>> \in R
  <2>1. /\ q[i] \in S /\ q[j] \in S
        /\ RankIn(R, S, q[i]) = i - 1 /\ RankIn(R, S, q[j]) = j - 1
    BY <1>3
  <2>2. ~(j - 1 < i - 1) /\ i - 1 # j - 1
    BY <1>1, <1>8
  <2>3. <<q[i], q[j]>> \in R \/ <<q[j], q[i]>> \in R
    BY <2>1, <2>2 DEF IsOrder
  <2> QED
    BY <1>2, <2>1, <2>2, <2>3
<1> QED
  BY <1>1, <1>5, <1>6, <1>7, <1>8
-----------------------------------------------------------------------------
(* Folds over a sequence, from its first element to its last.               *)

\* A finite nonempty set of naturals has a greatest element.
LEMMA MaxIn ==
  ASSUME NEW n \in Nat, NEW S \in SUBSET (1..n), S # {}
  PROVE  Max(S) \in S /\ \A y \in S : Max(S) >= y
<1> DEFINE R == {m \in Nat : \A y \in S : m >= y}
<1>1. n \in R
  OBVIOUS
<1>2. PICK m \in R : \A k \in R : m <= k
  <2> HIDE DEF R
  <2>1. R \subseteq Nat
    BY DEF R
  <2> QED
    BY <1>1, <2>1, NatMin
<1>3. m \in S
  <2> SUFFICES ASSUME m \notin S PROVE FALSE
    OBVIOUS
  <2>1. \A y \in S : m > y
    BY <1>2
  <2>2. m - 1 \in R
    <3>1. PICK y \in S : TRUE
      OBVIOUS
    <3>2. m > y /\ y >= 1
      BY <2>1, <3>1
    <3> QED
      BY <1>2, <2>1, <3>2
  <2> QED
    BY <1>2, <2>2
<1>4. \E x \in S : \A y \in S : x >= y
  BY <1>2, <1>3
<1> QED
  BY <1>4, Zenon DEF Max

LEMMA MaxUpTo ==
  ASSUME NEW n \in Nat \ {0}
  PROVE  Max(1..n) = n /\ (1..n) \ {Max(1..n)} = 1..n - 1
<1> DEFINE S == 1..n
<1>a. n \in Nat /\ S \in SUBSET (1..n) /\ S # {}
  OBVIOUS
<1>1. Max(S) \in S /\ \A y \in S : Max(S) >= y
  <2> HIDE DEF S
  <2> QED
    BY <1>a, MaxIn
<1>2. Max(1..n) = n
  BY <1>1
<1> QED
  BY <1>2

\* What FoldLeft defines by recursion over the sets of indices.
IsLeftFold(g, n, base, step) ==
  \A s \in SUBSET (1..n) :
    g[s] = IF s = {} THEN base ELSE step[<<Max(s), g[s \ {Max(s)}]>>]

\* There is a function that does.
LEMMA LeftFoldExists ==
  ASSUME NEW n \in Nat, NEW A, NEW base \in A,
         NEW step \in [(1..n) \X A -> A]
  PROVE  \E g \in [SUBSET (1..n) -> A] : IsLeftFold(g, n, base, step)
<1> DEFINE c == [s \in SUBSET (1..n) |-> Max(s)]
<1>1. \A s \in SUBSET (1..n) : s # {} => c[s] \in s
  BY MaxIn
<1>2. IsFiniteSet(1..n)
  BY UpToFinite
<1> HIDE DEF c
<1>3. PICK g \in [SUBSET (1..n) -> A] : IsFold(g, 1..n, base, c, step)
  BY <1>1, <1>2, FoldExists
<1>4. \A s \in SUBSET (1..n) : c[s] = Max(s)
  BY DEF c
<1> QED
  BY <1>3, <1>4 DEF IsFold, IsLeftFold

\* Two runs that start and step alike agree.
LEMMA RunsAgree ==
  ASSUME NEW n \in Nat, NEW r, NEW q, r[0] = q[0],
         \A k \in 1..n : r[k - 1] = q[k - 1] => r[k] = q[k]
  PROVE  \A k \in 0..n : r[k] = q[k]
<1> DEFINE N == {k \in Nat : k <= n => r[k] = q[k]}
<1>1. 0 \in N
  OBVIOUS
<1>2. ASSUME NEW k \in Nat, k \in N PROVE k + 1 \in N
  <2>1. CASE k + 1 <= n
    <3>1. k + 1 \in 1..n /\ (k + 1) - 1 = k /\ k <= n
      BY <2>1
    <3>2. r[(k + 1) - 1] = q[(k + 1) - 1]
      BY <1>2, <3>1
    <3> QED
      BY <3>1, <3>2
  <2>2. CASE ~(k + 1 <= n)
    BY <2>2
  <2> QED
    BY <2>1, <2>2
<1> HIDE DEF N
<1>3. Nat \subseteq N
  BY <1>1, <1>2, NatSet
<1> QED
  BY <1>3 DEF N

\* A run of steps that stay in a set stays in it.
LEMMA RunStays ==
  ASSUME NEW n \in Nat, NEW r, NEW A, r[0] \in A,
         \A k \in 1..n : r[k - 1] \in A => r[k] \in A
  PROVE  \A k \in 0..n : r[k] \in A
<1> DEFINE N == {k \in Nat : k <= n => r[k] \in A}
<1>1. 0 \in N
  OBVIOUS
<1>2. ASSUME NEW k \in Nat, k \in N PROVE k + 1 \in N
  <2>1. CASE k + 1 <= n
    <3>1. k + 1 \in 1..n /\ (k + 1) - 1 = k /\ k <= n
      BY <2>1
    <3>2. r[(k + 1) - 1] \in A
      BY <1>2, <3>1
    <3> QED
      BY <3>1, <3>2
  <2>2. CASE ~(k + 1 <= n)
    BY <2>2
  <2> QED
    BY <2>1, <2>2
<1> HIDE DEF N
<1>3. Nat \subseteq N
  BY <1>1, <1>2, NatSet
<1> QED
  BY <1>3 DEF N
=============================================================================
