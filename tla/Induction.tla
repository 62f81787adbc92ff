------------------------------ MODULE Induction -------------------------------
(* Natural numbers, as the proofs of the other modules count with them. *)
EXTENDS Integers, TLAPS, FiniteSetTheorems, FunctionTheorems, WellFoundedInduction

\* A set of natural numbers that is not empty has a least element, as the
\* minimum that Scheduler::exit() looks for.
LEMMA Least ==
  ASSUME NEW S \in SUBSET Nat, S # {}
  PROVE  \E m \in S : \A n \in S : m <= n
<1> DEFINE T == {0 .. x : x \in S}
<1>1. T \subseteq FiniteSubsetsOf(Nat) /\ T # {}
  <2>1. ASSUME NEW x \in S
        PROVE  0 .. x \in SUBSET Nat /\ IsFiniteSet(0 .. x)
    <3>1. 0 \in Int /\ x \in Int
      OBVIOUS
    <3>2. IsFiniteSet(0 .. x)
      BY <3>1, FS_Interval
    <3>. QED  BY <3>2
  <2>. QED  BY <2>1 DEF FiniteSubsetsOf
<1>2. PICK t \in T : \A y \in T : ~ (<< y, t >> \in StrictSubsetOrdering(Nat))
  <2>. HIDE DEF T
  <2>. QED  BY <1>1, FS_StrictSubsetOrderingWellFounded, WFMin
<1>3. PICK m \in S : t = 0 .. m
  OBVIOUS
<1>4. ASSUME NEW n \in S, n < m
      PROVE  FALSE
  <2>1. 0 .. n \in T
    OBVIOUS
  <2>2. 0 .. n \subseteq 0 .. m /\ 0 .. n # 0 .. m
    <3>1. m \in 0 .. m /\ m \notin 0 .. n
      BY <1>4
    <3>. QED  BY <3>1, <1>4
  <2>3. 0 .. n \in SUBSET Nat /\ 0 .. m \in SUBSET Nat
    OBVIOUS
  <2>4. << 0 .. n, 0 .. m >> \notin StrictSubsetOrdering(Nat)
    BY <2>1, <1>2, <1>3
  <2>. HIDE DEF T
  <2>5. ASSUME NEW A \in SUBSET Nat, NEW B \in SUBSET Nat, A \subseteq B, A # B
        PROVE  << A, B >> \in StrictSubsetOrdering(Nat)
    BY <2>5 DEF StrictSubsetOrdering
  <2>. QED  BY <2>2, <2>3, <2>4, <2>5
<1>. QED  BY <1>4

\* What holds of 0, and of the number after any it holds of, holds of every number.
LEMMA SetInduction ==
  ASSUME NEW S \in SUBSET Nat, 0 \in S, \A k \in S : k + 1 \in S
  PROVE  Nat \subseteq S
<1> DEFINE Missing == Nat \ S
<1>1. SUFFICES ASSUME Missing # {} PROVE FALSE
  OBVIOUS
<1>2. PICK k \in Missing : \A n \in Missing : k <= n
  BY <1>1, Least
<1>3. k # 0 /\ k - 1 \in Nat /\ k - 1 \notin Missing
  BY <1>2
<1>. QED  BY <1>2, <1>3

\* The powers of two, by which widths of registers are counted: a set with one more element
\* has twice the subsets, those with it and those without.
LEMMA PowersOfTwo ==
  /\ 2 ^ 0 = 1
  /\ \A n \in Nat : 2 ^ n \in Nat \ {0} /\ 2 ^ (n + 1) = 2 * 2 ^ n
<1>1. 2 ^ 0 = 1
  <2>1. IsFiniteSet({}) /\ Cardinality({}) = 0
    BY FS_EmptySet
  <2>2. Cardinality(SUBSET {}) = 2 ^ 0
    BY <2>1, FS_SUBSET
  <2>3. SUBSET {} = {{}}
    OBVIOUS
  <2>4. Cardinality({{}}) = 1
    BY FS_Singleton
  <2>. QED  BY <2>2, <2>3, <2>4
<1>2. ASSUME NEW n \in Nat
      PROVE  2 ^ n \in Nat \ {0} /\ 2 ^ (n + 1) = 2 * 2 ^ n
  <2> DEFINE S == 1 .. n
             T == 1 .. n + 1
             P == (SUBSET S) \X {0, 1}
             f == [p \in P |-> IF p[2] = 1 THEN p[1] \cup {n + 1} ELSE p[1]]
  <2>1. IsFiniteSet(S) /\ Cardinality(S) = n /\ IsFiniteSet(T) /\ Cardinality(T) = n + 1
    BY FS_Interval
  <2>2. /\ IsFiniteSet(SUBSET S) /\ Cardinality(SUBSET S) = 2 ^ n
        /\ IsFiniteSet(SUBSET T) /\ Cardinality(SUBSET T) = 2 ^ (n + 1)
    <3>. HIDE DEF S, T
    <3>. QED  BY <2>1, FS_SUBSET
  <2>3. IsFiniteSet({0, 1}) /\ Cardinality({0, 1}) = 2
    <3>0. {0, 1} = {0} \cup {1} /\ 1 \notin {0}
      OBVIOUS
    <3>1. IsFiniteSet({0}) /\ Cardinality({0}) = 1
      BY FS_Singleton
    <3>2. IsFiniteSet({0} \cup {1}) /\ Cardinality({0} \cup {1}) = 1 + 1
      BY <3>0, <3>1, FS_AddElement
    <3>. QED  BY <3>0, <3>2
  <2>4. IsFiniteSet(P) /\ Cardinality(P) = 2 ^ n * 2
    <3> DEFINE A == SUBSET S
               B == {0, 1}
               w == 2 ^ n
    <3>1. P = A \X B /\ IsFiniteSet(A) /\ Cardinality(A) = w /\ IsFiniteSet(B) /\ Cardinality(B) = 2
      BY <2>2, <2>3
    <3>. HIDE DEF A, B, w, P
    <3>2. IsFiniteSet(A \X B) /\ Cardinality(A \X B) = w * 2
      BY <3>1, FS_Product
    <3>3. IsFiniteSet(P) /\ Cardinality(P) = w * 2
      BY <3>1, <3>2
    <3>. QED  BY <3>3 DEF w
  <2>5. n + 1 \notin S /\ T = S \cup {n + 1}
    OBVIOUS
  <2>6. f \in Bijection(P, SUBSET T)
    <3>. HIDE DEF S, T
    <3>1. f \in [P -> SUBSET T]
      BY <2>5
    <3>2. ASSUME NEW p \in P, NEW q \in P, f[p] = f[q]
          PROVE  p = q
      <4>1. /\ p[1] \in SUBSET S /\ p[2] \in {0, 1} /\ p = << p[1], p[2] >>
            /\ q[1] \in SUBSET S /\ q[2] \in {0, 1} /\ q = << q[1], q[2] >>
        OBVIOUS
      <4>2. n + 1 \notin p[1] /\ n + 1 \notin q[1]
        BY <2>5, <4>1
      <4>3. /\ f[p] = IF p[2] = 1 THEN p[1] \cup {n + 1} ELSE p[1]
            /\ f[q] = IF q[2] = 1 THEN q[1] \cup {n + 1} ELSE q[1]
        OBVIOUS
      <4>. HIDE DEF f, P
      <4>4. (p[2] = 1 <=> n + 1 \in f[p]) /\ (q[2] = 1 <=> n + 1 \in f[q])
        BY <4>2, <4>3
      <4>5. p[2] = q[2]
        BY <3>2, <4>1, <4>4
      <4>6. p[1] = f[p] \ {n + 1} /\ q[1] = f[q] \ {n + 1}
        BY <4>2, <4>3
      <4>. QED  BY <3>2, <4>1, <4>5, <4>6
    <3>3. ASSUME NEW U \in SUBSET T
          PROVE  \E p \in P : f[p] = U
      <4> DEFINE p == << U \ {n + 1}, IF n + 1 \in U THEN 1 ELSE 0 >>
      <4>1. p \in P
        BY <2>5
      <4>2. f[p] = U
        BY <4>1
      <4>. QED  BY <4>1, <4>2
    <3>. HIDE DEF f, P
    <3>4. f \in Injection(P, SUBSET T)
      BY <3>1, <3>2 DEF Injection, IsInjective
    <3>5. f \in Surjection(P, SUBSET T)
      BY <3>1, <3>3 DEF Surjection
    <3>. QED  BY <3>4, <3>5 DEF Bijection
  <2>7. Cardinality(SUBSET T) = Cardinality(P)
    <3>. HIDE DEF f, P, T
    <3>1. ExistsBijection(P, SUBSET T)
      BY <2>6 DEF ExistsBijection
    <3>. QED  BY <2>4, <3>1, FS_Bijection
  <2>8. 2 ^ n \in Nat /\ 2 ^ n # 0
    <3>1. Cardinality(SUBSET S) \in Nat
      BY <2>2, FS_CardinalityType
    <3>2. SUBSET S # {}
      <4>1. {} \in SUBSET S
        OBVIOUS
      <4>. QED  BY <4>1
    <3>3. Cardinality(SUBSET S) # 0
      <4>. HIDE DEF S
      <4>. QED  BY <2>2, <3>2, FS_EmptySet
    <3>. QED  BY <2>2, <3>1, <3>3
  <2>9. 2 ^ (n + 1) = 2 ^ n * 2
    BY <2>2, <2>4, <2>7
  <2>. QED  BY <2>8, <2>9
<1>. QED  BY <1>1, <1>2

\* A number is a multiple of w and a remainder.
LEMMA Division ==
  ASSUME NEW a \in Int, NEW w \in Nat \ {0}
  PROVE  \E q \in Int : \E r \in 0 .. w - 1 : q = a \div w /\ r = a % w /\ a = w * q + r
<1>1. a % w \in 0 .. w - 1 /\ a \div w \in Int
  OBVIOUS
<1>2. PICK q \in Int : q = a \div w
  BY <1>1
<1>3. PICK t \in Int : t = w * q
  OBVIOUS
<1>4. a % w = a - w * (a \div w)
  OBVIOUS
<1>5. a % w = a - t
  BY <1>2, <1>3, <1>4
<1>6. PICK r \in 0 .. w - 1 : r = a % w
  BY <1>1
<1>7. a = t + r
  BY <1>5, <1>6
<1>8. a = w * q + r
  BY <1>3, <1>7
<1>. QED  BY <1>2, <1>6, <1>8

\* There is one such remainder, and one such quotient.
LEMMA Remainder ==
  ASSUME NEW w \in Nat \ {0}, NEW q \in Int, NEW p \in Int,
         NEW r \in 0 .. w - 1, NEW s \in 0 .. w - 1, w * q + r = w * p + s
  PROVE  r = s /\ q = p
<1>1. w * (q - p) = s - r
  OBVIOUS
<1>2. CASE q - p >= 1
  <2>1. w * (q - p) >= w
    BY <1>2
  <2>. QED  BY <1>1, <2>1
<1>3. CASE q - p <= -1
  <2>1. w * (p - q) >= w
    BY <1>3
  <2>2. w * (p - q) = r - s
    OBVIOUS
  <2>. QED  BY <2>1, <2>2
<1>4. CASE q = p
  BY <1>1, <1>4
<1>. QED  BY <1>2, <1>3, <1>4

\* Powers of a sum are products of powers.
LEMMA PowerSum ==
  \A m \in Nat, n \in Nat : 2 ^ (m + n) = 2 ^ m * 2 ^ n
<1> SUFFICES ASSUME NEW m \in Nat
             PROVE  \A n \in Nat : 2 ^ (m + n) = 2 ^ m * 2 ^ n
  OBVIOUS
<1> DEFINE S == {n \in Nat : 2 ^ (m + n) = 2 ^ m * 2 ^ n}
<1>1. 0 \in S
  <2>1. 2 ^ 0 = 1 /\ 2 ^ m \in Nat /\ m + 0 = m
    BY PowersOfTwo
  <2>2. \A x \in Nat : x = x * 1
    OBVIOUS
  <2>3. 2 ^ (m + 0) = 2 ^ m * 2 ^ 0
    BY <2>1, <2>2
  <2>. QED  BY <2>3
<1>2. ASSUME NEW n \in S
      PROVE  n + 1 \in S
  <2> DEFINE a == 2 ^ m
             b == 2 ^ n
             c == 2 ^ (m + n)
  <2>1. a \in Nat /\ b \in Nat /\ c = a * b
    BY PowersOfTwo
  <2>2. m + n \in Nat /\ m + (n + 1) = (m + n) + 1 /\ n + 1 \in Nat
    OBVIOUS
  <2>3. 2 ^ (m + (n + 1)) = 2 * c /\ 2 ^ (n + 1) = 2 * b
    BY <2>2, PowersOfTwo
  <2>. HIDE DEF a, b, c
  <2>4. 2 * c = a * (2 * b)
    BY <2>1
  <2>5. 2 ^ (m + (n + 1)) = a * 2 ^ (n + 1)
    BY <2>3, <2>4
  <2>. QED  BY <2>2, <2>5 DEF a
<1>3. Nat \subseteq S
  <2>. HIDE DEF S
  <2>1. S \in SUBSET Nat
    BY DEF S
  <2>. QED  BY <1>1, <1>2, <2>1, SetInduction
<1>. QED  BY <1>3

\* A sum of unsigned counts wraps as the sum of what was counted.
LEMMA ModAdd ==
  ASSUME NEW a \in Int, NEW b \in Int, NEW w \in Nat \ {0}
  PROVE  ((a % w) + b) % w = (a + b) % w
<1>1. PICK q1 \in Int : \E r \in 0 .. w - 1 : r = a % w /\ a = w * q1 + r
  BY Division
<1>2. PICK r1 \in 0 .. w - 1 : r1 = a % w /\ a = w * q1 + r1
  BY <1>1
<1>3. PICK q2 \in Int : \E r \in 0 .. w - 1 : r = (r1 + b) % w /\ r1 + b = w * q2 + r
  <2>1. r1 + b \in Int
    OBVIOUS
  <2>. QED  BY <2>1, Division
<1>4. PICK r2 \in 0 .. w - 1 : r2 = (r1 + b) % w /\ r1 + b = w * q2 + r2
  BY <1>3
<1>5. PICK q3 \in Int : \E r \in 0 .. w - 1 : r = (a + b) % w /\ a + b = w * q3 + r
  <2>1. a + b \in Int
    OBVIOUS
  <2>. QED  BY <2>1, Division
<1>6. PICK r3 \in 0 .. w - 1 : r3 = (a + b) % w /\ a + b = w * q3 + r3
  BY <1>5
<1>7. a = w * q1 + r1 /\ r1 + b = w * q2 + r2 /\ a + b = w * q3 + r3
  BY <1>2, <1>4, <1>6
<1>8. w * q1 + w * q2 = w * (q1 + q2) /\ w * q1 \in Int /\ w * q2 \in Int /\ q1 + q2 \in Int
  OBVIOUS
<1>9. w * (q1 + q2) + r2 = w * q3 + r3
  BY <1>7, <1>8
<1>10. r2 = r3
  BY <1>8, <1>9, Remainder
<1>. QED  BY <1>2, <1>4, <1>6, <1>10

\* f has the partial sums of g, n of them from the a-th on.
IsSum(f, a, n, g) == f = [i \in a .. a + n |-> IF i = a THEN 0 ELSE f[i - 1] + g[i - 1]]

\* There are such sums.
LEMMA SumExists ==
  ASSUME NEW a \in Nat, NEW n \in Nat, NEW g
  PROVE  \E f : IsSum(f, a, n, g)
<1> DEFINE Is(k, f) == f = [i \in a .. a + k |-> IF i = a THEN 0 ELSE f[i - 1] + g[i - 1]]
           S == {k \in Nat : \E f : Is(k, f)}
<1>1. 0 \in S
  <2>1. Is(0, [i \in a .. a + 0 |-> 0])
    OBVIOUS
  <2>. QED  BY <2>1
<1>2. ASSUME NEW k \in S PROVE k + 1 \in S
  <2>1. PICK f : Is(k, f)
    OBVIOUS
  <2> DEFINE last == a + (k + 1)
             sum  == f[a + k] + g[a + k]
             next == [i \in a .. last |-> IF i = last THEN sum ELSE f[i]]
  <2>2. ASSUME NEW i \in a .. last
        PROVE  next[i] = IF i = a THEN 0 ELSE next[i - 1] + g[i - 1]
    <3>1. CASE i = a
      BY <3>1, <2>1
    <3>2. CASE i \in a + 1 .. a + k
      <4>1. next[i] = f[i] /\ next[i - 1] = f[i - 1]
        BY <3>2
      <4>2. i \in a .. a + k /\ i # a
        BY <3>2
      <4>. HIDE DEF next
      <4>. QED  BY <4>1, <4>2, <2>1
    <3>3. CASE i = last
      <4>1. next[i] = sum /\ next[i - 1] = f[i - 1] /\ i # a /\ i - 1 = a + k
        BY <3>3
      <4>. HIDE DEF next
      <4>. QED  BY <4>1
    <3>. QED  BY <3>1, <3>2, <3>3
  <2>3. Is(k + 1, next)
    BY <2>2
  <2>4. k + 1 \in Nat
    OBVIOUS
  <2>. HIDE DEF next, Is
  <2>. QED  BY <2>3, <2>4
<1>3. \E f : Is(n, f)
  <2>. HIDE DEF Is
  <2>. QED  BY <1>1, <1>2, SetInduction
<1>. QED  BY <1>3 DEF IsSum

\* Those of natural numbers grow.
LEMMA SumGrows ==
  ASSUME NEW a \in Nat, NEW n \in Nat, NEW g, NEW f,
         IsSum(f, a, n, g),
         \A i \in a .. a + n - 1 : g[i] \in Nat
  PROVE  /\ f[a] = 0 /\ \A i \in a .. a + n - 1 : f[i + 1] = f[i] + g[i]
         /\ \A i \in a .. a + n : f[i] \in Nat
         /\ \A i, j \in a .. a + n : i <= j => f[i] <= f[j]
<1>1. f[a] = 0
  BY DEF IsSum
<1>2. \A i \in a .. a + n - 1 : f[i + 1] = f[i] + g[i]
  <2>. SUFFICES ASSUME NEW i \in a .. a + n - 1 PROVE f[i + 1] = f[i] + g[i]
    OBVIOUS
  <2>1. i + 1 \in a .. a + n /\ i + 1 # a /\ i + 1 - 1 = i
    OBVIOUS
  <2>. QED  BY <2>1 DEF IsSum
<1> DEFINE Up(k) == f[a + k] \in Nat /\ \A i \in a .. a + k : f[i] \in Nat /\ f[i] <= f[a + k]
           S == {k \in Nat : k <= n => Up(k)}
<1>3. 0 \in S
  <2>1. a + 0 = a /\ \A i \in a .. a + 0 : i = a
    OBVIOUS
  <2>2. Up(0)
    BY <1>1, <2>1
  <2>. HIDE DEF Up
  <2>. QED  BY <2>2
<1>4. ASSUME NEW k \in S PROVE k + 1 \in S
  <2>1. SUFFICES ASSUME k + 1 <= n PROVE Up(k + 1)
    <3>. HIDE DEF Up
    <3>. QED  OBVIOUS
  <2>2. k \in Nat /\ Up(k)
    <3>. HIDE DEF Up
    <3>. QED  BY <2>1
  <2>3. a + k \in a .. a + n - 1 /\ a + k + 1 = a + (k + 1)
    BY <2>1, <2>2
  <2>4. f[a + (k + 1)] = f[a + k] + g[a + k] /\ g[a + k] \in Nat
    BY <1>2, <2>3
  <2>5. \A i \in a .. a + (k + 1) : i \in a .. a + k \/ i = a + (k + 1)
    BY <2>2
  <2>6. f[a + k] <= f[a + (k + 1)] /\ f[a + (k + 1)] \in Nat /\ f[a + k] \in Nat
    BY <2>2, <2>4
  <2> DEFINE new == f[a + (k + 1)]
             old == f[a + k]
  <2>7. \A i \in a .. a + k : f[i] \in Nat /\ f[i] <= old
    BY <2>2
  <2>8. new \in Nat /\ old \in Nat /\ old <= new
    BY <2>6
  <2>9. \A i \in a .. a + k : f[i] \in Nat /\ f[i] <= new
    <3>. SUFFICES ASSUME NEW i \in a .. a + k PROVE f[i] \in Nat /\ f[i] <= new
      OBVIOUS
    <3>1. f[i] \in Nat /\ f[i] <= old
      BY <2>7
    <3>. HIDE DEF old, new
    <3>. QED  BY <2>8, <3>1
  <2>10. \A i \in a .. a + (k + 1) : f[i] \in Nat /\ f[i] <= new
    <3>. SUFFICES ASSUME NEW i \in a .. a + (k + 1) PROVE f[i] \in Nat /\ f[i] <= new
      OBVIOUS
    <3>1. CASE i \in a .. a + k
      BY <2>9, <3>1
    <3>2. CASE i = a + (k + 1)
      BY <2>8, <3>2
    <3>. QED  BY <2>5, <3>1, <3>2
  <2>. QED  BY <2>8, <2>10
<1>5. \A k \in Nat : k <= n => Up(k)
  <2>1. S \subseteq Nat
    OBVIOUS
  <2>2. \A k \in Nat : k \in S
    <3>. HIDE DEF S
    <3>. QED  BY <1>3, <1>4, <2>1, SetInduction
  <2>. QED  BY <2>2
<1>6. \A j \in a .. a + n : j - a \in Nat /\ j - a <= n /\ a + (j - a) = j
  OBVIOUS
<1>7. \A j \in a .. a + n : f[j] \in Nat /\ \A i \in a .. j : f[i] <= f[j]
  <2>. SUFFICES ASSUME NEW j \in a .. a + n PROVE f[j] \in Nat /\ \A i \in a .. j : f[i] <= f[j]
    OBVIOUS
  <2>1. Up(j - a) /\ a + (j - a) = j
    BY <1>5, <1>6
  <2>. QED  BY <2>1
<1>8. \A i, j \in a .. a + n : i <= j => i \in a .. j
  OBVIOUS
<1>. QED  BY <1>1, <1>2, <1>7, <1>8

=============================================================================
