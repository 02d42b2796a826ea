------------------------------ MODULE NatLemmas ------------------------------
(***************************************************************************)
(* Facts about numbers that the proofs of several components need: the     *)
(* least element of a set, remainders, the number of chunks that a length  *)
(* takes, and sums over a finite set.                                      *)
(***************************************************************************)
EXTENDS Integers, FiniteSetsExt, Functions, WellFoundedInduction, FiniteSetTheorems, TLAPS

\* The least-number principle, for sets.
LEMMA LeastNat ==
    ASSUME NEW T, T \subseteq Nat, T # {}
    PROVE  \E x \in T : \A y \in T : x <= y
<1> DEFINE R == {ss \in Nat \X Nat : ss[1] < ss[2]}
<1>1. IsWellFoundedOn(R, Nat)
    BY NatLessThanWellFounded DEF OpToRel
<1>2. PICK x \in T : \A y \in T : ~(<<y, x>> \in R)
    BY <1>1, WFMin
<1>3. \A y \in T : ~(y < x)
    BY <1>2
<1>4. QED
    BY <1>3

\* Min() of a set of natural numbers that is not empty.
LEMMA MinOfSet ==
    ASSUME NEW T, T \subseteq Nat, T # {}
    PROVE  Min(T) \in T /\ \A y \in T : Min(T) <= y
BY LeastNat DEF Min

\* Min() of two integers.
LEMMA MinOfTwo ==
    ASSUME NEW a \in Int, NEW b \in Int
    PROVE  Min({a, b}) = IF a <= b THEN a ELSE b
BY DEF Min

\* The remainder of a number below the divisor.
LEMMA ModOfSmall ==
    ASSUME NEW a \in Nat, NEW b \in Nat, a < b
    PROVE  a % b = a
OBVIOUS

\* The remainder of a number that differs from a smaller one by a multiple.
LEMMA ModUnique ==
    ASSUME NEW m \in Nat \ {0}, NEW q \in Int, NEW r \in 0 .. m - 1
    PROVE  (m * q + r) % m = r
<1> DEFINE a == m * q + r
           p == a \div m
           s == a % m
<1>1. a \in Int /\ p \in Int /\ s \in 0 .. m - 1 /\ a = m * p + s
    OBVIOUS
<1>2. m * (p - q) = m * p - m * q /\ p - q \in Int
    BY <1>1
<1>3. m * (p - q) < m /\ m * (p - q) > -m
  <2> HIDE DEF p, s
  <2>1. QED
      BY <1>1, <1>2
<1>4. p - q < 1 /\ p - q > -1
  <2> HIDE DEF p, s
  <2> DEFINE k == p - q
  <2>1. k \in Int /\ m * k < m /\ m * k > -m
      BY <1>2, <1>3
  <2> HIDE DEF k
  <2>2. ~(k >= 1)
    <3>1. k >= 1 => m * k >= m
        BY <2>1
    <3>2. QED
        BY <2>1, <3>1
  <2>3. ~(k <= -1)
    <3>1. k <= -1 => m * k <= -m
        BY <2>1
    <3>2. QED
        BY <2>1, <3>1
  <2>4. QED
      BY <2>1, <2>2, <2>3 DEF k
<1>5. p = q
    BY <1>1, <1>4
<1>6. QED
    BY <1>1, <1>5

\* A sum may be reduced before a number is added to it.
LEMMA ModAdd ==
    ASSUME NEW m \in Nat \ {0}, NEW a \in Int, NEW b \in Int
    PROVE  ((a % m) + b) % m = (a + b) % m
<1> DEFINE c == (a % m) + b
           q == a \div m
           p == c \div m
           r == c % m
<1>1. c \in Int /\ q \in Int /\ a + b = m * q + c
    OBVIOUS
<1>2. p \in Int /\ r \in 0 .. m - 1 /\ c = m * p + r
    BY <1>1
<1>3. q + p \in Int /\ m * (q + p) = m * q + m * p /\ m * q \in Int /\ m * p \in Int
    BY <1>1, <1>2
<1>4. a + b = m * (q + p) + r
  <2> HIDE DEF c, q, p, r
  <2>1. QED
      BY <1>1, <1>2, <1>3
<1>5. (m * (q + p) + r) % m = r
    BY <1>2, <1>3, ModUnique
<1>6. QED
    BY <1>4, <1>5

\* What is subtracted may be reduced before.
LEMMA ModLess ==
    ASSUME NEW m \in Nat \ {0}, NEW a \in Int, NEW b \in Int
    PROVE  (a - (b % m)) % m = (a - b) % m
<1> DEFINE c == a - b
           q == b \div m
           p == c \div m
           r == c % m
<1>1. c \in Int /\ q \in Int /\ b % m \in Int /\ b = m * q + (b % m)
    OBVIOUS
<1>2. p \in Int /\ r \in 0 .. m - 1 /\ c = m * p + r
    BY <1>1
<1>3. q + p \in Int /\ m * (q + p) = m * q + m * p /\ m * q \in Int /\ m * p \in Int
    BY <1>1, <1>2
<1>4. a - (b % m) = m * (q + p) + r
  <2>1. a - (b % m) = c + m * q
    <3>1. PICK d \in Int : d = b % m /\ b = m * q + d
        BY <1>1
    <3>2. PICK e \in Int : e = m * q
        BY <1>3
    <3> HIDE DEF q
    <3>3. a - d = (a - b) + e
        BY <3>1, <3>2
    <3>4. QED
        BY <3>1, <3>2, <3>3
  <2> HIDE DEF c, q, p, r
  <2>2. QED
      BY <1>1, <1>2, <1>3, <2>1
<1>5. (m * (q + p) + r) % m = r
    BY <1>2, <1>3, ModUnique
<1>6. QED
    BY <1>4, <1>5

\* A remainder is no larger than the number.
LEMMA ModAtMost ==
    ASSUME NEW m \in Nat \ {0}, NEW a \in Nat
    PROVE  a % m \in Nat /\ a % m <= a
<1>1. CASE a < m
    BY <1>1, ModOfSmall
<1>2. CASE a >= m
    BY <1>2
<1>3. QED
    BY <1>1, <1>2

\* Chunks of a fixed length: those before the last one are full, and together
\* they hold everything.
LEMMA ChunkBounds ==
    ASSUME NEW size \in Nat, NEW len \in Nat \ {0}, NEW n \in Nat
    PROVE  /\ (size + len - 1) \div len \in Nat
           /\ n < (size + len - 1) \div len <=> n * len < size
           /\ n * len \in Nat
           /\ (n + 1) * len = n * len + len
<1>1. (size + len - 1) \div len \in Nat
    OBVIOUS
<1>2. n < (size + len - 1) \div len => n * len < size
    OBVIOUS
<1>3. n >= (size + len - 1) \div len => n * len >= size
    OBVIOUS
<1>4. n * len \in Nat /\ (n + 1) * len = n * len + len
    OBVIOUS
<1>5. QED
    BY <1>1, <1>2, <1>3, <1>4

-----------------------------------------------------------------------------
(* Sums. SumFunctionOnSet() takes the elements one after the other, in an  *)
(* order that nobody knows.                                                *)

FirstOf(s) == CHOOSE x \in s : TRUE

\* A function that sums up every subset in that order.
IsSum(it, F, S) ==
    it = [s \in SUBSET S |-> IF s = {} THEN 0 ELSE F[FirstOf(s)] + it[s \ {FirstOf(s)}]]

LEMMA SmallerSet ==
    ASSUME NEW s, IsFiniteSet(s), NEW x \in s
    PROVE  /\ IsFiniteSet(s \ {x})
           /\ Cardinality(s \ {x}) \in Nat /\ Cardinality(s) \in Nat
           /\ Cardinality(s \ {x}) < Cardinality(s)
<1>1. IsFiniteSet(s \ {x}) /\ Cardinality(s \ {x}) = Cardinality(s) - 1
    BY FS_RemoveElement
<1>2. Cardinality(s \ {x}) \in Nat /\ Cardinality(s) \in Nat
    BY <1>1, FS_CardinalityType
<1>3. QED
    BY <1>1, <1>2

LEMMA PickFrom ==
    ASSUME NEW s, s # {}
    PROVE  FirstOf(s) \in s
BY DEF FirstOf

\* It has the value it is meant to have, whatever element is taken first.
LEMMA AnyFirst ==
    ASSUME NEW S, IsFiniteSet(S), NEW F, \A x \in S : F[x] \in Int, NEW it, IsSum(it, F, S)
    PROVE  /\ it[{}] = 0
           /\ \A s \in SUBSET S : it[s] \in Int /\ \A x \in s : it[s] = F[x] + it[s \ {x}]
<1>1. /\ it[{}] = 0
      /\ \A s \in SUBSET S : s # {} => it[s] = F[FirstOf(s)] + it[s \ {FirstOf(s)}]
    BY DEF IsSum
<1> DEFINE good(s) == it[s] \in Int /\ \A x \in s : it[s] = F[x] + it[s \ {x}]
           T == { n \in Nat : \E s \in SUBSET S : Cardinality(s) = n /\ ~good(s) }
<1>2. \A s \in SUBSET S : IsFiniteSet(s) /\ Cardinality(s) \in Nat
    BY FS_Subset, FS_CardinalityType
<1>3. SUFFICES ASSUME T # {} PROVE FALSE
    BY <1>1, <1>2
<1> HIDE DEF T
<1>4. PICK n \in T : \A k \in T : n <= k
    BY <1>3, LeastNat DEF T
<1>5. PICK s \in SUBSET S : Cardinality(s) = n /\ ~good(s)
    BY <1>4 DEF T
<1>6. \A r \in SUBSET S : Cardinality(r) < n => good(r)
    BY <1>2, <1>4 DEF T
<1>7. s # {}
  <2> SUFFICES ASSUME s = {} PROVE good(s)
      BY <1>5
  <2>1. it[s] = 0
      BY <1>1
  <2>2. QED
      BY <2>1
<1> DEFINE c == FirstOf(s)
<1>8. c \in s /\ it[s] = F[c] + it[s \ {c}]
    BY <1>1, <1>7, PickFrom
<1> HIDE DEF c
<1>9. \A x \in s : s \ {x} \in SUBSET S /\ good(s \ {x}) /\ F[x] \in Int
  <2>1. ASSUME NEW x \in s
        PROVE  s \ {x} \in SUBSET S /\ Cardinality(s \ {x}) < n
      BY <1>2, <1>5, SmallerSet
  <2>2. QED
      BY <1>6, <2>1
<1>10. it[s] \in Int
  <2>1. F[c] \in Int /\ it[s \ {c}] \in Int
      BY <1>8, <1>9
  <2>2. QED
      BY <1>8, <2>1
<1>11. ASSUME NEW x \in s
       PROVE  it[s] = F[x] + it[s \ {x}]
  <2>1. CASE x = c
      BY <1>8, <2>1
  <2>2. CASE x # c
    <3>1. it[s \ {c}] = F[x] + it[(s \ {c}) \ {x}]
        BY <1>8, <1>9, <2>2
    <3>2. it[s \ {x}] = F[c] + it[(s \ {x}) \ {c}]
        BY <1>8, <1>9, <2>2
    <3>3. (s \ {c}) \ {x} = (s \ {x}) \ {c}
        OBVIOUS
    <3>4. (s \ {c}) \ {x} \in SUBSET S /\ it[(s \ {c}) \ {x}] \in Int
      <4>1. /\ IsFiniteSet(s \ {c}) /\ x \in s \ {c}
            /\ Cardinality(s \ {c}) < n /\ Cardinality(s \ {c}) \in Nat
          BY <1>2, <1>5, <1>8, <2>2, SmallerSet
      <4>2. Cardinality((s \ {c}) \ {x}) < n
        <5>1. /\ Cardinality((s \ {c}) \ {x}) \in Nat
              /\ Cardinality((s \ {c}) \ {x}) < Cardinality(s \ {c})
            BY <4>1, SmallerSet
        <5>2. n \in Nat
            BY <1>4 DEF T
        <5>3. QED
            BY <4>1, <5>1, <5>2
      <4>3. QED
          BY <1>6, <4>2
    <3> DEFINE rest == it[(s \ {c}) \ {x}]
    <3>5. it[s] = F[c] + (F[x] + rest) /\ it[s \ {x}] = F[c] + rest
        BY <1>8, <3>1, <3>2, <3>3
    <3>6. rest \in Int /\ F[c] \in Int /\ F[x] \in Int
        BY <1>8, <1>9, <3>4
    <3> HIDE DEF rest
    <3>7. QED
        BY <3>5, <3>6
  <2>3. QED
      BY <2>1, <2>2
<1>12. QED
    BY <1>5, <1>10, <1>11

\* Two of them agree where both are defined and the functions agree.
LEMMA SameSums ==
    ASSUME NEW S, IsFiniteSet(S), NEW R, NEW F, NEW G, NEW it, NEW jt,
           IsSum(it, F, S), IsSum(jt, G, R), S \subseteq R, \A x \in S : F[x] = G[x]
    PROVE  it[S] = jt[S]
<1>1. /\ it[{}] = 0
      /\ \A s \in SUBSET S : s # {} => it[s] = F[FirstOf(s)] + it[s \ {FirstOf(s)}]
    BY DEF IsSum
<1>2. /\ jt[{}] = 0
      /\ \A s \in SUBSET R : s # {} => jt[s] = G[FirstOf(s)] + jt[s \ {FirstOf(s)}]
    BY DEF IsSum
<1> DEFINE T == { n \in Nat : \E s \in SUBSET S : Cardinality(s) = n /\ it[s] # jt[s] }
<1>3. \A s \in SUBSET S : IsFiniteSet(s) /\ Cardinality(s) \in Nat
    BY FS_Subset, FS_CardinalityType
<1>4. SUFFICES ASSUME T # {} PROVE FALSE
    BY <1>3
<1> HIDE DEF T
<1>5. PICK n \in T : \A k \in T : n <= k
    BY <1>4, LeastNat DEF T
<1>6. PICK s \in SUBSET S : Cardinality(s) = n /\ it[s] # jt[s]
    BY <1>5 DEF T
<1>7. s # {} /\ s \in SUBSET R
    BY <1>1, <1>2, <1>6
<1> DEFINE c == FirstOf(s)
<1>8. c \in s
    BY <1>7, PickFrom
<1>9. it[s] = F[c] + it[s \ {c}] /\ jt[s] = G[c] + jt[s \ {c}]
    BY <1>1, <1>2, <1>7
<1> HIDE DEF c
<1>10. Cardinality(s \ {c}) < n /\ s \ {c} \in SUBSET S /\ Cardinality(s \ {c}) \in Nat
    BY <1>3, <1>6, <1>8, SmallerSet
<1>11. it[s \ {c}] = jt[s \ {c}]
    BY <1>5, <1>10 DEF T
<1>12. QED
    BY <1>6, <1>8, <1>9, <1>11

\* There is one, for every finite set.
LEMMA SumExists ==
    ASSUME NEW S, IsFiniteSet(S), NEW F
    PROVE  \E it : IsSum(it, F, S)
<1> DEFINE D(n) == { s \in SUBSET S : Cardinality(s) <= n }
           next(f, s) == IF s = {} THEN 0 ELSE F[FirstOf(s)] + f[s \ {FirstOf(s)}]
           upto(n) == \E f : f = [s \in D(n) |-> next(f, s)]
           T == { n \in Nat : ~upto(n) }
<1>1. \A s \in SUBSET S : IsFiniteSet(s) /\ Cardinality(s) \in Nat
    BY FS_Subset, FS_CardinalityType
<1>2. upto(0)
  <2> DEFINE f == [s \in D(0) |-> 0]
  <2>1. \A s \in D(0) : s = {}
    <3>1. \A s \in SUBSET S : Cardinality(s) <= 0 => Cardinality(s) = 0
        BY <1>1
    <3>2. \A s \in SUBSET S : Cardinality(s) = 0 => s = {}
        BY <1>1, FS_EmptySet
    <3>3. QED
        BY <3>1, <3>2
  <2>2. \A s \in D(0) : next(f, s) = 0
      BY <2>1
  <2> HIDE DEF D, next
  <2>3. f = [s \in D(0) |-> next(f, s)]
      BY <2>2
  <2>4. QED
      BY <2>3
<1>3. ASSUME NEW n \in Nat, upto(n)
      PROVE  upto(n + 1)
  <2>1. PICK f : f = [s \in D(n) |-> next(f, s)]
      BY <1>3
  <2> DEFINE g == [s \in D(n + 1) |-> next(f, s)]
  <2>2. \A s \in D(n) : s \in D(n + 1)
      BY <1>1
  <2>3. \A s \in D(n + 1) : s # {} => s \ {FirstOf(s)} \in D(n)
    <3> SUFFICES ASSUME NEW s \in D(n + 1), s # {}
                 PROVE  s \ {FirstOf(s)} \in D(n)
        OBVIOUS
    <3>1. FirstOf(s) \in s
        BY PickFrom
    <3>2. /\ Cardinality(s \ {FirstOf(s)}) \in Nat /\ Cardinality(s) \in Nat
          /\ Cardinality(s \ {FirstOf(s)}) < Cardinality(s)
        BY <1>1, <3>1, SmallerSet
    <3>3. QED
        BY <3>2
  <2> HIDE DEF D
  <2>4. \A s \in D(n) : g[s] = f[s]
    <3> HIDE DEF next
    <3>1. \A s \in D(n) : f[s] = next(f, s)
        BY <2>1
    <3>2. QED
        BY <2>2, <3>1
  <2>5. \A s \in D(n + 1) : next(f, s) = next(g, s)
    <3> HIDE DEF g
    <3>1. QED
        BY <2>3, <2>4
  <2>6. g = [s \in D(n + 1) |-> next(g, s)]
    <3> HIDE DEF next
    <3>1. QED
        BY <2>5
  <2>7. QED
      BY <2>6
<1>4. \A n \in Nat : upto(n)
  <2> HIDE DEF upto
  <2>1. SUFFICES ASSUME T # {} PROVE FALSE
      OBVIOUS
  <2> HIDE DEF T
  <2>2. PICK n \in T : \A k \in T : n <= k
      BY <2>1, LeastNat DEF T
  <2>3. n \in Nat /\ ~upto(n) /\ n # 0
      BY <1>2, <2>2 DEF T
  <2>4. upto(n - 1)
      BY <2>2, <2>3 DEF T
  <2>5. upto((n - 1) + 1)
      BY <1>3, <2>3, <2>4
  <2>6. (n - 1) + 1 = n
      BY <2>3
  <2>7. QED
      BY <2>3, <2>5, <2>6
<1>5. D(Cardinality(S)) = SUBSET S
  <2>1. \A s \in SUBSET S : Cardinality(s) <= Cardinality(S)
      BY FS_Subset
  <2>2. QED
      BY <2>1
<1>6. Cardinality(S) \in Nat
    BY FS_CardinalityType
<1>7. PICK f : f = [s \in D(Cardinality(S)) |-> next(f, s)]
    BY <1>4, <1>6
<1> HIDE DEF D
<1>8. QED
    BY <1>5, <1>7 DEF IsSum

\* What the library calls the sum is such a function.
LEMMA SumIsSum ==
    ASSUME NEW S, IsFiniteSet(S), NEW F
    PROVE  \E it : IsSum(it, F, S) /\ SumFunctionOnSet(F, S) = it[S]
<1> DEFINE it == CHOOSE f : IsSum(f, F, S)
<1>1. SumFunctionOnSet(F, S) = it[S]
    BY DEF SumFunctionOnSet, FoldFunctionOnSet, MapThenFoldSet, IsSum, FirstOf
<1>2. IsSum(it, F, S)
    BY SumExists
<1>3. QED
    BY <1>1, <1>2

LEMMA SumOfNone ==
    ASSUME NEW F
    PROVE  SumFunctionOnSet(F, {}) = 0
<1>1. IsFiniteSet({})
    BY FS_EmptySet
<1>2. QED
    BY <1>1, SumIsSum DEF IsSum

\* A sum of zeros is zero.
LEMMA SumOfZeros ==
    ASSUME NEW S, IsFiniteSet(S), NEW F, \A y \in S : F[y] = 0
    PROVE  SumFunctionOnSet(F, S) = 0
<1>1. PICK it : IsSum(it, F, S) /\ SumFunctionOnSet(F, S) = it[S]
    BY SumIsSum
<1> DEFINE T == { n \in Nat : \E s \in SUBSET S : Cardinality(s) = n /\ it[s] # 0 }
<1>2. /\ it[{}] = 0
      /\ \A s \in SUBSET S : s # {} => it[s] = F[FirstOf(s)] + it[s \ {FirstOf(s)}]
    BY <1>1 DEF IsSum
<1>3. \A s \in SUBSET S : IsFiniteSet(s) /\ Cardinality(s) \in Nat
    BY FS_Subset, FS_CardinalityType
<1>4. SUFFICES ASSUME T # {} PROVE FALSE
    BY <1>1, <1>3
<1> HIDE DEF T
<1>5. PICK n \in T : \A k \in T : n <= k
    BY <1>4, LeastNat DEF T
<1>6. PICK s \in SUBSET S : Cardinality(s) = n /\ it[s] # 0
    BY <1>5 DEF T
<1>7. s # {} /\ FirstOf(s) \in s
    BY <1>2, <1>6, PickFrom
<1> DEFINE c == FirstOf(s)
<1>8. it[s] = F[c] + it[s \ {c}] /\ F[c] = 0
    BY <1>2, <1>7
<1>9. Cardinality(s \ {c}) < n /\ s \ {c} \in SUBSET S /\ Cardinality(s \ {c}) \in Nat
    BY <1>3, <1>6, <1>7, SmallerSet
<1> HIDE DEF c
<1>10. it[s \ {c}] = 0
    BY <1>5, <1>9 DEF T
<1>11. QED
    BY <1>6, <1>8, <1>10

\* A sum is an integer, and taking one element away takes its value away.
LEMMA SumWithout ==
    ASSUME NEW S, IsFiniteSet(S), NEW F, \A y \in S : F[y] \in Int
    PROVE  /\ SumFunctionOnSet(F, S) \in Int
           /\ \A x \in S : SumFunctionOnSet(F, S) = F[x] + SumFunctionOnSet(F, S \ {x})
<1>1. PICK it : IsSum(it, F, S) /\ SumFunctionOnSet(F, S) = it[S]
    BY SumIsSum
<1>2. it[S] \in Int /\ \A x \in S : it[S] = F[x] + it[S \ {x}]
    BY <1>1, AnyFirst
<1>3. ASSUME NEW x \in S
      PROVE  SumFunctionOnSet(F, S \ {x}) = it[S \ {x}]
  <2> DEFINE r == S \ {x}
  <2>1. IsFiniteSet(r) /\ r \subseteq S
      BY FS_RemoveElement
  <2> HIDE DEF r
  <2>2. PICK jt : IsSum(jt, F, r) /\ SumFunctionOnSet(F, r) = jt[r]
      BY <2>1, SumIsSum
  <2>3. jt[r] = it[r]
      BY <1>1, <2>1, <2>2, SameSums
  <2>4. QED
      BY <2>2, <2>3 DEF r
<1>4. QED
    BY <1>1, <1>2, <1>3

\* Sums of functions that agree are the same.
LEMMA SumOfSame ==
    ASSUME NEW S, IsFiniteSet(S), NEW F, NEW G, \A x \in S : F[x] = G[x]
    PROVE  SumFunctionOnSet(F, S) = SumFunctionOnSet(G, S)
<1>1. PICK it : IsSum(it, F, S) /\ SumFunctionOnSet(F, S) = it[S]
    BY SumIsSum
<1>2. PICK jt : IsSum(jt, G, S) /\ SumFunctionOnSet(G, S) = jt[S]
    BY SumIsSum
<1>3. it[S] = jt[S]
    BY <1>1, <1>2, SameSums
<1>4. QED
    BY <1>1, <1>2, <1>3

\* One element more.
LEMMA SumWith ==
    ASSUME NEW S, IsFiniteSet(S), NEW x, x \notin S,
           NEW F, \A y \in S \cup {x} : F[y] \in Int
    PROVE  SumFunctionOnSet(F, S \cup {x}) = F[x] + SumFunctionOnSet(F, S)
<1> DEFINE R == S \cup {x}
<1>1. IsFiniteSet(R) /\ x \in R /\ S = R \ {x}
    BY FS_AddElement
<1> HIDE DEF R
<1>2. SumFunctionOnSet(F, R) = F[x] + SumFunctionOnSet(F, R \ {x})
    BY <1>1, SumWithout DEF R
<1>3. QED
    BY <1>1, <1>2 DEF R

\* One value changes.
LEMMA SumOfChanged ==
    ASSUME NEW S, IsFiniteSet(S), NEW x \in S, NEW F, NEW G,
           \A y \in S : F[y] \in Int /\ G[y] \in Int,
           \A y \in S : y # x => F[y] = G[y]
    PROVE  SumFunctionOnSet(G, S) = SumFunctionOnSet(F, S) + (G[x] - F[x])
<1> DEFINE r == S \ {x}
<1>1. /\ SumFunctionOnSet(F, S) = F[x] + SumFunctionOnSet(F, r)
      /\ SumFunctionOnSet(G, S) = G[x] + SumFunctionOnSet(G, r)
    BY SumWithout
<1>2. IsFiniteSet(r)
    BY FS_RemoveElement
<1>3. SumFunctionOnSet(F, r) = SumFunctionOnSet(G, r) /\ SumFunctionOnSet(F, r) \in Int
  <2>1. \A y \in r : F[y] = G[y] /\ F[y] \in Int
      OBVIOUS
  <2> HIDE DEF r
  <2>2. QED
      BY <1>2, <2>1, SumOfSame, SumWithout
<1> HIDE DEF r
<1>4. F[x] \in Int /\ G[x] \in Int
    OBVIOUS
<1>5. QED
    BY <1>1, <1>3, <1>4
=============================================================================
