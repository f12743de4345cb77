-------------------------- MODULE KeySharesProofs --------------------------
(***************************************************************************)
(* The guardians' shares do what custody needs of them, for every field,   *)
(* number of guardians, threshold and key: enough of them in order sign    *)
(* the validator's exit, fewer of them say nothing. What the library       *)
(* computes is proved from its definitions: the interpolation by induction *)
(* on the number of coefficients, over sets of numbers and of subsets.     *)
(***************************************************************************)
EXTENDS KeyShares, FiniteSetTheorems, WellFoundedInduction, TLAPS

(***************************************************************************)
(* Folds. The library writes a fold as the value of a recursive function   *)
(* over the subsets of a set: what it computes follows by induction on the *)
(* size of the subset, that is, with a set of subsets instead of an        *)
(* operator.                                                               *)
(***************************************************************************)

\* A set of natural numbers that holds 0 and the successor of each of its members holds them all.
LEMMA NatSet ==
  ASSUME NEW T \in SUBSET Nat, 0 \in T, \A n \in T : n + 1 \in T
  PROVE  T = Nat
<1> SUFFICES ASSUME Nat \ T # {} PROVE FALSE
  OBVIOUS
<1>1. PICK n \in Nat \ T : \A m \in Nat \ T : ~(<<m, n>> \in OpToRel(<, Nat))
  BY NatLessThanWellFounded, WFMin
<1>2. \A m \in Nat \ T : ~(m < n)
  BY <1>1 DEF OpToRel
<1>n. n \in Nat /\ n \notin T
  OBVIOUS
<1>3. n # 0 /\ n - 1 \in Nat /\ n - 1 < n /\ (n - 1) + 1 = n
  BY <1>n
<1>4. n - 1 \in T
  BY <1>2, <1>3
<1> QED BY <1>n, <1>3, <1>4

\* If a subset is in P once it is there without any one of its elements, every subset is in P.
LEMMA SubsetInduction ==
  ASSUME NEW U, IsFiniteSet(U), NEW P,
         \A s \in SUBSET U : (\A x \in s : s \ {x} \in P) => s \in P
  PROVE  \A s \in SUBSET U : s \in P
<1> DEFINE T == {n \in Nat : \A s \in SUBSET U : Cardinality(s) = n => s \in P}
<1>0. \A s \in SUBSET U : IsFiniteSet(s) /\ Cardinality(s) \in Nat
  BY FS_Subset, FS_CardinalityType
<1>1. 0 \in T
  <2>1. \A s \in SUBSET U : Cardinality(s) = 0 => s = {}
    BY <1>0, FS_EmptySet
  <2> QED BY <2>1
<1>2. ASSUME NEW n \in T PROVE n + 1 \in T
  <2>n. n \in Nat
    OBVIOUS
  <2> SUFFICES ASSUME NEW s \in SUBSET U, Cardinality(s) = n + 1 PROVE s \in P
    OBVIOUS
  <2>1. ASSUME NEW x \in s PROVE s \ {x} \in P
    <3>1. Cardinality(s \ {x}) = Cardinality(s) - 1
      BY <1>0, FS_RemoveElement
    <3>2. Cardinality(s \ {x}) = n /\ s \ {x} \in SUBSET U
      BY <3>1, <2>n
    <3> QED BY <3>2
  <2> QED BY <2>1
<1> HIDE DEF T
<1>3. T \in SUBSET Nat
  BY DEF T
<1>4. T = Nat
  BY ONLY <1>1, <1>2, <1>3, NatSet
<1> QED BY <1>0, <1>4 DEF T

\* g solves the recursion of a fold over the subsets of S, which takes the elements in the order of pick.
Recursion(g, S, b, pick, step) ==
  /\ g[{}] = b
  /\ \A s \in SUBSET S : s # {} => g[s] = step[pick[s]][g[s \ {pick[s]}]]

\* A fold over a finite set with values in V.
Folding(U, V, b, pick, step) ==
  /\ IsFiniteSet(U) /\ b \in V
  /\ \A s \in SUBSET U : s # {} => pick[s] \in s
  /\ step \in [U -> [V -> V]]

FoldOf(g, U, V, b, pick, step) ==
  Folding(U, V, b, pick, step) /\ g \in [SUBSET U -> V] /\ Recursion(g, U, b, pick, step)

\* Two steps can be swapped.
AnyOrder(U, V, step) == \A i, j \in U, t \in V : step[i][step[j][t]] = step[j][step[i][t]]

\* Any element may come first.
AnyFirst(g, U, step) == \A s \in SUBSET U : \A x \in s : g[s] = step[x][g[s \ {x}]]

\* h follows the recursion on the subsets of S as long as its values are in V.
Follows(h, S, V, b, pick, step) ==
  /\ h[{}] = b
  /\ \A s \in SUBSET S : s # {} /\ h[s \ {pick[s]}] \in V => h[s] = step[pick[s]][h[s \ {pick[s]}]]

\* The recursion that a fold stands for has a solution.
LEMMA FoldDefined ==
  ASSUME NEW U, NEW V, NEW b, NEW pick, NEW step, Folding(U, V, b, pick, step)
  PROVE  \E g : FoldOf(g, U, V, b, pick, step)
<1> USE DEF Folding
<1> DEFINE Small(n) == {s \in SUBSET U : Cardinality(s) <= n}
           Holds(n, g) == /\ g \in [Small(n) -> V]
                          /\ g[{}] = b
                          /\ \A s \in Small(n) : s # {} => g[s] = step[pick[s]][g[s \ {pick[s]}]]
           T == {n \in Nat : \E g : Holds(n, g)}
<1>0. \A s \in SUBSET U : IsFiniteSet(s) /\ Cardinality(s) \in Nat
  BY FS_Subset, FS_CardinalityType
<1>1. \A n \in Nat : \A s \in Small(n + 1) : s # {} => pick[s] \in U /\ s \ {pick[s]} \in Small(n)
  <2> TAKE n \in Nat
  <2> TAKE s \in Small(n + 1)
  <2> HAVE s # {}
  <2>1. pick[s] \in s /\ Cardinality(s \ {pick[s]}) = Cardinality(s) - 1
    BY <1>0, FS_RemoveElement
  <2> QED BY <1>0, <2>1
<1>2. \A n \in Nat : {} \in Small(n)
  BY FS_EmptySet
<1>3. 0 \in T
  <2> DEFINE g == [s \in Small(0) |-> b]
  <2>1. \A s \in Small(0) : s = {}
    BY <1>0, FS_EmptySet
  <2>2. Holds(0, g)
    BY <1>2, <2>1
  <2> QED BY <2>2
<1>4. ASSUME NEW n \in T PROVE n + 1 \in T
  <2>1. PICK g : Holds(n, g)
    OBVIOUS
  <2> DEFINE h == [s \in Small(n + 1) |-> IF s = {} THEN b ELSE step[pick[s]][g[s \ {pick[s]}]]]
  <2>n. n \in Nat
    OBVIOUS
  <2>0. \A s \in Small(n) : s \in Small(n + 1)
    BY <1>0, <2>n
  <2>2. \A s \in Small(n) : h[s] = g[s]
    BY <2>0, <2>1
  <2>3. h \in [Small(n + 1) -> V]
    BY <1>1, <2>n, <2>1
  <2>4. h[{}] = b
    BY <1>2, <2>n
  <2>5. \A s \in Small(n + 1) : s # {} => h[s] = step[pick[s]][h[s \ {pick[s]}]]
    BY <1>1, <2>n, <2>2
  <2>6. Holds(n + 1, h)
    BY <2>3, <2>4, <2>5
  <2> HIDE DEF Holds, h
  <2> QED BY <2>n, <2>6
<1>5. Cardinality(U) \in T
  <2> HIDE DEF T
  <2>1. T \in SUBSET Nat
    BY DEF T
  <2> QED BY <1>0, <1>3, <1>4, <2>1, NatSet
<1>6. Small(Cardinality(U)) = SUBSET U
  BY FS_Subset
<1>7. PICK g : Holds(Cardinality(U), g)
  BY <1>5
<1> QED BY <1>6, <1>7 DEF FoldOf, Recursion

\* A function that follows the recursion on the subsets of S has its value at S, whatever it is elsewhere.
LEMMA FoldAgrees ==
  ASSUME NEW U, NEW V, NEW b, NEW pick, NEW step, NEW g, FoldOf(g, U, V, b, pick, step),
         NEW S, S \in SUBSET U, NEW h, Follows(h, S, V, b, pick, step)
  PROVE  h[S] = g[S]
<1> DEFINE P == {s \in SUBSET S : h[s] = g[s]}
<1>1. ASSUME NEW s \in SUBSET S, \A x \in s : s \ {x} \in P PROVE h[s] = g[s]
  <2>1. CASE s = {}
    BY <2>1 DEF Follows, FoldOf, Recursion
  <2>2. CASE s # {}
    <3> DEFINE y == pick[s]
    <3>1. y \in s /\ s \in SUBSET U
      BY <2>2 DEF FoldOf, Folding
    <3>2. h[s \ {y}] = g[s \ {y}]
      BY <1>1, <3>1
    <3>3. g[s \ {y}] \in V
      BY <3>1 DEF FoldOf
    <3>4. g[s] = step[y][g[s \ {y}]]
      BY <2>2, <3>1 DEF FoldOf, Recursion
    <3>5. h[s] = step[y][h[s \ {y}]]
      BY <2>2, <3>2, <3>3 DEF Follows
    <3> QED BY <3>2, <3>4, <3>5
  <2> QED BY <2>1, <2>2
<1>2. \A s \in SUBSET S : (\A x \in s : s \ {x} \in P) => s \in P
  BY <1>1
<1> HIDE DEF P
<1>3. IsFiniteSet(S)
  BY FS_Subset DEF FoldOf, Folding
<1>4. \A s \in SUBSET S : s \in P
  BY ONLY <1>2, <1>3, SubsetInduction
<1> QED BY <1>4 DEF P

\* If two steps can be swapped, any element may be the one taken first.
LEMMA FoldAnyOrder ==
  ASSUME NEW U, NEW V, NEW b, NEW pick, NEW step, NEW g, FoldOf(g, U, V, b, pick, step),
         AnyOrder(U, V, step)
  PROVE  AnyFirst(g, U, step)
<1> DEFINE P == {s \in SUBSET U : \A x \in s : g[s] = step[x][g[s \ {x}]]}
<1>1. ASSUME NEW s \in SUBSET U, \A x \in s : s \ {x} \in P, NEW x \in s
      PROVE  g[s] = step[x][g[s \ {x}]]
  <2> DEFINE y == pick[s]
  <2>1. y \in s /\ g[s] = step[y][g[s \ {y}]]
    BY DEF FoldOf, Folding, Recursion
  <2>2. CASE y = x
    BY <2>1, <2>2
  <2>3. CASE y # x
    <3> DEFINE r == s \ {x, y}
    <3>1. /\ (s \ {y}) \ {x} = r /\ (s \ {x}) \ {y} = r
          /\ x \in s \ {y} /\ y \in s \ {x} /\ x \in U /\ y \in U /\ r \in SUBSET U
      BY <2>1, <2>3
    <3>2. s \ {y} \in P /\ s \ {x} \in P
      BY <1>1, <2>1
    <3>3. g[s \ {y}] = step[x][g[r]]
      BY <3>1, <3>2
    <3>4. g[s \ {x}] = step[y][g[r]]
      BY <3>1, <3>2
    <3> HIDE DEF r, y
    <3>5. g[r] \in V
      BY <3>1 DEF FoldOf
    <3>6. step[x][step[y][g[r]]] = step[y][step[x][g[r]]]
      BY <3>1, <3>5 DEF AnyOrder
    <3> QED BY <2>1, <3>3, <3>4, <3>6
  <2> QED BY <2>2, <2>3
<1>2. \A s \in SUBSET U : (\A x \in s : s \ {x} \in P) => s \in P
  BY <1>1
<1> HIDE DEF P
<1>3. IsFiniteSet(U)
  BY DEF FoldOf, Folding
<1>4. \A s \in SUBSET U : s \in P
  BY ONLY <1>2, <1>3, SubsetInduction
<1> QED BY <1>4 DEF P, AnyFirst

----------------------------------------------------------------------------
(***************************************************************************)
(* Arithmetic modulo the prime.                                            *)
(***************************************************************************)

\* What the field and the number of guardians are.
LEMMA PrimeFacts == Prime \in Nat /\ Prime > 1 /\ N \in Nat /\ N < Prime
BY PrimeAssumption

\* A remainder is a member of the field.
LEMMA InF == \A a \in Int : a % Prime \in F
BY PrimeFacts DEF F
\* A member of the field is its own remainder.
LEMMA OfF == \A a \in F : a % Prime = a /\ a \in Int
BY PrimeFacts DEF F

\* 0 and 1 are different members of the field.
LEMMA ZeroOne == 0 \in F /\ 1 \in F
BY PrimeFacts DEF F

\* a is a multiple of the prime, that is 0 in the field; a and b are congruent if Null(a - b).
Null(a) == \E k \in Int : a = Prime * k

\* The multiples of the prime are closed under addition.
LEMMA NullSum == ASSUME NEW a \in Int, NEW b \in Int, Null(a), Null(b) PROVE Null(a + b)
<1>1. PICK k \in Int : a = Prime * k
  BY DEF Null
<1>2. PICK l \in Int : b = Prime * l
  BY DEF Null
<1>3. a + b = Prime * (k + l) /\ k + l \in Int
  BY <1>1, <1>2, PrimeFacts
<1> QED BY <1>3 DEF Null

\* A multiple of a multiple of the prime is one.
LEMMA NullTimes == ASSUME NEW a \in Int, NEW c \in Int, Null(a) PROVE Null(c * a)
<1>1. PICK k \in Int : a = Prime * k
  BY DEF Null
<1>2. c * a = Prime * (c * k) /\ c * k \in Int
  BY <1>1, PrimeFacts
<1> QED BY <1>2 DEF Null

\* 0 is a multiple of the prime.
LEMMA NullZero == Null(0)
<1>1. 0 = Prime * 0
  BY PrimeFacts
<1> QED BY <1>1 DEF Null

\* Linear combinations of multiples of the prime are multiples of it.
LEMMA NullCombine ==
  ASSUME NEW a \in Int, NEW b \in Int, NEW m \in Int, NEW q \in Int, Null(a), Null(b)
  PROVE  Null(m * a + q * b)
<1>1. Null(m * a) /\ Null(q * b)
  BY NullTimes
<1>2. m * a \in Int /\ q * b \in Int
  OBVIOUS
<1> QED BY ONLY <1>1, <1>2, NullSum

\* A number and its remainder differ by a multiple of the prime.
LEMMA NullMod == ASSUME NEW a \in Int PROVE Null(a - (a % Prime)) /\ Null((a % Prime) - a)
<1> DEFINE q == a \div Prime
<1>1. a = Prime * q + (a % Prime) /\ q \in Int /\ a % Prime \in Int
  BY PrimeFacts
<1> HIDE DEF q
<1>2. a - (a % Prime) = Prime * q
  BY <1>1, PrimeFacts
<1>3. (a % Prime) - a = Prime * (-q) /\ -q \in Int
  BY <1>1, PrimeFacts
<1> QED BY <1>1, <1>2, <1>3 DEF Null

\* Two members of the field that differ by a multiple of the prime are equal.
LEMMA NullF == ASSUME NEW a \in F, NEW b \in F, Null(a - b) PROVE a = b
<1>1. PICK k \in Int : a - b = Prime * k
  BY DEF Null
<1>2. CASE k = 0
  BY <1>1, <1>2, PrimeFacts DEF F
<1>3. CASE k > 0
  <2>1. Prime * k >= Prime
    BY <1>3, PrimeFacts
  <2> QED BY <1>1, <2>1, PrimeFacts DEF F
<1>4. CASE k < 0
  <2>1. Prime * k <= -Prime
    BY <1>4, PrimeFacts
  <2> QED BY <1>1, <2>1, PrimeFacts DEF F
<1> QED BY <1>2, <1>3, <1>4

\* Congruence is transitive.
LEMMA NullThrough ==
  ASSUME NEW a \in Int, NEW b \in Int, NEW c \in Int, Null(a - b), Null(b - c)
  PROVE  Null(a - c)
<1>1. Null((a - b) + (b - c))
  BY NullSum
<1>2. (a - b) + (b - c) = a - c
  OBVIOUS
<1> QED BY <1>1, <1>2

\* Numbers are congruent if and only if their remainders are equal.
LEMMA NullSame == ASSUME NEW a \in Int, NEW b \in Int PROVE Null(a - b) <=> a % Prime = b % Prime
<1> DEFINE r == a % Prime
           t == b % Prime
<1>1. r \in F /\ t \in F /\ r \in Int /\ t \in Int
  BY InF, OfF
<1>2. Null(a - r) /\ Null(r - a) /\ Null(b - t) /\ Null(t - b)
  BY NullMod
<1> HIDE DEF r, t
<1>3. ASSUME Null(a - b) PROVE r = t
  <2>1. Null(r - b)
    BY <1>1, <1>2, <1>3, NullThrough
  <2>2. Null(r - t)
    BY <1>1, <1>2, <2>1, NullThrough
  <2> QED BY <1>1, <2>2, NullF
<1>4. ASSUME r = t PROVE Null(a - b)
  BY <1>1, <1>2, <1>4, NullThrough
<1> QED BY <1>3, <1>4 DEF r, t

\* Whatever is not a multiple of the prime has an inverse, the one that InverseMod chooses.
LEMMA Inverses == ASSUME NEW c \in Int, ~Null(c) PROVE InverseMod(c % Prime) \in F /\ Null(c * InverseMod(c % Prime) - 1)
<1> DEFINE r == c % Prime
           y == InverseMod(r)
<1>1. r \in F /\ r # 0
  <2>1. r \in F /\ Null(c - r)
    BY InF, NullMod
  <2>2. r = 0 => c - r = c
    OBVIOUS
  <2> QED BY <2>1, <2>2
<1> HIDE DEF r
<1>2. \E z \in F : (r * z) % Prime = 1
  <2>1. r \in 1..(Prime - 1)
    BY <1>1, PrimeFacts DEF F
  <2> QED BY <2>1, PrimeAssumption DEF F
<1>3. y \in F /\ (r * y) % Prime = 1
  BY <1>2 DEF InverseMod
<1> HIDE DEF y
<1>4. r \in Int /\ y \in Int /\ r * y \in Int /\ 1 \in F /\ 1 % Prime = 1
  BY <1>1, <1>3, PrimeFacts DEF F
<1>5. Null(r * y - 1)
  BY <1>3, <1>4, NullSame
<1>6. Null(c - r)
  BY NullMod DEF r
<1>i. c - r \in Int
  BY <1>4
<1>7. Null(y * (c - r))
  BY ONLY <1>4, <1>6, <1>i, NullTimes
<1>8. Null(y * (c - r) + (r * y - 1))
  BY <1>4, <1>5, <1>7, NullSum
<1>9. y * (c - r) + (r * y - 1) = c * y - 1
  BY <1>4
<1> QED BY <1>3, <1>8, <1>9 DEF y, r

\* A factor that is not a multiple of the prime can be cancelled.
LEMMA Cancel == ASSUME NEW c \in Int, ~Null(c), NEW a \in Int, Null(c * a) PROVE Null(a)
<1>1. PICK y \in Int : Null(c * y - 1)
  BY Inverses, OfF
<1>i. c * a \in Int /\ c * y - 1 \in Int /\ -a \in Int /\ y * (c * a) \in Int /\ (-a) * (c * y - 1) \in Int
  OBVIOUS
<1>2. Null(y * (c * a)) /\ Null((-a) * (c * y - 1))
  BY ONLY <1>1, <1>i, Null(c * a), NullTimes
<1>3. Null(y * (c * a) + (-a) * (c * y - 1))
  BY <1>2, <1>i, NullSum
<1>4. y * (c * a) + (-a) * (c * y - 1) = a
  OBVIOUS
<1> QED BY <1>3, <1>4

----------------------------------------------------------------------------
(***************************************************************************)
(* The sums, products and polynomials of the module as recursions.         *)
(***************************************************************************)

Chosen(s) == CHOOSE x \in s : TRUE

\* g is the sum of f modulo the prime over each subset of U.
SumRec(g, U, f) ==
  /\ g \in [SUBSET U -> F]
  /\ g[{}] = 0
  /\ \A s \in SUBSET U : \A x \in s : g[s] = (f[x] + g[s \ {x}]) % Prime

SumFold(f, S) ==
  CHOOSE g : g = [s \in SUBSET S |-> IF s = {} THEN 0 ELSE (f[Chosen(s)] + g[s \ {Chosen(s)}]) % Prime]

\* SumMod, with the library's folds expanded.
LEMMA SumIsFold == ASSUME NEW f, NEW S PROVE SumMod(f, S) = SumFold(f, S)[S]
BY DEF SumMod, FoldFunctionOnSet, MapThenFoldSet, Chosen, SumFold

\* SumMod over the subsets of U obeys the recursion of a sum, in any order of the terms.
LEMMA SumExists ==
  ASSUME NEW U, IsFiniteSet(U), NEW f \in [U -> Int]
  PROVE  \E g : /\ SumRec(g, U, f)
                /\ \A h : \A S \in SUBSET U : (\A i \in S : h[i] = f[i]) => SumMod(h, S) = g[S]
<1> DEFINE pick == [s \in SUBSET U |-> Chosen(s)]
           step == [i \in U |-> [t \in F |-> (f[i] + t) % Prime]]
<1>1. \A s \in SUBSET U : s # {} => pick[s] \in s /\ pick[s] = Chosen(s)
  BY DEF Chosen
<1>p. \A s \in SUBSET U : s # {} => pick[s] \in s
  BY <1>1
<1>2. step \in [U -> [F -> F]]
  BY InF DEF F
<1>3. \A i \in U, t \in F : step[i][t] = (f[i] + t) % Prime
  OBVIOUS
<1> HIDE DEF pick, step
<1>f. Folding(U, F, 0, pick, step)
  BY <1>p, <1>2, ZeroOne DEF Folding
<1>4. PICK g : FoldOf(g, U, F, 0, pick, step)
  BY <1>f, FoldDefined
<1>5. AnyOrder(U, F, step)
  <2> SUFFICES ASSUME NEW i \in U, NEW j \in U, NEW t \in F
               PROVE  step[i][step[j][t]] = step[j][step[i][t]]
    BY DEF AnyOrder
  <2> DEFINE a == (f[j] + t) % Prime
             b == (f[i] + t) % Prime
  <2>1. a \in F /\ b \in F /\ a \in Int /\ b \in Int /\ t \in Int /\ f[i] \in Int /\ f[j] \in Int
    BY InF, OfF
  <2>2. Null(a - (f[j] + t)) /\ Null((f[i] + t) - b)
    BY <2>1, NullMod
  <2>3. step[i][step[j][t]] = (f[i] + a) % Prime /\ step[j][step[i][t]] = (f[j] + b) % Prime
    BY <1>3, <2>1
  <2> HIDE DEF a, b
  <2>4. Null((a - (f[j] + t)) + ((f[i] + t) - b))
    BY <2>1, <2>2, NullSum
  <2>5. (a - (f[j] + t)) + ((f[i] + t) - b) = (f[i] + a) - (f[j] + b)
    BY <2>1
  <2>6. f[i] + a \in Int /\ f[j] + b \in Int
    BY <2>1
  <2>7. (f[i] + a) % Prime = (f[j] + b) % Prime
    BY <2>4, <2>5, <2>6, NullSame
  <2> QED BY <2>3, <2>7
<1>6. AnyFirst(g, U, step)
  BY ONLY <1>4, <1>5, FoldAnyOrder
<1>7. SumRec(g, U, f)
  BY <1>3, <1>4, <1>6 DEF SumRec, FoldOf, Recursion, AnyFirst
<1>8. ASSUME NEW S \in SUBSET U, NEW h, \A i \in S : h[i] = f[i] PROVE SumMod(h, S) = g[S]
  <2> DEFINE k == SumFold(h, S)
  <2>1. \E e : e = [s \in SUBSET S |-> IF s = {} THEN 0 ELSE (h[Chosen(s)] + e[s \ {Chosen(s)}]) % Prime]
    <3> DEFINE e == [s \in SUBSET S |-> g[s]]
    <3>1. \A s \in SUBSET S : s # {} =>
            /\ Chosen(s) \in S /\ s \ {Chosen(s)} \in SUBSET S /\ s \in SUBSET U
            /\ g[s] = (h[Chosen(s)] + g[s \ {Chosen(s)}]) % Prime
      BY <1>1, <1>7, <1>8 DEF SumRec
    <3>2. e = [s \in SUBSET S |-> IF s = {} THEN 0 ELSE (h[Chosen(s)] + e[s \ {Chosen(s)}]) % Prime]
      BY <3>1, <1>7 DEF SumRec
    <3> QED BY <3>2
  <2>2. k = [s \in SUBSET S |-> IF s = {} THEN 0 ELSE (h[Chosen(s)] + k[s \ {Chosen(s)}]) % Prime]
    BY <2>1 DEF SumFold
  <2> HIDE DEF k
  <2>3. k[{}] = 0
    BY <2>2
  <2>4. \A s \in SUBSET S : s # {} /\ k[s \ {pick[s]}] \in F => k[s] = step[pick[s]][k[s \ {pick[s]}]]
    <3> TAKE s \in SUBSET S
    <3> HAVE s # {} /\ k[s \ {pick[s]}] \in F
    <3>1. pick[s] = Chosen(s) /\ pick[s] \in s
      BY <1>1
    <3>2. k[s] = (h[pick[s]] + k[s \ {pick[s]}]) % Prime
      BY <2>2, <3>1
    <3> QED BY <1>3, <1>8, <3>1, <3>2
  <2>a. Follows(k, S, F, 0, pick, step)
    BY <2>3, <2>4 DEF Follows
  <2>5. k[S] = g[S]
    BY ONLY <1>4, <2>a, S \in SUBSET U, FoldAgrees
  <2> QED BY <2>5, SumIsFold DEF k
<1> QED BY <1>7, <1>8

\* g is the product of f modulo the prime over each subset of U.
ProductRec(g, U, f) ==
  /\ g \in [SUBSET U -> F]
  /\ g[{}] = 1
  /\ \A s \in SUBSET U : \A x \in s : g[s] = (f[x] * g[s \ {x}]) % Prime

ProductFold(f, S) ==
  CHOOSE g : g = [s \in SUBSET S |-> IF s = {} THEN 1 ELSE (f[Chosen(s)] * g[s \ {Chosen(s)}]) % Prime]

\* ProductMod, with the library's folds expanded.
LEMMA ProductIsFold == ASSUME NEW f, NEW S PROVE ProductMod(f, S) = ProductFold(f, S)[S]
BY DEF ProductMod, FoldFunctionOnSet, MapThenFoldSet, Chosen, ProductFold

\* ProductMod over the subsets of U obeys the recursion of a product, in any order of the factors.
LEMMA ProductExists ==
  ASSUME NEW U, IsFiniteSet(U), NEW f \in [U -> Int]
  PROVE  \E g : /\ ProductRec(g, U, f)
                /\ \A h : \A S \in SUBSET U : (\A i \in S : h[i] = f[i]) => ProductMod(h, S) = g[S]
<1> DEFINE pick == [s \in SUBSET U |-> Chosen(s)]
           step == [i \in U |-> [t \in F |-> (f[i] * t) % Prime]]
<1>1. \A s \in SUBSET U : s # {} => pick[s] \in s /\ pick[s] = Chosen(s)
  BY DEF Chosen
<1>p. \A s \in SUBSET U : s # {} => pick[s] \in s
  BY <1>1
<1>2. step \in [U -> [F -> F]]
  BY InF DEF F
<1>3. \A i \in U, t \in F : step[i][t] = (f[i] * t) % Prime
  OBVIOUS
<1> HIDE DEF pick, step
<1>f. Folding(U, F, 1, pick, step)
  BY <1>p, <1>2, ZeroOne DEF Folding
<1>4. PICK g : FoldOf(g, U, F, 1, pick, step)
  BY <1>f, FoldDefined
<1>5. AnyOrder(U, F, step)
  <2> SUFFICES ASSUME NEW i \in U, NEW j \in U, NEW t \in F
               PROVE  step[i][step[j][t]] = step[j][step[i][t]]
    BY DEF AnyOrder
  <2> DEFINE a == (f[j] * t) % Prime
             b == (f[i] * t) % Prime
             c == f[j] * t
             d == f[i] * t
  <2>1. a \in F /\ b \in F /\ a \in Int /\ b \in Int /\ t \in Int /\ f[i] \in Int /\ f[j] \in Int /\ c \in Int /\ d \in Int
    BY InF, OfF
  <2>2. Null(a - c) /\ Null(d - b)
    BY <2>1, NullMod
  <2>3. step[i][step[j][t]] = (f[i] * a) % Prime /\ step[j][step[i][t]] = (f[j] * b) % Prime
    BY <1>3, <2>1
  <2>4. f[i] * c = f[j] * d
    BY <2>1
  <2> HIDE DEF a, b, c, d
  <2>5. a - c \in Int /\ d - b \in Int /\ f[i] * a \in Int /\ f[j] * b \in Int
        /\ f[i] * (a - c) \in Int /\ f[j] * (d - b) \in Int
    BY <2>1
  <2>6. Null(f[i] * (a - c)) /\ Null(f[j] * (d - b))
    BY ONLY <2>1, <2>2, <2>5, NullTimes
  <2>7. Null(f[i] * (a - c) + f[j] * (d - b))
    BY <2>5, <2>6, NullSum
  <2>8. f[i] * (a - c) + f[j] * (d - b) = f[i] * a - f[j] * b
    BY <2>1, <2>4
  <2>9. (f[i] * a) % Prime = (f[j] * b) % Prime
    BY <2>5, <2>7, <2>8, NullSame
  <2> QED BY <2>3, <2>9
<1>6. AnyFirst(g, U, step)
  BY ONLY <1>4, <1>5, FoldAnyOrder
<1>7. ProductRec(g, U, f)
  BY <1>3, <1>4, <1>6 DEF ProductRec, FoldOf, Recursion, AnyFirst
<1>8. ASSUME NEW S \in SUBSET U, NEW h, \A i \in S : h[i] = f[i] PROVE ProductMod(h, S) = g[S]
  <2> DEFINE k == ProductFold(h, S)
  <2>1. \E e : e = [s \in SUBSET S |-> IF s = {} THEN 1 ELSE (h[Chosen(s)] * e[s \ {Chosen(s)}]) % Prime]
    <3> DEFINE e == [s \in SUBSET S |-> g[s]]
    <3>1. \A s \in SUBSET S : s # {} =>
            /\ Chosen(s) \in S /\ s \ {Chosen(s)} \in SUBSET S /\ s \in SUBSET U
            /\ g[s] = (h[Chosen(s)] * g[s \ {Chosen(s)}]) % Prime
      BY <1>1, <1>7, <1>8 DEF ProductRec
    <3>2. e = [s \in SUBSET S |-> IF s = {} THEN 1 ELSE (h[Chosen(s)] * e[s \ {Chosen(s)}]) % Prime]
      BY <3>1, <1>7 DEF ProductRec
    <3> QED BY <3>2
  <2>2. k = [s \in SUBSET S |-> IF s = {} THEN 1 ELSE (h[Chosen(s)] * k[s \ {Chosen(s)}]) % Prime]
    BY <2>1 DEF ProductFold
  <2> HIDE DEF k
  <2>3. k[{}] = 1
    BY <2>2
  <2>4. \A s \in SUBSET S : s # {} /\ k[s \ {pick[s]}] \in F => k[s] = step[pick[s]][k[s \ {pick[s]}]]
    <3> TAKE s \in SUBSET S
    <3> HAVE s # {} /\ k[s \ {pick[s]}] \in F
    <3>1. pick[s] = Chosen(s) /\ pick[s] \in s
      BY <1>1
    <3>2. k[s] = (h[pick[s]] * k[s \ {pick[s]}]) % Prime
      BY <2>2, <3>1
    <3> QED BY <1>3, <1>8, <3>1, <3>2
  <2>a. Follows(k, S, F, 1, pick, step)
    BY <2>3, <2>4 DEF Follows
  <2>5. k[S] = g[S]
    BY ONLY <1>4, <2>a, S \in SUBSET U, FoldAgrees
  <2> QED BY <2>5, ProductIsFold DEF k
<1> QED BY <1>7, <1>8

\* The values of Horner's scheme for the n coefficients p at x, from the last.
Tails(e, p, x, n) ==
  /\ e \in [1..(n + 1) -> F]
  /\ e[n + 1] = 0
  /\ \A k \in 1..n : e[k] = (p[k] + x * e[k + 1]) % Prime

HornerFold(p, x) ==
  CHOOSE g : g = [s \in SUBSET DOMAIN p |-> IF s = {} THEN 0 ELSE (p[Min(s)] + x * g[s \ {Min(s)}]) % Prime]

\* evaluate, with the library's folds expanded.
LEMMA EvaluateIsFold == ASSUME NEW p, NEW x PROVE evaluate(p, x) = HornerFold(p, x)[DOMAIN p]
BY DEF evaluate, FoldRight, MapThenFoldSet, HornerFold

\* A nonempty set of natural numbers has a minimum.
LEMMA MinIn == ASSUME NEW S \in SUBSET Nat, S # {} PROVE Min(S) \in S /\ \A y \in S : Min(S) <= y
<1>1. PICK x \in S : \A y \in S : ~(<<y, x>> \in OpToRel(<, Nat))
  BY NatLessThanWellFounded, WFMin
<1>2. \A y \in S : x <= y
  <2> TAKE y \in S
  <2>1. ~(y < x) /\ x \in Nat /\ y \in Nat
    BY <1>1 DEF OpToRel
  <2> QED BY <2>1
<1> QED BY <1>2 DEF Min

\* evaluate is the first of the values that Horner's scheme runs through.
LEMMA TailsExist ==
  ASSUME NEW n \in Nat, NEW p \in [1..n -> F], NEW x \in Int
  PROVE  \E e : Tails(e, p, x, n) /\ evaluate(p, x) = e[1]
<1> DEFINE U == 1..n
           pick == [s \in SUBSET U |-> Min(s)]
           step == [i \in U |-> [t \in F |-> (p[i] + x * t) % Prime]]
           h == HornerFold(p, x)
<1>1. \A s \in SUBSET U : s # {} => pick[s] \in s /\ pick[s] = Min(s) /\ \A y \in s : Min(s) <= y
  <2> TAKE s \in SUBSET U
  <2> HAVE s # {}
  <2>1. s \in SUBSET Nat
    OBVIOUS
  <2> QED BY <2>1, MinIn
<1>p. \A s \in SUBSET U : s # {} => pick[s] \in s
  BY <1>1
<1>2. step \in [U -> [F -> F]]
  <2>1. \A i \in U, t \in F : p[i] + x * t \in Int
    BY OfF
  <2> QED BY <2>1, InF
<1>3. \A i \in U, t \in F : step[i][t] = (p[i] + x * t) % Prime
  OBVIOUS
<1>4. IsFiniteSet(U)
  BY FS_Interval
<1> HIDE DEF pick, step
<1>f. Folding(U, F, 0, pick, step)
  BY <1>p, <1>2, <1>4, ZeroOne DEF Folding
<1>5. PICK g : FoldOf(g, U, F, 0, pick, step)
  BY <1>f, FoldDefined
<1>6. g \in [SUBSET U -> F] /\ g[{}] = 0
      /\ \A s \in SUBSET U : s # {} => g[s] = (p[Min(s)] + x * g[s \ {Min(s)}]) % Prime
  <2>1. g \in [SUBSET U -> F] /\ Recursion(g, U, 0, pick, step)
    BY <1>5 DEF FoldOf
  <2>2. ASSUME NEW s \in SUBSET U, s # {} PROVE g[s] = (p[Min(s)] + x * g[s \ {Min(s)}]) % Prime
    <3>1. pick[s] \in s /\ pick[s] = Min(s) /\ Min(s) \in U /\ s \ {Min(s)} \in SUBSET U
      BY <1>1, <2>2
    <3>2. g[s] = step[Min(s)][g[s \ {Min(s)}]] /\ g[s \ {Min(s)}] \in F
      BY <2>1, <2>2, <3>1 DEF Recursion
    <3> QED BY <1>3, <3>1, <3>2
  <2> QED BY <2>1, <2>2 DEF Recursion
<1>7. DOMAIN p = U
  OBVIOUS
<1>8. h = [s \in SUBSET U |-> IF s = {} THEN 0 ELSE (p[Min(s)] + x * h[s \ {Min(s)}]) % Prime]
  <2>1. g = [s \in SUBSET U |-> IF s = {} THEN 0 ELSE (p[Min(s)] + x * g[s \ {Min(s)}]) % Prime]
    BY <1>6
  <2>2. \E e : e = [s \in SUBSET U |-> IF s = {} THEN 0 ELSE (p[Min(s)] + x * e[s \ {Min(s)}]) % Prime]
    BY <2>1
  <2> HIDE DEF U
  <2> QED BY <2>2, <1>7 DEF HornerFold
<1> HIDE DEF h
<1>9. h[U] = g[U]
  <2>1. ASSUME NEW s \in SUBSET U, s # {}, h[s \ {pick[s]}] \in F PROVE h[s] = step[pick[s]][h[s \ {pick[s]}]]
    <3>1. pick[s] = Min(s) /\ pick[s] \in U
      BY <1>1, <2>1
    <3>2. h[s] = (p[pick[s]] + x * h[s \ {pick[s]}]) % Prime
      BY <1>8, <2>1, <3>1
    <3> QED BY <1>3, <2>1, <3>1, <3>2
  <2>2. Follows(h, U, F, 0, pick, step)
    BY <1>8, <2>1 DEF Follows
  <2>3. U \in SUBSET U
    OBVIOUS
  <2> QED BY ONLY <1>5, <2>2, <2>3, FoldAgrees
<1> DEFINE e == [k \in 1..(n + 1) |-> g[k..n]]
<1>10. ASSUME NEW k \in 1..n PROVE e[k] = (p[k] + x * e[k + 1]) % Prime
  <2>1. k..n \in SUBSET U /\ k \in k..n /\ k..n # {}
    OBVIOUS
  <2>2. Min(k..n) = k
    <3>1. Min(k..n) \in k..n /\ Min(k..n) <= k
      BY <1>1, <2>1
    <3> QED BY <3>1
  <2>3. (k..n) \ {k} = (k + 1)..n
    OBVIOUS
  <2>4. k \in 1..(n + 1) /\ k + 1 \in 1..(n + 1)
    OBVIOUS
  <2> HIDE DEF U
  <2>5. g[k..n] = (p[k] + x * g[(k + 1)..n]) % Prime
    BY <1>6, <2>1, <2>2, <2>3
  <2> QED BY <2>4, <2>5
<1>11. e \in [1..(n + 1) -> F]
  <2>1. \A k \in 1..(n + 1) : k..n \in SUBSET U
    OBVIOUS
  <2> HIDE DEF U
  <2> QED BY <1>6, <2>1
<1>12. e[n + 1] = 0 /\ e[1] = g[U]
  <2>1. (n + 1)..n = {} /\ n + 1 \in 1..(n + 1) /\ 1 \in 1..(n + 1)
    OBVIOUS
  <2> QED BY <1>6, <2>1
<1>13. evaluate(p, x) = h[U]
  BY <1>7, EvaluateIsFold DEF h
<1> HIDE DEF e
<1> QED BY <1>9, <1>10, <1>11, <1>12, <1>13 DEF Tails

\* These values are determined by the polynomial and the argument.
LEMMA TailsUnique ==
  ASSUME NEW n \in Nat, NEW p, NEW x, NEW e, NEW f, Tails(e, p, x, n), Tails(f, p, x, n)
  PROVE  e[1] = f[1]
<1> DEFINE T == {m \in Nat : m <= n => e[(n + 1) - m] = f[(n + 1) - m]}
<1>1. 0 \in T
  BY DEF Tails
<1>2. ASSUME NEW m \in T PROVE m + 1 \in T
  <2> SUFFICES ASSUME m + 1 <= n PROVE e[n - m] = f[n - m]
    OBVIOUS
  <2>1. m \in Nat /\ m <= n /\ n - m \in 1..n /\ (n - m) + 1 = (n + 1) - m
    OBVIOUS
  <2>2. e[(n + 1) - m] = f[(n + 1) - m]
    BY <2>1
  <2>3. /\ e[n - m] = (p[n - m] + x * e[(n - m) + 1]) % Prime
        /\ f[n - m] = (p[n - m] + x * f[(n - m) + 1]) % Prime
    BY <2>1 DEF Tails
  <2> QED BY <2>1, <2>2, <2>3
<1> HIDE DEF T
<1>3. T \in SUBSET Nat
  BY DEF T
<1>4. n \in T
  BY ONLY <1>1, <1>2, <1>3, n \in Nat, NatSet
<1>5. e[(n + 1) - n] = f[(n + 1) - n]
  BY <1>4 DEF T
<1> QED BY <1>5

\* Whatever obeys the scheme has the value of the polynomial in the first place.
LEMMA EvaluateByTails ==
  ASSUME NEW n \in Nat, NEW p \in [1..n -> F], NEW x \in Int, NEW e, Tails(e, p, x, n)
  PROVE  evaluate(p, x) = e[1]
<1>1. PICK f : Tails(f, p, x, n) /\ evaluate(p, x) = f[1]
  BY TailsExist
<1> QED BY <1>1, TailsUnique

\* A sum is in the field, 0 if it is empty, and any of its terms may be split off.
LEMMA SumFacts ==
  ASSUME NEW S, IsFiniteSet(S), NEW f \in [S -> Int]
  PROVE  /\ SumMod(f, S) \in F
         /\ S = {} => SumMod(f, S) = 0
         /\ \A s \in S : SumMod(f, S) = (f[s] + SumMod([i \in S \ {s} |-> f[i]], S \ {s})) % Prime
<1>1. PICK g : SumRec(g, S, f) /\ \A h : \A R \in SUBSET S : (\A i \in R : h[i] = f[i]) => SumMod(h, R) = g[R]
  BY SumExists
<1>2. SumMod(f, S) = g[S]
  BY <1>1
<1>3. ASSUME NEW s \in S PROVE SumMod([i \in S \ {s} |-> f[i]], S \ {s}) = g[S \ {s}]
  <2> DEFINE h == [i \in S \ {s} |-> f[i]]
  <2>1. S \ {s} \in SUBSET S /\ \A i \in S \ {s} : h[i] = f[i]
    OBVIOUS
  <2> HIDE DEF h
  <2>2. SumMod(h, S \ {s}) = g[S \ {s}]
    BY <1>1, <2>1
  <2> QED BY <2>2 DEF h
<1>4. SumMod(f, S) \in F
  BY <1>1, <1>2 DEF SumRec
<1>5. S = {} => SumMod(f, S) = 0
  BY <1>1, <1>2 DEF SumRec
<1>6. \A s \in S : g[S] = (f[s] + g[S \ {s}]) % Prime
  BY <1>1 DEF SumRec
<1> QED BY <1>2, <1>3, <1>4, <1>5, <1>6

\* Sums of congruent linear combinations are congruent.
LEMMA SumLinear ==
  ASSUME NEW S, IsFiniteSet(S), NEW a \in [S -> Int], NEW b \in [S -> Int], NEW c \in [S -> Int],
         NEW m \in Int, NEW q \in Int, \A i \in S : Null(a[i] - (m * b[i] + q * c[i]))
  PROVE  Null(SumMod(a, S) - (m * SumMod(b, S) + q * SumMod(c, S)))
<1>1. PICK ga : SumRec(ga, S, a) /\ \A h : \A R \in SUBSET S : (\A i \in R : h[i] = a[i]) => SumMod(h, R) = ga[R]
  BY SumExists
<1>2. PICK gb : SumRec(gb, S, b) /\ \A h : \A R \in SUBSET S : (\A i \in R : h[i] = b[i]) => SumMod(h, R) = gb[R]
  BY SumExists
<1>3. PICK gc : SumRec(gc, S, c) /\ \A h : \A R \in SUBSET S : (\A i \in R : h[i] = c[i]) => SumMod(h, R) = gc[R]
  BY SumExists
<1>4. SumMod(a, S) = ga[S] /\ SumMod(b, S) = gb[S] /\ SumMod(c, S) = gc[S]
  BY <1>1, <1>2, <1>3
<1> DEFINE P == {s \in SUBSET S : Null(ga[s] - (m * gb[s] + q * gc[s]))}
<1>5. ASSUME NEW s \in SUBSET S, \A x \in s : s \ {x} \in P PROVE s \in P
  <2>1. CASE s = {}
    <3>1. ga[s] = 0 /\ gb[s] = 0 /\ gc[s] = 0
      BY <1>1, <1>2, <1>3, <2>1 DEF SumRec
    <3>2. ga[s] - (m * gb[s] + q * gc[s]) = 0
      BY <3>1
    <3> QED BY <3>2, NullZero
  <2>2. CASE s # {}
    <3>1. PICK x \in s : TRUE
      BY <2>2
    <3> DEFINE r == s \ {x}
               a0 == ga[r]
               b0 == gb[r]
               c0 == gc[r]
    <3>2. r \in SUBSET S /\ r \in P
      BY <1>5
    <3>3. /\ a0 \in F /\ b0 \in F /\ c0 \in F
          /\ ga[s] \in F /\ gb[s] \in F /\ gc[s] \in F
          /\ ga[s] = (a[x] + a0) % Prime /\ gb[s] = (b[x] + b0) % Prime /\ gc[s] = (c[x] + c0) % Prime
      BY <1>1, <1>2, <1>3, <3>2 DEF SumRec
    <3>4. Null(a0 - (m * b0 + q * c0)) /\ Null(a[x] - (m * b[x] + q * c[x]))
      BY <3>2
    <3> DEFINE u == a[x] + a0
               v == b[x] + b0
               w == c[x] + c0
               A == ga[s]
               B == gb[s]
               C == gc[s]
    <3>5. /\ a0 \in Int /\ b0 \in Int /\ c0 \in Int /\ a[x] \in Int /\ b[x] \in Int /\ c[x] \in Int
          /\ u \in Int /\ v \in Int /\ w \in Int /\ A \in Int /\ B \in Int /\ C \in Int
      BY <3>3, OfF
    <3>6. Null(A - u) /\ Null(B - v) /\ Null(C - w) /\ Null(v - B) /\ Null(w - C)
      BY <3>3, <3>5, NullMod
    <3>7. (a[x] - (m * b[x] + q * c[x])) + (a0 - (m * b0 + q * c0)) = u - (m * v + q * w)
      BY <3>5
    <3> HIDE DEF r, a0, b0, c0, u, v, w, A, B, C
    <3>8. Null(u - (m * v + q * w))
      <4>1. a[x] - (m * b[x] + q * c[x]) \in Int /\ a0 - (m * b0 + q * c0) \in Int
        BY <3>5
      <4> QED BY <4>1, <3>4, <3>7, NullSum
    <3>9. Null(m * (v - B)) /\ Null(q * (w - C))
      <4>1. v - B \in Int /\ w - C \in Int
        BY <3>5
      <4> QED BY ONLY <4>1, <3>6, m \in Int, q \in Int, NullTimes
    <3>10. /\ A - u \in Int /\ u - (m * v + q * w) \in Int /\ m * (v - B) \in Int /\ q * (w - C) \in Int
      BY <3>5
    <3>11. Null((A - u) + (u - (m * v + q * w))) /\ Null(m * (v - B) + q * (w - C))
      BY <3>6, <3>8, <3>9, <3>10, NullSum
    <3>12. Null(((A - u) + (u - (m * v + q * w))) + (m * (v - B) + q * (w - C)))
      <4>1. (A - u) + (u - (m * v + q * w)) \in Int /\ m * (v - B) + q * (w - C) \in Int
        BY <3>10
      <4> QED BY ONLY <4>1, <3>11, NullSum
    <3>13. ((A - u) + (u - (m * v + q * w))) + (m * (v - B) + q * (w - C)) = A - (m * B + q * C)
      BY <3>5
    <3>14. Null(ga[s] - (m * gb[s] + q * gc[s]))
      BY <3>12, <3>13 DEF A, B, C
    <3> QED BY <3>14
  <2> QED BY <2>1, <2>2
<1> HIDE DEF P
<1>6. \A s \in SUBSET S : s \in P
  BY ONLY <1>5, IsFiniteSet(S), SubsetInduction
<1>7. S \in P
  BY <1>6
<1> QED BY <1>4, <1>7 DEF P

\* The same, with 1 as the second coefficient.
LEMMA SumTimes ==
  ASSUME NEW S, IsFiniteSet(S), NEW a \in [S -> Int], NEW b \in [S -> Int], NEW c \in [S -> Int],
         NEW m \in Int, \A i \in S : Null(a[i] - (m * b[i] + c[i]))
  PROVE  Null(SumMod(a, S) - (m * SumMod(b, S) + SumMod(c, S)))
<1> DEFINE q == 1
<1>1. q \in Int
  OBVIOUS
<1>2. \A i \in S : Null(a[i] - (m * b[i] + q * c[i]))
  <2> TAKE i \in S
  <2>1. a[i] - (m * b[i] + q * c[i]) = a[i] - (m * b[i] + c[i])
    OBVIOUS
  <2> HIDE DEF q
  <2> QED BY <2>1
<1> HIDE DEF q
<1>3. Null(SumMod(a, S) - (m * SumMod(b, S) + q * SumMod(c, S)))
  BY <1>1, <1>2, SumLinear
<1>4. SumMod(a, S) \in Int /\ SumMod(b, S) \in Int /\ SumMod(c, S) \in Int
  BY SumFacts, OfF
<1>5. SumMod(a, S) - (m * SumMod(b, S) + q * SumMod(c, S)) = SumMod(a, S) - (m * SumMod(b, S) + SumMod(c, S))
  BY <1>4 DEF q
<1> QED BY <1>3, <1>5

\* A sum of zeros is 0.
LEMMA SumZero ==
  ASSUME NEW S, IsFiniteSet(S), NEW f \in [S -> Int], \A i \in S : f[i] = 0
  PROVE  SumMod(f, S) = 0
<1> DEFINE o == 0
<1>1. o \in Int
  OBVIOUS
<1>2. \A i \in S : Null(f[i] - (o * f[i] + o * f[i]))
  <2> TAKE i \in S
  <2>1. f[i] - (o * f[i] + o * f[i]) = 0
    OBVIOUS
  <2> QED BY <2>1, NullZero
<1> HIDE DEF o
<1>3. Null(SumMod(f, S) - (o * SumMod(f, S) + o * SumMod(f, S)))
  BY <1>1, <1>2, SumLinear
<1>4. SumMod(f, S) \in F /\ SumMod(f, S) \in Int
  BY SumFacts, OfF
<1>5. SumMod(f, S) - (o * SumMod(f, S) + o * SumMod(f, S)) = SumMod(f, S) - 0
  BY <1>4 DEF o
<1> QED BY <1>3, <1>4, <1>5, ZeroOne, NullF

\* A sum with a single term that is not 0.
LEMMA SumSingle ==
  ASSUME NEW S, IsFiniteSet(S), NEW f \in [S -> Int], NEW s \in S, \A i \in S \ {s} : f[i] = 0
  PROVE  SumMod(f, S) = f[s] % Prime
<1> DEFINE r == [i \in S \ {s} |-> f[i]]
<1>1. r \in [S \ {s} -> Int] /\ \A i \in S \ {s} : r[i] = 0
  OBVIOUS
<1>2. IsFiniteSet(S \ {s})
  BY FS_Subset
<1> HIDE DEF r
<1>3. SumMod(r, S \ {s}) = 0
  BY <1>1, <1>2, SumZero
<1>4. SumMod(f, S) = (f[s] + SumMod(r, S \ {s})) % Prime
  BY SumFacts DEF r
<1>5. f[s] + 0 = f[s]
  OBVIOUS
<1> QED BY <1>3, <1>4, <1>5

\* What b makes of the elements of S.
Image(b, S) == {b[x] : x \in S}

\* b takes different elements of S to different ones.
OneToOne(b, S) == \A x, y \in S : b[x] = b[y] => x = y

\* What h makes of the image of a subset of S follows what g makes of the subset, from one element less.
Parallel(g, h, b, S) ==
  /\ g[{}] = h[{}]
  /\ \A s \in SUBSET S : \A x \in s :
       g[s \ {x}] = h[Image(b, s) \ {b[x]}] => g[s] = h[Image(b, s)]

\* Two folds are equal if each step of the one is a step of the other, under other names for the elements.
LEMMA FoldRenamed ==
  ASSUME NEW S, IsFiniteSet(S), NEW b, OneToOne(b, S), NEW g, NEW h, Parallel(g, h, b, S)
  PROVE  g[S] = h[Image(b, S)]
<1> DEFINE P == {s \in SUBSET S : g[s] = h[Image(b, s)]}
<1>1. ASSUME NEW s \in SUBSET S, \A x \in s : s \ {x} \in P PROVE s \in P
  <2>1. CASE s = {}
    <3>1. Image(b, s) = {}
      BY <2>1 DEF Image
    <3> QED BY <2>1, <3>1 DEF Parallel
  <2>2. CASE s # {}
    <3>1. PICK x \in s : TRUE
      BY <2>2
    <3>2. Image(b, s \ {x}) = Image(b, s) \ {b[x]}
      BY <3>1 DEF Image, OneToOne
    <3>3. g[s \ {x}] = h[Image(b, s \ {x})]
      BY <1>1, <3>1
    <3>4. g[s] = h[Image(b, s)]
      BY <3>1, <3>2, <3>3 DEF Parallel
    <3> QED BY <3>4
  <2> QED BY <2>1, <2>2
<1> HIDE DEF P
<1>2. \A s \in SUBSET S : s \in P
  BY ONLY <1>1, IsFiniteSet(S), SubsetInduction
<1>3. S \in P
  BY <1>2
<1> QED BY <1>3 DEF P

\* A sum over other names for its indices.
LEMMA SumRenamed ==
  ASSUME NEW S, IsFiniteSet(S), NEW U, IsFiniteSet(U), NEW b \in [S -> U], OneToOne(b, S),
         NEW f \in [U -> Int], NEW a \in [S -> Int], \A x \in S : a[x] = f[b[x]],
         NEW c, \A u \in Image(b, S) : c[u] = f[u]
  PROVE  SumMod(a, S) = SumMod(c, Image(b, S))
<1>1. PICK g : SumRec(g, S, a) /\ \A h : \A R \in SUBSET S : (\A i \in R : h[i] = a[i]) => SumMod(h, R) = g[R]
  BY SumExists
<1>2. PICK k : SumRec(k, U, f) /\ \A h : \A R \in SUBSET U : (\A i \in R : h[i] = f[i]) => SumMod(h, R) = k[R]
  BY SumExists
<1>3. \A s \in SUBSET S : Image(b, s) \in SUBSET U /\ \A x \in s : b[x] \in Image(b, s)
  BY DEF Image
<1>4. SumMod(a, S) = g[S] /\ SumMod(c, Image(b, S)) = k[Image(b, S)]
  BY <1>1, <1>2, <1>3
<1>5. \A s \in SUBSET S : \A x \in s :
        g[s \ {x}] = k[Image(b, s) \ {b[x]}] => g[s] = k[Image(b, s)]
  <2> TAKE s \in SUBSET S
  <2> TAKE x \in s
  <2>1. g[s] = (a[x] + g[s \ {x}]) % Prime
    BY <1>1 DEF SumRec
  <2>2. k[Image(b, s)] = (f[b[x]] + k[Image(b, s) \ {b[x]}]) % Prime
    BY <1>2, <1>3 DEF SumRec
  <2> QED BY <2>1, <2>2
<1>6. g[{}] = k[{}]
  BY <1>1, <1>2 DEF SumRec
<1>p. Parallel(g, k, b, S)
  BY <1>5, <1>6 DEF Parallel
<1>7. g[S] = k[Image(b, S)]
  BY <1>p, FoldRenamed
<1> QED BY <1>4, <1>7

\* The same for products, of congruent factors.
LEMMA ProductRenamed ==
  ASSUME NEW S, IsFiniteSet(S), NEW U, IsFiniteSet(U), NEW b \in [S -> U], OneToOne(b, S),
         NEW f \in [U -> Int], NEW a \in [S -> Int], \A x \in S : Null(a[x] - f[b[x]]),
         NEW c, \A u \in Image(b, S) : c[u] = f[u]
  PROVE  ProductMod(a, S) = ProductMod(c, Image(b, S))
<1>1. PICK g : ProductRec(g, S, a) /\ \A h : \A R \in SUBSET S : (\A i \in R : h[i] = a[i]) => ProductMod(h, R) = g[R]
  BY ProductExists
<1>2. PICK k : ProductRec(k, U, f) /\ \A h : \A R \in SUBSET U : (\A i \in R : h[i] = f[i]) => ProductMod(h, R) = k[R]
  BY ProductExists
<1>3. \A s \in SUBSET S : Image(b, s) \in SUBSET U /\ \A x \in s : b[x] \in Image(b, s)
  BY DEF Image
<1>4. ProductMod(a, S) = g[S] /\ ProductMod(c, Image(b, S)) = k[Image(b, S)]
  BY <1>1, <1>2, <1>3
<1>5. \A s \in SUBSET S : \A x \in s :
        g[s \ {x}] = k[Image(b, s) \ {b[x]}] => g[s] = k[Image(b, s)]
  <2> TAKE s \in SUBSET S
  <2> TAKE x \in s
  <2> HAVE g[s \ {x}] = k[Image(b, s) \ {b[x]}]
  <2> DEFINE t == g[s \ {x}]
             u == a[x]
             v == f[b[x]]
  <2>1. g[s] = (u * t) % Prime /\ t \in F
    BY <1>1 DEF ProductRec
  <2>2. k[Image(b, s)] = (v * t) % Prime
    BY <1>2, <1>3 DEF ProductRec
  <2>3. u \in Int /\ v \in Int /\ t \in Int /\ Null(u - v)
    BY <2>1, OfF
  <2> HIDE DEF t, u, v
  <2>4. Null(t * (u - v)) /\ t * (u - v) = u * t - v * t /\ u * t \in Int /\ v * t \in Int
    <3>1. u - v \in Int /\ t * (u - v) = u * t - v * t /\ u * t \in Int /\ v * t \in Int
      BY <2>3
    <3> QED BY <2>3, <3>1, NullTimes
  <2> QED BY <2>1, <2>2, <2>4, NullSame
<1>6. g[{}] = k[{}]
  BY <1>1, <1>2 DEF ProductRec
<1>p. Parallel(g, k, b, S)
  BY <1>5, <1>6 DEF Parallel
<1>7. g[S] = k[Image(b, S)]
  BY <1>p, FoldRenamed
<1> QED BY <1>4, <1>7

----------------------------------------------------------------------------
(***************************************************************************)
(* Interpolation at 0.                                                     *)
(***************************************************************************)

\* The nodes of two guardians differ by something that has an inverse: there are fewer guardians than field elements.
LEMMA Nodes ==
  ASSUME NEW i \in Guardians, NEW j \in Guardians, i # j
  PROVE  /\ ~Null(j - i)
         /\ InverseMod((j - i) % Prime) \in Int
         /\ Null((j - i) * InverseMod((j - i) % Prime) - 1)
<1>1. i \in F /\ j \in F /\ i \in Int /\ j \in Int
  BY PrimeFacts DEF F, Guardians
<1>2. ~Null(j - i)
  BY <1>1, NullF
<1>3. j - i \in Int
  BY <1>1
<1>4. InverseMod((j - i) % Prime) \in F /\ Null((j - i) * InverseMod((j - i) % Prime) - 1)
  BY <1>2, <1>3, Inverses
<1> QED BY <1>2, <1>4, OfF

\* There are finitely many guardians.
LEMMA GuardiansFinite == IsFiniteSet(Guardians) /\ \A i \in Guardians : i \in Int
<1>1. N - 1 \in Int
  BY PrimeFacts
<1> QED BY <1>1, FS_Interval DEF Guardians

\* The factor of node j in the weight of node i.
Factor(i, j) == IF j = i THEN 1 ELSE (j + 1) * InverseMod((j - i) % Prime)

\* The weight of a node among S is 1 if it is alone, and obtained from the weight without s by one factor.
LEMMA Weights ==
  ASSUME NEW S \in SUBSET Guardians, NEW i \in S
  PROVE  /\ Basis(S, i) \in F
         /\ S = {i} => Basis(S, i) = 1
         /\ \A s \in S \ {i} : Null(Basis(S, i) - Basis(S \ {s}, i) * ((s + 1) * InverseMod((s - i) % Prime)))
<1> DEFINE f == [j \in Guardians |-> Factor(i, j)]
<1>1. \A j \in Guardians : f[j] = Factor(i, j) /\ f[j] \in Int
  <2> TAKE j \in Guardians
  <2>1. j # i => InverseMod((j - i) % Prime) \in Int /\ j \in Int
    BY Nodes, GuardiansFinite
  <2> QED BY <2>1 DEF Factor
<1>2. f \in [Guardians -> Int]
  BY <1>1
<1> HIDE DEF f
<1>3. PICK g : ProductRec(g, Guardians, f) /\ \A h : \A R \in SUBSET Guardians : (\A j \in R : h[j] = f[j]) => ProductMod(h, R) = g[R]
  BY <1>2, GuardiansFinite, ProductExists
<1>4. ASSUME NEW R \in SUBSET Guardians PROVE Basis(R, i) = g[R]
  <2> DEFINE h == [j \in R |-> Factor(i, j)]
  <2>1. \A j \in R : h[j] = f[j]
    BY <1>1
  <2>2. Basis(R, i) = ProductMod(h, R)
    BY DEF Basis, Factor
  <2> HIDE DEF h
  <2> QED BY <1>3, <2>1, <2>2
<1>5. Basis(S, i) \in F
  BY <1>3, <1>4 DEF ProductRec
<1>6. ASSUME S = {i} PROVE Basis(S, i) = 1
  <2>1. g[S] = (f[i] * g[{}]) % Prime /\ g[{}] = 1 /\ f[i] = 1
    <3>1. S \ {i} = {}
      BY <1>6
    <3> QED BY <1>1, <1>3, <3>1 DEF ProductRec, Factor
  <2>2. 1 % Prime = 1
    BY ZeroOne, OfF
  <2> QED BY <1>4, <2>1, <2>2
<1>7. ASSUME NEW s \in S \ {i} PROVE Null(Basis(S, i) - Basis(S \ {s}, i) * ((s + 1) * InverseMod((s - i) % Prime)))
  <2> DEFINE v == (s + 1) * InverseMod((s - i) % Prime)
             b == g[S \ {s}]
  <2>1. f[s] = v /\ v \in Int
    BY <1>1 DEF Factor
  <2>2. g[S] = (f[s] * b) % Prime /\ b \in F
    BY <1>3 DEF ProductRec
  <2>3. Basis(S, i) = g[S] /\ Basis(S \ {s}, i) = b
    BY <1>4
  <2> HIDE DEF v, b
  <2>4. b \in Int /\ v * b = b * v /\ v * b \in Int
    BY <2>1, <2>2, OfF
  <2>5. Null(((v * b) % Prime) - v * b)
    BY <2>4, NullMod
  <2>6. Basis(S, i) - Basis(S \ {s}, i) * v = ((v * b) % Prime) - v * b
    BY <2>1, <2>2, <2>3, <2>4
  <2> QED BY <2>5, <2>6 DEF v
<1> QED BY <1>5, <1>6, <1>7

\* What this makes of one term of an interpolation.
LEMMA WeightTerm ==
  ASSUME NEW y \in Int, NEW i \in Int, NEW s \in Int, NEW B \in Int, NEW C \in Int, NEW v \in Int,
         Null(B - C * ((s + 1) * v)), Null((s - i) * v - 1)
  PROVE  Null(((i + 1) * y) * B - ((s + 1) * (y * B) + (-(s + 1)) * (y * C)))
<1>1. B - C * ((s + 1) * v) \in Int /\ (s - i) * v - 1 \in Int /\ y * (i - s) \in Int /\ -(y * C * (s + 1)) \in Int
  OBVIOUS
<1>2. Null((y * (i - s)) * (B - C * ((s + 1) * v)) + (-(y * C * (s + 1))) * ((s - i) * v - 1))
  BY <1>1, NullCombine
<1>3. (y * (i - s)) * (B - C * ((s + 1) * v)) + (-(y * C * (s + 1))) * ((s - i) * v - 1)
        = ((i + 1) * y) * B - ((s + 1) * (y * B) + (-(s + 1)) * (y * C))
  OBVIOUS
<1> QED BY <1>2, <1>3

\* The interpolation at 0 of the values y at the nodes of S.
At0(S, y) == SumMod([i \in S |-> y[i] * Basis(S, i)], S)

\* Nodes and weights are numbers.
LEMMA SubsetFinite == ASSUME NEW S \in SUBSET Guardians PROVE IsFiniteSet(S) /\ \A i \in S : i \in Int /\ Basis(S, i) \in Int
BY GuardiansFinite, FS_Subset, Weights, OfF

\* An interpolation is in the field.
LEMMA At0Type ==
  ASSUME NEW S \in SUBSET Guardians, NEW y \in [Guardians -> Int]
  PROVE  At0(S, y) \in F /\ At0(S, y) \in Int
<1> DEFINE f == [i \in S |-> y[i] * Basis(S, i)]
<1>1. f \in [S -> Int]
  <2>1. \A i \in S : y[i] \in Int /\ Basis(S, i) \in Int
    BY SubsetFinite
  <2>2. \A i \in S : y[i] * Basis(S, i) \in Int
    BY <2>1
  <2> QED BY <2>2
<1> HIDE DEF f
<1>2. SumMod(f, S) \in F
  BY <1>1, SubsetFinite, SumFacts
<1> QED BY <1>2, OfF DEF At0, f

\* One term of an interpolation split off.
LEMMA At0Split ==
  ASSUME NEW S \in SUBSET Guardians, NEW y \in [Guardians -> Int], NEW s \in S
  PROVE  At0(S, y) = (y[s] * Basis(S, s) + SumMod([i \in S \ {s} |-> y[i] * Basis(S, i)], S \ {s})) % Prime
<1> DEFINE f == [i \in S |-> y[i] * Basis(S, i)]
           r == [i \in S \ {s} |-> y[i] * Basis(S, i)]
<1>1. f \in [S -> Int]
  <2>1. \A i \in S : y[i] \in Int /\ Basis(S, i) \in Int
    BY SubsetFinite
  <2>2. \A i \in S : y[i] * Basis(S, i) \in Int
    BY <2>1
  <2> QED BY <2>2
<1>2. [i \in S \ {s} |-> f[i]] = r /\ f[s] = y[s] * Basis(S, s)
  OBVIOUS
<1> HIDE DEF f, r
<1>3. SumMod(f, S) = (f[s] + SumMod([i \in S \ {s} |-> f[i]], S \ {s})) % Prime
  BY <1>1, SubsetFinite, SumFacts
<1>4. SumMod(f, S) = (y[s] * Basis(S, s) + SumMod(r, S \ {s})) % Prime
  BY <1>2, <1>3
<1> QED BY <1>4 DEF At0, f, r

\* The algebra of the next lemma.
LEMMA SplitAlgebra ==
  ASSUME NEW x \in Int, NEW l \in Int, NEW d \in Int, NEW b \in Int, NEW q \in Int,
         NEW ra \in Int, NEW rb \in Int,
         Null(x - (q * b + ra)), Null(l - (b + rb)), Null(ra - (q * rb + (-q) * d))
  PROVE  Null(x - q * (l - d))
<1>1. x - (q * b + ra) \in Int /\ l - (b + rb) \in Int /\ ra - (q * rb + (-q) * d) \in Int /\ -q \in Int /\ 1 \in Int
  OBVIOUS
<1> DEFINE t == 1 * (x - (q * b + ra)) + (-q) * (l - (b + rb))
<1>2. Null(t) /\ t \in Int
  BY <1>1, NullCombine
<1> HIDE DEF t
<1>3. Null(t + (ra - (q * rb + (-q) * d)))
  BY <1>1, <1>2, NullSum
<1>4. t + (ra - (q * rb + (-q) * d)) = x - q * (l - d)
  BY DEF t
<1> QED BY <1>3, <1>4

\* Multiplying the values by the nodes is the same as taking a node away and multiplying by it.
LEMMA NodeAway ==
  ASSUME NEW S \in SUBSET Guardians, NEW y \in [Guardians -> Int], NEW s \in S
  PROVE  Null(At0(S, [i \in Guardians |-> (i + 1) * y[i]]) - (s + 1) * (At0(S, y) - At0(S \ {s}, y)))
<1> DEFINE R == S \ {s}
           z == [i \in Guardians |-> (i + 1) * y[i]]
           a == [i \in R |-> z[i] * Basis(S, i)]
           b == [i \in R |-> y[i] * Basis(S, i)]
           c == [i \in R |-> y[i] * Basis(R, i)]
           q == s + 1
<1>1. R \in SUBSET Guardians /\ IsFiniteSet(R) /\ s \in Int /\ q \in Int /\ -q \in Int
  BY SubsetFinite
<1>2. \A i \in S : i \in Int /\ y[i] \in Int /\ Basis(S, i) \in Int
  BY SubsetFinite
<1>3. \A i \in R : Basis(R, i) \in Int
  BY <1>1, SubsetFinite
<1>4. \A i \in Guardians : (i + 1) * y[i] \in Int /\ z[i] = (i + 1) * y[i]
  BY GuardiansFinite
<1>5. z \in [Guardians -> Int]
  BY <1>4
<1>6. \A i \in R : Null(((i + 1) * y[i]) * Basis(S, i) - (q * (y[i] * Basis(S, i)) + (-q) * (y[i] * Basis(R, i))))
  <2> TAKE i \in R
  <2> DEFINE v == InverseMod((s - i) % Prime)
  <2>1. v \in Int /\ Null((s - i) * v - 1)
    BY Nodes
  <2>2. Null(Basis(S, i) - Basis(R, i) * ((s + 1) * v))
    BY Weights
  <2>3. i \in Int /\ y[i] \in Int /\ Basis(S, i) \in Int /\ Basis(R, i) \in Int
    BY <1>2, <1>3
  <2> HIDE DEF v, R
  <2> QED BY <1>1, <2>1, <2>2, <2>3, WeightTerm
<1>7. \A i \in R : /\ z[i] * Basis(S, i) \in Int /\ y[i] * Basis(S, i) \in Int /\ y[i] * Basis(R, i) \in Int
                   /\ z[i] = (i + 1) * y[i]
  <2> TAKE i \in R
  <2>1. z[i] = (i + 1) * y[i] /\ z[i] \in Int
    BY <1>4
  <2> HIDE DEF z
  <2>2. y[i] \in Int /\ Basis(S, i) \in Int /\ Basis(R, i) \in Int
    BY <1>2, <1>3
  <2> QED BY <2>1, <2>2
<1>8. a \in [R -> Int] /\ b \in [R -> Int] /\ c \in [R -> Int]
  BY <1>7
<1>9. \A i \in R : Null(a[i] - (q * b[i] + (-q) * c[i]))
  BY <1>6, <1>7
<1>10. At0(S, z) = (z[s] * Basis(S, s) + SumMod(a, R)) % Prime
  BY <1>5, At0Split
<1>11. At0(S, y) = (y[s] * Basis(S, s) + SumMod(b, R)) % Prime
  BY At0Split
<1>12. At0(R, y) = SumMod(c, R)
  BY DEF At0
<1>13. z[s] = (s + 1) * y[s]
  BY <1>4
<1>z. At0(S, z) \in Int /\ At0(S, y) \in Int
  BY <1>5, At0Type
<1> HIDE DEF R, z, a, b, c
<1>14. Null(SumMod(a, R) - (q * SumMod(b, R) + (-q) * SumMod(c, R)))
  BY <1>1, <1>8, <1>9, SumLinear
<1>15. SumMod(a, R) \in Int /\ SumMod(b, R) \in Int /\ SumMod(c, R) \in Int
  BY <1>1, <1>8, SumFacts, OfF
<1> DEFINE w == y[s] * Basis(S, s)
<1>16. w \in Int /\ z[s] * Basis(S, s) = q * w
  BY <1>1, <1>2, <1>13
<1> HIDE DEF w, q
<1>17. Null(At0(S, z) - (q * w + SumMod(a, R)))
  <2>1. q * w + SumMod(a, R) \in Int
    BY <1>1, <1>15, <1>16
  <2> QED BY <2>1, <1>10, <1>16, NullMod
<1>18. Null(At0(S, y) - (w + SumMod(b, R)))
  <2>1. w + SumMod(b, R) \in Int
    BY <1>15, <1>16
  <2> QED BY <2>1, <1>11, NullMod DEF w
<1>19. Null(At0(S, z) - q * (At0(S, y) - At0(R, y)))
  BY <1>1, <1>12, <1>14, <1>15, <1>16, <1>17, <1>18, <1>z, SplitAlgebra
<1> QED BY <1>19 DEF R, z, q

\* The algebra of the next lemma.
LEMMA OneAlgebra ==
  ASSUME NEW x \in Int, NEW l \in Int, NEW a \in Int, NEW b \in Int, NEW s \in Int, NEW t \in Int,
         Null(x - (s + 1) * (l - a)), Null(x - (t + 1) * (l - b)), Null(a - 1), Null(b - 1), ~Null(s - t)
  PROVE  Null(l - 1)
<1> DEFINE u == x - (s + 1) * (l - a)
           w == x - (t + 1) * (l - b)
           m == 1 * w + (-1) * u
           k == (s + 1) * (a - 1) + (-(t + 1)) * (b - 1)
<1>1. u \in Int /\ w \in Int /\ a - 1 \in Int /\ b - 1 \in Int /\ s + 1 \in Int /\ -(t + 1) \in Int
      /\ 1 \in Int /\ -1 \in Int /\ s - t \in Int /\ l - 1 \in Int
  OBVIOUS
<1>2. m + k = (s - t) * (l - 1)
  OBVIOUS
<1> HIDE DEF u, w
<1>3. Null(m)
  BY ONLY <1>1, Null(u), Null(w), NullCombine DEF u, w
<1>4. Null(k)
  BY <1>1, NullCombine
<1>5. m \in Int /\ k \in Int
  BY <1>1
<1> HIDE DEF m, k
<1>6. Null((s - t) * (l - 1))
  BY <1>2, <1>3, <1>4, <1>5, NullSum
<1> QED BY <1>1, <1>6, Cancel

\* The weights of a nonempty set of nodes add up to 1.
LEMMA WeightsAddUp ==
  ASSUME NEW S \in SUBSET Guardians, S # {}
  PROVE  Null(At0(S, [i \in Guardians |-> 1]) - 1)
<1> DEFINE one == [i \in Guardians |-> 1]
           x == [i \in Guardians |-> (i + 1) * one[i]]
           P == {s \in SUBSET Guardians : s # {} => Null(At0(s, one) - 1)}
<1>1. one \in [Guardians -> Int] /\ \A i \in Guardians : one[i] = 1
  OBVIOUS
<1>2. x \in [Guardians -> Int]
  BY GuardiansFinite
<1>3. ASSUME NEW s \in SUBSET Guardians, \A y \in s : s \ {y} \in P PROVE s \in P
  <2> SUFFICES ASSUME s # {} PROVE Null(At0(s, one) - 1)
    OBVIOUS
  <2>1. PICK i \in s : TRUE
    OBVIOUS
  <2>2. CASE s = {i}
    <3>1. s \ {i} = {} /\ Basis(s, i) = 1 /\ one[i] = 1
      BY <2>2, Weights
    <3>2. SumMod([j \in s \ {i} |-> one[j] * Basis(s, j)], s \ {i}) = 0
      <4> DEFINE f == [j \in s \ {i} |-> one[j] * Basis(s, j)]
      <4>1. f \in [s \ {i} -> Int] /\ IsFiniteSet(s \ {i})
        BY <3>1, FS_EmptySet
      <4> HIDE DEF f
      <4>2. SumMod(f, s \ {i}) = 0
        BY <3>1, <4>1, SumFacts
      <4> QED BY <4>2 DEF f
    <3>3. At0(s, one) = (one[i] * Basis(s, i) + SumMod([j \in s \ {i} |-> one[j] * Basis(s, j)], s \ {i})) % Prime
      BY <1>1, At0Split
    <3>4. 1 % Prime = 1
      BY ZeroOne, OfF
    <3>5. At0(s, one) = 1 % Prime
      <4> HIDE DEF one
      <4>1. one[i] * Basis(s, i) + SumMod([j \in s \ {i} |-> one[j] * Basis(s, j)], s \ {i}) = 1
        BY <3>1, <3>2
      <4> QED BY <3>3, <4>1
    <3>6. At0(s, one) - 1 = 0
      BY <3>4, <3>5
    <3> QED BY <3>6, NullZero
  <2>3. CASE s # {i}
    <3>1. PICK j \in s : j # i
      BY <2>3
    <3>2. s \ {i} # {} /\ s \ {j} # {} /\ s \ {i} \in P /\ s \ {j} \in P
      BY <1>3, <3>1
    <3>3. Null(At0(s \ {i}, one) - 1) /\ Null(At0(s \ {j}, one) - 1)
      BY <3>2
    <3>4. ~Null(i - j) /\ i \in Int /\ j \in Int
      BY <3>1, Nodes, GuardiansFinite
    <3> HIDE DEF one, P
    <3>5. /\ Null(At0(s, x) - (i + 1) * (At0(s, one) - At0(s \ {i}, one)))
          /\ Null(At0(s, x) - (j + 1) * (At0(s, one) - At0(s \ {j}, one)))
      BY <1>1, NodeAway
    <3>6. At0(s, x) \in Int /\ At0(s, one) \in Int /\ At0(s \ {i}, one) \in Int /\ At0(s \ {j}, one) \in Int
      <4>1. s \ {i} \in SUBSET Guardians /\ s \ {j} \in SUBSET Guardians
        OBVIOUS
      <4> HIDE DEF x
      <4> QED BY <1>1, <1>2, <4>1, At0Type
    <3> HIDE DEF x
    <3> QED BY <3>3, <3>4, <3>5, <3>6, OneAlgebra
  <2> QED BY <2>2, <2>3
<1> HIDE DEF P
<1>4. \A s \in SUBSET Guardians : s \in P
  BY ONLY <1>3, GuardiansFinite, SubsetInduction
<1> QED BY <1>4 DEF P

\* The interpolation of zeros is 0.
LEMMA At0Zero ==
  ASSUME NEW S \in SUBSET Guardians, NEW y, \A i \in S : y[i] = 0
  PROVE  At0(S, y) = 0
<1> DEFINE f == [i \in S |-> y[i] * Basis(S, i)]
<1>1. \A i \in S : f[i] = 0
  <2> TAKE i \in S
  <2>1. y[i] = 0 /\ Basis(S, i) \in Int
    BY SubsetFinite
  <2>2. y[i] * Basis(S, i) = 0
    BY <2>1
  <2> QED BY <2>2
<1>2. f \in [S -> Int]
  BY <1>1
<1> HIDE DEF f
<1>3. SumMod(f, S) = 0
  BY <1>1, <1>2, SubsetFinite, SumZero
<1> QED BY <1>3 DEF At0, f

\* The algebra of one step of the next lemma.
LEMMA HornerAlgebra ==
  ASSUME NEW l \in Int, NEW c \in Int, NEW o \in Int, NEW x \in Int, NEW s \in Int,
         NEW a \in Int, NEW b \in Int, NEW q \in Int,
         Null(l - (c * o + x)), Null(o - 1), Null(x - (s + 1) * (a - b)), Null(a - q), Null(b - q)
  PROVE  Null(l - c)
<1> DEFINE u == l - (c * o + x)
           v == x - (s + 1) * (a - b)
           w == (s + 1) * (a - q) + (-(s + 1)) * (b - q)
           m == 1 * u + c * (o - 1)
           k == 1 * v + 1 * w
<1>1. u \in Int /\ v \in Int /\ o - 1 \in Int /\ a - q \in Int /\ b - q \in Int /\ s + 1 \in Int
      /\ -(s + 1) \in Int /\ 1 \in Int /\ w \in Int
  OBVIOUS
<1>2. m + k = l - c
  OBVIOUS
<1>3. Null(u) /\ Null(v)
  OBVIOUS
<1>4. Null(w)
  BY <1>1, NullCombine
<1> HIDE DEF u, v, w
<1>5. Null(m) /\ Null(k)
  BY <1>1, <1>3, <1>4, NullCombine
<1>6. m \in Int /\ k \in Int
  BY <1>1
<1> HIDE DEF m, k
<1> QED BY <1>2, <1>5, <1>6, NullSum

(***************************************************************************)
(* The values of a polynomial with n coefficients at n or more guardians'  *)
(* nodes interpolate to its secret, the first coefficient. By induction on *)
(* the number of coefficients: Horner's scheme takes one off, and NodeAway *)
(* a node.                                                                 *)
(***************************************************************************)
LEMMA Interpolation ==
  ASSUME NEW n \in Nat, NEW p \in [1..n -> F], NEW e,
         \A i \in Guardians : Tails(e[i], p, i + 1, n),
         NEW S \in SUBSET Guardians, Cardinality(S) >= n, n > 0,
         NEW y, \A i \in S : y[i] = e[i][1]
  PROVE  At0(S, y) = p[1]
<1> DEFINE Coeff(k) == IF k <= n THEN p[k] ELSE 0
           Values(k) == [i \in Guardians |-> e[i][k]]
           T == {m \in Nat : m <= n =>
                   \A s \in SUBSET Guardians : Cardinality(s) >= m =>
                      Null(At0(s, Values((n + 1) - m)) - Coeff((n + 1) - m))}
<1>0. \A s \in SUBSET Guardians : IsFiniteSet(s) /\ Cardinality(s) \in Nat
  BY SubsetFinite, FS_CardinalityType
<1>1. \A k \in 1..(n + 1) : Values(k) \in [Guardians -> Int] /\ \A i \in Guardians : Values(k)[i] = e[i][k]
  <2> TAKE k \in 1..(n + 1)
  <2>1. \A i \in Guardians : e[i][k] \in F
    BY DEF Tails
  <2>2. \A i \in Guardians : e[i][k] \in Int
    BY <2>1, OfF
  <2> QED BY <2>2
<1>2. 0 \in T
  <2> SUFFICES ASSUME NEW s \in SUBSET Guardians PROVE Null(At0(s, Values(n + 1)) - 0)
    BY PrimeFacts
  <2>1. \A i \in s : Values(n + 1)[i] = 0
    BY DEF Tails
  <2> HIDE DEF Values
  <2>2. At0(s, Values(n + 1)) - 0 = 0
    BY <2>1, At0Zero
  <2> QED BY <2>2, NullZero
<1>3. ASSUME NEW m \in T PROVE m + 1 \in T
  <2> SUFFICES ASSUME m + 1 <= n, NEW s \in SUBSET Guardians, Cardinality(s) >= m + 1
               PROVE  Null(At0(s, Values(n - m)) - p[n - m])
    BY <1>0
  <2> DEFINE k == n - m
             z == Values(k + 1)
             q == Coeff(k + 1)
             one == [i \in Guardians |-> 1]
             x == [i \in Guardians |-> (i + 1) * z[i]]
  <2>1. m \in Nat /\ m <= n /\ k \in 1..n /\ k + 1 = (n + 1) - m /\ k + 1 \in 1..(n + 1) /\ k \in 1..(n + 1) /\ k \in Nat
    OBVIOUS
  <2>2. p[k] \in Int /\ q \in Int
    <3>1. p[k] \in F /\ (k + 1 <= n => p[k + 1] \in F)
      BY <2>1
    <3> QED BY <3>1, OfF
  <2>3. s # {} /\ Cardinality(s) >= m
    BY <1>0, <2>1, FS_EmptySet
  <2>4. PICK i \in s : TRUE
    BY <2>3
  <2>5. s \ {i} \in SUBSET Guardians /\ Cardinality(s \ {i}) >= m
    <3>1. Cardinality(s \ {i}) = Cardinality(s) - 1
      BY <1>0, FS_RemoveElement
    <3> QED BY <1>0, <2>1, <3>1
  <2>6. Null(At0(s, z) - q) /\ Null(At0(s \ {i}, z) - q)
    BY <2>1, <2>3, <2>5
  <2>7. z \in [Guardians -> Int] /\ \A j \in Guardians : z[j] = e[j][k + 1]
    BY <1>1, <2>1
  <2>8. Values(k) \in [Guardians -> Int] /\ \A j \in Guardians : Values(k)[j] = e[j][k]
    BY <1>1, <2>1
  <2> HIDE DEF T, Coeff, Values, k, z, q
  <2>9. one \in [Guardians -> Int]
    OBVIOUS
  <2>10. x \in [Guardians -> Int] /\ \A j \in Guardians : x[j] = (j + 1) * z[j]
    BY <2>7, GuardiansFinite
  <2>11. Null(At0(s, one) - 1)
    BY <2>3, WeightsAddUp
  <2>12. Null(At0(s, x) - (i + 1) * (At0(s, z) - At0(s \ {i}, z)))
    BY <2>7, NodeAway
  <2>13. At0(s, one) \in Int /\ At0(s, x) \in Int /\ At0(s, z) \in Int /\ At0(s \ {i}, z) \in Int
         /\ At0(s, Values(k)) \in Int
    <3> HIDE DEF one, x
    <3> QED BY <2>5, <2>7, <2>8, <2>9, <2>10, At0Type
  <2>14. Null(At0(s, Values(k)) - (p[k] * At0(s, one) + At0(s, x)))
    <3> DEFINE a == [j \in s |-> Values(k)[j] * Basis(s, j)]
               b == [j \in s |-> one[j] * Basis(s, j)]
               c == [j \in s |-> x[j] * Basis(s, j)]
    <3>1. \A j \in s : /\ Values(k)[j] \in Int /\ one[j] = 1 /\ x[j] = (j + 1) * z[j] /\ Basis(s, j) \in Int
                       /\ j \in Int /\ z[j] \in Int
                       /\ Null(Values(k)[j] - (p[k] + (j + 1) * z[j]))
      <4> TAKE j \in s
      <4>1. e[j][k] = (p[k] + (j + 1) * e[j][k + 1]) % Prime
        BY <2>1 DEF Tails
      <4>2. j \in Int /\ z[j] \in Int /\ Values(k)[j] \in Int /\ Basis(s, j) \in Int
        BY <2>7, <2>8, SubsetFinite
      <4>3. p[k] + (j + 1) * z[j] \in Int
        BY <2>2, <4>2
      <4>4. Null(((p[k] + (j + 1) * z[j]) % Prime) - (p[k] + (j + 1) * z[j]))
        BY <4>3, NullMod
      <4>5. Values(k)[j] = (p[k] + (j + 1) * z[j]) % Prime
        BY <2>7, <2>8, <4>1
      <4> QED BY <2>10, <4>2, <4>4, <4>5
    <3> HIDE DEF x
    <3>2. \A j \in s : Values(k)[j] * Basis(s, j) \in Int /\ one[j] * Basis(s, j) \in Int /\ x[j] * Basis(s, j) \in Int
      <4> TAKE j \in s
      <4>1. Values(k)[j] \in Int /\ one[j] \in Int /\ x[j] \in Int /\ Basis(s, j) \in Int
        BY <3>1
      <4> QED BY <4>1
    <3>3. a \in [s -> Int] /\ b \in [s -> Int] /\ c \in [s -> Int]
      BY <3>2
    <3>4. \A j \in s : Null(a[j] - (p[k] * b[j] + c[j]))
      <4> TAKE j \in s
      <4> DEFINE d == Values(k)[j]
                 w == Basis(s, j)
                 h == (j + 1) * z[j]
      <4>1. a[j] = d * w /\ b[j] = w /\ c[j] = h * w
        BY <3>1
      <4>2. d \in Int /\ w \in Int /\ h \in Int /\ Null(d - (p[k] + h))
        BY <3>1
      <4> HIDE DEF d, w, h
      <4>3. d - (p[k] + h) \in Int
        BY <2>2, <4>2
      <4>4. Null(w * (d - (p[k] + h)))
        BY ONLY <4>2, <4>3, NullTimes
      <4>5. w * (d - (p[k] + h)) = d * w - (p[k] * w + h * w)
        BY <2>2, <4>2
      <4> QED BY <4>1, <4>4, <4>5
    <3> HIDE DEF a, b, c
    <3>5. Null(SumMod(a, s) - (p[k] * SumMod(b, s) + SumMod(c, s)))
      BY <1>0, <2>2, <3>3, <3>4, SumTimes
    <3> QED BY <3>5 DEF At0, a, b, c
  <2>15. Null(At0(s, Values(k)) - p[k])
    <3>1. i \in Int
      BY GuardiansFinite
    <3> HIDE DEF one, x
    <3> DEFINE l == At0(s, Values(k))
               o == At0(s, one)
               w == At0(s, x)
               a == At0(s, z)
               b == At0(s \ {i}, z)
               c == p[k]
    <3>2. l \in Int /\ c \in Int /\ o \in Int /\ w \in Int /\ a \in Int /\ b \in Int /\ q \in Int
      BY <2>2, <2>13
    <3>3. Null(l - (c * o + w)) /\ Null(o - 1) /\ Null(w - (i + 1) * (a - b)) /\ Null(a - q) /\ Null(b - q)
      BY <2>6, <2>11, <2>12, <2>14
    <3> HIDE DEF l, o, w, a, b, c
    <3>4. Null(l - c)
      BY <3>1, <3>2, <3>3, HornerAlgebra
    <3> QED BY <3>4 DEF l, c
  <2> QED BY <2>15 DEF k
<1>4. n \in T
  <2> HIDE DEF T
  <2>1. T \in SUBSET Nat
    BY DEF T
  <2> QED BY ONLY <1>2, <1>3, <2>1, n \in Nat, NatSet
<1>5. Null(At0(S, Values(1)) - p[1])
  <2>1. (n + 1) - n = 1 /\ 1 <= n
    OBVIOUS
  <2> HIDE DEF Values
  <2> QED BY <1>4, <2>1
<1>6. At0(S, Values(1)) = At0(S, y)
  <2>1. [i \in S |-> Values(1)[i] * Basis(S, i)] = [i \in S |-> y[i] * Basis(S, i)]
    OBVIOUS
  <2> QED BY <2>1 DEF At0
<1>7. At0(S, Values(1)) \in F
  <2>1. 1 \in 1..(n + 1)
    OBVIOUS
  <2> HIDE DEF Values
  <2>2. Values(1) \in [Guardians -> Int]
    BY <1>1, <2>1
  <2> QED BY ONLY S \in SUBSET Guardians, <2>2, At0Type
<1>8. p[1] \in F
  OBVIOUS
<1> HIDE DEF Values
<1> QED BY <1>5, <1>6, <1>7, <1>8, NullF

(***************************************************************************)
(* The shares of any guardians, as many as a key set has coefficients (the *)
(* threshold of the keygen request) or more, interpolate to its secret key *)
(* if each counts as the share of its own guardian: the numbering by       *)
(* position in aggregate_signature_shares is all that is in the way of the *)
(* other guardians.                                                        *)
(***************************************************************************)
THEOREM AnySharesRecover ==
  ASSUME NEW n \in Nat, n > 0, NEW p \in [1..n -> F],
         NEW S \in SUBSET Guardians, Cardinality(S) >= n,
         NEW y, \A i \in S : y[i] = ShareOf(p, i)
  PROVE  At0(S, y) = p[1]
<1> DEFINE e == [i \in Guardians |-> CHOOSE t : Tails(t, p, i + 1, n) /\ evaluate(p, i + 1) = t[1]]
<1>1. \A i \in Guardians : Tails(e[i], p, i + 1, n) /\ evaluate(p, i + 1) = e[i][1]
  <2> TAKE i \in Guardians
  <2>1. i + 1 \in Int
    BY GuardiansFinite
  <2>2. \E t : Tails(t, p, i + 1, n) /\ evaluate(p, i + 1) = t[1]
    BY <2>1, TailsExist
  <2> QED BY <2>2
<1> HIDE DEF e
<1>2. \A i \in S : y[i] = e[i][1]
  BY <1>1 DEF ShareOf
<1>3. \A i \in Guardians : Tails(e[i], p, i + 1, n)
  BY <1>1
<1> QED BY <1>2, <1>3, Interpolation

----------------------------------------------------------------------------
(***************************************************************************)
(* Polynomials with given roots.                                           *)
(***************************************************************************)

\* The algebra of the first coefficient in EvaluateTimes.
LEMMA RootAlgebra ==
  ASSUME NEW e1 \in Int, NEW e2 \in Int, NEW p1 \in Int, NEW f \in Int, NEW v \in Int, NEW x \in Int,
         Null(e1 - (p1 + x * e2)), Null((e2 - v * e1) - f)
  PROVE  Null((e1 - v * (x * e1)) - (p1 + x * f))
<1> DEFINE A == e1 - (p1 + x * e2)
           D == (e2 - v * e1) - f
           m == 1 * A + x * D
<1>1. A \in Int /\ D \in Int /\ 1 \in Int
  OBVIOUS
<1>2. m = (e1 - v * (x * e1)) - (p1 + x * f)
  OBVIOUS
<1>3. Null(A) /\ Null(D)
  OBVIOUS
<1> HIDE DEF A, D
<1>4. Null(m)
  BY <1>1, <1>3, NullCombine
<1> QED BY <1>2, <1>4

\* The polynomial p times 1 - v * X.
Times(p, v, n) == [k \in 1..n |-> IF k = 1 THEN p[1] ELSE (p[k] - v * p[k - 1]) % Prime]

\* The value of the product is the product of the values, if the last coefficient leaves room.
LEMMA EvaluateTimes ==
  ASSUME NEW n \in Nat, n > 0, NEW p \in [1..n -> F], p[n] = 0, NEW v \in Int, NEW x \in Int
  PROVE  /\ Times(p, v, n) \in [1..n -> F]
         /\ evaluate(Times(p, v, n), x) = (evaluate(p, x) - v * (x * evaluate(p, x))) % Prime
<1> DEFINE q == Times(p, v, n)
<1>1. \A k \in 1..n : p[k] \in Int /\ p[k] \in F
  BY OfF
<1>2. \A k \in 2..n : p[k] - v * p[k - 1] \in Int /\ k \in 1..n /\ k - 1 \in 1..n /\ k # 1
  BY <1>1
<1>3. \A k \in 1..n : k = 1 \/ k \in 2..n
  OBVIOUS
<1>4. q \in [1..n -> F]
  BY <1>1, <1>2, <1>3, InF DEF Times
<1>5. q[1] = p[1] /\ \A k \in 2..n : q[k] = (p[k] - v * p[k - 1]) % Prime
  BY <1>2 DEF Times
<1> HIDE DEF q
<1>6. PICK e : Tails(e, p, x, n) /\ evaluate(p, x) = e[1]
  BY TailsExist
<1>7. \A k \in 1..(n + 1) : e[k] \in F /\ e[k] \in Int
  BY <1>6, OfF DEF Tails
<1> DEFINE f == [k \in 1..(n + 1) |-> IF k = 1 THEN (e[1] - v * (x * e[1])) % Prime ELSE (e[k] - v * e[k - 1]) % Prime]
<1>8. \A k \in 2..(n + 1) : /\ k \in 1..(n + 1) /\ k - 1 \in 1..(n + 1) /\ k # 1
                            /\ e[k] - v * e[k - 1] \in Int
  BY <1>7
<1>9. e[1] - v * (x * e[1]) \in Int
  BY <1>7
<1>10. f[1] = (e[1] - v * (x * e[1])) % Prime /\ \A k \in 2..(n + 1) : f[k] = (e[k] - v * e[k - 1]) % Prime
  BY <1>8
<1>11. f \in [1..(n + 1) -> F]
  <2>1. \A k \in 1..(n + 1) : k = 1 \/ k \in 2..(n + 1)
    OBVIOUS
  <2> QED BY <1>8, <1>9, <2>1, InF
<1> HIDE DEF f
<1>12. f[n + 1] = 0
  <2>1. e[n + 1] = 0 /\ e[n] = (p[n] + x * e[n + 1]) % Prime
    BY <1>6 DEF Tails
  <2>2. e[n] = 0
    <3>1. p[n] + x * e[n + 1] = 0
      BY <2>1
    <3> QED BY <2>1, <3>1, ZeroOne, OfF
  <2>3. f[n + 1] = (e[n + 1] - v * e[n]) % Prime
    <3>1. n + 1 \in 2..(n + 1) /\ (n + 1) - 1 = n
      OBVIOUS
    <3> QED BY <1>10, <3>1
  <2>4. e[n + 1] - v * e[n] = 0
    BY <2>1, <2>2
  <2> QED BY <2>3, <2>4, ZeroOne, OfF
<1>13. ASSUME NEW k \in 1..n PROVE f[k] = (q[k] + x * f[k + 1]) % Prime
  <2>1. k + 1 \in 2..(n + 1) /\ k \in 1..(n + 1) /\ (k + 1) - 1 = k /\ k + 1 \in 1..(n + 1)
    OBVIOUS
  <2>2. e[k] = (p[k] + x * e[k + 1]) % Prime
    BY <1>6 DEF Tails
  <2>3. /\ e[k] \in Int /\ e[k + 1] \in Int /\ p[k] \in Int /\ q[k] \in Int /\ f[k + 1] \in Int
    BY <1>1, <1>4, <1>7, <1>11, <2>1, OfF
  <2>4. Null(e[k] - (p[k] + x * e[k + 1]))
    <3>1. p[k] + x * e[k + 1] \in Int
      BY <2>3
    <3> QED BY <2>2, <3>1, NullMod
  <2>5. Null((e[k + 1] - v * e[k]) - f[k + 1])
    <3>1. e[k + 1] - v * e[k] \in Int
      BY <2>3
    <3>2. f[k + 1] = (e[k + 1] - v * e[k]) % Prime
      BY <1>10, <2>1
    <3> QED BY <3>1, <3>2, NullMod
  <2>6. CASE k = 1
    <3>1. Null((e[k] - v * (x * e[k])) - (p[k] + x * f[k + 1]))
      <4> DEFINE e1 == e[k]
                 e2 == e[k + 1]
                 p1 == p[k]
                 t == f[k + 1]
      <4>1. e1 \in Int /\ e2 \in Int /\ p1 \in Int /\ t \in Int
        BY <2>3
      <4>2. Null(e1 - (p1 + x * e2)) /\ Null((e2 - v * e1) - t)
        BY <2>4, <2>5
      <4> HIDE DEF e1, e2, p1, t
      <4>3. Null((e1 - v * (x * e1)) - (p1 + x * t))
        BY <4>1, <4>2, RootAlgebra
      <4> QED BY <4>3 DEF e1, p1, t
    <3>2. e[k] - v * (x * e[k]) \in Int /\ p[k] + x * f[k + 1] \in Int
      <4>1. \A i, j \in Int : i - v * (x * i) \in Int /\ i + x * j \in Int
        OBVIOUS
      <4> QED BY ONLY <2>3, <4>1
    <3>3. (e[k] - v * (x * e[k])) % Prime = (p[k] + x * f[k + 1]) % Prime
      <4> DEFINE a == e[k] - v * (x * e[k])
                 b == p[k] + x * f[k + 1]
      <4>1. a \in Int /\ b \in Int /\ Null(a - b)
        BY <3>1, <3>2
      <4> HIDE DEF a, b
      <4>2. a % Prime = b % Prime
        BY <4>1, NullSame
      <4> QED BY <4>2 DEF a, b
    <3> QED BY <1>5, <1>10, <2>6, <3>3
  <2>7. CASE k # 1
    <3>1. k \in 2..n /\ k - 1 \in 1..n /\ k - 1 \in 1..(n + 1) /\ (k - 1) + 1 = k /\ k \in 2..(n + 1)
      BY <2>7
    <3>2. e[k - 1] = (p[k - 1] + x * e[k]) % Prime
      BY <1>6, <3>1 DEF Tails
    <3>3. e[k - 1] \in Int /\ p[k - 1] \in Int
      BY <1>1, <1>7, <3>1
    <3>4. Null(e[k - 1] - (p[k - 1] + x * e[k]))
      <4>1. p[k - 1] + x * e[k] \in Int
        BY <2>3, <3>3
      <4> QED BY <3>2, <4>1, NullMod
    <3>5. Null((p[k] - v * p[k - 1]) - q[k])
      <4>1. p[k] - v * p[k - 1] \in Int
        BY <2>3, <3>3
      <4> QED BY <1>5, <3>1, <4>1, NullMod
    <3>6. Null((e[k] - v * e[k - 1]) - (q[k] + x * f[k + 1]))
      <4> DEFINE e0 == e[k - 1]
                 e1 == e[k]
                 e2 == e[k + 1]
                 p0 == p[k - 1]
                 p1 == p[k]
                 t == f[k + 1]
                 u == q[k]
      <4>1. e0 \in Int /\ e1 \in Int /\ e2 \in Int /\ p0 \in Int /\ p1 \in Int /\ t \in Int /\ u \in Int
        BY <2>3, <3>3
      <4>2. Null(e1 - (p1 + x * e2)) /\ Null(e0 - (p0 + x * e1)) /\ Null((p1 - v * p0) - u) /\ Null((e2 - v * e1) - t)
        BY <2>4, <2>5, <3>4, <3>5
      <4> HIDE DEF e0, e1, e2, p0, p1, t, u
      <4>3. Null((e1 - v * e0) - (u + x * t))
        <5> DEFINE A == e1 - (p1 + x * e2)
                   B == e0 - (p0 + x * e1)
                   C == (p1 - v * p0) - u
                   D == (e2 - v * e1) - t
                   m == 1 * A + (-v) * B
                   l == 1 * C + x * D
        <5>1. A \in Int /\ B \in Int /\ C \in Int /\ D \in Int /\ -v \in Int /\ 1 \in Int
          BY <4>1
        <5>2. m + l = (e1 - v * e0) - (u + x * t)
          BY <4>1
        <5>3. Null(A) /\ Null(B) /\ Null(C) /\ Null(D)
          BY <4>2
        <5> HIDE DEF A, B, C, D
        <5>4. Null(m) /\ Null(l)
          BY <5>1, <5>3, NullCombine
        <5>5. m \in Int /\ l \in Int
          BY <5>1
        <5> HIDE DEF m, l
        <5> QED BY <5>2, <5>4, <5>5, NullSum
      <4> QED BY <4>3 DEF e0, e1, t, u
    <3>7. e[k] - v * e[k - 1] \in Int /\ q[k] + x * f[k + 1] \in Int
      <4>1. \A i, j \in Int : i - v * j \in Int /\ i + x * j \in Int
        OBVIOUS
      <4> QED BY ONLY <2>3, <3>3, <4>1
    <3>8. (e[k] - v * e[k - 1]) % Prime = (q[k] + x * f[k + 1]) % Prime
      <4> DEFINE a == e[k] - v * e[k - 1]
                 b == q[k] + x * f[k + 1]
      <4>1. a \in Int /\ b \in Int /\ Null(a - b)
        BY <3>6, <3>7
      <4> HIDE DEF a, b
      <4>2. a % Prime = b % Prime
        BY <4>1, NullSame
      <4> QED BY <4>2 DEF a, b
    <3> QED BY <1>10, <3>1, <3>8
  <2> QED BY <2>6, <2>7
<1>14. Tails(f, q, x, n)
  BY <1>11, <1>12, <1>13 DEF Tails
<1>15. evaluate(q, x) = f[1]
  BY <1>4, <1>14, EvaluateByTails
<1> QED BY <1>4, <1>6, <1>10, <1>15 DEF q

(***************************************************************************)
(* For any fewer guardians than coefficients, and for any secret, there is *)
(* a polynomial with this secret and shares of 0 for all of these          *)
(* guardians: the product of c and 1 - X / (i + 1) for each guardian i.    *)
(***************************************************************************)
LEMMA Vanishing ==
  ASSUME NEW n \in Nat, NEW c \in F, NEW S \in SUBSET Guardians, Cardinality(S) < n
  PROVE  \E p \in [1..n -> F] : p[1] = c /\ \A i \in S : evaluate(p, i + 1) = 0
<1> DEFINE Good(s, p) == /\ p \in [1..n -> F] /\ p[1] = c
                         /\ \A k \in 1..n : k > Cardinality(s) + 1 => p[k] = 0
                         /\ \A i \in s : evaluate(p, i + 1) = 0
           P == {s \in SUBSET Guardians : Cardinality(s) < n => \E p : Good(s, p)}
<1>0. \A s \in SUBSET Guardians : IsFiniteSet(s) /\ Cardinality(s) \in Nat
  BY SubsetFinite, FS_CardinalityType
<1>1. ASSUME NEW s \in SUBSET Guardians, \A x \in s : s \ {x} \in P PROVE s \in P
  <2> SUFFICES ASSUME Cardinality(s) < n PROVE \E p : Good(s, p)
    OBVIOUS
  <2>0. Cardinality(s) \in Nat /\ n > 0
    BY <1>0
  <2>1. CASE s = {}
    <3> DEFINE p == [k \in 1..n |-> IF k = 1 THEN c ELSE 0]
    <3>1. Cardinality(s) = 0
      BY <2>1, FS_EmptySet
    <3>2. p \in [1..n -> F] /\ p[1] = c
      BY <2>0, ZeroOne
    <3>3. \A k \in 1..n : k > 0 + 1 => p[k] = 0
      OBVIOUS
    <3> HIDE DEF p
    <3>4. Good(s, p)
      BY <2>1, <3>1, <3>2, <3>3
    <3> QED BY <3>4
  <2>2. CASE s # {}
    <3>1. PICK i \in s : TRUE
      BY <2>2
    <3> DEFINE r == s \ {i}
               d == Cardinality(s)
    <3>2. Cardinality(r) = d - 1 /\ d > 0
      BY <1>0, <2>0, <2>2, FS_RemoveElement, FS_EmptySet
    <3>3. Cardinality(r) < n /\ r \in SUBSET Guardians /\ r \in P
      BY <1>1, <2>0, <3>2
    <3>4. PICK p : Good(r, p)
      BY <3>3
    <3>5. /\ p \in [1..n -> F] /\ p[1] = c
          /\ \A k \in 1..n : k > d => p[k] = 0
          /\ \A j \in r : evaluate(p, j + 1) = 0
      <4>1. Cardinality(r) + 1 = d
        BY <2>0, <3>2
      <4> HIDE DEF r, d
      <4> QED BY <3>4, <4>1
    <3>6. d \in Nat /\ d < n /\ p[n] = 0
      BY <2>0, <3>5
    <3> DEFINE a == i + 1
               v == InverseMod(a % Prime)
               q == Times(p, v, n)
    <3>7. a \in Int /\ ~Null(a)
      <4>1. i \in 0..(N - 1) /\ a \in F /\ a # 0
        BY PrimeFacts DEF Guardians, F
      <4>2. a - 0 = a
        BY <4>1, OfF
      <4> QED BY <4>1, <4>2, OfF, ZeroOne, NullF
    <3>8. v \in Int /\ Null(a * v - 1)
      BY <3>7, Inverses, OfF
    <3> HIDE DEF v, r, d, P, Good
    <3>9. q \in [1..n -> F] /\ \A x \in Int : evaluate(q, x) = (evaluate(p, x) - v * (x * evaluate(p, x))) % Prime
      BY <2>0, <3>5, <3>6, <3>8, EvaluateTimes
    <3>10. q[1] = c
      BY <2>0, <3>5 DEF Times
    <3>11. \A k \in 1..n : k > d + 1 => q[k] = 0
      <4> TAKE k \in 1..n
      <4> HAVE k > d + 1
      <4>1. k # 1 /\ k - 1 \in 1..n /\ k - 1 > d /\ k > d
        BY <3>6
      <4>2. p[k] = 0 /\ p[k - 1] = 0
        BY <3>5, <4>1
      <4>3. p[k] - v * p[k - 1] = 0
        BY <3>8, <4>2
      <4>4. q[k] = (p[k] - v * p[k - 1]) % Prime
        BY <4>1 DEF Times
      <4> QED BY <4>3, <4>4, ZeroOne, OfF
    <3> HIDE DEF q
    <3>12. ASSUME NEW j \in s PROVE evaluate(q, j + 1) = 0
      <4>1. j + 1 \in Int
        BY GuardiansFinite
      <4>2. CASE j # i
        <5>1. evaluate(p, j + 1) = 0
          BY <3>5, <4>2 DEF r
        <5>2. evaluate(p, j + 1) - v * ((j + 1) * evaluate(p, j + 1)) = 0
          BY <3>8, <4>1, <5>1
        <5> QED BY <3>9, <4>1, <5>2, ZeroOne, OfF
      <4>3. CASE j = i
        <5> DEFINE t == evaluate(p, a)
                   u == t - v * (a * t)
        <5>1. t \in Int
          <6>1. PICK e : Tails(e, p, a, n) /\ t = e[1]
            BY <3>5, <3>7, TailsExist
          <6> QED BY <2>0, <6>1, OfF DEF Tails
        <5> HIDE DEF t, a
        <5>2. a * v - 1 \in Int /\ -t \in Int /\ u \in Int
          BY <3>7, <3>8, <5>1
        <5>3. Null((-t) * (a * v - 1))
          BY ONLY <3>8, <5>2, NullTimes
        <5>4. (-t) * (a * v - 1) = u - 0
          BY <3>7, <3>8, <5>1
        <5> HIDE DEF u
        <5>5. u % Prime = 0 % Prime
          <6>1. 0 \in Int
            OBVIOUS
          <6> QED BY <5>2, <5>3, <5>4, <6>1, NullSame
        <5>6. evaluate(q, a) = 0
          BY <3>7, <3>9, <5>5, ZeroOne, OfF DEF t, u
        <5> QED BY <4>3, <5>6 DEF a
      <4> QED BY <4>2, <4>3
    <3>13. Good(s, q)
      BY <3>9, <3>10, <3>11, <3>12 DEF Good, d
    <3> QED BY <3>13
  <2> QED BY <2>1, <2>2
<1> HIDE DEF P
<1>2. \A s \in SUBSET Guardians : s \in P
  BY ONLY <1>1, GuardiansFinite, SubsetInduction
<1> QED BY <1>2 DEF P

\* Shares are in the field.
LEMMA ShareType ==
  ASSUME NEW n \in Nat, NEW p \in [1..n -> F], NEW i \in Guardians
  PROVE  ShareOf(p, i) \in F /\ ShareOf(p, i) \in Int
<1>1. i + 1 \in Int
  BY GuardiansFinite
<1>2. PICK e : Tails(e, p, i + 1, n) /\ evaluate(p, i + 1) = e[1]
  BY <1>1, TailsExist
<1>3. e[1] \in F
  BY <1>2 DEF Tails
<1> QED BY <1>2, <1>3, OfF DEF ShareOf

(***************************************************************************)
(* The weight of a guardian among S has an inverse: its share of the key   *)
(* set that is 1 at 0 and leaves shares of 0 to the others of S.           *)
(***************************************************************************)
LEMMA OwnWeight ==
  ASSUME NEW S \in SUBSET Guardians, NEW s \in S, NEW n \in Nat, Cardinality(S) = n
  PROVE  \E p \in [1..n -> F] :
           /\ p[1] = 1
           /\ \A i \in S \ {s} : ShareOf(p, i) = 0
           /\ ShareOf(p, s) \in Int /\ Null(ShareOf(p, s) * Basis(S, s) - 1)
<1>1. IsFiniteSet(S) /\ S \ {s} \in SUBSET Guardians
  BY SubsetFinite
<1>2. Cardinality(S \ {s}) = n - 1
  BY <1>1, FS_RemoveElement
<1>3. n - 1 < n /\ n > 0
  <2>1. IsFiniteSet(S \ {s})
    BY <1>1, FS_Subset
  <2>2. Cardinality(S \ {s}) \in Nat
    BY <2>1, FS_CardinalityType
  <2> QED BY <1>2, <2>2
<1>4. PICK p \in [1..n -> F] : p[1] = 1 /\ \A i \in S \ {s} : evaluate(p, i + 1) = 0
  BY <1>1, <1>2, <1>3, ZeroOne, Vanishing
<1> DEFINE y == [i \in S |-> ShareOf(p, i)]
           f == [i \in S |-> y[i] * Basis(S, i)]
<1>5. At0(S, y) = 1
  <2>1. \A i \in S : y[i] = ShareOf(p, i)
    OBVIOUS
  <2>2. Cardinality(S) >= n
    BY <1>3
  <2> HIDE DEF y
  <2>3. At0(S, y) = p[1]
    BY <1>3, <2>1, <2>2, AnySharesRecover
  <2> QED BY <1>4, <2>3
<1>6. \A i \in S : ShareOf(p, i) \in Int /\ Basis(S, i) \in Int
  BY ShareType, SubsetFinite
<1>7. f \in [S -> Int] /\ \A i \in S \ {s} : f[i] = 0
  <2>1. \A i \in S : f[i] \in Int
    BY <1>6
  <2>2. \A i \in S \ {s} : f[i] = 0
    <3> TAKE i \in S \ {s}
    <3>1. f[i] = 0 * Basis(S, i) /\ Basis(S, i) \in Int
      BY <1>4, <1>6 DEF ShareOf
    <3> HIDE DEF f
    <3> QED BY <3>1
  <2> QED BY <2>1, <2>2
<1>8. f[s] = ShareOf(p, s) * Basis(S, s) /\ f[s] \in Int
  BY <1>7
<1>9. f[s] % Prime = 1
  <2> HIDE DEF f
  <2>1. SumMod(f, S) = f[s] % Prime
    BY <1>1, <1>7, SumSingle
  <2> QED BY <1>5, <2>1 DEF At0, f
<1> HIDE DEF f
<1>10. Null(f[s] - 1)
  BY <1>8, <1>9, NullMod
<1> QED BY <1>4, <1>6, <1>8, <1>10 DEF ShareOf

\* Two inverses of the same field element are the same.
LEMMA InverseUnique ==
  ASSUME NEW u \in Int, NEW a \in F, NEW b \in F, Null(u * a - 1), Null(u * b - 1)
  PROVE  a = b
<1>1. a \in Int /\ b \in Int /\ -b \in Int /\ u * a - 1 \in Int /\ u * b - 1 \in Int
  BY OfF
<1>2. Null(a * (u * b - 1) + (-b) * (u * a - 1))
  BY <1>1, NullCombine
<1>3. a * (u * b - 1) + (-b) * (u * a - 1) = b - a
  BY <1>1
<1> QED BY <1>2, <1>3, NullF
----------------------------------------------------------------------------
(***************************************************************************)
(* The inductive invariant: types, that no exit is signed under a version  *)
(* later than the one of the last fork seen, and that each guardian has    *)
(* answered once.                                                          *)
(***************************************************************************)
KeySharesInv ==
  /\ threshold \in Thresholds
  /\ fork \in Versions
  /\ answers \in Seq([id : Guardians, version : Versions])
  /\ \A k \in DOMAIN answers : answers[k].version <= ExitVersion(fork)
  /\ \A j, k \in DOMAIN answers : answers[j].id = answers[k].id => j = k

\* What the invariant says of the threshold and of the answers.
LEMMA InvFacts ==
  ASSUME KeySharesInv
  PROVE  /\ threshold \in Nat /\ threshold > 0
         /\ Len(answers) \in Nat /\ DOMAIN answers = 1..Len(answers)
         /\ \A k \in 1..Len(answers) : answers[k] \in [id : Guardians, version : Versions]
<1>1. threshold \in Nat /\ threshold > 0
  BY ThresholdsAssumption DEF KeySharesInv
<1>2. /\ Len(answers) \in Nat /\ DOMAIN answers = 1..Len(answers)
      /\ \A k \in 1..Len(answers) : answers[k] \in [id : Guardians, version : Versions]
  <2> DEFINE R == [id : Guardians, version : Versions]
  <2>1. answers \in Seq(R)
    BY DEF KeySharesInv
  <2> HIDE DEF R
  <2>2. /\ Len(answers) \in Nat /\ DOMAIN answers = 1..Len(answers)
        /\ \A k \in 1..Len(answers) : answers[k] \in R
    BY <2>1
  <2> QED BY <2>2 DEF R
<1> QED BY <1>1, <1>2

\* With too few answers there is no aggregate; with enough, it interpolates the first ones as if they came from the first guardians.
LEMMA ExitShape ==
  ASSUME KeySharesInv, NEW p
  PROVE  /\ Len(answers) < threshold => Exit(p) = NoSignature
         /\ Len(answers) >= threshold => \E y :
              /\ \A i \in 0..(threshold - 1), w \in Versions :
                   y[w][i] = sign(ShareOf(p, answers[i + 1].id), answers[i + 1].version)[w]
              /\ Exit(p) = [w \in Versions |-> At0(0..(threshold - 1), y[w])]
<1> DEFINE Share(k) == sign(ShareOf(p, answers[k].id), answers[k].version)
           shares == [k \in DOMAIN answers |-> Share(k)]
           samples == [id \in 0..(Len(shares) - 1) |-> shares[id + 1]]
           I == 0..Degree(threshold)
           y == [w \in Versions |-> [i \in I |-> samples[i][w]]]
<1> HIDE DEF Share
<1>1. Len(shares) = Len(answers) /\ \A k \in 1..Len(answers) : shares[k] = Share(k)
  <2>1. shares \in Seq({Share(k) : k \in DOMAIN answers})
    BY InvFacts
  <2>2. DOMAIN shares = 1..Len(shares) /\ Len(shares) \in Nat
    BY <2>1
  <2> QED BY <2>2, InvFacts
<1> HIDE DEF shares
<1>2. Exit(p) = combine_signatures(Degree(threshold), samples)
  BY DEF Exit, aggregate_signature_shares, shares, Share
<1>3. I = 0..(threshold - 1) /\ DOMAIN samples = 0..(Len(answers) - 1)
  BY <1>1 DEF Degree
<1>4. ASSUME Len(answers) < threshold PROVE Exit(p) = NoSignature
  <2> HIDE DEF samples, I
  <2>1. threshold - 1 \in I /\ threshold - 1 \notin DOMAIN samples
    BY <1>3, <1>4, InvFacts
  <2> QED BY <1>2, <2>1 DEF combine_signatures, I
<1>5. ASSUME Len(answers) >= threshold
      PROVE  /\ \A i \in 0..(threshold - 1), w \in Versions : y[w][i] = Share(i + 1)[w]
             /\ Exit(p) = [w \in Versions |-> At0(0..(threshold - 1), y[w])]
  <2>1. I \subseteq DOMAIN samples
    <3> HIDE DEF samples, I
    <3> QED BY <1>3, <1>5, InvFacts
  <2>2. \A i \in I : samples[i] = Share(i + 1)
    <3> TAKE i \in I
    <3>1. i \in DOMAIN samples /\ i + 1 \in 1..Len(answers)
      BY <1>3, <2>1, InvFacts
    <3> QED BY <1>1, <3>1
  <2> HIDE DEF samples, I
  <2>3. Exit(p) = [w \in Versions |-> SumMod([i \in I |-> samples[i][w] * Basis(I, i)], I)]
    BY <1>2, <2>1 DEF combine_signatures, I
  <2>4. \A w \in Versions : At0(I, y[w]) = SumMod([i \in I |-> samples[i][w] * Basis(I, i)], I)
    <3> TAKE w \in Versions
    <3>1. [i \in I |-> y[w][i] * Basis(I, i)] = [i \in I |-> samples[i][w] * Basis(I, i)]
      OBVIOUS
    <3> QED BY <3>1 DEF At0
  <2> QED BY <1>3, <2>2, <2>3, <2>4
<1> HIDE DEF y
<1> QED BY <1>4, <1>5 DEF Share

\* A key set has as many coefficients as the threshold; both files give its secret key back.
LEMMA KeySetFacts ==
  ASSUME KeySharesInv, NEW p \in KeySetsOf(threshold)
  PROVE  p \in [1..threshold -> F] /\ \A form : Saved(p, form)[1] = p[1]
<1>1. p \in [1..threshold -> F]
  BY InvFacts DEF KeySetsOf, new_bls_key, Degree
<1> QED BY <1>1 DEF Saved

\* The guardian of each of the first answers, by the position the aggregation gives its share.
Place == [i \in 0..(threshold - 1) |-> answers[i + 1].id]

\* The guardians of the first answers.
FirstIds == {answers[k].id : k \in 1..threshold}

\* There are as many guardians among the first answers as positions, namely the threshold.
LEMMA FirstAnswers ==
  ASSUME KeySharesInv, Len(answers) >= threshold
  PROVE  LET I == 0..(threshold - 1) IN
         /\ I \in SUBSET Guardians /\ Cardinality(I) = threshold
         /\ FirstIds \in SUBSET Guardians /\ Cardinality(FirstIds) = threshold
         /\ Place \in [I -> Guardians] /\ OneToOne(Place, I) /\ Image(Place, I) = FirstIds
         /\ \A k \in 1..threshold : /\ answers[k] \in [id : Guardians, version : Versions]
                                    /\ k - 1 \in I /\ Place[k - 1] = answers[k].id
<1> DEFINE I == 0..(threshold - 1)
<1>1. /\ threshold \in Nat /\ threshold > 0 /\ 1..threshold \subseteq DOMAIN answers
      /\ \A k \in 1..threshold : answers[k] \in [id : Guardians, version : Versions]
  BY InvFacts
<1>2. /\ \A i \in I : i + 1 \in 1..threshold
      /\ \A k \in 1..threshold : k - 1 \in I /\ (k - 1) + 1 = k
      /\ \A i, j \in I : i + 1 = j + 1 => i = j
  BY <1>1
<1>3. IsFiniteSet(I) /\ Cardinality(I) = threshold
  <2>1. threshold - 1 \in Int /\ ~(0 > threshold - 1) /\ (threshold - 1) - 0 + 1 = threshold
    BY <1>1
  <2> QED BY <2>1, FS_Interval
<1> HIDE DEF I
<1>4. Place \in [I -> Guardians] /\ \A i \in I : Place[i] = answers[i + 1].id
  <2>1. \A i \in I : answers[i + 1].id \in Guardians
    BY <1>1, <1>2
  <2> QED BY <2>1 DEF Place, I
<1>5. Image(Place, I) = FirstIds
  BY <1>2, <1>4 DEF Image, FirstIds
<1>6. OneToOne(Place, I)
  <2> SUFFICES ASSUME NEW i \in I, NEW j \in I, Place[i] = Place[j] PROVE i = j
    BY DEF OneToOne
  <2>1. i + 1 \in DOMAIN answers /\ j + 1 \in DOMAIN answers /\ answers[i + 1].id = answers[j + 1].id
    BY <1>1, <1>2, <1>4
  <2> QED BY <1>2, <2>1 DEF KeySharesInv
<1>7. FirstIds \in SUBSET Guardians
  BY <1>1 DEF FirstIds
<1>8. Cardinality(FirstIds) = threshold
  <2>1. Place \in Surjection(I, FirstIds) /\ Place \in Injection(I, FirstIds)
    BY <1>4, <1>5, <1>6 DEF Surjection, Injection, IsInjective, Image, OneToOne
  <2> QED BY <1>3, <2>1, FS_Surjection
<1>9. I \in SUBSET Guardians
  <2>1. N - 1 \in Int /\ Cardinality(Guardians) = N /\ N \in Nat
    <3>1. 0 \in Int /\ N - 1 \in Int /\ (N - 1) - 0 + 1 = N /\ N \in Nat
      BY PrimeFacts
    <3>2. Cardinality(Guardians) = IF 0 > N - 1 THEN 0 ELSE (N - 1) - 0 + 1
      BY <3>1, FS_Interval DEF Guardians
    <3> QED BY <3>1, <3>2
  <2>2. Cardinality(FirstIds) <= Cardinality(Guardians)
    BY <1>7, GuardiansFinite, FS_Subset
  <2>3. threshold <= N
    BY <1>8, <2>1, <2>2
  <2> QED BY <1>1, <2>1, <2>3 DEF I, Guardians
<1>10. \A k \in 1..threshold : /\ answers[k] \in [id : Guardians, version : Versions]
                                /\ k - 1 \in I /\ Place[k - 1] = answers[k].id
  <2> TAKE k \in 1..threshold
  <2>1. k - 1 \in I /\ Place[k - 1] = answers[(k - 1) + 1].id /\ (k - 1) + 1 = k
    BY <1>2, <1>4
  <2>2. answers[k] \in [id : Guardians, version : Versions]
    BY <1>1
  <2> QED BY <2>1, <2>2
<1> QED BY <1>3, <1>4, <1>5, <1>6, <1>7, <1>8, <1>9, <1>10 DEF I

\* Answers that weigh the same by position as by guardian aggregate to the signature by the secret key.
LEMMA FittingExit ==
  ASSUME KeySharesInv, NEW v \in Versions, Fitting(v), NEW p \in KeySetsOf(threshold)
  PROVE  Exit(p) = sign(p[1], v)
<1> DEFINE I == 0..(threshold - 1)
<1>0. Len(answers) >= threshold
  BY DEF Fitting
<1>1. PICK y : /\ \A i \in I, w \in Versions : y[w][i] = sign(ShareOf(p, answers[i + 1].id), answers[i + 1].version)[w]
               /\ Exit(p) = [w \in Versions |-> At0(I, y[w])]
  BY <1>0, ExitShape
<1>2. /\ I \in SUBSET Guardians /\ IsFiniteSet(I)
      /\ FirstIds \in SUBSET Guardians /\ Cardinality(FirstIds) = threshold
      /\ Place \in [I -> Guardians] /\ OneToOne(Place, I) /\ Image(Place, I) = FirstIds
  BY <1>0, FirstAnswers, SubsetFinite
<1>3. p \in [1..threshold -> F] /\ threshold \in Nat /\ threshold > 0
  BY KeySetFacts, InvFacts
<1>4. \A i \in I : /\ answers[i + 1].version = v
                   /\ Place[i] = answers[i + 1].id
                   /\ Basis(I, i) = Basis(FirstIds, Place[i])
  <2> TAKE i \in I
  <2>1. i + 1 \in 1..threshold /\ (i + 1) - 1 = i
    BY <1>3
  <2>2. Place[i] = answers[i + 1].id
    BY DEF Place
  <2>3. /\ answers[i + 1].version = v
        /\ Basis(I, (i + 1) - 1) = Basis(FirstIds, answers[i + 1].id)
    BY <2>1 DEF Fitting, FirstIds
  <2> QED BY <2>1, <2>2, <2>3
<1> HIDE DEF I
<1>5. \A i \in I, w \in Versions : y[w][i] = IF w = v THEN ShareOf(p, Place[i]) ELSE 0
  BY <1>1, <1>4 DEF sign
<1>6. \A w \in Versions : w # v => At0(I, y[w]) = 0
  BY <1>2, <1>5, At0Zero
<1>7. At0(I, y[v]) = p[1]
  <2> DEFINE a == [i \in I |-> y[v][i] * Basis(I, i)]
             s == [g \in Guardians |-> ShareOf(p, g)]
             f == [g \in Guardians |-> IF g \in FirstIds THEN s[g] * Basis(FirstIds, g) ELSE 0]
             c == [g \in FirstIds |-> s[g] * Basis(FirstIds, g)]
  <2>1. \A g \in Guardians : s[g] \in Int /\ s[g] = ShareOf(p, g)
    BY <1>3, ShareType
  <2>2. \A g \in FirstIds : Basis(FirstIds, g) \in Int
    BY <1>2, SubsetFinite
  <2> HIDE DEF s
  <2>3. f \in [Guardians -> Int] /\ \A g \in FirstIds : c[g] = f[g]
    BY <1>2, <2>1, <2>2
  <2>4. \A i \in I : Place[i] \in FirstIds /\ Place[i] \in Guardians
    BY <1>2 DEF Image
  <2>5. \A i \in I : a[i] = f[Place[i]]
    <3> TAKE i \in I
    <3>1. y[v][i] = s[Place[i]]
      BY <1>5, <2>1, <2>4
    <3>2. f[Place[i]] = s[Place[i]] * Basis(FirstIds, Place[i])
      BY <2>4
    <3> HIDE DEF f, c
    <3> QED BY <1>4, <3>1, <3>2
  <2>6. a \in [I -> Int]
    BY <2>3, <2>4, <2>5
  <2> HIDE DEF a, f, c
  <2>7. SumMod(a, I) = SumMod(c, FirstIds)
    BY <1>2, <2>3, <2>5, <2>6, GuardiansFinite, SumRenamed
  <2>8. At0(FirstIds, s) = p[1]
    <3>1. \A i \in FirstIds : s[i] = ShareOf(p, i)
      BY <1>2, <2>1
    <3>2. Cardinality(FirstIds) >= threshold
      BY <1>2, <1>3
    <3> QED BY <1>2, <1>3, <3>1, <3>2, AnySharesRecover
  <2> QED BY <2>7, <2>8 DEF At0, a, c
<1> QED BY <1>1, <1>6, <1>7 DEF sign

\* The same for a key read back from either file.
LEMMA FittingSuffices ==
  ASSUME KeySharesInv, NEW v \in Versions, Fitting(v)
  PROVE  ValidExit(v)
<1> SUFFICES ASSUME NEW p \in KeySetsOf(threshold), NEW form \in {"bls_key", "keystore"}
             PROVE  Exit(p) = bls_agg_sign(Saved(p, form), v)
  BY DEF ValidExit
<1>1. Exit(p) = sign(p[1], v)
  BY FittingExit
<1>2. Saved(p, form)[1] = p[1]
  BY KeySetFacts
<1> QED BY <1>1, <1>2 DEF bls_agg_sign

\* The invariant holds before anybody has answered.
LEMMA InitInv == Init => KeySharesInv
BY MaxForkAssumption DEF Init, KeySharesInv, Versions

\* Each answer and each fork preserves the invariant.
LEMMA StepInv == KeySharesInv /\ [Next]_vars => KeySharesInv'
<1> SUFFICES ASSUME KeySharesInv, [Next]_vars PROVE KeySharesInv'
  OBVIOUS
<1>0. fork \in 0..MaxFork /\ MaxFork \in Nat
  BY MaxForkAssumption DEF KeySharesInv, Versions
<1>1. CASE Upgrade
  <2>1. fork' = fork + 1 /\ fork' \in Versions /\ ExitVersion(fork) <= ExitVersion(fork')
    BY <1>0, <1>1 DEF Upgrade, ExitVersion, Versions
  <2>2. \A k \in DOMAIN answers : answers[k].version <= ExitVersion(fork')
    <3> TAKE k \in DOMAIN answers
    <3>1. answers[k].version <= ExitVersion(fork) /\ answers[k].version \in Nat
      BY InvFacts DEF KeySharesInv, Versions
    <3>2. ExitVersion(fork) \in Int /\ ExitVersion(fork') \in Int
      BY <1>0, <2>1 DEF ExitVersion
    <3> QED BY <2>1, <3>1, <3>2
  <2> QED BY <1>1, <2>1, <2>2 DEF KeySharesInv, Upgrade
<1>2. ASSUME NEW id \in Guardians, SignExit(id) PROVE KeySharesInv'
  <2> DEFINE a == [id |-> id, version |-> ExitVersion(fork)]
  <2>1. a \in [id : Guardians, version : Versions] /\ a.version = ExitVersion(fork)
    BY <1>0 DEF ExitVersion, Versions
  <2>2. ExitVersion(fork) \in Int
    BY <1>0 DEF ExitVersion
  <2> HIDE DEF a
  <2>3. answers' = Append(answers, a) /\ UNCHANGED <<threshold, fork>>
    BY <1>2 DEF SignExit, a
  <2>4. answers' \in Seq([id : Guardians, version : Versions])
    BY <2>1, <2>3 DEF KeySharesInv
  <2>5. \A k \in DOMAIN answers' : (k \in DOMAIN answers /\ answers'[k] = answers[k]) \/ answers'[k] = a
    BY <2>1, <2>3 DEF KeySharesInv
  <2>6. \A k \in DOMAIN answers' : answers'[k].version <= ExitVersion(fork)
    BY <2>1, <2>2, <2>5 DEF KeySharesInv
  <2>7. \A j, k \in DOMAIN answers' : answers'[j].id = answers'[k].id => j = k
    <3>1. /\ DOMAIN answers' = 1..(Len(answers) + 1) /\ DOMAIN answers = 1..Len(answers) /\ Len(answers) \in Nat
          /\ answers'[Len(answers) + 1] = a /\ \A k \in DOMAIN answers : answers'[k] = answers[k]
      BY <2>1, <2>3 DEF KeySharesInv
    <3>2. \A k \in DOMAIN answers : answers[k].id # a.id
      BY <1>2 DEF SignExit, a
    <3>3. \A k \in DOMAIN answers' : k \in DOMAIN answers \/ k = Len(answers) + 1
      BY <3>1
    <3> QED BY <3>1, <3>2, <3>3 DEF KeySharesInv
  <2> QED BY <2>3, <2>4, <2>6, <2>7 DEF KeySharesInv, ExitVersion
<1>3. CASE UNCHANGED vars
  BY <1>3 DEF vars, KeySharesInv, ExitVersion
<1> QED BY <1>1, <1>2, <1>3 DEF Next

(***************************************************************************)
(* The threshold is one of a keygen request, the answers are signatures of *)
(* guardians, and no answer is under a later version than the exit of the  *)
(* fork that the client's node reports.                                    *)
(***************************************************************************)
THEOREM KeySharesTyped == Spec => []KeySharesInv
BY InitInv, StepInv, PTL DEF Spec

(***************************************************************************)
(* Answers that aggregate to a valid exit weigh the same by position as by *)
(* guardian, and are under its version: the key set that only one of them  *)
(* has a share of other than 0 tells the weight of that one.               *)
(***************************************************************************)
LEMMA FittingNeeded ==
  ASSUME KeySharesInv, NEW v \in Versions, ValidExit(v)
  PROVE  Fitting(v)
<1> DEFINE I == 0..(threshold - 1)
<1>1. threshold \in Nat /\ threshold > 0
  BY InvFacts
<1>2. ASSUME NEW p \in [1..threshold -> F] PROVE Exit(p) = sign(p[1], v)
  <2>1. p \in KeySetsOf(threshold)
    BY <1>1 DEF KeySetsOf, new_bls_key, Degree
  <2>2. Exit(p) = bls_agg_sign(Saved(p, "bls_key"), v)
    BY <2>1 DEF ValidExit
  <2> QED BY <2>2 DEF bls_agg_sign, Saved
<1>3. Len(answers) >= threshold
  <2> SUFFICES ASSUME ~(Len(answers) >= threshold) PROVE FALSE
    OBVIOUS
  <2> DEFINE z == [k \in 1..threshold |-> 0]
  <2>1. z \in [1..threshold -> F]
    BY ZeroOne
  <2> HIDE DEF z
  <2>2. Len(answers) < threshold
    BY <1>1, InvFacts
  <2>3. Exit(z) = NoSignature /\ Exit(z) = sign(z[1], v)
    BY <1>2, <2>1, <2>2, ExitShape
  <2>4. DOMAIN NoSignature = {} /\ DOMAIN sign(z[1], v) = Versions
    BY DEF NoSignature, sign
  <2> QED BY <2>3, <2>4
<1>4. /\ I \in SUBSET Guardians /\ IsFiniteSet(I)
      /\ FirstIds \in SUBSET Guardians /\ Cardinality(FirstIds) = threshold
      /\ OneToOne(Place, I) /\ Image(Place, I) = FirstIds
      /\ \A k \in 1..threshold : k - 1 \in I /\ Place[k - 1] = answers[k].id
  BY <1>3, FirstAnswers, SubsetFinite
<1>5. ASSUME NEW k \in 1..threshold
      PROVE  answers[k].version = v /\ Basis(I, k - 1) = Basis(FirstIds, answers[k].id)
  <2> DEFINE g == answers[k].id
             i == k - 1
  <2>1. g \in FirstIds /\ i \in I /\ Place[i] = g /\ i + 1 = k
    BY <1>1, <1>4 DEF FirstIds
  <2> HIDE DEF g, i
  <2>2. PICK p \in [1..threshold -> F] :
          /\ p[1] = 1
          /\ \A j \in FirstIds \ {g} : ShareOf(p, j) = 0
          /\ ShareOf(p, g) \in Int /\ Null(ShareOf(p, g) * Basis(FirstIds, g) - 1)
    BY <1>1, <1>4, <2>1, OwnWeight
  <2>3. PICK y : /\ \A j \in I, w \in Versions : y[w][j] = sign(ShareOf(p, answers[j + 1].id), answers[j + 1].version)[w]
                 /\ Exit(p) = [w \in Versions |-> At0(I, y[w])]
    BY <1>3, ExitShape
  <2>4. At0(I, y[v]) = 1
    <3>1. Exit(p)[v] = sign(1, v)[v]
      BY <1>2, <2>2
    <3> HIDE DEF I
    <3> QED BY <2>3, <3>1 DEF sign
  <2>5. \A j \in I : Place[j] = answers[j + 1].id /\ (j # i => Place[j] \in FirstIds \ {g})
    <3> TAKE j \in I
    <3>1. Place[j] = answers[j + 1].id
      BY DEF Place
    <3>2. j # i => Place[j] \in FirstIds \ {g}
      <4> HIDE DEF I
      <4> QED BY <1>4, <2>1 DEF Image, OneToOne
    <3> QED BY <3>1, <3>2
  <2> HIDE DEF I
  <2>6. \A j \in I \ {i} : y[v][j] = 0
    BY <2>2, <2>3, <2>5 DEF sign
  <2>7. y[v][i] = IF answers[k].version = v THEN ShareOf(p, g) ELSE 0
    BY <2>1, <2>3, <2>5 DEF sign
  <2> DEFINE f == [j \in I |-> y[v][j] * Basis(I, j)]
             u == ShareOf(p, g)
  <2>8. \A j \in I : Basis(I, j) \in Int /\ Basis(I, j) \in F
    BY <1>4, SubsetFinite, Weights
  <2>9. f \in [I -> Int] /\ \A j \in I \ {i} : f[j] = 0
    <3>1. \A j \in I \ {i} : f[j] = 0
      <4> TAKE j \in I \ {i}
      <4>1. 0 * Basis(I, j) = 0
        BY <2>8
      <4> QED BY <2>6, <4>1
    <3>2. y[v][i] \in Int
      BY <2>2, <2>7
    <3>3. f[i] \in Int
      BY <2>1, <2>8, <3>2
    <3> QED BY <3>1, <3>3
  <2>10. f[i] = y[v][i] * Basis(I, i) /\ f[i] \in Int
    BY <2>1, <2>9
  <2>11. f[i] % Prime = 1
    <3> HIDE DEF f
    <3>1. SumMod(f, I) = f[i] % Prime
      BY <1>4, <2>1, <2>9, SumSingle
    <3> QED BY <2>4, <3>1 DEF At0, f
  <2> HIDE DEF f
  <2>12. answers[k].version = v
    <3> SUFFICES ASSUME answers[k].version # v PROVE FALSE
      OBVIOUS
    <3>1. f[i] = 0
      BY <2>1, <2>7, <2>8, <2>10
    <3>2. 0 % Prime = 0
      BY ZeroOne, OfF
    <3> QED BY <2>11, <3>1, <3>2
  <2>13. Null(u * Basis(I, i) - 1)
    <3>1. Null(f[i] - 1)
      BY <2>10, <2>11, NullMod
    <3> QED BY <2>7, <2>10, <2>12, <3>1
  <2>14. Basis(I, i) = Basis(FirstIds, g)
    <3>1. Basis(I, i) \in F /\ Basis(FirstIds, g) \in F
      BY <1>4, <2>1, Weights
    <3> QED BY <2>2, <2>13, <3>1, InverseUnique
  <2> QED BY <2>12, <2>14 DEF g, i
<1> QED BY <1>3, <1>5 DEF Fitting, FirstIds

\* The algebra of the next lemma: a is an inverse of d, and c one of m times d.
LEMMA ScaleAlgebra ==
  ASSUME NEW x \in Int, NEW m \in Int, NEW d \in Int, NEW a \in Int, NEW c \in Int,
         Null(d * a - 1), Null((m * d) * c - 1)
  PROVE  Null(x * a - (m * x) * c)
<1>1. d * a - 1 \in Int /\ (m * d) * c - 1 \in Int /\ x * (m * c) \in Int /\ -(x * a) \in Int
  OBVIOUS
<1>2. Null((x * (m * c)) * (d * a - 1) + (-(x * a)) * ((m * d) * c - 1))
  BY <1>1, NullCombine
<1>3. (x * (m * c)) * (d * a - 1) + (-(x * a)) * ((m * d) * c - 1) = x * a - (m * x) * c
  OBVIOUS
<1> QED BY <1>2, <1>3

\* Every second, third, ... guardian weighs what the first ones do, in their order.
LEMMA InOrderFits ==
  ASSUME KeySharesInv, NEW v \in Versions, NEW step \in 1..N, InOrder(step, v)
  PROVE  Fitting(v)
<1> DEFINE I == 0..(threshold - 1)
<1>0. Len(answers) >= threshold /\ threshold \in Nat /\ threshold > 0 /\ step \in Int
  BY InvFacts, PrimeFacts DEF InOrder
<1>1. /\ I \in SUBSET Guardians /\ IsFiniteSet(I)
      /\ FirstIds \in SUBSET Guardians
      /\ Place \in [I -> Guardians] /\ OneToOne(Place, I) /\ Image(Place, I) = FirstIds
      /\ \A k \in 1..threshold : k - 1 \in I /\ Place[k - 1] = answers[k].id
  BY <1>0, FirstAnswers, SubsetFinite
<1>2. \A k \in 1..threshold : answers[k].id = step * k - 1 /\ answers[k].version = v
  <2> TAKE k \in 1..threshold
  <2>1. answers[k] = [id |-> step * k - 1, version |-> v]
    BY DEF InOrder
  <2> QED BY <2>1
<1>3. \A i \in I : Place[i] = step * (i + 1) - 1
  <2> TAKE i \in I
  <2>1. i + 1 \in 1..threshold
    BY <1>0
  <2>2. Place[i] = answers[i + 1].id
    BY DEF Place
  <2> QED BY <1>2, <2>1, <2>2
<1> HIDE DEF I
<1>4. ASSUME NEW i \in I PROVE Basis(I, i) = Basis(FirstIds, Place[i])
  <2> DEFINE a == [j \in I |-> Factor(i, j)]
             f == [g \in Guardians |-> Factor(Place[i], g)]
             c == [g \in FirstIds |-> Factor(Place[i], g)]
  <2>0. Place[i] \in Guardians /\ i \in Guardians
    BY <1>1
  <2>1. \A g, h \in Guardians : Factor(g, h) \in Int
    <3> TAKE g, h \in Guardians
    <3>1. h # g => InverseMod((h - g) % Prime) \in Int /\ h \in Int
      BY Nodes, GuardiansFinite
    <3> QED BY <3>1 DEF Factor
  <2>2. a \in [I -> Int] /\ f \in [Guardians -> Int] /\ \A g \in FirstIds : c[g] = f[g]
    BY <1>1, <2>0, <2>1
  <2>3. ASSUME NEW j \in I PROVE Null(Factor(i, j) - Factor(Place[i], Place[j]))
    <3>1. CASE j = i
      <4>1. Factor(i, j) - Factor(Place[i], Place[j]) = 0
        BY <3>1 DEF Factor
      <4> QED BY <4>1, NullZero
    <3>2. CASE j # i
      <4> DEFINE p == Place[i]
                 q == Place[j]
                 r == InverseMod((j - i) % Prime)
                 s == InverseMod((q - p) % Prime)
                 x == j + 1
                 d == j - i
      <4>1. p \in Guardians /\ q \in Guardians /\ q # p /\ i \in Guardians /\ j \in Guardians
        BY <1>1, <3>2 DEF OneToOne
      <4>2. i \in Int /\ j \in Int /\ p = step * (i + 1) - 1 /\ q = step * (j + 1) - 1
        BY <1>3, <4>1, GuardiansFinite
      <4>3. r \in Int /\ Null(d * r - 1)
        BY <3>2, <4>1, Nodes
      <4>4. s \in Int /\ Null((q - p) * s - 1)
        BY <4>1, Nodes
      <4>5. Factor(i, j) = x * r /\ Factor(p, q) = (q + 1) * s
        BY <3>2, <4>1 DEF Factor
      <4>6. x \in Int /\ d \in Int /\ q - p = step * d /\ q + 1 = step * x
        BY <1>0, <4>2
      <4> HIDE DEF p, q, r, s, x, d
      <4>7. Null((step * d) * s - 1)
        BY <4>4, <4>6
      <4>8. Null(x * r - (step * x) * s)
        BY <1>0, <4>3, <4>4, <4>6, <4>7, ScaleAlgebra
      <4>9. Null(Factor(i, j) - Factor(p, q))
        BY <4>5, <4>6, <4>8
      <4> QED BY <4>9 DEF p, q
    <3> QED BY <3>1, <3>2
  <2>4. \A j \in I : Null(a[j] - f[Place[j]])
    <3> TAKE j \in I
    <3>1. Place[j] \in Guardians
      BY <1>1
    <3>2. a[j] = Factor(i, j) /\ f[Place[j]] = Factor(Place[i], Place[j])
      BY <3>1
    <3> QED BY <2>3, <3>2
  <2>5. Basis(I, i) = ProductMod(a, I) /\ Basis(FirstIds, Place[i]) = ProductMod(c, FirstIds)
    BY DEF Basis, Factor
  <2> HIDE DEF a, f, c
  <2>6. ProductMod(a, I) = ProductMod(c, FirstIds)
    BY <1>1, <2>2, <2>4, GuardiansFinite, ProductRenamed
  <2> QED BY <2>5, <2>6
<1>5. ASSUME NEW k \in 1..threshold
      PROVE  answers[k].version = v /\ Basis(I, k - 1) = Basis(FirstIds, answers[k].id)
  BY <1>1, <1>2, <1>4
<1> QED BY <1>0, <1>5 DEF Fitting, FirstIds, I

(***************************************************************************)
(* If the first guardians, as many as the threshold, answer in the order   *)
(* of their ids and under one version, or every second, third, ... one     *)
(* does, aggregate_signature_shares gives the exit that the validator's    *)
(* own key would sign, read from either file: for every prime, number of   *)
(* guardians, threshold and key.                                           *)
(***************************************************************************)
THEOREM InOrderSuffices == Spec => []InOrderAggregates
<1>1. KeySharesInv => InOrderAggregates
  BY InOrderFits, FittingSuffices DEF InOrderAggregates
<1> QED BY <1>1, KeySharesTyped, PTL

(***************************************************************************)
(* Exactly the answers that weigh the same by position, as in              *)
(* aggregate_signature_shares, as by guardian aggregate to a valid exit.   *)
(***************************************************************************)
THEOREM WeightsDecide == Spec => []OnlyFittingAggregate
<1>1. KeySharesInv => OnlyFittingAggregate
  BY FittingSuffices, FittingNeeded DEF OnlyFittingAggregate
<1> QED BY <1>1, KeySharesTyped, PTL

\* The algebra of the next theorem: two nodes k and c that weigh the same against node i, with inverses r and s.
LEMMA StrayAlgebra ==
  ASSUME NEW b \in Int, NEW w \in Int, NEW k \in Int, NEW c \in Int, NEW i \in Int, NEW r \in Int, NEW s \in Int,
         Null(w - b * (k * r)), Null(w - b * (c * s)), ~Null(b), Null((k - i) * r - 1), Null((c - i) * s - 1),
         ~Null(i)
  PROVE  Null(c - k)
<1> DEFINE d == k * r - c * s
           x == (k - i) * r - 1
           y == (c - i) * s - 1
           u == k * (c - i)
           t == c * (k - i)
<1>1. w - b * (k * r) \in Int /\ w - b * (c * s) \in Int /\ d \in Int /\ x \in Int /\ y \in Int
      /\ u \in Int /\ t \in Int /\ 1 \in Int /\ -1 \in Int
  OBVIOUS
<1>2. Null((-1) * (w - b * (k * r)) + 1 * (w - b * (c * s)))
  BY <1>1, NullCombine
<1>3. (-1) * (w - b * (k * r)) + 1 * (w - b * (c * s)) = b * d
  OBVIOUS
<1>4. Null(d)
  BY <1>1, <1>2, <1>3, Cancel
<1>5. Null(((k - i) * (c - i)) * d + (-u) * x)
  <2>1. (k - i) * (c - i) \in Int /\ -u \in Int
    BY <1>1
  <2> QED BY <1>1, <1>4, <2>1, NullCombine
<1>6. Null(1 * (((k - i) * (c - i)) * d + (-u) * x) + t * y)
  <2>1. ((k - i) * (c - i)) * d + (-u) * x \in Int
    BY <1>1
  <2> QED BY <1>1, <1>5, <2>1, NullCombine
<1>7. 1 * (((k - i) * (c - i)) * d + (-u) * x) + t * y = i * (c - k)
  OBVIOUS
<1>8. c - k \in Int
  OBVIOUS
<1> QED BY <1>6, <1>7, <1>8, Cancel

\* A weight is not 0.
LEMMA WeightNotNull ==
  ASSUME NEW S \in SUBSET Guardians, NEW s \in S
  PROVE  ~Null(Basis(S, s))
<1> SUFFICES ASSUME Null(Basis(S, s)) PROVE FALSE
  OBVIOUS
<1>1. IsFiniteSet(S) /\ Basis(S, s) \in Int
  BY SubsetFinite
<1>2. Cardinality(S) \in Nat
  BY <1>1, FS_CardinalityType
<1>3. PICK u \in Int : Null(u * Basis(S, s) - 1)
  BY <1>2, OwnWeight
<1>4. u \in Int /\ -1 \in Int /\ u * Basis(S, s) - 1 \in Int
  BY <1>1, <1>3
<1>5. Null(u * Basis(S, s) + (-1) * (u * Basis(S, s) - 1))
  BY <1>1, <1>3, <1>4, NullCombine
<1>6. u * Basis(S, s) + (-1) * (u * Basis(S, s) - 1) = 1 - 0
  BY <1>1, <1>3
<1> QED BY <1>5, <1>6, ZeroOne, NullF

\* A single answer from another guardian than its position says changes the weights of the others.
LEMMA OutOfPlaceUnfit ==
  ASSUME KeySharesInv, Len(answers) >= threshold, threshold > 1, OneOutOfPlace, NEW v \in Versions
  PROVE  ~Fitting(v)
<1> SUFFICES ASSUME Fitting(v) PROVE FALSE
  OBVIOUS
<1> DEFINE I == 0..(threshold - 1)
<1>1. PICK k \in 1..threshold : answers[k].id # k - 1 /\ \A j \in 1..threshold : j # k => answers[j].id = j - 1
  BY DEF OneOutOfPlace
<1>2. /\ I \in SUBSET Guardians /\ FirstIds \in SUBSET Guardians
      /\ \A j \in 1..threshold : j - 1 \in I /\ answers[j].id \in FirstIds
      /\ \A i, j \in 1..threshold : answers[i].id = answers[j].id => i = j
  <2>1. threshold \in Nat /\ 1..threshold \subseteq DOMAIN answers
    BY InvFacts
  <2>2. \A i, j \in 1..threshold : answers[i].id = answers[j].id => i = j
    BY <2>1 DEF KeySharesInv
  <2> QED BY <2>2, FirstAnswers DEF FirstIds
<1>3. \A i \in I : i + 1 \in 1..threshold /\ (i + 1) - 1 = i /\ i \in Int
  BY InvFacts
<1> DEFINE c == answers[k].id
           m == k - 1
<1>4. m \in I /\ c \in FirstIds /\ c # m /\ c \in Guardians /\ m \in Guardians
  BY <1>1, <1>2
<1>5. PICK i \in I : i # m
  <2>1. 0 \in I /\ 1 \in I
    BY InvFacts
  <2> QED BY <2>1
<1>6. \A j \in I : j # m => answers[j + 1].id = j /\ j + 1 # k
  BY <1>1, <1>3
<1>7. I \ {m} = FirstIds \ {c} /\ i \in FirstIds /\ i # c
  <2>1. ASSUME NEW j \in I \ {m} PROVE j \in FirstIds \ {c}
    <3>1. j + 1 \in 1..threshold /\ answers[j + 1].id = j /\ j + 1 # k
      BY <1>3, <1>6
    <3> QED BY <1>2, <3>1
  <2>2. ASSUME NEW g \in FirstIds \ {c} PROVE g \in I \ {m}
    <3>1. PICK j \in 1..threshold : g = answers[j].id
      BY DEF FirstIds
    <3>2. j # k
      BY <3>1
    <3>3. g = j - 1 /\ j - 1 \in I /\ j - 1 # k - 1
      <4>1. j \in Int /\ k \in Int
        BY InvFacts
      <4> QED BY <1>1, <1>2, <3>1, <3>2, <4>1
    <3> QED BY <3>3
  <2> QED BY <1>5, <2>1, <2>2
<1>8. Basis(I, i) = Basis(FirstIds, i)
  <2>1. i + 1 \in 1..threshold /\ (i + 1) - 1 = i /\ answers[i + 1].id = i
    BY <1>3, <1>5, <1>6
  <2>2. Basis(I, (i + 1) - 1) = Basis(FirstIds, answers[i + 1].id)
    BY <2>1 DEF Fitting, FirstIds
  <2> QED BY <2>1, <2>2
<1> HIDE DEF I, c, m
<1> DEFINE w == Basis(I, i)
           R == I \ {m}
           b == Basis(R, i)
           r == InverseMod((m - i) % Prime)
           s == InverseMod((c - i) % Prime)
<1>9. R \in SUBSET Guardians /\ i \in R /\ i \in Guardians
  BY <1>2, <1>5
<1>10. w \in Int /\ b \in Int /\ ~Null(b)
  BY <1>2, <1>5, <1>9, SubsetFinite, WeightNotNull
<1>11. /\ r \in Int /\ Null((m - i) * r - 1)
       /\ s \in Int /\ Null((c - i) * s - 1)
  BY <1>4, <1>5, <1>7, <1>9, Nodes
<1>12. Null(w - b * ((m + 1) * r))
  <2>1. m \in I \ {i}
    BY <1>4, <1>5
  <2> QED BY <1>2, <1>5, <2>1, Weights
<1>13. Null(w - b * ((c + 1) * s))
  <2>1. c \in FirstIds \ {i} /\ R = FirstIds \ {c}
    BY <1>4, <1>7
  <2> QED BY <1>2, <1>7, <1>8, <2>1, Weights
<1>14. ~Null(i + 1)
  <2>1. i + 1 \in F /\ i + 1 # 0 /\ (i + 1) - 0 = i + 1
    BY <1>9, PrimeFacts DEF Guardians, F
  <2> QED BY <2>1, ZeroOne, NullF
<1> HIDE DEF w, b, r, s, R
<1>15. Null((c + 1) - (m + 1))
  <2>1. c \in Int /\ m \in Int /\ i \in Int
    BY <1>4, <1>9, GuardiansFinite
  <2>2. c + 1 \in Int /\ m + 1 \in Int /\ i + 1 \in Int /\ (m + 1) - (i + 1) = m - i /\ (c + 1) - (i + 1) = c - i
    BY <2>1
  <2>3. Null(((m + 1) - (i + 1)) * r - 1) /\ Null(((c + 1) - (i + 1)) * s - 1)
    BY <1>11, <2>2
  <2> QED BY <1>10, <1>11, <1>12, <1>13, <1>14, <2>2, <2>3, StrayAlgebra
<1>16. (c + 1) - (m + 1) = c - m /\ c \in F /\ m \in F
  BY <1>4, PrimeFacts DEF Guardians, F
<1> QED BY <1>4, <1>15, <1>16, NullF

(***************************************************************************)
(* One guardian left out for another one, or answers from before and after *)
(* a fork mixed, and there is no valid exit, for every prime, number of    *)
(* guardians and threshold: what each guardian's answer is worth depends   *)
(* on all the others.                                                      *)
(***************************************************************************)
THEOREM StraySpoils == Spec => []StrayAnswerSpoils
<1>1. ASSUME KeySharesInv PROVE StrayAnswerSpoils
  <2> SUFFICES ASSUME Len(answers) >= threshold, (threshold > 1 /\ OneOutOfPlace) \/ MixedVersions,
                      NEW v \in Versions, ValidExit(v)
               PROVE  FALSE
    BY DEF StrayAnswerSpoils
  <2>1. Fitting(v)
    BY <1>1, FittingNeeded
  <2>2. CASE threshold > 1 /\ OneOutOfPlace
    BY <1>1, <2>1, <2>2, OutOfPlaceUnfit
  <2>3. CASE MixedVersions
    BY <2>1, <2>3 DEF Fitting, MixedVersions
  <2> QED BY <2>2, <2>3
<1> QED BY <1>1, KeySharesTyped, PTL

(***************************************************************************)
(* A first fork of the chain while the answers are gathered does not spoil *)
(* the exit: all answers are still under the genesis version, get_domain   *)
(* taking the previous version for epoch 0.                                *)
(***************************************************************************)
THEOREM GenesisForkHarmless == Spec => []FirstForkHarmless
<1>1. ASSUME KeySharesInv PROVE FirstForkHarmless
  <2> SUFFICES ASSUME fork <= 1, Len(answers) >= threshold, \A k \in 1..threshold : answers[k].id = k - 1
               PROVE  ValidExit(0)
    BY DEF FirstForkHarmless
  <2>1. ExitVersion(fork) = 0 /\ 0 \in Versions
    BY <1>1, MaxForkAssumption DEF KeySharesInv, Versions, ExitVersion
  <2>2. ASSUME NEW k \in 1..threshold PROVE answers[k] = [id |-> 1 * k - 1, version |-> 0]
    <3>1. k \in 1..Len(answers) /\ k \in DOMAIN answers
      BY <1>1, InvFacts
    <3>2. answers[k] \in [id : Guardians, version : Versions] /\ answers[k].version <= 0
      BY <1>1, <2>1, <3>1, InvFacts DEF KeySharesInv
    <3>3. answers[k].version = 0
      BY <3>2 DEF Versions
    <3>4. answers[k].id = 1 * k - 1
      OBVIOUS
    <3> QED BY <3>2, <3>3, <3>4
  <2>3. InOrder(1, 0)
    BY <2>2 DEF InOrder
  <2>4. 1 \in 1..N
    <3>1. 1 \in DOMAIN answers /\ answers[1].id \in Guardians
      BY <1>1, InvFacts
    <3> QED BY <3>1, PrimeFacts DEF Guardians
  <2> QED BY <1>1, <2>1, <2>3, <2>4, InOrderFits, FittingSuffices
<1> QED BY <1>1, KeySharesTyped, PTL

(***************************************************************************)
(* Fewer guardians than the threshold cannot aggregate, and their shares   *)
(* are those of some key set for every secret (up to a key set with shares *)
(* of 0): distribute_key_shares gives nothing away.                        *)
(***************************************************************************)
THEOREM FewerLearnNothing == Spec => []BelowThresholdNothing
<1>1. ASSUME KeySharesInv PROVE BelowThresholdNothing
  <2> SUFFICES ASSUME Len(answers) < threshold
               PROVE  /\ \A p \in KeySetsOf(threshold) : Exit(p) = NoSignature
                      /\ \A secret \in F : \E p \in KeySetsOf(threshold) :
                           p[1] = secret /\ \A k \in DOMAIN answers : ShareOf(p, answers[k].id) = 0
    BY DEF BelowThresholdNothing
  <2>1. \A p \in KeySetsOf(threshold) : Exit(p) = NoSignature
    BY <1>1, ExitShape
  <2>2. ASSUME NEW secret \in F
        PROVE  \E p \in KeySetsOf(threshold) : p[1] = secret /\ \A k \in DOMAIN answers : ShareOf(p, answers[k].id) = 0
    <3> DEFINE D == 1..Len(answers)
               f == [k \in D |-> answers[k].id]
               S == {answers[k].id : k \in D}
    <3>1. DOMAIN answers = D /\ Len(answers) \in Nat /\ \A k \in D : answers[k].id \in Guardians
      BY <1>1, InvFacts
    <3>2. S \in SUBSET Guardians /\ f \in Surjection(D, S)
      BY <3>1 DEF Surjection
    <3>3. IsFiniteSet(D) /\ Cardinality(D) = Len(answers)
      BY <3>1, FS_Interval
    <3>4. Cardinality(S) <= Len(answers) /\ Cardinality(S) \in Nat
      BY <3>2, <3>3, FS_Surjection, FS_CardinalityType
    <3>5. Cardinality(S) < threshold /\ threshold \in Nat
      BY <1>1, <3>1, <3>4, InvFacts
    <3>6. PICK p \in [1..threshold -> F] : p[1] = secret /\ \A i \in S : evaluate(p, i + 1) = 0
      BY <3>2, <3>5, Vanishing
    <3>7. p \in KeySetsOf(threshold)
      BY <1>1, InvFacts DEF KeySetsOf, new_bls_key, Degree
    <3> QED BY <3>1, <3>6, <3>7 DEF ShareOf
  <2> QED BY <2>1, <2>2
<1> QED BY <1>1, KeySharesTyped, PTL
============================================================================
