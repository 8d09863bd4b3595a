------------------------------ MODULE SumTheorems ------------------------------
(***************************************************************************)
(* Facts about SumFunction, the sum of a function over its finite domain.  *)
(* The community module defines it by taking out a CHOSEn element after    *)
(* the other; what the proofs of the ledgers and of the shelves need is    *)
(* that such a sum exists, is a number, and changes by the difference when *)
(* the function changes at one point.  The induction underneath is the     *)
(* well-foundedness of < on the naturals (WFMin), which speaks of sets and *)
(* so can be used without instantiating an operator.                       *)
(***************************************************************************)
EXTENDS Integers, FiniteSets, Functions, FiniteSetTheorems, TLAPS

\* Every non-empty set of naturals has a least element.
LEMMA LeastNatural ==
    ASSUME NEW T \in SUBSET Nat, T # {}
    PROVE  \E x \in T : \A y \in T : x <= y
<1>1. IsWellFoundedOn(OpToRel(<, Nat), Nat)
  BY NatLessThanWellFounded
<1>2. PICK x \in T : \A y \in T : ~ (<<y, x>> \in OpToRel(<, Nat))
  BY <1>1, WFMin
<1>3. ASSUME NEW y \in T PROVE x <= y
  <2>1. ~ (<<y, x>> \in OpToRel(<, Nat))
    BY <1>2
  <2>2. ~ (y < x)
    BY <2>1 DEF OpToRel
  <2> QED BY <2>2
<1> QED BY <1>3

\* A set that contains 0 and every successor of its members contains Nat.
LEMMA NaturalsByInduction ==
    ASSUME NEW S \in SUBSET Nat, 0 \in S, \A n \in S : n + 1 \in S
    PROVE  S = Nat
<1> SUFFICES ASSUME Nat \ S # {} PROVE FALSE
  OBVIOUS
<1>1. PICK x \in Nat \ S : \A y \in Nat \ S : x <= y
  BY LeastNatural
<1>2. x # 0
  BY <1>1
<1>3. x - 1 \in Nat /\ x = (x - 1) + 1
  BY <1>2
<1>4. x - 1 \in S
  BY <1>1, <1>3
<1> QED BY <1>1, <1>3, <1>4

\* The element a sum takes out next.
Chosen(s) == CHOOSE x \in s : TRUE

LEMMA ChosenInSet == ASSUME NEW s, s # {} PROVE Chosen(s) \in s
BY DEF Chosen

\* A family of subsets of a finite set that contains the empty one, and every
\* one whose remainder it contains, contains them all.
LEMMA SubsetsByInduction ==
    ASSUME NEW S, IsFiniteSet(S), NEW G,
           {} \in G,
           \A s \in SUBSET S : s # {} /\ s \ {Chosen(s)} \in G => s \in G
    PROVE  \A s \in SUBSET S : s \in G
<1> DEFINE N == {n \in Nat : \A s \in SUBSET S : Cardinality(s) = n => s \in G}
<1>0. \A s \in SUBSET S : IsFiniteSet(s) /\ Cardinality(s) \in Nat
  BY FS_Subset, FS_CardinalityType
<1>1. 0 \in N
  <2> SUFFICES ASSUME NEW s \in SUBSET S, Cardinality(s) = 0 PROVE s \in G
    OBVIOUS
  <2>1. s = {}
    BY <1>0, FS_EmptySet
  <2> QED BY <2>1
<1>2. ASSUME NEW n \in N PROVE n + 1 \in N
  <2> SUFFICES ASSUME NEW s \in SUBSET S, Cardinality(s) = n + 1 PROVE s \in G
    OBVIOUS
  <2>1. n \in Nat
    OBVIOUS
  <2>2. s # {}
    BY <2>1, FS_EmptySet
  <2>3. Chosen(s) \in s
    BY <2>2, ChosenInSet
  <2>4. Cardinality(s \ {Chosen(s)}) = n
    <3>1. IsFiniteSet(s)
      BY <1>0
    <3>2. Cardinality(s \ {Chosen(s)}) = Cardinality(s) - 1
      BY <2>3, <3>1, FS_RemoveElement
    <3> QED BY <2>1, <3>2
  <2>5. s \ {Chosen(s)} \in G
    BY <2>4
  <2> QED BY <2>2, <2>5
<1> HIDE DEF N
<1>3. N = Nat
  <2>1. N \in SUBSET Nat
    BY DEF N
  <2> QED BY <1>1, <1>2, <2>1, NaturalsByInduction
<1>4. ASSUME NEW s \in SUBSET S PROVE s \in G
  BY <1>0, <1>3 DEF N
<1> QED BY <1>4

-----------------------------------------------------------------------------
\* g is the table of partial sums of f over the subsets of S.
Tabulates(g, f, S) ==
    g = [s \in SUBSET S |-> IF s = {} THEN 0 ELSE f[Chosen(s)] + g[s \ {Chosen(s)}]]
Table(f, S) == CHOOSE g : Tabulates(g, f, S)

LEMMA SumIsTabulated ==
    ASSUME NEW f
    PROVE  SumFunction(f) = Table(f, DOMAIN f)[DOMAIN f]
BY DEF SumFunction, SumFunctionOnSet, FoldFunctionOnSet, MapThenFoldSet, Table, Tabulates, Chosen

\* A function over the subsets of at most n elements that obeys the recursion
\* extends to those of at most n + 1.
LEMMA TableExists ==
    ASSUME NEW S, IsFiniteSet(S), NEW f
    PROVE  \E g : Tabulates(g, f, S)
<1> DEFINE Small(n) == {s \in SUBSET S : Cardinality(s) <= n}
           Obeys(g, D) == g = [s \in D |-> IF s = {} THEN 0
                                           ELSE f[Chosen(s)] + g[s \ {Chosen(s)}]]
           N == {n \in Nat : \E g : Obeys(g, Small(n))}
<1>0. \A s \in SUBSET S : IsFiniteSet(s) /\ Cardinality(s) \in Nat
  BY FS_Subset, FS_CardinalityType
<1>1. 0 \in N
  <2>1. \A s \in Small(0) : s = {}
    BY <1>0, FS_EmptySet
  <2>2. Obeys([s \in Small(0) |-> 0], Small(0))
    BY <2>1
  <2> QED BY <2>2
<1>2. ASSUME NEW n \in N PROVE n + 1 \in N
  <2>0. n \in Nat
    OBVIOUS
  <2>1. PICK g : Obeys(g, Small(n))
    OBVIOUS
  <2> DEFINE h == [s \in Small(n + 1) |-> IF s = {} THEN 0
                                          ELSE f[Chosen(s)] + g[s \ {Chosen(s)}]]
  <2>2. ASSUME NEW s \in Small(n + 1), s # {}
        PROVE  s \ {Chosen(s)} \in Small(n) /\ s \ {Chosen(s)} \in Small(n + 1)
    <3>1. Chosen(s) \in s /\ IsFiniteSet(s)
      BY <1>0, <2>2, ChosenInSet
    <3>2. Cardinality(s \ {Chosen(s)}) = Cardinality(s) - 1
      BY <3>1, FS_RemoveElement
    <3>3. s \ {Chosen(s)} \in SUBSET S
      OBVIOUS
    <3>4. Cardinality(s) <= n + 1 /\ Cardinality(s) \in Nat
      BY <1>0
    <3> QED BY <2>0, <3>2, <3>3, <3>4
  <2>3. ASSUME NEW s \in Small(n) PROVE s \in Small(n + 1) /\ h[s] = g[s]
    <3>1. s \in Small(n + 1)
      BY <1>0, <2>0
    <3>2. g[s] = IF s = {} THEN 0 ELSE f[Chosen(s)] + g[s \ {Chosen(s)}]
      BY <2>1
    <3> QED BY <3>1, <3>2
  <2> HIDE DEF Small
  <2>4. h = [s \in Small(n + 1) |-> IF s = {} THEN 0
                                    ELSE f[Chosen(s)] + h[s \ {Chosen(s)}]]
    <3>1. ASSUME NEW s \in Small(n + 1), s # {}
          PROVE  h[s \ {Chosen(s)}] = g[s \ {Chosen(s)}]
      BY <2>2, <2>3, <3>1
    <3> QED BY <3>1
  <2>5. n + 1 \in Nat
    BY <2>0
  <2> HIDE DEF h
  <2>6. Obeys(h, Small(n + 1))
    BY <2>4
  <2> HIDE DEF Obeys
  <2> QED BY <2>5, <2>6
<1>3. Cardinality(S) \in N
  <2>1. N \in SUBSET Nat
    OBVIOUS
  <2> HIDE DEF N
  <2>2. N = Nat
    BY <1>1, <1>2, <2>1, NaturalsByInduction
  <2> QED BY <2>2, FS_CardinalityType
<1>4. Small(Cardinality(S)) = SUBSET S
  BY FS_Subset
<1> QED BY <1>3, <1>4 DEF Tabulates

LEMMA TableRecursion ==
    ASSUME NEW S, IsFiniteSet(S), NEW f
    PROVE  /\ Table(f, S)[{}] = 0
           /\ \A s \in SUBSET S : s # {} =>
                Table(f, S)[s] = f[Chosen(s)] + Table(f, S)[s \ {Chosen(s)}]
<1>1. Tabulates(Table(f, S), f, S)
  BY TableExists DEF Table
<1>2. \A s \in SUBSET S :
        Table(f, S)[s] = IF s = {} THEN 0
                         ELSE f[Chosen(s)] + Table(f, S)[s \ {Chosen(s)}]
  <2> DEFINE g == Table(f, S)
  <2>1. g = [s \in SUBSET S |-> IF s = {} THEN 0 ELSE f[Chosen(s)] + g[s \ {Chosen(s)}]]
    BY <1>1 DEF Tabulates
  <2> HIDE DEF g
  <2>2. \A s \in SUBSET S : g[s] = IF s = {} THEN 0 ELSE f[Chosen(s)] + g[s \ {Chosen(s)}]
    BY <2>1
  <2> QED BY <2>2 DEF g
<1>3. {} \in SUBSET S
  OBVIOUS
<1> QED BY <1>2, <1>3

-----------------------------------------------------------------------------
\* The sum of numbers is a number.
LEMMA SumIsInt ==
    ASSUME NEW S, IsFiniteSet(S), NEW f \in [S -> Int]
    PROVE  SumFunction(f) \in Int
<1> DEFINE g == Table(f, S)
           G == {s \in SUBSET S : g[s] \in Int}
<1>1. {} \in G
  BY TableRecursion
<1>2. ASSUME NEW s \in SUBSET S, s # {}, s \ {Chosen(s)} \in G PROVE s \in G
  <2>1. g[s] = f[Chosen(s)] + g[s \ {Chosen(s)}]
    BY <1>2, TableRecursion
  <2>2. f[Chosen(s)] \in Int
    BY <1>2, ChosenInSet
  <2> QED BY <1>2, <2>1, <2>2
<1> HIDE DEF G
<1>3. S \in G
  BY <1>1, <1>2, SubsetsByInduction
<1> QED BY <1>3, SumIsTabulated DEF G

\* Nothing counted, nothing summed.
LEMMA SumOfZeros ==
    ASSUME NEW S, IsFiniteSet(S), NEW f \in [S -> Int], \A x \in S : f[x] = 0
    PROVE  SumFunction(f) = 0
<1> DEFINE g == Table(f, S)
           G == {s \in SUBSET S : g[s] = 0}
<1>1. {} \in G
  BY TableRecursion
<1>2. ASSUME NEW s \in SUBSET S, s # {}, s \ {Chosen(s)} \in G PROVE s \in G
  <2>1. g[s] = f[Chosen(s)] + g[s \ {Chosen(s)}]
    BY <1>2, TableRecursion
  <2>2. f[Chosen(s)] = 0
    BY <1>2, ChosenInSet
  <2> QED BY <1>2, <2>1, <2>2
<1> HIDE DEF G
<1>3. S \in G
  BY <1>1, <1>2, SubsetsByInduction
<1> QED BY <1>3, SumIsTabulated DEF G

\* Sums grow with their terms.
LEMMA SumIsMonotone ==
    ASSUME NEW S, IsFiniteSet(S), NEW f \in [S -> Int], NEW h \in [S -> Int],
           \A x \in S : f[x] <= h[x]
    PROVE  SumFunction(f) <= SumFunction(h)
<1> DEFINE g == Table(f, S)
           k == Table(h, S)
           G == {s \in SUBSET S : g[s] \in Int /\ k[s] \in Int /\ g[s] <= k[s]}
<1>1. {} \in G
  BY TableRecursion
<1>2. ASSUME NEW s \in SUBSET S, s # {}, s \ {Chosen(s)} \in G PROVE s \in G
  <2>1. /\ g[s] = f[Chosen(s)] + g[s \ {Chosen(s)}]
        /\ k[s] = h[Chosen(s)] + k[s \ {Chosen(s)}]
    BY <1>2, TableRecursion
  <2>2. f[Chosen(s)] \in Int /\ h[Chosen(s)] \in Int /\ f[Chosen(s)] <= h[Chosen(s)]
    BY <1>2, ChosenInSet
  <2> HIDE DEF g, k
  <2> QED BY <1>2, <2>1, <2>2
<1> HIDE DEF G
<1>3. S \in G
  BY <1>1, <1>2, SubsetsByInduction
<1> QED BY <1>3, SumIsTabulated DEF G

\* The sum of the differences is the difference of the sums.
LEMMA SumOfDifferences ==
    ASSUME NEW S, IsFiniteSet(S), NEW f \in [S -> Int], NEW d \in [S -> Int],
           NEW h \in [S -> Int], \A x \in S : h[x] = f[x] + d[x]
    PROVE  SumFunction(h) = SumFunction(f) + SumFunction(d)
<1> DEFINE g == Table(f, S)
           e == Table(d, S)
           k == Table(h, S)
           G == {s \in SUBSET S : g[s] \in Int /\ e[s] \in Int /\ k[s] = g[s] + e[s]}
<1>1. {} \in G
  BY TableRecursion
<1>2. ASSUME NEW s \in SUBSET S, s # {}, s \ {Chosen(s)} \in G PROVE s \in G
  <2>1. /\ g[s] = f[Chosen(s)] + g[s \ {Chosen(s)}]
        /\ e[s] = d[Chosen(s)] + e[s \ {Chosen(s)}]
        /\ k[s] = h[Chosen(s)] + k[s \ {Chosen(s)}]
    <3>1. g[s] = f[Chosen(s)] + g[s \ {Chosen(s)}]
      BY <1>2, TableRecursion
    <3>2. e[s] = d[Chosen(s)] + e[s \ {Chosen(s)}]
      BY <1>2, TableRecursion
    <3>3. k[s] = h[Chosen(s)] + k[s \ {Chosen(s)}]
      BY <1>2, TableRecursion
    <3> QED BY <3>1, <3>2, <3>3
  <2>2. /\ f[Chosen(s)] \in Int /\ d[Chosen(s)] \in Int
        /\ h[Chosen(s)] = f[Chosen(s)] + d[Chosen(s)]
    BY <1>2, ChosenInSet
  <2> HIDE DEF g, e, k
  <2> QED BY <1>2, <2>1, <2>2
<1> HIDE DEF G
<1>3. S \in G
  BY <1>1, <1>2, SubsetsByInduction
<1> QED BY <1>3, SumIsTabulated DEF G

\* A function that is zero everywhere but at a sums to its value there.
LEMMA SumOfOne ==
    ASSUME NEW S, IsFiniteSet(S), NEW d \in [S -> Int], NEW a \in S,
           \A x \in S \ {a} : d[x] = 0
    PROVE  SumFunction(d) = d[a]
<1> DEFINE g == Table(d, S)
           G == {s \in SUBSET S : g[s] = IF a \in s THEN d[a] ELSE 0}
<1>1. {} \in G
  BY TableRecursion
<1>2. ASSUME NEW s \in SUBSET S, s # {}, s \ {Chosen(s)} \in G PROVE s \in G
  <2>1. g[s] = d[Chosen(s)] + g[s \ {Chosen(s)}]
    BY <1>2, TableRecursion
  <2>2. Chosen(s) \in s /\ d[Chosen(s)] \in Int /\ d[a] \in Int
    BY <1>2, ChosenInSet
  <2>3. g[s \ {Chosen(s)}] = IF a \in s \ {Chosen(s)} THEN d[a] ELSE 0
    BY <1>2
  <2>4. CASE Chosen(s) = a
    <3>1. g[s \ {Chosen(s)}] = 0
      BY <2>3, <2>4
    <3>2. g[s] = d[a] /\ a \in s
      BY <2>1, <2>2, <2>4, <3>1
    <3> QED BY <3>2
  <2>5. CASE Chosen(s) # a
    <3>1. d[Chosen(s)] = 0
      BY <2>2, <2>5
    <3>2. g[s] = IF a \in s THEN d[a] ELSE 0
      BY <2>1, <2>2, <2>3, <2>5, <3>1
    <3> QED BY <3>2
  <2> QED BY <2>4, <2>5
<1> HIDE DEF G
<1>3. S \in G
  BY <1>1, <1>2, SubsetsByInduction
<1> QED BY <1>3, SumIsTabulated DEF G

\* One term changes: the sum changes by as much.
THEOREM SumChangesAt ==
    ASSUME NEW S, IsFiniteSet(S), NEW f \in [S -> Int], NEW h \in [S -> Int], NEW a \in S,
           \A x \in S \ {a} : h[x] = f[x]
    PROVE  /\ SumFunction(f) \in Int
           /\ SumFunction(h) = SumFunction(f) + (h[a] - f[a])
<1> DEFINE d == [x \in S |-> h[x] - f[x]]
<1>1. d \in [S -> Int] /\ \A x \in S : h[x] = f[x] + d[x]
  OBVIOUS
<1>2. d[a] = h[a] - f[a] /\ \A x \in S \ {a} : d[x] = 0
  OBVIOUS
<1> HIDE DEF d
<1>3. SumFunction(d) = d[a]
  BY <1>1, <1>2, SumOfOne
<1>4. SumFunction(h) = SumFunction(f) + SumFunction(d)
  BY <1>1, SumOfDifferences
<1> QED BY <1>2, <1>3, <1>4, SumIsInt

\* Terms that stay within half a c of each other sum to sums that stay within
\* half a c per term.
LEMMA SumsStayClose ==
    ASSUME NEW S, IsFiniteSet(S), NEW f \in [S -> Int], NEW h \in [S -> Int], NEW c \in Nat,
           \A x \in S : 2 * (c * h[x]) - 2 * f[x] <= c /\ 2 * f[x] - 2 * (c * h[x]) <= c
    PROVE  /\ 2 * (c * SumFunction(h)) - 2 * SumFunction(f) <= Cardinality(S) * c
           /\ 2 * SumFunction(f) - 2 * (c * SumFunction(h)) <= Cardinality(S) * c
<1> DEFINE g == Table(f, S)
           k == Table(h, S)
           Close(s) == /\ 2 * (c * k[s]) - 2 * g[s] <= Cardinality(s) * c
                       /\ 2 * g[s] - 2 * (c * k[s]) <= Cardinality(s) * c
           G == {s \in SUBSET S : g[s] \in Int /\ k[s] \in Int /\ Close(s)}
<1>1. {} \in G
  <2>1. g[{}] = 0 /\ k[{}] = 0
    BY TableRecursion
  <2>2. Cardinality({}) = 0
    BY FS_EmptySet
  <2> HIDE DEF g, k
  <2> QED
    BY <2>1, <2>2
<1>2. ASSUME NEW s \in SUBSET S, s # {}, s \ {Chosen(s)} \in G PROVE s \in G
  <2> DEFINE x == Chosen(s)
             r == s \ {x}
             n == Cardinality(r)
  <2>1. g[s] = f[x] + g[r]
    BY <1>2, TableRecursion
  <2>2. k[s] = h[x] + k[r]
    BY <1>2, TableRecursion
  <2>3. x \in s /\ x \in S
    BY <1>2, ChosenInSet
  <2>4. Cardinality(s) = n + 1 /\ n \in Nat
    <3>1. IsFiniteSet(s) /\ IsFiniteSet(r)
      BY FS_Subset
    <3>2. Cardinality(r) = Cardinality(s) - 1
      BY <2>3, <3>1, FS_RemoveElement
    <3> QED
      BY <3>1, <3>2, FS_CardinalityType
  <2>5. g[r] \in Int /\ k[r] \in Int /\ Close(r) /\ f[x] \in Int /\ h[x] \in Int
    BY <1>2, <2>3
  <2>6. 2 * (c * h[x]) - 2 * f[x] <= c /\ 2 * f[x] - 2 * (c * h[x]) <= c
    BY <2>3
  <2> HIDE DEF g, k, x, r, n
  <2>7. c * k[s] = c * h[x] + c * k[r] /\ Cardinality(s) * c = n * c + c
    BY <2>2, <2>4, <2>5
  <2>8. c * h[x] \in Int /\ c * k[r] \in Int /\ n * c \in Int
    BY <2>4, <2>5
  <2>9. 2 * (c * k[r]) - 2 * g[r] <= n * c /\ 2 * g[r] - 2 * (c * k[r]) <= n * c
    BY <2>5 DEF n
  <2>10. Close(s)
    BY <2>1, <2>5, <2>6, <2>7, <2>8, <2>9
  <2> QED
    BY <1>2, <2>1, <2>2, <2>5, <2>10
<1> HIDE DEF G
<1>3. S \in G
  BY <1>1, <1>2, SubsetsByInduction
<1>4. 2 * (c * k[S]) - 2 * g[S] <= Cardinality(S) * c /\ 2 * g[S] - 2 * (c * k[S]) <= Cardinality(S) * c
  BY <1>3 DEF G
<1>5. SumFunction(f) = g[S] /\ SumFunction(h) = k[S]
  BY SumIsTabulated
<1> QED
  BY <1>4, <1>5

\* A function on a finite set has a greatest value.
LEMMA GreatestOfFinite ==
    ASSUME NEW S, IsFiniteSet(S), S # {}, NEW f \in [S -> Int]
    PROVE  \E x \in S : \A y \in S : f[y] <= f[x]
<1> DEFINE G == {s \in SUBSET S : s # {} => \E x \in s : \A y \in s : f[y] <= f[x]}
<1>1. {} \in G
  OBVIOUS
<1>2. ASSUME NEW s \in SUBSET S, s # {}, s \ {Chosen(s)} \in G PROVE s \in G
  <2>1. Chosen(s) \in s
    BY <1>2, ChosenInSet
  <2>2. CASE s \ {Chosen(s)} = {}
    BY <2>1, <2>2
  <2>3. CASE s \ {Chosen(s)} # {}
    <3>1. PICK x \in s \ {Chosen(s)} : \A y \in s \ {Chosen(s)} : f[y] <= f[x]
      BY <1>2, <2>3
    <3>2. CASE f[Chosen(s)] <= f[x]
      BY <3>1, <3>2
    <3>3. CASE ~(f[Chosen(s)] <= f[x])
      <4>1. \A y \in s : f[y] \in Int
        OBVIOUS
      <4>2. \A y \in s : f[y] <= f[Chosen(s)]
        BY <2>1, <3>1, <3>3, <4>1
      <4> QED
        BY <2>1, <4>2
    <3> QED
      BY <3>2, <3>3
  <2> QED
    BY <2>2, <2>3
<1> HIDE DEF G
<1>3. S \in G
  BY <1>1, <1>2, SubsetsByInduction
<1> QED
  BY <1>3 DEF G

================================================================================
