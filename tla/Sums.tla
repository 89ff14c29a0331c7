-------------------------------- MODULE Sums --------------------------------
(***************************************************************************)
(* Sums over finite sets, which fares, shares and ratings are computed by. *)
(* SumFunction is a fold: it is the last entry of the one table over the   *)
(* subsets of its domain that satisfies TableEq.  Induction is over a set  *)
(* of numbers or of subsets, by the minimal elements of what is not in it. *)
(***************************************************************************)
EXTENDS Functions, FiniteSets, FiniteSetTheorems, WellFoundedInduction, TLAPS

Pick(s) == CHOOSE x \in s : TRUE

TableEq(t, f, D) ==
    t = [s \in D |-> IF s = {} THEN 0 ELSE f[Pick(s)] + t[s \ {Pick(s)}]]

Table(f, S) == CHOOSE t : TableEq(t, f, SUBSET S)

LEMMA SumIsTable == ASSUME NEW f PROVE SumFunction(f) = Table(f, DOMAIN f)[DOMAIN f]
BY DEF SumFunction, SumFunctionOnSet, FoldFunctionOnSet, MapThenFoldSet, Table,
       TableEq, Pick

\* Induction on the naturals, of a set in place of a predicate.
LEMMA LessIsWellFounded ==
    IsWellFoundedOn({ss \in Nat \X Nat : ss[1] < ss[2]}, Nat)
BY NatLessThanWellFounded DEF OpToRel

LEMMA UpFromZero ==
    ASSUME NEW T \in SUBSET Nat, 0 \in T, \A n \in T : n + 1 \in T
    PROVE  T = Nat
<1> DEFINE R == {ss \in Nat \X Nat : ss[1] < ss[2]}
<1>1. SUFFICES ASSUME Nat \ T # {} PROVE FALSE
  OBVIOUS
<1>2. PICK n \in Nat \ T : \A m \in Nat \ T : ~(<<m, n>> \in R)
  <2>1. Nat \ T \subseteq Nat
    OBVIOUS
  <2> QED BY Zenon, <1>1, <2>1, WFMin, LessIsWellFounded
<1>3. n # 0 /\ n - 1 \in Nat
  OBVIOUS
<1>4. \A m \in Nat \ T : ~(m < n)
  BY <1>2
<1>5. n - 1 \in T
  BY <1>3, <1>4
<1> QED BY <1>3, <1>5

LEMMA PickIn == ASSUME NEW s, s # {} PROVE Pick(s) \in s
BY DEF Pick

Small(S, n) == {s \in SUBSET S : Cardinality(s) <= n}

LEMMA SmallerIsSmall ==
    ASSUME NEW S, IsFiniteSet(S), NEW n \in Nat, NEW s \in Small(S, n + 1),
           NEW x \in s
    PROVE  s \ {x} \in Small(S, n)
<1>1. IsFiniteSet(s) /\ Cardinality(s) \in Nat /\ Cardinality(s) <= n + 1
  BY FS_Subset, FS_CardinalityType DEF Small
<1>2. Cardinality(s \ {x}) = Cardinality(s) - 1
  BY <1>1, FS_RemoveElement
<1> QED BY <1>1, <1>2 DEF Small

\* Built size by size.
LEMMA TableExists ==
    ASSUME NEW S, IsFiniteSet(S), NEW f
    PROVE  \E t : TableEq(t, f, SUBSET S)
<1> DEFINE T == {n \in Nat : \E t : TableEq(t, f, Small(S, n))}
<1>1. 0 \in T
  <2>1. \A s \in Small(S, 0) : s = {}
    BY FS_Subset, FS_CardinalityType, FS_EmptySet DEF Small
  <2>2. TableEq([s \in Small(S, 0) |-> 0], f, Small(S, 0))
    BY <2>1 DEF TableEq
  <2> QED BY <2>2
<1>2. ASSUME NEW n \in T PROVE n + 1 \in T
  <2>1. PICK t : TableEq(t, f, Small(S, n))
    OBVIOUS
  <2> DEFINE u == [s \in Small(S, n + 1) |->
                     IF s = {} THEN 0 ELSE f[Pick(s)] + t[s \ {Pick(s)}]]
  <2>2. ASSUME NEW s \in Small(S, n) PROVE s \in Small(S, n + 1) /\ u[s] = t[s]
    <3>1. s \in Small(S, n + 1)
      BY FS_Subset, FS_CardinalityType DEF Small
    <3>2. t[s] = IF s = {} THEN 0 ELSE f[Pick(s)] + t[s \ {Pick(s)}]
      BY <2>1 DEF TableEq
    <3> QED BY <3>1, <3>2
  <2>3. ASSUME NEW s \in Small(S, n + 1), s # {}
        PROVE  u[s \ {Pick(s)}] = t[s \ {Pick(s)}]
    BY <2>2, <2>3, SmallerIsSmall, PickIn
  <2>4. TableEq(u, f, Small(S, n + 1))
    BY <2>3 DEF TableEq
  <2> QED BY <2>4
<1>3. T = Nat
  <2> HIDE DEF T
  <2>1. T \in SUBSET Nat
    BY DEF T
  <2> QED BY <1>1, <1>2, <2>1, UpFromZero
<1>4. Cardinality(S) \in T
  BY <1>3, FS_CardinalityType
<1>5. Small(S, Cardinality(S)) = SUBSET S
  BY FS_Subset DEF Small
<1> QED BY <1>4, <1>5

LEMMA TableIs ==
    ASSUME NEW S, IsFiniteSet(S), NEW f
    PROVE  /\ Table(f, S)[{}] = 0
           /\ \A s \in SUBSET S : s # {} =>
                  Table(f, S)[s] = f[Pick(s)] + Table(f, S)[s \ {Pick(s)}]
<1>1. TableEq(Table(f, S), f, SUBSET S)
  BY TableExists, Zenon DEF Table
<1>2. {} \in SUBSET S
  OBVIOUS
<1> HIDE DEF Table
<1> QED BY <1>1, <1>2 DEF TableEq

\* Induction on the subsets of a finite set.
LEMMA SubsetInduction ==
    ASSUME NEW S, IsFiniteSet(S), NEW G \in SUBSET (SUBSET S), {} \in G,
           \A s \in SUBSET S : s # {} /\ (\A x \in s : s \ {x} \in G) => s \in G
    PROVE  G = SUBSET S
<1> DEFINE T == {n \in Nat : Small(S, n) \subseteq G}
<1>1. 0 \in T
  <2>1. \A s \in Small(S, 0) : s = {}
    BY FS_Subset, FS_CardinalityType, FS_EmptySet DEF Small
  <2> QED BY <2>1
<1>2. ASSUME NEW n \in T PROVE n + 1 \in T
  <2>1. ASSUME NEW s \in Small(S, n + 1) PROVE s \in G
    <3>1. \A x \in s : s \ {x} \in G
      BY SmallerIsSmall
    <3> QED BY <3>1 DEF Small
  <2> QED BY <2>1
<1>3. T = Nat
  <2> HIDE DEF T
  <2>1. T \in SUBSET Nat
    BY DEF T
  <2> QED BY <1>1, <1>2, <2>1, UpFromZero
<1>4. Cardinality(S) \in T
  BY <1>3, FS_CardinalityType
<1>5. Small(S, Cardinality(S)) = SUBSET S
  BY FS_Subset DEF Small
<1> QED BY <1>4, <1>5

Summable(f, S) == IsFiniteSet(S) /\ \A x \in S : f[x] \in Int

LEMMA TableType ==
    ASSUME NEW S, NEW f, Summable(f, S)
    PROVE  \A s \in SUBSET S : Table(f, S)[s] \in Int
<1> DEFINE G == {s \in SUBSET S : Table(f, S)[s] \in Int}
<1>1. {} \in G
  BY TableIs DEF Summable
<1>2. ASSUME NEW s \in SUBSET S, s # {}, \A x \in s : s \ {x} \in G
      PROVE  s \in G
  <2>1. Pick(s) \in s
    BY <1>2, PickIn
  <2>2. Table(f, S)[s] = f[Pick(s)] + Table(f, S)[s \ {Pick(s)}]
    BY <1>2, TableIs DEF Summable
  <2>3. Table(f, S)[s \ {Pick(s)}] \in Int /\ f[Pick(s)] \in Int
    BY <1>2, <2>1 DEF Summable
  <2> DEFINE e == Table(f, S)[s \ {Pick(s)}]
  <2>4. f[Pick(s)] + e \in Int
    <3> HIDE DEF e
    <3> QED BY <2>3 DEF e
  <2> QED BY <2>2, <2>4, Zenon
<1>3. G = SUBSET S
  <2> HIDE DEF G
  <2>1. G \in SUBSET (SUBSET S)
    BY DEF G
  <2> QED BY <1>1, <1>2, <2>1, SubsetInduction DEF Summable
<1> QED BY <1>3

\* The sum does not depend on the order of the picks.
LEMMA TakeOut ==
    ASSUME NEW S, NEW f, Summable(f, S)
    PROVE  \A s \in SUBSET S : \A x \in s :
               Table(f, S)[s] = f[x] + Table(f, S)[s \ {x}]
<1> DEFINE t == Table(f, S)
           G == {s \in SUBSET S : \A x \in s : t[s] = f[x] + t[s \ {x}]}
<1>1. {} \in G
  OBVIOUS
<1>2. ASSUME NEW s \in SUBSET S, s # {}, \A x \in s : s \ {x} \in G
      PROVE  s \in G
  <2> SUFFICES ASSUME NEW x \in s PROVE t[s] = f[x] + t[s \ {x}]
    OBVIOUS
  <2> DEFINE p == Pick(s)
  <2>1. p \in s
    BY <1>2, PickIn
  <2>2. t[s] = f[p] + t[s \ {p}]
    BY <1>2, TableIs DEF Summable
  <2>3. CASE x = p
    BY <2>2, <2>3
  <2>4. CASE x # p
    <3>1. t[s \ {p}] = f[x] + t[(s \ {p}) \ {x}]
      BY <1>2, <2>1, <2>4
    <3>2. t[s \ {x}] = f[p] + t[(s \ {x}) \ {p}]
      BY <1>2, <2>1, <2>4
    <3>3. (s \ {p}) \ {x} = (s \ {x}) \ {p}
      OBVIOUS
    <3>4. f[x] \in Int /\ f[p] \in Int /\ t[(s \ {x}) \ {p}] \in Int
      BY <2>1, TableType DEF Summable
    <3> DEFINE e == t[(s \ {x}) \ {p}]
    <3>5. t[s] = f[p] + (f[x] + e) /\ t[s \ {x}] = f[p] + e
      BY <2>2, <3>1, <3>2, <3>3, Zenon
    <3>6. e \in Int
      BY <3>4
    <3> HIDE DEF t, p, e
    <3> QED BY <3>4, <3>5, <3>6
  <2> QED BY <2>3, <2>4
<1>3. G = SUBSET S
  <2> HIDE DEF G
  <2>1. G \in SUBSET (SUBSET S)
    BY DEF G
  <2> QED BY <1>1, <1>2, <2>1, SubsetInduction DEF Summable
<1> QED BY <1>3

\* What is zero outside D adds nothing.
LEMMA Support ==
    ASSUME NEW S, NEW f, Summable(f, S), NEW R \in SUBSET S,
           NEW D \in SUBSET S, NEW h, Summable(h, D),
           \A x \in R \intersect D : h[x] = f[x], \A x \in R \ D : f[x] = 0
    PROVE  Table(f, S)[R] = Table(h, D)[R \intersect D]
<1> DEFINE t == Table(f, S)
           o == Table(h, D)
           G == {s \in SUBSET R : t[s] = o[s \intersect D]}
<1>1. IsFiniteSet(R)
  BY FS_Subset DEF Summable
<1>2. {} \in G
  <2>1. t[{}] = 0
    BY TableIs DEF Summable
  <2>2. o[{}] = 0
    BY TableIs DEF Summable
  <2>3. {} \intersect D = {}
    OBVIOUS
  <2> QED BY <2>1, <2>2, <2>3
<1>3. ASSUME NEW s \in SUBSET R, s # {}, \A x \in s : s \ {x} \in G
      PROVE  s \in G
  <2>1. PICK x : x \in s
    BY <1>3
  <2>2. t[s] = f[x] + t[s \ {x}]
    BY <2>1, TakeOut
  <2>3. t[s \ {x}] = o[(s \ {x}) \intersect D]
    BY <1>3, <2>1
  <2>4. CASE x \in D
    <3>1. o[s \intersect D] = h[x] + o[(s \intersect D) \ {x}]
      BY <2>1, <2>4, TakeOut
    <3>2. (s \intersect D) \ {x} = (s \ {x}) \intersect D
      OBVIOUS
    <3> QED BY <2>1, <2>2, <2>3, <2>4, <3>1, <3>2
  <2>5. CASE x \notin D
    <3> DEFINE e == o[s \intersect D]
    <3>1. (s \ {x}) \intersect D = s \intersect D
      BY <2>5
    <3>2. e \in Int
      BY TableType
    <3>3. f[x] = 0
      BY <2>1, <2>5
    <3>4. t[s] = 0 + e
      BY <2>2, <2>3, <3>1, <3>3, Zenon
    <3>5. t[s] = e
      <4> HIDE DEF t, e
      <4> QED BY <3>2, <3>4
    <3> QED BY <3>5
  <2> QED BY <2>4, <2>5
<1>4. G = SUBSET R
  <2> HIDE DEF G
  <2>1. G \in SUBSET (SUBSET R)
    BY DEF G
  <2> QED BY <1>1, <1>2, <1>3, <2>1, SubsetInduction
<1> QED BY <1>4

LEMMA SumType ==
    ASSUME NEW f, Summable(f, DOMAIN f)
    PROVE  SumFunction(f) \in Int
BY SumIsTable, TableType

\* One amount changes.
LEMMA SumOfOne ==
    ASSUME NEW S, NEW f, NEW h, Summable(f, S), Summable(h, S),
           DOMAIN f = S, DOMAIN h = S, NEW x \in S,
           \A y \in S \ {x} : h[y] = f[y]
    PROVE  SumFunction(h) = SumFunction(f) + (h[x] - f[x])
<1> DEFINE a == Table(f, S)[S \ {x}]
           c == Table(h, S)[S \ {x}]
<1>1. SumFunction(f) = f[x] + a
  BY SumIsTable, TakeOut
<1>2. SumFunction(h) = h[x] + c
  BY SumIsTable, TakeOut
<1>3. a = c
  <2>1. (S \ {x}) \intersect S = S \ {x}
    OBVIOUS
  <2> QED BY <2>1, Support
<1>4. a \in Int /\ f[x] \in Int /\ h[x] \in Int
  BY TableType DEF Summable
<1> HIDE DEF a, c
<1> QED BY <1>1, <1>2, <1>3, <1>4

\* One amount is what the others leave of the whole.
LEMMA SumOfRemainder ==
    ASSUME NEW S, NEW f, Summable(f, S), DOMAIN f = S, NEW x \in S,
           NEW h, DOMAIN h \subseteq S \ {x}, Summable(h, DOMAIN h),
           NEW whole \in Int, f[x] = whole - SumFunction(h),
           \A y \in DOMAIN h : f[y] = h[y],
           \A y \in S \ {x} : y \notin DOMAIN h => f[y] = 0
    PROVE  SumFunction(f) = whole
<1> DEFINE D == DOMAIN h
           a == Table(f, S)[S \ {x}]
<1>1. SumFunction(f) = f[x] + a
  BY SumIsTable, TakeOut
<1>2. a = Table(h, D)[(S \ {x}) \intersect D]
  BY Support
<1>3. (S \ {x}) \intersect D = D
  OBVIOUS
<1>4. a = SumFunction(h)
  BY <1>2, <1>3, SumIsTable
<1>5. a \in Int
  BY <1>4, SumType
<1> HIDE DEF a
<1> QED BY <1>1, <1>4, <1>5

\* A sum is so many times what every part of it is at least, and at most.
LEMMA SumWithin ==
    ASSUME NEW f, Summable(f, DOMAIN f), NEW low \in Nat, NEW high \in Nat,
           \A x \in DOMAIN f : low <= f[x] /\ f[x] <= high
    PROVE  /\ low * Cardinality(DOMAIN f) <= SumFunction(f)
           /\ SumFunction(f) <= high * Cardinality(DOMAIN f)
<1> DEFINE S == DOMAIN f
           t == Table(f, S)
           Within(s) == low * Cardinality(s) <= t[s] /\ t[s] <= high * Cardinality(s)
           G == {s \in SUBSET S : Within(s)}
<1>1. IsFiniteSet(S) /\ \A x \in S : f[x] \in Int
  BY DEF Summable
<1>2. {} \in G
  BY <1>1, TableIs, FS_EmptySet
<1>3. ASSUME NEW s \in SUBSET S, s # {}, \A x \in s : s \ {x} \in G
      PROVE  s \in G
  <2>1. PICK x \in s : TRUE
    BY <1>3
  <2> DEFINE n == Cardinality(s \ {x})
  <2>2. n \in Nat /\ Cardinality(s) = n + 1
    <3>1. IsFiniteSet(s)
      BY <1>1, FS_Subset
    <3>2. Cardinality(s \ {x}) = Cardinality(s) - 1 /\ Cardinality(s) \in Nat
      BY <2>1, <3>1, FS_RemoveElement, FS_CardinalityType
    <3>3. Cardinality(s \ {x}) \in Nat
      BY <3>1, FS_Subset, FS_CardinalityType
    <3> QED BY <3>2, <3>3
  <2>3. t[s] = f[x] + t[s \ {x}]
    BY <2>1, TakeOut
  <2>4. low * n <= t[s \ {x}] /\ t[s \ {x}] <= high * n
    BY <1>3, <2>1
  <2>5. t[s \ {x}] \in Int /\ f[x] \in Int /\ low <= f[x] /\ f[x] <= high
    BY <1>1, <2>1, TableType
  <2>6. low * (n + 1) = low * n + low /\ high * (n + 1) = high * n + high
        /\ low * n \in Int /\ high * n \in Int
    <3> HIDE DEF n
    <3> QED BY <2>2
  <2>7. Within(s)
    <3> HIDE DEF n, t
    <3> QED BY <2>2, <2>3, <2>4, <2>5, <2>6
  <2> QED BY <2>7
<1>4. G = SUBSET S
  <2> HIDE DEF G
  <2>1. G \in SUBSET (SUBSET S)
    BY DEF G
  <2> QED BY <1>1, <1>2, <1>3, <2>1, SubsetInduction
<1>5. S \in G
  BY <1>4
<1> QED BY <1>5, SumIsTable
=============================================================================
