-------------------------------- MODULE Sums --------------------------------
(***************************************************************************)
(* Facts about SumFunctionOnSet for the proofs about counters: the RAM and *)
(* disk a node has reserved (Placement), the bytes a project has stored    *)
(* (StorageObjects).  The community modules define the sum by a recursive  *)
(* function over the subsets of a set; the first lemmas show that the      *)
(* function exists and does not depend on the set it is defined over, the  *)
(* others that the sum is what its name says.  Every induction is an       *)
(* argument about a smallest counterexample.                               *)
(***************************************************************************)
EXTENDS FiniteSetsExt, FiniteSetTheorems, WellFoundedInduction, TLAPS

Pick(s) == CHOOSE x \in s : TRUE

\* g sums f over each subset of S that belongs to D.
Sums(f, D, g) == g = [s \in D |-> IF s = {} THEN 0 ELSE f[Pick(s)] + g[s \ {Pick(s)}]]

\* The function SumFunctionOnSet(f, S) applies to S.
Table(f, S) == CHOOSE g : Sums(f, SUBSET S, g)

-----------------------------------------------------------------------------
(* Smallest counterexamples *)

\* A set of numbers that is not empty has a least element.
LEMMA Smallest ==
  ASSUME NEW T, T \subseteq Nat, T # {}
  PROVE  \E n \in T : \A m \in T : n <= m
<1> DEFINE R == {ss \in Nat \X Nat : ss[1] < ss[2]}
<1>1. IsWellFoundedOn(R, Nat)
  BY NatLessThanWellFounded, Zenon DEF OpToRel
<1>2. \E n \in T : \A m \in T : ~(<<m, n>> \in R)
  <2> HIDE DEF R
  <2> QED BY <1>1, WFMin
<1>3. \A m, n \in T : <<m, n>> \in R <=> m < n
  BY T \subseteq Nat
<1>4. \A m, n \in T : m \in Nat /\ n \in Nat
  OBVIOUS
<1>5. \E n \in T : \A m \in T : ~(m < n)
  <2> HIDE DEF R
  <2> QED  BY <1>2, <1>3, Zenon
<1> QED  BY <1>4, <1>5

\* Induction on the subsets of a finite set: G holds those for which a fact has been
\* shown; an element less, and the fact carries over.
LEMMA Induction ==
  ASSUME NEW S, IsFiniteSet(S), NEW G, {} \in G,
         \A s \in SUBSET S : s # {} /\ (\A x \in s : s \ {x} \in G) => s \in G
  PROVE  SUBSET S \subseteq G
<1> DEFINE R == StrictSubsetOrdering(S)
           Bad == (SUBSET S) \ G
<1>1. IsWellFoundedOn(R, SUBSET S)
  BY FS_StrictSubsetOrderingWellFounded, FS_FiniteSubsetsOfFinite
<1>2. SUFFICES ASSUME Bad # {} PROVE FALSE
  OBVIOUS
<1>3. PICK s \in Bad : \A t \in Bad : ~(<<t, s>> \in R)
  <2>1. Bad \subseteq SUBSET S
    OBVIOUS
  <2> HIDE DEF R, Bad
  <2> QED BY <1>1, <1>2, <2>1, WFMin
<1>4. ASSUME NEW x \in s PROVE s \ {x} \in G
  <2>1. s \ {x} \in SUBSET S /\ s \in SUBSET S
    OBVIOUS
  <2>2. <<s \ {x}, s>> \in R
    BY <2>1 DEF StrictSubsetOrdering
  <2> HIDE DEF R
  <2> QED  BY <1>3, <2>1, <2>2
<1> QED  BY <1>4

LEMMA PickIn == ASSUME NEW s, s # {} PROVE Pick(s) \in s
  BY DEF Pick

-----------------------------------------------------------------------------
(* The recursion is sound *)

LEMMA TableIs == ASSUME NEW f, NEW S PROVE SumFunctionOnSet(f, S) = Table(f, S)[S]
  BY DEF SumFunctionOnSet, FoldFunctionOnSet, MapThenFoldSet, Table, Sums, Pick

\* A function that sums f over every subset exists: one over the subsets of n + 1
\* elements is made from one over those of n.
LEMMA TableExists ==
  ASSUME NEW f, NEW S, IsFiniteSet(S)
  PROVE  \E g : Sums(f, SUBSET S, g)
<1> DEFINE Small(n) == {s \in SUBSET S : Cardinality(s) <= n}
           Partial(n) == \E g : Sums(f, Small(n), g)
           Bad == {n \in Nat : ~Partial(n)}
<1>1. \A s \in SUBSET S : IsFiniteSet(s) /\ Cardinality(s) \in Nat
  BY FS_Subset, FS_CardinalityType
<1>2. Partial(0)
  <2> DEFINE g == [s \in Small(0) |-> 0]
  <2>1. \A s \in Small(0) : s = {}
    BY <1>1, FS_EmptySet
  <2>2. Sums(f, Small(0), g)
    BY <2>1 DEF Sums
  <2> QED  BY <2>2
<1>3. ASSUME NEW n \in Nat, Partial(n) PROVE Partial(n + 1)
  <2>1. PICK g : Sums(f, Small(n), g)
    BY <1>3
  <2> DEFINE h == [s \in Small(n + 1) |-> IF s = {} THEN 0 ELSE f[Pick(s)] + g[s \ {Pick(s)}]]
  <2>2. \A s \in Small(n) : s \in Small(n + 1) /\ h[s] = g[s]
    <3>1. \A s \in Small(n) : s \in Small(n + 1)
      BY <1>1
    <3>2. \A s \in Small(n) : g[s] = IF s = {} THEN 0 ELSE f[Pick(s)] + g[s \ {Pick(s)}]
      <4> HIDE DEF Small, h
      <4> QED BY <2>1 DEF Sums
    <3> HIDE DEF Small
    <3> QED  BY <3>1, <3>2
  <2>3. \A s \in Small(n + 1) : s # {} => s \ {Pick(s)} \in Small(n)
    <3> SUFFICES ASSUME NEW s \in Small(n + 1), s # {} PROVE s \ {Pick(s)} \in Small(n)
      OBVIOUS
    <3>1. /\ Cardinality(s \ {Pick(s)}) = Cardinality(s) - 1
          /\ Cardinality(s) \in Nat
      BY <1>1, PickIn, FS_RemoveElement
    <3> QED  BY <3>1
  <2>4. Sums(f, Small(n + 1), h)
    <3>1. \A s \in Small(n + 1) : s # {} => g[s \ {Pick(s)}] = h[s \ {Pick(s)}]
      <4> HIDE DEF Small, h
      <4> QED  BY <2>2, <2>3
    <3> HIDE DEF Small
    <3> QED  BY <3>1 DEF Sums
  <2> HIDE DEF h, Small
  <2> QED  BY <2>4
<1>4. Bad = {}
  <2> SUFFICES ASSUME Bad # {} PROVE FALSE
    OBVIOUS
  <2>1. PICK n \in Bad : \A m \in Bad : n <= m
    <3> HIDE DEF Partial
    <3> QED BY Smallest
  <2> HIDE DEF Partial
  <2>2. n # 0
    BY <1>2
  <2>3. n - 1 \in Nat /\ n - 1 \notin Bad
    BY <2>1, <2>2
  <2> QED  BY <2>3, <1>3
<1>5. Partial(Cardinality(S))
  <2> HIDE DEF Partial
  <2> QED  BY <1>1, <1>4
<1>6. Small(Cardinality(S)) = SUBSET S
  BY FS_Subset
<1> HIDE DEF Small
<1> QED  BY <1>5, <1>6

LEMMA TableDef ==
  ASSUME NEW f, NEW S, IsFiniteSet(S), NEW s \in SUBSET S
  PROVE  Table(f, S)[s] = IF s = {} THEN 0
                          ELSE f[Pick(s)] + Table(f, S)[s \ {Pick(s)}]
<1>1. Sums(f, SUBSET S, Table(f, S))
  BY TableExists DEF Table
<1> HIDE DEF Table
<1> QED  BY <1>1 DEF Sums

\* What is above a set does not matter to its sum.
LEMMA TableAgrees ==
  ASSUME NEW f, NEW S, IsFiniteSet(S), NEW T \in SUBSET S
  PROVE  Table(f, S)[T] = Table(f, T)[T]
<1> DEFINE G == {s \in SUBSET T : Table(f, S)[s] = Table(f, T)[s]}
<1>1. IsFiniteSet(T)
  BY FS_Subset
<1>2. {} \in G
  BY <1>1, TableDef
<1>3. ASSUME NEW s \in SUBSET T, s # {}, \A x \in s : s \ {x} \in G PROVE s \in G
  <2>1. Table(f, S)[s \ {Pick(s)}] = Table(f, T)[s \ {Pick(s)}]
    BY <1>3, PickIn
  <2>2. /\ Table(f, S)[s] = f[Pick(s)] + Table(f, S)[s \ {Pick(s)}]
        /\ Table(f, T)[s] = f[Pick(s)] + Table(f, T)[s \ {Pick(s)}]
    <3>1. s \in SUBSET S /\ s # {}
      BY <1>3
    <3>2. Table(f, S)[s] = f[Pick(s)] + Table(f, S)[s \ {Pick(s)}]
      BY <3>1, TableDef
    <3>3. Table(f, T)[s] = f[Pick(s)] + Table(f, T)[s \ {Pick(s)}]
      BY <1>1, <3>1, TableDef
    <3> QED  BY <3>2, <3>3
  <2> QED  BY <2>1, <2>2
<1>4. SUBSET T \subseteq G
  <2> HIDE DEF G
  <2> QED  BY <1>1, <1>2, <1>3, Induction
<1> QED  BY <1>4

-----------------------------------------------------------------------------
(* The sum *)

LEMMA SumEmpty == ASSUME NEW f PROVE SumFunctionOnSet(f, {}) = 0
  BY TableIs, TableDef, FS_EmptySet

LEMMA SumPick ==
  ASSUME NEW f, NEW S, IsFiniteSet(S), S # {}
  PROVE  SumFunctionOnSet(f, S) = f[Pick(S)] + SumFunctionOnSet(f, S \ {Pick(S)})
  BY TableIs, TableDef, TableAgrees

LEMMA SumInt ==
  ASSUME NEW f, NEW S, IsFiniteSet(S), \A x \in S : f[x] \in Int
  PROVE  SumFunctionOnSet(f, S) \in Int
<1> DEFINE G == {s \in SUBSET S : SumFunctionOnSet(f, s) \in Int}
<1>1. {} \in G
  BY SumEmpty
<1>2. ASSUME NEW s \in SUBSET S, s # {}, \A x \in s : s \ {x} \in G PROVE s \in G
  <2>1. Pick(s) \in s /\ IsFiniteSet(s)
    BY <1>2, PickIn, FS_Subset
  <2>2. SumFunctionOnSet(f, s) = f[Pick(s)] + SumFunctionOnSet(f, s \ {Pick(s)})
    BY <1>2, <2>1, SumPick
  <2> QED  BY <1>2, <2>1, <2>2
<1>3. SUBSET S \subseteq G
  <2> HIDE DEF G
  <2> QED  BY <1>1, <1>2, Induction
<1> QED  BY <1>3

LEMMA SumNat ==
  ASSUME NEW f, NEW S, IsFiniteSet(S), \A x \in S : f[x] \in Nat
  PROVE  SumFunctionOnSet(f, S) \in Nat
<1> DEFINE G == {s \in SUBSET S : SumFunctionOnSet(f, s) \in Nat}
<1>1. {} \in G
  BY SumEmpty
<1>2. ASSUME NEW s \in SUBSET S, s # {}, \A x \in s : s \ {x} \in G PROVE s \in G
  <2>1. Pick(s) \in s /\ IsFiniteSet(s)
    BY <1>2, PickIn, FS_Subset
  <2>2. SumFunctionOnSet(f, s) = f[Pick(s)] + SumFunctionOnSet(f, s \ {Pick(s)})
    BY <1>2, <2>1, SumPick
  <2> QED  BY <1>2, <2>1, <2>2
<1>3. SUBSET S \subseteq G
  <2> HIDE DEF G
  <2> QED  BY <1>1, <1>2, Induction
<1> QED  BY <1>3

\* Any element may be taken out first.
LEMMA SumOut ==
  ASSUME NEW f, NEW S, IsFiniteSet(S), \A x \in S : f[x] \in Int, NEW x \in S
  PROVE  SumFunctionOnSet(f, S) = f[x] + SumFunctionOnSet(f, S \ {x})
<1> DEFINE Sum(s) == SumFunctionOnSet(f, s)
           G == {s \in SUBSET S : \A y \in s : Sum(s) = f[y] + Sum(s \ {y})}
<1>1. {} \in G
  OBVIOUS
<1>2. ASSUME NEW s \in SUBSET S, s # {}, \A y \in s : s \ {y} \in G, NEW y \in s
      PROVE  Sum(s) = f[y] + Sum(s \ {y})
  <2> DEFINE c == Pick(s)
  <2>1. c \in s
    BY <1>2, PickIn
  <2>2. \A t \in SUBSET S : IsFiniteSet(t) /\ Sum(t) \in Int
    BY FS_Subset, SumInt
  <2>3. Sum(s) = f[c] + Sum(s \ {c})
    BY <1>2, <2>2, SumPick
  <2>4. CASE y = c
    BY <2>3, <2>4
  <2>5. CASE y # c
    <3>1. s \ {c} \in G /\ s \ {y} \in G /\ y \in s \ {c} /\ c \in s \ {y}
      BY <1>2, <2>1, <2>5
    <3>2. /\ Sum(s \ {c}) = f[y] + Sum((s \ {c}) \ {y})
          /\ Sum(s \ {y}) = f[c] + Sum((s \ {y}) \ {c})
      <4> HIDE DEF Sum, c
      <4> QED  BY <3>1
    <3> DEFINE rest == (s \ {c}) \ {y}
    <3>3. (s \ {y}) \ {c} = rest /\ rest \in SUBSET S
      OBVIOUS
    <3>4. f[c] \in Int /\ f[y] \in Int /\ Sum(rest) \in Int
      BY <2>1, <2>2, <3>3
    <3>5. Sum(s \ {c}) = f[y] + Sum(rest) /\ Sum(s \ {y}) = f[c] + Sum(rest)
      <4> HIDE DEF Sum, c
      <4> QED  BY <3>2, <3>3
    <3> HIDE DEF Sum, c, rest
    <3> QED  BY <2>3, <3>4, <3>5
  <2> QED  BY <2>4, <2>5
<1>3. SUBSET S \subseteq G
  <2>1. \A s \in SUBSET S : s # {} /\ (\A y \in s : s \ {y} \in G) => s \in G
    <3>1. ASSUME NEW s \in SUBSET S, s # {}, \A y \in s : s \ {y} \in G PROVE s \in G
      <4>1. \A y \in s : Sum(s) = f[y] + Sum(s \ {y})
        <5> HIDE DEF Sum, G
        <5> QED  BY <1>2, <3>1
      <4> HIDE DEF Sum
      <4> QED  BY <4>1
    <3> HIDE DEF G
    <3> QED  BY <3>1
  <2> HIDE DEF G
  <2> QED  BY <1>1, <2>1, Induction
<1> QED  BY <1>3

\* Larger terms, larger sum.
LEMMA SumMonotone ==
  ASSUME NEW f, NEW g, NEW S, IsFiniteSet(S),
         \A x \in S : f[x] \in Int /\ g[x] \in Int /\ f[x] <= g[x]
  PROVE  SumFunctionOnSet(f, S) <= SumFunctionOnSet(g, S)
<1> DEFINE Below(s) == SumFunctionOnSet(f, s) <= SumFunctionOnSet(g, s)
           G == {s \in SUBSET S : Below(s)}
<1>1. {} \in G
  BY SumEmpty
<1>2. ASSUME NEW s \in SUBSET S, s # {}, \A x \in s : s \ {x} \in G PROVE s \in G
  <2> DEFINE c == Pick(s)
  <2>1. c \in s /\ Below(s \ {c})
    BY <1>2, PickIn
  <2>2. /\ SumFunctionOnSet(f, s) = f[c] + SumFunctionOnSet(f, s \ {c})
        /\ SumFunctionOnSet(g, s) = g[c] + SumFunctionOnSet(g, s \ {c})
    BY <1>2, SumPick, FS_Subset
  <2>3. /\ SumFunctionOnSet(f, s \ {c}) \in Int /\ SumFunctionOnSet(g, s \ {c}) \in Int
        /\ f[c] \in Int /\ g[c] \in Int /\ f[c] <= g[c]
    BY <2>1, SumInt, FS_Subset
  <2> HIDE DEF c
  <2> QED  BY <2>1, <2>2, <2>3
<1>3. SUBSET S \subseteq G
  <2> HIDE DEF G
  <2> QED  BY <1>1, <1>2, Induction
<1> QED  BY <1>3

\* Equal terms, equal sums.
LEMMA SumSame ==
  ASSUME NEW f, NEW g, NEW S, IsFiniteSet(S), \A x \in S : f[x] \in Int /\ f[x] = g[x]
  PROVE  SumFunctionOnSet(f, S) = SumFunctionOnSet(g, S)
<1>1. /\ SumFunctionOnSet(f, S) <= SumFunctionOnSet(g, S)
      /\ SumFunctionOnSet(g, S) <= SumFunctionOnSet(f, S)
  BY SumMonotone
<1>2. SumFunctionOnSet(f, S) \in Int /\ SumFunctionOnSet(g, S) \in Int
  BY SumInt
<1> QED  BY <1>1, <1>2

\* One term changes.
LEMMA SumChange ==
  ASSUME NEW f, NEW g, NEW S, IsFiniteSet(S), NEW x \in S,
         \A y \in S : f[y] \in Int /\ g[y] \in Int,
         \A y \in S \ {x} : f[y] = g[y]
  PROVE  SumFunctionOnSet(g, S) = SumFunctionOnSet(f, S) - f[x] + g[x]
<1> DEFINE R == S \ {x}
<1>1. IsFiniteSet(R)
  BY FS_Subset
<1>2. SumFunctionOnSet(f, R) = SumFunctionOnSet(g, R)
  BY <1>1, SumSame
<1>3. /\ SumFunctionOnSet(f, S) = f[x] + SumFunctionOnSet(f, R)
      /\ SumFunctionOnSet(g, S) = g[x] + SumFunctionOnSet(g, R)
  BY SumOut
<1>4. SumFunctionOnSet(f, R) \in Int /\ f[x] \in Int /\ g[x] \in Int
  BY <1>1, SumInt
<1> QED  BY <1>2, <1>3, <1>4

\* A sum is the sum of a part and of the rest.
LEMMA SumSplit ==
  ASSUME NEW f, NEW S, IsFiniteSet(S), \A x \in S : f[x] \in Int, NEW T \in SUBSET S
  PROVE  SumFunctionOnSet(f, S) = SumFunctionOnSet(f, T) + SumFunctionOnSet(f, S \ T)
<1> DEFINE Sum(s) == SumFunctionOnSet(f, s)
           Splits(s) == Sum(S) = Sum(s) + Sum(S \ s)
           G == {s \in SUBSET S : Splits(s)}
<1>1. \A t \in SUBSET S : IsFiniteSet(t) /\ Sum(t) \in Int
  BY FS_Subset, SumInt
<1>2. {} \in G
  <2>1. Sum({}) = 0 /\ S \ {} = S
    BY SumEmpty
  <2> HIDE DEF Sum
  <2> QED  BY <2>1, <1>1
<1>3. ASSUME NEW s \in SUBSET S, s # {}, \A x \in s : s \ {x} \in G PROVE s \in G
  <2>1. PICK x \in s : Splits(s \ {x})
    BY <1>3
  <2> DEFINE t == s \ {x}
  <2>2. Sum(s) = f[x] + Sum(t)
    BY <1>1, SumOut
  <2>3. Sum(S \ t) = f[x] + Sum(S \ s)
    <3>1. (S \ t) \ {x} = S \ s /\ S \ t \in SUBSET S /\ x \in S \ t
      OBVIOUS
    <3>2. IsFiniteSet(S \ t) /\ \A y \in S \ t : f[y] \in Int
      BY <1>1
    <3> HIDE DEF t
    <3> QED  BY <3>1, <3>2, SumOut
  <2>4. Sum(s) \in Int /\ Sum(t) \in Int /\ Sum(S \ s) \in Int /\ f[x] \in Int
    BY <1>1
  <2>5. Splits(s)
    <3> HIDE DEF Sum
    <3> QED  BY <2>1, <2>2, <2>3, <2>4
  <2> HIDE DEF Splits
  <2> QED  BY <2>5
<1>4. SUBSET S \subseteq G
  <2> HIDE DEF G
  <2> QED  BY <1>2, <1>3, Induction
<1> QED  BY <1>4

\* A sum of nothing is nothing.
LEMMA SumZero ==
  ASSUME NEW f, NEW S, IsFiniteSet(S), \A x \in S : f[x] = 0
  PROVE  SumFunctionOnSet(f, S) = 0
<1> DEFINE G == {s \in SUBSET S : SumFunctionOnSet(f, s) = 0}
<1>1. {} \in G
  BY SumEmpty
<1>2. ASSUME NEW s \in SUBSET S, s # {}, \A x \in s : s \ {x} \in G PROVE s \in G
  <2>1. Pick(s) \in s /\ IsFiniteSet(s)
    BY <1>2, PickIn, FS_Subset
  <2>2. SumFunctionOnSet(f, s) = f[Pick(s)] + SumFunctionOnSet(f, s \ {Pick(s)})
    BY <1>2, <2>1, SumPick
  <2> QED  BY <1>2, <2>1, <2>2
<1>3. SUBSET S \subseteq G
  <2> HIDE DEF G
  <2> QED  BY <1>1, <1>2, Induction
<1> QED  BY <1>3
=============================================================================
