---------------------------- MODULE Reads_proofs ----------------------------
(***************************************************************************)
(* What is read from the exchange and what the tools make of it: the       *)
(* client's requests and its cache (UpstreamClient), windows read in pages *)
(* (Paging), the whale flow alerts computed from several accounts at once  *)
(* (WhaleFlow), and the answers worked out from data alone, one section    *)
(* for each algorithm (AnalyticTools).  Sums over finite sets, which most  *)
(* of these are built on, come first: the library's fold has no theorems,  *)
(* so what it computes is proved from its definition, by induction on a    *)
(* set of the numbers a fact holds of.                                     *)
(***************************************************************************)
EXTENDS WhaleFlow, Paging, UpstreamClient, AnalyticTools, FiniteSetTheorems,
        SequenceTheorems, WellFoundedInduction, TLAPS

\* A set of numbers that is not empty has a least one.
LEMMA LeastOf ==
  ASSUME NEW T \in SUBSET Nat, T # {}
  PROVE  \E n \in T : \A m \in T : n <= m
<1> DEFINE R == {ss \in Nat \X Nat : ss[1] < ss[2]}
<1>1. IsWellFoundedOn(R, Nat)
  BY NatLessThanWellFounded DEF OpToRel
<1>2. PICK n \in T : \A m \in T : <<m, n>> \notin R
  <2> HIDE DEF R
  <2> QED
    BY <1>1, WFMin
<1>3. ASSUME NEW m \in T, m < n PROVE FALSE
  <2>1. <<m, n>> \in Nat \X Nat /\ <<m, n>>[1] = m /\ <<m, n>>[2] = n
    OBVIOUS
  <2> QED
    BY <1>2, <1>3, <2>1
<1> QED
  BY <1>3

LEMMA Induction ==
  ASSUME NEW T, 0 \in T, \A n \in Nat : n \in T => n + 1 \in T
  PROVE  Nat \subseteq T
<1> DEFINE R == {ss \in Nat \X Nat : ss[1] < ss[2]}
           Bad == Nat \ T
<1>1. IsWellFoundedOn(R, Nat)
  BY NatLessThanWellFounded DEF OpToRel
<1> SUFFICES ASSUME Bad # {} PROVE FALSE
  OBVIOUS
<1>2. PICK n \in Bad : \A m \in Bad : <<m, n>> \notin R
  <2>1. Bad \in SUBSET Nat
    OBVIOUS
  <2> HIDE DEF R, Bad
  <2> QED
    BY <1>1, <2>1, WFMin
<1>3. n \in Nat /\ n \notin T /\ n # 0
  BY <1>2
<1>4. n - 1 \in Nat /\ n - 1 \notin T
  <2>1. n - 1 \in Nat /\ (n - 1) + 1 = n
    BY <1>3
  <2> QED
    BY <1>3, <2>1
<1>5. <<n - 1, n>> \in R
  <2>1. <<n - 1, n>> \in Nat \X Nat /\ <<n - 1, n>>[1] = n - 1 /\ <<n - 1, n>>[2] = n
    BY <1>3, <1>4
  <2> QED
    BY <1>3, <2>1
<1> QED
  BY <1>2, <1>4, <1>5

Sum(f, S) == MapThenSumSet(LAMBDA x : f[x], S)

member(S) == CHOOSE x \in S : TRUE

\* What the fold computes: the sum of a set from the sum of all but one.
Summed(f, g, D) ==
    g = [s \in D |-> IF s = {} THEN 0
                     ELSE f[member(s)] + g[s \ {member(s)}]]

LEMMA SumIs == ASSUME NEW f, NEW S PROVE Sum(f, S) = (CHOOSE g : Summed(f, g, SUBSET S))[S]
BY DEF Sum, Summed, member, MapThenSumSet, MapThenFoldSet

\* The subsets of S with at most n members.
Upto(S, n) == {s \in SUBSET S : Cardinality(s) <= n}

LEMMA Smaller ==
  ASSUME NEW S, IsFiniteSet(S), NEW x \in S
  PROVE  /\ IsFiniteSet(S \ {x}) /\ Cardinality(S) \in Nat
         /\ Cardinality(S \ {x}) = Cardinality(S) - 1
BY FS_RemoveElement, FS_CardinalityType

LEMMA Chosen == ASSUME NEW S, S # {} PROVE member(S) \in S
BY DEF member

LEMMA SumExists ==
  ASSUME NEW f, NEW S, IsFiniteSet(S)
  PROVE  \E g : Summed(f, g, SUBSET S)
<1> DEFINE T == {n \in Nat : \E g : Summed(f, g, Upto(S, n))}
<1>1. 0 \in T
  <2> DEFINE g == [s \in Upto(S, 0) |->
                     IF s = {} THEN 0
                     ELSE f[member(s)] + 0]
  <2>1. \A s \in Upto(S, 0) : s = {}
    <3> SUFFICES ASSUME NEW s \in SUBSET S, Cardinality(s) <= 0 PROVE s = {}
      BY DEF Upto
    <3>1. IsFiniteSet(s)
      BY FS_Subset
    <3> QED
      BY <3>1, FS_CardinalityType, FS_EmptySet
  <2>2. g = [s \in Upto(S, 0) |-> IF s = {} THEN 0
                     ELSE f[member(s)] + g[s \ {member(s)}]]
    BY <2>1
  <2> QED
    BY <2>2 DEF Summed
<1>2. \A n \in Nat : n \in T => n + 1 \in T
  <2> SUFFICES ASSUME NEW n \in Nat, n \in T PROVE n + 1 \in T
    OBVIOUS
  <2>1. PICK g : Summed(f, g, Upto(S, n))
    OBVIOUS
  <2> DEFINE h == [s \in Upto(S, n + 1) |->
                     IF s = {} THEN 0
                     ELSE f[member(s)] + g[s \ {member(s)}]]
  <2>2. \A s \in Upto(S, n + 1) : s # {} => s \ {member(s)} \in Upto(S, n)
    <3> SUFFICES ASSUME NEW s \in SUBSET S, Cardinality(s) <= n + 1, s # {}
                 PROVE  s \ {member(s)} \in Upto(S, n)
      BY DEF Upto
    <3> DEFINE x == member(s)
    <3>1. x \in s /\ IsFiniteSet(s)
      BY FS_Subset, Chosen
    <3> HIDE DEF x
    <3>2. Cardinality(s \ {x}) = Cardinality(s) - 1 /\ Cardinality(s) \in Nat
      BY <3>1, Smaller
    <3> QED
      BY <3>2 DEF Upto, x
  <2>3. \A s \in Upto(S, n) : h[s] = g[s]
    <3> SUFFICES ASSUME NEW s \in Upto(S, n) PROVE h[s] = g[s]
      OBVIOUS
    <3>1. s \in Upto(S, n + 1)
      <4>1. Cardinality(s) \in Nat /\ Cardinality(s) <= n
        BY FS_Subset, FS_CardinalityType DEF Upto
      <4> QED
        BY <4>1 DEF Upto
    <3> QED
      BY <2>1, <3>1 DEF Summed
  <2>4. h = [s \in Upto(S, n + 1) |-> IF s = {} THEN 0
                     ELSE f[member(s)] + h[s \ {member(s)}]]
    BY <2>2, <2>3
  <2> HIDE DEF h
  <2>5. Summed(f, h, Upto(S, n + 1))
    BY <2>4 DEF Summed
  <2> QED
    BY <2>5
<1> HIDE DEF T
<1>3. Cardinality(S) \in T
  BY <1>1, <1>2, Induction, FS_CardinalityType
<1>4. Upto(S, Cardinality(S)) = SUBSET S
  <2> SUFFICES ASSUME NEW s \in SUBSET S PROVE Cardinality(s) <= Cardinality(S)
    BY DEF Upto
  <2> QED
    BY FS_Subset
<1> QED
  BY <1>3, <1>4 DEF T

\* Two folds agree on what both are about.
LEMMA SumUnique ==
  ASSUME NEW f, NEW S, IsFiniteSet(S), NEW R \in SUBSET S, NEW g, NEW h,
         Summed(f, g, SUBSET S), Summed(f, h, SUBSET R)
  PROVE  g[R] = h[R]
<1> DEFINE T == {n \in Nat : \A s \in SUBSET R : Cardinality(s) = n => g[s] = h[s]}
<1>1. ASSUME NEW s \in SUBSET R
      PROVE  /\ IsFiniteSet(s) /\ Cardinality(s) \in Nat
             /\ g[s] = IF s = {} THEN 0
                       ELSE f[member(s)] + g[s \ {member(s)}]
             /\ h[s] = IF s = {} THEN 0
                       ELSE f[member(s)] + h[s \ {member(s)}]
  <2>1. s \in SUBSET S
    OBVIOUS
  <2>2. IsFiniteSet(s) /\ Cardinality(s) \in Nat
    BY <2>1, FS_Subset, FS_CardinalityType
  <2> QED
    BY <2>1, <2>2 DEF Summed
<1>2. 0 \in T
  <2> SUFFICES ASSUME NEW s \in SUBSET R, Cardinality(s) = 0 PROVE g[s] = h[s]
    OBVIOUS
  <2>1. s = {}
    BY <1>1, FS_EmptySet
  <2> QED
    BY <1>1, <2>1
<1>3. \A n \in Nat : n \in T => n + 1 \in T
  <2> SUFFICES ASSUME NEW n \in Nat, n \in T,
                      NEW s \in SUBSET R, Cardinality(s) = n + 1
               PROVE  g[s] = h[s]
    OBVIOUS
  <2> DEFINE x == member(s)
  <2>1. CASE s = {}
    BY <1>1, <2>1
  <2>2. CASE s # {}
    <3>1. x \in s /\ IsFiniteSet(s)
      BY <1>1, <2>2, Chosen
    <3>2. g[s] = f[x] + g[s \ {x}] /\ h[s] = f[x] + h[s \ {x}]
      BY <1>1, <2>2
    <3> HIDE DEF x
    <3>3. Cardinality(s \ {x}) = n /\ s \ {x} \in SUBSET R
      BY <3>1, Smaller
    <3>4. g[s \ {x}] = h[s \ {x}]
      BY <3>3
    <3> QED
      BY <3>2, <3>4
  <2> QED
    BY <2>1, <2>2
<1>4. Cardinality(R) \in T
  <2> HIDE DEF T
  <2> QED
    BY <1>1, <1>2, <1>3, Induction
<1> QED
  BY <1>4

LEMMA SumOfNone == ASSUME NEW f PROVE Sum(f, {}) = 0
<1>1. PICK g : Summed(f, g, SUBSET {})
  BY SumExists, FS_EmptySet
<1>2. Summed(f, CHOOSE h : Summed(f, h, SUBSET {}), SUBSET {})
  BY <1>1
<1> HIDE DEF Summed
<1>3. PICK h : h = CHOOSE k : Summed(f, k, SUBSET {})
  OBVIOUS
<1>4. h[{}] = 0
  BY <1>2, <1>3 DEF Summed
<1> QED
  BY <1>3, <1>4, SumIs

LEMMA SumPick ==
  ASSUME NEW f, NEW S, IsFiniteSet(S), S # {}
  PROVE  member(S) \in S /\ Sum(f, S) = f[member(S)] + Sum(f, S \ {member(S)})
<1>0. PICK x : x = member(S)
  OBVIOUS
<1>1. x \in S
  BY <1>0, Chosen
<1>2. PICK g : Summed(f, g, SUBSET S) /\ g = CHOOSE h : Summed(f, h, SUBSET S)
  BY SumExists
<1>3. PICK R \in SUBSET S : R = S \ {x}
  OBVIOUS
<1>4. IsFiniteSet(R)
  BY <1>3, FS_Subset
<1>5. PICK k : Summed(f, k, SUBSET R) /\ k = CHOOSE h : Summed(f, h, SUBSET R)
  BY <1>4, SumExists
<1>6. g[S] = f[x] + g[R]
  BY <1>0, <1>2, <1>3 DEF Summed
<1>7. g[R] = k[R]
  BY <1>2, <1>5, SumUnique
<1>8. Sum(f, S) = g[S] /\ Sum(f, R) = k[R]
  BY <1>2, <1>5, SumIs
<1> QED
  BY <1>0, <1>1, <1>3, <1>6, <1>7, <1>8

\* A sum is among the numbers it is made of, if these can be added.
LEMMA SumIn ==
  ASSUME NEW S, IsFiniteSet(S), NEW N, 0 \in N, \A x, y \in N : x + y \in N,
         NEW f, \A x \in S : f[x] \in N
  PROVE  Sum(f, S) \in N
<1> DEFINE T == {n \in Nat : \A s \in SUBSET S : Cardinality(s) = n => Sum(f, s) \in N}
<1>1. ASSUME NEW s \in SUBSET S PROVE IsFiniteSet(s) /\ Cardinality(s) \in Nat
  BY FS_Subset, FS_CardinalityType
<1>2. 0 \in T
  <2> SUFFICES ASSUME NEW s \in SUBSET S, Cardinality(s) = 0 PROVE Sum(f, s) \in N
    OBVIOUS
  <2>1. s = {}
    BY <1>1, FS_EmptySet
  <2> QED
    BY <2>1, SumOfNone
<1>3. \A n \in Nat : n \in T => n + 1 \in T
  <2> SUFFICES ASSUME NEW n \in Nat, n \in T, NEW s \in SUBSET S, Cardinality(s) = n + 1
               PROVE  Sum(f, s) \in N
    OBVIOUS
  <2>1. s # {}
    BY FS_EmptySet
  <2>2. PICK x \in s : Sum(f, s) = f[x] + Sum(f, s \ {x})
    BY <1>1, <2>1, SumPick
  <2>3. Cardinality(s \ {x}) = n /\ s \ {x} \in SUBSET S
    BY <1>1, Smaller
  <2>4. Sum(f, s \ {x}) \in N
    BY <2>3
  <2> QED
    BY <2>2, <2>4
<1> HIDE DEF T
<1>4. Cardinality(S) \in T
  BY <1>1, <1>2, <1>3, Induction
<1> QED
  BY <1>4 DEF T

LEMMA SumTyped ==
  ASSUME NEW S, IsFiniteSet(S), NEW f, \A x \in S : f[x] \in Int
  PROVE  Sum(f, S) \in Int
<1>1. 0 \in Int /\ \A x, y \in Int : x + y \in Int
  OBVIOUS
<1> QED
  BY <1>1, SumIn

LEMMA SumNatural ==
  ASSUME NEW S, IsFiniteSet(S), NEW f, \A x \in S : f[x] \in Nat
  PROVE  Sum(f, S) \in Nat
<1>1. 0 \in Nat /\ \A x, y \in Nat : x + y \in Nat
  OBVIOUS
<1> QED
  BY <1>1, SumIn

\* A sum depends on the values in its set only.
LEMMA SumSame ==
  ASSUME NEW S, IsFiniteSet(S), NEW f, NEW g, \A x \in S : f[x] = g[x] /\ f[x] \in Int
  PROVE  Sum(f, S) = Sum(g, S)
<1> DEFINE T == {n \in Nat : \A s \in SUBSET S : Cardinality(s) = n => Sum(f, s) = Sum(g, s)}
<1>1. ASSUME NEW s \in SUBSET S PROVE IsFiniteSet(s) /\ Cardinality(s) \in Nat
  BY FS_Subset, FS_CardinalityType
<1>2. 0 \in T
  <2> SUFFICES ASSUME NEW s \in SUBSET S, Cardinality(s) = 0 PROVE Sum(f, s) = Sum(g, s)
    OBVIOUS
  <2>1. s = {}
    BY <1>1, FS_EmptySet
  <2> QED
    BY <2>1, SumOfNone
<1>3. \A n \in Nat : n \in T => n + 1 \in T
  <2> SUFFICES ASSUME NEW n \in Nat, n \in T, NEW s \in SUBSET S, Cardinality(s) = n + 1
               PROVE  Sum(f, s) = Sum(g, s)
    OBVIOUS
  <2>1. s # {}
    BY FS_EmptySet
  <2>2. PICK x : x = member(s)
    OBVIOUS
  <2>3. /\ x \in s
        /\ Sum(f, s) = f[x] + Sum(f, s \ {x})
        /\ Sum(g, s) = g[x] + Sum(g, s \ {x})
    <3>1. IsFiniteSet(s)
      BY <1>1
    <3>2. x \in s /\ Sum(f, s) = f[x] + Sum(f, s \ {x})
      BY <2>1, <2>2, <3>1, SumPick
    <3>3. Sum(g, s) = g[x] + Sum(g, s \ {x})
      BY <2>1, <2>2, <3>1, SumPick
    <3> QED
      BY <3>2, <3>3
  <2>4. Cardinality(s \ {x}) = n /\ s \ {x} \in SUBSET S
    BY <1>1, <2>3, Smaller
  <2>5. Sum(f, s \ {x}) = Sum(g, s \ {x})
    BY <2>4
  <2> QED
    BY <2>3, <2>5
<1> HIDE DEF T
<1>4. Cardinality(S) \in T
  BY <1>1, <1>2, <1>3, Induction
<1> QED
  BY <1>4 DEF T

\* Whichever member is taken out.
LEMMA SumWithout ==
  ASSUME NEW S, IsFiniteSet(S), NEW f, \A x \in S : f[x] \in Int, NEW x \in S
  PROVE  Sum(f, S) = f[x] + Sum(f, S \ {x})
<1> DEFINE T == {n \in Nat : \A s \in SUBSET S : Cardinality(s) = n =>
                     \A y \in s : Sum(f, s) = f[y] + Sum(f, s \ {y})}
<1>1. ASSUME NEW s \in SUBSET S PROVE IsFiniteSet(s) /\ Cardinality(s) \in Nat
  BY FS_Subset, FS_CardinalityType
<1>2. 0 \in T
  <2> SUFFICES ASSUME NEW s \in SUBSET S, Cardinality(s) = 0, NEW y \in s PROVE FALSE
    OBVIOUS
  <2> QED
    BY <1>1, FS_EmptySet
<1>3. \A n \in Nat : n \in T => n + 1 \in T
  <2> SUFFICES ASSUME NEW n \in Nat, n \in T, NEW s \in SUBSET S, Cardinality(s) = n + 1,
                      s # {}
               PROVE  \A y \in s : Sum(f, s) = f[y] + Sum(f, s \ {y})
    OBVIOUS
  <2> TAKE y \in s
  <2>1. PICK c \in s : Sum(f, s) = f[c] + Sum(f, s \ {c})
    <3>1. IsFiniteSet(s)
      BY <1>1
    <3>2. member(s) \in s /\ Sum(f, s) = f[member(s)] + Sum(f, s \ {member(s)})
      BY <3>1, SumPick
    <3> QED
      BY <3>2
  <2>2. CASE c = y
    BY <2>1, <2>2
  <2>3. CASE c # y
    <3>1. /\ Cardinality(s \ {c}) = n /\ s \ {c} \in SUBSET S /\ y \in s \ {c}
          /\ Cardinality(s \ {y}) = n /\ s \ {y} \in SUBSET S /\ c \in s \ {y}
      BY <1>1, <2>3, Smaller
    <3>2. /\ Sum(f, s \ {c}) = f[y] + Sum(f, (s \ {c}) \ {y})
          /\ Sum(f, s \ {y}) = f[c] + Sum(f, (s \ {y}) \ {c})
      BY <3>1
    <3>3. (s \ {c}) \ {y} = (s \ {y}) \ {c} /\ (s \ {c}) \ {y} \in SUBSET S
      OBVIOUS
    <3>4. Sum(f, (s \ {c}) \ {y}) \in Int /\ f[c] \in Int /\ f[y] \in Int
      <4>1. IsFiniteSet((s \ {c}) \ {y}) /\ \A z \in (s \ {c}) \ {y} : f[z] \in Int
        BY <1>1, <3>3
      <4> QED
        BY <4>1, SumTyped
    <3>5. PICK u \in Int, v \in Int, w \in Int :
            u = f[c] /\ v = f[y] /\ w = Sum(f, (s \ {c}) \ {y})
      BY <3>4
    <3>6. Sum(f, s) = u + (v + w) /\ f[y] + Sum(f, s \ {y}) = v + (u + w)
      BY <2>1, <3>2, <3>3, <3>5, Zenon
    <3> QED
      BY <3>6
  <2> QED
    BY <2>2, <2>3
<1> HIDE DEF T
<1>4. Cardinality(S) \in T
  BY <1>1, <1>2, <1>3, Induction
<1> QED
  BY <1>4 DEF T

\* Sums over sets that share nothing add up.
LEMMA SumUnion ==
  ASSUME NEW A, NEW B, IsFiniteSet(A \cup B), A \cap B = {},
         NEW f, \A x \in A \cup B : f[x] \in Int
  PROVE  Sum(f, A \cup B) = Sum(f, A) + Sum(f, B)
<1> DEFINE T == {n \in Nat : \A s \in SUBSET B : Cardinality(s) = n =>
                     Sum(f, A \cup s) = Sum(f, A) + Sum(f, s)}
<1>1. ASSUME NEW s \in SUBSET (A \cup B)
      PROVE  IsFiniteSet(s) /\ Cardinality(s) \in Nat /\ Sum(f, s) \in Int
  BY FS_Subset, FS_CardinalityType, SumTyped
<1>2. 0 \in T
  <2> SUFFICES ASSUME NEW s \in SUBSET B, Cardinality(s) = 0
               PROVE  Sum(f, A \cup s) = Sum(f, A) + Sum(f, s)
    OBVIOUS
  <2>1. s = {} /\ Sum(f, A) \in Int
    BY <1>1, FS_EmptySet
  <2>2. A \cup s = A
    BY <2>1
  <2> QED
    BY <2>1, <2>2, SumOfNone
<1>3. \A n \in Nat : n \in T => n + 1 \in T
  <2> SUFFICES ASSUME NEW n \in Nat, n \in T, NEW s \in SUBSET B, Cardinality(s) = n + 1
               PROVE  Sum(f, A \cup s) = Sum(f, A) + Sum(f, s)
    OBVIOUS
  <2>1. s # {}
    BY FS_EmptySet
  <2>2. PICK x \in s : TRUE
    BY <2>1
  <2> DEFINE r == s \ {x}
  <2>3. Cardinality(r) = n /\ r \in SUBSET B
    BY <1>1, <2>2, Smaller
  <2>4. Sum(f, A \cup r) = Sum(f, A) + Sum(f, r)
    BY <2>3
  <2>5. Sum(f, A \cup s) = f[x] + Sum(f, A \cup r)
    <3>1. (A \cup s) \ {x} = A \cup r /\ A \cup s \in SUBSET (A \cup B) /\ x \in A \cup s
      BY <2>2
    <3> QED
      BY <1>1, <3>1, SumWithout
  <2>6. Sum(f, s) = f[x] + Sum(f, r)
    BY <1>1, <2>2, SumWithout
  <2>7. Sum(f, A) \in Int /\ Sum(f, r) \in Int /\ f[x] \in Int
    BY <1>1, <2>2, <2>3
  <2> QED
    BY <2>4, <2>5, <2>6, <2>7
<1> HIDE DEF T
<1>4. Cardinality(B) \in T
  BY <1>1, <1>2, <1>3, Induction
<1> QED
  BY <1>4 DEF T

Combined(f, c, g, h, S) == Sum(f, S) = c * Sum(g, S) - Sum(h, S)

\* A sum taken some number of times, less another sum.
LEMMA SumCombined ==
  ASSUME NEW S, IsFiniteSet(S), NEW c \in Int, NEW f, NEW g, NEW h,
         \A x \in S : g[x] \in Int /\ h[x] \in Int /\ f[x] = c * g[x] - h[x]
  PROVE  Combined(f, c, g, h, S)
<1> DEFINE Holds(R) == Sum(f, R) = c * Sum(g, R) - Sum(h, R)
           T == {n \in Nat : \A R \in SUBSET S : Cardinality(R) = n => Holds(R)}
<1>0. \A x \in S : f[x] \in Int
  OBVIOUS
<1>1. ASSUME NEW R \in SUBSET S
      PROVE  /\ IsFiniteSet(R) /\ Cardinality(R) \in Nat
             /\ Sum(f, R) \in Int /\ Sum(g, R) \in Int /\ Sum(h, R) \in Int
  <2>1. IsFiniteSet(R) /\ Cardinality(R) \in Nat
    BY FS_Subset, FS_CardinalityType
  <2>2. (\A x \in R : f[x] \in Int) /\ (\A x \in R : g[x] \in Int) /\ (\A x \in R : h[x] \in Int)
    BY <1>0
  <2>3. Sum(f, R) \in Int
    BY <2>1, <2>2, SumTyped
  <2>4. Sum(g, R) \in Int
    BY <2>1, <2>2, SumTyped
  <2>5. Sum(h, R) \in Int
    BY <2>1, <2>2, SumTyped
  <2> QED
    BY <2>1, <2>3, <2>4, <2>5
<1>2. 0 \in T
  <2> SUFFICES ASSUME NEW R \in SUBSET S, Cardinality(R) = 0 PROVE Holds(R)
    OBVIOUS
  <2>1. R = {}
    BY <1>1, FS_EmptySet
  <2>2. Sum(f, R) = 0 /\ Sum(g, R) = 0 /\ Sum(h, R) = 0
    BY <2>1, SumOfNone
  <2> QED
    BY <2>2
<1>3. \A n \in Nat : n \in T => n + 1 \in T
  <2> SUFFICES ASSUME NEW n \in Nat, n \in T, NEW R \in SUBSET S, Cardinality(R) = n + 1
               PROVE  Holds(R)
    OBVIOUS
  <2>0. IsFiniteSet(R) /\ Cardinality(R) # 0
    BY <1>1
  <2>1. PICK x \in R : TRUE
    BY <2>0, FS_EmptySet
  <2>2. PICK Q \in SUBSET S : Q = R \ {x}
    OBVIOUS
  <2>3. Cardinality(Q) = n
    <3>1. IsFiniteSet(R) /\ Cardinality(R) = n + 1
      BY <1>1
    <3>2. Cardinality(R \ {x}) = Cardinality(R) - 1
      BY <2>1, <3>1, Smaller
    <3> QED
      BY <2>2, <3>1, <3>2
  <2>4. Holds(Q)
    BY <2>3
  <2>5. /\ Sum(f, R) = f[x] + Sum(f, Q) /\ Sum(g, R) = g[x] + Sum(g, Q)
        /\ Sum(h, R) = h[x] + Sum(h, Q)
    <3>1. /\ IsFiniteSet(R)
          /\ (\A y \in R : f[y] \in Int) /\ (\A y \in R : g[y] \in Int) /\ (\A y \in R : h[y] \in Int)
      BY <1>0, <1>1
    <3>2. Sum(f, R) = f[x] + Sum(f, R \ {x})
      BY <2>1, <3>1, SumWithout
    <3>3. Sum(g, R) = g[x] + Sum(g, R \ {x})
      BY <2>1, <3>1, SumWithout
    <3>4. Sum(h, R) = h[x] + Sum(h, R \ {x})
      BY <2>1, <3>1, SumWithout
    <3> QED
      BY <2>2, <3>2, <3>3, <3>4
  <2>6. /\ g[x] \in Int /\ h[x] \in Int /\ f[x] = c * g[x] - h[x]
        /\ Sum(g, Q) \in Int /\ Sum(h, Q) \in Int
    BY <1>1, <2>1
  <2>7. c * (g[x] + Sum(g, Q)) = c * g[x] + c * Sum(g, Q)
    BY <2>6
  <2> QED
    BY <2>4, <2>5, <2>6, <2>7
<1> HIDE DEF T
<1>4. Cardinality(S) \in Nat /\ Cardinality(S) \in T
  BY <1>1, <1>2, <1>3, Induction
<1> QED
  BY <1>4 DEF T, Combined
------------------------------------------------------------------------------
(* Paging. *)

\* The first PageLimit members of a set of numbers.
firsts(W) == {i \in W : Cardinality({j \in W : j < i}) < PageLimit}

\* A page has no gap, and one that is short is all there is.
LEMMA PageHasNoGap ==
  ASSUME NEW W \in SUBSET Nat, IsFiniteSet(W)
  PROVE  /\ firsts(W) \in SUBSET W /\ IsFiniteSet(firsts(W)) /\ Cardinality(firsts(W)) \in Nat
         /\ \A i \in firsts(W), j \in W : j < i => j \in firsts(W)
         /\ Cardinality(firsts(W)) < PageLimit => firsts(W) = W
<1> DEFINE beneath(i) == {j \in W : j < i}
<1>1. firsts(W) \in SUBSET W /\ IsFiniteSet(firsts(W)) /\ Cardinality(firsts(W)) \in Nat
  <2>1. firsts(W) \in SUBSET W
    BY DEF firsts
  <2> QED
    BY <2>1, FS_Subset, FS_CardinalityType
<1>2. PageLimit \in Nat
  BY PagingAssumption
<1>3. \A i \in W : beneath(i) \in SUBSET W /\ IsFiniteSet(beneath(i)) /\ Cardinality(beneath(i)) \in Nat
  <2> SUFFICES ASSUME NEW i \in W
               PROVE  beneath(i) \in SUBSET W /\ IsFiniteSet(beneath(i)) /\ Cardinality(beneath(i)) \in Nat
    OBVIOUS
  <2>1. beneath(i) \in SUBSET W
    OBVIOUS
  <2> HIDE DEF beneath
  <2> QED
    BY <2>1, FS_Subset, FS_CardinalityType
<1>4. \A i \in W : i \in firsts(W) <=> Cardinality(beneath(i)) < PageLimit
  BY DEF firsts
<1>5. ASSUME NEW i \in firsts(W), NEW j \in W, j < i PROVE j \in firsts(W)
  <2>1. i \in W /\ i \in Nat /\ j \in Nat
    BY <1>1
  <2>2. beneath(j) \in SUBSET beneath(i)
    <3> SUFFICES ASSUME NEW x \in W, x < j PROVE x < i
      OBVIOUS
    <3>1. x \in Nat
      OBVIOUS
    <3> QED
      BY <1>5, <2>1, <3>1
  <2> HIDE DEF beneath
  <2>3. Cardinality(beneath(j)) <= Cardinality(beneath(i))
    BY <1>3, <2>1, <2>2, FS_Subset
  <2> QED
    BY <1>2, <1>3, <1>4, <2>1, <2>3
<1>6. ASSUME Cardinality(firsts(W)) < PageLimit, firsts(W) # W PROVE FALSE
  <2> DEFINE rest == W \ firsts(W)
  <2>1. rest \in SUBSET Nat /\ rest # {}
    BY <1>1, <1>6
  <2>2. PICK m \in rest : \A n \in rest : m <= n
    <3> HIDE DEF rest
    <3> QED
      BY <2>1, LeastOf
  <2>3. beneath(m) \in SUBSET firsts(W)
    BY <2>1, <2>2
  <2> HIDE DEF beneath
  <2>4. Cardinality(beneath(m)) <= Cardinality(firsts(W))
    BY <1>1, <2>3, FS_Subset
  <2> QED
    BY <1>1, <1>2, <1>3, <1>4, <1>6, <2>2, <2>4
<1> QED
  BY <1>1, <1>5, <1>6

InOrder ==
    \A i, j \in DOMAIN entries : i < j => follows(request.kind, entries[i], entries[j])

\* The first half of PagesComplete, and the second.
NoGap ==
    /\ Cardinality(rows) = count /\ rows \subseteq window(request.start)
    /\ \A i \in rows, j \in window(request.start) : j < i => j \in rows

AllRead ==
    done => \/ window(request.start) \cap 1 .. request.known \subseteq rows
            \/ page = MaxPages
            \/ request.kind = "fills" /\ crowded

\* What lies before the cursor has been collected, what lies after it has not,
\* and nothing will be recorded before it any more.
ReadSoFar ==
    ~done =>
        /\ request.start <= cursor
        /\ \A i \in window(request.start) : entries[i] < cursor => i \in rows
        /\ \A i \in rows : follows(request.kind, entries[i], cursor)
        /\ \/ cursor = request.start
           \/ \E m \in DOMAIN entries :
                 cursor <= IF request.kind = "funding" THEN entries[m] + 1 ELSE entries[m]

PagingInv == PagingTypeOK /\ InOrder /\ NoGap /\ AllRead /\ ReadSoFar

LEMMA WindowFinite ==
  ASSUME PagingTypeOK, NEW from
  PROVE  /\ window(from) \in SUBSET (1 .. Len(entries)) /\ IsFiniteSet(window(from))
         /\ DOMAIN entries = 1 .. Len(entries) /\ Len(entries) \in Nat
         /\ \A i \in DOMAIN entries : i \in Nat /\ entries[i] \in Nat /\ entries[i] \in Times
<1>1. /\ DOMAIN entries = 1 .. Len(entries) /\ Len(entries) \in Nat
      /\ \A i \in DOMAIN entries : i \in Nat /\ entries[i] \in Nat /\ entries[i] \in Times
  <2>1. entries \in Seq(Times) /\ Times \subseteq Nat
    BY PagingAssumption DEF PagingTypeOK
  <2>2. DOMAIN entries = 1 .. Len(entries) /\ Len(entries) \in Nat
    BY <2>1
  <2>3. \A i \in DOMAIN entries : entries[i] \in Times
    BY <2>1
  <2>4. \A i \in DOMAIN entries : i \in Nat
    BY <2>2
  <2>5. \A i \in DOMAIN entries : entries[i] \in Nat
    BY <2>1, <2>3
  <2> QED
    BY <2>2, <2>3, <2>4, <2>5
<1>2. window(from) \in SUBSET (1 .. Len(entries)) /\ IsFiniteSet(1 .. Len(entries))
  BY <1>1, FS_Interval DEF window
<1> QED
  BY <1>1, <1>2, FS_Subset

LEMMA PagingStarts == ASSUME PagingInit PROVE PagingInv
<1>1. request \in Request /\ request.known \in 0 .. MaxRecorded /\ request.start \in Nat
  BY PagingAssumption DEF PagingInit, Request
<1>2. entries \in Seq(Times) /\ Len(entries) = request.known /\ MaxRecorded \in Nat
  BY <1>1, PagingAssumption DEF PagingInit
<1>3. PagingTypeOK
  <2>1. rows = {} /\ count = 0 /\ cursor = request.start /\ page = 0 /\ done = FALSE
    BY DEF PagingInit
  <2>2. Len(entries) <= MaxRecorded /\ page \in 0 .. MaxPages
    BY <1>1, <1>2, <2>1, PagingAssumption
  <2> QED
    BY <1>1, <1>2, <2>1, <2>2 DEF PagingTypeOK
<1>4. InOrder
  BY DEF PagingInit, InOrder
<1>5. NoGap /\ AllRead
  BY FS_EmptySet DEF PagingInit, NoGap, AllRead
<1>6. ReadSoFar
  <2>1. \A i \in window(request.start) : entries[i] >= request.start /\ entries[i] \in Nat
    BY <1>3, WindowFinite DEF window
  <2> QED
    BY <1>1, <2>1 DEF PagingInit, ReadSoFar
<1> QED
  BY <1>3, <1>4, <1>5, <1>6 DEF PagingInv

\* A new entry comes after all others, and after what has been read.
LEMMA RecordKeeps ==
  ASSUME PagingInv, NEW t \in Times, record(t)
  PROVE  PagingInv'
<1> DEFINE n == Len(entries)
<1>1. /\ DOMAIN entries = 1 .. n /\ n \in Nat /\ t \in Nat
      /\ \A i \in 1 .. n : entries[i] \in Nat
  BY WindowFinite, PagingAssumption DEF PagingInv
<1>2. UNCHANGED <<request, rows, count, cursor, page, done>> /\ ~done
  BY DEF record
<1>3. /\ entries' \in Seq(Times) /\ Len(entries') = n + 1 /\ DOMAIN entries' = 1 .. n + 1
      /\ entries'[n + 1] = t /\ \A i \in 1 .. n : entries'[i] = entries[i]
  BY <1>1 DEF record, PagingInv, PagingTypeOK
<1>4. request.start \in Nat /\ cursor \in Nat /\ request.kind \in Kinds
  BY PagingAssumption DEF PagingInv, PagingTypeOK, Request
<1>5. PagingTypeOK'
  <2>1. n < MaxRecorded /\ MaxRecorded \in Nat
    BY PagingAssumption DEF record
  <2> QED
    BY <1>1, <1>2, <1>3, <2>1 DEF PagingInv, PagingTypeOK
<1>6. \A i \in 1 .. n : follows(request.kind, entries[i], t)
  <2> SUFFICES ASSUME NEW i \in 1 .. n PROVE follows(request.kind, entries[i], t)
    OBVIOUS
  <2>1. Last(entries) = entries[n] /\ entries # <<>>
    BY <1>1 DEF Last
  <2>2. follows(request.kind, entries[n], t)
    BY <2>1 DEF record
  <2>3. i = n \/ follows(request.kind, entries[i], entries[n])
    <3> HIDE DEF n
    <3>1. i = n \/ i < n
      BY <1>1
    <3>2. i \in DOMAIN entries /\ n \in DOMAIN entries
      BY <1>1
    <3> QED
      BY <3>1, <3>2 DEF PagingInv, InOrder
  <2>4. PICK x \in Nat, y \in Nat : x = entries[i] /\ y = entries[n]
    <3> HIDE DEF n
    <3>1. n \in 1 .. n
      BY <1>1
    <3> QED
      BY <1>1, <3>1
  <2>5. follows(request.kind, y, t) /\ (x = y \/ follows(request.kind, x, y)) /\ t \in Nat
    BY <1>1, <2>2, <2>3, <2>4
  <2>6. follows(request.kind, x, t)
    BY <2>5 DEF follows
  <2> QED
    BY <2>4, <2>6
<1>7. InOrder'
  <2> SUFFICES ASSUME NEW i \in 1 .. n + 1, NEW j \in 1 .. n + 1, i < j
               PROVE  follows(request.kind, entries'[i], entries'[j])
    BY <1>2, <1>3 DEF InOrder
  <2>1. CASE j = n + 1
    BY <1>1, <1>3, <1>6, <2>1
  <2>2. CASE j # n + 1
    <3>1. i \in 1 .. n /\ j \in 1 .. n
      BY <1>1, <2>2
    <3>2. entries'[i] = entries[i] /\ entries'[j] = entries[j]
      BY <1>3, <3>1
    <3> QED
      BY <1>1, <3>1, <3>2 DEF PagingInv, InOrder
  <2> QED
    BY <2>1, <2>2
<1>8. /\ window(request.start) \in SUBSET window(request.start)'
      /\ \A i \in window(request.start)' :
            \/ i \in window(request.start)
            \/ /\ i = n + 1
               /\ t >= request.start
      /\ window(request.start) \in SUBSET (1 .. n)
  <2>1. window(request.start) \in SUBSET (1 .. n)
    BY <1>1 DEF window
  <2>2. \A i \in 1 .. n : i \in 1 .. n + 1 /\ entries'[i] = entries[i]
    BY <1>1, <1>3
  <2>3. \A i \in 1 .. n : i \in window(request.start)' <=> i \in window(request.start)
    BY <1>1, <1>2, <1>3, <2>2 DEF window
  <2>4. ASSUME NEW i \in window(request.start)', i \notin 1 .. n
        PROVE  i = n + 1 /\ t >= request.start
    <3>1. i \in 1 .. n + 1 /\ entries'[i] >= request.start
      BY <1>2, <1>3 DEF window
    <3>2. i = n + 1
      BY <1>1, <2>4, <3>1
    <3> QED
      BY <1>3, <3>1, <3>2
  <2>5. window(request.start) \in SUBSET window(request.start)'
    BY <2>1, <2>3
  <2> QED
    BY <2>1, <2>3, <2>4, <2>5
<1>9. NoGap'
  <2>1. \A i \in rows, j \in window(request.start)' : j < i => j \in rows
    <3> SUFFICES ASSUME NEW i \in rows, NEW j \in window(request.start)', j < i
                 PROVE  j \in rows
      OBVIOUS
    <3>1. i \in 1 .. n
      BY <1>8 DEF PagingInv, NoGap
    <3>2. j \in window(request.start)
      BY <1>1, <1>8, <3>1
    <3> QED
      BY <3>2 DEF PagingInv, NoGap
  <2> QED
    BY <1>2, <1>8, <2>1 DEF PagingInv, NoGap
<1>10. AllRead'
  BY <1>2 DEF AllRead
<1>11. cursor = request.start \/ t >= cursor
  <2>1. ASSUME NEW m \in 1 .. n,
               cursor <= IF request.kind = "funding" THEN entries[m] + 1 ELSE entries[m]
        PROVE  t >= cursor
    BY <1>1, <1>4, <1>6, <2>1 DEF follows
  <2> QED
    BY <1>1, <1>2, <2>1 DEF PagingInv, ReadSoFar
<1>12. ReadSoFar'
  <2>1. \A i \in window(request.start)' : entries'[i] < cursor => i \in rows
    <3> SUFFICES ASSUME NEW i \in window(request.start)', entries'[i] < cursor
                 PROVE  i \in rows
      OBVIOUS
    <3>1. i \in window(request.start)
      BY <1>1, <1>3, <1>4, <1>8, <1>11
    <3> QED
      BY <1>2, <1>3, <1>8, <3>1 DEF PagingInv, ReadSoFar
  <2>2. \A i \in rows : entries'[i] = entries[i]
    BY <1>3, <1>8 DEF PagingInv, NoGap
  <2>3. ASSUME cursor # request.start
        PROVE  \E m \in DOMAIN entries' :
                  cursor <= IF request.kind = "funding" THEN entries'[m] + 1 ELSE entries'[m]
    <3>1. PICK m \in 1 .. n :
            cursor <= IF request.kind = "funding" THEN entries[m] + 1 ELSE entries[m]
      BY <1>1, <1>2, <2>3 DEF PagingInv, ReadSoFar
    <3>2. m \in 1 .. n + 1 /\ entries'[m] = entries[m]
      BY <1>1, <1>3
    <3> QED
      BY <1>3, <3>1, <3>2
  <2> QED
    BY <1>2, <2>1, <2>2, <2>3 DEF PagingInv, ReadSoFar
<1> QED
  BY <1>5, <1>7, <1>9, <1>10, <1>12 DEF PagingInv

\* The last entry of a page is its latest.
LEMMA LatestOfPage ==
  ASSUME PagingTypeOK, InOrder, NEW batch \in SUBSET DOMAIN entries, batch # {}
  PROVE  \E m \in batch : /\ maxTime(batch) = entries[m]
                          /\ \A i \in batch : i <= m /\ entries[i] <= entries[m]
<1> DEFINE n == Len(entries)
           back == {n - i : i \in batch}
<1>1. /\ DOMAIN entries = 1 .. n /\ n \in Nat
      /\ \A i \in DOMAIN entries : i \in Nat /\ entries[i] \in Nat
  BY WindowFinite
<1>2. back \in SUBSET Nat /\ back # {}
  BY <1>1
<1>3. PICK b \in back : \A c \in back : b <= c
  <2> HIDE DEF back
  <2> QED
    BY <1>2, LeastOf
<1>4. PICK m \in batch : b = n - m
  OBVIOUS
<1>5. \A i \in batch : i <= m
  <2> SUFFICES ASSUME NEW i \in batch PROVE i <= m
    OBVIOUS
  <2>1. b <= n - i /\ i \in Nat /\ m \in Nat
    BY <1>1, <1>3
  <2> QED
    BY <1>1, <1>4, <2>1
<1>6. \A i \in batch : entries[i] <= entries[m]
  <2> SUFFICES ASSUME NEW i \in batch PROVE entries[i] <= entries[m]
    OBVIOUS
  <2>1. i = m \/ follows(request.kind, entries[i], entries[m])
    BY <1>1, <1>5 DEF InOrder
  <2> QED
    BY <1>1, <2>1 DEF follows
<1> DEFINE times == {entries[i] : i \in batch}
<1>7. entries[m] \in times /\ (\A t \in times : entries[m] >= t) /\ times \in SUBSET Nat
  BY <1>1, <1>6
<1>8. maxTime(batch) = Max(times)
  BY DEF maxTime
<1> HIDE DEF times
<1>9. Max(times) \in times /\ \A t \in times : Max(times) >= t
  BY <1>7 DEF Max
<1>10. Max(times) = entries[m]
  <2>1. Max(times) >= entries[m] /\ entries[m] >= Max(times)
    BY <1>7, <1>9
  <2>2. Max(times) \in Nat /\ entries[m] \in Nat
    BY <1>7, <1>9
  <2> QED
    BY <2>1, <2>2
<1> QED
  BY <1>5, <1>6, <1>8, <1>10

\* What a page adds to what has been read.
LEMMA PageAdds ==
  ASSUME PagingInv, ~done, NEW batch, batch = answerTo(cursor)
  PROVE  /\ batch \in SUBSET window(cursor) /\ Cardinality(batch) \in Nat
         /\ \A i \in window(cursor) : i \in window(request.start) /\ entries[i] >= cursor
         /\ \A i \in batch, j \in window(cursor) : j < i => j \in batch
         /\ rows \cup batch \in SUBSET window(request.start)
         /\ \A i \in rows \cup batch, j \in window(request.start) : j < i => j \in rows \cup batch
         /\ Cardinality(batch) < PageLimit => window(request.start) \in SUBSET (rows \cup batch)
         /\ Cardinality(rows \cup batch) = count + Cardinality(batch \ rows)
         /\ request.kind = "funding" => batch \ rows = batch
<1> DEFINE W == window(request.start)
           R == window(cursor)
<1>1. /\ R \in SUBSET Nat /\ IsFiniteSet(R) /\ W \in SUBSET Nat /\ IsFiniteSet(W)
      /\ R \in SUBSET DOMAIN entries /\ W \in SUBSET DOMAIN entries
      /\ \A i \in DOMAIN entries : i \in Nat /\ entries[i] \in Nat
  <2>1. DOMAIN entries \in SUBSET Nat
    BY WindowFinite DEF PagingInv
  <2> QED
    BY <2>1, WindowFinite DEF PagingInv
<1>2. batch = firsts(R)
  BY DEF answerTo, firsts
<1>3. /\ batch \in SUBSET R /\ IsFiniteSet(batch) /\ Cardinality(batch) \in Nat
      /\ \A i \in batch, j \in R : j < i => j \in batch
      /\ Cardinality(batch) < PageLimit => batch = R
  <2> HIDE DEF R
  <2> QED
    BY <1>1, <1>2, PageHasNoGap
<1>4. cursor \in Nat /\ request.start \in Nat /\ request.start <= cursor
  BY PagingAssumption DEF PagingInv, PagingTypeOK, Request, ReadSoFar
<1>5. \A i \in DOMAIN entries : i \in R <=> i \in W /\ entries[i] >= cursor
  <2> SUFFICES ASSUME NEW i \in DOMAIN entries PROVE i \in R <=> i \in W /\ entries[i] >= cursor
    OBVIOUS
  <2>1. entries[i] \in Nat
    BY <1>1
  <2>2. entries[i] >= cursor => entries[i] >= request.start
    BY <1>4, <2>1
  <2> QED
    BY <2>2 DEF window
<1>6. rows \in SUBSET W /\ IsFiniteSet(rows) /\ count = Cardinality(rows) /\ count \in Nat
  <2>1. rows \in SUBSET W /\ count = Cardinality(rows)
    BY DEF PagingInv, NoGap
  <2> HIDE DEF W
  <2> QED
    BY <1>1, <2>1, FS_Subset, FS_CardinalityType
<1>7. \A i \in W : i \in rows \/ i \in R
  <2> SUFFICES ASSUME NEW i \in W, i \notin rows PROVE i \in R
    OBVIOUS
  <2>1. ~(entries[i] < cursor)
    BY DEF PagingInv, ReadSoFar
  <2>2. entries[i] \in Nat /\ i \in DOMAIN entries
    BY <1>1
  <2>3. entries[i] >= cursor
    BY <1>4, <2>1, <2>2
  <2> QED
    BY <1>5, <2>2, <2>3
<1>8. \A i \in rows \cup batch, j \in W : j < i => j \in rows \cup batch
  <2> SUFFICES ASSUME NEW i \in rows \cup batch, NEW j \in W, j < i, j \notin rows
               PROVE  j \in batch
    OBVIOUS
  <2>1. i \in batch
    BY DEF PagingInv, NoGap
  <2>2. j \in R
    BY <1>7
  <2> QED
    BY <1>3, <2>1, <2>2
<1>9. Cardinality(rows \cup batch) = count + Cardinality(batch \ rows)
  <2> DEFINE new == batch \ rows
  <2>1. IsFiniteSet(new) /\ Cardinality(new) \in Nat
    BY <1>3, FS_Difference, FS_CardinalityType
  <2>2. rows \cup batch = rows \cup new /\ rows \cap new = {}
    OBVIOUS
  <2>3. Cardinality(rows \cup new) = Cardinality(rows) + Cardinality(new) - Cardinality(rows \cap new)
    BY <1>6, <2>1, FS_Union
  <2>4. Cardinality(rows \cap new) = 0
    BY <2>2, FS_EmptySet
  <2> HIDE DEF new
  <2>5. Cardinality(rows \cup new) = count + Cardinality(new)
    BY <1>6, <2>1, <2>3, <2>4
  <2> QED
    BY <2>2, <2>5 DEF new
<1>10. ASSUME request.kind = "funding" PROVE batch \ rows = batch
  <2> SUFFICES ASSUME NEW i \in batch, i \in rows PROVE FALSE
    OBVIOUS
  <2>1. entries[i] < cursor
    BY <1>10 DEF PagingInv, ReadSoFar, follows
  <2>2. entries[i] >= cursor /\ entries[i] \in Nat
    BY <1>1, <1>3, <1>5
  <2> QED
    BY <1>4, <2>1, <2>2
<1>11. Cardinality(batch) < PageLimit => W \in SUBSET (rows \cup batch)
  BY <1>3, <1>7
<1>12. rows \cup batch \in SUBSET W
  BY <1>1, <1>3, <1>5, <1>6
<1>13. \A i \in R : i \in W /\ entries[i] >= cursor
  BY <1>1, <1>5
<1> QED
  BY <1>3, <1>8, <1>9, <1>10, <1>11, <1>12, <1>13

\* A full page that is no further than the cursor holds one time only.
LEMMA FullPage ==
  ASSUME PagingInv, NEW batch \in SUBSET window(cursor), batch # {},
         \A i \in window(cursor) : entries[i] >= cursor,
         Cardinality(batch) >= PageLimit, maxTime(batch) <= cursor
  PROVE  crowded
<1>1. batch \in SUBSET DOMAIN entries
  BY DEF window
<1>2. PICK m \in batch : maxTime(batch) = entries[m] /\ \A i \in batch : entries[i] <= entries[m]
  BY <1>1, LatestOfPage DEF PagingInv
<1>3. cursor \in Nat /\ \A i \in DOMAIN entries : entries[i] \in Nat /\ entries[i] \in Times
  BY WindowFinite DEF PagingInv, PagingTypeOK
<1>4. \A i \in batch : entries[i] = entries[m]
  <2> SUFFICES ASSUME NEW i \in batch PROVE entries[i] = entries[m]
    OBVIOUS
  <2>1. entries[i] \in Nat /\ entries[m] \in Nat /\ entries[i] >= cursor /\ entries[m] <= cursor
    BY <1>1, <1>2, <1>3
  <2>2. entries[i] <= entries[m]
    BY <1>2
  <2> QED
    BY <1>3, <2>1, <2>2
<1> DEFINE S == {i \in DOMAIN entries : entries[i] = entries[m]}
<1>5. batch \in SUBSET S
  BY <1>1, <1>4
<1>6. IsFiniteSet(S)
  <2>1. IsFiniteSet(DOMAIN entries)
    BY WindowFinite, FS_Interval DEF PagingInv
  <2>2. S \in SUBSET DOMAIN entries
    OBVIOUS
  <2> HIDE DEF S
  <2> QED
    BY <2>1, <2>2, FS_Subset
<1> HIDE DEF S
<1>7. Cardinality(batch) <= Cardinality(S) /\ Cardinality(S) \in Nat /\ Cardinality(batch) \in Nat
  BY <1>5, <1>6, FS_Subset, FS_CardinalityType
<1>8. Cardinality(S) >= PageLimit
  BY <1>7, PagingAssumption
<1>9. entries[m] \in Times
  BY <1>1, <1>3
<1> QED
  BY <1>8, <1>9 DEF crowded, S

LEMMA PageKeeps ==
  ASSUME PagingInv, fetchPage
  PROVE  PagingInv'
<1> DEFINE W == window(request.start)
<1>1. PICK batch : batch = answerTo(cursor)
  OBVIOUS
<1>2. /\ ~done /\ page < MaxPages /\ page' = page + 1 /\ UNCHANGED <<entries, request>>
      /\ IF batch = {} THEN ends /\ UNCHANGED <<rows, count>>
         ELSE IF request.kind = "fills" THEN afterFills(batch) ELSE afterFunding(batch)
  BY <1>1 DEF fetchPage
<1>3. /\ batch \in SUBSET window(cursor) /\ Cardinality(batch) \in Nat
      /\ \A i \in window(cursor) : i \in W /\ entries[i] >= cursor
      /\ \A i \in batch, j \in window(cursor) : j < i => j \in batch
      /\ rows \cup batch \in SUBSET W
      /\ \A i \in rows \cup batch, j \in W : j < i => j \in rows \cup batch
      /\ Cardinality(batch) < PageLimit => W \in SUBSET (rows \cup batch)
      /\ Cardinality(rows \cup batch) = count + Cardinality(batch \ rows)
      /\ request.kind = "funding" => batch \ rows = batch
  BY <1>1, <1>2, PageAdds
<1>4. request.kind = "fills" \/ request.kind = "funding"
  BY DEF PagingInv, PagingTypeOK, Request, Kinds
<1>5. rows' = rows \cup batch /\ count' = Cardinality(rows \cup batch)
  <2>1. CASE batch = {}
    <3>1. batch \ rows = {} /\ Cardinality(batch \ rows) = 0 /\ rows \cup batch = rows
      BY <2>1, FS_EmptySet
    <3>2. count \in Nat
      BY DEF PagingInv, PagingTypeOK
    <3> QED
      BY <1>2, <1>3, <2>1, <3>1, <3>2
  <2>2. CASE batch # {} /\ request.kind = "fills"
    BY <1>2, <1>3, <2>2 DEF afterFills
  <2>3. CASE batch # {} /\ request.kind = "funding"
    BY <1>2, <1>3, <2>3 DEF afterFunding
  <2> QED
    BY <1>4, <2>1, <2>2, <2>3
<1>6. /\ batch \in SUBSET DOMAIN entries /\ cursor \in Nat /\ PageLimit \in Nat \ {0}
      /\ \A i \in DOMAIN entries : i \in Nat /\ entries[i] \in Nat
  BY <1>3, WindowFinite, PagingAssumption DEF window, PagingInv, PagingTypeOK
<1>7. ASSUME batch # {}
      PROVE  \E m \in batch : /\ maxTime(batch) = entries[m]
                              /\ \A i \in batch : i <= m /\ entries[i] <= entries[m]
  BY <1>6, <1>7, LatestOfPage DEF PagingInv
<1>8. ASSUME batch # {}
      PROVE  maxTime(batch) \in Nat /\ maxTime(batch) >= cursor
  BY <1>3, <1>6, <1>7, <1>8
<1>9. \/ /\ done' = TRUE /\ cursor' = cursor
         /\ \/ Cardinality(batch) < PageLimit
            \/ /\ request.kind = "fills" /\ batch # {}
               /\ Cardinality(batch) >= PageLimit /\ maxTime(batch) <= cursor
      \/ /\ batch # {} /\ done' = (page + 1 = MaxPages)
         /\ cursor' = IF request.kind = "fills" THEN maxTime(batch) ELSE maxTime(batch) + 1
  <2>1. CASE batch = {}
    <3>1. Cardinality(batch) < PageLimit
      BY <1>6, <2>1, FS_EmptySet
    <3> QED
      BY <1>2, <2>1, <3>1 DEF ends
  <2>2. CASE batch # {} /\ request.kind = "fills"
    <3>1. afterFills(batch)
      BY <1>2, <2>2
    <3>2. CASE Cardinality(batch) < PageLimit \/ maxTime(batch) <= cursor
      <4>1. done' = TRUE /\ cursor' = cursor
        BY <3>1, <3>2 DEF afterFills, ends
      <4>2. Cardinality(batch) < PageLimit \/ Cardinality(batch) >= PageLimit
        BY <1>3, <1>6
      <4> QED
        BY <2>2, <3>2, <4>1, <4>2
    <3>3. CASE ~(Cardinality(batch) < PageLimit \/ maxTime(batch) <= cursor)
      BY <2>2, <3>1, <3>3 DEF afterFills, goesOn
    <3> QED
      BY <3>2, <3>3
  <2>3. CASE batch # {} /\ request.kind = "funding"
    <3>1. afterFunding(batch) /\ request.kind # "fills"
      BY <1>2, <2>3
    <3>2. ~(maxTime(batch) < cursor)
      BY <1>6, <1>8, <2>3
    <3>3. CASE Cardinality(batch) < PageLimit
      BY <3>1, <3>3 DEF afterFunding, ends
    <3>4. CASE ~(Cardinality(batch) < PageLimit)
      BY <2>3, <3>1, <3>2, <3>4 DEF afterFunding, goesOn
    <3> QED
      BY <3>3, <3>4
  <2> QED
    BY <1>4, <2>1, <2>2, <2>3
<1>10. done' \in BOOLEAN /\ cursor' \in Nat /\ page' \in 0 .. MaxPages
  <2>1. page \in 0 .. MaxPages /\ MaxPages \in Nat
    BY PagingAssumption DEF PagingInv, PagingTypeOK
  <2>2. page' \in 0 .. MaxPages
    BY <1>2, <2>1
  <2>3. cursor' \in Nat
    BY <1>6, <1>8, <1>9
  <2> QED
    BY <1>9, <2>2, <2>3
<1>11. W' = W
  BY <1>2 DEF window
<1>12. PagingTypeOK'
  <2>1. rows' \subseteq DOMAIN entries
    BY <1>5, <1>6 DEF PagingInv, PagingTypeOK
  <2>2. rows' \in SUBSET W /\ IsFiniteSet(W)
    BY <1>3, <1>5, WindowFinite DEF PagingInv
  <2>3. count' \in Nat
    <3> HIDE DEF W
    <3> QED
      BY <1>5, <2>2, FS_Subset, FS_CardinalityType
  <2> QED
    BY <1>2, <1>10, <2>1, <2>3 DEF PagingInv, PagingTypeOK
<1>13. InOrder' /\ NoGap'
  BY <1>2, <1>3, <1>5, <1>11 DEF PagingInv, InOrder, NoGap
<1>14. AllRead'
  <2>1. CASE Cardinality(batch) < PageLimit
    BY <1>3, <1>5, <1>11, <2>1 DEF AllRead
  <2>2. CASE /\ request.kind = "fills" /\ batch # {}
             /\ Cardinality(batch) >= PageLimit /\ maxTime(batch) <= cursor
    <3>1. crowded
      BY <1>3, <2>2, FullPage
    <3> QED
      BY <1>2, <2>2, <3>1 DEF AllRead, crowded
  <2>3. CASE done' = (page + 1 = MaxPages)
    BY <1>2, <2>3 DEF AllRead
  <2> QED
    BY <1>9, <2>1, <2>2, <2>3
<1>15. ReadSoFar'
  <2> SUFFICES ASSUME ~done' PROVE ReadSoFar'
    BY DEF ReadSoFar
  <2>1. /\ batch # {}
        /\ cursor' = IF request.kind = "fills" THEN maxTime(batch) ELSE maxTime(batch) + 1
    BY <1>9
  <2>2. PICK m \in batch : /\ maxTime(batch) = entries[m]
                           /\ \A i \in batch : i <= m /\ entries[i] <= entries[m]
    BY <1>7, <2>1
  <2>3. /\ m \in DOMAIN entries /\ entries[m] \in Nat /\ entries[m] >= cursor /\ m \in window(cursor)
        /\ request.start \in Nat /\ request.start <= cursor
    BY <1>2, <1>3, <1>6, PagingAssumption
       DEF PagingInv, PagingTypeOK, Request, ReadSoFar
  <2>4. request.start <= cursor'
    BY <1>6, <2>1, <2>2, <2>3
  <2>5. ASSUME NEW i \in W, entries[i] < cursor' PROVE i \in rows \cup batch
    <3>1. i \in DOMAIN entries /\ i \in Nat /\ m \in Nat /\ entries[i] \in Nat
      BY <1>6, <2>3 DEF window
    <3>2. CASE i < m
      BY <1>3, <3>2
    <3>3. CASE i = m
      BY <3>3
    <3>4. CASE i > m
      <4>1. follows(request.kind, entries[m], entries[i])
        BY <2>3, <3>1, <3>4 DEF PagingInv, InOrder
      <4>2. CASE request.kind = "fills"
        <5>1. entries[m] <= entries[i] /\ entries[i] < entries[m]
          BY <2>1, <2>2, <2>5, <4>1, <4>2 DEF follows
        <5> QED
          BY <2>3, <3>1, <5>1
      <4>3. CASE request.kind = "funding"
        <5>1. entries[m] < entries[i] /\ entries[i] < entries[m] + 1
          BY <2>1, <2>2, <2>5, <4>1, <4>3 DEF follows
        <5> QED
          BY <2>3, <3>1, <5>1
      <4> QED
        BY <1>4, <4>2, <4>3
    <3> QED
      BY <3>1, <3>2, <3>3, <3>4
  <2>6. ASSUME NEW i \in rows \cup batch PROVE follows(request.kind, entries[i], cursor')
    <3>1. i \in DOMAIN entries /\ entries[i] \in Nat
      <4>1. i \in W
        BY <1>3
      <4> QED
        BY <1>6, <4>1 DEF window
    <3>2. entries[i] <= entries[m]
      <4>1. CASE i \in batch
        BY <2>2, <4>1
      <4>2. CASE i \in rows
        <5>1. follows(request.kind, entries[i], cursor)
          BY <1>2, <4>2 DEF PagingInv, ReadSoFar
        <5>2. entries[i] <= cursor
          BY <1>6, <3>1, <5>1 DEF follows
        <5> QED
          BY <1>6, <2>3, <3>1, <5>2
      <4> QED
        BY <4>1, <4>2
    <3>3. CASE request.kind = "fills"
      BY <2>1, <2>2, <3>2, <3>3 DEF follows
    <3>4. CASE request.kind = "funding"
      <4>1. entries[i] < entries[m] + 1
        BY <2>3, <3>1, <3>2
      <4> QED
        BY <2>1, <2>2, <3>4, <4>1 DEF follows
    <3> QED
      BY <1>4, <3>3, <3>4
  <2>7. cursor' <= IF request.kind = "funding" THEN entries[m] + 1 ELSE entries[m]
    BY <1>4, <2>1, <2>2, <2>3
  <2> QED
    BY <1>2, <1>5, <1>11, <2>3, <2>4, <2>5, <2>6, <2>7 DEF ReadSoFar
<1> QED
  BY <1>12, <1>13, <1>14, <1>15 DEF PagingInv

\* A window read in pages has no entry twice and no gap, and lacks one only
\* where the page bound or a crowded time stopped the loop (hlClient.ts,
\* fetchAllFills, fetchAllFunding).
THEOREM PagesRight == PagingSpec => []PagesComplete
<1>1. PagingInit => PagingInv
  BY PagingStarts
<1>2. PagingInv /\ [PagingNext]_pagingVars => PagingInv'
  <2> SUFFICES ASSUME PagingInv, [PagingNext]_pagingVars PROVE PagingInv'
    OBVIOUS
  <2>1. CASE fetchPage
    BY <2>1, PageKeeps
  <2>2. ASSUME NEW t \in Times, record(t) PROVE PagingInv'
    BY <2>2, RecordKeeps
  <2>3. CASE UNCHANGED pagingVars
    <3>1. UNCHANGED <<entries, request, rows, count, cursor, page, done>>
      BY <2>3 DEF pagingVars
    <3>2. window(request.start)' = window(request.start) /\ (crowded' <=> crowded)
      BY <3>1 DEF window, crowded
    <3>3. PagingTypeOK' /\ InOrder'
      BY <3>1 DEF PagingInv, PagingTypeOK, InOrder
    <3>4. NoGap' /\ AllRead'
      BY <3>1, <3>2 DEF PagingInv, NoGap, AllRead
    <3>5. ReadSoFar'
      BY <3>1, <3>2 DEF PagingInv, ReadSoFar
    <3> QED
      BY <3>3, <3>4, <3>5 DEF PagingInv
  <2> QED
    BY <2>1, <2>2, <2>3 DEF PagingNext
<1>3. PagingInv => PagesComplete
  BY DEF PagingInv, NoGap, AllRead, PagesComplete
<1> QED
  BY <1>1, <1>2, <1>3, PTL DEF PagingSpec
------------------------------------------------------------------------------
(* The upstream client. *)

LoadsTyped(l) == l \in [Callers -> Load \cup {None}]

\* A queue: no load waits twice, and those that wait have asked for tokens.
Queued(q, l) ==
    /\ q \in Seq(Callers)
    /\ \A i, j \in 1 .. Len(q) : q[i] = q[j] => i = j
    /\ \A i \in 1 .. Len(q) : l[q[i]] # None /\ l[q[i]].phase \in {"acquire", "extra"}

owedBy(l) == TotalWeight(owing(l), l)

LEMMA ClampedIs == ASSUME NEW w \in Nat PROVE clamped(w) \in Nat
BY UpstreamAssumption DEF clamped, Least

LEMMA DueTyped ==
  ASSUME NEW l, LoadsTyped(l), NEW c \in Callers
  PROVE  due(l)[c] \in Nat
<1>1. due(l)[c] = IF l[c] = None THEN 0
                  ELSE clamped(IF l[c].phase = "extra" THEN l[c].extra ELSE Weight[l[c].key])
  BY DEF due
<1>2. CASE l[c] = None
  BY <1>1, <1>2
<1>3. CASE l[c] # None
  <2>1. l[c] \in Load
    BY <1>3 DEF LoadsTyped
  <2>2. l[c].extra \in Nat /\ Weight[l[c].key] \in Nat
    BY <2>1, UpstreamAssumption DEF Load
  <2> QED
    BY <1>1, <1>3, <2>2, ClampedIs
<1> QED
  BY <1>2, <1>3

LEMMA WeightIs ==
  ASSUME NEW l, LoadsTyped(l), NEW C \in SUBSET Callers
  PROVE  /\ TotalWeight(C, l) = Sum(due(l), C)
         /\ TotalWeight(C, l) \in Nat /\ IsFiniteSet(C)
<1>1. TotalWeight(C, l) = Sum(due(l), C)
  BY DEF TotalWeight, Sum
<1>2. IsFiniteSet(C)
  BY UpstreamAssumption, FS_Subset
<1>3. Sum(due(l), C) \in Nat
  BY <1>2, DueTyped, SumNatural
<1> QED
  BY <1>1, <1>2, <1>3

\* Two lots of loads that share none weigh what they weigh together.
LEMMA WeightUnion ==
  ASSUME NEW l, LoadsTyped(l), NEW C \in SUBSET Callers, NEW D \in SUBSET Callers, C \cap D = {}
  PROVE  TotalWeight(C \cup D, l) = TotalWeight(C, l) + TotalWeight(D, l)
<1>1. IsFiniteSet(C \cup D) /\ C \cup D \in SUBSET Callers
  BY WeightIs
<1>2. \A x \in C \cup D : due(l)[x] \in Int
  BY DueTyped
<1>3. Sum(due(l), C \cup D) = Sum(due(l), C) + Sum(due(l), D)
  BY <1>1, <1>2, SumUnion
<1> QED
  BY <1>1, <1>3, WeightIs

\* What loads weigh depends on those loads only.
LEMMA WeightSame ==
  ASSUME NEW l, LoadsTyped(l), NEW m, LoadsTyped(m), NEW C \in SUBSET Callers,
         \A c \in C : due(m)[c] = due(l)[c]
  PROVE  TotalWeight(C, m) = TotalWeight(C, l)
<1>1. \A c \in C : due(l)[c] \in Int
  BY DueTyped
<1>2. IsFiniteSet(C)
  BY WeightIs
<1>3. Sum(due(l), C) = Sum(due(m), C)
  BY <1>1, <1>2, SumSame
<1> QED
  BY <1>3, WeightIs

LEMMA OwedSame ==
  ASSUME NEW l, LoadsTyped(l), NEW m, LoadsTyped(m), owing(m) = owing(l),
         \A c \in owing(l) : m[c] = l[c]
  PROVE  owedBy(m) = owedBy(l)
<1>1. owing(l) \in SUBSET Callers
  BY DEF owing
<1>2. \A c \in owing(l) : due(m)[c] = due(l)[c]
  BY <1>1 DEF due
<1>3. TotalWeight(owing(l), m) = TotalWeight(owing(l), l)
  BY <1>1, <1>2, WeightSame
<1> QED
  BY <1>3 DEF owedBy

\* The limiter never grants more than it has.
LEMMA GrantedIs ==
  ASSUME NEW l, LoadsTyped(l), NEW q \in Seq(Callers), tokens \in Nat
  PROVE  /\ granted(q, l) \in 0 .. Len(q)
         /\ TotalWeight(heads(q, granted(q, l)), l) <= tokens
<1> DEFINE W(n) == TotalWeight(heads(q, n), l)
           N == 0 .. Len(q)
           Enough(n) == W(n) <= tokens /\ (n < Len(q) => W(n + 1) > tokens)
           S == {n \in N : n < Len(q) => W(n + 1) > tokens}
<1>1. Len(q) \in Nat
  OBVIOUS
<1>2. \A n \in N : heads(q, n) \in SUBSET Callers
  BY <1>1 DEF heads
<1>3. \A n \in N : W(n) \in Nat
  BY <1>2, WeightIs
<1>4. W(0) = 0
  <2>1. heads(q, 0) = {}
    BY DEF heads
  <2> QED
    BY <2>1, WeightIs, SumOfNone
<1>5. granted(q, l) = CHOOSE n \in N : Enough(n)
  BY DEF granted
<1> HIDE DEF W
<1>6. S \in SUBSET Nat /\ Len(q) \in S
  BY <1>1
<1>7. PICK n \in S : \A m \in S : n <= m
  <2>1. S # {}
    BY <1>6
  <2> HIDE DEF S
  <2> QED
    BY <1>6, <2>1, LeastOf
<1>8. W(n) <= tokens
  <2>1. CASE n = 0
    BY <1>4, <2>1
  <2>2. CASE n # 0
    <3>1. n - 1 \in N /\ n - 1 < n /\ n \in N /\ n - 1 < Len(q) /\ (n - 1) + 1 = n
      BY <1>1, <1>6, <1>7, <2>2
    <3>2. n - 1 \notin S
      BY <1>6, <1>7, <3>1
    <3>3. ~(W((n - 1) + 1) > tokens)
      BY <3>1, <3>2
    <3>4. ~(W(n) > tokens)
      BY <3>1, <3>3
    <3> QED
      BY <1>3, <3>1, <3>4
  <2> QED
    BY <2>1, <2>2
<1>9. n \in N /\ Enough(n)
  BY <1>7, <1>8
<1> HIDE DEF Enough, N
<1>10. (CHOOSE x \in N : Enough(x)) \in N /\ Enough(CHOOSE x \in N : Enough(x))
  BY <1>9
<1> QED
  BY <1>5, <1>10 DEF Enough, N, W

LEMMA ResolveIs ==
  ASSUME NEW l, LoadsTyped(l), NEW C \in SUBSET Callers,
         \A c \in C : l[c] # None /\ l[c].phase \in {"acquire", "extra"}
  PROVE  /\ LoadsTyped(resolve(C, l))
         /\ \A c \in Callers \ C : resolve(C, l)[c] = l[c]
         /\ \A c \in C : /\ resolve(C, l)[c] # None
                         /\ resolve(C, l)[c].phase \in {"ready", "sent"}
<1> DEFINE m == resolve(C, l)
<1>1. \A c \in Callers :
         m[c] = IF c \in C THEN [l[c] EXCEPT !.phase = IF @ = "extra" THEN "ready" ELSE "sent"]
                ELSE l[c]
  BY DEF resolve
<1>2. \A c \in C : m[c] \in Load /\ m[c].phase \in {"ready", "sent"}
  <2> SUFFICES ASSUME NEW c \in C PROVE m[c] \in Load /\ m[c].phase \in {"ready", "sent"}
    OBVIOUS
  <2>1. l[c] \in Load
    BY DEF LoadsTyped
  <2>2. m[c] = [l[c] EXCEPT !.phase = IF @ = "extra" THEN "ready" ELSE "sent"]
    BY <1>1
  <2> HIDE DEF m
  <2> QED
    BY <2>1, <2>2 DEF Load
<1>3. \A c \in Callers \ C : m[c] = l[c]
  BY <1>1
<1>4. LoadsTyped(m)
  <2>1. m = [c \in Callers |-> m[c]]
    BY DEF resolve
  <2>2. \A c \in Callers : m[c] \in Load \cup {None}
    BY <1>2, <1>3 DEF LoadsTyped
  <2> HIDE DEF m
  <2> QED
    BY <2>1, <2>2 DEF LoadsTyped
<1> QED
  BY <1>2, <1>3, <1>4, NothingAssumption

LEMMA RestOf ==
  ASSUME NEW S, NEW q \in Seq(S), NEW n \in 0 .. Len(q), NEW p, p = SubSeq(q, n + 1, Len(q))
  PROVE  /\ p \in Seq(S) /\ Len(p) = Len(q) - n
         /\ \A i \in 1 .. Len(p) : p[i] = q[n + i] /\ n + i \in 1 .. Len(q)
<1>1. Len(q) \in Nat /\ n \in Nat /\ n <= Len(q)
  OBVIOUS
<1>2. Len(p) = Len(q) - n
  BY <1>1
<1>3. \A i \in 1 .. Len(p) : n + i \in 1 .. Len(q)
  BY <1>1, <1>2
<1>4. \A i \in 1 .. Len(p) : p[i] = q[n + i]
  <2> SUFFICES ASSUME NEW i \in 1 .. Len(p) PROVE p[i] = q[n + i]
    OBVIOUS
  <2>1. p[i] = q[(n + 1) + i - 1]
    BY <1>1, <1>2
  <2> QED
    BY <1>1, <1>2, <2>1
<1>5. p \in Seq(S)
  BY <1>1
<1> QED
  BY <1>2, <1>3, <1>4, <1>5

LEMMA ExcessIs == ASSUME NEW w \in Nat PROVE excess(w) \in Nat /\ (w # 0 => w = clamped(w) + excess(w))
BY UpstreamAssumption DEF excess, clamped, Most, Least

\* The exchange counts a request for no less than the client pays for it.
LEMMA CountedIs ==
  ASSUME NEW l, LoadsTyped(l), NEW C \in SUBSET Callers,
         \A c \in C : l[c] # None /\ l[c].phase = "acquire"
  PROVE  counted(C, l) \in Nat /\ counted(C, l) - TotalWeight(C, l) \in Nat
<1> DEFINE weight == [c \in C |-> Weight[l[c].key]]
           more == [c \in C |-> excess(Weight[l[c].key])]
<1>1. ASSUME NEW c \in C
      PROVE  /\ weight[c] \in Nat /\ due(l)[c] \in Nat /\ more[c] \in Nat
             /\ more[c] = 1 * weight[c] - due(l)[c]
  <2>1. l[c].key \in Keys
    BY DEF LoadsTyped, Load
  <2>2. PICK w \in Nat \ {0} : w = Weight[l[c].key]
    BY <2>1, UpstreamAssumption
  <2>3. due(l)[c] = clamped(w) /\ weight[c] = w /\ more[c] = excess(w)
    BY <2>2 DEF due
  <2>4. w = clamped(w) + excess(w) /\ excess(w) \in Nat /\ clamped(w) \in Nat
    BY ExcessIs, ClampedIs
  <2> QED
    BY <2>3, <2>4
<1>2. IsFiniteSet(C) /\ TotalWeight(C, l) = Sum(due(l), C)
  BY WeightIs
<1>3. counted(C, l) = Sum(weight, C)
  BY DEF counted, Sum
<1> HIDE DEF weight, more
<1>4. Sum(weight, C) \in Nat /\ Sum(due(l), C) \in Nat /\ Sum(more, C) \in Nat
  <2>1. Sum(weight, C) \in Nat
    BY <1>1, <1>2, SumNatural
  <2>2. Sum(due(l), C) \in Nat
    BY <1>1, <1>2, SumNatural
  <2>3. Sum(more, C) \in Nat
    BY <1>1, <1>2, SumNatural
  <2> QED
    BY <2>1, <2>2, <2>3
<1>5. Sum(more, C) = 1 * Sum(weight, C) - Sum(due(l), C)
  <2>1. \A c \in C : weight[c] \in Int /\ due(l)[c] \in Int /\ more[c] = 1 * weight[c] - due(l)[c]
    BY <1>1
  <2>2. Combined(more, 1, weight, due(l), C)
    <3>1. 1 \in Int
      OBVIOUS
    <3> QED
      BY <1>2, <2>1, <3>1, SumCombined, Zenon
  <2> QED
    BY <2>2 DEF Combined
<1> QED
  BY <1>2, <1>3, <1>4, <1>5

\* Whatever is served, the exchange has as much left as the limiter, but for
\* the items that are still to be paid for and what never is.
LEMMA PumpKeeps ==
  ASSUME tokens \in 0 .. Capacity, NEW l, LoadsTyped(l), NEW q, Queued(q, l), NEW t,
         NEW items \in Nat, credit \in Int, uncharged \in Nat,
         (credit - items) + (uncharged + excess(items)) + owedBy(l) >= tokens,
         pump(q, l, t, items)
  PROVE  /\ tokens' \in 0 .. Capacity /\ LoadsTyped(loads') /\ Queued(queue', loads')
         /\ credit' \in Int /\ uncharged' \in Nat
         /\ credit' + uncharged' + owedBy(loads') >= tokens'
         /\ \A c \in Callers : loads'[c] # None => l[c] # None
<1> DEFINE n == granted(q, l)
           served == heads(q, n)
           A == requests(served, l)
           E == served \ A
           rest == owing(l) \ E
<1>0. tokens \in Nat /\ Capacity \in Nat /\ q \in Seq(Callers)
  BY UpstreamAssumption DEF Queued
<1>1. n \in 0 .. Len(q) /\ TotalWeight(served, l) <= tokens /\ Len(q) \in Nat
  BY <1>0, GrantedIs
<1>2. /\ tokens' = tokens - TotalWeight(served, l) /\ queue' = SubSeq(q, n + 1, Len(q))
      /\ loads' = resolve(served, l) /\ credit' = credit - items - counted(A, l)
      /\ uncharged' = uncharged + excess(items) + (counted(A, l) - TotalWeight(A, l))
  BY DEF pump
<1> HIDE DEF n
<1>3. /\ served \in SUBSET Callers
      /\ \A c \in served : l[c] # None /\ l[c].phase \in {"acquire", "extra"}
  <2> SUFFICES ASSUME NEW c \in served
               PROVE  c \in Callers /\ l[c] # None /\ l[c].phase \in {"acquire", "extra"}
    OBVIOUS
  <2>1. PICK i \in 1 .. n : c = q[i]
    BY DEF heads
  <2>2. i \in 1 .. Len(q)
    BY <1>1, <2>1
  <2> QED
    BY <1>0, <2>1, <2>2 DEF Queued
<1>4. /\ LoadsTyped(loads') /\ \A c \in Callers \ served : loads'[c] = l[c]
      /\ \A c \in served : loads'[c] # None /\ loads'[c].phase \in {"ready", "sent"}
  <2> HIDE DEF served
  <2> QED
    BY <1>2, <1>3, ResolveIs
<1>5. Queued(queue', loads')
  <2>1. /\ queue' \in Seq(Callers) /\ Len(queue') = Len(q) - n
        /\ \A i \in 1 .. Len(queue') : queue'[i] = q[n + i] /\ n + i \in 1 .. Len(q)
    <3>1. q \in Seq(Callers) /\ n \in 0 .. Len(q) /\ queue' = SubSeq(q, n + 1, Len(q))
      BY <1>0, <1>1, <1>2
    <3> QED
      BY <3>1, RestOf
  <2>2. \A i, j \in 1 .. Len(queue') : queue'[i] = queue'[j] => i = j
    <3> SUFFICES ASSUME NEW i \in 1 .. Len(queue'), NEW j \in 1 .. Len(queue'),
                        queue'[i] = queue'[j]
                 PROVE  i = j
      OBVIOUS
    <3>1. n + i = n + j
      BY <2>1 DEF Queued
    <3> QED
      BY <1>1, <2>1, <3>1
  <2>3. ASSUME NEW i \in 1 .. Len(queue') PROVE queue'[i] \in Callers \ served
    <3>1. n + i \in 1 .. Len(q) /\ queue'[i] = q[n + i]
      BY <2>1
    <3>2. ASSUME NEW j \in 1 .. n, q[n + i] = q[j] PROVE FALSE
      <4>1. j \in 1 .. Len(q)
        BY <1>1
      <4>2. n + i = j
        BY <3>1, <3>2, <4>1 DEF Queued
      <4> QED
        BY <1>1, <2>1, <4>2
    <3> QED
      BY <1>0, <3>1, <3>2 DEF heads
  <2>4. \A i \in 1 .. Len(queue') :
           loads'[queue'[i]] # None /\ loads'[queue'[i]].phase \in {"acquire", "extra"}
    <3> SUFFICES ASSUME NEW i \in 1 .. Len(queue')
                 PROVE  loads'[queue'[i]] # None /\ loads'[queue'[i]].phase \in {"acquire", "extra"}
      OBVIOUS
    <3>1. loads'[queue'[i]] = l[queue'[i]]
      BY <1>4, <2>3
    <3> QED
      BY <2>1, <3>1 DEF Queued
  <2> QED
    BY <2>1, <2>2, <2>4 DEF Queued
<1>6. /\ A \in SUBSET Callers /\ E \in SUBSET Callers /\ rest \in SUBSET Callers
      /\ A \cap E = {} /\ A \cup E = served /\ E \cap rest = {}
  BY <1>3 DEF requests, owing
<1>7. E \cup rest = owing(l) /\ owing(loads') = rest
  <2>1. E \in SUBSET owing(l)
    BY <1>3 DEF requests, owing
  <2>2. ASSUME NEW c \in Callers PROVE c \in owing(loads') <=> c \in rest
    <3>1. CASE c \in served
      BY <1>4, <3>1 DEF owing, requests
    <3>2. CASE c \notin served
      BY <1>4, <3>2 DEF owing
    <3> QED
      BY <3>1, <3>2
  <2>3. owing(loads') \in SUBSET Callers
    BY DEF owing
  <2> QED
    BY <1>6, <2>1, <2>2, <2>3
<1>8. /\ TotalWeight(served, l) = TotalWeight(A, l) + TotalWeight(E, l)
      /\ owedBy(l) = TotalWeight(E, l) + TotalWeight(rest, l)
  <2> HIDE DEF A, E, served, rest
  <2> QED
    BY <1>6, <1>7, WeightUnion DEF owedBy
<1>9. owedBy(loads') = TotalWeight(rest, l)
  <2>1. \A c \in rest : loads'[c] = l[c]
    <3>1. \A c \in rest : c \notin served
      BY DEF owing, requests
    <3> QED
      BY <1>4, <1>6, <3>1
  <2>2. \A c \in rest : due(loads')[c] = due(l)[c]
    BY <1>6, <2>1 DEF due
  <2> HIDE DEF rest
  <2> QED
    BY <1>4, <1>6, <1>7, <2>2, WeightSame DEF owedBy
<1>10. PICK a \in Nat, e \in Nat, r \in Nat :
         a = TotalWeight(A, l) /\ e = TotalWeight(E, l) /\ r = TotalWeight(rest, l)
  <2> HIDE DEF A, E, rest
  <2> QED
    BY <1>6, WeightIs
<1>11. PICK w \in Nat, u \in Nat, b \in Int :
         /\ w = counted(A, l) /\ w - a \in Nat
         /\ u = uncharged + excess(items) /\ b = credit - items
  <2>1. counted(A, l) \in Nat /\ counted(A, l) - TotalWeight(A, l) \in Nat
    <3>1. \A c \in A : l[c] # None /\ l[c].phase = "acquire"
      BY <1>3 DEF requests
    <3> HIDE DEF A
    <3> QED
      BY <1>6, <3>1, CountedIs
  <2>2. excess(items) \in Nat
    BY ExcessIs
  <2> QED
    BY <1>10, <2>1, <2>2
<1>12. /\ tokens' = tokens - (a + e) /\ owedBy(loads') = r
       /\ credit' = b - w /\ uncharged' = u + (w - a)
       /\ b + u + (e + r) >= tokens /\ a + e <= tokens
  BY <1>1, <1>2, <1>8, <1>9, <1>10, <1>11
<1>13. /\ tokens' \in 0 .. Capacity /\ credit' \in Int /\ uncharged' \in Nat
       /\ credit' + uncharged' + owedBy(loads') >= tokens'
  <2>1. PICK s \in Nat, k \in Nat : s = tokens /\ k = Capacity
    BY <1>0
  <2>2. s <= k /\ b + u + (e + r) >= s /\ a + e <= s
    BY <1>12, <2>1
  <2>3. /\ s - (a + e) \in 0 .. k /\ b - w \in Int /\ u + (w - a) \in Nat
        /\ (b - w) + (u + (w - a)) + r >= s - (a + e)
    BY <1>10, <1>11, <2>1, <2>2
  <2> QED
    BY <1>12, <2>1, <2>3
<1>14. \A c \in Callers : loads'[c] # None => l[c] # None
  BY <1>3, <1>4
<1> QED
  BY <1>4, <1>5, <1>13, <1>14

\* The state but for the timer and the order of the cache.
UpTyped ==
    /\ tokens \in 0 .. Capacity /\ now \in Nat
    /\ credit \in Int /\ uncharged \in Nat
    /\ cache \in [Keys -> Entry \cup {None}]
    /\ pending \in [Keys -> Callers \cup {None}]
    /\ LoadsTyped(loads)
    /\ calls \in [Callers -> Call \cup {None}]
    /\ \A c \in Callers : loads[c] # None => calls[c] # None

UpInv ==
    /\ UpTyped /\ Queued(queue, loads)
    /\ credit + uncharged + owedBy(loads) >= tokens

LEMMA NumbersTyped ==
  /\ Capacity \in Nat \ {0} /\ Rate \in Nat \ {0} /\ TTL \in Nat \ {0}
  /\ MaxRetries \in Nat /\ MaxTime \in Nat
BY UpstreamAssumption

LEMMA OwedTyped == ASSUME NEW l, LoadsTyped(l) PROVE owedBy(l) \in Nat
<1>1. owing(l) \in SUBSET Callers
  BY DEF owing
<1> QED
  BY <1>1, WeightIs DEF owedBy

LEMMA NoItems ==
  ASSUME UpInv, NEW l, owedBy(l) = owedBy(loads), LoadsTyped(l)
  PROVE  0 \in Nat /\ (credit - 0) + (uncharged + excess(0)) + owedBy(l) >= tokens
<1>1. excess(0) \in Nat /\ owedBy(l) \in Nat
  BY ExcessIs, OwedTyped
<1> QED
  BY <1>1, UpstreamAssumption DEF UpInv, UpTyped

\* A load that does not wait changes nothing for those that do.
LEMMA QueueUntouched ==
  ASSUME NEW q, NEW l, NEW m, Queued(q, l), NEW c \in Callers,
         ~(l[c] # None /\ l[c].phase \in {"acquire", "extra"}),
         \A d \in Callers \ {c} : m[d] = l[d]
  PROVE  /\ Queued(q, m) /\ \A i \in 1 .. Len(q) : q[i] # c
<1>1. \A i \in 1 .. Len(q) : q[i] \in Callers \ {c}
  BY DEF Queued
<1> QED
  BY <1>1 DEF Queued

LEMMA QueueGrows ==
  ASSUME NEW q, NEW l, NEW m, Queued(q, l), NEW c \in Callers,
         ~(l[c] # None /\ l[c].phase \in {"acquire", "extra"}),
         \A d \in Callers \ {c} : m[d] = l[d],
         m[c] # None /\ m[c].phase \in {"acquire", "extra"}
  PROVE  Queued(Append(q, c), m)
<1> DEFINE p == Append(q, c)
<1>0. Queued(q, m) /\ \A i \in 1 .. Len(q) : q[i] # c
  BY QueueUntouched
<1>1. Queued(q, m) /\ (\A i \in 1 .. Len(q) : q[i] # c) /\ q \in Seq(Callers)
  BY <1>0 DEF Queued
<1>2. /\ p \in Seq(Callers) /\ Len(p) = Len(q) + 1 /\ Len(q) \in Nat
      /\ p[Len(q) + 1] = c /\ \A i \in 1 .. Len(q) : p[i] = q[i]
  BY <1>1
<1> HIDE DEF p
<1>3. \A i, j \in 1 .. Len(p) : p[i] = p[j] => i = j
  <2> SUFFICES ASSUME NEW i \in 1 .. Len(p), NEW j \in 1 .. Len(p), p[i] = p[j] PROVE i = j
    OBVIOUS
  <2>1. (i \in 1 .. Len(q) \/ i = Len(q) + 1) /\ (j \in 1 .. Len(q) \/ j = Len(q) + 1)
    BY <1>2
  <2> QED
    BY <1>1, <1>2, <2>1 DEF Queued
<1>4. \A i \in 1 .. Len(p) : m[p[i]] # None /\ m[p[i]].phase \in {"acquire", "extra"}
  <2> SUFFICES ASSUME NEW i \in 1 .. Len(p)
               PROVE  m[p[i]] # None /\ m[p[i]].phase \in {"acquire", "extra"}
    OBVIOUS
  <2>1. i \in 1 .. Len(q) \/ i = Len(q) + 1
    BY <1>2
  <2> QED
    BY <1>1, <1>2, <2>1 DEF Queued
<1> QED
  BY <1>2, <1>3, <1>4 DEF Queued, p

\* Only the loads change, and c's is not one that waits, before or after.
LEMMA SideStep ==
  ASSUME UpInv, UNCHANGED <<tokens, queue, credit, uncharged>>, NEW c \in Callers,
         LoadsTyped(loads'), \A d \in Callers \ {c} : loads'[d] = loads[d],
         ~(loads[c] # None /\ loads[c].phase \in {"acquire", "extra"}),
         ~(loads'[c] # None /\ loads'[c].phase \in {"acquire", "extra"})
  PROVE  Queued(queue', loads') /\ credit' + uncharged' + owedBy(loads') >= tokens'
<1>1. Queued(queue, loads')
  BY QueueUntouched DEF UpInv
<1>2. owing(loads') = owing(loads) /\ \A d \in owing(loads) : loads'[d] = loads[d]
  BY DEF owing
<1>3. owedBy(loads') = owedBy(loads)
  BY <1>2, OwedSame DEF UpInv, UpTyped
<1> QED
  BY <1>1, <1>3 DEF UpInv

LEMMA CallTyped ==
  ASSUME NEW k \in Keys, NEW on \in Callers \cup {None},
         NEW at \in Nat \cup {None, Failed}, now \in Nat
  PROVE  NewCall(k, on, at) \in Call /\ NewCall(k, on, at) # None
<1>1. NewCall(k, on, at) \in Call
  BY DEF NewCall, Call
<1> QED
  BY <1>1, NothingAssumption

LEMMA CallsKeep ==
  ASSUME UpTyped, NEW c \in Callers, NEW k \in Keys, NEW on \in Callers \cup {None},
         NEW at \in Nat \cup {None, Failed},
         calls' = [calls EXCEPT ![c] = NewCall(k, on, at)]
  PROVE  /\ calls' \in [Callers -> Call \cup {None}]
         /\ \A d \in Callers : calls[d] # None => calls'[d] # None
         /\ calls'[c] # None
<1>1. NewCall(k, on, at) \in Call /\ NewCall(k, on, at) # None
  BY CallTyped DEF UpTyped
<1> HIDE DEF NewCall
<1> QED
  BY <1>1 DEF UpTyped

LEMMA HitKeeps ==
  ASSUME UpInv, NEW c \in Callers, NEW k \in Keys, Hit(c, k)
  PROVE  UpInv'
<1>1. cache[k].stored \in Nat
  BY DEF Hit, live, UpInv, UpTyped, Entry
<1>2. calls' = [calls EXCEPT ![c] = NewCall(k, None, cache[k].stored)]
  BY DEF Hit
<1>3. /\ calls' \in [Callers -> Call \cup {None}]
      /\ \A d \in Callers : calls[d] # None => calls'[d] # None
  BY <1>1, <1>2, CallsKeep DEF UpInv
<1>4. UNCHANGED <<tokens, queue, cache, pending, loads, now, credit, uncharged>>
  BY DEF Hit, budget
<1> QED
  BY <1>3, <1>4 DEF UpInv, UpTyped

LEMMA DropKeeps ==
  ASSUME cache \in [Keys -> Entry \cup {None}], NEW k \in Keys, drop(k)
  PROVE  /\ cache' \in [Keys -> Entry \cup {None}]
         /\ \A j \in Keys : cache'[j] # None => cache'[j] = cache[j]
BY DEF drop

LEMMA JoinKeeps ==
  ASSUME UpInv, NEW c \in Callers, NEW k \in Keys, Join(c, k)
  PROVE  UpInv'
<1>1. calls' = [calls EXCEPT ![c] = NewCall(k, pending[k], None)] /\ pending[k] \in Callers
  BY DEF Join, UpInv, UpTyped
<1>2. /\ calls' \in [Callers -> Call \cup {None}]
      /\ \A d \in Callers : calls[d] # None => calls'[d] # None
  BY <1>1, CallsKeep DEF UpInv
<1>3. cache' \in [Keys -> Entry \cup {None}]
  BY DropKeeps DEF Join, UpInv, UpTyped
<1>4. UNCHANGED <<tokens, queue, pending, loads, now, credit, uncharged>>
  BY DEF Join, budget
<1> QED
  BY <1>2, <1>3, <1>4 DEF UpInv, UpTyped

\* A load joins the queue and the queue is pumped.
LEMMA AcquireKeeps ==
  ASSUME UpInv, NEW c \in Callers, NEW l, LoadsTyped(l), NEW items \in Nat,
         \A d \in Callers \ {c} : l[d] = loads[d],
         ~(loads[c] # None /\ loads[c].phase \in {"acquire", "extra"}),
         l[c] # None /\ l[c].phase \in {"acquire", "extra"},
         (credit - items) + (uncharged + excess(items)) + owedBy(l) >= tokens,
         acquire(c, l, items)
  PROVE  /\ tokens' \in 0 .. Capacity /\ LoadsTyped(loads') /\ Queued(queue', loads')
         /\ credit' \in Int /\ uncharged' \in Nat
         /\ credit' + uncharged' + owedBy(loads') >= tokens'
         /\ \A d \in Callers : loads'[d] # None => l[d] # None
<1>1. Queued(Append(queue, c), l)
  BY QueueGrows DEF UpInv
<1>2. pump(Append(queue, c), l, timer, items)
  BY DEF acquire
<1> QED
  BY <1>1, <1>2, PumpKeeps DEF UpInv, UpTyped

LEMMA StartKeeps ==
  ASSUME UpInv, NEW c \in Callers, NEW k \in Keys, Start(c, k)
  PROVE  UpInv'
<1> DEFINE l == [loads EXCEPT ![c] = NewLoad(k)]
<1>1. NewLoad(k) \in Load /\ NewLoad(k) # None /\ NewLoad(k).phase = "acquire"
  <2>1. NewLoad(k) \in Load /\ NewLoad(k).phase = "acquire"
    BY NumbersTyped DEF NewLoad, Load
  <2> QED
    BY <2>1, NothingAssumption
<1>2. loads[c] = None
  BY DEF Start, UpInv, UpTyped
<1>3. /\ LoadsTyped(l) /\ l[c] = NewLoad(k) /\ \A d \in Callers \ {c} : l[d] = loads[d]
  <2> HIDE DEF NewLoad
  <2> QED
    BY <1>1 DEF UpInv, UpTyped, LoadsTyped
<1>4. acquire(c, l, 0)
  BY DEF Start
<1> HIDE DEF l
<1>5. owedBy(l) = owedBy(loads)
  <2>1. owing(l) = owing(loads) /\ \A d \in owing(loads) : l[d] = loads[d]
    BY <1>1, <1>2, <1>3 DEF owing
  <2> QED
    BY <1>3, <2>1, OwedSame DEF UpInv, UpTyped
<1>6. /\ tokens' \in 0 .. Capacity /\ LoadsTyped(loads') /\ Queued(queue', loads')
      /\ credit' \in Int /\ uncharged' \in Nat
         /\ credit' + uncharged' + owedBy(loads') >= tokens'
      /\ \A d \in Callers : loads'[d] # None => l[d] # None
  BY <1>1, <1>2, <1>3, <1>4, <1>5, NoItems, AcquireKeeps DEF UpInv, UpTyped
<1>7. calls' = [calls EXCEPT ![c] = NewCall(k, c, None)]
  BY DEF Start
<1>8. /\ calls' \in [Callers -> Call \cup {None}]
      /\ \A d \in Callers : calls[d] # None => calls'[d] # None
      /\ calls'[c] # None
  BY <1>7, CallsKeep DEF UpInv
<1>9. cache' \in [Keys -> Entry \cup {None}]
  BY DropKeeps DEF Start, UpInv, UpTyped
<1>10. pending' \in [Keys -> Callers \cup {None}] /\ now' \in Nat
  BY DEF Start, UpInv, UpTyped
<1>11. \A d \in Callers : loads'[d] # None => calls'[d] # None
  BY <1>3, <1>6, <1>8 DEF UpInv, UpTyped
<1> QED
  BY <1>6, <1>8, <1>9, <1>10, <1>11 DEF UpInv, UpTyped

LEMMA SettleKeeps ==
  ASSUME UpTyped, NEW c \in Callers, NEW value \in Nat \cup {Failed},
         loads[c] # None, settle(c, value)
  PROVE  /\ pending' \in [Keys -> Callers \cup {None}] /\ LoadsTyped(loads')
         /\ loads'[c] = None /\ \A d \in Callers \ {c} : loads'[d] = loads[d]
         /\ calls' \in [Callers -> Call \cup {None}]
         /\ \A d \in Callers : calls[d] # None => calls'[d] # None
<1>1. pending' \in [Keys -> Callers \cup {None}]
  BY DEF settle, UpTyped
<1>2. /\ LoadsTyped(loads') /\ loads'[c] = None
      /\ \A d \in Callers \ {c} : loads'[d] = loads[d]
  BY DEF settle, UpTyped, LoadsTyped
<1>3. ASSUME NEW d \in Callers
      PROVE  /\ calls'[d] \in Call \cup {None}
             /\ calls[d] # None => calls'[d] \in Call
  <2>1. calls'[d] = IF calls[d] # None /\ calls[d].on = c
                    THEN [calls[d] EXCEPT !.on = None, !.stored = value] ELSE calls[d]
    BY DEF settle
  <2>2. calls[d] # None => calls[d] \in Call
    BY DEF UpTyped
  <2>3. calls[d] # None => [calls[d] EXCEPT !.on = None, !.stored = value] \in Call
    BY <2>2 DEF Call
  <2> QED
    BY <2>1, <2>2, <2>3
<1>4. calls' = [d \in Callers |-> calls'[d]]
  BY DEF settle
<1> QED
  BY <1>1, <1>2, <1>3, <1>4, NothingAssumption

LEMMA StoredIs ==
  ASSUME cache \in [Keys -> Entry \cup {None}], now \in Nat, NEW k \in Keys, stored(k)
  PROVE  /\ cache' \in [Keys -> Entry \cup {None}]
         /\ \A j \in Keys : \/ cache'[j] = None \/ cache'[j] = cache[j]
                            \/ cache'[j] = [stored |-> now, exp |-> now + TTL]
<1>1. PICK room : cache' = [j \in Keys |->
              IF j = k THEN [stored |-> now, exp |-> now + TTL]
              ELSE IF j \in ToSet(room) THEN cache[j] ELSE None]
  BY DEF stored
<1>2. [stored |-> now, exp |-> now + TTL] \in Entry
  BY NumbersTyped DEF Entry
<1> QED
  BY <1>1, <1>2

LEMMA StoreKeeps == ASSUME UpInv, NEW c \in Callers, Store(c) PROVE UpInv'
<1>1. UpTyped /\ loads[c] # None /\ loads[c].phase = "ready" /\ settle(c, now) /\ now \in Nat
  BY DEF Store, UpInv, UpTyped
<1>2. /\ pending' \in [Keys -> Callers \cup {None}] /\ LoadsTyped(loads')
      /\ loads'[c] = None /\ \A d \in Callers \ {c} : loads'[d] = loads[d]
      /\ calls' \in [Callers -> Call \cup {None}]
      /\ \A d \in Callers : calls[d] # None => calls'[d] # None
  BY <1>1, SettleKeeps
<1>3. loads[c].key \in Keys /\ stored(loads[c].key) /\ UNCHANGED <<tokens, queue, now, credit, uncharged>>
  BY <1>1 DEF Store, budget, UpTyped, LoadsTyped, Load
<1>4. cache' \in [Keys -> Entry \cup {None}]
  BY <1>1, <1>3, StoredIs DEF UpTyped
<1>5. Queued(queue', loads') /\ credit' + uncharged' + owedBy(loads') >= tokens'
  BY <1>1, <1>2, <1>3, SideStep
<1> QED
  BY <1>1, <1>2, <1>3, <1>4, <1>5 DEF UpInv, UpTyped

\* Neither does an answer that is lost.
LEMMA LostKeeps ==
  ASSUME UpInv, NEW items \in Nat, lost(items), UNCHANGED <<tokens, queue>>, NEW c \in Callers,
         LoadsTyped(loads'), \A d \in Callers \ {c} : loads'[d] = loads[d],
         ~(loads[c] # None /\ loads[c].phase \in {"acquire", "extra"}),
         ~(loads'[c] # None /\ loads'[c].phase \in {"acquire", "extra"})
  PROVE  /\ Queued(queue', loads') /\ credit' \in Int /\ uncharged' \in Nat
         /\ credit' + uncharged' + owedBy(loads') >= tokens'
<1>1. Queued(queue, loads')
  BY QueueUntouched DEF UpInv
<1>2. owing(loads') = owing(loads) /\ \A d \in owing(loads) : loads'[d] = loads[d]
  BY DEF owing
<1>3. owedBy(loads') = owedBy(loads) /\ owedBy(loads) \in Nat
  BY <1>2, OwedSame, OwedTyped DEF UpInv, UpTyped
<1>4. /\ credit' = credit - items /\ uncharged' = uncharged + items
      /\ credit \in Int /\ uncharged \in Nat
  BY DEF lost, UpInv, UpTyped
<1>5. credit + uncharged + owedBy(loads) >= tokens /\ tokens \in Int
  BY UpstreamAssumption DEF UpInv, UpTyped
<1> QED
  BY <1>1, <1>3, <1>4, <1>5

LEMMA MayHold ==
  ASSUME UpTyped, NEW c \in Callers, sent(c), NEW e, mayHold(c, e)
  PROVE  e \in Nat
<1>1. loads[c].key \in Keys
  BY DEF sent, UpTyped, LoadsTyped, Load
<1> QED
  BY <1>1, UpstreamAssumption DEF mayHold

LEMMA FailKeeps ==
  ASSUME UpInv, NEW c \in Callers, NEW e, Fail(c, e)
  PROVE  UpInv'
<1>1. /\ UpTyped /\ loads[c] # None /\ loads[c].phase = "sent" /\ settle(c, Failed)
      /\ e \in Nat /\ lost(e) /\ UNCHANGED <<tokens, queue, cache, now>>
  BY MayHold DEF Fail, sent, UpInv
<1>2. /\ pending' \in [Keys -> Callers \cup {None}] /\ LoadsTyped(loads')
      /\ loads'[c] = None /\ \A d \in Callers \ {c} : loads'[d] = loads[d]
      /\ calls' \in [Callers -> Call \cup {None}]
      /\ \A d \in Callers : calls[d] # None => calls'[d] # None
  BY <1>1, SettleKeeps
<1>3. /\ Queued(queue', loads') /\ credit' \in Int /\ uncharged' \in Nat
      /\ credit' + uncharged' + owedBy(loads') >= tokens'
  BY <1>1, <1>2, LostKeeps
<1> QED
  BY <1>1, <1>2, <1>3 DEF UpInv, UpTyped

LEMMA RefuseKeeps ==
  ASSUME UpInv, NEW c \in Callers, NEW e, Refuse(c, e)
  PROVE  UpInv'
<1>1. /\ UpTyped /\ loads[c] # None /\ loads[c].phase = "sent" /\ loads[c] \in Load
      /\ loads[c].attempt < MaxRetries /\ e \in Nat /\ lost(e)
      /\ UNCHANGED <<tokens, queue, cache, pending, calls, now>>
  BY MayHold DEF Refuse, sent, UpInv, UpTyped, LoadsTyped
<1> DEFINE v == [loads[c] EXCEPT !.phase = "backoff", !.attempt = @ + 1]
<1>2. v \in Load /\ v.phase = "backoff"
  <2>1. loads[c].attempt \in 0 .. MaxRetries
    BY <1>1 DEF Load
  <2>2. loads[c].attempt + 1 \in 0 .. MaxRetries
    BY <1>1, <2>1, NumbersTyped
  <2> QED
    BY <1>1, <2>2 DEF Load
<1>3. loads' = [loads EXCEPT ![c] = v]
  BY <1>1 DEF Refuse, Load, UpTyped, LoadsTyped
<1> HIDE DEF v
<1>4. /\ LoadsTyped(loads') /\ \A d \in Callers \ {c} : loads'[d] = loads[d]
      /\ loads'[c] # None /\ loads'[c].phase = "backoff"
  <2>1. LoadsTyped(loads') /\ loads'[c] = v /\ \A d \in Callers \ {c} : loads'[d] = loads[d]
    BY <1>1, <1>2, <1>3 DEF UpTyped, LoadsTyped
  <2> QED
    BY <1>2, <2>1, NothingAssumption
<1>5. /\ Queued(queue', loads') /\ credit' \in Int /\ uncharged' \in Nat
      /\ credit' + uncharged' + owedBy(loads') >= tokens'
  BY <1>1, <1>4, LostKeeps
<1> QED
  BY <1>1, <1>4, <1>5 DEF UpInv, UpTyped

LEMMA RetryKeeps == ASSUME UpInv, NEW c \in Callers, Retry(c) PROVE UpInv'
<1> DEFINE l == [loads EXCEPT ![c].phase = "acquire"]
<1>1. /\ UpTyped /\ loads[c] # None /\ loads[c].phase = "backoff" /\ loads[c] \in Load
      /\ acquire(c, l, 0) /\ UNCHANGED <<cache, pending, calls, now>>
  BY DEF Retry, UpInv, UpTyped, LoadsTyped
<1> DEFINE v == [loads[c] EXCEPT !.phase = "acquire"]
<1>2. v \in Load /\ v.phase = "acquire"
  BY <1>1 DEF Load
<1>3. l = [loads EXCEPT ![c] = v]
  BY <1>1 DEF Load, UpTyped, LoadsTyped
<1> HIDE DEF l, v
<1>4. /\ LoadsTyped(l) /\ \A d \in Callers \ {c} : l[d] = loads[d]
      /\ l[c] # None /\ l[c].phase = "acquire"
  <2>1. LoadsTyped(l) /\ l[c] = v /\ \A d \in Callers \ {c} : l[d] = loads[d]
    BY <1>1, <1>2, <1>3 DEF UpTyped, LoadsTyped
  <2> QED
    BY <1>2, <2>1, NothingAssumption
<1>5. owedBy(l) = owedBy(loads)
  <2>1. owing(l) = owing(loads) /\ \A d \in owing(loads) : l[d] = loads[d]
    BY <1>1, <1>4 DEF owing
  <2> QED
    BY <1>4, <2>1, OwedSame DEF UpInv, UpTyped
<1>6. /\ tokens' \in 0 .. Capacity /\ LoadsTyped(loads') /\ Queued(queue', loads')
      /\ credit' \in Int /\ uncharged' \in Nat
         /\ credit' + uncharged' + owedBy(loads') >= tokens'
      /\ \A d \in Callers : loads'[d] # None => l[d] # None
  BY <1>1, <1>4, <1>5, NoItems, AcquireKeeps DEF UpInv, UpTyped
<1> QED
  BY <1>1, <1>4, <1>6 DEF UpInv, UpTyped

\* The items of an answer are owed from the moment the exchange counts them.
LEMMA AnswerKeeps ==
  ASSUME UpInv, NEW c \in Callers, NEW e, Answer(c, e)
  PROVE  UpInv'
<1> DEFINE p == IF e > 0 THEN "extra" ELSE "ready"
           l == [loads EXCEPT ![c].phase = p, ![c].extra = e]
<1>1. /\ UpTyped /\ loads[c] # None /\ loads[c].phase = "sent" /\ loads[c] \in Load /\ e \in Nat
      /\ IF e > 0 THEN acquire(c, l, e)
         ELSE loads' = l /\ UNCHANGED <<tokens, queue, timer, credit, uncharged>>
      /\ UNCHANGED <<cache, pending, calls, now>>
  BY MayHold DEF Answer, sent, budget, UpInv, UpTyped, LoadsTyped
<1> DEFINE v == [loads[c] EXCEPT !.phase = p, !.extra = e]
<1>2. v \in Load /\ v.phase = p /\ v.extra = e
  BY <1>1 DEF Load
<1>3. l = [loads EXCEPT ![c] = v]
  BY <1>1 DEF Load, UpTyped, LoadsTyped
<1> HIDE DEF l, v, p
<1>5. /\ LoadsTyped(l) /\ \A d \in Callers \ {c} : l[d] = loads[d]
      /\ l[c] # None /\ l[c].phase = p /\ l[c].extra = e
  <2>1. LoadsTyped(l) /\ l[c] = v /\ \A d \in Callers \ {c} : l[d] = loads[d]
    BY <1>1, <1>2, <1>3 DEF UpTyped, LoadsTyped
  <2> QED
    BY <1>2, <2>1, NothingAssumption
<1>6. CASE e > 0
  <2>1. p = "extra" /\ acquire(c, l, e)
    BY <1>1, <1>6 DEF p
  <2>2. clamped(e) \in Nat /\ due(l)[c] = clamped(e)
    BY <1>1, <1>5, <2>1, ClampedIs DEF due
  <2>3. /\ owing(l) = owing(loads) \cup {c} /\ c \notin owing(loads)
        /\ owing(loads) \in SUBSET Callers
    BY <1>1, <1>5, <2>1 DEF owing
  <2>4. owedBy(l) = TotalWeight(owing(loads), l) + TotalWeight({c}, l)
    <3>1. owing(loads) \cap {c} = {} /\ {c} \in SUBSET Callers
      BY <2>3
    <3> QED
      BY <1>5, <2>3, <3>1, WeightUnion DEF owedBy
  <2>5. TotalWeight({c}, l) = clamped(e)
    <3>1. \A d \in {c} : due(l)[d] \in Int
      BY <2>2
    <3>2. IsFiniteSet({c}) /\ {c} \ {c} = {}
      BY FS_Singleton
    <3>3. Sum(due(l), {c}) = due(l)[c] + Sum(due(l), {c} \ {c})
      BY <3>1, <3>2, SumWithout
    <3>4. Sum(due(l), {c} \ {c}) = 0
      BY <3>2, SumOfNone
    <3>5. Sum(due(l), {c}) = clamped(e)
      BY <2>2, <3>3, <3>4
    <3> QED
      BY <1>5, <3>5, WeightIs
  <2>6. TotalWeight(owing(loads), l) = owedBy(loads)
    <3>1. \A d \in owing(loads) : due(l)[d] = due(loads)[d]
      BY <1>5, <2>3 DEF due
    <3> QED
      BY <1>1, <1>5, <2>3, <3>1, WeightSame DEF UpTyped, owedBy
  <2>7. PICK x \in Nat, o \in Nat, b \in Int, u \in Nat, y \in Nat :
          /\ x = clamped(e) /\ o = owedBy(loads) /\ b = credit
          /\ u = uncharged /\ y = excess(e) /\ e = x + y
    BY <1>1, <1>6, <2>2, OwedTyped, ExcessIs DEF UpTyped
  <2>8. (credit - e) + (uncharged + excess(e)) + owedBy(l) >= tokens
    <3>1. owedBy(l) = o + x /\ b + u + o >= tokens /\ tokens \in Int
      BY <2>4, <2>5, <2>6, <2>7, UpstreamAssumption DEF UpInv, UpTyped
    <3>2. (b - e) + (u + y) + (o + x) >= tokens
      BY <2>7, <3>1
    <3> QED
      BY <2>7, <3>1, <3>2
  <2>9. /\ tokens' \in 0 .. Capacity /\ LoadsTyped(loads') /\ Queued(queue', loads')
        /\ credit' \in Int /\ uncharged' \in Nat
        /\ credit' + uncharged' + owedBy(loads') >= tokens'
        /\ \A d \in Callers : loads'[d] # None => l[d] # None
    BY <1>1, <1>5, <2>1, <2>8, AcquireKeeps
  <2> QED
    BY <1>1, <1>5, <2>9 DEF UpInv, UpTyped
<1>7. CASE ~(e > 0)
  <2>1. p = "ready" /\ loads' = l /\ UNCHANGED <<tokens, queue, credit, uncharged>>
    BY <1>1, <1>7 DEF p
  <2>2. Queued(queue', loads') /\ credit' + uncharged' + owedBy(loads') >= tokens'
    BY <1>1, <1>5, <2>1, SideStep
  <2> QED
    BY <1>1, <1>5, <2>1, <2>2 DEF UpInv, UpTyped
<1> QED
  BY <1>6, <1>7

LEMMA TimerKeeps == ASSUME UpInv, TimerFires PROVE UpInv'
<1>1. pump(queue, loads, None, 0) /\ UNCHANGED <<cache, pending, calls, now>>
  BY DEF TimerFires
<1>2. /\ tokens' \in 0 .. Capacity /\ LoadsTyped(loads') /\ Queued(queue', loads')
      /\ credit' \in Int /\ uncharged' \in Nat
         /\ credit' + uncharged' + owedBy(loads') >= tokens'
      /\ \A d \in Callers : loads'[d] # None => loads[d] # None
  BY <1>1, NoItems, PumpKeeps DEF UpInv, UpTyped
<1> QED
  BY <1>1, <1>2 DEF UpInv, UpTyped

LEMMA ClockKeeps == ASSUME UpInv, Tick PROVE UpInv'
<1>1. /\ UNCHANGED <<queue, cache, pending, loads, calls>> /\ now' = now + 1
      /\ tokens' = Least(Capacity, tokens + Rate) /\ credit' = Least(Capacity, credit + Rate)
      /\ uncharged' = Most(0, uncharged - Most(0, tokens + Rate - Capacity))
  BY DEF Tick
<1>2. PICK k \in Nat, r \in Nat, s \in Nat, b \in Int, u \in Nat, o \in Nat :
        /\ k = Capacity /\ r = Rate /\ s = tokens /\ b = credit /\ u = uncharged
        /\ o = owedBy(loads)
  BY NumbersTyped, OwedTyped DEF UpInv, UpTyped
<1>3. s <= k /\ b + u + o >= s
  BY <1>2 DEF UpInv, UpTyped
<1>4. PICK x \in Nat, over \in Nat : x = tokens' /\ x <= k /\ s + r = x + over /\ over = Most(0, s + r - k)
  <2>1. tokens' = IF k < s + r THEN k ELSE s + r
    BY <1>1, <1>2 DEF Least
  <2>2. Most(0, s + r - k) = IF 0 > s + r - k THEN 0 ELSE s + r - k
    BY DEF Most
  <2>3. CASE k < s + r
    <3>1. tokens' = k /\ Most(0, s + r - k) = s + r - k /\ s + r - k \in Nat
      BY <1>2, <2>1, <2>2, <2>3
    <3> QED
      BY <1>2, <3>1
  <2>4. CASE ~(k < s + r)
    <3>1. tokens' = s + r /\ Most(0, s + r - k) = 0
      BY <1>2, <2>1, <2>2, <2>4
    <3> QED
      BY <1>2, <2>4, <3>1
  <2> QED
    BY <2>3, <2>4
<1>5. uncharged' = IF 0 > u - over THEN 0 ELSE u - over
  BY <1>1, <1>2, <1>4 DEF Most
<1>6. PICK v \in Nat : v = uncharged' /\ v >= u - over
  BY <1>2, <1>4, <1>5
<1>7. credit' = IF k < b + r THEN k ELSE b + r
  BY <1>1, <1>2 DEF Least
<1>8. credit' \in Int /\ credit' + v + o >= x
  <2>1. CASE k < b + r
    BY <1>2, <1>4, <1>6, <1>7, <2>1
  <2>2. CASE ~(k < b + r)
    <3>1. credit' = b + r
      BY <1>7, <2>2
    <3>2. (b + r) + v + o >= x
      BY <1>2, <1>3, <1>4, <1>6
    <3> QED
      BY <1>2, <3>1, <3>2
  <2> QED
    BY <2>1, <2>2
<1>9. owedBy(loads') = owedBy(loads)
  BY <1>1
<1>10. now' \in Nat
  BY <1>1 DEF UpInv, UpTyped
<1>11. /\ tokens' \in 0 .. Capacity /\ credit' \in Int /\ uncharged' \in Nat
       /\ credit' + uncharged' + owedBy(loads') >= tokens'
  BY <1>2, <1>4, <1>6, <1>8, <1>9
<1> QED
  BY <1>1, <1>10, <1>11 DEF UpInv, UpTyped, Queued, LoadsTyped


LEMMA LimiterRight == Spec => []UpInv
<1>1. Init => UpInv
  <2> SUFFICES ASSUME Init PROVE UpInv
    OBVIOUS
  <2>1. UpTyped
    BY NumbersTyped DEF Init, UpTyped, LoadsTyped
  <2>2. Queued(queue, loads)
    BY DEF Init, Queued
  <2>3. credit = Capacity /\ uncharged = 0 /\ tokens = Capacity /\ owedBy(loads) \in Nat
    BY <2>1, OwedTyped DEF Init, UpTyped
  <2>4. credit + uncharged + owedBy(loads) >= tokens
    BY <2>3, NumbersTyped
  <2> QED
    BY <2>1, <2>2, <2>4 DEF UpInv
<1>2. UpInv /\ [Next]_vars => UpInv'
  <2> SUFFICES ASSUME UpInv, [Next]_vars PROVE UpInv'
    OBVIOUS
  <2>1. CASE TimerFires
    BY <2>1, TimerKeeps
  <2>2. CASE Tick
    BY <2>2, ClockKeeps
  <2>3. ASSUME NEW c \in Callers, Step(c) PROVE UpInv'
    <3>1. ASSUME NEW k \in Keys, Hit(c, k) PROVE UpInv'
      BY <3>1, HitKeeps
    <3>2. ASSUME NEW k \in Keys, Join(c, k) PROVE UpInv'
      BY <3>2, JoinKeeps
    <3>3. ASSUME NEW k \in Keys, Start(c, k) PROVE UpInv'
      BY <3>3, StartKeeps
    <3>4. ASSUME NEW e \in AnyExtra, Answer(c, e) PROVE UpInv'
      BY <3>4, AnswerKeeps
    <3>5. CASE Store(c)
      BY <3>5, StoreKeeps
    <3>6. ASSUME NEW e \in AnyExtra, Refuse(c, e) PROVE UpInv'
      BY <3>6, RefuseKeeps
    <3>7. CASE Retry(c)
      BY <3>7, RetryKeeps
    <3>8. ASSUME NEW e \in AnyExtra, Fail(c, e) PROVE UpInv'
      BY <3>8, FailKeeps
    <3> QED
      BY <2>3, <3>1, <3>2, <3>3, <3>4, <3>5, <3>6, <3>7, <3>8 DEF Step
  <2>4. CASE UNCHANGED vars
    <3>1. UNCHANGED <<tokens, queue, cache, pending, loads, calls, now, credit, uncharged>>
      BY <2>4 DEF vars, budget
    <3>2. owedBy(loads') = owedBy(loads)
      BY <3>1
    <3>3. UpTyped' /\ Queued(queue', loads')
      BY <3>1 DEF UpInv, UpTyped, Queued, LoadsTyped
    <3> QED
      BY <3>1, <3>2, <3>3 DEF UpInv
  <2> QED
    BY <2>1, <2>2, <2>3, <2>4 DEF Next
<1> QED
  BY <1>1, <1>2, PTL DEF Spec

\* What leaves for the exchange, weighed as the exchange does, exceeds its budget
\* by no more than the items still to be paid for and what no code pays for: the
\* part of a weight above the whole budget and the items of lost answers
\* (rateLimiter.ts; hlClient.ts, info; http.ts, postJson).
THEOREM BudgetKept == Spec => []WithinBudget
<1>1. UpInv => WithinBudget
  <2> SUFFICES ASSUME UpInv PROVE WithinBudget
    OBVIOUS
  <2>1. /\ credit + uncharged + owedBy(loads) >= tokens
        /\ tokens \in Nat /\ credit \in Int /\ uncharged \in Nat
    BY NumbersTyped DEF UpInv, UpTyped
  <2>2. owedBy(loads) \in Nat /\ owed = owedBy(loads)
    BY OwedTyped DEF UpInv, UpTyped, owed, owedBy
  <2> QED
    BY <2>1, <2>2 DEF WithinBudget
<1> QED
  BY <1>1, LimiterRight, PTL


\* An entry expires TTL after it was stored, and a call was made before now.
FreshInv ==
    /\ \A k \in Keys : cache[k] # None => cache[k].exp = cache[k].stored + TTL
    /\ \A c \in Callers : calls[c] # None => calls[c].asked <= now
    /\ AnswersAreFresh

LEMMA NewCallFresh ==
  ASSUME UpTyped, FreshInv, NEW c \in Callers, NEW k \in Keys, NEW on \in Callers \cup {None},
         NEW at \in Nat \cup {None}, at # None => now < at + TTL,
         calls' = [calls EXCEPT ![c] = NewCall(k, on, at)], now' = now,
         \A j \in Keys : cache'[j] # None => cache'[j] = cache[j]
  PROVE  FreshInv'
<1> DEFINE v == NewCall(k, on, at)
<1>1. v.asked = now /\ v.stored = at
  BY DEF NewCall
<1> HIDE DEF v
<1>2. \A d \in Callers : calls'[d] = calls[d] \/ calls'[d] = v
  BY DEF UpTyped, v
<1>3. now \in Nat
  BY DEF UpTyped
<1>4. \A j \in Keys : cache'[j] # None => cache'[j].exp = cache'[j].stored + TTL
  BY DEF FreshInv
<1>5. \A d \in Callers : calls'[d] # None => calls'[d].asked <= now'
  BY <1>1, <1>2, <1>3 DEF FreshInv
<1>6. AnswersAreFresh'
  BY <1>1, <1>2 DEF FreshInv, AnswersAreFresh
<1> QED
  BY <1>4, <1>5, <1>6 DEF FreshInv

LEMMA HitFresh ==
  ASSUME UpTyped, FreshInv, NEW c \in Callers, NEW k \in Keys, Hit(c, k)
  PROVE  FreshInv'
<1>1. cache[k].stored \in Nat /\ now < cache[k].stored + TTL
  <2>1. cache[k] \in Entry /\ cache[k].exp = cache[k].stored + TTL /\ cache[k].exp > now
    BY DEF Hit, live, UpTyped, FreshInv
  <2>2. cache[k].stored \in Nat /\ cache[k].exp \in Nat /\ now \in Nat
    BY <2>1 DEF Entry, UpTyped
  <2> QED
    BY <2>1, <2>2
<1>2. /\ calls' = [calls EXCEPT ![c] = NewCall(k, None, cache[k].stored)]
      /\ now' = now /\ cache' = cache
  BY DEF Hit
<1> QED
  BY <1>1, <1>2, NewCallFresh

LEMMA MissFresh ==
  ASSUME UpTyped, FreshInv, NEW c \in Callers, NEW k \in Keys, Join(c, k) \/ Start(c, k)
  PROVE  FreshInv'
<1>1. drop(k) /\ now' = now
  BY DEF Join, Start
<1>2. PICK on \in Callers : calls' = [calls EXCEPT ![c] = NewCall(k, on, None)]
  BY DEF Join, Start, UpTyped
<1>3. \A j \in Keys : cache'[j] # None => cache'[j] = cache[j]
  BY <1>1, DropKeeps DEF UpTyped
<1> QED
  BY <1>1, <1>2, <1>3, NewCallFresh

\* What a load gives those who wait for it is stored at that moment.
LEMMA SettleFresh ==
  ASSUME UpTyped, FreshInv, NEW c \in Callers, NEW value \in {now, Failed}, settle(c, value),
         now' = now
  PROVE  /\ \A d \in Callers : calls'[d] # None => calls'[d].asked <= now'
         /\ AnswersAreFresh'
<1>1. now \in Nat /\ TTL \in Nat \ {0} /\ now < now + TTL
  BY NumbersTyped DEF UpTyped
<1>2. ASSUME NEW d \in Callers, calls'[d] # calls[d]
      PROVE  /\ calls[d] # None /\ calls[d] \in Call
             /\ calls'[d].asked = calls[d].asked /\ calls'[d].stored = value
  <2>1. /\ calls[d] # None
        /\ calls'[d] = [calls[d] EXCEPT !.on = None, !.stored = value]
    BY <1>2 DEF settle
  <2>2. calls[d] \in Call
    BY <2>1 DEF UpTyped
  <2> QED
    BY <2>1, <2>2 DEF Call
<1>3. \A d \in Callers : calls'[d] # None => calls'[d].asked <= now'
  BY <1>2 DEF FreshInv
<1>4. AnswersAreFresh'
  <2> SUFFICES ASSUME NEW d \in Callers, calls'[d] # None, calls'[d].stored \notin {None, Failed}
               PROVE  calls'[d].asked < calls'[d].stored + TTL
    BY DEF AnswersAreFresh
  <2>1. CASE calls'[d] = calls[d]
    BY <2>1 DEF FreshInv, AnswersAreFresh
  <2>2. CASE calls'[d] # calls[d]
    <3>1. /\ calls'[d].asked = calls[d].asked /\ calls'[d].stored = now
          /\ calls[d].asked <= now /\ calls[d].asked \in Nat
      BY <1>2, <2>2 DEF FreshInv, Call
    <3> QED
      BY <1>1, <3>1
  <2> QED
    BY <2>1, <2>2
<1> QED
  BY <1>3, <1>4

LEMMA StoreFresh == ASSUME UpTyped, FreshInv, NEW c \in Callers, Store(c) PROVE FreshInv'
<1>1. settle(c, now) /\ now' = now /\ stored(loads[c].key) /\ loads[c].key \in Keys
  BY DEF Store, UpTyped, LoadsTyped, Load
<1>2. /\ \A d \in Callers : calls'[d] # None => calls'[d].asked <= now'
      /\ AnswersAreFresh'
  BY <1>1, SettleFresh
<1>3. \A j \in Keys : \/ cache'[j] = None \/ cache'[j] = cache[j]
                      \/ cache'[j] = [stored |-> now, exp |-> now + TTL]
  BY <1>1, StoredIs DEF UpTyped
<1>4. \A j \in Keys : cache'[j] # None => cache'[j].exp = cache'[j].stored + TTL
  BY <1>3 DEF FreshInv
<1> QED
  BY <1>2, <1>4 DEF FreshInv

LEMMA FailFresh ==
  ASSUME UpTyped, FreshInv, NEW c \in Callers, NEW e, Fail(c, e)
  PROVE  FreshInv'
<1>1. settle(c, Failed) /\ now' = now /\ cache' = cache
  BY DEF Fail
<1>2. /\ \A d \in Callers : calls'[d] # None => calls'[d].asked <= now'
      /\ AnswersAreFresh'
  BY <1>1, SettleFresh
<1> QED
  BY <1>1, <1>2 DEF FreshInv

LEMMA RestFresh ==
  ASSUME UpTyped, FreshInv, UNCHANGED <<cache, calls>>, now' = now \/ now' = now + 1
  PROVE  FreshInv'
<1>1. ASSUME NEW d \in Callers, calls[d] # None PROVE calls[d].asked <= now'
  <2>1. calls[d] \in Call
    BY <1>1 DEF UpTyped
  <2>2. calls[d].asked <= now /\ now \in Nat /\ calls[d].asked \in Nat
    BY <1>1, <2>1 DEF UpTyped, FreshInv, Call
  <2> QED
    BY <2>2
<1>2. AnswersAreFresh'
  BY DEF FreshInv, AnswersAreFresh
<1> QED
  BY <1>1, <1>2 DEF FreshInv

\* Nobody is given a value that was stored TTL or longer before he asked,
\* whoever loaded it and however long that took (cache.ts, getOrLoad).
THEOREM NeverStale == Spec => []AnswersAreFresh
<1>1. Init => FreshInv
  BY DEF Init, FreshInv, AnswersAreFresh
<1>2. UpTyped /\ FreshInv /\ [Next]_vars => FreshInv'
  <2> SUFFICES ASSUME UpTyped, FreshInv, [Next]_vars PROVE FreshInv'
    OBVIOUS
  <2>1. CASE TimerFires
    BY <2>1, RestFresh DEF TimerFires
  <2>2. CASE Tick
    BY <2>2, RestFresh DEF Tick
  <2>3. ASSUME NEW c \in Callers, Step(c) PROVE FreshInv'
    <3>1. ASSUME NEW k \in Keys, Hit(c, k) PROVE FreshInv'
      BY <3>1, HitFresh
    <3>2. ASSUME NEW k \in Keys, Join(c, k) \/ Start(c, k) PROVE FreshInv'
      BY <3>2, MissFresh
    <3>3. ASSUME NEW e \in AnyExtra, Answer(c, e) PROVE FreshInv'
      BY <3>3, RestFresh DEF Answer
    <3>4. CASE Store(c)
      BY <3>4, StoreFresh
    <3>5. ASSUME NEW e \in AnyExtra, Refuse(c, e) PROVE FreshInv'
      BY <3>5, RestFresh DEF Refuse
    <3>6. CASE Retry(c)
      BY <3>6, RestFresh DEF Retry
    <3>7. ASSUME NEW e \in AnyExtra, Fail(c, e) PROVE FreshInv'
      BY <3>7, FailFresh
    <3> QED
      BY <2>3, <3>1, <3>2, <3>3, <3>4, <3>5, <3>6, <3>7 DEF Step
  <2>4. CASE UNCHANGED vars
    BY <2>4, RestFresh DEF vars
  <2> QED
    BY <2>1, <2>2, <2>3, <2>4 DEF Next
<1>3. UpInv => UpTyped
  BY DEF UpInv
<1>4. FreshInv => AnswersAreFresh
  BY DEF FreshInv
<1> QED
  BY <1>1, <1>2, <1>3, <1>4, LimiterRight, PTL DEF Spec


------------------------------------------------------------------------------
(* Whale flow. *)

Snapshot == [at : Nat, net : Int]

\* What the cohort's positions in a coin are worth.
netHeld(c) == Sum(valuesIn(c), FlowWallets)

FlowTyped ==
    /\ positions \in [FlowWallets -> [FlowCoins -> Sizes]]
    /\ price \in [FlowCoins -> MarkPrices]
    /\ series \in [FlowCoins -> Seq(Snapshot)]
    /\ flowCalls = [k \in FlowCalls |-> flowCalls[k]]
    /\ flowNow \in Nat /\ changedAt \in [FlowCoins -> Nat]
    /\ \A c \in FlowCoins : changedAt[c] <= flowNow

\* A view is of this unit of time or the last, and right for the coins that
\* have not changed since it was taken.
ViewsRight ==
    \A k \in FlowCalls : flowCalls[k] # NoView =>
        LET v == flowCalls[k] IN
        /\ v.at \in Nat /\ v.at <= flowNow /\ flowNow <= v.at + 1
        /\ \A c \in FlowCoins : /\ v.view[c].net \in Int
                                /\ changedAt[c] < v.at => v.view[c].net = netHeld(c)

\* So is a snapshot, but for a unit of time.
SnapshotsRight ==
    \A c \in FlowCoins : \A i \in 1 .. Len(series[c]) :
        /\ series[c][i].at <= flowNow
        /\ changedAt[c] < series[c][i].at - 1 => series[c][i].net = netHeld(c)

FlowInv == FlowTyped /\ ViewsRight /\ SnapshotsRight

LEMMA HoldsTyped == ASSUME FlowTyped, NEW c \in FlowCoins PROVE netHeld(c) \in Int
<1>1. ASSUME NEW w \in FlowWallets PROVE valuesIn(c)[w] \in Int
  <2>1. PICK x \in Int, p \in Int : x = positions[w][c] /\ p = price[c]
    BY FlowAssumption DEF FlowTyped
  <2> QED
    BY <2>1 DEF valuesIn
<1> QED
  BY <1>1, FlowAssumption, SumTyped DEF netHeld

\* A trade, or a move of the price, changes what the positions in one coin are
\* worth, and what is known of the others stays right.
LEMMA ChangeKeeps ==
  ASSUME FlowInv, FlowTyped', NEW c \in FlowCoins,
         UNCHANGED <<series, flowCalls, flowNow>>,
         \/ changedAt' = [changedAt EXCEPT ![c] = flowNow]
         \/ changedAt' = changedAt /\ netHeld(c)' = netHeld(c),
         \A x \in FlowCoins : x # c => netHeld(x)' = netHeld(x)
  PROVE  FlowInv'
<1>1. /\ \A x \in FlowCoins : x # c => changedAt'[x] = changedAt[x]
      /\ changedAt'[c] = flowNow \/ (changedAt'[c] = changedAt[c] /\ netHeld(c)' = netHeld(c))
      /\ flowNow \in Nat
  BY DEF FlowInv, FlowTyped
<1>2. ViewsRight'
  BY <1>1 DEF FlowInv, ViewsRight
<1>3. SnapshotsRight'
  <2> SUFFICES ASSUME NEW x \in FlowCoins, NEW i \in 1 .. Len(series[x])
               PROVE  /\ series[x][i].at <= flowNow
                      /\ changedAt'[x] < series[x][i].at - 1 => series[x][i].net = netHeld(x)'
    BY DEF SnapshotsRight
  <2>1. series[x][i].at \in Nat /\ series[x][i].at <= flowNow
    <3>1. series[x][i] \in Snapshot
      BY DEF FlowInv, FlowTyped
    <3> QED
      BY <3>1 DEF FlowInv, SnapshotsRight, Snapshot
  <2>2. CASE x = c /\ changedAt'[c] = flowNow
    BY <1>1, <2>1, <2>2
  <2>3. CASE changedAt'[x] = changedAt[x] /\ netHeld(x)' = netHeld(x)
    BY <2>3 DEF FlowInv, SnapshotsRight
  <2> QED
    BY <1>1, <2>2, <2>3
<1> QED
  BY <1>2, <1>3 DEF FlowInv

LEMMA TradeKeeps ==
  ASSUME FlowInv, NEW w \in FlowWallets, NEW c \in FlowCoins, NEW size \in Sizes,
         trade(w, c, size)
  PROVE  FlowInv'
<1>1. FlowTyped'
  BY DEF FlowInv, FlowTyped, trade
<1>2. \A x \in FlowCoins : x # c => netHeld(x)' = netHeld(x)
  <2> SUFFICES ASSUME NEW x \in FlowCoins, x # c PROVE valuesIn(x)' = valuesIn(x)
    BY DEF netHeld
  <2> QED
    BY DEF valuesIn, trade, FlowInv, FlowTyped
<1> QED
  BY <1>1, <1>2, ChangeKeeps DEF trade

LEMMA RepriceKeeps ==
  ASSUME FlowInv, NEW c \in FlowCoins, NEW p \in MarkPrices, reprice(c, p)
  PROVE  FlowInv'
<1>1. FlowTyped'
  BY DEF FlowInv, FlowTyped, reprice
<1>2. \A x \in FlowCoins : x # c => netHeld(x)' = netHeld(x)
  <2> SUFFICES ASSUME NEW x \in FlowCoins, x # c PROVE valuesIn(x)' = valuesIn(x)
    BY DEF netHeld
  <2> QED
    BY DEF valuesIn, reprice, FlowInv, FlowTyped
<1>3. (\A w \in FlowWallets : positions[w][c] = 0) => netHeld(c)' = netHeld(c)
  <2> SUFFICES ASSUME \A w \in FlowWallets : positions[w][c] = 0
               PROVE  valuesIn(c)' = valuesIn(c)
    BY DEF netHeld
  <2>1. PICK old \in Int, new \in Int : old = price[c] /\ new = price'[c]
    BY <1>1, FlowAssumption DEF FlowInv, FlowTyped
  <2>2. 0 * old = 0 * new
    OBVIOUS
  <2>3. \A w \in FlowWallets : positions[w][c] * price[c] = positions'[w][c] * price'[c]
    BY <2>1, <2>2 DEF reprice
  <2> QED
    BY <2>3 DEF valuesIn
<1> QED
  BY <1>1, <1>2, <1>3, ChangeKeeps DEF reprice

LEMMA LoadKeeps ==
  ASSUME FlowInv, NEW k \in FlowCalls, loadAccounts(k)
  PROVE  FlowInv'
<1>0. UNCHANGED <<positions, price, series, flowNow, changedAt>>
  BY DEF loadAccounts
<1>1. FlowTyped' /\ UNCHANGED <<positions, price, series, flowNow, changedAt>>
  <2>1. flowCalls' = [j \in FlowCalls |-> flowCalls'[j]]
    <3>1. PICK loaded \in SUBSET FlowWallets : accounts(k, loaded)
      BY DEF loadAccounts
    <3> QED
      BY <3>1 DEF FlowInv, FlowTyped, accounts
  <2> QED
    BY <1>0, <2>1 DEF FlowInv, FlowTyped
<1>2. \A c \in FlowCoins : netHeld(c)' = netHeld(c)
  BY <1>1 DEF netHeld, valuesIn
<1>3. SnapshotsRight'
  BY <1>1, <1>2 DEF FlowInv, SnapshotsRight
<1> DEFINE v == [view |-> aggregate(FlowWallets), at |-> flowNow]
<1>4. flowCalls' = flowCalls \/ flowCalls' = [flowCalls EXCEPT ![k] = v]
  BY DEF loadAccounts, accounts
<1>5. v.at = flowNow /\ \A c \in FlowCoins : v.view[c].net = netHeld(c)
  BY DEF aggregate, netHeld, Sum
<1>6. \A c \in FlowCoins : netHeld(c) \in Int
  BY HoldsTyped DEF FlowInv
<1> HIDE DEF v
<1>7. ViewsRight'
  <2>1. flowNow \in Nat
    BY DEF FlowInv, FlowTyped
  <2>2. ASSUME NEW j \in FlowCalls, flowCalls'[j] # NoView
        PROVE  flowCalls'[j] = v \/ flowCalls'[j] = flowCalls[j]
    BY <1>4 DEF FlowInv, FlowTyped
  <2> QED
    BY <1>1, <1>2, <1>5, <1>6, <2>1, <2>2 DEF FlowInv, ViewsRight
<1> QED
  BY <1>1, <1>3, <1>7 DEF FlowInv

LEMMA TickKeeps == ASSUME FlowInv, flowTick PROVE FlowInv'
<1>1. FlowTyped' /\ UNCHANGED <<positions, price, series, flowCalls, changedAt>>
  BY DEF FlowInv, FlowTyped, flowTick
<1>2. \A c \in FlowCoins : netHeld(c)' = netHeld(c)
  BY <1>1 DEF netHeld, valuesIn
<1>3. flowNow \in Nat /\ flowNow' = flowNow + 1
      /\ \A k \in FlowCalls : flowCalls[k] # NoView => flowCalls[k].at = flowNow
  BY DEF FlowInv, FlowTyped, flowTick
<1>4. ViewsRight'
  BY <1>1, <1>2, <1>3 DEF FlowInv, ViewsRight
<1>5. SnapshotsRight'
  <2> SUFFICES ASSUME NEW x \in FlowCoins, NEW i \in 1 .. Len(series[x])
               PROVE  /\ series[x][i].at <= flowNow + 1
                      /\ changedAt[x] < series[x][i].at - 1 => series[x][i].net = netHeld(x)
    BY <1>1, <1>2, <1>3 DEF SnapshotsRight
  <2>1. series[x][i].at \in Nat /\ series[x][i].at <= flowNow
    <3>1. series[x][i] \in Snapshot
      BY DEF FlowInv, FlowTyped
    <3> QED
      BY <3>1 DEF FlowInv, SnapshotsRight, Snapshot
  <2> QED
    BY <1>3, <2>1 DEF FlowInv, SnapshotsRight
<1> QED
  BY <1>1, <1>4, <1>5 DEF FlowInv

\* What a call finds of a coin: some of its snapshots, all that are retained.
LEMMA RememberedIs ==
  ASSUME FlowInv, NEW c \in FlowCoins, NEW q \in remembered(c)
  PROVE  /\ q \in Seq(Snapshot)
         /\ \A i \in 1 .. Len(q) : \E j \in 1 .. Len(series[c]) : q[i] = series[c][j]
         /\ \A j \in 1 .. Len(series[c]) :
               retained(series[c][j]) => \E i \in 1 .. Len(q) : q[i] = series[c][j]
<1> DEFINE s == series[c]
<1>1. s \in Seq(Snapshot) /\ Len(s) \in Nat
  BY DEF FlowInv, FlowTyped
<1>2. CASE q = s
  BY <1>1, <1>2
<1>3. ASSUME NEW n \in 0 .. Len(s), \A i \in 1 .. n : ~retained(s[i]), q = butFirst(s, n)
      PROVE  /\ q \in Seq(Snapshot)
             /\ \A i \in 1 .. Len(q) : \E j \in 1 .. Len(s) : q[i] = s[j]
             /\ \A j \in 1 .. Len(s) : retained(s[j]) => \E i \in 1 .. Len(q) : q[i] = s[j]
  <2> HIDE DEF s
  <2>1. /\ q \in Seq(Snapshot) /\ Len(q) = Len(s) - n
        /\ \A i \in 1 .. Len(q) : q[i] = s[n + i] /\ n + i \in 1 .. Len(s)
    BY <1>1, <1>3, RestOf DEF butFirst
  <2>2. ASSUME NEW j \in 1 .. Len(s), retained(s[j]) PROVE \E i \in 1 .. Len(q) : q[i] = s[j]
    <3>1. j > n
      BY <1>1, <1>3, <2>2
    <3>2. j - n \in 1 .. Len(q) /\ n + (j - n) = j
      BY <1>1, <2>1, <3>1
    <3>3. q[j - n] = s[j]
      BY <2>1, <3>2
    <3> QED
      BY <3>2, <3>3
  <2> QED
    BY <2>1, <2>2
<1> QED
  BY <1>2, <1>3 DEF remembered

\* The new series of a coin: some of the old, and the snapshot just taken.
LEMMA RecordedIs ==
  ASSUME FlowTyped, NEW q \in Seq(Snapshot), NEW net \in Int
  PROVE  /\ recorded(q, net) \in Seq(Snapshot)
         /\ \A i \in 1 .. Len(recorded(q, net)) :
               \/ recorded(q, net)[i] = [at |-> flowNow, net |-> net]
               \/ \E j \in 1 .. Len(q) : recorded(q, net)[i] = q[j]
<1> DEFINE new == [at |-> flowNow, net |-> net]
           s == Append(q, new)
           first == {n \in 0 .. Len(q) : retained(s[n + 1]) /\ Len(s) - n <= MaxPerKey}
           r == recorded(q, net)
<1>1. new \in Snapshot
  BY DEF FlowTyped, Snapshot
<1>2. new.at = flowNow
  OBVIOUS
<1> HIDE DEF new
<1>3. s \in Seq(Snapshot) /\ Len(s) = Len(q) + 1 /\ s[Len(q) + 1] = new /\ Len(q) \in Nat
  BY <1>1
<1>4. \A i \in 1 .. Len(s) : s[i] = new \/ \E j \in 1 .. Len(q) : s[i] = q[j]
  BY <1>1
<1>5. r = s \/ r = butFirst(s, Min(first))
  BY DEF recorded, new
<1> HIDE DEF s
<1>6. Min(first) \in 0 .. Len(q)
  <2>1. retained(new)
    BY <1>2, FlowAssumption DEF retained, age, FlowTyped
  <2>2. Len(q) \in first
    BY <1>3, <2>1, FlowAssumption
  <2>3. first \in SUBSET Nat /\ first # {}
    BY <2>2
  <2>4. Min(first) \in first
    <3> HIDE DEF first
    <3> QED
      BY <2>3, LeastOf DEF Min
  <2> QED
    BY <2>4
<1>7. ASSUME NEW n \in 0 .. Len(q), r = butFirst(s, n)
      PROVE  /\ r \in Seq(Snapshot)
             /\ \A i \in 1 .. Len(r) : r[i] = new \/ \E j \in 1 .. Len(q) : r[i] = q[j]
  <2> HIDE DEF r
  <2>1. n \in 0 .. Len(s)
    BY <1>3
  <2>2. /\ r \in Seq(Snapshot)
        /\ \A i \in 1 .. Len(r) : r[i] = s[n + i] /\ n + i \in 1 .. Len(s)
    BY <1>3, <1>7, <2>1, RestOf DEF butFirst
  <2> QED
    BY <1>4, <2>2
<1> HIDE DEF first
<1>8. /\ r \in Seq(Snapshot)
      /\ \A i \in 1 .. Len(r) : r[i] = new \/ \E j \in 1 .. Len(q) : r[i] = q[j]
  <2>1. CASE r = s
    <3> HIDE DEF r
    <3> QED
      BY <1>3, <1>4, <2>1
  <2> QED
    BY <1>5, <1>6, <1>7, <2>1
<1> QED
  BY <1>8 DEF new

LEMMA EvaluateKeeps ==
  ASSUME FlowInv, NEW k \in FlowCalls, evaluate(k)
  PROVE  FlowInv'
<1> DEFINE v == flowCalls[k]
           coins == evaluated(v.view)
<1>1. /\ flowCalls[k] # NoView /\ UNCHANGED <<positions, price, flowNow, changedAt>>
      /\ flowCalls' = [flowCalls EXCEPT ![k] = NoView]
  BY DEF evaluate
<1>2. /\ v.at \in Nat /\ flowNow <= v.at + 1
      /\ \A c \in FlowCoins : /\ v.view[c].net \in Int
                              /\ changedAt[c] < v.at => v.view[c].net = netHeld(c)
  BY <1>1 DEF FlowInv, ViewsRight
<1>3. PICK found :
        /\ \A c \in coins : found[c] \in remembered(c)
        /\ series' = [c \in FlowCoins |-> IF c \in coins THEN recorded(found[c], v.view[c].net)
                                          ELSE series[c]]
  BY DEF evaluate
<1> HIDE DEF v, coins
<1>4. \A c \in FlowCoins : netHeld(c)' = netHeld(c)
  BY <1>1 DEF netHeld, valuesIn
<1>5. ASSUME NEW c \in FlowCoins
      PROVE  /\ series'[c] \in Seq(Snapshot)
             /\ \A i \in 1 .. Len(series'[c]) :
                   \/ series'[c][i] = [at |-> flowNow, net |-> v.view[c].net]
                   \/ \E j \in 1 .. Len(series[c]) : series'[c][i] = series[c][j]
  <2>1. CASE c \in coins
    <3>1. /\ found[c] \in Seq(Snapshot)
          /\ \A i \in 1 .. Len(found[c]) : \E j \in 1 .. Len(series[c]) : found[c][i] = series[c][j]
      BY <1>3, <2>1, RememberedIs
    <3>2. series'[c] = recorded(found[c], v.view[c].net) /\ v.view[c].net \in Int
      BY <1>2, <1>3, <2>1
    <3>3. /\ series'[c] \in Seq(Snapshot)
          /\ \A i \in 1 .. Len(series'[c]) :
                \/ series'[c][i] = [at |-> flowNow, net |-> v.view[c].net]
                \/ \E j \in 1 .. Len(found[c]) : series'[c][i] = found[c][j]
      <4>1. PICK q \in Seq(Snapshot), net \in Int : q = found[c] /\ net = v.view[c].net
        BY <3>1, <3>2
      <4>2. FlowTyped
        BY DEF FlowInv
      <4>3. /\ recorded(q, net) \in Seq(Snapshot)
            /\ \A i \in 1 .. Len(recorded(q, net)) :
                  \/ recorded(q, net)[i] = [at |-> flowNow, net |-> net]
                  \/ \E j \in 1 .. Len(q) : recorded(q, net)[i] = q[j]
        BY <4>2, RecordedIs
      <4> QED
        BY <3>2, <4>1, <4>3
    <3> QED
      BY <3>1, <3>3
  <2>2. CASE c \notin coins
    <3>1. series'[c] = series[c] /\ series[c] \in Seq(Snapshot)
      BY <1>3, <2>2 DEF FlowInv, FlowTyped
    <3> QED
      BY <3>1
  <2> QED
    BY <2>1, <2>2
<1>6. FlowTyped'
  <2>1. series' = [c \in FlowCoins |-> series'[c]]
    BY <1>3
  <2>2. series' \in [FlowCoins -> Seq(Snapshot)]
    BY <1>5, <2>1
  <2> QED
    BY <1>1, <2>2 DEF FlowInv, FlowTyped
<1>7. ViewsRight'
  BY <1>1, <1>4 DEF FlowInv, ViewsRight
<1>8. SnapshotsRight'
  <2> SUFFICES ASSUME NEW c \in FlowCoins, NEW i \in 1 .. Len(series'[c])
               PROVE  /\ series'[c][i].at <= flowNow
                      /\ changedAt[c] < series'[c][i].at - 1 => series'[c][i].net = netHeld(c)
    BY <1>1, <1>4 DEF SnapshotsRight
  <2>1. CASE series'[c][i] = [at |-> flowNow, net |-> v.view[c].net]
    <3>1. flowNow \in Nat /\ changedAt[c] \in Nat
      BY DEF FlowInv, FlowTyped
    <3> QED
      BY <1>2, <2>1, <3>1
  <2>2. CASE \E j \in 1 .. Len(series[c]) : series'[c][i] = series[c][j]
    BY <2>2 DEF FlowInv, SnapshotsRight
  <2> QED
    BY <1>5, <2>1, <2>2
<1> QED
  BY <1>6, <1>7, <1>8 DEF FlowInv

\* A snapshot no further than half a lookback from one lookback old.
LEMMA Within ==
  ASSUME FlowTyped, NEW s \in Snapshot, s.at <= flowNow
  PROVE  /\ off(s) \in Nat
         /\ 2 * off(s) <= Lookback
              <=> 2 * (flowNow - s.at) >= Lookback /\ 2 * (flowNow - s.at) <= 3 * Lookback
<1>1. PICK a \in Nat, n \in Nat, l \in Nat : a = s.at /\ n = flowNow /\ l = Lookback
  BY FlowAssumption DEF FlowTyped, Snapshot
<1>2. off(s) = IF n - a > l THEN (n - a) - l ELSE l - (n - a)
  BY <1>1 DEF off, age
<1>3. a <= n
  BY <1>1
<1>4. 2 * (IF n - a > l THEN (n - a) - l ELSE l - (n - a)) <= l
        <=> 2 * (n - a) >= l /\ 2 * (n - a) <= 3 * l
  BY <1>3
<1>5. off(s) \in Nat
  BY <1>2, <1>3
<1> QED
  BY <1>1, <1>2, <1>4, <1>5

\* If a snapshot may be compared with, one is.
LEMMA SomeNearest ==
  ASSUME FlowTyped, NEW q \in Seq(Snapshot), \A i \in 1 .. Len(q) : q[i].at <= flowNow,
         NEW j \in 1 .. Len(q), 2 * off(q[j]) <= Lookback
  PROVE  nearest(q) # {}
<1> DEFINE Offs == {off(q[i]) : i \in 1 .. Len(q)}
           best == {i \in DOMAIN q : /\ 2 * off(q[i]) <= Lookback
                                     /\ \A m \in DOMAIN q : off(q[i]) <= off(q[m])}
<1>1. DOMAIN q = 1 .. Len(q) /\ Lookback \in Nat
  BY FlowAssumption
<1>2. \A i \in 1 .. Len(q) : off(q[i]) \in Nat
  <2>1. \A i \in 1 .. Len(q) : q[i] \in Snapshot
    OBVIOUS
  <2> QED
    BY <2>1, Within
<1>3. Offs \in SUBSET Nat /\ Offs # {}
  BY <1>2
<1>4. PICK o \in Offs : \A x \in Offs : o <= x
  <2> HIDE DEF Offs
  <2> QED
    BY <1>3, LeastOf
<1>5. PICK i \in 1 .. Len(q) : o = off(q[i])
  OBVIOUS
<1>6. \A m \in DOMAIN q : off(q[i]) <= off(q[m])
  BY <1>1, <1>4, <1>5
<1>7. 2 * off(q[i]) <= Lookback
  <2>1. off(q[i]) <= off(q[j]) /\ off(q[i]) \in Nat /\ off(q[j]) \in Nat
    BY <1>1, <1>2, <1>6
  <2> QED
    BY <1>1, <2>1
<1>8. i \in best
  BY <1>1, <1>6, <1>7
<1>9. nearest(q) = IF persistent \/ best = {} THEN best ELSE {Min(best)}
  BY DEF nearest
<1> QED
  BY <1>8, <1>9

\* What is compared with is a snapshot that may be.
LEMMA NearestWithin ==
  ASSUME NEW q \in Seq(Snapshot), NEW i \in nearest(q)
  PROVE  i \in 1 .. Len(q) /\ 2 * off(q[i]) <= Lookback
<1> DEFINE best == {m \in DOMAIN q : /\ 2 * off(q[m]) <= Lookback
                                     /\ \A n \in DOMAIN q : off(q[m]) <= off(q[n])}
<1>1. nearest(q) = IF persistent \/ best = {} THEN best ELSE {Min(best)}
  BY DEF nearest
<1>2. DOMAIN q = 1 .. Len(q)
  OBVIOUS
<1>3. best \in SUBSET Nat
  BY <1>2
<1>4. i \in best
  <2>1. CASE best # {}
    <3> HIDE DEF best
    <3>1. Min(best) \in best
      BY <1>3, <2>1, LeastOf DEF Min
    <3> QED
      BY <1>1, <3>1
  <2>2. CASE best = {}
    BY <1>1, <2>2
  <2> QED
    BY <2>1, <2>2
<1> QED
  BY <1>2, <1>4

LEMMA EvaluateAlerts ==
  ASSUME FlowInv, NEW k \in FlowCalls, evaluate(k)
  PROVE  FlowAlertsAreRight'
<1> DEFINE v == flowCalls[k]
           coins == evaluated(v.view)
<1>1. /\ v.at \in Nat /\ flowNow <= v.at + 1
      /\ \A c \in FlowCoins : /\ v.view[c].net \in Int
                              /\ changedAt[c] < v.at => v.view[c].net = netHeld(c)
  BY DEF evaluate, FlowInv, ViewsRight
<1>2. flowNow' = flowNow /\ changedAt' = changedAt
  BY DEF evaluate
<1>3. PICK found \in [coins -> UNION {remembered(c) : c \in coins}],
            prior \in [coins -> 0 .. MaxSnapshots] :
        /\ \A c \in coins : /\ found[c] \in remembered(c)
                            /\ IF nearest(found[c]) = {} THEN prior[c] = 0
                               ELSE prior[c] \in nearest(found[c])
        /\ flowAnswer' =
             [view |-> v.view, now |-> flowNow, seen |-> series,
              alerts |-> {c \in coins : prior[c] # 0
                                        /\ far(v.view[c].net, found[c][prior[c]].net)}]
  BY DEF evaluate
<1>4. /\ flowAnswer'.view = v.view /\ flowAnswer'.now = flowNow /\ flowAnswer'.seen = series
      /\ flowAnswer'.alerts = {c \in coins : prior[c] # 0
                                             /\ far(v.view[c].net, found[c][prior[c]].net)}
  BY <1>3
<1>5. coins = {c \in FlowCoins : \/ v.view[c].held
                                 \/ \E s \in ToSet(series[c]) : persistent => retained(s)}
  BY DEF evaluated
<1> HIDE DEF v, coins
<1> SUFFICES ASSUME NEW c \in FlowCoins
             PROVE  /\ c \in flowAnswer'.alerts /\ Threshold > 0 =>
                          2 * (flowNow - 1 - changedAt[c]) <= 3 * Lookback
                    /\ (\E s \in baseline(c)' : flowNow - s.at <= Retention)
                       /\ (\A s \in baseline(c)' : far(v.view[c].net, s.net))
                       => c \in flowAnswer'.alerts
  BY <1>2, <1>4 DEF FlowAlertsAreRight, far
<1>6. /\ flowNow \in Nat /\ changedAt[c] \in Nat /\ Lookback \in Nat /\ Threshold \in Nat
      /\ series[c] \in Seq(Snapshot) /\ v.view[c].net \in Int
  BY <1>1, FlowAssumption DEF FlowInv, FlowTyped
<1>7. \A i \in 1 .. Len(series[c]) :
        /\ series[c][i] \in Snapshot /\ series[c][i].at \in Nat /\ series[c][i].net \in Int
        /\ series[c][i].at <= flowNow
        /\ changedAt[c] < series[c][i].at - 1 => series[c][i].net = netHeld(c)
  <2>1. \A i \in 1 .. Len(series[c]) : series[c][i] \in Snapshot
    BY <1>6
  <2> QED
    BY <2>1 DEF FlowInv, SnapshotsRight, Snapshot
<1>8. FlowTyped
  BY DEF FlowInv
\* What is compared with was seen, and may be compared with.
<1>9. ASSUME c \in coins, NEW i \in nearest(found[c])
      PROVE  \E j \in 1 .. Len(series[c]) :
               /\ found[c][i] = series[c][j]
               /\ 2 * (flowNow - series[c][j].at) >= Lookback
               /\ 2 * (flowNow - series[c][j].at) <= 3 * Lookback
  <2>1. PICK q \in remembered(c) : q = found[c]
    BY <1>3, <1>9
  <2>2. /\ q \in Seq(Snapshot)
        /\ \A m \in 1 .. Len(q) : \E j \in 1 .. Len(series[c]) : q[m] = series[c][j]
    BY RememberedIs
  <2>3. i \in 1 .. Len(q) /\ 2 * off(q[i]) <= Lookback
    BY <1>9, <2>1, <2>2, NearestWithin
  <2>4. PICK j \in 1 .. Len(series[c]) : q[i] = series[c][j]
    BY <2>2, <2>3
  <2>5. 2 * off(series[c][j]) <= Lookback
    BY <2>3, <2>4
  <2>6. /\ 2 * (flowNow - series[c][j].at) >= Lookback
        /\ 2 * (flowNow - series[c][j].at) <= 3 * Lookback
    BY <1>7, <1>8, <2>5, Within
  <2> QED
    BY <2>1, <2>4, <2>6
<1>10. ASSUME c \in flowAnswer'.alerts, Threshold > 0
       PROVE  2 * (flowNow - 1 - changedAt[c]) <= 3 * Lookback
  <2>1. c \in coins /\ prior[c] # 0 /\ far(v.view[c].net, found[c][prior[c]].net)
    BY <1>4, <1>10
  <2>2. prior[c] \in nearest(found[c])
    BY <1>3, <2>1
  <2>3. PICK j \in 1 .. Len(series[c]) :
          /\ found[c][prior[c]] = series[c][j]
          /\ 2 * (flowNow - series[c][j].at) <= 3 * Lookback
    BY <1>9, <2>1, <2>2
  <2>4. v.view[c].net # series[c][j].net
    <3>1. far(v.view[c].net, series[c][j].net)
      BY <2>1, <2>3
    <3>2. v.view[c].net \in Int /\ Threshold \in Nat
      BY <1>6
    <3>3. \A x \in Int : ~far(x, x)
      BY <1>10, <3>2 DEF far
    <3> QED
      BY <3>1, <3>2, <3>3
  <2>5. ~(changedAt[c] < v.at /\ changedAt[c] < series[c][j].at - 1)
    BY <1>1, <1>7, <2>4
  <2>6. PICK a \in Nat, n \in Nat, l \in Nat, h \in Nat, t \in Nat :
          a = series[c][j].at /\ n = flowNow /\ l = Lookback /\ h = changedAt[c] /\ t = v.at
    BY <1>1, <1>6, <1>7
  <2>7. n <= t + 1 /\ 2 * (n - a) <= 3 * l /\ ~(h < t /\ h < a - 1) /\ a <= n
    BY <1>1, <1>7, <2>3, <2>5, <2>6
  <2>8. 2 * (n - 1 - h) <= 3 * l
    BY <2>7
  <2> QED
    BY <2>6, <2>8
<1>11. \A i \in 1 .. Len(series[c]) :
         /\ 2 * (flowNow - series[c][i].at) >= Lookback
         /\ 2 * (flowNow - series[c][i].at) <= 3 * Lookback
         => series[c][i] \in baseline(c)'
  BY <1>4, <1>6 DEF baseline, ToSet
<1>12. ASSUME NEW s \in baseline(c)', flowNow - s.at <= Retention,
              \A x \in baseline(c)' : far(v.view[c].net, x.net)
       PROVE  c \in flowAnswer'.alerts
  <2>1. PICK i \in 1 .. Len(series[c]) :
           /\ s = series[c][i]
           /\ 2 * (flowNow - series[c][i].at) >= Lookback
           /\ 2 * (flowNow - series[c][i].at) <= 3 * Lookback
    BY <1>4, <1>6, <1>12 DEF baseline, ToSet
  <2>2. retained(series[c][i]) /\ 2 * off(series[c][i]) <= Lookback
    BY <1>7, <1>8, <1>12, <2>1, Within DEF retained, age
  <2>3. c \in coins
    BY <1>5, <1>6, <2>2 DEF ToSet
  <2>4. PICK q \in remembered(c) : q = found[c]
    BY <1>3, <2>3
  <2>5. /\ q \in Seq(Snapshot)
        /\ \A m \in 1 .. Len(q) : \E j \in 1 .. Len(series[c]) : q[m] = series[c][j]
        /\ \E m \in 1 .. Len(q) : q[m] = series[c][i]
    BY <2>2, RememberedIs
  <2>6. \A m \in 1 .. Len(q) : q[m].at <= flowNow
    BY <1>7, <2>5
  <2>7. nearest(q) # {}
    <3>1. PICK m \in 1 .. Len(q) : q[m] = series[c][i]
      BY <2>5
    <3>2. 2 * off(q[m]) <= Lookback
      BY <2>2, <3>1
    <3> QED
      BY <1>8, <2>5, <2>6, <3>2, SomeNearest
  <2>8. prior[c] \in nearest(found[c])
    BY <1>3, <2>3, <2>4, <2>7
  <2>9. prior[c] # 0
    BY <2>4, <2>5, <2>8, NearestWithin
  <2>10. PICK j \in 1 .. Len(series[c]) :
           /\ found[c][prior[c]] = series[c][j]
           /\ 2 * (flowNow - series[c][j].at) >= Lookback
           /\ 2 * (flowNow - series[c][j].at) <= 3 * Lookback
    BY <1>9, <2>3, <2>8
  <2>11. far(v.view[c].net, found[c][prior[c]].net)
    BY <1>11, <1>12, <2>10
  <2> QED
    BY <1>4, <2>3, <2>9, <2>11
<1> QED
  BY <1>10, <1>12

\* An alert is about positions that changed, in size or in what they are worth,
\* since the oldest snapshot that may be compared with, and what is far from all
\* of those is alerted on while one of them is retained
\* (whaleFlowAlerts.ts:87-124, sqliteSnapshots.ts:33-60).
THEOREM FlowRight == FlowSpec => []FlowAlertsAreRight
<1> DEFINE Inv == FlowInv /\ FlowAlertsAreRight
<1>1. FlowInit => Inv
  <2> SUFFICES ASSUME FlowInit PROVE FlowInv /\ FlowAlertsAreRight
    OBVIOUS
  <2>1. FlowTyped
    BY FlowAssumption DEF FlowInit, FlowTyped
  <2>2. ViewsRight /\ SnapshotsRight /\ FlowAlertsAreRight
    BY DEF FlowInit, ViewsRight, SnapshotsRight, FlowAlertsAreRight
  <2> QED
    BY <2>1, <2>2 DEF FlowInv
<1>2. Inv /\ [FlowNext]_flowVars => Inv'
  <2> SUFFICES ASSUME FlowInv, FlowAlertsAreRight, [FlowNext]_flowVars PROVE Inv'
    OBVIOUS
  <2>0. flowAnswer' = NoView => FlowAlertsAreRight'
    BY DEF FlowAlertsAreRight
  <2>1. ASSUME NEW w \in FlowWallets, NEW c \in FlowCoins, NEW size \in Sizes, trade(w, c, size)
        PROVE  Inv'
    BY <2>0, <2>1, TradeKeeps DEF trade
  <2>2. ASSUME NEW c \in FlowCoins, NEW p \in MarkPrices, reprice(c, p)
        PROVE  Inv'
    BY <2>0, <2>2, RepriceKeeps DEF reprice
  <2>3. ASSUME NEW k \in FlowCalls, loadAccounts(k) PROVE Inv'
    BY <2>0, <2>3, LoadKeeps DEF loadAccounts
  <2>4. ASSUME NEW k \in FlowCalls, evaluate(k) PROVE Inv'
    BY <2>4, EvaluateKeeps, EvaluateAlerts
  <2>5. CASE flowTick
    BY <2>0, <2>5, TickKeeps DEF flowTick
  <2>6. CASE UNCHANGED flowVars
    <3>1. UNCHANGED <<positions, price, series, flowCalls, flowAnswer, flowNow, changedAt>>
      BY <2>6 DEF flowVars
    <3>2. \A c \in FlowCoins : netHeld(c)' = netHeld(c)
      BY <3>1 DEF netHeld, valuesIn
    <3>3. FlowTyped'
      BY <3>1 DEF FlowInv, FlowTyped
    <3>4. ViewsRight' /\ SnapshotsRight'
      BY <3>1, <3>2 DEF FlowInv, ViewsRight, SnapshotsRight
    <3>5. FlowAlertsAreRight'
      BY <3>1 DEF FlowAlertsAreRight, baseline
    <3> QED
      BY <3>3, <3>4, <3>5 DEF FlowInv
  <2> QED
    BY <2>1, <2>2, <2>3, <2>4, <2>5, <2>6 DEF FlowNext
<1> QED
  BY <1>1, <1>2, PTL DEF FlowSpec

------------------------------------------------------------------------------
(* Arithmetic, counting and selections. *)

\* What a quotient and a remainder are.
LEMMA DivMod ==
  ASSUME NEW a \in Int, NEW c \in Nat, c > 0
  PROVE  /\ a \div c \in Int /\ a % c \in 0 .. c - 1
         /\ a = c * (a \div c) + (a % c)
OBVIOUS

\* The quotient is the one number whose multiple is the last not above a.
LEMMA DivIs ==
  ASSUME NEW a \in Int, NEW c \in Nat, c > 0, NEW k \in Int, c * k <= a, a < c * (k + 1)
  PROVE  a \div c = k
OBVIOUS

\* Products with one number grow with the other.
LEMMA ProductGrows ==
  ASSUME NEW c \in Nat, NEW x \in Int, NEW y \in Int, x <= y
  PROVE  c * x <= c * y
OBVIOUS

\* A number below n times c has a quotient below n.
LEMMA DivBelow ==
  ASSUME NEW a \in Int, NEW c \in Nat, c > 0, NEW k \in Int, a < c * k
  PROVE  a \div c < k
OBVIOUS

\* Quotients by one number grow with what is divided.
LEMMA DivGrows ==
  ASSUME NEW a \in Int, NEW b \in Int, NEW c \in Nat, c > 0, a <= b
  PROVE  a \div c <= b \div c
OBVIOUS

\* How many numbers there are up to n.
LEMMA CountUpTo == ASSUME NEW n \in Nat PROVE IsFiniteSet(1 .. n) /\ Cardinality(1 .. n) = n
<1>1. IsFiniteSet(1 .. n) /\ Cardinality(1 .. n) = IF 1 > n THEN 0 ELSE n - 1 + 1
  BY FS_Interval
<1> QED
  BY <1>1

\* Some member of a finite set is worth most.
LEMMA MostOf ==
  ASSUME NEW S, IsFiniteSet(S), S # {}, NEW f, \A x \in S : f[x] \in Int
  PROVE  \E x \in S : \A y \in S : f[y] <= f[x]
<1> DEFINE T == {n \in Nat : \A s \in SUBSET S : Cardinality(s) = n + 1 =>
                     \E x \in s : \A y \in s : f[y] <= f[x]}
<1>1. ASSUME NEW s \in SUBSET S PROVE IsFiniteSet(s) /\ Cardinality(s) \in Nat
  BY FS_Subset, FS_CardinalityType
<1>2. 0 \in T
  <2> SUFFICES ASSUME NEW s \in SUBSET S, Cardinality(s) = 0 + 1
               PROVE  \E x \in s : \A y \in s : f[y] <= f[x]
    OBVIOUS
  <2>1. IsFiniteSet(s) /\ Cardinality(s) = 1
    BY <1>1
  <2>2. PICK x : s = {x}
    BY <2>1, FS_Singleton
  <2>3. f[x] \in Int /\ x \in s
    BY <2>2
  <2> QED
    BY <2>2, <2>3
<1>3. \A n \in Nat : n \in T => n + 1 \in T
  <2> SUFFICES ASSUME NEW n \in Nat, n \in T, NEW s \in SUBSET S, Cardinality(s) = n + 1 + 1
               PROVE  \E x \in s : \A y \in s : f[y] <= f[x]
    OBVIOUS
  <2>1. PICK z \in s : TRUE
    BY FS_EmptySet
  <2>2. Cardinality(s \ {z}) = n + 1 /\ s \ {z} \in SUBSET S
    BY <1>1, Smaller
  <2>3. PICK x \in s \ {z} : \A y \in s \ {z} : f[y] <= f[x]
    BY <2>2
  <2>4. f[x] \in Int /\ f[z] \in Int /\ \A y \in s : f[y] \in Int
    OBVIOUS
  <2>5. CASE f[x] <= f[z]
    <3>1. \A y \in s : f[y] <= f[z]
      BY <2>3, <2>4, <2>5
    <3> QED
      BY <2>1, <3>1
  <2>6. CASE ~(f[x] <= f[z])
    <3>1. \A y \in s : f[y] <= f[x]
      BY <2>3, <2>4, <2>6
    <3> QED
      BY <3>1
  <2> QED
    BY <2>5, <2>6
<1> HIDE DEF T
<1>4. Cardinality(S) \in Nat /\ Cardinality(S) # 0
  BY FS_CardinalityType, FS_EmptySet
<1>5. PICK n \in Nat : n + 1 = Cardinality(S)
  BY <1>4
<1>6. n \in T
  BY <1>2, <1>3, Induction
<1> QED
  BY <1>5, <1>6 DEF T

\* ... and as many as one likes are worth no less than the rest.
LEMMA TopOf ==
  ASSUME NEW V, IsFiniteSet(V), NEW f, \A x \in V : f[x] \in Int, NEW k \in 0 .. Cardinality(V)
  PROVE  \E W \in SUBSET V : /\ Cardinality(W) = k
                             /\ \A p \in W, q \in V \ W : f[p] >= f[q]
<1> DEFINE Top(n) == \E W \in SUBSET V : /\ Cardinality(W) = n
                                         /\ \A p \in W, q \in V \ W : f[p] >= f[q]
           T == {n \in Nat : n <= Cardinality(V) => Top(n)}
<1>1. Cardinality(V) \in Nat
  BY FS_CardinalityType
<1>2. 0 \in T
  BY FS_EmptySet
<1>3. \A n \in Nat : n \in T => n + 1 \in T
  <2> SUFFICES ASSUME NEW n \in Nat, Top(n), n + 1 <= Cardinality(V) PROVE Top(n + 1)
    BY <1>1
  <2>1. PICK W \in SUBSET V : /\ Cardinality(W) = n
                              /\ \A p \in W, q \in V \ W : f[p] >= f[q]
    OBVIOUS
  <2> DEFINE R == V \ W
  <2>2. R # {} /\ IsFiniteSet(W) /\ IsFiniteSet(R) /\ \A x \in R : f[x] \in Int
    <3>1. IsFiniteSet(W) /\ IsFiniteSet(R)
      BY FS_Subset
    <3>2. R # {}
      <4> SUFFICES ASSUME W = V PROVE FALSE
        OBVIOUS
      <4> QED
        BY <1>1, <2>1
    <3> QED
      BY <3>1, <3>2
  <2>3. PICK x \in R : \A y \in R : f[y] <= f[x]
    <3> HIDE DEF R
    <3> QED
      BY <2>2, MostOf
  <2>4. PICK U \in SUBSET V : U = W \cup {x}
    OBVIOUS
  <2>5. Cardinality(U) = n + 1
    BY <2>1, <2>2, <2>3, <2>4, FS_AddElement
  <2>6. ASSUME NEW p \in U, NEW q \in V \ U PROVE f[p] >= f[q]
    <3>1. q \in R /\ q \in V \ W /\ f[q] \in Int /\ f[x] \in Int
      BY <2>4
    <3>2. CASE p \in W
      BY <2>1, <3>1, <3>2
    <3>3. CASE p = x
      BY <2>3, <3>1, <3>3
    <3> QED
      BY <2>4, <3>2, <3>3
  <2> QED
    BY <2>5, <2>6
<1> HIDE DEF T
<1>4. k \in T
  BY <1>1, <1>2, <1>3, Induction
<1> QED
  BY <1>1, <1>4 DEF T

upTo(I, i) == {j \in I : j <= i}

\* A finite set of numbers has a k-th smallest for each k up to its size, and later
\* places hold larger numbers.
LEMMA KthIs ==
  ASSUME NEW I \in SUBSET Int, IsFiniteSet(I)
  PROVE  /\ Cardinality(I) \in Nat
         /\ \A k \in 1 .. Cardinality(I) :
               kth(I, k) \in I /\ Cardinality(upTo(I, kth(I, k))) = k
         /\ \A k, l \in 1 .. Cardinality(I) : k < l => kth(I, k) < kth(I, l)
         /\ \A i \in I : \E k \in 1 .. Cardinality(I) : kth(I, k) = i
<1> DEFINE n == Cardinality(I)
           f == [i \in I |-> Cardinality(upTo(I, i))]
<1>1. n \in Nat
  BY FS_CardinalityType
<1>2. ASSUME NEW i \in I
      PROVE  /\ upTo(I, i) \in SUBSET I /\ IsFiniteSet(upTo(I, i))
             /\ Cardinality(upTo(I, i)) \in 1 .. n
  <2>1. upTo(I, i) \in SUBSET I /\ i \in upTo(I, i)
    BY DEF upTo
  <2>2. IsFiniteSet(upTo(I, i)) /\ Cardinality(upTo(I, i)) <= n
    BY <2>1, FS_Subset
  <2>3. Cardinality(upTo(I, i)) \in Nat /\ Cardinality(upTo(I, i)) # 0
    BY <2>1, <2>2, FS_CardinalityType, FS_EmptySet
  <2> QED
    BY <1>1, <2>1, <2>2, <2>3
<1>3. ASSUME NEW i \in I, NEW j \in I, i < j
      PROVE  Cardinality(upTo(I, i)) < Cardinality(upTo(I, j))
  <2>1. upTo(I, i) \in SUBSET upTo(I, j) /\ j \in upTo(I, j) /\ j \notin upTo(I, i)
    <3>1. i \in Int /\ j \in Int
      OBVIOUS
    <3>2. ASSUME NEW x \in upTo(I, i) PROVE x \in upTo(I, j)
      <4>1. x \in I /\ x \in Int /\ x <= i
        BY DEF upTo
      <4> QED
        BY <1>3, <3>1, <4>1 DEF upTo
    <3>3. j \in upTo(I, j)
      BY <3>1 DEF upTo
    <3>4. j \notin upTo(I, i)
      BY <1>3, <3>1 DEF upTo
    <3> QED
      BY <3>2, <3>3, <3>4
  <2>2. /\ Cardinality(upTo(I, i)) <= Cardinality(upTo(I, j))
        /\ Cardinality(upTo(I, j)) = Cardinality(upTo(I, i)) => upTo(I, j) = upTo(I, i)
    BY <1>2, <2>1, FS_Subset
  <2> QED
    BY <1>1, <1>2, <2>1, <2>2
<1>4. ASSUME NEW i \in I, NEW j \in I, Cardinality(upTo(I, i)) = Cardinality(upTo(I, j))
      PROVE  i = j
  <2>1. i \in Int /\ j \in Int /\ ~(i < j) /\ ~(j < i)
    BY <1>1, <1>2, <1>3, <1>4
  <2> QED
    BY <2>1
<1>5. \A k \in 1 .. n : \E i \in I : Cardinality(upTo(I, i)) = k
  <2>1. PICK T : T = 1 .. n /\ IsFiniteSet(T) /\ Cardinality(I) = Cardinality(T)
    BY <1>1, FS_Interval
  <2>2. f \in [I -> T]
    BY <1>2, <2>1
  <2>3. \A x, y \in I : f[x] = f[y] => x = y
    BY <1>4
  <2>4. \A k \in T : \E i \in I : f[i] = k
    <3>1. IsFiniteSet(I) /\ IsFiniteSet(T) /\ Cardinality(I) = Cardinality(T)
      BY <2>1
    <3> HIDE DEF f, n
    <3>2. PICK g : g = f
      OBVIOUS
    <3>3. g \in [I -> T] /\ \A x, y \in I : g[x] = g[y] => x = y
      BY <2>2, <2>3, <3>2
    <3>4. g \in Injection(I, T)
      BY <3>3 DEF Injection, IsInjective
    <3>5. g \in Surjection(I, T)
      BY <3>1, <3>4, FS_Injection
    <3>6. \A t \in T : \E x \in I : g[x] = t
      BY <3>5 DEF Surjection
    <3> QED
      BY <3>2, <3>6
  <2> QED
    BY <2>1, <2>4
<1>6. ASSUME NEW k \in 1 .. n PROVE kth(I, k) \in I /\ Cardinality(upTo(I, kth(I, k))) = k
  BY <1>5 DEF kth, upTo
<1>7. ASSUME NEW k \in 1 .. n, NEW l \in 1 .. n, k < l PROVE kth(I, k) < kth(I, l)
  <2>1. PICK x \in I, y \in I : /\ x = kth(I, k) /\ y = kth(I, l)
                               /\ Cardinality(upTo(I, x)) = k /\ Cardinality(upTo(I, y)) = l
    BY <1>6
  <2>2. x # y /\ ~(y < x)
    BY <1>1, <1>3, <1>7, <2>1
  <2> QED
    BY <2>1, <2>2
<1>8. ASSUME NEW i \in I PROVE \E k \in 1 .. n : kth(I, k) = i
  <2>1. PICK k \in 1 .. n : k = Cardinality(upTo(I, i))
    BY <1>2
  <2>2. kth(I, k) \in I /\ Cardinality(upTo(I, kth(I, k))) = Cardinality(upTo(I, i))
    BY <1>6, <2>1
  <2> QED
    BY <1>4, <2>2
<1> QED
  BY <1>1, <1>6, <1>7, <1>8

\* Nothing is left out of a selection of all places.
LEMMA PickAll ==
  ASSUME NEW n \in Nat, NEW s, DOMAIN s = 1 .. n, s = [i \in 1 .. n |-> s[i]]
  PROVE  pick(s, 1 .. n) = s
<1>1. IsFiniteSet(1 .. n) /\ Cardinality(1 .. n) = n
  BY FS_Interval
<1>2. ASSUME NEW k \in 1 .. n PROVE kth(1 .. n, k) = k
  <2>1. PICK I \in SUBSET Int : I = 1 .. n /\ IsFiniteSet(I) /\ Cardinality(I) = n
    BY <1>1
  <2>2. kth(I, k) \in I /\ Cardinality(upTo(I, kth(I, k))) = k
    BY <2>1, KthIs
  <2>3. PICK i \in 1 .. n : i = kth(I, k)
    BY <2>1, <2>2
  <2>4. upTo(I, i) = 1 .. i
    BY <2>1 DEF upTo
  <2>5. Cardinality(1 .. i) = i
    BY FS_Interval
  <2> QED
    BY <2>1, <2>2, <2>3, <2>4, <2>5
<1> QED
  BY <1>1, <1>2 DEF pick

------------------------------------------------------------------------------
(* Lists cut to pages and to curves (Listings). *)

LEMMA LeastOfTwo ==
  ASSUME NEW a \in Int, NEW b \in Int
  PROVE  Min({a, b}) = IF a <= b THEN a ELSE b
BY DEF Min

\* Two neighbouring pieces of a list are one.
LEMMA Adjacent ==
  ASSUME NEW S, NEW all \in Seq(S), NEW o \in Nat, NEW k \in Nat, o <= k, k <= Len(all)
  PROVE  SubSeq(all, o + 1, k) \o SubSeq(all, k + 1, Len(all)) = SubSeq(all, o + 1, Len(all))
<1>1. PICK m \in 1 .. Len(all) + 1, n \in k .. Len(all) :
        m = o + 1 /\ n = Len(all) /\ k \in m - 1 .. Len(all)
  OBVIOUS
<1> QED
  BY <1>1, ConcatAdjacentSubSeq

\* The pages from each offset on, one after the other.
Paged(g, all, limit) ==
    g = [o \in 0 .. Len(all) |->
            LET piece == paginate(all, o, limit)
            IN  piece.items \o (IF piece.nextOffset = NoOffset THEN <<>>
                               ELSE g[piece.nextOffset])]

\* What a page and the pages after it are.
LEMMA PageIs ==
  ASSUME NEW S, NEW all \in Seq(S), NEW limit \in Nat \ {0}, NEW o \in 0 .. Len(all), NEW g,
         Paged(g, all, limit)
  PROVE  g[o] = IF o + limit < Len(all)
                THEN SubSeq(all, o + 1, o + limit) \o g[o + limit]
                ELSE SubSeq(all, o + 1, Len(all))
<1> DEFINE piece == paginate(all, o, limit)
<1>1. Len(all) \in Nat /\ Min({o + limit, Len(all)}) = IF o + limit <= Len(all) THEN o + limit ELSE Len(all)
  BY LeastOfTwo
<1>2. g[o] = piece.items \o (IF piece.nextOffset = NoOffset THEN <<>> ELSE g[piece.nextOffset])
  <2> HIDE DEF piece
  <2> QED
    BY Zenon DEF Paged, piece
<1>3. /\ piece.items = SubSeq(all, o + 1, IF o + limit <= Len(all) THEN o + limit ELSE Len(all))
      /\ piece.nextOffset = IF o + limit < Len(all) THEN o + limit ELSE NoOffset
  BY <1>1 DEF paginate
<1>4. CASE o + limit < Len(all)
  <2>1. o + limit <= Len(all) /\ o + limit # NoOffset
    BY <1>1, <1>4, ListingsAssumption
  <2>2. piece.items = SubSeq(all, o + 1, o + limit) /\ piece.nextOffset = o + limit
    BY <1>3, <1>4, <2>1
  <2>3. g[o] = SubSeq(all, o + 1, o + limit) \o g[o + limit]
    <3> HIDE DEF piece
    <3> QED
      BY <1>2, <2>1, <2>2, Zenon
  <2> QED
    BY <1>4, <2>3, Zenon
<1>5. CASE ~(o + limit < Len(all))
  <2>1. PICK r : r = SubSeq(all, o + 1, Len(all))
    OBVIOUS
  <2>2. piece.items = r
    <3>1. (IF o + limit <= Len(all) THEN o + limit ELSE Len(all)) = Len(all)
      BY <1>1, <1>5
    <3> HIDE DEF piece
    <3> QED
      BY <1>3, <2>1, <3>1, Zenon
  <2>3. r \in Seq(S)
    BY <1>1, <2>1, SubSeqProperties
  <2>4. r \o <<>> = r
    BY <2>3, ConcatEmptySeq
  <2>5. g[o] = r \o <<>>
    BY <1>2, <1>3, <1>5, <2>2
  <2> QED
    BY <1>5, <2>1, <2>4, <2>5
<1> QED
  BY <1>4, <1>5

\* What is left of the list from each offset on is such pages.
LEMMA RestIsPaged ==
  ASSUME NEW S, NEW all \in Seq(S), NEW limit \in Nat \ {0}
  PROVE  Paged([o \in 0 .. Len(all) |-> SubSeq(all, o + 1, Len(all))], all, limit)
<1> DEFINE g == [o \in 0 .. Len(all) |-> SubSeq(all, o + 1, Len(all))]
<1>1. ASSUME NEW o \in 0 .. Len(all)
      PROVE  LET piece == paginate(all, o, limit)
             IN  SubSeq(all, o + 1, Len(all))
                   = piece.items \o (IF piece.nextOffset = NoOffset THEN <<>>
                                    ELSE g[piece.nextOffset])
  <2> DEFINE piece == paginate(all, o, limit)
  <2>1. Len(all) \in Nat /\ Min({o + limit, Len(all)}) = IF o + limit <= Len(all) THEN o + limit ELSE Len(all)
    BY LeastOfTwo
  <2>2. /\ piece.items = SubSeq(all, o + 1, IF o + limit <= Len(all) THEN o + limit ELSE Len(all))
        /\ piece.nextOffset = IF o + limit < Len(all) THEN o + limit ELSE NoOffset
    BY <2>1 DEF paginate
  <2>3. PICK r \in Seq(S) : r = SubSeq(all, o + 1, Len(all))
    <3>1. SubSeq(all, o + 1, Len(all)) \in Seq(S)
      OBVIOUS
    <3> QED
      BY <3>1
  <2>4. CASE o + limit < Len(all)
    <3>1. PICK k : k = o + limit
      OBVIOUS
    <3>2. k \in 0 .. Len(all) /\ k # NoOffset
      BY <2>1, <2>4, <3>1, ListingsAssumption
    <3>3. g[k] = SubSeq(all, k + 1, Len(all))
      BY <3>2
    <3>4. SubSeq(all, o + 1, k) \o SubSeq(all, k + 1, Len(all)) = r
      <4>1. o \in Nat /\ k \in Nat /\ o <= k /\ k <= Len(all)
        BY <2>1, <2>4, <3>1
      <4>2. SubSeq(all, o + 1, k) \o SubSeq(all, k + 1, Len(all)) = SubSeq(all, o + 1, Len(all))
        BY <4>1, Adjacent, Zenon
      <4> QED
        BY <2>3, <4>2, Zenon
    <3>5. piece.items = SubSeq(all, o + 1, k) /\ piece.nextOffset = k
      BY <2>1, <2>2, <2>4, <3>1
    <3> HIDE DEF g
    <3> QED
      BY <2>3, <3>2, <3>3, <3>4, <3>5
  <2>5. CASE ~(o + limit < Len(all))
    <3>1. piece.items = r /\ piece.nextOffset = NoOffset
      <4>1. Len(all) = IF o + limit <= Len(all) THEN o + limit ELSE Len(all)
        BY <2>1, <2>5
      <4> HIDE DEF piece
      <4> QED
        BY <2>2, <2>3, <2>5, <4>1
    <3>2. r \o <<>> = r
      BY <2>3, ConcatEmptySeq
    <3> QED
      BY <2>3, <3>1, <3>2, Zenon
  <2> QED
    BY <2>4, <2>5
<1>2. g = [o \in 0 .. Len(all) |->
             LET piece == paginate(all, o, limit)
             IN  piece.items \o (IF piece.nextOffset = NoOffset THEN <<>>
                                ELSE g[piece.nextOffset])]
  BY <1>1, Zenon
<1> QED
  BY <1>2, Zenon DEF Paged

\* Following the offsets gives every item once and in order (format.ts, paginate), for every
\* list and page size.
THEOREM PagesOfList ==
  ASSUME NEW S, NEW all \in Seq(S), NEW limit \in Nat \ {0}
  PROVE  PagesAreTheList(all, limit)
<1>1. PICK g : Paged(g, all, limit) /\ g = CHOOSE f : Paged(f, all, limit)
  BY RestIsPaged
<1>2. PagesAreTheList(all, limit) <=> g[0] = all
  <2>1. PagesAreTheList(all, limit) <=> (CHOOSE f : Paged(f, all, limit))[0] = all
    BY Zenon DEF PagesAreTheList, Paged
  <2> QED
    BY <1>1, <2>1
<1> DEFINE rest(o) == SubSeq(all, o + 1, Len(all))
           T == {m \in Nat : \A o \in 0 .. Len(all) : Len(all) - o <= m => g[o] = rest(o)}
<1>3. Len(all) \in Nat
  OBVIOUS
<1>4. ASSUME NEW o \in 0 .. Len(all), ~(o + limit < Len(all)) PROVE g[o] = rest(o)
  BY <1>1, <1>4, PageIs
<1>5. 0 \in T
  BY <1>3, <1>4
<1>6. \A m \in Nat : m \in T => m + 1 \in T
  <2> SUFFICES ASSUME NEW m \in Nat, m \in T
               PROVE  \A o \in 0 .. Len(all) : Len(all) - o <= m + 1 => g[o] = rest(o)
    <3>1. \A m \in Nat : m + 1 \in Nat
      OBVIOUS
    <3> QED
      BY <3>1, Zenon
  <2> SUFFICES ASSUME NEW o \in 0 .. Len(all), Len(all) - o <= m + 1
               PROVE  g[o] = rest(o)
    OBVIOUS
  <2> SUFFICES ASSUME o + limit < Len(all) PROVE g[o] = rest(o)
    BY <1>4
  <2>1. PICK k : k = o + limit /\ k \in 0 .. Len(all) /\ Len(all) - k <= m
    BY <1>3
  <2>2. g[k] = rest(k)
    BY <2>1
  <2>3. g[o] = SubSeq(all, o + 1, k) \o g[k]
    BY <1>1, <2>1, PageIs
  <2>4. SubSeq(all, o + 1, k) \o SubSeq(all, k + 1, Len(all)) = SubSeq(all, o + 1, Len(all))
    <3>1. o \in Nat /\ k \in Nat /\ o <= k /\ k <= Len(all)
      BY <1>3, <2>1
    <3> QED
      BY <3>1, Adjacent, Zenon
  <2> QED
    BY <2>2, <2>3, <2>4
<1> HIDE DEF T
<1>7. Len(all) \in T
  BY <1>3, <1>5, <1>6, Induction
<1>8. g[0] = rest(0)
  BY <1>3, <1>7 DEF T
<1>9. rest(0) = all
  BY SubSeqFull
<1> QED
  BY <1>2, <1>8, <1>9

\* Places of points steps of equal width among n > points items: distinct, in order,
\* before the last.
LEMMA StepsApart ==
  ASSUME NEW n \in Nat, NEW p \in Nat \ {0}, p < n
  PROVE  /\ (0 * n) \div p + 1 = 1
         /\ \A i \in 1 .. p : /\ ((i - 1) * n) \div p + 1 \in Int
                              /\ ((i - 1) * n) \div p + 1 < n
         /\ \A i, j \in 1 .. p : i < j =>
               ((i - 1) * n) \div p + 1 < ((j - 1) * n) \div p + 1
<1>1. p \in Nat /\ p > 0
  OBVIOUS
<1>2. (0 * n) \div p = 0
  <2>1. 0 * n = 0 /\ p * 0 = 0 /\ p * (0 + 1) = p
    OBVIOUS
  <2> QED
    BY <1>1, <2>1, DivIs
<1>3. ASSUME NEW i \in 1 .. p
      PROVE  ((i - 1) * n) \div p \in Int /\ ((i - 1) * n) \div p < n - 1
  <2>1. PICK a \in Int : a = (i - 1) * n
    OBVIOUS
  <2>2. a < p * (n - 1)
    <3>1. n * (i - 1) <= n * (p - 1)
      BY ProductGrows
    <3>2. n * (i - 1) = a /\ n * (p - 1) = n * p - n /\ p * (n - 1) = n * p - p /\ n * p \in Int
      BY <2>1
    <3> QED
      BY <3>1, <3>2
  <2>3. a \div p < n - 1
    BY <1>1, <2>2, DivBelow
  <2>4. a \div p \in Int
    BY <1>1, DivMod
  <2> QED
    BY <2>1, <2>3, <2>4
<1>4. ASSUME NEW i \in 1 .. p, NEW j \in 1 .. p, i < j
      PROVE  ((i - 1) * n) \div p < ((j - 1) * n) \div p
  <2>1. PICK a \in Int, b \in Int : a = (i - 1) * n /\ b = (j - 1) * n
    OBVIOUS
  <2>2. a + p <= b
    <3>1. n * i <= n * (j - 1)
      BY <1>4, ProductGrows
    <3>2. n * i = a + n /\ n * (j - 1) = b
      BY <2>1
    <3> QED
      BY <2>1, <3>1, <3>2
  <2>3. (a + p) \div p <= b \div p
    BY <1>1, <2>2, DivGrows
  <2>4. /\ a \div p \in Int /\ b \div p \in Int /\ (a + p) \div p \in Int
    BY <1>1, DivMod
  <2>5. (a + p) \div p = a \div p + 1
    <3>1. PICK k \in Int, r \in 0 .. p - 1 : k = a \div p /\ a = p * k + r
      BY <1>1, DivMod
    <3>2. p * (k + 1) <= a + p /\ a + p < p * (k + 1 + 1)
      <4>1. p * (k + 1) = p * k + p /\ p * (k + 1 + 1) = p * k + p + p /\ p * k \in Int
        OBVIOUS
      <4> QED
        BY <3>1, <4>1
    <3>3. (a + p) \div p = k + 1
      BY <1>1, <3>2, DivIs
    <3> QED
      BY <3>1, <3>3
  <2> QED
    BY <2>1, <2>3, <2>4, <2>5
<1> QED
  BY <1>2, <1>3, <1>4

\* The curve of a list, place by place.
LEMMA CurveIs ==
  ASSUME NEW n \in Nat \ {0}, NEW p \in Nat \ {0}, NEW c,
         c = downsample([i \in 1 .. n |-> i], p)
  PROVE  /\ Len(c) = (IF n <= p THEN n ELSE p + 1) /\ DOMAIN c = 1 .. Len(c)
         /\ Head(c) = 1 /\ Last(c) = n
         /\ \A i \in 1 .. Len(c) : c[i] \in Int
         /\ \A i, j \in 1 .. Len(c) : i < j => c[i] < c[j]
<1>1. PICK arr : arr = [i \in 1 .. n |-> i]
  OBVIOUS
<1>2. arr \in Seq(Int) /\ Len(arr) = n /\ Last(arr) = n /\ DOMAIN arr = 1 .. n
  BY <1>1 DEF Last
<1>3. CASE n <= p
  <2>1. c = arr
    BY <1>1, <1>2, <1>3 DEF downsample
  <2>2. Head(c) = 1
    BY <1>1, <1>2, <2>1
  <2> QED
    BY <1>1, <1>2, <1>3, <2>1, <2>2
<1>4. CASE ~(n <= p)
  <2> DEFINE s == [i \in 1 .. p |-> ((i - 1) * n) \div p + 1]
  <2>1. p < n
    BY <1>4
  <2>2. \A i \in 1 .. p : ((i - 1) * n) \div p + 1 \in 1 .. n
    <3> SUFFICES ASSUME NEW i \in 1 .. p PROVE ((i - 1) * n) \div p + 1 \in 1 .. n
      OBVIOUS
    <3>1. ((i - 1) * n) \div p + 1 \in Int /\ ((i - 1) * n) \div p + 1 < n
      BY <2>1, StepsApart
    <3>2. (0 * n) \div p <= ((i - 1) * n) \div p
      <4>1. 0 * n \in Int /\ (i - 1) * n \in Int /\ 0 * n <= (i - 1) * n
        OBVIOUS
      <4> QED
        BY <4>1, DivGrows
    <3>3. (0 * n) \div p + 1 = 1
      BY <2>1, StepsApart
    <3>4. (0 * n) \div p \in Int
      BY DivMod
    <3> QED
      BY <3>1, <3>2, <3>3, <3>4
  <2>3. c = Append([i \in 1 .. p |-> arr[((i - 1) * n) \div p + 1]], n)
    <3>1. c = IF Len(arr) <= p THEN arr
              ELSE Append([i \in 1 .. p |-> arr[((i - 1) * Len(arr)) \div p + 1]], Last(arr))
      <4>1. c = downsample(arr, p)
        BY <1>1
      <4> QED
        BY <4>1, Zenon DEF downsample
    <3> QED
      BY <1>2, <1>4, <3>1, Zenon
  <2>4. [i \in 1 .. p |-> arr[((i - 1) * n) \div p + 1]] = s
    BY <1>1, <2>2
  <2>5. s \in Seq(Int) /\ Len(s) = p /\ n \in Int
    BY <2>2
  <2>6. \A i \in 1 .. p : s[i] = ((i - 1) * n) \div p + 1
    OBVIOUS
  <2>7. s[1] = 1
    BY <2>1, <2>6, StepsApart
  <2>8. \A i, j \in 1 .. p : i < j => s[i] < s[j]
    BY <2>1, <2>6, StepsApart
  <2>9. \A i \in 1 .. p : s[i] \in Int /\ s[i] < n
    BY <2>1, <2>6, StepsApart
  <2> HIDE DEF s
  <2>10. c = Append(s, n)
    BY <2>3, <2>4
  <2>11. /\ Len(c) = p + 1 /\ c \in Seq(Int) /\ c[p + 1] = n
         /\ \A i \in 1 .. p : c[i] = s[i]
    <3>1. /\ Append(s, n) \in Seq(Int) /\ Len(Append(s, n)) = Len(s) + 1
          /\ \A i \in 1 .. Len(s) : Append(s, n)[i] = s[i]
          /\ Append(s, n)[Len(s) + 1] = n
      BY <2>5
    <3> QED
      BY <2>5, <2>10, <3>1
  <2>12. Head(c) = 1 /\ Last(c) = n /\ DOMAIN c = 1 .. Len(c)
    BY <2>7, <2>11 DEF Last
  <2>13. \A i \in 1 .. p + 1 : c[i] \in Int
    BY <2>9, <2>11
  <2>14. ASSUME NEW i \in 1 .. p + 1, NEW j \in 1 .. p + 1, i < j PROVE c[i] < c[j]
    BY <2>8, <2>9, <2>11, <2>14
  <2> QED
    BY <1>4, <2>11, <2>12, <2>13, <2>14
<1> QED
  BY <1>3, <1>4

\* A curve keeps its ends and its order (traderReport.ts, downsample), for every number of
\* items and of points.
THEOREM CurveRight ==
  ASSUME NEW n \in Nat, NEW p \in Nat \ {0}
  PROVE  CurveIsFaithful(n, p)
<1> DEFINE c == downsample([i \in 1 .. n |-> i], p)
<1> HIDE DEF c
<1>1. CASE n = 0
  BY <1>1 DEF CurveIsFaithful
<1>2. CASE n # 0
  <2>1. /\ Len(c) = (IF n <= p THEN n ELSE p + 1) /\ DOMAIN c = 1 .. Len(c)
        /\ Head(c) = 1 /\ Last(c) = n
        /\ \A i \in 1 .. Len(c) : c[i] \in Int
        /\ \A i, j \in 1 .. Len(c) : i < j => c[i] < c[j]
    BY <1>2, CurveIs DEF c
  <2>2. Len(c) <= p + 1
    BY <2>1
  <2> QED
    BY <2>1, <2>2 DEF CurveIsFaithful, c
<1> QED
  BY <1>1, <1>2

------------------------------------------------------------------------------
(* Schedules (Planning). *)

(* hl_twap_order. *)

lotsOf(lots, slices) == [i \in 1 .. slices |-> rawSlice(lots, slices, i - 1)]

\* The first m slices of lots, added up.
LEMMA FirstSlices ==
  ASSUME NEW lots \in Nat, NEW s \in Nat, s > 0, NEW m \in 0 .. s
  PROVE  Sum(lotsOf(lots, s), 1 .. m)
           = m * (lots \div s) + (IF m <= lots % s THEN m ELSE lots % s)
<1> DEFINE f == lotsOf(lots, s)
           q == lots \div s
           r == lots % s
           upto(k) == k * q + (IF k <= r THEN k ELSE r)
           T == {k \in Nat : k <= s => Sum(f, 1 .. k) = upto(k)}
<1>1. q \in Int /\ r \in 0 .. s - 1
  BY DivMod
<1>2. \A i \in 1 .. s : f[i] = q + (IF i - 1 < r THEN 1 ELSE 0)
  BY DEF lotsOf, rawSlice
<1>3. 0 \in T
  <2>1. 1 .. 0 = {}
    OBVIOUS
  <2>2. upto(0) = 0
    BY <1>1
  <2> QED
    BY <2>1, <2>2, SumOfNone
<1>4. \A k \in Nat : k \in T => k + 1 \in T
  <2> SUFFICES ASSUME NEW k \in Nat, k + 1 <= s, Sum(f, 1 .. k) = upto(k)
               PROVE  Sum(f, 1 .. k + 1) = upto(k + 1)
    OBVIOUS
  <2>1. PICK S : S = 1 .. k + 1 /\ IsFiniteSet(S)
    BY FS_Interval
  <2>2. S \ {k + 1} = 1 .. k /\ k + 1 \in S /\ \A i \in S : i \in 1 .. s
    BY <2>1
  <2>3. \A i \in S : f[i] \in Int
    BY <1>1, <1>2, <2>2
  <2> HIDE DEF f
  <2>4. Sum(f, S) = f[k + 1] + Sum(f, 1 .. k)
    <3>1. PICK x \in S : x = k + 1
      BY <2>2
    <3>2. IsFiniteSet(S)
      BY <2>1
    <3>3. Sum(f, S) = f[x] + Sum(f, S \ {x})
      BY <2>3, <3>2, SumWithout
    <3> QED
      BY <2>2, <3>1, <3>3
  <2>5. f[k + 1] = q + (IF k < r THEN 1 ELSE 0)
    BY <1>2, <2>2
  <2> HIDE DEF q, r
  <2>6. (k + 1) * q = k * q + q
    BY <1>1
  <2> QED
    BY <1>1, <2>1, <2>4, <2>5, <2>6
<1> HIDE DEF T
<1>5. m \in T
  BY <1>3, <1>4, Induction
<1> QED
  BY <1>5 DEF T

\* All slices add up to the lots.
LEMMA AllSlices ==
  ASSUME NEW lots \in Nat, NEW s \in Nat, s > 0
  PROVE  Sum(lotsOf(lots, s), 1 .. s) = lots
<1>1. s \in 0 .. s /\ lots % s < s /\ lots % s \in Int
  BY DivMod
<1>2. lots = s * (lots \div s) + (lots % s)
  BY DivMod
<1>3. Sum(lotsOf(lots, s), 1 .. s) = s * (lots \div s) + (lots % s)
  <2>1. Sum(lotsOf(lots, s), 1 .. s)
          = s * (lots \div s) + (IF s <= lots % s THEN s ELSE lots % s)
    BY <1>1, FirstSlices
  <2>2. ~(s <= lots % s)
    BY <1>1
  <2> QED
    BY <2>1, <2>2, Zenon
<1> QED
  BY <1>2, <1>3

\* Slices come in order and end within the duration.
LEMMA OffsetsInOrder ==
  ASSUME NEW d \in Nat, NEW s \in Nat, s > 0, NEW i \in 0 .. s - 1
  PROVE  /\ offset(d, s, i) \in Int /\ offset(d, s, i) <= d
         /\ \A j \in 0 .. s - 1 : i < j => offset(d, s, i) <= offset(d, s, j)
<1>1. CASE s = 1
  BY <1>1 DEF offset
<1>2. CASE s # 1
  <2> DEFINE c == 2 * (s - 1)
             a(j) == 2 * d * j + s - 1
  <2>1. c \in Nat /\ c > 0
    BY <1>2
  <2>2. \A j \in 0 .. s - 1 : offset(d, s, j) = a(j) \div c /\ a(j) \in Int
    BY <1>2 DEF offset
  <2>3. a(i) \div c < d + 1
    <3>1. d * i <= d * (s - 1)
      BY ProductGrows
    <3>2. c * (d + 1) = 2 * (d * (s - 1)) + 2 * (s - 1) /\ a(i) = 2 * (d * i) + (s - 1)
      OBVIOUS
    <3>3. d * i \in Int /\ d * (s - 1) \in Int
      OBVIOUS
    <3>4. a(i) < c * (d + 1)
      BY <1>2, <3>1, <3>2, <3>3
    <3> QED
      BY <2>1, <2>2, <3>4, DivBelow
  <2>4. ASSUME NEW j \in 0 .. s - 1, i < j PROVE a(i) \div c <= a(j) \div c
    <3>1. d * i <= d * j /\ d * i \in Int /\ d * j \in Int
      BY <2>4, ProductGrows
    <3>2. a(i) = 2 * (d * i) + s - 1 /\ a(j) = 2 * (d * j) + s - 1
      OBVIOUS
    <3>3. a(i) <= a(j)
      BY <3>1, <3>2
    <3> QED
      BY <2>1, <2>2, <3>3, DivGrows
  <2>5. a(i) \div c \in Int
    BY <2>1, <2>2, DivMod
  <2> HIDE DEF a, c
  <2> QED
    BY <2>2, <2>3, <2>4, <2>5
<1> QED
  BY <1>1, <1>2

\* Every slice first written is in the schedule, as it was.
Whole(c, lots, s, d) ==
    /\ lots \in Nat /\ DOMAIN c = 1 .. s /\ Len(c) = s
    /\ \A i \in 1 .. s : /\ c[i].size = rawSlice(lots, s, i - 1) /\ c[i].size > 0
                         /\ c[i].at = offset(d, s, i - 1)

\* A schedule of as many slices as were asked is whole.
LEMMA WholeSchedule ==
  ASSUME NEW halves \in Nat, NEW s \in Nat, s > 0, NEW d \in Nat,
         NEW c, c = planTwap(halves, s, d), Len(c) >= s,
         NEW lots, lots = roundToLots(halves)
  PROVE  Whole(c, lots, s, d)
<1> DEFINE child(i) == [size |-> rawSlice(lots, s, i - 1), at |-> offset(d, s, i - 1)]
           all == [i \in 1 .. s |-> child(i)]
           I == {i \in 1 .. s : child(i).size > 0}
<1>1. lots \in Nat
  <2>1. 0 < 2 * ((halves + 1) \div 2) + 2 /\ (halves + 1) \div 2 \in Int
    BY DivMod
  <2> QED
    BY <2>1 DEF roundToLots
<1>2. planTwap(halves, s, d) = IF lots = 0 THEN <<>> ELSE pick(all, I)
  <2>1. PICK k : k = IF s < 1 THEN 1 ELSE s
    OBVIOUS
  <2> DEFINE kid(i) == [size |-> rawSlice(lots, k, i - 1), at |-> offset(d, k, i - 1)]
  <2>2. planTwap(halves, s, d)
          = IF lots = 0 THEN <<>>
            ELSE pick([i \in 1 .. k |-> kid(i)], {i \in 1 .. k : kid(i).size > 0})
    BY <2>1, Zenon DEF planTwap
  <2>3. k = s
    BY <2>1
  <2> QED
    BY <2>2, <2>3, Zenon
<1>3. lots # 0
  <2> SUFFICES ASSUME lots = 0 PROVE FALSE
    OBVIOUS
  <2>1. Len(planTwap(halves, s, d)) = 0
    BY <1>2
  <2> QED
    BY <2>1
<1>4. IsFiniteSet(1 .. s) /\ Cardinality(1 .. s) = s
  BY FS_Interval
<1>5. I = 1 .. s
  <2>1. PICK A : A = 1 .. s
    OBVIOUS
  <2>2. IsFiniteSet(I) /\ Cardinality(I) <= s /\ I \in SUBSET A
    BY <1>4, <2>1, FS_Subset
  <2>3. Cardinality(I) \in Nat
    BY <2>2, FS_CardinalityType
  <2>4. Len(pick(all, I)) = Cardinality(I)
    BY <2>3 DEF pick
  <2>5. Cardinality(I) = s
    BY <1>2, <1>3, <2>2, <2>3, <2>4
  <2> HIDE DEF I
  <2> QED
    BY <1>4, <2>1, <2>2, <2>5, FS_Subset
<1>6. pick(all, I) = all
  <2> HIDE DEF child
  <2>1. DOMAIN all = 1 .. s /\ all = [i \in 1 .. s |-> all[i]]
    OBVIOUS
  <2> HIDE DEF all
  <2> QED
    BY <1>5, <2>1, PickAll
<1>7. ASSUME NEW i \in 1 .. s PROVE child(i).size > 0
  BY <1>5
<1>8. planTwap(halves, s, d) = all
  BY <1>2, <1>3, <1>6
<1>9. Len(all) = s
  OBVIOUS
<1> QED
  BY <1>1, <1>7, <1>8, <1>9 DEF Whole

LEMMA ScheduleLength ==
  ASSUME NEW halves \in Nat, NEW s \in Nat, NEW d \in Nat
  PROVE  Len(planTwap(halves, s, d)) \in Nat
<1> DEFINE slices == IF s < 1 THEN 1 ELSE s
           lots == roundToLots(halves)
           child(i) == [size |-> rawSlice(lots, slices, i - 1),
                        at |-> offset(d, slices, i - 1)]
           I == {i \in 1 .. slices : child(i).size > 0}
           all == [i \in 1 .. slices |-> child(i)]
<1>1. planTwap(halves, s, d) = IF lots = 0 THEN <<>> ELSE pick(all, I)
  BY Zenon DEF planTwap
<1>2. Cardinality(I) \in Nat
  <2>1. PICK A : A = 1 .. slices /\ IsFiniteSet(A)
    BY FS_Interval
  <2>2. I \in SUBSET A
    BY <2>1
  <2> HIDE DEF I
  <2> QED
    BY <2>1, <2>2, FS_Subset, FS_CardinalityType
<1> HIDE DEF I, all, lots
<1>3. Len(pick(all, I)) \in Nat
  BY <1>2 DEF pick
<1> QED
  BY <1>1, <1>3

\* ScheduleIsExact of what hl_twap_order answers: slices that add up to the total, differ by
\* at most a lot, come in order and, unless they only reduce, do not exceed the cap
\* (plan.ts, planTwap; execution.ts).
THEOREM ScheduleRight ==
  ASSUME NEW args \in TwapArgs, NEW cap \in SizeCaps, NEW maySubmit \in BOOLEAN, NEW a,
         a.args = args, a.cap = cap, a.result = twapOrder(args, cap, maySubmit)
  PROVE  ScheduleIsExact(a)
<1>1. PICK h \in Nat, s \in Nat \ {0}, d \in Nat, only \in BOOLEAN :
        args.halves = h /\ args.slices = s /\ args.duration = d /\ args.reduceOnly = only
  <2>1. Halves \subseteq Nat /\ Slices \subseteq Nat \ {0} /\ Durations \subseteq Nat
    BY AnalyticAssumption
  <2> QED
    BY <2>1 DEF TwapArgs
<1>2. PICK c : c = planTwap(h, s, d)
  OBVIOUS
<1>3. cap \in Int
  BY AnalyticAssumption
<1> DEFINE lots == roundToLots(h)
           tooLarge == \E i \in DOMAIN c : c[i].size > cap
<1>4. a.result = twapOrder(args, cap, maySubmit)
  OBVIOUS
<1>5. /\ a.result.children = c
      /\ a.result.mode = CASE Len(c) < s -> "bad_plan"
                           [] Len(c) >= s /\ tooLarge /\ ~only -> "order_too_large"
                           [] OTHER -> IF ~args.live THEN "dry_run"
                                       ELSE IF ~maySubmit THEN "blocked" ELSE "scheduled"
  <2> DEFINE C == planTwap(args.halves, args.slices, args.duration)
  <2>1. a.result
          = [mode |-> CASE Len(C) < args.slices -> "bad_plan"
                        [] Len(C) >= args.slices /\ (\E i \in DOMAIN C : C[i].size > cap)
                             /\ ~args.reduceOnly -> "order_too_large"
                        [] OTHER -> IF ~args.live THEN "dry_run"
                                    ELSE IF ~maySubmit THEN "blocked" ELSE "scheduled",
             children |-> C]
    BY <1>4, Zenon DEF twapOrder
  <2>2. C = c
    BY <1>1, <1>2
  <2> HIDE DEF C
  <2> QED
    BY <1>1, <2>1, <2>2
<1> SUFFICES ASSUME a.result.mode \in {"scheduled", "dry_run", "blocked"}
             PROVE  /\ Len(c) = s
                    /\ sumOfSizes(c) = lots
                    /\ \A i, j \in DOMAIN c : c[i].size - c[j].size <= 1 /\ c[i].size > 0
                    /\ \A i, j \in DOMAIN c : i < j => c[i].at <= c[j].at
                    /\ c[Len(c)].at <= d
                    /\ only \/ \A i \in DOMAIN c : c[i].size <= cap
  BY <1>1, <1>5 DEF ScheduleIsExact
<1>6. Len(c) \in Nat
  BY <1>1, <1>2, ScheduleLength
<1>7. Len(c) >= s /\ ~(tooLarge /\ ~only)
  <2> HIDE DEF tooLarge
  <2>1. ~(Len(c) < s)
    BY <1>5
  <2>2. Len(c) >= s
    BY <1>6, <2>1
  <2> QED
    BY <1>5, <2>2
<1>8. /\ lots \in Nat /\ DOMAIN c = 1 .. s /\ Len(c) = s
      /\ \A i \in 1 .. s : /\ c[i].size = rawSlice(lots, s, i - 1) /\ c[i].size > 0
                           /\ c[i].at = offset(d, s, i - 1)
  <2>1. s \in Nat /\ s > 0
    OBVIOUS
  <2>2. PICK l : l = roundToLots(h)
    OBVIOUS
  <2>3. Whole(c, l, s, d)
    <3>1. h \in Nat /\ d \in Nat /\ c = planTwap(h, s, d) /\ Len(c) >= s
      BY <1>2, <1>7
    <3> QED
      BY <2>1, <2>2, <3>1, WholeSchedule
  <2> QED
    BY <2>2, <2>3 DEF Whole
<1> HIDE DEF lots
<1>9. sumOfSizes(c) = lots
  <2>1. sumOfSizes(c) = Sum(sizesOf(c), 1 .. s)
    BY <1>8 DEF sumOfSizes, Sum
  <2>2. \A i \in 1 .. s : sizesOf(c)[i] = lotsOf(lots, s)[i] /\ sizesOf(c)[i] \in Int
    <3> SUFFICES ASSUME NEW i \in 1 .. s
                 PROVE  sizesOf(c)[i] = lotsOf(lots, s)[i] /\ sizesOf(c)[i] \in Int
      OBVIOUS
    <3>1. sizesOf(c)[i] = rawSlice(lots, s, i - 1)
      BY <1>8 DEF sizesOf
    <3>2. lotsOf(lots, s)[i] = rawSlice(lots, s, i - 1)
      BY DEF lotsOf
    <3>3. rawSlice(lots, s, i - 1) \in Int
      BY <1>8, DivMod DEF rawSlice
    <3> QED
      BY <3>1, <3>2, <3>3
  <2>3. IsFiniteSet(1 .. s)
    BY CountUpTo
  <2>4. Sum(sizesOf(c), 1 .. s) = Sum(lotsOf(lots, s), 1 .. s)
    BY <2>2, <2>3, SumSame
  <2> QED
    BY <1>1, <1>8, <2>1, <2>4, AllSlices
<1>10. \A i \in 1 .. s : c[i].size \in Int
  BY <1>1, <1>8, DivMod DEF rawSlice
<1>11. \A i, j \in DOMAIN c : c[i].size - c[j].size <= 1 /\ c[i].size > 0
  <2>1. PICK q \in Int, r \in Int : q = lots \div s /\ r = lots % s
    <3>1. s \in Nat /\ s > 0
      OBVIOUS
    <3> QED
      BY <1>8, <3>1, DivMod
  <2>2. \A i \in 1 .. s : c[i].size = q + (IF i - 1 < r THEN 1 ELSE 0)
    BY <1>8, <2>1 DEF rawSlice
  <2>3. \A i \in 1 .. s : c[i].size = q \/ c[i].size = q + 1
    BY <2>2
  <2> QED
    BY <1>8, <2>3
<1>12. \A i, j \in DOMAIN c : i < j => c[i].at <= c[j].at
  <2> SUFFICES ASSUME NEW i \in 1 .. s, NEW j \in 1 .. s, i < j
               PROVE  offset(d, s, i - 1) <= offset(d, s, j - 1)
    BY <1>8
  <2>1. PICK k \in 0 .. s - 1, l \in 0 .. s - 1 : k = i - 1 /\ l = j - 1 /\ k < l
    OBVIOUS
  <2>2. s \in Nat /\ s > 0
    OBVIOUS
  <2> QED
    BY <2>1, <2>2, OffsetsInOrder
<1>13. c[Len(c)].at <= d
  <2>1. s - 1 \in 0 .. s - 1 /\ s \in 1 .. s
    BY <1>1
  <2>2. s \in Nat /\ s > 0
    OBVIOUS
  <2>3. offset(d, s, s - 1) <= d
    BY <2>1, <2>2, OffsetsInOrder
  <2>4. c[s].at = offset(d, s, s - 1)
    BY <1>8, <2>1
  <2> QED
    BY <1>8, <2>3, <2>4
<1> QED
  <2>1. only \/ \A i \in DOMAIN c : c[i].size <= cap
    BY <1>3, <1>7, <1>8, <1>10
  <2> QED
    BY <1>8, <1>9, <1>11, <1>12, <1>13, <2>1

------------------------------------------------------------------------------
(* Icebergs (Planning). *)

\* Clips are whole but the last, which is what is left.
LEMMA ClipIs ==
  ASSUME NEW t \in Nat, NEW k \in Nat, t > 0, k > 0, NEW n, n = (t + k - 1) \div k
  PROVE  /\ n \in Nat /\ n > 0 /\ t <= n * k
         /\ \A i \in 1 .. n : (i - 1) * k < t
<1>1. /\ n \in Int /\ (t + k - 1) % k \in 0 .. k - 1
      /\ t + k - 1 = k * n + ((t + k - 1) % k)
  <2>1. t + k - 1 \in Int
    OBVIOUS
  <2> QED
    BY <2>1, DivMod
<1>2. t <= n * k /\ (n - 1) * k < t
  BY <1>1
<1>3. n > 0
  <2> SUFFICES ASSUME n <= 0 PROVE FALSE
    BY <1>1
  <2>1. k * n <= k * 0
    BY <1>1, ProductGrows
  <2> QED
    BY <1>1, <1>2, <2>1
<1>4. ASSUME NEW i \in 1 .. n PROVE (i - 1) * k < t
  <2>1. k * (i - 1) <= k * (n - 1)
    BY <1>1, ProductGrows
  <2> QED
    BY <1>1, <1>2, <2>1
<1> QED
  BY <1>1, <1>2, <1>3, <1>4

\* ClipsAreExact of what planIceberg answers: clips that add up to the total, none empty or
\* above the clip size (plan.ts, planIceberg).
THEOREM ClipsRight ==
  ASSUME NEW t \in Halves, NEW k \in Halves, NEW a,
         a.total = t, a.clip = k, a.result = planIceberg(t, k, 1)
  PROVE  ClipsAreExact(a)
<1>1. t \in Nat /\ k \in Nat
  BY AnalyticAssumption
<1> SUFFICES ASSUME t > 0, k > 0
             PROVE  /\ sumOfSizes(a.result) = t
                    /\ \A i \in DOMAIN a.result : a.result[i].size \in 1 .. k
  BY DEF ClipsAreExact
<1>2. PICK n : n = (t + k - 1) \div k
  OBVIOUS
<1>3. /\ n \in Nat /\ n > 0 /\ t <= n * k
      /\ \A i \in 1 .. n : (i - 1) * k < t
  BY <1>1, <1>2, ClipIs
<1> DEFINE f == sizesOf(a.result)
           upto(m) == IF m * k <= t THEN m * k ELSE t
           T == {m \in Nat : m <= n => Sum(f, 1 .. m) = upto(m)}
<1>4. /\ DOMAIN a.result = 1 .. n
      /\ \A i \in 1 .. n :
            a.result[i].size = IF i * k <= t THEN k ELSE t - (i - 1) * k
  BY <1>1, <1>2 DEF planIceberg
<1>5. \A i \in 1 .. n : /\ f[i] = (IF i * k <= t THEN k ELSE t - (i - 1) * k)
                        /\ f[i] = a.result[i].size
  BY <1>4 DEF sizesOf
<1>6. ASSUME NEW i \in 1 .. n PROVE f[i] \in 1 .. k
  <2>1. (i - 1) * k < t /\ (i - 1) * k = i * k - k /\ i * k \in Int
    BY <1>1, <1>3
  <2> QED
    BY <1>1, <1>5, <2>1
<1> HIDE DEF f
<1>7. 0 \in T
  <2>1. 1 .. 0 = {} /\ upto(0) = 0
    BY <1>1
  <2> QED
    BY <2>1, SumOfNone
<1>8. \A m \in Nat : m \in T => m + 1 \in T
  <2> SUFFICES ASSUME NEW m \in Nat, m + 1 <= n, Sum(f, 1 .. m) = upto(m)
               PROVE  Sum(f, 1 .. m + 1) = upto(m + 1)
    BY <1>3
  <2>1. PICK S : S = 1 .. m + 1 /\ IsFiniteSet(S)
    BY FS_Interval
  <2>2. PICK x \in S : x = m + 1
    BY <2>1
  <2>3. S \ {x} = 1 .. m /\ \A i \in S : i \in 1 .. n
    BY <1>3, <2>1, <2>2
  <2>4. \A i \in S : f[i] \in Int
    BY <1>1, <1>6, <2>3
  <2>5. IsFiniteSet(S)
    BY <2>1
  <2>6. Sum(f, S) = f[x] + Sum(f, S \ {x})
    BY <2>4, <2>5, SumWithout
  <2>7. f[x] = IF (m + 1) * k <= t THEN k ELSE t - m * k
    <3>1. x \in 1 .. n /\ x - 1 = m
      BY <2>2, <2>3
    <3> QED
      BY <1>5, <2>2, <3>1
  <2>8. m * k < t /\ (m + 1) * k = m * k + k /\ m * k \in Int
    <3>1. m + 1 \in 1 .. n /\ (m + 1) - 1 = m
      BY <1>3
    <3> QED
      BY <1>1, <1>3, <3>1
  <2>9. PICK u \in Int, v \in Int : u = m * k /\ v = (m + 1) * k /\ u < t /\ v = u + k
    BY <1>1, <2>8
  <2>10. Sum(f, 1 .. m) = u
    BY <1>1, <2>9
  <2>11. Sum(f, 1 .. m + 1) = (IF v <= t THEN k ELSE t - u) + u
    BY <2>1, <2>3, <2>6, <2>7, <2>9, <2>10, Zenon
  <2>12. upto(m + 1) = IF v <= t THEN v ELSE t
    BY <2>9
  <2> HIDE DEF upto
  <2> QED
    BY <1>1, <2>9, <2>11, <2>12
<1> HIDE DEF T
<1>9. n \in T
  BY <1>3, <1>7, <1>8, Induction
<1>10. upto(n) = t
  BY <1>1, <1>3
<1>11. sumOfSizes(a.result) = Sum(f, 1 .. n)
  BY <1>4 DEF sumOfSizes, Sum, f
<1> QED
  BY <1>3, <1>4, <1>5, <1>6, <1>9, <1>10, <1>11 DEF T

------------------------------------------------------------------------------
(* Markets of the builder dexes (Listings). *)

\* A selection holds what is at the places selected.
Selected(p, s, I) ==
    /\ p \in Seq({s[i] : i \in I}) /\ Len(p) \in Nat /\ DOMAIN p = 1 .. Len(p)
    /\ ToSet(p) = {s[i] : i \in I}

LEMMA PickHolds ==
  ASSUME NEW n \in Nat, NEW s, NEW I \in SUBSET (1 .. n)
  PROVE  Selected(pick(s, I), s, I)
<1>1. I \in SUBSET Int /\ IsFiniteSet(I)
  <2>1. PICK A : A = 1 .. n /\ IsFiniteSet(A)
    BY FS_Interval
  <2>2. I \in SUBSET A /\ I \in SUBSET Int
    BY <2>1
  <2> QED
    BY <2>1, <2>2, FS_Subset
<1>2. PICK m \in Nat : m = Cardinality(I)
  BY <1>1, FS_CardinalityType
<1>3. /\ \A k \in 1 .. m : kth(I, k) \in I
      /\ \A i \in I : \E k \in 1 .. m : kth(I, k) = i
  BY <1>1, <1>2, KthIs
<1>4. pick(s, I) = [k \in 1 .. m |-> s[kth(I, k)]]
  BY <1>2 DEF pick
<1>5. ToSet(pick(s, I)) = {s[i] : i \in I}
  <2> DEFINE t == [k \in 1 .. m |-> s[kth(I, k)]]
  <2>1. ASSUME NEW k \in 1 .. m PROVE t[k] \in {s[i] : i \in I}
    BY <1>3
  <2>2. ASSUME NEW i \in I PROVE \E k \in 1 .. m : t[k] = s[i]
    BY <1>3
  <2>3. DOMAIN t = 1 .. m
    OBVIOUS
  <2> HIDE DEF t
  <2>4. ToSet(t) = {s[i] : i \in I}
    BY <2>1, <2>2, <2>3 DEF ToSet
  <2> QED
    BY <1>4, <2>4 DEF t
<1> QED
  BY <1>3, <1>4, <1>5 DEF Selected

\* Hip3Accounted of what collectHip3Rows answers: every dex asked for is accounted for, and
\* no live market of a scanned one is missing (hip3Analytics.ts).
THEOREM Hip3Right ==
  ASSUME NEW main, NEW names, NEW S, names \in Seq(S), NEW filter, NEW failing, NEW shown
  PROVE  Hip3Accounted(names, filter, shown, collectHip3Rows(main, names, filter, failing, shown))
<1> DEFINE I == {i \in DOMAIN names : filter \in {NoFilter, names[i]}}
           asked == pick(names, I)
           tried == SubSeq(asked, 1, Min({MaxDexs, Len(asked)}))
           scanned == ToSet(tried) \ failing
           own == {c \in shown : c.dex \in scanned}
           lines == {[coin |-> c, from |-> c.dex] : c \in own}
                     \cup {[coin |-> c, from |-> "main"] : c \in main \ own}
           r == collectHip3Rows(main, names, filter, failing, shown)
<1>1. /\ Len(asked) \in Nat /\ DOMAIN asked = 1 .. Len(asked)
      /\ ToSet(asked) = {names[i] : i \in I} /\ asked \in Seq({names[i] : i \in I})
  <2>1. Len(names) \in Nat /\ I \in SUBSET (1 .. Len(names))
    OBVIOUS
  <2> HIDE DEF I
  <2> QED
    BY <2>1, PickHolds DEF Selected
<1>2. ToSet(tried) \subseteq ToSet(asked)
  <2> HIDE DEF asked
  <2>1. PICK m \in Nat : m = Min({MaxDexs, Len(asked)}) /\ m <= Len(asked)
    BY <1>1, LeastOfTwo, ListingsAssumption
  <2>2. DOMAIN SubSeq(asked, 1, m) = 1 .. m /\ \A i \in 1 .. m : SubSeq(asked, 1, m)[i] = asked[i]
    <3>0. PICK A : asked \in Seq(A)
      BY <1>1
    <3>1. PICK t \in Seq(A) : t = asked
      BY <3>0
    <3>2. m \in Nat /\ m <= Len(t)
      BY <2>1, <3>1
    <3>3. DOMAIN SubSeq(t, 1, m) = 1 .. m /\ \A i \in 1 .. m : SubSeq(t, 1, m)[i] = t[i]
      BY <3>2
    <3> QED
      BY <3>1, <3>3
  <2> QED
    BY <1>1, <2>1, <2>2 DEF ToSet
<1>3. /\ r.rows = {x \in lines : filter = NoFilter \/ x.coin.dex = filter}
      /\ r.scanned = scanned /\ r.failed = ToSet(tried) \cap failing
      /\ r.notScanned = ToSet(asked) \ ToSet(tried)
  BY DEF collectHip3Rows
<1>4. \A d \in ToSet(names) : filter \in {NoFilter, d} => d \in ToSet(asked)
  BY <1>1 DEF ToSet
<1>5. \A d \in ToSet(asked) : filter \in {NoFilter, d}
  BY <1>1
<1> HIDE DEF asked, tried, r, I
<1>6. \A c \in shown : c.dex \in scanned => [coin |-> c, from |-> c.dex] \in r.rows
  <2> SUFFICES ASSUME NEW c \in shown, c.dex \in scanned
               PROVE  [coin |-> c, from |-> c.dex] \in r.rows
    OBVIOUS
  <2>1. filter = NoFilter \/ c.dex = filter
    BY <1>2, <1>5
  <2>2. [coin |-> c, from |-> c.dex] \in lines
    OBVIOUS
  <2> QED
    BY <1>3, <2>1, <2>2
<1>7. \A x, y \in r.rows : x.coin = y.coin => x = y
  BY <1>3
<1> QED
  BY <1>3, <1>4, <1>6, <1>7 DEF Hip3Accounted, r

------------------------------------------------------------------------------
(* Prices that cannot all be right (Coherence). *)

\* Of the listings of a contract one is kept, and none is more liquid.
LEMMA UniqueRight ==
  ASSUME NEW n \in Nat, NEW es, DOMAIN es = 1 .. n,
         \A i \in 1 .. n : es[i].liquidity \in Int
  PROVE  LET ids == dedupeLadderEntries(es).unique
         IN  /\ ids \subseteq 1 .. n
             /\ \A i \in 1 .. n : \E k \in ids :
                   /\ contract(es[k]) = contract(es[i])
                   /\ es[k].liquidity >= es[i].liquidity
             /\ \A i, k \in ids : contract(es[i]) = contract(es[k]) => i = k
<1> DEFINE value == [i \in 1 .. n |-> es[i].liquidity]
           c == [i \in 1 .. n |-> contract(es[i])]
           kept(i) == \A j \in 1 .. n : c[j] = c[i] =>
                          value[j] < value[i] \/ (value[j] = value[i] /\ i <= j)
           ids == {i \in 1 .. n : kept(i)}
<1>1. ids = dedupeLadderEntries(es).unique
  BY DEF dedupeLadderEntries
<1>2. \A i \in 1 .. n : value[i] \in Int /\ value[i] = es[i].liquidity
                        /\ c[i] = contract(es[i])
  OBVIOUS
<1> HIDE DEF value, c
<1>3. ASSUME NEW i \in 1 .. n PROVE \E k \in ids : c[k] = c[i] /\ value[k] >= value[i]
  <2> DEFINE S == {j \in 1 .. n : c[j] = c[i]}
             B == {j \in S : \A l \in S : value[l] <= value[j]}
  <2>1. IsFiniteSet(S) /\ i \in S /\ \A j \in S : value[j] \in Int
    <3>1. IsFiniteSet(1 .. n) /\ S \subseteq 1 .. n
      BY CountUpTo
    <3>2. IsFiniteSet(S)
      BY <3>1, FS_Subset
    <3>3. i \in S /\ \A j \in S : value[j] \in Int
      BY <1>2
    <3> QED
      BY <3>2, <3>3
  <2>2. PICK m \in S : \A l \in S : value[l] <= value[m]
    <3> HIDE DEF S
    <3> QED
      BY <2>1, MostOf
  <2>3. B \subseteq Nat /\ m \in B
    BY <2>2
  <2>4. PICK k \in B : \A l \in B : k <= l
    <3> HIDE DEF B
    <3> QED
      BY <2>3, LeastOf
  <2>5. k \in 1 .. n /\ c[k] = c[i] /\ value[k] >= value[i]
    BY <1>2, <2>1, <2>4
  <2>6. ASSUME NEW j \in 1 .. n, c[j] = c[k]
        PROVE  value[j] < value[k] \/ (value[j] = value[k] /\ k <= j)
    <3>1. j \in S /\ k \in S
      BY <2>5, <2>6
    <3>2. value[j] <= value[k] /\ value[j] \in Int /\ value[k] \in Int
      BY <2>1, <2>4, <3>1
    <3>3. ASSUME value[j] = value[k] PROVE k <= j
      <4>1. j \in B
        BY <2>4, <3>1, <3>3
      <4> QED
        BY <2>4, <4>1
    <3> QED
      BY <3>2, <3>3
  <2>7. k \in ids
    BY <2>5, <2>6
  <2> QED
    BY <2>5, <2>7
<1>4. ASSUME NEW i \in ids, NEW k \in ids, c[i] = c[k] PROVE i = k
  BY <1>2, <1>4
<1> HIDE DEF ids, kept
<1>5. ids \subseteq 1 .. n
  BY DEF ids
<1>6. /\ \A i \in 1 .. n : \E k \in ids :
            /\ contract(es[k]) = contract(es[i])
            /\ es[k].liquidity >= es[i].liquidity
      /\ \A i, k \in ids : contract(es[i]) = contract(es[k]) => i = k
  <2>1. \A i \in ids : value[i] = es[i].liquidity /\ c[i] = contract(es[i])
    BY <1>2, <1>5
  <2>2. ASSUME NEW i \in 1 .. n
        PROVE  \E k \in ids : /\ contract(es[k]) = contract(es[i])
                              /\ es[k].liquidity >= es[i].liquidity
    <3>1. PICK k \in ids : c[k] = c[i] /\ value[k] >= value[i]
      BY <1>3
    <3>2. contract(es[k]) = contract(es[i])
      BY <1>2, <2>1, <3>1, Zenon
    <3>3. es[k].liquidity >= es[i].liquidity
      BY <1>2, <2>1, <3>1, Zenon
    <3> QED
      BY <3>2, <3>3
  <2>3. ASSUME NEW i \in ids, NEW k \in ids, contract(es[i]) = contract(es[k])
        PROVE  i = k
    BY <1>4, <2>1, <2>3, Zenon
  <2> QED
    BY <2>2, <2>3
<1> QED
  BY <1>1, <1>5, <1>6, Zenon

\* The pairs reported: none if there are none, all if they are few.
LEMMA Widest ==
  ASSUME NEW es, NEW ids, IsFiniteSet(violations(es, ids)),
         \A p \in violations(es, ids) : gap(es, p) \in Int
  PROVE  LET V == violations(es, ids)
             W == findLadderViolations(es, ids)
         IN  W \subseteq V /\ (W = {} <=> V = {}) /\ (Cardinality(W) < MaxReported => W = V)
<1> DEFINE V == violations(es, ids)
           W == findLadderViolations(es, ids)
           size == Min({MaxReported, Cardinality(V)})
           f == [p \in V |-> gap(es, p)]
           widest(w) == /\ Cardinality(w) = size
                        /\ \A p \in w, q \in V \ w : gap(es, p) >= gap(es, q)
<1>1. \A p \in V : f[p] = gap(es, p) /\ f[p] \in Int
  OBVIOUS
<1>2. /\ size \in Int /\ Cardinality(V) \in Nat /\ MaxReported \in Nat /\ MaxReported > 0
      /\ size <= Cardinality(V) /\ size <= MaxReported /\ size \in {MaxReported, Cardinality(V)}
  <2>1. Cardinality(V) \in Nat
    BY FS_CardinalityType
  <2>2. MaxReported \in Nat /\ MaxReported > 0
    BY CoherenceAssumption
  <2>3. size = IF MaxReported <= Cardinality(V) THEN MaxReported ELSE Cardinality(V)
    <3> HIDE DEF V
    <3> QED
      BY <2>1, <2>2, LeastOfTwo
  <2> HIDE DEF V, size
  <2> QED
    BY <2>1, <2>2, <2>3
<1>3. size \in 0 .. Cardinality(V)
  BY <1>2
<1>4. \E w \in SUBSET V : widest(w)
  <2> HIDE DEF V, f, size
  <2>1. IsFiniteSet(V)
    BY DEF V
  <2>2. PICK w \in SUBSET V : Cardinality(w) = size /\ \A p \in w, q \in V \ w : f[p] >= f[q]
    BY <1>1, <1>3, <2>1, TopOf
  <2> QED
    BY <1>1, <2>2
<1>5. W = CHOOSE w \in SUBSET V : widest(w)
  BY DEF findLadderViolations
<1>6. W \in SUBSET V /\ Cardinality(W) = size
  <2> HIDE DEF V, size, W
  <2> QED
    BY <1>4, <1>5
<1>7. W = {} <=> V = {}
  <2>1. W = {} => Cardinality(W) = 0
    BY FS_EmptySet
  <2>2. Cardinality(V) = 0 => V = {}
    BY FS_EmptySet
  <2> QED
    BY <1>2, <1>6, <2>1, <2>2
<1>8. ASSUME Cardinality(W) < MaxReported PROVE W = V
  <2>1. Cardinality(W) = Cardinality(V)
    BY <1>2, <1>6, <1>8
  <2> HIDE DEF V, W
  <2>2. IsFiniteSet(V)
    BY DEF V
  <2> QED
    BY <1>6, <2>1, <2>2, FS_Subset
<1> QED
  BY <1>6, <1>7, <1>8

\* ReportIsSound of every set of listings: the duplicates dropped are no more liquid, and
\* something is reported just when the prices are impossible (coherence.ts).
THEOREM ReportRight ==
  ASSUME NEW n \in Nat, NEW es, DOMAIN es = 1 .. n,
         \A i \in 1 .. n : /\ es[i].liquidity \in Int
                           /\ es[i].yesProb \in Int \cup {NoPrice}
  PROVE  ReportIsSound(es)
<1> DEFINE ids == dedupeLadderEntries(es).unique
           V == violations(es, ids)
           W == findLadderViolations(es, ids)
<1>1. /\ ids \subseteq 1 .. n
      /\ \A i \in 1 .. n : \E k \in ids :
            /\ contract(es[k]) = contract(es[i])
            /\ es[k].liquidity >= es[i].liquidity
      /\ \A i, k \in ids : contract(es[i]) = contract(es[k]) => i = k
  BY UniqueRight, Zenon
<1> HIDE DEF ids
<1>0. ids \subseteq 1 .. n /\ IsFiniteSet(1 .. n)
  BY <1>1, CountUpTo
<1>2. IsFiniteSet(V) /\ \A p \in V : gap(es, p) \in Int
  <2>1. IsFiniteSet(ids)
    BY <1>0, FS_Subset
  <2>2. IsFiniteSet(ids \X ids)
    BY <2>1, FS_Product
  <2>3. V \subseteq ids \X ids
    BY DEF violations
  <2>4. ASSUME NEW p \in V PROVE gap(es, p) \in Int
    <3>1. p[1] \in 1 .. n /\ p[2] \in 1 .. n
      BY <1>0, <2>3
    <3>2. es[p[1]].yesProb # NoPrice /\ es[p[2]].yesProb # NoPrice
      BY DEF violations
    <3>3. es[p[1]].yesProb \in Int /\ es[p[2]].yesProb \in Int
      BY <3>1, <3>2
    <3> QED
      BY <3>3 DEF gap
  <2> QED
    BY <2>2, <2>3, <2>4, FS_Subset
<1>3. W \subseteq V /\ (W = {} <=> V = {}) /\ (Cardinality(W) < MaxReported => W = V)
  BY <1>2, Widest, Zenon
<1>4. ASSUME NEW i \in ids, NEW j \in ids,
             es[i].yesProb # NoPrice, es[j].yesProb # NoPrice,
             nearer(es[i], es[j])
      PROVE  es[j].yesProb <= es[i].yesProb <=> <<i, j>> \notin V
  <2>1. es[i].yesProb \in Int /\ es[j].yesProb \in Int
    BY <1>0, <1>4
  <2>2. <<i, j>> \in V <=> es[j].yesProb > es[i].yesProb
    BY <1>4 DEF violations
  <2> QED
    BY <2>1, <2>2
<1>5. V = {} => possible(es, ids)
  BY <1>4 DEF possible
<1>6. ASSUME possible(es, ids) PROVE V = {}
  <2> SUFFICES ASSUME NEW p \in V PROVE FALSE
    OBVIOUS
  <2>1. PICK i \in ids, j \in ids : p = <<i, j>>
    BY DEF violations
  <2>2. /\ es[i].yesProb # NoPrice /\ es[j].yesProb # NoPrice
        /\ nearer(es[i], es[j])
    BY <2>1 DEF violations
  <2>3. es[j].yesProb <= es[i].yesProb
    BY <1>6, <2>2 DEF possible
  <2> QED
    BY <1>4, <2>1, <2>2, <2>3
<1>7. possible(es, ids \ {p[2] : p \in V})
  <2> SUFFICES ASSUME NEW i \in ids \ {p[2] : p \in V}, NEW j \in ids \ {p[2] : p \in V},
                      es[i].yesProb # NoPrice, es[j].yesProb # NoPrice,
                      nearer(es[i], es[j])
               PROVE  es[j].yesProb <= es[i].yesProb
    BY DEF possible
  <2>1. <<i, j>> \notin V
    <3> SUFFICES ASSUME <<i, j>> \in V PROVE FALSE
      OBVIOUS
    <3>1. j = <<i, j>>[2]
      OBVIOUS
    <3> QED
      BY <3>1
  <2> QED
    BY <1>4, <2>1
<1> HIDE DEF V, W
<1>8. report(es).unique = ids /\ report(es).violations = W
  BY DEF report, ids, W
<1>9. /\ (W = {}) <=> possible(es, ids)
      /\ Cardinality(W) < MaxReported => possible(es, ids \ {p[2] : p \in W})
  BY <1>3, <1>5, <1>6, <1>7
<1> QED
  BY <1>1, <1>8, <1>9, Zenon DEF ReportIsSound

------------------------------------------------------------------------------
(* The evidence for the score (Calibration): ranks. *)

\* What a place counts.
upToPlace(xs, i) ==
    {j \in 1 .. Len(xs) : xs[j] < xs[i] \/ (xs[j] = xs[i] /\ j <= i)}

\* Later in the order is a later place.
LEMMA PlacesGrow ==
  ASSUME NEW xs \in Seq(Int), NEW i \in 1 .. Len(xs), NEW k \in 1 .. Len(xs),
         xs[i] < xs[k] \/ (xs[i] = xs[k] /\ i < k)
  PROVE  place(xs, i) < place(xs, k)
<1> DEFINE A == upToPlace(xs, i)
           B == upToPlace(xs, k)
<1>1. \A j \in 1 .. Len(xs) : xs[j] \in Int
  OBVIOUS
<1>2. IsFiniteSet(A) /\ IsFiniteSet(B)
  <2>1. Len(xs) \in Nat /\ IsFiniteSet(1 .. Len(xs))
    BY FS_Interval
  <2>2. A \in SUBSET (1 .. Len(xs)) /\ B \in SUBSET (1 .. Len(xs))
    BY DEF upToPlace
  <2> QED
    BY <2>1, <2>2, FS_Subset
<1>3. A \subseteq B \ {k} /\ k \in B
  BY <1>1 DEF upToPlace
<1>4. place(xs, i) = Cardinality(A) /\ place(xs, k) = Cardinality(B)
  BY DEF place, upToPlace
<1> HIDE DEF A, B
<1>5. /\ IsFiniteSet(B \ {k}) /\ Cardinality(B) \in Nat
      /\ Cardinality(B \ {k}) = Cardinality(B) - 1
  BY <1>2, <1>3, Smaller
<1>6. Cardinality(A) <= Cardinality(B \ {k}) /\ Cardinality(A) \in Nat
  BY <1>2, <1>3, <1>5, FS_Subset, FS_CardinalityType
<1> QED
  BY <1>4, <1>5, <1>6

\* Every place from the first to the last is taken by one item.
LEMMA PlacesAreTaken ==
  ASSUME NEW xs \in Seq(Int)
  PROVE  /\ \A i \in 1 .. Len(xs) : place(xs, i) \in 1 .. Len(xs)
         /\ \A k \in 1 .. Len(xs) : \E i \in 1 .. Len(xs) : place(xs, i) = k
<1> DEFINE D == 1 .. Len(xs)
           f == [i \in D |-> place(xs, i)]
<1>1. Len(xs) \in Nat /\ IsFiniteSet(D) /\ Cardinality(D) = Len(xs)
  <2>1. PICK n \in Nat : n = Len(xs)
    OBVIOUS
  <2>2. IsFiniteSet(1 .. n) /\ Cardinality(1 .. n) = IF 1 > n THEN 0 ELSE n - 1 + 1
    BY FS_Interval
  <2> QED
    BY <2>1, <2>2
<1>2. ASSUME NEW i \in D PROVE place(xs, i) \in D
  <2>1. upToPlace(xs, i) \in SUBSET D /\ i \in upToPlace(xs, i)
    BY DEF upToPlace
  <2>2. /\ IsFiniteSet(upToPlace(xs, i)) /\ Cardinality(upToPlace(xs, i)) <= Cardinality(D)
        /\ Cardinality(upToPlace(xs, i)) \in Nat
    BY <1>1, <2>1, FS_Subset, FS_CardinalityType
  <2>3. Cardinality(upToPlace(xs, i)) # 0
    BY <2>1, <2>2, FS_EmptySet
  <2>4. place(xs, i) = Cardinality(upToPlace(xs, i))
    BY DEF place, upToPlace
  <2> QED
    BY <1>1, <2>2, <2>3, <2>4
<1>3. f \in [D -> D]
  BY <1>2
<1>4. ASSUME NEW i \in D, NEW k \in D, f[i] = f[k] PROVE i = k
  <2>1. xs[i] \in Int /\ xs[k] \in Int /\ place(xs, i) = place(xs, k)
    BY <1>4
  <2>2. place(xs, i) \in Nat /\ place(xs, k) \in Nat
    <3>1. place(xs, i) \in D /\ place(xs, k) \in D
      BY <1>2
    <3> QED
      BY <3>1
  <2>3. ~(place(xs, i) < place(xs, k)) /\ ~(place(xs, k) < place(xs, i))
    BY <2>1, <2>2
  <2>4. ~(xs[i] < xs[k] \/ (xs[i] = xs[k] /\ i < k))
    BY <2>3, PlacesGrow
  <2>5. ~(xs[k] < xs[i] \/ (xs[k] = xs[i] /\ k < i))
    BY <2>3, PlacesGrow
  <2> QED
    BY <2>1, <2>4, <2>5
<1>5. f \in Injection(D, D)
  BY <1>3, <1>4 DEF Injection, IsInjective
<1> QED
  <2> HIDE DEF D, f
  <2>1. f \in Surjection(D, D)
    BY <1>1, <1>5, FS_Injection
  <2>2. \A k \in D : \E i \in D : f[i] = k
    BY <2>1 DEF Surjection
  <2> QED
    BY <1>2, <2>2 DEF D, f

\* RanksAreMidRanks of every series: a run of equals gets its mean place (calibration.ts,
\* rankWithTies).
THEOREM RanksRight ==
  ASSUME NEW xs \in Seq(Int)
  PROVE  RanksAreMidRanks(xs)
<1> DEFINE D == 1 .. Len(xs)
           less(i) == {j \in D : xs[j] < xs[i]}
           same(i) == {k \in D : xs[k] = xs[i]}
           run(i) == {place(xs, k) : k \in same(i)}
<1>1. Len(xs) \in Nat /\ IsFiniteSet(D) /\ \A i \in D : xs[i] \in Int
  BY FS_Interval
<1>2. ASSUME NEW i \in D
      PROVE  Min(run(i)) + Max(run(i)) = 2 * Cardinality(less(i)) + Cardinality(same(i)) + 1
  <2>1. /\ IsFiniteSet(less(i)) /\ IsFiniteSet(same(i)) /\ i \in same(i)
        /\ same(i) \in SUBSET Nat /\ same(i) \subseteq D
    <3>1. less(i) \in SUBSET D /\ same(i) \in SUBSET D /\ D \subseteq Nat /\ i \in same(i)
      OBVIOUS
    <3> HIDE DEF D, less, same
    <3> QED
      BY <1>1, <3>1, FS_Subset
  <2>2. PICK m \in same(i) : \A k \in same(i) : m <= k
    <3> HIDE DEF same
    <3> QED
      BY <2>1, LeastOf
  <2>3. PICK l \in same(i) : \A k \in same(i) : k <= l
    <3> DEFINE id == [k \in same(i) |-> k]
    <3>1. \A k \in same(i) : id[k] \in Int /\ id[k] = k
      OBVIOUS
    <3> HIDE DEF id, same
    <3>2. same(i) # {}
      BY <2>1
    <3>3. PICK S : S = same(i)
      OBVIOUS
    <3>4. PICK l \in S : \A k \in S : id[k] <= id[l]
      BY <2>1, <3>1, <3>2, <3>3, MostOf
    <3> QED
      BY <3>1, <3>3, <3>4
  <2>4. /\ Cardinality(less(i)) \in Nat /\ Cardinality(same(i)) \in Nat
        /\ \A k \in D : place(xs, k) \in Int
    BY <2>1, FS_CardinalityType, PlacesAreTaken
  <2>5. place(xs, m) = Cardinality(less(i)) + 1
    <3>1. upToPlace(xs, m) = less(i) \cup {m} /\ m \notin less(i)
      BY <1>1, <2>2 DEF upToPlace
    <3>2. place(xs, m) = Cardinality(upToPlace(xs, m))
      BY DEF place, upToPlace
    <3> HIDE DEF less
    <3> QED
      BY <2>1, <3>1, <3>2, FS_AddElement
  <2>6. place(xs, l) = Cardinality(less(i)) + Cardinality(same(i))
    <3>1. upToPlace(xs, l) = less(i) \cup same(i) /\ less(i) \cap same(i) = {}
      BY <1>1, <2>3 DEF upToPlace
    <3>2. place(xs, l) = Cardinality(upToPlace(xs, l))
      BY DEF place, upToPlace
    <3> HIDE DEF less, same
    <3>3. Cardinality(less(i) \cap same(i)) = 0
      BY <3>1, FS_EmptySet
    <3>4. Cardinality(less(i) \cup same(i))
            = Cardinality(less(i)) + Cardinality(same(i)) - Cardinality(less(i) \cap same(i))
      BY <2>1, FS_Union, Zenon
    <3> QED
      BY <2>4, <3>1, <3>2, <3>3, <3>4
  <2>7. ASSUME NEW k \in same(i)
        PROVE  place(xs, m) <= place(xs, k) /\ place(xs, k) <= place(xs, l)
    <3>1. /\ k \in D /\ m \in D /\ l \in D /\ m <= k /\ k <= l
          /\ xs[m] = xs[k] /\ xs[k] = xs[l]
      BY <2>2, <2>3, <2>7
    <3>2. m = k \/ place(xs, m) < place(xs, k)
      BY <3>1, PlacesGrow
    <3>3. k = l \/ place(xs, k) < place(xs, l)
      BY <3>1, PlacesGrow
    <3>4. place(xs, m) \in Int /\ place(xs, k) \in Int /\ place(xs, l) \in Int
      BY <2>4, <3>1
    <3> QED
      BY <3>2, <3>3, <3>4
  <2>8. /\ place(xs, m) \in run(i) /\ \A p \in run(i) : place(xs, m) <= p
        /\ place(xs, l) \in run(i) /\ \A p \in run(i) : p <= place(xs, l)
        /\ \A p \in run(i) : p \in Int
    <3> HIDE DEF same
    <3> QED
      BY <2>1, <2>2, <2>3, <2>4, <2>7
  <2> HIDE DEF run
  <2>9. Min(run(i)) = place(xs, m)
    <3>1. Min(run(i)) \in run(i) /\ \A p \in run(i) : Min(run(i)) <= p
      BY <2>8, Zenon DEF Min
    <3> QED
      BY <2>8, <3>1
  <2>10. Max(run(i)) = place(xs, l)
    <3>0. \E y \in run(i) : \A p \in run(i) : y >= p
      BY <2>8
    <3>1. Max(run(i)) \in run(i) /\ \A p \in run(i) : Max(run(i)) >= p
      BY <3>0, Zenon DEF Max
    <3> QED
      BY <2>8, <3>1
  <2> HIDE DEF less, same
  <2> QED
    BY <2>4, <2>5, <2>6, <2>9, <2>10
<1>3. rankWithTies(xs) = [i \in D |-> Min(run(i)) + Max(run(i))]
  BY DEF rankWithTies
<1>4. midRank(xs) = [i \in D |-> 2 * Cardinality(less(i)) + Cardinality(same(i)) + 1]
  BY DEF midRank
<1> HIDE DEF D, less, same, run
<1> QED
  BY <1>2, <1>3, <1>4 DEF RanksAreMidRanks

\* What order sorts by.
LEMMA SortedIs ==
  ASSUME NEW xs \in Seq(Int)
  PROVE  /\ \A k \in 1 .. Len(xs) : sorted(xs)[k] \in 1 .. Len(xs)
         /\ \A j, k \in 1 .. Len(xs) : j < k => xs[sorted(xs)[j]] <= xs[sorted(xs)[k]]
<1>1. ASSUME NEW k \in 1 .. Len(xs)
      PROVE  sorted(xs)[k] \in 1 .. Len(xs) /\ place(xs, sorted(xs)[k]) = k
  <2>1. \E i \in 1 .. Len(xs) : place(xs, i) = k
    BY PlacesAreTaken
  <2>2. sorted(xs)[k] = CHOOSE i \in 1 .. Len(xs) : place(xs, i) = k
    BY DEF sorted
  <2> QED
    BY <2>1, <2>2
<1>2. ASSUME NEW j \in 1 .. Len(xs), NEW k \in 1 .. Len(xs), j < k
      PROVE  xs[sorted(xs)[j]] <= xs[sorted(xs)[k]]
  <2>1. PICK a \in 1 .. Len(xs) : a = sorted(xs)[j] /\ place(xs, a) = j
    BY <1>1
  <2>2. PICK b \in 1 .. Len(xs) : b = sorted(xs)[k] /\ place(xs, b) = k
    BY <1>1
  <2>3. ~(place(xs, b) < place(xs, a))
    BY <1>2, <2>1, <2>2
  <2>4. ~(xs[b] < xs[a])
    BY <2>3, PlacesGrow
  <2>5. xs[a] \in Int /\ xs[b] \in Int
    OBVIOUS
  <2> QED
    BY <2>1, <2>2, <2>4, <2>5
<1> QED
  BY <1>1, <1>2

------------------------------------------------------------------------------
(* The evidence for the score: correlations and verdicts. *)

Product(c, n, A, B, P) == n * (c * A - P) - A * (c * n - B) = -(n * P - A * B)

\* Ones add up to how many they are.
LEMMA SumOfOnes ==
  ASSUME NEW S, IsFiniteSet(S), NEW f, \A x \in S : f[x] = 1
  PROVE  Sum(f, S) = Cardinality(S)
<1> DEFINE T == {n \in Nat : \A R \in SUBSET S : Cardinality(R) = n => Sum(f, R) = n}
<1>1. ASSUME NEW R \in SUBSET S
      PROVE  IsFiniteSet(R) /\ Cardinality(R) \in Nat /\ \A x \in R : f[x] \in Int
  BY FS_Subset, FS_CardinalityType
<1>2. 0 \in T
  <2> SUFFICES ASSUME NEW R \in SUBSET S, Cardinality(R) = 0 PROVE Sum(f, R) = 0
    OBVIOUS
  <2> QED
    BY <1>1, FS_EmptySet, SumOfNone
<1>3. \A n \in Nat : n \in T => n + 1 \in T
  <2> SUFFICES ASSUME NEW n \in Nat, n \in T, NEW R \in SUBSET S, Cardinality(R) = n + 1
               PROVE  Sum(f, R) = n + 1
    OBVIOUS
  <2>1. IsFiniteSet(R) /\ Cardinality(R) # 0 /\ \A x \in R : f[x] \in Int
    BY <1>1
  <2>2. PICK x \in R : TRUE
    BY <2>1, FS_EmptySet
  <2>3. Cardinality(R \ {x}) = Cardinality(R) - 1
    BY <2>1, <2>2, Smaller
  <2>4. Sum(f, R \ {x}) = n
    <3>1. R \ {x} \in SUBSET S /\ Cardinality(R \ {x}) = n
      BY <2>3
    <3> QED
      BY <3>1
  <2>5. Sum(f, R) = f[x] + Sum(f, R \ {x})
    BY <2>1, <2>2, SumWithout
  <2> QED
    BY <2>2, <2>4, <2>5
<1> HIDE DEF T
<1>4. Cardinality(S) \in Nat /\ Cardinality(S) \in T
  BY <1>1, <1>2, <1>3, Induction
<1> QED
  BY <1>4 DEF T

LEMMA TotalSum == ASSUME NEW f PROVE total(f) = Sum(f, 1 .. Len(f))
  BY DEF total, Sum

LEMMA CovarianceTyped ==
  ASSUME NEW a \in Seq(Int), NEW b \in Seq(Int), Len(a) = Len(b)
  PROVE  covariance(a, b) \in Int /\ total(a) \in Int
<1> DEFINE D == 1 .. Len(a)
           ab == [i \in D |-> a[i] * b[i]]
<1>1. IsFiniteSet(D) /\ Len(a) \in Nat
  BY FS_Interval
<1>2. (\A i \in D : a[i] \in Int) /\ (\A i \in D : b[i] \in Int)
  OBVIOUS
<1>3. \A i \in D : ab[i] \in Int
  BY <1>2
<1>4. Len(ab) = Len(a)
  BY <1>1
<1>5. Sum(a, D) \in Int
  BY <1>1, <1>2, SumTyped
<1>6. Sum(b, D) \in Int
  BY <1>1, <1>2, SumTyped
<1>7. Sum(ab, D) \in Int
  <2> HIDE DEF ab
  <2> QED
    BY <1>1, <1>3, SumTyped
<1>8. total(a) = Sum(a, D) /\ total(b) = Sum(b, D) /\ total(ab) = Sum(ab, D)
  BY <1>4, TotalSum
<1> QED
  BY <1>1, <1>5, <1>6, <1>7, <1>8 DEF covariance

\* Which series comes first does not matter.
LEMMA CovarianceSwaps ==
  ASSUME NEW a \in Seq(Int), NEW b \in Seq(Int), Len(a) = Len(b)
  PROVE  covariance(a, b) = covariance(b, a)
<1>1. [i \in 1 .. Len(a) |-> a[i] * b[i]] = [i \in 1 .. Len(b) |-> b[i] * a[i]]
  <2>1. \A i \in 1 .. Len(a) : a[i] \in Int /\ b[i] \in Int
    OBVIOUS
  <2>2. \A i \in 1 .. Len(a) : a[i] * b[i] = b[i] * a[i]
    BY <2>1
  <2> QED
    BY <2>2
<1>2. total(a) * total(b) = total(b) * total(a)
  BY CovarianceTyped
<1> QED
  BY <1>1, <1>2 DEF covariance

\* With ranks c - r for r, n times the sum of products less the product of sums changes
\* sign.
LEMMA Turned ==
  ASSUME NEW c \in Int, NEW n \in Int, NEW A \in Int, NEW B \in Int, NEW P \in Int
  PROVE  Product(c, n, A, B, P)
<1>1. n * (c * A - P) = n * (c * A) - n * P
  OBVIOUS
<1>2. A * (c * n - B) = A * (c * n) - A * B
  OBVIOUS
<1>3. n * (c * A) = A * (c * n)
  OBVIOUS
<1>4. n * P \in Int /\ A * B \in Int /\ n * (c * A) \in Int
  OBVIOUS
<1> QED
  BY <1>1, <1>2, <1>3, <1>4 DEF Product

Mirrored(a, b, r, c) ==
    /\ Len(b) = Len(a) /\ Len(r) = Len(a)
    /\ \A i \in 1 .. Len(a) : r[i] = c - b[i]

Opposite(a, b, r) == covariance(a, r) = -covariance(a, b)

\* Ranks from the other end vary against the ranks.
LEMMA CovarianceTurns ==
  ASSUME NEW a \in Seq(Int), NEW b \in Seq(Int), NEW r \in Seq(Int), NEW c \in Int,
         Mirrored(a, b, r, c)
  PROVE  Opposite(a, b, r)
<1> DEFINE D == 1 .. Len(a)
           ab == [i \in D |-> a[i] * b[i]]
           ar == [i \in D |-> a[i] * r[i]]
           one == [i \in D |-> 1]
<1>0. Len(b) = Len(a) /\ Len(r) = Len(a) /\ \A i \in 1 .. Len(a) : r[i] = c - b[i]
  BY DEF Mirrored
<1>1. IsFiniteSet(D) /\ Len(a) \in Nat
  BY FS_Interval
<1>2. /\ \A i \in D : a[i] \in Int /\ b[i] \in Int /\ r[i] \in Int
      /\ (\A i \in D : a[i] \in Int) /\ (\A i \in D : b[i] \in Int)
  BY <1>0
<1>3. /\ \A i \in D : ab[i] = a[i] * b[i] /\ ar[i] = a[i] * r[i] /\ one[i] = 1
      /\ \A i \in D : ab[i] \in Int
      /\ \A i \in D : one[i] \in Int
  BY <1>2
<1>4. Len(ab) = Len(a) /\ Len(ar) = Len(a)
  BY <1>1
<1>5. /\ total(a) = Sum(a, D) /\ total(b) = Sum(b, D) /\ total(r) = Sum(r, D)
      /\ total(ab) = Sum(ab, D) /\ total(ar) = Sum(ar, D)
  BY <1>0, <1>4, TotalSum
<1>6. /\ covariance(a, b) = Len(a) * total(ab) - total(a) * total(b)
      /\ covariance(a, r) = Len(a) * total(ar) - total(a) * total(r)
  BY DEF covariance
<1> HIDE DEF ab, ar, one
<1>7. Sum(ar, D) = c * Sum(a, D) - Sum(ab, D)
  <2>1. ASSUME NEW i \in D PROVE ar[i] = c * a[i] - ab[i]
    <3>1. a[i] \in Int /\ b[i] \in Int /\ r[i] = c - b[i] /\ ar[i] = a[i] * r[i] /\ ab[i] = a[i] * b[i]
      BY <1>0, <1>2, <1>3
    <3>2. a[i] * (c - b[i]) = c * a[i] - (a[i] * b[i])
      BY <3>1
    <3> QED
      BY <3>1, <3>2
  <2>2. \A i \in D : a[i] \in Int /\ ab[i] \in Int /\ ar[i] = c * a[i] - ab[i]
    BY <1>2, <1>3, <2>1
  <2> HIDE DEF D
  <2>5. IsFiniteSet(D)
    BY <1>1
  <2>6. Combined(ar, c, a, ab, D)
    BY <2>2, <2>5, SumCombined, Zenon
  <2> QED
    BY <2>6 DEF Combined
<1>8. Sum(one, D) = Len(a)
  <2>1. PICK n \in Nat : n = Len(a)
    BY <1>1
  <2>2. Cardinality(1 .. n) = n
    BY FS_Interval
  <2>3. Sum(one, D) = Cardinality(D)
    <3> HIDE DEF D
    <3> QED
      BY <1>1, <1>3, SumOfOnes
  <2> QED
    BY <2>1, <2>2, <2>3
<1>9. Sum(r, D) = c * Sum(one, D) - Sum(b, D)
  <2>1. ASSUME NEW i \in D PROVE r[i] = c * one[i] - b[i]
    <3>1. r[i] = c - b[i] /\ one[i] = 1 /\ c * 1 = c
      BY <1>0, <1>3
    <3> QED
      BY <3>1, Zenon
  <2>2. \A i \in D : one[i] \in Int /\ b[i] \in Int /\ r[i] = c * one[i] - b[i]
    BY <1>2, <1>3, <2>1
  <2> HIDE DEF D
  <2>5. IsFiniteSet(D)
    BY <1>1
  <2>6. Combined(r, c, one, b, D)
    BY <2>2, <2>5, SumCombined, Zenon
  <2> QED
    BY <2>6 DEF Combined
<1>10. Sum(a, D) \in Int /\ Sum(b, D) \in Int /\ Sum(ab, D) \in Int
  <2>1. Sum(a, D) \in Int
    BY <1>1, <1>2, SumTyped
  <2>2. Sum(b, D) \in Int
    BY <1>1, <1>2, SumTyped
  <2>3. Sum(ab, D) \in Int
    BY <1>1, <1>3, SumTyped
  <2> QED
    BY <2>1, <2>2, <2>3
<1> HIDE DEF D
<1>11. /\ Len(a) * (c * Sum(a, D) - Sum(ab, D)) - Sum(a, D) * (c * Len(a) - Sum(b, D))
            = -(Len(a) * Sum(ab, D) - Sum(a, D) * Sum(b, D))
  <2>1. Len(a) \in Int
    BY <1>1
  <2>2. PICK n \in Int, A \in Int : n = Len(a) /\ A = Sum(a, D)
    BY <1>10, <2>1
  <2>3. PICK B \in Int, P \in Int : B = Sum(b, D) /\ P = Sum(ab, D)
    BY <1>10
  <2>4. Product(c, n, A, B, P)
    BY Turned, Zenon
  <2> QED
    BY <2>2, <2>3, <2>4, Zenon DEF Product
<1> QED
  BY <1>5, <1>6, <1>7, <1>8, <1>9, <1>11, Zenon DEF Opposite

LEMMA RanksTyped ==
  ASSUME NEW xs \in Seq(Int)
  PROVE  rankWithTies(xs) = midRank(xs) /\ midRank(xs) \in Seq(Int) /\ Len(midRank(xs)) = Len(xs)
<1>1. rankWithTies(xs) = midRank(xs)
  BY RanksRight DEF RanksAreMidRanks
<1>2. ASSUME NEW i \in 1 .. Len(xs)
      PROVE  2 * Cardinality({j \in 1 .. Len(xs) : xs[j] < xs[i]})
               + Cardinality({j \in 1 .. Len(xs) : xs[j] = xs[i]}) + 1 \in Int
  <2>1. IsFiniteSet(1 .. Len(xs))
    BY FS_Interval
  <2>2. /\ IsFiniteSet({j \in 1 .. Len(xs) : xs[j] < xs[i]})
        /\ IsFiniteSet({j \in 1 .. Len(xs) : xs[j] = xs[i]})
    BY <2>1, FS_Subset
  <2>3. /\ Cardinality({j \in 1 .. Len(xs) : xs[j] < xs[i]}) \in Nat
        /\ Cardinality({j \in 1 .. Len(xs) : xs[j] = xs[i]}) \in Nat
    BY <2>2, FS_CardinalityType, Zenon
  <2> QED
    BY <2>3
<1>3. midRank(xs) \in [1 .. Len(xs) -> Int]
  BY <1>2 DEF midRank
<1>4. midRank(xs) \in Seq(Int) /\ Len(midRank(xs)) = Len(xs)
  BY <1>3
<1> QED
  BY <1>1, <1>4

\* Negated, an item takes the place that its opposite had from the other end.
LEMMA RanksTurn ==
  ASSUME NEW xs \in Seq(Int), NEW ys \in Seq(Int), Len(ys) = Len(xs),
         \A i \in 1 .. Len(xs) : ys[i] = -xs[i]
  PROVE  \A i \in 1 .. Len(xs) : midRank(ys)[i] = (2 * Len(xs) + 2) - midRank(xs)[i]
<1> SUFFICES ASSUME NEW i \in 1 .. Len(xs)
             PROVE  midRank(ys)[i] = (2 * Len(xs) + 2) - midRank(xs)[i]
  OBVIOUS
<1>0. PICK n \in Nat : n = Len(xs)
  OBVIOUS
<1>1. PICK less : less = {j \in 1 .. n : xs[j] < xs[i]}
  OBVIOUS
<1>2. PICK same : same = {j \in 1 .. n : xs[j] = xs[i]}
  OBVIOUS
<1>3. PICK more : more = {j \in 1 .. n : xs[j] > xs[i]}
  OBVIOUS
<1>4. \A j \in 1 .. n : xs[j] \in Int /\ ys[j] = -xs[j]
  BY <1>0
<1>5. more = {j \in 1 .. n : ys[j] < ys[i]} /\ same = {j \in 1 .. n : ys[j] = ys[i]}
  <2>1. \A j \in 1 .. n : (xs[j] > xs[i] <=> ys[j] < ys[i]) /\ (xs[j] = xs[i] <=> ys[j] = ys[i])
    BY <1>0, <1>4
  <2> QED
    BY <1>2, <1>3, <2>1
<1>6. IsFiniteSet(1 .. n) /\ Cardinality(1 .. n) = n
  BY CountUpTo
<1>7. IsFiniteSet(less) /\ IsFiniteSet(same) /\ IsFiniteSet(more)
  <2>1. less \subseteq 1 .. n /\ same \subseteq 1 .. n /\ more \subseteq 1 .. n
    BY <1>1, <1>2, <1>3
  <2> QED
    BY <1>6, <2>1, FS_Subset
<1>8. /\ Cardinality(less) \in Nat /\ Cardinality(same) \in Nat /\ Cardinality(more) \in Nat
  BY <1>7, FS_CardinalityType
<1>9. Cardinality(less) + Cardinality(same) + Cardinality(more) = n
  <2>1. /\ less \cap same = {} /\ (less \cup same) \cap more = {}
        /\ (less \cup same) \cup more = 1 .. n
    BY <1>0, <1>1, <1>2, <1>3, <1>4
  <2>2. PICK both : both = less \cup same
    OBVIOUS
  <2>3. Cardinality(both) = Cardinality(less) + Cardinality(same) /\ IsFiniteSet(both)
    <3>1. Cardinality(less \cup same)
            = Cardinality(less) + Cardinality(same) - Cardinality(less \cap same)
          /\ IsFiniteSet(less \cup same)
      BY <1>7, FS_Union, Zenon
    <3>2. Cardinality(less \cap same) = 0
      BY <2>1, FS_EmptySet
    <3> QED
      BY <1>8, <2>2, <3>1, <3>2
  <2>4. Cardinality(both \cup more)
          = Cardinality(both) + Cardinality(more) - Cardinality(both \cap more)
    BY <1>7, <2>3, FS_Union, Zenon
  <2>5. Cardinality(both \cap more) = 0
    BY <2>1, <2>2, FS_EmptySet
  <2>6. Cardinality(both \cup more) = n
    BY <1>6, <2>1, <2>2
  <2> QED
    BY <1>8, <2>3, <2>4, <2>5, <2>6
<1>10. midRank(xs)[i] = 2 * Cardinality(less) + Cardinality(same) + 1
  BY <1>0, <1>1, <1>2 DEF midRank
<1>11. midRank(ys)[i] = 2 * Cardinality(more) + Cardinality(same) + 1
  BY <1>0, <1>5 DEF midRank
<1>12. PICK a \in Nat, b \in Nat, c \in Nat :
          a = Cardinality(less) /\ b = Cardinality(same) /\ c = Cardinality(more)
  BY <1>8
<1>13. midRank(xs)[i] = 2 * a + b + 1 /\ midRank(ys)[i] = 2 * c + b + 1 /\ a + b + c = n
  BY <1>9, <1>10, <1>11, <1>12, Zenon
<1>14. 2 * c + b + 1 = (2 * n + 2) - (2 * a + b + 1)
  BY <1>13
<1> QED
  BY <1>0, <1>13, <1>14, Zenon

\* The correlation with negated returns is the negated correlation.
LEMMA SpearmanTurns ==
  ASSUME NEW xs \in Seq(Int), NEW ys \in Seq(Int), NEW zs \in Seq(Int),
         Len(ys) = Len(xs), Len(zs) = Len(xs), \A i \in 1 .. Len(xs) : zs[i] = -ys[i]
  PROVE  /\ spearman(xs, ys).num \in Int /\ spearman(xs, ys).den2 \in Int
         /\ spearman(xs, zs).num = -spearman(xs, ys).num
         /\ spearman(xs, zs).den2 = spearman(xs, ys).den2
<1>1. PICK ra \in Seq(Int) : ra = rankWithTies(xs) /\ Len(ra) = Len(xs)
  BY RanksTyped
<1>2. PICK rb \in Seq(Int) : rb = rankWithTies(ys) /\ Len(rb) = Len(xs)
  BY RanksTyped
<1>3. PICK rc \in Seq(Int) : rc = rankWithTies(zs) /\ Len(rc) = Len(xs)
  BY RanksTyped
<1>4. PICK c \in Int : c = 2 * Len(xs) + 2
  OBVIOUS
<1>5. rb = midRank(ys) /\ rc = midRank(zs) /\ Len(ys) = Len(xs) /\ Len(zs) = Len(ys)
  BY <1>2, <1>3, RanksTyped
<1>6. ASSUME NEW i \in 1 .. Len(xs) PROVE rc[i] = c - rb[i]
  <2>1. \A k \in 1 .. Len(ys) : midRank(zs)[k] = (2 * Len(ys) + 2) - midRank(ys)[k]
    BY RanksTurn
  <2>2. i \in 1 .. Len(ys)
    OBVIOUS
  <2>3. midRank(zs)[i] = (2 * Len(ys) + 2) - midRank(ys)[i]
    BY <2>1, <2>2, Zenon
  <2>4. 2 * Len(ys) + 2 = c
    BY <1>4, <1>5
  <2>5. midRank(zs)[i] = c - midRank(ys)[i]
    BY <2>3, <2>4, Zenon
  <2>6. rb = midRank(ys) /\ rc = midRank(zs)
    BY <1>5
  <2> QED
    BY <2>5, <2>6, Zenon
<1>61. Mirrored(ra, rb, rc, c) /\ Mirrored(rc, rb, rc, c) /\ Mirrored(rb, rb, rc, c)
  BY <1>1, <1>2, <1>3, <1>6 DEF Mirrored
<1>62. Opposite(ra, rb, rc) /\ Opposite(rc, rb, rc) /\ Opposite(rb, rb, rc)
  BY <1>61, CovarianceTurns, Zenon
<1>7. covariance(rc, rc) = covariance(rb, rb)
  <2>1. covariance(rc, rc) = -covariance(rc, rb)
    BY <1>62, Zenon DEF Opposite
  <2>2. covariance(rc, rb) = covariance(rb, rc)
    BY <1>2, <1>3, CovarianceSwaps
  <2>3. covariance(rb, rc) = -covariance(rb, rb)
    BY <1>62, Zenon DEF Opposite
  <2>4. covariance(rb, rb) \in Int
    BY CovarianceTyped
  <2> QED
    BY <2>1, <2>2, <2>3, <2>4
<1>8. /\ covariance(ra, rb) \in Int /\ covariance(ra, ra) \in Int /\ covariance(rb, rb) \in Int
  BY <1>1, <1>2, CovarianceTyped
<1>9. covariance(ra, ra) * covariance(rb, rb) \in Int
  BY <1>8
<1>10. spearman(xs, ys) = IF covariance(ra, ra) * covariance(rb, rb) = 0
                          THEN [num |-> 0, den2 |-> 1]
                          ELSE [num |-> covariance(ra, rb),
                                den2 |-> covariance(ra, ra) * covariance(rb, rb)]
  BY <1>1, <1>2, Zenon DEF spearman
<1>11. spearman(xs, zs) = IF covariance(ra, ra) * covariance(rb, rb) = 0
                          THEN [num |-> 0, den2 |-> 1]
                          ELSE [num |-> -covariance(ra, rb),
                                den2 |-> covariance(ra, ra) * covariance(rb, rb)]
  <2>1. spearman(xs, zs) = IF covariance(ra, ra) * covariance(rc, rc) = 0
                           THEN [num |-> 0, den2 |-> 1]
                           ELSE [num |-> covariance(ra, rc),
                                 den2 |-> covariance(ra, ra) * covariance(rc, rc)]
    BY <1>1, <1>3, Zenon DEF spearman
  <2> QED
    BY <1>7, <1>62, <2>1, Zenon DEF Opposite
<1> QED
  BY <1>8, <1>9, <1>10, <1>11

Observation == [score : Int, forwardReturn : Int]

\* What each verdict says of the correlation.
LEMMA VerdictIs ==
  ASSUME NEW r, r.num \in Int, NEW n \in Nat, NEW significant \in BOOLEAN
  PROVE  verdictOf(r, n, significant) =
           IF n < MinForVerdict THEN "insufficient_data"
           ELSE IF significant /\ above(r, 2) THEN "positive"
           ELSE IF significant /\ below(r, 2) THEN "inverted"
           ELSE IF significant /\ above(r, 1) THEN "weak_positive"
           ELSE "no_evidence"
<1>1. MinForVerdict \in Nat
  BY CalibrationAssumption
<1>2. ~(above(r, 2) /\ below(r, 2)) /\ ~(above(r, 1) /\ below(r, 2))
  BY DEF above, below
<1>3. (n < MinForVerdict) <=> ~(n >= MinForVerdict)
  BY <1>1
<1>4. CASE ~(n >= MinForVerdict)
  BY <1>3, <1>4, Zenon DEF verdictOf
<1>5. CASE n >= MinForVerdict /\ ~significant
  BY <1>3, <1>5, Zenon DEF verdictOf
<1>6. CASE n >= MinForVerdict /\ significant
  <2> DEFINE v == CASE above(r, 2) -> "positive"
                    [] below(r, 2) -> "inverted"
                    [] above(r, 1) /\ ~above(r, 2) -> "weak_positive"
                    [] OTHER -> "no_evidence"
  <2>1. verdictOf(r, n, significant) = v
    BY <1>3, <1>6, Zenon DEF verdictOf
  <2>2. v = IF above(r, 2) THEN "positive"
            ELSE IF below(r, 2) THEN "inverted"
            ELSE IF above(r, 1) THEN "weak_positive" ELSE "no_evidence"
    BY <1>2
  <2> HIDE DEF v
  <2> QED
    BY <1>3, <1>6, <2>1, <2>2
<1> QED
  BY <1>4, <1>5, <1>6

\* A correlation is high enough as its opposite is low enough, and not both are high.
LEMMA SignTurns ==
  ASSUME NEW r, NEW s, r.num \in Int, r.den2 \in Int, s.num = -r.num, s.den2 = r.den2
  PROVE  /\ (above(r, 2) <=> below(s, 2)) /\ (below(r, 2) <=> above(s, 2))
         /\ ~(above(r, 1) /\ above(s, 1))
<1>1. PICK x \in Int, d \in Int : x = r.num /\ d = r.den2
  OBVIOUS
<1>2. /\ 100 * (-x) * (-x) = 100 * x * x /\ (-x < 0 <=> x > 0) /\ (-x > 0 <=> x < 0)
      /\ ~(x > 0 /\ -x > 0)
  OBVIOUS
<1>3. s.num = -x /\ s.den2 = d
  BY <1>1
<1> QED
  BY <1>1, <1>2, <1>3, Zenon DEF above, below

LEMMA SeriesTyped ==
  ASSUME NEW obs \in Seq(Observation)
  PROVE  /\ scoresOf(obs) \in Seq(Int) /\ Len(scoresOf(obs)) = Len(obs)
         /\ returnsOf(obs) \in Seq(Int) /\ Len(returnsOf(obs)) = Len(obs)
         /\ \A i \in 1 .. Len(obs) : scoresOf(obs)[i] = obs[i].score
         /\ \A i \in 1 .. Len(obs) : returnsOf(obs)[i] = obs[i].forwardReturn
<1>1. ASSUME NEW i \in 1 .. Len(obs) PROVE obs[i].score \in Int /\ obs[i].forwardReturn \in Int
  <2>1. obs[i] \in Observation
    OBVIOUS
  <2> QED
    BY <2>1 DEF Observation
<1>2. scoresOf(obs) \in [1 .. Len(obs) -> Int] /\ returnsOf(obs) \in [1 .. Len(obs) -> Int]
  BY <1>1 DEF scoresOf, returnsOf
<1>3. /\ \A i \in 1 .. Len(obs) : scoresOf(obs)[i] = obs[i].score
      /\ \A i \in 1 .. Len(obs) : returnsOf(obs)[i] = obs[i].forwardReturn
  BY DEF scoresOf, returnsOf
<1>4. Len(obs) \in Nat
  OBVIOUS
<1>5. scoresOf(obs) \in Seq(Int) /\ Len(scoresOf(obs)) = Len(obs)
  BY <1>2, <1>4
<1>6. returnsOf(obs) \in Seq(Int) /\ Len(returnsOf(obs)) = Len(obs)
  BY <1>2, <1>4
<1> QED
  BY <1>3, <1>5, <1>6

\* Mirrored observations keep the scores and negate the returns.
LEMMA MirrorIs ==
  ASSUME NEW obs \in Seq(Observation)
  PROVE  /\ mirror(obs) \in Seq(Observation) /\ Len(mirror(obs)) = Len(obs)
         /\ scoresOf(mirror(obs)) = scoresOf(obs)
         /\ \A i \in 1 .. Len(obs) : returnsOf(mirror(obs))[i] = -returnsOf(obs)[i]
<1>1. Len(obs) \in Nat
  OBVIOUS
<1>2. ASSUME NEW i \in 1 .. Len(obs)
      PROVE  /\ mirror(obs)[i] \in Observation
             /\ mirror(obs)[i].score = obs[i].score
             /\ mirror(obs)[i].forwardReturn = -obs[i].forwardReturn
  <2>1. obs[i] \in Observation
    OBVIOUS
  <2>2. mirror(obs)[i] = [obs[i] EXCEPT !.forwardReturn = -@]
    BY DEF mirror
  <2> QED
    BY <2>1, <2>2 DEF Observation
<1>3. mirror(obs) = [i \in 1 .. Len(obs) |-> mirror(obs)[i]]
  BY DEF mirror
<1>4. mirror(obs) \in Seq(Observation) /\ Len(mirror(obs)) = Len(obs)
  BY <1>1, <1>2, <1>3
<1>5. scoresOf(mirror(obs)) = scoresOf(obs)
  BY <1>2, <1>4 DEF scoresOf
<1>6. \A i \in 1 .. Len(obs) : returnsOf(mirror(obs))[i] = -returnsOf(obs)[i]
  BY <1>2, <1>4, SeriesTyped
<1> QED
  BY <1>4, <1>5, <1>6

\* VerdictTurns: negated returns get the opposite verdict where it is a strong one,
\* and "no_evidence" in place of a weak one (calibration.ts:175-183).
THEOREM VerdictRight ==
  ASSUME NEW obs \in Seq(Observation), NEW significant \in BOOLEAN
  PROVE  VerdictTurns(obs, significant, calibrate(obs, significant))
<1> DEFINE n == Len(obs)
           other == mirror(obs)
           r == spearman(scoresOf(obs), returnsOf(obs))
           s == spearman(scoresOf(other), returnsOf(other))
           v == calibrate(obs, significant).verdict
           w == calibrate(other, significant).verdict
<1>1. n \in Nat /\ MinForRank \in Nat
  BY CalibrationAssumption
<1>2. Len(other) = n /\ other \in Seq(Observation) /\ scoresOf(other) = scoresOf(obs)
  BY MirrorIs
<1>3. /\ r.num \in Int /\ r.den2 \in Int /\ s.num = -r.num /\ s.den2 = r.den2
  <2>1. PICK xs \in Seq(Int) : xs = scoresOf(obs) /\ Len(xs) = n
    BY SeriesTyped
  <2>2. PICK ys \in Seq(Int) : ys = returnsOf(obs) /\ Len(ys) = n
    BY SeriesTyped
  <2>3. PICK zs \in Seq(Int) : zs = returnsOf(other) /\ Len(zs) = n
    BY <1>2, SeriesTyped
  <2>4. \A i \in 1 .. Len(xs) : zs[i] = -ys[i]
    BY <2>1, <2>2, <2>3, MirrorIs
  <2>5. Len(ys) = Len(xs) /\ Len(zs) = Len(xs)
    BY <2>1, <2>2, <2>3
  <2>6. /\ spearman(xs, ys).num \in Int /\ spearman(xs, ys).den2 \in Int
        /\ spearman(xs, zs).num = -spearman(xs, ys).num
        /\ spearman(xs, zs).den2 = spearman(xs, ys).den2
    BY <2>4, <2>5, SpearmanTurns
  <2> QED
    BY <1>2, <2>1, <2>2, <2>3, <2>6
<1>4. /\ (above(r, 2) <=> below(s, 2)) /\ (below(r, 2) <=> above(s, 2))
      /\ ~(above(r, 1) /\ above(s, 1))
  <2> HIDE DEF r, s
  <2> QED
    BY <1>3, SignTurns
<1>5. v = IF n < MinForRank THEN "insufficient_data" ELSE verdictOf(r, n, significant)
  BY DEF calibrate
<1>6. w = IF n < MinForRank THEN "insufficient_data" ELSE verdictOf(s, n, significant)
  BY <1>2 DEF calibrate
<1>7. s.num \in Int
  BY <1>3
<1>8. w \in turned(v)
  <2> HIDE DEF r, s, n, v, w
  <2>1. CASE n < MinForRank
    BY <1>5, <1>6, <2>1 DEF turned
  <2>2. CASE ~(n < MinForRank)
    <3>1. v = verdictOf(r, n, significant) /\ w = verdictOf(s, n, significant)
      BY <1>5, <1>6, <2>2
    <3>2. CASE n < MinForVerdict
      BY <1>1, <1>3, <1>7, <3>1, <3>2, VerdictIs DEF turned
    <3>3. CASE ~(n < MinForVerdict)
      <4>1. v = IF significant /\ above(r, 2) THEN "positive"
                ELSE IF significant /\ below(r, 2) THEN "inverted"
                ELSE IF significant /\ above(r, 1) THEN "weak_positive" ELSE "no_evidence"
        BY <1>1, <1>3, <3>1, <3>3, VerdictIs
      <4>2. w = IF significant /\ above(s, 2) THEN "positive"
                ELSE IF significant /\ below(s, 2) THEN "inverted"
                ELSE IF significant /\ above(s, 1) THEN "weak_positive" ELSE "no_evidence"
        BY <1>1, <1>7, <3>1, <3>3, VerdictIs
      <4> HIDE DEF above, below
      <4>3. ~(above(r, 2) /\ below(r, 2))
        BY <1>3 DEF above, below
      <4>4. CASE v = "positive"
        BY <1>4, <4>1, <4>2, <4>3, <4>4 DEF turned
      <4>5. CASE v = "inverted"
        BY <1>4, <4>1, <4>2, <4>5 DEF turned
      <4>6. CASE v = "weak_positive"
        BY <1>4, <4>1, <4>2, <4>6 DEF turned
      <4>7. CASE v = "no_evidence"
        BY <1>4, <4>1, <4>2, <4>7 DEF turned
      <4> QED
        BY <4>1, <4>4, <4>5, <4>6, <4>7
    <3> QED
      BY <3>2, <3>3
  <2> QED
    BY <2>1, <2>2
<1> QED
  BY <1>8, Zenon DEF VerdictTurns

\* The quarters are next to each other, from the first to the last.
LEMMA QuartersCover ==
  ASSUME NEW n \in Nat
  PROVE  /\ \A q \in 1 .. 4 : quarter(n, q) \subseteq 1 .. n
         /\ \A k \in 1 .. n : \E q \in 1 .. 4 : k \in quarter(n, q)
         /\ \A p, q \in 1 .. 4 : p < q =>
               \A j \in quarter(n, p), k \in quarter(n, q) : j < k
<1>1. PICK m \in Int : m = n \div 4
  BY DivMod
<1>2. 4 * m <= n /\ m \in Nat /\ n < 4 * m + 4
  <2>1. n = 4 * (n \div 4) + (n % 4) /\ n % 4 \in 0 .. 4 - 1
    BY DivMod
  <2> QED
    BY <1>1, <2>1
<1>3. /\ quarter(n, 1) = 1 .. m /\ quarter(n, 2) = m + 1 .. 2 * m
      /\ quarter(n, 3) = 2 * m + 1 .. 3 * m /\ quarter(n, 4) = 3 * m + 1 .. n
  BY <1>1 DEF quarter
<1>4. 1 .. 4 = {1, 2, 3, 4}
  OBVIOUS
<1>5. \A q \in 1 .. 4 : quarter(n, q) \subseteq 1 .. n
  BY <1>2, <1>3, <1>4
<1>6. ASSUME NEW k \in 1 .. n PROVE \E q \in 1 .. 4 : k \in quarter(n, q)
  <2>1. k \in 1 .. m \/ k \in m + 1 .. 2 * m \/ k \in 2 * m + 1 .. 3 * m \/ k \in 3 * m + 1 .. n
    BY <1>2
  <2> QED
    BY <1>3, <1>4, <2>1
<1>7. \A p, q \in 1 .. 4 : p < q =>
               \A j \in quarter(n, p), k \in quarter(n, q) : j < k
  BY <1>2, <1>3, <1>4
<1> QED
  BY <1>5, <1>6, <1>7

\* QuartilesPartition: every observation is in a quartile, and quartiles do not overlap in
\* score (calibration.ts, calibrate).
THEOREM QuartilesRight ==
  ASSUME NEW obs \in Seq(Observation), NEW significant \in BOOLEAN
  PROVE  QuartilesPartition(calibrate(obs, significant))
<1> DEFINE c == calibrate(obs, significant)
           n == Len(obs)
           order == sorted(scoresOf(obs))
<1>1. n \in Nat /\ MinForRank \in Nat /\ c.n = n
  BY CalibrationAssumption DEF calibrate
<1> SUFFICES ASSUME n >= MinForRank
             PROVE  /\ \A k \in 1 .. n : \E q \in 1 .. 4 : k \in DOMAIN c.quartiles[q]
                    /\ \A p, q \in 1 .. 4 : p < q =>
                          \A j \in DOMAIN c.quartiles[p], k \in DOMAIN c.quartiles[q] :
                             j # k /\ c.quartiles[p][j].score <= c.quartiles[q][k].score
  BY <1>1 DEF QuartilesPartition
<1>2. c.quartiles = [q \in 1 .. 4 |-> [k \in quarter(n, q) |-> obs[order[k]]]]
  BY <1>1 DEF calibrate
<1>3. \A q \in 1 .. 4 : /\ DOMAIN c.quartiles[q] = quarter(n, q)
                        /\ \A k \in quarter(n, q) : c.quartiles[q][k] = obs[order[k]]
  <2> HIDE DEF c, order, n
  <2> QED
    BY <1>2
<1>4. ASSUME NEW p \in 1 .. 4, NEW q \in 1 .. 4, p < q,
             NEW j \in quarter(n, p), NEW k \in quarter(n, q)
      PROVE  j # k /\ obs[order[j]].score <= obs[order[k]].score
  <2>1. j \in 1 .. n /\ k \in 1 .. n /\ j < k
    BY <1>1, <1>4, QuartersCover
  <2>2. PICK xs \in Seq(Int) : xs = scoresOf(obs) /\ Len(xs) = n
    BY SeriesTyped
  <2>3. order[j] \in 1 .. n /\ order[k] \in 1 .. n /\ xs[order[j]] <= xs[order[k]]
    BY <2>1, <2>2, SortedIs
  <2>4. xs[order[j]] = obs[order[j]].score /\ xs[order[k]] = obs[order[k]].score
    BY <2>2, <2>3, SeriesTyped
  <2> QED
    BY <2>1, <2>3, <2>4
<1> HIDE DEF c, n, order
<1>5. \A k \in 1 .. n : \E q \in 1 .. 4 : k \in quarter(n, q)
  BY <1>1, QuartersCover
<1>6. ASSUME NEW k \in 1 .. n PROVE \E q \in 1 .. 4 : k \in DOMAIN c.quartiles[q]
  BY <1>3, <1>5, Zenon
<1>7. ASSUME NEW p \in 1 .. 4, NEW q \in 1 .. 4, p < q,
             NEW j \in DOMAIN c.quartiles[p], NEW k \in DOMAIN c.quartiles[q]
      PROVE  j # k /\ c.quartiles[p][j].score <= c.quartiles[q][k].score
  <2>1. j \in quarter(n, p) /\ k \in quarter(n, q)
    BY <1>3, Zenon
  <2>2. c.quartiles[p][j] = obs[order[j]] /\ c.quartiles[q][k] = obs[order[k]]
    BY <1>3, <2>1, Zenon
  <2>3. j # k /\ obs[order[j]].score <= obs[order[k]].score
    BY <1>4, <1>7, <2>1, Zenon
  <2> QED
    BY <2>2, <2>3, Zenon
<1> QED
  BY <1>6, <1>7, Zenon

\* EvidenceIsRight of what calibrate answers (calibration.ts, calibrate).
THEOREM EvidenceRight ==
  ASSUME NEW obs \in Seq(Observation), NEW significant \in BOOLEAN, NEW a,
         a.obs = obs, a.significant = significant, a.result = calibrate(obs, significant)
  PROVE  EvidenceIsRight(a)
<1>1. RanksAreMidRanks(scoresOf(obs)) /\ RanksAreMidRanks(returnsOf(obs))
  BY SeriesTyped, RanksRight
<1>2. VerdictTurns(obs, significant, calibrate(obs, significant))
  BY VerdictRight
<1>3. QuartilesPartition(calibrate(obs, significant))
  BY QuartilesRight
<1> QED
  BY <1>1, <1>2, <1>3, Zenon DEF EvidenceIsRight

------------------------------------------------------------------------------
(* The liquidation map (LiquidationMap). *)

\* g tells which part of I something is in, h is the sum of f over each part.
Parts(f, g, h, I, B) ==
    /\ \A i \in I : f[i] \in Int
    /\ \A i \in I : g[i] \in B
    /\ \A b \in B : h[b] = Sum(f, {i \in I : g[i] = b})

AddUp(f, h, I, B) == Sum(h, B) = Sum(f, I)

\* A sum, from those of its parts.
LEMMA SumParts ==
  ASSUME NEW I, IsFiniteSet(I), NEW B, IsFiniteSet(B), NEW f, NEW g, NEW h,
         Parts(f, g, h, I, B)
  PROVE  AddUp(f, h, I, B)
<1> DEFINE part(C) == {i \in I : g[i] \in C}
           T == {n \in Nat : \A C \in SUBSET B : Cardinality(C) = n => Sum(h, C) = Sum(f, part(C))}
<1>0. /\ \A i \in I : f[i] \in Int
      /\ \A i \in I : g[i] \in B
      /\ \A b \in B : h[b] = Sum(f, {i \in I : g[i] = b})
  BY DEF Parts
<1>1. ASSUME NEW C \in SUBSET B PROVE IsFiniteSet(C) /\ Cardinality(C) \in Nat
  BY FS_Subset, FS_CardinalityType
<1>2. ASSUME NEW J \in SUBSET I PROVE IsFiniteSet(J) /\ (\A i \in J : f[i] \in Int) /\ Sum(f, J) \in Int
  <2>1. IsFiniteSet(J) /\ \A i \in J : f[i] \in Int
    BY <1>0, FS_Subset
  <2> QED
    BY <2>1, SumTyped
<1>3. ASSUME NEW b \in B PROVE h[b] \in Int
  <2>1. {i \in I : g[i] = b} \in SUBSET I
    OBVIOUS
  <2> QED
    BY <1>0, <1>2, <2>1
<1>4. 0 \in T
  <2> SUFFICES ASSUME NEW C \in SUBSET B, Cardinality(C) = 0 PROVE Sum(h, C) = Sum(f, part(C))
    OBVIOUS
  <2>1. C = {} /\ part(C) = {}
    BY <1>1, FS_EmptySet
  <2> QED
    BY <2>1, SumOfNone
<1>5. \A n \in Nat : n \in T => n + 1 \in T
  <2> SUFFICES ASSUME NEW n \in Nat, n \in T, NEW C \in SUBSET B, Cardinality(C) = n + 1
               PROVE  Sum(h, C) = Sum(f, part(C))
    OBVIOUS
  <2>1. IsFiniteSet(C) /\ Cardinality(C) # 0 /\ \A b \in C : h[b] \in Int
    BY <1>1, <1>3
  <2>2. PICK b \in C : TRUE
    BY <2>1, FS_EmptySet
  <2>3. PICK Q \in SUBSET B : Q = C \ {b}
    OBVIOUS
  <2>4. Cardinality(C \ {b}) = Cardinality(C) - 1
    BY <2>1, <2>2, Smaller
  <2>5. Sum(h, Q) = Sum(f, part(Q))
    <3>1. Cardinality(Q) = n
      BY <2>3, <2>4
    <3> QED
      BY <3>1
  <2>6. Sum(h, C) = h[b] + Sum(h, C \ {b})
    BY <2>1, <2>2, SumWithout
  <2>7. PICK J \in SUBSET I : J = {i \in I : g[i] = b}
    OBVIOUS
  <2>8. PICK K \in SUBSET I : K = part(Q)
    OBVIOUS
  <2>9. part(C) = J \cup K /\ J \cap K = {}
    BY <2>2, <2>3, <2>7, <2>8
  <2>10. Sum(f, J \cup K) = Sum(f, J) + Sum(f, K)
    <3>1. IsFiniteSet(J \cup K) /\ \A i \in J \cup K : f[i] \in Int
      BY <1>2
    <3> QED
      BY <2>9, <3>1, SumUnion
  <2>11. h[b] = Sum(f, J)
    BY <1>0, <2>2, <2>7
  <2> QED
    BY <2>3, <2>5, <2>6, <2>8, <2>9, <2>10, <2>11, Zenon
<1> HIDE DEF T
<1>6. Cardinality(B) \in Nat /\ Cardinality(B) \in T
  BY <1>1, <1>4, <1>5, Induction
<1>7. part(B) = I
  BY <1>0
<1> QED
  BY <1>6, <1>7 DEF T, AddUp

\* A price is in the range of a bin if the bin is its own.
LEMMA InOwnBin ==
  ASSUME NEW pct \in Nat, pct > 0, NEW p, p.liquidationPx \in Nat, NEW k \in Nat,
         NEW b, b.side \in {"downside", "upside"},
         b.pxLow = (IF b.side = "downside" THEN mark - (k * pct + pct) ELSE mark + k * pct),
         b.pxHigh = (IF b.side = "downside" THEN mark - k * pct ELSE mark + (k * pct + pct))
  PROVE  holds(b, p.liquidationPx)
           <=> binOf(p, pct).side = b.side /\ binOf(p, pct).index = k
<1>1. PICK x \in Nat : x = p.liquidationPx
  OBVIOUS
<1>2. PICK d \in Nat : d = abs(x - mark)
  BY DEF abs, mark
<1>3. binOf(p, pct).side = (IF x < mark THEN "downside" ELSE "upside") /\ binOf(p, pct).index = d \div pct
  BY <1>1, <1>2 DEF binOf
<1>4. PICK low \in Nat : low = k * pct
  OBVIOUS
<1>5. (d \div pct = k) <=> (low <= d /\ d < low + pct)
  <2>1. pct * k = low /\ pct * (k + 1) = low + pct
    BY <1>4
  <2>2. ASSUME low <= d, d < low + pct PROVE d \div pct = k
    BY <2>1, <2>2, DivIs
  <2>3. ASSUME d \div pct = k PROVE low <= d /\ d < low + pct
    <3>1. d % pct \in 0 .. pct - 1 /\ d = pct * (d \div pct) + (d % pct)
      BY DivMod
    <3> QED
      BY <2>1, <2>3, <3>1
  <2> QED
    BY <2>2, <2>3
<1>6. CASE b.side = "downside"
  <2>1. b.pxLow = 100 - (low + pct) /\ b.pxHigh = 100 - low
    BY <1>4, <1>6 DEF mark
  <2>2. holds(b, x) <=> 100 - (low + pct) < x /\ x <= 100 - low /\ x < 100
    BY <1>6, <2>1 DEF holds, mark
  <2>3. x < 100 => d = 100 - x
    BY <1>2 DEF abs, mark
  <2> QED
    BY <1>1, <1>3, <1>5, <1>6, <2>2, <2>3 DEF mark
<1>7. CASE b.side = "upside"
  <2>1. b.pxLow = 100 + low /\ b.pxHigh = 100 + (low + pct)
    BY <1>4, <1>7 DEF mark
  <2>2. holds(b, x) <=> 100 + low <= x /\ x < 100 + (low + pct)
    BY <1>7, <2>1 DEF holds, mark
  <2>3. x >= 100 => d = x - 100
    BY <1>2 DEF abs, mark
  <2> QED
    BY <1>1, <1>3, <1>5, <1>7, <2>2, <2>3 DEF mark
<1> QED
  BY <1>6, <1>7

Numbered(ps, n) ==
    /\ DOMAIN ps = 1 .. n
    /\ \A i \in 1 .. n : ps[i].liquidationPx \in Nat /\ ps[i].value \in Int

\* What the bin of position i is, and what it holds.
BinIsOwn(ps, n, pct, ids, i) ==
    LET key == binOf(ps[i], pct)
        b == bucketOf(ps, key, ids, pct)
    IN  /\ b \in [side : {"downside", "upside"}, pxLow : Int, pxHigh : Int,
                  notional : Nat, positions : Nat]
        /\ b.notional = worth(ps, {j \in ids : binOf(ps[j], pct) = key})
        /\ b.positions = Cardinality({j \in ids : binOf(ps[j], pct) = key})
        /\ \A j \in 1 .. n : holds(b, ps[j].liquidationPx)
                               <=> binOf(ps[j], pct) = key

LEMMA BinsAre ==
  ASSUME NEW n \in Nat, NEW ps, Numbered(ps, n), NEW pct \in Nat, pct > 0,
         NEW ids \in SUBSET (1 .. n), NEW i \in ids
  PROVE  BinIsOwn(ps, n, pct, ids, i)
<1> DEFINE key == binOf(ps[i], pct)
           members == {j \in ids : binOf(ps[j], pct) = key}
           b == bucketOf(ps, key, ids, pct)
<1>1. \A j \in 1 .. n : ps[j].liquidationPx \in Nat /\ ps[j].value \in Int
  BY DEF Numbered
<1>2. ASSUME NEW j \in 1 .. n
      PROVE  /\ binOf(ps[j], pct).side \in {"downside", "upside"}
             /\ binOf(ps[j], pct).index \in Nat
             /\ binOf(ps[j], pct) = [side |-> binOf(ps[j], pct).side,
                                            index |-> binOf(ps[j], pct).index]
  <2>1. PICK d \in Nat : d = abs(ps[j].liquidationPx - mark)
    BY <1>1 DEF abs, mark
  <2>2. d \div pct \in Nat
    <3>1. d \div pct \in Int /\ d % pct \in 0 .. pct - 1 /\ d = pct * (d \div pct) + (d % pct)
      BY DivMod
    <3>2. PICK k \in Int, m \in 0 .. pct - 1 : k = d \div pct /\ d = pct * k + m
      BY <3>1
    <3>3. k >= 0
      <4> SUFFICES ASSUME k <= -1 PROVE FALSE
        BY <3>2
      <4>1. pct * k <= pct * (-1)
        BY ProductGrows
      <4>2. pct * (-1) = -pct
        OBVIOUS
      <4> QED
        BY <3>2, <4>1, <4>2
    <3> QED
      BY <3>2, <3>3
  <2> QED
    BY <2>1, <2>2 DEF binOf
<1>3. i \in 1 .. n
  OBVIOUS
<1>4. key.side \in {"downside", "upside"} /\ key.index \in Nat
  BY <1>2, <1>3
<1>5. members \in SUBSET (1 .. n) /\ IsFiniteSet(members)
  <2>1. members \in SUBSET (1 .. n)
    OBVIOUS
  <2>2. IsFiniteSet(1 .. n)
    BY CountUpTo
  <2> QED
    BY <2>1, <2>2, FS_Subset
<1> HIDE DEF members, key
<1>6. worth(ps, members) \in Nat
  <2>1. worth(ps, members) = Sum(notionals(ps), members)
    BY DEF worth, Sum
  <2>2. \A j \in members : notionals(ps)[j] \in Nat
    <3> SUFFICES ASSUME NEW j \in members PROVE notionals(ps)[j] \in Nat
      OBVIOUS
    <3>1. j \in DOMAIN ps /\ ps[j].value \in Int
      BY <1>1, <1>5 DEF Numbered
    <3> QED
      BY <3>1 DEF notionals, abs
  <2> QED
    BY <1>5, <2>1, <2>2, SumNatural
<1>7. Cardinality(members) \in Nat
  BY <1>5, FS_CardinalityType
<1>8. PICK low \in Nat : low = key.index * pct
  BY <1>4
<1>9. b = [side |-> key.side,
           pxLow |-> IF key.side = "downside" THEN mark - (low + pct) ELSE mark + low,
           pxHigh |-> IF key.side = "downside" THEN mark - low ELSE mark + (low + pct),
           notional |-> worth(ps, members),
           positions |-> Cardinality(members)]
  BY <1>8, Zenon DEF bucketOf, members
<1>10. b \in [side : {"downside", "upside"}, pxLow : Int, pxHigh : Int,
              notional : Nat, positions : Nat]
  BY <1>4, <1>6, <1>7, <1>9 DEF mark
<1>11. ASSUME NEW j \in 1 .. n
       PROVE  holds(b, ps[j].liquidationPx) <=> binOf(ps[j], pct) = key
  <2>1. /\ b.side = key.side /\ b.side \in {"downside", "upside"}
        /\ b.pxLow = IF b.side = "downside" THEN mark - (key.index * pct + pct)
                                            ELSE mark + key.index * pct
        /\ b.pxHigh = IF b.side = "downside" THEN mark - key.index * pct
                                             ELSE mark + (key.index * pct + pct)
    BY <1>4, <1>8, <1>9
  <2> HIDE DEF b
  <2>2. PICK k \in Nat : k = key.index
    BY <1>4
  <2>3. PICK p : p = ps[j]
    OBVIOUS
  <2>4. p.liquidationPx \in Nat
    BY <1>1, <2>3
  <2>5. holds(b, p.liquidationPx) <=> binOf(p, pct).side = b.side /\ binOf(p, pct).index = k
    BY <2>1, <2>2, <2>4, InOwnBin
  <2>6. key = [side |-> key.side, index |-> key.index]
    BY <1>2, <1>3 DEF key
  <2> QED
    BY <1>2, <2>1, <2>2, <2>3, <2>5, <2>6
<1>12. b.notional = worth(ps, members) /\ b.positions = Cardinality(members)
  BY <1>9
<1> QED
  BY <1>10, <1>11, <1>12, Zenon DEF members, key, BinIsOwn

\* The nearest cluster of a side, if it has one.
LEMMA NearestIs ==
  ASSUME NEW B, IsFiniteSet(B), NEW side \in {"downside", "upside"},
         \A b \in B : b.pxLow \in Int /\ b.pxHigh \in Int, NoCluster \notin B,
         NEW b \in B, b.side = side
  PROVE  /\ nearestOf(B, side) # NoCluster
         /\ side = "downside" => b.pxHigh <= nearestOf(B, side).pxHigh
         /\ side = "upside" => b.pxLow >= nearestOf(B, side).pxLow
         /\ nearestOf(B, side) \in B
<1> DEFINE S == {c \in B : c.side = side}
           f == [c \in S |-> IF side = "downside" THEN c.pxHigh ELSE -c.pxLow]
           best(x) == \A c \in S :
                         IF side = "downside" THEN x.pxHigh >= c.pxHigh ELSE x.pxLow <= c.pxLow
<1>1. IsFiniteSet(S) /\ b \in S /\ \A c \in S : f[c] \in Int
  BY FS_Subset
<1>2. PICK x \in S : \A c \in S : f[c] <= f[x]
  <2> HIDE DEF S, f
  <2> QED
    BY <1>1, MostOf
<1>3. best(x)
  <2> SUFFICES ASSUME NEW c \in S
               PROVE  IF side = "downside" THEN x.pxHigh >= c.pxHigh ELSE x.pxLow <= c.pxLow
    OBVIOUS
  <2>1. f[c] <= f[x]
    BY <1>2
  <2>2. c \in B /\ x \in B
    OBVIOUS
  <2>3. /\ c.pxLow \in Int /\ c.pxHigh \in Int /\ x.pxLow \in Int /\ x.pxHigh \in Int
    BY <2>2
  <2>4. /\ f[c] = IF side = "downside" THEN c.pxHigh ELSE -c.pxLow
        /\ f[x] = IF side = "downside" THEN x.pxHigh ELSE -x.pxLow
    OBVIOUS
  <2> HIDE DEF f, S
  <2> QED
    BY <2>1, <2>3, <2>4
<1>4. nearestOf(B, side) = CHOOSE y \in S : best(y)
  BY <1>1 DEF nearestOf
<1>5. nearestOf(B, side) \in S /\ best(nearestOf(B, side))
  <2> HIDE DEF S, best
  <2> QED
    BY <1>3, <1>4, Zenon
<1> QED
  BY <1>1, <1>5

\* MapIsSound: every price that counts is in the range of one bin, bins add up to the totals,
\* and no such price is nearer than the nearest cluster (liquidationMap.ts, run).
THEOREM MapRight ==
  ASSUME NEW n \in Nat, NEW ps, Numbered(ps, n), NEW pct \in Nat, pct > 0, NEW distance
  PROVE  MapIsSound(ps, distance, liquidationMap(ps, pct, distance))
<1> DEFINE ids == considered(ps, distance)
           m == liquidationMap(ps, pct, distance)
           B == m.buckets
           F(i) == bucketOf(ps, binOf(ps[i], pct), ids, pct)
           px(i) == ps[i].liquidationPx
           mine(i) == {j \in ids : binOf(ps[j], pct) = binOf(ps[i], pct)}
<1>1. ids \in SUBSET (1 .. n) /\ IsFiniteSet(ids)
  <2>1. ids \in SUBSET (1 .. n) /\ IsFiniteSet(1 .. n)
    BY FS_Interval DEF considered, Numbered
  <2> QED
    BY <2>1, FS_Subset
<1>2. /\ m.totalNotional = worth(ps, ids)
      /\ m.nearestDownside = nearestOf(B, "downside") /\ m.nearestUpside = nearestOf(B, "upside")
      /\ B = {F(i) : i \in ids}
  <2>1. B = {bucketOf(ps, key, ids, pct) : key \in {binOf(ps[i], pct) : i \in ids}}
    BY Zenon DEF liquidationMap
  <2>2. B = {F(i) : i \in ids}
    BY <2>1
  <2> QED
    BY <2>2 DEF liquidationMap
<1> HIDE DEF ids, m
<1>3. ASSUME NEW i \in ids
      PROVE  /\ F(i) \in [side : {"downside", "upside"}, pxLow : Int, pxHigh : Int,
                          notional : Nat, positions : Nat]
             /\ F(i).notional = worth(ps, mine(i))
             /\ F(i).positions = Cardinality(mine(i))
             /\ \A j \in 1 .. n : holds(F(i), px(j)) <=> binOf(ps[j], pct) = binOf(ps[i], pct)
  <2>1. BinIsOwn(ps, n, pct, ids, i)
    BY <1>1, BinsAre, Zenon
  <2> QED
    BY <2>1, Zenon DEF BinIsOwn
<1>4. ASSUME NEW i \in ids, NEW j \in ids
      PROVE  holds(F(j), px(i)) <=> F(j) = F(i)
  <2>1. i \in 1 .. n /\ j \in 1 .. n
    BY <1>1
  <2>2. holds(F(j), px(i)) <=> binOf(ps[i], pct) = binOf(ps[j], pct)
    BY <1>3, <2>1, Zenon
  <2>3. holds(F(i), px(i))
    BY <1>3, <2>1, Zenon
  <2>4. binOf(ps[i], pct) = binOf(ps[j], pct) => F(i) = F(j)
    BY Zenon
  <2> QED
    BY <2>2, <2>3, <2>4, Zenon
<1>5. ASSUME NEW i \in ids PROVE Cardinality({b \in B : holds(b, px(i))}) = 1
  <2>1. {b \in B : holds(b, px(i))} = {F(i)}
    <3> HIDE DEF F, px
    <3> QED
      BY <1>2, <1>4
  <2> QED
    BY <2>1, FS_Singleton
<1>6. ASSUME NEW b \in B PROVE b.positions = Cardinality({i \in ids : holds(b, px(i))})
  <2>1. PICK j \in ids : b = F(j)
    BY <1>2
  <2>2. {i \in ids : holds(b, px(i))} = mine(j)
    <3>1. ASSUME NEW i \in ids PROVE holds(b, px(i)) <=> binOf(ps[i], pct) = binOf(ps[j], pct)
      BY <1>1, <1>3, <2>1
    <3> QED
      BY <3>1
  <2> QED
    BY <1>3, <2>1, <2>2
<1>7. IsFiniteSet(B)
  <2> DEFINE f == [i \in ids |-> F(i)]
  <2>1. f \in Surjection(ids, B)
    <3> HIDE DEF F
    <3> QED
      BY <1>2 DEF Surjection
  <2> QED
    BY <1>1, <2>1, FS_Surjection, Zenon
<1>8. MapThenSumSet(LAMBDA b : [x \in m.buckets |-> x.notional][b], m.buckets) = m.totalNotional
  <2> DEFINE f == notionals(ps)
             g == [i \in ids |-> F(i)]
             h == [b \in B |-> b.notional]
  <2>1. ASSUME NEW i \in ids PROVE f[i] \in Int /\ g[i] = F(i) /\ g[i] \in B
    <3>1. i \in DOMAIN ps /\ ps[i].value \in Int
      BY <1>1 DEF Numbered
    <3>2. f[i] \in Int
      BY <3>1 DEF notionals, abs
    <3> QED
      BY <1>2, <3>2
  <2>2. ASSUME NEW b \in B PROVE h[b] = Sum(f, {i \in ids : g[i] = b})
    <3>1. PICK j \in ids : b = F(j)
      BY <1>2
    <3>2. {i \in ids : g[i] = b} = mine(j)
      <4>1. ASSUME NEW i \in ids PROVE F(i) = F(j) <=> binOf(ps[i], pct) = binOf(ps[j], pct)
        <5>1. i \in 1 .. n
          BY <1>1
        <5>2. holds(F(j), px(i)) <=> binOf(ps[i], pct) = binOf(ps[j], pct)
          BY <1>3, <5>1, Zenon
        <5>3. holds(F(j), px(i)) <=> F(j) = F(i)
          BY <1>4, Zenon
        <5> QED
          BY <5>2, <5>3, Zenon
      <4> HIDE DEF F
      <4> QED
        BY <3>1, <4>1
    <3>3. h[b] = b.notional
      OBVIOUS
    <3>4. Sum(f, mine(j)) = worth(ps, mine(j))
      BY DEF worth, Sum
    <3> HIDE DEF h, f, g, F
    <3> QED
      BY <1>3, <3>1, <3>2, <3>3, <3>4, Zenon DEF F
  <2>3. Sum(h, B) = MapThenSumSet(LAMBDA b : [x \in m.buckets |-> x.notional][b], m.buckets)
    BY DEF Sum
  <2>4. Sum(f, ids) = worth(ps, ids)
    BY DEF worth, Sum
  <2> HIDE DEF f, g, h, F, B
  <2>5. (\A i \in ids : f[i] \in Int) /\ (\A i \in ids : g[i] \in B)
    BY <2>1
  <2>6. Sum(h, B) = Sum(f, ids)
    <3>1. Parts(f, g, h, ids, B)
      BY <2>2, <2>5 DEF Parts
    <3>2. AddUp(f, h, ids, B)
      BY <1>1, <1>7, <3>1, SumParts, Zenon
    <3> QED
      BY <3>2 DEF AddUp
  <2> QED
    BY <1>2, <2>3, <2>4, <2>6
<1>9. NoCluster \notin B /\ \A b \in B : b.pxLow \in Int /\ b.pxHigh \in Int
  <2>1. ASSUME NEW b \in B
        PROVE  b \in [side : {"downside", "upside"}, pxLow : Int, pxHigh : Int,
                      notional : Nat, positions : Nat]
    <3>1. PICK i \in ids : b = F(i)
      BY <1>2
    <3> QED
      BY <1>3, <3>1, Zenon
  <2> HIDE DEF B
  <2> QED
    BY <2>1, ClusterAssumption
<1>10. ASSUME NEW i \in ids
       PROVE  /\ F(i) \in B /\ F(i).side = (IF px(i) < mark THEN "downside" ELSE "upside")
              /\ F(i).side = "downside" => px(i) <= F(i).pxHigh
              /\ F(i).side = "upside" => F(i).pxLow <= px(i)
  <2>1. F(i).side = (IF px(i) < mark THEN "downside" ELSE "upside")
    BY DEF bucketOf, binOf
  <2>2. holds(F(i), px(i))
    BY <1>4
  <2> QED
    BY <1>2, <2>1, <2>2 DEF holds
<1>11. ASSUME NEW i \in ids, px(i) < mark
       PROVE  m.nearestDownside # NoCluster /\ px(i) <= m.nearestDownside.pxHigh
  <2>1. PICK b \in B : b.side = "downside" /\ px(i) <= b.pxHigh
    BY <1>10, <1>11
  <2>2. /\ nearestOf(B, "downside") # NoCluster /\ b.pxHigh <= nearestOf(B, "downside").pxHigh
        /\ nearestOf(B, "downside") \in B
    <3> HIDE DEF B
    <3> QED
      BY <1>7, <1>9, <2>1, NearestIs
  <2>3. px(i) \in Int
    BY <1>1 DEF Numbered
  <2> QED
    BY <1>2, <1>9, <2>1, <2>2, <2>3
<1>12. ASSUME NEW i \in ids, px(i) >= mark
       PROVE  m.nearestUpside # NoCluster /\ px(i) >= m.nearestUpside.pxLow
  <2>0. px(i) \in Int
    BY <1>1 DEF Numbered
  <2>1. PICK b \in B : b.side = "upside" /\ px(i) >= b.pxLow
    <3>1. ~(px(i) < mark)
      BY <1>12, <2>0 DEF mark
    <3> QED
      BY <1>9, <1>10, <2>0, <3>1
  <2>2. /\ nearestOf(B, "upside") # NoCluster /\ b.pxLow >= nearestOf(B, "upside").pxLow
        /\ nearestOf(B, "upside") \in B
    <3> HIDE DEF B
    <3> QED
      BY <1>7, <1>9, <2>1, NearestIs
  <2> QED
    BY <1>2, <1>9, <2>0, <2>1, <2>2
<1>13. /\ \A i \in ids : Cardinality({b \in m.buckets : holds(b, px(i))}) = 1
       /\ \A b \in m.buckets : b.positions = Cardinality({i \in ids : holds(b, px(i))})
  BY <1>5, <1>6
<1>14. /\ \A i \in ids : px(i) < mark =>
              m.nearestDownside # NoCluster /\ px(i) <= m.nearestDownside.pxHigh
       /\ \A i \in ids : px(i) >= mark =>
              m.nearestUpside # NoCluster /\ px(i) >= m.nearestUpside.pxLow
  BY <1>11, <1>12
<1> HIDE DEF F, B
<1>15. MapIsSound(ps, distance, m)
  BY <1>8, <1>13, <1>14, Zenon DEF MapIsSound, ids
<1> QED
  BY <1>15, Zenon DEF m

------------------------------------------------------------------------------
(* Groups of wallets (Coordination). *)

\* What ascent is: a step up to the parent each time.
Climb(p, x, n, up) == up = [m \in 0 .. n |-> IF m = 0 THEN x ELSE p[up[m - 1]]]

LEMMA ClimbExists ==
  ASSUME NEW p, NEW x, NEW n \in Nat
  PROVE  \E up : Climb(p, x, n, up)
<1> DEFINE T == {m \in Nat : \E up : Climb(p, x, m, up)}
<1>1. 0 \in T
  <2>1. Climb(p, x, 0, [m \in 0 .. 0 |-> x])
    BY DEF Climb
  <2> QED
    BY <2>1
<1>2. \A m \in Nat : m \in T => m + 1 \in T
  <2> SUFFICES ASSUME NEW m \in Nat, m \in T PROVE \E up : Climb(p, x, m + 1, up)
    OBVIOUS
  <2>1. PICK f : Climb(p, x, m, f)
    OBVIOUS
  <2>2. \A k \in 0 .. m : f[k] = IF k = 0 THEN x ELSE p[f[k - 1]]
    BY <2>1 DEF Climb
  <2> DEFINE g == [k \in 0 .. m + 1 |-> IF k <= m THEN f[k] ELSE p[f[m]]]
  <2>3. ASSUME NEW k \in 0 .. m + 1 PROVE g[k] = IF k = 0 THEN x ELSE p[g[k - 1]]
    <3>1. CASE k <= m
      <4>1. k \in 0 .. m /\ g[k] = f[k]
        BY <3>1
      <4>2. k # 0 => k - 1 \in 0 .. m + 1 /\ k - 1 <= m
        BY <3>1
      <4>3. k # 0 => g[k - 1] = f[k - 1]
        BY <4>2
      <4> HIDE DEF g
      <4> QED
        BY <2>2, <4>1, <4>3
    <3>2. CASE ~(k <= m)
      <4>1. k = m + 1 /\ k # 0 /\ k - 1 = m /\ m \in 0 .. m + 1
        BY <3>2
      <4>2. g[k] = p[f[m]] /\ g[m] = f[m]
        BY <4>1
      <4> HIDE DEF g
      <4> QED
        BY <4>1, <4>2
    <3> QED
      BY <3>1, <3>2
  <2>4. g = [k \in 0 .. m + 1 |-> g[k]]
    OBVIOUS
  <2> HIDE DEF g
  <2>5. Climb(p, x, m + 1, g)
    <3>1. [k \in 0 .. m + 1 |-> g[k]] = [k \in 0 .. m + 1 |-> IF k = 0 THEN x ELSE p[g[k - 1]]]
      BY <2>3
    <3> QED
      BY <2>4, <3>1, Zenon DEF Climb
  <2> QED
    BY <2>5
<1> HIDE DEF T
<1>3. n \in T
  BY <1>1, <1>2, Induction
<1> QED
  BY <1>3 DEF T

LEMMA AscentIs ==
  ASSUME NEW p, IsFiniteSet(DOMAIN p), NEW x
  PROVE  /\ Cardinality(DOMAIN p) \in Nat
         /\ ascent(p, x)[0] = x
         /\ \A m \in 0 .. Cardinality(DOMAIN p) - 1 : ascent(p, x)[m + 1] = p[ascent(p, x)[m]]
<1>1. PICK n \in Nat : n = Cardinality(DOMAIN p)
  BY FS_CardinalityType
<1>2. ascent(p, x) = CHOOSE up : Climb(p, x, n, up)
  BY <1>1 DEF ascent, Climb
<1>3. Climb(p, x, n, ascent(p, x))
  BY <1>2, ClimbExists
<1>4. \A m \in 0 .. n : ascent(p, x)[m] = IF m = 0 THEN x ELSE p[ascent(p, x)[m - 1]]
  BY <1>3 DEF Climb
<1>5. ascent(p, x)[0] = x
  BY <1>4
<1>6. ASSUME NEW m \in 0 .. n - 1 PROVE ascent(p, x)[m + 1] = p[ascent(p, x)[m]]
  <2>1. PICK k \in 0 .. n : k = m + 1 /\ k # 0 /\ k - 1 = m
    OBVIOUS
  <2> QED
    BY <1>4, <2>1
<1> QED
  BY <1>1, <1>5, <1>6

\* Nothing goes up for ever: a depth falls on the way to a root.
Deeper(p, W, d) == \A w \in W : p[w] = w \/ d[p[w]] < d[w]

Forest(p, W) == /\ IsFiniteSet(W) /\ p \in [W -> W]
                /\ \E d \in [W -> Nat] : Deeper(p, W, d)

\* What holds of a wallet and of all parents holds all the way up.
LEMMA UpWithin ==
  ASSUME NEW W, IsFiniteSet(W), NEW p \in [W -> W], NEW S \in SUBSET W, NEW x \in S,
         \A w \in S : p[w] \in S
  PROVE  root(p, x) \in S /\ path(p, x) \subseteq S
<1> DEFINE up == ascent(p, x)
           T == {m \in Nat : m <= Cardinality(W) => up[m] \in S}
<1>1. DOMAIN p = W
  OBVIOUS
<1>2. /\ Cardinality(W) \in Nat /\ up[0] = x
      /\ \A m \in 0 .. Cardinality(W) - 1 : up[m + 1] = p[up[m]]
  BY <1>1, AscentIs
<1> HIDE DEF up
<1>3. 0 \in T
  BY <1>2
<1>4. \A m \in Nat : m \in T => m + 1 \in T
  <2> SUFFICES ASSUME NEW m \in Nat, m \in T, m + 1 <= Cardinality(W) PROVE up[m + 1] \in S
    OBVIOUS
  <2>1. m \in 0 .. Cardinality(W) - 1 /\ up[m] \in S
    BY <1>2
  <2> QED
    BY <1>2, <2>1
<1> HIDE DEF T
<1>5. \A m \in 0 .. Cardinality(W) : up[m] \in S
  <2>1. Nat \subseteq T
    BY <1>3, <1>4, Induction
  <2> QED
    BY <1>2, <2>1 DEF T
<1>6. root(p, x) = up[Cardinality(W)] /\ path(p, x) = {up[m] : m \in 0 .. Cardinality(W)}
  BY <1>1 DEF root, path, up
<1> QED
  BY <1>2, <1>5, <1>6

\* A way up of as many steps as there are wallets ends at a root.
LEMMA RootIsTop ==
  ASSUME NEW W, NEW p, Forest(p, W), NEW x \in W
  PROVE  root(p, x) \in W /\ p[root(p, x)] = root(p, x)
<1>0. IsFiniteSet(W) /\ p \in [W -> W] /\ DOMAIN p = W
  BY DEF Forest
<1>1. PICK d \in [W -> Nat] : Deeper(p, W, d)
  BY DEF Forest
<1> DEFINE up == ascent(p, x)
           n == Cardinality(W)
<1>2. /\ n \in Nat /\ up[0] = x
      /\ \A m \in 0 .. n - 1 : up[m + 1] = p[up[m]]
  BY <1>0, AscentIs
<1>3. \A m \in 0 .. n : up[m] \in W
  <2>1. path(p, x) \subseteq W
    BY <1>0, UpWithin
  <2> QED
    BY <1>0, <2>1 DEF path
<1>4. root(p, x) = up[n]
  BY <1>0 DEF root
<1> HIDE DEF up, n
<1>5. root(p, x) \in W
  BY <1>2, <1>3, <1>4
<1> SUFFICES ASSUME p[up[n]] # up[n] PROVE FALSE
  BY <1>4, <1>5
\* No wallet on the way is a root, or the last would be that root.
<1>6. ASSUME NEW m \in 0 .. n, p[up[m]] = up[m] PROVE FALSE
  <2> DEFINE T == {k \in Nat : m + k <= n => up[m + k] = up[m]}
  <2>1. 0 \in T
    <3>1. m + 0 = m
      OBVIOUS
    <3> QED
      BY <3>1
  <2>2. \A k \in Nat : k \in T => k + 1 \in T
    <3> SUFFICES ASSUME NEW k \in Nat, k \in T, m + (k + 1) <= n PROVE up[m + (k + 1)] = up[m]
      OBVIOUS
    <3>1. m + k \in 0 .. n - 1 /\ m + (k + 1) = (m + k) + 1 /\ up[m + k] = up[m]
      BY <1>2
    <3> QED
      BY <1>2, <1>6, <3>1
  <2> HIDE DEF T
  <2>3. n - m \in Nat /\ m + (n - m) = n
    BY <1>2
  <2>4. n - m \in T
    BY <2>1, <2>2, <2>3, Induction
  <2>5. up[n] = up[m]
    BY <2>3, <2>4 DEF T
  <2> QED
    BY <1>6, <2>5
<1>7. ASSUME NEW m \in 0 .. n - 1 PROVE d[up[m + 1]] < d[up[m]]
  <2>1. m \in 0 .. n /\ up[m] \in W /\ up[m + 1] = p[up[m]]
    BY <1>2, <1>3
  <2>2. p[up[m]] # up[m]
    BY <1>6, <2>1
  <2> QED
    BY <1>1, <2>1, <2>2 DEF Deeper
<1>8. ASSUME NEW i \in 0 .. n, NEW j \in 0 .. n, i < j PROVE d[up[j]] < d[up[i]]
  <2> DEFINE T == {k \in Nat : i + 1 + k <= n => d[up[i + 1 + k]] < d[up[i]]}
  <2>0. \A m \in 0 .. n : d[up[m]] \in Nat
    BY <1>3
  <2>1. 0 \in T
    <3> SUFFICES ASSUME i + 1 + 0 <= n PROVE d[up[i + 1 + 0]] < d[up[i]]
      OBVIOUS
    <3>1. i + 1 + 0 = i + 1 /\ i \in 0 .. n - 1
      BY <1>2
    <3> QED
      BY <1>7, <3>1
  <2>2. \A k \in Nat : k \in T => k + 1 \in T
    <3> SUFFICES ASSUME NEW k \in Nat, k \in T, i + 1 + (k + 1) <= n
                 PROVE  d[up[i + 1 + (k + 1)]] < d[up[i]]
      OBVIOUS
    <3>1. PICK m \in 0 .. n - 1 : m = i + 1 + k
      BY <1>2
    <3>2. i + 1 + (k + 1) = m + 1 /\ d[up[m]] < d[up[i]] /\ m + 1 \in 0 .. n /\ m \in 0 .. n
      BY <1>2, <3>1
    <3>3. d[up[m + 1]] < d[up[m]]
      BY <1>7
    <3>4. d[up[m + 1]] \in Nat /\ d[up[m]] \in Nat /\ d[up[i]] \in Nat
      BY <2>0, <3>2
    <3> QED
      BY <3>2, <3>3, <3>4
  <2> HIDE DEF T
  <2>3. PICK k \in Nat : i + 1 + k = j
    <3>1. j - (i + 1) \in Nat /\ i + 1 + (j - (i + 1)) = j
      BY <1>2, <1>8
    <3> QED
      BY <3>1
  <2>4. k \in T
    BY <2>1, <2>2, Induction
  <2> QED
    BY <1>2, <2>3, <2>4 DEF T
<1>9. ASSUME NEW i \in 0 .. n, NEW j \in 0 .. n, up[i] = up[j] PROVE i = j
  <2>1. d[up[i]] \in Nat /\ d[up[j]] \in Nat
    BY <1>3
  <2>2. ~(i < j) /\ ~(j < i)
    BY <1>8, <1>9, <2>1
  <2> QED
    BY <1>2, <2>2
<1>10. PICK f \in [0 .. n -> W] : f = [m \in 0 .. n |-> up[m]]
  BY <1>3
<1>11. f \in Injection(0 .. n, W)
  BY <1>9, <1>10 DEF Injection, IsInjective
<1>12. IsFiniteSet(0 .. n) /\ Cardinality(0 .. n) = n + 1
  BY <1>2, FS_Interval
<1>13. Cardinality(0 .. n) <= Cardinality(W)
  BY <1>0, <1>11, FS_Injection
<1> QED
  BY <1>2, <1>12, <1>13 DEF n

\* What holds of every root, and of a wallet if of its parent, holds of all.
LEMMA ForestInduction ==
  ASSUME NEW W, NEW p, Forest(p, W), NEW P \in SUBSET W,
         \A w \in W : p[w] = w => w \in P,
         \A w \in W : p[w] \in P => w \in P
  PROVE  P = W
<1>1. p \in [W -> W]
  BY DEF Forest
<1>2. PICK d \in [W -> Nat] : Deeper(p, W, d)
  BY DEF Forest
<1> DEFINE T == {n \in Nat : \A w \in W : d[w] <= n => w \in P}
<1>3. ASSUME NEW w \in W, p[w] # w PROVE d[p[w]] < d[w] /\ p[w] \in W /\ d[w] \in Nat /\ d[p[w]] \in Nat
  BY <1>1, <1>2, <1>3 DEF Deeper
<1>4. 0 \in T
  <2> SUFFICES ASSUME NEW w \in W, d[w] <= 0 PROVE w \in P
    OBVIOUS
  <2>1. p[w] = w
    BY <1>3
  <2> QED
    BY <2>1
<1>5. \A n \in Nat : n \in T => n + 1 \in T
  <2> SUFFICES ASSUME NEW n \in Nat, n \in T, NEW w \in W, d[w] <= n + 1 PROVE w \in P
    OBVIOUS
  <2>1. CASE p[w] = w
    BY <2>1
  <2>2. CASE p[w] # w
    <3>1. p[w] \in W /\ d[p[w]] <= n
      BY <1>3, <2>2
    <3> QED
      BY <3>1
  <2> QED
    BY <2>1, <2>2
<1> HIDE DEF T
<1>6. ASSUME NEW w \in W PROVE w \in P
  <2>1. PICK n \in Nat : n = d[w]
    OBVIOUS
  <2>2. n \in T
    BY <1>4, <1>5, Induction
  <2> QED
    BY <2>1, <2>2 DEF T
<1> QED
  BY <1>6

\* A root is its own root.
LEMMA RootOfRoot ==
  ASSUME NEW W, NEW p, Forest(p, W), NEW x \in W, p[x] = x
  PROVE  root(p, x) = x
<1>1. IsFiniteSet(W) /\ p \in [W -> W] /\ {x} \in SUBSET W /\ \A w \in {x} : p[w] \in {x}
  BY DEF Forest
<1>2. x \in {x}
  OBVIOUS
<1>3. root(p, x) \in {x}
  BY <1>1, <1>2, UpWithin
<1> QED
  BY <1>3

\* A wallet has the root of its parent.
LEMMA RootOfParent ==
  ASSUME NEW W, NEW p, Forest(p, W), NEW x \in W
  PROVE  root(p, p[x]) = root(p, x)
<1>0. IsFiniteSet(W) /\ p \in [W -> W] /\ DOMAIN p = W
  BY DEF Forest
<1>1. PICK n \in Nat : n = Cardinality(W)
  BY <1>0, FS_CardinalityType
<1>2. PICK y \in W : y = p[x]
  BY <1>0
<1> DEFINE up == ascent(p, x)
           on == ascent(p, y)
           T == {m \in Nat : m + 1 <= n => on[m] = up[m + 1]}
<1>3. /\ up[0] = x /\ \A m \in 0 .. n - 1 : up[m + 1] = p[up[m]]
      /\ on[0] = y /\ \A m \in 0 .. n - 1 : on[m + 1] = p[on[m]]
  BY <1>0, <1>1, AscentIs
<1>4. root(p, x) = up[n] /\ root(p, y) = on[n]
  BY <1>0, <1>1 DEF root
<1> HIDE DEF up, on
<1>5. 0 \in T
  <2> SUFFICES ASSUME 0 + 1 <= n PROVE on[0] = up[0 + 1]
    OBVIOUS
  <2>1. 0 \in 0 .. n - 1
    OBVIOUS
  <2> QED
    BY <1>2, <1>3, <2>1
<1>6. \A m \in Nat : m \in T => m + 1 \in T
  <2> SUFFICES ASSUME NEW m \in Nat, m \in T, m + 1 + 1 <= n PROVE on[m + 1] = up[m + 1 + 1]
    OBVIOUS
  <2>1. PICK k \in 0 .. n - 1 : k = m + 1
    OBVIOUS
  <2>2. m \in 0 .. n - 1 /\ on[m] = up[k]
    BY <2>1
  <2> QED
    BY <1>3, <2>1, <2>2
<1> HIDE DEF T
<1>7. n # 0
  BY <1>0, <1>1, FS_EmptySet
<1>8. PICK m \in 0 .. n - 1 : m + 1 = n
  <2>1. n - 1 \in 0 .. n - 1 /\ (n - 1) + 1 = n
    BY <1>7
  <2> QED
    BY <2>1
<1>9. m \in T
  BY <1>5, <1>6, Induction
<1>10. on[m] = up[n]
  BY <1>8, <1>9 DEF T
<1>11. on[n] = p[on[m]]
  BY <1>3, <1>8
<1>12. p[root(p, x)] = root(p, x)
  BY RootIsTop
<1> QED
  BY <1>2, <1>4, <1>10, <1>11, <1>12

\* The wallets of a path have the root it ends at.
LEMMA RootOnPath ==
  ASSUME NEW W, NEW p, Forest(p, W), NEW x \in W
  PROVE  path(p, x) \subseteq {w \in W : root(p, w) = root(p, x)}
<1>1. IsFiniteSet(W) /\ p \in [W -> W]
  BY DEF Forest
<1> DEFINE S == {w \in W : root(p, w) = root(p, x)}
<1>2. S \in SUBSET W /\ x \in S
  OBVIOUS
<1>3. \A w \in S : p[w] \in S
  BY <1>1, RootOfParent
<1> HIDE DEF S
<1>4. path(p, x) \subseteq S
  BY <1>1, <1>2, <1>3, UpWithin
<1> QED
  BY <1>4 DEF S

\* Compression keeps the forest and every root.
LEMMA CompressKeeps ==
  ASSUME NEW W, NEW p, Forest(p, W), NEW x \in W
  PROVE  /\ Forest(compress(p, x), W)
         /\ \A w \in W : root(compress(p, x), w) = root(p, w)
<1>1. IsFiniteSet(W) /\ p \in [W -> W] /\ DOMAIN p = W
  BY DEF Forest
<1>2. PICK d \in [W -> Nat] : Deeper(p, W, d)
  BY DEF Forest
<1>3. PICK top \in W : top = root(p, x) /\ p[top] = top
  BY RootIsTop
<1>4. PICK q : q = compress(p, x)
  OBVIOUS
<1>5. /\ q \in [W -> W]
      /\ \A w \in W : q[w] = IF w \in path(p, x) THEN top ELSE p[w]
  BY <1>1, <1>3, <1>4 DEF compress
<1>6. \A w \in W : w \in path(p, x) => root(p, w) = top
  BY <1>3, RootOnPath
\* The root of a wallet is no deeper than the wallet.
<1>7. \A w \in W : root(p, w) = w \/ d[root(p, w)] < d[w]
  <2> DEFINE P == {w \in W : root(p, w) = w \/ d[root(p, w)] < d[w]}
  <2>1. ASSUME NEW w \in W, p[w] = w PROVE w \in P
    BY <2>1, RootOfRoot
  <2>2. ASSUME NEW w \in W, p[w] \in P PROVE w \in P
    <3>1. root(p, w) = root(p, p[w]) /\ root(p, w) \in W
      BY RootOfParent, RootIsTop
    <3>2. p[w] = w \/ d[p[w]] < d[w]
      BY <1>2 DEF Deeper
    <3>3. CASE p[w] = w
      BY <2>1, <3>3
    <3>4. CASE p[w] # w
      <4>1. d[p[w]] < d[w] /\ p[w] \in W
        BY <1>1, <3>2, <3>4
      <4>2. root(p, w) = p[w] \/ d[root(p, w)] < d[p[w]]
        BY <2>2, <3>1
      <4>3. d[root(p, w)] \in Nat /\ d[p[w]] \in Nat /\ d[w] \in Nat
        BY <3>1, <4>1
      <4>4. d[root(p, w)] < d[w]
        BY <4>1, <4>2, <4>3
      <4> QED
        BY <4>4
    <3> QED
      BY <3>3, <3>4
  <2> HIDE DEF P
  <2>3. P = W
    <3>1. P \in SUBSET W
      BY DEF P
    <3> QED
      BY <2>1, <2>2, <3>1, ForestInduction
  <2> QED
    BY <2>3 DEF P
<1>8. Deeper(q, W, d)
  <2> SUFFICES ASSUME NEW w \in W PROVE q[w] = w \/ d[q[w]] < d[w]
    BY DEF Deeper
  <2>1. CASE w \in path(p, x)
    BY <1>5, <1>6, <1>7, <2>1
  <2>2. CASE w \notin path(p, x)
    BY <1>2, <1>5, <2>2 DEF Deeper
  <2> QED
    BY <2>1, <2>2
<1>9. Forest(q, W)
  BY <1>1, <1>5, <1>8 DEF Forest
<1> DEFINE P == {w \in W : root(q, w) = root(p, w)}
<1>10. ASSUME NEW w \in W, q[w] = w PROVE w \in P
  <2>1. root(q, w) = w
    BY <1>9, <1>10, RootOfRoot
  <2>2. root(p, w) = w
    <3>1. CASE w \in path(p, x)
      BY <1>5, <1>6, <1>10, <3>1
    <3>2. CASE w \notin path(p, x)
      <4>1. p[w] = w
        BY <1>5, <1>10, <3>2
      <4> QED
        BY <4>1, RootOfRoot
    <3> QED
      BY <3>1, <3>2
  <2> QED
    BY <2>1, <2>2
<1>11. ASSUME NEW w \in W, q[w] \in P PROVE w \in P
  <2>1. root(q, w) = root(q, q[w])
    BY <1>9, RootOfParent
  <2>2. root(q, q[w]) = root(p, q[w])
    BY <1>11
  <2>3. root(p, q[w]) = root(p, w)
    <3>1. CASE w \in path(p, x)
      <4>1. q[w] = top /\ root(p, w) = top /\ root(p, top) = top
        BY <1>3, <1>5, <1>6, <3>1, RootOfRoot
      <4> QED
        BY <4>1
    <3>2. CASE w \notin path(p, x)
      <4>1. q[w] = p[w]
        BY <1>5, <3>2
      <4> QED
        BY <4>1, RootOfParent
    <3> QED
      BY <3>1, <3>2
  <2> QED
    BY <2>1, <2>2, <2>3
<1>12. P = W
  <2>1. P \in SUBSET W
    OBVIOUS
  <2> HIDE DEF P
  <2> QED
    BY <1>9, <1>10, <1>11, <2>1, ForestInduction
<1> QED
  BY <1>4, <1>9, <1>12

\* Where a root goes when the tree of top is put below other.
goesTo(r, top, other) == IF r = top THEN other ELSE r

\* A root put below another root.
LEMMA GraftKeeps ==
  ASSUME NEW W, NEW p, Forest(p, W), NEW a \in W, NEW b \in W, p[a] = a, p[b] = b, a # b,
         NEW q, q \in [W -> W], q[a] = b, \A w \in W \ {a} : q[w] = p[w]
  PROVE  Forest(q, W) /\ \A w \in W : root(q, w) = goesTo(root(p, w), a, b)
<1>1. PICK d \in [W -> Nat] : Deeper(p, W, d)
  BY DEF Forest
<1>2. IsFiniteSet(W) /\ p \in [W -> W]
  BY DEF Forest
<1> DEFINE e == [w \in W |-> IF root(p, w) = a THEN d[w] + d[b] + 1 ELSE d[w]]
<1>3. e \in [W -> Nat]
  OBVIOUS
<1>4. Deeper(q, W, e)
  <2> SUFFICES ASSUME NEW w \in W PROVE q[w] = w \/ e[q[w]] < e[w]
    BY DEF Deeper
  <2>0. d[w] \in Nat /\ d[b] \in Nat /\ root(p, b) = b /\ root(p, a) = a
    BY RootOfRoot
  <2>1. CASE w = a
    <3>1. q[w] = b /\ e[b] = d[b] /\ e[w] = d[w] + d[b] + 1
      BY <2>0, <2>1
    <3> QED
      BY <2>0, <3>1
  <2>2. CASE w # a
    <3>1. q[w] = p[w] /\ root(p, p[w]) = root(p, w) /\ p[w] \in W
      BY <1>2, <2>2, RootOfParent
    <3>2. p[w] = w \/ d[p[w]] < d[w]
      BY <1>1 DEF Deeper
    <3>3. d[p[w]] \in Nat
      BY <3>1
    <3>4. /\ e[w] = IF root(p, w) = a THEN d[w] + d[b] + 1 ELSE d[w]
          /\ e[p[w]] = IF root(p, w) = a THEN d[p[w]] + d[b] + 1 ELSE d[p[w]]
      BY <3>1
    <3> HIDE DEF e
    <3>5. d[p[w]] < d[w] => e[p[w]] < e[w]
      BY <2>0, <3>3, <3>4
    <3> QED
      BY <3>1, <3>2, <3>5
  <2> QED
    BY <2>1, <2>2
<1>5. Forest(q, W)
  BY <1>2, <1>3, <1>4 DEF Forest
<1> HIDE DEF e
<1> DEFINE P == {w \in W : root(q, w) = goesTo(root(p, w), a, b)}
<1>6. ASSUME NEW w \in W, q[w] = w PROVE w \in P
  <2>1. w # a
    BY <1>6
  <2>2. p[w] = w
    BY <1>6, <2>1
  <2>3. root(p, w) = w /\ root(q, w) = w
    BY <1>5, <1>6, <2>2, RootOfRoot
  <2> QED
    BY <2>1, <2>3 DEF goesTo
<1>7. ASSUME NEW w \in W, q[w] \in P PROVE w \in P
  <2>1. root(q, w) = root(q, q[w]) /\ root(q, q[w]) = goesTo(root(p, q[w]), a, b)
    BY <1>5, <1>7, RootOfParent
  <2>2. CASE w = a
    <3>1. root(p, w) = a /\ root(p, b) = b /\ q[w] = b
      BY <2>2, RootOfRoot
    <3> QED
      BY <2>1, <3>1 DEF goesTo
  <2>3. CASE w # a
    <3>1. root(p, q[w]) = root(p, w)
      BY <2>3, RootOfParent
    <3> QED
      BY <2>1, <3>1
  <2> QED
    BY <2>2, <2>3
<1>8. P = W
  <2>1. P \in SUBSET W
    OBVIOUS
  <2> HIDE DEF P
  <2> QED
    BY <1>5, <1>6, <1>7, <2>1, ForestInduction
<1> QED
  BY <1>5, <1>8

\* A join puts the one root where the other is, for all below it.
THEOREM UnionKeeps ==
  ASSUME NEW W, NEW p, Forest(p, W), NEW x \in W, NEW y \in W
  PROVE  /\ Forest(union(p, x, y), W)
         /\ \A w \in W : root(union(p, x, y), w) = goesTo(root(p, w), root(p, x), root(p, y))
<1>1. PICK f : f = compress(compress(p, x), y)
  OBVIOUS
<1>2. Forest(f, W) /\ \A w \in W : root(f, w) = root(p, w)
  <2>1. PICK g : g = compress(p, x)
    OBVIOUS
  <2>2. Forest(g, W) /\ \A w \in W : root(g, w) = root(p, w)
    BY <2>1, CompressKeeps
  <2>3. f = compress(g, y)
    BY <1>1, <2>1
  <2>4. Forest(f, W) /\ \A w \in W : root(f, w) = root(g, w)
    BY <2>2, <2>3, CompressKeeps
  <2> QED
    BY <2>2, <2>4
<1>3. PICK a \in W : a = root(p, x) /\ f[a] = a /\ a = root(f, x)
  BY <1>2, RootIsTop
<1>4. PICK b \in W : b = root(p, y) /\ f[b] = b /\ b = root(f, y)
  BY <1>2, RootIsTop
<1>5. PICK q : q = union(p, x, y)
  OBVIOUS
<1>6. q = [f EXCEPT ![a] = b] /\ f \in [W -> W]
  BY <1>1, <1>2, <1>3, <1>4, <1>5 DEF union, Forest
<1>7. CASE a = b
  <2>1. q = f
    BY <1>3, <1>6, <1>7
  <2>2. \A w \in W : goesTo(root(p, w), a, b) = root(p, w)
    BY <1>7 DEF goesTo
  <2> QED
    BY <1>2, <1>3, <1>4, <1>5, <2>1, <2>2
<1>8. CASE a # b
  <2>1. q \in [W -> W] /\ q[a] = b /\ \A w \in W \ {a} : q[w] = f[w]
    BY <1>6
  <2>2. Forest(q, W) /\ \A w \in W : root(q, w) = goesTo(root(f, w), a, b)
    BY <1>2, <1>3, <1>4, <1>8, <2>1, GraftKeeps
  <2> QED
    BY <1>2, <1>3, <1>4, <1>5, <2>2
<1> QED
  BY <1>7, <1>8

Closed(all, linked, S) == \A v \in S, u \in all : {v, u} \in linked => u \in S

\* Wallets with one root are connected, and linked wallets have one root or a pair is
\* still to come that joins them.
Joined(all, linked, pairs, parent) ==
    /\ Forest(parent, all)
    /\ \A S \in SUBSET all : Closed(all, linked, S) =>
          \A v \in S, u \in all : root(parent, v) = root(parent, u) => u \in S
    /\ \A v, u \in all : {v, u} \in linked =>
          \/ root(parent, v) = root(parent, u)
          \/ \E k \in 1 .. Len(pairs) : pairs[k] = <<v, u>> \/ pairs[k] = <<u, v>>

Linked(all, linked) == {p \in all \X all : {p[1], p[2]} \in linked}

\* The join of the next pair: what has one root is still connected, and the links between
\* different roots are still to come.
LEMMA PairKeeps ==
  ASSUME NEW all, NEW linked, NEW pairs \in Seq(Linked(all, linked)), pairs # <<>>, NEW parent,
         Joined(all, linked, pairs, parent)
  PROVE  Joined(all, linked, Tail(pairs), union(parent, Head(pairs)[1], Head(pairs)[2]))
<1>1. Head(pairs) \in Linked(all, linked) /\ Head(pairs) = pairs[1]
  OBVIOUS
<1>2. PICK x \in all, y \in all : x = Head(pairs)[1] /\ y = Head(pairs)[2] /\ {x, y} \in linked
                                  /\ Head(pairs) = <<x, y>>
  <2>0. PICK h : h = Head(pairs) /\ h \in all \X all /\ {h[1], h[2]} \in linked
    BY <1>1, Zenon DEF Linked
  <2>1. PICK x \in all, y \in all : Head(pairs) = <<x, y>> /\ {<<x, y>>[1], <<x, y>>[2]} \in linked
    <3>1. PICK x \in all, y \in all : h = <<x, y>>
      BY <2>0
    <3> QED
      BY <2>0, <3>1, Zenon
  <2>2. <<x, y>>[1] = x /\ <<x, y>>[2] = y
    OBVIOUS
  <2>3. x = Head(pairs)[1] /\ y = Head(pairs)[2] /\ {x, y} \in linked
    BY <2>1, <2>2, Zenon
  <2> QED
    BY <2>1, <2>3
<1>3. PICK q : q = union(parent, x, y)
  OBVIOUS
<1>4. Forest(parent, all)
  BY DEF Joined
<1>5. /\ Forest(q, all)
      /\ \A w \in all : root(q, w) = goesTo(root(parent, w), root(parent, x), root(parent, y))
  BY <1>3, <1>4, UnionKeeps
<1>6. ASSUME NEW S \in SUBSET all, Closed(all, linked, S), NEW v \in S, NEW u \in all,
             root(q, v) = root(q, u)
      PROVE  u \in S
  <2>1. \A s \in S, t \in all : root(parent, s) = root(parent, t) => t \in S
    BY <1>6, Zenon DEF Joined
  <2>2. {y, x} \in linked
    <3>1. {y, x} = {x, y}
      OBVIOUS
    <3> QED
      BY <1>2, <3>1
  <2>3. x \in S <=> y \in S
    BY <1>2, <1>6, <2>2 DEF Closed
  <2>4. \/ root(parent, v) = root(parent, u)
        \/ root(parent, v) = root(parent, x) /\ root(parent, u) = root(parent, y)
        \/ root(parent, v) = root(parent, y) /\ root(parent, u) = root(parent, x)
    <3>1. v \in all
      OBVIOUS
    <3>2. goesTo(root(parent, v), root(parent, x), root(parent, y))
            = goesTo(root(parent, u), root(parent, x), root(parent, y))
      BY <1>5, <1>6, <3>1
    <3> QED
      BY <3>2 DEF goesTo
  <2>5. CASE root(parent, v) = root(parent, u)
    BY <2>1, <2>5
  <2>6. CASE root(parent, v) = root(parent, x) /\ root(parent, u) = root(parent, y)
    <3>1. x \in S
      BY <2>1, <2>6
    <3>2. y \in S
      BY <2>3, <3>1
    <3> QED
      BY <2>1, <2>6, <3>2
  <2>7. CASE root(parent, v) = root(parent, y) /\ root(parent, u) = root(parent, x)
    <3>1. y \in S
      BY <2>1, <2>7
    <3>2. x \in S
      BY <2>3, <3>1
    <3> QED
      BY <2>1, <2>7, <3>2
  <2> QED
    BY <2>4, <2>5, <2>6, <2>7
<1>7. ASSUME NEW v \in all, NEW u \in all, {v, u} \in linked
      PROVE  \/ root(q, v) = root(q, u)
             \/ \E k \in 1 .. Len(Tail(pairs)) : Tail(pairs)[k] = <<v, u>> \/ Tail(pairs)[k] = <<u, v>>
  <2>1. \/ root(parent, v) = root(parent, u)
        \/ \E k \in 1 .. Len(pairs) : pairs[k] = <<v, u>> \/ pairs[k] = <<u, v>>
    BY <1>7, Zenon DEF Joined
  <2>2. CASE root(parent, v) = root(parent, u)
    BY <1>5, <2>2
  <2>3. ASSUME NEW k \in 1 .. Len(pairs), pairs[k] = <<v, u>> \/ pairs[k] = <<u, v>>
        PROVE  \/ root(q, v) = root(q, u)
               \/ \E j \in 1 .. Len(Tail(pairs)) :
                     Tail(pairs)[j] = <<v, u>> \/ Tail(pairs)[j] = <<u, v>>
    <3>1. CASE k = 1
      <4>1. <<x, y>> = <<v, u>> \/ <<x, y>> = <<u, v>>
        BY <1>1, <1>2, <2>3, <3>1
      <4>2. (x = v /\ y = u) \/ (x = u /\ y = v)
        BY <4>1
      <4>3. root(q, x) = root(parent, y) /\ root(q, y) = root(parent, y)
        BY <1>5 DEF goesTo
      <4> QED
        BY <4>2, <4>3
    <3>2. CASE k # 1
      <4>1. PICK j \in 1 .. Len(Tail(pairs)) : j + 1 = k
        <5>1. k - 1 \in 1 .. Len(Tail(pairs)) /\ (k - 1) + 1 = k
          BY <2>3, <3>2
        <5> QED
          BY <5>1
      <4>2. Tail(pairs)[j] = pairs[k]
        BY <4>1
      <4> QED
        BY <2>3, <4>2
    <3> QED
      BY <3>1, <3>2
  <2> QED
    BY <2>1, <2>2, <2>3
<1>8. Joined(all, linked, Tail(pairs), q)
  BY <1>5, <1>6, <1>7 DEF Joined
<1> QED
  BY <1>2, <1>3, <1>8

\* ClustersAreComponents of the parents that are left when no pair is to come
\* (coordination.ts, detectCoordination).
THEOREM ComponentsRight ==
  ASSUME NEW linked, NEW parent, Joined(DOMAIN parent, linked, <<>>, parent)
  PROVE  ClustersAreComponents(parent, linked)
<1> DEFINE all == DOMAIN parent
           group(w) == {v \in all : root(parent, v) = root(parent, w)}
           component(w) == {v \in all : \A S \in SUBSET all :
                               w \in S /\ Closed(all, linked, S) => v \in S}
<1>2. \A v, u \in all : {v, u} \in linked => root(parent, v) = root(parent, u)
  <2>1. Len(<<>>) = 0
    OBVIOUS
  <2> QED
    BY <2>1 DEF Joined
<1>3. ASSUME NEW w \in all PROVE group(w) = component(w)
  <2>1. group(w) \in SUBSET all /\ w \in group(w) /\ Closed(all, linked, group(w))
    BY <1>2 DEF Closed
  <2>2. component(w) \subseteq group(w)
    <3> HIDE DEF group
    <3> QED
      BY <2>1
  <2>3. ASSUME NEW v \in group(w) PROVE v \in component(w)
    <3> SUFFICES ASSUME NEW S \in SUBSET all, w \in S, Closed(all, linked, S) PROVE v \in S
      OBVIOUS
    <3>1. v \in all /\ root(parent, w) = root(parent, v)
      OBVIOUS
    <3> QED
      BY <3>1, Zenon DEF Joined
  <2> QED
    BY <2>2, <2>3
<1>4. clusters(parent) = {g \in {group(w) : w \in all} : Cardinality(g) >= 2}
  BY Zenon DEF clusters
<1>5. {group(w) : w \in all} = {component(w) : w \in all}
  <2> HIDE DEF group, component
  <2> QED
    BY <1>3
<1>6. clusters(parent) = {g \in {component(w) : w \in all} : Cardinality(g) >= 2}
  BY <1>4, <1>5, Zenon
<1> QED
  BY <1>6, Zenon DEF ClustersAreComponents, Closed

\* Before the first join every wallet is alone, and every link is still to come.
LEMMA StartJoined ==
  ASSUME NEW S, NEW wallets \in Seq(S), NEW linked
  PROVE  LET all == {wallets[i] : i \in DOMAIN wallets}
         IN  /\ Joined(all, linked, linkedPairs(wallets, linked), alone(wallets))
             /\ linkedPairs(wallets, linked) \in Seq(Linked(all, linked))
<1> DEFINE all == {wallets[i] : i \in DOMAIN wallets}
           pairs == linkedPairs(wallets, linked)
           parent == alone(wallets)
<1>1. PICK n \in Nat : n = Len(wallets) /\ DOMAIN wallets = 1 .. n
  OBVIOUS
<1>2. IsFiniteSet(all)
  <2>1. PICK f \in [1 .. n -> all] : f = [i \in 1 .. n |-> wallets[i]]
    BY <1>1
  <2>2. f \in Surjection(1 .. n, all)
    BY <1>1, <2>1 DEF Surjection
  <2>3. IsFiniteSet(1 .. n)
    BY CountUpTo
  <2> QED
    BY <2>2, <2>3, FS_Surjection, Zenon
<1>3. parent \in [all -> all] /\ \A w \in all : parent[w] = w
  BY DEF alone
<1>4. Forest(parent, all)
  <2>1. PICK d \in [all -> Nat] : d = [w \in all |-> 0]
    OBVIOUS
  <2>2. Deeper(parent, all, d)
    BY <1>3 DEF Deeper
  <2> QED
    BY <1>2, <1>3, <2>2 DEF Forest
<1>5. \A w \in all : root(parent, w) = w
  <2> HIDE DEF all, parent
  <2> QED
    BY <1>3, <1>4, RootOfRoot
<1> DEFINE i(k) == (k - 1) \div n + 1
           j(k) == ((k - 1) % n) + 1
           s == [k \in 1 .. n * n |-> <<wallets[i(k)], wallets[j(k)]>>]
           I == {k \in 1 .. n * n : i(k) < j(k) /\ {wallets[i(k)], wallets[j(k)]} \in linked}
<1>6. pairs = pick(s, I)
  BY <1>1, Zenon DEF linkedPairs
<1>7. n * n \in Nat /\ I \in SUBSET (1 .. n * n)
  OBVIOUS
<1>8. ASSUME NEW k \in 1 .. n * n PROVE i(k) \in 1 .. n /\ j(k) \in 1 .. n
  <2>1. n > 0
    BY <1>8
  <2>2. PICK m \in Nat : m = k - 1 /\ m < n * n
    BY <1>8
  <2>3. m \div n \in Int /\ m % n \in 0 .. n - 1 /\ m = n * (m \div n) + (m % n)
    BY <2>1, DivMod
  <2>4. m \div n < n
    BY <2>1, <2>2, DivBelow
  <2>5. m \div n >= 0
    <3>1. 0 \div n = 0
      <4>1. n * 0 <= 0 /\ 0 < n * (0 + 1)
        BY <2>1
      <4> QED
        BY <2>1, <4>1, DivIs
    <3>2. 0 \div n <= m \div n
      BY <2>1, DivGrows
    <3> QED
      BY <3>1, <3>2
  <2> QED
    BY <2>1, <2>2, <2>3, <2>4, <2>5
<1> HIDE DEF s
<1>9. pairs \in Seq({s[k] : k \in I}) /\ ToSet(pairs) = {s[k] : k \in I}
      /\ DOMAIN pairs = 1 .. Len(pairs)
  <2>1. PICK q \in Nat : q = n * n
    BY <1>7
  <2>2. I \in SUBSET (1 .. q)
    BY <1>7, <2>1
  <2> HIDE DEF I, pairs
  <2>3. /\ pick(s, I) \in Seq({s[k] : k \in I}) /\ ToSet(pick(s, I)) = {s[k] : k \in I}
        /\ DOMAIN pick(s, I) = 1 .. Len(pick(s, I))
    <3>1. Selected(pick(s, I), s, I)
      BY <2>2, PickHolds, Zenon
    <3> QED
      BY <3>1 DEF Selected
  <2> QED
    BY <1>6, <2>3, Zenon
<1>10. ASSUME NEW k \in I PROVE s[k] \in Linked(all, linked)
  <2>1. k \in 1 .. n * n /\ {wallets[i(k)], wallets[j(k)]} \in linked
    OBVIOUS
  <2>2. PICK a \in 1 .. n, b \in 1 .. n : a = i(k) /\ b = j(k)
    BY <1>8
  <2>3. s[k] = <<wallets[a], wallets[b]>>
    BY <2>2 DEF s
  <2>4. wallets[a] \in all /\ wallets[b] \in all /\ {wallets[a], wallets[b]} \in linked
    BY <1>1, <2>1, <2>2
  <2> HIDE DEF all
  <2>5. PICK v \in all, u \in all : s[k] = <<v, u>> /\ {v, u} \in linked
    BY <2>3, <2>4
  <2>6. <<v, u>>[1] = v /\ <<v, u>>[2] = u /\ <<v, u>> \in all \X all
    OBVIOUS
  <2>7. {<<v, u>>[1], <<v, u>>[2]} \in linked
    BY <2>5, <2>6, Zenon
  <2> QED
    BY <2>5, <2>6, <2>7, Zenon DEF Linked
<1>11. pairs \in Seq(Linked(all, linked))
  <2>1. {s[k] : k \in I} \subseteq Linked(all, linked)
    BY <1>10
  <2> HIDE DEF I, pairs
  <2>2. PICK A : A = {s[k] : k \in I}
    OBVIOUS
  <2> QED
    BY <1>9, <2>1, <2>2
<1>12. ASSUME NEW a \in 1 .. n, NEW b \in 1 .. n, a < b, {wallets[a], wallets[b]} \in linked
       PROVE  \E k \in 1 .. Len(pairs) : pairs[k] = <<wallets[a], wallets[b]>>
  <2>1. PICK m \in Nat : m = n * (a - 1) + (b - 1)
    <3>1. n * (a - 1) \in Nat
      OBVIOUS
    <3> QED
      BY <3>1
  <2>2. m \div n = a - 1 /\ m % n = b - 1 /\ m < n * n
    <3>1. n * (a - 1) <= m /\ m < n * ((a - 1) + 1)
      <4>1. n * ((a - 1) + 1) = n * (a - 1) + n
        OBVIOUS
      <4> QED
        BY <2>1, <4>1
    <3>2. PICK c \in Int : c = a - 1
      OBVIOUS
    <3>3. m \div n = c
      <4>1. n * c <= m /\ m < n * (c + 1) /\ n > 0
        BY <3>1, <3>2
      <4> QED
        BY <4>1, DivIs
    <3>4. m % n \in 0 .. n - 1 /\ m = n * (m \div n) + (m % n)
      BY DivMod
    <3>5. m = n * c + (b - 1) /\ m = n * c + (m % n) /\ n * c \in Int
      BY <2>1, <3>2, <3>3, <3>4
    <3>6. m < n * n
      <4>1. n * (c + 1) <= n * n
        BY <3>2, ProductGrows
      <4> QED
        BY <3>1, <3>2, <4>1
    <3> QED
      BY <3>2, <3>3, <3>4, <3>5, <3>6
  <2>3. PICK k \in 1 .. n * n : k - 1 = m
    <3>1. m + 1 \in 1 .. n * n /\ (m + 1) - 1 = m
      BY <2>2
    <3> QED
      BY <3>1
  <2>4. i(k) = a /\ j(k) = b
    BY <2>2, <2>3
  <2>5. k \in I /\ s[k] = <<wallets[a], wallets[b]>>
    BY <1>12, <2>4 DEF s
  <2>6. s[k] \in ToSet(pairs)
    BY <1>9, <2>5
  <2> QED
    BY <1>9, <2>5, <2>6 DEF ToSet
<1>13. ASSUME NEW v \in all, NEW u \in all, {v, u} \in linked
       PROVE  \/ root(parent, v) = root(parent, u)
              \/ \E k \in 1 .. Len(pairs) : pairs[k] = <<v, u>> \/ pairs[k] = <<u, v>>
  <2>1. PICK a \in 1 .. n, b \in 1 .. n : v = wallets[a] /\ u = wallets[b]
    BY <1>1
  <2>2. CASE a < b
    BY <1>12, <1>13, <2>1, <2>2
  <2>3. CASE b < a
    <3>1. {wallets[b], wallets[a]} \in linked
      <4>1. {wallets[b], wallets[a]} = {v, u}
        BY <2>1
      <4> QED
        BY <1>13, <4>1
    <3> QED
      BY <1>12, <2>1, <2>3, <3>1
  <2>4. CASE a = b
    BY <2>1, <2>4
  <2> QED
    BY <2>2, <2>3, <2>4
<1>14. \A T \in SUBSET all : Closed(all, linked, T) =>
          \A v \in T, u \in all : root(parent, v) = root(parent, u) => u \in T
  <2> HIDE DEF all, parent
  <2> QED
    BY <1>5
<1>15. Joined(all, linked, pairs, parent)
  BY <1>4, <1>13, <1>14, Zenon DEF Joined
<1> QED
  BY <1>11, <1>15, Zenon

------------------------------------------------------------------------------
(* The tools' answers (AnalyticTools). *)

Members == {Group[i] : i \in DOMAIN Group}

\* A search for groups, before its next join.
Searching(a) ==
    /\ a = [tool |-> "coordination", linked |-> a.linked, pairs |-> a.pairs,
            parent |-> a.parent]
    /\ a.pairs \in Seq(Linked(Members, a.linked))
    /\ Joined(Members, a.linked, a.pairs, a.parent)

\* Each kind of answer is right, and a search for groups that goes on is on its way to one.
Right(a) ==
    \/ a.tool = "twap" /\ ScheduleIsExact(a)
    \/ a.tool = "iceberg" /\ ClipsAreExact(a)
    \/ a.tool = "calibration" /\ EvidenceIsRight(a)
    \/ a.tool = "coordination" /\ Searching(a)
    \/ a.tool = "divergence" /\ ReportIsSound(a.entries)
    \/ a.tool = "liquidations" /\ MapIsSound(a.positions, a.distance, a.result)
    \/ a.tool = "hip3" /\ Hip3Accounted(a.names, a.filter, a.live, a.result)
    \/ /\ a.tool = "list"
       /\ PagesAreTheList([i \in 1 .. a.n |-> i], a.limit)
       /\ CurveIsFaithful(a.n, a.limit)

AnalyticInv == answer # NoAnswer => Right(answer)

\* hl_twap_order and icebergs.
LEMMA OrdersAnswered ==
  ASSUME hl_twap_order \/ iceberg
  PROVE  Right(answer')
<1>1. CASE hl_twap_order
  <2>1. PICK args \in TwapArgs, cap \in SizeCaps, maySubmit \in BOOLEAN :
          answer' = [tool |-> "twap", args |-> args, cap |-> cap,
                     result |-> twapOrder(args, cap, maySubmit)]
    BY <1>1 DEF hl_twap_order
  <2>2. /\ (answer').tool = "twap" /\ (answer').args = args /\ (answer').cap = cap
        /\ (answer').result = twapOrder(args, cap, maySubmit)
    BY <2>1
  <2>3. ScheduleIsExact(answer')
    BY <2>2, ScheduleRight
  <2> QED
    BY <2>2, <2>3 DEF Right
<1>2. CASE iceberg
  <2>1. PICK t \in Halves, clip \in Halves :
          answer' = [tool |-> "iceberg", total |-> t, clip |-> clip,
                     result |-> planIceberg(t, clip, 1)]
    BY <1>2 DEF iceberg
  <2>2. /\ (answer').tool = "iceberg" /\ (answer').total = t /\ (answer').clip = clip
        /\ (answer').result = planIceberg(t, clip, 1)
    BY <2>1
  <2>3. ClipsAreExact(answer')
    BY <2>2, ClipsRight
  <2> QED
    BY <2>2, <2>3 DEF Right
<1> QED
  BY <1>1, <1>2

LEMMA EvidenceAnswered ==
  ASSUME hl_score_calibration
  PROVE  Right(answer')
<1>1. PICK n \in Samples :
        \E scores \in [1 .. n -> Scores], returns \in [1 .. n -> Returns],
           significant \in BOOLEAN :
            LET obs == [i \in 1 .. n |-> [score |-> scores[i],
                                        forwardReturn |-> returns[i]]]
            IN  answer' = [tool |-> "calibration", obs |-> obs,
                           significant |-> significant,
                           result |-> calibrate(obs, significant)]
  BY DEF hl_score_calibration
<1>2. PICK scores \in [1 .. n -> Scores], returns \in [1 .. n -> Returns],
           significant \in BOOLEAN :
        LET obs == [i \in 1 .. n |-> [score |-> scores[i], forwardReturn |-> returns[i]]]
        IN  answer' = [tool |-> "calibration", obs |-> obs,
                       significant |-> significant,
                       result |-> calibrate(obs, significant)]
  BY <1>1
<1> DEFINE obs == [i \in 1 .. n |-> [score |-> scores[i], forwardReturn |-> returns[i]]]
<1>3. n \in Nat /\ \A i \in 1 .. n : scores[i] \in Int /\ returns[i] \in Int
  BY AnalyticAssumption
<1>4. obs \in [1 .. n -> Observation]
  BY <1>3 DEF Observation
<1>5. obs \in Seq(Observation)
  <2> HIDE DEF obs
  <2> QED
    BY <1>3, <1>4
<1>6. /\ (answer').tool = "calibration" /\ (answer').obs = obs
      /\ (answer').significant = significant
      /\ (answer').result = calibrate(obs, significant)
  BY <1>2
<1>7. EvidenceIsRight(answer')
  <2> HIDE DEF obs
  <2> QED
    BY <1>5, <1>6, EvidenceRight
<1> QED
  BY <1>6, <1>7 DEF Right

LEMMA SearchStarted ==
  ASSUME hl_coordination
  PROVE  Right(answer')
<1>1. PICK linked \in SUBSET Pairs :
        answer' = [tool |-> "coordination", linked |-> linked,
                   pairs |-> linkedPairs(Group, linked), parent |-> alone(Group)]
  BY DEF hl_coordination
<1>2. /\ Joined(Members, linked, linkedPairs(Group, linked), alone(Group))
      /\ linkedPairs(Group, linked) \in Seq(Linked(Members, linked))
  BY StartJoined, AnalyticAssumption DEF Members
<1>3. /\ (answer').tool = "coordination" /\ (answer').linked = linked
      /\ (answer').pairs = linkedPairs(Group, linked) /\ (answer').parent = alone(Group)
  BY <1>1
<1>4. Searching(answer')
  BY <1>1, <1>2, <1>3 DEF Searching
<1> QED
  BY <1>3, <1>4 DEF Right

\* A search stays one from join to join.
LEMMA SearchGoesOn ==
  ASSUME AnalyticInv, joinPair
  PROVE  Right(answer')
<1> DEFINE next == union(answer.parent, Head(answer.pairs)[1], Head(answer.pairs)[2])
<1>1. Searching(answer) /\ answer.pairs # <<>>
  BY DEF AnalyticInv, Right, joinPair
<1>2. answer = [tool |-> "coordination", linked |-> answer.linked, pairs |-> answer.pairs,
                parent |-> answer.parent]
  BY <1>1 DEF Searching
<1>3. answer' = [tool |-> "coordination", linked |-> answer.linked,
                 pairs |-> Tail(answer.pairs), parent |-> next]
  BY <1>2 DEF joinPair
<1>4. /\ (answer').tool = "coordination" /\ (answer').linked = answer.linked
      /\ (answer').pairs = Tail(answer.pairs) /\ (answer').parent = next
  BY <1>3
<1>5. Joined(Members, answer.linked, Tail(answer.pairs), next)
  BY <1>1, PairKeeps DEF Searching
<1>6. Tail(answer.pairs) \in Seq(Linked(Members, answer.linked))
  BY <1>1 DEF Searching
<1>7. Searching(answer')
  <2> HIDE DEF next
  <2> QED
    BY <1>3, <1>4, <1>5, <1>6 DEF Searching
<1> QED
  BY <1>4, <1>7 DEF Right

LEMMA DivergenceAnswered ==
  ASSUME hl_polymarket_divergence
  PROVE  Right(answer')
<1>1. PICK contracts \in [1 .. Listings -> Contracts], probs \in [1 .. Listings -> Prices],
           liquid \in [1 .. Listings -> Liquidities] :
        answer' = [tool |-> "divergence",
                   entries |-> [i \in 1 .. Listings |->
                       [mode |-> contracts[i].mode, endDate |-> contracts[i].endDate,
                        threshold |-> contracts[i].threshold,
                        yesProb |-> probs[i], liquidity |-> liquid[i]]]]
  BY DEF hl_polymarket_divergence
<1>2. PICK es : es = (answer').entries
  OBVIOUS
<1>3. /\ (answer').tool = "divergence"
      /\ es = [i \in 1 .. Listings |->
                  [mode |-> contracts[i].mode, endDate |-> contracts[i].endDate,
                   threshold |-> contracts[i].threshold,
                   yesProb |-> probs[i], liquidity |-> liquid[i]]]
  BY <1>1, <1>2
<1>4. /\ DOMAIN es = 1 .. Listings
      /\ \A i \in 1 .. Listings : /\ es[i].liquidity = liquid[i] /\ es[i].yesProb = probs[i]
  BY <1>3
<1>5. /\ Listings \in Nat
      /\ \A i \in 1 .. Listings : liquid[i] \in Int /\ probs[i] \in Int \cup {NoPrice}
  BY AnalyticAssumption
<1>6. ReportIsSound(es)
  BY <1>4, <1>5, ReportRight
<1> QED
  BY <1>2, <1>3, <1>6 DEF Right

LEMMA MapAnswered ==
  ASSUME hl_liquidation_map
  PROVE  Right(answer')
<1>1. PICK ps \in [1 .. 3 -> Positions], bucketPct \in 2 .. 3, distance \in {0, 3} :
        answer' = [tool |-> "liquidations", positions |-> ps, distance |-> distance,
                   result |-> liquidationMap(ps, bucketPct, distance)]
  BY DEF hl_liquidation_map
<1>2. \A p \in Positions : p.liquidationPx \in Nat /\ p.value \in Int
  <2> TAKE p \in Positions
  <2>1. CASE p \in [sameCoin : {TRUE}, liquidationPx : LiquidationPrices, value : Values]
    BY <2>1, AnalyticAssumption
  <2>2. CASE p = [sameCoin |-> FALSE, liquidationPx |-> mark, value |-> 1]
    BY <2>2 DEF mark
  <2> QED
    BY <2>1, <2>2 DEF Positions
<1>3. Numbered(ps, 3)
  BY <1>2 DEF Numbered
<1>4. bucketPct \in Nat /\ bucketPct > 0
  OBVIOUS
<1>5. MapIsSound(ps, distance, liquidationMap(ps, bucketPct, distance))
  BY <1>3, <1>4, MapRight
<1>6. /\ (answer').tool = "liquidations" /\ (answer').positions = ps
      /\ (answer').distance = distance
      /\ (answer').result = liquidationMap(ps, bucketPct, distance)
  BY <1>1
<1> QED
  BY <1>5, <1>6 DEF Right

LEMMA Hip3Answered ==
  ASSUME hl_hip3_analytics
  PROVE  Right(answer')
<1> DEFINE Coin == [dex : ToSet(Dexs), name : {"a"}]
<1>1. PICK failing \in SUBSET ToSet(Dexs), filter \in ToSet(Dexs) \cup {NoFilter},
           shown \in SUBSET Coin, main \in SUBSET {c \in Coin : c.dex = Dexs[1]},
           names \in {Dexs, <<>>} :
        answer' = [tool |-> "hip3", names |-> names, filter |-> filter, live |-> shown,
                   result |-> collectHip3Rows(main, names, filter, failing, shown)]
  BY DEF hl_hip3_analytics
<1>2. names \in Seq(ToSet(Dexs))
  <2>1. CASE names = Dexs
    BY <2>1, AnalyticAssumption
  <2>2. CASE names = <<>>
    BY <2>2
  <2> QED
    BY <2>1, <2>2
<1>3. Hip3Accounted(names, filter, shown, collectHip3Rows(main, names, filter, failing, shown))
  BY <1>2, Hip3Right
<1>4. /\ (answer').tool = "hip3" /\ (answer').names = names /\ (answer').filter = filter
      /\ (answer').live = shown
      /\ (answer').result = collectHip3Rows(main, names, filter, failing, shown)
  BY <1>1
<1> QED
  BY <1>3, <1>4 DEF Right

LEMMA ListAnswered ==
  ASSUME pagedList
  PROVE  Right(answer')
<1>1. PICK n \in 0 .. MaxItems, limit \in 1 .. MaxItems :
        answer' = [tool |-> "list", n |-> n, limit |-> limit]
  BY DEF pagedList
<1>2. n \in Nat /\ limit \in Nat \ {0}
  BY AnalyticAssumption
<1>3. CurveIsFaithful(n, limit)
  BY <1>2, CurveRight
<1>4. [i \in 1 .. n |-> i] \in Seq(Nat)
  BY <1>2
<1>5. PagesAreTheList([i \in 1 .. n |-> i], limit)
  BY <1>2, <1>4, PagesOfList
<1>6. (answer').tool = "list" /\ (answer').n = n /\ (answer').limit = limit
  BY <1>1
<1> QED
  BY <1>3, <1>5, <1>6 DEF Right

LEMMA AnalyticKeeps ==
  ASSUME AnalyticInv, [AnalyticNext]_answer
  PROVE  AnalyticInv'
<1>1. CASE AnalyticNext
  <2>1. Right(answer')
    BY <1>1, OrdersAnswered, EvidenceAnswered, SearchStarted, SearchGoesOn,
       DivergenceAnswered, MapAnswered, Hip3Answered, ListAnswered DEF AnalyticNext
  <2> QED
    BY <2>1 DEF AnalyticInv, Right, Searching, Members
<1>2. CASE UNCHANGED answer
  BY <1>2 DEF AnalyticInv
<1> QED
  BY <1>1, <1>2

LEMMA AnalyticInvGives ==
  ASSUME AnalyticInv
  PROVE  AnswersAreRight
<1> SUFFICES ASSUME answer # NoAnswer PROVE AnswersAreRight
  BY DEF AnswersAreRight
<1>1. Right(answer)
  BY DEF AnalyticInv
<1>2. ASSUME answer.tool = "coordination", Searching(answer), answer.pairs = <<>>
      PROVE  ClustersAreComponents(answer.parent, answer.linked)
  <2>1. Joined(Members, answer.linked, <<>>, answer.parent)
    BY <1>2 DEF Searching
  <2>2. DOMAIN answer.parent = Members
    BY <2>1 DEF Joined, Forest
  <2> QED
    BY <2>1, <2>2, ComponentsRight
<1> QED
  BY <1>1, <1>2 DEF Right, AnswersAreRight

\* AnswersAreRight
THEOREM AnswersRight == AnalyticSpec => []AnswersAreRight
<1>1. AnalyticInit => AnalyticInv
  BY DEF AnalyticInit, AnalyticInv
<1>2. AnalyticInv /\ [AnalyticNext]_answer => AnalyticInv'
  BY AnalyticKeeps
<1>3. AnalyticInv => AnswersAreRight
  BY AnalyticInvGives
<1> QED
  BY <1>1, <1>2, <1>3, PTL DEF AnalyticSpec
==============================================================================
