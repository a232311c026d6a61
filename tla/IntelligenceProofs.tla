------------------------- MODULE IntelligenceProofs -------------------------
(***************************************************************************)
(* For every world of events and every catalogue of rows: what a batch of  *)
(* the detectors is and how their findings grow, that failures of the      *)
(* escalation pass stay contained, that more evidence never lowers a       *)
(* score, and that every alarm has something it rests on.                  *)
(***************************************************************************)
EXTENDS Scores, Intelligence, FiniteSetTheorems, WellFoundedInduction, TLAPS

(* Sums over finite sets.                                                    *)

\* Among numbers there is a least, and if there is a bound a greatest.
LEMMA Least ==
    ASSUME NEW T \in SUBSET Nat, T # {}
    PROVE  \E m \in T : \A n \in T : m <= n
  <1>1. IsWellFoundedOn(OpToRel(<, Nat), Nat)
    BY NatLessThanWellFounded
  <1>2. PICK m \in T : \A n \in T : ~(<<n, m>> \in OpToRel(<, Nat))
    BY <1>1, WFMin
  <1>3. \A n \in T : ~(n < m)
    BY <1>2 DEF OpToRel
  <1> QED
    BY <1>3

\* Induction over the parts of a finite set.
LEMMA PartsInduction ==
    ASSUME NEW S, IsFiniteSet(S), NEW Good,
           {} \in Good,
           \A s \in SUBSET S : s # {} /\ (\A x \in s : s \ {x} \in Good) => s \in Good
    PROVE  SUBSET S \subseteq Good
  <1> DEFINE Bad == (SUBSET S) \ Good
             sizes == {Cardinality(s) : s \in Bad}
  <1> SUFFICES ASSUME Bad # {} PROVE FALSE
    OBVIOUS
  <1>1. \A s \in SUBSET S : IsFiniteSet(s) /\ Cardinality(s) \in Nat
    BY FS_Subset, FS_CardinalityType
  <1>2. PICK m \in sizes : \A n \in sizes : m <= n
    <2>1. sizes \in SUBSET Nat /\ sizes # {}
      BY <1>1
    <2> HIDE DEF sizes
    <2> QED
      BY <2>1, Least
  <1>3. PICK s \in Bad : Cardinality(s) = m
    OBVIOUS
  <1>4. ASSUME NEW x \in s
        PROVE  s \ {x} \in Good
    <2>1. Cardinality(s \ {x}) = Cardinality(s) - 1
      BY <1>1, <1>4, FS_RemoveElement
    <2>2. s \ {x} \in Bad => m <= Cardinality(s \ {x})
      BY <1>2
    <2> QED
      BY <1>1, <1>3, <2>1, <2>2
  <1> QED
    BY <1>3, <1>4

-----------------------------------------------------------------------------
(* Sums over finite sets, which the community modules define by recursion.   *)

Pick(s) == CHOOSE x \in s : TRUE
Recursion(g, f, D) == g = [s \in D |-> IF s = {} THEN 0 ELSE f[Pick(s)] + g[s \ {Pick(s)}]]
SumOf(f, S) == MapThenSumSet(LAMBDA x : f[x], S)

\* The recursion has a solution: one for the parts of at most n elements gives
\* one for those of n + 1.
LEMMA RecursionSolved ==
    ASSUME NEW S, IsFiniteSet(S), NEW f
    PROVE  \E g : Recursion(g, f, SUBSET S)
  <1> DEFINE Small(n) == {s \in SUBSET S : Cardinality(s) <= n}
             Solved(n) == \E g : Recursion(g, f, Small(n))
             Bad == {n \in Nat : ~Solved(n)}
  <1>1. \A s \in SUBSET S : IsFiniteSet(s) /\ Cardinality(s) \in Nat /\ (Cardinality(s) = 0 <=> s = {})
    BY FS_Subset, FS_CardinalityType, FS_EmptySet
  <1>2. \A s \in SUBSET S : s # {} => Pick(s) \in s /\ Cardinality(s \ {Pick(s)}) = Cardinality(s) - 1
    BY <1>1, FS_RemoveElement DEF Pick
  <1>3. Solved(0)
    <2>1. \A s \in Small(0) : s = {}
      BY <1>1
    <2>2. Recursion([s \in Small(0) |-> 0], f, Small(0))
      BY <2>1 DEF Recursion
    <2> QED
      BY <2>2
  <1>4. ASSUME NEW n \in Nat, Solved(n)
        PROVE  Solved(n + 1)
    <2>1. PICK g : Recursion(g, f, Small(n))
      BY <1>4
    <2> DEFINE h == [s \in Small(n + 1) |-> IF s = {} THEN 0 ELSE f[Pick(s)] + g[s \ {Pick(s)}]]
    <2>2. \A s \in Small(n) : h[s] = g[s]
      <3>1. \A s \in Small(n) : s \in Small(n + 1)
        BY <1>1
      <3>2. \A s \in Small(n) : g[s] = IF s = {} THEN 0 ELSE f[Pick(s)] + g[s \ {Pick(s)}]
        BY <2>1 DEF Recursion
      <3> HIDE DEF Small
      <3> QED
        BY <3>1, <3>2
    <2>3. \A s \in Small(n + 1) : s # {} => s \ {Pick(s)} \in Small(n)
      BY <1>1, <1>2
    <2>4. \A s \in Small(n + 1) : s # {} => h[s \ {Pick(s)}] = g[s \ {Pick(s)}]
      BY <2>2, <2>3
    <2>5. h = [s \in Small(n + 1) |-> IF s = {} THEN 0 ELSE f[Pick(s)] + h[s \ {Pick(s)}]]
      <3> DEFINE k == [s \in Small(n + 1) |-> IF s = {} THEN 0 ELSE f[Pick(s)] + h[s \ {Pick(s)}]]
      <3>1. \A s \in Small(n + 1) : h[s] = k[s]
        <4> SUFFICES ASSUME NEW s \in Small(n + 1) PROVE h[s] = k[s]
          OBVIOUS
        <4>1. k[s] = IF s = {} THEN 0 ELSE f[Pick(s)] + h[s \ {Pick(s)}]
          OBVIOUS
        <4>2. h[s] = IF s = {} THEN 0 ELSE f[Pick(s)] + g[s \ {Pick(s)}]
          OBVIOUS
        <4> HIDE DEF h, k, Small
        <4> QED
          BY <2>4, <4>1, <4>2
      <3>2. h = [s \in Small(n + 1) |-> h[s]] /\ k = [s \in Small(n + 1) |-> k[s]]
        OBVIOUS
      <3> HIDE DEF h, k, Small
      <3>3. h = k
        BY <3>1, <3>2
      <3> QED
        BY <3>3 DEF k
    <2> HIDE DEF h
    <2> QED
      BY <2>5 DEF Recursion
  <1>5. Bad = {}
    <2> SUFFICES ASSUME Bad # {} PROVE FALSE
      OBVIOUS
    <2>1. PICK m \in Bad : \A n \in Bad : m <= n
      <3>1. Bad \in SUBSET Nat
        OBVIOUS
      <3> HIDE DEF Bad
      <3> QED
        BY <3>1, Least
    <2>2. m # 0
      BY <1>3
    <2>3. m - 1 \in Nat /\ Solved(m - 1)
      <3>1. m - 1 \in Nat /\ ~(m <= m - 1)
        BY <2>2
      <3> HIDE DEF Solved
      <3> QED
        BY <2>1, <3>1
    <2>4. Solved((m - 1) + 1)
      <3> HIDE DEF Solved
      <3> QED
        BY <1>4, <2>3
    <2>5. (m - 1) + 1 = m
      OBVIOUS
    <2> HIDE DEF Solved
    <2> QED
      BY <2>4, <2>5
  <1>6. Solved(Cardinality(S))
    <2> HIDE DEF Solved
    <2> QED
      BY <1>1, <1>5
  <1>7. Small(Cardinality(S)) = SUBSET S
    BY FS_Subset
  <1> QED
    BY <1>6, <1>7

LEMMA SumSolves ==
    ASSUME NEW S, IsFiniteSet(S), NEW f
    PROVE  \E g : Recursion(g, f, SUBSET S) /\ SumOf(f, S) = g[S]
  <1> DEFINE g == CHOOSE g : g = [s \in SUBSET S |-> IF s = {} THEN 0 ELSE f[Pick(s)] + g[s \ {Pick(s)}]]
  <1>1. SumOf(f, S) = g[S]
    BY DEF SumOf, MapThenSumSet, MapThenFoldSet, Pick
  <1>2. \E h : h = [s \in SUBSET S |-> IF s = {} THEN 0 ELSE f[Pick(s)] + h[s \ {Pick(s)}]]
    <2>1. PICK h : Recursion(h, f, SUBSET S)
      BY RecursionSolved
    <2> QED
      BY <2>1 DEF Recursion
  <1>3. g = [s \in SUBSET S |-> IF s = {} THEN 0 ELSE f[Pick(s)] + g[s \ {Pick(s)}]]
    BY <1>2
  <1> QED
    BY <1>1, <1>3 DEF Recursion

\* A solution depends on the part only, not on the set or the function around it.
LEMMA SolutionsAgree ==
    ASSUME NEW S, IsFiniteSet(S), NEW D, NEW E, SUBSET S \subseteq D, SUBSET S \subseteq E,
           NEW f, NEW k, \A x \in S : f[x] = k[x],
           NEW g, Recursion(g, f, D), NEW h, Recursion(h, k, E)
    PROVE  \A s \in SUBSET S : g[s] = h[s]
  <1> DEFINE Good == {s \in SUBSET S : g[s] = h[s]}
  <1>1. {} \in Good
    BY DEF Recursion
  <1>2. ASSUME NEW s \in SUBSET S, s # {}, \A x \in s : s \ {x} \in Good
        PROVE  s \in Good
    <2>1. Pick(s) \in s
      BY <1>2 DEF Pick
    <2>2. g[s] = f[Pick(s)] + g[s \ {Pick(s)}] /\ h[s] = k[Pick(s)] + h[s \ {Pick(s)}]
      BY <1>2 DEF Recursion
    <2> QED
      BY <1>2, <2>1, <2>2
  <1> HIDE DEF Good
  <1>3. SUBSET S \subseteq Good
    BY <1>1, <1>2, PartsInduction
  <1> QED
    BY <1>3 DEF Good

\* In a solution it does not matter which element is taken first.
LEMMA AnyOrder ==
    ASSUME NEW S, IsFiniteSet(S), NEW f, \A x \in S : f[x] \in Int,
           NEW g, Recursion(g, f, SUBSET S)
    PROVE  \A s \in SUBSET S : g[s] \in Int /\ \A x \in s : g[s] = f[x] + g[s \ {x}]
  <1> DEFINE Good == {s \in SUBSET S : \A t \in SUBSET s : g[t] \in Int /\ \A x \in t : g[t] = f[x] + g[t \ {x}]}
  <1>1. {} \in Good
    BY DEF Recursion
  <1>2. ASSUME NEW s \in SUBSET S, s # {}, \A x \in s : s \ {x} \in Good
        PROVE  s \in Good
    <2> DEFINE p == Pick(s)
    <2>1. p \in s
      BY <1>2 DEF Pick
    <2>2. g[s] = f[p] + g[s \ {p}]
      BY <1>2 DEF Recursion
    <2>3. \A x \in s : \A t \in SUBSET (s \ {x}) : g[t] \in Int /\ \A y \in t : g[t] = f[y] + g[t \ {y}]
      BY <1>2
    <2>4. g[s] \in Int
      BY <2>1, <2>2, <2>3
    <2>5. ASSUME NEW x \in s
          PROVE  g[s] = f[x] + g[s \ {x}]
      <3>1. CASE x = p
        BY <2>2, <3>1
      <3>2. CASE x # p
        <4> DEFINE r == s \ {p, x}
        <4>1. (s \ {p}) \ {x} = r /\ (s \ {x}) \ {p} = r /\ x \in s \ {p} /\ p \in s \ {x}
          BY <2>1, <3>2
        <4> HIDE DEF p, r
        <4>2. g[s \ {p}] = f[x] + g[r]
          <5>1. s \ {p} \in SUBSET (s \ {p})
            OBVIOUS
          <5>2. \A y \in s \ {p} : g[s \ {p}] = f[y] + g[(s \ {p}) \ {y}]
            BY <2>1, <2>3, <5>1
          <5> QED
            BY <4>1, <5>2
        <4>3. g[s \ {x}] = f[p] + g[r]
          <5>1. s \ {x} \in SUBSET (s \ {x})
            OBVIOUS
          <5>2. \A y \in s \ {x} : g[s \ {x}] = f[y] + g[(s \ {x}) \ {y}]
            BY <2>3, <5>1
          <5> QED
            BY <4>1, <5>2
        <4>4. g[r] \in Int /\ f[x] \in Int /\ f[p] \in Int
          <5>1. r \in SUBSET (s \ {x})
            BY <4>1
          <5> QED
            BY <2>1, <2>3, <5>1
        <4> QED
          BY <2>2, <4>2, <4>3, <4>4
      <3> QED
        BY <3>1, <3>2
    <2>6. \A t \in SUBSET s : t = s \/ \E x \in s : t \in SUBSET (s \ {x})
      OBVIOUS
    <2> QED
      BY <2>3, <2>4, <2>5, <2>6
  <1> HIDE DEF Good
  <1>3. SUBSET S \subseteq Good
    BY <1>1, <1>2, PartsInduction
  <1> QED
    BY <1>3 DEF Good

LEMMA SumEmpty == ASSUME NEW f PROVE SumOf(f, {}) = 0
  BY SumSolves, FS_EmptySet DEF Recursion

LEMMA SumAdd ==
    ASSUME NEW S, IsFiniteSet(S), NEW f, \A x \in S : f[x] \in Int
    PROVE  SumOf(f, S) \in Int /\ \A x \in S : SumOf(f, S) = f[x] + SumOf(f, S \ {x})
  <1>1. PICK g : Recursion(g, f, SUBSET S) /\ SumOf(f, S) = g[S]
    BY SumSolves
  <1>2. g[S] \in Int /\ \A x \in S : g[S] = f[x] + g[S \ {x}]
    <2>1. \A s \in SUBSET S : g[s] \in Int /\ \A x \in s : g[s] = f[x] + g[s \ {x}]
      <3>1. Recursion(g, f, SUBSET S)
        BY <1>1
      <3> QED
        BY <3>1, AnyOrder
    <2>2. S \in SUBSET S
      OBVIOUS
    <2> QED
      BY <2>1, <2>2
  <1>3. ASSUME NEW x \in S
        PROVE  SumOf(f, S \ {x}) = g[S \ {x}]
    <2>1. IsFiniteSet(S \ {x})
      BY FS_Subset
    <2>2. PICK h : Recursion(h, f, SUBSET (S \ {x})) /\ SumOf(f, S \ {x}) = h[S \ {x}]
      BY <2>1, SumSolves
    <2>3. \A s \in SUBSET (S \ {x}) : g[s] = h[s]
      <3>1. SUBSET (S \ {x}) \subseteq SUBSET S
        OBVIOUS
      <3>2. Recursion(g, f, SUBSET S) /\ Recursion(h, f, SUBSET (S \ {x}))
        BY <1>1, <2>2
      <3>3. \A y \in S \ {x} : f[y] = f[y]
        OBVIOUS
      <3> DEFINE R == S \ {x}
                 D == SUBSET S
                 E == SUBSET R
      <3>4. IsFiniteSet(R) /\ SUBSET R \subseteq D /\ SUBSET R \subseteq E /\ Recursion(g, f, D) /\ Recursion(h, f, E)
        BY <2>1, <3>1, <3>2
      <3> HIDE DEF R, D, E
      <3>5. \A s \in SUBSET R : g[s] = h[s]
        BY <3>4, SolutionsAgree
      <3> QED
        BY <3>5 DEF R
    <2> QED
      BY <2>2, <2>3
  <1> QED
    BY <1>1, <1>2, <1>3

\* More summands and larger ones: a larger sum.
LEMMA SumGrows ==
    ASSUME NEW T, IsFiniteSet(T), NEW S \in SUBSET T, NEW f, NEW k,
           \A x \in T : k[x] \in Nat, \A x \in S : f[x] \in Nat /\ f[x] <= k[x]
    PROVE  /\ SumOf(f, S) \in Nat /\ SumOf(k, T) \in Nat
           /\ SumOf(f, S) <= SumOf(k, T)
  <1> DEFINE Grown(s) == SumOf(f, s \cap S) \in Nat /\ SumOf(k, s) \in Nat /\ SumOf(f, s \cap S) <= SumOf(k, s)
             Good == {s \in SUBSET T : Grown(s)}
  <1>1. {} \in Good
    <2>1. {} \cap S = {}
      OBVIOUS
    <2> QED
      BY <2>1, SumEmpty
  <1>2. ASSUME NEW s \in SUBSET T, s # {}, \A x \in s : s \ {x} \in Good
        PROVE  s \in Good
    <2>1. PICK x \in s : TRUE
      BY <1>2
    <2>2. Grown(s \ {x})
      BY <1>2
    <2>3. IsFiniteSet(s) /\ IsFiniteSet(s \cap S)
      BY FS_Subset
    <2>4. SumOf(k, s) = k[x] + SumOf(k, s \ {x}) /\ k[x] \in Nat
      BY <2>3, SumAdd
    <2>5. CASE x \in S
      <3>1. (s \cap S) \ {x} = (s \ {x}) \cap S /\ x \in s \cap S
        BY <2>5
      <3>2. SumOf(f, s \cap S) = f[x] + SumOf(f, (s \ {x}) \cap S)
        <4>1. \A y \in s \cap S : f[y] \in Int
          OBVIOUS
        <4> QED
          BY <2>3, <3>1, <4>1, SumAdd
      <3>3. f[x] \in Nat /\ f[x] <= k[x]
        BY <2>5
      <3> HIDE DEF Good
      <3>4. Grown(s)
        BY <2>2, <2>4, <3>2, <3>3
      <3> QED
        BY <3>4 DEF Good
    <2>6. CASE x \notin S
      <3>1. s \cap S = (s \ {x}) \cap S
        BY <2>6
      <3>2. Grown(s)
        BY <2>2, <2>4, <3>1
      <3> QED
        BY <3>2
    <2> QED
      BY <2>5, <2>6
  <1> HIDE DEF Good
  <1>3. SUBSET T \subseteq Good
    BY <1>1, <1>2, PartsInduction
  <1>4. Grown(T)
    BY <1>3 DEF Good
  <1>5. T \cap S = S
    OBVIOUS
  <1> QED
    BY <1>4, <1>5

-----------------------------------------------------------------------------
(* The arithmetic of scores.                                                 *)

LEMMA Extremes ==
    ASSUME NEW a \in Int, NEW b \in Int
    PROVE  /\ Max({a, b}) = IF a >= b THEN a ELSE b
           /\ Min({a, b}) = IF a <= b THEN a ELSE b
  BY DEF Max, Min

LEMMA ScoresAreNumbers == \A x \in 0..One : x \in Nat /\ x \in Int /\ 0 <= x /\ x <= One
  BY DEF One

LEMMA CappedIs == ASSUME NEW x \in Int PROVE Capped(x) = IF x <= One THEN x ELSE One
  BY Extremes DEF Capped, One

LEMMA ClipIs == ASSUME NEW x \in Int PROVE Clip(x) = IF x <= 0 THEN 0 ELSE IF x <= One THEN x ELSE One
  <1>1. Capped(x) \in Int /\ Capped(x) = IF x <= One THEN x ELSE One
    BY CappedIs DEF One
  <1>2. Max({0, Capped(x)}) = IF 0 >= Capped(x) THEN 0 ELSE Capped(x)
    BY <1>1, Extremes
  <1> QED
    BY <1>1, <1>2 DEF Clip, One

LEMMA ClipGrows ==
    ASSUME NEW x \in Int, NEW y \in Int, x <= y
    PROVE  Clip(x) \in 0..One /\ Clip(y) \in 0..One /\ Clip(x) <= Clip(y)
  <1>1. Clip(x) = IF x <= 0 THEN 0 ELSE IF x <= One THEN x ELSE One
    BY ClipIs
  <1>2. Clip(y) = IF y <= 0 THEN 0 ELSE IF y <= One THEN y ELSE One
    BY ClipIs
  <1> QED
    BY <1>1, <1>2 DEF One

LEMMA QuotientGrows ==
    ASSUME NEW a \in Nat, NEW b \in Nat, a <= b, NEW c \in Nat, c > 0
    PROVE  a \div c \in Nat /\ b \div c \in Nat /\ a \div c <= b \div c
  <1> DEFINE q == a \div c
             p == b \div c
  <1>1. q \in Int /\ p \in Int /\ c * q <= a /\ a < c * q + c /\ c * p <= b /\ b < c * p + c
    OBVIOUS
  <1>2. q >= 0 /\ p >= 0
    OBVIOUS
  <1> HIDE DEF q, p
  <1>3. ASSUME p < q PROVE FALSE
    <2>1. q >= p + 1
      BY <1>1, <1>3
    <2>2. c * q >= c * (p + 1)
      BY <1>1, <2>1
    <2>3. c * (p + 1) = c * p + c
      BY <1>1
    <2> QED
      BY <1>1, <2>2, <2>3
  <1>4. q \in Nat /\ p \in Nat /\ q <= p
    BY <1>1, <1>2, <1>3
  <1> QED
    BY <1>4 DEF q, p

LEMMA ShareGrows ==
    ASSUME NEW a \in Nat, NEW b \in Nat, a <= b, NEW c \in Nat, c > 0
    PROVE  Share(a, c) \in Nat /\ Share(b, c) \in Nat /\ Share(a, c) <= Share(b, c)
  <1>1. One * a \in Nat /\ One * b \in Nat /\ One * a <= One * b
    BY DEF One
  <1> QED
    BY <1>1, QuotientGrows DEF Share

LEMMA PartGrows ==
    ASSUME NEW a \in Nat, NEW b \in Nat, a <= b, NEW c \in Nat, c > 0
    PROVE  Part(a, c) \in 0..One /\ Part(b, c) \in 0..One /\ Part(a, c) <= Part(b, c)
  <1>1. Share(a, c) \in Nat /\ Share(b, c) \in Nat /\ Share(a, c) <= Share(b, c)
    BY ShareGrows
  <1>2. Capped(Share(a, c)) = IF Share(a, c) <= One THEN Share(a, c) ELSE One
    BY <1>1, CappedIs
  <1>3. Capped(Share(b, c)) = IF Share(b, c) <= One THEN Share(b, c) ELSE One
    BY <1>1, CappedIs
  <1>4. Part(a, c) = Capped(Share(a, c)) /\ Part(b, c) = Capped(Share(b, c))
    BY DEF Part
  <1> DEFINE p == Part(a, c)
             q == Part(b, c)
             x == Share(a, c)
             y == Share(b, c)
  <1>5. x \in Nat /\ y \in Nat /\ x <= y /\ p = (IF x <= One THEN x ELSE One) /\ q = (IF y <= One THEN y ELSE One)
    BY <1>1, <1>2, <1>3, <1>4
  <1> HIDE DEF p, q, x, y
  <1>6. p \in 0..One /\ q \in 0..One /\ p <= q
    BY <1>5 DEF One
  <1> QED
    BY <1>6 DEF p, q

\* The square root is a number.
LEMMA RootIs == ASSUME NEW x \in Nat PROVE Root(x) \in Nat
  <1> DEFINE T == {k \in Nat : x < (k + 1) * (k + 1)}
  <1>1. T \in SUBSET Nat /\ T # {}
    <2>1. x < (x + 1) * (x + 1)
      OBVIOUS
    <2> QED
      BY <2>1
  <1>2. PICK k \in T : \A n \in T : k <= n
    <2> HIDE DEF T
    <2> QED
      BY <1>1, Least
  <1>3. k * k <= x
    <2>1. CASE k = 0
      BY <2>1
    <2>2. CASE k > 0
      <3>1. k - 1 \in Nat /\ k - 1 \notin T
        BY <1>2, <2>2
      <3>2. (k - 1) + 1 = k
        OBVIOUS
      <3> QED
        BY <3>1, <3>2
    <2> QED
      BY <2>1, <2>2
  <1>4. k <= x
    <2>1. CASE k <= 1
      <3>1. k = 0 \/ k = 1
        BY <2>1
      <3> QED
        BY <1>3, <3>1
    <2>2. CASE k > 1
      <3>1. k * k >= k
        BY <2>2
      <3> QED
        BY <1>3, <3>1
    <2> QED
      BY <2>1, <2>2
  <1>5. \E j \in 0..x : j * j <= x /\ x < (j + 1) * (j + 1)
    BY <1>3, <1>4
  <1> QED
    <2>1. Root(x) \in 0..x
      BY <1>5 DEF Root
    <2> QED
      BY <2>1

\* The greatest of scores, and when it grows.
LEMMA TopIs ==
    ASSUME NEW S, S \subseteq 0..One
    PROVE  Top(S) \in 0..One /\ Top(S) \in S \cup {0} /\ \A x \in S : x <= Top(S)
  <1> DEFINE U == S \cup {0}
             Bounds == {m \in Nat : \A n \in U : n <= m}
  <1>1. PICK m \in Bounds : \A n \in Bounds : m <= n
    <2>1. Bounds \in SUBSET Nat /\ One \in Bounds
      BY DEF One
    <2> HIDE DEF Bounds
    <2> QED
      BY <2>1, Least
  <1>2. m \in U
    <2> SUFFICES ASSUME m \notin U PROVE FALSE
      OBVIOUS
    <2>1. \A n \in U : n \in Nat /\ n < m
      BY <1>1 DEF One
    <2>2. m > 0 /\ m - 1 \in Nat
      BY <2>1
    <2>3. m - 1 \in Bounds
      BY <2>1, <2>2
    <2> QED
      BY <1>1, <2>2, <2>3
  <1>3. \A n \in U : n \in Nat /\ n <= m /\ n <= One
    BY <1>1 DEF One
  <1>4. Max(U) = m
    <2>1. \A x \in U : (\A y \in U : x >= y) => x = m
      BY <1>2, <1>3
    <2> QED
      BY <1>2, <1>3, <2>1 DEF Max
  <1> QED
    <2>1. Top(S) = Max(U) /\ S \subseteq U /\ U = S \cup {0}
      BY DEF Top
    <2> HIDE DEF U
    <2>2. m <= One /\ m \in Nat
      BY <1>2, <1>3
    <2> QED
      BY <1>2, <1>3, <1>4, <2>1, <2>2 DEF One

LEMMA TopGrows ==
    ASSUME NEW S, S \subseteq 0..One, NEW T, T \subseteq 0..One, \A x \in S : \E y \in T : x <= y
    PROVE  Top(S) \in 0..One /\ Top(T) \in 0..One /\ Top(S) <= Top(T)
  <1>1. Top(S) \in 0..One /\ Top(S) \in S \cup {0}
    BY TopIs
  <1>2. Top(T) \in 0..One /\ \A y \in T : y <= Top(T)
    BY TopIs
  <1> DEFINE p == Top(S)
             q == Top(T)
  <1> HIDE DEF p, q
  <1>3. p \in Int /\ q \in Int /\ 0 <= q /\ p \in 0..One /\ q \in 0..One
    <2>1. p \in 0..One /\ q \in 0..One
      BY <1>1, <1>2 DEF p, q
    <2> QED
      BY <2>1 DEF One
  <1>4. p \in S \cup {0} /\ \A y \in T : y <= q
    BY <1>1, <1>2 DEF p, q
  <1>5. p <= q
    <2>1. CASE p \in S
      <3>1. PICK y \in T : p <= y
        BY <2>1
      <3>2. y \in 0..One /\ y <= q
        BY <1>4, <3>1
      <3> QED
        BY <1>3, <3>1, <3>2 DEF One
    <2>2. CASE p = 0
      BY <1>3, <2>2
    <2> QED
      BY <1>4, <2>1, <2>2
  <1> QED
    BY <1>3, <1>5 DEF p, q

-----------------------------------------------------------------------------
(* The first case that holds.                                                *)

LEMMA FirstOf2 ==
    ASSUME NEW a \in BOOLEAN, NEW b \in BOOLEAN, NEW x, NEW y, NEW other
    PROVE  First(<<<<a, x>>, <<b, y>>>>, other) = IF a THEN x ELSE IF b THEN y ELSE other
  <1> DEFINE cases == <<<<a, x>>, <<b, y>>>>
             Label == IF a THEN x ELSE IF b THEN y ELSE other
             hits == {i \in DOMAIN cases : cases[i][1]}
  <1>1. DOMAIN cases = {1, 2} /\ cases[1] = <<a, x>> /\ cases[2] = <<b, y>>
    OBVIOUS
  <1>2. hits = (IF a THEN {1} ELSE {}) \cup (IF b THEN {2} ELSE {})
    BY <1>1
  <1>3. First(cases, other) = IF hits = {} THEN other ELSE cases[Min(hits)][2]
    BY DEF First
  <1> HIDE DEF cases, hits
  <1>4. ASSUME a PROVE First(cases, other) = Label
    <2>1. hits # {} /\ Min(hits) = 1
      BY <1>2, <1>4 DEF Min
    <2> QED
      BY <1>1, <1>3, <1>4, <2>1
  <1>5. ASSUME ~a , b PROVE First(cases, other) = Label
    <2>1. hits # {} /\ Min(hits) = 2
      BY <1>2, <1>5 DEF Min
    <2> QED
      BY <1>1, <1>3, <1>5, <2>1
  <1>6. ASSUME ~a , ~b PROVE First(cases, other) = Label
    BY <1>2, <1>3, <1>6
  <1> QED
    <2>1. cases = <<<<a, x>>, <<b, y>>>>
      BY DEF cases
    <2> QED
      BY <1>4, <1>5, <1>6, <2>1

LEMMA FirstOf3 ==
    ASSUME NEW a \in BOOLEAN, NEW b \in BOOLEAN, NEW c \in BOOLEAN, NEW x, NEW y, NEW z, NEW other
    PROVE  First(<<<<a, x>>, <<b, y>>, <<c, z>>>>, other) =
             IF a THEN x ELSE IF b THEN y ELSE IF c THEN z ELSE other
  <1> DEFINE cases == <<<<a, x>>, <<b, y>>, <<c, z>>>>
             Label == IF a THEN x ELSE IF b THEN y ELSE IF c THEN z ELSE other
             hits == {i \in DOMAIN cases : cases[i][1]}
  <1>1. DOMAIN cases = {1, 2, 3} /\ cases[1] = <<a, x>> /\ cases[2] = <<b, y>> /\ cases[3] = <<c, z>>
    OBVIOUS
  <1>2. hits = (IF a THEN {1} ELSE {}) \cup (IF b THEN {2} ELSE {}) \cup (IF c THEN {3} ELSE {})
    BY <1>1
  <1>3. First(cases, other) = IF hits = {} THEN other ELSE cases[Min(hits)][2]
    BY DEF First
  <1> HIDE DEF cases, hits
  <1>4. ASSUME a PROVE First(cases, other) = Label
    <2>1. hits # {} /\ Min(hits) = 1
      BY <1>2, <1>4 DEF Min
    <2> QED
      BY <1>1, <1>3, <1>4, <2>1
  <1>5. ASSUME ~a , b PROVE First(cases, other) = Label
    <2>1. hits # {} /\ Min(hits) = 2
      BY <1>2, <1>5 DEF Min
    <2> QED
      BY <1>1, <1>3, <1>5, <2>1
  <1>6. ASSUME ~a , ~b , c PROVE First(cases, other) = Label
    <2>1. hits # {} /\ Min(hits) = 3
      BY <1>2, <1>6 DEF Min
    <2> QED
      BY <1>1, <1>3, <1>6, <2>1
  <1>7. ASSUME ~a , ~b , ~c PROVE First(cases, other) = Label
    BY <1>2, <1>3, <1>7
  <1> QED
    <2>1. cases = <<<<a, x>>, <<b, y>>, <<c, z>>>>
      BY DEF cases
    <2> QED
      BY <1>4, <1>5, <1>6, <1>7, <2>1

\* Over a table of any length the label is one of the table, or the default.
LEMMA FirstIn ==
    ASSUME NEW V, NEW cases, DOMAIN cases \subseteq Nat, \A i \in DOMAIN cases : cases[i][2] \in V,
           NEW other \in V
    PROVE  First(cases, other) \in V
  <1> DEFINE hits == {i \in DOMAIN cases : cases[i][1]}
  <1>1. First(cases, other) = IF hits = {} THEN other ELSE cases[Min(hits)][2]
    BY DEF First
  <1>2. hits \in SUBSET Nat
    OBVIOUS
  <1>3. ASSUME hits # {} PROVE Min(hits) \in hits
    <2>1. PICK m \in hits : \A n \in hits : m <= n
      <3> HIDE DEF hits
      <3> QED
        BY <1>2, <1>3, Least
    <2> HIDE DEF hits
    <2> QED
      BY <2>1 DEF Min
  <1> QED
    BY <1>1, <1>3

\* One sum for each way the scores add up rows.
Ns(es) == [e \in es |-> e.n]

LEMMA CopiesAre ==
    ASSUME NEW es, IsFiniteSet(es)
    PROVE  Copies(es) = SumOf(Ns(es), es)
  <1> DEFINE g == CHOOSE g : g = [s \in SUBSET es |-> IF s = {} THEN 0 ELSE Pick(s).n + g[s \ {Pick(s)}]]
             f == Ns(es)
  <1>1. Copies(es) = g[es]
    BY DEF Copies, MapThenSumSet, MapThenFoldSet, Pick
  <1>2. PICK h : Recursion(h, f, SUBSET es) /\ SumOf(f, es) = h[es]
    BY SumSolves
  <1>3. \A s \in SUBSET es : s # {} => f[Pick(s)] = Pick(s).n
    BY DEF Pick, Ns
  <1> HIDE DEF f
  <1>4. h = [s \in SUBSET es |-> IF s = {} THEN 0 ELSE Pick(s).n + h[s \ {Pick(s)}]]
    BY <1>2, <1>3 DEF Recursion
  <1>5. g = [s \in SUBSET es |-> IF s = {} THEN 0 ELSE Pick(s).n + g[s \ {Pick(s)}]]
    BY <1>4
  <1> HIDE DEF g
  <1>6. Recursion(g, f, SUBSET es)
    BY <1>3, <1>5 DEF Recursion
  <1>7. g[es] = h[es]
    <2>1. \A s \in SUBSET es : g[s] = h[s]
      BY <1>2, <1>6, SolutionsAgree
    <2> QED
      BY <2>1
  <1> QED
    BY <1>1, <1>2, <1>7 DEF f

EventSet(es) == IsFiniteSet(es) /\ \A e \in es : EventShape(e)

\* More rows stand for more events, and some row for one at least.
LEMMA CopiesGrow ==
    ASSUME NEW es, EventSet(es), NEW part \in SUBSET es
    PROVE  /\ Copies(part) \in Nat /\ Copies(es) \in Nat /\ Copies(part) <= Copies(es)
           /\ EventSet(part)
           /\ part # {} => Copies(part) > 0
  <1>1. \A e \in es : e.n \in Nat /\ e.n > 0
    BY DEF EventSet, EventShape
  <1>2. IsFiniteSet(es) /\ IsFiniteSet(part)
    BY FS_Subset DEF EventSet
  <1>3. Copies(es) = SumOf(Ns(es), es) /\ Copies(part) = SumOf(Ns(part), part)
    BY <1>2, CopiesAre
  <1>4. /\ \A e \in es : Ns(es)[e] \in Nat
        /\ \A e \in part : Ns(part)[e] \in Nat /\ Ns(part)[e] <= Ns(es)[e] /\ Ns(part)[e] > 0
    BY <1>1 DEF Ns
  <1>5. SumOf(Ns(part), part) \in Nat /\ SumOf(Ns(es), es) \in Nat /\ SumOf(Ns(part), part) <= SumOf(Ns(es), es)
    <2> DEFINE f == Ns(part)
               k == Ns(es)
    <2>1. /\ \A e \in es : k[e] \in Nat
          /\ \A e \in part : f[e] \in Nat /\ f[e] <= k[e]
      BY <1>4
    <2> HIDE DEF f, k
    <2>2. SumOf(f, part) \in Nat /\ SumOf(k, es) \in Nat /\ SumOf(f, part) <= SumOf(k, es)
      BY <1>2, <2>1, SumGrows
    <2> QED
      BY <2>2 DEF f, k
  <1>6. ASSUME part # {}
        PROVE  Copies(part) > 0
    <2>1. PICK e \in part : TRUE
      BY <1>6
    <2> DEFINE f == Ns(part)
               rest == part \ {e}
    <2>2. f[e] \in Nat /\ f[e] > 0 /\ \A x \in part : f[x] \in Nat
      BY <1>4
    <2>3. IsFiniteSet(rest)
      BY <1>2, FS_Subset
    <2> HIDE DEF f
    <2>4. SumOf(f, part) = f[e] + SumOf(f, rest)
      BY <1>2, <2>2, SumAdd
    <2>5. SumOf(f, rest) \in Nat
      <3>1. \A x \in rest : f[x] \in Nat /\ f[x] <= f[x]
        BY <2>2
      <3> HIDE DEF rest
      <3> QED
        BY <2>3, <3>1, SumGrows
    <2> QED
      BY <1>3, <2>2, <2>4, <2>5 DEF f
  <1> QED
    BY <1>2, <1>3, <1>5, <1>6 DEF EventSet

\* The keywords of protest that events contain.
LEMMA PressureOfWords ==
    ASSUME NEW es, EventSet(es)
    PROVE  KeywordPressure(es) \in 0..One
  <1> DEFINE g == CHOOSE g : g = [s \in SUBSET es |-> IF s = {} THEN 0 ELSE Pick(s).n * Pick(s).protest + g[s \ {Pick(s)}]]
             f == [e \in es |-> e.n * e.protest]
             total == MapThenSumSet(LAMBDA e : e.n * e.protest, es)
  <1>1. total = g[es]
    BY DEF MapThenSumSet, MapThenFoldSet, Pick
  <1>2. PICK h : Recursion(h, f, SUBSET es) /\ SumOf(f, es) = h[es]
    BY SumSolves DEF EventSet
  <1>3. \A s \in SUBSET es : s # {} => f[Pick(s)] = Pick(s).n * Pick(s).protest
    BY DEF Pick
  <1>4. \A e \in es : f[e] \in Nat
    BY DEF EventSet, EventShape
  <1> HIDE DEF f
  <1>5. h = [s \in SUBSET es |-> IF s = {} THEN 0 ELSE Pick(s).n * Pick(s).protest + h[s \ {Pick(s)}]]
    BY <1>2, <1>3 DEF Recursion
  <1>6. g = [s \in SUBSET es |-> IF s = {} THEN 0 ELSE Pick(s).n * Pick(s).protest + g[s \ {Pick(s)}]]
    BY <1>5
  <1> HIDE DEF g
  <1>7. Recursion(g, f, SUBSET es)
    BY <1>3, <1>6 DEF Recursion
  <1>8. \A s \in SUBSET es : g[s] = h[s]
    BY <1>2, <1>7, SolutionsAgree DEF EventSet
  <1>9. SumOf(f, es) \in Nat
    <2>1. \A e \in es : f[e] \in Nat /\ f[e] <= f[e]
      BY <1>4
    <2> QED
      BY <2>1, SumGrows DEF EventSet
  <1>10. total \in Nat
    <2>1. es \in SUBSET es
      OBVIOUS
    <2> QED
      BY <1>1, <1>2, <1>8, <1>9, <2>1
  <1>11. KeywordPressure(es) = Clip(Share(total, 8))
    BY DEF KeywordPressure
  <1> HIDE DEF total
  <1>12. Share(total, 8) \in Int
    BY <1>10, ShareGrows
  <1> QED
    BY <1>11, <1>12, ClipGrows

\* The risk of rows on average: higher where more of them have their risk.
LEMMA RiskIs ==
    ASSUME NEW e, EventShape(e)
    PROVE  ComputeRiskScore(e) \in 0..One
  <1> DEFINE words == 2500 * e.high + 1200 * e.medium + 1500 * e.disaster + 1000 * e.infosec
             signals == {IF e.trigger = "auto_social" THEN 5000 ELSE 0,
                         IF e.signals >= 5 THEN 7000 ELSE 0, IF e.signals >= 2 THEN 4000 ELSE 0}
  <1>1. KeywordMilitaryScore(e) \in Int
    <2>1. words \in Int
      BY DEF EventShape
    <2> HIDE DEF words
    <2>2. Capped(words) \in Int
      BY <2>1, CappedIs DEF One
    <2> QED
      BY <2>2 DEF words, KeywordMilitaryScore
  <1>2. SentimentRisk(MoodRead(e)) \in Int
    BY DEF SentimentRisk, MoodRead, EventShape, Unknown, One
  <1>3. NarrativeSignal(e) \in Int
    <2>1. signals \subseteq 0..One
      BY DEF One
    <2> HIDE DEF signals
    <2>2. Top(signals) \in 0..One
      BY <2>1, TopIs
    <2> QED
      BY <2>2, ScoresAreNumbers DEF signals, NarrativeSignal
  <1>4. AnomalyFlag(e) \in Int
    <2>1. AnomalyFlag(e) = IF "anomaly" \in e.tags THEN One ELSE IF {"alert", "critical"} \cap e.tags # {} THEN 7000 ELSE 0
      <3> DEFINE a == "anomaly" \in e.tags
                 b == {"alert", "critical"} \cap e.tags # {}
      <3>1. AnomalyFlag(e) = First(<<<<a, One>>, <<b, 7000>>>>, 0)
        BY DEF AnomalyFlag
      <3>2. a \in BOOLEAN /\ b \in BOOLEAN
        OBVIOUS
      <3> HIDE DEF a, b
      <3>3. AnomalyFlag(e) = IF a THEN One ELSE IF b THEN 7000 ELSE 0
        BY <3>1, <3>2, FirstOf2
      <3> QED
        BY <3>3 DEF a, b
    <2> QED
      BY <2>1 DEF One
  <1>5. e.influence \in Int
    <2>1. e.influence \in 0..One
      BY DEF EventShape
    <2> QED
      BY <2>1, ScoresAreNumbers
  <1> DEFINE x == (30 * KeywordMilitaryScore(e) + 25 * SentimentRisk(MoodRead(e))
                   + 20 * NarrativeSignal(e) + 15 * AnomalyFlag(e) + 10 * e.influence) \div 100
  <1>6. x \in Int
    BY <1>1, <1>2, <1>3, <1>4, <1>5
  <1>7. ComputeRiskScore(e) = Clip(x)
    BY DEF ComputeRiskScore
  <1> HIDE DEF x
  <1> QED
    BY <1>6, <1>7, ClipGrows

Risks(es, d) == [e \in es |-> e.n * RiskOf(e, d)]
LEMMA AverageRiskIs ==
    ASSUME NEW es, EventSet(es), NEW d, es # {}
    PROVE  AverageRisk(es, d) = SumOf(Risks(es, d), es) \div Copies(es)
  <1> DEFINE g == CHOOSE g : g = [s \in SUBSET es |-> IF s = {} THEN 0 ELSE Pick(s).n * RiskOf(Pick(s), d) + g[s \ {Pick(s)}]]
             f == Risks(es, d)
  <1>1. AverageRisk(es, d) = g[es] \div Copies(es)
    BY DEF AverageRisk, Mean, MapThenSumSet, MapThenFoldSet, Pick
  <1>2. PICK h : Recursion(h, f, SUBSET es) /\ SumOf(f, es) = h[es]
    BY SumSolves DEF EventSet
  <1>3. \A s \in SUBSET es : s # {} => f[Pick(s)] = Pick(s).n * RiskOf(Pick(s), d)
    BY DEF Pick, Risks
  <1> HIDE DEF f
  <1>4. h = [s \in SUBSET es |-> IF s = {} THEN 0 ELSE Pick(s).n * RiskOf(Pick(s), d) + h[s \ {Pick(s)}]]
    BY <1>2, <1>3 DEF Recursion
  <1>5. g = [s \in SUBSET es |-> IF s = {} THEN 0 ELSE Pick(s).n * RiskOf(Pick(s), d) + g[s \ {Pick(s)}]]
    BY <1>4
  <1> HIDE DEF g
  <1>6. Recursion(g, f, SUBSET es)
    BY <1>3, <1>5 DEF Recursion
  <1>7. \A s \in SUBSET es : g[s] = h[s]
    BY <1>2, <1>6, SolutionsAgree DEF EventSet
  <1>8. es \in SUBSET es
    OBVIOUS
  <1> QED
    BY <1>1, <1>2, <1>7, <1>8 DEF f

LEMMA AverageRiskGrows ==
    ASSUME NEW es, EventSet(es), NEW d, NEW more, d.scored \subseteq more.scored
    PROVE  /\ AverageRisk(es, d) \in Nat /\ AverageRisk(es, more) \in Nat
           /\ AverageRisk(es, d) <= AverageRisk(es, more)
  <1>1. CASE es = {}
    BY <1>1 DEF AverageRisk
  <1>2. CASE es # {}
    <2> DEFINE f == Risks(es, d)
               k == Risks(es, more)
               c == Copies(es)
    <2>1. \A e \in es : e.n \in Nat /\ RiskOf(e, d) \in Nat /\ RiskOf(e, more) \in Nat
                        /\ RiskOf(e, d) <= RiskOf(e, more)
      <3>1. \A e \in es : ComputeRiskScore(e) \in Nat
        <4>1. \A e \in es : ComputeRiskScore(e) \in 0..One
          BY RiskIs DEF EventSet
        <4> QED
          BY <4>1, ScoresAreNumbers
      <3> QED
        BY <3>1 DEF RiskOf, EventSet, EventShape
    <2>2. \A e \in es : f[e] \in Nat /\ k[e] \in Nat /\ f[e] <= k[e]
      <3> SUFFICES ASSUME NEW e \in es PROVE f[e] \in Nat /\ k[e] \in Nat /\ f[e] <= k[e]
        OBVIOUS
      <3> DEFINE n == e.n
                 a == RiskOf(e, d)
                 b == RiskOf(e, more)
      <3>1. n \in Nat /\ a \in Nat /\ b \in Nat /\ a <= b
        BY <2>1
      <3>2. f[e] = n * a /\ k[e] = n * b
        BY DEF Risks
      <3> HIDE DEF n, a, b, f, k
      <3> QED
        BY <3>1, <3>2
    <2>3. c \in Nat /\ c > 0
      <3>1. es \in SUBSET es
        OBVIOUS
      <3> QED
        BY <1>2, <3>1, CopiesGrow
    <2>4. AverageRisk(es, d) = SumOf(f, es) \div c /\ AverageRisk(es, more) = SumOf(k, es) \div c
      BY <1>2, AverageRiskIs
    <2> HIDE DEF f, k, c
    <2>5. SumOf(f, es) \in Nat /\ SumOf(k, es) \in Nat /\ SumOf(f, es) <= SumOf(k, es)
      <3>1. IsFiniteSet(es) /\ es \in SUBSET es
        BY DEF EventSet
      <3> QED
        BY <2>2, <3>1, SumGrows
    <2> QED
      BY <2>3, <2>4, <2>5, QuotientGrows
  <1> QED
    BY <1>1, <1>2

SignalNames == {"ais_anomaly", "hate_speech_spike", "sortie_rate",
                "market_volatility", "narrative_intensity", "source_silence"}

LEMMA SignalsFinite == IsFiniteSet(SignalNames)
  <1>1. IsFiniteSet({"ais_anomaly"})
    BY FS_Singleton
  <1>2. IsFiniteSet({"ais_anomaly"} \cup {"hate_speech_spike"})
    BY <1>1, FS_AddElement
  <1>3. IsFiniteSet(({"ais_anomaly"} \cup {"hate_speech_spike"}) \cup {"sortie_rate"})
    BY <1>2, FS_AddElement
  <1>4. IsFiniteSet((({"ais_anomaly"} \cup {"hate_speech_spike"}) \cup {"sortie_rate"}) \cup {"market_volatility"})
    BY <1>3, FS_AddElement
  <1>5. IsFiniteSet(((({"ais_anomaly"} \cup {"hate_speech_spike"}) \cup {"sortie_rate"}) \cup {"market_volatility"}) \cup {"narrative_intensity"})
    BY <1>4, FS_AddElement
  <1>6. IsFiniteSet((((({"ais_anomaly"} \cup {"hate_speech_spike"}) \cup {"sortie_rate"}) \cup {"market_volatility"}) \cup {"narrative_intensity"}) \cup {"source_silence"})
    BY <1>5, FS_AddElement
  <1>7. SignalNames = (((({"ais_anomaly"} \cup {"hate_speech_spike"}) \cup {"sortie_rate"}) \cup {"market_volatility"}) \cup {"narrative_intensity"}) \cup {"source_silence"}
    BY DEF SignalNames
  <1> QED
    BY <1>6, <1>7

LEMMA AddUp ==
    ASSUME NEW f, \A s \in SignalNames : f[s] \in Int
    PROVE  SumOf(f, SignalNames) =
             f["ais_anomaly"] + f["hate_speech_spike"] + f["sortie_rate"]
               + f["market_volatility"] + f["narrative_intensity"] + f["source_silence"]
  <1> DEFINE S5 == {"hate_speech_spike", "sortie_rate", "market_volatility", "narrative_intensity", "source_silence"}
             S4 == {"sortie_rate", "market_volatility", "narrative_intensity", "source_silence"}
             S3 == {"market_volatility", "narrative_intensity", "source_silence"}
             S2 == {"narrative_intensity", "source_silence"}
             S1 == {"source_silence"}
  <1>1. /\ SignalNames \ {"ais_anomaly"} = S5 /\ S5 \ {"hate_speech_spike"} = S4
        /\ S4 \ {"sortie_rate"} = S3 /\ S3 \ {"market_volatility"} = S2
        /\ S2 \ {"narrative_intensity"} = S1 /\ S1 \ {"source_silence"} = {}
    BY DEF SignalNames
  <1>2. IsFiniteSet(S1)
    BY FS_Singleton
  <1>3. IsFiniteSet(S2) /\ IsFiniteSet(S3) /\ IsFiniteSet(S4) /\ IsFiniteSet(S5) /\ IsFiniteSet(SignalNames)
    <2>1. /\ S2 \subseteq SignalNames /\ S3 \subseteq SignalNames /\ S4 \subseteq SignalNames /\ S5 \subseteq SignalNames
      BY DEF SignalNames
    <2> HIDE DEF S1, S2, S3, S4, S5
    <2> QED
      BY <2>1, SignalsFinite, FS_Subset
  <1>4. /\ \A s \in S1 : f[s] \in Int
        /\ \A s \in S2 : f[s] \in Int
        /\ \A s \in S3 : f[s] \in Int
        /\ \A s \in S4 : f[s] \in Int
        /\ \A s \in S5 : f[s] \in Int
    BY DEF SignalNames
  <1>5. /\ "ais_anomaly" \in SignalNames /\ "hate_speech_spike" \in S5 /\ "sortie_rate" \in S4
        /\ "market_volatility" \in S3 /\ "narrative_intensity" \in S2 /\ "source_silence" \in S1
    BY DEF SignalNames
  <1> HIDE DEF S1, S2, S3, S4, S5
  <1>6. SumOf(f, S1) = f["source_silence"] + 0
    BY <1>1, <1>2, <1>4, <1>5, SumAdd, SumEmpty
  <1>7. SumOf(f, S2) = f["narrative_intensity"] + SumOf(f, S1)
    BY <1>1, <1>3, <1>4, <1>5, SumAdd
  <1>8. SumOf(f, S3) = f["market_volatility"] + SumOf(f, S2)
    BY <1>1, <1>3, <1>4, <1>5, SumAdd
  <1>9. SumOf(f, S4) = f["sortie_rate"] + SumOf(f, S3)
    <2>1. IsFiniteSet(S4) /\ (\A s \in S4 : f[s] \in Int) /\ "sortie_rate" \in S4
      BY <1>3, <1>4, <1>5
    <2>2. SumOf(f, S4) = f["sortie_rate"] + SumOf(f, S4 \ {"sortie_rate"})
      BY <2>1, SumAdd
    <2> QED
      BY <1>1, <2>2
  <1>10. SumOf(f, S5) = f["hate_speech_spike"] + SumOf(f, S4)
    BY <1>1, <1>3, <1>4, <1>5, SumAdd
  <1>11. SumOf(f, SignalNames) = f["ais_anomaly"] + SumOf(f, S5)
    BY <1>1, <1>3, <1>5, SumAdd
  <1>12. /\ f["ais_anomaly"] \in Int /\ f["hate_speech_spike"] \in Int /\ f["sortie_rate"] \in Int
         /\ f["market_volatility"] \in Int /\ f["narrative_intensity"] \in Int /\ f["source_silence"] \in Int
    BY DEF SignalNames
  <1> QED
    BY <1>6, <1>7, <1>8, <1>9, <1>10, <1>11, <1>12

\* What the composite score of a region is.
SignalSet(signal) == DOMAIN signal = SignalNames /\ \A s \in SignalNames : signal[s] \in Int

LEMMA CompositeIs ==
    ASSUME NEW signal, SignalSet(signal)
    PROVE  /\ \A s \in SignalNames : Weight[s] * signal[s] \in Int
           /\ Composite(signal) = Clip((20 * signal["ais_anomaly"] + 25 * signal["hate_speech_spike"]
                + 20 * signal["sortie_rate"] + 15 * signal["market_volatility"]
                + 15 * signal["narrative_intensity"] + 5 * signal["source_silence"]) \div 100)
  <1> DEFINE S == DOMAIN signal
             g == CHOOSE g : g = [s \in SUBSET S |-> IF s = {} THEN 0 ELSE Weight[Pick(s)] * signal[Pick(s)] + g[s \ {Pick(s)}]]
             f == [s \in S |-> Weight[s] * signal[s]]
  <1>1. Composite(signal) = Clip(g[S] \div 100)
    BY DEF Composite, MapThenSumSet, MapThenFoldSet, Pick
  <1>2. S = SignalNames /\ IsFiniteSet(S)
    BY SignalsFinite DEF SignalSet
  <1>3. PICK h : Recursion(h, f, SUBSET S) /\ SumOf(f, S) = h[S]
    <2> HIDE DEF f, S
    <2> QED
      BY <1>2, SumSolves
  <1>4. \A s \in SUBSET S : s # {} => f[Pick(s)] = Weight[Pick(s)] * signal[Pick(s)]
    BY DEF Pick
  <1>5. /\ f["ais_anomaly"] = 20 * signal["ais_anomaly"] /\ f["hate_speech_spike"] = 25 * signal["hate_speech_spike"]
        /\ f["sortie_rate"] = 20 * signal["sortie_rate"] /\ f["market_volatility"] = 15 * signal["market_volatility"]
        /\ f["narrative_intensity"] = 15 * signal["narrative_intensity"]
        /\ f["source_silence"] = 5 * signal["source_silence"]
    BY <1>2 DEF Weight, SignalNames
  <1>6. \A s \in SignalNames : signal[s] \in Int
    BY DEF SignalSet
  <1>7. \A s \in SignalNames : f[s] \in Int
    BY <1>5, <1>6 DEF SignalNames
  <1>8. \A s \in SignalNames : f[s] = Weight[s] * signal[s]
    BY <1>2
  <1> HIDE DEF f
  <1>9. h = [s \in SUBSET S |-> IF s = {} THEN 0 ELSE Weight[Pick(s)] * signal[Pick(s)] + h[s \ {Pick(s)}]]
    BY <1>3, <1>4 DEF Recursion
  <1>10. g = [s \in SUBSET S |-> IF s = {} THEN 0 ELSE Weight[Pick(s)] * signal[Pick(s)] + g[s \ {Pick(s)}]]
    BY <1>9
  <1> HIDE DEF g
  <1>11. Recursion(g, f, SUBSET S)
    BY <1>4, <1>10 DEF Recursion
  <1>12. g[S] = h[S]
    <2> HIDE DEF S
    <2>1. \A s \in SUBSET S : g[s] = h[s]
      BY <1>2, <1>3, <1>11, SolutionsAgree
    <2> QED
      BY <2>1
  <1>13. g[S] = f["ais_anomaly"] + f["hate_speech_spike"] + f["sortie_rate"]
                + f["market_volatility"] + f["narrative_intensity"] + f["source_silence"]
    BY <1>2, <1>3, <1>7, <1>12, AddUp
  <1> QED
    BY <1>1, <1>5, <1>7, <1>8, <1>13

LEMMA SpikeIs ==
    ASSUME NEW a \in Nat, NEW b \in Nat, NEW k \in Nat, k > 0
    PROVE  Spike(a, b, k) \in Int
  <1>1. Part(a, k) \in Int
    BY PartGrows, ScoresAreNumbers
  <1>2. Surprise(a, b, 28) \in Int
    <2> DEFINE r == Root(28 * b)
               m == Max({28, r})
               x == (One * (28 * a - b)) \div (5 * m)
    <2>1. r \in Nat
      BY RootIs
    <2>2. m = IF 28 >= r THEN 28 ELSE r
      <3> HIDE DEF r
      <3> QED
        BY <2>1, Extremes
    <2>3. m \in Nat /\ m > 0
      BY <2>1, <2>2
    <2> HIDE DEF m
    <2>4. 5 * m \in Nat /\ 5 * m > 0 /\ One * (28 * a - b) \in Int
      BY <2>3 DEF One
    <2>5. x \in Int
      <3> DEFINE p == One * (28 * a - b)
                 q == 5 * m
      <3>1. x = p \div q /\ p \in Int /\ q \in Nat /\ q > 0
        BY <2>4
      <3> HIDE DEF x, p, q
      <3> QED
        BY <3>1
    <2>6. Surprise(a, b, 28) = Clip(x)
      BY DEF Surprise, m
    <2> HIDE DEF x
    <2>7. Clip(x) \in 0..One
      BY <2>5, ClipGrows
    <2> QED
      BY <2>6, <2>7, ScoresAreNumbers
  <1> QED
    BY <1>1, <1>2 DEF Spike

LEMMA SourcesFinite ==
    ASSUME NEW es, IsFiniteSet(es)
    PROVE  IsFiniteSet({e.source : e \in es})
  <1> DEFINE T == {e.source : e \in es}
             f == [e \in es |-> e.source]
  <1>1. f \in Surjection(es, T)
    BY DEF Surjection
  <1> HIDE DEF f, T
  <1>2. IsFiniteSet(T)
    BY <1>1, FS_Surjection
  <1> QED
    BY <1>2 DEF T

LEMMA SilenceIs ==
    ASSUME NEW recent, EventSet(recent), NEW week, EventSet(week)
    PROVE  SourceSilence(recent, week) \in Int
  <1> DEFINE sources == {e.source : e \in week}
             quiet == {s \in sources : From(s, week) >= 28 /\ 28 * 5 * From(s, recent) < From(s, week)}
             g == CHOOSE g : g = [q \in SUBSET quiet |-> IF q = {} THEN 0
                     ELSE One - Share(28 * From(Pick(q), recent), From(Pick(q), week)) + g[q \ {Pick(q)}]]
             f == [s \in quiet |-> One - Share(28 * From(s, recent), From(s, week))]
  <1>1. SourceSilence(recent, week) = IF sources = {} THEN 0 ELSE Capped(g[quiet] \div Cardinality(sources))
    BY DEF SourceSilence, MapThenSumSet, MapThenFoldSet, Pick
  <1>2. IsFiniteSet(sources) /\ IsFiniteSet(quiet)
    <2>1. IsFiniteSet(sources)
      BY SourcesFinite DEF EventSet
    <2> QED
      BY <2>1, FS_Subset
  <1>3. \A s \in quiet : f[s] \in Int
    <2> SUFFICES ASSUME NEW s \in quiet PROVE f[s] \in Int
      OBVIOUS
    <2>1. From(s, recent) \in Nat /\ From(s, week) \in Nat
      BY CopiesGrow DEF From
    <2>2. From(s, week) > 0
      BY <2>1
    <2>3. Share(28 * From(s, recent), From(s, week)) \in Nat
      <3> DEFINE a == 28 * From(s, recent)
                 c == From(s, week)
      <3>1. a \in Nat /\ c \in Nat /\ c > 0 /\ a <= a
        BY <2>1, <2>2
      <3> HIDE DEF a, c
      <3>2. Share(a, c) \in Nat
        BY <3>1, ShareGrows
      <3> QED
        BY <3>2 DEF a, c
    <2>4. f[s] = One - Share(28 * From(s, recent), From(s, week))
      OBVIOUS
    <2> QED
      BY <2>3, <2>4 DEF One
  <1>4. PICK h : Recursion(h, f, SUBSET quiet) /\ SumOf(f, quiet) = h[quiet]
    <2> HIDE DEF f, quiet
    <2> QED
      BY <1>2, SumSolves
  <1>5. \A q \in SUBSET quiet : q # {} => f[Pick(q)] = One - Share(28 * From(Pick(q), recent), From(Pick(q), week))
    <2>1. \A q \in SUBSET quiet : q # {} => Pick(q) \in quiet
      BY DEF Pick
    <2>2. \A s \in quiet : f[s] = One - Share(28 * From(s, recent), From(s, week))
      OBVIOUS
    <2> HIDE DEF f, quiet
    <2> QED
      BY <2>1, <2>2
  <1> HIDE DEF f, quiet
  <1>6. h = [q \in SUBSET quiet |-> IF q = {} THEN 0
                ELSE One - Share(28 * From(Pick(q), recent), From(Pick(q), week)) + h[q \ {Pick(q)}]]
    BY <1>4, <1>5 DEF Recursion
  <1>7. g = [q \in SUBSET quiet |-> IF q = {} THEN 0
                ELSE One - Share(28 * From(Pick(q), recent), From(Pick(q), week)) + g[q \ {Pick(q)}]]
    BY <1>6
  <1> HIDE DEF g
  <1>8. Recursion(g, f, SUBSET quiet)
    BY <1>5, <1>7 DEF Recursion
  <1>9. g[quiet] = h[quiet]
    <2>1. \A q \in SUBSET quiet : g[q] = h[q]
      BY <1>2, <1>4, <1>8, SolutionsAgree
    <2> QED
      BY <2>1
  <1>10. g[quiet] \in Int
    BY <1>2, <1>3, <1>4, <1>9, SumAdd
  <1>11. ASSUME sources # {}
         PROVE  Capped(g[quiet] \div Cardinality(sources)) \in Int
    <2> DEFINE n == Cardinality(sources)
               x == g[quiet] \div n
    <2>1. n \in Nat /\ n > 0
      <3> HIDE DEF sources
      <3> QED
        BY <1>2, <1>11, FS_CardinalityType, FS_EmptySet
    <2> HIDE DEF n
    <2>2. x \in Int
      BY <1>10, <2>1
    <2> HIDE DEF x
    <2>3. Capped(x) \in Int
      BY <2>2, CappedIs DEF One
    <2> QED
      BY <2>3 DEF x, n
  <1> QED
    BY <1>1, <1>11

LEMMA VolatilityIs ==
    ASSUME NEW recent, EventSet(recent)
    PROVE  MarketVolatility(recent) \in Int
  <1> DEFINE market == {e \in recent : e.type = "market" /\ e.mood # Unknown}
             wild == {e \in market : e.mood \in (1..19) \cup (81..100)}
  <1>1. MarketVolatility(recent) = IF market = {} THEN 0 ELSE Share(Copies(wild), Copies(market))
    BY DEF MarketVolatility
  <1>2. EventSet(market) /\ Copies(market) \in Nat /\ (market # {} => Copies(market) > 0)
    <2>1. market \in SUBSET recent
      OBVIOUS
    <2> HIDE DEF market
    <2> QED
      BY <2>1, CopiesGrow
  <1>3. Copies(wild) \in Nat
    <2>1. wild \in SUBSET market
      OBVIOUS
    <2> HIDE DEF market, wild
    <2> QED
      BY <1>2, <2>1, CopiesGrow
  <1> HIDE DEF market, wild
  <1> QED
    BY <1>1, <1>2, <1>3, ShareGrows

LEMMA SignalsAre ==
    ASSUME NEW recent, EventSet(recent), NEW week, EventSet(week), NEW intensity \in Int
    PROVE  SignalSet(Signals(recent, week, intensity))
  <1>1. /\ Vessels(recent) \in Nat /\ Hateful(recent) \in Nat /\ Flights(recent) \in Nat
        /\ Vessels(week) \in Nat /\ Hateful(week) \in Nat /\ Flights(week) \in Nat
    BY CopiesGrow DEF Vessels, Hateful, Flights
  <1>2. /\ AisAnomaly(recent, week) \in Int /\ HateSpeechSpike(recent, week) \in Int
        /\ SortieRate(recent, week) \in Int
    BY <1>1, SpikeIs DEF AisAnomaly, HateSpeechSpike, SortieRate
  <1>3. MarketVolatility(recent) \in Int /\ SourceSilence(recent, week) \in Int
    BY VolatilityIs, SilenceIs
  <1> QED
    BY <1>2, <1>3 DEF Signals, SignalSet, SignalNames

\* A region is scored higher where more loud narratives are told.
LEMMA CompositeGrows ==
    ASSUME NEW recent, EventSet(recent), NEW week, EventSet(week),
           NEW low \in Int, NEW high \in Int, low <= high
    PROVE  /\ Composite(Signals(recent, week, low)) \in 0..One
           /\ Composite(Signals(recent, week, high)) \in 0..One
           /\ Composite(Signals(recent, week, low)) <= Composite(Signals(recent, week, high))
  <1> DEFINE s == Signals(recent, week, low)
             t == Signals(recent, week, high)
  <1>1. SignalSet(s) /\ SignalSet(t)
    BY SignalsAre
  <1>2. /\ s["ais_anomaly"] = t["ais_anomaly"] /\ s["hate_speech_spike"] = t["hate_speech_spike"]
        /\ s["sortie_rate"] = t["sortie_rate"] /\ s["market_volatility"] = t["market_volatility"]
        /\ s["source_silence"] = t["source_silence"]
        /\ s["narrative_intensity"] = low /\ t["narrative_intensity"] = high
    BY DEF Signals
  <1> HIDE DEF s, t
  <1>3. /\ s["ais_anomaly"] \in Int /\ s["hate_speech_spike"] \in Int /\ s["sortie_rate"] \in Int
        /\ s["market_volatility"] \in Int /\ s["source_silence"] \in Int
    BY <1>1 DEF SignalSet, SignalNames
  <1> DEFINE x == (20 * s["ais_anomaly"] + 25 * s["hate_speech_spike"]
                + 20 * s["sortie_rate"] + 15 * s["market_volatility"]
                + 15 * s["narrative_intensity"] + 5 * s["source_silence"]) \div 100
             y == (20 * t["ais_anomaly"] + 25 * t["hate_speech_spike"]
                + 20 * t["sortie_rate"] + 15 * t["market_volatility"]
                + 15 * t["narrative_intensity"] + 5 * t["source_silence"]) \div 100
  <1>4. Composite(s) = Clip(x) /\ Composite(t) = Clip(y)
    BY <1>1, CompositeIs
  <1>5. x \in Int /\ y \in Int /\ x <= y
    BY <1>2, <1>3
  <1> HIDE DEF x, y
  <1>6. Composite(s) \in 0..One /\ Composite(t) \in 0..One /\ Composite(s) <= Composite(t)
    BY <1>4, <1>5, ClipGrows
  <1> QED
    BY <1>6 DEF s, t

LEMMA LevelIs == ASSUME NEW score \in Int, RiskLevel(score) # "LOW" PROVE score >= 3500
  <1> DEFINE a == score >= 7500
             b == score >= 5500
             c == score >= 3500
  <1>1. RiskLevel(score) = First(<<<<a, "CRITICAL">>, <<b, "HIGH">>, <<c, "ELEVATED">>>>, "LOW")
    BY DEF RiskLevel
  <1>2. a \in BOOLEAN /\ b \in BOOLEAN /\ c \in BOOLEAN
    OBVIOUS
  <1> HIDE DEF a, b, c
  <1>3. RiskLevel(score) = IF a THEN "CRITICAL" ELSE IF b THEN "HIGH" ELSE IF c THEN "ELEVATED" ELSE "LOW"
    BY <1>1, <1>2, FirstOf3
  <1>4. a \/ b \/ c
    BY <1>3
  <1> QED
    BY <1>4 DEF a, b, c

\* Six signals none of which is a driver do not raise a region's level.
LEMMA LevelHasDriver ==
    ASSUME NEW signal, SignalSet(signal), RiskLevel(Composite(signal)) # "LOW"
    PROVE  Drivers(signal) # {}
  <1> SUFFICES ASSUME Drivers(signal) = {} PROVE FALSE
    OBVIOUS
  <1>1. \A s \in SignalNames : Weight[s] * signal[s] \in Int /\ signal[s] \in Int
    BY CompositeIs DEF SignalSet
  <1>2. \A s \in SignalNames : ~(Weight[s] * signal[s] > 50000)
    <2>1. \A s \in SignalNames : ~(Weight[s] * signal[s] > 500 * 100)
      BY DEF Drivers, SignalSet
    <2> QED
      BY <2>1
  <1>3. /\ ~(Weight["ais_anomaly"] * signal["ais_anomaly"] > 50000)
        /\ ~(Weight["hate_speech_spike"] * signal["hate_speech_spike"] > 50000)
        /\ ~(Weight["sortie_rate"] * signal["sortie_rate"] > 50000)
        /\ ~(Weight["market_volatility"] * signal["market_volatility"] > 50000)
        /\ ~(Weight["narrative_intensity"] * signal["narrative_intensity"] > 50000)
        /\ ~(Weight["source_silence"] * signal["source_silence"] > 50000)
    BY <1>2 DEF SignalNames
  <1>4. /\ Weight["ais_anomaly"] = 20 /\ Weight["hate_speech_spike"] = 25 /\ Weight["sortie_rate"] = 20
        /\ Weight["market_volatility"] = 15 /\ Weight["narrative_intensity"] = 15 /\ Weight["source_silence"] = 5
    BY DEF Weight
  <1>5. /\ signal["ais_anomaly"] \in Int /\ signal["hate_speech_spike"] \in Int /\ signal["sortie_rate"] \in Int
        /\ signal["market_volatility"] \in Int /\ signal["narrative_intensity"] \in Int
        /\ signal["source_silence"] \in Int
    BY <1>1 DEF SignalNames
  <1> DEFINE x == (20 * signal["ais_anomaly"] + 25 * signal["hate_speech_spike"]
                + 20 * signal["sortie_rate"] + 15 * signal["market_volatility"]
                + 15 * signal["narrative_intensity"] + 5 * signal["source_silence"]) \div 100
  <1>6. x \in Int /\ x <= 3000
    BY <1>3, <1>4, <1>5
  <1>7. Composite(signal) = Clip(x)
    BY CompositeIs
  <1> HIDE DEF x
  <1>8. Composite(signal) \in Int /\ Composite(signal) <= 3000
    <2>1. Clip(x) = IF x <= 0 THEN 0 ELSE IF x <= One THEN x ELSE One
      BY <1>6, ClipIs
    <2> QED
      BY <1>6, <1>7, <2>1 DEF One
  <1>9. Composite(signal) >= 3500
    BY <1>8, LevelIs
  <1> QED
    BY <1>8, <1>9

\* A desk holds rows of the right shape; another is richer that holds the same
\* events, more narratives and alerts, and the risk of more events.
Orderly(d) ==
    /\ EventSet(d.recent) /\ IsFiniteSet(d.narratives) /\ IsFiniteSet(d.alerts)
    /\ \A n \in d.narratives : NarrativeShape(n)
    /\ \A a \in d.alerts : AlertShape(a)
Richer(m, d) ==
    /\ Orderly(d) /\ Orderly(m) /\ m.recent = d.recent
    /\ d.narratives \subseteq m.narratives /\ d.alerts \subseteq m.alerts /\ d.scored \subseteq m.scored

LEMMA PartIs == ASSUME NEW a \in Int, NEW c \in Nat, c > 0 PROVE Part(a, c) \in Int
  <1> DEFINE p == One * a
             x == p \div c
  <1>1. p \in Int
    BY DEF One
  <1> HIDE DEF p
  <1>2. x \in Int
    BY <1>1
  <1> HIDE DEF x
  <1>3. Capped(x) \in Int
    BY <1>2, CappedIs DEF One
  <1> QED
    BY <1>3 DEF x, p, Part, Share

LEMMA CountGrows ==
    ASSUME NEW T, IsFiniteSet(T), NEW S, S \subseteq T
    PROVE  Cardinality(S) \in Nat /\ Cardinality(T) \in Nat /\ Cardinality(S) <= Cardinality(T)
  BY FS_Subset, FS_CardinalityType

LEMMA NegativeIs == ASSUME NEW es, EventSet(es) PROVE NegativeRatio(es) \in Int
  <1> DEFINE moody == WithMood(es)
             low == {e \in WithMood(es) : e.mood <= 40}
  <1>1. NegativeRatio(es) = IF moody = {} THEN 0 ELSE Share(Copies(low), Copies(moody))
    BY DEF NegativeRatio
  <1>2. moody \in SUBSET es /\ low \in SUBSET moody
    BY DEF WithMood
  <1> HIDE DEF moody, low
  <1>3. EventSet(moody) /\ Copies(moody) \in Nat /\ (moody # {} => Copies(moody) > 0)
    BY <1>2, CopiesGrow
  <1>4. Copies(low) \in Nat
    BY <1>2, <1>3, CopiesGrow
  <1> QED
    BY <1>1, <1>3, <1>4, ShareGrows

LEMMA RegionsGrow ==
    ASSUME NEW d, NEW m, Richer(m, d), NEW region
    PROVE  /\ RegionWatch(region, d).score \in 0..One /\ RegionWatch(region, m).score \in 0..One
           /\ RegionWatch(region, d).score <= RegionWatch(region, m).score
  <1> DEFINE es == {e \in d.recent : e.place = region}
             r1 == AverageRisk(es, d)
             r2 == AverageRisk(es, m)
             neg == NegativeRatio(es)
             c == Part(Copies(es), 12)
             n1 == Part(Narratives(region, d), 4)
             n2 == Part(Narratives(region, m), 4)
             a1 == Part(Alerts(region, d), 3)
             a2 == Part(Alerts(region, m), 3)
             k == KeywordPressure(es)
             x == (35 * r1 + 20 * neg + 15 * c + 15 * n1 + 10 * a1 + 5 * k) \div 100
             y == (35 * r2 + 20 * neg + 15 * c + 15 * n2 + 10 * a2 + 5 * k) \div 100
  <1>1. RegionWatch(region, d).score = Clip(x)
    BY DEF RegionWatch
  <1>2. RegionWatch(region, m).score = Clip(y)
    <2>1. {e \in m.recent : e.place = region} = es
      BY DEF Richer
    <2> HIDE DEF es
    <2> QED
      BY <2>1 DEF RegionWatch
  <1>3. EventSet(es) /\ Copies(es) \in Nat
    <2>1. es \in SUBSET d.recent /\ EventSet(d.recent)
      BY DEF Richer, Orderly
    <2> HIDE DEF es
    <2> QED
      BY <2>1, CopiesGrow
  <1> HIDE DEF es
  <1>4. r1 \in Int /\ r2 \in Int /\ r1 <= r2
    BY <1>3, AverageRiskGrows DEF Richer
  <1>5. neg \in Int /\ k \in Int /\ c \in Int
    <2>1. c \in 0..One /\ k \in 0..One
      BY <1>3, PartGrows, PressureOfWords
    <2> QED
      BY <1>3, <2>1, NegativeIs, ScoresAreNumbers
  <1>6. n1 \in Int /\ n2 \in Int /\ n1 <= n2
    <2> DEFINE S == {n \in d.narratives : region \in DOMAIN n.spread}
               T == {n \in m.narratives : region \in DOMAIN n.spread}
    <2>1. S \subseteq T /\ T \subseteq m.narratives /\ IsFiniteSet(m.narratives)
      BY DEF Richer, Orderly
    <2>2. Narratives(region, d) = Cardinality(S) /\ Narratives(region, m) = Cardinality(T)
      BY DEF Narratives
    <2> HIDE DEF S, T
    <2>3. Narratives(region, d) \in Nat /\ Narratives(region, m) \in Nat /\ Narratives(region, d) <= Narratives(region, m)
      BY <2>1, <2>2, CountGrows, FS_Subset
    <2>4. n1 \in 0..One /\ n2 \in 0..One /\ n1 <= n2
      BY <2>3, PartGrows
    <2> QED
      BY <2>4, ScoresAreNumbers
  <1>7. a1 \in Int /\ a2 \in Int /\ a1 <= a2
    <2> DEFINE S == {a \in d.alerts : a.place = region}
               T == {a \in m.alerts : a.place = region}
    <2>1. S \subseteq T /\ T \subseteq m.alerts /\ IsFiniteSet(m.alerts)
      BY DEF Richer, Orderly
    <2>2. Alerts(region, d) = Cardinality(S) /\ Alerts(region, m) = Cardinality(T)
      BY DEF Alerts
    <2> HIDE DEF S, T
    <2>3. Alerts(region, d) \in Nat /\ Alerts(region, m) \in Nat /\ Alerts(region, d) <= Alerts(region, m)
      BY <2>1, <2>2, CountGrows, FS_Subset
    <2>4. a1 \in 0..One /\ a2 \in 0..One /\ a1 <= a2
      BY <2>3, PartGrows
    <2> QED
      BY <2>4, ScoresAreNumbers
  <1> HIDE DEF r1, r2, neg, c, n1, n2, a1, a2, k
  <1>8. x \in Int /\ y \in Int /\ x <= y
    BY <1>4, <1>5, <1>6, <1>7
  <1> HIDE DEF x, y
  <1>9. Clip(x) \in 0..One /\ Clip(y) \in 0..One /\ Clip(x) <= Clip(y)
    BY <1>8, ClipGrows
  <1> QED
    BY <1>1, <1>2, <1>9

LEMMA NarrativesScored ==
    ASSUME NEW d, Orderly(d), NEW n \in d.narratives
    PROVE  NarrativeWatch(n, d).score \in 0..One
  <1> DEFINE matched == Copies(About(n, d.recent))
             events == IF n.events = 0 THEN matched ELSE n.events
             concentration == Top({n.spread[r] : r \in DOMAIN n.spread})
             pressure == Clip(Share(n.protest, 8))
             e == Part(events, 10)
             s == Part(n.sources, 5)
             x == (35 * n.strength + 20 * n.confidence + 15 * e + 10 * s
                   + 10 * concentration + 10 * pressure) \div 100
  <1>1. NarrativeWatch(n, d).score = Clip(x)
    BY DEF NarrativeWatch
  <1>2. NarrativeShape(n)
    BY DEF Orderly
  <1>3. events \in Nat
    <2>1. About(n, d.recent) \in SUBSET d.recent /\ EventSet(d.recent)
      BY DEF About, Orderly
    <2>2. matched \in Nat
      BY <2>1, CopiesGrow
    <2> HIDE DEF matched
    <2> QED
      BY <1>2, <2>2 DEF NarrativeShape
  <1>4. n.sources \in Nat /\ n.protest \in Nat /\ n.strength \in 0..One /\ n.confidence \in 0..One
    BY <1>2 DEF NarrativeShape
  <1>5. concentration \in Int
    <2> DEFINE S == {n.spread[r] : r \in DOMAIN n.spread}
    <2>1. S \subseteq 0..One
      BY <1>2 DEF NarrativeShape
    <2> HIDE DEF S
    <2>2. Top(S) \in 0..One
      BY <2>1, TopIs
    <2> QED
      BY <2>2, ScoresAreNumbers DEF S
  <1>6. pressure \in Int
    <2>1. Share(n.protest, 8) \in Int
      BY <1>4, ShareGrows
    <2>2. pressure \in 0..One
      BY <2>1, ClipGrows
    <2> QED
      BY <2>2, ScoresAreNumbers
  <1>7. e \in Int /\ s \in Int
    BY <1>3, <1>4, PartIs
  <1>8. n.strength \in Int /\ n.confidence \in Int
    BY <1>4, ScoresAreNumbers
  <1> HIDE DEF events, concentration, pressure, e, s
  <1>9. x \in Int
    BY <1>5, <1>6, <1>7, <1>8
  <1> HIDE DEF x
  <1> QED
    BY <1>1, <1>9, ClipGrows

LEMMA NarrativesSame ==
    ASSUME NEW d, NEW m, Richer(m, d), NEW n
    PROVE  NarrativeWatch(n, m).score = NarrativeWatch(n, d).score
  <1>1. m.recent = d.recent
    BY DEF Richer
  <1> QED
    BY <1>1 DEF NarrativeWatch

LEMMA AlertsGrow ==
    ASSUME NEW d, NEW m, Richer(m, d), NEW a \in m.alerts
    PROVE  /\ AlertWatch(a, d).score \in 0..One /\ AlertWatch(a, m).score \in 0..One
           /\ AlertWatch(a, d).score <= AlertWatch(a, m).score
  <1> DEFINE L1 == LinkedNarratives(a, d)
             L2 == LinkedNarratives(a, m)
             l1 == Min({4, Cardinality(L1)})
             l2 == Min({4, Cardinality(L2)})
             s == Part(a.sources, 4)
             e == Part(a.events, 6)
             z == Part(a.z, 5)
             p1 == Part(l1, 3)
             p2 == Part(l2, 3)
             w == SeverityWeight(a.severity)
             c1 == (35 * s + 25 * e + 25 * z + 15 * p1) \div 100
             c2 == (35 * s + 25 * e + 25 * z + 15 * p2) \div 100
             x == (60 * Clip(c1) + 40 * w) \div 100
             y == (60 * Clip(c2) + 40 * w) \div 100
  <1>1. AlertWatch(a, d).score = Clip(x) /\ AlertWatch(a, m).score = Clip(y)
    BY DEF AlertWatch
  <1>2. AlertShape(a)
    BY DEF Richer, Orderly
  <1>3. s \in Int /\ e \in Int /\ z \in Int
    <2>1. a.sources \in Int /\ a.events \in Int /\ a.z \in Int
      BY <1>2 DEF AlertShape
    <2>2. s \in Int
      BY <2>1, PartIs
    <2>3. e \in Int
      BY <2>1, PartIs
    <2>4. z \in Int
      BY <2>1, PartIs
    <2> QED
      BY <2>2, <2>3, <2>4
  <1>4. w \in Int
    BY <1>2 DEF AlertShape, SeverityNames, SeverityWeight, One
  <1>5. p1 \in Int /\ p2 \in Int /\ p1 <= p2
    <2>1. L1 \subseteq L2 /\ L2 \subseteq m.narratives /\ IsFiniteSet(m.narratives)
      BY DEF LinkedNarratives, Richer, Orderly
    <2> HIDE DEF L1, L2
    <2>2. Cardinality(L1) \in Nat /\ Cardinality(L2) \in Nat /\ Cardinality(L1) <= Cardinality(L2)
      BY <2>1, CountGrows, FS_Subset
    <2>3. l1 = (IF 4 <= Cardinality(L1) THEN 4 ELSE Cardinality(L1))
      <3> DEFINE k == Cardinality(L1)
      <3>1. k \in Int /\ 4 \in Int /\ l1 = Min({4, k})
        BY <2>2
      <3> HIDE DEF k, l1
      <3>2. l1 = IF 4 <= k THEN 4 ELSE k
        BY <3>1, Extremes
      <3> QED
        BY <3>2 DEF k
    <2>4. l2 = (IF 4 <= Cardinality(L2) THEN 4 ELSE Cardinality(L2))
      <3> DEFINE k == Cardinality(L2)
      <3>1. k \in Int /\ 4 \in Int /\ l2 = Min({4, k})
        BY <2>2
      <3> HIDE DEF k, l2
      <3>2. l2 = IF 4 <= k THEN 4 ELSE k
        BY <3>1, Extremes
      <3> QED
        BY <3>2 DEF k
    <2>5. l1 \in Nat /\ l2 \in Nat /\ l1 <= l2
      BY <2>2, <2>3, <2>4
    <2> HIDE DEF l1, l2
    <2>6. p1 \in 0..One /\ p2 \in 0..One /\ p1 <= p2
      BY <2>5, PartGrows
    <2> QED
      BY <2>6, ScoresAreNumbers
  <1> HIDE DEF s, e, z, p1, p2, w
  <1>6. c1 \in Int /\ c2 \in Int /\ c1 <= c2
    BY <1>3, <1>5
  <1> HIDE DEF c1, c2
  <1>7. Clip(c1) \in 0..One /\ Clip(c2) \in 0..One /\ Clip(c1) <= Clip(c2)
    BY <1>6, ClipGrows
  <1>8. x \in Int /\ y \in Int /\ x <= y
    <2>1. Clip(c1) \in Int /\ Clip(c2) \in Int
      BY <1>7, ScoresAreNumbers
    <2> QED
      BY <1>4, <1>7, <2>1
  <1> HIDE DEF x, y
  <1>9. Clip(x) \in 0..One /\ Clip(y) \in 0..One /\ Clip(x) <= Clip(y)
    BY <1>8, ClipGrows
  <1> QED
    BY <1>1, <1>9

ScoresIn(items) == {i.score : i \in items}

LEMMA WatchedScores ==
    ASSUME NEW d, Orderly(d)
    PROVE  /\ ScoresIn(Watched(d).regions) \subseteq 0..One
           /\ ScoresIn(Watched(d).narratives) \subseteq 0..One
           /\ ScoresIn(Watched(d).alerts) \subseteq 0..One
  <1>1. Richer(d, d)
    BY DEF Richer
  <1>2. \A e \in d.recent : RegionWatch(e.place, d).score \in 0..One
    BY <1>1, RegionsGrow
  <1>3. \A n \in d.narratives : NarrativeWatch(n, d).score \in 0..One
    BY NarrativesScored
  <1>4. \A a \in d.alerts : AlertWatch(a, d).score \in 0..One
    BY <1>1, AlertsGrow
  <1>5. ScoresIn(Watched(d).regions) = {RegionWatch(e.place, d).score : e \in d.recent}
    BY DEF ScoresIn, Watched, Regions
  <1>6. ScoresIn(Watched(d).narratives) = {NarrativeWatch(n, d).score : n \in d.narratives}
    BY DEF ScoresIn, Watched
  <1>7. ScoresIn(Watched(d).alerts) = {AlertWatch(a, d).score : a \in d.alerts}
    BY DEF ScoresIn, Watched
  <1> QED
    BY <1>2, <1>3, <1>4, <1>5, <1>6, <1>7

\* The pressure of a richer desk is not lower.
LEMMA PressureGrows ==
    ASSUME NEW d, NEW m, Richer(m, d)
    PROVE  /\ Pressure(Watched(d)) \in Int /\ Pressure(Watched(m)) \in Int
           /\ Pressure(Watched(d)) <= Pressure(Watched(m))
  <1> DEFINE R1 == ScoresIn(Watched(d).regions)
             R2 == ScoresIn(Watched(m).regions)
             N1 == ScoresIn(Watched(d).narratives)
             N2 == ScoresIn(Watched(m).narratives)
             A1 == ScoresIn(Watched(d).alerts)
             A2 == ScoresIn(Watched(m).alerts)
  <1>1. /\ Pressure(Watched(d)) = (Top(R1) + Top(N1) + Top(A1)) \div 3
        /\ Pressure(Watched(m)) = (Top(R2) + Top(N2) + Top(A2)) \div 3
    BY DEF Pressure, TopScore, ScoresIn
  <1>2. /\ R1 \subseteq 0..One /\ N1 \subseteq 0..One /\ A1 \subseteq 0..One
        /\ R2 \subseteq 0..One /\ N2 \subseteq 0..One /\ A2 \subseteq 0..One
    BY WatchedScores DEF Richer
  <1>3. /\ m.recent = d.recent /\ d.narratives \subseteq m.narratives /\ d.alerts \subseteq m.alerts
    BY DEF Richer
  <1>4. \A x \in R1 : \E y \in R2 : x <= y
    <2>1. R1 = {RegionWatch(e.place, d).score : e \in d.recent}
      BY DEF ScoresIn, Watched, Regions
    <2>2. R2 = {RegionWatch(e.place, m).score : e \in m.recent}
      BY DEF ScoresIn, Watched, Regions
    <2>3. \A e \in d.recent : RegionWatch(e.place, d).score <= RegionWatch(e.place, m).score
      BY RegionsGrow
    <2> HIDE DEF R1, R2
    <2> QED
      BY <1>3, <2>1, <2>2, <2>3
  <1>5. \A x \in N1 : \E y \in N2 : x <= y
    <2>1. N1 = {NarrativeWatch(n, d).score : n \in d.narratives}
      BY DEF ScoresIn, Watched
    <2>2. N2 = {NarrativeWatch(n, m).score : n \in m.narratives}
      BY DEF ScoresIn, Watched
    <2>3. \A n \in d.narratives : NarrativeWatch(n, d).score = NarrativeWatch(n, m).score
      BY NarrativesSame
    <2> HIDE DEF N1, N2
    <2>4. N1 \subseteq N2
      BY <1>3, <2>1, <2>2, <2>3
    <2>5. \A x \in N1 : x \in 0..One
      BY <1>2
    <2> QED
      BY <2>4, <2>5, ScoresAreNumbers
  <1>6. \A x \in A1 : \E y \in A2 : x <= y
    <2>1. A1 = {AlertWatch(a, d).score : a \in d.alerts}
      BY DEF ScoresIn, Watched
    <2>2. A2 = {AlertWatch(a, m).score : a \in m.alerts}
      BY DEF ScoresIn, Watched
    <2>3. \A a \in d.alerts : AlertWatch(a, d).score <= AlertWatch(a, m).score
      BY <1>3, AlertsGrow
    <2> HIDE DEF A1, A2
    <2> QED
      BY <1>3, <2>1, <2>2, <2>3
  <1> HIDE DEF R1, R2, N1, N2, A1, A2
  <1>7. Top(R1) \in 0..One /\ Top(R2) \in 0..One /\ Top(R1) <= Top(R2)
    BY <1>2, <1>4, TopGrows
  <1>8. Top(N1) \in 0..One /\ Top(N2) \in 0..One /\ Top(N1) <= Top(N2)
    BY <1>2, <1>5, TopGrows
  <1>9. Top(A1) \in 0..One /\ Top(A2) \in 0..One /\ Top(A1) <= Top(A2)
    BY <1>2, <1>6, TopGrows
  <1>10. /\ Top(R1) \in Int /\ Top(R2) \in Int /\ Top(N1) \in Int /\ Top(N2) \in Int
         /\ Top(A1) \in Int /\ Top(A2) \in Int
    BY <1>7, <1>8, <1>9, ScoresAreNumbers
  <1> QED
    BY <1>1, <1>7, <1>8, <1>9, <1>10

\* More alerts and louder narratives never lower the threat level.
LEMMA ThreatGrows ==
    ASSUME NEW A, IsFiniteSet(A), NEW N, IsFiniteSet(N), NEW B, B \subseteq A, NEW M, M \subseteq N
    PROVE  ThreatLevel(B, M) \in 0..3 /\ ThreatLevel(A, N) \in 0..3 /\ ThreatLevel(B, M) <= ThreatLevel(A, N)
  <1> DEFINE critical(as) == Cardinality({a \in as : a.severity = "critical"})
             high(as) == Cardinality({a \in as : a.severity = "high"})
             loud(ns) == Cardinality({n \in ns : n.severity \in {"high", "critical"}})
             c1 == critical(B)
             c2 == critical(A)
             h1 == high(B)
             h2 == high(A)
             l1 == loud(M)
             l2 == loud(N)
             Level(c, h, l) == IF c >= 2 \/ (c >= 1 /\ l >= 2) THEN 3
                               ELSE IF h >= 3 \/ c >= 1 THEN 2 ELSE IF h >= 1 \/ l >= 1 THEN 1 ELSE 0
  <1>1. ThreatLevel(B, M) = Level(c1, h1, l1)
    <2> DEFINE a == c1 >= 2 \/ (c1 >= 1 /\ l1 >= 2)
               b == h1 >= 3 \/ c1 >= 1
               c == h1 >= 1 \/ l1 >= 1
    <2>1. ThreatLevel(B, M) = First(<<<<a, 3>>, <<b, 2>>, <<c, 1>>>>, 0)
      BY DEF ThreatLevel
    <2>2. a \in BOOLEAN /\ b \in BOOLEAN /\ c \in BOOLEAN
      OBVIOUS
    <2>3. Level(c1, h1, l1) = IF a THEN 3 ELSE IF b THEN 2 ELSE IF c THEN 1 ELSE 0
      OBVIOUS
    <2> HIDE DEF a, b, c, Level
    <2> QED
      BY <2>1, <2>2, <2>3, FirstOf3
  <1>2. ThreatLevel(A, N) = Level(c2, h2, l2)
    <2> DEFINE a == c2 >= 2 \/ (c2 >= 1 /\ l2 >= 2)
               b == h2 >= 3 \/ c2 >= 1
               c == h2 >= 1 \/ l2 >= 1
    <2>1. ThreatLevel(A, N) = First(<<<<a, 3>>, <<b, 2>>, <<c, 1>>>>, 0)
      BY DEF ThreatLevel
    <2>2. a \in BOOLEAN /\ b \in BOOLEAN /\ c \in BOOLEAN
      OBVIOUS
    <2>3. Level(c2, h2, l2) = IF a THEN 3 ELSE IF b THEN 2 ELSE IF c THEN 1 ELSE 0
      OBVIOUS
    <2> HIDE DEF a, b, c, Level
    <2> QED
      BY <2>1, <2>2, <2>3, FirstOf3
  <1>3. c1 \in Nat /\ c2 \in Nat /\ c1 <= c2
    <2>1. {a \in B : a.severity = "critical"} \subseteq {a \in A : a.severity = "critical"}
      OBVIOUS
    <2> QED
      BY <2>1, CountGrows, FS_Subset
  <1>4. h1 \in Nat /\ h2 \in Nat /\ h1 <= h2
    <2>1. {a \in B : a.severity = "high"} \subseteq {a \in A : a.severity = "high"}
      OBVIOUS
    <2> QED
      BY <2>1, CountGrows, FS_Subset
  <1>5. l1 \in Nat /\ l2 \in Nat /\ l1 <= l2
    <2>1. {n \in M : n.severity \in {"high", "critical"}} \subseteq {n \in N : n.severity \in {"high", "critical"}}
      OBVIOUS
    <2> QED
      BY <2>1, CountGrows, FS_Subset
  <1> HIDE DEF c1, c2, h1, h2, l1, l2
  <1> QED
    BY <1>1, <1>2, <1>3, <1>4, <1>5

LEMMA HighestGrows ==
    ASSUME NEW T, NEW S, S \subseteq T, \A r \in T : r.severity \in SeverityNames
    PROVE  Highest(S) \in Nat /\ Highest(T) \in Nat /\ Highest(S) <= Highest(T)
  <1> DEFINE X == {SeverityRank(r.severity) : r \in S}
             Y == {SeverityRank(r.severity) : r \in T}
  <1>1. Y \subseteq 0..One /\ X \subseteq Y
    <2>1. \A r \in T : SeverityRank(r.severity) \in 0..One
      BY DEF SeverityRank, SeverityNames, One
    <2> QED
      BY <2>1
  <1>2. \A x \in X : \E y \in Y : x <= y
    BY <1>1, ScoresAreNumbers
  <1> HIDE DEF X, Y
  <1>3. Top(X) \in 0..One /\ Top(Y) \in 0..One /\ Top(X) <= Top(Y)
    BY <1>1, <1>2, TopGrows
  <1>4. Highest(S) = Top(X) /\ Highest(T) = Top(Y)
    BY DEF Highest, X, Y
  <1> QED
    BY <1>3, <1>4, ScoresAreNumbers

LEMMA PriorityIs == ASSUME NEW e, EventShape(e) PROVE PriorityScore(e) \in Int /\ e.confidence \in Int
  <1>1. e.signals \in Nat /\ e.cited \in Nat /\ e.confidence \in 0..One /\ e.mood \in {Unknown} \cup 0..100
    BY DEF EventShape
  <1>2. Part(e.signals, 8) \in Int /\ Part(e.cited, 4) \in Int
    <2>1. e.signals \in Int /\ e.cited \in Int
      BY <1>1
    <2> QED
      BY <2>1, PartIs
  <1> DEFINE c == IF e.confidence = 0 THEN 2500 ELSE e.confidence
             p == Part(e.signals, 8)
             q == Part(e.cited, 4)
             m == IF e.mood = Unknown THEN 0 ELSE 100 * e.mood
             b == IF e.source = "composite" THEN 20 * One ELSE 0
  <1>3. e.confidence \in Int
    BY <1>1, ScoresAreNumbers
  <1>4. c \in Int /\ p \in Int /\ q \in Int /\ m \in Int /\ b \in Int
    BY <1>1, <1>2, <1>3 DEF One
  <1>5. PriorityScore(e) = (55 * c + 20 * p + 15 * q + 10 * m + b) \div 100
    BY DEF PriorityScore
  <1> HIDE DEF c, p, q, m, b
  <1> QED
    BY <1>3, <1>4, <1>5

\* An item of the queue with more to match is not less of a risk.
LEMMA ItemGrows ==
    ASSUME NEW e, EventShape(e), NEW A, NEW N, NEW B, B \subseteq A, NEW M, M \subseteq N,
           \A r \in A \cup N : r.severity \in SeverityNames
    PROVE  /\ QueueItem(e, B, M).risk \in Int /\ QueueItem(e, A, N).risk \in Int
           /\ QueueItem(e, B, M).risk <= QueueItem(e, A, N).risk
  <1> DEFINE a1 == Highest(MatchAlerts(e, B))
             a2 == Highest(MatchAlerts(e, A))
             n1 == Highest(MatchNarratives(e, M))
             n2 == Highest(MatchNarratives(e, N))
             p == (65 * PriorityScore(e) + 25 * e.confidence) \div 100
             x == p + 800 * a1 + 400 * n1
             y == p + 800 * a2 + 400 * n2
  <1>1. QueueItem(e, B, M).risk = Capped(x) /\ QueueItem(e, A, N).risk = Capped(y)
    BY DEF QueueItem
  <1>2. a1 \in Nat /\ a2 \in Nat /\ a1 <= a2
    <2>1. MatchAlerts(e, B) \subseteq MatchAlerts(e, A) /\ MatchAlerts(e, A) \subseteq A
      BY DEF MatchAlerts
    <2> QED
      BY <2>1, HighestGrows
  <1>3. n1 \in Nat /\ n2 \in Nat /\ n1 <= n2
    <2>1. MatchNarratives(e, M) \subseteq MatchNarratives(e, N) /\ MatchNarratives(e, N) \subseteq N
      BY DEF MatchNarratives
    <2> QED
      BY <2>1, HighestGrows
  <1>4. p \in Int
    BY PriorityIs
  <1> HIDE DEF a1, a2, n1, n2, p
  <1>5. x \in Int /\ y \in Int /\ x <= y
    BY <1>2, <1>3, <1>4
  <1> HIDE DEF x, y
  <1>6. Capped(x) = IF x <= One THEN x ELSE One
    BY <1>5, CappedIs
  <1>7. Capped(y) = IF y <= One THEN y ELSE One
    BY <1>5, CappedIs
  <1> QED
    BY <1>1, <1>5, <1>6, <1>7 DEF One

-----------------------------------------------------------------------------
(* Sources.                                                                  *)

LEMMA TierIs == ASSUME NEW s PROVE TierForSource(s) \in 1..4
  <1> DEFINE exact == [i \in DOMAIN SourceTiers |-> <<s = SourceTiers[i][1], SourceTiers[i][2]>>]
             inside == [i \in DOMAIN SourceTiers |-> <<Occurs(SourceTiers[i][1], s), SourceTiers[i][2]>>]
             V == 1..4
             d == First(inside, 4)
  <1>1. /\ DOMAIN exact \subseteq Nat /\ \A i \in DOMAIN exact : exact[i][2] \in V
        /\ DOMAIN inside \subseteq Nat /\ \A i \in DOMAIN inside : inside[i][2] \in V
        /\ 4 \in V
    BY TiersAssumption
  <1>2. TierForSource(s) = First(exact, d)
    BY DEF TierForSource
  <1> HIDE DEF exact, inside, V
  <1>3. d \in V
    BY <1>1, FirstIn
  <1> HIDE DEF d
  <1>4. TierForSource(s) \in V
    BY <1>1, <1>2, <1>3, FirstIn
  <1> QED
    BY <1>4 DEF V

LEMMA CorroborationsGrow ==
    ASSUME NEW es, EventSet(es), NEW part \in SUBSET es, NEW s
    PROVE  /\ Corroborations(s, part) \in Nat /\ Corroborations(s, es) \in Nat
           /\ Corroborations(s, part) <= Corroborations(s, es)
  <1> DEFINE Confirmed(E) == {e \in E : e.source = s /\ Cardinality(Repeating(e, E)) >= 2}
  <1>1. ASSUME NEW e \in part
        PROVE  /\ Cardinality(Repeating(e, part)) \in Nat /\ Cardinality(Repeating(e, es)) \in Nat
               /\ Cardinality(Repeating(e, part)) <= Cardinality(Repeating(e, es))
    <2>1. Repeating(e, part) \subseteq Repeating(e, es) /\ Repeating(e, es) \subseteq {x.source : x \in es}
      BY DEF Repeating
    <2>2. IsFiniteSet({x.source : x \in es})
      BY SourcesFinite DEF EventSet
    <2> QED
      BY <2>1, <2>2, CountGrows, FS_Subset
  <1>2. Confirmed(part) \subseteq Confirmed(es) /\ Confirmed(es) \subseteq es
    BY <1>1
  <1>3. Corroborations(s, part) = Copies(Confirmed(part)) /\ Corroborations(s, es) = Copies(Confirmed(es))
    BY DEF Corroborations
  <1> HIDE DEF Confirmed
  <1>4. EventSet(Confirmed(es))
    BY <1>2, CopiesGrow
  <1> QED
    BY <1>2, <1>3, <1>4, CopiesGrow

\* With more events no source has less credibility.
LEMMA SourcesGrow ==
    ASSUME NEW es, EventSet(es), NEW part \in SUBSET es, NEW s \in DOMAIN SourceScores(part)
    PROVE  SourceScores(es)[s] >= SourceScores(part)[s]
  <1> DEFINE base == BaseScore(TierForSource(s))
             b1 == Corroborations(s, part)
             b2 == Corroborations(s, es)
  <1>1. SourceScores(part)[s] = DecayedScore(base, b1)
    BY DEF SourceScores
  <1>2. SourceScores(es)[s] = DecayedScore(base, b2)
    <2>1. s \in DOMAIN SourceScores(es)
      BY DEF SourceScores
    <2> QED
      BY <2>1 DEF SourceScores
  <1>3. base \in Int
    BY TierIs DEF BaseScore
  <1>4. b1 \in Nat /\ b2 \in Nat /\ b1 <= b2
    BY CorroborationsGrow
  <1> HIDE DEF base, b1, b2
  <1>5. base + 500 * b1 \in Int /\ base + 500 * b2 \in Int /\ base + 500 * b1 <= base + 500 * b2
    BY <1>3, <1>4
  <1>6. Clip(base + 500 * b1) \in 0..One /\ Clip(base + 500 * b2) \in 0..One /\ Clip(base + 500 * b1) <= Clip(base + 500 * b2)
    BY <1>5, ClipGrows
  <1>7. DecayedScore(base, b1) \in Int /\ DecayedScore(base, b2) \in Int /\ DecayedScore(base, b1) <= DecayedScore(base, b2)
    BY <1>6, ScoresAreNumbers DEF DecayedScore
  <1> QED
    BY <1>1, <1>2, <1>7

Parts == UNION {SUBSET Catalogue[j] : j \in Jobs}
EventParts == {part \in Parts : \A r \in part : r.kind = "event"}
Scorings ==
    [recent : EventParts, week : EventParts, narratives : Parts, fault : {"none", "events", "narratives"}]
RegionPasses ==
    [at : Nat, aborted : BOOLEAN, undisturbed : BOOLEAN, zeroed : SUBSET STRING, faults : Nat, out : Seq(Scorings)]

\* What is true of a pass: a region that got no score, and a transaction that
\* is still aborted, have each cost a failure of their own; and while nothing
\* has gone wrong and nothing was stored, every region so far was scored from
\* what is stored.
PassInv ==
    /\ pass \in RegionPasses
    /\ job \in Jobs /\ seen \subseteq Catalogue[job]
    /\ IsFiniteSet(pass.zeroed)
    /\ Cardinality(pass.zeroed) + (IF pass.aborted THEN 1 ELSE 0) <= pass.faults
    /\ Len(pass.out) = IF pass.at = 0 THEN 0 ELSE pass.at - 1
    /\ pass.undisturbed /\ pass.at > 0 =>
          ~pass.aborted /\ \A i \in 1..Len(pass.out) : pass.out[i] \in Reads(seen)
BoardInv ==
    /\ board \in [scores : Seq(Scorings), current : BOOLEAN]
    /\ board.current => \A i \in DOMAIN AllRegions : board.scores[i] \in Reads(seen)

\* A cut is of the rows there are.
LEMMA CutOf ==
    ASSUME NEW query, NEW rank, NEW S \in Cuts(query, rank)
    PROVE  S \subseteq DOMAIN rank
  BY DEF Cuts

LEMMA NewestOf ==
    ASSUME NEW query, NEW R, NEW S
    PROVE  /\ S \in Newest(query, R) => S \subseteq R
           /\ S \in Oldest(query, R) => S \subseteq R
  <1>1. DOMAIN [r \in R |-> r.at] = R /\ DOMAIN [r \in R |-> -r.at] = R
    OBVIOUS
  <1> QED
    BY <1>1, CutOf DEF Newest, Oldest

LEMMA ReadOf ==
    ASSUME NEW stored \in Parts, NEW read \in Reads(stored)
    PROVE  /\ read \in Scorings /\ read.fault = "none"
           /\ read.narratives = Kind("narrative", stored)
  <1>1. PICK es \in Newest("region", RecentOf(stored)), ws \in Newest("region", WeekOf(stored)) :
            read = [recent |-> es, week |-> ws, narratives |-> Kind("narrative", stored), fault |-> "none"]
    BY DEF Reads
  <1>2. PICK j \in Jobs : stored \subseteq Catalogue[j]
    BY DEF Parts
  <1>3. es \subseteq RecentOf(stored) /\ ws \subseteq WeekOf(stored)
    BY NewestOf
  <1>4. es \in EventParts /\ ws \in EventParts /\ Kind("narrative", stored) \in Parts
    BY <1>2, <1>3 DEF RecentOf, WeekOf, Kind, EventParts, Parts
  <1> QED
    BY <1>1, <1>4 DEF Scorings

LEMMA OneMore ==
    ASSUME NEW S, IsFiniteSet(S), NEW x
    PROVE  /\ IsFiniteSet(S \cup {x}) /\ Cardinality(S) \in Nat
           /\ Cardinality(S \cup {x}) \in Nat /\ Cardinality(S \cup {x}) <= Cardinality(S) + 1
  BY FS_AddElement, FS_CardinalityType

LEMMA IdlePass == Idle \in RegionPasses /\ Idle.out = <<>> /\ IsFiniteSet(Idle.zeroed) /\ Cardinality(Idle.zeroed) = 0
  BY FS_EmptySet DEF Idle, RegionPasses

LEMMA RegionScored ==
    ASSUME PassInv, NEW fault \in {"none", "events", "narratives"}, ScoreNext(fault)
    PROVE  PassInv'
  <1>0. PICK read \in Reads(seen) :
          LET fails == pass.aborted \/ fault = "events"
              cost == IF fault = "none" THEN 0 ELSE 1
          IN  pass' = [at |-> pass.at + 1, aborted |-> After(pass.aborted, fault),
                       undisturbed |-> pass.undisturbed /\ fault = "none",
                       zeroed |-> IF fails THEN pass.zeroed \cup {AllRegions[pass.at]} ELSE pass.zeroed,
                       faults |-> pass.faults + cost,
                       out |-> Append(pass.out, [read EXCEPT !.fault = IF fails THEN "events" ELSE fault])]
    BY DEF ScoreNext
  <1> DEFINE fails == pass.aborted \/ fault = "events"
             scored1 == [read EXCEPT !.fault = IF fails THEN "events" ELSE fault]
             lost == IF fails THEN pass.zeroed \cup {AllRegions[pass.at]} ELSE pass.zeroed
             count == pass.faults + (IF fault = "none" THEN 0 ELSE 1)
  <1>1. /\ pass' = [at |-> pass.at + 1, aborted |-> After(pass.aborted, fault),
                    undisturbed |-> pass.undisturbed /\ fault = "none",
                    zeroed |-> lost, faults |-> count, out |-> Append(pass.out, scored1)]
        /\ pass.at \in 1..Len(AllRegions) /\ (fault # "none" => ~pass.aborted)
        /\ job' = job /\ seen' = seen
    BY <1>0 DEF ScoreNext
  <1>2. /\ pass.at \in Nat /\ pass.aborted \in BOOLEAN /\ pass.undisturbed \in BOOLEAN
        /\ pass.zeroed \in SUBSET STRING /\ pass.faults \in Nat /\ pass.out \in Seq(Scorings)
    BY DEF PassInv, RegionPasses
  <1>3. scored1 \in Scorings
    <2>1. seen \in Parts
      BY DEF PassInv, Parts
    <2>2. read \in Scorings
      BY <2>1, ReadOf
    <2> QED
      BY <2>2 DEF Scorings
  <1>4. lost \in SUBSET STRING
    BY <1>1, <1>2, RegionsAssumption
  <1>5. After(pass.aborted, fault) \in BOOLEAN /\ count \in Nat
    BY <1>2 DEF After
  <1> HIDE DEF fails, scored1, lost, count
  <1>6. pass' \in RegionPasses
    BY <1>1, <1>2, <1>3, <1>4, <1>5 DEF RegionPasses
  <1>7. IsFiniteSet(lost) /\ Cardinality(lost) + (IF After(pass.aborted, fault) THEN 1 ELSE 0) <= count
    <2>1. IsFiniteSet(pass.zeroed) /\ Cardinality(pass.zeroed) + (IF pass.aborted THEN 1 ELSE 0) <= pass.faults
      BY DEF PassInv
    <2>2. /\ IsFiniteSet(pass.zeroed \cup {AllRegions[pass.at]}) /\ Cardinality(pass.zeroed) \in Nat
          /\ Cardinality(pass.zeroed \cup {AllRegions[pass.at]}) \in Nat
          /\ Cardinality(pass.zeroed \cup {AllRegions[pass.at]}) <= Cardinality(pass.zeroed) + 1
      BY <2>1, OneMore
    <2>3. CASE pass.aborted
      BY <1>1, <1>2, <2>1, <2>2, <2>3 DEF lost, count, fails, After
    <2>4. CASE ~pass.aborted
      BY <1>1, <1>2, <2>1, <2>2, <2>4 DEF lost, count, fails, After
    <2> QED
      BY <2>3, <2>4
  <1>8. Len(pass.out) = pass.at - 1 /\ Len(pass'.out) = pass'.at - 1 /\ pass'.at > 0
    BY <1>1, <1>2, <1>3 DEF PassInv
  <1>9. ASSUME pass.undisturbed, fault = "none"
        PROVE  ~After(pass.aborted, fault) /\ \A i \in 1..Len(pass'.out) : pass'.out[i] \in Reads(seen)
    <2>1. ~pass.aborted /\ \A i \in 1..Len(pass.out) : pass.out[i] \in Reads(seen)
      BY <1>1, <1>2, <1>9 DEF PassInv
    <2>2. scored1 \in Reads(seen)
      <3>1. seen \in Parts
        BY DEF PassInv, Parts
      <3>2. read \in Scorings /\ read.fault = "none"
        BY <3>1, ReadOf
      <3>3. scored1 = read
        BY <1>9, <2>1, <3>2 DEF scored1, fails, Scorings
      <3> QED
        BY <3>3
    <2> QED
      BY <1>1, <1>2, <1>3, <1>9, <2>1, <2>2 DEF After
  <1> QED
    <2>1. Reads(seen') = Reads(seen)
      BY <1>1
    <2>2. pass'.zeroed = lost /\ pass'.faults = count /\ pass'.aborted = After(pass.aborted, fault)
          /\ (pass'.undisturbed <=> (pass.undisturbed /\ fault = "none"))
      BY <1>1
    <2> QED
      BY <1>1, <1>6, <1>7, <1>8, <1>9, <2>1, <2>2 DEF PassInv

LEMMA PassInvHolds == Init /\ [][Next]_vars => [](PassInv /\ BoardInv)
  <1>1. Init => PassInv /\ BoardInv
    BY IdlePass DEF Init, PassInv, BoardInv, Idle
  <1>2. ASSUME PassInv, BoardInv, [Next]_vars
        PROVE  PassInv' /\ BoardInv'
    <2>1. ASSUME NEW r \in Catalogue[job], Observe(r)
          PROVE  PassInv' /\ BoardInv'
      <3>1. /\ pass' = [pass EXCEPT !.undisturbed = (pass.at = 0)] /\ job' = job
            /\ seen' = seen \cup {r} /\ board' = [board EXCEPT !.current = FALSE]
        BY <2>1 DEF Observe
      <3>2. BoardInv'
        BY <1>2, <3>1 DEF BoardInv
      <3>3. /\ pass' \in RegionPasses /\ pass'.zeroed = pass.zeroed /\ pass'.aborted = pass.aborted
            /\ pass'.faults = pass.faults /\ pass'.out = pass.out /\ pass'.at = pass.at
            /\ (pass'.undisturbed => pass.at = 0)
        BY <1>2, <3>1 DEF PassInv, RegionPasses
      <3>4. seen' \subseteq Catalogue[job]
        BY <1>2, <3>1 DEF PassInv
      <3> QED
        BY <1>2, <3>1, <3>2, <3>3, <3>4 DEF PassInv
    <2>2. ASSUME StartPass
          PROVE  PassInv' /\ BoardInv'
      <3>1. pass' = [Idle EXCEPT !.at = 1] /\ job' = job /\ seen' = seen /\ board' = board
        BY <2>2 DEF StartPass
      <3>2. /\ pass' \in RegionPasses /\ pass'.zeroed = Idle.zeroed /\ pass'.aborted = FALSE
            /\ pass'.faults = 0 /\ pass'.out = <<>> /\ pass'.at = 1
        <4>1. pass' = [at |-> 1, aborted |-> FALSE, undisturbed |-> TRUE, zeroed |-> {}, faults |-> 0, out |-> <<>>]
          BY <3>1 DEF Idle
        <4>2. <<>> \in Seq(Scorings) /\ {} \in SUBSET STRING /\ Idle.zeroed = {}
          BY DEF Idle
        <4> QED
          BY <4>1, <4>2 DEF RegionPasses
      <3>3. PassInv'
        BY <1>2, <3>1, <3>2, IdlePass DEF PassInv
      <3> QED
        BY <1>2, <3>1, <3>3 DEF BoardInv
    <2>3. ASSUME Publish
          PROVE  PassInv' /\ BoardInv'
      <3>1. pass' = Idle /\ job' = job /\ seen' = seen /\ pass.at = Len(AllRegions) + 1
        BY <2>3 DEF Publish
      <3>2. /\ Idle.aborted = FALSE /\ Idle.faults = 0 /\ Idle.out = <<>> /\ Idle.at = 0
        BY DEF Idle
      <3>3. PassInv'
        BY <1>2, <3>1, <3>2, IdlePass DEF PassInv
      <3>4. Len(AllRegions) \in Nat /\ DOMAIN AllRegions = 1..Len(AllRegions)
        BY RegionsAssumption
      <3>5. ASSUME board' = [scores |-> pass.out, current |-> pass.undisturbed]
            PROVE  BoardInv'
        <4>1. board' \in [scores : Seq(Scorings), current : BOOLEAN]
          BY <1>2, <3>5 DEF PassInv, RegionPasses
        <4>2. ASSUME board'.current
              PROVE  \A i \in DOMAIN AllRegions : board'.scores[i] \in Reads(seen)
          <5>1. pass.undisturbed /\ pass.at > 0 /\ Len(pass.out) = Len(AllRegions) /\ board'.scores = pass.out
            BY <1>2, <3>1, <3>4, <3>5, <4>2 DEF PassInv
          <5> QED
            BY <1>2, <3>4, <5>1 DEF PassInv
        <4> QED
          BY <3>1, <4>1, <4>2 DEF BoardInv
      <3>6. ASSUME board' = board
            PROVE  BoardInv'
        BY <1>2, <3>1, <3>6 DEF BoardInv
      <3> QED
        BY <2>3, <3>3, <3>5, <3>6 DEF Publish
    <2>4. ASSUME NEW fault \in {"none", "events", "narratives"}, ScoreNext(fault)
          PROVE  PassInv' /\ BoardInv'
      <3>1. board' = board /\ seen' = seen
        BY <2>4 DEF ScoreNext
      <3> QED
        BY <1>2, <2>4, <3>1, RegionScored DEF BoardInv
    <2>5. ASSUME UNCHANGED <<job, seen, pass, board>>
          PROVE  PassInv' /\ BoardInv'
      BY <1>2, <2>5 DEF PassInv, BoardInv
    <2> QED
      BY <1>2, <2>1, <2>2, <2>3, <2>4, <2>5 DEF Next, ScoreRisks, WriteEvent, UpdateInfluence, vars
  <1> QED
    BY <1>1, <1>2, PTL

\* A failed query costs at most one region of a pass its score, and a board
\* nothing went wrong with shows the escalation of what is stored.
THEOREM FailuresContained == Spec => []FailureContained
  <1>1. PassInv /\ BoardInv => FailureContained
    <2> SUFFICES ASSUME PassInv, BoardInv PROVE FailureContained
      OBVIOUS
    <2>1. Cardinality(pass.zeroed) <= pass.faults
      BY FS_CardinalityType DEF PassInv, RegionPasses
    <2> QED
      BY <2>1 DEF FailureContained, BoardInv
  <1> QED
    BY <1>1, PassInvHolds, PTL DEF Spec

-----------------------------------------------------------------------------
(* What is stored.                                                           *)

Stored(stored) == \E j \in Jobs : stored \subseteq Catalogue[j]

LEMMA StoredRows ==
    ASSUME NEW stored, Stored(stored)
    PROVE  /\ EventSet(Kind("event", stored)) /\ EventSet(RecentOf(stored)) /\ EventSet(WeekOf(stored))
           /\ IsFiniteSet(Kind("narrative", stored)) /\ IsFiniteSet(Kind("alert", stored))
           /\ \A n \in Kind("narrative", stored) : NarrativeShape(n)
           /\ \A a \in Kind("alert", stored) : AlertShape(a)
  <1>1. PICK j \in Jobs : stored \subseteq Catalogue[j]
    BY DEF Stored
  <1>2. /\ IsFiniteSet(Catalogue[j])
        /\ \A r \in stored : /\ r.kind = "event" => EventShape(r)
                             /\ r.kind = "narrative" => NarrativeShape(r)
                             /\ r.kind = "alert" => AlertShape(r)
    BY <1>1, CatalogueAssumption
  <1>3. IsFiniteSet(stored)
    BY <1>1, <1>2, FS_Subset
  <1>4. /\ IsFiniteSet(Kind("event", stored)) /\ IsFiniteSet(RecentOf(stored)) /\ IsFiniteSet(WeekOf(stored))
        /\ IsFiniteSet(Kind("narrative", stored)) /\ IsFiniteSet(Kind("alert", stored))
    BY <1>3, FS_Subset DEF RecentOf, WeekOf, Kind
  <1>5. /\ \A e \in Kind("event", stored) : EventShape(e)
        /\ \A e \in RecentOf(stored) : EventShape(e)
        /\ \A e \in WeekOf(stored) : EventShape(e)
    BY <1>2 DEF RecentOf, WeekOf, Kind
  <1>6. (\A n \in Kind("narrative", stored) : NarrativeShape(n)) /\ (\A a \in Kind("alert", stored) : AlertShape(a))
    BY <1>2 DEF Kind
  <1> QED
    BY <1>4, <1>5, <1>6 DEF EventSet

\* What the unrest watch loads is in order, and a subset of what is stored.
LEMMA DeskIs ==
    ASSUME NEW stored, Stored(stored), NEW known, NEW d \in Desk(stored, known)
    PROVE  /\ Orderly(d) /\ d.scored = known /\ d.recent \subseteq RecentOf(stored)
           /\ d = [recent |-> d.recent, previous |-> d.previous, narratives |-> d.narratives,
                   alerts |-> d.alerts, actors |-> d.actors, scored |-> d.scored]
  <1>1. PICK es \in Newest("watch_events", Kind("event", stored)),
             ns \in Newest("watch_narratives", Kind("narrative", stored)),
             as \in Newest("watch_alerts", Kind("alert", stored)),
             ps \in Cuts("watch_actors", [p \in Kind("actor", stored) |-> p.influence]) :
             d = [recent |-> {e \in es : e.recent}, previous |-> {e \in es : ~e.recent},
                  narratives |-> ns, alerts |-> as, actors |-> ps, scored |-> known]
    BY DEF Desk
  <1>2. es \subseteq Kind("event", stored) /\ ns \subseteq Kind("narrative", stored) /\ as \subseteq Kind("alert", stored)
    BY NewestOf
  <1>3. d.recent \subseteq RecentOf(stored)
    BY <1>1, <1>2 DEF RecentOf
  <1>4. EventSet(d.recent)
    <2>1. EventSet(RecentOf(stored)) /\ d.recent \in SUBSET RecentOf(stored)
      BY <1>3, StoredRows
    <2> QED
      BY <2>1, CopiesGrow
  <1>5. IsFiniteSet(ns) /\ IsFiniteSet(as)
    BY <1>2, StoredRows, FS_Subset
  <1>6. (\A n \in ns : NarrativeShape(n)) /\ \A a \in as : AlertShape(a)
    BY <1>2, StoredRows
  <1>7. d.narratives = ns /\ d.alerts = as
    BY <1>1
  <1>8. Orderly(d)
    BY <1>4, <1>5, <1>6, <1>7 DEF Orderly
  <1> QED
    BY <1>1, <1>3, <1>8

\* What the operations queue loads is stored.
LEMMA LoadIs ==
    ASSUME NEW stored, Stored(stored), NEW load \in Loads(stored)
    PROVE  /\ \A e \in load.events : EventShape(e)
           /\ \A x \in load.alerts \cup load.narratives : x.severity \in SeverityNames
           /\ load = [events |-> load.events, narratives |-> load.narratives, alerts |-> load.alerts]
  <1>1. PICK es \in Situations(stored),
             ns \in Newest("queue_narratives", Kind("narrative", stored)),
             as \in Newest("queue_alerts", Kind("alert", stored)) :
             load = [events |-> es, narratives |-> ns, alerts |-> as]
    BY DEF Loads
  <1>2. PICK all \in Newest("situations", Kind("event", stored)) :
             es \in Cuts("queue", [e \in all |-> PriorityScore(e)])
    BY DEF Situations
  <1>3. es \subseteq all
    <2>1. DOMAIN [e \in all |-> PriorityScore(e)] = all
      OBVIOUS
    <2> DEFINE rank == [e \in all |-> PriorityScore(e)]
    <2>2. es \in Cuts("queue", rank) /\ DOMAIN rank = all
      BY <1>2, <2>1
    <2> HIDE DEF rank
    <2> QED
      BY <2>2, CutOf
  <1>4. all \subseteq Kind("event", stored) /\ ns \subseteq Kind("narrative", stored) /\ as \subseteq Kind("alert", stored)
    BY NewestOf
  <1>5. \A e \in es : EventShape(e)
    BY <1>3, <1>4, StoredRows DEF EventSet
  <1>6. \A x \in as \cup ns : x.severity \in SeverityNames
    BY <1>4, StoredRows DEF NarrativeShape, AlertShape
  <1> QED
    BY <1>1, <1>5, <1>6

\* What is written to the graph are events that are stored.
Writes(ws) == IsFiniteSet(ws) /\ \A w \in ws : w.event.n \in Nat
WorldInv ==
    /\ job \in Jobs /\ seen \subseteq Catalogue[job]
    /\ scored \subseteq Recent
    /\ Writes(graph.writes)
    /\ \A p \in graph.edges : Together(p, graph.writes) >= 3
    /\ graph = [writes |-> graph.writes, score |-> graph.score, edges |-> graph.edges]

EventNs(ws) == [w \in ws |-> w.event.n]

LEMMA WritesAre ==
    ASSUME NEW ws, IsFiniteSet(ws)
    PROVE  MapThenSumSet(LAMBDA w : w.event.n, ws) = SumOf(EventNs(ws), ws)
  <1> DEFINE g == CHOOSE g : g = [s \in SUBSET ws |-> IF s = {} THEN 0 ELSE Pick(s).event.n + g[s \ {Pick(s)}]]
             f == EventNs(ws)
  <1>1. MapThenSumSet(LAMBDA w : w.event.n, ws) = g[ws]
    BY DEF MapThenSumSet, MapThenFoldSet, Pick
  <1>2. PICK h : Recursion(h, f, SUBSET ws) /\ SumOf(f, ws) = h[ws]
    BY SumSolves
  <1>3. \A s \in SUBSET ws : s # {} => f[Pick(s)] = Pick(s).event.n
    BY DEF Pick, EventNs
  <1> HIDE DEF f
  <1>4. h = [s \in SUBSET ws |-> IF s = {} THEN 0 ELSE Pick(s).event.n + h[s \ {Pick(s)}]]
    BY <1>2, <1>3 DEF Recursion
  <1>5. g = [s \in SUBSET ws |-> IF s = {} THEN 0 ELSE Pick(s).event.n + g[s \ {Pick(s)}]]
    BY <1>4
  <1> HIDE DEF g
  <1>6. Recursion(g, f, SUBSET ws)
    BY <1>3, <1>5 DEF Recursion
  <1>7. g[ws] = h[ws]
    <2>1. \A s \in SUBSET ws : g[s] = h[s]
      BY <1>2, <1>6, SolutionsAgree
    <2> QED
      BY <2>1
  <1> QED
    BY <1>1, <1>2, <1>7 DEF f

\* What the graph counts only grows.
LEMMA TogetherGrows ==
    ASSUME NEW ws, Writes(ws), NEW part \in SUBSET ws, NEW p
    PROVE  /\ Together(p, part) \in Nat /\ Together(p, ws) \in Nat
           /\ Together(p, part) <= Together(p, ws)
  <1> DEFINE S == {w \in part : {p[1], p[2]} \subseteq w.event.actors}
             T == {w \in ws : {p[1], p[2]} \subseteq w.event.actors}
             f == EventNs(S)
             k == EventNs(T)
  <1>1. S \in SUBSET T /\ T \subseteq ws
    OBVIOUS
  <1>2. Together(p, part) = MapThenSumSet(LAMBDA w : w.event.n, S) /\ Together(p, ws) = MapThenSumSet(LAMBDA w : w.event.n, T)
    BY DEF Together
  <1>3. IsFiniteSet(T) /\ IsFiniteSet(S)
    BY <1>1, FS_Subset DEF Writes
  <1>4. \A x \in T : x.event.n \in Nat
    BY <1>1 DEF Writes
  <1> HIDE DEF S, T
  <1>5. Together(p, part) = SumOf(f, S) /\ Together(p, ws) = SumOf(k, T)
    BY <1>2, <1>3, WritesAre
  <1>6. (\A x \in T : k[x] \in Nat) /\ \A x \in S : f[x] \in Nat /\ f[x] <= k[x]
    BY <1>1, <1>4 DEF EventNs
  <1> HIDE DEF f, k
  <1>7. SumOf(f, S) \in Nat /\ SumOf(k, T) \in Nat /\ SumOf(f, S) <= SumOf(k, T)
    BY <1>1, <1>3, <1>6, SumGrows
  <1> QED
    BY <1>5, <1>7

\* Every edge the influence job writes is between actors named together.
LEMMA EdgesTogether ==
    ASSUME NEW score, NEW writes, NEW edges \in InfluenceEdges(score, writes), NEW p \in edges
    PROVE  Together(p, writes) >= 3
  <1> DEFINE rising == {x \in (DOMAIN score) \X (DOMAIN score) : Together(x, writes) >= 3 /\ score[x[1]] > score[x[2]]}
             rank == [x \in rising |-> Together(x, writes)]
  <1>1. PICK S \in Cuts("pairs", rank) : edges = {x \in S : score[x[1]] - score[x[2]] >= 500}
    BY DEF InfluenceEdges
  <1>2. DOMAIN rank = rising
    OBVIOUS
  <1> HIDE DEF rank
  <1>3. p \in rising
    BY <1>1, <1>2, CutOf
  <1> QED
    BY <1>3

LEMMA WorldInvHolds == Init /\ [][Next]_vars => []WorldInv
  <1>1. Init => WorldInv
    BY FS_EmptySet DEF Init, WorldInv, Writes
  <1>2. ASSUME WorldInv, [Next]_vars
        PROVE  WorldInv'
    <2>1. ASSUME NEW r \in Catalogue[job], Observe(r)
          PROVE  WorldInv'
      <3>1. job' = job /\ seen' = seen \cup {r} /\ scored' = scored /\ graph' = graph
        BY <2>1 DEF Observe
      <3>2. Recent \subseteq Recent'
        BY <3>1 DEF Recent, RecentOf, Kind
      <3> QED
        BY <1>2, <3>1, <3>2 DEF WorldInv
    <2>2. ASSUME ScoreRisks
          PROVE  WorldInv'
      <3>1. job' = job /\ seen' = seen /\ graph' = graph
        BY <2>2 DEF ScoreRisks
      <3>2. scored' \subseteq Recent
        BY <1>2, <2>2 DEF ScoreRisks, Unscored, WorldInv
      <3> QED
        BY <1>2, <3>1, <3>2 DEF WorldInv, Recent
    <2>3. ASSUME NEW e \in Catalogue[job], WriteEvent(e)
          PROVE  WorldInv'
      <3>1. job' = job /\ seen' = seen /\ scored' = scored /\ e \in Kind("event", seen)
        BY <2>3 DEF WriteEvent
      <3>2. PICK number : graph' = [graph EXCEPT !.writes = @ \cup {[event |-> e, number |-> number]}]
        BY <2>3 DEF WriteEvent
      <3> DEFINE w == [event |-> e, number |-> number]
      <3>3. graph' = [writes |-> graph.writes \cup {w}, score |-> graph.score, edges |-> graph.edges]
        BY <1>2, <3>2 DEF WorldInv
      <3>4. w.event.n \in Nat
        <4>1. Stored(seen)
          BY <1>2 DEF WorldInv, Stored
        <4>2. EventShape(e)
          BY <3>1, <4>1, StoredRows DEF EventSet
        <4> QED
          BY <4>2 DEF EventShape
      <3> HIDE DEF w
      <3>5. Writes(graph'.writes)
        BY <1>2, <3>3, <3>4, FS_AddElement DEF WorldInv, Writes
      <3>6. \A p \in graph'.edges : Together(p, graph'.writes) >= 3
        <4> SUFFICES ASSUME NEW p \in graph'.edges PROVE Together(p, graph'.writes) >= 3
          OBVIOUS
        <4>1. Together(p, graph.writes) >= 3 /\ graph.writes \in SUBSET graph'.writes
          BY <1>2, <3>3 DEF WorldInv
        <4>2. /\ Together(p, graph.writes) \in Nat /\ Together(p, graph'.writes) \in Nat
              /\ Together(p, graph.writes) <= Together(p, graph'.writes)
          BY <3>5, <4>1, TogetherGrows
        <4> QED
          BY <4>1, <4>2
      <3>7. graph' = [writes |-> graph'.writes, score |-> graph'.score, edges |-> graph'.edges]
        BY <3>3
      <3> QED
        BY <1>2, <3>1, <3>5, <3>6, <3>7 DEF WorldInv, Recent
    <2>4. ASSUME UpdateInfluence
          PROVE  WorldInv'
      <3>1. job' = job /\ seen' = seen /\ scored' = scored
        BY <2>4 DEF UpdateInfluence
      <3>2. PICK base, final, edges :
               /\ edges \in InfluenceEdges(Over(base, graph.score), graph.writes)
               /\ graph' = [graph EXCEPT !.score = Over(final, graph.score), !.edges = @ \cup edges]
        BY <2>4 DEF UpdateInfluence
      <3>3. graph' = [writes |-> graph.writes, score |-> Over(final, graph.score), edges |-> graph.edges \cup edges]
        BY <1>2, <3>2 DEF WorldInv
      <3>4. \A p \in edges : Together(p, graph.writes) >= 3
        BY <3>2, EdgesTogether
      <3>5. \A p \in graph'.edges : Together(p, graph'.writes) >= 3
        BY <1>2, <3>3, <3>4 DEF WorldInv
      <3>6. Writes(graph'.writes) /\ graph' = [writes |-> graph'.writes, score |-> graph'.score, edges |-> graph'.edges]
        BY <1>2, <3>3 DEF WorldInv
      <3> QED
        BY <1>2, <3>1, <3>5, <3>6 DEF WorldInv, Recent
    <2>5. ASSUME UNCHANGED <<job, seen, scored, graph>>
          PROVE  WorldInv'
      BY <1>2, <2>5 DEF WorldInv, Recent
    <2> QED
      BY <1>2, <2>1, <2>2, <2>3, <2>4, <2>5 DEF Next, StartPass, Publish, ScoreNext, vars
  <1> QED
    BY <1>1, <1>2, PTL

-----------------------------------------------------------------------------
(* More evidence.                                                            *)

LEMMA ReadRows ==
    ASSUME NEW read \in Scorings
    PROVE  EventSet(read.recent) /\ EventSet(read.week) /\ IsFiniteSet(read.narratives)
  <1>1. read.recent \in EventParts /\ read.week \in EventParts /\ read.narratives \in Parts
    BY DEF Scorings
  <1>2. ASSUME NEW part \in Parts
        PROVE  IsFiniteSet(part) /\ \A r \in part : r.kind = "event" => EventShape(r)
    <2>1. PICK j \in Jobs : part \subseteq Catalogue[j]
      BY DEF Parts
    <2> QED
      BY <2>1, CatalogueAssumption, FS_Subset
  <1>3. read.recent \in Parts /\ read.week \in Parts /\ (\A r \in read.recent : r.kind = "event") /\ (\A r \in read.week : r.kind = "event")
    BY <1>1 DEF EventParts
  <1> QED
    BY <1>1, <1>2, <1>3 DEF EventSet

LEMMA RegionAssessed ==
    ASSUME NEW read \in Scorings, read.fault = "none", NEW r, r.kind = "narrative", NEW region
    PROVE  Assessed(region, With(read, r)).score >= Assessed(region, read).score
  <1> DEFINE es == RegionalEvents(region, read.recent)
             week == RegionalEvents(region, read.week)
             more == read.narratives \cup {r}
             low == NarrativeIntensity(read.narratives)
             high == NarrativeIntensity(more)
  <1>0. /\ With(read, r).fault = "none" /\ With(read, r).narratives = more
        /\ With(read, r).recent = read.recent /\ With(read, r).week = read.week
    BY DEF With, Scorings
  <1>1. /\ Assessed(region, read).score = Composite(Signals(es, week, low))
        /\ Assessed(region, With(read, r)).score = Composite(Signals(es, week, high))
    BY <1>0 DEF Assessed, ScoreRegion
  <1>2. EventSet(es) /\ EventSet(week)
    <2>1. EventSet(read.recent) /\ EventSet(read.week)
      BY ReadRows
    <2>2. es \in SUBSET read.recent /\ week \in SUBSET read.week
      BY DEF RegionalEvents
    <2> QED
      BY <2>1, <2>2, CopiesGrow
  <1>3. low \in Int /\ high \in Int /\ low <= high
    <2> DEFINE S == {n \in read.narratives : n.severity \in {"high", "critical"}}
               T == {n \in more : n.severity \in {"high", "critical"}}
    <2>1. S \subseteq T /\ T \subseteq more
      OBVIOUS
    <2>2. IsFiniteSet(more)
      BY ReadRows, FS_AddElement
    <2>3. low = Part(Cardinality(S), 10) /\ high = Part(Cardinality(T), 10)
      BY DEF NarrativeIntensity
    <2> HIDE DEF S, T, low, high, more
    <2>4. Cardinality(S) \in Nat /\ Cardinality(T) \in Nat /\ Cardinality(S) <= Cardinality(T)
      BY <2>1, <2>2, CountGrows, FS_Subset
    <2>5. low \in 0..One /\ high \in 0..One /\ low <= high
      BY <2>3, <2>4, PartGrows
    <2> QED
      BY <2>5, ScoresAreNumbers
  <1> HIDE DEF es, week, low, high
  <1>4. /\ Composite(Signals(es, week, low)) \in 0..One /\ Composite(Signals(es, week, high)) \in 0..One
        /\ Composite(Signals(es, week, low)) <= Composite(Signals(es, week, high))
    BY <1>2, <1>3, CompositeGrows
  <1> QED
    BY <1>1, <1>4, ScoresAreNumbers

\* More evidence never calms the system, as long as it pushes nothing out of
\* what a query returns (unrest_engine.py, escalation_scorer.py, precompute.py,
\* credibility.py of intelligence, operations.py of ontology).
THEOREM EvidenceNeverCalmed == Spec => []EvidenceNeverCalms
  <1>1. WorldInv => EvidenceNeverCalms
    <2> SUFFICES ASSUME WorldInv PROVE EvidenceNeverCalms
      OBVIOUS
    <2>1. Stored(seen) /\ EventSet(Recent) /\ scored \subseteq Recent
      <3>1. Stored(seen)
        BY DEF WorldInv, Stored
      <3> QED
        BY <3>1, StoredRows DEF WorldInv, Recent
    <2>2. ASSUME NEW r \in Kind("narrative", Catalogue[job]) \cup Kind("alert", Catalogue[job]), NEW more, more = seen \cup {r}
          PROVE  /\ \A d \in Desk(seen, scored) : With(d, r) \in Desk(more, scored) =>
                       Pressure(Watched(With(d, r))) >= Pressure(Watched(d))
                 /\ \A load \in Loads(seen) : With(load, r) \in Loads(more) =>
                       \A e \in load.events : Item(e, With(load, r)).risk >= Item(e, load).risk
                 /\ Threat(more) >= Threat(seen)
                 /\ \A i \in DOMAIN AllRegions, read \in Reads(seen) : r.kind = "narrative" =>
                       Assessed(AllRegions[i], With(read, r)).score >= Assessed(AllRegions[i], read).score
      <3>1. r \in Catalogue[job] /\ r.kind # "event"
        BY DEF Kind
      <3>2. Stored(more) /\ seen \subseteq more
        BY <2>2, <3>1 DEF WorldInv, Stored
      <3>4. Kind("narrative", seen) \subseteq Kind("narrative", more) /\ Kind("alert", seen) \subseteq Kind("alert", more)
        BY <3>2 DEF Kind
      <3>5. IsFiniteSet(Kind("narrative", more)) /\ IsFiniteSet(Kind("alert", more))
        BY <3>2, StoredRows
      <3>6. ASSUME NEW d \in Desk(seen, scored), With(d, r) \in Desk(more, scored)
            PROVE  Pressure(Watched(With(d, r))) >= Pressure(Watched(d))
        <4> DEFINE m == With(d, r)
        <4>1. /\ Orderly(d) /\ Orderly(m)
              /\ d = [recent |-> d.recent, previous |-> d.previous, narratives |-> d.narratives,
                      alerts |-> d.alerts, actors |-> d.actors, scored |-> d.scored]
          BY <2>1, <3>2, <3>6, DeskIs
        <4>2. /\ m.recent = d.recent /\ m.scored = d.scored
              /\ d.narratives \subseteq m.narratives /\ d.alerts \subseteq m.alerts
          BY <4>1 DEF With
        <4> HIDE DEF m
        <4>3. Richer(m, d)
          BY <4>1, <4>2 DEF Richer
        <4>4. Pressure(Watched(d)) \in Int /\ Pressure(Watched(m)) \in Int /\ Pressure(Watched(d)) <= Pressure(Watched(m))
          BY <4>3, PressureGrows
        <4>5. Pressure(Watched(m)) >= Pressure(Watched(d))
          BY <4>4
        <4> QED
          BY <4>5 DEF m
      <3>7. Threat(more) >= Threat(seen)
        <4>1. /\ ThreatLevel(Kind("alert", seen), Kind("narrative", seen)) \in 0..3
              /\ ThreatLevel(Kind("alert", more), Kind("narrative", more)) \in 0..3
              /\ ThreatLevel(Kind("alert", seen), Kind("narrative", seen)) <= ThreatLevel(Kind("alert", more), Kind("narrative", more))
          BY <3>4, <3>5, ThreatGrows
        <4> QED
          BY <4>1 DEF Threat
      <3>8. ASSUME NEW load \in Loads(seen), With(load, r) \in Loads(more), NEW e \in load.events
            PROVE  Item(e, With(load, r)).risk >= Item(e, load).risk
        <4> DEFINE m == With(load, r)
                   A == m.alerts
                   N == m.narratives
                   B == load.alerts
                   M == load.narratives
        <4>1. /\ EventShape(e)
              /\ load = [events |-> load.events, narratives |-> load.narratives, alerts |-> load.alerts]
              /\ \A x \in A \cup N : x.severity \in SeverityNames
          BY <2>1, <3>2, <3>8, LoadIs
        <4>2. B \subseteq A /\ M \subseteq N
          BY <4>1 DEF With
        <4>3. Item(e, m) = QueueItem(e, A, N) /\ Item(e, load) = QueueItem(e, B, M)
          BY DEF Item
        <4> HIDE DEF A, N, B, M, m
        <4>4. QueueItem(e, B, M).risk \in Int /\ QueueItem(e, A, N).risk \in Int /\ QueueItem(e, B, M).risk <= QueueItem(e, A, N).risk
          BY <4>1, <4>2, ItemGrows
        <4>5. Item(e, m).risk >= Item(e, load).risk
          BY <4>3, <4>4
        <4> QED
          BY <4>5 DEF m
      <3>9. ASSUME NEW i \in DOMAIN AllRegions, NEW read \in Reads(seen), r.kind = "narrative"
            PROVE  Assessed(AllRegions[i], With(read, r)).score >= Assessed(AllRegions[i], read).score
        <4>1. seen \in Parts
          BY <2>1 DEF Stored, Parts
        <4>2. read \in Scorings /\ read.fault = "none"
          BY <4>1, ReadOf
        <4> QED
          BY <3>9, <4>2, RegionAssessed
      <3> QED
        BY <3>6, <3>7, <3>8, <3>9
    <2>3. ASSUME NEW d \in Desk(seen, scored)
          PROVE  Pressure(Watched([d EXCEPT !.scored = Recent])) >= Pressure(Watched(d))
      <3> DEFINE m == [d EXCEPT !.scored = Recent]
      <3>1. /\ Orderly(d) /\ d.scored = scored
            /\ d = [recent |-> d.recent, previous |-> d.previous, narratives |-> d.narratives,
                    alerts |-> d.alerts, actors |-> d.actors, scored |-> d.scored]
        BY <2>1, DeskIs
      <3>2. m.recent = d.recent /\ m.narratives = d.narratives /\ m.alerts = d.alerts /\ m.scored = Recent
        BY <3>1
      <3> HIDE DEF m
      <3>3. Orderly(m)
        BY <3>1, <3>2 DEF Orderly
      <3>4. Richer(m, d)
        BY <2>1, <3>1, <3>2, <3>3 DEF Richer
      <3>5. Pressure(Watched(d)) \in Int /\ Pressure(Watched(m)) \in Int /\ Pressure(Watched(d)) <= Pressure(Watched(m))
        BY <3>4, PressureGrows
      <3>6. Pressure(Watched(m)) >= Pressure(Watched(d))
        BY <3>5
      <3> QED
        BY <3>6 DEF m
    <2>4. ASSUME NEW e \in Kind("event", Catalogue[job]), NEW es \in Oldest("corroborated", Recent),
                 es \cup {e} \in Oldest("corroborated", RecentOf(seen \cup {e})), NEW s \in DOMAIN SourceScores(es)
          PROVE  SourceScores(es \cup {e})[s] >= SourceScores(es)[s]
      <3>1. Stored(seen \cup {e})
        BY DEF WorldInv, Stored, Kind
      <3>2. EventSet(RecentOf(seen \cup {e})) /\ es \cup {e} \in SUBSET RecentOf(seen \cup {e})
        BY <2>4, <3>1, StoredRows, NewestOf
      <3> DEFINE all == es \cup {e}
      <3>3. EventSet(all) /\ es \in SUBSET all
        BY <3>2, CopiesGrow
      <3> HIDE DEF all
      <3>4. SourceScores(all)[s] >= SourceScores(es)[s]
        BY <3>3, SourcesGrow
      <3> QED
        BY <3>4 DEF all
    <2> QED
      BY <2>2, <2>3, <2>4 DEF EvidenceNeverCalms
  <1> QED
    BY <1>1, WorldInvHolds, PTL DEF Spec

-----------------------------------------------------------------------------
(* Alarms.                                                                   *)

LEMMA ActionIs ==
    ASSUME NEW score \in Int, NEW other
    PROVE  RecommendedAction(score, other) =
             IF score >= 7500 THEN "escalate_to_operations" ELSE IF score >= 5500 THEN "triage_now"
             ELSE IF score >= 3500 THEN "investigate" ELSE other
  <1> DEFINE a == score >= 7500
             b == score >= 5500
             c == score >= 3500
  <1>1. RecommendedAction(score, other) =
           First(<<<<a, "escalate_to_operations">>, <<b, "triage_now">>, <<c, "investigate">>>>, other)
    BY DEF RecommendedAction
  <1>2. a \in BOOLEAN /\ b \in BOOLEAN /\ c \in BOOLEAN
    OBVIOUS
  <1> HIDE DEF a, b, c
  <1>3. RecommendedAction(score, other) =
           IF a THEN "escalate_to_operations" ELSE IF b THEN "triage_now" ELSE IF c THEN "investigate" ELSE other
    BY <1>1, <1>2, FirstOf3
  <1> QED
    BY <1>3 DEF a, b, c

LEMMA UnrestLevelIs ==
    ASSUME NEW pressure \in Int
    PROVE  UnrestLevel(pressure) =
             IF pressure >= 7500 THEN "critical" ELSE IF pressure >= 5500 THEN "high"
             ELSE IF pressure >= 3500 THEN "elevated" ELSE "low"
  <1> DEFINE a == pressure >= 7500
             b == pressure >= 5500
             c == pressure >= 3500
  <1>1. UnrestLevel(pressure) = First(<<<<a, "critical">>, <<b, "high">>, <<c, "elevated">>>>, "low")
    BY DEF UnrestLevel
  <1>2. a \in BOOLEAN /\ b \in BOOLEAN /\ c \in BOOLEAN
    OBVIOUS
  <1> HIDE DEF a, b, c
  <1>3. UnrestLevel(pressure) = IF a THEN "critical" ELSE IF b THEN "high" ELSE IF c THEN "elevated" ELSE "low"
    BY <1>1, <1>2, FirstOf3
  <1> QED
    BY <1>3 DEF a, b, c

\* An item says what its score advises.
Advises(i) == i.score \in 0..One /\ \E other : i.action = RecommendedAction(i.score, other)

LEMMA WatchedAdvise ==
    ASSUME NEW d, Orderly(d), NEW w, w = Watched(d), NEW i \in w.regions \cup w.narratives \cup w.alerts
    PROVE  Advises(i)
  <1>1. /\ ScoresIn(w.regions) \subseteq 0..One /\ ScoresIn(w.narratives) \subseteq 0..One
        /\ ScoresIn(w.alerts) \subseteq 0..One
    BY WatchedScores
  <1>2. i.score \in 0..One
    BY <1>1 DEF ScoresIn
  <1>3. w.regions = {RegionWatch(e.place, d) : e \in d.recent}
    BY DEF Watched, Regions
  <1>4. w.narratives = {NarrativeWatch(n, d) : n \in d.narratives} /\ w.alerts = {AlertWatch(a, d) : a \in d.alerts}
    BY DEF Watched
  <1>5. CASE i \in w.regions
    <2>1. PICK e \in d.recent : i = RegionWatch(e.place, d)
      BY <1>3, <1>5
    <2>2. i.action = RecommendedAction(i.score, "monitor")
      BY <2>1 DEF RegionWatch
    <2> QED
      BY <1>2, <2>2 DEF Advises
  <1>6. CASE i \in w.narratives
    <2>1. PICK n \in d.narratives : i = NarrativeWatch(n, d)
      BY <1>4, <1>6
    <2>2. i.action = RecommendedAction(i.score, "watch_narrative")
      BY <2>1 DEF NarrativeWatch
    <2> QED
      BY <1>2, <2>2 DEF Advises
  <1>7. CASE i \in w.alerts
    <2>1. PICK a \in d.alerts : i = AlertWatch(a, d)
      BY <1>4, <1>7
    <2>2. i.action = RecommendedAction(i.score, "review")
      BY <2>1 DEF AlertWatch
    <2> QED
      BY <1>2, <2>2 DEF Advises
  <1> QED
    BY <1>5, <1>6, <1>7

\* A mean is reached by one of the three it is taken of.
LEMMA PressureReached ==
    ASSUME NEW d, Orderly(d), NEW w, w = Watched(d), NEW t \in Nat, t > 0, Pressure(w) >= t
    PROVE  \E i \in w.regions \cup w.narratives \cup w.alerts : i.score >= t
  <1> DEFINE R == ScoresIn(w.regions)
             N == ScoresIn(w.narratives)
             A == ScoresIn(w.alerts)
             r == Top(R)
             n == Top(N)
             a == Top(A)
  <1>1. Pressure(w) = (r + n + a) \div 3
    BY DEF Pressure, TopScore, ScoresIn
  <1>2. R \subseteq 0..One /\ N \subseteq 0..One /\ A \subseteq 0..One
    BY WatchedScores
  <1> HIDE DEF R, N, A
  <1>3. /\ r \in 0..One /\ r \in R \cup {0}
        /\ n \in 0..One /\ n \in N \cup {0}
        /\ a \in 0..One /\ a \in A \cup {0}
    BY <1>2, TopIs
  <1>4. r \in Int /\ n \in Int /\ a \in Int
    BY <1>3, ScoresAreNumbers
  <1> HIDE DEF r, n, a
  <1>5. r >= t \/ n >= t \/ a >= t
    BY <1>1, <1>4
  <1>6. (r >= t => r \in R) /\ (n >= t => n \in N) /\ (a >= t => a \in A)
    BY <1>3
  <1> QED
    BY <1>5, <1>6 DEF R, N, A, ScoresIn

\* What an item of the queue has next depends on its risk alone.
LEMMA QueueIs ==
    ASSUME NEW stored, Stored(stored), NEW load \in Loads(stored), NEW e \in load.events
    PROVE  /\ Item(e, load).risk \in Int
           /\ Item(e, load).next = IF Item(e, load).risk >= 7200 THEN "Escalate_to_analyst"
                                 ELSE IF Item(e, load).risk >= 5000 THEN "Generate_briefing"
                                 ELSE "Continue_monitoring"
  <1> DEFINE A == load.alerts
             N == load.narratives
  <1>1. EventShape(e) /\ \A r \in A \cup N : r.severity \in SeverityNames
    BY LoadIs
  <1>2. QueueItem(e, A, N).risk \in Int
    <2> HIDE DEF A, N
    <2> QED
      BY <1>1, ItemGrows
  <1> DEFINE q == QueueItem(e, A, N)
             x == q.risk
             a == x >= 7200
             b == x >= 5000
  <1>3. q.next = First(<<<<a, "Escalate_to_analyst">>, <<b, "Generate_briefing">>>>, "Continue_monitoring")
    BY DEF QueueItem
  <1>4. a \in BOOLEAN /\ b \in BOOLEAN
    OBVIOUS
  <1>5. Item(e, load) = q
    BY DEF Item
  <1> HIDE DEF q, a, b
  <1>6. q.next = IF a THEN "Escalate_to_analyst" ELSE IF b THEN "Generate_briefing" ELSE "Continue_monitoring"
    BY <1>3, <1>4, FirstOf2
  <1> QED
    BY <1>2, <1>5, <1>6 DEF a, b, q

LEMMA PostureIs ==
    ASSUME NEW items
    PROVE  /\ ThreatPosture(items) = "critical" => \E i \in items : i.risk >= 8200
           /\ ThreatPosture(items) = "elevated" => \E i \in items : i.risk >= 6400
  <1> DEFINE a == \E i \in items : i.risk >= 8200
             b == \E i \in items : i.risk >= 6400
  <1>1. ThreatPosture(items) = First(<<<<a, "critical">>, <<b, "elevated">>>>, "steady")
    BY DEF ThreatPosture
  <1>2. a \in BOOLEAN /\ b \in BOOLEAN
    OBVIOUS
  <1> HIDE DEF a, b
  <1>3. ThreatPosture(items) = IF a THEN "critical" ELSE IF b THEN "elevated" ELSE "steady"
    BY <1>1, <1>2, FirstOf2
  <1> QED
    BY <1>3 DEF a, b

LEMMA AssessedHasDriver ==
    ASSUME NEW region, NEW read \in Scorings, Assessed(region, read).level # "LOW"
    PROVE  Assessed(region, read).drivers # {}
  <1> DEFINE intensity == IF read.fault = "narratives" THEN 0 ELSE NarrativeIntensity(read.narratives)
             es == RegionalEvents(region, read.recent)
             week == RegionalEvents(region, read.week)
             signal == Signals(es, week, intensity)
  <1>2. read.fault # "events"
    BY DEF Assessed, Zero
  <1>3. Assessed(region, read).level = RiskLevel(Composite(signal)) /\ Assessed(region, read).drivers = Drivers(signal)
    BY <1>2 DEF Assessed, ScoreRegion
  <1>4. EventSet(es) /\ EventSet(week)
    <2>1. EventSet(read.recent) /\ EventSet(read.week)
      BY ReadRows
    <2>2. es \in SUBSET read.recent /\ week \in SUBSET read.week
      BY DEF RegionalEvents
    <2> QED
      BY <2>1, <2>2, CopiesGrow
  <1>5. intensity \in Int
    <2> DEFINE S == {n \in read.narratives : n.severity \in {"high", "critical"}}
    <2>1. IsFiniteSet(read.narratives) /\ S \subseteq read.narratives
      BY ReadRows
    <2>2. NarrativeIntensity(read.narratives) = Part(Cardinality(S), 10)
      BY DEF NarrativeIntensity
    <2>3. Cardinality(S) \in Int
      <3> HIDE DEF S
      <3> QED
        BY <2>1, CountGrows
    <2> HIDE DEF S
    <2>4. NarrativeIntensity(read.narratives) \in Int
      BY <2>2, <2>3, PartIs
    <2> QED
      BY <2>4
  <1> HIDE DEF es, week, intensity
  <1>6. SignalSet(signal)
    BY <1>4, <1>5, SignalsAre
  <1> HIDE DEF signal
  <1> QED
    BY <1>3, <1>6, LevelHasDriver

\* An alarm rests on something an analyst can be shown.
THEOREM AlarmsAreBacked == Spec => []AlarmsBacked
  <1>1. WorldInv /\ BoardInv => AlarmsBacked
    <2> SUFFICES ASSUME WorldInv, BoardInv PROVE AlarmsBacked
      OBVIOUS
    <2>1. Stored(seen)
      BY DEF WorldInv, Stored
    <2>2. ASSUME NEW d \in Desk(seen, scored), NEW w, w = Watched(d), NEW advised,
                 advised = {i.action : i \in w.regions \cup w.narratives \cup w.alerts}
          PROVE  LET level == UnrestLevel(Pressure(w))
                 IN  /\ level = "critical" => "escalate_to_operations" \in advised
                     /\ level = "high" => advised \cap {"escalate_to_operations", "triage_now"} # {}
                     /\ level = "elevated" => advised \cap {"escalate_to_operations", "triage_now", "investigate"} # {}
      <3> DEFINE items == w.regions \cup w.narratives \cup w.alerts
                 p == Pressure(w)
                 level == UnrestLevel(p)
      <3>0. advised = {i.action : i \in items}
        BY <2>2
      <3>1. Orderly(d)
        BY <2>1, DeskIs
      <3>2. p \in Int
        <4>1. Richer(d, d)
          BY <3>1 DEF Richer
        <4> QED
          BY <2>2, <4>1, PressureGrows
      <3>3. level = IF p >= 7500 THEN "critical" ELSE IF p >= 5500 THEN "high" ELSE IF p >= 3500 THEN "elevated" ELSE "low"
        <4> HIDE DEF p
        <4> QED
          BY <3>2, UnrestLevelIs
      <3>4. ASSUME NEW t \in Nat, t > 0, p >= t
            PROVE  \E i \in items : i.score >= t /\ i.score \in Int /\ \E other : i.action = RecommendedAction(i.score, other)
        <4>1. \E i \in items : i.score >= t
          BY <2>2, <3>1, <3>4, PressureReached
        <4>2. \A i \in items : Advises(i)
          BY <2>2, <3>1, WatchedAdvise
        <4> HIDE DEF items
        <4> QED
          BY <4>1, <4>2, ScoresAreNumbers DEF Advises
      <3> HIDE DEF items, p
      <3>5. level = "critical" => "escalate_to_operations" \in advised
        <4> SUFFICES ASSUME level = "critical" PROVE "escalate_to_operations" \in advised
          OBVIOUS
        <4>1. PICK i \in items : i.score >= 7500 /\ i.score \in Int /\ \E other : i.action = RecommendedAction(i.score, other)
          BY <3>2, <3>3, <3>4
        <4>2. i.action = "escalate_to_operations"
          BY <4>1, ActionIs
        <4> QED
          BY <3>0, <4>1, <4>2
      <3>6. level = "high" => advised \cap {"escalate_to_operations", "triage_now"} # {}
        <4> SUFFICES ASSUME level = "high" PROVE advised \cap {"escalate_to_operations", "triage_now"} # {}
          OBVIOUS
        <4>1. PICK i \in items : i.score >= 5500 /\ i.score \in Int /\ \E other : i.action = RecommendedAction(i.score, other)
          BY <3>2, <3>3, <3>4
        <4>2. i.action \in {"escalate_to_operations", "triage_now"}
          BY <4>1, ActionIs
        <4> QED
          BY <3>0, <4>1, <4>2
      <3>7. level = "elevated" => advised \cap {"escalate_to_operations", "triage_now", "investigate"} # {}
        <4> SUFFICES ASSUME level = "elevated" PROVE advised \cap {"escalate_to_operations", "triage_now", "investigate"} # {}
          OBVIOUS
        <4>1. PICK i \in items : i.score >= 3500 /\ i.score \in Int /\ \E other : i.action = RecommendedAction(i.score, other)
          BY <3>2, <3>3, <3>4
        <4>2. i.action \in {"escalate_to_operations", "triage_now", "investigate"}
          BY <4>1, ActionIs
        <4> QED
          BY <3>0, <4>1, <4>2
      <3> QED
        BY <3>5, <3>6, <3>7 DEF p
    <2>8. ASSUME NEW load \in Loads(seen), NEW q \in Queue(load)
          PROVE  /\ q.risk >= 8200 => q.next = "Escalate_to_analyst"
                 /\ q.risk >= 6400 => q.next # "Continue_monitoring"
      <3>1. PICK e \in load.events : q = Item(e, load)
        BY DEF Queue
      <3>2. /\ q.risk \in Int
            /\ q.next = IF q.risk >= 7200 THEN "Escalate_to_analyst"
                        ELSE IF q.risk >= 5000 THEN "Generate_briefing" ELSE "Continue_monitoring"
        BY <2>1, <3>1, QueueIs
      <3> QED
        BY <3>2
    <2>9. ASSUME NEW load \in Loads(seen)
          PROVE  /\ ThreatPosture(Queue(load)) = "critical" => \E q \in Queue(load) : q.next = "Escalate_to_analyst"
                 /\ ThreatPosture(Queue(load)) = "elevated" => \E q \in Queue(load) : q.next # "Continue_monitoring"
      BY <2>8, PostureIs
    <2>10. \A b \in Published : b.level # "LOW" => b.drivers # {}
      <3> SUFFICES ASSUME NEW b \in Published, b.level # "LOW" PROVE b.drivers # {}
        OBVIOUS
      <3>1. PICK i \in DOMAIN board.scores : b = Assessed(AllRegions[i], board.scores[i])
        BY DEF Published
      <3>2. board.scores[i] \in Scorings
        BY DEF BoardInv
      <3> QED
        BY <3>1, <3>2, AssessedHasDriver
    <2>11. \A p \in graph.edges : Together(p, graph.writes) >= 3
      BY DEF WorldInv
    <2> QED
      BY <2>2, <2>9, <2>10, <2>11 DEF AlarmsBacked
  <1> QED
    BY <1>1, WorldInvHolds, PassInvHolds, PTL DEF Spec

-----------------------------------------------------------------------------
(* Every score lies between 0 and 1.                                         *)

\* A finite set of counts has a greatest.
LEMMA GreatestOf ==
    ASSUME NEW U, U \subseteq Nat, IsFiniteSet(U), U # {}
    PROVE  Max(U) \in U /\ \A n \in U : Max(U) >= n
  <1> DEFINE Good == {s \in SUBSET U : s # {} => \E m \in s : \A n \in s : n <= m}
  <1>1. {} \in Good
    OBVIOUS
  <1>2. ASSUME NEW s \in SUBSET U, s # {}, \A x \in s : s \ {x} \in Good
        PROVE  s \in Good
    <2>1. PICK x \in s : TRUE
      BY <1>2
    <2>2. CASE s \ {x} = {}
      BY <2>1, <2>2
    <2>3. CASE s \ {x} # {}
      <3>1. PICK m \in s \ {x} : \A n \in s \ {x} : n <= m
        BY <1>2, <2>1, <2>3
      <3>2. x \in Nat /\ m \in Nat /\ \A n \in s : n \in Nat
        BY <2>1, <3>1
      <3>3. \A n \in s : n <= (IF x <= m THEN m ELSE x)
        BY <3>1, <3>2
      <3> QED
        BY <2>1, <3>1, <3>2, <3>3
    <2> QED
      BY <2>2, <2>3
  <1>3. SUBSET U \subseteq Good
    <2> HIDE DEF Good
    <2> QED
      BY <1>1, <1>2, PartsInduction
  <1>4. PICK m \in U : \A n \in U : n <= m
    BY <1>3
  <1>5. m \in U /\ \A n \in U : m >= n
    BY <1>4
  <1> QED
    BY <1>5 DEF Max

LEMMA TopCount ==
    ASSUME NEW S, S \subseteq Nat, IsFiniteSet(S)
    PROVE  Top(S) \in Nat /\ \A x \in S : x <= Top(S)
  <1> DEFINE U == S \cup {0}
  <1>1. IsFiniteSet(U) /\ U \subseteq Nat /\ U # {} /\ S \subseteq U
    BY FS_AddElement
  <1>2. Top(S) = Max(U)
    BY DEF Top
  <1> HIDE DEF U
  <1>3. Max(U) \in U /\ \A n \in U : Max(U) >= n
    BY <1>1, GreatestOf
  <1> QED
    BY <1>1, <1>2, <1>3

\* A part of the whole is no more than 1.
LEMMA WholeShare ==
    ASSUME NEW a \in Nat, NEW c \in Nat, a <= c, c > 0
    PROVE  Share(a, c) \in 0..One
  <1>1. Share(a, c) \in Nat /\ Share(a, c) <= Share(c, c)
    BY ShareGrows
  <1>2. Share(c, c) = One
    <2> DEFINE q == (One * c) \div c
    <2>1. q \in Int /\ c * q <= One * c /\ One * c < c * q + c
      BY DEF One
    <2>2. Share(c, c) = q
      BY DEF Share
    <2> HIDE DEF q
    <2>3. q > One => c * q >= c * (One + 1)
      BY <2>1 DEF One
    <2>4. q < One => c * (q + 1) <= c * One
      BY <2>1 DEF One
    <2>5. c * (One + 1) = One * c + c /\ c * (q + 1) = c * q + c
      BY <2>1 DEF One
    <2> QED
      BY <2>1, <2>2, <2>3, <2>4, <2>5 DEF One
  <1> DEFINE x == Share(a, c)
  <1>3. x \in Nat /\ x <= One
    BY <1>1, <1>2
  <1> HIDE DEF x
  <1>4. x \in 0..One
    BY <1>3 DEF One
  <1> QED
    BY <1>4 DEF x

\* Of any two counts, as they may differ.
LEMMA ShareIs ==
    ASSUME NEW a \in Int, NEW c \in Nat, c > 0
    PROVE  Share(a, c) \in Int
  <1> DEFINE p == One * a
  <1>1. p \in Int
    BY DEF One
  <1> HIDE DEF p
  <1>2. p \div c \in Int
    BY <1>1
  <1> QED
    BY <1>2 DEF p, Share

LEMMA SurpriseIs ==
    ASSUME NEW a \in Nat, NEW b \in Nat, NEW k \in Nat, k > 0
    PROVE  Surprise(a, b, k) \in 0..One
  <1> DEFINE r == Root(k * b)
             m == Max({k, r})
             x == (One * (k * a - b)) \div (5 * m)
  <1>1. r \in Nat
    <2>1. k * b \in Nat
      OBVIOUS
    <2> QED
      BY <2>1, RootIs
  <1>2. m = IF k >= r THEN k ELSE r
    <2> HIDE DEF r
    <2> QED
      BY <1>1, Extremes
  <1>3. m \in Nat /\ m > 0
    BY <1>1, <1>2
  <1> HIDE DEF m
  <1>4. 5 * m \in Nat /\ 5 * m > 0 /\ One * (k * a - b) \in Int
    <2>1. k * a - b \in Int
      OBVIOUS
    <2> QED
      BY <1>3, <2>1 DEF One
  <1>5. x \in Int
    <2> DEFINE p == One * (k * a - b)
               q == 5 * m
    <2>1. x = p \div q /\ p \in Int /\ q \in Nat /\ q > 0
      BY <1>4
    <2> HIDE DEF x, p, q
    <2> QED
      BY <2>1
  <1>6. Surprise(a, b, k) = Clip(x)
    BY DEF Surprise, m
  <1> HIDE DEF x
  <1> QED
    BY <1>5, <1>6, ClipGrows

LEMMA TitlesFinite ==
    ASSUME NEW es, IsFiniteSet(es)
    PROVE  IsFiniteSet({e.title : e \in es})
  <1> DEFINE T == {e.title : e \in es}
             f == [e \in es |-> e.title]
  <1>1. f \in Surjection(es, T)
    BY DEF Surjection
  <1> HIDE DEF f, T
  <1>2. IsFiniteSet(T)
    BY <1>1, FS_Surjection
  <1> QED
    BY <1>2 DEF T

LEMMA PairsAre ==
    ASSUME NEW n \in Nat
    PROVE  Pairs(n) \in Int /\ (n >= 2 => Pairs(n) \in Nat /\ Pairs(n) > 0)
  <1> DEFINE p == n * (n - 1)
  <1>1. p \in Int
    OBVIOUS
  <1>2. n >= 2 => p >= 2
    <2>1. ASSUME n >= 2 PROVE n * (n - 1) >= n * 1
      BY <2>1
    <2> QED
      BY <2>1
  <1>3. Pairs(n) = p \div 2
    BY DEF Pairs
  <1> HIDE DEF p
  <1> QED
    BY <1>1, <1>2, <1>3

LEMMA RepetitionIs ==
    ASSUME NEW es, EventSet(es)
    PROVE  RepetitionRate(es) \in Int
  <1> DEFINE titles == {e.title : e \in es}
             Titled(t) == {e \in es : e.title = t}
             g == CHOOSE g : g = [s \in SUBSET titles |-> IF s = {} THEN 0
                     ELSE Pairs(Copies({e \in es : e.title = Pick(s)})) + g[s \ {Pick(s)}]]
             f == [t \in titles |-> Pairs(Copies({e \in es : e.title = t}))]
             c == Copies(es)
  <1>1. RepetitionRate(es) = IF c < 2 THEN 0 ELSE Share(g[titles], Pairs(c))
    BY DEF RepetitionRate, MapThenSumSet, MapThenFoldSet, Pick
  <1>2. IsFiniteSet(titles)
    BY TitlesFinite DEF EventSet
  <1>3. \A t \in titles : f[t] \in Int
    <2> SUFFICES ASSUME NEW t \in titles PROVE f[t] \in Int
      OBVIOUS
    <2>1. Titled(t) \in SUBSET es
      OBVIOUS
    <2>2. Copies(Titled(t)) \in Nat
      <3> HIDE DEF Titled
      <3> QED
        BY <2>1, CopiesGrow
    <2>3. f[t] = Pairs(Copies(Titled(t)))
      OBVIOUS
    <2> HIDE DEF f, Titled
    <2> QED
      BY <2>2, <2>3, PairsAre
  <1>4. PICK h : Recursion(h, f, SUBSET titles) /\ SumOf(f, titles) = h[titles]
    <2> HIDE DEF f, titles
    <2> QED
      BY <1>2, SumSolves
  <1>5. \A q \in SUBSET titles : q # {} => f[Pick(q)] = Pairs(Copies({e \in es : e.title = Pick(q)}))
    <2>1. \A q \in SUBSET titles : q # {} => Pick(q) \in titles
      BY DEF Pick
    <2>2. \A t \in titles : f[t] = Pairs(Copies({e \in es : e.title = t}))
      OBVIOUS
    <2> HIDE DEF f, titles
    <2> QED
      BY <2>1, <2>2
  <1> HIDE DEF f, titles
  <1>6. h = [q \in SUBSET titles |-> IF q = {} THEN 0
                ELSE Pairs(Copies({e \in es : e.title = Pick(q)})) + h[q \ {Pick(q)}]]
    BY <1>4, <1>5 DEF Recursion
  <1>7. g = [q \in SUBSET titles |-> IF q = {} THEN 0
                ELSE Pairs(Copies({e \in es : e.title = Pick(q)})) + g[q \ {Pick(q)}]]
    BY <1>6
  <1> HIDE DEF g
  <1>8. Recursion(g, f, SUBSET titles)
    BY <1>5, <1>7 DEF Recursion
  <1>9. g[titles] = h[titles]
    <2>1. \A q \in SUBSET titles : g[q] = h[q]
      BY <1>2, <1>4, <1>8, SolutionsAgree
    <2> QED
      BY <2>1
  <1>10. g[titles] \in Int
    BY <1>2, <1>3, <1>4, <1>9, SumAdd
  <1>11. c \in Nat
    BY CopiesGrow
  <1> HIDE DEF c
  <1>12. ASSUME ~(c < 2) PROVE Share(g[titles], Pairs(c)) \in Int
    <2>1. Pairs(c) \in Nat /\ Pairs(c) > 0
      BY <1>11, <1>12, PairsAre
    <2> QED
      BY <1>10, <2>1, ShareIs
  <1> QED
    BY <1>1, <1>12

LEMMA LeastOf ==
    ASSUME NEW T \in SUBSET Nat, T # {}
    PROVE  Min(T) \in T /\ Min(T) \in Int
  <1>1. PICK m \in T : \A n \in T : m <= n
    BY Least
  <1>2. Min(T) \in T
    BY <1>1 DEF Min
  <1> DEFINE x == Min(T)
  <1>3. x \in T
    BY <1>2
  <1> HIDE DEF x
  <1>4. x \in Int
    BY <1>3
  <1> QED
    BY <1>3, <1>4 DEF x

LEMMA SpeedIs ==
    ASSUME NEW es, EventSet(es), es # {}
    PROVE  PropagationSpeed(es) \in Int
  <1> DEFINE reached == {e.at : e \in {x \in es : Cardinality(Types({y \in es : y.at <= x.at})) >= 3}}
             times == {e.at : e \in es}
             first == Min(times)
             late == Min(reached)
  <1>1. \A e \in es : e.at \in Nat
    BY DEF EventSet, EventShape
  <1>2. first \in Int /\ (reached # {} => late \in Int)
    <2>1. times \in SUBSET Nat /\ times # {} /\ reached \in SUBSET Nat
      BY <1>1
    <2> HIDE DEF times, reached
    <2> QED
      BY <2>1, LeastOf
  <1>3. PropagationSpeed(es) = IF reached = {} THEN 0 ELSE One - Part(late - first, 60)
    BY DEF PropagationSpeed
  <1> HIDE DEF first, late, reached
  <1>4. reached # {} => Part(late - first, 60) \in Int
    <2>1. reached # {} => late - first \in Int
      BY <1>2
    <2> QED
      BY <2>1, PartIs
  <1> QED
    BY <1>3, <1>4 DEF One

\* How much an actor that is named looks like a bot.
LEMMA BotScoreIs ==
    ASSUME NEW day, EventSet(day), NEW week, EventSet(week), NEW a, Copies(Naming(a, day)) > 0
    PROVE  BotScore(a, day, week) \in 0..One
  <1> DEFINE es == Naming(a, day)
             c == Copies(es)
             w == Copies(Naming(a, week))
             night == Copies({e \in es : e.at \div 60 \in 2..4})
             s1 == Surprise(c, w, 7)
             s2 == RepetitionRate(es)
             s3 == CrossPlatformSync(es)
             s4 == SourceDiversityLow(es)
             s5 == OffHoursRatio(es)
             s6 == PropagationSpeed(es)
             x == (25 * s1 + 20 * s2 + 20 * s3 + 15 * s4 + 10 * s5 + 10 * s6) \div 100
  <1>1. BotScore(a, day, week) = Clip(x)
    BY DEF BotScore
  <1>2. es \in SUBSET day /\ Naming(a, week) \in SUBSET week
    BY DEF Naming
  <1>3. EventSet(es) /\ c \in Nat /\ w \in Nat
    BY <1>2, CopiesGrow
  <1>4. c > 0 /\ es # {}
    <2>1. Copies({}) = 0
      BY CopiesAre, SumEmpty, FS_EmptySet
    <2> QED
      BY <2>1
  <1> HIDE DEF es
  <1>5. s1 \in Int
    <2> HIDE DEF c, w
    <2>1. s1 \in 0..One
      BY <1>3, SurpriseIs
    <2> QED
      BY <2>1, ScoresAreNumbers
  <1>6. s2 \in Int /\ s6 \in Int
    BY <1>3, <1>4, RepetitionIs, SpeedIs
  <1>7. s3 \in Int
    BY DEF CrossPlatformSync, One
  <1>8. s4 \in Int
    <2> DEFINE k == Cardinality({e.source : e \in es})
    <2>1. s4 = CASE k <= 1 -> One [] k = 2 -> 7500 [] k = 3 -> 4000 [] OTHER -> 0
      BY DEF SourceDiversityLow
    <2> HIDE DEF k, s4
    <2> QED
      BY <2>1 DEF One
  <1>9. s5 \in Int
    <2>1. s5 = Share(night, c)
      BY DEF OffHoursRatio
    <2>2. night \in Nat
      <3>1. {e \in es : e.at \div 60 \in 2..4} \in SUBSET es
        OBVIOUS
      <3> QED
        BY <1>3, <3>1, CopiesGrow
    <2> HIDE DEF night, c
    <2>3. Share(night, c) \in Int
      BY <1>3, <1>4, <2>2, ShareIs
    <2> QED
      BY <2>1, <2>3
  <1> HIDE DEF s1, s2, s3, s4, s5, s6
  <1>10. x \in Int
    BY <1>5, <1>6, <1>7, <1>8, <1>9
  <1> HIDE DEF x
  <1> QED
    BY <1>1, <1>10, ClipGrows

\* How often an actor is named beside others.
LEMMA CoMentionsAre ==
    ASSUME NEW es, EventSet(es), NEW a
    PROVE  CoMentions(a, es) \in Nat
  <1> DEFINE S == Naming(a, es)
             g == CHOOSE g : g = [s \in SUBSET S |-> IF s = {} THEN 0
                     ELSE Pick(s).n * (Cardinality(Pick(s).actors) - 1) + g[s \ {Pick(s)}]]
             f == [e \in S |-> e.n * (Cardinality(e.actors) - 1)]
  <1>1. CoMentions(a, es) = g[S]
    BY DEF CoMentions, MapThenSumSet, MapThenFoldSet, Pick
  <1>2. IsFiniteSet(S) /\ \A e \in S : EventShape(e) /\ a \in e.actors
    BY FS_Subset DEF Naming, EventSet
  <1>3. \A e \in S : f[e] \in Nat
    <2> SUFFICES ASSUME NEW e \in S PROVE f[e] \in Nat
      OBVIOUS
    <2>1. e.n \in Nat /\ IsFiniteSet(e.actors) /\ a \in e.actors
      BY <1>2 DEF EventShape
    <2>2. Cardinality(e.actors) \in Nat /\ Cardinality(e.actors) # 0
      BY <2>1, FS_CardinalityType, FS_EmptySet
    <2> DEFINE n == e.n
               k == Cardinality(e.actors) - 1
    <2>3. n \in Nat /\ k \in Nat /\ f[e] = n * k
      BY <2>1, <2>2
    <2> HIDE DEF n, k, f
    <2> QED
      BY <2>3
  <1>4. PICK h : Recursion(h, f, SUBSET S) /\ SumOf(f, S) = h[S]
    <2> HIDE DEF f, S
    <2> QED
      BY <1>2, SumSolves
  <1>5. \A q \in SUBSET S : q # {} => f[Pick(q)] = Pick(q).n * (Cardinality(Pick(q).actors) - 1)
    <2>1. \A q \in SUBSET S : q # {} => Pick(q) \in S
      BY DEF Pick
    <2>2. \A e \in S : f[e] = e.n * (Cardinality(e.actors) - 1)
      OBVIOUS
    <2> HIDE DEF f, S
    <2> QED
      BY <2>1, <2>2
  <1> HIDE DEF f, S
  <1>6. h = [q \in SUBSET S |-> IF q = {} THEN 0
                ELSE Pick(q).n * (Cardinality(Pick(q).actors) - 1) + h[q \ {Pick(q)}]]
    BY <1>4, <1>5 DEF Recursion
  <1>7. g = [q \in SUBSET S |-> IF q = {} THEN 0
                ELSE Pick(q).n * (Cardinality(Pick(q).actors) - 1) + g[q \ {Pick(q)}]]
    BY <1>6
  <1> HIDE DEF g
  <1>8. Recursion(g, f, SUBSET S)
    BY <1>5, <1>7 DEF Recursion
  <1>9. g[S] = h[S]
    <2>1. \A q \in SUBSET S : g[q] = h[q]
      BY <1>2, <1>4, <1>8, SolutionsAgree
    <2> QED
      BY <2>1
  <1>10. SumOf(f, S) \in Nat
    <2>1. \A e \in S : f[e] \in Nat /\ f[e] <= f[e]
      BY <1>3
    <2> QED
      BY <1>2, <2>1, SumGrows
  <1> QED
    BY <1>1, <1>4, <1>9, <1>10

\* Each part of the influence of a candidate is its share of the greatest.
LEMMA InfluenceIs ==
    ASSUME NEW es, EventSet(es), NEW a \in Candidates(es)
    PROVE  InfluenceScores(es)[a] \in 0..One
  <1> DEFINE cs == Candidates(es)
             M == {Copies(Naming(b, es)) : b \in cs}
             R == {Reach(b, es) : b \in cs}
             C == {CoMentions(b, es) : b \in cs}
             mentions == Top(M)
             reach == Top(R)
             together == Max({1} \cup C)
             m == Copies(Naming(a, es))
             r == Reach(a, es)
             c == CoMentions(a, es)
             x == Share(m, mentions)
             y == Share(r, reach)
             z == Share(c, together)
  <1>1. InfluenceScores(es)[a] = (40 * x + 30 * y + 30 * z) \div 100
    BY DEF InfluenceScores
  <1>2. IsFiniteSet(cs)
    <2> DEFINE T == {e.actors : e \in es}
               f == [e \in es |-> e.actors]
    <2>1. f \in Surjection(es, T)
      BY DEF Surjection
    <2>2. \A t \in T : IsFiniteSet(t)
      BY DEF EventSet, EventShape
    <2>3. cs \subseteq UNION T
      BY DEF Candidates
    <2> HIDE DEF f, T, cs
    <2>4. IsFiniteSet(T)
      BY <2>1, FS_Surjection DEF EventSet
    <2> QED
      BY <2>2, <2>3, <2>4, FS_UNION, FS_Subset
  <1>3. \A b \in cs : Copies(Naming(b, es)) \in Nat /\ Reach(b, es) \in Nat /\ CoMentions(b, es) \in Nat
    <2> SUFFICES ASSUME NEW b \in cs
                 PROVE  Copies(Naming(b, es)) \in Nat /\ Reach(b, es) \in Nat /\ CoMentions(b, es) \in Nat
      OBVIOUS
    <2>1. Naming(b, es) \in SUBSET es
      BY DEF Naming
    <2>2. IsFiniteSet(Naming(b, es))
      BY <2>1, FS_Subset DEF EventSet
    <2>3. Reach(b, es) \in Nat
      BY <2>2, SourcesFinite, FS_CardinalityType DEF Reach
    <2> QED
      BY <2>1, <2>3, CopiesGrow, CoMentionsAre
  <1>4. M \subseteq Nat /\ R \subseteq Nat /\ C \subseteq Nat
    BY <1>3
  <1>5. IsFiniteSet(M) /\ IsFiniteSet(R) /\ IsFiniteSet(C)
    <2> DEFINE f == [b \in cs |-> Copies(Naming(b, es))]
               k == [b \in cs |-> Reach(b, es)]
               h == [b \in cs |-> CoMentions(b, es)]
    <2>1. f \in Surjection(cs, M) /\ k \in Surjection(cs, R) /\ h \in Surjection(cs, C)
      BY DEF Surjection
    <2> HIDE DEF f, k, h, cs, M, R, C
    <2> QED
      BY <1>2, <2>1, FS_Surjection
  <1>6. m \in M /\ r \in R /\ c \in C /\ m \in Nat /\ r \in Nat /\ c \in Nat
    BY <1>3
  <1>7. mentions \in Nat /\ m <= mentions /\ reach \in Nat /\ r <= reach
    <2> HIDE DEF M, R, m, r
    <2> QED
      BY <1>4, <1>5, <1>6, TopCount
  <1>8. m >= 3
    BY DEF Candidates, MinMentions
  <1>9. r > 0
    <2>1. Naming(a, es) \in SUBSET es
      BY DEF Naming
    <2>2. Naming(a, es) # {}
      <3>1. Copies({}) = 0
        BY CopiesAre, SumEmpty, FS_EmptySet
      <3> QED
        BY <1>8, <3>1
    <2>3. {e.source : e \in Naming(a, es)} # {} /\ IsFiniteSet({e.source : e \in Naming(a, es)})
      BY <2>1, <2>2, SourcesFinite, FS_Subset DEF EventSet
    <2>4. Cardinality({e.source : e \in Naming(a, es)}) # 0
      BY <2>3, FS_EmptySet
    <2> QED
      BY <1>6, <2>4 DEF Reach
  <1>10. together \in Nat /\ together > 0 /\ c <= together
    <2> DEFINE U == {1} \cup C
    <2>1. U \subseteq Nat /\ IsFiniteSet(U)
      <3>1. U = C \cup {1}
        OBVIOUS
      <3> HIDE DEF C, U
      <3> QED
        BY <1>4, <1>5, <3>1, FS_AddElement
    <2>2. 1 \in U /\ c \in U
      BY <1>6
    <2>3. together = Max(U)
      OBVIOUS
    <2> HIDE DEF U, together, c
    <2>4. Max(U) \in U /\ \A u \in U : Max(U) >= u
      BY <2>1, <2>2, GreatestOf
    <2>5. Max(U) \in Nat /\ Max(U) >= 1 /\ Max(U) >= c
      BY <2>1, <2>2, <2>4
    <2> QED
      BY <1>6, <2>3, <2>5
  <1> HIDE DEF m, r, c, mentions, reach, together
  <1>11. x \in 0..One /\ y \in 0..One /\ z \in 0..One
    BY <1>6, <1>7, <1>8, <1>9, <1>10, WholeShare
  <1> HIDE DEF x, y, z
  <1>12. (40 * x + 30 * y + 30 * z) \div 100 \in 0..One
    BY <1>11 DEF One
  <1> QED
    BY <1>1, <1>12

LEMMA BlendIs ==
    ASSUME NEW base, NEW a \in DOMAIN base, base[a] \in 0..One
    PROVE  BlendPagerank(base, Centrality)[a] \in 0..One
  <1> DEFINE x == base[a]
             y == IF a \in DOMAIN Centrality THEN Centrality[a] ELSE 0
  <1>1. x \in 0..One /\ y \in 0..One
    BY CentralityAssumption DEF One
  <1>2. BlendPagerank(base, Centrality)[a] = (70 * x + 30 * y) \div 100
    BY DEF BlendPagerank
  <1> HIDE DEF x, y
  <1>3. (70 * x + 30 * y) \div 100 \in 0..One
    BY <1>1 DEF One
  <1> QED
    BY <1>2, <1>3

LEMMA QueueRisk ==
    ASSUME NEW stored, Stored(stored), NEW load \in Loads(stored), NEW e \in load.events
    PROVE  Item(e, load).risk \in 0..One
  <1> DEFINE A == load.alerts
             N == load.narratives
             h == Highest(MatchAlerts(e, A))
             k == Highest(MatchNarratives(e, N))
             p == PriorityScore(e)
             q == e.confidence
             x == (65 * p + 25 * q) \div 100 + 800 * h + 400 * k
  <1>1. EventShape(e) /\ \A r \in A \cup N : r.severity \in SeverityNames
    BY LoadIs
  <1>2. Item(e, load).risk = Capped(x)
    BY DEF Item, QueueItem
  <1>3. h \in Nat /\ k \in Nat
    <2>1. MatchAlerts(e, A) \subseteq A /\ MatchNarratives(e, N) \subseteq N
      BY DEF MatchAlerts, MatchNarratives
    <2> HIDE DEF A, N
    <2> QED
      BY <1>1, <2>1, HighestGrows
  <1>4. p \in Nat /\ q \in Nat
    <2> DEFINE u == IF e.confidence = 0 THEN 2500 ELSE e.confidence
               v == Part(e.signals, 8)
               w == Part(e.cited, 4)
               m == IF e.mood = Unknown THEN 0 ELSE 100 * e.mood
               b == IF e.source = "composite" THEN 20 * One ELSE 0
    <2>1. /\ e.signals \in Nat /\ e.cited \in Nat /\ e.confidence \in Nat
          /\ e.mood \in {Unknown} \cup 0..100
      BY <1>1, ScoresAreNumbers DEF EventShape
    <2>2. v \in Nat /\ w \in Nat
      <3>1. v \in 0..One
        BY <2>1, PartGrows
      <3>2. w \in 0..One
        BY <2>1, PartGrows
      <3> QED
        BY <3>1, <3>2, ScoresAreNumbers
    <2>3. u \in Nat /\ m \in Nat /\ b \in Nat
      BY <2>1 DEF One, Unknown
    <2>4. p = (55 * u + 20 * v + 15 * w + 10 * m + b) \div 100
      BY DEF PriorityScore
    <2> HIDE DEF u, v, w, m, b, p
    <2> QED
      BY <2>1, <2>2, <2>3, <2>4
  <1> HIDE DEF p, q, h, k
  <1>5. x \in Nat
    BY <1>3, <1>4
  <1> HIDE DEF x
  <1>6. Capped(x) = IF x <= One THEN x ELSE One
    BY <1>5, CappedIs
  <1> QED
    BY <1>2, <1>5, <1>6 DEF One

LEMMA SourceScoreIs ==
    ASSUME NEW es, EventSet(es), NEW s \in DOMAIN SourceScores(es)
    PROVE  SourceScores(es)[s] \in 0..One
  <1> DEFINE base == BaseScore(TierForSource(s))
             b == Corroborations(s, es)
  <1>1. SourceScores(es)[s] = Clip(base + 500 * b)
    BY DEF SourceScores, DecayedScore
  <1>2. base \in Int
    BY TierIs DEF BaseScore
  <1>3. b \in Nat
    BY CorroborationsGrow
  <1> HIDE DEF base, b
  <1>4. base + 500 * b \in Int
    BY <1>2, <1>3
  <1> QED
    BY <1>1, <1>4, ClipGrows

\* What a region is assessed from is stored.
LEMMA AssessedInRange ==
    ASSUME NEW region, NEW read \in Scorings
    PROVE  Assessed(region, read).score \in 0..One
  <1> DEFINE intensity == IF read.fault = "narratives" THEN 0 ELSE NarrativeIntensity(read.narratives)
             es == RegionalEvents(region, read.recent)
             week == RegionalEvents(region, read.week)
  <1>2. CASE read.fault = "events"
    BY <1>2 DEF Assessed, Zero, One
  <1>3. CASE read.fault # "events"
    <2>1. Assessed(region, read).score = Composite(Signals(es, week, intensity))
      BY <1>3 DEF Assessed, ScoreRegion
    <2>2. EventSet(es) /\ EventSet(week)
      <3>1. EventSet(read.recent) /\ EventSet(read.week)
        BY ReadRows
      <3>2. es \in SUBSET read.recent /\ week \in SUBSET read.week
        BY DEF RegionalEvents
      <3> QED
        BY <3>1, <3>2, CopiesGrow
    <2>3. intensity \in Int
      <3> DEFINE S == {n \in read.narratives : n.severity \in {"high", "critical"}}
      <3>1. IsFiniteSet(read.narratives) /\ S \subseteq read.narratives
        BY ReadRows
      <3>2. NarrativeIntensity(read.narratives) = Part(Cardinality(S), 10)
        BY DEF NarrativeIntensity
      <3>3. Cardinality(S) \in Int
        <4> HIDE DEF S
        <4> QED
          BY <3>1, CountGrows
      <3> HIDE DEF S
      <3>4. NarrativeIntensity(read.narratives) \in Int
        BY <3>2, <3>3, PartIs
      <3> QED
        BY <3>4
    <2> HIDE DEF es, week, intensity
    <2>4. intensity <= intensity
      BY <2>3
    <2> QED
      BY <2>1, <2>2, <2>3, <2>4, CompositeGrows
  <1> QED
    BY <1>2, <1>3

LEMMA PressureInRange ==
    ASSUME NEW d, Orderly(d)
    PROVE  Pressure(Watched(d)) \in 0..One
  <1> DEFINE w == Watched(d)
             r == Top(ScoresIn(w.regions))
             n == Top(ScoresIn(w.narratives))
             a == Top(ScoresIn(w.alerts))
  <1>1. Pressure(w) = (r + n + a) \div 3
    BY DEF Pressure, TopScore, ScoresIn
  <1>2. r \in 0..One /\ n \in 0..One /\ a \in 0..One
    BY WatchedScores, TopIs
  <1> HIDE DEF r, n, a
  <1>3. (r + n + a) \div 3 \in 0..One
    BY <1>2 DEF One
  <1> QED
    BY <1>1, <1>3

\* The influence that is kept, how far a pass is and what has failed.
GraphInv ==
    /\ \A a \in DOMAIN graph.score : graph.score[a] \in 0..One
    /\ pass.at \in 0..(Len(AllRegions) + 1)
    /\ faults \in 0..MaxFaults

LEMMA InfluenceKept ==
    ASSUME WorldInv, GraphInv, UpdateInfluence
    PROVE  \A a \in DOMAIN graph'.score : graph'.score[a] \in 0..One
  <1> DEFINE all == InfluenceScores(Recent)
  <1>1. EventSet(Recent)
    <2>1. Stored(seen)
      BY DEF WorldInv, Stored
    <2> QED
      BY <2>1, StoredRows DEF Recent
  <1>2. \A a \in DOMAIN all : all[a] \in 0..One
    <2>1. DOMAIN all = Candidates(Recent)
      BY DEF InfluenceScores
    <2> QED
      BY <1>1, <2>1, InfluenceIs
  <1> DEFINE Known(top) == top \cap UNION {w.event.actors : w \in graph.writes}
             Base(top) == [a \in Known(top) |-> all[a]]
  <1>3. PICK top \in Cuts("influence", all) :
            \E final \in {Base(top), BlendPagerank(Base(top), Centrality)} : \E edges :
               graph' = [graph EXCEPT !.score = Over(final, graph.score), !.edges = @ \cup edges]
    <2>1. PICK top \in Cuts("influence", InfluenceScores(Recent)) :
             \E final \in {[a \in top \cap UNION {w.event.actors : w \in graph.writes} |-> InfluenceScores(Recent)[a]],
                           BlendPagerank([a \in top \cap UNION {w.event.actors : w \in graph.writes}
                                             |-> InfluenceScores(Recent)[a]], Centrality)},
                edges \in InfluenceEdges(Over([a \in top \cap UNION {w.event.actors : w \in graph.writes}
                                                 |-> InfluenceScores(Recent)[a]], graph.score), graph.writes) :
                graph' = [graph EXCEPT !.score = Over(final, graph.score), !.edges = @ \cup edges]
      BY DEF UpdateInfluence
    <2>2. Base(top) = [a \in top \cap UNION {w.event.actors : w \in graph.writes} |-> InfluenceScores(Recent)[a]]
      OBVIOUS
    <2>3. \E final \in {Base(top), BlendPagerank(Base(top), Centrality)} : \E edges :
             graph' = [graph EXCEPT !.score = Over(final, graph.score), !.edges = @ \cup edges]
      <3> HIDE DEF Base, Known, all
      <3>1. PICK final \in {Base(top), BlendPagerank(Base(top), Centrality)},
                 edges \in InfluenceEdges(Over(Base(top), graph.score), graph.writes) :
                 graph' = [graph EXCEPT !.score = Over(final, graph.score), !.edges = @ \cup edges]
        BY <2>1, <2>2, Zenon
      <3> QED
        BY <3>1, Zenon
    <2>4. top \in Cuts("influence", all)
      OBVIOUS
    <2> QED
      <3> HIDE DEF Base, Known, all
      <3> QED
        BY <2>3, <2>4, Zenon
  <1> DEFINE base == Base(top)
  <1>4. PICK final \in {base, BlendPagerank(base, Centrality)} : \E edges :
           graph' = [graph EXCEPT !.score = Over(final, graph.score), !.edges = @ \cup edges]
    <2> HIDE DEF Base, Known, all
    <2> QED
      BY <1>3
  <1>5. graph'.score = Over(final, graph.score)
    BY <1>4 DEF WorldInv
  <1> HIDE DEF all
  <1>6. \A a \in DOMAIN base : base[a] \in 0..One
    BY <1>2, CutOf
  <1> HIDE DEF base
  <1>7. \A a \in DOMAIN final : final[a] \in 0..One
    <2>1. CASE final = base
      BY <1>6, <2>1
    <2>2. CASE final = BlendPagerank(base, Centrality)
      <3>1. DOMAIN final = DOMAIN base
        BY <2>2 DEF BlendPagerank
      <3> QED
        BY <1>6, <2>2, <3>1, BlendIs
    <2> QED
      BY <1>4, <2>1, <2>2
  <1> QED
    BY <1>5, <1>7 DEF Over, GraphInv

LEMMA GraphInvHolds == Init /\ [][Next]_vars => []GraphInv
  <1>1. Init => GraphInv
    BY RegionsAssumption, ScoresAssumption DEF Init, GraphInv, Idle
  <1>2. ASSUME WorldInv, PassInv, GraphInv, [Next]_vars
        PROVE  GraphInv'
    <2> DEFINE last == Len(AllRegions) + 1
    <2>1. last \in Nat /\ last > 0 /\ MaxFaults \in Nat
      BY RegionsAssumption, ScoresAssumption
    <2>2. pass.at \in 0..last /\ faults \in 0..MaxFaults
      BY <1>2 DEF GraphInv
    <2>3. ASSUME NEW r \in Catalogue[job], Observe(r)
          PROVE  GraphInv'
      <3>1. pass'.at = pass.at /\ graph' = graph /\ faults' = faults
        BY <1>2, <2>3 DEF Observe, PassInv, RegionPasses
      <3> QED
        BY <1>2, <3>1 DEF GraphInv
    <2>4. ASSUME StartPass
          PROVE  GraphInv'
      <3>1. pass'.at = 1 /\ graph' = graph /\ faults' = faults
        BY <2>4 DEF StartPass, Idle
      <3>2. pass'.at \in 0..last
        BY <2>1, <3>1
      <3> QED
        BY <1>2, <3>1, <3>2 DEF GraphInv
    <2>5. ASSUME Publish
          PROVE  GraphInv'
      <3>1. pass'.at = 0 /\ graph' = graph /\ (faults' = faults \/ (faults < MaxFaults /\ faults' = faults + 1))
        BY <2>5 DEF Publish, Idle
      <3>2. pass'.at \in 0..last /\ faults' \in 0..MaxFaults
        BY <2>1, <2>2, <3>1
      <3> QED
        BY <1>2, <3>1, <3>2 DEF GraphInv
    <2>6. ASSUME NEW fault \in {"none", "events", "narratives"}, ScoreNext(fault)
          PROVE  GraphInv'
      <3>1. /\ pass.at \in 1..Len(AllRegions) /\ pass'.at = pass.at + 1 /\ graph' = graph
            /\ fault # "none" => faults < MaxFaults
            /\ faults' = faults + (IF fault = "none" THEN 0 ELSE 1)
        BY <2>6 DEF ScoreNext
      <3>2. pass'.at \in 0..last /\ faults' \in 0..MaxFaults
        BY <2>1, <2>2, <3>1
      <3> QED
        BY <1>2, <3>1, <3>2 DEF GraphInv
    <2>7. ASSUME UpdateInfluence
          PROVE  GraphInv'
      <3>1. pass' = pass /\ faults' = faults
        BY <2>7 DEF UpdateInfluence
      <3> QED
        BY <1>2, <2>7, <3>1, InfluenceKept DEF GraphInv
    <2>9. ASSUME NEW e \in Catalogue[job], WriteEvent(e)
          PROVE  GraphInv'
      <3>1. pass' = pass /\ faults' = faults /\ graph'.score = graph.score
        BY <1>2, <2>9 DEF WriteEvent, WorldInv
      <3> QED
        BY <1>2, <3>1 DEF GraphInv
    <2>8. ASSUME UNCHANGED <<pass, graph, faults>>
          PROVE  GraphInv'
      BY <1>2, <2>8 DEF GraphInv
    <2> QED
      BY <1>2, <2>3, <2>4, <2>5, <2>6, <2>7, <2>8, <2>9 DEF Next, ScoreRisks, vars
  <1> QED
    BY <1>1, <1>2, WorldInvHolds, PassInvHolds, PTL

\* Every score lies between 0 and 1, whatever is stored in whatever order and
\* whichever queries fail: those of events, regions, actors, sources, items of
\* the queue and the pressure of the overview (risk_engine.py,
\* escalation_scorer.py, bot_score.py, influence_scorer.py, credibility.py,
\* unrest_engine.py of intelligence, operations.py of ontology).
THEOREM ScoresInRange == Spec => []TypeOK
  <1>1. WorldInv /\ PassInv /\ BoardInv /\ GraphInv => TypeOK
    <2> SUFFICES ASSUME WorldInv, PassInv, BoardInv, GraphInv PROVE TypeOK
      OBVIOUS
    <2>1. Stored(seen) /\ EventSet(Recent) /\ EventSet(WeekOf(seen))
      <3>1. Stored(seen)
        BY DEF WorldInv, Stored
      <3> QED
        BY <3>1, StoredRows DEF Recent
    <2>2. job \in Jobs /\ seen \subseteq Catalogue[job] /\ scored \subseteq Recent
      BY DEF WorldInv
    <2>3. pass.at \in 0..(Len(AllRegions) + 1) /\ pass.aborted \in BOOLEAN /\ faults \in 0..MaxFaults
      BY DEF GraphInv, PassInv, RegionPasses
    <2>4. Len(pass.out) = Max({0, pass.at - 1})
      <3>1. pass.at \in Nat /\ Len(pass.out) = IF pass.at = 0 THEN 0 ELSE pass.at - 1
        BY DEF PassInv, RegionPasses
      <3>2. Max({0, pass.at - 1}) = IF 0 >= pass.at - 1 THEN 0 ELSE pass.at - 1
        BY <3>1, Extremes
      <3> QED
        BY <3>1, <3>2
    <2>5. {b.score : b \in Published} \subseteq 0..One
      <3>1. board.scores \in Seq(Scorings)
        BY DEF BoardInv
      <3>2. \A i \in DOMAIN board.scores : board.scores[i] \in Scorings
        BY <3>1
      <3> QED
        BY <3>2, AssessedInRange DEF Published
    <2>6. Values(graph.score) \subseteq 0..One
      BY DEF Values, GraphInv
    <2>7. Values(BotScores(Recent, WeekOf(seen))) \subseteq 0..One
      <3> DEFINE bots == BotScores(Recent, WeekOf(seen))
      <3> SUFFICES ASSUME NEW a \in DOMAIN bots PROVE bots[a] \in 0..One
        BY DEF Values
      <3>1. Copies(Naming(a, Recent)) >= 3 /\ bots[a] = BotScore(a, Recent, WeekOf(seen))
        BY DEF BotScores, MinEvents
      <3>2. Copies(Naming(a, Recent)) \in Nat
        <4>1. Naming(a, Recent) \in SUBSET Recent
          BY DEF Naming
        <4> QED
          BY <2>1, <4>1, CopiesGrow
      <3>3. Copies(Naming(a, Recent)) > 0
        BY <3>1, <3>2
      <3> QED
        BY <2>1, <3>1, <3>3, BotScoreIs
    <2>8. ASSUME NEW es \in Oldest("corroborated", Recent) PROVE Values(SourceScores(es)) \subseteq 0..One
      <3>1. es \in SUBSET Recent
        BY NewestOf
      <3>2. EventSet(es)
        BY <2>1, <3>1, CopiesGrow
      <3> QED
        BY <3>2, SourceScoreIs DEF Values
    <2>9. ASSUME NEW load \in Loads(seen) PROVE {q.risk : q \in Queue(load)} \subseteq 0..One
      BY <2>1, QueueRisk DEF Queue
    <2>10. {ComputeRiskScore(e) : e \in scored} \subseteq 0..One
      BY <2>1, <2>2, RiskIs DEF EventSet
    <2>11. ASSUME NEW d \in Desk(seen, scored) PROVE Pressure(Watched(d)) \in 0..One
      BY <2>1, DeskIs, PressureInRange
    <2>12. /\ (UNION {Values(SourceScores(es)) : es \in Oldest("corroborated", Recent)}) \subseteq 0..One
           /\ (UNION {{q.risk : q \in Queue(load)} : load \in Loads(seen)}) \subseteq 0..One
           /\ {Pressure(Watched(d)) : d \in Desk(seen, scored)} \subseteq 0..One
      BY <2>8, <2>9, <2>11
    <2> QED
      BY <2>2, <2>3, <2>4, <2>5, <2>6, <2>7, <2>10, <2>12 DEF TypeOK
  <1> QED
    BY <1>1, WorldInvHolds, PassInvHolds, GraphInvHolds, PTL DEF Spec

-----------------------------------------------------------------------------
(* The stores of alerts and narratives.                                      *)

\* What a detector counts in is a finite set, whichever world and time it is
\* instantiated for.
LEMMA DetectorCounts ==
    ASSUME NEW number, NEW time, NEW S
    PROVE  Detector(number, time)!Cardinality(S) = Cardinality(S)
  BY DEF Detector!Cardinality, Cardinality

LEMMA SquaresGrow ==
    ASSUME NEW u \in Nat, NEW v \in Nat, u <= v
    PROVE  u * u <= v * v
  <1>1. u * u <= u * v
    OBVIOUS
  <1>2. u * v <= v * v
    OBVIOUS
  <1> QED
    BY <1>1, <1>2

\* A larger count deviates by as much, and what deviates by much deviates by less.
LEMMA DeviatesGrows ==
    ASSUME NEW number, NEW time, NEW count \in Nat, NEW more \in Nat, count <= more,
           NEW total \in Nat, NEW z \in Nat, Detector(number, time)!Deviates(count, total, z)
    PROVE  Detector(number, time)!Deviates(more, total, z)
  <1> DEFINE u == 167 * count - total
             v == 167 * more - total
             bound == z * z * 167 * (IF total > 167 THEN total ELSE 167)
  <1>1. u \in Nat /\ u * u >= bound
    BY DEF Detector!Deviates, Detector!Hours, Detector!Square, Detector!Top
  <1>2. v \in Nat /\ u <= v
    BY <1>1
  <1>3. u * u <= v * v
    BY <1>1, <1>2, SquaresGrow
  <1>4. v * v >= bound
    <2>1. u * u \in Nat /\ v * v \in Nat /\ bound \in Nat
      BY <1>1, <1>2
    <2> HIDE DEF u, v, bound
    <2> QED
      BY <1>1, <1>3, <2>1
  <1> QED
    BY <1>2, <1>4 DEF Detector!Deviates, Detector!Hours, Detector!Square, Detector!Top

LEMMA DeviatesLess ==
    ASSUME NEW number, NEW time, NEW count \in Nat, NEW total \in Nat,
           NEW y \in Nat, NEW z \in Nat, y <= z, Detector(number, time)!Deviates(count, total, z)
    PROVE  Detector(number, time)!Deviates(count, total, y)
  <1> DEFINE u == 167 * count - total
             h == 167 * (IF total > 167 THEN total ELSE 167)
  <1>1. u \in Nat /\ h \in Nat /\ u * u >= z * z * h
    BY DEF Detector!Deviates, Detector!Hours, Detector!Square, Detector!Top
  <1>2. y * y <= z * z
    BY SquaresGrow
  <1>3. (y * y) * h <= (z * z) * h
    <2> HIDE DEF h
    <2> DEFINE a == y * y
               b == z * z
    <2>1. a \in Nat /\ b \in Nat /\ a <= b
      BY <1>2
    <2> HIDE DEF a, b
    <2>2. a * h <= b * h
      BY <1>1, <2>1
    <2> QED
      BY <2>2 DEF a, b
  <1>4. u * u >= y * y * h
    <2> HIDE DEF u, h
    <2> QED
      BY <1>1, <1>3
  <1> QED
    BY <1>1, <1>4 DEF Detector!Deviates, Detector!Hours, Detector!Square, Detector!Top

\* More mentions make no spike less severe.
LEMMA SpikeGrows ==
    ASSUME NEW number, NEW time, NEW count \in Nat, NEW more \in Nat, count <= more,
           NEW total \in Nat
    PROVE  Detector(number, time)!SpikeSeverity(count, total) <= Detector(number, time)!SpikeSeverity(more, total)
  <1> DEFINE D(c, z) == Detector(number, time)!Deviates(c, total, z)
  <1>1. \A z \in {2, 3, 5} : D(count, z) => D(more, z)
    BY DeviatesGrows
  <1>2. \A c \in {count, more} : (D(c, 5) => D(c, 3)) /\ (D(c, 3) => D(c, 2))
    BY DeviatesLess
  <1> HIDE DEF D
  <1>3. CASE total < 10
    BY <1>3 DEF Detector!SpikeSeverity, Detector!Medium, Detector!Low
  <1>4. CASE total >= 10
    BY <1>1, <1>2, <1>4 DEF D, Detector!SpikeSeverity, Detector!Medium, Detector!High, Detector!Critical
  <1> QED
    BY <1>3, <1>4

\* The window and its parts are finite, and so is what is counted of the past.
LEMMA WindowsFinite ==
    ASSUME NEW number \in DOMAIN Worlds, NEW time
    PROVE  /\ IsFiniteSet(Detector(number, time)!ScanWindow)
           /\ IsFiniteSet(Detector(number, time)!Earlier)
  <1>1. IsFiniteSet(DOMAIN Worlds[number].event)
    BY WorldsAssumption
  <1>2. \A from, to : Detector(number, time)!Between(from, to) \subseteq DOMAIN Worlds[number].event
    BY DEF Detector!Between, Detector!event
  <1> QED
    BY <1>1, <1>2, FS_Subset DEF Detector!ScanWindow, Detector!Earlier

\* Less is counted of less.
LEMMA PartsCount ==
    ASSUME NEW S, NEW T, IsFiniteSet(T), S \subseteq T
    PROVE  Cardinality(S) \in Nat /\ Cardinality(T) \in Nat /\ Cardinality(S) <= Cardinality(T)
  BY FS_Subset, FS_CardinalityType

LEMMA PastCounted ==
    ASSUME NEW number \in DOMAIN Worlds, NEW time, NEW k \in {"actor", "cell", "source"}, NEW x
    PROVE  Detector(number, time)!Past(Worlds[number].past[k], x) \in Nat
  BY WorldsAssumption DEF Detector!Past

LEMMA SpikesGrow ==
    ASSUME NEW number \in DOMAIN Worlds, NEW time, NEW W, IsFiniteSet(W), NEW V, V \subseteq W,
           NEW s \in Detector(number, time)!EntitySpikes(V)
    PROVE  \E b \in Detector(number, time)!EntitySpikes(W) :
               Detector(number, time)!Same(s, b) /\ b.severity >= s.severity
  <1> DEFINE Spiked(es, a) == Detector(number, time)!Spike(es, a)
             Count(es, a) == Cardinality(Detector(number, time)!Naming(es, a))
             total(a) == Detector(number, time)!Past(Worlds[number].past["actor"], a)
                         + Count(Detector(number, time)!Earlier, a)
             severity(n, a) == Detector(number, time)!SpikeSeverity(n, total(a))
  <1>1. \A es, a : /\ Spiked(es, a).kind = "entity_spike" /\ Spiked(es, a).entity = a
                   /\ Spiked(es, a).place = "Unspecified"
                   /\ Spiked(es, a).count = Count(es, a)
                   /\ Spiked(es, a).severity = severity(Count(es, a), a)
    BY DetectorCounts DEF Detector!Spike, Detector!Alert, Detector!past, Detector!NoPlace
  <1>2. PICK a \in Detector(number, time)!Actors(V) : s = Spiked(V, a) /\ s.count >= 3 /\ s.severity > 0
    BY DEF Detector!EntitySpikes
  <1>3. a \in Detector(number, time)!Actors(W)
    BY <1>2 DEF Detector!Actors
  <1>4. Count(V, a) \in Nat /\ Count(W, a) \in Nat /\ Count(V, a) <= Count(W, a)
    <2>1. Detector(number, time)!Naming(V, a) \subseteq Detector(number, time)!Naming(W, a)
      BY DEF Detector!Naming
    <2>2. IsFiniteSet(Detector(number, time)!Naming(W, a))
      BY FS_Subset DEF Detector!Naming
    <2> QED
      BY <2>1, <2>2, PartsCount
  <1>5. total(a) \in Nat
    <2>1. IsFiniteSet(Detector(number, time)!Naming(Detector(number, time)!Earlier, a))
      BY WindowsFinite, FS_Subset DEF Detector!Naming
    <2>2. Count(Detector(number, time)!Earlier, a) \in Nat
      BY <2>1, FS_CardinalityType
    <2> QED
      BY <2>2, PastCounted
  <1> HIDE DEF Count, total
  <1>6. severity(Count(V, a), a) <= severity(Count(W, a), a)
    BY <1>4, <1>5, SpikeGrows
  <1>7. severity(Count(V, a), a) \in Int /\ severity(Count(W, a), a) \in Int
    BY DEF Detector!SpikeSeverity, Detector!Medium, Detector!Low, Detector!High, Detector!Critical
  <1> HIDE DEF Spiked, severity
  <1> DEFINE b == Spiked(W, a)
  <1>8. b.count >= 3 /\ b.severity > 0 /\ b.severity >= s.severity
    BY <1>1, <1>2, <1>4, <1>6, <1>7
  <1>9. b \in Detector(number, time)!EntitySpikes(W)
    BY <1>3, <1>8 DEF Detector!EntitySpikes, Spiked
  <1>10. Detector(number, time)!Same(s, b)
    BY <1>1, <1>2 DEF Detector!Same
  <1> QED
    BY <1>8, <1>9, <1>10

LEMMA ClustersGrow ==
    ASSUME NEW number \in DOMAIN Worlds, NEW time, NEW W, IsFiniteSet(W), NEW V, V \subseteq W,
           NEW s \in Detector(number, time)!GeographicClusters(V)
    PROVE  \E b \in Detector(number, time)!GeographicClusters(W) :
               Detector(number, time)!Same(s, b) /\ b.severity >= s.severity
  <1> DEFINE cell(e) == Worlds[number].event[e].cell
             Placed(es) == {e \in es : cell(e) # "Unspecified"}
             Count(es, c) == Cardinality({e \in es : cell(e) = c})
             total(c) == Detector(number, time)!Past(Worlds[number].past["cell"], c)
                         + Count(Detector(number, time)!Earlier, c)
             Deviating(n, c, z) == Detector(number, time)!Deviates(n, total(c), z)
             Cluster(es, c) ==
                 [kind |-> "geographic_cluster", entity |-> "none", place |-> c,
                  count |-> Count(Placed(es), c), past |-> total(c),
                  severity |-> IF Deviating(Count(Placed(es), c), c, 3) THEN 3 ELSE 2]
             Clusters(es) ==
                 IF Cardinality(Placed(es)) < 5 THEN {}
                 ELSE {g \in {Cluster(es, cell(e)) : e \in Placed(es)} :
                         g.count >= 3 /\ Detector(number, time)!Deviates(g.count, g.past, 2)}
  <1>1. \A es : Detector(number, time)!GeographicClusters(es) = Clusters(es)
    BY DetectorCounts DEF Detector!GeographicClusters, Detector!Alert, Detector!past, Detector!InCell,
                          Detector!NoPlace, Detector!event, Detector!High, Detector!Medium
  <1>2. Placed(V) \subseteq Placed(W) /\ IsFiniteSet(Placed(W))
    BY FS_Subset
  <1>3. Cardinality(Placed(V)) \in Nat /\ Cardinality(Placed(W)) \in Nat
        /\ Cardinality(Placed(V)) <= Cardinality(Placed(W))
    BY <1>2, PartsCount
  <1>4. PICK e \in Placed(V) : s = Cluster(V, cell(e))
    <2>1. s \in Clusters(V)
      BY <1>1
    <2> HIDE DEF Cluster, Placed
    <2> QED
      BY <2>1
  <1>5. Cardinality(Placed(V)) >= 5 /\ s.count >= 3 /\ Detector(number, time)!Deviates(s.count, s.past, 2)
    BY <1>1, <1>3
  <1> DEFINE c == cell(e)
             b == Cluster(W, c)
  <1>6. Count(Placed(V), c) \in Nat /\ Count(Placed(W), c) \in Nat /\ Count(Placed(V), c) <= Count(Placed(W), c)
    <2>1. {x \in Placed(V) : cell(x) = c} \subseteq {x \in Placed(W) : cell(x) = c}
      BY <1>2
    <2>2. IsFiniteSet({x \in Placed(W) : cell(x) = c})
      BY <1>2, FS_Subset
    <2> HIDE DEF c
    <2> QED
      BY <2>1, <2>2, PartsCount
  <1>7. total(c) \in Nat
    <2>1. IsFiniteSet({x \in Detector(number, time)!Earlier : cell(x) = c})
      BY WindowsFinite, FS_Subset
    <2>2. Count(Detector(number, time)!Earlier, c) \in Nat
      BY <2>1, FS_CardinalityType
    <2> HIDE DEF c
    <2> QED
      BY <2>2, PastCounted
  <1>8. \A z \in {2, 3} : Deviating(Count(Placed(V), c), c, z) => Deviating(Count(Placed(W), c), c, z)
    <2> HIDE DEF c, total, Count
    <2> QED
      BY <1>6, <1>7, DeviatesGrows
  <1>9. e \in Placed(W)
    BY <1>2
  <1> HIDE DEF Count, total, Deviating, Placed, c
  <1>10. s = Cluster(V, c)
    BY <1>4 DEF c
  <1>11. s.count = Count(Placed(V), c) /\ s.past = total(c) /\ b.count = Count(Placed(W), c) /\ b.past = total(c)
    BY <1>10
  <1>12. b.count >= 3 /\ Detector(number, time)!Deviates(b.count, b.past, 2)
    BY <1>5, <1>6, <1>8, <1>11 DEF Deviating
  <1>13. b.severity >= s.severity
    BY <1>8, <1>10
  <1>14. b \in Clusters(W)
    <2>1. b \in {Cluster(W, cell(x)) : x \in Placed(W)}
      BY <1>9 DEF c
    <2>2. ~ (Cardinality(Placed(W)) < 5)
      BY <1>3, <1>5
    <2> HIDE DEF b
    <2> QED
      BY <2>1, <2>2, <1>12
  <1>15. Detector(number, time)!Same(s, b)
    BY <1>10 DEF Detector!Same
  <1> QED
    BY <1>1, <1>13, <1>14, <1>15

\* A source that is silent is no less so with an event less.
LEMMA SilencesShrink ==
    ASSUME NEW number \in DOMAIN Worlds, NEW time, NEW W, IsFiniteSet(W), NEW V, V \subseteq W,
           NEW q \in Detector(number, time)!SourceSilence(W)
    PROVE  \E b \in Detector(number, time)!SourceSilence(V) :
               Detector(number, time)!Same(q, b) /\ b.severity >= q.severity
  <1> DEFINE Count(es, s) == Cardinality({e \in es : Worlds[number].event[e].source = s})
             total(s) == Detector(number, time)!Past(Worlds[number].past["source"], s)
                         + Count(Detector(number, time)!Earlier, s)
             Silence(es, s) ==
                 [kind |-> "source_silence", entity |-> s, place |-> "Unspecified",
                  count |-> Count(es, s), past |-> total(s),
                  severity |-> IF Count(es, s) = 0 THEN 3
                               ELSE IF 10 * 167 * Count(es, s) < total(s) THEN 2 ELSE 1]
             Silences(es) ==
                 {x \in {Silence(es, s) : s \in DOMAIN Worlds[number].past["source"]} :
                     x.past >= 2 * 167 /\ 5 * 167 * x.count < x.past}
  <1>1. \A es : Detector(number, time)!SourceSilence(es) = Silences(es)
    <2>1. \A es, s : Detector(number, time)!Silence(es, s) = Silence(es, s)
      BY DetectorCounts DEF Detector!Silence, Detector!Alert, Detector!past, Detector!Of, Detector!Hours,
                            Detector!NoPlace, Detector!event, Detector!High, Detector!Medium, Detector!Low
    <2> HIDE DEF Silence
    <2> QED
      BY <2>1 DEF Detector!SourceSilence, Detector!past, Detector!Hours
  <1>2. PICK s \in DOMAIN Worlds[number].past["source"] : q = Silence(W, s) /\ q.past >= 334 /\ 835 * q.count < q.past
    <2>1. q \in Silences(W)
      BY <1>1
    <2> HIDE DEF Silence
    <2>2. PICK s \in DOMAIN Worlds[number].past["source"] : q = Silence(W, s) /\ q.past >= 2 * 167 /\ 5 * 167 * q.count < q.past
      BY <2>1
    <2>3. 2 * 167 = 334 /\ 5 * 167 * q.count = 835 * q.count
      OBVIOUS
    <2> QED
      BY <2>2, <2>3
  <1> DEFINE b == Silence(V, s)
  <1>3. Count(V, s) \in Nat /\ Count(W, s) \in Nat /\ Count(V, s) <= Count(W, s)
    <2>1. {x \in V : Worlds[number].event[x].source = s} \subseteq {x \in W : Worlds[number].event[x].source = s}
      OBVIOUS
    <2>2. IsFiniteSet({x \in W : Worlds[number].event[x].source = s})
      BY FS_Subset
    <2> QED
      BY <2>1, <2>2, PartsCount
  <1>4. total(s) \in Nat
    <2>1. IsFiniteSet({x \in Detector(number, time)!Earlier : Worlds[number].event[x].source = s})
      BY WindowsFinite, FS_Subset
    <2>2. Count(Detector(number, time)!Earlier, s) \in Nat
      BY <2>1, FS_CardinalityType
    <2> QED
      BY <2>2, PastCounted
  <1> HIDE DEF Count, total
  <1>5. b.past >= 334 /\ 835 * b.count < b.past /\ b.severity >= q.severity
    BY <1>2, <1>3, <1>4
  <1>6. b \in Silences(V)
    BY <1>5
  <1>7. Detector(number, time)!Same(q, b)
    BY <1>2 DEF Detector!Same
  <1> QED
    BY <1>1, <1>5, <1>6, <1>7

LEMMA DetectorMonotone ==
    ASSUME NEW number \in DOMAIN Worlds, NEW time
    PROVE  Detector(number, time)!Monotone
  <1> DEFINE W == Detector(number, time)!ScanWindow
             Loud(es) == Detector(number, time)!EntitySpikes(es) \cup Detector(number, time)!GeographicClusters(es)
  <1>1. IsFiniteSet(W)
    BY WindowsFinite
  <1>2. ASSUME NEW e \in W, NEW a \in Loud(W \ {e})
        PROVE  \E b \in Loud(W) : Detector(number, time)!Same(a, b) /\ b.severity >= a.severity
    <2>1. W \ {e} \subseteq W
      OBVIOUS
    <2> HIDE DEF W
    <2>2. CASE a \in Detector(number, time)!EntitySpikes(W \ {e})
      BY <1>1, <2>1, <2>2, SpikesGrow
    <2>3. CASE a \in Detector(number, time)!GeographicClusters(W \ {e})
      BY <1>1, <2>1, <2>3, ClustersGrow
    <2> QED
      BY <1>2, <2>2, <2>3
  <1>3. ASSUME NEW e \in W, NEW a \in Detector(number, time)!SourceSilence(W)
        PROVE  \E b \in Detector(number, time)!SourceSilence(W \ {e}) :
                  Detector(number, time)!Same(a, b) /\ b.severity >= a.severity
    <2>1. W \ {e} \subseteq W
      OBVIOUS
    <2> HIDE DEF W
    <2> QED
      BY <1>1, <1>3, <2>1, SilencesShrink
  <1> QED
    BY <1>2, <1>3 DEF Detector!Monotone

\* Of a batch no two rows have one id.
Unique(found) == \A q, r \in found : q.id = r.id => q = r

LEMMA AlertsUnique ==
    ASSUME NEW found, NEW t
    PROVE  Unique({AlertRow(a, t) : a \in Merged(found)})
  <1> SUFFICES ASSUME NEW a \in Merged(found), NEW b \in Merged(found), AlertRow(a, t).id = AlertRow(b, t).id
               PROVE  a = b
    BY DEF Unique
  <1>1. a.entity = b.entity /\ a.kind = b.kind
    BY DEF AlertRow
  <1>2. Rivals(a, found) = Rivals(b, found)
    BY <1>1 DEF Rivals
  <1> QED
    BY <1>2 DEF Merged

LEMMA NarrativesUnique ==
    ASSUME NEW number, NEW time, NEW signals, NEW t
    PROVE  Unique({NarrativeRow(s, t) : s \in Detector(number, time)!Strongest(signals)})
  <1> DEFINE Like(s) == {u \in signals : u.topic = s.topic /\ u.kind = s.kind}
             best(s) == CHOOSE u \in Like(s) : \A v \in Like(s) : v.strength <= u.strength
  <1> SUFFICES ASSUME NEW a \in Detector(number, time)!Strongest(signals),
                      NEW b \in Detector(number, time)!Strongest(signals),
                      NarrativeRow(a, t).id = NarrativeRow(b, t).id
               PROVE  a = b
    BY DEF Unique
  <1>1. a.topic = b.topic /\ a.kind = b.kind
    BY DEF NarrativeRow
  <1>2. Like(a) = Like(b)
    BY <1>1
  <1>3. a = best(a) /\ b = best(b)
    BY DEF Detector!Strongest
  <1> QED
    BY <1>2, <1>3

\* What a pass carries was found in this world at one time, so its ids are unique.
Working ==
    /\ \E w \in DOMAIN Worlds, table \in {"alerts", "narratives"}, g \in BOOLEAN : world = World(w, table, g)
    /\ now \in 0..MaxNow
    /\ DOMAIN doing = Passes
    /\ \A p \in Passes : /\ DOMAIN doing[p] = {"stage", "found", "counts"}
                         /\ doing[p].found = {} \/ \E t \in 0..MaxNow : doing[p].found = world.found[t]

LEMMA FoundUnique ==
    ASSUME NEW w \in DOMAIN Worlds, NEW table, NEW g, NEW t \in 0..MaxNow
    PROVE  Unique(World(w, table, g).found[t])
  <1>1. CASE table = "alerts"
    BY <1>1, AlertsUnique DEF World
  <1>2. CASE table # "alerts"
    <2>1. World(w, table, g).found[t] = {NarrativeRow(s, t) : s \in Detector(w, t)!Detect(g)}
      BY <1>2 DEF World
    <2>2. \/ Detector(w, t)!Detect(g) = {}
          \/ \E signals : Detector(w, t)!Detect(g) = Detector(w, t)!Strongest(signals)
      BY DEF Detector!Detect
    <2> QED
      BY <2>1, <2>2, NarrativesUnique DEF Unique
  <1> QED
    BY <1>1, <1>2

LEMMA WorkingInit == DetectionInit => Working
  BY MaxNowAssumption DEF DetectionInit, Working, Nothing

LEMMA WorkingStep == Working /\ [DetectionNext]_detectionVars => Working'
  <1> SUFFICES ASSUME Working, [DetectionNext]_detectionVars
               PROVE  Working'
    OBVIOUS
  <1>1. CASE Tick
    BY <1>1, MaxNowAssumption DEF Tick, Working
  <1>2. CASE Subscribe
    BY <1>2 DEF Subscribe, outside, Working
  <1>3. ASSUME NEW p \in Passes, Reading(p), UNCHANGED outside
        PROVE  Working'
    BY <1>3 DEF Reading, outside, Working, Nothing
  <1>4. CASE Start
    BY <1>3, <1>4 DEF Start, Passes
  <1>5. CASE Take
    BY <1>3, <1>5 DEF Take, Passes, Working, outside
  <1>6. CASE GoOn
    BY <1>3, <1>6 DEF GoOn, Passes
  <1>7. ASSUME NEW p \in Passes, Commit(p)
        PROVE  Working'
    BY <1>7 DEF Commit, outside, Working, Nothing
  <1>8. CASE CountRows
    BY <1>8 DEF CountRows, outside, Working, Passes
  <1>9. CASE CacheCounts
    BY <1>9 DEF CacheCounts, outside, Working, Nothing
  <1>10. ASSUME NEW p \in Passes, Fail(p)
         PROVE  Working'
    BY <1>10 DEF Fail, Working, Nothing
  <1>11. ASSUME NEW id \in DOMAIN rows, Acknowledge(id)
         PROVE  Working'
    BY <1>11 DEF Acknowledge, Working
  <1>12. CASE Die
    BY <1>12 DEF Die, Working, Nothing
  <1>13. CASE UNCHANGED detectionVars
    BY <1>13 DEF detectionVars, Working
  <1> QED
    BY <1>1, <1>2, <1>4, <1>5, <1>6, <1>7, <1>8, <1>9, <1>10, <1>11, <1>12, <1>13
       DEF DetectionNext, JobStep, Passes

\* No batch names an id twice: a dictionary of the code decides between rivals.
THEOREM EveryBatchAccepted == DetectionSpec => []BatchAccepted
  <1>1. Working => BatchAccepted
    BY FoundUnique DEF Working, BatchAccepted, Unique
  <1> QED
    BY <1>1, WorkingInit, WorkingStep, PTL DEF DetectionSpec

THEOREM DetectionAlwaysGrows == DetectionSpec => []DetectionGrows
  <1>1. Working => DetectionGrows
    <2> SUFFICES ASSUME Working PROVE DetectionGrows
      OBVIOUS
    <2>1. world.number \in DOMAIN Worlds /\ now \in 0..MaxNow
      BY DEF Working, World
    <2>2. Monotone[world.number][now] = Detector(world.number, now)!Monotone
      BY <2>1 DEF Monotone
    <2> QED
      BY <2>1, <2>2, DetectorMonotone DEF DetectionGrows
  <1> QED
    BY <1>1, WorkingInit, WorkingStep, PTL DEF DetectionSpec
=============================================================================
