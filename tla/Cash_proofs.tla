----------------------------- MODULE Cash_proofs -----------------------------
(***************************************************************************)
(* The money of a live account: the reservation table is what the live     *)
(* BUYs commit, a manual trade is folded in once, cash and trade records   *)
(* agree, and the ghost-cash detector alerts exactly on cash that no       *)
(* booking explains, for every set of orders and trades.                   *)
(***************************************************************************)
EXTENDS Cash, FiniteSetTheorems, SequenceTheorems, WellFoundedInduction, TLAPS

-----------------------------------------------------------------------------
(* Naturals *)

Less == {x \in Nat \X Nat : x[1] < x[2]}

LEMMA LessWellFounded == IsWellFoundedOn(Less, Nat)
  BY NatLessThanWellFounded DEF Less, OpToRel

\* A non-empty set of naturals has a least element.
LEMMA LeastNatural ==
  ASSUME NEW T \in SUBSET Nat, T # {}
  PROVE  \E x \in T : \A y \in T : x <= y
<1>1. PICK x \in T : \A y \in T : <<y, x>> \notin Less
  BY LessWellFounded, WFMin
<1>2. ASSUME NEW y \in T PROVE x <= y
  <2>1. ~(y < x)
    BY <1>1 DEF Less
  <2> QED
    BY <2>1
<1> QED
  BY <1>1, <1>2

\* A finite, non-empty set of naturals has a greatest element.
LEMMA GreatestNatural ==
  ASSUME NEW T \in SUBSET Nat, T # {}, IsFiniteSet(T)
  PROVE  Max(T) \in T /\ \A y \in T : y <= Max(T)
<1> DEFINE Topped(S) == \E x \in S : \A y \in S : x >= y
           Bad == {n \in Nat : \E S \in SUBSET Nat : /\ S # {} /\ IsFiniteSet(S)
                                                    /\ Cardinality(S) = n /\ ~Topped(S)}
<1>1. CASE Bad = {}
  <2>1. Topped(T)
    BY <1>1, FS_CardinalityType
  <2> QED
    BY <2>1 DEF Max
<1>2. CASE Bad # {}
  <2>1. PICK n \in Bad : \A m \in Bad : n <= m
    <3>1. Bad \in SUBSET Nat
      OBVIOUS
    <3> HIDE DEF Bad
    <3> QED
      BY <1>2, <3>1, LeastNatural
  <2>2. PICK S \in SUBSET Nat : S # {} /\ IsFiniteSet(S) /\ Cardinality(S) = n /\ ~Topped(S)
    BY <2>1
  <2>3. PICK x \in S : TRUE
    BY <2>2
  <2> DEFINE R == S \ {x}
  <2>4. IsFiniteSet(R) /\ Cardinality(R) = n - 1 /\ n - 1 \in Nat
    <3>1. IsFiniteSet(R) /\ Cardinality(R) = n - 1
      BY <2>2, <2>3, FS_RemoveElement
    <3>2. Cardinality(R) \in Nat
      BY <3>1, FS_CardinalityType
    <3> QED
      BY <3>1, <3>2
  <2>5. n - 1 \notin Bad
    BY <2>1, <2>4
  <2>6. R = {} \/ Topped(R)
    BY <2>4, <2>5
  <2>7. x \in Nat /\ R \subseteq Nat /\ S = R \cup {x}
    BY <2>2, <2>3
  <2>8. CASE R = {}
    BY <2>2, <2>7, <2>8
  <2>9. CASE Topped(R)
    <3>1. PICK z \in R : \A y \in R : z >= y
      BY <2>9
    <3>2. CASE z >= x
      BY <2>2, <2>7, <3>1, <3>2
    <3>3. CASE x > z
      BY <2>2, <2>7, <3>1, <3>3
    <3> QED
      BY <2>7, <3>1, <3>2, <3>3
  <2> QED
    BY <2>6, <2>8, <2>9
<1> QED
  BY <1>1, <1>2

-----------------------------------------------------------------------------
(* Sums over finite sets *)

\* g holds the sums of f over the sets in D.
Pick(s) == CHOOSE x \in s : TRUE
Sums(g, D, f) ==
  g = [s \in D |-> IF s = {} THEN 0 ELSE f[Pick(s)] + g[s \ {Pick(s)}]]
Total(S, f) == CHOOSE g : Sums(g, SUBSET S, f)

LEMMA SumOfIs == ASSUME NEW f PROVE SumOf(f) = Total(DOMAIN f, f)[DOMAIN f]
  BY DEF SumOf, FoldFunction, FoldFunctionOnSet, MapThenFoldSet, Total, Sums, Pick

\* A claim about the subsets of a finite set, by their size: T are those of
\* which it fails, and the smaller subsets of one in T bring it down.
LEMMA FiniteDescent ==
  ASSUME NEW S, IsFiniteSet(S), NEW T \in SUBSET SUBSET S,
         \A s \in T : \E r \in T : r \subseteq s /\ r # s
  PROVE  T = {}
<1> SUFFICES ASSUME T # {} PROVE FALSE
  OBVIOUS
<1> DEFINE C == {Cardinality(s) : s \in T}
<1>1. \A s \in SUBSET S : IsFiniteSet(s) /\ Cardinality(s) \in Nat
  BY FS_Subset, FS_CardinalityType
<1>2. C \in SUBSET Nat /\ C # {}
  BY <1>1
<1>3. PICK n \in C : \A m \in C : n <= m
  <2> HIDE DEF C
  <2> QED
    BY <1>2, LeastNatural
<1>4. PICK s \in T : n = Cardinality(s)
  BY <1>3
<1>5. PICK r \in T : r \subseteq s /\ r # s
  BY <1>4
<1>6. Cardinality(r) <= Cardinality(s) /\ Cardinality(r) # Cardinality(s)
  BY <1>1, <1>5, FS_Subset
<1>7. Cardinality(r) \in C /\ Cardinality(r) \in Nat /\ Cardinality(s) \in Nat
  BY <1>1, <1>4, <1>5
<1> HIDE DEF C
<1> QED
  BY <1>3, <1>4, <1>6, <1>7

\* The sums over subsets, read off the definition.
LEMMA SumsAt ==
  ASSUME NEW S, NEW f, NEW g, Sums(g, SUBSET S, f), NEW s \in SUBSET S
  PROVE  /\ s = {} => g[s] = 0
         /\ s # {} => /\ Pick(s) \in s /\ s \ {Pick(s)} \in SUBSET S /\ s \ {Pick(s)} # s
                      /\ g[s] = f[Pick(s)] + g[s \ {Pick(s)}]
<1> DEFINE x == Pick(s)
<1>1. s # {} => x \in s
  BY DEF Pick
<1>2. g[s] = IF s = {} THEN 0 ELSE f[x] + g[s \ {x}]
  BY DEF Sums
<1> HIDE DEF x
<1>3. s # {} => /\ x \in s /\ s \ {x} \in SUBSET S /\ s \ {x} # s
                /\ g[s] = f[x] + g[s \ {x}]
  BY <1>1, <1>2
<1> QED
  BY <1>2, <1>3 DEF x

\* Such sums are numbers like those summed up.
LEMMA SumsTyped ==
  ASSUME NEW S, IsFiniteSet(S), NEW N \in {Nat, Int}, NEW f, \A x \in S : f[x] \in N,
         NEW g, Sums(g, SUBSET S, f)
  PROVE  \A s \in SUBSET S : g[s] \in N
<1> DEFINE T == {s \in SUBSET S : g[s] \notin N}
<1>1. ASSUME NEW s \in T PROVE \E r \in T : r \subseteq s /\ r # s
  <2>0. s \in SUBSET S /\ g[s] \notin N /\ 0 \in N
    OBVIOUS
  <2>1. s # {}
    <3> HIDE DEF T
    <3>1. g[{}] = 0
      BY DEF Sums
    <3> QED
      BY <2>0, <3>1
  <2>2. PICK x \in s : s \ {x} \in SUBSET S /\ s \ {x} # s /\ g[s] = f[x] + g[s \ {x}]
    <3>1. /\ Pick(s) \in s /\ s \ {Pick(s)} \in SUBSET S /\ s \ {Pick(s)} # s
          /\ g[s] = f[Pick(s)] + g[s \ {Pick(s)}]
      BY <2>0, <2>1, SumsAt
    <3> QED
      BY <3>1
  <2>3. f[x] \in N
    BY <2>2
  <2>4. g[s \ {x}] \notin N
    BY <2>2, <2>3
  <2> QED
    BY <2>2, <2>4
<1>2. T \in SUBSET SUBSET S
  OBVIOUS
<1> HIDE DEF T
<1>3. T = {}
  BY <1>1, <1>2, FiniteDescent
<1> QED
  BY <1>3 DEF T

\* Such sums exist.
LEMMA SumsExist ==
  ASSUME NEW S, IsFiniteSet(S), NEW N \in {Nat, Int}, NEW f, \A x \in S : f[x] \in N
  PROVE  Sums(Total(S, f), SUBSET S, f)
<1> DEFINE D(n) == {s \in SUBSET S : Cardinality(s) <= n}
           ch(s) == Pick(s)
           Good(n) == \E g : Sums(g, D(n), f) /\ \A s \in D(n) : g[s] \in N
           Bad == {n \in Nat : ~Good(n)}
<1>0. \A s \in SUBSET S : IsFiniteSet(s) /\ Cardinality(s) \in Nat
  BY FS_Subset, FS_CardinalityType
<1>1. Good(0)
  <2> DEFINE g == [s \in D(0) |-> 0]
  <2>1. \A s \in D(0) : s = {}
    BY <1>0, FS_EmptySet
  <2>2. Sums(g, D(0), f)
    BY <2>1 DEF Sums
  <2>3. \A s \in D(0) : g[s] \in N
    OBVIOUS
  <2> QED
    BY <2>2, <2>3
<1>2. ASSUME NEW n \in Nat, Good(n) PROVE Good(n + 1)
  <2>1. PICK g : Sums(g, D(n), f) /\ \A s \in D(n) : g[s] \in N
    BY <1>2
  <2> DEFINE V(s) == IF s = {} THEN 0 ELSE f[ch(s)] + g[s \ {ch(s)}]
             h == [s \in D(n + 1) |-> V(s)]
  <2>2. ASSUME NEW s \in D(n + 1), s # {}
        PROVE  ch(s) \in s /\ s \ {ch(s)} \in D(n) /\ s \ {ch(s)} \in D(n + 1)
    <3>1. ch(s) \in s
      BY <2>2 DEF Pick
    <3> HIDE DEF ch
    <3>2. Cardinality(s \ {ch(s)}) = Cardinality(s) - 1
      BY <1>0, <3>1, FS_RemoveElement
    <3> QED
      BY <1>0, <3>1, <3>2
  <2> HIDE DEF ch
  <2>3. ASSUME NEW s \in D(n) PROVE s \in D(n + 1) /\ h[s] = g[s]
    <3>1. s \in D(n + 1)
      BY <1>0
    <3>2. g[s] = V(s)
      BY <2>1 DEF Sums, ch
    <3> QED
      BY <3>1, <3>2
  <2>4. ASSUME NEW s \in D(n + 1)
        PROVE  V(s) = (IF s = {} THEN 0 ELSE f[ch(s)] + h[s \ {ch(s)}]) /\ h[s] \in N
    <3>1. CASE s = {}
      BY <3>1
    <3>2. CASE s # {}
      <4>1. ch(s) \in s /\ s \ {ch(s)} \in D(n)
        BY <2>2, <3>2
      <4>2. h[s \ {ch(s)}] = g[s \ {ch(s)}] /\ g[s \ {ch(s)}] \in N
        BY <2>1, <2>3, <4>1
      <4>3. f[ch(s)] \in N
        BY <4>1
      <4> HIDE DEF D
      <4> QED
        BY <3>2, <4>2, <4>3
    <3> QED
      BY <3>1, <3>2
  <2> HIDE DEF V, D
  <2>5. h = [s \in D(n + 1) |-> IF s = {} THEN 0 ELSE f[ch(s)] + h[s \ {ch(s)}]]
    BY <2>4
  <2>6. Sums(h, D(n + 1), f)
    BY <2>5 DEF Sums, ch
  <2> QED
    BY <2>4, <2>6
<1>3. \A n \in Nat : Good(n)
  <2> HIDE DEF Good
  <2> SUFFICES ASSUME Bad # {} PROVE FALSE
    OBVIOUS
  <2>1. PICK n \in Bad : \A m \in Bad : n <= m
    <3>1. Bad \in SUBSET Nat
      OBVIOUS
    <3> HIDE DEF Bad
    <3> QED
      BY <3>1, LeastNatural
  <2>2. n # 0 /\ n \in Nat
    BY <1>1, <2>1
  <2>3. n - 1 \in Nat /\ (n - 1) + 1 = n /\ ~(n <= n - 1)
    BY <2>2
  <2>4. n - 1 \notin Bad
    BY <2>1, <2>3
  <2>5. Good((n - 1) + 1)
    BY <1>2, <2>3, <2>4
  <2> QED
    BY <2>1, <2>3, <2>5
<1>4. Cardinality(S) \in Nat /\ D(Cardinality(S)) = SUBSET S
  BY <1>0, FS_Subset
<1>5. PICK g : Sums(g, SUBSET S, f) /\ \A s \in SUBSET S : g[s] \in N
  BY <1>3, <1>4
<1> QED
  BY <1>5 DEF Total

\* Adding an element to a set adds its value to the sum.
Additive(g, S, f) == \A s \in SUBSET S : \A t \in S \ s : g[s \cup {t}] = f[t] + g[s]

LEMMA SumAdd ==
  ASSUME NEW S, IsFiniteSet(S), NEW f, \A x \in S : f[x] \in Int,
         NEW g, Sums(g, SUBSET S, f)
  PROVE  Additive(g, S, f)
<1> USE DEF Additive
<1> DEFINE T == {s \in SUBSET S : \E t \in S \ s : g[s \cup {t}] # f[t] + g[s]}
<1>0. \A s \in SUBSET S : g[s] \in Int
  BY SumsTyped
<1>1. ASSUME NEW s \in T PROVE \E r \in T : r \subseteq s /\ r # s
  <2>1. PICK t \in S \ s : g[s \cup {t}] # f[t] + g[s]
    BY <1>1
  <2>2. s \cup {t} \in SUBSET S /\ s \cup {t} # {}
    BY <2>1
  <2>3. PICK x \in s \cup {t} : g[s \cup {t}] = f[x] + g[(s \cup {t}) \ {x}]
    <3> DEFINE u == s \cup {t}
    <3>1. u \in SUBSET S /\ u # {}
      BY <2>2
    <3> HIDE DEF u, T
    <3>2. Pick(u) \in u /\ g[u] = f[Pick(u)] + g[u \ {Pick(u)}]
      BY <3>1, SumsAt
    <3>3. \E x \in u : g[u] = f[x] + g[u \ {x}]
      BY <3>2
    <3> QED
      BY <3>3 DEF u
  <2>4. CASE x = t
    <3>1. (s \cup {t}) \ {x} = s
      BY <2>1, <2>4
    <3> QED
      BY <2>1, <2>3, <2>4, <3>1
  <2>5. CASE x # t
    <3> DEFINE r == s \ {x}
    <3>1. /\ x \in s /\ r \in SUBSET S /\ r \subseteq s /\ r # s
          /\ (s \cup {t}) \ {x} = r \cup {t} /\ r \cup {x} = s /\ x \in S \ r /\ t \in S \ r
      BY <2>1, <2>3, <2>5
    <3> SUFFICES ASSUME r \notin T PROVE FALSE
      BY <3>1
    <3>2. g[r \cup {t}] = f[t] + g[r] /\ g[r \cup {x}] = f[x] + g[r]
      BY <3>1
    <3>3. g[r] \in Int /\ f[x] \in Int /\ f[t] \in Int
      BY <1>0, <3>1
    <3>4. g[s \cup {t}] = f[x] + g[r \cup {t}] /\ g[s] = f[x] + g[r]
      BY <2>3, <3>1, <3>2
    <3> HIDE DEF r, T
    <3> QED
      BY <2>1, <3>2, <3>3, <3>4
  <2> QED
    BY <2>4, <2>5
<1>2. T \in SUBSET SUBSET S
  OBVIOUS
<1> HIDE DEF T
<1>3. T = {}
  BY <1>1, <1>2, FiniteDescent
<1> QED
  BY <1>3 DEF T

\* Sums of naturals grow with the set.
LEMMA SumGrows ==
  ASSUME NEW S, IsFiniteSet(S), NEW f, \A x \in S : f[x] \in Nat,
         NEW g, Sums(g, SUBSET S, f), NEW r \in SUBSET S
  PROVE  \A s \in SUBSET S : r \subseteq s => g[r] <= g[s]
<1> DEFINE T == {s \in SUBSET S : r \subseteq s /\ ~(g[r] <= g[s])}
<1>0. \A s \in SUBSET S : g[s] \in Nat
  BY SumsTyped
<1>1. ASSUME NEW s \in T PROVE \E q \in T : q \subseteq s /\ q # s
  <2>1. s # r
    BY <1>0
  <2>2. PICK x \in s \ r : TRUE
    BY <2>1
  <2> DEFINE q == s \ {x}
  <2>3. q \in SUBSET S /\ q \subseteq s /\ q # s /\ r \subseteq q /\ x \in S \ q /\ q \cup {x} = s
    BY <2>2
  <2> HIDE DEF q
  <2>4. g[q \cup {x}] = f[x] + g[q]
    BY <2>3, SumAdd DEF Additive
  <2>5. ~(g[r] <= g[q])
    <3>1. g[r] \in Nat /\ g[q] \in Nat /\ f[x] \in Nat /\ ~(g[r] <= g[s])
      BY <1>0, <2>3
    <3>2. g[s] = f[x] + g[q]
      BY <2>3, <2>4
    <3> HIDE DEF T
    <3> QED
      BY <3>1, <3>2
  <2> QED
    BY <2>3, <2>5
<1>2. T \in SUBSET SUBSET S
  OBVIOUS
<1> HIDE DEF T
<1>3. T = {}
  BY <1>1, <1>2, FiniteDescent
<1> QED
  BY <1>3 DEF T

\* A sum over a part of S is the sum of the values restricted to it.
LEMMA SumRestricted ==
  ASSUME NEW S, IsFiniteSet(S), NEW f, \A x \in S : f[x] \in Int, NEW D \in SUBSET S
  PROVE  SumOf([x \in D |-> f[x]]) = Total(S, f)[D]
<1> DEFINE h == [x \in D |-> f[x]]
           g == Total(S, f)
           k == Total(D, h)
           T == {s \in SUBSET D : k[s] # g[s]}
<1>0. IsFiniteSet(D) /\ \A x \in D : h[x] \in Int
  BY FS_Subset
<1>1. Sums(g, SUBSET S, f)
  <2>1. Int \in {Nat, Int}
    OBVIOUS
  <2> QED
    BY <2>1, SumsExist
<1>2. Sums(k, SUBSET D, h)
  <2>1. Int \in {Nat, Int}
    OBVIOUS
  <2> HIDE DEF h
  <2> QED
    BY <1>0, <2>1, SumsExist
<1>3. DOMAIN h = D
  OBVIOUS
<1>4. SumOf(h) = k[D]
  <2> HIDE DEF h
  <2> QED
    BY <1>3, SumOfIs
<1> HIDE DEF g, k
<1>5. ASSUME NEW s \in T PROVE \E r \in T : r \subseteq s /\ r # s
  <2>1. s \in SUBSET D /\ s \in SUBSET S
    OBVIOUS
  <2> DEFINE x == Pick(s)
             r == s \ {x}
  <2>2. s # {}
    BY <1>1, <1>2, <2>1, SumsAt
  <2>3. x \in s /\ r # s /\ g[s] = f[x] + g[r] /\ k[s] = h[x] + k[r]
    <3>1. x \in s /\ r # s /\ g[s] = f[x] + g[r]
      BY <1>1, <2>1, <2>2, SumsAt
    <3> HIDE DEF h
    <3>2. k[s] = h[x] + k[r]
      BY <1>2, <2>1, <2>2, SumsAt
    <3> QED
      BY <3>1, <3>2
  <2> HIDE DEF x
  <2>4. h[x] = f[x]
    BY <2>1, <2>3
  <2>5. k[r] # g[r]
    BY <2>3, <2>4
  <2> QED
    BY <2>1, <2>3, <2>5
<1>a. T \in SUBSET SUBSET D
  OBVIOUS
<1> HIDE DEF T
<1>6. T = {}
  BY <1>0, <1>5, <1>a, FiniteDescent
<1>7. k[D] = g[D]
  BY <1>6 DEF T
<1> QED
  BY <1>4, <1>7 DEF g

\* The sum of the integers f[x] over a finite domain is an integer.
LEMMA SumOfTyped ==
  ASSUME NEW S, IsFiniteSet(S), NEW f, \A x \in S : f[x] \in Int
  PROVE  SumOf([x \in S |-> f[x]]) \in Int
<1>0. Int \in {Nat, Int}
  OBVIOUS
<1>1. Sums(Total(S, f), SUBSET S, f)
  BY <1>0, SumsExist
<1>2. \A s \in SUBSET S : Total(S, f)[s] \in Int
  BY <1>0, <1>1, SumsTyped
<1> QED
  BY <1>2, SumRestricted

-----------------------------------------------------------------------------
(* Folds over the places of a sequence *)

\* Induction up to n, for the set T of the places a claim holds at.
LEMMA UpTo ==
  ASSUME NEW n \in Nat, NEW T, 0 \in T, \A i \in 1..n : i - 1 \in T => i \in T
  PROVE  0..n \subseteq T
<1> DEFINE U == {i \in 0..n : i \notin T}
<1> SUFFICES ASSUME U # {} PROVE FALSE
  OBVIOUS
<1>1. U \in SUBSET Nat
  OBVIOUS
<1>2. PICK i \in U : \A j \in U : i <= j
  <2> HIDE DEF U
  <2> QED
    BY <1>1, LeastNatural
<1>3. i \in 1..n /\ i - 1 \in 0..n /\ ~(i <= i - 1)
  BY <1>2
<1>4. i - 1 \in T
  BY <1>2, <1>3
<1> QED
  BY <1>2, <1>3, <1>4

\* f starts at x0 and takes the steps of g.
StepsOf(f, n, x0, g) == f = [i \in 0..n |-> IF i = 0 THEN x0 ELSE g[<<f[i - 1], i>>]]

\* A recursion over the places 0..n defines a function.
LEMMA FoldExists ==
  ASSUME NEW n \in Nat, NEW X, NEW x0 \in X, NEW g \in [X \X (1..n) -> X]
  PROVE  \E f \in [0..n -> X] : StepsOf(f, n, x0, g)
<1> DEFINE Is(f, m) == f = [i \in 0..m |-> IF i = 0 THEN x0 ELSE g[<<f[i - 1], i>>]]
           T == {m \in 0..n : \E f \in [0..m -> X] : Is(f, m)}
<1>1. 0 \in T
  <2> DEFINE f == [i \in 0..0 |-> x0]
  <2>1. f \in [0..0 -> X]
    OBVIOUS
  <2>2. \A i \in 0..0 : i = 0
    OBVIOUS
  <2>3. Is(f, 0)
    BY <2>2
  <2> HIDE DEF f, Is
  <2>4. 0 \in 0..n /\ \E h \in [0..0 -> X] : Is(h, 0)
    BY <2>1, <2>3
  <2> QED
    BY <2>4
<1>2. ASSUME NEW m \in 1..n, m - 1 \in T PROVE m \in T
  <2>1. PICK f \in [0..(m - 1) -> X] : Is(f, m - 1)
    BY <1>2
  <2> DEFINE v == g[<<f[m - 1], m>>]
             h == [i \in 0..m |-> IF i = m THEN v ELSE f[i]]
  <2>2. m \in Nat /\ m - 1 \in 0..(m - 1) /\ m # 0 /\ m \in 0..n
    OBVIOUS
  <2>3. v \in X
    <3>1. <<f[m - 1], m>> \in X \X (1..n)
      BY <2>1, <2>2
    <3> QED
      BY <3>1
  <2> HIDE DEF v
  <2>4. ASSUME NEW i \in 0..m, i # m
        PROVE  i \in 0..(m - 1) /\ h[i] = f[i] /\ (i # 0 => i - 1 \in 0..m /\ i - 1 # m /\ i - 1 \in 0..(m - 1))
    BY <2>2, <2>4
  <2>5. h \in [0..m -> X]
    BY <2>1, <2>3, <2>4
  <2>6. ASSUME NEW i \in 0..m
        PROVE  h[i] = IF i = 0 THEN x0 ELSE g[<<h[i - 1], i>>]
    <3>1. CASE i = m
      <4>1. m - 1 \in 0..m /\ m - 1 # m /\ h[m - 1] = f[m - 1] /\ h[m] = v
        BY <2>2
      <4> HIDE DEF h
      <4> QED
        BY <2>2, <3>1, <4>1 DEF v
    <3>2. CASE i # m
      <4>1. h[i] = f[i] /\ i \in 0..(m - 1)
        BY <2>4, <3>2
      <4>2. i # 0 => h[i - 1] = f[i - 1]
        BY <2>4, <3>2
      <4>3. f[i] = IF i = 0 THEN x0 ELSE g[<<f[i - 1], i>>]
        BY <2>1, <4>1
      <4> HIDE DEF h
      <4> QED
        BY <4>1, <4>2, <4>3
    <3> QED
      BY <3>1, <3>2
  <2>7. DOMAIN h = 0..m /\ h = [i \in 0..m |-> h[i]]
    OBVIOUS
  <2> HIDE DEF h
  <2>8. Is(h, m)
    BY <2>6, <2>7
  <2> QED
    BY <2>2, <2>5, <2>8
<1>3. n \in 0..n
  OBVIOUS
<1> HIDE DEF T
<1>4. n \in T
  BY <1>1, <1>2, <1>3, UpTo
<1> QED
  BY <1>4 DEF T, StepsOf

-----------------------------------------------------------------------------
(* What the rows of a journal moved *)

\* f is the running sum of the rows of some kinds.
Running(f, rows, kinds) ==
  f = [i \in 0..Len(rows) |->
         IF i = 0 THEN 0
         ELSE f[i - 1] + (IF rows[i].kind \in kinds THEN rows[i].amount ELSE 0)]

LEMMA AmountsExist ==
  ASSUME NEW rows \in Seq(Rows), NEW kinds
  PROVE  \E f \in [0..Len(rows) -> Int] : Running(f, rows, kinds)
<1> DEFINE n == Len(rows)
           a(i) == IF rows[i].kind \in kinds THEN rows[i].amount ELSE 0
           g == [p \in Int \X (1..n) |-> p[1] + a(p[2])]
<1>1. n \in Nat /\ \A i \in 1..n : a(i) \in Int
  <2>1. n \in Nat /\ \A i \in 1..n : rows[i] \in Rows
    OBVIOUS
  <2>2. \A x \in Rows : x.amount \in Int
    BY DEF Rows
  <2> QED
    BY <2>1, <2>2
<1> HIDE DEF a
<1>2. g \in [Int \X (1..n) -> Int] /\ 0 \in Int
  BY <1>1
<1>3. PICK f \in [0..n -> Int] : StepsOf(f, n, 0, g)
  <2> HIDE DEF g, n
  <2> QED
    BY <1>1, <1>2, FoldExists
<1>4. ASSUME NEW i \in 0..n PROVE f[i] = IF i = 0 THEN 0 ELSE f[i - 1] + a(i)
  <2>1. f[i] = IF i = 0 THEN 0 ELSE g[<<f[i - 1], i>>]
    BY <1>3 DEF StepsOf
  <2> HIDE DEF n
  <2>2. i # 0 => <<f[i - 1], i>> \in Int \X (1..n)
    <3>1. i # 0 => i - 1 \in 0..n /\ i \in 1..n
      BY <1>1
    <3> QED
      BY <1>3, <3>1
  <2> QED
    BY <2>1, <2>2
<1>5. f = [i \in 0..n |-> IF i = 0 THEN 0 ELSE f[i - 1] + a(i)]
  <2> HIDE DEF n, g
  <2> QED
    BY <1>3, <1>4
<1> QED
  BY <1>5 DEF Running, a

\* The sum over a journal is a number, and a row adds its amount to it.
LEMMA AmountsIs ==
  ASSUME NEW rows \in Seq(Rows), NEW kinds
  PROVE  LET f == CHOOSE f : Running(f, rows, kinds) IN
         /\ Running(f, rows, kinds)
         /\ Amounts(rows, kinds) = f[Len(rows)]
         /\ \A i \in 0..Len(rows) : f[i] \in Int
<1> DEFINE f == CHOOSE f : Running(f, rows, kinds)
           T == {i \in 0..Len(rows) : f[i] \in Int}
<1>1. Running(f, rows, kinds)
  BY AmountsExist
<1>2. Amounts(rows, kinds) = f[Len(rows)]
  BY DEF Amounts, Running
<1> HIDE DEF f
<1>3. 0..Len(rows) \subseteq T
  <2>1. Len(rows) \in Nat
    OBVIOUS
  <2>2. 0 \in T
    BY <1>1 DEF Running
  <2>3. ASSUME NEW i \in 1..Len(rows), i - 1 \in T PROVE i \in T
    <3>1. rows[i] \in Rows /\ i \in 0..Len(rows) /\ i # 0
      OBVIOUS
    <3>2. rows[i].amount \in Int
      BY <3>1 DEF Rows
    <3>3. f[i] = f[i - 1] + (IF rows[i].kind \in kinds THEN rows[i].amount ELSE 0)
      BY <1>1, <3>1 DEF Running
    <3> QED
      BY <2>3, <3>1, <3>2, <3>3
  <2> HIDE DEF T
  <2> QED
    BY <2>1, <2>2, <2>3, UpTo
<1> QED
  BY <1>1, <1>2, <1>3 DEF f

\* A row changes nothing of the running sum before it.
LEMMA RunningAppend ==
  ASSUME NEW rows \in Seq(Rows), NEW r \in Rows, NEW kinds
  PROVE  LET f == CHOOSE f : Running(f, rows, kinds)
             g == CHOOSE h : Running(h, Append(rows, r), kinds)
         IN \A i \in 0..Len(rows) : g[i] = f[i]
<1> DEFINE more == Append(rows, r)
           n == Len(rows)
           f == CHOOSE f : Running(f, rows, kinds)
           g == CHOOSE h : Running(h, more, kinds)
           T == {i \in 0..n : f[i] = g[i]}
<1>1. /\ more \in Seq(Rows) /\ n \in Nat /\ Len(more) = n + 1 /\ more[n + 1] = r
      /\ \A i \in 1..n : more[i] = rows[i]
  OBVIOUS
<1>2. /\ Running(f, rows, kinds) /\ Amounts(rows, kinds) = f[n]
      /\ \A i \in 0..n : f[i] \in Int
  BY AmountsIs
<1>3. Running(g, more, kinds) /\ Amounts(more, kinds) = g[n + 1]
  <2> HIDE DEF more
  <2>1. Running(g, more, kinds) /\ Amounts(more, kinds) = g[Len(more)]
    BY <1>1, AmountsIs
  <2> QED
    BY <1>1, <2>1
<1> HIDE DEF f, g, more
<1>4. 0..n \subseteq T
  <2>1. 0 \in T
    BY <1>1, <1>2, <1>3 DEF Running
  <2>2. ASSUME NEW i \in 1..n, i - 1 \in T PROVE i \in T
    <3>1. i \in 0..n /\ i \in 0..(n + 1) /\ i # 0
      BY <1>1
    <3>2. f[i] = f[i - 1] + (IF rows[i].kind \in kinds THEN rows[i].amount ELSE 0)
      BY <1>2, <3>1 DEF Running
    <3>3. g[i] = g[i - 1] + (IF more[i].kind \in kinds THEN more[i].amount ELSE 0)
      BY <1>1, <1>3, <3>1 DEF Running
    <3> QED
      BY <1>1, <2>2, <3>1, <3>2, <3>3
  <2> HIDE DEF T
  <2> QED
    BY <1>1, <2>1, <2>2, UpTo
<1> QED
  BY <1>4 DEF f, g, more

LEMMA AmountsAppend ==
  ASSUME NEW rows \in Seq(Rows), NEW r \in Rows, NEW kinds
  PROVE  /\ Amounts(rows, kinds) \in Int
         /\ Amounts(Append(rows, r), kinds)
              = Amounts(rows, kinds) + (IF r.kind \in kinds THEN r.amount ELSE 0)
<1> DEFINE more == Append(rows, r)
           n == Len(rows)
           f == CHOOSE f : Running(f, rows, kinds)
           g == CHOOSE h : Running(h, more, kinds)
<1>1. /\ more \in Seq(Rows) /\ n \in Nat /\ Len(more) = n + 1 /\ more[n + 1] = r
      /\ \A i \in 1..n : more[i] = rows[i]
  OBVIOUS
<1>2. /\ Running(f, rows, kinds) /\ Amounts(rows, kinds) = f[n]
      /\ \A i \in 0..n : f[i] \in Int
  BY AmountsIs
<1>3. Running(g, more, kinds) /\ Amounts(more, kinds) = g[n + 1]
  <2> HIDE DEF more
  <2>1. Running(g, more, kinds) /\ Amounts(more, kinds) = g[Len(more)]
    BY <1>1, AmountsIs
  <2> QED
    BY <1>1, <2>1
<1>4. g[n] = f[n] /\ n \in 0..n
  <2>1. n \in 0..n
    BY <1>1
  <2> QED
    BY <2>1, RunningAppend
<1> HIDE DEF f, g, more
<1>5. g[n + 1] = g[n] + (IF r.kind \in kinds THEN r.amount ELSE 0)
  <2>1. n + 1 \in 0..(n + 1) /\ n + 1 # 0 /\ (n + 1) - 1 = n
    BY <1>1
  <2>2. g[n + 1] = g[(n + 1) - 1] + (IF more[n + 1].kind \in kinds THEN more[n + 1].amount ELSE 0)
    BY <1>1, <1>3, <2>1 DEF Running
  <2> QED
    BY <1>1, <2>1, <2>2
<1> QED
  BY <1>2, <1>3, <1>4, <1>5 DEF more

\* What the first k rows of a journal moved, corrections left out.
FactsTo(rows, k) == (CHOOSE f : Running(f, rows, FactKinds))[k]

LEMMA FactsToAppend ==
  ASSUME NEW rows \in Seq(Rows), NEW r \in Rows, NEW k \in 0..Len(rows)
  PROVE  FactsTo(Append(rows, r), k) = FactsTo(rows, k)
  BY RunningAppend DEF FactsTo

LEMMA FactsToEnd ==
  ASSUME NEW rows \in Seq(Rows)
  PROVE  /\ FactsTo(rows, Len(rows)) = Facts(rows) /\ Facts(rows) \in Int
         /\ \A k \in 0..Len(rows) : FactsTo(rows, k) \in Int
<1>1. Len(rows) \in 0..Len(rows)
  OBVIOUS
<1> QED
  BY <1>1, AmountsIs DEF FactsTo, Facts

\* The rows after the first k moved the rest.
LEMMA FactsAfter ==
  ASSUME NEW rows \in Seq(Rows), NEW tail \in Seq(Rows), NEW k \in Nat,
         Len(rows) = k + Len(tail), \A i \in 1..Len(tail) : tail[i] = rows[k + i]
  PROVE  Facts(tail) = Facts(rows) - FactsTo(rows, k)
<1> DEFINE f == CHOOSE f : Running(f, rows, FactKinds)
           g == CHOOSE h : Running(h, tail, FactKinds)
           n == Len(tail)
           T == {i \in 0..n : f[k + i] = f[k] + g[i]}
<1>1. /\ Running(f, rows, FactKinds) /\ Facts(rows) = f[Len(rows)]
      /\ \A i \in 0..Len(rows) : f[i] \in Int
  BY AmountsIs DEF Facts
<1>2. /\ Running(g, tail, FactKinds) /\ Facts(tail) = g[n]
      /\ \A i \in 0..n : g[i] \in Int
  BY AmountsIs DEF Facts
<1>3. n \in Nat /\ Len(rows) = k + n /\ FactsTo(rows, k) = f[k]
  BY DEF FactsTo
<1> HIDE DEF f, g, n
<1>4. k \in 0..Len(rows) /\ f[k] \in Int
  BY <1>1, <1>3
<1>5. 0 \in T
  <2>1. 0 \in 0..n /\ g[0] = 0 /\ k + 0 = k
    BY <1>2, <1>3 DEF Running, n
  <2> QED
    BY <1>4, <2>1
<1>6. ASSUME NEW i \in 1..n, i - 1 \in T PROVE i \in T
  <2> DEFINE j == k + i
             x == IF tail[i].kind \in FactKinds THEN tail[i].amount ELSE 0
  <2>1. /\ i \in 0..n /\ i # 0 /\ i - 1 \in 0..n /\ j \in 0..Len(rows) /\ j # 0
        /\ j - 1 = k + (i - 1) /\ j - 1 \in 0..Len(rows)
    BY <1>3
  <2>2. g[i] = g[i - 1] + x
    BY <1>2, <2>1 DEF Running, n
  <2>3. rows[j] = tail[i]
    BY DEF n
  <2> HIDE DEF j
  <2>4. f[j] = f[j - 1] + x
    BY <1>1, <2>1, <2>3 DEF Running
  <2>5. x \in Int
    <3>1. tail[i] \in Rows
      BY DEF n
    <3> QED
      BY <3>1 DEF Rows
  <2> HIDE DEF x
  <2>6. f[j - 1] = f[k] + g[i - 1]
    BY <1>6, <2>1
  <2>7. g[i - 1] \in Int /\ f[j - 1] \in Int
    BY <1>1, <1>2, <2>1
  <2>8. f[j] = f[k] + g[i]
    BY <1>4, <2>2, <2>4, <2>5, <2>6, <2>7
  <2> QED
    BY <2>1, <2>8 DEF j
<1>7. n \in T
  <2> HIDE DEF T
  <2>1. 0..n \subseteq T
    BY <1>3, <1>5, <1>6, UpTo
  <2> QED
    BY <1>3, <2>1
<1>8. f[k + n] = f[k] + g[n] /\ g[n] \in Int
  BY <1>2, <1>3, <1>7
<1>9. Facts(rows) = FactsTo(rows, k) + Facts(tail)
  BY <1>1, <1>2, <1>3, <1>8
<1>10. FactsTo(rows, k) \in Int /\ Facts(tail) \in Int
  BY <1>2, <1>3, <1>4, <1>8
<1> QED
  BY <1>9, <1>10

-----------------------------------------------------------------------------
(* Numbers *)

LEMMA ProductInt == ASSUME NEW a \in Int, NEW b \in Int PROVE a * b \in Int
  OBVIOUS

LEMMA ProductNat == ASSUME NEW a \in Nat, NEW b \in Nat PROVE a * b \in Nat
  OBVIOUS

LEMMA QuotientNat ==
  ASSUME NEW a \in Nat, NEW b \in Nat \ {0}
  PROVE  a \div b \in Nat /\ (a = 0 => a \div b = 0)
  OBVIOUS

\* The constants of an order and of a trade.
LEMMA OrderNumbers == ASSUME NEW o \in Orders
                      PROVE  Price[o] \in Nat /\ Size[o] \in Nat /\ Price[o] # 0 /\ Size[o] # 0
  BY MoneyAssumption

LEMMA TradeNumbers == ASSUME NEW t \in Trades
                      PROVE  /\ Px[t] \in Nat /\ Qty[t] \in Nat /\ Qty[t] # 0
                             /\ Fee[t] \in Nat /\ Stamp[t] \in Nat
  BY MoneyAssumption

LEMMA FeeFacts ==
  ASSUME NEW t \in Trades, NEW d \in Int
  PROVE  /\ FeeOn(t, d) \in Nat
         /\ d <= 0 \/ Fee[t] = 0 => FeeOn(t, d) = 0
<1>1. Fee[t] \in Nat /\ Qty[t] \in Nat \ {0}
  BY TradeNumbers
<1>2. CASE d > 0
  <2>1. Fee[t] * d \in Nat
    BY <1>1, <1>2, ProductNat
  <2>2. Fee[t] = 0 => Fee[t] * d = 0
    BY <1>1
  <2>3. (Fee[t] * d) \div Qty[t] \in Nat /\ (Fee[t] * d = 0 => (Fee[t] * d) \div Qty[t] = 0)
    BY <1>1, <2>1, QuotientNat
  <2> QED
    BY <1>2, <2>2, <2>3 DEF FeeOn
<1>3. CASE ~(d > 0)
  BY <1>3 DEF FeeOn
<1> QED
  BY <1>2, <1>3

LEMMA FloorFacts ==
  ASSUME NEW x \in Int
  PROVE  AtLeastZero(x) \in Nat /\ (x >= 0 => AtLeastZero(x) = x)
  BY DEF AtLeastZero

-----------------------------------------------------------------------------
(* The ledger *)

\* A restart finds the balance in the last row of the journal.
Replayable(l) == l.balance = IF l.file = <<>> THEN 0 ELSE l.file[Len(l.file)].after

Sound(l) == l \in Ledgers /\ Replayable(l)

\* The journal still begins with what it held when the cursor of a report was
\* set, and the cursor still counts the rows from there.
Past(l, mark) ==
  mark.some =>
    /\ mark.rows \in Nat /\ mark.rows <= Len(l.file)
    /\ mark.cursor \in Nat /\ l.total - mark.cursor = Len(l.file) - mark.rows
    /\ mark.last \in Int /\ mark.gap \in Int
    /\ FactsTo(l.file, mark.rows) = mark.last - mark.gap

\* m is l after bookings that are no correction of the venue's.
Drawn(l, m, mark) ==
  /\ Sound(m) /\ Realigned(m.file) = Realigned(l.file)
  /\ Past(l, mark) => Past(m, mark)

LEMMA LedgerFields ==
  ASSUME NEW l \in Ledgers
  PROVE  /\ l.balance \in Nat /\ l.res \in [Orders -> Nat] /\ l.file \in Seq(Rows)
         /\ l.total \in Nat /\ Realigned(l.file) \in Int
<1>1. /\ l.balance \in Nat /\ l.res \in [Orders -> Nat] /\ l.file \in Seq(Rows)
      /\ l.total \in Nat
  BY DEF Ledgers
<1>2. \E r \in Rows : TRUE
  <2>1. [kind |-> "Fee", amount |-> 0, after |-> 0] \in Rows
    BY DEF Rows, Kinds
  <2> QED
    BY <2>1
<1>3. Realigned(l.file) \in Int
  BY <1>1, <1>2, AmountsAppend DEF Realigned
<1> QED
  BY <1>1, <1>3

LEMMA ApplyFacts ==
  ASSUME NEW mark, NEW l, Sound(l), NEW kind \in Kinds, NEW requested \in Int
  PROVE  LET m == Apply(l, kind, requested) IN
         /\ Sound(m) /\ m.res = l.res
         /\ m.balance = AtLeastZero(l.balance + requested)
         /\ Realigned(m.file) = IF kind = "Realign"
                                THEN Realigned(l.file) + (m.balance - l.balance)
                                ELSE Realigned(l.file)
         /\ Past(l, mark) => Past(m, mark)
<1> DEFINE new == AtLeastZero(l.balance + requested)
           r == [kind |-> kind, amount |-> new - l.balance, after |-> new]
           f == Append(l.file, r)
           m == Apply(l, kind, requested)
<1>1. /\ l \in Ledgers /\ l.balance \in Nat /\ l.file \in Seq(Rows) /\ l.total \in Nat
      /\ l.res \in [Orders -> Nat] /\ Realigned(l.file) \in Int
  BY LedgerFields DEF Sound
<1>2. new \in Nat
  BY <1>1, FloorFacts
<1>3. CASE new - l.balance = 0
  BY <1>1, <1>2, <1>3 DEF Apply
<1>4. CASE new - l.balance # 0
  <2>1. r \in Rows /\ r.kind = kind /\ r.amount = new - l.balance /\ r.after = new
    BY <1>1, <1>2 DEF Rows
  <2>2. m = [l EXCEPT !.balance = new, !.total = l.total + 1, !.file = f]
    BY <1>1, <1>4 DEF Apply, Ledgers
  <2> HIDE DEF r, new, m
  <2>3. f \in Seq(Rows) /\ Len(f) = Len(l.file) + 1 /\ f # <<>> /\ f[Len(f)] = r
    BY <1>1, <2>1
  <2>4. Realigned(f) = Realigned(l.file) + (IF kind = "Realign" THEN new - l.balance ELSE 0)
    <3>1. Amounts(f, {"Realign"})
            = Amounts(l.file, {"Realign"}) + (IF r.kind \in {"Realign"} THEN r.amount ELSE 0)
      BY <1>1, <2>1, AmountsAppend
    <3> QED
      BY <2>1, <3>1 DEF Realigned
  <2>a. ASSUME NEW k \in 0..Len(l.file) PROVE FactsTo(f, k) = FactsTo(l.file, k)
    BY <1>1, <2>1, FactsToAppend
  <2> HIDE DEF f
  <2>5. /\ m \in Ledgers /\ m.balance = new /\ m.file = f /\ m.res = l.res
        /\ m.total = l.total + 1
    <3> DEFINE n == l.total + 1
    <3>1. n \in Nat
      BY <1>1
    <3>2. m = [l EXCEPT !.balance = new, !.total = n, !.file = f]
      BY <2>2
    <3> HIDE DEF n
    <3> QED
      <4>1. /\ m \in Ledgers /\ m.balance = new /\ m.file = f /\ m.res = l.res
            /\ m.total = n
        BY <1>1, <1>2, <2>3, <3>1, <3>2 DEF Ledgers
      <4> QED
        BY <4>1 DEF n
  <2>6. Sound(m)
    BY <2>1, <2>3, <2>5 DEF Sound, Replayable
  <2>7. ASSUME Past(l, mark) PROVE Past(m, mark)
    <3>1. mark.some => mark.rows \in 0..Len(l.file)
      BY <2>7 DEF Past
    <3>2. Len(l.file) \in Nat /\ Len(f) = Len(l.file) + 1
      BY <1>1, <2>3
    <3>3. mark.some => FactsTo(f, mark.rows) = FactsTo(l.file, mark.rows)
      BY <2>a, <3>1
    <3>4. l.total \in Nat /\ m.total = l.total + 1 /\ m.file = f
      BY <1>1, <2>5
    <3> HIDE DEF f, m
    <3> SUFFICES ASSUME mark.some
                 PROVE  /\ mark.rows \in Nat /\ mark.rows <= Len(m.file)
                        /\ mark.cursor \in Nat
                        /\ m.total - mark.cursor = Len(m.file) - mark.rows
                        /\ mark.last \in Int /\ mark.gap \in Int
                        /\ FactsTo(m.file, mark.rows) = mark.last - mark.gap
      BY DEF Past
    <3>5. /\ mark.rows \in Nat /\ mark.rows <= Len(l.file) /\ mark.cursor \in Nat
          /\ l.total - mark.cursor = Len(l.file) - mark.rows
          /\ mark.last \in Int /\ mark.gap \in Int
          /\ FactsTo(l.file, mark.rows) = mark.last - mark.gap
      BY <2>7 DEF Past
    <3> QED
      BY <3>2, <3>3, <3>4, <3>5
  <2> QED
    BY <1>1, <1>2, <2>4, <2>5, <2>6, <2>7 DEF m, new
<1> QED
  BY <1>1, <1>2, <1>3, <1>4

\* The reservations alone.
LEMMA ReservationsFacts ==
  ASSUME NEW mark, NEW l, Sound(l), NEW res \in [Orders -> Nat]
  PROVE  LET m == [l EXCEPT !.res = res] IN
         /\ Drawn(l, m, mark) /\ m.res = res /\ m.balance = l.balance /\ m.file = l.file
  BY DEF Sound, Replayable, Ledgers, Drawn, Past

LEMMA OutstandingFacts ==
  ASSUME NEW rows \in [Orders -> OrderRows], NEW o \in Orders
  PROVE  Outstanding(rows, o) \in Nat
<1>1. rows[o].filled \in Nat
  BY DEF OrderRows
<1>2. AtLeastZero(Size[o] - rows[o].filled) \in Nat
  BY <1>1, OrderNumbers, FloorFacts
<1> QED
  BY <1>2, OrderNumbers, ProductNat DEF Outstanding

\* What a fill can name as its order.
Refs == Orders \cup {NoOrder}

\* Only the order o gives up a reservation, and nothing for released <= 0.
Released(l, m, o, released) ==
  /\ \A p \in Orders : p # o => m.res[p] = l.res[p]
  /\ o = NoOrder \/ released <= 0 => m.res = l.res

\* What a BUY, or the rollback of a SELL, costs.
LEMMA BuyCostFacts ==
  ASSUME NEW mark, NEW l, Sound(l), NEW o \in Refs, NEW cost \in Int, NEW released \in Int
  PROVE  LET m == BuyCost(l, o, cost, released) IN
         Drawn(l, m, mark) /\ Released(l, m, o, released)
<1>0. -cost \in Int /\ "BuyFill" \in Kinds /\ "BuyFill" # "Realign"
  BY DEF Kinds
<1>1. CASE o = NoOrder
  <2>1. Drawn(l, Apply(l, "BuyFill", -cost), mark) /\ Apply(l, "BuyFill", -cost).res = l.res
    BY <1>0, ApplyFacts DEF Drawn
  <2> QED
    BY <1>1, <2>1 DEF BuyCost, Released
<1>2. CASE o # NoOrder
  <2> DEFINE draw == Smaller(AtLeastZero(released), l.res[o])
             x == l.res[o] - draw
             rs == [l.res EXCEPT ![o] = x]
             k == [l EXCEPT !.res = rs]
  <2>0. o \in Orders /\ l \in Ledgers /\ l.res \in [Orders -> Nat] /\ l.res[o] \in Nat
    BY <1>2, LedgerFields DEF Sound, Refs
  <2>1. draw \in Nat /\ draw <= l.res[o] /\ (released <= 0 => draw = 0)
    BY <2>0, FloorFacts DEF Smaller, AtLeastZero
  <2> HIDE DEF draw
  <2>2. x \in Nat /\ (released <= 0 => x = l.res[o])
    BY <2>0, <2>1
  <2>3. [l EXCEPT !.res[o] = @ - draw] = k
    BY <2>0 DEF Ledgers
  <2> HIDE DEF x
  <2>4. /\ rs \in [Orders -> Nat] /\ \A p \in Orders : p # o => rs[p] = l.res[p]
        /\ released <= 0 => rs = l.res
    BY <2>0, <2>2
  <2> HIDE DEF rs
  <2>5. Drawn(l, k, mark) /\ k.res = rs
    BY <2>4, ReservationsFacts
  <2>6. BuyCost(l, o, cost, released) = Apply(k, "BuyFill", -cost)
    BY <1>2, <2>3 DEF BuyCost, SettleBuyFill, draw
  <2> HIDE DEF k
  <2>7. Drawn(k, Apply(k, "BuyFill", -cost), mark) /\ Apply(k, "BuyFill", -cost).res = rs
    BY <1>0, <2>5, ApplyFacts DEF Drawn
  <2> QED
    BY <1>2, <2>4, <2>5, <2>6, <2>7 DEF Drawn, Released
<1> QED
  BY <1>1, <1>2

LEMMA SettleSellFacts ==
  ASSUME NEW mark, NEW l, Sound(l), NEW proceeds \in Int, NEW fee \in Int
  PROVE  Drawn(l, SettleSellFill(l, proceeds, fee), mark) /\ SettleSellFill(l, proceeds, fee).res = l.res
<1>1. proceeds - fee \in Int /\ "SellFill" \in Kinds /\ "SellFill" # "Realign"
  BY DEF Kinds
<1> QED
  BY <1>1, ApplyFacts DEF SettleSellFill, Drawn

LEMMA ChargeFeeFacts ==
  ASSUME NEW mark, NEW l, Sound(l), NEW fee \in Int
  PROVE  Drawn(l, ChargeFee(l, fee), mark) /\ ChargeFee(l, fee).res = l.res
<1>1. -fee \in Int /\ "Fee" \in Kinds /\ "Fee" # "Realign"
  BY DEF Kinds
<1> QED
  BY <1>1, ApplyFacts DEF ChargeFee, Drawn

\* The side of a trade is its order's.
LEMMA SideFacts ==
  ASSUME NEW t \in Trades
  PROVE  /\ SideOf(t) \in {"Buy", "Sell"}
         /\ TradeOrder[t] # NoOrder => /\ TradeOrder[t] \in Orders
                                       /\ (SideOf(t) = "Buy") <=> TradeOrder[t] \in BuyOrders
  BY TradesAssumption DEF SideOf

\* A fill touches the reservation of its own BUY and no other.
LEMMA CashEffectFacts ==
  ASSUME NEW mark, NEW l, Sound(l), NEW t \in Trades, NEW o \in Refs, NEW d \in Int,
         NEW rows \in [Orders -> OrderRows]
  PROVE  LET m == CashEffect(l, t, o, d, rows) IN
         /\ Drawn(l, m, mark)
         /\ \A p \in Orders : m.res[p] = IF p = o /\ SideOf(t) = "Buy"
                                         THEN Outstanding(rows, o) ELSE l.res[p]
<1> DEFINE reserved == IF o = NoOrder THEN 0 ELSE Price[o] * d
           fee == FeeOn(t, d)
           cost == Px[t] * d
           back == -Px[t] * d
           fresh == BuyCost(l, o, cost, reserved)
           paid == ChargeFee(fresh, fee)
           bought == IF d > 0 THEN paid ELSE SettleSellFill(l, back, 0)
           m == CashEffect(l, t, o, d, rows)
<1>0. /\ reserved \in Int /\ fee \in Int /\ cost \in Int /\ back \in Int /\ 0 \in Int
      /\ 0 <= 0
  <2>1. fee \in Int /\ Px[t] \in Int /\ -Px[t] \in Int
    BY FeeFacts, TradeNumbers
  <2>2. o # NoOrder => Price[o] \in Int
    BY OrderNumbers DEF Refs
  <2> HIDE DEF fee
  <2> QED
    BY <2>1, <2>2, ProductInt
<1>1. SideOf(t) \in {"Buy", "Sell"}
  BY SideFacts
<1>a. NoOrder \notin Orders
  BY TradesAssumption
<1> HIDE DEF reserved, fee, cost, back
<1>2. Drawn(l, bought, mark) /\ \A p \in Orders : p # o => bought.res[p] = l.res[p]
  <2>1. Drawn(l, fresh, mark) /\ \A p \in Orders : p # o => fresh.res[p] = l.res[p]
    <3>1. Drawn(l, fresh, mark) /\ Released(l, fresh, o, reserved)
      BY <1>0, BuyCostFacts
    <3> QED
      BY <3>1 DEF Released
  <2> HIDE DEF fresh
  <2>2. Drawn(fresh, paid, mark) /\ paid.res = fresh.res
    BY <1>0, <2>1, ChargeFeeFacts DEF Drawn
  <2> HIDE DEF paid
  <2>3. Drawn(l, SettleSellFill(l, back, 0), mark) /\ SettleSellFill(l, back, 0).res = l.res
    BY <1>0, SettleSellFacts
  <2> QED
    BY <2>1, <2>2, <2>3 DEF Drawn
<1>3. CASE SideOf(t) = "Sell"
  <2>1. m = IF d > 0 THEN SettleSellFill(l, cost, fee) ELSE BuyCost(l, o, back, 0)
    BY <1>3 DEF CashEffect, cost, fee, back
  <2>2. Drawn(l, SettleSellFill(l, cost, fee), mark) /\ SettleSellFill(l, cost, fee).res = l.res
    BY <1>0, SettleSellFacts
  <2>3. Drawn(l, BuyCost(l, o, back, 0), mark) /\ BuyCost(l, o, back, 0).res = l.res
    <3>1. Drawn(l, BuyCost(l, o, back, 0), mark) /\ Released(l, BuyCost(l, o, back, 0), o, 0)
      BY <1>0, BuyCostFacts
    <3> QED
      BY <1>0, <3>1 DEF Released
  <2>4. Drawn(l, m, mark) /\ m.res = l.res
    BY <2>1, <2>2, <2>3
  <2> QED
    BY <1>3, <2>4
<1>4. CASE SideOf(t) = "Buy" /\ o = NoOrder
  <2>1. m = bought
    BY <1>4 DEF CashEffect, cost, fee, back, reserved
  <2> HIDE DEF bought, m
  <2>2. \A p \in Orders : p # o
    BY <1>4, <1>a
  <2> QED
    BY <1>2, <2>1, <2>2 DEF m
<1>5. CASE SideOf(t) = "Buy" /\ o # NoOrder
  <2> DEFINE x == Outstanding(rows, o)
             rs == [bought.res EXCEPT ![o] = x]
             k == [bought EXCEPT !.res = rs]
  <2>1. m = SyncBuyReservation(bought, o, x)
    BY <1>5 DEF CashEffect, cost, fee, back, reserved
  <2> HIDE DEF bought, m
  <2>2. o \in Orders /\ x \in Nat /\ AtLeastZero(x) = x
    BY <1>5, OutstandingFacts DEF AtLeastZero, Refs
  <2>3. Sound(bought) /\ bought \in Ledgers /\ bought.res \in [Orders -> Nat]
    BY <1>2, LedgerFields DEF Drawn, Sound
  <2> HIDE DEF x
  <2>4. m = k
    BY <2>1, <2>2, <2>3 DEF SyncBuyReservation, Ledgers
  <2>5. rs \in [Orders -> Nat] /\ rs[o] = x /\ \A p \in Orders : p # o => rs[p] = l.res[p]
    BY <1>2, <2>2, <2>3
  <2> HIDE DEF rs
  <2>6. Drawn(bought, k, mark) /\ k.res = rs
    BY <2>3, <2>5, ReservationsFacts
  <2> HIDE DEF k
  <2>7. Drawn(l, m, mark) /\ \A p \in Orders : m.res[p] = IF p = o THEN x ELSE l.res[p]
    BY <1>2, <2>2, <2>4, <2>5, <2>6 DEF Drawn
  <2> QED
    BY <1>5, <2>7 DEF m, x
<1> QED
  BY <1>1, <1>3, <1>4, <1>5

-----------------------------------------------------------------------------
(* The position and the trade log *)

Held == Positions \cup {None}
CredentialMaps == [Trades -> Credentials \cup {None}]
Books == [led : Ledgers, pos : Held, realized : Int, creds : CredentialMaps]

\* What the open position has cost or earned so far.
NetOf(p) == IF p = None THEN 0 ELSE Net(p)

LEMMA PositionFields ==
  ASSUME NEW p \in Positions
  PROVE  /\ p.shares \in Nat /\ p.opened \in Nat /\ p.sold \in Nat /\ p.entryCost \in Nat
         /\ p.entryFee \in Nat /\ p.proceeds \in Nat /\ p.exitFee \in Nat
         /\ Net(p) \in Int /\ p # None /\ NetOf(p) = Net(p)
<1>1. /\ p.shares \in Nat /\ p.opened \in Nat /\ p.sold \in Nat /\ p.entryCost \in Nat
      /\ p.entryFee \in Nat /\ p.proceeds \in Nat /\ p.exitFee \in Nat
  BY DEF Positions
<1>2. p # None
  BY NoneAssumption
<1> QED
  BY <1>1, <1>2 DEF Net, NetOf

LEMMA EntryFillFacts ==
  ASSUME NEW p \in Positions, NEW t \in Trades, NEW d \in Int
  PROVE  LET q == EntryFill(p, t, d) IN
         /\ q \in Positions
         /\ ~EntryFloored(p, t, d) => Net(q) = Net(p) - Px[t] * d - FeeOn(t, d)
<1> DEFINE a == AtLeastZero(p.shares + d)
           b == AtLeastZero(p.opened + d)
           w == Px[t] * d
           c == AtLeastZero(p.entryCost + w)
           e == p.entryFee + FeeOn(t, d)
           q == EntryFill(p, t, d)
<1>1. /\ p.shares \in Nat /\ p.opened \in Nat /\ p.sold \in Nat /\ p.entryCost \in Nat
      /\ p.entryFee \in Nat /\ p.proceeds \in Nat /\ p.exitFee \in Nat
  BY PositionFields
<1>2. w \in Int /\ FeeOn(t, d) \in Nat
  BY TradeNumbers, FeeFacts, ProductInt
<1>3. q = [p EXCEPT !.shares = a, !.opened = b, !.entryCost = c, !.entryFee = e]
  BY DEF EntryFill, Positions
<1>4. ~EntryFloored(p, t, d) => p.entryCost + w >= 0
  <2> HIDE DEF w
  <2>1. ~EntryFloored(p, t, d) => ~(p.entryCost + w < 0)
    BY DEF EntryFloored, w
  <2> QED
    BY <1>1, <1>2, <2>1
<1> HIDE DEF w, q
<1>5. a \in Nat /\ b \in Nat /\ c \in Nat /\ (~EntryFloored(p, t, d) => c = p.entryCost + w)
  BY <1>1, <1>2, <1>4, FloorFacts
<1>6. e \in Nat /\ e = p.entryFee + FeeOn(t, d)
  BY <1>1, <1>2
<1> HIDE DEF a, b, c, e
<1>7. /\ q \in Positions /\ q.entryCost = c /\ q.entryFee = e /\ q.proceeds = p.proceeds
      /\ q.exitFee = p.exitFee
  BY <1>3, <1>5, <1>6 DEF Positions
<1>8. ~EntryFloored(p, t, d) => Net(q) = Net(p) - w - FeeOn(t, d)
  BY <1>1, <1>2, <1>5, <1>6, <1>7 DEF Net
<1> QED
  BY <1>7, <1>8 DEF q, w

LEMMA ExitFillFacts ==
  ASSUME NEW p \in Positions, NEW t \in Trades, NEW d \in Int
  PROVE  LET q == ExitFill(p, t, d) IN
         /\ q \in Positions
         /\ d < 0 => q.shares > 0
         /\ d >= 0 \/ ~ExitFloored(p, t, d) => Net(q) = Net(p) + Px[t] * d - FeeOn(t, d)
<1> DEFINE a == AtLeastZero(p.shares - d)
           b == AtLeastZero(p.sold + d)
           w == Px[t] * d
           c == AtLeastZero(p.proceeds + w)
           e == p.exitFee + FeeOn(t, d)
           q == ExitFill(p, t, d)
           Whole == d >= 0 \/ ~ExitFloored(p, t, d)
<1>1. /\ p.shares \in Nat /\ p.opened \in Nat /\ p.sold \in Nat /\ p.entryCost \in Nat
      /\ p.entryFee \in Nat /\ p.proceeds \in Nat /\ p.exitFee \in Nat
  BY PositionFields
<1>2. w \in Int /\ FeeOn(t, d) \in Nat /\ (d >= 0 => w >= 0)
  <2>1. Px[t] \in Nat /\ FeeOn(t, d) \in Nat /\ w \in Int
    BY TradeNumbers, FeeFacts, ProductInt
  <2>2. d >= 0 => w \in Nat
    BY <2>1, ProductNat
  <2> HIDE DEF w
  <2> QED
    BY <2>1, <2>2
<1>3. q = [p EXCEPT !.shares = a, !.sold = b, !.proceeds = c, !.exitFee = e]
  BY DEF ExitFill, Positions
<1>4. Whole => p.proceeds + w >= 0
  <2> HIDE DEF w
  <2>1. ~ExitFloored(p, t, d) => ~(p.proceeds + w < 0)
    BY DEF ExitFloored, w
  <2> QED
    BY <1>1, <1>2, <2>1
<1> HIDE DEF w, q, Whole
<1>5. a \in Nat /\ b \in Nat /\ c \in Nat /\ (Whole => c = p.proceeds + w) /\ (d < 0 => a > 0)
  <2>1. p.shares - d \in Int /\ p.sold + d \in Int /\ p.proceeds + w \in Int
    BY <1>1, <1>2
  <2>2. a \in Nat /\ b \in Nat /\ c \in Nat /\ (Whole => c = p.proceeds + w)
    BY <1>4, <2>1, FloorFacts
  <2>3. d < 0 => a > 0
    BY <1>1 DEF AtLeastZero
  <2> QED
    BY <2>2, <2>3
<1>6. e \in Nat /\ e = p.exitFee + FeeOn(t, d)
  BY <1>1, <1>2
<1> HIDE DEF a, b, c, e
<1>7. /\ q \in Positions /\ q.entryCost = p.entryCost /\ q.entryFee = p.entryFee
      /\ q.proceeds = c /\ q.exitFee = e /\ q.shares = a
  BY <1>3, <1>5, <1>6 DEF Positions
<1>8. Whole => Net(q) = Net(p) + w - FeeOn(t, d)
  BY <1>1, <1>2, <1>5, <1>6, <1>7 DEF Net
<1> QED
  BY <1>5, <1>7, <1>8 DEF q, w, Whole

LEMMA BlankFacts == Blank \in Positions /\ Net(Blank) = 0
  BY DEF Blank, Positions, Net

LEMMA BookFields ==
  ASSUME NEW b \in Books
  PROVE  /\ b.led \in Ledgers /\ b.realized \in Int /\ b.creds \in [Trades -> Credentials \cup {None}]
         /\ b.pos = None \/ b.pos \in Positions
         /\ NetOf(b.pos) \in Int
<1>1. /\ b.led \in Ledgers /\ b.realized \in Int
      /\ b.creds \in [Trades -> Credentials \cup {None}]
      /\ b.pos = None \/ b.pos \in Positions
  BY DEF Books, Held, CredentialMaps
<1> QED
  BY <1>1, PositionFields DEF NetOf

\* Books with one or several parts replaced.
LEMMA BookWith ==
  ASSUME NEW b \in Books
  PROVE  /\ \A x \in Ledgers : LET c == [b EXCEPT !.led = x] IN
              /\ c \in Books /\ c.led = x /\ c.pos = b.pos /\ c.realized = b.realized
              /\ c.creds = b.creds
         /\ \A x \in Held : LET c == [b EXCEPT !.pos = x] IN
              /\ c \in Books /\ c.pos = x /\ c.led = b.led /\ c.realized = b.realized
              /\ c.creds = b.creds
         /\ \A y \in CredentialMaps : LET c == [b EXCEPT !.creds = y] IN
              /\ c \in Books /\ c.pos = b.pos /\ c.led = b.led /\ c.realized = b.realized
              /\ c.creds = y
  BY DEF Books

\* A close credential tells what its trade earned.
CredsOK(b) ==
  \A t \in Trades : b.creds[t] # None =>
    b.creds[t].net = Net(b.creds[t].row) + Px[t] * Qty[t] - FeeOn(t, Qty[t])

LEMMA ProjectEntryFacts ==
  ASSUME NEW b \in Books, NEW t \in Trades, NEW d \in Int
  PROVE  LET r == ProjectEntry(b, t, d) IN
         /\ r.b \in Books /\ r.b.led = b.led /\ r.b.realized = b.realized
         /\ r.b.creds = b.creds /\ r.leak \in SUBSET Leaks
         /\ r.leak = {} => NetOf(r.b.pos) = NetOf(b.pos) - Px[t] * d - FeeOn(t, d)
<1> DEFINE old == IF b.pos = None THEN Blank ELSE b.pos
           new == EntryFill(old, t, d)
           pos == IF new.shares = 0 THEN None ELSE new
           leak == (IF EntryFloored(old, t, d) THEN {"floored"} ELSE {})
                     \cup (IF new.shares = 0 /\ Net(new) # 0 THEN {"dropped"} ELSE {})
           c == [b EXCEPT !.pos = pos]
           w == Px[t] * d
<1>1. old \in Positions /\ Net(old) = NetOf(b.pos)
  BY BookFields, BlankFacts DEF NetOf
<1> HIDE DEF old
<1>2. new \in Positions /\ (~EntryFloored(old, t, d) => Net(new) = Net(old) - w - FeeOn(t, d))
  BY <1>1, EntryFillFacts
<1> HIDE DEF new
<1>3. pos \in Held /\ NetOf(pos) = IF new.shares = 0 THEN 0 ELSE Net(new)
  BY <1>2, PositionFields DEF NetOf, Held
<1>4. ProjectEntry(b, t, d) = [b |-> c, leak |-> leak]
  BY DEF ProjectEntry, old, new
<1>5. leak = {} => ~EntryFloored(old, t, d) /\ ~(new.shares = 0 /\ Net(new) # 0)
  OBVIOUS
<1>6. leak \in SUBSET Leaks
  BY DEF Leaks
<1> HIDE DEF leak, pos
<1>7. c \in Books /\ c.led = b.led /\ c.realized = b.realized /\ c.creds = b.creds /\ c.pos = pos
  BY <1>3, BookWith
<1> HIDE DEF c, w
<1>8. leak = {} => NetOf(pos) = NetOf(b.pos) - w - FeeOn(t, d)
  BY <1>1, <1>2, <1>3, <1>5
<1> QED
  BY <1>4, <1>6, <1>7, <1>8 DEF w

LEMMA ProjectExitFacts ==
  ASSUME NEW b \in Books, CredsOK(b), NEW t \in Trades, NEW d \in {Qty[t], -Qty[t]}
  PROVE  LET r == ProjectExit(b, t, d) IN
         /\ r.b \in Books /\ r.b.led = b.led /\ CredsOK(r.b) /\ r.leak \in SUBSET Leaks
         /\ r.leak = {} => r.b.realized + NetOf(r.b.pos)
                             = b.realized + NetOf(b.pos) + Px[t] * d - FeeOn(t, d)
<1> DEFINE w == Px[t] * d
           r == ProjectExit(b, t, d)
           Good(x) == /\ x.b \in Books /\ x.b.led = b.led /\ CredsOK(x.b) /\ x.leak \in SUBSET Leaks
                      /\ x.leak = {} => x.b.realized + NetOf(x.b.pos)
                                          = b.realized + NetOf(b.pos) + w - FeeOn(t, d)
<1>0. /\ d \in Int /\ d # 0 /\ Qty[t] \in Nat /\ Px[t] \in Nat /\ w \in Int /\ FeeOn(t, d) \in Nat
      /\ (d > 0 => d = Qty[t]) /\ (d < 0 => d = -Qty[t])
  <2>1. Qty[t] \in Nat /\ Px[t] \in Nat /\ Qty[t] # 0
    BY TradeNumbers
  <2>2. d \in Int /\ d # 0 /\ (d > 0 => d = Qty[t]) /\ (d < 0 => d = -Qty[t])
    BY <2>1
  <2> QED
    BY <2>1, <2>2, FeeFacts, ProductInt
<1>a. /\ b.realized \in Int /\ b.creds \in [Trades -> Credentials \cup {None}]
      /\ (b.pos = None \/ b.pos \in Positions) /\ NetOf(b.pos) \in Int
      /\ None \in Held
  BY BookFields DEF Held
<1>1. CASE b.pos # None
  <2> DEFINE new == ExitFill(b.pos, t, d)
             leak == IF ExitFloored(b.pos, t, d) THEN {"floored"} ELSE {}
             net == Net(new)
  <2>1. /\ b.pos \in Positions /\ new \in Positions /\ (d < 0 => new.shares > 0)
        /\ (d >= 0 \/ ~ExitFloored(b.pos, t, d)) => net = Net(b.pos) + w - FeeOn(t, d)
    BY <1>0, <1>1, <1>a, ExitFillFacts
  <2>a. new \in Held
    BY <2>1 DEF Held
  <2>2. leak \in SUBSET Leaks /\ (leak = {} => ~ExitFloored(b.pos, t, d))
    BY DEF Leaks
  <2>3. net \in Int /\ Net(b.pos) \in Int /\ NetOf(b.pos) = Net(b.pos) /\ NetOf(new) = net
        /\ NetOf(None) = 0
    BY <2>1, PositionFields DEF NetOf
  <2>4. r = [b |-> IF new.shares > 0 THEN [b EXCEPT !.pos = new]
                   ELSE [Closed(b, new) EXCEPT !.creds[t] = [row |-> b.pos, net |-> net]],
             leak |-> leak]
    BY <1>1 DEF ProjectExit
  <2> HIDE DEF new, leak, net, w
  <2>5. CASE new.shares > 0
    <3> DEFINE c == [b EXCEPT !.pos = new]
    <3>1. c \in Books /\ c.led = b.led /\ c.pos = new /\ c.realized = b.realized /\ c.creds = b.creds
      BY <2>a, BookWith
    <3>2. r = [b |-> c, leak |-> leak]
      BY <2>4, <2>5
    <3> HIDE DEF c, r
    <3>3. r.b = c /\ r.leak = leak
      BY <3>2
    <3>4. CredsOK(c)
      BY <3>1 DEF CredsOK
    <3>5. leak = {} => c.realized + NetOf(c.pos) = b.realized + NetOf(b.pos) + w - FeeOn(t, d)
      BY <1>0, <1>a, <2>1, <2>2, <2>3, <3>1
    <3> QED
      BY <2>2, <3>1, <3>3, <3>4, <3>5 DEF r, w
  <2>6. CASE ~(new.shares > 0)
    <3> DEFINE k == [row |-> b.pos, net |-> net]
               sum == b.realized + net
               c0 == Closed(b, new)
               ks == [b.creds EXCEPT ![t] = k]
               c == [c0 EXCEPT !.creds = ks]
    <3>1. sum \in Int /\ k \in Credentials /\ k.row = b.pos /\ k.net = net
      BY <1>a, <2>1, <2>3 DEF Credentials
    <3>2. /\ c0 \in Books /\ c0.led = b.led /\ c0.pos = None /\ c0.realized = sum
          /\ c0.creds = b.creds
      <4>1. c0 = [b EXCEPT !.pos = None, !.realized = sum]
        BY DEF Closed, Books, net
      <4> HIDE DEF sum, c0
      <4> QED
        BY <1>a, <3>1, <4>1 DEF Books
    <3> HIDE DEF c0, k
    <3>3. ks \in CredentialMaps /\ ks[t] = k
          /\ \A u \in Trades : u # t => ks[u] = b.creds[u]
      BY <1>a, <3>1 DEF CredentialMaps
    <3>4. [c0 EXCEPT !.creds[t] = k] = c
      BY <3>2 DEF Books
    <3> HIDE DEF ks
    <3>5. c \in Books /\ c.led = b.led /\ c.pos = None /\ c.realized = sum /\ c.creds = ks
      BY <3>2, <3>3, BookWith
    <3> HIDE DEF c, sum
    <3>6. r = [b |-> c, leak |-> leak]
      BY <2>4, <2>6, <3>4 DEF k, c0
    <3>7. d > 0 /\ d = Qty[t] /\ net = Net(b.pos) + w - FeeOn(t, d)
      BY <1>0, <2>1, <2>6
    <3>8. CredsOK(c)
      <4> SUFFICES ASSUME NEW u \in Trades, ks[u] # None
                   PROVE  ks[u].net = Net(ks[u].row) + Px[u] * Qty[u] - FeeOn(u, Qty[u])
        BY <3>5 DEF CredsOK
      <4>1. CASE u = t
        BY <3>1, <3>3, <3>7, <4>1 DEF w
      <4>2. CASE u # t
        BY <3>3, <4>2 DEF CredsOK
      <4> QED
        BY <4>1, <4>2
    <3>9. c.realized + NetOf(c.pos) = b.realized + NetOf(b.pos) + w - FeeOn(t, d)
      BY <1>0, <1>a, <2>3, <3>5, <3>7 DEF sum
    <3> HIDE DEF r
    <3>10. r.b = c /\ r.leak = leak
      BY <3>6
    <3> QED
      BY <2>2, <3>5, <3>8, <3>9, <3>10 DEF r, w
  <2> QED
    BY <2>5, <2>6
<1>2. CASE b.pos = None /\ d < 0 /\ b.creds[t] # None
  <2> DEFINE row == b.creds[t].row
             net == b.creds[t].net
             leak == IF Fee[t] > 0 THEN {"fee"} ELSE {}
             diff == b.realized - net
             ks == [b.creds EXCEPT ![t] = None]
             c0 == [b EXCEPT !.pos = row, !.realized = diff]
             c == [c0 EXCEPT !.creds = ks]
             full == Px[t] * Qty[t]
  <2>1. row \in Positions /\ net \in Int
    BY <1>2, <1>a DEF Credentials
  <2>a. row \in Held
    BY <2>1 DEF Held
  <2>2. net = Net(row) + full - FeeOn(t, Qty[t])
    BY <1>2 DEF CredsOK
  <2>3. full \in Int /\ w = -full /\ FeeOn(t, d) = 0 /\ FeeOn(t, Qty[t]) \in Nat
        /\ (leak = {} => FeeOn(t, Qty[t]) = 0)
    <3>1. d = -Qty[t] /\ Qty[t] \in Int /\ Px[t] \in Int /\ d <= 0
      BY <1>0, <1>2
    <3>2. full \in Int /\ w = -full
      BY <3>1, ProductInt
    <3>3. FeeOn(t, d) = 0 /\ FeeOn(t, Qty[t]) \in Nat /\ (Fee[t] = 0 => FeeOn(t, Qty[t]) = 0)
      BY <1>0, <3>1, FeeFacts
    <3>4. leak = {} => Fee[t] = 0
      BY TradeNumbers
    <3> QED
      BY <3>2, <3>3, <3>4
  <2>4. leak \in SUBSET Leaks
    BY DEF Leaks
  <2>5. r = [b |-> [b EXCEPT !.pos = row, !.realized = @ - net, !.creds[t] = None], leak |-> leak]
    BY <1>2 DEF ProjectExit
  <2> HIDE DEF leak, row, net, full, w
  <2>6. diff \in Int
    BY <1>a, <2>1
  <2>7. [b EXCEPT !.pos = row, !.realized = @ - net, !.creds[t] = None] = c
    BY DEF Books
  <2> HIDE DEF diff
  <2>8. c0 \in Books /\ c0.led = b.led /\ c0.pos = row /\ c0.realized = diff /\ c0.creds = b.creds
    BY <2>a, <2>6 DEF Books
  <2>9. ks \in CredentialMaps /\ ks[t] = None
        /\ \A u \in Trades : u # t => ks[u] = b.creds[u]
    BY <1>a DEF CredentialMaps
  <2> HIDE DEF ks, c0
  <2>10. c \in Books /\ c.led = b.led /\ c.pos = row /\ c.realized = diff /\ c.creds = ks
    BY <2>8, <2>9, BookWith
  <2>11. CredsOK(c)
    BY <2>9, <2>10 DEF CredsOK
  <2>12. NetOf(row) = Net(row) /\ Net(row) \in Int /\ NetOf(b.pos) = 0
    BY <1>2, <2>1, PositionFields DEF NetOf
  <2>13. leak = {} => c.realized + NetOf(c.pos) = b.realized + NetOf(b.pos) + w - FeeOn(t, d)
    BY <1>a, <2>1, <2>2, <2>3, <2>10, <2>12 DEF diff
  <2>14. r = [b |-> c, leak |-> leak]
    BY <2>5, <2>7
  <2> HIDE DEF c, r
  <2>15. r.b = c /\ r.leak = leak
    BY <2>14
  <2> QED
    BY <2>4, <2>10, <2>11, <2>13, <2>15 DEF r, w
<1>3. CASE b.pos = None /\ ~(d < 0 /\ b.creds[t] # None)
  <2>1. r = [b |-> b, leak |-> {"unmatched"}]
    BY <1>3 DEF ProjectExit
  <2>2. {"unmatched"} \in SUBSET Leaks /\ {"unmatched"} # {}
    BY DEF Leaks
  <2> HIDE DEF r
  <2>3. r.b = b /\ r.leak = {"unmatched"}
    BY <2>1
  <2> QED
    BY <2>2, <2>3 DEF r
<1> QED
  BY <1>1, <1>2, <1>3

-----------------------------------------------------------------------------
(* A signed fill *)

\* The cash that no trade record accounts for.
Worth(b) == b.led.balance - b.realized - NetOf(b.pos)

\* What every booking keeps of the books.
Fine(b, ls, mark) ==
  /\ b \in Books /\ Replayable(b.led) /\ CredsOK(b) /\ ls \in SUBSET Leaks
  /\ ls = {} => Worth(b) = Realigned(b.led.file)
  /\ Past(b.led, mark)

LEMMA DueFacts ==
  ASSUME NEW t \in Trades, NEW d \in Int
  PROVE  /\ CashDue(t, d) \in Int
         /\ CashDue(t, d) = (IF SideOf(t) = "Buy" THEN -(Px[t] * d) ELSE Px[t] * d) - FeeOn(t, d)
<1>1. Px[t] \in Int /\ FeeOn(t, d) \in Nat
  BY TradeNumbers, FeeFacts
<1>2. Px[t] * d \in Int /\ -Px[t] * d = -(Px[t] * d)
  BY <1>1, ProductInt
<1> DEFINE w == Px[t] * d
           v == -Px[t] * d
<1>3. CashDue(t, d) = (IF SideOf(t) = "Buy" THEN v ELSE w) - FeeOn(t, d)
  BY DEF CashDue
<1> HIDE DEF w, v
<1>4. w \in Int /\ v = -w
  BY <1>2 DEF w, v
<1> QED
  BY <1>1, <1>3, <1>4 DEF w

\* New cash and new records that moved by the same amount leave the books fine.
LEMMA FineKept ==
  ASSUME NEW mark, NEW b, NEW ls, Fine(b, ls, mark), NEW c \in Books, Drawn(b.led, c.led, mark), CredsOK(c),
         NEW ms \in SUBSET Leaks, NEW due \in Int,
         ms = {} => /\ ls = {}
                    /\ c.led.balance = b.led.balance + due
                    /\ c.realized + NetOf(c.pos) = b.realized + NetOf(b.pos) + due
  PROVE  Fine(c, ms, mark)
<1>1. /\ b \in Books /\ b.led.balance \in Nat /\ b.realized \in Int /\ NetOf(b.pos) \in Int
      /\ c.led.balance \in Nat /\ c.realized \in Int /\ NetOf(c.pos) \in Int
  <2>1. b \in Books /\ b.led \in Ledgers /\ c.led \in Ledgers
    BY BookFields DEF Fine
  <2> QED
    BY <2>1, BookFields, LedgerFields
<1>2. /\ Replayable(c.led) /\ Realigned(c.led.file) = Realigned(b.led.file)
      /\ Past(c.led, mark)
  BY DEF Drawn, Sound, Fine
<1>3. ms = {} => Worth(c) = Worth(b)
  BY <1>1 DEF Worth
<1> QED
  BY <1>2, <1>3 DEF Fine

LEMMA EffectsFacts ==
  ASSUME NEW mark, NEW s, Fine(s.b, s.leaks, mark), NEW t \in Trades, NEW o \in Refs,
         NEW d \in {Qty[t], -Qty[t]}, NEW rows \in [Orders -> OrderRows]
  PROVE  LET n == ApplyDeltaEffects(s, t, o, d, rows) IN
         /\ Fine(n.b, n.leaks, mark)
         /\ \A p \in Orders : n.b.led.res[p] = IF p = o /\ SideOf(t) = "Buy"
                                               THEN Outstanding(rows, o) ELSE s.b.led.res[p]
<1> DEFINE l == s.b.led
           m == CashEffect(l, t, o, d, rows)
           b == [s.b EXCEPT !.led = m]
           x == IF SideOf(t) = "Buy" THEN ProjectEntry(b, t, d) ELSE ProjectExit(b, t, d)
           clamp == IF m.balance # l.balance + CashDue(t, d) THEN {"clamped"} ELSE {}
           ms == s.leaks \cup clamp \cup x.leak
           due == CashDue(t, d)
           w == Px[t] * d
           n == ApplyDeltaEffects(s, t, o, d, rows)
<1>0. d \in Int /\ Sound(l) /\ s.b \in Books /\ CredsOK(s.b) /\ s.leaks \in SUBSET Leaks
  <2>1. d \in Int
    BY TradeNumbers
  <2> QED
    BY <2>1, BookFields DEF Fine, Sound
<1>1. /\ Drawn(l, m, mark)
      /\ \A p \in Orders : m.res[p] = IF p = o /\ SideOf(t) = "Buy"
                                      THEN Outstanding(rows, o) ELSE l.res[p]
  <2>1. Drawn(l, m, mark)
    BY <1>0, CashEffectFacts
  <2>2. ASSUME NEW p \in Orders
        PROVE  m.res[p] = IF p = o /\ SideOf(t) = "Buy" THEN Outstanding(rows, o) ELSE l.res[p]
    BY <1>0, CashEffectFacts
  <2> QED
    BY <2>1, <2>2
<1>2. n = [b |-> x.b, leaks |-> ms]
  BY DEF ApplyDeltaEffects
<1>3. clamp \in SUBSET Leaks /\ (clamp = {} => m.balance = l.balance + due)
  BY DEF Leaks
<1>4. due \in Int /\ due = (IF SideOf(t) = "Buy" THEN -w ELSE w) - FeeOn(t, d)
  BY <1>0, DueFacts
<1>5. w \in Int /\ FeeOn(t, d) \in Nat
  BY <1>0, TradeNumbers, FeeFacts, ProductInt
<1>6. SideOf(t) \in {"Buy", "Sell"}
  BY SideFacts
<1> HIDE DEF m, clamp, due, w, n
<1>7. /\ b \in Books /\ b.led = m /\ b.pos = s.b.pos /\ b.realized = s.b.realized
      /\ b.creds = s.b.creds
  BY <1>0, <1>1, BookWith DEF Drawn, Sound
<1> HIDE DEF b
<1>8. CredsOK(b)
  BY <1>0, <1>7 DEF CredsOK
<1>9. /\ x.b \in Books /\ x.b.led = m /\ CredsOK(x.b) /\ x.leak \in SUBSET Leaks
      /\ x.leak = {} => x.b.realized + NetOf(x.b.pos) = s.b.realized + NetOf(s.b.pos) + due
  <2>1. CASE SideOf(t) = "Buy"
    <3>1. /\ x.b \in Books /\ x.b.led = b.led /\ x.b.realized = b.realized
          /\ x.b.creds = b.creds /\ x.leak \in SUBSET Leaks
          /\ x.leak = {} => NetOf(x.b.pos) = NetOf(b.pos) - w - FeeOn(t, d)
      BY <1>0, <1>7, <2>1, ProjectEntryFacts DEF w
    <3> HIDE DEF x
    <3>2. CredsOK(x.b)
      BY <1>8, <3>1 DEF CredsOK
    <3>3. NetOf(b.pos) \in Int /\ b.realized \in Int
      BY <1>7, BookFields
    <3> QED
      BY <1>4, <1>5, <1>7, <2>1, <3>1, <3>2, <3>3
  <2>2. CASE SideOf(t) # "Buy"
    <3>1. /\ x.b \in Books /\ x.b.led = b.led /\ CredsOK(x.b) /\ x.leak \in SUBSET Leaks
          /\ x.leak = {} => x.b.realized + NetOf(x.b.pos)
                              = b.realized + NetOf(b.pos) + w - FeeOn(t, d)
      BY <1>0, <1>7, <1>8, <2>2, ProjectExitFacts DEF w
    <3> HIDE DEF x
    <3>3. NetOf(b.pos) \in Int /\ b.realized \in Int
      BY <1>7, BookFields
    <3> QED
      BY <1>4, <1>5, <1>7, <2>2, <3>1, <3>3
  <2> QED
    BY <2>1, <2>2
<1> HIDE DEF x
<1>10. ms \in SUBSET Leaks /\ (ms = {} => s.leaks = {} /\ clamp = {} /\ x.leak = {})
  BY <1>0, <1>3, <1>9
<1> HIDE DEF ms
<1>11. Fine(x.b, ms, mark)
  <2>1. Drawn(s.b.led, x.b.led, mark)
    BY <1>1, <1>9
  <2>2. ms = {} => /\ s.leaks = {}
                   /\ x.b.led.balance = s.b.led.balance + due
                   /\ x.b.realized + NetOf(x.b.pos) = s.b.realized + NetOf(s.b.pos) + due
    BY <1>3, <1>9, <1>10
  <2> QED
    BY <1>4, <1>9, <1>10, <2>1, <2>2, FineKept
<1>12. n.b = x.b /\ n.leaks = ms
  BY <1>2
<1> QED
  BY <1>1, <1>9, <1>11, <1>12 DEF n

-----------------------------------------------------------------------------
(* A trade placed by hand *)

Folds == [b : Books, leaks : SUBSET Leaks, folded : SUBSET Trades]

\* What folding the trades into the books keeps.
Folded(s, n, t, mark) ==
  /\ n \in Folds /\ Fine(n.b, n.leaks, mark) /\ n.b.led.res = s.b.led.res
  /\ n.folded \subseteq s.folded \cup {t}

LEMMA ExternalSellFacts ==
  ASSUME NEW mark, NEW s \in Folds, Fine(s.b, s.leaks, mark), NEW t \in Trades, SideOf(t) = "Sell"
  PROVE  Folded(s, FoldExternalSell(s, t), t, mark)
<1>0. s.b \in Books /\ s.leaks \in SUBSET Leaks /\ s.folded \in SUBSET Trades
  BY DEF Folds
<1>1. CASE s.b.pos = None
  BY <1>0, <1>1 DEF FoldExternalSell, Folded
<1>2. CASE s.b.pos # None
  <2> DEFINE p == s.b.pos
             l == s.b.led
             size == Smaller(Qty[t], p.shares)
             w == Px[t] * size
             fee == FeeOn(t, size)
             m == SettleSellFill(l, w, fee)
             due == CashDue(t, size)
             clamp == IF m.balance # l.balance + due THEN {"clamped"} ELSE {}
             b == [s.b EXCEPT !.led = m]
             new == ExitFill(p, t, size)
             sum == b.realized + Net(new)
             shut == [b EXCEPT !.pos = None, !.realized = sum]
             kept == [b EXCEPT !.pos = new]
             c == IF new.shares = 0 THEN shut ELSE kept
             ms == s.leaks \cup clamp
             fs == s.folded \cup {t}
             n == FoldExternalSell(s, t)
  <2>1. p \in Positions /\ Sound(l) /\ CredsOK(s.b) /\ s.b.realized \in Int
    BY <1>0, <1>2, BookFields DEF Fine, Sound
  <2>2. size \in Nat
    BY <2>1, PositionFields, TradeNumbers DEF Smaller
  <2> HIDE DEF size
  <2>3. w \in Int /\ fee \in Nat /\ due \in Int /\ due = w - fee
    <3>1. w \in Int /\ fee \in Nat
      BY <2>2, TradeNumbers, FeeFacts, ProductInt
    <3>2. SideOf(t) # "Buy" /\ size \in Int
      BY <2>2
    <3>3. due \in Int /\ due = (IF SideOf(t) = "Buy" THEN -w ELSE w) - fee
      BY <3>2, DueFacts
    <3> HIDE DEF w, fee, due
    <3> QED
      BY <3>1, <3>2, <3>3
  <2>4. new \in Positions /\ Net(new) = Net(p) + w - fee
    BY <2>1, <2>2, ExitFillFacts
  <2>5. Drawn(l, m, mark) /\ m.res = l.res /\ m \in Ledgers
    <3> HIDE DEF w, fee
    <3> QED
      <4>1. Drawn(l, m, mark) /\ m.res = l.res
        BY <2>1, <2>3, SettleSellFacts
      <4> QED
        BY <4>1 DEF Drawn, Sound
  <2>6. clamp \in SUBSET Leaks /\ (clamp = {} => m.balance = l.balance + due)
    BY DEF Leaks
  <2>7. n = [b |-> c, leaks |-> ms, folded |-> fs]
    <3>1. Closed(b, new) = shut
      <4> HIDE DEF b, new
      <4> QED
        BY DEF Closed
    <3> QED
      BY <1>2, <3>1 DEF FoldExternalSell, size
  <2> HIDE DEF w, fee, due, m, clamp, new, n
  <2>8. /\ b \in Books /\ b.led = m /\ b.pos = p /\ b.realized = s.b.realized
        /\ b.creds = s.b.creds
    BY <1>0, <2>5, BookWith
  <2> HIDE DEF b
  <2>9. /\ sum \in Int /\ None \in Held /\ new \in Held /\ NetOf(None) = 0
        /\ NetOf(new) = Net(new) /\ NetOf(p) = Net(p) /\ Net(p) \in Int
    BY <2>1, <2>4, <2>8, PositionFields DEF Held, NetOf
  <2>10. sum = s.b.realized + Net(new)
    BY <2>8
  <2> HIDE DEF sum
  <2>11. /\ shut \in Books /\ shut.led = m /\ shut.pos = None /\ shut.realized = sum
         /\ shut.creds = s.b.creds
    BY <2>8, <2>9 DEF Books
  <2>12. /\ kept \in Books /\ kept.led = m /\ kept.pos = new /\ kept.realized = s.b.realized
         /\ kept.creds = s.b.creds
    BY <2>8, <2>9, BookWith
  <2> HIDE DEF shut, kept
  <2>13. /\ c \in Books /\ c.led = m /\ c.creds = s.b.creds
         /\ c.realized + NetOf(c.pos) = s.b.realized + NetOf(s.b.pos) + due
    BY <2>1, <2>3, <2>4, <2>9, <2>10, <2>11, <2>12
  <2> HIDE DEF c
  <2>14. CredsOK(c)
    BY <2>1, <2>13 DEF CredsOK
  <2>15. ms \in SUBSET Leaks /\ (ms = {} => s.leaks = {} /\ clamp = {})
    BY <1>0, <2>6
  <2> HIDE DEF ms
  <2>16. Fine(c, ms, mark)
    <3>1. Drawn(s.b.led, c.led, mark)
      BY <2>5, <2>13
    <3>2. ms = {} => /\ s.leaks = {}
                     /\ c.led.balance = s.b.led.balance + due
                     /\ c.realized + NetOf(c.pos) = s.b.realized + NetOf(s.b.pos) + due
      BY <2>6, <2>13, <2>15
    <3> QED
      BY <2>3, <2>13, <2>14, <2>15, <3>1, <3>2, FineKept
  <2>17. n \in Folds /\ n.b = c /\ n.leaks = ms /\ n.folded = fs
    <3>1. fs \in SUBSET Trades
      BY <1>0
    <3> HIDE DEF fs
    <3> QED
      BY <2>7, <2>13, <2>15, <3>1 DEF Folds
  <2> QED
    BY <2>5, <2>13, <2>16, <2>17 DEF Folded, n
<1> QED
  BY <1>1, <1>2

LEMMA ExternalBuyFacts ==
  ASSUME NEW mark, NEW s \in Folds, Fine(s.b, s.leaks, mark), NEW t \in Trades,
         orders \in [Orders -> OrderRows]
  PROVE  Folded(s, FoldExternalBuy(s, t), t, mark)
<1> DEFINE r == [b |-> s.b, leaks |-> s.leaks]
           n == ApplyDeltaEffects(r, t, NoOrder, Qty[t], orders)
           fs == s.folded \cup {t}
           k == FoldExternalBuy(s, t)
<1>1. r.b = s.b /\ r.leaks = s.leaks /\ NoOrder \in Refs /\ Qty[t] \in {Qty[t], -Qty[t]}
  BY DEF Refs
<1>2. NoOrder \notin Orders
  BY TradesAssumption
<1>3. k = [b |-> n.b, leaks |-> n.leaks, folded |-> fs]
  BY DEF FoldExternalBuy
<1> HIDE DEF r, k
<1>4. Fine(r.b, r.leaks, mark)
  BY <1>1
<1>5. Fine(n.b, n.leaks, mark)
  BY <1>1, <1>4, EffectsFacts
<1>6. ASSUME NEW p \in Orders PROVE n.b.led.res[p] = r.b.led.res[p]
  <2>1. n.b.led.res[p] = IF p = NoOrder /\ SideOf(t) = "Buy" THEN Outstanding(orders, NoOrder)
                         ELSE r.b.led.res[p]
    <3>1. /\ Fine(n.b, n.leaks, mark)
          /\ \A q \in Orders :
               n.b.led.res[q] = IF q = NoOrder /\ SideOf(t) = "Buy"
                                THEN Outstanding(orders, NoOrder) ELSE r.b.led.res[q]
      BY <1>1, <1>4, EffectsFacts
    <3> QED
      BY <3>1
  <2> QED
    BY <1>2, <2>1
<1> HIDE DEF n
<1>7. n.b.led.res = s.b.led.res
  <2>1. n.b.led.res \in [Orders -> Nat] /\ s.b.led.res \in [Orders -> Nat]
    BY <1>5, BookFields, LedgerFields DEF Fine
  <2> QED
    BY <1>1, <1>6, <2>1
<1>8. fs \in SUBSET Trades /\ n.b \in Books /\ n.leaks \in SUBSET Leaks
  BY <1>5 DEF Folds, Fine
<1> HIDE DEF fs
<1>9. k \in Folds /\ k.b = n.b /\ k.leaks = n.leaks /\ k.folded = fs
  BY <1>3, <1>8 DEF Folds
<1> QED
  BY <1>5, <1>7, <1>9 DEF Folded, k, fs

\* The books with the reservations res, after folding some of the trades F.
Foldable(res, F, mark) ==
  {s \in Folds : Fine(s.b, s.leaks, mark) /\ s.b.led.res = res /\ s.folded \subseteq F}
IsSold(f, s, q) ==
  f = [i \in 0..Len(q) |-> IF i = 0 THEN s ELSE FoldExternalSell(f[i - 1], q[i])]
Sold(s, q) == CHOOSE f : IsSold(f, s, q)

LEMMA SoldFacts ==
  ASSUME NEW mark, NEW res, NEW F, NEW s \in Foldable(res, F, mark), NEW q \in Seq(Trades),
         \A i \in 1..Len(q) : q[i] \in F /\ SideOf(q[i]) = "Sell"
  PROVE  Sold(s, q)[Len(q)] \in Foldable(res, F, mark)
<1> DEFINE n == Len(q)
           X == Foldable(res, F, mark)
           g == [z \in X \X (1..n) |-> FoldExternalSell(z[1], q[z[2]])]
<1>1. n \in Nat
  OBVIOUS
<1>2. ASSUME NEW x \in X, NEW i \in 1..n PROVE FoldExternalSell(x, q[i]) \in X
  <2>1. q[i] \in Trades /\ q[i] \in F /\ SideOf(q[i]) = "Sell"
    OBVIOUS
  <2>2. x \in Folds /\ Fine(x.b, x.leaks, mark) /\ x.b.led.res = res /\ x.folded \subseteq F
    BY DEF Foldable
  <2>3. Folded(x, FoldExternalSell(x, q[i]), q[i], mark)
    BY <2>1, <2>2, ExternalSellFacts
  <2> QED
    BY <2>1, <2>2, <2>3 DEF Folded, Foldable
<1> HIDE DEF X
<1>3. g \in [X \X (1..n) -> X]
  <2>1. ASSUME NEW z \in X \X (1..n) PROVE FoldExternalSell(z[1], q[z[2]]) \in X
    <3>1. z[1] \in X /\ z[2] \in 1..n
      OBVIOUS
    <3> QED
      BY <1>2, <3>1
  <2> QED
    BY <2>1
<1>4. PICK f \in [0..n -> X] : StepsOf(f, n, s, g)
  <2> HIDE DEF g, n
  <2>1. s \in X
    BY DEF X
  <2> QED
    BY <1>1, <1>3, <2>1, FoldExists
<1>5. IsSold(f, s, q)
  <2>1. ASSUME NEW i \in 0..n
        PROVE  f[i] = IF i = 0 THEN s ELSE FoldExternalSell(f[i - 1], q[i])
    <3>1. f[i] = IF i = 0 THEN s ELSE g[<<f[i - 1], i>>]
      BY <1>4 DEF StepsOf
    <3> HIDE DEF n
    <3>2. i # 0 => <<f[i - 1], i>> \in X \X (1..n)
      <4>1. i # 0 => i - 1 \in 0..n /\ i \in 1..n
        BY <1>1
      <4> QED
        BY <1>4, <4>1
    <3> QED
      BY <3>1, <3>2
  <2>2. f = [i \in 0..n |-> f[i]]
    BY <1>4
  <2> HIDE DEF g
  <2> QED
    BY <2>1, <2>2 DEF IsSold
<1> DEFINE h == Sold(s, q)
           T == {i \in 0..n : h[i] \in X}
<1>6. IsSold(h, s, q)
  BY <1>5 DEF Sold
<1> HIDE DEF h, g
<1>7. 0..n \subseteq T
  <2>1. 0 \in T
    BY <1>1, <1>6 DEF IsSold, X
  <2>2. ASSUME NEW i \in 1..n, i - 1 \in T PROVE i \in T
    <3>1. i \in 0..n /\ i # 0 /\ h[i - 1] \in X
      BY <1>1, <2>2
    <3>2. h[i] = FoldExternalSell(h[i - 1], q[i])
      BY <1>6, <3>1 DEF IsSold
    <3> QED
      BY <1>2, <3>1, <3>2
  <2> HIDE DEF T
  <2> QED
    BY <1>1, <2>1, <2>2, UpTo
<1> QED
  BY <1>1, <1>7 DEF h, X

IsBought(f, s, q) ==
  f = [i \in 0..Len(q) |-> IF i = 0 THEN s ELSE FoldExternalBuy(f[i - 1], q[i])]
Bought(s, q) == CHOOSE f : IsBought(f, s, q)

LEMMA BoughtFacts ==
  ASSUME NEW mark, NEW res, NEW F, NEW s \in Foldable(res, F, mark), NEW q \in Seq(Trades),
         \A i \in 1..Len(q) : q[i] \in F,
         orders \in [Orders -> OrderRows]
  PROVE  Bought(s, q)[Len(q)] \in Foldable(res, F, mark)
<1> DEFINE n == Len(q)
           X == Foldable(res, F, mark)
           g == [z \in X \X (1..n) |-> FoldExternalBuy(z[1], q[z[2]])]
<1>1. n \in Nat
  OBVIOUS
<1>2. ASSUME NEW x \in X, NEW i \in 1..n PROVE FoldExternalBuy(x, q[i]) \in X
  <2>1. q[i] \in Trades /\ q[i] \in F
    OBVIOUS
  <2>2. x \in Folds /\ Fine(x.b, x.leaks, mark) /\ x.b.led.res = res /\ x.folded \subseteq F
    BY DEF Foldable
  <2>3. Folded(x, FoldExternalBuy(x, q[i]), q[i], mark)
    BY <2>1, <2>2, ExternalBuyFacts
  <2> QED
    BY <2>1, <2>2, <2>3 DEF Folded, Foldable
<1> HIDE DEF X
<1>3. g \in [X \X (1..n) -> X]
  <2>1. ASSUME NEW z \in X \X (1..n) PROVE FoldExternalBuy(z[1], q[z[2]]) \in X
    <3>1. z[1] \in X /\ z[2] \in 1..n
      OBVIOUS
    <3> QED
      BY <1>2, <3>1
  <2> QED
    BY <2>1
<1>4. PICK f \in [0..n -> X] : StepsOf(f, n, s, g)
  <2> HIDE DEF g, n
  <2>1. s \in X
    BY DEF X
  <2> QED
    BY <1>1, <1>3, <2>1, FoldExists
<1>5. IsBought(f, s, q)
  <2>1. ASSUME NEW i \in 0..n
        PROVE  f[i] = IF i = 0 THEN s ELSE FoldExternalBuy(f[i - 1], q[i])
    <3>1. f[i] = IF i = 0 THEN s ELSE g[<<f[i - 1], i>>]
      BY <1>4 DEF StepsOf
    <3> HIDE DEF n
    <3>2. i # 0 => <<f[i - 1], i>> \in X \X (1..n)
      <4>1. i # 0 => i - 1 \in 0..n /\ i \in 1..n
        BY <1>1
      <4> QED
        BY <1>4, <4>1
    <3> QED
      BY <3>1, <3>2
  <2>2. f = [i \in 0..n |-> f[i]]
    BY <1>4
  <2> HIDE DEF g
  <2> QED
    BY <2>1, <2>2 DEF IsBought
<1> DEFINE h == Bought(s, q)
           T == {i \in 0..n : h[i] \in X}
<1>6. IsBought(h, s, q)
  BY <1>5 DEF Bought
<1> HIDE DEF h, g
<1>7. 0..n \subseteq T
  <2>1. 0 \in T
    BY <1>1, <1>6 DEF IsBought, X
  <2>2. ASSUME NEW i \in 1..n, i - 1 \in T PROVE i \in T
    <3>1. i \in 0..n /\ i # 0 /\ h[i - 1] \in X
      BY <1>1, <2>2
    <3>2. h[i] = FoldExternalBuy(h[i - 1], q[i])
      BY <1>6, <3>1 DEF IsBought
    <3> QED
      BY <1>2, <3>1, <3>2
  <2> HIDE DEF T
  <2> QED
    BY <1>1, <2>1, <2>2, UpTo
<1> QED
  BY <1>1, <1>7 DEF h, X

LEMMA ExternalFacts ==
  ASSUME NEW mark, NEW res, NEW F, NEW s \in Foldable(res, F, mark), NEW q \in Seq(Trades), NEW p \in Seq(Trades),
         \A i \in 1..Len(q) : q[i] \in F /\ SideOf(q[i]) = "Sell",
         \A i \in 1..Len(p) : p[i] \in F, orders \in [Orders -> OrderRows]
  PROVE  ApplyExternalFills(s, q, p) \in Foldable(res, F, mark)
<1> DEFINE mid == Sold(s, q)[Len(q)]
<1>1. ApplyExternalFills(s, q, p) = Bought(mid, p)[Len(p)]
  BY DEF ApplyExternalFills, Sold, IsSold, Bought, IsBought
<1>2. mid \in Foldable(res, F, mark)
  BY SoldFacts
<1> HIDE DEF mid
<1> QED
  BY <1>1, <1>2, BoughtFacts

-----------------------------------------------------------------------------
(* The filled size of a row is what its applied trades add up to *)

Sizes == [t \in Trades |-> Qty[t]]
Traded(S) == Total(Trades, Sizes)[S]
Of(S, o) == {t \in S : TradeOrder[t] = o}

LEMMA TradedFacts ==
  /\ \A S \in SUBSET Trades : Traded(S) \in Nat
  /\ \A S \in SUBSET Trades : \A t \in Trades \ S : Traded(S \cup {t}) = Qty[t] + Traded(S)
  /\ \A S \in SUBSET Trades : \A R \in SUBSET Trades : S \subseteq R => Traded(S) <= Traded(R)
  /\ Traded({}) = 0
<1> DEFINE g == Total(Trades, Sizes)
<1>1. IsFiniteSet(Trades) /\ Nat \in {Nat, Int}
  BY TradesAssumption
<1>2. \A t \in Trades : Sizes[t] \in Nat /\ Sizes[t] = Qty[t]
  BY TradeNumbers DEF Sizes
<1>a. \A t \in Trades : Sizes[t] \in Int
  BY <1>2
<1>3. Sums(g, SUBSET Trades, Sizes)
  BY <1>1, <1>2, SumsExist
<1> HIDE DEF g
<1>4. \A S \in SUBSET Trades : g[S] \in Nat
  BY <1>1, <1>2, <1>3, SumsTyped
<1>5. \A S \in SUBSET Trades : \A t \in Trades \ S : g[S \cup {t}] = Sizes[t] + g[S]
  <2>1. Additive(g, Trades, Sizes)
    BY <1>1, <1>a, <1>3, SumAdd
  <2> QED
    BY <2>1 DEF Additive
<1>6. ASSUME NEW S \in SUBSET Trades
      PROVE  \A R \in SUBSET Trades : S \subseteq R => g[S] <= g[R]
  BY <1>1, <1>2, <1>3, SumGrows
<1>7. g[{}] = 0
  BY <1>3 DEF Sums
<1>8. \A S : Traded(S) = g[S]
  BY DEF Traded, g
<1> QED
  BY <1>2, <1>4, <1>5, <1>6, <1>7, <1>8

\* The venue's matching bounds the size an order can be filled with.
LEMMA TradedBound ==
  ASSUME NEW S \in SUBSET Trades, NEW o \in Orders
  PROVE  Traded(Of(S, o)) <= Size[o]
<1> DEFINE D == {u \in Trades : TradeOrder[u] = o}
<1>1. D \in SUBSET Trades /\ Of(S, o) \in SUBSET Trades /\ Of(S, o) \subseteq D
  BY DEF Of
<1>2. SumOf([t \in D |-> Qty[t]]) <= Size[o]
  BY MatchingAssumption
<1>3. SumOf([t \in D |-> Sizes[t]]) = Traded(D)
  <2>1. IsFiniteSet(Trades) /\ \A t \in Trades : Sizes[t] \in Int
    BY TradesAssumption, TradeNumbers DEF Sizes
  <2> HIDE DEF D
  <2> QED
    BY <1>1, <2>1, SumRestricted DEF Traded
<1>4. [t \in D |-> Qty[t]] = [t \in D |-> Sizes[t]]
  BY DEF Sizes
<1> HIDE DEF D
<1>5. Traded(Of(S, o)) <= Traded(D) /\ Traded(D) \in Nat /\ Traded(Of(S, o)) \in Nat
  BY <1>1, TradedFacts
<1>6. Traded(D) <= Size[o] /\ Size[o] \in Nat
  BY <1>2, <1>3, <1>4, OrderNumbers
<1> QED
  BY <1>5, <1>6

\* A report moves the row of its order by the size of its trade, up or down.
LEMMA MovedFacts ==
  ASSUME NEW row \in OrderRows, row.status # "Untracked", NEW o \in Orders,
         NEW d \in Int, row.filled + d \in Nat, row.filled + d <= Size[o]
  PROVE  LET m == Moved(row, o, d) IN
         m \in OrderRows /\ m.status # "Untracked" /\ m.filled = row.filled + d
<1> DEFINE c == Smaller(AtLeastZero(row.filled + d), Size[o])
           st == IF row.status \in TerminalStatuses \/ c = 0 THEN row.status
                 ELSE IF c >= Size[o] THEN "Filled" ELSE "PartiallyFilled"
<1>1. Size[o] \in Nat /\ row.filled \in Nat
  BY OrderNumbers DEF OrderRows
<1>2. c = row.filled + d
  BY <1>1 DEF Smaller, AtLeastZero
<1>3. /\ st \in LiveStatuses \cup TerminalStatuses \cup {"Untracked"} /\ st # "Untracked"
      /\ row.status \in LiveStatuses \cup TerminalStatuses \cup {"Untracked"}
  BY DEF OrderRows, LiveStatuses, TerminalStatuses
<1>4. Moved(row, o, d) = [filled |-> c, status |-> st]
  BY DEF Moved
<1> HIDE DEF c, st
<1> QED
  BY <1>2, <1>3, <1>4 DEF OrderRows

RowsOK(rows, S) ==
  /\ rows \in [Orders -> OrderRows] /\ S \in SUBSET Trades
  /\ \A o \in Orders : rows[o].status # "Untracked" => rows[o].filled = Traded(Of(S, o))

\* The trade t brings a delta of d: a fill of one that is not in S, a rollback
\* of one that is.
Delta(t, d, S, R) ==
  \/ t \notin S /\ R = S \cup {t} /\ d = Qty[t]
  \/ t \in S /\ R = S \ {t} /\ d = -Qty[t]

Shifts(old, new, d) == new.filled - old.filled = d

LEMMA RowMoves ==
  ASSUME NEW rows, NEW S, NEW R, RowsOK(rows, S), NEW t \in Trades, NEW d, Delta(t, d, S, R),
         TradeOrder[t] \in Orders, rows[TradeOrder[t]].status # "Untracked"
  PROVE  LET o == TradeOrder[t]
             m == Moved(rows[o], o, d)
         IN  /\ RowsOK([rows EXCEPT ![o] = m], R)
             /\ m \in OrderRows /\ m.status # "Untracked"
             /\ Shifts(rows[o], m, d)
<1> DEFINE o == TradeOrder[t]
           row == rows[o]
           m == Moved(row, o, d)
           a == Traded(Of(S, o))
           b == Traded(Of(R, o))
<1>1. S \in SUBSET Trades /\ R \in SUBSET Trades /\ d \in Int /\ Qty[t] \in Nat
  <2>1. Qty[t] \in Nat
    BY TradeNumbers
  <2> QED
    BY <2>1 DEF RowsOK, Delta
<1>2. a \in Nat /\ b \in Nat /\ b <= Size[o]
  BY <1>1, TradedFacts, TradedBound DEF Of
<1>3. b = a + d
  <2>1. CASE t \notin S /\ R = S \cup {t} /\ d = Qty[t]
    <3>1. Of(R, o) = Of(S, o) \cup {t} /\ t \notin Of(S, o) /\ Of(S, o) \in SUBSET Trades
      BY <1>1, <2>1 DEF Of
    <3>2. b = Qty[t] + a
      BY <3>1, TradedFacts
    <3> QED
      BY <1>1, <1>2, <2>1, <3>2
  <2>2. CASE t \in S /\ R = S \ {t} /\ d = -Qty[t]
    <3>1. Of(S, o) = Of(R, o) \cup {t} /\ t \notin Of(R, o) /\ Of(R, o) \in SUBSET Trades
      BY <1>1, <2>2 DEF Of
    <3>2. a = Qty[t] + b
      BY <3>1, TradedFacts
    <3> QED
      BY <1>1, <1>2, <2>2, <3>2
  <2> QED
    BY <2>1, <2>2 DEF Delta
<1>4. row \in OrderRows /\ row.filled = a
  BY DEF RowsOK
<1> HIDE DEF a, b
<1>5. m \in OrderRows /\ m.status # "Untracked" /\ m.filled = b
  BY <1>1, <1>2, <1>3, <1>4, MovedFacts
<1> HIDE DEF m
<1>6. ASSUME NEW p \in Orders, p # o PROVE Of(R, p) = Of(S, p)
  <2>1. CASE R = S \cup {t}
    BY <1>6, <2>1 DEF Of
  <2>2. CASE R = S \ {t}
    BY <1>6, <2>2 DEF Of
  <2> QED
    BY <2>1, <2>2 DEF Delta
<1>7. RowsOK([rows EXCEPT ![o] = m], R)
  BY <1>1, <1>5, <1>6 DEF RowsOK, b
<1>8. Shifts(row, m, d)
  BY <1>1, <1>2, <1>3, <1>4, <1>5 DEF Shifts
<1> QED
  BY <1>5, <1>7, <1>8 DEF m

-----------------------------------------------------------------------------
(* The first pass of the sweep *)

Listed(q, i) == {q[j] : j \in 1..i}

\* Trades the sweep may find missing: known orders, not applied, each once.
Missed(q) ==
  /\ q \in Seq(Trades)
  /\ \A i, j \in 1..Len(q) : q[i] = q[j] => i = j
  /\ \A i \in 1..Len(q) : /\ q[i] \notin applied /\ TradeOrder[q[i]] \in Orders
                          /\ orders[TradeOrder[q[i]]].status # "Untracked"

IsGap(f, q) ==
  f = [i \in 0..Len(q) |->
         IF i = 0 THEN orders
         ELSE LET before == f[i - 1]
                  o == TradeOrder[q[i]]
              IN  [before EXCEPT ![o] = Moved(before[o], o, Qty[q[i]])]]

\* The table after i of the trades.
GapAt(rows, q, i) ==
  /\ RowsOK(rows, applied \cup Listed(q, i))
  /\ \A o \in Orders : /\ orders[o].status # "Untracked" => rows[o].status # "Untracked"
                       /\ (\A j \in 1..i : TradeOrder[q[j]] # o) => rows[o] = orders[o]

LEMMA MovedTyped ==
  ASSUME NEW row \in OrderRows, NEW o \in Orders, NEW d \in Int
  PROVE  Moved(row, o, d) \in OrderRows
<1> DEFINE c == Smaller(AtLeastZero(row.filled + d), Size[o])
           st == IF row.status \in TerminalStatuses \/ c = 0 THEN row.status
                 ELSE IF c >= Size[o] THEN "Filled" ELSE "PartiallyFilled"
<1>1. c \in Nat
  BY OrderNumbers DEF OrderRows, Smaller, AtLeastZero
<1>2. st \in LiveStatuses \cup TerminalStatuses \cup {"Untracked"}
  BY DEF OrderRows, LiveStatuses, TerminalStatuses
<1>3. Moved(row, o, d) = [filled |-> c, status |-> st]
  BY DEF Moved
<1> HIDE DEF c, st
<1> QED
  BY <1>1, <1>2, <1>3 DEF OrderRows

LEMMA GapExists ==
  ASSUME orders \in [Orders -> OrderRows], NEW q, Missed(q)
  PROVE  IsGap(GapRows(q), q)
<1> DEFINE n == Len(q)
           X == [Orders -> OrderRows]
           Step(x, i) == [x EXCEPT ![TradeOrder[q[i]]] =
                            Moved(x[TradeOrder[q[i]]], TradeOrder[q[i]], Qty[q[i]])]
           g == [z \in X \X (1..n) |-> Step(z[1], z[2])]
<1>1. n \in Nat
  BY DEF Missed
<1>2. ASSUME NEW x \in X, NEW i \in 1..n PROVE Step(x, i) \in X
  <2> DEFINE o == TradeOrder[q[i]]
             m == Moved(x[o], o, Qty[q[i]])
  <2>1. o \in Orders /\ q[i] \in Trades
    BY DEF Missed
  <2>2. m \in OrderRows
    BY <2>1, TradeNumbers, MovedTyped
  <2> HIDE DEF m, o
  <2>3. [x EXCEPT ![o] = m] \in X
    BY <2>1, <2>2
  <2> QED
    BY <2>3 DEF m, o
<1> HIDE DEF X, Step
<1>3. g \in [X \X (1..n) -> X]
  <2>1. ASSUME NEW z \in X \X (1..n) PROVE Step(z[1], z[2]) \in X
    <3>1. z[1] \in X /\ z[2] \in 1..n
      OBVIOUS
    <3> QED
      BY <1>2, <3>1
  <2> QED
    BY <2>1
<1>4. PICK f \in [0..n -> X] : StepsOf(f, n, orders, g)
  <2> HIDE DEF g, n
  <2>1. orders \in X
    BY DEF X
  <2> QED
    BY <1>1, <1>3, <2>1, FoldExists
<1>5. IsGap(f, q)
  <2>1. ASSUME NEW i \in 0..n PROVE f[i] = IF i = 0 THEN orders ELSE Step(f[i - 1], i)
    <3>1. f[i] = IF i = 0 THEN orders ELSE g[<<f[i - 1], i>>]
      BY <1>4 DEF StepsOf
    <3> HIDE DEF n
    <3>2. i # 0 => <<f[i - 1], i>> \in X \X (1..n)
      <4>1. i # 0 => i - 1 \in 0..n /\ i \in 1..n
        BY <1>1
      <4> QED
        BY <1>4, <4>1
    <3> QED
      BY <3>1, <3>2
  <2>2. f = [i \in 0..n |-> f[i]]
    BY <1>4
  <2> HIDE DEF g
  <2>3. f = [i \in 0..n |-> IF i = 0 THEN orders ELSE Step(f[i - 1], i)]
    BY <2>1, <2>2
  <2> QED
    BY <2>3 DEF IsGap, Step
<1>6. GapRows(q) = CHOOSE h : IsGap(h, q)
  BY DEF GapRows, IsGap
<1> QED
  BY <1>5, <1>6

LEMMA GapFacts ==
  ASSUME RowsOK(orders, applied), NEW q, Missed(q)
  PROVE  /\ GapAt(GapRows(q)[Len(q)], q, Len(q))
         /\ \A i \in 1..Len(q) : GapDelta(q, GapRows(q), i) = Qty[q[i]]
<1> DEFINE n == Len(q)
           h == GapRows(q)
           T == {i \in 0..n : GapAt(h[i], q, i)}
<1>1. n \in Nat /\ IsGap(h, q)
  BY GapExists DEF Missed, RowsOK
<1> HIDE DEF h
<1>2. ASSUME NEW i \in 1..n, GapAt(h[i - 1], q, i - 1)
      PROVE  GapAt(h[i], q, i) /\ GapDelta(q, h, i) = Qty[q[i]]
  <2> DEFINE t == q[i]
             o == TradeOrder[t]
             rows == h[i - 1]
             m == Moved(rows[o], o, Qty[t])
             S == applied \cup Listed(q, i - 1)
             R == applied \cup Listed(q, i)
  <2>1. i \in 0..n /\ i # 0 /\ i - 1 \in 0..n
    BY <1>1
  <2>2. t \in Trades /\ o \in Orders /\ orders[o].status # "Untracked" /\ t \notin applied
    BY DEF Missed
  <2>3. RowsOK(rows, S) /\ rows[o].status # "Untracked"
    BY <1>2, <2>2 DEF GapAt
  <2>4. t \notin S /\ R = S \cup {t}
    <3>1. \A j \in 1..(i - 1) : q[j] # t
      BY <1>1, <2>1 DEF Missed
    <3>2. t \notin Listed(q, i - 1)
      BY <3>1 DEF Listed
    <3>3. \A j : j \in 1..i <=> j \in 1..(i - 1) \/ j = i
      BY <1>1
    <3>4. Listed(q, i) = Listed(q, i - 1) \cup {t}
      BY <3>3 DEF Listed
    <3> QED
      BY <2>2, <3>2, <3>4
  <2>5. h[i] = [rows EXCEPT ![o] = m]
    BY <1>1, <2>1 DEF IsGap
  <2> HIDE DEF S, R, rows, m
  <2>6. Delta(t, Qty[t], S, R)
    BY <2>4 DEF Delta
  <2>7. /\ RowsOK([rows EXCEPT ![o] = m], R) /\ m \in OrderRows /\ m.status # "Untracked"
        /\ Shifts(rows[o], m, Qty[t])
    BY <2>2, <2>3, <2>6, RowMoves DEF m
  <2>8. rows \in [Orders -> OrderRows]
    BY <2>3 DEF RowsOK
  <2>9. ASSUME NEW p \in Orders
        PROVE  /\ orders[p].status # "Untracked" => h[i][p].status # "Untracked"
               /\ (\A j \in 1..i : TradeOrder[q[j]] # p) => h[i][p] = orders[p]
    <3>1. CASE p = o
      <4>1. h[i][p] = m /\ i \in 1..i /\ TradeOrder[q[i]] = p
        BY <2>2, <2>5, <2>8, <3>1
      <4> QED
        BY <2>7, <4>1
    <3>2. CASE p # o
      <4>1. h[i][p] = rows[p]
        BY <2>2, <2>5, <2>8, <3>2
      <4>2. \A j \in 1..(i - 1) : j \in 1..i
        BY <1>1
      <4>3. /\ orders[p].status # "Untracked" => rows[p].status # "Untracked"
            /\ (\A j \in 1..(i - 1) : TradeOrder[q[j]] # p) => rows[p] = orders[p]
        BY <1>2 DEF GapAt, rows
      <4> QED
        BY <4>1, <4>2, <4>3
    <3> QED
      BY <3>1, <3>2
  <2>10. GapAt(h[i], q, i)
    BY <2>5, <2>7, <2>9 DEF GapAt, R
  <2>11. h[i][o] = m
    BY <2>2, <2>5, <2>8
  <2> QED
    BY <2>7, <2>10, <2>11 DEF GapDelta, Shifts, rows
<1>3. 0..n \subseteq T
  <2>1. 0 \in T
    <3>1. h[0] = orders /\ 0 \in 0..n
      BY <1>1 DEF IsGap
    <3>2. Listed(q, 0) = {}
      BY DEF Listed
    <3>3. applied \cup Listed(q, 0) = applied
      BY <3>2
    <3>4. GapAt(orders, q, 0)
      BY <3>3 DEF GapAt
    <3> QED
      BY <3>1, <3>4
  <2>2. ASSUME NEW i \in 1..n, i - 1 \in T PROVE i \in T
    BY <1>1, <1>2, <2>2
  <2> HIDE DEF T
  <2> QED
    BY <1>1, <2>1, <2>2, UpTo
<1>4. n \in 0..n /\ \A i \in 1..n : i - 1 \in 0..n
  BY <1>1
<1> QED
  BY <1>2, <1>3, <1>4 DEF h

Bookings == [b : Books, leaks : SUBSET Leaks]
FineBookings(mark) == {s \in Bookings : Fine(s.b, s.leaks, mark)}

LEMMA EffectsTyped ==
  ASSUME NEW mark, NEW s \in FineBookings(mark), NEW t \in Trades, NEW o \in Refs,
         NEW d \in {Qty[t], -Qty[t]}, NEW rows \in [Orders -> OrderRows]
  PROVE  ApplyDeltaEffects(s, t, o, d, rows) \in FineBookings(mark)
<1> DEFINE n == ApplyDeltaEffects(s, t, o, d, rows)
<1>1. n = [b |-> n.b, leaks |-> n.leaks]
  BY DEF ApplyDeltaEffects
<1>2. Fine(n.b, n.leaks, mark)
  BY EffectsFacts DEF FineBookings
<1> HIDE DEF n
<1>3. n \in Bookings
  <2> DEFINE x == n.b
             y == n.leaks
  <2>1. x \in Books /\ y \in SUBSET Leaks
    BY <1>2 DEF Fine
  <2> HIDE DEF x, y
  <2>2. [b |-> x, leaks |-> y] \in Bookings
    BY <2>1 DEF Bookings
  <2> QED
    BY <1>1, <2>2 DEF x, y
<1> QED
  BY <1>2, <1>3 DEF FineBookings, n

IsGapEffects(f, q, run, rows) ==
  f = [i \in 0..Len(q) |->
         IF i = 0 THEN [b |-> books, leaks |-> leaks]
         ELSE IF GapDelta(q, run, i) = 0 THEN f[i - 1]
         ELSE ApplyDeltaEffects(f[i - 1], q[i], TradeOrder[q[i]],
                                GapDelta(q, run, i), rows)]

\* The reservations after i of the deltas: each touched BUY holds what its row
\* commits in the end.
Rereserved(res, q, i, rows) ==
  \A o \in Orders :
    res[o] = IF o \in BuyOrders /\ (\E j \in 1..i : TradeOrder[q[j]] = o)
             THEN Outstanding(rows, o) ELSE books.led.res[o]

LEMMA GapEffectsFacts ==
  ASSUME NEW mark, NEW q, Missed(q), NEW run, NEW rows \in [Orders -> OrderRows], Fine(books, leaks, mark),
         \A i \in 1..Len(q) : GapDelta(q, run, i) = Qty[q[i]]
  PROVE  LET s == GapEffects(q, run, rows) IN
         s \in FineBookings(mark) /\ Rereserved(s.b.led.res, q, Len(q), rows)
<1> DEFINE n == Len(q)
           X == FineBookings(mark)
           Step(x, i) == ApplyDeltaEffects(x, q[i], TradeOrder[q[i]], Qty[q[i]], rows)
           g == [z \in X \X (1..n) |-> Step(z[1], z[2])]
           s0 == [b |-> books, leaks |-> leaks]
<1>1. n \in Nat
  BY DEF Missed
<1>a. /\ \A i \in 1..n : q[i] \in Trades /\ TradeOrder[q[i]] \in Orders /\ Qty[q[i]] # 0
      /\ \A i \in 1..n : Qty[q[i]] \in {Qty[q[i]], -Qty[q[i]]}
      /\ \A o \in Orders : o \in Refs
  BY TradeNumbers DEF Missed, Refs
<1>2. ASSUME NEW x \in X, NEW i \in 1..n PROVE Step(x, i) \in X
  BY <1>a, EffectsTyped
<1>b. s0 \in X /\ s0.b = books
  <2>1. books \in Books /\ leaks \in SUBSET Leaks /\ s0.b = books /\ s0.leaks = leaks
    BY DEF Fine
  <2>2. s0 \in Bookings
    BY <2>1 DEF Bookings
  <2> QED
    BY <2>1, <2>2 DEF FineBookings
<1> HIDE DEF X, Step, s0
<1>3. g \in [X \X (1..n) -> X]
  <2>1. ASSUME NEW z \in X \X (1..n) PROVE Step(z[1], z[2]) \in X
    <3>1. z[1] \in X /\ z[2] \in 1..n
      OBVIOUS
    <3> QED
      BY <1>2, <3>1
  <2> QED
    BY <2>1
<1>4. PICK f \in [0..n -> X] : StepsOf(f, n, s0, g)
  <2> HIDE DEF g, n
  <2> QED
    BY <1>1, <1>3, <1>b, FoldExists
<1>c. ASSUME NEW i \in 1..n, NEW y
      PROVE  (IF GapDelta(q, run, i) = 0 THEN y
              ELSE ApplyDeltaEffects(y, q[i], TradeOrder[q[i]], GapDelta(q, run, i), rows))
               = Step(y, i)
  BY <1>a DEF Step
<1>5. IsGapEffects(f, q, run, rows)
  <2>1. ASSUME NEW i \in 0..n
        PROVE  f[i] = IF i = 0 THEN s0
                      ELSE IF GapDelta(q, run, i) = 0 THEN f[i - 1]
                      ELSE ApplyDeltaEffects(f[i - 1], q[i], TradeOrder[q[i]],
                                             GapDelta(q, run, i), rows)
    <3>1. f[i] = IF i = 0 THEN s0 ELSE g[<<f[i - 1], i>>]
      BY <1>4 DEF StepsOf
    <3> HIDE DEF n
    <3>2. i # 0 => i - 1 \in 0..n /\ i \in 1..n
      BY <1>1
    <3>3. i # 0 => <<f[i - 1], i>> \in X \X (1..n)
      BY <1>4, <3>2
    <3>4. f[i] = IF i = 0 THEN s0 ELSE Step(f[i - 1], i)
      BY <3>1, <3>3
    <3> QED
      BY <1>c, <3>2, <3>4
  <2>2. f = [i \in 0..n |-> f[i]]
    BY <1>4
  <2> HIDE DEF g
  <2> QED
    BY <2>1, <2>2 DEF IsGapEffects, s0
<1> DEFINE h == CHOOSE e : IsGapEffects(e, q, run, rows)
           T == {i \in 0..n : h[i] \in X /\ Rereserved(h[i].b.led.res, q, i, rows)}
<1>6. GapEffects(q, run, rows) = h[n]
  BY DEF GapEffects, IsGapEffects
<1>7. IsGapEffects(h, q, run, rows)
  BY <1>5
<1> HIDE DEF h, g
<1>8. 0..n \subseteq T
  <2>1. 0 \in T
    <3>1. h[0] = s0 /\ 0 \in 0..n
      BY <1>1, <1>7 DEF IsGapEffects, s0
    <3>2. Rereserved(books.led.res, q, 0, rows)
      BY DEF Rereserved
    <3> QED
      BY <1>b, <3>1, <3>2
  <2>2. ASSUME NEW i \in 1..n, i - 1 \in T PROVE i \in T
    <3> DEFINE k == h[i - 1]
               t == q[i]
    <3>1. i \in 0..n /\ i # 0 /\ k \in X /\ Rereserved(k.b.led.res, q, i - 1, rows)
      BY <1>1, <2>2
    <3>2. h[i] = Step(k, i)
      <4>1. h[i] = IF GapDelta(q, run, i) = 0 THEN k
                   ELSE ApplyDeltaEffects(k, q[i], TradeOrder[q[i]], GapDelta(q, run, i), rows)
        BY <1>7, <3>1 DEF IsGapEffects
      <4> HIDE DEF k
      <4> QED
        BY <1>c, <4>1
    <3> HIDE DEF k
    <3>3. h[i] \in X
      BY <1>2, <3>1, <3>2
    <3>4. ASSUME NEW p \in Orders
          PROVE  h[i].b.led.res[p] = IF p = TradeOrder[t] /\ SideOf(t) = "Buy"
                                     THEN Outstanding(rows, TradeOrder[t]) ELSE k.b.led.res[p]
      <4>1. Fine(k.b, k.leaks, mark)
        BY <3>1 DEF X, FineBookings
      <4> QED
        BY <1>a, <3>2, <4>1, EffectsFacts DEF Step
    <3>5. ASSUME NEW p \in Orders
          PROVE  h[i].b.led.res[p] = IF p \in BuyOrders /\ (\E j \in 1..i : TradeOrder[q[j]] = p)
                                     THEN Outstanding(rows, p) ELSE books.led.res[p]
      <4>1. k.b.led.res[p] = IF p \in BuyOrders /\ (\E j \in 1..(i - 1) : TradeOrder[q[j]] = p)
                             THEN Outstanding(rows, p) ELSE books.led.res[p]
        BY <3>1 DEF Rereserved
      <4>2. (\E j \in 1..i : TradeOrder[q[j]] = p)
              <=> (p = TradeOrder[t] \/ \E j \in 1..(i - 1) : TradeOrder[q[j]] = p)
        <5>1. \A j : j \in 1..i <=> j \in 1..(i - 1) \/ j = i
          BY <1>1
        <5> QED
          BY <5>1
      <4>3. (SideOf(t) = "Buy") <=> TradeOrder[t] \in BuyOrders
        BY <1>a, SideFacts, TradesAssumption
      <4> QED
        BY <3>4, <4>1, <4>2, <4>3
    <3> QED
      BY <3>1, <3>3, <3>5 DEF Rereserved
  <2> HIDE DEF T
  <2> QED
    BY <1>1, <2>1, <2>2, UpTo
<1>9. n \in 0..n
  BY <1>1
<1> QED
  BY <1>6, <1>8, <1>9 DEF X

-----------------------------------------------------------------------------
(* The invariant *)

\* A new ledger under the same trade records.
LEMMA FineLedger ==
  ASSUME NEW mark, NEW b, NEW ls, Fine(b, ls, mark), NEW m, Sound(m),
         NEW after, Past(m, after),
         m.balance - Realigned(m.file) = b.led.balance - Realigned(b.led.file)
  PROVE  Fine([b EXCEPT !.led = m], ls, after) /\ [b EXCEPT !.led = m].led = m
<1> DEFINE c == [b EXCEPT !.led = m]
<1>1. b \in Books /\ m \in Ledgers /\ b.led \in Ledgers
  BY BookFields DEF Fine, Sound
<1>2. /\ c \in Books /\ c.led = m /\ c.pos = b.pos /\ c.realized = b.realized
      /\ c.creds = b.creds
  BY <1>1, BookWith
<1>3. /\ m.balance \in Nat /\ b.led.balance \in Nat /\ Realigned(m.file) \in Int
      /\ Realigned(b.led.file) \in Int /\ b.realized \in Int /\ NetOf(b.pos) \in Int
  BY <1>1, LedgerFields, BookFields
<1> HIDE DEF c
<1>4. CredsOK(c)
  BY <1>2 DEF CredsOK, Fine
<1>5. Worth(b) = Realigned(b.led.file) => Worth(c) = Realigned(c.led.file)
  BY <1>2, <1>3 DEF Worth
<1> QED
  BY <1>2, <1>4, <1>5 DEF Fine, Sound, c

\* New reservations alone.
LEMMA FineReservations ==
  ASSUME NEW mark, NEW b, NEW ls, Fine(b, ls, mark), NEW res \in [Orders -> Nat]
  PROVE  LET c == [b EXCEPT !.led = [b.led EXCEPT !.res = res]] IN
         Fine(c, ls, mark) /\ c.led.res = res
<1> DEFINE m == [b.led EXCEPT !.res = res]
<1>1. Sound(b.led)
  BY BookFields DEF Fine, Sound
<1>2. /\ Sound(m) /\ m.balance = b.led.balance /\ m.file = b.led.file /\ m.res = res
      /\ Past(m, mark)
  BY <1>1, ReservationsFacts DEF Drawn, Fine
<1> HIDE DEF m
<1>3. Fine([b EXCEPT !.led = m], ls, mark) /\ [b EXCEPT !.led = m].led = m
  BY <1>2, FineLedger
<1> QED
  BY <1>2, <1>3 DEF m

Types ==
  /\ issued \subseteq Orders /\ bound \subseteq issued /\ watermark \in Nat
  /\ resting \subseteq Orders /\ failed \subseteq executed /\ executed \subseteq Trades
  /\ moved \subseteq Moves
  /\ audit.halted \in BOOLEAN /\ audit.strikes \in 0..2
  /\ events \in 0..MaxEvents
  /\ booked \in [Trades -> Int]
  /\ DOMAIN truth = {"last", "cursor", "alert", "free", "realign"}

\* Fills are applied to orders that were placed, and only those are tracked.
Placed ==
  /\ \A t \in applied : TradeOrder[t] \in issued
  /\ \A o \in Orders \ issued : orders[o].status = "Untracked"

Exact(res, rows) ==
  \A o \in Orders : res[o] = IF o \in BuyOrders THEN Outstanding(rows, o) ELSE 0

\* The watermark has passed every manual trade that was folded in.
Once ==
  \A t \in Trades : TradeOrder[t] = NoOrder =>
    booked[t] \in 0..1 /\ (booked[t] = 1 => Stamp[t] <= watermark)

\* What the last report that moved the cursor found.
Mark ==
  [some |-> seen # None, rows |-> seen.rows, cursor |-> truth.cursor,
   last |-> truth.last, gap |-> seen.gap]

IInv ==
  /\ Types /\ RowsOK(orders, applied) /\ Placed /\ Fine(books, leaks, Mark)
  /\ Exact(books.led.res, orders) /\ Once

LEMMA MarkKept == ASSUME UNCHANGED <<truth, seen>> PROVE Mark' = Mark
  BY DEF Mark

LEMMA InitIInv == Init => IInv
<1> SUFFICES ASSUME Init PROVE IInv
  OBVIOUS
<1> DEFINE row == [status |-> "Untracked", filled |-> 0]
<1>1. row \in OrderRows /\ row.status = "Untracked"
  BY DEF OrderRows
<1>2. orders = [o \in Orders |-> row] /\ applied = {}
  BY DEF Init
<1> HIDE DEF row
<1>3. RowsOK(orders, applied) /\ Placed
  BY <1>1, <1>2 DEF RowsOK, Placed
<1>4. Types /\ Once
  BY MoneyAssumption DEF Init, NoAudit, NoTruth, Types, Once
<1>5. EmptyLedger \in Ledgers /\ Replayable(EmptyLedger) /\ EmptyLedger.balance = 0
      /\ EmptyLedger.file = <<>> /\ EmptyLedger.res = [o \in Orders |-> 0]
  BY DEF EmptyLedger, Ledgers, Replayable
<1>6. /\ books.led = EmptyLedger /\ books.pos = None /\ books.realized = 0
      /\ books.creds = [t \in Trades |-> None] /\ books \in Books
  <2> DEFINE l == EmptyLedger
             k == [t \in Trades |-> None]
  <2>1. l \in Ledgers /\ None \in Held /\ k \in CredentialMaps /\ 0 \in Int
    BY <1>5 DEF Held, CredentialMaps
  <2>2. books = [led |-> l, pos |-> None, realized |-> 0, creds |-> k]
    BY DEF Init
  <2> HIDE DEF l, k
  <2>3. /\ books.led = l /\ books.pos = None /\ books.realized = 0 /\ books.creds = k
        /\ books \in Books
    BY <2>1, <2>2 DEF Books
  <2> QED
    BY <2>3 DEF l, k
<1>7. Realigned(<<>>) = 0
  <2> DEFINE f == CHOOSE f : Running(f, <<>>, {"Realign"})
  <2>1. <<>> \in Seq(Rows) /\ Len(<<>>) = 0
    OBVIOUS
  <2>2. Running(f, <<>>, {"Realign"}) /\ Amounts(<<>>, {"Realign"}) = f[Len(<<>>)]
    BY <2>1, AmountsIs
  <2> HIDE DEF f
  <2>3. f[0] = 0
    BY <2>1, <2>2 DEF Running
  <2> QED
    BY <2>1, <2>2, <2>3 DEF Realigned
<1>8. Fine(books, leaks, Mark)
  <2>1. Worth(books) = 0
    BY <1>5, <1>6 DEF Worth, NetOf
  <2>2. CredsOK(books)
    BY <1>6 DEF CredsOK
  <2>3. leaks \in SUBSET Leaks
    BY DEF Init
  <2>4. Past(books.led, Mark)
    BY DEF Past, Mark, Init
  <2> QED
    BY <1>5, <1>6, <1>7, <2>1, <2>2, <2>3, <2>4 DEF Fine
<1>9. Exact(books.led.res, orders)
  BY <1>1, <1>2, <1>5, <1>6 DEF Exact, Outstanding, LiveStatuses
<1> QED
  BY <1>3, <1>4, <1>8, <1>9 DEF IInv

\* The commitment of an order depends on its own row alone.
LEMMA SameRow ==
  ASSUME NEW rows, NEW old, NEW o, rows[o] = old[o]
  PROVE  Outstanding(rows, o) = Outstanding(old, o)
  BY DEF Outstanding

LEMMA EffectsStep ==
  ASSUME IInv, NEW t \in Trades, NEW d, NEW R, Delta(t, d, applied, R),
         TradeOrder[t] \in Orders, orders[TradeOrder[t]].status # "Untracked", Effects(t, d)
  PROVE  /\ RowsOK(orders', R) /\ Fine(books', leaks', Mark) /\ Exact(books'.led.res, orders')
         /\ booked' \in [Trades -> Int] /\ \A u \in Trades : u # t => booked'[u] = booked[u]
         /\ \A o \in Orders : orders[o].status = "Untracked" => orders'[o].status = "Untracked"
<1> DEFINE o == TradeOrder[t]
           row == Moved(orders[o], o, d)
           rows == [orders EXCEPT ![o] = row]
           moves == row.filled - orders[o].filled
           s0 == [b |-> books, leaks |-> leaks]
           s == ApplyDeltaEffects(s0, t, o, moves, rows)
<1>1. /\ RowsOK(orders, applied) /\ Fine(books, leaks, Mark) /\ Exact(books.led.res, orders)
      /\ booked \in [Trades -> Int] /\ orders \in [Orders -> OrderRows]
  BY DEF IInv, Types, RowsOK
<1>2. RowsOK(rows, R) /\ row \in OrderRows /\ moves = d
  <2>1. orders[o].status # "Untracked" /\ o \in Orders
    OBVIOUS
  <2> HIDE DEF IInv
  <2>2. RowsOK(rows, R)
    BY <1>1, <2>1, RowMoves
  <2>3. row \in OrderRows
    BY <1>1, <2>1, RowMoves
  <2>4. moves = d
    <3>1. Shifts(orders[o], row, d)
      BY <1>1, <2>1, RowMoves
    <3> QED
      BY <3>1 DEF Shifts
  <2> QED
    BY <2>2, <2>3, <2>4
<1>3. d \in {Qty[t], -Qty[t]} /\ d # 0
  BY TradeNumbers DEF Delta
<1>4. /\ orders' = rows /\ books' = s.b /\ leaks' = s.leaks
      /\ booked' = [booked EXCEPT ![t] = @ + (IF d > 0 THEN 1 ELSE -1)]
  BY <1>2, <1>3 DEF Effects
<1> HIDE DEF row
<1>5. rows[o] = row /\ (\A p \in Orders : p # o => rows[p] = orders[p]) /\ rows \in [Orders -> OrderRows]
  BY <1>1, <1>2
<1> HIDE DEF rows, moves
<1>6. s0.b = books /\ s0.leaks = leaks /\ o \in Refs
  BY DEF Refs
<1> HIDE DEF s0
<1>7. Fine(s0.b, s0.leaks, Mark)
  BY <1>1, <1>6
<1>8. s = ApplyDeltaEffects(s0, t, o, d, rows)
  BY <1>2
<1>9. Fine(s.b, s.leaks, Mark)
  BY <1>3, <1>5, <1>6, <1>7, <1>8, EffectsFacts
<1>10. ASSUME NEW p \in Orders
       PROVE  s.b.led.res[p] = IF p \in BuyOrders THEN Outstanding(rows, p) ELSE 0
  <2>1. s.b.led.res[p] = IF p = o /\ SideOf(t) = "Buy" THEN Outstanding(rows, o) ELSE books.led.res[p]
    BY <1>3, <1>5, <1>6, <1>7, <1>8, <1>9, EffectsFacts
  <2>2. SideOf(t) = "Buy" <=> o \in BuyOrders
    BY SideFacts, TradesAssumption
  <2>3. books.led.res[p] = IF p \in BuyOrders THEN Outstanding(orders, p) ELSE 0
    BY <1>1 DEF Exact
  <2>4. p # o => Outstanding(rows, p) = Outstanding(orders, p)
    BY <1>5, SameRow
  <2> QED
    BY <2>1, <2>2, <2>3, <2>4
<1> HIDE DEF s
<1>11. Exact(books'.led.res, orders')
  BY <1>4, <1>10 DEF Exact
<1>12. booked' \in [Trades -> Int] /\ \A u \in Trades : u # t => booked'[u] = booked[u]
  <2> DEFINE x == booked[t] + (IF d > 0 THEN 1 ELSE -1)
  <2>1. x \in Int
    BY <1>1
  <2>2. booked' = [booked EXCEPT ![t] = x]
    BY <1>1, <1>4
  <2> HIDE DEF x
  <2> QED
    BY <1>1, <2>1, <2>2
<1>13. ASSUME NEW p \in Orders, orders[p].status = "Untracked" PROVE orders'[p].status = "Untracked"
  BY <1>4, <1>5, <1>13
<1> QED
  BY <1>2, <1>4, <1>9, <1>11, <1>12, <1>13

\* What an action keeps that neither fills nor folds.
LEMMA UnbookedKept ==
  ASSUME IInv, booked' = booked, watermark' = watermark
  PROVE  Once'
  BY DEF IInv, Once

LEMMA FillKept ==
  ASSUME IInv, NEW t \in Trades, IngestFill(t) \/ IngestFailed(t)
  PROVE  IInv'
<1> USE DEF IInv
<1> DEFINE o == TradeOrder[t]
           d == IF IngestFill(t) THEN Qty[t] ELSE -Qty[t]
<1>1. /\ Delta(t, d, applied, applied') /\ o \in issued /\ o \in Orders /\ o # NoOrder
      /\ orders[o].status # "Untracked" /\ Effects(t, d)
  <2>1. CASE IngestFill(t)
    <3>1. t \notin applied /\ applied' = applied \cup {t} /\ o # NoOrder /\ Effects(t, Qty[t])
          /\ orders[o].status # "Untracked"
      BY <2>1 DEF IngestFill, Resolves, Tracked
    <3>2. o \in Orders
      BY <3>1, TradesAssumption
    <3>3. o \in issued
      BY <3>1, <3>2 DEF Placed
    <3> QED
      BY <2>1, <3>1, <3>2, <3>3 DEF Delta
  <2>2. CASE ~IngestFill(t)
    <3>1. t \in applied /\ applied' = applied \ {t} /\ Effects(t, -Qty[t])
          /\ orders[o].status # "Untracked"
      BY <2>2 DEF IngestFailed, Resolves, Tracked
    <3>2. o \in issued /\ o \in Orders /\ o # NoOrder
      BY <3>1, TradesAssumption DEF Placed, Types
    <3> QED
      BY <2>2, <3>1, <3>2 DEF Delta
  <2> QED
    BY <2>1, <2>2
<1> HIDE DEF d
<1>2. UNCHANGED <<issued, bound, watermark, venue, truth, audit, events, seen>>
  BY DEF IngestFill, IngestFailed
<1>3. /\ RowsOK(orders', applied') /\ Fine(books', leaks', Mark) /\ Exact(books'.led.res, orders')
      /\ booked' \in [Trades -> Int] /\ \A u \in Trades : u # t => booked'[u] = booked[u]
      /\ \A p \in Orders : orders[p].status = "Untracked" => orders'[p].status = "Untracked"
  <2> HIDE DEF IInv
  <2> QED
    BY <1>1, EffectsStep
<1>4. Types'
  BY <1>2, <1>3 DEF Types, venue
<1>5. Placed'
  <2>1. \A u \in applied' : TradeOrder[u] \in issued
    BY <1>1 DEF Placed, Delta
  <2> QED
    BY <1>2, <1>3, <2>1 DEF Placed
<1>6. Once'
  BY <1>1, <1>2, <1>3 DEF Once
<1>7. Mark' = Mark
  BY <1>2, MarkKept
<1> QED
  BY <1>3, <1>4, <1>5, <1>6, <1>7

-----------------------------------------------------------------------------
(* The orders *)

\* Nothing was ever traded for an order that was not placed.
LEMMA Untraded ==
  ASSUME RowsOK(orders, applied), Placed, NEW o \in Orders, o \notin issued
  PROVE  Traded(Of(applied, o)) = 0
<1>1. Of(applied, o) = {}
  BY DEF Of, Placed
<1> QED
  BY <1>1, TradedFacts

LEMMA PlaceKept ==
  ASSUME IInv, NEW o \in Orders, NEW arrives \in BOOLEAN, Place(o, arrives)
  PROVE  IInv'
<1> USE DEF IInv
<1> DEFINE row == [status |-> "Pending", filled |-> 0]
           l == books.led
           w == Price[o] * Size[o]
           rs == [l.res EXCEPT ![o] = w]
<1>0. UNCHANGED <<bound, applied, watermark, executed, failed, moved, truth, audit,
                  events, booked, leaks, seen>>
  BY DEF Place
<1>a. Mark' = Mark
  BY <1>0, MarkKept
<1>1. /\ row \in OrderRows /\ row.status = "Pending" /\ row.filled = 0
      /\ orders' = [orders EXCEPT ![o] = row] /\ issued' = issued \cup {o}
  BY DEF Place, OrderRows, LiveStatuses
<1> HIDE DEF row
<1>2. /\ orders \in [Orders -> OrderRows] /\ orders'[o] = row /\ o \notin issued
      /\ \A p \in Orders : p # o => orders'[p] = orders[p]
  BY <1>1 DEF RowsOK, Place
<1>3. orders[o].status = "Untracked" /\ Traded(Of(applied, o)) = 0
  BY <1>2, Untraded DEF Placed
<1>4. RowsOK(orders', applied')
  BY <1>0, <1>1, <1>2, <1>3 DEF RowsOK
<1>5. Placed'
  BY <1>0, <1>1, <1>2 DEF Placed
<1>6. Types'
  BY <1>0, <1>1 DEF Types, Place
<1>7. Once'
  BY <1>0, UnbookedKept
<1>8. w \in Nat /\ l \in Ledgers /\ l.res \in [Orders -> Nat] /\ l.res[o] = 0
  <2>1. l.res[o] = 0
    BY <1>3 DEF Exact, Outstanding, LiveStatuses
  <2> QED
    BY <2>1, OrderNumbers, ProductNat, BookFields, LedgerFields DEF Fine
<1>9. Outstanding(orders', o) = w
  <2>1. AtLeastZero(Size[o] - 0) = Size[o]
    BY OrderNumbers DEF AtLeastZero
  <2> QED
    BY <1>1, <1>2, <2>1 DEF Outstanding, LiveStatuses
<1> HIDE DEF w
<1>10. rs \in [Orders -> Nat] /\ rs[o] = w /\ \A p \in Orders : p # o => rs[p] = l.res[p]
  BY <1>8
<1>11. CASE o \in BuyOrders
  <2>1. books' = [books EXCEPT !.led = Reserve(l, o, w)]
    BY <1>11 DEF Place, Fine, Books, w
  <2>2. Reserve(l, o, w) = [l EXCEPT !.res = rs]
    BY <1>8 DEF Reserve, Ledgers
  <2> HIDE DEF rs
  <2>3. Fine(books', leaks, Mark) /\ books'.led.res = rs
    BY <1>10, <2>1, <2>2, FineReservations
  <2>4. ASSUME NEW p \in Orders
        PROVE  rs[p] = IF p \in BuyOrders THEN Outstanding(orders', p) ELSE 0
    <3>1. p # o => Outstanding(orders', p) = Outstanding(orders, p)
      BY <1>2, SameRow
    <3>2. l.res[p] = IF p \in BuyOrders THEN Outstanding(orders, p) ELSE 0
      BY DEF Exact
    <3> QED
      BY <1>9, <1>10, <1>11, <3>1, <3>2
  <2> QED
    BY <1>0, <1>a, <1>4, <1>5, <1>6, <1>7, <2>3, <2>4 DEF Exact
<1>12. CASE o \notin BuyOrders
  <2>1. books' = books
    BY <1>12 DEF Place
  <2>2. ASSUME NEW p \in Orders
        PROVE  l.res[p] = IF p \in BuyOrders THEN Outstanding(orders', p) ELSE 0
    <3>1. p # o => Outstanding(orders', p) = Outstanding(orders, p)
      BY <1>2, SameRow
    <3>2. l.res[p] = IF p \in BuyOrders THEN Outstanding(orders, p) ELSE 0
      BY DEF Exact
    <3> QED
      BY <1>12, <3>1, <3>2
  <2> QED
    BY <1>0, <1>a, <1>4, <1>5, <1>6, <1>7, <2>1, <2>2 DEF Exact
<1> QED
  BY <1>11, <1>12

LEMMA ConfirmKept ==
  ASSUME IInv, NEW o \in Orders, Confirm(o)
  PROVE  IInv'
<1> USE DEF IInv
<1> DEFINE row == [orders[o] EXCEPT !.status = "Live"]
<1>0. /\ UNCHANGED <<issued, applied, books, watermark, venue, truth, audit, events,
                     booked, leaks, seen>>
      /\ bound' = bound \cup {o} /\ orders[o].status # "Untracked"
      /\ orders \in [Orders -> OrderRows]
  BY DEF Confirm, Tracked, RowsOK
<1>1. row \in OrderRows /\ row.status = "Live" /\ row.filled = orders[o].filled
  BY <1>0 DEF OrderRows, LiveStatuses
<1>2. orders' = IF orders[o].status = "Pending" THEN [orders EXCEPT ![o] = row] ELSE orders
  BY <1>0 DEF Confirm
<1> HIDE DEF row
<1>3. /\ orders' \in [Orders -> OrderRows] /\ orders'[o].filled = orders[o].filled
      /\ \A p \in Orders : p # o => orders'[p] = orders[p]
      /\ orders'[o].status # "Untracked"
      /\ orders'[o].status \in LiveStatuses <=> orders[o].status \in LiveStatuses
  BY <1>0, <1>1, <1>2 DEF LiveStatuses
<1>4. RowsOK(orders', applied')
  BY <1>0, <1>3 DEF RowsOK
<1>5. o \in issued
  BY <1>0 DEF Placed
<1>6. Placed' /\ Types'
  BY <1>0, <1>3, <1>5 DEF Placed, Types, venue
<1>7. ASSUME NEW p \in Orders PROVE Outstanding(orders', p) = Outstanding(orders, p)
  BY <1>3 DEF Outstanding
<1>8. Once' /\ Mark' = Mark
  BY <1>0, UnbookedKept, MarkKept
<1> QED
  BY <1>0, <1>4, <1>6, <1>7, <1>8 DEF Exact

LEMMA EndKept ==
  ASSUME IInv, NEW o \in Orders, End(o)
  PROVE  IInv'
<1> USE DEF IInv
<1> DEFINE row == [orders[o] EXCEPT !.status = "Ended"]
           l == books.led
           rs == [l.res EXCEPT ![o] = 0]
<1>0. /\ UNCHANGED <<issued, bound, applied, watermark, venue, truth, audit, events,
                     booked, leaks, seen>>
      /\ orders[o].status # "Untracked" /\ orders \in [Orders -> OrderRows]
  BY DEF End, Tracked, RowsOK
<1>1. /\ row \in OrderRows /\ row.status = "Ended" /\ row.filled = orders[o].filled
      /\ orders' = [orders EXCEPT ![o] = row]
  BY <1>0 DEF OrderRows, TerminalStatuses, End
<1> HIDE DEF row
<1>2. orders'[o] = row /\ \A p \in Orders : p # o => orders'[p] = orders[p]
  BY <1>0, <1>1
<1>3. RowsOK(orders', applied')
  BY <1>0, <1>1, <1>2 DEF RowsOK
<1>4. o \in issued
  BY <1>0 DEF Placed
<1>5. Placed' /\ Types'
  BY <1>0, <1>2, <1>4 DEF Placed, Types, venue
<1>6. Once' /\ Mark' = Mark
  BY <1>0, UnbookedKept, MarkKept
<1>7. l \in Ledgers /\ l.res \in [Orders -> Nat]
  BY BookFields, LedgerFields DEF Fine
<1>8. books' = [books EXCEPT !.led = [l EXCEPT !.res = rs]]
  BY <1>7 DEF End, Release, Fine, Books, Ledgers
<1>9. rs \in [Orders -> Nat] /\ rs[o] = 0 /\ \A p \in Orders : p # o => rs[p] = l.res[p]
  BY <1>7
<1> HIDE DEF rs
<1>10. Fine(books', leaks, Mark) /\ books'.led.res = rs
  BY <1>8, <1>9, FineReservations
<1>11. ASSUME NEW p \in Orders
       PROVE  rs[p] = IF p \in BuyOrders THEN Outstanding(orders', p) ELSE 0
  <2>1. p # o => Outstanding(orders', p) = Outstanding(orders, p)
    BY <1>2, SameRow
  <2>2. l.res[p] = IF p \in BuyOrders THEN Outstanding(orders, p) ELSE 0
    BY DEF Exact
  <2>3. Outstanding(orders', o) = 0
    BY <1>1, <1>2 DEF Outstanding, LiveStatuses
  <2> QED
    BY <1>9, <2>1, <2>2, <2>3
<1> QED
  BY <1>0, <1>3, <1>5, <1>6, <1>10, <1>11 DEF Exact

-----------------------------------------------------------------------------
(* The venue, the audit *)

LEMMA HappensTyped ==
  ASSUME events \in 0..MaxEvents, Happens
  PROVE  events' \in 0..MaxEvents
  BY MoneyAssumption DEF Happens

LEMMA VenueKept ==
  ASSUME IInv,
         \/ \E o \in Orders : VenueDrop(o)
         \/ \E t \in Trades : VenueExecute(t) \/ VenueFail(t)
         \/ \E m \in Moves : VenueMove(m)
  PROVE  IInv'
<1> USE DEF IInv
<1>0. /\ UNCHANGED <<ome, books, watermark, truth, audit, booked, leaks, seen>>
      /\ Types'
  <2>1. CASE \E o \in Orders : VenueDrop(o)
    BY <2>1 DEF VenueDrop, Types, ome
  <2>2. CASE \E t \in Trades : VenueExecute(t)
    BY <2>2 DEF VenueExecute, Types, ome
  <2>3. CASE \E t \in Trades : VenueFail(t)
    <3>1. events' \in 0..MaxEvents
      BY <2>3, HappensTyped DEF VenueFail, Types
    <3> QED
      BY <2>3, <3>1 DEF VenueFail, Types, ome
  <2>4. CASE \E m \in Moves : VenueMove(m)
    <3>1. events' \in 0..MaxEvents
      BY <2>4, HappensTyped DEF VenueMove, Types
    <3> QED
      BY <2>4, <3>1 DEF VenueMove, Types, ome
  <2> QED
    BY <2>1, <2>2, <2>3, <2>4
<1> QED
  BY <1>0, MarkKept DEF ome, RowsOK, Placed, Fine, Exact, Outstanding, Once

LEMMA AuditKept ==
  ASSUME IInv, NEW stale \in BOOLEAN, Audit(stale)
  PROVE  IInv'
<1> USE DEF IInv
<1>1. UNCHANGED <<ome, books, watermark, venue, booked, leaks, seen>>
  BY DEF Audit
<1>2. events' \in 0..MaxEvents
  BY HappensTyped DEF Audit, Types
<1>3. audit'.halted \in BOOLEAN /\ audit'.strikes \in 0..2
  <2> DEFINE residual == IF audit.anchor = None THEN 0 ELSE Basis - audit.anchor
             explained == /\ residual # 0 /\ truth.realign # None /\ ~stale
                          /\ truth.realign.delta = residual /\ ~truth.realign.spent
             structural == \/ Reserved(books.led) > books.led.balance
                           \/ ~ReservationsMatchOpenBuys
                           \/ residual # 0 /\ ~explained
             venueOk == truth.free = None
                          \/ truth.free = books.led.balance - Reserved(books.led)
             ok == ~structural /\ residual = 0 /\ venueOk
             strikes == IF ok \/ structural THEN 0 ELSE Smaller(audit.strikes + 1, 2)
             anchor == IF audit.anchor = None /\ ~structural THEN Basis ELSE audit.anchor
             halt == structural \/ strikes = 2
  <2>1. audit' = [anchor |-> anchor, halted |-> halt, strikes |-> strikes]
    BY DEF Audit
  <2>2. halt \in BOOLEAN
    OBVIOUS
  <2> HIDE DEF halt, anchor, ok, structural
  <2>3. strikes \in 0..2
    BY DEF Smaller, Types
  <2> HIDE DEF strikes
  <2> QED
    BY <2>1, <2>2, <2>3
<1>4. /\ truth'.last = truth.last /\ truth'.cursor = truth.cursor
      /\ DOMAIN truth' = DOMAIN truth
  <2>1. truth' = truth \/ truth' = [truth EXCEPT !.realign = [@ EXCEPT !.spent = TRUE]]
    BY DEF Audit
  <2> QED
    BY <2>1 DEF Types
<1>5. Types'
  BY <1>1, <1>2, <1>3, <1>4 DEF Types, ome, venue
<1>6. Mark' = Mark
  BY <1>1, <1>4 DEF Mark
<1> QED
  BY <1>1, <1>5, <1>6 DEF ome, RowsOK, Placed, Fine, Exact, Outstanding, Once

-----------------------------------------------------------------------------
(* The venue's cash reports and a restart *)

LEMMA VenueCashTyped ==
  ASSUME executed \subseteq Trades, moved \subseteq Moves
  PROVE  VenueCash \in Int
<1> DEFINE E == executed \ failed
           f == [t \in Trades |-> CashDue(t, Qty[t])]
           h == [m \in Moves |-> m]
           x == SumOf([t \in E |-> f[t]])
           y == SumOf([m \in moved |-> h[m]])
<1>1. IsFiniteSet(E) /\ IsFiniteSet(moved)
  BY TradesAssumption, MoneyAssumption, FS_Subset
<1>2. \A t \in E : f[t] \in Int
  <2>1. ASSUME NEW t \in Trades PROVE CashDue(t, Qty[t]) \in Int
    <3>1. Qty[t] \in Int
      BY TradeNumbers
    <3> QED
      BY <3>1, DueFacts
  <2> QED
    BY <2>1
<1>3. \A m \in moved : h[m] \in Int
  BY MoneyAssumption
<1>4. VenueCash = Deposit + x + y
  <2>1. [t \in E |-> f[t]] = [t \in E |-> CashDue(t, Qty[t])]
    OBVIOUS
  <2>2. [m \in moved |-> h[m]] = [m \in moved |-> m]
    OBVIOUS
  <2> QED
    BY <2>1, <2>2 DEF VenueCash
<1> HIDE DEF E, f, h
<1>5. x \in Int
  BY <1>1, <1>2, SumOfTyped
<1>6. y \in Int
  BY <1>1, <1>3, SumOfTyped
<1> HIDE DEF x, y
<1> QED
  BY <1>4, <1>5, <1>6, MoneyAssumption

\* A report that moves the cursor marks the rows the journal holds.
LEMMA ReportMarks ==
  ASSUME Past(books.led, Mark), books.led \in Ledgers, VenueCash \in Int, Realign(VenueCash)
  PROVE  Past(books.led, Mark')
<1> DEFINE l == books.led
           v == VenueCash
           n == Len(l.file)
           e == [some |-> TRUE, rows |-> n, cursor |-> l.total, last |-> v,
                 gap |-> v - Facts(l.file)]
           advance == truth'.cursor = l.total /\ truth'.last = v
                        /\ seen' = [gap |-> v - Facts(l.file), rows |-> n]
           stays == truth'.cursor = truth.cursor /\ truth'.last = truth.last
                      /\ seen' = seen
<1>1. advance \/ stays
  <2> HIDE DEF v
  <2> QED
    BY DEF Realign, UnexplainedCash, v
<1>2. /\ n \in Nat /\ l.total \in Nat /\ Facts(l.file) \in Int
      /\ FactsTo(l.file, n) = Facts(l.file)
  BY LedgerFields, FactsToEnd
<1>3. CASE advance
  BY <1>2, <1>3 DEF Past, Mark
<1>4. CASE stays
  <2>1. Mark' = Mark
    BY <1>4 DEF Mark
  <2> QED
    BY <2>1
<1> QED
  BY <1>1, <1>3, <1>4

LEMMA RealignKept ==
  ASSUME IInv, SeedBalance \/ FoldVenueFree
  PROVE  IInv'
<1> USE DEF IInv
<1> DEFINE l == books.led
           v == VenueCash
           a == AtLeastZero(v) - l.balance
           m == Apply(l, "Realign", a)
<1>1. Realign(v) /\ events' \in 0..MaxEvents
  BY HappensTyped DEF SeedBalance, FoldVenueFree, Types
<1>2. /\ books' = [books EXCEPT !.led = m]
      /\ UNCHANGED <<ome, watermark, venue, audit, booked, leaks>>
      /\ DOMAIN truth' = {"last", "cursor", "alert", "free", "realign"}
  <2> HIDE DEF v
  <2> QED
    BY <1>1 DEF Realign, SetBalance, Fine, Books
<1>3. Sound(l) /\ l \in Ledgers /\ l.balance \in Nat /\ Realigned(l.file) \in Int
  BY BookFields, LedgerFields DEF Fine, Sound
<1>4. a \in Int /\ "Realign" \in Kinds
  <2>1. v \in Int
    BY VenueCashTyped DEF Types
  <2> HIDE DEF v
  <2> QED
    BY <1>3, <2>1, FloorFacts DEF Kinds
<1> HIDE DEF a
<1>5. Sound(m) /\ m.res = l.res /\ Realigned(m.file) = Realigned(l.file) + (m.balance - l.balance)
  BY <1>3, <1>4, ApplyFacts
<1> HIDE DEF m
<1>6. m.balance - Realigned(m.file) = l.balance - Realigned(l.file)
  <2>1. m.balance \in Nat
    BY <1>5, LedgerFields DEF Sound
  <2> QED
    BY <1>3, <1>5, <2>1
<1>a. Past(m, Mark')
  <2>1. Past(l, Mark')
    <3>1. VenueCash \in Int
      BY VenueCashTyped DEF Types
    <3> QED
      BY <1>1, <1>3, <3>1, ReportMarks DEF Fine
  <2> QED
    BY <1>3, <1>4, <2>1, ApplyFacts DEF m
<1>7. Fine(books', leaks, Mark') /\ books'.led = m
  BY <1>2, <1>5, <1>6, <1>a, FineLedger
<1>8. Types'
  BY <1>1, <1>2 DEF Types, ome, venue
<1> QED
  BY <1>2, <1>5, <1>7, <1>8 DEF ome, RowsOK, Placed, Exact, Outstanding, Once

LEMMA RestartKept ==
  ASSUME IInv, Restart
  PROVE  IInv'
<1> USE DEF IInv
<1> DEFINE blank == [status |-> "Untracked", filled |-> 0]
           rows == [o \in Orders |-> IF Live(o) THEN orders[o] ELSE blank]
           l == books.led
           rs == [o \in Orders |-> IF o \in BuyOrders THEN Outstanding(rows, o) ELSE 0]
           k == WindowLen(l)
           m == [balance |-> l.balance, res |-> rs, file |-> l.file, total |-> k]
<1>1. /\ UNCHANGED <<issued, applied, venue, booked, leaks>>
      /\ orders' = rows /\ bound' = {o \in bound : Live(o)} /\ watermark' = watermark
      /\ audit' = NoAudit /\ truth' = NoTruth /\ seen' = None
      /\ books' = [books EXCEPT !.led = RestoredLedger(l, rows)]
  BY DEF Restart, WatermarkKept, Fine, Books
<1>2. blank \in OrderRows /\ blank.status = "Untracked"
  BY DEF OrderRows
<1> HIDE DEF blank
<1>3. rows \in [Orders -> OrderRows] /\ \A o \in Orders : rows[o] \in {orders[o], blank}
  BY <1>2 DEF RowsOK
<1>4. RowsOK(orders', applied')
  BY <1>1, <1>2, <1>3 DEF RowsOK
<1>5. Placed'
  BY <1>1, <1>2, <1>3 DEF Placed
<1>6. events' \in 0..MaxEvents
  BY HappensTyped DEF Restart, Types
<1>7. Types'
  BY <1>1, <1>6 DEF Types, venue, NoAudit, NoTruth
<1>8. Once'
  BY <1>1, UnbookedKept
<1>9. /\ l \in Ledgers /\ Replayable(l) /\ l.balance \in Nat /\ l.file \in Seq(Rows)
      /\ Realigned(l.file) \in Int
  BY BookFields, LedgerFields DEF Fine
<1>10. k \in Nat
  <2>1. JournalCap \in Nat /\ Len(l.file) \in Nat
    BY <1>9, JournalCapAssumption
  <2> QED
    BY <2>1 DEF WindowLen, Smaller
<1> HIDE DEF rows
<1>11. rs \in [Orders -> Nat]
  <2>1. ASSUME NEW o \in Orders PROVE Outstanding(rows, o) \in Nat
    BY <1>3, OutstandingFacts
  <2> QED
    BY <2>1
<1>12. RestoredLedger(l, rows) = m
  BY <1>9 DEF RestoredLedger, ReplayJournal, Replayable, Last
<1> HIDE DEF k
<1>13. Exact(rs, orders')
  BY <1>1 DEF Exact
<1> HIDE DEF rs
<1>14. m \in Ledgers /\ m.balance = l.balance /\ m.file = l.file /\ m.res = rs
  <2> DEFINE x == l.balance
             f == l.file
  <2>1. x \in Nat /\ f \in Seq(Rows)
    BY <1>9
  <2> HIDE DEF x, f
  <2>2. LET n == [balance |-> x, res |-> rs, file |-> f, total |-> k] IN
        n \in Ledgers /\ n.balance = x /\ n.file = f /\ n.res = rs
    BY <1>10, <1>11, <2>1 DEF Ledgers
  <2> QED
    BY <2>2 DEF x, f
<1> HIDE DEF m
<1>15. Sound(m)
  BY <1>9, <1>14 DEF Sound, Replayable
<1>a. Past(m, Mark')
  BY <1>1 DEF Past, Mark
<1>16. Fine(books', leaks, Mark') /\ books'.led = m
  BY <1>1, <1>12, <1>14, <1>15, <1>a, FineLedger
<1> QED
  BY <1>1, <1>4, <1>5, <1>7, <1>8, <1>13, <1>14, <1>16

-----------------------------------------------------------------------------
(* The sweep *)

\* The second pass only ends orders, and leaves the fills of every row alone.
LEMMA GhostFacts ==
  ASSUME NEW swept, NEW S, RowsOK(swept, S), bound \subseteq Orders
  PROVE  LET rows == AfterGhosts(swept) IN
         /\ RowsOK(rows, S) /\ Ghosts(swept) \subseteq Orders
         /\ \A o \in Orders :
              IF o \in Ghosts(swept)
              THEN /\ rows[o].status \in TerminalStatuses
                   /\ rows[o].status = "Filled" => Outstanding(swept, o) = 0
              ELSE rows[o] = swept[o]
<1> DEFINE rows == AfterGhosts(swept)
           G == Ghosts(swept)
           new(o) == [swept[o] EXCEPT !.status = GhostStatus(swept[o], o)]
<1>1. G \subseteq Orders /\ \A o \in G : swept[o].status \in LiveStatuses
  BY DEF Ghosts
<1>2. swept \in [Orders -> OrderRows] /\ rows = [o \in Orders |-> IF o \in G THEN new(o) ELSE swept[o]]
  BY DEF RowsOK, AfterGhosts
<1> HIDE DEF G, rows
<1>3. ASSUME NEW o \in G
      PROVE  /\ new(o) \in OrderRows /\ new(o).status \in TerminalStatuses
             /\ new(o).filled = swept[o].filled /\ new(o).status = GhostStatus(swept[o], o)
  <2> DEFINE row == swept[o]
             st == GhostStatus(row, o)
  <2>1. row \in OrderRows
    BY <1>1, <1>2
  <2>2. st \in TerminalStatuses
    BY DEF GhostStatus, TerminalStatuses
  <2> HIDE DEF row, st
  <2>3. LET n == [row EXCEPT !.status = st] IN
        n \in OrderRows /\ n.status = st /\ n.filled = row.filled
    BY <2>1, <2>2 DEF OrderRows
  <2> QED
    BY <2>2, <2>3 DEF row, st
<1> HIDE DEF new
<1>4. ASSUME NEW o \in Orders
      PROVE  IF o \in G
             THEN /\ rows[o].status \in TerminalStatuses
                  /\ rows[o].status = "Filled" => Outstanding(swept, o) = 0
             ELSE rows[o] = swept[o]
  <2>1. CASE o \in G
    <3>1. rows[o] = new(o)
      BY <1>2, <2>1
    <3>2. rows[o].status = "Filled" => swept[o].filled >= Size[o]
      BY <1>3, <2>1, <3>1 DEF GhostStatus
    <3>3. swept[o].filled >= Size[o] => AtLeastZero(Size[o] - swept[o].filled) = 0
      <4>1. swept[o].filled \in Nat /\ Size[o] \in Nat
        BY <1>2, OrderNumbers DEF OrderRows
      <4> QED
        BY <4>1 DEF AtLeastZero
    <3>4. Price[o] * 0 = 0
      BY OrderNumbers
    <3>5. rows[o].status = "Filled" => Outstanding(swept, o) = 0
      BY <3>2, <3>3, <3>4 DEF Outstanding
    <3> QED
      BY <1>3, <2>1, <3>1, <3>5
  <2>2. CASE o \notin G
    BY <1>2, <2>2
  <2> QED
    BY <2>1, <2>2
<1>5. RowsOK(rows, S)
  <2>1. rows \in [Orders -> OrderRows]
    BY <1>2, <1>3
  <2>2. ASSUME NEW o \in Orders, rows[o].status # "Untracked"
        PROVE  rows[o].filled = Traded(Of(S, o))
    <3>1. CASE o \in G
      <4>1. rows[o].filled = swept[o].filled /\ swept[o].status # "Untracked"
        BY <1>1, <1>2, <1>3, <3>1 DEF LiveStatuses
      <4> QED
        BY <4>1 DEF RowsOK
    <3>2. CASE o \notin G
      <4>1. rows[o] = swept[o]
        BY <1>2, <3>2
      <4> QED
        BY <2>2, <4>1 DEF RowsOK
    <3> QED
      BY <3>1, <3>2
  <2> QED
    BY <2>1, <2>2 DEF RowsOK
<1> QED
  BY <1>1, <1>4, <1>5 DEF rows, G

\* The place timeouts.
Expired(rows, expired) ==
  [o \in Orders |-> IF o \in expired THEN [rows[o] EXCEPT !.status = "Ended"] ELSE rows[o]]

LEMMA ExpiredFacts ==
  ASSUME NEW rows, NEW S, RowsOK(rows, S), NEW expired, expired \subseteq Expirable(rows)
  PROVE  LET new == Expired(rows, expired) IN
         /\ RowsOK(new, S) /\ expired \subseteq Orders
         /\ \A o \in Orders : IF o \in expired
                              THEN /\ new[o].status = "Ended"
                                   /\ rows[o].status = "Pending"
                              ELSE new[o] = rows[o]
<1> DEFINE new == Expired(rows, expired)
           row(o) == [rows[o] EXCEPT !.status = "Ended"]
<1>1. expired \subseteq Orders /\ \A o \in expired : rows[o].status = "Pending"
  BY DEF Expirable
<1>2. /\ rows \in [Orders -> OrderRows]
      /\ new = [o \in Orders |-> IF o \in expired THEN row(o) ELSE rows[o]]
  BY DEF RowsOK, Expired
<1>3. ASSUME NEW o \in Orders
      PROVE  row(o) \in OrderRows /\ row(o).status = "Ended" /\ row(o).filled = rows[o].filled
  BY <1>2 DEF OrderRows, TerminalStatuses
<1> HIDE DEF new, row
<1>4. new \in [Orders -> OrderRows]
  BY <1>2, <1>3
<1>5. ASSUME NEW o \in Orders
      PROVE  IF o \in expired THEN new[o].status = "Ended" /\ rows[o].status = "Pending"
             ELSE new[o] = rows[o]
  BY <1>1, <1>2, <1>3
<1>6. ASSUME NEW o \in Orders, new[o].status # "Untracked"
      PROVE  new[o].filled = Traded(Of(S, o))
  <2>1. new[o].filled = rows[o].filled
    BY <1>2, <1>3
  <2>2. rows[o].status # "Untracked"
    BY <1>5, <1>6
  <2> QED
    BY <2>1, <2>2 DEF RowsOK
<1>7. RowsOK(new, S)
  BY <1>4, <1>6 DEF RowsOK
<1> QED
  BY <1>1, <1>5, <1>7 DEF new

\* One sweep, whatever the order the venue lists its trades in.
LEMMA SweepListedFacts ==
  ASSUME IInv, NEW q, Missed(q), NEW sells \in Seq(Trades), NEW buys \in Seq(Trades),
         NEW F \in SUBSET Trades,
         \A i \in 1..Len(sells) : sells[i] \in F /\ SideOf(sells[i]) = "Sell",
         \A i \in 1..Len(buys) : buys[i] \in F,
         NEW expired, SweepListed(q, sells, buys, expired)
  PROVE  /\ RowsOK(orders', applied \cup Listed(q, Len(q))) /\ Fine(books', leaks', Mark)
         /\ Exact(books'.led.res, orders')
         /\ \A o \in Orders : orders[o].status = "Untracked" => orders'[o].status = "Untracked"
         /\ booked' \in [Trades -> Int]
         /\ \A t \in Trades : \/ booked'[t] = booked[t]
                              \/ booked'[t] = booked[t] + 1 /\ t \in F \cup Listed(q, Len(q))
<1> DEFINE n == Len(q)
           S == applied \cup Listed(q, n)
           run == GapRows(q)
           swept == run[n]
           rows == AfterGhosts(swept)
           s == GapEffects(q, run, rows)
           s0 == [b |-> s.b, leaks |-> s.leaks, folded |-> {}]
           e == ApplyExternalFills(s0, sells, buys)
           dropped == {o \in Ghosts(swept) : rows[o].status # "Filled"}
           ends == dropped \cup expired
           hit == e.folded \cup {q[i] : i \in {j \in DOMAIN q : GapDelta(q, run, j) # 0}}
           l == e.b.led
           rs == [o \in Orders |-> IF o \in ends THEN 0 ELSE l.res[o]]
           k == [l EXCEPT !.res = rs]
<1>1. /\ RowsOK(orders, applied) /\ Fine(books, leaks, Mark) /\ Exact(books.led.res, orders)
      /\ booked \in [Trades -> Int] /\ orders \in [Orders -> OrderRows] /\ bound \subseteq Orders
  BY DEF IInv, Types, RowsOK
<1>2. /\ expired \subseteq Expirable(rows) /\ orders' = Expired(rows, expired)
      /\ books' = [e.b EXCEPT !.led = ReleaseAll(@, ends)] /\ leaks' = e.leaks
      /\ booked' = [t \in Trades |-> booked[t] + (IF t \in hit THEN 1 ELSE 0)]
  BY DEF SweepListed, SweepEnds, Expired
<1>3. /\ GapAt(swept, q, n)
      /\ \A i \in 1..n : GapDelta(q, run, i) = Qty[q[i]]
  BY <1>1, GapFacts
<1> HIDE DEF run, swept
<1>4. RowsOK(swept, S)
  BY <1>3 DEF GapAt
<1> HIDE DEF S
<1>5. /\ RowsOK(rows, S) /\ Ghosts(swept) \subseteq Orders
      /\ \A o \in Orders :
           IF o \in Ghosts(swept)
           THEN /\ rows[o].status \in TerminalStatuses
                /\ rows[o].status = "Filled" => Outstanding(swept, o) = 0
           ELSE rows[o] = swept[o]
  BY <1>1, <1>4, GhostFacts
<1> HIDE DEF rows
<1>6. /\ RowsOK(orders', S) /\ expired \subseteq Orders
      /\ \A o \in Orders : IF o \in expired
                           THEN orders'[o].status = "Ended" /\ rows[o].status = "Pending"
                           ELSE orders'[o] = rows[o]
  <2> DEFINE new == Expired(rows, expired)
  <2>1. RowsOK(new, S) /\ expired \subseteq Orders
    BY <1>2, <1>5, ExpiredFacts
  <2>2. ASSUME NEW o \in Orders
        PROVE  IF o \in expired THEN new[o].status = "Ended" /\ rows[o].status = "Pending"
               ELSE new[o] = rows[o]
    BY <1>2, <1>5, ExpiredFacts
  <2>3. orders' = new
    BY <1>2
  <2> HIDE DEF new
  <2> QED
    BY <2>1, <2>2, <2>3
<1>7. s \in FineBookings(Mark) /\ Rereserved(s.b.led.res, q, n, rows)
  <2>1. rows \in [Orders -> OrderRows]
    BY <1>5 DEF RowsOK
  <2> QED
    BY <1>1, <1>3, <2>1, GapEffectsFacts
<1> HIDE DEF s
<1>8. s0 \in Foldable(s.b.led.res, F, Mark)
  <2> DEFINE x == s.b
             y == s.leaks
  <2>1. x \in Books /\ y \in SUBSET Leaks /\ {} \in SUBSET Trades /\ Fine(x, y, Mark)
    BY <1>7 DEF FineBookings, Bookings
  <2>2. s0 = [b |-> x, leaks |-> y, folded |-> {}]
    OBVIOUS
  <2> HIDE DEF x, y, s0
  <2>3. s0 \in Folds /\ s0.b = x /\ s0.leaks = y /\ s0.folded = {}
    BY <2>1, <2>2 DEF Folds
  <2> QED
    BY <2>1, <2>3 DEF Foldable, x, y
<1> HIDE DEF s0
<1>9. e \in Foldable(s.b.led.res, F, Mark)
  <2> DEFINE x == s.b.led.res
  <2>1. s0 \in Foldable(x, F, Mark)
    BY <1>8
  <2> HIDE DEF x
  <2>2. e \in Foldable(x, F, Mark)
    BY <1>1, <2>1, ExternalFacts
  <2> QED
    BY <2>2 DEF x
<1> HIDE DEF e
<1>10. Fine(e.b, e.leaks, Mark) /\ e.b \in Books /\ l.res = s.b.led.res /\ e.folded \subseteq F
  BY <1>9 DEF Foldable, Fine
<1>11. l \in Ledgers /\ l.res \in [Orders -> Nat] /\ rs \in [Orders -> Nat]
  <2>1. l \in Ledgers /\ l.res \in [Orders -> Nat]
    BY <1>10, BookFields, LedgerFields
  <2> HIDE DEF l, ends
  <2> QED
    BY <2>1
<1>12. books' = [e.b EXCEPT !.led = k]
  <2>1. ReleaseAll(l, ends) = k
    BY <1>11 DEF ReleaseAll, Ledgers
  <2> QED
    BY <1>2, <1>10, <2>1 DEF Books
<1>13. Fine(books', leaks', Mark) /\ books'.led.res = rs
  <2> DEFINE c == e.b
  <2>1. books' = [c EXCEPT !.led = [c.led EXCEPT !.res = rs]] /\ Fine(c, e.leaks, Mark)
    BY <1>10, <1>12
  <2> HIDE DEF c, rs
  <2>2. Fine(books', e.leaks, Mark) /\ books'.led.res = rs
    BY <1>11, <2>1, FineReservations
  <2> QED
    BY <1>2, <2>2
<1>14. ASSUME NEW o \in Orders
       PROVE  rs[o] = IF o \in BuyOrders THEN Outstanding(orders', o) ELSE 0
  <2>1. CASE o \in ends
    <3>1. orders'[o].status \notin LiveStatuses
      <4>1. CASE o \in expired
        BY <1>6, <4>1 DEF LiveStatuses
      <4>2. CASE o \notin expired
        BY <1>5, <1>6, <2>1, <4>2 DEF LiveStatuses, TerminalStatuses
      <4> QED
        BY <4>1, <4>2
    <3>2. Outstanding(orders', o) = 0 /\ rs[o] = 0
      BY <2>1, <3>1 DEF Outstanding
    <3> QED
      BY <3>2
  <2>2. CASE o \notin ends
    <3>1. orders'[o] = rows[o] /\ rs[o] = s.b.led.res[o]
      BY <1>6, <1>10, <2>2
    <3>2. Outstanding(orders', o) = Outstanding(rows, o)
      BY <3>1, SameRow
    <3>3. s.b.led.res[o] = IF o \in BuyOrders /\ (\E j \in 1..n : TradeOrder[q[j]] = o)
                           THEN Outstanding(rows, o) ELSE books.led.res[o]
      BY <1>7 DEF Rereserved
    <3>4. books.led.res[o] = IF o \in BuyOrders THEN Outstanding(orders, o) ELSE 0
      BY <1>1 DEF Exact
    <3>5. (\A j \in 1..n : TradeOrder[q[j]] # o) => Outstanding(orders, o) = Outstanding(rows, o)
      <4> SUFFICES ASSUME \A j \in 1..n : TradeOrder[q[j]] # o
                   PROVE  Outstanding(orders, o) = Outstanding(rows, o)
        OBVIOUS
      <4>1. swept[o] = orders[o]
        BY <1>3 DEF GapAt
      <4>2. Outstanding(orders, o) = Outstanding(swept, o)
        BY <4>1, SameRow
      <4>3. CASE o \in Ghosts(swept)
        <5>1. rows[o].status = "Filled" /\ Outstanding(swept, o) = 0
          BY <1>5, <2>2, <4>3
        <5>2. Outstanding(rows, o) = 0
          BY <5>1 DEF Outstanding, LiveStatuses
        <5> QED
          BY <4>2, <5>1, <5>2
      <4>4. CASE o \notin Ghosts(swept)
        <5>1. rows[o] = swept[o]
          BY <1>5, <4>4
        <5>2. Outstanding(rows, o) = Outstanding(swept, o)
          BY <5>1, SameRow
        <5> QED
          BY <4>2, <5>2
      <4> QED
        BY <4>3, <4>4
    <3> QED
      BY <3>1, <3>2, <3>3, <3>4, <3>5
  <2> QED
    BY <2>1, <2>2
<1>15. ASSUME NEW o \in Orders, orders[o].status = "Untracked"
       PROVE  orders'[o].status = "Untracked"
  <2>1. swept[o] = orders[o]
    <3>1. \A j \in 1..n : TradeOrder[q[j]] # o
      BY <1>15 DEF Missed
    <3> QED
      BY <1>3, <3>1 DEF GapAt
  <2>2. o \notin Ghosts(swept)
    BY <1>15, <2>1 DEF Ghosts, LiveStatuses
  <2>3. rows[o] = swept[o]
    BY <1>5, <2>2
  <2> QED
    BY <1>6, <1>15, <2>1, <2>3
<1>16. hit \subseteq F \cup Listed(q, n)
  <2>1. DOMAIN q = 1..n
    BY DEF Missed
  <2> QED
    BY <1>10, <2>1 DEF Listed
<1> HIDE DEF hit
<1>17. /\ booked' \in [Trades -> Int]
       /\ \A t \in Trades : \/ booked'[t] = booked[t]
                            \/ booked'[t] = booked[t] + 1 /\ t \in F \cup Listed(q, n)
  BY <1>1, <1>2, <1>16
<1> HIDE DEF rs
<1> QED
  BY <1>6, <1>13, <1>14, <1>15, <1>17 DEF Exact, S

\* A listing names every trade of a set once.
LEMMA ListingFacts ==
  ASSUME NEW S \in SUBSET Trades, NEW q \in Listings(S)
  PROVE  /\ q \in Seq(Trades) /\ \A i \in 1..Len(q) : q[i] \in S
         /\ \A i, j \in 1..Len(q) : q[i] = q[j] => i = j
         /\ Listed(q, Len(q)) = S
<1> DEFINE n == Cardinality(S)
<1>1. n \in Nat
  BY TradesAssumption, FS_Subset, FS_CardinalityType
<1>2. /\ q \in [1..n -> S] /\ \A i, j \in 1..n : q[i] = q[j] => i = j
      /\ \A t \in S : \E i \in 1..n : q[i] = t
  BY DEF Listings, Bijection, Injection, Surjection, IsInjective
<1> HIDE DEF n
<1>3. q \in Seq(Trades) /\ Len(q) = n
  BY <1>1, <1>2
<1>4. Listed(q, n) = S
  BY <1>2 DEF Listed
<1> QED
  BY <1>2, <1>3, <1>4

LEMMA StampsFinite == ASSUME NEW S \in SUBSET Trades PROVE IsFiniteSet({Stamp[t] : t \in S})
<1> DEFINE Im(s) == {Stamp[t] : t \in s}
           T == {s \in SUBSET Trades : ~IsFiniteSet(Im(s))}
<1>1. ASSUME NEW s \in T PROVE \E r \in T : r \subseteq s /\ r # s
  <2>1. s # {}
    <3>1. Im({}) = {}
      OBVIOUS
    <3>2. IsFiniteSet(Im({}))
      BY <3>1, FS_EmptySet
    <3> QED
      BY <3>2
  <2>2. PICK x \in s : TRUE
    BY <2>1
  <2> DEFINE r == s \ {x}
  <2>3. r \subseteq s /\ r # s /\ r \in SUBSET Trades
    BY <2>2
  <2>4. Im(s) = Im(r) \cup {Stamp[x]}
    BY <2>2
  <2> HIDE DEF Im, r
  <2>5. IsFiniteSet(Im(r)) => IsFiniteSet(Im(s))
    <3> DEFINE I == Im(r)
               y == Stamp[x]
    <3>1. Im(s) = I \cup {y}
      BY <2>4
    <3> HIDE DEF I, y
    <3>2. IsFiniteSet(I) => IsFiniteSet(I \cup {y})
      BY FS_AddElement
    <3> QED
      BY <3>1, <3>2 DEF I
  <2> QED
    BY <2>3, <2>5
<1>2. IsFiniteSet(Trades) /\ T \in SUBSET SUBSET Trades
  BY TradesAssumption
<1> HIDE DEF T
<1>3. T = {}
  BY <1>1, <1>2, FiniteDescent
<1> QED
  BY <1>3 DEF T

LEMMA WatermarkFacts ==
  ASSUME watermark \in Nat, NEW S \in SUBSET Trades
  PROVE  LET w == Max({watermark} \cup {Stamp[t] : t \in S}) IN
         w \in Nat /\ watermark <= w /\ \A t \in S : Stamp[t] <= w
<1> DEFINE I == {Stamp[t] : t \in S}
           M == {watermark} \cup I
<1>1. I \in SUBSET Nat
  BY TradeNumbers
<1>2. IsFiniteSet(I)
  BY StampsFinite
<1>3. \A t \in S : Stamp[t] \in M
  OBVIOUS
<1>a. M = I \cup {watermark}
  OBVIOUS
<1> HIDE DEF I
<1>4. M \in SUBSET Nat /\ watermark \in M /\ M # {}
  BY <1>1
<1>5. IsFiniteSet(M)
  BY <1>2, <1>a, FS_AddElement
<1> HIDE DEF M
<1>6. Max(M) \in M /\ \A y \in M : y <= Max(M)
  BY <1>4, <1>5, GreatestNatural
<1>7. Max(M) \in Nat /\ watermark <= Max(M) /\ \A t \in S : Stamp[t] <= Max(M)
  BY <1>3, <1>4, <1>6
<1> QED
  BY <1>7 DEF M, I

LEMMA SweepKept ==
  ASSUME IInv, NEW page \in {{}, executed \ failed}, NEW expired, Sweep(page, expired)
  PROVE  IInv'
<1> DEFINE gaps == {t \in page : Known(t) /\ t \notin applied}
           fresh == Fresh(page)
           soldSet == {t \in fresh : SideOf(t) = "Sell"}
           boughtSet == {t \in fresh : SideOf(t) = "Buy"}
           top == Max({watermark} \cup {Stamp[t] : t \in fresh})
<1>1. PICK q \in Listings(gaps), sells \in Listings(soldSet), buys \in Listings(boughtSet) :
        SweepListed(q, sells, buys, expired)
  BY DEF Sweep
<1>2. /\ applied' = applied \cup gaps /\ watermark' = top
      /\ UNCHANGED <<issued, bound, venue, truth, audit, events, seen>>
  BY DEF Sweep
<1>3. /\ Types /\ Placed /\ Once /\ RowsOK(orders, applied) /\ watermark \in Nat
      /\ booked \in [Trades -> Int]
  BY DEF IInv, Types
<1>4. /\ gaps \in SUBSET Trades /\ fresh \in SUBSET Trades /\ soldSet \in SUBSET Trades
      /\ boughtSet \in SUBSET Trades
      /\ \A t \in gaps : /\ t \notin applied /\ TradeOrder[t] # NoOrder
                         /\ orders[TradeOrder[t]].status # "Untracked" /\ TradeOrder[t] \in bound
      /\ \A t \in fresh : Stamp[t] > watermark
      /\ \A t \in soldSet : t \in fresh /\ SideOf(t) = "Sell"
      /\ \A t \in boughtSet : t \in fresh
  BY <1>3 DEF Types, Known, Tracked, Fresh
<1>5. \A t \in gaps : TradeOrder[t] \in Orders /\ TradeOrder[t] \in issued
  BY <1>3, <1>4 DEF Types
<1>6. top \in Nat /\ watermark <= top /\ \A t \in fresh : Stamp[t] <= top
  <2> HIDE DEF fresh
  <2> QED
    BY <1>3, <1>4, WatermarkFacts
<1> HIDE DEF gaps, fresh, soldSet, boughtSet, top
<1>7. Missed(q) /\ Listed(q, Len(q)) = gaps
  <2>1. /\ q \in Seq(Trades) /\ \A i \in 1..Len(q) : q[i] \in gaps
        /\ Listed(q, Len(q)) = gaps
    BY <1>4, ListingFacts
  <2>2. \A i, j \in 1..Len(q) : q[i] = q[j] => i = j
    BY <1>4, ListingFacts
  <2> QED
    BY <1>4, <1>5, <2>1, <2>2 DEF Missed
<1>8. sells \in Seq(Trades) /\ \A i \in 1..Len(sells) : sells[i] \in fresh /\ SideOf(sells[i]) = "Sell"
  BY <1>4, ListingFacts
<1>9. buys \in Seq(Trades) /\ \A i \in 1..Len(buys) : buys[i] \in fresh
  BY <1>4, ListingFacts
<1>a. Mark' = Mark
  BY <1>2, MarkKept
<1>10. /\ RowsOK(orders', applied') /\ Fine(books', leaks', Mark) /\ Exact(books'.led.res, orders')
       /\ \A o \in Orders : orders[o].status = "Untracked" => orders'[o].status = "Untracked"
       /\ booked' \in [Trades -> Int]
       /\ \A t \in Trades : \/ booked'[t] = booked[t]
                            \/ booked'[t] = booked[t] + 1 /\ t \in fresh \cup gaps
  <2>1. /\ RowsOK(orders', applied \cup Listed(q, Len(q))) /\ Fine(books', leaks', Mark)
        /\ Exact(books'.led.res, orders')
        /\ \A o \in Orders : orders[o].status = "Untracked" => orders'[o].status = "Untracked"
        /\ booked' \in [Trades -> Int]
        /\ \A t \in Trades : \/ booked'[t] = booked[t]
                             \/ booked'[t] = booked[t] + 1 /\ t \in fresh \cup Listed(q, Len(q))
    BY <1>1, <1>4, <1>7, <1>8, <1>9, SweepListedFacts
  <2> QED
    BY <1>2, <1>7, <2>1
<1>11. Types'
  BY <1>2, <1>3, <1>6, <1>10 DEF Types, venue
<1>12. Placed'
  BY <1>2, <1>3, <1>5, <1>10 DEF Placed
<1>13. ASSUME NEW t \in Trades, TradeOrder[t] = NoOrder
       PROVE  booked'[t] \in 0..1 /\ (booked'[t] = 1 => Stamp[t] <= watermark')
  <2>1. booked[t] \in 0..1 /\ (booked[t] = 1 => Stamp[t] <= watermark) /\ Stamp[t] \in Nat
    BY <1>3, <1>13, TradeNumbers DEF Once
  <2>2. CASE booked'[t] = booked[t]
    BY <1>2, <1>3, <1>6, <2>1, <2>2
  <2>3. CASE booked'[t] = booked[t] + 1 /\ t \in fresh \cup gaps
    <3>1. t \in fresh
      BY <1>4, <1>13, <2>3
    <3>2. booked[t] = 0
      BY <1>3, <1>4, <2>1, <3>1
    <3> QED
      BY <1>2, <1>6, <2>3, <3>1, <3>2
  <2> QED
    BY <1>10, <2>2, <2>3
<1> QED
  BY <1>a, <1>10, <1>11, <1>12, <1>13 DEF IInv, Once

-----------------------------------------------------------------------------
(* The theorems *)

LEMMA StutterKept == IInv /\ UNCHANGED vars => IInv'
  BY MarkKept DEF vars, ome, venue, IInv, Types, RowsOK, Placed, Fine, Exact, Outstanding, Once

LEMMA NextKept == IInv /\ [Next]_vars => IInv'
<1> SUFFICES ASSUME IInv, [Next]_vars PROVE IInv'
  OBVIOUS
<1>1. ASSUME NEW o \in Orders, NEW arrives \in BOOLEAN, Place(o, arrives) PROVE IInv'
  BY <1>1, PlaceKept
<1>2. ASSUME NEW o \in Orders, Confirm(o) \/ End(o) \/ VenueDrop(o) PROVE IInv'
  BY <1>2, ConfirmKept, EndKept, VenueKept
<1>3. ASSUME NEW t \in Trades,
             VenueExecute(t) \/ VenueFail(t) \/ IngestFill(t) \/ IngestFailed(t)
      PROVE  IInv'
  <2>1. CASE VenueExecute(t) \/ VenueFail(t)
    BY <2>1, VenueKept
  <2>2. CASE IngestFill(t) \/ IngestFailed(t)
    BY <2>2, FillKept
  <2> QED
    BY <1>3, <2>1, <2>2
<1>4. ASSUME NEW m \in Moves, VenueMove(m) PROVE IInv'
  BY <1>4, VenueKept
<1>5. ASSUME NEW page \in {{}, executed \ failed}, NEW expired \in SUBSET (Orders \ bound),
             Sweep(page, expired)
      PROVE  IInv'
  BY <1>5, SweepKept
<1>6. CASE SeedBalance \/ FoldVenueFree
  BY <1>6, RealignKept
<1>7. ASSUME NEW stale \in BOOLEAN, Audit(stale) PROVE IInv'
  BY <1>7, AuditKept
<1>8. CASE Restart
  BY <1>8, RestartKept
<1>9. CASE UNCHANGED vars
  BY <1>9, StutterKept
<1> QED
  BY <1>1, <1>2, <1>3, <1>4, <1>5, <1>6, <1>7, <1>8, <1>9 DEF Next

\* The inductive invariant: the filled size of every tracked row is what its
\* applied trades add up to, reservations are what the rows commit, the
\* journal's last row holds the balance, a close credential its trade's net,
\* and the cursor of the venue's reports still counts the journal's rows from
\* where it was set (orders.rs:841, ledger.rs:273, reconcile.rs:106,
\* service/accounts/mod.rs:232).
THEOREM CashInvariance == Spec => []IInv
  BY InitIInv, NextKept, PTL DEF Spec

\* Every part of the account keeps its type, through sweeps that list their
\* trades in any order, rollbacks, corrections and restarts.
THEOREM TypeSafety == Spec => []TypeOK
<1>1. IInv => TypeOK
  <2> SUFFICES ASSUME IInv PROVE TypeOK
    OBVIOUS
  <2>1. books.led \in Ledgers /\ books.pos \in Positions \cup {None} /\ books.realized \in Int
        /\ DOMAIN books.creds = Trades
    BY BookFields DEF IInv, Fine
  <2> QED
    BY <2>1 DEF IInv, Types, RowsOK, Fine, TypeOK
<1> QED
  BY <1>1, CashInvariance, PTL

\* For every set of orders and trades: what the ledger holds back for an order
\* is the limit notional of its unfilled part while it is a live BUY, and
\* nothing otherwise (ledger.rs:273, service.rs:855, exits.rs:112).
THEOREM ReservationsSafe == Spec => []ReservationsExact
<1>1. IInv => ReservationsExact
  <2> SUFFICES ASSUME IInv, NEW o \in Orders
               PROVE  books.led.res[o] = IF o \in BuyOrders /\ Live(o)
                                         THEN Price[o] * (Size[o] - orders[o].filled) ELSE 0
    BY DEF ReservationsExact
  <2>1. books.led.res[o] = IF o \in BuyOrders THEN Outstanding(orders, o) ELSE 0
    BY DEF IInv, Exact
  <2>2. Live(o) => AtLeastZero(Size[o] - orders[o].filled) = Size[o] - orders[o].filled
    <3> SUFFICES ASSUME Live(o)
                 PROVE  AtLeastZero(Size[o] - orders[o].filled) = Size[o] - orders[o].filled
      OBVIOUS
    <3>1. applied \in SUBSET Trades /\ orders[o].filled \in Nat
          /\ orders[o].filled = Traded(Of(applied, o))
      BY DEF IInv, RowsOK, OrderRows, Live, LiveStatuses
    <3>2. orders[o].filled <= Size[o] /\ Size[o] \in Nat
      BY <3>1, TradedBound, OrderNumbers
    <3> QED
      BY <3>1, <3>2 DEF AtLeastZero
  <2> QED
    BY <2>1, <2>2 DEF Outstanding, Live
<1> QED
  BY <1>1, CashInvariance, PTL

\* For every set of orders and trades: as long as no named departure occurred,
\* cash is the venue's corrections plus what was realized plus the net of the
\* open position, to the unit (orders.rs:841, audit.rs:162).
THEOREM CashSafe == Spec => []CashIdentity
<1>1. IInv => CashIdentity
  <2> SUFFICES ASSUME IInv, leaks = {} PROVE Basis = Realigned(books.led.file)
    BY DEF CashIdentity
  <2>1. Worth(books) = Realigned(books.led.file)
    BY DEF IInv, Fine
  <2>2. /\ books.led.balance \in Nat /\ books.realized \in Int
        /\ books.pos = None \/ books.pos \in Positions
    BY BookFields, LedgerFields DEF IInv, Fine
  <2>3. Basis = Worth(books)
    <3>1. CASE books.pos = None
      BY <2>2, <3>1 DEF Basis, Spent, Received, Worth, NetOf
    <3>2. CASE books.pos # None
      <4>1. books.pos \in Positions
        BY <2>2, <3>2
      <4>2. /\ books.pos.entryCost \in Nat /\ books.pos.entryFee \in Nat
            /\ books.pos.proceeds \in Nat /\ books.pos.exitFee \in Nat
        BY <4>1, PositionFields
      <4> QED
        BY <2>2, <3>2, <4>2 DEF Basis, Spent, Received, Worth, NetOf, Net
    <3> QED
      BY <3>1, <3>2
  <2> QED
    BY <2>1, <2>3
<1> QED
  BY <1>1, CashInvariance, PTL

\* However often the venue lists a manual trade, in whatever company, and
\* whatever restarts: the watermark folds it in at most once
\* (service/accounts/reconcile.rs:536).
THEOREM ManualSafe == Spec => []ManualFoldedOnce
<1>1. IInv => ManualFoldedOnce
  BY DEF IInv, Once, ManualFoldedOnce
<1> QED
  BY <1>1, CashInvariance, PTL

\* Against an unbroken evidence window the detector reads exactly the rows
\* booked since the report that set the cursor.
LEMMA WindowReadsPast ==
  ASSUME NEW l \in Ledgers, NEW mark, mark.some, Past(l, mark)
  PROVE  /\ EvidenceGap(l, mark.cursor) \in Nat
         /\ EvidenceGap(l, mark.cursor) > 0 <=> Len(l.file) - mark.rows > JournalCap
         /\ Len(l.file) - mark.rows <= JournalCap =>
              WindowCashFacts(l, mark.cursor) = Facts(l.file) - (mark.last - mark.gap)
<1> DEFINE n == Len(l.file)
           w == WindowLen(l)
           r == mark.rows
           c == mark.cursor
<1>1. /\ r \in Nat /\ r <= n /\ c \in Nat /\ l.total - c = n - r
      /\ mark.last \in Int /\ mark.gap \in Int /\ FactsTo(l.file, r) = mark.last - mark.gap
  BY DEF Past
<1>2. /\ n \in Nat /\ l.total \in Nat /\ l.file \in Seq(Rows)
      /\ JournalCap \in Nat \ {0}
  BY LedgerFields, JournalCapAssumption
<1>3. w \in Nat /\ w = IF n < JournalCap THEN n ELSE JournalCap
  BY <1>2 DEF WindowLen, Smaller
<1> HIDE DEF n, w, r, c
<1>4. /\ EvidenceGap(l, c) \in Nat
      /\ EvidenceGap(l, c) > 0 <=> n - r > JournalCap
  <2>1. EvidenceGap(l, c) = AtLeastZero(AtLeastZero(l.total - w) - c) + AtLeastZero(c - l.total)
    BY DEF EvidenceGap, w
  <2>2. c <= l.total /\ AtLeastZero(c - l.total) = 0
    BY <1>1, <1>2 DEF AtLeastZero
  <2>3. EvidenceGap(l, c) = AtLeastZero(AtLeastZero(l.total - w) - c)
    BY <1>1, <1>2, <1>3, <2>1, <2>2 DEF AtLeastZero
  <2>4. n - r > JournalCap => w = JournalCap
    BY <1>1, <1>2, <1>3
  <2>5. n - r <= JournalCap => n - r <= w
    BY <1>1, <1>2, <1>3
  <2> QED
    BY <1>1, <1>2, <1>3, <2>3, <2>4, <2>5 DEF AtLeastZero
<1>5. ASSUME n - r <= JournalCap
      PROVE  WindowCashFacts(l, c) = Facts(l.file) - (mark.last - mark.gap)
  <2> DEFINE win == SubSeq(l.file, n - w + 1, n)
             j == w - (n - r)
             tail == SubSeq(win, j + 1, w)
  <2>1. w \in 0..n /\ j \in 0..w /\ c + w - l.total = j /\ AtLeastZero(j) = j
    BY <1>1, <1>2, <1>3, <1>5 DEF AtLeastZero
  <2>2. WindowCashFacts(l, c) = Facts(tail)
    BY <2>1 DEF WindowCashFacts, Window, n, w
  <2>3. /\ win \in Seq(Rows) /\ Len(win) = w
        /\ \A i \in 1..w : win[i] = l.file[(n - w) + i]
    <3> DEFINE a == n - w + 1
    <3>1. a \in 1..(n + 1) /\ n \in (a - 1)..n /\ n - a + 1 = w /\ (a <= n <=> w > 0)
      BY <1>2, <2>1
    <3>2. \A i \in 1..w : a + i - 1 = (n - w) + i
      BY <1>2, <2>1
    <3> HIDE DEF a
    <3>3. /\ SubSeq(l.file, a, n) \in Seq(Rows)
          /\ Len(SubSeq(l.file, a, n)) = IF a <= n THEN n - a + 1 ELSE 0
          /\ \A i \in 1..(n - a + 1) : SubSeq(l.file, a, n)[i] = l.file[a + i - 1]
      BY <1>2, <3>1, SubSeqProperties DEF n
    <3> QED
      BY <1>3, <3>1, <3>2, <3>3 DEF a
  <2> HIDE DEF win
  <2>4. /\ tail \in Seq(Rows) /\ Len(tail) = w - j
        /\ \A i \in 1..(w - j) : tail[i] = win[j + i]
    <3> DEFINE a == j + 1
    <3>1. a \in 1..(w + 1) /\ w \in (a - 1)..w /\ w - a + 1 = w - j /\ (a <= w <=> w - j > 0)
      BY <1>3, <2>1
    <3>2. \A i \in 1..(w - j) : a + i - 1 = j + i
      BY <1>3, <2>1
    <3> HIDE DEF a, j
    <3>3. /\ SubSeq(win, a, w) \in Seq(Rows)
          /\ Len(SubSeq(win, a, w)) = IF a <= w THEN w - a + 1 ELSE 0
          /\ \A i \in 1..(w - a + 1) : SubSeq(win, a, w)[i] = win[a + i - 1]
      BY <2>3, <3>1, SubSeqProperties
    <3>4. tail = SubSeq(win, a, w) /\ j \in 0..w
      BY <2>1 DEF a
    <3> HIDE DEF tail
    <3>5. Len(tail) = w - j
      BY <1>3, <3>1, <3>3, <3>4
    <3>6. ASSUME NEW i \in 1..(w - j) PROVE tail[i] = win[j + i]
      BY <3>1, <3>2, <3>3, <3>4
    <3> QED
      BY <3>3, <3>4, <3>5, <3>6
  <2> HIDE DEF tail
  <2>5. Len(tail) = n - r /\ n = r + Len(tail)
    BY <1>1, <1>2, <1>3, <2>4
  <2>6. ASSUME NEW i \in 1..Len(tail) PROVE tail[i] = l.file[r + i]
    <3>1. /\ i \in 1..(w - j) /\ j + i \in 1..w /\ (n - w) + (j + i) = r + i
      BY <1>1, <1>2, <1>3, <2>1, <2>4
    <3> HIDE DEF j
    <3> QED
      BY <2>3, <2>4, <3>1
  <2>7. Facts(tail) = Facts(l.file) - FactsTo(l.file, r)
    BY <1>1, <1>2, <2>4, <2>5, <2>6, FactsAfter DEF n
  <2> QED
    BY <1>1, <2>2, <2>7
<1> QED
  BY <1>4, <1>5 DEF n, r, c

\* For every journal capacity, every set of trades and every move of cash at
\* the venue: a report judged against an unbroken evidence window alerts
\* exactly when the cash no booked row explains changed since the report that
\* set the cursor, and says nothing once rows of the window were evicted
\* (service/accounts/mod.rs:232).
THEOREM DetectorSound == Spec => DetectorExact
<1>1. ASSUME IInv, seen # None, SeedBalance \/ FoldVenueFree
      PROVE  IF Len(books.led.file) - seen.rows <= JournalCap
             THEN (truth'.alert # None) <=> (UnexplainedCash # seen.gap)
             ELSE truth'.alert = truth.alert
  <2> DEFINE l == books.led
             v == VenueCash
             gone == EvidenceGap(l, truth.cursor)
             facts == WindowCashFacts(l, truth.cursor)
             residual == (v - truth.last) - facts
  <2>1. /\ l \in Ledgers /\ v \in Int /\ Facts(l.file) \in Int /\ Len(l.file) \in Nat
        /\ Past(l, Mark)
    <3>1. l \in Ledgers /\ l.file \in Seq(Rows) /\ Past(l, Mark)
      BY <1>1, BookFields, LedgerFields DEF IInv, Fine
    <3>2. v \in Int
      BY <1>1, VenueCashTyped DEF IInv, Types
    <3> QED
      BY <3>1, <3>2, FactsToEnd
  <2>2. /\ Mark.some /\ Mark.rows = seen.rows /\ Mark.cursor = truth.cursor
        /\ Mark.last = truth.last /\ Mark.gap = seen.gap
    BY <1>1 DEF Mark
  <2>3. /\ seen.rows \in Nat /\ truth.cursor \in Nat /\ truth.last \in Int /\ seen.gap \in Int
    BY <2>1, <2>2 DEF Past
  <2>4. /\ gone \in Nat /\ (gone > 0 <=> Len(l.file) - seen.rows > JournalCap)
        /\ Len(l.file) - seen.rows <= JournalCap =>
             facts = Facts(l.file) - (truth.last - seen.gap)
    BY <2>1, <2>2, WindowReadsPast
  <2>5. truth.last # None /\ truth.cursor # None
    BY <2>3, NoneAssumption
  <2>6. truth'.alert = IF gone > 0 THEN truth.alert ELSE IF residual = 0 THEN None ELSE residual
    <3>1. Realign(v)
      BY <1>1 DEF SeedBalance, FoldVenueFree
    <3> HIDE DEF v
    <3> QED
      BY <2>5, <3>1 DEF Realign
  <2>7. UnexplainedCash = v - Facts(l.file)
    BY DEF UnexplainedCash
  <2> HIDE DEF v, gone, facts
  <2>8. CASE Len(l.file) - seen.rows <= JournalCap
    <3>1. ~(gone > 0) /\ facts \in Int /\ residual \in Int
          /\ residual = (v - Facts(l.file)) - seen.gap
      BY <2>1, <2>3, <2>4, <2>8, JournalCapAssumption
    <3>2. residual # None
      BY <3>1, NoneAssumption
    <3>3. residual = 0 <=> UnexplainedCash = seen.gap
      BY <2>1, <2>3, <2>7, <3>1
    <3> QED
      BY <2>6, <2>8, <3>1, <3>2, <3>3
  <2>9. CASE ~(Len(l.file) - seen.rows <= JournalCap)
    BY <2>1, <2>3, <2>4, <2>6, <2>9, JournalCapAssumption
  <2> QED
    BY <2>8, <2>9
<1>2. IInv => [seen # None /\ (SeedBalance \/ FoldVenueFree) =>
                IF Len(books.led.file) - seen.rows <= JournalCap
                THEN (truth'.alert # None) <=> (UnexplainedCash # seen.gap)
                ELSE truth'.alert = truth.alert]_vars
  BY <1>1
<1> QED
  BY <1>2, CashInvariance, PTL DEF DetectorExact
=============================================================================
