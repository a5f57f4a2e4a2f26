------------------------------ MODULE DataProofs ------------------------------
(***************************************************************************)
(* Facts about data that the proofs of several components rest on: what    *)
(* Push does to the unread values of a receiver, how often a queue         *)
(* mentions a peer, the least number of a set and what it gives: induction *)
(* over data, recursive functions, sums, increasing sequences.             *)
(***************************************************************************)
EXTENDS Broadcast, Integers, SequencesExt, FiniteSetTheorems, SequenceTheorems, TLAPS

\* Push keeps the newest values, in order, with the pushed one last.
LEMMA PushProperties ==
  ASSUME NEW S, NEW q \in Seq(S), NEW v \in S, NEW cap \in Nat \ {0}, Len(q) <= cap
  PROVE  LET d == IF Full(q, cap) THEN 1 ELSE 0
         IN  /\ Push(q, v, cap) \in Seq(S)
             /\ Len(Push(q, v, cap)) = Len(q) + 1 - d
             /\ Len(Push(q, v, cap)) <= cap
             /\ \A i \in 1..(Len(q) - d) : Push(q, v, cap)[i] = q[i + d]
             /\ Push(q, v, cap)[Len(q) + 1 - d] = v
<1>1. CASE Len(q) < cap
  BY <1>1, AppendProperties DEF Push, Full
<1>2. CASE Len(q) = cap
  <2>1. q # <<>>
    BY <1>2, EmptySeq
  <2> DEFINE t == Tail(q)
  <2>2. t \in Seq(S) /\ Len(t) = Len(q) - 1 /\ \A i \in 1..Len(t) : t[i] = q[i + 1]
    BY <2>1, HeadTailProperties
  <2> HIDE DEF t
  <2>3. Push(q, v, cap) = Append(t, v)
    BY <1>2 DEF Push, t
  <2> QED
    BY <1>2, <2>2, <2>3, AppendProperties DEF Full
<1> QED
  BY <1>1, <1>2

-----------------------------------------------------------------------------
(* Least and greatest numbers of a set.  Both follow from the subsets of a set being *)
(* well-founded, which takes no induction hypothesis as a parameter.                 *)

\* A set of naturals has a least element: what induction over data comes down to here.
LEMMA LeastNatural ==
  ASSUME NEW T \in SUBSET Nat, T # {}
  PROVE  \E x \in T : \A y \in T : x <= y
<1> DEFINE U == {0..n : n \in T}
<1>1. U \subseteq FiniteSubsetsOf(Nat) /\ U # {}
  <2>1. \A n \in T : 0..n \subseteq Nat /\ IsFiniteSet(0..n)
    BY FS_Interval
  <2> QED
    BY <2>1 DEF FiniteSubsetsOf
<1> HIDE DEF U
<1>2. PICK S \in U : \A R \in U : <<R, S>> \notin StrictSubsetOrdering(Nat)
  BY <1>1, FS_StrictSubsetOrderingWellFounded, WFMin
<1>3. PICK x \in T : S = 0..x
  BY DEF U
<1>4. ASSUME NEW y \in T, y < x
      PROVE  FALSE
  <2>1. 0..y \subseteq 0..x /\ x \in 0..x /\ x \notin 0..y
    BY <1>4
  <2>2. 0..y \in SUBSET Nat /\ 0..x \in SUBSET Nat /\ 0..y # 0..x
    BY <2>1
  <2>3. <<0..y, 0..x>> \in StrictSubsetOrdering(Nat)
    BY <2>1, <2>2 DEF StrictSubsetOrdering
  <2>4. 0..y \in U
    BY DEF U
  <2> QED
    BY <1>2, <1>3, <2>3, <2>4
<1> QED
  BY <1>4

\* A set of positions has a greatest element.
LEMMA GreatestPosition ==
  ASSUME NEW n \in Nat, NEW T \in SUBSET (1..n), T # {}
  PROVE  \E x \in T : \A y \in T : x >= y
<1> DEFINE U == {n - i : i \in T}
<1>1. U \in SUBSET Nat /\ U # {}
  <2>1. \A i \in T : n - i \in Nat
    OBVIOUS
  <2> QED
    BY <2>1
<1> HIDE DEF U
<1>2. PICK u \in U : \A v \in U : u <= v
  BY <1>1, LeastNatural
<1>3. PICK x \in T : u = n - x
  BY DEF U
<1>4. \A y \in T : n - y \in U
  BY DEF U
<1> QED
  BY <1>2, <1>3, <1>4

\* The remainder is the one number below n that differs by a multiple of n.
LEMMA ModUnique ==
  ASSUME NEW n \in Nat \ {0}, NEW x \in Int, NEW r \in 0..(n - 1), NEW k \in Int, x = n * k + r
  PROVE  x % n = r
<1>1. x = n * (x \div n) + (x % n) /\ x \div n \in Int /\ x % n \in 0..(n - 1)
  OBVIOUS
<1> DEFINE j == (x \div n) - k
<1>2. j \in Int /\ n * j = r - (x % n)
  BY <1>1
<1>3. r - (x % n) < n /\ (x % n) - r < n
  BY <1>1
<1> HIDE DEF j
<1>4. j >= 1 => n * j >= n
  BY <1>2
<1>5. j <= -1 => n * j <= -n
  BY <1>2
<1>6. j = 0
  BY <1>1, <1>2, <1>3, <1>4, <1>5
<1> QED
  BY <1>1, <1>2, <1>6

-----------------------------------------------------------------------------
(* Recursive functions *)

\* Every argument of a positive rank comes after one of a lower rank.
Descends(D, rank, before) ==
  /\ rank \in [D -> Nat]
  /\ before \in [D -> D]
  /\ \A x \in D : rank[x] # 0 => rank[before[x]] < rank[x]

\* The value of f at x is made from its value at the argument before x.
Recurs(D, rank, before, base, step, f) ==
  \A x \in D : f[x] = IF rank[x] = 0 THEN base ELSE step[x][f[before[x]]]

\* A function that recurs along such arguments exists.
LEMMA RecursiveFunction ==
  ASSUME NEW D, NEW rank, NEW before, Descends(D, rank, before),
         NEW V, NEW base \in V, NEW step \in [D -> [V -> V]]
  PROVE  \E f \in [D -> V] : Recurs(D, rank, before, base, step, f)
<1> DEFINE Below(n) == {x \in D : rank[x] <= n}
           Value(g, x) == IF rank[x] = 0 THEN base ELSE step[x][g[before[x]]]
           Solves(n, g) == g \in [Below(n) -> V] /\ \A x \in Below(n) : g[x] = Value(g, x)
<1>0. /\ \A n \in Nat : Below(n) \subseteq D
      /\ \A x \in D : rank[x] \in Nat /\ x \in Below(rank[x])
      /\ \A n \in Nat : \A x \in Below(n) :
           rank[x] # 0 => before[x] \in Below(n) /\ rank[before[x]] < rank[x]
      /\ \A n \in Nat : \A x \in Below(n + 1) : rank[x] # 0 => before[x] \in Below(n)
      /\ \A n \in Nat : \A x \in Below(n) : x \in Below(n + 1)
      /\ \A x \in D, v \in V : step[x][v] \in V
  BY DEF Descends
<1> HIDE DEF Below
<1>1. \A n \in Nat : \E g : Solves(n, g)
  <2> DEFINE Bad == {n \in Nat : ~\E g : Solves(n, g)}
  <2> SUFFICES ASSUME Bad # {}
               PROVE  FALSE
    OBVIOUS
  <2>1. PICK n \in Bad : \A m \in Bad : n <= m
    BY LeastNatural
  <2>2. CASE n = 0
    <3> DEFINE g == [x \in Below(0) |-> base]
    <3>1. \A x \in Below(0) : rank[x] = 0
      BY DEF Below, Descends
    <3>2. Solves(0, g)
      BY <3>1
    <3> QED
      BY <2>1, <2>2, <3>2
  <2>3. CASE n # 0
    <3>1. n - 1 \in Nat /\ n - 1 \notin Bad /\ n = (n - 1) + 1
      BY <2>1, <2>3
    <3>2. PICK h : Solves(n - 1, h)
      BY <3>1
    <3> DEFINE g == [x \in Below(n) |-> Value(h, x)]
    <3>3. \A x \in Below(n) : Value(h, x) \in V
      BY <1>0, <3>1, <3>2
    <3>4. \A x \in Below(n - 1) : g[x] = h[x]
      BY <1>0, <3>1, <3>2
    <3>5. \A x \in Below(n) : Value(g, x) = Value(h, x)
      <4> TAKE x \in Below(n)
      <4>1. rank[x] # 0 => before[x] \in Below(n - 1)
        BY <1>0, <3>1
      <4>2. rank[x] # 0 => g[before[x]] = h[before[x]]
        BY <3>4, <4>1
      <4> HIDE DEF g
      <4> QED
        BY <4>2
    <3>6. g \in [Below(n) -> V] /\ \A x \in Below(n) : g[x] = Value(h, x)
      BY <3>3
    <3> HIDE DEF g
    <3>7. Solves(n, g)
      BY <3>5, <3>6
    <3> QED
      BY <2>1, <3>7
  <2> QED
    BY <2>2, <2>3
<1>2. ASSUME NEW n \in Nat, NEW m \in Nat, NEW g, NEW h, Solves(n, g), Solves(m, h),
             NEW x \in Below(n), x \in Below(m)
      PROVE  g[x] = h[x]
  <2> DEFINE Differ == {y \in Below(n) : y \in Below(m) /\ g[y] # h[y]}
             Bad == {rank[y] : y \in Differ}
  <2> SUFFICES ASSUME Differ # {}
               PROVE  FALSE
    BY <1>2
  <2>1. Bad \in SUBSET Nat /\ Bad # {}
    BY <1>0
  <2>2. PICK k \in Bad : \A j \in Bad : k <= j
    BY <2>1, LeastNatural
  <2>3. PICK y \in Differ : k = rank[y]
    OBVIOUS
  <2>4. y \in D /\ y \in Below(n) /\ y \in Below(m) /\ g[y] # h[y]
    BY <1>0
  <2>5. rank[y] # 0 /\ g[before[y]] # h[before[y]]
    BY <1>2, <2>4
  <2>6. before[y] \in Differ /\ rank[before[y]] < k
    BY <1>0, <2>3, <2>4, <2>5
  <2> HIDE DEF Differ
  <2>7. rank[before[y]] \in Bad /\ rank[before[y]] \in Nat /\ k \in Nat
    BY <2>1, <2>2, <2>6
  <2> HIDE DEF Bad
  <2> QED
    BY <2>2, <2>6, <2>7
<1> DEFINE G(n) == CHOOSE g : Solves(n, g)
           f == [x \in D |-> G(rank[x])[x]]
<1>3. \A n \in Nat : Solves(n, G(n))
  BY <1>1
<1> HIDE DEF G
<1>4. \A x \in D : f[x] \in V
  BY <1>0, <1>3
<1>5. ASSUME NEW x \in D
      PROVE  f[x] = Value(f, x)
  <2>1. f[x] = Value(G(rank[x]), x)
    BY <1>0, <1>3
  <2>2. CASE rank[x] # 0
    <3>1. /\ before[x] \in D /\ rank[before[x]] \in Nat /\ rank[x] \in Nat
          /\ before[x] \in Below(rank[x]) /\ before[x] \in Below(rank[before[x]])
      BY <1>0, <2>2
    <3>2. Solves(rank[x], G(rank[x])) /\ Solves(rank[before[x]], G(rank[before[x]]))
      BY <1>3, <3>1
    <3>3. G(rank[x])[before[x]] = G(rank[before[x]])[before[x]]
      <4> HIDE DEF Solves, f
      <4> QED
        BY <1>2, <3>1, <3>2
    <3>4. f[before[x]] = G(rank[before[x]])[before[x]]
      BY <3>1
    <3> HIDE DEF f
    <3> QED
      BY <2>1, <3>3, <3>4
  <2>3. CASE rank[x] = 0
    BY <2>1, <2>3
  <2> QED
    BY <2>2, <2>3
<1>6. f \in [D -> V]
  BY <1>4
<1> HIDE DEF f
<1> QED
  BY <1>5, <1>6 DEF Recurs

-----------------------------------------------------------------------------
(* Folds: from the left over a sequence, and sums over a set *)

\* The greatest of a set of positions.
LEMMA MaxPosition ==
  ASSUME NEW n \in Nat, NEW T \in SUBSET (1..n), T # {}
  PROVE  Max(T) \in T /\ \A x \in T : Max(T) >= x
BY GreatestPosition DEF Max

\* The last position of a prefix.
LEMMA MaxOfPrefix ==
  ASSUME NEW n \in Nat, n # 0
  PROVE  Max(1..n) = n /\ (1..n) \ {n} = 1..(n - 1)
<1>1. Max(1..n) \in 1..n /\ \A x \in 1..n : Max(1..n) >= x
  <2>1. n \in 1..n
    OBVIOUS
  <2> QED
    BY <2>1, MaxPosition
<1>2. n \in 1..n
  OBVIOUS
<1> QED
  BY <1>1, <1>2

\* The value of f at a set of positions is made from that of the set without its last one.
Accumulates(q, base, step, f) ==
  \A T \in SUBSET (DOMAIN q) :
    f[T] = IF T = {} THEN base ELSE step[q[Max(T)]][f[T \ {Max(T)}]]

\* What FoldLeft computes exists.
LEMMA FoldExists ==
  ASSUME NEW E, NEW V, NEW q \in Seq(E), NEW base \in V, NEW step \in [E -> [V -> V]]
  PROVE  \E f \in [SUBSET (DOMAIN q) -> V] : Accumulates(q, base, step, f)
<1> DEFINE D == SUBSET (DOMAIN q)
           rank == [T \in D |-> Cardinality(T)]
           before == [T \in D |-> T \ {Max(T)}]
           next == [T \in D |-> IF T = {} THEN [v \in V |-> base] ELSE step[q[Max(T)]]]
<1>1. ASSUME NEW T \in D
      PROVE  IsFiniteSet(T) /\ Cardinality(T) \in Nat /\ (Cardinality(T) = 0 <=> T = {})
  <2>1. DOMAIN q = 1..Len(q) /\ Len(q) \in Nat
    BY LenProperties
  <2>2. IsFiniteSet(DOMAIN q)
    BY <2>1, FS_Interval
  <2>3. IsFiniteSet(T)
    BY <2>2, FS_Subset
  <2> QED
    BY <2>3, FS_CardinalityType, FS_EmptySet
<1>2. ASSUME NEW T \in D, T # {}
      PROVE  /\ Max(T) \in T /\ q[Max(T)] \in E
             /\ Cardinality(T \ {Max(T)}) = Cardinality(T) - 1
  <2>1. DOMAIN q = 1..Len(q) /\ Len(q) \in Nat /\ \A i \in DOMAIN q : q[i] \in E
    BY LenProperties, ElementOfSeq
  <2>2. Max(T) \in T
    BY <1>2, <2>1, MaxPosition
  <2> QED
    BY <1>1, <2>1, <2>2, FS_RemoveElement
<1>3. rank \in [D -> Nat] /\ \A T \in D : rank[T] = Cardinality(T)
  BY <1>1
<1>4. before \in [D -> D] /\ \A T \in D : before[T] = T \ {Max(T)}
  OBVIOUS
<1>5. /\ next \in [D -> [V -> V]]
      /\ \A T \in D : T # {} => next[T] = step[q[Max(T)]]
  BY <1>2
<1> HIDE DEF rank, before, next
<1>6. \A T \in D : rank[T] # 0 => rank[before[T]] < rank[T]
  <2> TAKE T \in D
  <2> HAVE rank[T] # 0
  <2>1. T # {} /\ before[T] \in D /\ rank[before[T]] = Cardinality(T \ {Max(T)})
    BY <1>1, <1>3, <1>4
  <2>2. rank[T] = Cardinality(T) /\ Cardinality(T) \in Nat
    BY <1>1, <1>3
  <2>3. Cardinality(T \ {Max(T)}) = Cardinality(T) - 1
    BY <1>2, <2>1
  <2>4. rank[before[T]] = rank[T] - 1 /\ rank[T] \in Nat
    BY <2>1, <2>2, <2>3
  <2> QED
    BY <2>4
<1> HIDE DEF D
<1>7. PICK f \in [D -> V] : Recurs(D, rank, before, base, next, f)
  <2>1. Descends(D, rank, before) /\ next \in [D -> [V -> V]]
    BY <1>3, <1>4, <1>5, <1>6 DEF Descends
  <2> QED
    BY <2>1, RecursiveFunction, Zenon
<1>8. \A T \in D : f[T] = IF T = {} THEN base ELSE step[q[Max(T)]][f[T \ {Max(T)}]]
  <2> TAKE T \in D
  <2>1. /\ rank[T] = 0 <=> T = {}
        /\ before[T] = T \ {Max(T)}
        /\ T # {} => next[T] = step[q[Max(T)]]
    BY <1>1, <1>3, <1>4, <1>5
  <2> QED
    BY <1>7, <2>1 DEF Recurs
<1> QED
  BY <1>7, <1>8 DEF D, Accumulates

\* g gives the sum of F over every part of S, as MapThenSumSet adds it up.
Sums(F, S, g) ==
  /\ g \in [SUBSET S -> Int]
  /\ \A T \in SUBSET S :
       g[T] = IF T = {} THEN 0 ELSE LET x == CHOOSE x \in T : TRUE IN F[x] + g[T \ {x}]

\* What it comes to, whether or not the values are known to be numbers.
AddsUp(F, S, h) ==
  \A T \in SUBSET S :
    h[T] = IF T = {} THEN 0 ELSE LET x == CHOOSE x \in T : TRUE IN F[x] + h[T \ {x}]

\* There is such a function.
LEMMA SumExists ==
  ASSUME NEW S, IsFiniteSet(S), NEW F \in [S -> Int]
  PROVE  \E g : Sums(F, S, g)
<1> DEFINE D == SUBSET S
           pick(T) == CHOOSE x \in T : TRUE
           rank == [T \in D |-> Cardinality(T)]
           before == [T \in D |-> T \ {pick(T)}]
           next == [T \in D |-> IF T = {} THEN [v \in Int |-> 0] ELSE [v \in Int |-> F[pick(T)] + v]]
<1>1. ASSUME NEW T \in D
      PROVE  IsFiniteSet(T) /\ Cardinality(T) \in Nat /\ (Cardinality(T) = 0 <=> T = {})
  BY FS_Subset, FS_CardinalityType, FS_EmptySet
<1>2. ASSUME NEW T \in D, T # {}
      PROVE  pick(T) \in T /\ F[pick(T)] \in Int /\ Cardinality(T \ {pick(T)}) = Cardinality(T) - 1
  <2>1. pick(T) \in T
    BY <1>2
  <2> HIDE DEF pick
  <2> QED
    BY <1>1, <2>1, FS_RemoveElement
<1> HIDE DEF pick
<1>3. rank \in [D -> Nat] /\ \A T \in D : rank[T] = Cardinality(T)
  BY <1>1
<1>4. before \in [D -> D] /\ \A T \in D : before[T] = T \ {pick(T)}
  OBVIOUS
<1>5. /\ next \in [D -> [Int -> Int]]
      /\ \A T \in D : \A v \in Int : T # {} => next[T][v] = F[pick(T)] + v
  BY <1>2
<1> HIDE DEF rank, before, next
<1>6. \A T \in D : rank[T] # 0 => rank[before[T]] < rank[T]
  <2> TAKE T \in D
  <2> HAVE rank[T] # 0
  <2>1. T # {} /\ before[T] \in D /\ rank[before[T]] = Cardinality(T \ {pick(T)})
    BY <1>1, <1>3, <1>4
  <2> QED
    BY <1>1, <1>2, <1>3, <2>1
<1> HIDE DEF D
<1>7. PICK g \in [D -> Int] : Recurs(D, rank, before, 0, next, g)
  <2>1. Descends(D, rank, before) /\ next \in [D -> [Int -> Int]] /\ 0 \in Int
    BY <1>3, <1>4, <1>5, <1>6 DEF Descends
  <2> QED
    BY <2>1, RecursiveFunction, Zenon
<1>8. \A T \in D : g[T] = IF T = {} THEN 0 ELSE F[pick(T)] + g[T \ {pick(T)}]
  <2> TAKE T \in D
  <2>1. /\ rank[T] = 0 <=> T = {}
        /\ before[T] = T \ {pick(T)} /\ before[T] \in D
    BY <1>1, <1>3, <1>4
  <2>2. g[T] = IF rank[T] = 0 THEN 0 ELSE next[T][g[before[T]]]
    BY <1>7 DEF Recurs
  <2>3. T # {} => next[T][g[before[T]]] = F[pick(T)] + g[before[T]]
    BY <1>5, <1>7, <2>1
  <2> QED
    BY <2>1, <2>2, <2>3
<1> QED
  BY <1>7, <1>8 DEF D, pick, Sums

\* Whatever satisfies the equation of the sum is the sum.
LEMMA SumIsUnique ==
  ASSUME NEW S, IsFiniteSet(S), NEW F \in [S -> Int], NEW g, Sums(F, S, g), NEW h,
         AddsUp(F, S, h)
  PROVE  h[S] = g[S]
<1> DEFINE Wrong == {T \in SUBSET S : h[T] # g[T]}
           Bad == {Cardinality(T) : T \in Wrong}
<1> SUFFICES ASSUME Wrong # {}
             PROVE  FALSE
  OBVIOUS
<1>1. \A T \in SUBSET S : IsFiniteSet(T) /\ Cardinality(T) \in Nat
  BY FS_Subset, FS_CardinalityType
<1>2. Bad \in SUBSET Nat /\ Bad # {}
  BY <1>1
<1>3. PICK k \in Bad : \A j \in Bad : k <= j
  BY <1>2, LeastNatural
<1>4. PICK T \in Wrong : k = Cardinality(T)
  OBVIOUS
<1> DEFINE c == CHOOSE x \in T : TRUE
<1>5. T \in SUBSET S /\ h[T] # g[T]
  OBVIOUS
<1>6. T # {} /\ c \in T /\ h[T] = F[c] + h[T \ {c}] /\ g[T] = F[c] + g[T \ {c}]
  BY <1>5 DEF Sums, AddsUp
<1> HIDE DEF c
<1>7. T \ {c} \in SUBSET S /\ Cardinality(T \ {c}) = k - 1
  BY <1>1, <1>4, <1>5, <1>6, FS_RemoveElement
<1>8. Cardinality(T \ {c}) \notin Bad
  <2> HIDE DEF Bad
  <2> QED
    BY <1>2, <1>3, <1>7
<1>9. h[T \ {c}] = g[T \ {c}]
  BY <1>7, <1>8
<1> QED
  BY <1>5, <1>6, <1>9

\* The sum does not depend on the order of choice: any element can be the one added last.
LEMMA SumAdds ==
  ASSUME NEW S, IsFiniteSet(S), NEW F \in [S -> Int], NEW g, Sums(F, S, g),
         NEW T \in SUBSET S, NEW x \in T
  PROVE  g[T] = F[x] + g[T \ {x}]
<1> DEFINE Wrong == {U \in SUBSET S : \E y \in U : g[U] # F[y] + g[U \ {y}]}
           Bad == {Cardinality(U) : U \in Wrong}
<1> SUFFICES ASSUME Wrong # {}
             PROVE  FALSE
  OBVIOUS
<1>1. \A U \in SUBSET S : IsFiniteSet(U) /\ Cardinality(U) \in Nat
  BY FS_Subset, FS_CardinalityType
<1>2. Bad \in SUBSET Nat /\ Bad # {}
  BY <1>1
<1>3. PICK k \in Bad : \A j \in Bad : k <= j
  BY <1>2, LeastNatural
<1>4. PICK U \in Wrong : k = Cardinality(U)
  OBVIOUS
<1>5. PICK y \in U : g[U] # F[y] + g[U \ {y}]
  OBVIOUS
<1> DEFINE c == CHOOSE z \in U : TRUE
<1>6. U \in SUBSET S /\ c \in U /\ g[U] = F[c] + g[U \ {c}]
  BY <1>5 DEF Sums
<1> HIDE DEF c
<1>7. Cardinality(U \ {c}) = k - 1 /\ U \ {c} \in SUBSET S
  BY <1>1, <1>4, <1>6, FS_RemoveElement
<1>8. Cardinality(U \ {c}) \notin Bad
  <2> HIDE DEF Bad
  <2> QED
    BY <1>2, <1>3, <1>7
<1>9. \A z \in U \ {c} : g[U \ {c}] = F[z] + g[(U \ {c}) \ {z}]
  BY <1>7, <1>8
<1>10. Cardinality(U \ {y}) = k - 1 /\ U \ {y} \in SUBSET S
  BY <1>1, <1>4, <1>5, <1>6, FS_RemoveElement
<1>11. Cardinality(U \ {y}) \notin Bad
  BY <1>7, <1>8, <1>10
<1>12. \A z \in U \ {y} : g[U \ {y}] = F[z] + g[(U \ {y}) \ {z}]
  BY <1>10, <1>11
<1>13. (U \ {c}) \ {y} = (U \ {y}) \ {c} /\ (U \ {c}) \ {y} \in SUBSET S
  BY <1>6
<1>14. y # c /\ y \in U \ {c} /\ c \in U \ {y}
  BY <1>5, <1>6
<1>15. F[y] \in Int /\ F[c] \in Int /\ g[(U \ {c}) \ {y}] \in Int
  BY <1>5, <1>6, <1>13 DEF Sums
<1>16. g[U \ {c}] = F[y] + g[(U \ {c}) \ {y}]
  BY <1>9, <1>14
<1>17. g[U \ {y}] = F[c] + g[(U \ {c}) \ {y}]
  BY <1>12, <1>13, <1>14
<1> HIDE DEF Bad, Wrong
<1> QED
  BY <1>5, <1>6, <1>15, <1>16, <1>17

\* A sum can be taken over the images of its terms under a one-to-one map.
LEMMA SumsAgree ==
  ASSUME NEW S, IsFiniteSet(S), NEW F \in [S -> Int], NEW g, Sums(F, S, g),
         NEW U, IsFiniteSet(U), NEW G \in [U -> Int], NEW h, Sums(G, U, h),
         NEW R \in [S -> U], \A x, y \in S : R[x] = R[y] => x = y,
         \A x \in S : G[R[x]] = F[x]
  PROVE  g[S] = h[{R[x] : x \in S}]
<1> DEFINE Image(T) == {R[x] : x \in T}
           Wrong == {T \in SUBSET S : g[T] # h[Image(T)]}
           Bad == {Cardinality(T) : T \in Wrong}
<1> SUFFICES ASSUME Wrong # {}
             PROVE  FALSE
  OBVIOUS
<1>1. \A T \in SUBSET S : IsFiniteSet(T) /\ Cardinality(T) \in Nat
  BY FS_Subset, FS_CardinalityType
<1>2. Bad \in SUBSET Nat /\ Bad # {}
  <2> HIDE DEF Image
  <2> QED
    BY <1>1
<1>3. PICK k \in Bad : \A j \in Bad : k <= j
  BY <1>2, LeastNatural
<1>4. PICK T \in Wrong : k = Cardinality(T)
  OBVIOUS
<1>5. T \in SUBSET S /\ g[T] # h[Image(T)]
  OBVIOUS
<1>6. T # {}
  <2>1. g[{}] = 0 /\ h[{}] = 0
    BY DEF Sums
  <2>2. Image({}) = {}
    OBVIOUS
  <2> QED
    BY <1>5, <2>1, <2>2
<1>7. PICK x \in T : TRUE
  BY <1>6
<1>8. T \ {x} \in SUBSET S /\ Cardinality(T \ {x}) = k - 1
  BY <1>1, <1>4, <1>5, <1>7, FS_RemoveElement
<1>9. Cardinality(T \ {x}) \notin Bad
  <2> HIDE DEF Bad
  <2> QED
    BY <1>2, <1>3, <1>8
<1>10. g[T \ {x}] = h[Image(T \ {x})]
  BY <1>8, <1>9
<1>11. g[T] = F[x] + g[T \ {x}]
  BY <1>5, <1>7, SumAdds
<1>12. Image(T) \in SUBSET U /\ R[x] \in Image(T) /\ Image(T \ {x}) = Image(T) \ {R[x]}
  BY <1>5, <1>7
<1> HIDE DEF Image
<1>13. h[Image(T)] = G[R[x]] + h[Image(T) \ {R[x]}]
  BY <1>12, SumAdds
<1> QED
  BY <1>5, <1>7, <1>10, <1>11, <1>12, <1>13

-----------------------------------------------------------------------------
(* Numbers in increasing order *)

Increasing(q) == \A i, j \in DOMAIN q : i < j => q[i] < q[j]

\* The place of x among the numbers of S.
Rank(S, x) == Cardinality({y \in S : y <= x})

\* A greater number comes later.
LEMMA RankGrows ==
  ASSUME NEW S \in SUBSET Nat, IsFiniteSet(S), NEW x \in S, NEW y \in S
  PROVE  /\ Rank(S, x) \in 1..Cardinality(S)
         /\ x < y => Rank(S, x) < Rank(S, y)
<1> DEFINE UpTo(z) == {n \in S : n <= z}
<1>1. ASSUME NEW z \in S
      PROVE  /\ UpTo(z) \in SUBSET S /\ z \in UpTo(z) /\ IsFiniteSet(UpTo(z))
             /\ Cardinality(UpTo(z)) \in Nat \ {0} /\ Cardinality(UpTo(z)) <= Cardinality(S)
  <2>1. UpTo(z) \in SUBSET S /\ z \in UpTo(z)
    OBVIOUS
  <2> HIDE DEF UpTo
  <2>2. IsFiniteSet(UpTo(z)) /\ Cardinality(UpTo(z)) <= Cardinality(S)
    BY <2>1, FS_Subset
  <2> QED
    BY <2>1, <2>2, FS_CardinalityType, FS_EmptySet
<1>2. Cardinality(S) \in Nat
  BY FS_CardinalityType
<1>3. Rank(S, x) \in 1..Cardinality(S)
  BY <1>1, <1>2 DEF Rank
<1>4. ASSUME x < y
      PROVE  Rank(S, x) < Rank(S, y)
  <2>1. UpTo(x) \in SUBSET UpTo(y) /\ UpTo(x) # UpTo(y)
    <3>1. x \in Nat /\ y \in Nat /\ y \in UpTo(y) /\ y \notin UpTo(x)
      BY <1>4
    <3>2. \A z \in UpTo(x) : z \in UpTo(y)
      BY <1>4, <3>1
    <3> QED
      BY <3>1, <3>2
  <2> HIDE DEF UpTo
  <2>2. Cardinality(UpTo(x)) <= Cardinality(UpTo(y)) /\ Cardinality(UpTo(x)) # Cardinality(UpTo(y))
    BY <1>1, <2>1, FS_Subset
  <2>3. Cardinality(UpTo(x)) < Cardinality(UpTo(y))
    BY <1>1, <2>2
  <2> QED
    BY <2>3 DEF Rank, UpTo
<1> QED
  BY <1>3, <1>4

\* Each place is taken by one number.
LEMMA RankIsOnto ==
  ASSUME NEW S \in SUBSET Nat, IsFiniteSet(S), NEW i \in 1..Cardinality(S)
  PROVE  /\ \E x \in S : Rank(S, x) = i
         /\ \A x, y \in S : Rank(S, x) = Rank(S, y) => x = y
<1>1. \A x, y \in S : Rank(S, x) = Rank(S, y) => x = y
  <2> TAKE x, y \in S
  <2>1. Rank(S, x) \in Nat /\ Rank(S, y) \in Nat
    BY RankGrows, FS_CardinalityType
  <2>2. x < y \/ y < x \/ x = y
    OBVIOUS
  <2> QED
    BY <2>1, <2>2, RankGrows
<1> DEFINE n == Cardinality(S)
           f == [x \in S |-> Rank(S, x)]
<1>2. n \in Nat /\ IsFiniteSet(1..n) /\ Cardinality(1..n) = n
  BY FS_CardinalityType, FS_Interval
<1>3. f \in Injection(S, 1..n)
  <2>1. f \in [S -> 1..n]
    BY RankGrows
  <2>2. \A x, y \in S : f[x] = f[y] => x = y
    BY <1>1
  <2> QED
    BY <2>1, <2>2 DEF Injection, IsInjective
<1>4. f \in Surjection(S, 1..n)
  BY <1>2, <1>3, FS_Injection
<1>5. \E x \in S : f[x] = i
  BY <1>4 DEF Surjection
<1> QED
  BY <1>1, <1>5

\* Of an increasing sequence the position is the place among its numbers.
LEMMA RankIsPosition ==
  ASSUME NEW q \in Seq(Nat), Increasing(q)
  PROVE  /\ IsFiniteSet(ToSet(q)) /\ ToSet(q) \in SUBSET Nat /\ Cardinality(ToSet(q)) = Len(q)
         /\ \A i \in DOMAIN q : Rank(ToSet(q), q[i]) = i
<1>1. DOMAIN q = 1..Len(q) /\ Len(q) \in Nat /\ \A i \in DOMAIN q : q[i] \in Nat
  BY LenProperties, ElementOfSeq
<1>2. \A i, j \in DOMAIN q : q[i] <= q[j] <=> i <= j
  BY <1>1 DEF Increasing
<1>3. ASSUME NEW n \in 0..Len(q), NEW T, T = {q[i] : i \in 1..n}
      PROVE  IsFiniteSet(T) /\ Cardinality(T) = n
  <2> DEFINE f == [i \in 1..n |-> q[i]]
  <2>1. f \in [1..n -> T] /\ (\A i, j \in 1..n : f[i] = f[j] => i = j) /\ \A x \in T : \E i \in 1..n : f[i] = x
    BY <1>1, <1>2, <1>3
  <2> HIDE DEF f
  <2>2. f \in Bijection(1..n, T)
    BY <2>1 DEF Bijection, Injection, IsInjective, Surjection
  <2>3. ExistsBijection(1..n, T)
    BY <2>2 DEF ExistsBijection
  <2>4. IsFiniteSet(1..n) /\ Cardinality(1..n) = n
    BY <1>1, FS_Interval
  <2> QED
    BY <2>3, <2>4, FS_Bijection
<1>4. ToSet(q) = {q[i] : i \in 1..Len(q)} /\ Len(q) \in 0..Len(q) /\ ToSet(q) \in SUBSET Nat
  BY <1>1 DEF ToSet
<1>5. ASSUME NEW i \in DOMAIN q
      PROVE  Rank(ToSet(q), q[i]) = i
  <2>1. i \in 0..Len(q) /\ 1..i \subseteq 1..Len(q) /\ \A j \in 1..Len(q) : j \in 1..i <=> j <= i
    BY <1>1
  <2>2. \A j \in 1..Len(q) : q[j] <= q[i] <=> j \in 1..i
    BY <1>1, <1>2, <2>1
  <2>3. {y \in ToSet(q) : y <= q[i]} = {q[j] : j \in 1..i}
    BY <1>4, <2>1, <2>2
  <2> QED
    BY <1>3, <2>1, <2>3 DEF Rank
<1> QED
  BY <1>3, <1>4, <1>5

\* There is one increasing sequence of a set of numbers.
LEMMA SameIncreasing ==
  ASSUME NEW q \in Seq(Nat), NEW r \in Seq(Nat), Increasing(q), Increasing(r), ToSet(q) = ToSet(r)
  PROVE  q = r
<1>1. Len(q) = Len(r) /\ DOMAIN q = 1..Len(q) /\ DOMAIN r = 1..Len(r)
  BY RankIsPosition, LenProperties
<1>2. ASSUME NEW i \in DOMAIN q
      PROVE  q[i] = r[i]
  <2>1. q[i] \in ToSet(r)
    BY DEF ToSet
  <2>2. PICK j \in DOMAIN r : q[i] = r[j]
    BY <2>1 DEF ToSet
  <2>3. Rank(ToSet(q), q[i]) = i /\ Rank(ToSet(r), r[j]) = j
    BY RankIsPosition
  <2> QED
    BY <2>2, <2>3
<1> QED
  BY <1>1, <1>2, SeqEqual

\* A prefix of an increasing sequence, by the numbers it holds.
LEMMA IncreasingPrefix ==
  ASSUME NEW q \in Seq(Nat), Increasing(q), NEW r \in Seq(Nat), Increasing(r),
         ToSet(r) \subseteq ToSet(q), \A x \in ToSet(r), y \in ToSet(q) : y < x => y \in ToSet(r)
  PROVE  /\ Len(r) <= Len(q)
         /\ r = SubSeq(q, 1, Len(r))
         /\ \A i \in DOMAIN q : q[i] \in ToSet(r) <=> i <= Len(r)
<1>1. /\ DOMAIN q = 1..Len(q) /\ Len(q) \in Nat /\ DOMAIN r = 1..Len(r) /\ Len(r) \in Nat
      /\ (\A i \in DOMAIN q : q[i] \in ToSet(q) /\ q[i] \in Nat)
      /\ \A i \in DOMAIN r : r[i] \in ToSet(r) /\ r[i] \in Nat
  BY LenProperties, ElementOfSeq DEF ToSet
<1>2. Len(r) <= Len(q)
  <2>1. IsFiniteSet(ToSet(q)) /\ Cardinality(ToSet(q)) = Len(q) /\ Cardinality(ToSet(r)) = Len(r)
    BY RankIsPosition
  <2> QED
    BY <2>1, FS_Subset
<1>3. ASSUME NEW x \in ToSet(r)
      PROVE  Rank(ToSet(q), x) = Rank(ToSet(r), x)
  <2>1. {y \in ToSet(q) : y <= x} = {y \in ToSet(r) : y <= x}
    <3>1. x \in Nat /\ ToSet(q) \in SUBSET Nat
      BY RankIsPosition
    <3> QED
      BY <3>1
  <2> QED
    BY <2>1 DEF Rank
<1>4. ASSUME NEW i \in DOMAIN r
      PROVE  i \in DOMAIN q /\ q[i] = r[i]
  <2>1. r[i] \in ToSet(q) /\ r[i] \in ToSet(r)
    BY <1>1
  <2>2. PICK j \in DOMAIN q : r[i] = q[j]
    BY <2>1 DEF ToSet
  <2>3. Rank(ToSet(r), r[i]) = i /\ Rank(ToSet(q), q[j]) = j
    BY RankIsPosition
  <2> QED
    BY <1>3, <2>1, <2>2, <2>3
<1>5. r = SubSeq(q, 1, Len(r))
  <2> DEFINE s == SubSeq(q, 1, Len(r))
  <2>1. s \in Seq(Nat) /\ Len(s) = Len(r) /\ \A i \in 1..Len(r) : s[i] = q[i]
    BY <1>1, <1>2, SubSeqProperties
  <2> HIDE DEF s
  <2>2. r = s
    BY <1>1, <1>4, <2>1, SeqEqual
  <2> QED
    BY <2>2 DEF s
<1>6. ASSUME NEW i \in DOMAIN q
      PROVE  q[i] \in ToSet(r) <=> i <= Len(r)
  <2>1. ASSUME i <= Len(r)
        PROVE  q[i] \in ToSet(r)
    <3>1. i \in DOMAIN r
      BY <1>1, <2>1
    <3> QED
      BY <1>1, <1>4, <3>1
  <2>2. ASSUME q[i] \in ToSet(r)
        PROVE  i <= Len(r)
    <3>1. PICK j \in DOMAIN r : q[i] = r[j]
      BY <2>2 DEF ToSet
    <3>2. Rank(ToSet(r), r[j]) = j /\ Rank(ToSet(q), q[i]) = i
      BY RankIsPosition
    <3> QED
      BY <1>1, <1>3, <2>2, <3>1, <3>2
  <2> QED
    BY <2>1, <2>2
<1> QED
  BY <1>2, <1>5, <1>6

-----------------------------------------------------------------------------
(* How often a value occurs *)

\* The positions whose value is about p.
Mentions(q, p) == {i \in DOMAIN q : q[i].peer = p}

\* A queue mentions a peer finitely often.
LEMMA MentionsFinite ==
  ASSUME NEW S, NEW q \in Seq(S), NEW p
  PROVE  IsFiniteSet(Mentions(q, p)) /\ Cardinality(Mentions(q, p)) \in Nat
<1>1. Mentions(q, p) \subseteq 1..Len(q) /\ Len(q) \in Nat
  BY DEF Mentions
<1>2. IsFiniteSet(1..Len(q))
  BY <1>1, FS_Interval
<1> QED
  BY <1>1, <1>2, FS_Subset, FS_CardinalityType

\* An empty queue mentions nobody.
LEMMA MentionsEmpty ==
  ASSUME NEW p
  PROVE  Cardinality(Mentions(<<>>, p)) = 0
<1>1. Mentions(<<>>, p) = {}
  BY DEF Mentions
<1>2. Cardinality({}) = 0
  BY FS_EmptySet
<1> QED
  BY <1>1, <1>2

\* A message counts for the peer it is about.
LEMMA MentionsAppend ==
  ASSUME NEW S, NEW q \in Seq(S), NEW v \in S, NEW p
  PROVE  Cardinality(Mentions(Append(q, v), p))
           = Cardinality(Mentions(q, p)) + IF v.peer = p THEN 1 ELSE 0
<1> DEFINE r == Append(q, v)
           n == Len(q) + 1
<1>1. /\ n \in Nat /\ DOMAIN q = 1..Len(q) /\ Len(q) \in Nat
      /\ DOMAIN r = 1..n /\ r[n] = v /\ \A i \in 1..Len(q) : r[i] = q[i]
  BY AppendProperties
<1> HIDE DEF r
<1>2. IsFiniteSet(Mentions(q, p)) /\ n \notin Mentions(q, p)
  <2>1. IsFiniteSet(Mentions(q, p))
    BY MentionsFinite
  <2>2. n \notin Mentions(q, p)
    BY <1>1 DEF Mentions
  <2> QED
    BY <2>1, <2>2
<1>3. CASE v.peer = p
  <2>1. Mentions(r, p) = Mentions(q, p) \cup {n}
    BY <1>1, <1>3 DEF Mentions
  <2>2. Cardinality(Mentions(q, p) \cup {n}) = Cardinality(Mentions(q, p)) + 1
    BY <1>2, FS_AddElement
  <2> QED
    BY <1>3, <2>1, <2>2 DEF r
<1>4. CASE v.peer # p
  <2>1. Mentions(r, p) = Mentions(q, p)
    BY <1>1, <1>4 DEF Mentions
  <2>2. Cardinality(Mentions(q, p)) \in Nat
    BY MentionsFinite
  <2> QED
    BY <1>4, <2>1, <2>2 DEF r
<1> QED
  BY <1>3, <1>4

\* The values behind the first one, before and after it is taken off.
LEMMA MentionsTail ==
  ASSUME NEW S, NEW q \in Seq(S), q # <<>>, NEW p
  PROVE  LET behind == {i \in 2..Len(q) : q[i].peer = p}
         IN  /\ Cardinality(Mentions(Tail(q), p)) = Cardinality(behind)
             /\ Cardinality(behind) \in Nat
             /\ Cardinality(Mentions(q, p)) = Cardinality(behind) + IF Head(q).peer = p THEN 1 ELSE 0
             /\ Cardinality(behind) = 0 <=> \A i \in 2..Len(q) : q[i].peer # p
<1> DEFINE behind == {i \in 2..Len(q) : q[i].peer = p}
           t == Tail(q)
<1>1. /\ Len(q) \in Nat \ {0} /\ DOMAIN q = 1..Len(q) /\ Head(q) = q[1]
      /\ Len(t) = Len(q) - 1 /\ DOMAIN t = 1..(Len(q) - 1) /\ \A i \in 1..(Len(q) - 1) : t[i] = q[i + 1]
  BY HeadTailProperties
<1> HIDE DEF t
<1>2. IsFiniteSet(behind) /\ Cardinality(behind) \in Nat
  <2>1. behind \in SUBSET (1..Len(q))
    BY <1>1
  <2>2. IsFiniteSet(1..Len(q))
    BY <1>1, FS_Interval
  <2> QED
    BY <2>1, <2>2, FS_Subset, FS_CardinalityType
<1>3. Cardinality(Mentions(t, p)) = Cardinality(behind)
  <2> DEFINE f == [i \in Mentions(t, p) |-> i + 1]
  <2>1. f \in Bijection(Mentions(t, p), behind)
    <3>1. f \in [Mentions(t, p) -> behind]
      BY <1>1 DEF Mentions
    <3>2. \A i, j \in Mentions(t, p) : f[i] = f[j] => i = j
      BY <1>1 DEF Mentions
    <3>3. \A k \in behind : \E i \in Mentions(t, p) : f[i] = k
      <4>1. ASSUME NEW k \in behind
            PROVE  k - 1 \in Mentions(t, p) /\ f[k - 1] = k
        BY <1>1 DEF Mentions
      <4> QED
        BY <4>1
    <3> HIDE DEF f, behind
    <3> QED
      BY <3>1, <3>2, <3>3 DEF Bijection, Injection, IsInjective, Surjection
  <2>2. ExistsBijection(Mentions(t, p), behind)
    BY <2>1 DEF ExistsBijection
  <2>3. IsFiniteSet(Mentions(t, p))
    <3>1. Mentions(t, p) \in SUBSET (1..(Len(q) - 1)) /\ IsFiniteSet(1..(Len(q) - 1))
      BY <1>1, FS_Interval DEF Mentions
    <3> QED
      BY <3>1, FS_Subset
  <2> QED
    BY <2>2, <2>3, FS_Bijection
<1>4. Cardinality(Mentions(q, p)) = Cardinality(behind) + IF Head(q).peer = p THEN 1 ELSE 0
  <2>1. CASE q[1].peer = p
    <3>1. Mentions(q, p) = behind \cup {1} /\ 1 \notin behind
      BY <1>1, <2>1 DEF Mentions
    <3>2. Cardinality(behind \cup {1}) = Cardinality(behind) + 1
      BY <1>2, <3>1, FS_AddElement
    <3> QED
      BY <1>1, <2>1, <3>1, <3>2
  <2>2. CASE q[1].peer # p
    <3>1. Mentions(q, p) = behind
      BY <1>1, <2>2 DEF Mentions
    <3> QED
      BY <1>1, <1>2, <2>2, <3>1
  <2> QED
    BY <2>1, <2>2
<1>5. Cardinality(behind) = 0 <=> behind = {}
  BY <1>2, FS_EmptySet
<1> QED
  BY <1>2, <1>3, <1>4, <1>5 DEF t

\* Push adds one value, and may push one out.
LEMMA MentionsPush ==
  ASSUME NEW S, NEW q \in Seq(S), NEW v \in S, NEW cap \in Nat \ {0}, Len(q) <= cap, NEW p
  PROVE  /\ Cardinality(Mentions(Push(q, v, cap), p)) \in Nat
         /\ Cardinality(Mentions(Push(q, v, cap), p))
              <= Cardinality(Mentions(q, p)) + IF v.peer = p THEN 1 ELSE 0
<1>0. Cardinality(Mentions(q, p)) \in Nat
  BY MentionsFinite
<1>1. CASE Len(q) < cap
  BY <1>0, <1>1, MentionsAppend DEF Push
<1>2. CASE Len(q) = cap
  <2>1. q # <<>> /\ Push(q, v, cap) = Append(Tail(q), v) /\ Tail(q) \in Seq(S)
    BY <1>2, EmptySeq, HeadTailProperties DEF Push
  <2>2. /\ Cardinality(Mentions(Tail(q), p)) \in Nat
        /\ Cardinality(Mentions(Tail(q), p)) <= Cardinality(Mentions(q, p))
    <3> DEFINE behind == {i \in 2..Len(q) : q[i].peer = p}
    <3>1. /\ Cardinality(Mentions(Tail(q), p)) = Cardinality(behind)
          /\ Cardinality(behind) \in Nat
          /\ Cardinality(Mentions(q, p)) = Cardinality(behind) + IF Head(q).peer = p THEN 1 ELSE 0
      BY <2>1, MentionsTail
    <3> HIDE DEF behind
    <3> QED
      BY <1>0, <3>1
  <2>3. Cardinality(Mentions(Append(Tail(q), v), p))
          = Cardinality(Mentions(Tail(q), p)) + IF v.peer = p THEN 1 ELSE 0
    BY <2>1, MentionsAppend
  <2> QED
    BY <1>0, <2>1, <2>2, <2>3
<1> QED
  BY <1>1, <1>2
=============================================================================
