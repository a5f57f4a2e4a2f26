------------------------------ MODULE RowsProofs ------------------------------
(***************************************************************************)
(* The tables against the delivered logs, for integers of any width, text  *)
(* to any base and any logs.                                               *)
(***************************************************************************)
EXTENDS Rows, DataProofs

-----------------------------------------------------------------------------
(* Casts *)

\* A bit doubles the range: the parts of a set of n + 1 bits with and without the last one.
LEMMA PowerOfTwo ==
  ASSUME NEW w \in Nat \ {0}
  PROVE  /\ 2^(w - 1) \in Nat \ {0}
         /\ 2^w = 2 * 2^(w - 1)
<1> DEFINE low == SUBSET (1..(w - 1))
           high == {T \cup {w} : T \in low}
<1>1. /\ IsFiniteSet(1..w) /\ Cardinality(1..w) = w
      /\ IsFiniteSet(1..(w - 1)) /\ Cardinality(1..(w - 1)) = w - 1
  BY FS_Interval
<1>2. /\ IsFiniteSet(SUBSET (1..w)) /\ Cardinality(SUBSET (1..w)) = 2^w
      /\ IsFiniteSet(low) /\ Cardinality(low) = 2^(w - 1)
  BY <1>1, FS_SUBSET
<1>3. ExistsBijection(low, high)
  <2> DEFINE f == [T \in low |-> T \cup {w}]
  <2>1. f \in [low -> high] /\ \A U \in high : \E T \in low : f[T] = U
    OBVIOUS
  <2>2. ASSUME NEW T \in low, NEW U \in low, f[T] = f[U]
        PROVE  T = U
    <3>1. w \notin T /\ w \notin U /\ T \cup {w} = U \cup {w}
      BY <2>2
    <3> QED
      BY <3>1
  <2> HIDE DEF f, low, high
  <2> QED
    BY <2>1, <2>2 DEF ExistsBijection, Bijection, Injection, IsInjective, Surjection
<1>4. IsFiniteSet(high) /\ Cardinality(high) = 2^(w - 1)
  <2> HIDE DEF low, high
  <2> QED
    BY <1>2, <1>3, FS_Bijection
<1>5. SUBSET (1..w) = low \cup high /\ low \cap high = {}
  <2>1. \A T \in low : w \notin T
    OBVIOUS
  <2>2. \A U \in high : w \in U
    OBVIOUS
  <2>3. ASSUME NEW U \in SUBSET (1..w)
        PROVE  U \in low \cup high
    <3>1. U \ {w} \in low
      OBVIOUS
    <3>2. CASE w \in U
      <4>1. U = (U \ {w}) \cup {w}
        BY <3>2
      <4> QED
        BY <3>1, <4>1
    <3>3. CASE w \notin U
      <4>1. U = U \ {w}
        BY <3>3
      <4> QED
        BY <3>1, <4>1
    <3> QED
      BY <3>2, <3>3
  <2>4. low \cup high \subseteq SUBSET (1..w)
    <3>1. 1..(w - 1) \subseteq 1..w /\ w \in 1..w
      OBVIOUS
    <3> QED
      BY <3>1
  <2> HIDE DEF low, high
  <2> QED
    BY <2>1, <2>2, <2>3, <2>4
<1>6. low # {}
  OBVIOUS
<1> HIDE DEF low, high
<1>7. Cardinality(low \cup high) = Cardinality(low) + Cardinality(high) - Cardinality({})
  BY <1>2, <1>4, <1>5, FS_Union
<1>8. Cardinality({}) = 0
  BY FS_EmptySet
<1>9. 2^(w - 1) \in Nat \ {0}
  BY <1>2, <1>6, FS_CardinalityType, FS_EmptySet
<1> DEFINE h == 2^(w - 1)
           m == 2^w
<1>10. Cardinality(low) = h /\ Cardinality(high) = h /\ Cardinality(low \cup high) = m /\ h \in Nat \ {0}
  BY <1>2, <1>4, <1>5, <1>9
<1> HIDE DEF h, m
<1>11. m = 2 * h
  BY <1>7, <1>8, <1>10
<1> QED
  BY <1>9, <1>11 DEF h, m

\* `as` keeps the bits: the column holds a signed number of the same width, and cast back
\* it is the number that was stored.
LEMMA CastBack ==
  ASSUME NEW w \in Nat \ {0}, NEW v \in Unsigned(w)
  PROVE  /\ Cast(v, w) \in -(2^(w - 1))..(2^(w - 1) - 1)
         /\ Uncast(Cast(v, w), w) = v
<1> DEFINE h == 2^(w - 1)
           m == 2^w
<1>1. h \in Nat \ {0} /\ m = 2 * h
  BY PowerOfTwo
<1>2. v \in 0..(m - 1)
  BY DEF Unsigned
<1>3. Cast(v, w) = IF v < h THEN v ELSE v - m
  BY DEF Cast
<1> HIDE DEF h, m
<1>4. Cast(v, w) \in -h..(h - 1)
  BY <1>1, <1>2, <1>3
<1>5. Cast(v, w) = m * 0 + v \/ Cast(v, w) = m * (-1) + v
  BY <1>1, <1>2, <1>3
<1>6. Cast(v, w) % m = v
  BY <1>1, <1>2, <1>4, <1>5, ModUnique
<1> QED
  BY <1>4, <1>6 DEF Uncast, h, m

-----------------------------------------------------------------------------
(* Text *)

\* The recursion of Digits has a solution: each value rests on a smaller number.
LEMMA DigitsDef ==
  /\ Digits \in [Nat -> Seq(Nat)]
  /\ \A v \in Nat : Digits[v] = IF v < Base THEN <<v>> ELSE Append(Digits[v \div Base], v % Base)
<1> DEFINE Sol(f) == f = [v \in Nat |-> IF v < Base THEN <<v>> ELSE Append(f[v \div Base], v % Base)]
           rank == [v \in Nat |-> v]
           before == [v \in Nat |-> v \div Base]
           next == [v \in Nat |-> [d \in Seq(Nat) |-> IF v < Base THEN <<v>> ELSE Append(d, v % Base)]]
<1>0. Base \in Nat /\ Base >= 2
  BY RowsAssumption
<1>1. ASSUME NEW v \in Nat
      PROVE  /\ v \div Base \in Nat /\ v % Base \in Nat
             /\ v # 0 => v \div Base < v
  <2>1. v = Base * (v \div Base) + (v % Base) /\ v \div Base \in Nat /\ v % Base \in Nat
    BY <1>0
  <2> DEFINE k == v \div Base
  <2> HIDE DEF k
  <2>2. k \in Nat /\ v >= Base * k
    BY <1>0, <2>1 DEF k
  <2>3. Base * k >= 2 * k
    BY <1>0, <2>2
  <2>4. v # 0 => k < v
    BY <1>0, <2>2, <2>3
  <2> QED
    BY <2>1, <2>4 DEF k
<1>2. Descends(Nat, rank, before)
  BY <1>1 DEF Descends
<1>3. next \in [Nat -> [Seq(Nat) -> Seq(Nat)]]
  <2>1. \A v \in Nat : <<v>> \in Seq(Nat)
    OBVIOUS
  <2>2. \A v \in Nat, d \in Seq(Nat) : Append(d, v % Base) \in Seq(Nat)
    BY <1>1, AppendProperties
  <2> QED
    BY <2>1, <2>2
<1>4. <<0>> \in Seq(Nat)
  OBVIOUS
<1> HIDE DEF rank, before, next
<1>5. PICK f \in [Nat -> Seq(Nat)] : Recurs(Nat, rank, before, <<0>>, next, f)
  BY <1>2, <1>3, <1>4, RecursiveFunction, Zenon
<1>6. ASSUME NEW v \in Nat
      PROVE  f[v] = IF v < Base THEN <<v>> ELSE Append(f[v \div Base], v % Base)
  <2>1. f[v] = IF v = 0 THEN <<0>> ELSE next[v][f[v \div Base]]
    BY <1>5 DEF Recurs, rank, before
  <2>2. f[v \div Base] \in Seq(Nat)
    BY <1>1, <1>5
  <2>3. next[v][f[v \div Base]] = IF v < Base THEN <<v>> ELSE Append(f[v \div Base], v % Base)
    BY <2>2 DEF next
  <2> QED
    BY <1>0, <2>1, <2>3
<1>7. Sol(f)
  BY <1>5, <1>6
<1>8. Sol(Digits)
  <2>1. Digits = CHOOSE g : Sol(g)
    BY Zenon DEF Digits
  <2> HIDE DEF Sol
  <2> QED
    BY <1>7, <2>1, Zenon
<1>9. \A v \in Nat : Digits[v] = IF v < Base THEN <<v>> ELSE Append(Digits[v \div Base], v % Base)
  BY <1>8
<1>10. Digits \in [Nat -> Seq(Nat)]
  <2>1. ASSUME NEW v \in Nat
        PROVE  Digits[v] \in Seq(Nat)
    <3> DEFINE Bad == {n \in Nat : Digits[n] \notin Seq(Nat)}
    <3> SUFFICES ASSUME Bad # {}
                 PROVE  FALSE
      OBVIOUS
    <3>1. PICK n \in Bad : \A m \in Bad : n <= m
      BY LeastNatural
    <3>2. n \in Nat /\ Digits[n] \notin Seq(Nat) /\ <<n>> \in Seq(Nat)
      OBVIOUS
    <3>3. n >= Base /\ n # 0
      <4>1. n < Base => Digits[n] = <<n>>
        BY <1>9, <3>2
      <4>2. ~(n < Base)
        BY <3>2, <4>1, Zenon
      <4> QED
        BY <1>0, <3>2, <4>2
    <3>4. n \div Base \in Nat /\ n \div Base < n /\ n % Base \in Nat
      BY <1>1, <3>2, <3>3
    <3>5. Digits[n \div Base] \in Seq(Nat)
      <4>1. n \div Base \notin Bad
        <5> HIDE DEF Bad
        <5> QED
          BY <3>1, <3>2, <3>4
      <4> QED
        BY <3>4, <4>1
    <3>6. Digits[n] = Append(Digits[n \div Base], n % Base)
      <4>1. ~(n < Base)
        BY <1>0, <3>2, <3>3
      <4> QED
        BY <1>9, <3>2, <4>1
    <3>7. Append(Digits[n \div Base], n % Base) \in Seq(Nat)
      BY <3>4, <3>5, AppendProperties
    <3> QED
      BY <3>2, <3>6, <3>7
  <2> QED
    BY <1>8, <2>1
<1> QED
  BY <1>9, <1>10

\* Partial results of reading digits from the left: the value of each prefix.
Reads(q, F) ==
  /\ F \in [0..Len(q) -> Nat]
  /\ F[0] = 0
  /\ \A i \in 1..Len(q) : F[i] = F[i - 1] * Base + q[i]

\* The fold of Number goes through these values.
LEMMA NumberReads ==
  ASSUME NEW q \in Seq(Nat)
  PROVE  \E F : Reads(q, F) /\ Number(q) = F[Len(q)]
<1> DEFINE D == SUBSET (DOMAIN q)
           Sol(f) == f = [T \in D |-> IF T = {} THEN 0
                                      ELSE LET x == Max(T) IN f[T \ {x}] * Base + q[x]]
           step == [d \in Nat |-> [n \in Nat |-> n * Base + d]]
           h == CHOOSE f : Sol(f)
           n == Len(q)
<1>0. Base \in Nat /\ DOMAIN q = 1..n /\ n \in Nat /\ \A i \in 1..n : q[i] \in Nat
  BY RowsAssumption, LenProperties, ElementOfSeq
<1>1. step \in [Nat -> [Nat -> Nat]]
  <2>1. \A d, m \in Nat : m * Base + d \in Nat
    BY <1>0
  <2> QED
    BY <2>1
<1>2. PICK f \in [D -> Nat] : Accumulates(q, 0, step, f)
  <2> HIDE DEF step
  <2>1. 0 \in Nat
    OBVIOUS
  <2> QED
    BY <1>1, <2>1, FoldExists, Zenon
<1>3. ASSUME NEW T \in D
      PROVE  f[T] = IF T = {} THEN 0 ELSE LET x == Max(T) IN f[T \ {x}] * Base + q[x]
  <2>1. CASE T # {}
    <3>1. Max(T) \in 1..n
      BY <1>0, <2>1, MaxPosition
    <3>2. T \ {Max(T)} \in D
      OBVIOUS
    <3>3. q[Max(T)] \in Nat /\ f[T \ {Max(T)}] \in Nat
      BY <1>0, <1>2, <3>1, <3>2
    <3>4. step[q[Max(T)]][f[T \ {Max(T)}]] = f[T \ {Max(T)}] * Base + q[Max(T)]
      BY <3>3
    <3> HIDE DEF step
    <3> QED
      BY <1>2, <2>1, <3>4 DEF Accumulates
  <2>2. CASE T = {}
    BY <1>2, <2>2 DEF Accumulates
  <2> QED
    BY <2>1, <2>2
<1>4. Sol(f)
  BY <1>2, <1>3
<1>5. Sol(h)
  <2> HIDE DEF Sol
  <2> QED
    BY <1>4
<1>6. Number(q) = h[DOMAIN q]
  BY Zenon DEF Number, FoldLeft, MapThenFoldSet
<1> HIDE DEF h
<1> DEFINE F == [i \in 0..n |-> h[1..i]]
<1>7. h[{}] = 0
  BY <1>5
<1>8. ASSUME NEW i \in 1..n
      PROVE  h[1..i] = h[1..(i - 1)] * Base + q[i]
  <2>1. Max(1..i) = i /\ (1..i) \ {i} = 1..(i - 1)
    BY MaxOfPrefix
  <2>2. 1..i \in D /\ 1..i # {}
    BY <1>0
  <2>3. h[1..i] = LET x == Max(1..i) IN h[(1..i) \ {x}] * Base + q[x]
    BY <1>5, <2>2
  <2> QED
    BY <2>1, <2>3
<1>9. F[0] = 0 /\ \A i \in 1..n : F[i] = F[i - 1] * Base + q[i]
  <2>1. 1..0 = {} /\ 0 \in 0..n /\ \A i \in 1..n : i \in 0..n /\ i - 1 \in 0..n
    BY <1>0
  <2> QED
    BY <1>7, <1>8, <2>1
<1>10. F[n] = Number(q)
  BY <1>0, <1>6
<1>11. ASSUME NEW i \in 0..n
       PROVE  F[i] \in Nat
  <2> HIDE DEF F
  <2> DEFINE Bad == {j \in 0..n : F[j] \notin Nat}
  <2> SUFFICES ASSUME Bad # {}
               PROVE  FALSE
    OBVIOUS
  <2>1. Bad \in SUBSET Nat
    BY <1>0
  <2>2. PICK j \in Bad : \A k \in Bad : j <= k
    BY <2>1, LeastNatural
  <2>3. j \in 1..n /\ j - 1 \in 0..n
    BY <1>0, <1>9
  <2>4. j - 1 \notin Bad
    BY <1>0, <2>2, <2>3
  <2>5. F[j - 1] \in Nat /\ F[j] = F[j - 1] * Base + q[j] /\ q[j] \in Nat
    BY <1>0, <1>9, <2>3, <2>4
  <2>6. \A a, b \in Nat : a * Base + b \in Nat
    BY <1>0
  <2>7. F[j] \in Nat
    BY <2>5, <2>6
  <2> QED
    BY <2>7
<1>12. F \in [0..n -> Nat]
  BY <1>11
<1> HIDE DEF F
<1> QED
  BY <1>9, <1>10, <1>12 DEF Reads

\* A further digit multiplies what was read by the base.
LEMMA NumberAppend ==
  ASSUME NEW q \in Seq(Nat), NEW d \in Nat
  PROVE  /\ Number(q) \in Nat
         /\ Number(Append(q, d)) = Number(q) * Base + d
<1> DEFINE r == Append(q, d)
           n == Len(q)
<1>1. n \in Nat /\ r \in Seq(Nat) /\ Len(r) = n + 1 /\ r[n + 1] = d /\ \A i \in 1..n : r[i] = q[i]
  BY LenProperties, AppendProperties
<1> HIDE DEF r
<1>2. PICK F : Reads(q, F) /\ Number(q) = F[n]
  BY NumberReads
<1>3. PICK G : Reads(r, G) /\ Number(r) = G[Len(r)]
  BY <1>1, NumberReads
<1>4. ASSUME NEW i \in 0..n
      PROVE  F[i] = G[i]
  <2> DEFINE Bad == {j \in 0..n : F[j] # G[j]}
  <2> SUFFICES ASSUME Bad # {}
               PROVE  FALSE
    OBVIOUS
  <2>1. Bad \in SUBSET Nat
    BY <1>1
  <2>2. PICK j \in Bad : \A k \in Bad : j <= k
    BY <2>1, LeastNatural
  <2>3. j \in 1..n /\ j \in 1..Len(r) /\ j - 1 \in 0..n
    BY <1>1, <1>2, <1>3 DEF Reads
  <2>4. F[j - 1] = G[j - 1]
    BY <1>1, <2>2, <2>3
  <2> QED
    BY <1>1, <1>2, <1>3, <2>2, <2>3, <2>4 DEF Reads
<1>5. G[n + 1] = G[n] * Base + r[n + 1] /\ F[n] \in Nat
  <2>1. n + 1 \in 1..Len(r) /\ (n + 1) - 1 = n /\ n \in 0..n
    BY <1>1
  <2> QED
    BY <1>2, <1>3, <2>1 DEF Reads
<1>6. F[n] = G[n]
  BY <1>1, <1>4
<1> QED
  BY <1>1, <1>2, <1>3, <1>5, <1>6 DEF r

\* No text loses a bit: the digits of a number read back to it.
LEMMA DigitsReadBack ==
  ASSUME NEW v \in Nat
  PROVE  Number(Digits[v]) = v
<1> DEFINE Bad == {n \in Nat : Number(Digits[n]) # n}
<1> SUFFICES ASSUME Bad # {}
             PROVE  FALSE
  OBVIOUS
<1>0. Base \in Nat /\ Base >= 2
  BY RowsAssumption
<1>1. PICK n \in Bad : \A m \in Bad : n <= m
  BY LeastNatural
<1>2. Number(<<>>) = 0
  <2>1. <<>> \in Seq(Nat) /\ Len(<<>>) = 0
    OBVIOUS
  <2>2. PICK F : Reads(<<>>, F) /\ Number(<<>>) = F[Len(<<>>)]
    BY <2>1, NumberReads
  <2> QED
    BY <2>1, <2>2 DEF Reads
<1>3. CASE n < Base
  <2>1. Digits[n] = Append(<<>>, n)
    <3>1. n \in Nat
      OBVIOUS
    <3>2. Digits[n] = <<n>>
      BY <1>3, <3>1, DigitsDef
    <3> QED
      BY <3>2
  <2>2. Number(Append(<<>>, n)) = Number(<<>>) * Base + n
    <3>1. <<>> \in Seq(Nat) /\ n \in Nat
      OBVIOUS
    <3> QED
      BY <3>1, NumberAppend
  <2> QED
    BY <1>0, <1>1, <1>2, <2>1, <2>2
<1>4. CASE n >= Base
  <2> DEFINE k == n \div Base
             d == n % Base
  <2>1. k \in Nat /\ d \in Nat /\ n = Base * k + d
    BY <1>0
  <2>2. Digits[n] = Append(Digits[k], d) /\ Digits[k] \in Seq(Nat)
    <3>1. ~(n < Base)
      BY <1>0, <1>4
    <3> QED
      BY <2>1, <3>1, DigitsDef
  <2> HIDE DEF k, d
  <2>3. Base * k >= 2 * k /\ k * Base = Base * k
    BY <1>0, <2>1
  <2>4. k < n
    BY <1>0, <1>4, <2>1, <2>3
  <2>5. Number(Digits[k]) = k
    BY <1>1, <2>1, <2>4
  <2>6. Number(Append(Digits[k], d)) = k * Base + d
    BY <2>1, <2>2, <2>5, NumberAppend
  <2>7. Number(Digits[n]) = n
    BY <2>1, <2>2, <2>3, <2>6
  <2> QED
    BY <1>1, <2>7
<1> QED
  BY <1>0, <1>3, <1>4

\* A signed number reads back as well.
LEMMA SignedReadsBack ==
  ASSUME NEW v \in Int
  PROVE  FromStr(i128_to_str(v)) = v
<1> DEFINE size == IF v < 0 THEN -v ELSE v
           t == i128_to_str(v)
<1>1. size \in Nat
  OBVIOUS
<1>2. t.minus <=> v < 0
  BY DEF i128_to_str
<1>3. t.digits = Digits[size]
  BY DEF i128_to_str
<1> HIDE DEF t
<1>4. FromStr(t) = IF v < 0 THEN -Number(Digits[size]) ELSE Number(Digits[size])
  BY <1>2, <1>3 DEF FromStr
<1>5. Number(Digits[size]) = size
  BY <1>1, DigitsReadBack
<1> QED
  BY <1>4, <1>5 DEF t

-----------------------------------------------------------------------------
(* The tables *)

SwapLogs == {log \in delivered : log.kind = "Swap"}
ChangeLogs == {log \in delivered : log.kind # "Swap"}

\* The tables are the images of the delivered logs, which no two of have one position:
\* what a refused INSERT left out was there.
Mirrored ==
  /\ delivered \subseteq Logs /\ IsFiniteSet(delivered)
  /\ refused \in BOOLEAN
  /\ swaps = {SwapRow(log) : log \in SwapLogs}
  /\ liquidity_changes = {LiquidityChangeRow(log) : log \in ChangeLogs}
  /\ \A l, k \in delivered : l.tx = k.tx /\ l.log_idx = k.log_idx => l = k

\* The columns of a key tell the positions of logs apart, whatever the sign bit.
LEMMA KeysDiffer ==
  ASSUME NEW l \in Logs, NEW k \in Logs,
         Identity(l).tx_hash = Identity(k).tx_hash, Identity(l).log_index = Identity(k).log_index
  PROVE  l.tx = k.tx /\ l.log_idx = k.log_idx
<1>1. <<"0x", l.tx>> = <<"0x", k.tx>>
  BY DEF Identity, Text
<1>2. Cast(l.log_idx, Narrow) = Cast(k.log_idx, Narrow)
  BY DEF Identity
<1>3. /\ Narrow \in Nat \ {0}
      /\ l.log_idx \in Unsigned(Narrow) /\ k.log_idx \in Unsigned(Narrow)
  BY RowsAssumption
<1>4. l.log_idx = k.log_idx
  BY <1>2, <1>3, CastBack
<1> QED
  BY <1>1, <1>4

\* A log that was delivered before is refused by UNIQUE, a new one is not.
LEMMA UniqueIsNew ==
  ASSUME NEW log \in Logs, NEW D \in SUBSET Logs,
         \A l \in D : l.tx = log.tx /\ l.log_idx = log.log_idx => l = log,
         NEW table, NEW row, row.id = Identity(log),
         \A l \in D : \E r \in table : r.id = Identity(l),
         \A r \in table : \E l \in D : r.id = Identity(l)
  PROVE  Unique(table, row) <=> log \notin D
<1>1. ASSUME log \in D
      PROVE  ~Unique(table, row)
  <2>1. PICK r \in table : r.id = Identity(log)
    BY <1>1
  <2> QED
    BY <2>1 DEF Unique
<1>2. ASSUME log \notin D, NEW r \in table,
             r.id.tx_hash = row.id.tx_hash, r.id.log_index = row.id.log_index
      PROVE  FALSE
  <2>1. PICK l \in D : r.id = Identity(l)
    OBVIOUS
  <2>2. l.tx = log.tx /\ l.log_idx = log.log_idx
    BY <1>2, <2>1, KeysDiffer
  <2> QED
    BY <1>2, <2>1, <2>2
<1> QED
  BY <1>1, <1>2 DEF Unique

\* An INSERT into swaps.
LEMMA SwapKeepsMirror ==
  ASSUME Mirrored, NEW log \in Logs, Emitted(log), InsertSwap(log),
         delivered' = delivered \cup {log}
  PROVE  Mirrored'
<1> DEFINE row == SwapRow(log)
<1>1. row.id = Identity(log) /\ \A l \in SwapLogs : SwapRow(l).id = Identity(l)
  BY DEF SwapRow
<1>2. SwapLogs \in SUBSET Logs /\ \A l \in SwapLogs : l.tx = log.tx /\ l.log_idx = log.log_idx => l = log
  BY DEF SwapLogs, Mirrored, Emitted
<1> HIDE DEF row
<1>3. Unique(swaps, row) <=> log \notin SwapLogs
  <2>1. /\ \A l \in SwapLogs : \E r \in swaps : r.id = Identity(l)
        /\ \A r \in swaps : \E l \in SwapLogs : r.id = Identity(l)
    BY <1>1 DEF Mirrored
  <2> QED
    BY <1>1, <1>2, <2>1, UniqueIsNew
<1>4. /\ log.kind = "Swap" /\ liquidity_changes' = liquidity_changes
      /\ refused' \in BOOLEAN
      /\ log \notin SwapLogs => swaps' = swaps \cup {row}
      /\ log \in SwapLogs => swaps' = swaps
  BY <1>3 DEF InsertSwap, row
<1>5. SwapLogs' = SwapLogs \cup {log} /\ ChangeLogs' = ChangeLogs
  BY <1>4 DEF SwapLogs, ChangeLogs
<1>6. swaps' = {SwapRow(l) : l \in SwapLogs'}
  BY <1>4, <1>5 DEF Mirrored, row
<1>7. liquidity_changes' = {LiquidityChangeRow(l) : l \in ChangeLogs'}
  BY <1>4, <1>5 DEF Mirrored
<1>8. delivered' \subseteq Logs /\ IsFiniteSet(delivered')
  BY FS_AddElement DEF Mirrored
<1>9. \A l, k \in delivered' : l.tx = k.tx /\ l.log_idx = k.log_idx => l = k
  BY DEF Mirrored, Emitted
<1> QED
  BY <1>4, <1>6, <1>7, <1>8, <1>9 DEF Mirrored

\* An INSERT into liquidity_changes; CHECK never refuses what as_str writes.
LEMMA ChangeKeepsMirror ==
  ASSUME Mirrored, NEW log \in Logs, Emitted(log), InsertLiquidityChange(log),
         delivered' = delivered \cup {log}
  PROVE  Mirrored'
<1> DEFINE row == LiquidityChangeRow(log)
<1>1. row.id = Identity(log) /\ \A l \in ChangeLogs : LiquidityChangeRow(l).id = Identity(l)
  BY DEF LiquidityChangeRow
<1>2. ChangeLogs \in SUBSET Logs /\ \A l \in ChangeLogs : l.tx = log.tx /\ l.log_idx = log.log_idx => l = log
  BY DEF ChangeLogs, Mirrored, Emitted
<1>3. log.kind # "Swap" /\ Checked(row)
  <2>1. log.kind \in {"Mint", "Burn"}
    BY RowsAssumption DEF InsertLiquidityChange
  <2>2. row.event_type = as_str(log.kind)
    BY DEF LiquidityChangeRow
  <2> QED
    BY <2>1, <2>2 DEF Checked, as_str
<1> HIDE DEF row
<1>4. Unique(liquidity_changes, row) <=> log \notin ChangeLogs
  <2>1. /\ \A l \in ChangeLogs : \E r \in liquidity_changes : r.id = Identity(l)
        /\ \A r \in liquidity_changes : \E l \in ChangeLogs : r.id = Identity(l)
    BY <1>1 DEF Mirrored
  <2> QED
    BY <1>1, <1>2, <2>1, UniqueIsNew
<1>5. /\ swaps' = swaps /\ refused' \in BOOLEAN
      /\ log \notin ChangeLogs => liquidity_changes' = liquidity_changes \cup {row}
      /\ log \in ChangeLogs => liquidity_changes' = liquidity_changes
  BY <1>3, <1>4 DEF InsertLiquidityChange, row
<1>6. ChangeLogs' = ChangeLogs \cup {log} /\ SwapLogs' = SwapLogs
  BY <1>3 DEF SwapLogs, ChangeLogs
<1>7. swaps' = {SwapRow(l) : l \in SwapLogs'}
  BY <1>5, <1>6 DEF Mirrored
<1>8. liquidity_changes' = {LiquidityChangeRow(l) : l \in ChangeLogs'}
  BY <1>5, <1>6 DEF Mirrored, row
<1>9. delivered' \subseteq Logs /\ IsFiniteSet(delivered')
  BY FS_AddElement DEF Mirrored
<1>10. \A l, k \in delivered' : l.tx = k.tx /\ l.log_idx = k.log_idx => l = k
  BY DEF Mirrored, Emitted
<1> QED
  BY <1>5, <1>7, <1>8, <1>9, <1>10 DEF Mirrored

\* The tables mirror the delivered logs in every state.
LEMMA Mirroring == Spec => []Mirrored
<1>1. Init => Mirrored
  BY FS_EmptySet DEF Init, Mirrored, SwapLogs, ChangeLogs
<1>2. Mirrored /\ [Next]_vars => Mirrored'
  <2> SUFFICES ASSUME Mirrored, [Next]_vars
               PROVE  Mirrored'
    OBVIOUS
  <2>1. CASE UNCHANGED vars
    BY <2>1 DEF vars, Mirrored, SwapLogs, ChangeLogs
  <2>2. CASE Next
    BY <2>2, SwapKeepsMirror, ChangeKeepsMirror DEF Next, Deliver
  <2> QED
    BY <2>1, <2>2
<1> QED
  BY <1>1, <1>2, PTL DEF Spec

-----------------------------------------------------------------------------
(* Theorems *)

\* Every log that is stored has the types of its constructor.
LEMMA LogTypes ==
  ASSUME Mirrored
  PROVE  /\ \A l \in delivered :
              l.block \in Unsigned(Wide) /\ l.ts \in Unsigned(Wide) /\ l.log_idx \in Unsigned(Narrow)
         /\ \A l \in SwapLogs :
              /\ l \in delivered /\ l.kind = "Swap"
              /\ l.amount0 \in Int /\ l.amount1 \in Int
              /\ l.sqrt_price \in Nat /\ l.liquidity \in Nat
         /\ \A l \in ChangeLogs :
              /\ l \in delivered /\ l.kind \in {"Mint", "Burn"}
              /\ l.amount \in Nat /\ l.amount0 \in Nat /\ l.amount1 \in Nat
<1>1. \A l \in delivered : l \in Logs
  BY DEF Mirrored
<1> QED
  BY <1>1, RowsAssumption DEF SwapLogs, ChangeLogs

\* A row keeps the identity of its log.
LEMMA IdentityKept ==
  ASSUME Mirrored, NEW l \in delivered, NEW row, row.id = Identity(l)
  PROVE  /\ SameIdentity(row, l)
         /\ row.id.block_number \in -(2^(Wide - 1))..(2^(Wide - 1) - 1)
         /\ row.id.block_timestamp \in -(2^(Wide - 1))..(2^(Wide - 1) - 1)
         /\ row.id.log_index \in -(2^(Narrow - 1))..(2^(Narrow - 1) - 1)
<1>1. /\ Wide \in Nat \ {0} /\ Narrow \in Nat \ {0}
      /\ l.block \in Unsigned(Wide) /\ l.ts \in Unsigned(Wide) /\ l.log_idx \in Unsigned(Narrow)
  BY RowsAssumption, LogTypes
<1>2. /\ row.id.pool_address = Text(l.pool) /\ row.id.tx_hash = Text(l.tx)
      /\ row.id.block_number = Cast(l.block, Wide)
      /\ row.id.block_timestamp = Cast(l.ts, Wide)
      /\ row.id.log_index = Cast(l.log_idx, Narrow)
  BY DEF Identity
<1> QED
  BY <1>1, <1>2, CastBack DEF SameIdentity

\* What a constructor of models.rs makes of a block number, a timestamp or a log index
\* fits the signed column of its width.
THEOREM RowsTypeCorrect == Spec => []TypeOK
<1>1. Mirrored => TypeOK
  <2> SUFFICES ASSUME Mirrored
               PROVE  TypeOK
    OBVIOUS
  <2>1. \A r \in swaps \cup liquidity_changes : \E l \in delivered : r.id = Identity(l)
    BY DEF Mirrored, SwapLogs, ChangeLogs, SwapRow, LiquidityChangeRow
  <2> QED
    BY <2>1, IdentityKept DEF Mirrored, TypeOK
<1> QED
  BY <1>1, Mirroring, PTL

\* The rows of the tables are as many as the logs they were made from.
LEMMA RowsAndLogs ==
  ASSUME Mirrored
  PROVE  /\ \A l, k \in SwapLogs : SwapRow(l) = SwapRow(k) => l = k
         /\ \A l, k \in ChangeLogs : LiquidityChangeRow(l) = LiquidityChangeRow(k) => l = k
         /\ IsFiniteSet(SwapLogs) /\ IsFiniteSet(ChangeLogs) /\ IsFiniteSet(liquidity_changes)
         /\ Cardinality(swaps) = Cardinality(SwapLogs)
         /\ Cardinality(liquidity_changes) = Cardinality(ChangeLogs)
<1>1. ASSUME NEW l \in delivered, NEW k \in delivered, Identity(l) = Identity(k)
      PROVE  l = k
  BY <1>1, KeysDiffer DEF Mirrored
<1>2. SwapLogs \in SUBSET delivered /\ ChangeLogs \in SUBSET delivered
  BY DEF SwapLogs, ChangeLogs
<1>3. \A l, k \in SwapLogs : SwapRow(l) = SwapRow(k) => l = k
  <2>1. \A l : SwapRow(l).id = Identity(l)
    BY DEF SwapRow
  <2> QED
    BY <1>1, <1>2, <2>1
<1>4. \A l, k \in ChangeLogs : LiquidityChangeRow(l) = LiquidityChangeRow(k) => l = k
  <2>1. \A l : LiquidityChangeRow(l).id = Identity(l)
    BY DEF LiquidityChangeRow
  <2> QED
    BY <1>1, <1>2, <2>1
<1>5. IsFiniteSet(SwapLogs) /\ IsFiniteSet(ChangeLogs)
  BY <1>2, FS_Subset DEF Mirrored
<1>6. ExistsBijection(SwapLogs, swaps)
  <2> DEFINE f == [l \in SwapLogs |-> SwapRow(l)]
  <2>1. f \in Bijection(SwapLogs, swaps)
    BY <1>3 DEF Mirrored, Bijection, Injection, IsInjective, Surjection
  <2> QED
    BY <2>1 DEF ExistsBijection
<1>7. ExistsBijection(ChangeLogs, liquidity_changes)
  <2> DEFINE f == [l \in ChangeLogs |-> LiquidityChangeRow(l)]
  <2>1. f \in Bijection(ChangeLogs, liquidity_changes)
    BY <1>4 DEF Mirrored, Bijection, Injection, IsInjective, Surjection
  <2> QED
    BY <2>1 DEF ExistsBijection
<1> QED
  BY <1>3, <1>4, <1>5, <1>6, <1>7, FS_Bijection

\* However often and in whatever order logs are delivered, and whatever their values, the
\* tables of schema.rs hold each once, and its row reads back to the log: no cast or text
\* of models.rs makes two logs collide or loses a bit.
THEOREM EveryLogStoredOnce == Spec => []StoredOnce
<1>1. Mirrored => StoredOnce
  <2> SUFFICES ASSUME Mirrored
               PROVE  StoredOnce
    OBVIOUS
  <2>1. Cardinality(swaps) + Cardinality(liquidity_changes) = Cardinality(delivered)
    <3>1. delivered = SwapLogs \cup ChangeLogs /\ SwapLogs \cap ChangeLogs = {}
      BY DEF SwapLogs, ChangeLogs
    <3>2. /\ IsFiniteSet(SwapLogs) /\ IsFiniteSet(ChangeLogs)
          /\ Cardinality(swaps) = Cardinality(SwapLogs)
          /\ Cardinality(liquidity_changes) = Cardinality(ChangeLogs)
      BY RowsAndLogs
    <3>3. Cardinality(SwapLogs \cup ChangeLogs)
            = Cardinality(SwapLogs) + Cardinality(ChangeLogs) - Cardinality({})
      BY <3>1, <3>2, FS_Union
    <3>4. /\ Cardinality({}) = 0
          /\ Cardinality(SwapLogs) \in Nat /\ Cardinality(ChangeLogs) \in Nat
      BY <3>2, FS_EmptySet, FS_CardinalityType
    <3> QED
      BY <3>1, <3>2, <3>3, <3>4
  <2>2. ASSUME NEW l \in SwapLogs
        PROVE  \E row \in swaps : IsSwap(row, l)
    <3> DEFINE row == SwapRow(l)
    <3>1. row \in swaps /\ row.id = Identity(l)
      BY DEF Mirrored, SwapRow
    <3>2. SameIdentity(row, l)
      BY <3>1, LogTypes, IdentityKept
    <3>3. /\ row.amount0 = i128_to_str(l.amount0) /\ row.amount1 = i128_to_str(l.amount1)
          /\ row.sqrt_price_x96 = Digits[l.sqrt_price] /\ row.liquidity = Digits[l.liquidity]
      BY DEF SwapRow, u128_to_hex
    <3> HIDE DEF row
    <3>4. IsSwap(row, l)
      BY <3>2, <3>3, LogTypes, SignedReadsBack, DigitsReadBack DEF IsSwap, FromHex
    <3> QED
      BY <3>1, <3>4
  <2>3. ASSUME NEW l \in ChangeLogs
        PROVE  \E row \in liquidity_changes : IsLiquidityChange(row, l)
    <3> DEFINE row == LiquidityChangeRow(l)
    <3>1. row \in liquidity_changes /\ row.id = Identity(l)
      BY DEF Mirrored, LiquidityChangeRow
    <3>2. SameIdentity(row, l)
      BY <3>1, LogTypes, IdentityKept
    <3>3. /\ row.amount = Digits[l.amount] /\ row.amount0 = Digits[l.amount0]
          /\ row.amount1 = Digits[l.amount1] /\ row.event_type = as_str(l.kind)
      BY DEF LiquidityChangeRow, u128_to_hex
    <3> HIDE DEF row
    <3>4. l.kind \in from_str(row.event_type)
      BY <3>3, LogTypes DEF as_str, from_str
    <3>5. IsLiquidityChange(row, l)
      BY <3>2, <3>3, <3>4, LogTypes, DigitsReadBack DEF IsLiquidityChange, FromHex
    <3> QED
      BY <3>1, <3>5
  <2>4. \A l \in delivered : l \in SwapLogs \/ l \in ChangeLogs
    BY DEF SwapLogs, ChangeLogs
  <2> QED
    BY <2>1, <2>2, <2>3, <2>4 DEF StoredOnce
<1> QED
  BY <1>1, Mirroring, PTL

\* What a reader adds up: the signed amount of a row, and of a log.
OfRow(row) == sign(CHOOSE k \in from_str(row.event_type) : TRUE) * FromHex(row.amount)
OfLog(log) == IF log.kind = "Mint" THEN log.amount ELSE -log.amount

\* The row of a liquidity change counts for as much as its log.
LEMMA SameAmount ==
  ASSUME Mirrored, NEW l \in ChangeLogs
  PROVE  OfRow(LiquidityChangeRow(l)) = OfLog(l) /\ OfLog(l) \in Int
<1> DEFINE row == LiquidityChangeRow(l)
<1>1. l.kind \in {"Mint", "Burn"} /\ l.amount \in Nat
  BY LogTypes
<1>2. row.event_type = as_str(l.kind) /\ row.amount = Digits[l.amount]
  BY DEF LiquidityChangeRow, u128_to_hex
<1> HIDE DEF row
<1>3. FromHex(row.amount) = l.amount
  BY <1>1, <1>2, DigitsReadBack DEF FromHex
<1>4. from_str(row.event_type) = {l.kind}
  BY <1>1, <1>2 DEF as_str, from_str
<1>5. (CHOOSE k \in {l.kind} : TRUE) = l.kind
  OBVIOUS
<1>6. OfRow(row) = sign(l.kind) * l.amount
  BY <1>3, <1>4, <1>5 DEF OfRow
<1> QED
  BY <1>1, <1>6 DEF OfLog, sign, row

\* MapThenSumSet over logs adds up their amounts.
LEMMA SumOfLogs ==
  ASSUME NEW S, IsFiniteSet(S), NEW F \in [S -> Int], \A x \in S : F[x] = OfLog(x)
  PROVE  \E g : Sums(F, S, g) /\ MapThenSumSet(OfLog, S) = g[S]
<1> DEFINE Sol(f) == f = [T \in SUBSET S |-> IF T = {} THEN 0 ELSE
                            LET x == CHOOSE x \in T : TRUE IN OfLog(x) + f[T \ {x}]]
           h == CHOOSE f : Sol(f)
<1>1. PICK g : Sums(F, S, g)
  BY SumExists
<1>2. ASSUME NEW T \in SUBSET S, T # {}
      PROVE  (CHOOSE x \in T : TRUE) \in S
  BY <1>2
<1>3. Sol(g)
  BY <1>1, <1>2 DEF Sums
<1>4. Sol(h)
  <2> HIDE DEF Sol
  <2> QED
    BY <1>3
<1>5. MapThenSumSet(OfLog, S) = h[S]
  BY Zenon DEF MapThenSumSet, MapThenFoldSet
<1> HIDE DEF h
<1>6. AddsUp(F, S, h)
  BY <1>2, <1>4 DEF AddsUp
<1>7. h[S] = g[S]
  BY <1>1, <1>6, SumIsUnique
<1> QED
  BY <1>1, <1>5, <1>7

\* And so it does over rows.
LEMMA SumOfRows ==
  ASSUME NEW S, IsFiniteSet(S), NEW F \in [S -> Int], \A x \in S : F[x] = OfRow(x)
  PROVE  \E g : Sums(F, S, g) /\ MapThenSumSet(OfRow, S) = g[S]
<1> DEFINE Sol(f) == f = [T \in SUBSET S |-> IF T = {} THEN 0 ELSE
                            LET x == CHOOSE x \in T : TRUE IN OfRow(x) + f[T \ {x}]]
           h == CHOOSE f : Sol(f)
<1>1. PICK g : Sums(F, S, g)
  BY SumExists
<1>2. ASSUME NEW T \in SUBSET S, T # {}
      PROVE  (CHOOSE x \in T : TRUE) \in S
  BY <1>2
<1>3. Sol(g)
  BY <1>1, <1>2 DEF Sums
<1>4. Sol(h)
  <2> HIDE DEF Sol
  <2> QED
    BY <1>3
<1>5. MapThenSumSet(OfRow, S) = h[S]
  BY Zenon DEF MapThenSumSet, MapThenFoldSet
<1> HIDE DEF h
<1>6. AddsUp(F, S, h)
  BY <1>2, <1>4 DEF AddsUp
<1>7. h[S] = g[S]
  BY <1>1, <1>6, SumIsUnique
<1> QED
  BY <1>1, <1>5, <1>7

\* A reader that sums sign * amount over the stored rows gets the liquidity that the
\* delivered logs added less what they removed, for any logs in any order and number.
THEOREM LiquidityAddsUp == Spec => []NetLiquidity
<1>1. Mirrored => NetLiquidity
  <2> SUFFICES ASSUME Mirrored
               PROVE  NetLiquidity
    OBVIOUS
  <2> DEFINE F == [l \in ChangeLogs |-> OfLog(l)]
             G == [row \in liquidity_changes |-> OfRow(row)]
             R == [l \in ChangeLogs |-> LiquidityChangeRow(l)]
  <2>1. /\ IsFiniteSet(ChangeLogs) /\ IsFiniteSet(liquidity_changes)
        /\ \A l, k \in ChangeLogs : LiquidityChangeRow(l) = LiquidityChangeRow(k) => l = k
    BY RowsAndLogs
  <2>2. liquidity_changes = {LiquidityChangeRow(l) : l \in ChangeLogs}
    BY DEF Mirrored
  <2>3. /\ F \in [ChangeLogs -> Int] /\ G \in [liquidity_changes -> Int]
        /\ R \in [ChangeLogs -> liquidity_changes]
    BY <2>2, SameAmount
  <2>4. /\ \A l, k \in ChangeLogs : R[l] = R[k] => l = k
        /\ \A l \in ChangeLogs : G[R[l]] = F[l]
        /\ liquidity_changes = {R[l] : l \in ChangeLogs}
    BY <2>1, <2>2, SameAmount
  <2>5. (\A l \in ChangeLogs : F[l] = OfLog(l)) /\ \A row \in liquidity_changes : G[row] = OfRow(row)
    OBVIOUS
  <2> HIDE DEF F, G, R
  <2>6. PICK g : Sums(F, ChangeLogs, g) /\ MapThenSumSet(OfLog, ChangeLogs) = g[ChangeLogs]
    BY <2>1, <2>3, <2>5, SumOfLogs
  <2>7. PICK h : Sums(G, liquidity_changes, h) /\ MapThenSumSet(OfRow, liquidity_changes) = h[liquidity_changes]
    BY <2>1, <2>3, <2>5, SumOfRows
  <2>8. g[ChangeLogs] = h[{R[l] : l \in ChangeLogs}]
    BY <2>1, <2>3, <2>4, <2>6, <2>7, SumsAgree
  <2>9. MapThenSumSet(OfRow, liquidity_changes) = MapThenSumSet(OfLog, ChangeLogs)
    BY <2>4, <2>6, <2>7, <2>8
  <2> QED
    BY <2>9, Zenon DEF NetLiquidity, OfRow, OfLog, ChangeLogs
<1> QED
  BY <1>1, Mirroring, PTL
=============================================================================
