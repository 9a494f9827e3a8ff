---------------------------- MODULE AmountsProof ----------------------------
(* What Amounts sums up, for lists of every length.  The library's induction *)
(* theorems take an operator as a parameter; here induction is over a set of *)
(* numbers, and comes from the well-foundedness of < alone.                  *)
EXTENDS Amounts, SequenceTheorems, WellFoundedInduction, TLAPS

(* ------------------------------- induction ------------------------------- *)

\* A set of numbers has a smallest one.
LEMMA SmallestNumber ==
    ASSUME NEW T, T \subseteq Nat, T # {}
    PROVE  \E n \in T : \A m \in T : n <= m
<1> DEFINE R == {p \in Nat \X Nat : p[1] < p[2]}
<1>1. R = OpToRel(<, Nat)
  BY DEF OpToRel
<1>2. IsWellFoundedOn(R, Nat)
  BY <1>1, NatLessThanWellFounded
<1>3. \A m, n \in Nat : m < n => <<m, n>> \in R
  OBVIOUS
<1> HIDE DEF R
<1>4. PICK n \in T : \A m \in T : ~(<<m, n>> \in R)
  BY <1>2, WFMin
<1>5. \A m \in T : ~(m < n)
  BY <1>3, <1>4
<1> QED BY <1>5

\* A set of numbers that holds 0 and every successor holds all numbers.
LEMMA NumbersInduction ==
    ASSUME NEW S, 0 \in S, \A n \in Nat : n \in S => n + 1 \in S
    PROVE  Nat \subseteq S
<1> DEFINE T == Nat \ S
<1> SUFFICES ASSUME T # {} PROVE FALSE
  OBVIOUS
<1>1. PICK n \in T : \A m \in T : n <= m
  BY SmallestNumber
<1>2. n # 0
  OBVIOUS
<1>3. n - 1 \in Nat /\ n - 1 \notin T
  BY <1>1, <1>2
<1>4. (n - 1) + 1 \in S
  BY <1>3
<1> QED BY <1>4

(* --------------------------- folds of sequences -------------------------- *)

\* The last of a set of positions.
LEMMA LastPosition ==
    ASSUME NEW k \in Nat, NEW s \in SUBSET (1..(k + 1)), k + 1 \in s
    PROVE  Max(s) = k + 1
<1>1. \A y \in s : k + 1 >= y
  OBVIOUS
<1>2. \A x \in s : (\A y \in s : x >= y) => x = k + 1
  OBVIOUS
<1> QED BY <1>1, <1>2 DEF Max

\* The last of a set of positions is one of them.
LEMMA LastIsIn ==
    ASSUME NEW n \in Nat, NEW s \in SUBSET (1..n), s # {}
    PROVE  Max(s) \in s
<1> DEFINE T == {m \in Nat : n - m \in s}
<1>1. \A x \in s : n - x \in T
  <2> TAKE x \in s
  <2>1. x \in 1..n
    OBVIOUS
  <2>2. n - x \in Nat /\ n - (n - x) = x
    BY <2>1
  <2> QED BY <2>2
<1>2. PICK t \in T : \A u \in T : t <= u
  <2>1. T # {} /\ T \subseteq Nat
    BY <1>1
  <2> HIDE DEF T
  <2> QED BY <2>1, SmallestNumber
<1>3. n - t \in s /\ t \in Nat
  OBVIOUS
<1> HIDE DEF T
<1>4. \A y \in s : n - t >= y
  <2> TAKE y \in s
  <2>1. y \in 1..n /\ t <= n - y
    BY <1>1, <1>2
  <2> QED BY <1>3, <2>1
<1> QED BY <1>3, <1>4 DEF Max

Folded(n, D, base, step, g) ==
    /\ g \in [SUBSET (1..n) -> D]
    /\ \A s \in SUBSET (1..n) :
        g[s] = IF s = {} THEN base ELSE step[<<g[s \ {Max(s)}], Max(s)>>]

\* The function that a fold over the positions of a sequence chooses exists.
LEMMA FoldExists ==
    ASSUME NEW n \in Nat, NEW D, NEW base \in D, NEW step \in [D \X (1..n) -> D]
    PROVE  \E g : Folded(n, D, base, step, g)
<1> DEFINE S == {k \in Nat : k <= n => \E g : Folded(k, D, base, step, g)}
<1>1. 0 \in S
  <2>1. SUBSET (1..0) = {{}}
    OBVIOUS
  <2>2. Folded(0, D, base, step, [s \in SUBSET (1..0) |-> base])
    BY <2>1 DEF Folded
  <2> QED BY <2>2
<1>2. \A k \in Nat : k \in S => k + 1 \in S
  <2> SUFFICES ASSUME NEW k \in Nat, k \in S, k + 1 <= n
               PROVE  \E g : Folded(k + 1, D, base, step, g)
    OBVIOUS
  <2>1. PICK g : Folded(k, D, base, step, g)
    OBVIOUS
  <2> DEFINE h == [s \in SUBSET (1..(k + 1)) |->
                    IF k + 1 \in s THEN step[<<g[s \ {k + 1}], k + 1>>] ELSE g[s]]
  <2>2. \A s \in SUBSET (1..(k + 1)) : s \ {k + 1} \in SUBSET (1..k)
    OBVIOUS
  <2>3. h \in [SUBSET (1..(k + 1)) -> D]
    <3>1. ASSUME NEW s \in SUBSET (1..(k + 1)) PROVE h[s] \in D
      <4>1. s \ {k + 1} \in SUBSET (1..k) /\ (k + 1 \notin s => s = s \ {k + 1})
        BY <2>2
      <4>2. g[s \ {k + 1}] \in D
        BY <2>1, <4>1 DEF Folded
      <4>3. k + 1 \in s => <<g[s \ {k + 1}], k + 1>> \in D \X (1..n)
        BY <4>2
      <4>4. k + 1 \in s => step[<<g[s \ {k + 1}], k + 1>>] \in D
        BY <4>3
      <4>5. h[s] = IF k + 1 \in s THEN step[<<g[s \ {k + 1}], k + 1>>] ELSE g[s]
        OBVIOUS
      <4> HIDE DEF h
      <4> QED BY <4>1, <4>2, <4>4, <4>5
    <3> QED BY <3>1
  <2>4. ASSUME NEW s \in SUBSET (1..(k + 1))
        PROVE  h[s] = IF s = {} THEN base ELSE step[<<h[s \ {Max(s)}], Max(s)>>]
    <3>1. CASE k + 1 \in s
      <4>1. Max(s) = k + 1
        BY <3>1, LastPosition
      <4>2. h[s \ {k + 1}] = g[s \ {k + 1}]
        BY <2>2
      <4> QED BY <3>1, <4>1, <4>2
    <3>2. CASE k + 1 \notin s
      <4>1. s \in SUBSET (1..k) /\ s \ {Max(s)} \in SUBSET (1..k)
        BY <2>2, <3>2
      <4>2. h[s] = g[s] /\ h[s \ {Max(s)}] = g[s \ {Max(s)}]
        BY <3>2, <4>1
      <4> QED BY <2>1, <4>1, <4>2 DEF Folded
    <3> QED BY <3>1, <3>2
  <2> HIDE DEF h
  <2>5. Folded(k + 1, D, base, step, h)
    BY <2>3, <2>4 DEF Folded
  <2> QED BY <2>5
<1> HIDE DEF S
<1>3. n \in S
  BY <1>1, <1>2, NumbersInduction
<1> QED BY <1>3 DEF S

\* The first k positions: their last one, and what is left without it.
LEMMA FirstPositions ==
    ASSUME NEW k \in Nat
    PROVE  /\ Max(1..(k + 1)) = k + 1 /\ 1..(k + 1) # {}
           /\ (1..(k + 1)) \ {k + 1} = 1..k
<1>1. 1..(k + 1) \in SUBSET (1..(k + 1)) /\ k + 1 \in 1..(k + 1)
  OBVIOUS
<1> QED BY <1>1, LastPosition

(* --------------------------------- sums ---------------------------------- *)

\* The fold of PrefixSum has a value, and it is the running sum's.
LEMMA SumOfSequence ==
    ASSUME NEW n \in Nat, NEW f \in [1..n -> Nat],
           NEW h \in [0..n -> Nat], h[0] = 0, \A k \in 1..n : h[k] = h[k - 1] + f[k]
    PROVE  FoldLeft(+, 0, f) = h[n]
<1> DEFINE step == [p \in Nat \X (1..n) |-> p[1] + f[p[2]]]
           iter == CHOOSE g : g = [s \in SUBSET (1..n) |->
                        IF s = {} THEN 0 ELSE g[s \ {Max(s)}] + f[Max(s)]]
<1>1. step \in [Nat \X (1..n) -> Nat]
  OBVIOUS
<1>2. PICK g : Folded(n, Nat, 0, step, g)
  <2> HIDE DEF step
  <2> QED BY <1>1, FoldExists
<1>3. FoldLeft(+, 0, f) = iter[1..n]
  BY DEF FoldLeft, MapThenFoldSet
<1>4. g = [s \in SUBSET (1..n) |-> IF s = {} THEN 0 ELSE g[s \ {Max(s)}] + f[Max(s)]]
  <2>1. ASSUME NEW s \in SUBSET (1..n)
        PROVE  g[s] = IF s = {} THEN 0 ELSE g[s \ {Max(s)}] + f[Max(s)]
    <3>1. g[s] = IF s = {} THEN 0 ELSE step[<<g[s \ {Max(s)}], Max(s)>>]
      BY <1>2 DEF Folded
    <3>2. s # {} => Max(s) \in 1..n /\ g[s \ {Max(s)}] \in Nat
      BY <1>2, LastIsIn DEF Folded
    <3> QED BY <3>1, <3>2
  <2>2. g = [s \in SUBSET (1..n) |-> g[s]]
    BY <1>2 DEF Folded
  <2> QED BY <2>1, <2>2
<1>5. iter = [s \in SUBSET (1..n) |->
                IF s = {} THEN 0 ELSE iter[s \ {Max(s)}] + f[Max(s)]]
  BY <1>4
<1> HIDE DEF iter, step
<1> DEFINE S == {k \in Nat : k <= n => iter[1..k] = h[k]}
<1>6. 0 \in S
  <2>1. 1..0 = {} /\ 1..0 \in SUBSET (1..n)
    OBVIOUS
  <2> QED BY <1>5, <2>1
<1>7. \A k \in Nat : k \in S => k + 1 \in S
  <2> SUFFICES ASSUME NEW k \in Nat, k + 1 <= n, iter[1..k] = h[k]
               PROVE  iter[1..(k + 1)] = h[k + 1]
    OBVIOUS
  <2>1. 1..(k + 1) \in SUBSET (1..n) /\ k + 1 \in 1..n /\ (k + 1) - 1 = k
    OBVIOUS
  <2> DEFINE s == 1..(k + 1)
  <2>2. Max(s) = k + 1 /\ s # {} /\ s \ {k + 1} = 1..k
    BY FirstPositions
  <2> HIDE DEF s
  <2>3. s \in SUBSET (1..n)
    BY <2>1 DEF s
  <2>4. iter[s] = iter[s \ {Max(s)}] + f[Max(s)]
    BY <1>5, <2>2, <2>3
  <2>5. iter[s] = h[k] + f[k + 1]
    BY <2>2, <2>4
  <2> QED BY <2>1, <2>5 DEF s
<1> HIDE DEF S
<1>8. n \in S
  BY <1>6, <1>7, NumbersInduction
<1>9. iter[1..n] = h[n]
  BY <1>8 DEF S
<1> QED BY <1>3, <1>9

RunningSum(k, f, h) ==
    /\ h \in [0..k -> Nat] /\ h[0] = 0
    /\ \A i \in 1..k : h[i] = h[i - 1] + f[i]

\* Every list of amounts has running sums.
LEMMA RunningSums ==
    ASSUME NEW n \in Nat, NEW f \in [1..n -> Nat]
    PROVE  \E h : RunningSum(n, f, h)
<1> DEFINE S == {k \in Nat : k <= n => \E h : RunningSum(k, f, h)}
<1>1. 0 \in S
  <2>1. RunningSum(0, f, [i \in 0..0 |-> 0])
    BY DEF RunningSum
  <2> QED BY <2>1
<1>2. \A k \in Nat : k \in S => k + 1 \in S
  <2> SUFFICES ASSUME NEW k \in Nat, k \in S, k + 1 <= n
               PROVE  \E h : RunningSum(k + 1, f, h)
    OBVIOUS
  <2>1. PICK h : RunningSum(k, f, h)
    OBVIOUS
  <2> DEFINE g == [i \in 0..(k + 1) |-> IF i = k + 1 THEN h[k] + f[k + 1] ELSE h[i]]
  <2>2. \A i \in 0..k : h[i] \in Nat /\ g[i] = h[i]
    BY <2>1 DEF RunningSum
  <2>3. f[k + 1] \in Nat /\ g[k + 1] = h[k] + f[k + 1] /\ k \in 0..k
    OBVIOUS
  <2>4. g \in [0..(k + 1) -> Nat]
    <3>1. g = [i \in 0..(k + 1) |-> g[i]]
      OBVIOUS
    <3>2. \A i \in 0..(k + 1) : i \in 0..k \/ i = k + 1
      OBVIOUS
    <3> HIDE DEF g
    <3>3. \A i \in 0..(k + 1) : g[i] \in Nat
      BY <2>2, <2>3, <3>2
    <3> QED BY <3>1, <3>3
  <2>5. \A i \in 1..(k + 1) : g[i] = g[i - 1] + f[i]
    <3> TAKE i \in 1..(k + 1)
    <3> HIDE DEF g
    <3>1. CASE i = k + 1
      BY <2>2, <2>3, <3>1
    <3>2. CASE i \in 1..k
      <4>1. i \in 0..k /\ i - 1 \in 0..k /\ h[i] = h[i - 1] + f[i]
        BY <2>1, <3>2 DEF RunningSum
      <4> QED BY <2>2, <4>1
    <3> QED BY <3>1, <3>2
  <2>6. g[0] = 0
    BY <2>1, <2>2 DEF RunningSum
  <2> HIDE DEF g
  <2>7. RunningSum(k + 1, f, g)
    BY <2>4, <2>5, <2>6 DEF RunningSum
  <2> QED BY <2>7
<1> HIDE DEF S
<1>3. n \in S
  BY <1>1, <1>2, NumbersInduction
<1> QED BY <1>3 DEF S

\* The sum of the first k amounts is that of one less and the k-th.
LEMMA PrefixSums ==
    ASSUME NEW amounts \in Seq(Nat)
    PROVE  /\ PrefixSum(amounts, 0) = 0
           /\ \A k \in 0..Len(amounts) : PrefixSum(amounts, k) \in Nat
           /\ \A k \in 1..Len(amounts) :
                PrefixSum(amounts, k) = PrefixSum(amounts, k - 1) + amounts[k]
<1> DEFINE n == Len(amounts)
<1>1. n \in Nat /\ amounts \in [1..n -> Nat]
  OBVIOUS
<1>2. PICK h : h \in [0..n -> Nat] /\ h[0] = 0 /\ \A k \in 1..n : h[k] = h[k - 1] + amounts[k]
  <2> HIDE DEF n
  <2> QED BY <1>1, RunningSums DEF RunningSum
<1>3. ASSUME NEW k \in 0..n PROVE PrefixSum(amounts, k) = h[k]
  <2> DEFINE f == SubSeq(amounts, 1, k)
             g == [i \in 0..k |-> h[i]]
  <2>0. k \in Nat /\ \A i \in 1..k : i \in 1..n /\ amounts[i] \in Nat
    BY <1>1
  <2>1. f \in [1..k -> Nat] /\ \A i \in 1..k : f[i] = amounts[i]
    <3>1. f \in Seq(Nat) /\ Len(f) = k /\ \A i \in 1..k : f[i] = amounts[i]
      BY <2>0, SubSeqProperties
    <3> HIDE DEF f
    <3> QED BY <3>1
  <2>2. g \in [0..k -> Nat] /\ g[0] = 0 /\ g[k] = h[k]
    <3>1. \A i \in 0..k : h[i] \in Nat
      <4> HIDE DEF n, f, g
      <4>1. \A i \in 0..k : i \in 0..n
        BY <1>1
      <4> QED BY <1>2, <4>1
    <3>2. 0 \in 0..k /\ k \in 0..k
      BY <2>0
    <3>3. g[0] = 0 /\ g[k] = h[k]
      BY <1>2, <3>2
    <3> QED BY <3>1, <3>3
  <2>3. \A i \in 1..k : g[i] = g[i - 1] + f[i]
    <3> TAKE i \in 1..k
    <3>1. i \in 1..n /\ g[i] = h[i] /\ g[i - 1] = h[i - 1] /\ f[i] = amounts[i]
      BY <1>1, <2>1
    <3> QED BY <1>2, <3>1
  <2> HIDE DEF f, g
  <2>4. FoldLeft(+, 0, f) = g[k]
    BY <2>0, <2>1, <2>2, <2>3, SumOfSequence
  <2> QED BY <2>2, <2>4 DEF PrefixSum, f
<1> HIDE DEF n
<1>4. \A k \in 1..n : k \in 0..n /\ k - 1 \in 0..n
  BY <1>1
<1>5. 0 \in 0..n
  BY <1>1
<1>6. \A k \in 1..n : PrefixSum(amounts, k) = PrefixSum(amounts, k - 1) + amounts[k]
  BY <1>2, <1>3, <1>4
<1> QED BY <1>2, <1>3, <1>5, <1>6 DEF n

\* Longer prefixes are worth at least as much.
LEMMA PrefixSumsGrow ==
    ASSUME NEW amounts \in Seq(Nat), NEW j \in 0..Len(amounts), NEW k \in j..Len(amounts)
    PROVE  PrefixSum(amounts, j) <= PrefixSum(amounts, k)
<1> DEFINE n == Len(amounts)
           S == {i \in Nat : j + i <= n => PrefixSum(amounts, j) <= PrefixSum(amounts, j + i)}
<1>0. n \in Nat /\ j \in Nat /\ k \in Nat /\ \A i \in 1..n : amounts[i] \in Nat
  OBVIOUS
<1> HIDE DEF n
<1>1. 0 \in S
  BY <1>0, PrefixSums DEF n
<1>2. \A i \in Nat : i \in S => i + 1 \in S
  <2> SUFFICES ASSUME NEW i \in Nat, i \in S, j + (i + 1) <= n
               PROVE  PrefixSum(amounts, j) <= PrefixSum(amounts, j + (i + 1))
    BY <1>0
  <2>1. /\ j \in 0..n /\ j + i \in 0..n /\ j + i + 1 \in 1..n /\ (j + i + 1) - 1 = j + i
        /\ j + (i + 1) = j + i + 1
    BY <1>0
  <2>2. PrefixSum(amounts, j) \in Nat /\ PrefixSum(amounts, j + i) \in Nat
    BY <2>1, PrefixSums DEF n
  <2>3. PrefixSum(amounts, j + i + 1) = PrefixSum(amounts, j + i) + amounts[j + i + 1]
    BY <2>1, PrefixSums DEF n
  <2>4. PrefixSum(amounts, j) <= PrefixSum(amounts, j + i)
    BY <1>0, <2>1
  <2> HIDE DEF S
  <2> QED BY <1>0, <2>1, <2>2, <2>3, <2>4
<1>3. k - j \in Nat /\ j + (k - j) = k /\ k <= n
  BY <1>0 DEF n
<1> HIDE DEF S
<1>4. k - j \in S
  BY <1>1, <1>2, <1>3, NumbersInduction
<1> QED BY <1>3, <1>4 DEF S

(* ------------------------------ lists that change ------------------------ *)

\* A prefix's sum depends on nothing behind it.
LEMMA SamePrefixSums ==
    ASSUME NEW l \in Seq(Nat), NEW m \in Seq(Nat), NEW k \in Nat,
           k <= Len(l), k <= Len(m), \A i \in 1..k : l[i] = m[i]
    PROVE  PrefixSum(l, k) = PrefixSum(m, k)
<1>1. \A i \in 1..k : l[i] \in Nat /\ m[i] \in Nat
  OBVIOUS
<1>2. /\ SubSeq(l, 1, k) \in Seq(Nat) /\ Len(SubSeq(l, 1, k)) = k
      /\ \A i \in 1..k : SubSeq(l, 1, k)[i] = l[i]
  BY <1>1, SubSeqProperties
<1>3. /\ SubSeq(m, 1, k) \in Seq(Nat) /\ Len(SubSeq(m, 1, k)) = k
      /\ \A i \in 1..k : SubSeq(m, 1, k)[i] = m[i]
  BY <1>1, SubSeqProperties
<1>4. SubSeq(l, 1, k) = SubSeq(m, 1, k)
  BY <1>2, <1>3, SeqEqual
<1> QED BY <1>4 DEF PrefixSum

\* An amount more at the end.
LEMMA TotalAppended ==
    ASSUME NEW l \in Seq(Nat), NEW x \in Nat
    PROVE  Total(Append(l, x)) = Total(l) + x
<1> DEFINE m == Append(l, x)
           n == Len(l)
<1>1. /\ m \in Seq(Nat) /\ Len(m) = n + 1 /\ n \in Nat /\ m[n + 1] = x
      /\ \A i \in 1..n : m[i] = l[i]
  OBVIOUS
<1> HIDE DEF m
<1>2. PrefixSum(m, n) = PrefixSum(l, n)
  <2>1. n <= Len(l) /\ n <= Len(m)
    BY <1>1
  <2> HIDE DEF n
  <2> QED BY <1>1, <2>1, SamePrefixSums
<1>3. n + 1 \in 1..Len(m) /\ (n + 1) - 1 = n
  BY <1>1
<1>4. \A k \in 1..Len(m) : PrefixSum(m, k) = PrefixSum(m, k - 1) + m[k]
  BY <1>1, PrefixSums
<1>5. PrefixSum(m, n + 1) = PrefixSum(m, n) + m[n + 1]
  BY <1>3, <1>4
<1> QED BY <1>1, <1>2, <1>5 DEF Total, m

\* Amounts that are no greater, one by one, are not worth more.
LEMMA SmallerTotals ==
    ASSUME NEW l \in Seq(Nat), NEW m \in Seq(Nat), Len(l) = Len(m),
           \A i \in 1..Len(m) : l[i] <= m[i]
    PROVE  Total(l) <= Total(m)
<1> DEFINE n == Len(m)
           S == {k \in Nat : k <= n => PrefixSum(l, k) <= PrefixSum(m, k)}
<1>1. n \in Nat /\ \A k \in 1..n : l[k] \in Nat /\ m[k] \in Nat /\ l[k] <= m[k]
  OBVIOUS
<1>2. /\ PrefixSum(l, 0) = 0
      /\ \A k \in 0..n : PrefixSum(l, k) \in Nat
      /\ \A k \in 1..n : PrefixSum(l, k) = PrefixSum(l, k - 1) + l[k]
  BY PrefixSums
<1>3. /\ PrefixSum(m, 0) = 0
      /\ \A k \in 0..n : PrefixSum(m, k) \in Nat
      /\ \A k \in 1..n : PrefixSum(m, k) = PrefixSum(m, k - 1) + m[k]
  BY PrefixSums
<1> HIDE DEF n
<1>4. 0 \in S
  BY <1>2, <1>3
<1>5. \A k \in Nat : k \in S => k + 1 \in S
  <2> SUFFICES ASSUME NEW k \in Nat, PrefixSum(l, k) <= PrefixSum(m, k), k + 1 <= n
               PROVE  PrefixSum(l, k + 1) <= PrefixSum(m, k + 1)
    BY <1>1
  <2>1. k + 1 \in 1..n /\ (k + 1) - 1 = k /\ k \in 0..n
    BY <1>1
  <2>2. /\ PrefixSum(l, k + 1) = PrefixSum(l, k) + l[k + 1]
        /\ PrefixSum(m, k + 1) = PrefixSum(m, k) + m[k + 1]
    BY <1>2, <1>3, <2>1
  <2>3. /\ l[k + 1] \in Nat /\ m[k + 1] \in Nat /\ l[k + 1] <= m[k + 1]
        /\ PrefixSum(l, k) \in Nat /\ PrefixSum(m, k) \in Nat
    BY <1>1, <1>2, <1>3, <2>1
  <2> QED BY <2>2, <2>3
<1>6. n \in S
  BY <1>1, <1>4, <1>5, NumbersInduction
<1> QED BY <1>1, <1>6 DEF Total, n

\* The first amount, and the others.
LEMMA TotalOfTail ==
    ASSUME NEW l \in Seq(Nat), l # <<>>
    PROVE  Total(l) = l[1] + Total(Tail(l))
<1> DEFINE t == Tail(l)
           n == Len(t)
<1>1. /\ t \in Seq(Nat) /\ n \in Nat /\ Len(l) = n + 1 /\ l[1] \in Nat
      /\ \A i \in 1..n : t[i] = l[i + 1]
  OBVIOUS
<1> HIDE DEF t
<1>2. /\ PrefixSum(t, 0) = 0 /\ PrefixSum(l, 0) = 0
      /\ \A k \in 0..n : PrefixSum(t, k) \in Nat
      /\ \A k \in 1..n : PrefixSum(t, k) = PrefixSum(t, k - 1) + t[k]
      /\ \A k \in 1..(n + 1) : PrefixSum(l, k) = PrefixSum(l, k - 1) + l[k]
  BY <1>1, PrefixSums
<1> DEFINE S == {k \in Nat : k <= n => PrefixSum(l, k + 1) = l[1] + PrefixSum(t, k)}
<1> HIDE DEF n
<1>3. 0 \in S
  <2>1. 1 \in 1..(n + 1) /\ 1 - 1 = 0
    BY <1>1
  <2>2. PrefixSum(l, 1) = PrefixSum(l, 0) + l[1]
    BY <1>2, <2>1
  <2> QED BY <1>1, <1>2, <2>2
<1>4. \A k \in Nat : k \in S => k + 1 \in S
  <2> SUFFICES ASSUME NEW k \in Nat, PrefixSum(l, k + 1) = l[1] + PrefixSum(t, k), k + 1 <= n
               PROVE  PrefixSum(l, k + 2) = l[1] + PrefixSum(t, k + 1)
    BY <1>1
  <2>1. /\ k + 1 \in 1..n /\ (k + 1) - 1 = k /\ k \in 0..n
        /\ k + 2 \in 1..(n + 1) /\ (k + 2) - 1 = k + 1 /\ (k + 1) + 1 = k + 2
    BY <1>1
  <2>2. PrefixSum(t, k + 1) = PrefixSum(t, k) + t[k + 1] /\ PrefixSum(t, k) \in Nat
    BY <1>2, <2>1
  <2>3. PrefixSum(l, k + 2) = PrefixSum(l, k + 1) + l[k + 2] /\ t[k + 1] = l[k + 2]
    BY <1>1, <1>2, <2>1
  <2>4. t[k + 1] \in Nat
    BY <1>1, <2>1, SMTT(20) DEF n
  <2> QED BY <1>1, <2>2, <2>3, <2>4
<1> HIDE DEF S
<1>5. n \in S
  BY <1>1, <1>3, <1>4, NumbersInduction
<1> QED BY <1>1, <1>5 DEF S, Total, t, n

\* The other order.
LEMMA TotalReversed ==
    ASSUME NEW l \in Seq(Nat), NEW r \in Seq(Nat), Len(r) = Len(l),
           \A i \in 1..Len(l) : r[i] = l[(Len(l) - i) + 1]
    PROVE  Total(r) = Total(l)
<1> DEFINE n == Len(l)
           S == {k \in Nat : k <= n => PrefixSum(r, k) + PrefixSum(l, n - k) = Total(l)}
<1>1. /\ PrefixSum(r, 0) = 0 /\ PrefixSum(l, 0) = 0 /\ n \in Nat
      /\ \A k \in 0..n : PrefixSum(r, k) \in Nat /\ PrefixSum(l, k) \in Nat
      /\ \A k \in 1..n : PrefixSum(r, k) = PrefixSum(r, k - 1) + r[k]
      /\ \A k \in 1..n : PrefixSum(l, k) = PrefixSum(l, k - 1) + l[k]
      /\ \A i \in 1..n : r[i] = l[(n - i) + 1] /\ r[i] \in Nat
  <2>1. n \in Nat /\ \A i \in 1..n : r[i] = l[(n - i) + 1] /\ r[i] \in Nat
    OBVIOUS
  <2>2. /\ PrefixSum(l, 0) = 0
        /\ \A k \in 0..n : PrefixSum(l, k) \in Nat
        /\ \A k \in 1..n : PrefixSum(l, k) = PrefixSum(l, k - 1) + l[k]
    BY PrefixSums
  <2>3. /\ PrefixSum(r, 0) = 0
        /\ \A k \in 0..n : PrefixSum(r, k) \in Nat
        /\ \A k \in 1..n : PrefixSum(r, k) = PrefixSum(r, k - 1) + r[k]
    BY PrefixSums
  <2> QED BY <2>1, <2>2, <2>3
<1>2. Total(l) = PrefixSum(l, n) /\ Total(r) = PrefixSum(r, n)
  BY DEF Total
<1> HIDE DEF n
<1>3. 0 \in S
  <2>1. n - 0 = n /\ n \in 0..n
    BY <1>1
  <2> QED BY <1>1, <1>2, <2>1
<1>4. \A k \in Nat : k \in S => k + 1 \in S
  <2> SUFFICES ASSUME NEW k \in Nat, k \in S, k + 1 <= n
               PROVE  PrefixSum(r, k + 1) + PrefixSum(l, n - (k + 1)) = Total(l)
    BY <1>1
  <2>1. /\ k + 1 \in 1..n /\ (k + 1) - 1 = k /\ k \in 0..n
        /\ n - k \in 1..n /\ (n - k) - 1 = n - (k + 1) /\ n - (k + 1) \in 0..n
        /\ (n - (k + 1)) + 1 = n - k
    BY <1>1
  <2>2. PrefixSum(r, k) + PrefixSum(l, n - k) = Total(l)
    BY <1>1, <2>1
  <2>3. /\ PrefixSum(r, k + 1) = PrefixSum(r, k) + r[k + 1]
        /\ PrefixSum(l, n - k) = PrefixSum(l, n - (k + 1)) + l[n - k]
        /\ r[k + 1] = l[n - k] /\ r[k + 1] \in Nat
        /\ PrefixSum(r, k) \in Nat /\ PrefixSum(l, n - (k + 1)) \in Nat
    BY <1>1, <2>1
  <2> QED BY <2>2, <2>3
<1> HIDE DEF S
<1>5. n \in S
  BY <1>1, <1>3, <1>4, NumbersInduction
<1>6. PrefixSum(r, n) + PrefixSum(l, n - n) = Total(l)
  BY <1>1, <1>5 DEF S
<1>7. n - n = 0 /\ n \in 0..n
  BY <1>1
<1> QED BY <1>1, <1>2, <1>6, <1>7

(* ------------------------------ the selection ---------------------------- *)

\* Selected is the shortest sufficient prefix, 0 when there is none.
LEMMA SelectedIsShortest ==
    ASSUME NEW amounts \in Seq(Nat), NEW bd
    PROVE  LET n == Selected(amounts, bd)
           IN  /\ n \in 0..Len(amounts)
               /\ n # 0 => Meets(PrefixSum(amounts, n), bd)
               /\ \A m \in 1..Len(amounts) :
                    Meets(PrefixSum(amounts, m), bd) => n # 0 /\ n <= m
<1> DEFINE ns == Sufficient(amounts, bd)
<1>1. \A m : m \in ns <=> m \in 1..Len(amounts) /\ Meets(PrefixSum(amounts, m), bd)
  BY DEF Sufficient
<1>2. ns \subseteq Nat /\ Len(amounts) \in Nat
  BY DEF Sufficient
<1>3. Selected(amounts, bd)
        = IF ns = {} THEN 0 ELSE CHOOSE n \in ns : \A m \in ns : n <= m
  BY DEF Selected
<1> HIDE DEF ns
<1>4. CASE ns = {}
  BY <1>1, <1>2, <1>3, <1>4
<1>5. CASE ns # {}
  <2>1. \E n \in ns : \A m \in ns : n <= m
    BY <1>2, <1>5, SmallestNumber
  <2>2. Selected(amounts, bd) \in ns /\ \A m \in ns : Selected(amounts, bd) <= m
    BY <1>3, <1>5, <2>1
  <2> QED BY <1>1, <1>2, <2>2
<1> QED BY <1>4, <1>5

\* A sequence is its own longest prefix: a fold over all of it is its total.
LEMMA TotalIsFold ==
    ASSUME NEW l \in Seq(Nat)
    PROVE  Total(l) = FoldLeft(+, 0, l)
<1> DEFINE n == Len(l)
<1>1. n \in Nat /\ \A i \in 1..n : l[i] \in Nat
  OBVIOUS
<1>2. /\ SubSeq(l, 1, n) \in Seq(Nat) /\ Len(SubSeq(l, 1, n)) = n
      /\ \A i \in 1..n : SubSeq(l, 1, n)[i] = l[i]
  BY <1>1, SubSeqProperties
<1>3. SubSeq(l, 1, n) = l
  <2> DEFINE m == SubSeq(l, 1, n)
  <2>1. m \in Seq(Nat) /\ Len(m) = Len(l) /\ \A i \in 1..Len(l) : m[i] = l[i]
    BY <1>2
  <2> HIDE DEF m, n
  <2>2. m = l
    BY <2>1, SeqEqual
  <2> QED BY <2>2 DEF m
<1> HIDE DEF n
<1>4. Total(l) = FoldLeft(+, 0, SubSeq(l, 1, n))
  BY DEF Total, PrefixSum, n
<1> QED BY <1>3, <1>4

\* A total is at least any two of its terms.
LEMMA TotalOfTwo ==
    ASSUME NEW l \in Seq(Nat), NEW i \in 1..Len(l), NEW j \in (i + 1)..Len(l)
    PROVE  Total(l) \in Nat /\ Total(l) >= l[i] + l[j]
<1> DEFINE n == Len(l)
<1>1. n \in Nat /\ i \in 1..n /\ j \in 1..n /\ i \in Nat /\ j \in Nat /\ i + 1 <= j
      /\ l[i] \in Nat /\ l[j] \in Nat
  OBVIOUS
<1>2. /\ \A k \in 0..n : PrefixSum(l, k) \in Nat
      /\ \A k \in 1..n : PrefixSum(l, k) = PrefixSum(l, k - 1) + l[k]
  BY PrefixSums
<1>3. \A x \in 0..n : \A y \in x..n : PrefixSum(l, x) <= PrefixSum(l, y)
  BY PrefixSumsGrow
<1> HIDE DEF n
<1>4. /\ i - 1 \in 0..n /\ i \in 0..n /\ j - 1 \in i..n /\ j - 1 \in 0..n
      /\ j \in 0..n /\ n \in j..n /\ n \in 0..n
  BY <1>1
<1>5. /\ PrefixSum(l, i - 1) \in Nat /\ PrefixSum(l, i) \in Nat
      /\ PrefixSum(l, j - 1) \in Nat /\ PrefixSum(l, j) \in Nat /\ PrefixSum(l, n) \in Nat
  BY <1>2, <1>4
<1>6. /\ PrefixSum(l, i) = PrefixSum(l, i - 1) + l[i]
      /\ PrefixSum(l, j) = PrefixSum(l, j - 1) + l[j]
  BY <1>1, <1>2
<1>7. PrefixSum(l, i) <= PrefixSum(l, j - 1) /\ PrefixSum(l, j) <= PrefixSum(l, n)
  BY <1>3, <1>4
<1>8. Total(l) = PrefixSum(l, n)
  BY DEF Total, n
<1> DEFINE p == PrefixSum(l, i - 1)
           q == PrefixSum(l, i)
           r == PrefixSum(l, j - 1)
           s == PrefixSum(l, j)
           t == PrefixSum(l, n)
           u == l[i]
           v == l[j]
<1>9. /\ p \in Nat /\ q \in Nat /\ r \in Nat /\ s \in Nat /\ t \in Nat /\ u \in Nat /\ v \in Nat
      /\ q = p + u /\ s = r + v /\ q <= r /\ s <= t
  BY <1>1, <1>5, <1>6, <1>7
<1> HIDE DEF p, q, r, s, t, u, v
<1>10. t >= u + v
  BY <1>9
<1> QED BY <1>8, <1>9, <1>10 DEF t, u, v

=============================================================================
