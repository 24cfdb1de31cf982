---------------------------- MODULE Samplers_proofs ----------------------------
(***************************************************************************)
(* What the sums of Sums are, for every sequence, and that the draw of a    *)
(* ChoiceSampler or an EmpiricalSampler gives each value what its weight    *)
(* says.                                                                   *)
(*                                                                         *)
(* `Total` is a function that recurs on how many numbers it has added up.   *)
(* What holds of it is proved by induction, from the least element of a set *)
(* of naturals.                                                            *)
(***************************************************************************)
EXTENDS Samplers, WellFoundedInduction, FiniteSetTheorems, TLAPS

(***************************************************************************)
(* Induction.                                                              *)
(***************************************************************************)

(* A set of naturals that is not empty has a least element. *)
LEMMA LeastNat ==
    ASSUME NEW T \in SUBSET Nat, T # {}
    PROVE  \E x \in T : \A y \in T : x <= y
<1> DEFINE R == OpToRel(<, Nat)
<1>1. IsWellFoundedOn(R, Nat)
    BY NatLessThanWellFounded, PTL
<1>2. \A x, y \in Nat : x < y => <<x, y>> \in R
    BY DEF OpToRel
<1> HIDE DEF R
<1>3. \E x \in T : \A y \in T : ~(<<y, x>> \in R)
    BY <1>1, WFMin
<1>4. PICK x \in T : \A y \in T : ~(<<y, x>> \in R)
    BY <1>3
<1>5. \A y \in T : ~(y < x)
    BY <1>2, <1>4
<1>6. \A y \in T : y \in Nat /\ x \in Nat
    OBVIOUS
<1>7. \A y \in T : x <= y
    BY <1>5, <1>6
<1>8. QED
    BY <1>7

(* What is so of zero and passed on by every step is so of every natural number. *)
LEMMA Induction ==
    ASSUME NEW S \in SUBSET Nat, 0 \in S, \A n \in Nat : n \in S => n + 1 \in S
    PROVE  S = Nat
<1>1. SUFFICES ASSUME Nat \ S # {} PROVE FALSE
    OBVIOUS
<1>2. PICK x \in Nat \ S : \A y \in Nat \ S : x <= y
    BY <1>1, LeastNat
<1>3. x # 0 /\ x - 1 \in Nat /\ x - 1 \notin Nat \ S
    BY <1>2
<1>4. (x - 1) + 1 \in S
    BY <1>3
<1>5. QED
    BY <1>2, <1>4

(* f counts up s. *)
PartialSums(s, f) ==
    \A n \in 0 .. Len(s) : f[n] = IF n = 0 THEN 0 ELSE f[n - 1] + s[n]

LEMMA SumsExist ==
    ASSUME NEW s \in Seq(Int)
    PROVE  \E f \in [0 .. Len(s) -> Int] : PartialSums(s, f)
<1> DEFINE Upto(k) == \E f \in [0 .. k -> Int] :
                         \A n \in 0 .. k : f[n] = IF n = 0 THEN 0 ELSE f[n - 1] + s[n]
           S == {k \in Nat : k <= Len(s) => Upto(k)}
<1>1. 0 \in S
    <2> DEFINE f == [n \in 0 .. 0 |-> 0]
    <2>1. f \in [0 .. 0 -> Int]
        OBVIOUS
    <2>2. \A n \in 0 .. 0 : f[n] = IF n = 0 THEN 0 ELSE f[n - 1] + s[n]
        OBVIOUS
    <2>3. Upto(0)
        BY <2>1, <2>2
    <2> HIDE DEF Upto
    <2>4. QED
        BY <2>3
<1>2. ASSUME NEW k \in Nat, k \in S, k + 1 <= Len(s) PROVE Upto(k + 1)
    <2>1. k <= Len(s)
        BY <1>2
    <2>2. Upto(k)
        <3> HIDE DEF Upto
        <3>1. QED
            BY <1>2, <2>1
    <2>3. PICK f \in [0 .. k -> Int] :
              \A n \in 0 .. k : f[n] = IF n = 0 THEN 0 ELSE f[n - 1] + s[n]
        BY <2>2
    <2> DEFINE g == [n \in 0 .. k + 1 |-> IF n = k + 1 THEN f[k] + s[k + 1] ELSE f[n]]
    <2>4. s[k + 1] \in Int /\ f[k] \in Int
        BY <1>2
    <2>5. g \in [0 .. k + 1 -> Int]
        BY <2>4
    <2>6. ASSUME NEW n \in 0 .. k + 1
          PROVE  g[n] = IF n = 0 THEN 0 ELSE g[n - 1] + s[n]
        <3>1. CASE n = k + 1
            BY <3>1
        <3>2. CASE n # k + 1
            <4>1. n \in 0 .. k /\ (n # 0 => n - 1 \in 0 .. k)
                BY <3>2
            <4>2. QED
                BY <2>3, <3>2, <4>1
        <3>3. QED
            BY <3>1, <3>2
    <2>7. QED
        BY <2>5, <2>6
<1> HIDE DEF Upto
<1>3. \A k \in Nat : k \in S => k + 1 \in S
    BY <1>2
<1>4. S \in SUBSET Nat
    OBVIOUS
<1> HIDE DEF S
<1>5. S = Nat
    BY <1>1, <1>3, <1>4, Induction
<1>6. Len(s) \in S
    BY <1>5
<1>7. QED
    BY <1>6 DEF S, Upto, PartialSums

(* What `Total` sums up, step by step. *)
LEMMA TotalCountsUp ==
    ASSUME NEW s \in Seq(Int), NEW f \in [0 .. Len(s) -> Int], PartialSums(s, f)
    PROVE  Total(s) = f[Len(s)]
<1> DEFINE g == CHOOSE f1 : f1 = [n \in 0 .. Len(s) |-> IF n = 0 THEN 0 ELSE f1[n - 1] + s[n]]
<1>1. f = [n \in 0 .. Len(s) |-> IF n = 0 THEN 0 ELSE f[n - 1] + s[n]]
    BY DEF PartialSums
<1>2. g = [n \in 0 .. Len(s) |-> IF n = 0 THEN 0 ELSE g[n - 1] + s[n]]
    BY <1>1
<1>3. Total(s) = g[Len(s)]
    BY DEF Total
<1> HIDE DEF g
<1>4. \A n \in 0 .. Len(s) : g[n] = IF n = 0 THEN 0 ELSE g[n - 1] + s[n]
    BY <1>2
<1> DEFINE S == {k \in Nat : k <= Len(s) => g[k] = f[k]}
<1>5. 0 \in S
    BY <1>4 DEF PartialSums
<1>6. ASSUME NEW k \in Nat, k \in S, k + 1 <= Len(s) PROVE g[k + 1] = f[k + 1]
    <2>1. g[k] = f[k] /\ k + 1 \in 0 .. Len(s) /\ k + 1 # 0 /\ (k + 1) - 1 = k
        BY <1>6
    <2>2. g[k + 1] = g[k] + s[k + 1]
        BY <1>4, <2>1
    <2>3. f[k + 1] = f[k] + s[k + 1]
        BY <2>1 DEF PartialSums
    <2>4. QED
        BY <2>1, <2>2, <2>3
<1>7. \A k \in Nat : k \in S => k + 1 \in S
    BY <1>6
<1>8. S \in SUBSET Nat
    OBVIOUS
<1> HIDE DEF S
<1>9. S = Nat
    BY <1>5, <1>7, <1>8, Induction
<1>10. Len(s) \in S
    BY <1>9
<1>11. QED
    BY <1>3, <1>10 DEF S

LEMMA TotalEmpty == Total(<<>>) = 0
<1>1. <<>> \in Seq(Int) /\ Len(<<>>) = 0
    OBVIOUS
<1>2. PICK f \in [0 .. 0 -> Int] : PartialSums(<<>>, f)
    BY <1>1, SumsExist
<1>3. f[0] = 0
    BY <1>2 DEF PartialSums
<1>4. QED
    BY <1>1, <1>2, <1>3, TotalCountsUp

LEMMA TotalType ==
    ASSUME NEW s \in Seq(Int)
    PROVE  Total(s) \in Int
BY SumsExist, TotalCountsUp

(* One number more, or one number less at the front. *)
LEMMA TotalAppend ==
    ASSUME NEW s \in Seq(Int), NEW x \in Int
    PROVE  Total(Append(s, x)) = Total(s) + x
<1> DEFINE t == Append(s, x)
<1>1. t \in Seq(Int) /\ Len(t) = Len(s) + 1 /\ t[Len(s) + 1] = x
      /\ \A n \in 1 .. Len(s) : t[n] = s[n]
    OBVIOUS
<1> HIDE DEF t
<1>2. PICK f \in [0 .. Len(t) -> Int] : PartialSums(t, f)
    BY <1>1, SumsExist
<1> DEFINE g == [n \in 0 .. Len(s) |-> f[n]]
<1>3. g \in [0 .. Len(s) -> Int]
    BY <1>1
<1>4. PartialSums(s, g)
    <2>1. SUFFICES ASSUME NEW n \in 0 .. Len(s)
                   PROVE  g[n] = IF n = 0 THEN 0 ELSE g[n - 1] + s[n]
        BY DEF PartialSums
    <2>2. n \in 0 .. Len(t) /\ (n # 0 => n - 1 \in 0 .. Len(s) /\ t[n] = s[n])
        BY <1>1
    <2>3. f[n] = IF n = 0 THEN 0 ELSE f[n - 1] + t[n]
        BY <1>2, <2>2 DEF PartialSums
    <2>4. QED
        BY <2>2, <2>3
<1>5. f[Len(s) + 1] = f[Len(s)] + x
    <2>1. Len(s) + 1 \in 0 .. Len(t) /\ Len(s) + 1 # 0 /\ (Len(s) + 1) - 1 = Len(s)
        BY <1>1
    <2>2. QED
        BY <1>1, <1>2, <2>1 DEF PartialSums
<1>6. Total(t) = f[Len(s) + 1] /\ Total(s) = g[Len(s)]
    BY <1>1, <1>2, <1>3, <1>4, TotalCountsUp
<1>7. QED
    BY <1>5, <1>6 DEF t

LEMMA TotalTail ==
    ASSUME NEW s \in Seq(Int), s # <<>>
    PROVE  Total(s) = Head(s) + Total(Tail(s))
<1> DEFINE t == Tail(s)
<1>1. t \in Seq(Int) /\ Len(t) = Len(s) - 1 /\ Len(s) \in Nat \ {0} /\ Head(s) = s[1]
      /\ Head(s) \in Int /\ \A n \in 1 .. Len(t) : t[n] = s[n + 1]
    OBVIOUS
<1> HIDE DEF t
<1>2. PICK f \in [0 .. Len(t) -> Int] : PartialSums(t, f)
    BY <1>1, SumsExist
<1> DEFINE g == [n \in 0 .. Len(s) |-> IF n = 0 THEN 0 ELSE f[n - 1] + Head(s)]
<1>3. g \in [0 .. Len(s) -> Int]
    BY <1>1
<1>4. PartialSums(s, g)
    <2>1. SUFFICES ASSUME NEW n \in 0 .. Len(s)
                   PROVE  g[n] = IF n = 0 THEN 0 ELSE g[n - 1] + s[n]
        BY DEF PartialSums
    <2>2. CASE n = 0
        BY <2>2
    <2>3. CASE n = 1
        <3>1. f[0] = 0 /\ g[0] = 0 /\ g[1] = f[0] + Head(s)
            BY <1>1, <1>2 DEF PartialSums
        <3>2. QED
            BY <1>1, <2>3, <3>1
    <2>4. CASE n > 1
        <3>1. n - 1 \in 1 .. Len(t) /\ n - 1 \in 0 .. Len(t) /\ n - 1 \in 0 .. Len(s)
              /\ n - 1 # 0 /\ (n - 1) - 1 \in 0 .. Len(t) /\ n # 0 /\ (n - 1) + 1 = n
            BY <1>1, <2>4
        <3>2. f[n - 1] = f[(n - 1) - 1] + t[n - 1]
            BY <1>2, <3>1 DEF PartialSums
        <3>3. t[n - 1] = s[n] /\ s[n] \in Int
            BY <1>1, <3>1
        <3>4. g[n] = f[n - 1] + Head(s) /\ g[n - 1] = f[(n - 1) - 1] + Head(s)
            BY <3>1
        <3>5. f[n - 1] \in Int /\ f[(n - 1) - 1] \in Int
            BY <3>1
        <3> DEFINE now == f[n - 1]
                   before == f[(n - 1) - 1]
                   next == s[n]
                   first == Head(s)
        <3>6. /\ now = before + next /\ g[n] = now + first /\ g[n - 1] = before + first
              /\ before \in Int /\ next \in Int /\ first \in Int
            BY <1>1, <3>2, <3>3, <3>4, <3>5
        <3> HIDE DEF g, now, before, next, first
        <3>7. g[n] = g[n - 1] + next
            BY <3>6
        <3>8. g[n] = g[n - 1] + s[n]
            BY <3>7 DEF next
        <3> HIDE DEF next
        <3>9. QED
            BY <3>1, <3>8
    <2>5. QED
        BY <2>2, <2>3, <2>4
<1>5. Total(t) = f[Len(t)] /\ Total(s) = g[Len(s)]
    BY <1>1, <1>2, <1>3, <1>4, TotalCountsUp
<1>6. g[Len(s)] = f[Len(t)] + Head(s) /\ f[Len(t)] \in Int
    <2>1. Len(s) \in 0 .. Len(s) /\ Len(s) # 0 /\ Len(s) - 1 = Len(t) /\ Len(t) \in 0 .. Len(t)
        BY <1>1
    <2>2. QED
        BY <2>1
<1>7. QED
    BY <1>1, <1>5, <1>6 DEF t

(* All numbers grow by the same amount. *)
LEMMA TotalShift ==
    ASSUME NEW s \in Seq(Int), NEW t \in Seq(Int), NEW d \in Int, Len(t) = Len(s),
           \A n \in 1 .. Len(s) : t[n] = s[n] + d
    PROVE  Total(t) = Total(s) + Len(s) * d
<1>1. PICK f \in [0 .. Len(s) -> Int] : PartialSums(s, f)
    BY SumsExist
<1> DEFINE g == [n \in 0 .. Len(s) |-> f[n] + n * d]
<1>2. g \in [0 .. Len(s) -> Int]
    OBVIOUS
<1>3. PartialSums(t, g)
    <2>1. SUFFICES ASSUME NEW n \in 0 .. Len(s)
                   PROVE  g[n] = IF n = 0 THEN 0 ELSE g[n - 1] + t[n]
        BY DEF PartialSums
    <2>2. CASE n = 0
        BY <1>1, <2>2 DEF PartialSums
    <2>3. CASE n # 0
        <3>1. n \in 1 .. Len(s) /\ n - 1 \in 0 .. Len(s) /\ s[n] \in Int /\ t[n] = s[n] + d
            BY <2>3
        <3>2. f[n] = f[n - 1] + s[n]
            BY <1>1, <2>3 DEF PartialSums
        <3>3. g[n] = f[n] + n * d /\ g[n - 1] = f[n - 1] + (n - 1) * d
            BY <3>1
        <3>4. (n - 1) * d = n * d - d /\ n * d \in Int
            OBVIOUS
        <3>5. f[n - 1] \in Int
            BY <3>1
        <3>6. QED
            BY <2>3, <3>1, <3>2, <3>3, <3>4, <3>5
    <2>4. QED
        BY <2>2, <2>3
<1>4. Total(s) = f[Len(s)] /\ Total(t) = g[Len(s)]
    BY <1>1, <1>2, <1>3, TotalCountsUp
<1>5. g[Len(s)] = f[Len(s)] + Len(s) * d
    OBVIOUS
<1>6. QED
    BY <1>4, <1>5

(***************************************************************************)
(* The weighted choice.                                                    *)
(***************************************************************************)

(* The first n numbers, and the next one. *)
LEMMA FirstOnes ==
    ASSUME NEW s \in Seq(Nat)
    PROVE  /\ \A n \in 0 .. Len(s) : SubSeq(s, 1, n) \in Seq(Int)
           /\ SubSeq(s, 1, 0) = <<>>
           /\ SubSeq(s, 1, Len(s)) = s
           /\ \A n \in 0 .. Len(s) - 1 :
                 SubSeq(s, 1, n + 1) = Append(SubSeq(s, 1, n), s[n + 1])
<1>1. SubSeq(s, 1, 0) = <<>> /\ SubSeq(s, 1, Len(s)) = s
    OBVIOUS
<1>2. ASSUME NEW n \in 0 .. Len(s) PROVE SubSeq(s, 1, n) \in Seq(Int)
    <2>1. \A i \in 1 .. n : s[i] \in Int
        OBVIOUS
    <2>2. QED
        BY <2>1
<1>3. ASSUME NEW n \in 0 .. Len(s) - 1
      PROVE  SubSeq(s, 1, n + 1) = Append(SubSeq(s, 1, n), s[n + 1])
    OBVIOUS
<1>4. QED
    BY <1>1, <1>2, <1>3

(* The boundaries go up by one weight each, from zero to the total. *)
LEMMA Boundaries ==
    ASSUME NEW weights \in Seq(Nat)
    PROVE  LET cdf == Cdf(weights)
           IN  /\ DOMAIN cdf = 1 .. Len(weights) + 1
               /\ \A n \in 1 .. Len(weights) + 1 : cdf[n] \in Int
               /\ cdf[1] = 0 /\ cdf[Len(weights) + 1] = Total(weights)
               /\ \A n \in 1 .. Len(weights) : cdf[n + 1] = cdf[n] + weights[n]
<1> DEFINE cdf == Cdf(weights)
           L == Len(weights)
<1>1. cdf = [n \in 1 .. L + 1 |-> Total(SubSeq(weights, 1, n - 1))]
    BY DEF Cdf
<1> HIDE DEF cdf
<1>2. ASSUME NEW n \in 1 .. L + 1 PROVE cdf[n] \in Int
    <2>1. n - 1 \in 0 .. L
        OBVIOUS
    <2>2. QED
        BY <1>1, <2>1, FirstOnes, TotalType
<1>3. cdf[1] = 0 /\ cdf[L + 1] = Total(weights)
    <2>1. 1 \in 1 .. L + 1 /\ L + 1 \in 1 .. L + 1 /\ 1 - 1 = 0 /\ (L + 1) - 1 = L
        OBVIOUS
    <2>2. QED
        BY <1>1, <2>1, FirstOnes, TotalEmpty
<1>4. ASSUME NEW n \in 1 .. L PROVE cdf[n + 1] = cdf[n] + weights[n]
    <2>1. n \in 1 .. L + 1 /\ n + 1 \in 1 .. L + 1 /\ n - 1 \in 0 .. L - 1
          /\ n - 1 \in 0 .. L /\ (n + 1) - 1 = n /\ (n - 1) + 1 = n /\ weights[n] \in Int
        OBVIOUS
    <2>2. SubSeq(weights, 1, n) = Append(SubSeq(weights, 1, n - 1), weights[n])
        BY <2>1, FirstOnes
    <2>3. Total(SubSeq(weights, 1, n)) = Total(SubSeq(weights, 1, n - 1)) + weights[n]
        BY <2>1, <2>2, FirstOnes, TotalAppend
    <2>4. QED
        BY <1>1, <2>1, <2>3
<1>5. QED
    BY <1>1, <1>2, <1>3, <1>4 DEF cdf

(* They never go down. *)
LEMMA BoundariesGoUp ==
    ASSUME NEW weights \in Seq(Nat), NEW m \in 1 .. Len(weights) + 1,
           NEW n \in 1 .. Len(weights) + 1, m <= n
    PROVE  Cdf(weights)[m] <= Cdf(weights)[n]
<1> DEFINE cdf == Cdf(weights)
           S == {k \in Nat : m + k <= Len(weights) + 1 => cdf[m] <= cdf[m + k]}
<1> HIDE DEF cdf
<1>1. /\ Len(weights) \in Nat /\ \A k \in 1 .. Len(weights) : weights[k] \in Nat
      /\ DOMAIN cdf = 1 .. Len(weights) + 1
      /\ \A k \in 1 .. Len(weights) + 1 : cdf[k] \in Int
      /\ \A k \in 1 .. Len(weights) : cdf[k + 1] = cdf[k] + weights[k]
    BY Boundaries DEF cdf
<1>2. 0 \in S
    BY <1>1
<1>3. ASSUME NEW k \in Nat, k \in S, m + (k + 1) <= Len(weights) + 1
      PROVE  cdf[m] <= cdf[m + (k + 1)]
    <2>1. m + k \in 1 .. Len(weights) /\ m + (k + 1) = (m + k) + 1
          /\ m + k <= Len(weights) + 1
        BY <1>3
    <2>2. cdf[m] <= cdf[m + k]
        BY <1>3, <2>1
    <2>3. cdf[(m + k) + 1] = cdf[m + k] + weights[m + k] /\ weights[m + k] \in Nat
        BY <1>1, <2>1
    <2>4. cdf[m] \in Int /\ cdf[m + k] \in Int
        BY <1>1, <2>1
    <2>5. cdf[m] <= cdf[(m + k) + 1]
        BY <2>2, <2>3, <2>4
    <2>6. QED
        BY <2>1, <2>5
<1>4. \A k \in Nat : k \in S => k + 1 \in S
    BY <1>3
<1>5. S \in SUBSET Nat
    OBVIOUS
<1> HIDE DEF S
<1>6. S = Nat
    BY <1>2, <1>4, <1>5, Induction
<1>7. n - m \in Nat /\ m + (n - m) = n /\ n <= Len(weights) + 1
    OBVIOUS
<1>8. cdf[m] <= cdf[n]
    BY <1>6, <1>7 DEF S
<1>9. QED
    BY <1>8 DEF cdf

(* `partition_point` finds the boundary below the draw. *)
LEMMA BoundaryBelow ==
    ASSUME NEW weights \in Seq(Nat), NEW r \in 0 .. Total(weights) - 1
    PROVE  LET k == PartitionPoint(Cdf(weights), r)
           IN  /\ k \in 1 .. Len(weights)
               /\ Cdf(weights)[k] <= r
               /\ r < Cdf(weights)[k + 1]
<1> DEFINE cdf == Cdf(weights)
           L == Len(weights)
           Above == {n \in 1 .. L + 1 : r < cdf[n]}
<1> HIDE DEF cdf
<1>1. /\ L \in Nat /\ DOMAIN cdf = 1 .. L + 1 /\ \A n \in 1 .. L + 1 : cdf[n] \in Int
      /\ cdf[1] = 0 /\ cdf[L + 1] = Total(weights)
      /\ \A m, n \in 1 .. L + 1 : m <= n => cdf[m] <= cdf[n]
    BY Boundaries, BoundariesGoUp DEF cdf
<1>2. Total(weights) \in Int
    BY <1>1
<1>3. L + 1 \in Above
    BY <1>1, <1>2
<1>4. PICK m \in Above : \A n \in Above : m <= n
    <2>1. Above \in SUBSET Nat
        OBVIOUS
    <2> HIDE DEF Above
    <2>2. QED
        BY <1>3, <2>1, LeastNat
<1>5. m # 1 /\ m \in 1 .. L + 1
    BY <1>1, <1>2, <1>4
<1>6. m - 1 \in 1 .. L /\ m - 1 \in 1 .. L + 1 /\ (m - 1) + 1 = m
    BY <1>5
<1>7. {n \in DOMAIN cdf : cdf[n] <= r} = 1 .. m - 1
    <2>1. ASSUME NEW n \in 1 .. L + 1 PROVE cdf[n] <= r <=> n <= m - 1
        <3>1. cdf[n] \in Int /\ cdf[m] \in Int /\ r < cdf[m] /\ r \in Int
            BY <1>1, <1>2, <1>4
        <3>2. CASE n <= m - 1
            <4>1. n \notin Above
                BY <1>4, <1>5, <3>2
            <4>2. QED
                BY <3>1, <3>2, <4>1
        <3>3. CASE ~(n <= m - 1)
            <4>1. m <= n
                BY <1>5, <3>3
            <4>2. cdf[m] <= cdf[n]
                BY <1>1, <1>5, <4>1
            <4>3. QED
                BY <3>1, <3>3, <4>2
        <3>4. QED
            BY <3>2, <3>3
    <2>2. DOMAIN cdf = 1 .. L + 1 /\ 1 .. m - 1 \subseteq 1 .. L + 1
        BY <1>1, <1>6
    <2>3. QED
        BY <1>6, <2>1, <2>2
<1>8. PartitionPoint(cdf, r) = m - 1
    <2>1. Cardinality(1 .. m - 1) = m - 1
        BY <1>6, FS_Interval
    <2>2. QED
        BY <1>7, <2>1 DEF PartitionPoint
<1>9. cdf[m - 1] <= r /\ r < cdf[m]
    <2>1. m - 1 \in {n \in DOMAIN cdf : cdf[n] <= r}
        BY <1>6, <1>7
    <2>2. QED
        BY <1>4, <2>1
<1>10. QED
    BY <1>6, <1>8, <1>9 DEF cdf

(* A draw picks the value whose weight it falls into: there is one, and it is not *)
(* one of weight zero.  Neither `partition_point(..) - 1` of ChoiceSampler nor     *)
(* the index of EmpiricalSampler can underflow or be out of range.                *)
THEOREM ChoiceFallsInAWeight ==
    ASSUME NEW weights \in Seq(Nat), NEW r \in 0 .. Total(weights) - 1
    PROVE  LET k == PartitionPoint(Cdf(weights), r)
           IN  k \in 1 .. Len(weights) /\ weights[k] > 0
<1> DEFINE k == PartitionPoint(Cdf(weights), r)
<1>1. k \in 1 .. Len(weights) /\ Cdf(weights)[k] <= r /\ r < Cdf(weights)[k + 1]
    BY BoundaryBelow
<1> HIDE DEF k
<1>2. Cdf(weights)[k + 1] = Cdf(weights)[k] + weights[k]
      /\ Cdf(weights)[k] \in Int /\ weights[k] \in Nat
    BY <1>1, Boundaries
<1>3. r \in Int
    <2>1. Total(weights) \in Int
        BY Boundaries
    <2>2. QED
        BY <2>1
<1>4. weights[k] > 0
    BY <1>1, <1>2, <1>3
<1>5. QED
    BY <1>1, <1>4 DEF k

(* Of all draws, each value gets as many as its weight, which is what the two *)
(* samplers promise of a uniform draw.                                        *)
THEOREM ChoiceIsWeighted ==
    ASSUME NEW weights \in Seq(Nat), NEW k \in 1 .. Len(weights)
    PROVE  Cardinality({r \in 0 .. Total(weights) - 1 :
                           PartitionPoint(Cdf(weights), r) = k}) = weights[k]
<1> DEFINE cdf == Cdf(weights)
           Draws == {r \in 0 .. Total(weights) - 1 : PartitionPoint(Cdf(weights), r) = k}
<1>1. /\ Len(weights) \in Nat /\ \A n \in 1 .. Len(weights) : weights[n] \in Nat
      /\ DOMAIN cdf = 1 .. Len(weights) + 1
      /\ \A n \in 1 .. Len(weights) + 1 : cdf[n] \in Int
      /\ cdf[1] = 0 /\ cdf[Len(weights) + 1] = Total(weights)
      /\ \A n \in 1 .. Len(weights) : cdf[n + 1] = cdf[n] + weights[n]
      /\ \A m, n \in 1 .. Len(weights) + 1 : m <= n => cdf[m] <= cdf[n]
    BY Boundaries, BoundariesGoUp
<1>2. \A r \in 0 .. Total(weights) - 1 :
          LET j == PartitionPoint(cdf, r)
          IN  j \in 1 .. Len(weights) /\ cdf[j] <= r /\ r < cdf[j + 1]
    BY BoundaryBelow
<1> HIDE DEF cdf
<1>3. /\ k \in 1 .. Len(weights) + 1 /\ k + 1 \in 1 .. Len(weights) + 1
      /\ 1 \in 1 .. Len(weights) + 1 /\ Len(weights) + 1 \in 1 .. Len(weights) + 1
    OBVIOUS
<1>4. /\ cdf[k] \in Int /\ cdf[k + 1] \in Int /\ 0 <= cdf[k]
      /\ cdf[k + 1] <= Total(weights) /\ Total(weights) \in Int
    BY <1>1, <1>3
<1>5. ASSUME NEW r \in 0 .. Total(weights) - 1
      PROVE  PartitionPoint(cdf, r) = k <=> r \in cdf[k] .. cdf[k + 1] - 1
    <2> DEFINE j == PartitionPoint(cdf, r)
    <2>1. j \in 1 .. Len(weights) /\ cdf[j] <= r /\ r < cdf[j + 1]
        BY <1>2
    <2> HIDE DEF j
    <2>2. /\ j \in 1 .. Len(weights) + 1 /\ j + 1 \in 1 .. Len(weights) + 1
          /\ cdf[j] \in Int /\ cdf[j + 1] \in Int /\ r \in Int
        BY <1>1, <1>4, <2>1
    <2>3. j = k <=> r \in cdf[k] .. cdf[k + 1] - 1
        <3>1. CASE j = k
            BY <1>4, <2>1, <2>2, <3>1
        <3>2. CASE j < k
            <4>1. j + 1 <= k
                BY <2>1, <3>2
            <4>2. cdf[j + 1] <= cdf[k]
                BY <1>1, <1>3, <2>2, <4>1
            <4>3. r < cdf[k]
                BY <1>4, <2>1, <2>2, <4>2
            <4>4. QED
                BY <1>4, <2>2, <3>2, <4>3
        <3>3. CASE k < j
            <4>1. k + 1 <= j
                BY <2>1, <3>3
            <4>2. cdf[k + 1] <= cdf[j]
                BY <1>1, <1>3, <2>2, <4>1
            <4>3. cdf[k + 1] <= r
                BY <1>4, <2>1, <2>2, <4>2
            <4>4. QED
                BY <1>4, <2>2, <3>3, <4>3
        <3>4. QED
            BY <2>1, <3>1, <3>2, <3>3
    <2>4. QED
        BY <2>3 DEF j
<1>6. Draws = cdf[k] .. cdf[k + 1] - 1
    <2>1. cdf[k] .. cdf[k + 1] - 1 \subseteq 0 .. Total(weights) - 1
        BY <1>4
    <2>2. QED
        BY <1>5, <2>1 DEF cdf
<1>7. weights[k] \in Nat /\ cdf[k + 1] = cdf[k] + weights[k]
    BY <1>1
<1> HIDE DEF Draws
<1>8. Cardinality(cdf[k] .. cdf[k + 1] - 1) = weights[k]
    <2>1. \A a, b \in Int : Cardinality(a .. b) = IF a > b THEN 0 ELSE (b - a) + 1
        BY FS_Interval
    <2>2. cdf[k] \in Int /\ cdf[k + 1] - 1 \in Int
        BY <1>4
    <2>3. Cardinality(cdf[k] .. cdf[k + 1] - 1) =
              IF cdf[k] > cdf[k + 1] - 1 THEN 0 ELSE ((cdf[k + 1] - 1) - cdf[k]) + 1
        BY <2>1, <2>2
    <2>4. QED
        BY <1>4, <1>7, <2>3
<1>9. QED
    BY <1>6, <1>8 DEF Draws
==============================================================================
