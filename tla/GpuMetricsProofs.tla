------------------------- MODULE GpuMetricsProofs -------------------------
(***************************************************************************)
(* What GpuMetrics says about time, for every width of the counters, every *)
(* set of values and any number of samples and troubles.                   *)
(***************************************************************************)
EXTENDS GpuMetrics, SumTheorems, TLAPS

-----------------------------------------------------------------------------
(* Powers.                                                                 *)

LEMMA Products ==
  /\ \A a, b \in Nat : a * b \in Nat /\ a * b = b * a
  /\ \A a, b, c \in Nat : (a * b) * c = a * (b * c) /\ a * (b + c) = a * b + a * c
  /\ \A a, b, c \in Nat : a <= b => a * c <= b * c /\ c * a <= c * b
BY SMT

LEMMA PowRecursion ==
  ASSUME NEW x \in Nat
  PROVE  Pow(x, 0) = 1 /\ \A n \in Nat : Pow(x, n) \in Nat /\ Pow(x, n + 1) = x * Pow(x, n)
<1> DEFINE IsPow(p) == p = [k \in Nat |-> IF k = 0 THEN 1 ELSE x * p[k - 1]]
<1> DEFINE step == [q \in Nat \X Nat |-> x * q[1]]
<1>1. \E p : IsPow(p)
  <2>1. step \in [Nat \X Nat -> Nat] /\ \A a, n \in Nat : step[<<a, n>>] = x * a
    BY Products
  <2>2. PICK r : IsRecursion(r, Nat, 1, step)
    <3> HIDE DEF step
    <3>1. QED
      BY <2>1, NatRec
  <2> HIDE DEF step
  <2>3. r \in [Nat -> Nat] /\ r[0] = 1 /\ \A n \in Nat : r[n + 1] = x * r[n]
    <3>1. /\ r \in [Nat -> Nat] /\ r[0] = 1
          /\ \A n \in Nat : r[n + 1] = step[<<r[n], n + 1>>]
      BY <2>2, Zenon DEF IsRecursion
    <3>2. ASSUME NEW n \in Nat PROVE r[n + 1] = x * r[n]
      <4>1. r[n] \in Nat /\ n + 1 \in Nat
        BY <3>1
      <4>2. step[<<r[n], n + 1>>] = x * r[n]
        BY <2>1, <4>1, Zenon
      <4>3. QED
        BY <3>1, <4>2
    <3>3. QED
      BY <3>1, <3>2
  <2>4. ASSUME NEW k \in Nat, k # 0 PROVE r[k] = x * r[k - 1]
    <3>1. k - 1 \in Nat /\ (k - 1) + 1 = k
      BY <2>4
    <3>2. QED
      BY <2>3, <3>1
  <2>5. r = [k \in Nat |-> IF k = 0 THEN 1 ELSE x * r[k - 1]]
    BY <2>3, <2>4
  <2>6. QED
    BY <2>5
<1> DEFINE p == CHOOSE p : IsPow(p)
<1>2. IsPow(p)
  BY <1>1
<1>3. \A n : Pow(x, n) = p[n]
  BY DEF Pow
<1> HIDE DEF p
<1>4. p[0] = 1
  BY <1>2
<1>5. \A n \in Nat : p[n + 1] = x * p[n]
  <2> SUFFICES ASSUME NEW n \in Nat PROVE p[n + 1] = x * p[n]
    OBVIOUS
  <2>1. n + 1 \in Nat /\ n + 1 # 0 /\ (n + 1) - 1 = n
    OBVIOUS
  <2>2. QED
    BY <1>2, <2>1
<1> DEFINE N == {n \in Nat : p[n] \in Nat}
<1>6. 0 \in N
  BY <1>4
<1>7. \A n \in N : n + 1 \in N
  BY <1>5, Products
<1>8. N = Nat
  <2> HIDE DEF N
  <2>1. N \in SUBSET Nat
    BY DEF N
  <2>2. QED
    BY <1>6, <1>7, <2>1, NatInd
<1>9. \A n \in Nat : p[n] \in Nat
  BY <1>8
<1>10. QED
  BY <1>3, <1>4, <1>5, <1>9, Zenon

(* The power of a sum is a product.                                        *)
LEMMA PowAdds ==
  ASSUME NEW x \in Nat, NEW m \in Nat, NEW n \in Nat
  PROVE  Pow(x, m + n) = Pow(x, m) * Pow(x, n)
<1> DEFINE N == {k \in Nat : Pow(x, m + k) = Pow(x, m) * Pow(x, k)}
<1>1. 0 \in N
  <2>1. m + 0 = m /\ Pow(x, 0) = 1 /\ Pow(x, m) \in Nat
    BY PowRecursion
  <2>2. Pow(x, m) * 1 = Pow(x, m)
    BY <2>1
  <2>3. QED
    BY <2>1, <2>2
<1>2. ASSUME NEW k \in N PROVE k + 1 \in N
  <2>1. /\ k \in Nat /\ m + k \in Nat /\ m + (k + 1) = (m + k) + 1
        /\ Pow(x, m + k) = Pow(x, m) * Pow(x, k)
    OBVIOUS
  <2>2. /\ Pow(x, m) \in Nat /\ Pow(x, k) \in Nat
        /\ Pow(x, k + 1) = x * Pow(x, k) /\ Pow(x, (m + k) + 1) = x * Pow(x, m + k)
    BY <2>1, PowRecursion
  <2>3. x * (Pow(x, m) * Pow(x, k)) = Pow(x, m) * (x * Pow(x, k))
    <3> DEFINE a == Pow(x, m)
    <3> DEFINE b == Pow(x, k)
    <3>1. a \in Nat /\ b \in Nat
      BY <2>2
    <3> HIDE DEF a, b
    <3>2. x * (a * b) = a * (x * b)
      BY <3>1, SMT
    <3>3. QED
      BY <3>2 DEF a, b
  <2>4. QED
    BY <2>1, <2>2, <2>3
<1>3. N = Nat
  <2> HIDE DEF N
  <2>1. N \in SUBSET Nat
    BY DEF N
  <2>2. QED
    BY <1>1, <1>2, <2>1, NatInd
<1>4. QED
  BY <1>3

(* Powers of 2 grow: each is at least twice the one before.                *)
LEMMA TwoGrows ==
  ASSUME NEW m \in Nat
  PROVE  /\ Pow(2, m) \in Nat /\ Pow(2, m) >= 1 /\ Pow(2, m) > m
         /\ Pow(2, m + 1) = 2 * Pow(2, m)
<1> DEFINE N == {k \in Nat : Pow(2, k) >= 1 /\ Pow(2, k) > k}
<1>1. 0 \in N
  BY PowRecursion
<1>2. ASSUME NEW k \in N PROVE k + 1 \in N
  <2>1. k \in Nat /\ Pow(2, k) >= 1 /\ Pow(2, k) > k
    OBVIOUS
  <2>2. Pow(2, k) \in Nat /\ Pow(2, k + 1) = 2 * Pow(2, k)
    BY <2>1, PowRecursion
  <2>3. QED
    BY <2>1, <2>2
<1>3. N = Nat
  <2> HIDE DEF N
  <2>1. N \in SUBSET Nat
    BY DEF N
  <2>2. QED
    BY <1>1, <1>2, <2>1, NatInd
<1>4. QED
  BY <1>3, PowRecursion

LEMMA TwoMonotone ==
  ASSUME NEW m \in Nat, NEW n \in Nat
  PROVE  /\ m <= n <=> Pow(2, m) <= Pow(2, n)
         /\ m < n <=> Pow(2, m) < Pow(2, n)
         /\ m < n => 2 * Pow(2, m) <= Pow(2, n)
<1>1. ASSUME NEW a \in Nat, NEW b \in Nat, a <= b PROVE Pow(2, a) <= Pow(2, b)
  <2>1. b - a \in Nat /\ a + (b - a) = b
    BY <1>1
  <2>2. Pow(2, b) = Pow(2, a) * Pow(2, b - a)
    BY <2>1, PowAdds
  <2>3. Pow(2, a) \in Nat /\ Pow(2, b - a) \in Nat /\ Pow(2, b - a) >= 1
    BY <2>1, TwoGrows
  <2>4. Pow(2, a) * 1 <= Pow(2, a) * Pow(2, b - a)
    BY <2>3, Products
  <2>5. Pow(2, a) * 1 = Pow(2, a)
    BY <2>3
  <2>6. QED
    BY <2>2, <2>4, <2>5
<1>2. ASSUME NEW a \in Nat, NEW b \in Nat, a < b
      PROVE  2 * Pow(2, a) <= Pow(2, b) /\ Pow(2, a) < Pow(2, b)
  <2>1. a + 1 \in Nat /\ a + 1 <= b
    BY <1>2
  <2>2. Pow(2, a + 1) <= Pow(2, b)
    BY <1>1, <2>1
  <2>3. QED
    BY <2>2, TwoGrows
<1>3. Pow(2, m) \in Nat /\ Pow(2, n) \in Nat
  BY TwoGrows
<1>4. /\ m <= n => Pow(2, m) <= Pow(2, n)
      /\ n <= m => Pow(2, n) <= Pow(2, m)
  BY <1>1
<1>5. /\ m < n => 2 * Pow(2, m) <= Pow(2, n) /\ Pow(2, m) < Pow(2, n)
      /\ n < m => Pow(2, n) < Pow(2, m)
  BY <1>2
<1>6. QED
  BY <1>3, <1>4, <1>5

(* A power of a power of 2.                                                *)
LEMMA PowOfPow ==
  ASSUME NEW e \in Nat, NEW n \in Nat
  PROVE  Pow(Pow(2, e), n) = Pow(2, e * n)
<1> DEFINE b == Pow(2, e)
<1>1. b \in Nat
  BY TwoGrows
<1> DEFINE N == {k \in Nat : Pow(b, k) = Pow(2, e * k)}
<1>2. 0 \in N
  <2>1. e * 0 = 0
    OBVIOUS
  <2>2. Pow(b, 0) = 1 /\ Pow(2, 0) = 1
    BY <1>1, PowRecursion
  <2>3. QED
    BY <2>1, <2>2
<1>3. ASSUME NEW k \in N PROVE k + 1 \in N
  <2>1. k \in Nat /\ Pow(b, k) = Pow(2, e * k)
    OBVIOUS
  <2>2. e * k \in Nat /\ e * (k + 1) = e + e * k
    BY <2>1
  <2>3. Pow(2, e + e * k) = b * Pow(2, e * k)
    BY <2>2, PowAdds
  <2> HIDE DEF b
  <2>4. Pow(b, k + 1) = b * Pow(b, k)
    BY <1>1, <2>1, PowRecursion
  <2>5. QED
    BY <2>1, <2>2, <2>3, <2>4
<1>4. N = Nat
  <2> HIDE DEF N
  <2>1. N \in SUBSET Nat
    BY DEF N
  <2>2. QED
    BY <1>2, <1>3, <2>1, NatInd
<1>5. QED
  BY <1>4

(* A power of a number up to 2^b, and at least 1.                          *)
LEMMA PowBounded ==
  ASSUME NEW x \in Nat, x >= 1, NEW b \in Nat, x <= Pow(2, b), NEW n \in Nat
  PROVE  Pow(x, n) \in Nat /\ Pow(x, n) >= 1 /\ Pow(x, n) <= Pow(2, b * n)
<1> DEFINE N == {k \in Nat : Pow(x, k) >= 1 /\ Pow(x, k) <= Pow(2, b * k)}
<1>1. 0 \in N
  <2>1. b * 0 = 0 /\ Pow(2, 0) = 1 /\ Pow(x, 0) = 1
    BY PowRecursion
  <2>2. QED
    BY <2>1
<1>2. ASSUME NEW k \in N PROVE k + 1 \in N
  <2>1. k \in Nat /\ b * k \in Nat /\ b * (k + 1) = b + b * k
    OBVIOUS
  <2>2. /\ Pow(x, k + 1) = x * Pow(x, k) /\ Pow(x, k) \in Nat
        /\ Pow(2, b + b * k) = Pow(2, b) * Pow(2, b * k)
        /\ Pow(2, b) \in Nat /\ Pow(2, b * k) \in Nat
    BY <2>1, PowRecursion, PowAdds
  <2>3. Pow(x, k) >= 1 /\ Pow(x, k) <= Pow(2, b * k)
    OBVIOUS
  <2>4. 1 * Pow(x, k) <= x * Pow(x, k)
    BY <2>2, Products
  <2>5. x * Pow(x, k) <= x * Pow(2, b * k) /\ x * Pow(2, b * k) <= Pow(2, b) * Pow(2, b * k)
    BY <2>2, <2>3, Products
  <2>6. x * Pow(x, k) \in Nat /\ x * Pow(2, b * k) \in Nat /\ Pow(2, b) * Pow(2, b * k) \in Nat
    BY <2>2, Products
  <2>7. 1 * Pow(x, k) = Pow(x, k)
    BY <2>2
  <2>8. Pow(x, k + 1) >= 1
    BY <2>2, <2>3, <2>4, <2>6, <2>7
  <2>9. Pow(x, k + 1) <= Pow(2, b * (k + 1))
    BY <2>1, <2>2, <2>5, <2>6
  <2>10. QED
    BY <2>1, <2>8, <2>9
<1>3. N = Nat
  <2> HIDE DEF N
  <2>1. N \in SUBSET Nat
    BY DEF N
  <2>2. QED
    BY <1>1, <1>2, <2>1, NatInd
<1>4. QED
  BY <1>3, PowRecursion

-----------------------------------------------------------------------------
(* Division.                                                               *)

LEMMA Division ==
  ASSUME NEW m \in Int, NEW d \in Nat, d >= 1
  PROVE  m \div d \in Int /\ d * (m \div d) <= m /\ m < d * (m \div d) + d
BY SMTT(30)

LEMMA IntProducts ==
  ASSUME NEW d \in Nat, d >= 1, NEW a \in Int, NEW b \in Int
  PROVE  d * a \in Int /\ (a <= b <=> d * a <= d * b) /\ d * (a + 1) = d * a + d
BY SMTT(30)

LEMMA Quotient ==
  ASSUME NEW m \in Int, NEW d \in Nat, d >= 1, NEW q \in Int, d * q <= m, m < d * q + d
  PROVE  m \div d = q
<1> DEFINE p == m \div d
<1>1. p \in Int /\ d * p <= m /\ m < d * p + d
  BY Division
<1> HIDE DEF p
<1>2. /\ d * (p + 1) = d * p + d /\ d * (q + 1) = d * q + d
      /\ d * p \in Int /\ d * q \in Int /\ p + 1 \in Int /\ q + 1 \in Int
  BY <1>1, IntProducts
<1>3. ~(q + 1 <= p)
  <2>1. q + 1 <= p <=> d * (q + 1) <= d * p
    BY <1>1, <1>2, IntProducts
  <2>2. QED
    BY <1>1, <1>2, <2>1
<1>4. ~(p + 1 <= q)
  <2>1. p + 1 <= q <=> d * (p + 1) <= d * q
    BY <1>1, <1>2, IntProducts
  <2>2. QED
    BY <1>1, <1>2, <2>1
<1>5. QED
  BY <1>1, <1>3, <1>4 DEF p

(* A quotient is below k when the dividend is below k divisors.            *)
LEMMA QuotientBelow ==
  ASSUME NEW m \in Int, NEW d \in Nat, d >= 1, NEW k \in Int
  PROVE  m \div d < k <=> m < d * k
<1> DEFINE q == m \div d
<1>1. q \in Int /\ d * q <= m /\ m < d * q + d
  BY Division
<1> HIDE DEF q
<1>2. d * (q + 1) = d * q + d /\ d * q \in Int /\ d * k \in Int /\ q + 1 \in Int
  BY <1>1, IntProducts
<1>3. q + 1 <= k <=> d * (q + 1) <= d * k
  BY <1>1, <1>2, IntProducts
<1>4. k <= q <=> d * k <= d * q
  BY <1>1, IntProducts
<1>5. q < k <=> m < d * k
  BY <1>1, <1>2, <1>3, <1>4
<1>6. QED
  BY <1>5 DEF q

LEMMA QuotientTwice ==
  ASSUME NEW m \in Int, NEW d \in Nat, d >= 1
  PROVE  m \div (2 * d) = (m \div d) \div 2
<1> DEFINE q == m \div d
<1> DEFINE h == q \div 2
<1>1. q \in Int /\ d * q <= m /\ m < d * q + d
  BY Division
<1>2. h \in Int /\ (q = 2 * h \/ q = 2 * h + 1)
  BY <1>1
<1> HIDE DEF q, h
<1>3. (2 * d) * h = d * (2 * h) /\ (2 * d) * h \in Int /\ 2 * h \in Int
  BY <1>2, SMT
<1>4. d * (2 * h + 1) = d * (2 * h) + d
  BY <1>3, IntProducts
<1>5. (2 * d) * h <= m /\ m < (2 * d) * h + 2 * d
  BY <1>1, <1>2, <1>3, <1>4
<1>6. 2 * d \in Nat /\ 2 * d >= 1
  OBVIOUS
<1>7. m \div (2 * d) = h
  <2> DEFINE e == 2 * d
  <2>1. e \in Nat /\ e >= 1 /\ e * h <= m /\ m < e * h + e
    BY <1>5, <1>6
  <2> HIDE DEF e
  <2>2. m \div e = h
    BY <1>2, <2>1, Quotient
  <2>3. QED
    BY <2>2 DEF e
<1>8. QED
  BY <1>7 DEF q, h

-----------------------------------------------------------------------------
(* Logarithms.                                                             *)

Loggable == {x \in Nat : x >= 1 /\ x <= Pow(2, MaxBits * Pow(2, MaxScale))}
(* The values other than 0.                                                *)
Recordable == 1..(Pow(2, MaxBits) - 1)

LEMMA ILog2Bounds ==
  ASSUME NEW x \in Loggable
  PROVE  ILog2(x) \in Nat /\ Pow(2, ILog2(x)) <= x /\ x < Pow(2, ILog2(x) + 1)
<1> DEFINE P(k) == x < Pow(2, k + 1) /\ Pow(2, k) <= x
<1> DEFINE N == {n \in Nat : x < Pow(2, n) => \E k \in Nat : P(k)}
<1>1. x \in Nat /\ x >= 1 /\ x <= Pow(2, MaxBits * Pow(2, MaxScale))
  BY DEF Loggable
<1>2. 0 \in N
  BY <1>1, PowRecursion
<1>3. ASSUME NEW n \in N PROVE n + 1 \in N
  <2>1. n \in Nat /\ Pow(2, n) \in Nat
    BY TwoGrows
  <2>2. CASE x < Pow(2, n)
    BY <2>1, <2>2
  <2>3. CASE ~(x < Pow(2, n))
    <3>1. x < Pow(2, n + 1) => P(n)
      BY <1>1, <2>1, <2>3
    <3>2. QED
      BY <2>1, <3>1
  <2>4. QED
    BY <2>2, <2>3
<1>4. N = Nat
  <2> HIDE DEF N
  <2>1. N \in SUBSET Nat
    BY DEF N
  <2>2. QED
    BY <1>2, <1>3, <2>1, NatInd
<1>5. x < Pow(2, x)
  BY <1>1, TwoGrows
<1>6. PICK k \in Nat : P(k)
  BY <1>1, <1>4, <1>5
<1>7. MaxBits * Pow(2, MaxScale) \in Nat
  BY Products, TwoGrows, ScaleAssumption, BitsAssumption
<1>8. k <= MaxBits * Pow(2, MaxScale)
  <2> DEFINE b == MaxBits * Pow(2, MaxScale)
  <2>1. Pow(2, k) <= x /\ x <= Pow(2, b) /\ b \in Nat
    BY <1>1, <1>6, <1>7
  <2> HIDE DEF b
  <2>2. Pow(2, k) <= Pow(2, b)
    BY <1>1, <2>1, TwoGrows
  <2>3. k <= b
    BY <2>1, <2>2, TwoMonotone
  <2>4. QED
    BY <2>3 DEF b
<1>9. k \in 0..(MaxBits * Pow(2, MaxScale))
  BY <1>7, <1>8
<1>10. ILog2(x) \in 0..(MaxBits * Pow(2, MaxScale)) /\ P(ILog2(x))
  BY <1>6, <1>9 DEF ILog2
<1>11. QED
  BY <1>7, <1>10

(* What is known of a number between powers is known of its logarithm.     *)
LEMMA ILog2Between ==
  ASSUME NEW x \in Loggable, NEW k \in Nat
  PROVE  /\ Pow(2, k) <= x <=> k <= ILog2(x)
         /\ x < Pow(2, k) <=> ILog2(x) < k
<1> DEFINE l == ILog2(x)
<1>1. x \in Nat /\ l \in Nat /\ Pow(2, l) <= x /\ x < Pow(2, l + 1)
  BY ILog2Bounds DEF Loggable
<1> HIDE DEF l
<1>2. /\ Pow(2, k) \in Nat /\ Pow(2, l) \in Nat /\ Pow(2, l + 1) \in Nat /\ l + 1 \in Nat
  BY <1>1, TwoGrows
<1>3. (k <= l <=> Pow(2, k) <= Pow(2, l)) /\ (k < l + 1 <=> Pow(2, k) < Pow(2, l + 1))
  BY <1>1, <1>2, TwoMonotone
<1>4. Pow(2, k) <= x => k <= l
  BY <1>1, <1>2, <1>3
<1>5. k <= l => Pow(2, k) <= x
  BY <1>1, <1>2, <1>3
<1>6. QED
  BY <1>1, <1>2, <1>4, <1>5 DEF l

LEMMA ILog2Is ==
  ASSUME NEW x \in Loggable, NEW k \in Nat, Pow(2, k) <= x, x < Pow(2, k + 1)
  PROVE  ILog2(x) = k
<1>1. k <= ILog2(x) /\ ILog2(x) < k + 1
  BY ILog2Between
<1>2. QED
  BY <1>1, ILog2Bounds

LEMMA ValuesLoggable ==
  ASSUME NEW v \in Recordable, NEW s \in 0..MaxScale
  PROVE  /\ v \in Nat /\ v >= 1 /\ v \in Loggable
         /\ Pow(v, Pow(2, s)) \in Loggable
<1>1. MaxBits \in Nat /\ MaxScale \in Nat /\ s \in Nat /\ s <= MaxScale
  BY BitsAssumption, ScaleAssumption
<1>2. /\ Pow(2, MaxScale) \in Nat /\ Pow(2, MaxScale) >= 1
      /\ Pow(2, s) \in Nat /\ Pow(2, s) <= Pow(2, MaxScale)
  BY <1>1, TwoGrows, TwoMonotone
<1> DEFINE b == MaxBits * Pow(2, MaxScale)
<1> DEFINE a == MaxBits * Pow(2, s)
<1>3. b \in Nat /\ a \in Nat /\ a <= b /\ MaxBits * 1 <= b
  BY <1>1, <1>2, Products
<1>4. MaxBits * 1 = MaxBits
  BY <1>1
<1>5. v \in Nat /\ v >= 1 /\ Pow(2, MaxBits) \in Nat /\ v <= Pow(2, MaxBits)
  BY <1>1, TwoGrows DEF Recordable
<1>6. Pow(v, Pow(2, s)) \in Nat /\ Pow(v, Pow(2, s)) >= 1 /\ Pow(v, Pow(2, s)) <= Pow(2, a)
  BY <1>1, <1>2, <1>5, PowBounded
<1> HIDE DEF a, b
<1>7. Pow(2, a) <= Pow(2, b) /\ Pow(2, MaxBits) <= Pow(2, b)
  BY <1>1, <1>3, <1>4, TwoMonotone
<1>8. Pow(2, a) \in Nat /\ Pow(2, b) \in Nat
  BY <1>3, TwoGrows
<1>9. v <= Pow(2, b) /\ Pow(v, Pow(2, s)) <= Pow(2, b)
  BY <1>5, <1>6, <1>7, <1>8
<1>10. QED
  BY <1>5, <1>6, <1>9 DEF Loggable, b

-----------------------------------------------------------------------------
(* The index of a value.                                                   *)

(* At scale 0.                                                             *)
Order(v) == ILog2(v) - (IF PowerOf2(v) THEN 1 ELSE 0)

LEMMA OrderBounds ==
  ASSUME NEW v \in Recordable
  PROVE  /\ ILog2(v) \in Nat /\ Order(v) \in Int
         /\ PowerOf2(v) \in BOOLEAN
         /\ -1 <= Order(v) /\ Order(v) <= MaxBits - 1
<1>1. 0 \in 0..MaxScale /\ MaxBits \in Nat
  BY ScaleAssumption, BitsAssumption
<1>2. v \in Loggable
  BY <1>1, ValuesLoggable
<1>3. ILog2(v) \in Nat
  BY <1>2, ILog2Bounds
<1>4. v < Pow(2, MaxBits)
  BY <1>1, TwoGrows DEF Recordable
<1>5. ILog2(v) < MaxBits
  BY <1>1, <1>2, <1>4, ILog2Between
<1>6. PowerOf2(v) \in BOOLEAN
  BY DEF PowerOf2
<1>7. QED
  BY <1>1, <1>3, <1>5, <1>6 DEF Order

LEMMA IndexCases ==
  ASSUME NEW v \in Recordable, NEW s \in Int
  PROVE  /\ s >= 0 /\ PowerOf2(v) => IndexForValue(s, v) = ILog2(v) * Pow(2, s) - 1
         /\ s >= 0 /\ ~PowerOf2(v) => IndexForValue(s, v) = Log(v, s)
         /\ s < 0 => IndexForValue(s, v) = Order(v) \div Pow(2, -s)
<1>1. v > 0 /\ v # 0
  BY BitsAssumption, TwoGrows DEF Recordable
<1>2. PowerOf2(v) \in BOOLEAN
  BY DEF PowerOf2
<1>3. ASSUME s >= 0, PowerOf2(v) PROVE IndexForValue(s, v) = ILog2(v) * Pow(2, s) - 1
  BY <1>1, <1>3 DEF IndexForValue
<1>4. ASSUME s >= 0, ~PowerOf2(v) PROVE IndexForValue(s, v) = Log(v, s)
  BY <1>1, <1>4 DEF IndexForValue
<1>5. ASSUME s < 0 PROVE IndexForValue(s, v) = Order(v) \div Pow(2, -s)
  <2>1. ~(s >= 0) /\ ~(v = 0)
    BY <1>1, <1>5
  <2>2. QED
    BY <1>1, <1>5, <2>1 DEF IndexForValue, Order
<1>6. QED
  BY <1>3, <1>4, <1>5

(* The logarithm at a scale, for a power of 2.                             *)
LEMMA LogOfPower ==
  ASSUME NEW v \in Recordable, NEW s \in 0..MaxScale, PowerOf2(v)
  PROVE  Log(v, s) = ILog2(v) * Pow(2, s) /\ ILog2(v) * Pow(2, s) \in Nat
<1> DEFINE k == ILog2(v) * Pow(2, s)
<1>1. s \in Nat /\ Pow(2, s) \in Nat
  BY ScaleAssumption, TwoGrows
<1>2. ILog2(v) \in Nat /\ k \in Nat
  BY <1>1, OrderBounds, Products
<1>3. Pow(v, Pow(2, s)) \in Loggable
  BY ValuesLoggable
<1>4. v = Pow(2, ILog2(v))
  BY DEF PowerOf2
<1>5. Pow(Pow(2, ILog2(v)), Pow(2, s)) = Pow(2, k)
  BY <1>1, <1>2, PowOfPow
<1> HIDE DEF k
<1>6. Pow(v, Pow(2, s)) = Pow(2, k)
  BY <1>4, <1>5
<1>7. Pow(2, k) < Pow(2, k + 1) /\ Pow(2, k) \in Nat
  BY <1>2, TwoGrows
<1>8. Pow(2, k) \in Loggable
  BY <1>3, <1>6
<1>9. ILog2(Pow(2, k)) = k
  BY <1>2, <1>7, <1>8, ILog2Is
<1>10. QED
  BY <1>2, <1>6, <1>9 DEF Log, k

LEMMA IndexOfPower ==
  ASSUME NEW v \in Recordable, NEW s \in 0..MaxScale, PowerOf2(v)
  PROVE  IndexForValue(s, v) = Log(v, s) - 1 /\ Log(v, s) \in Nat
BY LogOfPower, IndexCases, ScaleAssumption

LEMMA LogAtZero ==
  ASSUME NEW v \in Recordable
  PROVE  Log(v, 0) = ILog2(v)
<1>1. v \in Nat /\ 0 \in 0..MaxScale
  BY ValuesLoggable, ScaleAssumption
<1>2. Pow(2, 0) = 1 /\ Pow(v, 0) = 1 /\ Pow(v, 0 + 1) = v * Pow(v, 0)
  BY <1>1, PowRecursion
<1>3. Pow(v, 1) = v
  BY <1>1, <1>2
<1>4. QED
  BY <1>2, <1>3 DEF Log

LEMMA IndexFromZeroDown ==
  ASSUME NEW v \in Recordable, NEW s \in Int, s <= 0
  PROVE  /\ IndexForValue(s, v) = Order(v) \div Pow(2, -s)
         /\ -s \in Nat /\ Pow(2, -s) \in Nat /\ Pow(2, -s) >= 1
<1>1. -s \in Nat /\ Pow(2, -s) \in Nat /\ Pow(2, -s) >= 1
  BY TwoGrows
<1>2. CASE s < 0
  BY <1>1, <1>2, IndexCases
<1>3. CASE s = 0
  <2>1. 0 \in 0..MaxScale /\ -s = 0 /\ Pow(2, 0) = 1
    <3>1. 0 \in 0..MaxScale
      BY ScaleAssumption
    <3>2. -s = 0
      <4>1. s >= 0
        BY <1>3
      <4>2. \A n \in Int : n >= 0 /\ n <= 0 => -n = 0
        OBVIOUS
      <4>3. QED
        BY <4>1, <4>2
    <3>3. Pow(2, 0) = 1
      BY PowRecursion
    <3>4. QED
      BY <3>1, <3>2, <3>3
  <2>2. Order(v) \div 1 = Order(v)
    BY OrderBounds
  <2>3. IndexForValue(0, v) = Order(v)
    <3>1. ILog2(v) \in Nat /\ PowerOf2(v) \in BOOLEAN
      BY OrderBounds
    <3>2. CASE PowerOf2(v)
      BY <2>1, <3>1, <3>2, IndexOfPower, LogAtZero DEF Order
    <3>3. CASE ~PowerOf2(v)
      BY <2>1, <3>1, <3>3, IndexCases, LogAtZero DEF Order
    <3>4. QED
      BY <3>1, <3>2, <3>3
  <2>4. QED
    BY <1>1, <1>3, <2>1, <2>2, <2>3
<1>4. QED
  BY <1>2, <1>3

LEMMA LogType ==
  ASSUME NEW v \in Recordable, NEW s \in 0..MaxScale
  PROVE  Log(v, s) \in Nat
BY ValuesLoggable, ILog2Bounds DEF Log

LEMMA IndexType ==
  ASSUME NEW v \in Recordable, NEW s \in Int, s <= MaxScale
  PROVE  IndexForValue(s, v) \in Int /\ IndexForValue(s, v) >= -1
<1>1. CASE s >= 0
  <2>1. s \in 0..MaxScale
    BY <1>1, ScaleAssumption
  <2>2. CASE PowerOf2(v)
    BY <2>1, <2>2, IndexOfPower
  <2>3. CASE ~PowerOf2(v)
    BY <1>1, <2>1, <2>3, IndexCases, LogType
  <2>4. QED
    BY <2>2, <2>3
<1>2. CASE s <= 0
  <2> DEFINE d == Pow(2, -s)
  <2> DEFINE m == Order(v)
  <2>1. IndexForValue(s, v) = m \div d /\ d \in Nat /\ d >= 1 /\ m \in Int /\ m >= -1
    BY <1>2, IndexFromZeroDown, OrderBounds
  <2> HIDE DEF d, m
  <2>2. m \div d \in Int
    BY <2>1, Division
  <2>3. m \div d < -1 <=> m < d * (-1)
    BY <2>1, QuotientBelow
  <2>4. d * (-1) = -d
    BY <2>1
  <2>5. QED
    BY <2>1, <2>2, <2>3, <2>4
<1>3. QED
  BY <1>1, <1>2

(* One scale coarser, buckets 2k and 2k + 1 are bucket k.                  *)
LEMMA IndexHalves ==
  ASSUME NEW v \in Recordable, NEW s \in Int, s < MaxScale
  PROVE  IndexForValue(s, v) = IndexForValue(s + 1, v) \div 2
<1>1. CASE s < 0
  <2> DEFINE d == Pow(2, -(s + 1))
  <2>1. s + 1 \in Int /\ s + 1 <= 0 /\ -(s + 1) \in Nat /\ -s = -(s + 1) + 1
    BY <1>1
  <2>2. /\ IndexForValue(s + 1, v) = Order(v) \div d /\ d \in Nat /\ d >= 1
        /\ IndexForValue(s, v) = Order(v) \div Pow(2, -s)
    BY <1>1, <2>1, IndexFromZeroDown
  <2>3. Pow(2, -s) = 2 * d
    BY <2>1, TwoGrows
  <2>4. Order(v) \in Int
    BY OrderBounds
  <2> HIDE DEF d
  <2>5. QED
    BY <2>2, <2>3, <2>4, QuotientTwice
<1>2. CASE s >= 0
  <2> DEFINE p == Pow(2, s)
  <2>1. /\ s \in Nat /\ s \in 0..MaxScale /\ s + 1 \in 0..MaxScale /\ p \in Nat
        /\ Pow(2, s + 1) = p + p
    BY <1>2, ScaleAssumption, TwoGrows
  <2>2. v \in Nat
    BY <2>1, ValuesLoggable
  <2> DEFINE w == Pow(v, p)
  <2>3. w \in Loggable /\ Pow(v, p + p) \in Loggable
    BY <2>1, ValuesLoggable
  <2>4. Pow(v, p + p) = w * w
    BY <2>1, <2>2, PowAdds
  <2>5. Log(v, s) = ILog2(w) /\ Log(v, s + 1) = ILog2(w * w)
    BY <2>1, <2>4 DEF Log
  <2>6. CASE PowerOf2(v)
    <3>1. /\ Log(v, s) = ILog2(v) * p /\ Log(v, s + 1) = ILog2(v) * (p + p)
          /\ Log(v, s) \in Nat
      BY <2>1, <2>6, LogOfPower
    <3>2. /\ IndexForValue(s, v) = Log(v, s) - 1
          /\ IndexForValue(s + 1, v) = Log(v, s + 1) - 1
      BY <2>1, <2>6, IndexOfPower
    <3>3. ILog2(v) * (p + p) = ILog2(v) * p + ILog2(v) * p
      BY <2>1, OrderBounds, Products
    <3> DEFINE l == Log(v, s)
    <3>4. l \in Nat /\ IndexForValue(s, v) = l - 1 /\ IndexForValue(s + 1, v) = (l + l) - 1
      BY <3>1, <3>2, <3>3
    <3> HIDE DEF l
    <3>5. QED
      BY <3>4
  <2>7. CASE ~PowerOf2(v)
    <3> DEFINE k == ILog2(w)
    <3> DEFINE l == ILog2(w * w)
    <3>1. IndexForValue(s, v) = k /\ IndexForValue(s + 1, v) = l
      BY <1>2, <2>5, <2>7, IndexCases
    <3>2. w \in Nat /\ w * w \in Loggable
      BY <2>3, <2>4 DEF Loggable
    <3> HIDE DEF w
    <3>3. k \in Nat /\ Pow(2, k) <= w /\ w < Pow(2, k + 1) /\ l \in Nat
      BY <2>3, <3>2, ILog2Bounds
    <3> HIDE DEF k
    <3>4. /\ Pow(2, k + k) = Pow(2, k) * Pow(2, k)
          /\ Pow(2, (k + 1) + (k + 1)) = Pow(2, k + 1) * Pow(2, k + 1)
      BY <3>3, PowAdds
    <3> DEFINE a == Pow(2, k)
    <3> DEFINE b == Pow(2, k + 1)
    <3>5. a \in Nat /\ b \in Nat /\ a <= w /\ w < b
      BY <3>3, TwoGrows
    <3> HIDE DEF a, b
    <3>6. a * a <= w * w /\ w * w < b * b
      BY <3>2, <3>5, SMT
    <3>7. k + k \in Nat /\ (k + 1) + (k + 1) \in Nat
      BY <3>3
    <3>8. Pow(2, k + k) <= w * w /\ w * w < Pow(2, (k + 1) + (k + 1))
      BY <3>4, <3>6 DEF a, b
    <3>9. k + k <= l /\ l < (k + 1) + (k + 1)
      BY <3>2, <3>7, <3>8, ILog2Between
    <3> HIDE DEF l
    <3>10. l \div 2 = k
      BY <3>3, <3>9
    <3>11. QED
      BY <3>1, <3>10
  <2>8. QED
    BY <2>6, <2>7
<1>3. QED
  BY <1>1, <1>2

(* The bound of a bucket: what is at most the bound of bucket k - 1 has an *)
(* index of at most k - 1.                                                 *)
LEMMA AtMostIsIndex ==
  ASSUME NEW v \in Recordable, NEW s \in Int, s <= MaxScale, NEW k \in Int, k >= -1
  PROVE  AtMost(v, k, s) <=> IndexForValue(s, v) < k
<1>1. v # 0 /\ v > 0
  BY BitsAssumption, TwoGrows DEF Recordable
<1>2. CASE k < 0
  <2>1. ~AtMost(v, k, s)
    BY <1>1, <1>2 DEF AtMost
  <2>2. IndexForValue(s, v) >= -1 /\ IndexForValue(s, v) \in Int
    BY IndexType
  <2>3. QED
    BY <1>2, <2>1, <2>2
<1>3. CASE k >= 0 /\ s >= 0
  <2>1. s \in 0..MaxScale /\ ~(s < 0)
    BY <1>3, ScaleAssumption
  <2>2. Log(v, s) \in Nat
    BY <2>1, LogType
  <2>3. AtMost(v, k, s) <=> (Log(v, s) < k \/ (PowerOf2(v) /\ ILog2(v) * Pow(2, s) = k))
    BY <1>1, <1>3, <2>1, Zenon DEF AtMost
  <2>4. CASE PowerOf2(v)
    <3>1. AtMost(v, k, s) <=> (Log(v, s) < k \/ Log(v, s) = k)
      BY <2>1, <2>3, <2>4, LogOfPower
    <3>2. IndexForValue(s, v) = Log(v, s) - 1
      BY <2>1, <2>4, IndexOfPower
    <3>3. (Log(v, s) < k \/ Log(v, s) = k) <=> Log(v, s) - 1 < k
      BY <2>2
    <3>4. QED
      BY <3>1, <3>2, <3>3
  <2>5. CASE ~PowerOf2(v)
    <3>1. IndexForValue(s, v) = Log(v, s)
      BY <1>3, <2>5, IndexCases
    <3>2. QED
      BY <2>3, <2>5, <3>1
  <2>6. QED
    BY <2>4, <2>5
<1>4. CASE k >= 0 /\ s < 0
  <2> DEFINE d == Pow(2, -s)
  <2>1. /\ IndexForValue(s, v) = Order(v) \div d /\ d \in Nat /\ d >= 1
    BY <1>4, IndexFromZeroDown
  <2>2. ~(s >= 0)
    BY <1>4
  <2>3. AtMost(v, k, s) <=> (ILog2(v) < k * d \/ (PowerOf2(v) /\ ILog2(v) = k * d))
    BY <1>1, <1>4, <2>2, Zenon DEF AtMost
  <2> HIDE DEF d
  <2>4. /\ ILog2(v) \in Nat /\ Order(v) \in Int /\ PowerOf2(v) \in BOOLEAN
        /\ Order(v) = ILog2(v) - (IF PowerOf2(v) THEN 1 ELSE 0)
    BY OrderBounds DEF Order
  <2>5. k * d = d * k /\ d * k \in Int
    BY <1>4, <2>1, Products
  <2>6. Order(v) \div d < k <=> Order(v) < d * k
    BY <2>1, <2>4, QuotientBelow
  <2>7. CASE PowerOf2(v)
    <3>1. Order(v) < d * k <=> ILog2(v) < d * k \/ ILog2(v) = d * k
      BY <2>4, <2>5, <2>7
    <3>2. QED
      BY <2>1, <2>3, <2>5, <2>6, <2>7, <3>1
  <2>8. CASE ~PowerOf2(v)
    <3>1. Order(v) = ILog2(v)
      BY <2>4, <2>8
    <3>2. QED
      BY <2>1, <2>3, <2>5, <2>6, <2>8, <3>1
  <2>9. QED
    BY <2>7, <2>8
<1>5. QED
  BY <1>2, <1>3, <1>4

(* At the coarsest scale two buckets hold every value.                     *)
LEMMA IndexAtCoarsest ==
  ASSUME NEW v \in Recordable
  PROVE  IndexForValue(CoarsestScale, v) \in {-1, 0}
<1> DEFINE d == Pow(2, -CoarsestScale)
<1> DEFINE m == Order(v)
<1>1. CoarsestScale \in Int /\ CoarsestScale <= 0 /\ CoarsestScale <= MaxScale /\ d >= MaxBits
      /\ MaxBits \in Nat
  BY BitsAssumption, ScaleAssumption
<1>2. IndexForValue(CoarsestScale, v) = m \div d /\ d \in Nat /\ d >= 1
  BY <1>1, IndexFromZeroDown
<1>3. m \in Int /\ m <= MaxBits - 1
  BY OrderBounds
<1>4. m \div d \in Int /\ m \div d >= -1
  BY <1>1, <1>2, IndexType
<1> HIDE DEF d, m
<1>5. m \div d < 1 <=> m < d * 1
  BY <1>2, <1>3, QuotientBelow
<1>6. d * 1 = d
  BY <1>2
<1>7. QED
  BY <1>1, <1>2, <1>3, <1>4, <1>5, <1>6

-----------------------------------------------------------------------------
(* The counters are in range, and the histogram has counted the time since *)
(* the first sample.                                                       *)
Counters == /\ last \in 0..(Wrap - 1) \cup {None}
            /\ first \in 0..(Wrap - 1) \cup {None}
            /\ clock \in 0..(Wrap - 1)
IInv == Counters /\ CountsTime

-----------------------------------------------------------------------------
(* Arithmetic modulo Wrap, on differences of two counters.                 *)

LEMMA InRange == ASSUME NEW x \in Int PROVE x % Wrap \in 0..(Wrap - 1)
BY WrapAssumption, SMTT(30)

LEMMA Unwrapped == ASSUME NEW x \in 0..(Wrap - 1) PROVE x % Wrap = x
BY WrapAssumption, SMTT(30)

LEMMA WrappedUp == ASSUME NEW x \in (-Wrap)..(-1) PROVE x % Wrap = x + Wrap
BY WrapAssumption, SMTT(30)

LEMMA WrappedDown == ASSUME NEW x \in Wrap..(2 * Wrap - 1) PROVE x % Wrap = x - Wrap
BY WrapAssumption, SMTT(30)

(* The difference of two counters.                                         *)
LEMMA Difference ==
  ASSUME NEW x \in 0..(Wrap - 1), NEW y \in 0..(Wrap - 1)
  PROVE  /\ x >= y => (x - y) % Wrap = x - y
         /\ x < y => (x - y) % Wrap = x - y + Wrap
<1>1. ASSUME x >= y PROVE (x - y) % Wrap = x - y
  <2>1. x - y \in 0..(Wrap - 1)
    BY <1>1, WrapAssumption
  <2>2. QED
    BY <2>1, Unwrapped
<1>2. ASSUME x < y PROVE (x - y) % Wrap = x - y + Wrap
  <2>1. x - y \in (-Wrap)..(-1)
    BY <1>2, WrapAssumption
  <2>2. QED
    BY <2>1, WrappedUp
<1>3. QED
  BY <1>1, <1>2

(* The sum of two counters.                                                *)
LEMMA SumOf ==
  ASSUME NEW a \in 0..(Wrap - 1), NEW b \in 0..(Wrap - 1)
  PROVE  /\ a + b < Wrap => (a + b) % Wrap = a + b
         /\ a + b >= Wrap => (a + b) % Wrap = a + b - Wrap
<1>1. ASSUME a + b < Wrap PROVE (a + b) % Wrap = a + b
  <2>1. a + b \in 0..(Wrap - 1)
    BY <1>1, WrapAssumption
  <2>2. QED
    BY <2>1, Unwrapped
<1>2. ASSUME a + b >= Wrap PROVE (a + b) % Wrap = a + b - Wrap
  <2>1. a + b >= Wrap /\ a + b <= 2 * Wrap - 1 /\ a + b \in Int
    BY <1>2, WrapAssumption
  <2>2. QED
    BY <2>1, WrappedDown, WrapAssumption
<1>3. QED
  BY <1>1, <1>2

(* Differences add up, however often the clock has wrapped or was reset.   *)
LEMMA Telescope ==
  ASSUME NEW x \in 0..(Wrap - 1), NEW y \in 0..(Wrap - 1), NEW z \in 0..(Wrap - 1),
         NEW a, NEW b, a = (y - x) % Wrap, b = (z - y) % Wrap
  PROVE  (a + b) % Wrap = (z - x) % Wrap
<1>1. /\ y >= x => a = y - x
      /\ y < x => a = y - x + Wrap
  BY Difference
<1>2. /\ z >= y => b = z - y
      /\ z < y => b = z - y + Wrap
  BY Difference
<1>3. /\ z >= x => (z - x) % Wrap = z - x
      /\ z < x => (z - x) % Wrap = z - x + Wrap
  BY Difference
<1>4. a \in 0..(Wrap - 1) /\ b \in 0..(Wrap - 1)
  BY <1>1, <1>2, WrapAssumption
<1>5. /\ a + b < Wrap => (a + b) % Wrap = a + b
      /\ a + b >= Wrap => (a + b) % Wrap = a + b - Wrap
  BY <1>4, SumOf
<1>6. QED
  BY <1>1, <1>2, <1>3, <1>4, <1>5, WrapAssumption

-----------------------------------------------------------------------------
(* The steps.                                                              *)

LEMMA NewRecorder == ASSUME NEW v, Fresh(v) PROVE /\ last' = None /\ first' = None
                                                  /\ hist'.count = 0
BY DEF Fresh, Default

LEMMA CountAdds ==
  ASSUME NEW h, NEW v, NEW weight
  PROVE  RecordWeighted(h, v, weight).count = (h.count + weight) % Wrap
BY Zenon DEF RecordWeighted

LEMMA InitCounts == Init => IInv
BY WrapAssumption, NoneAssumption DEF Init, IInv, Counters, CountsTime, Default

LEMMA NextCounts == IInv /\ [Next]_vars => IInv'
<1> SUFFICES ASSUME IInv, [Next]_vars PROVE IInv'
  OBVIOUS
<1> USE DEF IInv, Counters, CountsTime
<1>1. ASSUME NEW v \in Values, NEW step \in 0..MaxStep, Record(v, step) PROVE IInv'
  <2>1. clock' \in 0..(Wrap - 1)
    <3>1. clock + step \in Int
      BY WrapAssumption, DeviceAssumption
    <3>2. QED
      BY <1>1, <3>1, InRange DEF Record
  <2>2. last' = clock'
    BY <1>1 DEF Record, LastCounter
  <2>3. CASE last = None
    <3>1. first' = clock' /\ hist'.count = hist.count
      BY <1>1, <2>3 DEF Record
    <3>2. hist.count = 0
      BY <2>3
    <3>3. (last' - first') % Wrap = 0
      BY <2>1, <2>2, <3>1, Difference
    <3>4. QED
      BY <2>1, <2>2, <3>1, <3>2, <3>3, NoneAssumption
  <2>4. CASE last # None
    <3>1. first' = first /\ hist' = RecordWeighted(hist, v, (clock' - last) % Wrap)
      BY <1>1, <2>4 DEF Record
    <3>2. hist'.count = (hist.count + ((clock' - last) % Wrap)) % Wrap
      BY <3>1, CountAdds, Zenon
    <3>3. /\ last \in 0..(Wrap - 1) /\ first \in 0..(Wrap - 1)
          /\ hist.count = (last - first) % Wrap
      BY <2>4
    <3>4. hist'.count = (clock' - first) % Wrap
      <4> DEFINE a == (last - first) % Wrap
      <4> DEFINE b == (clock' - last) % Wrap
      <4>1. (a + b) % Wrap = (clock' - first) % Wrap
        <5> HIDE DEF a, b
        <5>1. a = (last - first) % Wrap /\ b = (clock' - last) % Wrap
          BY DEF a, b
        <5>2. QED
          BY <2>1, <3>3, <5>1, Telescope
      <4>2. QED
        BY <3>2, <3>3, <4>1, Zenon
    <3>5. QED
      BY <2>1, <2>2, <3>1, <3>3, <3>4, NoneAssumption
  <2>5. QED
    BY <2>3, <2>4
<1>2. CASE ReadFails
  <2>1. CASE Fresh(version)
    BY <1>2, <2>1, NewRecorder, NoneAssumption DEF ReadFails
  <2>2. CASE UNCHANGED <<recorder, last, hist, recorded, first>>
    BY <1>2, <2>2 DEF ReadFails
  <2>3. QED
    BY <1>2, <2>1, <2>2 DEF ReadFails
<1>3. CASE WrongVersion
  <2>1. ASSUME NEW v \in Versions, Fresh(v) PROVE IInv'
    BY <1>3, <2>1, NewRecorder, NoneAssumption DEF WrongVersion
  <2>2. CASE UNCHANGED <<recorder, last, hist, recorded, first>>
    BY <1>3, <2>2 DEF WrongVersion
  <2>3. QED
    BY <1>3, <2>1, <2>2 DEF WrongVersion
<1>4. CASE DeviceReset
  BY <1>4, WrapAssumption DEF DeviceReset
<1>5. CASE UNCHANGED vars
  BY <1>5 DEF vars
<1>6. QED
  BY <1>1, <1>2, <1>3, <1>4, <1>5 DEF Next

(* Whatever is recorded, however often a read fails and the device starts  *)
(* again: _count is the clock of the last sample less that of the first.   *)
THEOREM CountsTimeAlways == Spec => []CountsTime
<1>1. IInv => CountsTime
  BY DEF IInv
<1>2. QED
  BY InitCounts, NextCounts, <1>1, PTL DEF Spec
-----------------------------------------------------------------------------
(* Weights.                                                                *)

LEMMA Remainder ==
  ASSUME NEW x \in Int
  PROVE  /\ x \div Wrap \in Int /\ x % Wrap \in 0..(Wrap - 1)
         /\ x = Wrap * (x \div Wrap) + (x % Wrap)
BY WrapAssumption, SMTT(30)

LEMMA RemainderIs ==
  ASSUME NEW x \in Int, NEW q \in Int, NEW m \in 0..(Wrap - 1), x = Wrap * q + m
  PROVE  x % Wrap = m
<1>1. Wrap \in Nat /\ Wrap >= 1 /\ m < Wrap
  BY WrapAssumption
<1>2. Wrap * q \in Int
  BY <1>1, IntProducts
<1>3. Wrap * q <= x /\ x < Wrap * q + Wrap
  BY <1>1, <1>2
<1>4. x \div Wrap = q
  BY <1>1, <1>3, Quotient
<1>5. x = Wrap * q + (x % Wrap) /\ x % Wrap \in Int
  BY <1>4, Remainder
<1>6. QED
  BY <1>2, <1>5

(* A sum may be reduced before or after something is added.                *)
LEMMA ReducedSum ==
  ASSUME NEW x \in Int, NEW y \in Int
  PROVE  ((x % Wrap) + y) % Wrap = (x + y) % Wrap
<1> DEFINE m == x % Wrap
<1> DEFINE n == (m + y) % Wrap
<1> DEFINE p == x \div Wrap
<1> DEFINE q == (m + y) \div Wrap
<1>1. p \in Int /\ m \in 0..(Wrap - 1) /\ x = Wrap * p + m
  BY Remainder
<1> HIDE DEF m, p
<1>2. q \in Int /\ n \in 0..(Wrap - 1) /\ m + y = Wrap * q + n
  BY <1>1, Remainder
<1> HIDE DEF n, q
<1>3. Wrap * p \in Int /\ Wrap * q \in Int /\ Wrap * (p + q) = Wrap * p + Wrap * q
  BY <1>1, <1>2, WrapAssumption, SMT
<1>4. x + y = Wrap * (p + q) + n
  BY <1>1, <1>2, <1>3
<1>5. (x + y) % Wrap = n
  BY <1>1, <1>2, <1>4, RemainderIs
<1>6. QED
  BY <1>5 DEF n, m

(* What was recorded: value -> weight.                                     *)
Recorded(r) == r \in [DOMAIN r -> 0..(Wrap - 1)] /\ DOMAIN r \subseteq Values
Weight(r, S) == SumFunctionOnSet(r, S) % Wrap

LEMMA RecordedFinite ==
  ASSUME NEW r, Recorded(r), NEW S \in SUBSET DOMAIN r
  PROVE  /\ IsFiniteSet(S) /\ \A v \in S : r[v] \in Int /\ r[v] \in 0..(Wrap - 1)
         /\ SumFunctionOnSet(r, S) \in Int /\ Weight(r, S) \in 0..(Wrap - 1)
<1>1. Pow(2, MaxBits) - 1 \in Int
  BY TwoGrows, BitsAssumption
<1>2. IsFiniteSet(0..(Pow(2, MaxBits) - 1))
  BY <1>1, FS_Interval
<1>3. S \subseteq 0..(Pow(2, MaxBits) - 1)
  BY DeviceAssumption DEF Recorded
<1>4. IsFiniteSet(S)
  BY <1>2, <1>3, FS_Subset
<1>5. \A v \in S : r[v] \in 0..(Wrap - 1)
  BY DEF Recorded
<1>6. \A v \in S : r[v] \in Int
  BY <1>5
<1>7. SumFunctionOnSet(r, S) \in Int
  BY <1>4, <1>6, SumType
<1>8. QED
  BY <1>4, <1>5, <1>6, <1>7, InRange DEF Weight

LEMMA WeightOfNone == ASSUME NEW r PROVE Weight(r, {}) = 0
<1>1. SumFunctionOnSet(r, {}) = 0
  BY SumEmpty
<1>2. 0 % Wrap = 0
  BY WrapAssumption, Unwrapped
<1>3. QED
  BY <1>1, <1>2 DEF Weight

LEMMA WeightUnion ==
  ASSUME NEW r, Recorded(r), NEW S \in SUBSET DOMAIN r, NEW T \in SUBSET DOMAIN r, S \cap T = {}
  PROVE  Weight(r, S \cup T) = (Weight(r, S) + Weight(r, T)) % Wrap
<1> DEFINE a == SumFunctionOnSet(r, S)
<1> DEFINE b == SumFunctionOnSet(r, T)
<1>1. /\ IsFiniteSet(S) /\ IsFiniteSet(T) /\ a \in Int /\ b \in Int
      /\ \A v \in S \cup T : r[v] \in Int
  BY RecordedFinite
<1>2. SumFunctionOnSet(r, S \cup T) = a + b
  BY <1>1, SumUnion
<1> HIDE DEF a, b
<1>3. b % Wrap \in Int
  BY <1>1, InRange
<1>4. ((a % Wrap) + (b % Wrap)) % Wrap = (a + (b % Wrap)) % Wrap
  BY <1>1, <1>3, ReducedSum
<1>5. ((b % Wrap) + a) % Wrap = (b + a) % Wrap
  BY <1>1, ReducedSum
<1>6. (b % Wrap) + a = a + (b % Wrap) /\ b + a = a + b
  BY <1>1, <1>3
<1>7. QED
  BY <1>2, <1>4, <1>5, <1>6 DEF Weight, a, b

(* Weigh, of any function.                                                 *)
Weighed(r, v, w) ==
  [u \in DOMAIN r \cup {v} |->
     ((IF u \in DOMAIN r THEN r[u] ELSE 0) + (IF u = v THEN w ELSE 0)) % Wrap]

LEMMA WeighedType ==
  ASSUME NEW r, Recorded(r), NEW v \in Values, NEW w \in 0..(Wrap - 1)
  PROVE  Recorded(Weighed(r, v, w)) /\ DOMAIN Weighed(r, v, w) = DOMAIN r \cup {v}
<1>1. \A u \in DOMAIN r : r[u] \in Int
  BY RecordedFinite
<1>2. w \in Int
  BY WrapAssumption
<1>3. ASSUME NEW u \in DOMAIN r \cup {v} PROVE Weighed(r, v, w)[u] \in 0..(Wrap - 1)
  <2> DEFINE x == (IF u \in DOMAIN r THEN r[u] ELSE 0) + (IF u = v THEN w ELSE 0)
  <2>1. x \in Int
    BY <1>1, <1>2
  <2>2. x % Wrap \in 0..(Wrap - 1)
    BY <2>1, InRange
  <2>3. QED
    BY <2>2 DEF Weighed
<1>4. DOMAIN Weighed(r, v, w) = DOMAIN r \cup {v}
  BY DEF Weighed
<1>5. Weighed(r, v, w) \in [DOMAIN r \cup {v} -> 0..(Wrap - 1)]
  BY <1>3, <1>4 DEF Weighed
<1>6. QED
  BY <1>4, <1>5 DEF Recorded

LEMMA WeightOfOthers ==
  ASSUME NEW r, Recorded(r), NEW v \in Values, NEW w \in 0..(Wrap - 1),
         NEW S \in SUBSET DOMAIN r, v \notin S
  PROVE  /\ \A u \in S : Weighed(r, v, w)[u] = r[u]
         /\ SumFunctionOnSet(Weighed(r, v, w), S) = SumFunctionOnSet(r, S)
<1>1. ASSUME NEW u \in S PROVE Weighed(r, v, w)[u] = r[u]
  <2>1. r[u] \in 0..(Wrap - 1) /\ r[u] + 0 = r[u]
    BY RecordedFinite
  <2>2. r[u] % Wrap = r[u]
    BY <2>1, Unwrapped
  <2>3. QED
    BY <2>1, <2>2 DEF Weighed
<1>2. IsFiniteSet(S) /\ \A u \in S : r[u] \in Int
  BY RecordedFinite
<1>3. SumFunctionOnSet(r, S) = SumFunctionOnSet(Weighed(r, v, w), S)
  BY <1>1, <1>2, SumSame
<1>4. QED
  BY <1>1, <1>3

LEMMA WeightWithout ==
  ASSUME NEW r, Recorded(r), NEW v \in Values, NEW w \in 0..(Wrap - 1),
         NEW S \in SUBSET DOMAIN r, v \notin S
  PROVE  Weight(Weighed(r, v, w), S) = Weight(r, S)
BY WeightOfOthers, Zenon DEF Weight

LEMMA WeightWith ==
  ASSUME NEW r, Recorded(r), NEW v \in Values, NEW w \in 0..(Wrap - 1),
         NEW S \in SUBSET (DOMAIN r \cup {v}), v \in S
  PROVE  Weight(Weighed(r, v, w), S) = (Weight(r, S \cap DOMAIN r) + w) % Wrap
<1> DEFINE q == Weighed(r, v, w)
<1> DEFINE T == S \ {v}
<1> DEFINE old == IF v \in DOMAIN r THEN r[v] ELSE 0
<1> DEFINE x == SumFunctionOnSet(r, T)
<1>1. T \in SUBSET DOMAIN r /\ v \notin T /\ S \cap DOMAIN r \in SUBSET DOMAIN r
  OBVIOUS
<1>2. Recorded(q) /\ DOMAIN q = DOMAIN r \cup {v}
  BY WeighedType
<1>3. IsFiniteSet(S) /\ \A u \in S : q[u] \in Int
  <2> HIDE DEF q
  <2>1. QED
    BY <1>2, RecordedFinite
<1>4. SumFunctionOnSet(q, S) = q[v] + SumFunctionOnSet(q, T)
  <2> HIDE DEF q
  <2>1. QED
    BY <1>3, SumRemove
<1>5. SumFunctionOnSet(q, T) = x
  BY <1>1, WeightOfOthers
<1>6. old \in Int /\ x \in Int /\ w \in Int
  BY <1>1, RecordedFinite, WrapAssumption
<1>7. q[v] = (old + w) % Wrap
  <2>1. q[v] = (old + (IF v = v THEN w ELSE 0)) % Wrap
    BY DEF Weighed
  <2>2. QED
    BY <2>1
<1>8. SumFunctionOnSet(r, S \cap DOMAIN r) = old + x
  <2>1. CASE v \in DOMAIN r
    <3>1. /\ v \in S \cap DOMAIN r /\ (S \cap DOMAIN r) \ {v} = T
          /\ IsFiniteSet(S \cap DOMAIN r) /\ \A u \in S \cap DOMAIN r : r[u] \in Int
      BY <1>1, <2>1, RecordedFinite
    <3>2. SumFunctionOnSet(r, S \cap DOMAIN r)
            = r[v] + SumFunctionOnSet(r, (S \cap DOMAIN r) \ {v})
      BY <3>1, SumRemove
    <3>3. QED
      BY <2>1, <3>1, <3>2
  <2>2. CASE v \notin DOMAIN r
    <3>1. S \cap DOMAIN r = T /\ old = 0
      BY <2>2
    <3>2. 0 + x = x
      BY <1>6
    <3>3. QED
      BY <3>1, <3>2
  <2>3. QED
    BY <2>1, <2>2
<1> HIDE DEF q, old, x, T
<1>9. (((old + w) % Wrap) + x) % Wrap = ((old + w) + x) % Wrap
  BY <1>6, ReducedSum
<1>10. (((old + x) % Wrap) + w) % Wrap = ((old + x) + w) % Wrap
  BY <1>6, ReducedSum
<1>11. (old + w) + x = (old + x) + w
  BY <1>6
<1>12. Weight(q, S) = (((old + w) % Wrap) + x) % Wrap
  BY <1>4, <1>5, <1>7 DEF Weight
<1>13. Weight(r, S \cap DOMAIN r) = (old + x) % Wrap
  BY <1>8 DEF Weight
<1>14. QED
  BY <1>9, <1>10, <1>11, <1>12, <1>13 DEF q

-----------------------------------------------------------------------------
(* Histograms.                                                             *)

Counts == 0..(Wrap - 1)
Hists == [scale : Int, offset : Int \cup {None}, buckets : Seq(Counts), count : Counts]

(* The index of the last bucket, and the count of the bucket of any index. *)
LastIndex(h) == h.offset + Len(h.buckets) - 2
Within(h, k) == h.offset # None /\ h.offset <= k /\ k <= LastIndex(h)
Count(h, k) == IF Within(h, k) THEN h.buckets[k - h.offset + 2] ELSE 0
ZeroCount(h) == IF Len(h.buckets) = 0 THEN 0 ELSE h.buckets[1]

LEMMA CountsAreInts == Counts \subseteq Int /\ 0 \in Counts
BY WrapAssumption DEF Counts

LEMMA HistFields ==
  ASSUME NEW h \in Hists
  PROVE  /\ h.scale \in Int /\ h.offset \in Int \cup {None} /\ h.buckets \in Seq(Counts)
         /\ Len(h.buckets) \in Nat /\ h.count \in Counts
         /\ \A i \in 1..Len(h.buckets) : h.buckets[i] \in Counts /\ h.buckets[i] \in Int
<1>1. /\ h.scale \in Int /\ h.offset \in Int \cup {None} /\ h.buckets \in Seq(Counts)
      /\ h.count \in Counts
  BY DEF Hists
<1>2. Len(h.buckets) \in Nat /\ \A i \in 1..Len(h.buckets) : h.buckets[i] \in Counts
  BY <1>1
<1>3. QED
  BY <1>1, <1>2, CountsAreInts

LEMMA PairUpIs ==
  ASSUME NEW s \in Seq(Counts)
  PROVE  /\ PairUp(s) \in Seq(Counts) /\ Len(PairUp(s)) = (Len(s) + 1) \div 2
         /\ \A i \in 1..((Len(s) + 1) \div 2) :
              PairUp(s)[i] = (s[2 * i - 1] + (IF 2 * i <= Len(s) THEN s[2 * i] ELSE 0)) % Wrap
<1> DEFINE n == (Len(s) + 1) \div 2
<1>1. n \in Nat /\ Len(s) \in Nat /\ \A i \in 1..n : 2 * i - 1 \in 1..Len(s)
  OBVIOUS
<1>2. \A j \in 1..Len(s) : s[j] \in Int
  <2>1. \A j \in 1..Len(s) : s[j] \in Counts
    OBVIOUS
  <2>2. QED
    BY <2>1, CountsAreInts
<1>3. ASSUME NEW i \in 1..n
      PROVE  (s[2 * i - 1] + (IF 2 * i <= Len(s) THEN s[2 * i] ELSE 0)) % Wrap \in Counts
  <2> DEFINE x == s[2 * i - 1] + (IF 2 * i <= Len(s) THEN s[2 * i] ELSE 0)
  <2>1. 2 * i <= Len(s) => 2 * i \in 1..Len(s)
    BY <1>1
  <2>2. s[2 * i - 1] \in Int /\ (IF 2 * i <= Len(s) THEN s[2 * i] ELSE 0) \in Int
    BY <1>1, <1>2, <2>1
  <2>3. x \in Int
    BY <2>2
  <2> HIDE DEF x
  <2>4. x % Wrap \in Counts
    BY <2>3, InRange DEF Counts
  <2>5. QED
    BY <2>4 DEF x
<1> HIDE DEF n
<1>4. PairUp(s) = [i \in 1..n |->
         (s[2 * i - 1] + (IF 2 * i <= Len(s) THEN s[2 * i] ELSE 0)) % Wrap]
  BY DEF PairUp, n
<1>5. PairUp(s) \in [1..n -> Counts]
  BY <1>3, <1>4
<1>6. PairUp(s) \in Seq(Counts) /\ Len(PairUp(s)) = n
  BY <1>1, <1>5
<1>7. QED
  BY <1>4, <1>6 DEF n

LEMMA ZerosAre ==
  ASSUME NEW n \in Nat
  PROVE  Zeros(n) \in Seq(Counts) /\ Len(Zeros(n)) = n /\ \A i \in 1..n : Zeros(n)[i] = 0
<1>1. 0 \in Counts
  BY WrapAssumption DEF Counts
<1>2. Zeros(n) \in [1..n -> Counts]
  BY <1>1 DEF Zeros
<1>3. QED
  BY <1>2 DEF Zeros

(* Sequences put behind each other.                                        *)
Joined(s, t, u) ==
  /\ u \in Seq(Counts) /\ Len(u) = Len(s) + Len(t)
  /\ Len(s) \in Nat /\ Len(t) \in Nat
  /\ \A i \in 1..Len(s) : u[i] = s[i]
  /\ \A i \in 1..Len(t) : u[Len(s) + i] = t[i]

LEMMA ConcatIs ==
  ASSUME NEW s \in Seq(Counts), NEW t \in Seq(Counts)
  PROVE  Joined(s, t, s \o t)
<1>1. /\ s \o t \in Seq(Counts) /\ Len(s \o t) = Len(s) + Len(t)
      /\ Len(s) \in Nat /\ Len(t) \in Nat
  OBVIOUS
<1>2. ASSUME NEW i \in 1..Len(s) PROVE (s \o t)[i] = s[i]
  BY <1>1
<1>3. ASSUME NEW i \in 1..Len(t) PROVE (s \o t)[Len(s) + i] = t[i]
  <2>1. Len(s) + i \in 1..(Len(s) + Len(t)) /\ ~(Len(s) + i <= Len(s))
    BY <1>1
  <2>2. QED
    BY <1>1, <2>1
<1>4. QED
  BY <1>1, <1>2, <1>3 DEF Joined

LEMMA Halving ==
  ASSUME NEW x \in Int
  PROVE  x % 2 \in {0, 1} /\ x \div 2 \in Int /\ x = 2 * (x \div 2) + (x % 2)
OBVIOUS

(* c is h one scale coarser.                                               *)
Halved(h, c) ==
  /\ c \in Hists /\ c.scale = h.scale - 1 /\ c.offset = h.offset \div 2 /\ c.count = h.count
  /\ Len(c.buckets) = 1 + (Len(h.buckets) + (h.offset % 2)) \div 2
  /\ c.buckets[1] = h.buckets[1]
  /\ \A k \in Int : Within(c, k) => c.buckets[k - c.offset + 2] = (Count(h, 2 * k) + Count(h, 2 * k + 1)) % Wrap

LEMMA CompressHalves ==
  ASSUME NEW h \in Hists, Len(h.buckets) >= 2, h.offset \in Int
  PROVE  Halved(h, Compress(h))
<1> DEFINE o == h.offset
<1> DEFINE b == h.buckets
<1> DEFINE r == o % 2
<1> DEFINE q == o \div 2
<1> DEFINE z == Zeros(r) \o Tail(b)
<1> DEFINE c == Compress(h)
<1>1. /\ o \in Int /\ r \in {0, 1} /\ q \in Int /\ o = 2 * q + r /\ o # None
      /\ b \in Seq(Counts) /\ Len(b) \in Nat /\ Len(b) >= 2
      /\ h.offset = o /\ h.buckets = b
  BY HistFields, Halving, NoneAssumption
<1> HIDE DEF o, b, r, q
<1>2. \A i \in 1..Len(b) : b[i] \in Counts
  BY <1>1
<1>3. /\ Tail(b) \in Seq(Counts) /\ Len(Tail(b)) = Len(b) - 1
      /\ \A i \in 1..(Len(b) - 1) : Tail(b)[i] = b[i + 1]
  BY <1>1
<1>4. Zeros(r) \in Seq(Counts) /\ Len(Zeros(r)) = r /\ \A i \in 1..r : Zeros(r)[i] = 0
  <2>1. r \in Nat
    BY <1>1
  <2>2. QED
    BY <2>1, ZerosAre
<1> DEFINE tail == Tail(b)
<1> DEFINE zeros == Zeros(r)
<1>5. /\ z \in Seq(Counts) /\ Len(z) = r + Len(b) - 1
      /\ \A i \in 1..(r + Len(b) - 1) : z[i] = IF i <= r THEN 0 ELSE b[i - r + 1]
  <2>1. /\ tail \in Seq(Counts) /\ Len(tail) = Len(b) - 1 /\ zeros \in Seq(Counts)
        /\ Len(zeros) = r /\ z = zeros \o tail
        /\ \A i \in 1..r : zeros[i] = 0
        /\ \A i \in 1..(Len(b) - 1) : tail[i] = b[i + 1]
    BY <1>3, <1>4
  <2> HIDE DEF tail, zeros
  <2>2. Joined(zeros, tail, z)
    BY <2>1, ConcatIs
  <2> HIDE DEF z
  <2>3. z \in Seq(Counts) /\ Len(z) = r + Len(b) - 1
    BY <1>1, <2>1, <2>2 DEF Joined
  <2>4. ASSUME NEW i \in 1..(r + Len(b) - 1), i <= r PROVE z[i] = 0
    <3>1. i \in 1..r
      BY <1>1, <2>4
    <3>2. z[i] = zeros[i]
      BY <2>1, <2>2, <3>1 DEF Joined
    <3>3. QED
      BY <2>1, <3>1, <3>2
  <2>5. ASSUME NEW i \in 1..(r + Len(b) - 1), i > r PROVE z[i] = b[i - r + 1]
    <3>1. i - r \in 1..(Len(b) - 1) /\ r + (i - r) = i
      BY <1>1, <2>5
    <3>2. z[r + (i - r)] = tail[i - r]
      BY <2>1, <2>2, <3>1 DEF Joined
    <3>3. QED
      BY <2>1, <3>1, <3>2
  <2>6. QED
    BY <1>1, <2>3, <2>4, <2>5
<1> HIDE DEF z, tail, zeros
<1> DEFINE n == (Len(z) + 1) \div 2
<1>6. /\ PairUp(z) \in Seq(Counts) /\ Len(PairUp(z)) = n
      /\ \A i \in 1..n : PairUp(z)[i] = (z[2 * i - 1] + (IF 2 * i <= Len(z) THEN z[2 * i] ELSE 0)) % Wrap
  BY <1>5, PairUpIs
<1>7. n \in Nat /\ n = (Len(b) + r) \div 2
  BY <1>1, <1>5
<1> HIDE DEF n
<1>8. Head(b) = b[1] /\ b[1] \in Counts
  BY <1>1, <1>2
<1> DEFINE new == <<Head(b)>> \o PairUp(z)
<1>9. /\ new \in Seq(Counts) /\ Len(new) = 1 + n /\ new[1] = b[1]
      /\ \A i \in 1..n : new[i + 1] = PairUp(z)[i]
  BY <1>6, <1>7, <1>8
<1>10. c = [h EXCEPT !.scale = @ - 1, !.offset = @ \div 2, !.buckets = new]
  <2>1. ~(Len(h.buckets) <= 1)
    BY <1>1
  <2>2. QED
    BY <2>1 DEF Compress, SecondHalf, z, o, b, r
<1> HIDE DEF new
<1>11. c = [scale |-> h.scale - 1, offset |-> q, buckets |-> new, count |-> h.count]
  BY <1>10 DEF Hists, q, o
<1> HIDE DEF c
<1>12. c \in Hists
  BY <1>1, <1>9, <1>11, HistFields DEF Hists
<1>13. ASSUME NEW k \in Int, Within(c, k)
       PROVE  c.buckets[k - c.offset + 2] = (Count(h, 2 * k) + Count(h, 2 * k + 1)) % Wrap
  <2> DEFINE i == k - q + 1
  <2>1. c.offset = q /\ c.buckets = new /\ Len(new) = 1 + n
    BY <1>9, <1>11
  <2>2. i \in 1..n /\ k - c.offset + 2 = i + 1
    BY <1>1, <1>7, <1>13, <2>1 DEF Within, LastIndex
  <2>3. new[i + 1] = (z[2 * i - 1] + (IF 2 * i <= Len(z) THEN z[2 * i] ELSE 0)) % Wrap
    BY <1>6, <1>9, <2>2
  <2>4. 2 * i - 1 \in 1..(r + Len(b) - 1) /\ i \in Int
    BY <1>1, <1>7, <2>2
  <2>5. i = k - q + 1
    OBVIOUS
  <2> HIDE DEF i
  <2>6. z[2 * i - 1] = Count(h, 2 * k)
    <3>1. z[2 * i - 1] = IF 2 * i - 1 <= r THEN 0 ELSE b[2 * i - 1 - r + 1]
      BY <1>5, <2>4
    <3>2. (2 * i - 1 <= r) <=> ~Within(h, 2 * k)
      BY <1>1, <2>4, <2>5 DEF Within, LastIndex
    <3>3. 2 * i - 1 - r + 1 = 2 * k - o + 2
      BY <1>1, <2>4, <2>5
    <3>4. QED
      BY <1>1, <3>1, <3>2, <3>3 DEF Count
  <2>7. (IF 2 * i <= Len(z) THEN z[2 * i] ELSE 0) = Count(h, 2 * k + 1)
    <3>1. (2 * i <= Len(z)) <=> Within(h, 2 * k + 1)
      BY <1>1, <1>5, <2>2, <2>4, <2>5 DEF Within, LastIndex
    <3>2. ASSUME 2 * i <= Len(z) PROVE z[2 * i] = b[(2 * k + 1) - o + 2]
      <4>1. 2 * i \in 1..(r + Len(b) - 1) /\ ~(2 * i <= r)
        BY <1>1, <1>5, <2>2, <2>4, <3>2
      <4>2. z[2 * i] = b[2 * i - r + 1]
        BY <1>5, <4>1
      <4>3. 2 * i - r + 1 = (2 * k + 1) - o + 2
        BY <1>1, <2>4, <2>5
      <4>4. QED
        BY <4>2, <4>3
    <3>3. QED
      BY <1>1, <3>1, <3>2 DEF Count
  <2>8. QED
    BY <2>1, <2>2, <2>3, <2>6, <2>7
<1>14. /\ c.scale = h.scale - 1 /\ c.offset = q /\ c.count = h.count
       /\ Len(c.buckets) = 1 + (Len(b) + r) \div 2 /\ c.buckets[1] = b[1]
  BY <1>7, <1>9, <1>11
<1>15. Halved(h, c)
  BY <1>12, <1>13, <1>14 DEF Halved, o, b, r, q
<1>16. QED
  BY <1>15 DEF c

(* Every count of the coarser histogram is a sum of two.                   *)
LEMMA HalvedIs ==
  ASSUME NEW h \in Hists, Len(h.buckets) >= 2, h.offset \in Int, NEW c, Halved(h, c)
  PROVE  /\ c.offset \in Int /\ Len(c.buckets) >= 2 /\ Len(c.buckets) <= Len(h.buckets)
         /\ Len(c.buckets) \in Nat
         /\ LastIndex(c) = LastIndex(h) \div 2 /\ LastIndex(h) \in Int
         /\ ZeroCount(c) = ZeroCount(h)
         /\ \A k \in Int : Count(c, k) = (Count(h, 2 * k) + Count(h, 2 * k + 1)) % Wrap
<1> DEFINE o == h.offset
<1> DEFINE r == o % 2
<1> DEFINE q == o \div 2
<1> DEFINE n == Len(h.buckets)
<1>1. /\ o \in Int /\ r \in {0, 1} /\ q \in Int /\ o = 2 * q + r
      /\ n \in Nat /\ n >= 2 /\ h.offset = o /\ Len(h.buckets) = n
  BY HistFields, Halving
<1> DEFINE m == Len(c.buckets)
<1>2. c.offset = q /\ m = 1 + (n + r) \div 2 /\ Len(c.buckets) = m /\ c.buckets[1] = h.buckets[1]
  BY DEF Halved
<1> HIDE DEF o, r, q, n, m
<1>3. /\ c.offset \in Int /\ Len(c.buckets) >= 2 /\ Len(c.buckets) <= Len(h.buckets)
      /\ Len(c.buckets) \in Nat
  BY <1>1, <1>2
<1>4. LastIndex(c) = LastIndex(h) \div 2 /\ LastIndex(h) \in Int
  BY <1>1, <1>2 DEF LastIndex
<1>5. ZeroCount(c) = ZeroCount(h)
  BY <1>1, <1>2, <1>3 DEF ZeroCount
<1>6. ASSUME NEW k \in Int PROVE Count(c, k) = (Count(h, 2 * k) + Count(h, 2 * k + 1)) % Wrap
  <2>1. CASE Within(c, k)
    BY <2>1 DEF Halved, Count
  <2>2. CASE ~Within(c, k)
    <3>1. ~Within(h, 2 * k) /\ ~Within(h, 2 * k + 1)
      <4>1. k < q \/ k > LastIndex(c)
        BY <1>2, <1>3, <1>4, <2>2, NoneAssumption DEF Within
      <4>2. LastIndex(h) \in Int /\ LastIndex(c) = LastIndex(h) \div 2
        BY <1>4
      <4>3. CASE k < q
        BY <1>1, <4>2, <4>3 DEF Within
      <4>4. CASE k > LastIndex(c)
        BY <1>1, <4>2, <4>4 DEF Within
      <4>5. QED
        BY <4>1, <4>3, <4>4
    <3>2. (0 + 0) % Wrap = 0
      BY WrapAssumption, Unwrapped
    <3>3. QED
      BY <2>2, <3>1, <3>2 DEF Count
  <2>3. QED
    BY <2>1, <2>2
<1>7. QED
  BY <1>3, <1>4, <1>5, <1>6

-----------------------------------------------------------------------------
(* What a histogram tells of what was recorded.                            *)

Positive(r) == DOMAIN r \ {0}
AtIndex(r, s, k) == {v \in Positive(r) : IndexForValue(s, v) = k}

Shaped(h) ==
  /\ h \in Hists /\ Len(h.buckets) <= MaxSize /\ h.scale \in CoarsestScale..MaxScale
  /\ h.offset = None <=> Len(h.buckets) <= 1

(* Every value is in one of the buckets ...                                *)
Inside(h, r) == \A v \in Positive(r) : Within(h, IndexForValue(h.scale, v))

(* ... there are no more than it takes ...                                 *)
Ends(h, r) ==
  h.offset # None =>
    \E u, w \in Positive(r) : /\ h.offset = IndexForValue(h.scale, u)
                              /\ LastIndex(h) = IndexForValue(h.scale, w)

(* ... and each holds the weight of its values.                            *)
Exact(h, r) ==
  /\ \A k \in Int : Count(h, k) = Weight(r, AtIndex(r, h.scale, k))
  /\ ZeroCount(h) = Weight(r, DOMAIN r \cap {0})

Tells(h, r) == Shaped(h) /\ Inside(h, r) /\ Ends(h, r) /\ Exact(h, r)

(* The values do not fit into the positive buckets at scale s.             *)
TooFine(s, values) ==
  \E u, w \in values \ {0} : IndexForValue(s, w) - IndexForValue(s, u) + 1 > MaxSize - 1

LEMMA ValuesRecordable ==
  /\ \A v \in Values : v # 0 => v \in Recordable
  /\ \A r : Recorded(r) => Positive(r) \subseteq Recordable
<1>1. Pow(2, MaxBits) - 1 \in Int
  BY TwoGrows, BitsAssumption
<1>2. ASSUME NEW v \in Values, v # 0 PROVE v \in Recordable
  <2>1. v \in 0..(Pow(2, MaxBits) - 1)
    BY DeviceAssumption
  <2>2. QED
    BY <1>1, <1>2, <2>1 DEF Recordable
<1>3. QED
  BY <1>2 DEF Positive, Recorded

LEMMA CompressTells ==
  ASSUME NEW r, Recorded(r), NEW h, Tells(h, r), h.offset # None, h.scale > CoarsestScale
  PROVE  /\ Tells(Compress(h), r)
         /\ Compress(h).scale = h.scale - 1
<1> DEFINE c == Compress(h)
<1> DEFINE s == h.scale
<1>1. /\ h \in Hists /\ Len(h.buckets) <= MaxSize /\ s \in CoarsestScale..MaxScale
      /\ Len(h.buckets) \in Nat /\ h.offset \in Int \cup {None} /\ s \in Int
      /\ ~(Len(h.buckets) <= 1)
  BY HistFields DEF Tells, Shaped
<1>2. h.offset \in Int /\ Len(h.buckets) >= 2 /\ MaxSize \in Nat
  BY <1>1, SizeAssumption
<1>3. Halved(h, c)
  BY <1>1, <1>2, CompressHalves
<1> HIDE DEF c
<1>4. /\ c.offset \in Int /\ Len(c.buckets) >= 2 /\ Len(c.buckets) <= Len(h.buckets)
      /\ Len(c.buckets) \in Nat
      /\ LastIndex(c) = LastIndex(h) \div 2 /\ LastIndex(h) \in Int
      /\ ZeroCount(c) = ZeroCount(h)
      /\ \A k \in Int : Count(c, k) = (Count(h, 2 * k) + Count(h, 2 * k + 1)) % Wrap
  BY <1>1, <1>2, <1>3, HalvedIs
<1>5. c \in Hists /\ c.scale = s - 1 /\ c.offset = h.offset \div 2
  BY <1>3 DEF Halved
<1>6. /\ MaxScale \in Int /\ CoarsestScale \in Int /\ s > CoarsestScale /\ s <= MaxScale
      /\ s - 1 \in Int /\ s - 1 < MaxScale /\ (s - 1) + 1 = s
  BY <1>1, ScaleAssumption, BitsAssumption
<1>7. ASSUME NEW v \in Positive(r)
      PROVE  /\ IndexForValue(c.scale, v) = IndexForValue(s, v) \div 2
             /\ IndexForValue(s, v) \in Int
  <2>1. v \in Recordable
    BY ValuesRecordable
  <2>2. IndexForValue(s - 1, v) = IndexForValue((s - 1) + 1, v) \div 2
    BY <1>6, <2>1, IndexHalves
  <2>3. IndexForValue(s, v) \in Int
    BY <1>6, <2>1, IndexType
  <2>4. QED
    BY <1>5, <1>6, <2>2, <2>3
<1>8. Shaped(c)
  <2>1. c.offset # None
    BY <1>4, NoneAssumption
  <2>2. Len(c.buckets) <= MaxSize /\ ~(Len(c.buckets) <= 1)
    <3>1. \A m, n \in Nat : m >= 2 /\ m <= n /\ n <= MaxSize => m <= MaxSize /\ ~(m <= 1)
      BY <1>2
    <3>2. QED
      BY <1>1, <1>4, <3>1
  <2>3. c.scale \in CoarsestScale..MaxScale
    BY <1>5, <1>6
  <2>4. QED
    BY <1>5, <2>1, <2>2, <2>3 DEF Shaped
<1>9. Inside(c, r)
  <2> SUFFICES ASSUME NEW v \in Positive(r) PROVE Within(c, IndexForValue(c.scale, v))
    BY DEF Inside
  <2> DEFINE i == IndexForValue(s, v)
  <2>1. IndexForValue(c.scale, v) = i \div 2 /\ i \in Int
    BY <1>7
  <2>2. h.offset <= i /\ i <= LastIndex(h)
    BY DEF Tells, Inside, Within
  <2> HIDE DEF i
  <2>3. h.offset \div 2 <= i \div 2 /\ i \div 2 <= LastIndex(h) \div 2
    <3>1. \A m, n \in Int : m <= n => m \div 2 <= n \div 2
      OBVIOUS
    <3>2. QED
      BY <1>2, <1>4, <2>1, <2>2, <3>1
  <2>4. QED
    BY <1>4, <1>5, <2>1, <2>3, NoneAssumption DEF Within
<1>10. Ends(c, r)
  <2>1. PICK u \in Positive(r), w \in Positive(r) :
          h.offset = IndexForValue(s, u) /\ LastIndex(h) = IndexForValue(s, w)
    BY DEF Tells, Ends
  <2>2. c.offset = IndexForValue(c.scale, u) /\ LastIndex(c) = IndexForValue(c.scale, w)
    BY <1>4, <1>5, <1>7, <2>1
  <2>3. QED
    BY <2>2 DEF Ends
<1>11. Exact(c, r)
  <2>1. ASSUME NEW k \in Int PROVE Count(c, k) = Weight(r, AtIndex(r, c.scale, k))
    <3> DEFINE S == AtIndex(r, s, 2 * k)
    <3> DEFINE T == AtIndex(r, s, 2 * k + 1)
    <3>1. 2 * k \in Int /\ 2 * k + 1 \in Int
      OBVIOUS
    <3>2. Count(h, 2 * k) = Weight(r, S) /\ Count(h, 2 * k + 1) = Weight(r, T)
      BY <3>1 DEF Tells, Exact
    <3>3. S \in SUBSET DOMAIN r /\ T \in SUBSET DOMAIN r
      BY DEF AtIndex, Positive
    <3>4. S \cap T = {}
      <4>1. 2 * k # 2 * k + 1
        OBVIOUS
      <4>2. QED
        BY <4>1 DEF AtIndex
    <3>5. \A i \in Int : i \div 2 = k <=> (i = 2 * k \/ i = 2 * k + 1)
      OBVIOUS
    <3>6. AtIndex(r, c.scale, k) = S \cup T
      BY <1>7, <3>5 DEF AtIndex
    <3> HIDE DEF S, T
    <3>7. Weight(r, S \cup T) = (Weight(r, S) + Weight(r, T)) % Wrap
      BY <3>3, <3>4, WeightUnion
    <3>8. Count(c, k) = (Count(h, 2 * k) + Count(h, 2 * k + 1)) % Wrap
      BY <1>4
    <3>9. QED
      BY <3>2, <3>6, <3>7, <3>8
  <2>2. ZeroCount(c) = Weight(r, DOMAIN r \cap {0})
    BY <1>4 DEF Tells, Exact
  <2>3. QED
    BY <2>1, <2>2 DEF Exact
<1>12. Tells(c, r) /\ c.scale = h.scale - 1
  BY <1>5, <1>8, <1>9, <1>10, <1>11 DEF Tells
<1>13. QED
  BY <1>12 DEF c

LEMMA IndexOfZero == ASSUME NEW s PROVE IndexForValue(s, 0) = None
<1>1. ~(0 > 0)
  OBVIOUS
<1>2. QED
  BY <1>1 DEF IndexForValue

(* The room v needs in front of the buckets, and in all.                   *)
LEMMA NewLengthIs ==
  ASSUME NEW h \in Hists, h.offset \in Int, Len(h.buckets) >= 2, NEW v,
         IndexForValue(h.scale, v) \in Int
  PROVE  /\ IndexForValue(h.scale, v) < h.offset =>
              /\ Shift(h, v) = h.offset - IndexForValue(h.scale, v)
              /\ NewLength(h, v) = Len(h.buckets) + h.offset - IndexForValue(h.scale, v)
         /\ IndexForValue(h.scale, v) >= h.offset =>
              /\ Shift(h, v) = 0
              /\ NewLength(h, v) = AtLeast(IndexForValue(h.scale, v) - h.offset + 2, Len(h.buckets))
<1> DEFINE i == IndexForValue(h.scale, v)
<1> DEFINE o == h.offset
<1> DEFINE n == Len(h.buckets)
<1>1. i \in Int /\ o \in Int /\ n \in Nat /\ n >= 2 /\ At(h, v) = i - o + 1
  BY HistFields DEF At
<1>2. /\ Shift(h, v) = IF At(h, v) < 1 THEN 1 - At(h, v) ELSE 0
      /\ NewLength(h, v) = AtLeast(1 + AtLeast(At(h, v), 1), n) + Shift(h, v)
  BY DEF Shift, NewLength
<1> HIDE DEF i, o, n
<1>3. i < o => Shift(h, v) = o - i /\ NewLength(h, v) = n + o - i
  BY <1>1, <1>2 DEF AtLeast
<1>4. i >= o => Shift(h, v) = 0 /\ NewLength(h, v) = AtLeast(i - o + 2, n)
  BY <1>1, <1>2 DEF AtLeast
<1>5. QED
  BY <1>3, <1>4 DEF i, o, n

LEMMA NotFitting ==
  ASSUME NEW r, Recorded(r), NEW h, Tells(h, r), NEW v \in Values, ~Fits(h, v)
  PROVE  h.offset # None /\ TooFine(h.scale, DOMAIN r \cup {v})
<1> DEFINE i == IndexForValue(h.scale, v)
<1>1. i # None /\ h.offset # None /\ ~(NewLength(h, v) <= MaxSize)
  BY DEF Fits
<1>2. v # 0
  BY <1>1, IndexOfZero
<1>3. /\ h \in Hists /\ h.offset \in Int /\ Len(h.buckets) \in Nat /\ Len(h.buckets) >= 2
      /\ h.scale \in Int /\ h.scale <= MaxScale /\ Len(h.buckets) <= MaxSize
      /\ MaxSize \in Nat
  BY <1>1, HistFields, SizeAssumption, ScaleAssumption, BitsAssumption DEF Tells, Shaped
<1>4. i \in Int
  BY <1>2, <1>3, ValuesRecordable, IndexType
<1>5. PICK u \in Positive(r), w \in Positive(r) :
        h.offset = IndexForValue(h.scale, u) /\ LastIndex(h) = IndexForValue(h.scale, w)
  BY <1>1 DEF Tells, Ends
<1>6. v \in (DOMAIN r \cup {v}) \ {0} /\ u \in (DOMAIN r \cup {v}) \ {0} /\ w \in (DOMAIN r \cup {v}) \ {0}
  BY <1>2 DEF Positive
<1>7. CASE i < h.offset
  <2>1. NewLength(h, v) = Len(h.buckets) + h.offset - i
    BY <1>3, <1>4, <1>7, NewLengthIs
  <2> HIDE DEF i
  <2>2. IndexForValue(h.scale, w) - i + 1 > MaxSize - 1
    BY <1>1, <1>3, <1>4, <1>5, <2>1 DEF LastIndex
  <2>3. QED
    BY <1>1, <1>6, <2>2 DEF TooFine, i
<1>8. CASE i >= h.offset
  <2>1. NewLength(h, v) = AtLeast(i - h.offset + 2, Len(h.buckets))
    BY <1>3, <1>4, <1>8, NewLengthIs
  <2> HIDE DEF i
  <2>2. i - IndexForValue(h.scale, u) + 1 > MaxSize - 1
    BY <1>1, <1>3, <1>4, <1>5, <2>1 DEF AtLeast
  <2>3. QED
    BY <1>1, <1>6, <2>2 DEF TooFine, i
<1>9. QED
  BY <1>3, <1>4, <1>7, <1>8

LEMMA FitsAtCoarsest ==
  ASSUME NEW r, Recorded(r), NEW h, Tells(h, r), NEW v \in Values, h.scale = CoarsestScale
  PROVE  Fits(h, v)
<1> SUFFICES ASSUME ~Fits(h, v) PROVE FALSE
  OBVIOUS
<1>1. PICK u \in (DOMAIN r \cup {v}) \ {0}, w \in (DOMAIN r \cup {v}) \ {0} :
        IndexForValue(h.scale, w) - IndexForValue(h.scale, u) + 1 > MaxSize - 1
  BY NotFitting DEF TooFine
<1>2. u \in Recordable /\ w \in Recordable
  BY ValuesRecordable DEF Positive
<1>3. IndexForValue(h.scale, u) \in {-1, 0} /\ IndexForValue(h.scale, w) \in {-1, 0}
  BY <1>2, IndexAtCoarsest
<1>4. QED
  BY <1>1, <1>3, SizeAssumption

-----------------------------------------------------------------------------
(* resize_to_fit: the loop.                                                *)

(* Closed under Compress.                                                  *)
Compressible == {g \in Hists : Len(g.buckets) > 1 => g.offset \in Int}

LEMMA CompressType == ASSUME NEW g \in Compressible PROVE Compress(g) \in Compressible
<1>1. g \in Hists /\ g.scale \in Int /\ Len(g.buckets) \in Nat
  BY HistFields DEF Compressible
<1>2. CASE Len(g.buckets) <= 1
  <2> DEFINE c == [g EXCEPT !.scale = @ - 1]
  <2>1. Compress(g) = c
    BY <1>2 DEF Compress
  <2>2. c = [scale |-> g.scale - 1, offset |-> g.offset, buckets |-> g.buckets, count |-> g.count]
    BY <1>1 DEF Hists
  <2> HIDE DEF c
  <2>3. c \in Hists /\ Len(c.buckets) = Len(g.buckets) /\ c.offset = g.offset
    BY <1>1, <2>2, HistFields DEF Hists
  <2>4. QED
    BY <2>1, <2>3 DEF Compressible
<1>3. CASE ~(Len(g.buckets) <= 1)
  <2>1. Len(g.buckets) >= 2 /\ g.offset \in Int
    BY <1>1, <1>3 DEF Compressible
  <2>2. Halved(g, Compress(g))
    BY <1>1, <2>1, CompressHalves
  <2> DEFINE c == Compress(g)
  <2> HIDE DEF c
  <2>3. c \in Hists /\ c.offset = g.offset \div 2
    BY <2>2 DEF Halved, c
  <2>4. c.offset \in Int
    BY <2>1, <2>3
  <2>5. QED
    BY <2>3, <2>4 DEF Compressible, c
<1>4. QED
  BY <1>2, <1>3

(* h, compressed any number of times.                                      *)
Compressed(h) == CHOOSE f : f = [n \in Nat |-> IF n = 0 THEN h ELSE Compress(f[n - 1])]

LEMMA CompressedIs ==
  ASSUME NEW h \in Compressible
  PROVE  /\ Compressed(h)[0] = h
         /\ \A n \in Nat : Compressed(h)[n + 1] = Compress(Compressed(h)[n])
<1> DEFINE Is(f) == f = [n \in Nat |-> IF n = 0 THEN h ELSE Compress(f[n - 1])]
<1> DEFINE step == [q \in Compressible \X Nat |-> Compress(q[1])]
<1>1. \E f : Is(f)
  <2>1. step \in [Compressible \X Nat -> Compressible]
    BY CompressType
  <2>2. \A g \in Compressible, n \in Nat : step[<<g, n>>] = Compress(g)
    OBVIOUS
  <2> HIDE DEF step
  <2>3. PICK f : IsRecursion(f, Compressible, h, step)
    BY <2>1, NatRec
  <2>4. /\ f \in [Nat -> Compressible] /\ f[0] = h
        /\ \A n \in Nat : f[n + 1] = step[<<f[n], n + 1>>]
    BY <2>3, Zenon DEF IsRecursion
  <2>5. ASSUME NEW n \in Nat, n # 0 PROVE f[n] = Compress(f[n - 1])
    <3>1. n - 1 \in Nat /\ (n - 1) + 1 = n /\ (n - 1) + 1 \in Nat
      BY <2>5
    <3>2. f[n - 1] \in Compressible
      BY <2>4, <3>1
    <3>3. f[(n - 1) + 1] = step[<<f[n - 1], (n - 1) + 1>>]
      BY <2>4, <3>1, Zenon
    <3>4. step[<<f[n - 1], (n - 1) + 1>>] = Compress(f[n - 1])
      BY <2>2, <3>1, <3>2, Zenon
    <3>5. QED
      BY <3>1, <3>3, <3>4
  <2>6. f = [n \in Nat |-> IF n = 0 THEN h ELSE Compress(f[n - 1])]
    BY <2>4, <2>5
  <2>7. QED
    BY <2>6
<1> DEFINE f == Compressed(h)
<1>2. Is(f)
  BY <1>1 DEF Compressed
<1> HIDE DEF f
<1>3. f[0] = h
  BY <1>2
<1>4. ASSUME NEW n \in Nat PROVE f[n + 1] = Compress(f[n])
  <2>1. n + 1 \in Nat /\ n + 1 # 0 /\ (n + 1) - 1 = n
    OBVIOUS
  <2>2. QED
    BY <1>2, <2>1
<1>5. QED
  BY <1>3, <1>4 DEF f

(* The value first fits after n compressions.                              *)
FirstFits(h, v, n) ==
  /\ Fits(Compressed(h)[n], v)
  /\ \A m \in 0..(n - 1) : ~Fits(Compressed(h)[m], v)
Fitted(h, v) ==
  Compressed(h)[CHOOSE n \in 0..(h.scale - CoarsestScale) : FirstFits(h, v, n)]

(* As long as it does not fit, the histogram tells what was recorded, and  *)
(* was too fine.                                                           *)
LEMMA Coarsening ==
  ASSUME NEW r, Recorded(r), NEW h, Tells(h, r), NEW v \in Values, NEW n \in Nat,
         n <= h.scale - CoarsestScale, \A m \in 0..(n - 1) : ~Fits(Compressed(h)[m], v)
  PROVE  /\ Tells(Compressed(h)[n], r) /\ Compressed(h)[n].scale = h.scale - n
         /\ n > 0 => TooFine(Compressed(h)[n].scale + 1, DOMAIN r \cup {v})
<1> DEFINE f == Compressed(h)
<1>1. h \in Hists /\ h.scale \in Int /\ CoarsestScale \in Int /\ h \in Compressible
  <2>1. h \in Hists /\ h.scale \in Int /\ CoarsestScale \in Int
    BY HistFields, BitsAssumption DEF Tells, Shaped
  <2>2. Len(h.buckets) > 1 => h.offset \in Int
    BY HistFields, <2>1 DEF Tells, Shaped
  <2>3. QED
    BY <2>1, <2>2 DEF Compressible
<1>2. f[0] = h /\ \A m \in Nat : f[m + 1] = Compress(f[m])
  BY <1>1, CompressedIs
<1> DEFINE Holds(m) == /\ Tells(f[m], r) /\ f[m].scale = h.scale - m
                       /\ m > 0 => TooFine(f[m].scale + 1, DOMAIN r \cup {v})
<1> DEFINE N == {m \in Nat : m <= n => Holds(m)}
<1>3. \A m \in 0..(n - 1) : ~Fits(f[m], v)
  OBVIOUS
<1> HIDE DEF f
<1>4. 0 \in N
  BY <1>1, <1>2
<1>5. ASSUME NEW m \in N PROVE m + 1 \in N
  <2> SUFFICES ASSUME m + 1 <= n PROVE Holds(m + 1)
    OBVIOUS
  <2>1. m \in Nat /\ m \in 0..(n - 1) /\ Tells(f[m], r) /\ f[m].scale = h.scale - m
    OBVIOUS
  <2>2. f[m].offset # None /\ TooFine(f[m].scale, DOMAIN r \cup {v})
    BY <1>3, <2>1, NotFitting
  <2>3. f[m].scale > CoarsestScale
    BY <1>1, <2>1
  <2>4. Tells(Compress(f[m]), r) /\ Compress(f[m]).scale = f[m].scale - 1
    BY <2>1, <2>2, <2>3, CompressTells
  <2>5. f[m + 1] = Compress(f[m])
    BY <1>2, <2>1
  <2>6. f[m + 1].scale = h.scale - (m + 1) /\ f[m + 1].scale + 1 = f[m].scale
    BY <1>1, <2>1, <2>4, <2>5
  <2>7. QED
    BY <2>2, <2>4, <2>5, <2>6
<1>6. N = Nat
  <2> HIDE DEF N
  <2>1. N \in SUBSET Nat
    BY DEF N
  <2>2. QED
    BY <1>4, <1>5, <2>1, NatInd
<1>7. Holds(n)
  <2>1. n \in N
    <3> HIDE DEF N
    <3>1. QED
      BY <1>6
  <2>2. n <= n
    OBVIOUS
  <2> HIDE DEF Holds
  <2>3. QED
    BY <2>1, <2>2
<1>8. QED
  BY <1>7 DEF f

LEMMA FittedTells ==
  ASSUME NEW r, Recorded(r), NEW h, Tells(h, r), NEW v \in Values
  PROVE  /\ Tells(Fitted(h, v), r) /\ Fits(Fitted(h, v), v)
         /\ Fitted(h, v) = h \/ TooFine(Fitted(h, v).scale + 1, DOMAIN r \cup {v})
<1> DEFINE f == Compressed(h)
<1> DEFINE bound == h.scale - CoarsestScale
<1>1. h.scale \in Int /\ CoarsestScale \in Int /\ bound \in Nat
  BY BitsAssumption, ScaleAssumption DEF Tells, Shaped
<1>2. \E n \in 0..bound : FirstFits(h, v, n)
  <2> DEFINE N == {n \in Nat : n <= bound + 1 =>
                     \/ \E k \in 0..(n - 1) : FirstFits(h, v, k)
                     \/ \A m \in 0..(n - 1) : ~Fits(f[m], v)}
  <2> HIDE DEF bound
  <2>1. 0 \in N
    OBVIOUS
  <2>2. ASSUME NEW n \in N PROVE n + 1 \in N
    <3> SUFFICES ASSUME n + 1 <= bound + 1
                 PROVE  \/ \E k \in 0..((n + 1) - 1) : FirstFits(h, v, k)
                        \/ \A m \in 0..((n + 1) - 1) : ~Fits(f[m], v)
      OBVIOUS
    <3>1. n \in Nat /\ n <= bound + 1 /\ (n + 1) - 1 = n /\ 0..(n - 1) \subseteq 0..n /\ n \in 0..n
          /\ \A m \in 0..n : m = n \/ m \in 0..(n - 1)
      BY <1>1
    <3>2. CASE \E k \in 0..(n - 1) : FirstFits(h, v, k)
      BY <3>1, <3>2
    <3>3. CASE \A m \in 0..(n - 1) : ~Fits(f[m], v)
      <4>1. Fits(f[n], v) => FirstFits(h, v, n)
        BY <3>3 DEF FirstFits
      <4> HIDE DEF f
      <4>2. QED
        BY <3>1, <3>3, <4>1
    <3>4. QED
      BY <3>1, <3>2, <3>3
  <2>3. N = Nat
    <3> HIDE DEF N
    <3>1. N \in SUBSET Nat
      BY DEF N
    <3>2. QED
      BY <2>1, <2>2, <3>1, NatInd
  <2>4. bound + 1 \in Nat /\ (bound + 1) - 1 = bound
    BY <1>1
  <2>5. CASE \E k \in 0..bound : FirstFits(h, v, k)
    BY <2>5
  <2>6. CASE \A m \in 0..bound : ~Fits(f[m], v)
    <3>1. bound <= h.scale - CoarsestScale /\ \A m \in 0..(bound - 1) : ~Fits(Compressed(h)[m], v)
      BY <1>1, <2>6 DEF bound
    <3>2. Tells(f[bound], r) /\ f[bound].scale = h.scale - bound
      BY <1>1, <3>1, Coarsening
    <3>3. f[bound].scale = CoarsestScale
      BY <1>1, <3>2 DEF bound
    <3>4. Fits(f[bound], v)
      BY <3>2, <3>3, FitsAtCoarsest
    <3>5. bound \in 0..bound
      BY <1>1
    <3>6. QED
      BY <2>6, <3>4, <3>5
  <2>7. QED
    BY <2>3, <2>4, <2>5, <2>6
<1> DEFINE n == CHOOSE n \in 0..bound : FirstFits(h, v, n)
<1>3. n \in 0..bound /\ FirstFits(h, v, n)
  BY <1>2
<1>4. Fitted(h, v) = f[n]
  BY DEF Fitted
<1> HIDE DEF n
<1>5. /\ n \in Nat /\ n <= h.scale - CoarsestScale
      /\ \A m \in 0..(n - 1) : ~Fits(Compressed(h)[m], v)
  BY <1>1, <1>3 DEF FirstFits
<1>6. /\ Tells(f[n], r) /\ (n > 0 => TooFine(f[n].scale + 1, DOMAIN r \cup {v}))
  BY <1>5, Coarsening
<1>7. Fits(f[n], v)
  BY <1>3 DEF FirstFits
<1>8. CASE n = 0
  <2>1. h \in Compressible
    BY HistFields DEF Tells, Shaped, Compressible
  <2>2. f[0] = h
    BY <2>1, CompressedIs
  <2>3. QED
    BY <1>4, <1>6, <1>7, <1>8, <2>2
<1>9. CASE n # 0
  <2>1. n > 0
    BY <1>5, <1>9
  <2>2. QED
    BY <1>4, <1>6, <1>7, <2>1
<1>10. QED
  BY <1>8, <1>9

LEMMA ResizeCases ==
  ASSUME NEW h, NEW v
  PROVE  LET g == Fitted(h, v)
             i == IndexForValue(g.scale, v)
         IN  /\ i = None => ResizeToFit(h, v) = [h |-> g, i |-> 0]
             /\ i # None /\ g.offset = None =>
                  ResizeToFit(h, v) = [h |-> [g EXCEPT !.offset = i], i |-> 1]
             /\ i # None /\ g.offset # None =>
                  ResizeToFit(h, v) =
                    [h |-> IF Shift(g, v) = 0 THEN g
                           ELSE [g EXCEPT !.offset = @ - Shift(g, v),
                                          !.buckets = <<Head(@)>> \o Zeros(Shift(g, v)) \o Tail(@)],
                     i |-> At(g, v) + Shift(g, v)]
<1> DEFINE g == Fitted(h, v)
<1> DEFINE i == IndexForValue(g.scale, v)
<1>1. ResizeToFit(h, v) =
        CASE i = None -> [h |-> g, i |-> 0]
          [] i # None /\ g.offset = None -> [h |-> [g EXCEPT !.offset = i], i |-> 1]
          [] i # None /\ g.offset # None ->
               [h |-> IF Shift(g, v) = 0 THEN g
                      ELSE [g EXCEPT !.offset = @ - Shift(g, v),
                                     !.buckets = <<Head(@)>> \o Zeros(Shift(g, v)) \o Tail(@)],
                i |-> At(g, v) + Shift(g, v)]
  BY DEF ResizeToFit, Fitted, FirstFits, Compressed
<1> HIDE DEF g, i
<1>2. QED
  BY <1>1 DEF g, i

-----------------------------------------------------------------------------
(* Room in front and behind, and the weight that is added.                 *)

LEMMA ShiftedBuckets ==
  ASSUME NEW b \in Seq(Counts), Len(b) >= 2, NEW n \in Nat
  PROVE  LET new == <<Head(b)>> \o Zeros(n) \o Tail(b)
         IN  /\ new \in Seq(Counts) /\ Len(new) = Len(b) + n /\ new[1] = b[1]
             /\ \A i \in 2..(n + 1) : new[i] = 0
             /\ \A i \in (n + 2)..(Len(b) + n) : new[i] = b[i - n]
<1> DEFINE tail == Tail(b)
<1> DEFINE zeros == Zeros(n)
<1> DEFINE head == <<Head(b)>>
<1> DEFINE front == head \o zeros
<1> DEFINE new == front \o tail
<1>1. Len(b) \in Nat /\ b[1] \in Counts
  OBVIOUS
<1>2. /\ tail \in Seq(Counts) /\ Len(tail) = Len(b) - 1
      /\ \A i \in 1..(Len(b) - 1) : tail[i] = b[i + 1]
  BY <1>1
<1>3. zeros \in Seq(Counts) /\ Len(zeros) = n /\ \A i \in 1..n : zeros[i] = 0
  BY ZerosAre
<1>4. head \in Seq(Counts) /\ Len(head) = 1 /\ head[1] = b[1]
  BY <1>1
<1> SUFFICES /\ new \in Seq(Counts) /\ Len(new) = Len(b) + n /\ new[1] = b[1]
             /\ \A i \in 2..(n + 1) : new[i] = 0
             /\ \A i \in (n + 2)..(Len(b) + n) : new[i] = b[i - n]
  OBVIOUS
<1> HIDE DEF head, tail, zeros
<1>5. /\ front \in Seq(Counts) /\ Len(front) = 1 + n
      /\ \A i \in 1..1 : front[i] = head[i]
      /\ \A i \in 1..n : front[1 + i] = zeros[i]
  <2>1. Joined(head, zeros, front)
    BY <1>3, <1>4, ConcatIs
  <2> HIDE DEF front
  <2>2. QED
    BY <1>3, <1>4, <2>1 DEF Joined
<1> HIDE DEF front
<1>6. /\ new \in Seq(Counts) /\ Len(new) = (1 + n) + (Len(b) - 1)
      /\ \A i \in 1..(1 + n) : new[i] = front[i]
      /\ \A i \in 1..(Len(b) - 1) : new[(1 + n) + i] = tail[i]
  <2>1. Joined(front, tail, new)
    BY <1>2, <1>5, ConcatIs
  <2> HIDE DEF new
  <2>2. QED
    BY <1>2, <1>5, <2>1 DEF Joined
<1> HIDE DEF new
<1>7. Len(new) = Len(b) + n /\ new[1] = b[1]
  <2>1. 1 \in 1..1 /\ 1 \in 1..(1 + n)
    OBVIOUS
  <2>2. new[1] = b[1]
    BY <1>4, <1>5, <1>6, <2>1
  <2>3. QED
    BY <1>1, <1>6, <2>2
<1>8. ASSUME NEW i \in 2..(n + 1) PROVE new[i] = 0
  <2>1. i - 1 \in 1..n /\ 1 + (i - 1) = i /\ i \in 1..(1 + n)
    OBVIOUS
  <2>2. front[1 + (i - 1)] = zeros[i - 1]
    BY <1>5, <2>1
  <2>3. QED
    BY <1>3, <1>6, <2>1, <2>2
<1>9. ASSUME NEW i \in (n + 2)..(Len(b) + n) PROVE new[i] = b[i - n]
  <2>1. /\ i - (1 + n) \in 1..(Len(b) - 1) /\ (1 + n) + (i - (1 + n)) = i
        /\ (i - (1 + n)) + 1 = i - n
    BY <1>1
  <2>2. new[(1 + n) + (i - (1 + n))] = tail[i - (1 + n)]
    BY <1>6, <2>1
  <2>3. tail[i - (1 + n)] = b[(i - (1 + n)) + 1]
    BY <1>2, <2>1
  <2>4. QED
    BY <2>1, <2>2, <2>3
<1>10. QED
  BY <1>6, <1>7, <1>8, <1>9

(* What record_weighted does to the buckets: i is from 0.                  *)
Filled(b, i, w) ==
  LET missing == i + 1 - Len(b)
      grown == b \o (IF missing > 0 THEN Zeros(missing) ELSE <<>>)
  IN  [grown EXCEPT ![i + 1] = (@ + w) % Wrap]

LEMMA FilledIs ==
  ASSUME NEW b \in Seq(Counts), NEW i \in Nat, NEW w \in Counts
  PROVE  /\ Filled(b, i, w) \in Seq(Counts)
         /\ Len(Filled(b, i, w)) = AtLeast(i + 1, Len(b))
         /\ \A j \in 1..AtLeast(i + 1, Len(b)) :
              Filled(b, i, w)[j] =
                IF j = i + 1 THEN ((IF j <= Len(b) THEN b[j] ELSE 0) + w) % Wrap
                ELSE IF j <= Len(b) THEN b[j] ELSE 0
<1> DEFINE missing == i + 1 - Len(b)
<1> DEFINE more == IF missing > 0 THEN Zeros(missing) ELSE <<>>
<1> DEFINE grown == b \o more
<1> DEFINE n == AtLeast(i + 1, Len(b))
<1>1. Len(b) \in Nat /\ n \in Nat /\ n >= i + 1 /\ n >= Len(b) /\ (n = i + 1 \/ n = Len(b))
  BY DEF AtLeast
<1>2. more \in Seq(Counts) /\ Len(more) = n - Len(b) /\ \A j \in 1..Len(more) : more[j] = 0
  <2>1. CASE missing > 0
    <3>1. missing \in Nat /\ n - Len(b) = missing /\ more = Zeros(missing)
      BY <1>1, <2>1 DEF AtLeast
    <3> HIDE DEF missing, more, n
    <3>2. QED
      BY <3>1, ZerosAre
  <2>2. CASE ~(missing > 0)
    <3>1. n - Len(b) = 0 /\ more = <<>>
      BY <1>1, <2>2 DEF AtLeast
    <3> HIDE DEF missing, more, n
    <3>2. QED
      BY <3>1
  <2>3. QED
    BY <2>1, <2>2
<1> HIDE DEF more, n, missing
<1>3. /\ grown \in Seq(Counts) /\ Len(grown) = n
      /\ \A j \in 1..n : grown[j] = IF j <= Len(b) THEN b[j] ELSE 0
  <2>0. /\ grown \in Seq(Counts) /\ Len(grown) = Len(b) + Len(more) /\ Len(more) \in Nat
        /\ \A j \in 1..Len(b) : grown[j] = b[j]
        /\ \A j \in 1..Len(more) : grown[Len(b) + j] = more[j]
    BY <1>2, ConcatIs DEF Joined
  <2> HIDE DEF grown
  <2>1. grown \in Seq(Counts) /\ Len(grown) = n
    BY <1>1, <1>2, <2>0
  <2>2. ASSUME NEW j \in 1..n, j <= Len(b) PROVE grown[j] = b[j]
    BY <1>1, <2>0, <2>2
  <2>3. ASSUME NEW j \in 1..n, ~(j <= Len(b)) PROVE grown[j] = 0
    <3>1. Len(b) + (j - Len(b)) = j /\ j - Len(b) \in 1..Len(more)
      BY <1>1, <1>2, <2>3
    <3>2. grown[Len(b) + (j - Len(b))] = more[j - Len(b)]
      BY <2>0, <3>1
    <3>3. QED
      BY <1>2, <3>1, <3>2
  <2>4. QED
    BY <2>1, <2>2, <2>3
<1> HIDE DEF grown
<1>4. i + 1 \in 1..n
  BY <1>1
<1>5. grown[i + 1] \in Int /\ w \in Int
  <2>1. grown[i + 1] \in Counts
    BY <1>3, <1>4
  <2>2. QED
    BY <2>1, CountsAreInts
<1>6. (grown[i + 1] + w) % Wrap \in Counts
  <2>1. grown[i + 1] + w \in Int
    BY <1>5
  <2>2. QED
    BY <2>1, InRange DEF Counts
<1> DEFINE new == [grown EXCEPT ![i + 1] = (@ + w) % Wrap]
<1>7. Filled(b, i, w) = new
  BY DEF Filled, grown, more, missing
<1>8. /\ new \in Seq(Counts) /\ Len(new) = n
      /\ \A j \in 1..n : new[j] = IF j = i + 1 THEN (grown[i + 1] + w) % Wrap ELSE grown[j]
  <2> DEFINE x == (grown[i + 1] + w) % Wrap
  <2>1. new = [grown EXCEPT ![i + 1] = x] /\ x \in Counts
    BY <1>6
  <2> HIDE DEF x
  <2>2. grown \in [1..n -> Counts]
    BY <1>3
  <2>3. new \in [1..n -> Counts]
    BY <2>1, <2>2
  <2>5. \A j \in 1..n : new[j] = IF j = i + 1 THEN x ELSE grown[j]
    BY <2>1, <2>2
  <2> HIDE DEF new
  <2>4. new \in Seq(Counts) /\ Len(new) = n
    BY <1>1, <2>3
  <2>6. QED
    BY <2>4, <2>5 DEF x
<1> HIDE DEF new
<1>9. \A j \in 1..n : new[j] =
        IF j = i + 1 THEN ((IF j <= Len(b) THEN b[j] ELSE 0) + w) % Wrap
        ELSE IF j <= Len(b) THEN b[j] ELSE 0
  BY <1>3, <1>4, <1>8
<1>10. QED
  BY <1>7, <1>8, <1>9 DEF n

LEMMA RecordWeightedIs ==
  ASSUME NEW h, NEW v, NEW w
  PROVE  RecordWeighted(h, v, w) =
           [scale |-> ResizeToFit(h, v).h.scale, offset |-> ResizeToFit(h, v).h.offset,
            buckets |-> Filled(ResizeToFit(h, v).h.buckets, ResizeToFit(h, v).i, w),
            count |-> (h.count + w) % Wrap]
BY DEF RecordWeighted, Filled

(* g2 is g with room for index i in front: from there on, buckets may only *)
(* be missing behind.                                                      *)
Placed(g, i, g2) ==
  /\ g2 \in Hists /\ g2.scale = g.scale /\ g2.offset \in Int /\ g2.offset <= i
  /\ ZeroCount(g2) = ZeroCount(g) /\ \A k \in Int : Count(g2, k) = Count(g, k)
  /\ AtLeast(i - g2.offset + 2, Len(g2.buckets)) <= MaxSize
  /\ g.offset = None => g2.offset = i /\ Len(g2.buckets) <= 1
  /\ g.offset # None => /\ LastIndex(g2) = LastIndex(g) /\ g2.offset <= g.offset
                        /\ g2.offset \in {g.offset, i} /\ Len(g2.buckets) >= 2

LEMMA PlacedFirst ==
  ASSUME NEW g \in Hists, g.offset = None, Len(g.buckets) <= 1, NEW i \in Int
  PROVE  Placed(g, i, [g EXCEPT !.offset = i])
<1> DEFINE g2 == [g EXCEPT !.offset = i]
<1>1. g2 = [scale |-> g.scale, offset |-> i, buckets |-> g.buckets, count |-> g.count]
  BY DEF Hists
<1> HIDE DEF g2
<1>2. /\ g2 \in Hists /\ g2.scale = g.scale /\ g2.offset = i /\ g2.buckets = g.buckets
      /\ Len(g.buckets) \in Nat
  BY <1>1, HistFields DEF Hists
<1>3. ZeroCount(g2) = ZeroCount(g)
  BY <1>2 DEF ZeroCount
<1>4. ASSUME NEW k \in Int PROVE Count(g2, k) = Count(g, k)
  <2>1. ~Within(g2, k)
    BY <1>2 DEF Within, LastIndex
  <2>2. ~Within(g, k)
    BY DEF Within
  <2>3. QED
    BY <2>1, <2>2 DEF Count
<1>5. AtLeast(i - g2.offset + 2, Len(g2.buckets)) <= MaxSize
  <2>1. i - i + 2 = 2 /\ 2 >= Len(g.buckets)
    BY <1>2
  <2>2. QED
    BY <1>2, <2>1, SizeAssumption DEF AtLeast
<1>6. Placed(g, i, g2)
  BY <1>2, <1>3, <1>4, <1>5 DEF Placed
<1>7. QED
  BY <1>6 DEF g2

LEMMA PlacedSame ==
  ASSUME NEW g \in Hists, g.offset \in Int, Len(g.buckets) >= 2, NEW i \in Int, g.offset <= i,
         AtLeast(i - g.offset + 2, Len(g.buckets)) <= MaxSize
  PROVE  Placed(g, i, g)
BY NoneAssumption DEF Placed

LEMMA PlacedInFront ==
  ASSUME NEW g \in Hists, g.offset \in Int, Len(g.buckets) >= 2, NEW i \in Int, i < g.offset,
         Len(g.buckets) + g.offset - i <= MaxSize,
         NEW n, n = g.offset - i
  PROVE  Placed(g, i, [g EXCEPT !.offset = @ - n,
                                !.buckets = <<Head(@)>> \o Zeros(n) \o Tail(@)])
<1> DEFINE new == <<Head(g.buckets)>> \o Zeros(n) \o Tail(g.buckets)
<1> DEFINE g2 == [g EXCEPT !.offset = @ - n,
                           !.buckets = <<Head(@)>> \o Zeros(n) \o Tail(@)]
<1> DEFINE b == g.buckets
<1> DEFINE o == g.offset
<1>1. n \in Nat /\ n >= 1 /\ o - n = i
  OBVIOUS
<1>2. b \in Seq(Counts) /\ Len(b) \in Nat /\ Len(b) >= 2 /\ g.count \in Counts /\ g.scale \in Int
  BY HistFields
<1>3. g2 = [scale |-> g.scale, offset |-> o - n, buckets |-> new, count |-> g.count]
  <2>1. /\ g = [scale |-> g.scale, offset |-> g.offset, buckets |-> g.buckets, count |-> g.count]
        /\ g2 = [g EXCEPT !.offset = o - n, !.buckets = new]
    BY DEF Hists
  <2> HIDE DEF new, g2
  <2>2. QED
    BY <2>1
<1>4. /\ new \in Seq(Counts) /\ Len(new) = Len(b) + n /\ new[1] = b[1]
      /\ \A j \in 2..(n + 1) : new[j] = 0
      /\ \A j \in (n + 2)..(Len(b) + n) : new[j] = b[j - n]
  BY <1>1, <1>2, ShiftedBuckets
<1> HIDE DEF new, g2
<1>5. /\ g2 \in Hists /\ g2.scale = g.scale /\ g2.offset = i /\ g2.buckets = new
  BY <1>1, <1>2, <1>3, <1>4 DEF Hists
<1>6. g.offset = o /\ g.buckets = b /\ o \in Int /\ i < o /\ o # None /\ i # None
      /\ Len(b) + o - i <= MaxSize /\ n = o - i
  BY NoneAssumption
<1> HIDE DEF b, o
<1>7. ZeroCount(g2) = ZeroCount(g)
  BY <1>1, <1>2, <1>4, <1>5, <1>6 DEF ZeroCount
<1>8. LastIndex(g2) = LastIndex(g) /\ LastIndex(g) = o + Len(b) - 2
  BY <1>1, <1>2, <1>4, <1>5, <1>6 DEF LastIndex
<1>9. ASSUME NEW k \in Int PROVE Count(g2, k) = Count(g, k)
  <2>1. CASE Within(g2, k) /\ k < o
    <3>1. k - i + 2 \in 2..(n + 1)
      BY <1>1, <1>2, <1>5, <1>6, <1>8, <2>1 DEF Within
    <3>2. new[k - i + 2] = 0
      BY <1>4, <3>1
    <3>3. ~Within(g, k)
      BY <1>6, <2>1 DEF Within
    <3>4. QED
      BY <1>5, <2>1, <3>2, <3>3 DEF Count
  <2>2. CASE Within(g2, k) /\ ~(k < o)
    <3>1. k - i + 2 \in (n + 2)..(Len(b) + n) /\ (k - i + 2) - n = k - o + 2
      BY <1>1, <1>2, <1>5, <1>6, <1>8, <2>2 DEF Within
    <3>2. new[k - i + 2] = b[k - o + 2]
      <4>1. new[k - i + 2] = b[(k - i + 2) - n]
        BY <1>4, <3>1
      <4>2. QED
        BY <3>1, <4>1
    <3>3. Within(g, k)
      BY <1>6, <1>8, <2>2 DEF Within
    <3>4. QED
      BY <1>5, <1>6, <2>2, <3>2, <3>3 DEF Count
  <2>3. CASE ~Within(g2, k)
    <3>1. ~Within(g, k)
      BY <1>1, <1>2, <1>5, <1>6, <1>8, <2>3 DEF Within
    <3>2. QED
      BY <2>3, <3>1 DEF Count
  <2>4. QED
    BY <2>1, <2>2, <2>3
<1>10. AtLeast(i - g2.offset + 2, Len(g2.buckets)) <= MaxSize
  <2>1. i - i + 2 = 2 /\ Len(b) + n >= 2 /\ Len(b) + n <= MaxSize
    BY <1>1, <1>2, <1>6
  <2>2. AtLeast(2, Len(b) + n) = Len(b) + n
    BY <1>1, <1>2, <2>1 DEF AtLeast
  <2>3. QED
    BY <1>4, <1>5, <2>1, <2>2
<1>11. Len(g2.buckets) >= 2
  BY <1>1, <1>2, <1>4, <1>5
<1>12. Placed(g, i, g2)
  <2>1. g2.offset <= i /\ g2.offset <= g.offset /\ g2.offset \in {g.offset, i} /\ g2.offset \in Int
    BY <1>5, <1>6
  <2>2. QED
    BY <1>5, <1>6, <1>7, <1>8, <1>9, <1>10, <1>11, <2>1 DEF Placed
<1>13. QED
  BY <1>12 DEF g2

(* H is g with the weight w added at index i.                              *)
Adds(g, i, w, H) ==
  /\ Shaped(H) /\ H.scale = g.scale /\ ZeroCount(H) = ZeroCount(g)
  /\ Within(H, i) /\ \A k \in Int : Within(g, k) => Within(H, k)
  /\ g.offset = None => H.offset = i /\ LastIndex(H) = i
  /\ g.offset # None => H.offset \in {i, g.offset} /\ LastIndex(H) \in {i, LastIndex(g)}
  /\ \A k \in Int : Count(H, k) = IF k = i THEN (Count(g, k) + w) % Wrap ELSE Count(g, k)

LEMMA Adding ==
  ASSUME NEW g, Shaped(g), NEW i \in Int, NEW g2, Placed(g, i, g2),
         NEW w \in Counts, NEW c \in Counts
  PROVE  Adds(g, i, w, [scale |-> g2.scale, offset |-> g2.offset,
                        buckets |-> Filled(g2.buckets, i - g2.offset + 1, w), count |-> c])
<1> DEFINE o == g2.offset
<1> DEFINE b == g2.buckets
<1> DEFINE n == Len(b)
<1> DEFINE p == i - o + 1
<1> DEFINE F == Filled(b, p, w)
<1> DEFINE H == [scale |-> g2.scale, offset |-> o, buckets |-> F, count |-> c]
<1>1. /\ g2 \in Hists /\ g2.scale = g.scale /\ o \in Int /\ o <= i
      /\ b \in Seq(Counts) /\ n \in Nat
      /\ ZeroCount(g2) = ZeroCount(g) /\ \A k \in Int : Count(g2, k) = Count(g, k)
      /\ AtLeast(i - o + 2, n) <= MaxSize
  BY HistFields DEF Placed
<1>2. o # None /\ MaxSize \in Nat
  BY <1>1, NoneAssumption, SizeAssumption
<1>3. p \in Nat /\ p >= 1 /\ i - o + 2 = p + 1 /\ i = o + p - 1
  BY <1>1
<1>4. g.scale \in CoarsestScale..MaxScale /\ g.scale \in Int
  BY HistFields DEF Shaped
<1>5. /\ g.offset = None => o = i /\ n <= 1
      /\ g.offset # None => /\ o + n - 2 = LastIndex(g) /\ o <= g.offset
                            /\ o \in {g.offset, i} /\ n >= 2
  BY DEF Placed, LastIndex
<1>6. ZeroCount(g2) = IF n = 0 THEN 0 ELSE b[1]
  BY DEF ZeroCount
<1>7. \A k \in Int : Count(g, k) = IF o <= k /\ k <= o + n - 2 THEN b[k - o + 2] ELSE 0
  BY <1>1, <1>2 DEF Count, Within, LastIndex
<1> HIDE DEF o, b, p
<1>8. /\ F \in Seq(Counts) /\ Len(F) = AtLeast(p + 1, n)
      /\ \A j \in 1..AtLeast(p + 1, n) :
           F[j] = IF j = p + 1 THEN ((IF j <= n THEN b[j] ELSE 0) + w) % Wrap
                  ELSE IF j <= n THEN b[j] ELSE 0
  BY <1>1, <1>3, FilledIs
<1> DEFINE m == Len(F)
<1> HIDE DEF F, n
<1>9. /\ m \in Nat /\ m >= 2 /\ m >= n /\ m >= p + 1 /\ m <= MaxSize
      /\ m = n \/ m = p + 1
      /\ \A j \in 1..m :
           F[j] = IF j = p + 1 THEN ((IF j <= n THEN b[j] ELSE 0) + w) % Wrap
                  ELSE IF j <= n THEN b[j] ELSE 0
  BY <1>1, <1>3, <1>8 DEF AtLeast
<1>10. H \in Hists
  BY <1>1, <1>4, <1>8 DEF Hists
<1>11. H.scale = g.scale /\ H.offset = o /\ H.buckets = F
  BY <1>1
<1> HIDE DEF H
<1>12. Len(H.buckets) = m /\ LastIndex(H) = o + m - 2
  BY <1>11 DEF LastIndex
<1> HIDE DEF m
<1>13. Shaped(H)
  <2>1. ~(m <= 1)
    BY <1>9
  <2>2. QED
    BY <1>2, <1>4, <1>9, <1>10, <1>11, <1>12, <2>1 DEF Shaped
<1>14. ZeroCount(H) = ZeroCount(g)
  <2>1. ZeroCount(H) = F[1]
    BY <1>9, <1>11, <1>12 DEF ZeroCount
  <2>2. 1 \in 1..m /\ ~(1 = p + 1)
    BY <1>3, <1>9
  <2>3. F[1] = IF 1 <= n THEN b[1] ELSE 0
    BY <1>9, <2>2
  <2>4. 1 <= n <=> ~(n = 0)
    BY <1>1
  <2>5. QED
    BY <1>1, <1>6, <2>1, <2>3, <2>4
<1>15. \A k : Within(H, k) <=> o <= k /\ k <= o + m - 2
  BY <1>2, <1>11, <1>12 DEF Within
<1>16. Within(H, i)
  BY <1>1, <1>3, <1>9, <1>15
<1>17. ASSUME NEW k \in Int, Within(g, k) PROVE Within(H, k)
  <2>1. g.offset # None /\ g.offset <= k /\ k <= LastIndex(g) /\ g.offset \in Int
    BY <1>17, HistFields DEF Within, Shaped
  <2>2. o <= k /\ k <= o + n - 2
    BY <1>1, <1>5, <2>1
  <2>3. QED
    BY <1>1, <1>9, <1>15, <2>2
<1>18. g.offset = None => H.offset = i /\ LastIndex(H) = i
  BY <1>1, <1>3, <1>5, <1>9, <1>11, <1>12
<1>19. g.offset # None => H.offset \in {i, g.offset} /\ LastIndex(H) \in {i, LastIndex(g)}
  <2> SUFFICES ASSUME g.offset # None
               PROVE  H.offset \in {i, g.offset} /\ LastIndex(H) \in {i, LastIndex(g)}
    OBVIOUS
  <2>1. H.offset \in {i, g.offset}
    BY <1>5, <1>11
  <2>2. o + m - 2 = o + n - 2 \/ o + m - 2 = i
    BY <1>1, <1>3, <1>9
  <2>3. QED
    BY <1>5, <1>12, <2>1, <2>2
<1>20. ASSUME NEW k \in Int
       PROVE  Count(H, k) = IF k = i THEN (Count(g, k) + w) % Wrap ELSE Count(g, k)
  <2>1. CASE Within(H, k)
    <3> DEFINE j == k - o + 2
    <3>1. j \in 1..m /\ (j = p + 1 <=> k = i) /\ (j <= n <=> k <= o + n - 2) /\ o <= k
      BY <1>1, <1>3, <1>9, <1>15, <2>1
    <3>2. Count(H, k) = F[j]
      BY <1>11, <2>1 DEF Count
    <3>3. Count(g, k) = IF j <= n THEN b[j] ELSE 0
      BY <1>7, <3>1
    <3> HIDE DEF j
    <3>4. QED
      BY <1>9, <3>1, <3>2, <3>3
  <2>2. CASE ~Within(H, k)
    <3>1. k # i /\ ~(o <= k /\ k <= o + n - 2)
      BY <1>1, <1>3, <1>9, <1>15, <2>2
    <3>2. Count(H, k) = 0
      BY <2>2 DEF Count
    <3>3. QED
      BY <1>7, <3>1, <3>2
  <2>3. QED
    BY <2>1, <2>2
<1>21. Adds(g, i, w, H)
  BY <1>11, <1>13, <1>14, <1>16, <1>17, <1>18, <1>19, <1>20 DEF Adds
<1>22. QED
  BY <1>21 DEF H, F, p, o, b

(* What resize_to_fit returns for a value that is not zero.                *)
Resized(g, i, fit) ==
  /\ Placed(g, i, fit.h) /\ fit.i = i - fit.h.offset + 1

LEMMA ResizePlaces ==
  ASSUME NEW r, Recorded(r), NEW h, Tells(h, r), NEW v \in Values, v # 0
  PROVE  LET g == Fitted(h, v)
         IN  /\ IndexForValue(g.scale, v) \in Int
             /\ Resized(g, IndexForValue(g.scale, v), ResizeToFit(h, v))
<1> DEFINE g == Fitted(h, v)
<1> DEFINE i == IndexForValue(g.scale, v)
<1>1. Tells(g, r) /\ Fits(g, v)
  BY FittedTells
<1>2. /\ i = None => ResizeToFit(h, v) = [h |-> g, i |-> 0]
      /\ i # None /\ g.offset = None =>
           ResizeToFit(h, v) = [h |-> [g EXCEPT !.offset = i], i |-> 1]
      /\ i # None /\ g.offset # None =>
           ResizeToFit(h, v) =
             [h |-> IF Shift(g, v) = 0 THEN g
                    ELSE [g EXCEPT !.offset = @ - Shift(g, v),
                                   !.buckets = <<Head(@)>> \o Zeros(Shift(g, v)) \o Tail(@)],
              i |-> At(g, v) + Shift(g, v)]
  BY ResizeCases
<1> HIDE DEF g
<1>3. g \in Hists /\ Shaped(g) /\ g.scale \in CoarsestScale..MaxScale /\ Len(g.buckets) \in Nat
  BY <1>1, HistFields DEF Tells, Shaped
<1>4. g.scale \in Int /\ g.scale <= MaxScale
  BY <1>3, ScaleAssumption, BitsAssumption
<1>5. i \in Int /\ i # None
  BY <1>4, ValuesRecordable, IndexType, NoneAssumption
<1>6. g.offset = None \/ NewLength(g, v) <= MaxSize
  BY <1>1, <1>5 DEF Fits
<1>7. CASE g.offset = None
  <2>1. Len(g.buckets) <= 1
    BY <1>3, <1>7 DEF Shaped
  <2> DEFINE g2 == [g EXCEPT !.offset = i]
  <2>2. Placed(g, i, g2)
    BY <1>3, <1>5, <1>7, <2>1, PlacedFirst
  <2>3. g2.offset = i
    BY <1>3 DEF Hists
  <2>4. ResizeToFit(h, v) = [h |-> g2, i |-> 1]
    BY <1>2, <1>5, <1>7
  <2> HIDE DEF g2
  <2>5. i - i + 1 = 1
    BY <1>5
  <2> HIDE DEF i
  <2>6. QED
    BY <1>5, <2>2, <2>3, <2>4, <2>5 DEF Resized, g, i
<1>8. CASE g.offset # None
  <2>1. Len(g.buckets) >= 2 /\ g.offset \in Int
    BY <1>3, <1>8, HistFields DEF Shaped
  <2>2. ResizeToFit(h, v) =
             [h |-> IF Shift(g, v) = 0 THEN g
                    ELSE [g EXCEPT !.offset = @ - Shift(g, v),
                                   !.buckets = <<Head(@)>> \o Zeros(Shift(g, v)) \o Tail(@)],
              i |-> At(g, v) + Shift(g, v)]
    BY <1>2, <1>5, <1>8
  <2>3. At(g, v) = i - g.offset + 1
    BY DEF At
  <2>4. CASE i < g.offset
    <3>1. Shift(g, v) = g.offset - i /\ NewLength(g, v) = Len(g.buckets) + g.offset - i
      BY <1>3, <1>5, <2>1, <2>4, NewLengthIs
    <3> DEFINE n == Shift(g, v)
    <3> DEFINE g2 == [g EXCEPT !.offset = @ - n,
                               !.buckets = <<Head(@)>> \o Zeros(n) \o Tail(@)]
    <3> HIDE DEF i
    <3>2. Placed(g, i, g2)
      <4> HIDE DEF n
      <4>1. n = g.offset - i /\ Len(g.buckets) + g.offset - i <= MaxSize
        BY <1>6, <1>8, <3>1 DEF n
      <4>2. QED
        BY <1>3, <1>5, <2>1, <2>4, <4>1, PlacedInFront
    <3>3. g2.offset = g.offset - n
      BY <1>3 DEF Hists
    <3>4. ~(n = 0)
      BY <1>5, <2>1, <2>4, <3>1
    <3>5. ResizeToFit(h, v) = [h |-> g2, i |-> At(g, v) + n]
      BY <2>2, <3>4
    <3>6. At(g, v) + n = i - (g.offset - n) + 1
      <4>1. \A a, o \in Int : (a - o + 1) + (o - a) = a - (o - (o - a)) + 1
        OBVIOUS
      <4>2. QED
        BY <1>5, <2>1, <2>3, <3>1, <4>1 DEF n
    <3> HIDE DEF g2, n
    <3>7. QED
      BY <1>5, <3>2, <3>3, <3>5, <3>6 DEF Resized, g, i
  <2>5. CASE ~(i < g.offset)
    <3>0. g.offset <= i
      BY <1>5, <2>1, <2>5
    <3>1. Shift(g, v) = 0 /\ NewLength(g, v) = AtLeast(i - g.offset + 2, Len(g.buckets))
      BY <1>3, <1>5, <2>1, <3>0, NewLengthIs
    <3>2. Placed(g, i, g)
      BY <1>3, <1>5, <1>6, <1>8, <2>1, <3>0, <3>1, PlacedSame
    <3>3. ResizeToFit(h, v) = [h |-> g, i |-> At(g, v) + 0]
      BY <2>2, <3>1
    <3>4. At(g, v) + 0 = i - g.offset + 1
      BY <1>5, <2>1, <2>3
    <3> HIDE DEF i
    <3>5. QED
      BY <1>5, <3>2, <3>3, <3>4 DEF Resized, g, i
  <2>6. QED
    BY <2>4, <2>5
<1>9. QED
  BY <1>7, <1>8

LEMMA AddsTells ==
  ASSUME NEW r, Recorded(r), NEW g, Tells(g, r), NEW v \in Values, v # 0, NEW w \in Counts,
         IndexForValue(g.scale, v) \in Int, NEW H, Adds(g, IndexForValue(g.scale, v), w, H)
  PROVE  Tells(H, Weighed(r, v, w))
<1> DEFINE i == IndexForValue(g.scale, v)
<1> DEFINE q == Weighed(r, v, w)
<1> DEFINE s == g.scale
<1>1. /\ Shaped(H) /\ H.scale = s /\ ZeroCount(H) = ZeroCount(g)
      /\ Within(H, i) /\ \A k \in Int : Within(g, k) => Within(H, k)
      /\ g.offset = None => H.offset = i /\ LastIndex(H) = i
      /\ g.offset # None => H.offset \in {i, g.offset} /\ LastIndex(H) \in {i, LastIndex(g)}
      /\ \A k \in Int : Count(H, k) = IF k = i THEN (Count(g, k) + w) % Wrap ELSE Count(g, k)
  BY DEF Adds
<1>2. Recorded(q) /\ DOMAIN q = DOMAIN r \cup {v} /\ w \in 0..(Wrap - 1)
  BY WeighedType DEF Counts
<1>3. Positive(q) = Positive(r) \cup {v} /\ Positive(r) \subseteq DOMAIN r
  BY <1>2 DEF Positive
<1>4. s \in Int /\ s <= MaxScale
  BY ScaleAssumption, BitsAssumption DEF Tells, Shaped
<1>5. \A u \in Positive(r) : IndexForValue(s, u) \in Int
  BY <1>2, <1>4, ValuesRecordable, IndexType
<1>6. /\ \A u \in Positive(r) : Within(g, IndexForValue(s, u))
      /\ g.offset # None => \E u, x \in Positive(r) : /\ g.offset = IndexForValue(s, u)
                                                      /\ LastIndex(g) = IndexForValue(s, x)
      /\ \A k \in Int : Count(g, k) = Weight(r, AtIndex(r, s, k))
      /\ ZeroCount(g) = Weight(r, DOMAIN r \cap {0})
  BY DEF Tells, Inside, Ends, Exact
<1>7. IndexForValue(s, v) = i /\ i \in Int
  OBVIOUS
<1> HIDE DEF q, i, s
<1>8. Inside(H, q)
  <2>1. ASSUME NEW u \in Positive(q) PROVE Within(H, IndexForValue(H.scale, u))
    <3>1. CASE u = v
      BY <1>1, <1>7, <3>1
    <3>2. CASE u # v
      BY <1>1, <1>3, <1>5, <1>6, <3>2
    <3>3. QED
      BY <3>1, <3>2
  <2>2. QED
    BY <2>1 DEF Inside
<1>9. Ends(H, q)
  <2>1. CASE g.offset = None
    <3>1. H.offset = IndexForValue(H.scale, v) /\ LastIndex(H) = IndexForValue(H.scale, v)
      BY <1>1, <1>7, <2>1
    <3>2. QED
      BY <1>3, <3>1 DEF Ends
  <2>2. CASE g.offset # None
    <3>1. PICK u \in Positive(r), x \in Positive(r) :
            g.offset = IndexForValue(s, u) /\ LastIndex(g) = IndexForValue(s, x)
      BY <1>6, <2>2
    <3>2. \E y \in Positive(q) : H.offset = IndexForValue(H.scale, y)
      <4>1. CASE H.offset = i
        BY <1>1, <1>3, <1>7, <4>1
      <4>2. CASE H.offset = g.offset
        BY <1>1, <1>3, <3>1, <4>2
      <4>3. QED
        BY <1>1, <2>2, <4>1, <4>2
    <3>3. \E y \in Positive(q) : LastIndex(H) = IndexForValue(H.scale, y)
      <4>1. CASE LastIndex(H) = i
        BY <1>1, <1>3, <1>7, <4>1
      <4>2. CASE LastIndex(H) = LastIndex(g)
        BY <1>1, <1>3, <3>1, <4>2
      <4>3. QED
        BY <1>1, <2>2, <4>1, <4>2
    <3>4. QED
      BY <3>2, <3>3 DEF Ends
  <2>3. QED
    BY <2>1, <2>2
<1>10. ASSUME NEW k \in Int PROVE Count(H, k) = Weight(q, AtIndex(q, H.scale, k))
  <2> DEFINE S == AtIndex(q, s, k)
  <2> DEFINE T == AtIndex(r, s, k)
  <2>1. S \in SUBSET (DOMAIN r \cup {v}) /\ T \in SUBSET DOMAIN r
    BY <1>2, <1>3 DEF AtIndex, Positive
  <2>2. CASE k = i
    <3>1. v \in S /\ S \cap DOMAIN r = T
      BY <1>3, <1>7, <2>2 DEF AtIndex, Positive
    <3> HIDE DEF S, T
    <3>2. Weight(q, S) = (Weight(r, T) + w) % Wrap
      BY <1>2, <2>1, <3>1, WeightWith DEF q
    <3>3. QED
      BY <1>1, <1>6, <2>2, <3>2 DEF S, T
  <2>3. CASE k # i
    <3>1. S = T /\ v \notin T
      BY <1>3, <1>7, <2>3 DEF AtIndex
    <3> HIDE DEF S, T
    <3>2. Weight(q, T) = Weight(r, T)
      BY <1>2, <2>1, <3>1, WeightWithout DEF q
    <3>3. QED
      BY <1>1, <1>6, <2>3, <3>1, <3>2 DEF S, T
  <2>4. QED
    BY <2>2, <2>3
<1>11. ZeroCount(H) = Weight(q, DOMAIN q \cap {0})
  <2>1. DOMAIN q \cap {0} = DOMAIN r \cap {0} /\ v \notin DOMAIN r \cap {0}
    BY <1>2
  <2>2. Weight(q, DOMAIN r \cap {0}) = Weight(r, DOMAIN r \cap {0})
    BY <1>2, <2>1, WeightWithout DEF q
  <2>3. QED
    BY <1>1, <1>6, <2>1, <2>2
<1>12. QED
  BY <1>1, <1>8, <1>9, <1>10, <1>11 DEF Tells, Exact, q

(* A weight added to the zero bucket.                                      *)
LEMMA ZeroTells ==
  ASSUME NEW r, Recorded(r), NEW g, Tells(g, r), 0 \in Values, NEW w \in Counts, NEW c \in Counts
  PROVE  Tells([scale |-> g.scale, offset |-> g.offset,
                buckets |-> Filled(g.buckets, 0, w), count |-> c], Weighed(r, 0, w))
<1> DEFINE b == g.buckets
<1> DEFINE n == Len(b)
<1> DEFINE F == Filled(b, 0, w)
<1> DEFINE m == Len(F)
<1> DEFINE s == g.scale
<1> DEFINE H == [scale |-> s, offset |-> g.offset, buckets |-> F, count |-> c]
<1> DEFINE q == Weighed(r, 0, w)
<1>1. /\ g \in Hists /\ n \in Nat /\ n <= MaxSize /\ s \in CoarsestScale..MaxScale /\ s \in Int
      /\ b \in Seq(Counts) /\ g.offset \in Int \cup {None} /\ (g.offset = None <=> n <= 1)
      /\ \A j \in 1..n : b[j] \in Int
  BY HistFields DEF Tells, Shaped
<1>2. /\ \A u \in Positive(r) : Within(g, IndexForValue(s, u))
      /\ g.offset # None => \E u, x \in Positive(r) : /\ g.offset = IndexForValue(s, u)
                                                      /\ LastIndex(g) = IndexForValue(s, x)
      /\ \A k \in Int : Count(g, k) = Weight(r, AtIndex(r, s, k))
      /\ ZeroCount(g) = Weight(r, DOMAIN r \cap {0})
  BY DEF Tells, Inside, Ends, Exact
<1>3. Recorded(q) /\ DOMAIN q = DOMAIN r \cup {0} /\ w \in 0..(Wrap - 1) /\ w \in Int
  BY WeighedType, CountsAreInts DEF Counts
<1>4. ZeroCount(g) = IF n = 0 THEN 0 ELSE b[1]
  BY DEF ZeroCount
<1>5. \A k \in Int : Within(g, k) <=> g.offset # None /\ g.offset <= k /\ k <= g.offset + n - 2
  BY DEF Within, LastIndex
<1>6. LastIndex(g) = g.offset + n - 2
  BY DEF LastIndex
<1>7. \A k \in Int : Count(g, k) = IF Within(g, k) THEN b[k - g.offset + 2] ELSE 0
  BY DEF Count
<1> HIDE DEF b
<1>8. /\ F \in Seq(Counts) /\ m = AtLeast(0 + 1, n)
      /\ \A j \in 1..AtLeast(0 + 1, n) :
           F[j] = IF j = 0 + 1 THEN ((IF j <= n THEN b[j] ELSE 0) + w) % Wrap
                  ELSE IF j <= n THEN b[j] ELSE 0
  BY <1>1, FilledIs
<1> HIDE DEF F, n
<1>9. /\ m \in Nat /\ m >= 1 /\ (m <= 1 <=> n <= 1) /\ (n > 1 => m = n) /\ m <= MaxSize
      /\ F[1] = ((IF 1 <= n THEN b[1] ELSE 0) + w) % Wrap
      /\ \A j \in 2..n : F[j] = b[j]
  <2>1. m = IF n >= 1 THEN n ELSE 1
    BY <1>1, <1>8 DEF AtLeast
  <2>2. m \in Nat /\ m >= 1 /\ (m <= 1 <=> n <= 1) /\ (n > 1 => m = n) /\ m <= MaxSize
    BY <1>1, <2>1, SizeAssumption
  <2>3. F[1] = ((IF 1 <= n THEN b[1] ELSE 0) + w) % Wrap
    BY <1>8, <2>2
  <2>4. ASSUME NEW j \in 2..n PROVE F[j] = b[j]
    <3>1. j \in 1..m /\ ~(j = 0 + 1) /\ j <= n
      BY <1>1, <2>1
    <3>2. QED
      BY <1>8, <3>1
  <2>5. QED
    BY <2>2, <2>3, <2>4
<1>10. H \in Hists
  BY <1>1, <1>8 DEF Hists
<1>11. H.scale = s /\ H.offset = g.offset /\ H.buckets = F
  BY <1>1
<1> HIDE DEF H
<1>12. Len(H.buckets) = m /\ LastIndex(H) = g.offset + m - 2
  BY <1>11 DEF LastIndex
<1> HIDE DEF m
<1>13. Shaped(H)
  BY <1>1, <1>9, <1>10, <1>11, <1>12 DEF Shaped
<1>14. ZeroCount(H) = (ZeroCount(g) + w) % Wrap
  <2>1. ZeroCount(H) = F[1]
    BY <1>9, <1>11, <1>12 DEF ZeroCount
  <2>2. 1 <= n <=> ~(n = 0)
    BY <1>1
  <2>3. QED
    BY <1>4, <1>9, <2>1, <2>2
<1>15. ASSUME g.offset # None PROVE n > 1 /\ m = n /\ LastIndex(H) = LastIndex(g) /\ g.offset \in Int
  <2>1. n > 1 /\ m = n /\ g.offset \in Int
    BY <1>1, <1>9, <1>15
  <2>2. QED
    BY <1>6, <1>12, <2>1
<1>16. \A k : Within(H, k) <=> Within(g, k)
  BY <1>11, <1>15 DEF Within
<1>17. ASSUME NEW k \in Int PROVE Count(H, k) = Count(g, k)
  <2>1. CASE Within(g, k)
    <3>1. g.offset # None /\ g.offset \in Int /\ g.offset <= k /\ k <= g.offset + n - 2
      BY <1>5, <1>15, <2>1
    <3>2. k - g.offset + 2 \in 2..n
      BY <1>1, <3>1
    <3>3. Count(H, k) = F[k - g.offset + 2]
      BY <1>11, <1>16, <2>1 DEF Count
    <3>4. QED
      BY <1>7, <1>9, <2>1, <3>2, <3>3
  <2>2. CASE ~Within(g, k)
    BY <1>7, <1>16, <2>2 DEF Count
  <2>3. QED
    BY <2>1, <2>2
<1> HIDE DEF q, s
<1>18. Positive(q) = Positive(r)
  BY <1>3 DEF Positive
<1>19. Inside(H, q)
  BY <1>2, <1>11, <1>16, <1>18 DEF Inside
<1>20. Ends(H, q)
  BY <1>2, <1>11, <1>15, <1>18 DEF Ends
<1>21. ASSUME NEW k \in Int PROVE Count(H, k) = Weight(q, AtIndex(q, H.scale, k))
  <2> DEFINE T == AtIndex(r, s, k)
  <2>1. AtIndex(q, H.scale, k) = T /\ T \in SUBSET DOMAIN r /\ 0 \notin T
    BY <1>11, <1>18 DEF AtIndex, Positive
  <2>2. Count(g, k) = Weight(r, T)
    BY <1>2
  <2> HIDE DEF T
  <2>3. Weight(q, T) = Weight(r, T)
    BY <1>3, <2>1, WeightWithout DEF q
  <2>4. QED
    BY <1>17, <2>1, <2>2, <2>3
<1>22. ZeroCount(H) = Weight(q, DOMAIN q \cap {0})
  <2>1. /\ DOMAIN q \cap {0} \in SUBSET (DOMAIN r \cup {0}) /\ 0 \in DOMAIN q \cap {0}
        /\ (DOMAIN q \cap {0}) \cap DOMAIN r = DOMAIN r \cap {0}
    BY <1>3
  <2> DEFINE S == DOMAIN q \cap {0}
  <2> HIDE DEF S
  <2>2. Weight(q, S) = (Weight(r, S \cap DOMAIN r) + w) % Wrap
    BY <1>3, <2>1, WeightWith DEF q, S
  <2>3. QED
    BY <1>2, <1>14, <2>1, <2>2 DEF S
<1>23. Tells(H, q)
  BY <1>13, <1>19, <1>20, <1>21, <1>22 DEF Tells, Exact
<1>24. QED
  BY <1>23 DEF H, F, b, s, q

(* record_weighted.                                                        *)
LEMMA RecordTells ==
  ASSUME NEW r, Recorded(r), NEW h, Tells(h, r), NEW v \in Values, NEW w \in Counts
  PROVE  /\ Tells(RecordWeighted(h, v, w), Weighed(r, v, w))
         /\ \/ RecordWeighted(h, v, w).scale = h.scale
            \/ TooFine(RecordWeighted(h, v, w).scale + 1, DOMAIN r \cup {v})
<1> DEFINE g == Fitted(h, v)
<1> DEFINE fit == ResizeToFit(h, v)
<1> DEFINE R == RecordWeighted(h, v, w)
<1> DEFINE c == (h.count + w) % Wrap
<1>1. Tells(g, r) /\ (g = h \/ TooFine(g.scale + 1, DOMAIN r \cup {v}))
  BY FittedTells
<1>2. R = [scale |-> fit.h.scale, offset |-> fit.h.offset,
           buckets |-> Filled(fit.h.buckets, fit.i, w), count |-> c]
  BY RecordWeightedIs
<1>3. c \in Counts
  <2>1. h.count \in Counts /\ h.count + w \in Int
    BY HistFields, CountsAreInts DEF Tells, Shaped
  <2>2. QED
    BY <2>1, InRange DEF Counts
<1>4. Tells(R, Weighed(r, v, w)) /\ R.scale = g.scale
  <2>1. CASE v = 0
    <3>1. fit = [h |-> g, i |-> 0]
      BY <2>1, IndexOfZero, ResizeCases
    <3> HIDE DEF g, fit, c
    <3>2. R = [scale |-> g.scale, offset |-> g.offset, buckets |-> Filled(g.buckets, 0, w),
               count |-> c]
      BY <1>2, <3>1
    <3> HIDE DEF R
    <3>3. R.scale = g.scale
      BY <3>2
    <3>4. Tells(R, Weighed(r, 0, w))
      BY <1>1, <1>3, <2>1, <3>2, ZeroTells
    <3>5. QED
      BY <2>1, <3>3, <3>4
  <2>2. CASE v # 0
    <3> DEFINE i == IndexForValue(g.scale, v)
    <3>1. i \in Int /\ Resized(g, i, fit)
      BY <2>2, ResizePlaces
    <3>2. IndexForValue(g.scale, v) = i
      OBVIOUS
    <3> HIDE DEF i, g, fit, c
    <3> DEFINE g2 == fit.h
    <3>3. Placed(g, i, g2) /\ fit.i = i - g2.offset + 1
      BY <3>1 DEF Resized
    <3>4. R = [scale |-> g2.scale, offset |-> g2.offset,
               buckets |-> Filled(g2.buckets, i - g2.offset + 1, w), count |-> c]
      BY <1>2, <3>3
    <3> HIDE DEF g2, R
    <3>5. Adds(g, i, w, R)
      BY <1>1, <1>3, <3>1, <3>3, <3>4, Adding DEF Tells
    <3>6. Tells(R, Weighed(r, v, w))
      BY <1>1, <2>2, <3>1, <3>2, <3>5, AddsTells
    <3>7. QED
      BY <3>5, <3>6 DEF Adds
  <2>3. QED
    BY <2>1, <2>2
<1> HIDE DEF R, g
<1>5. QED
  BY <1>1, <1>4 DEF R

-----------------------------------------------------------------------------
(* The state.                                                              *)

NoFinerThanNeeded(h, r) == h.scale = MaxScale \/ TooFine(h.scale + 1, DOMAIN r)

LEMMA NothingRecorded ==
  Recorded(NoValues) /\ Tells(Default, NoValues) /\ NoFinerThanNeeded(Default, NoValues)
<1>1. DOMAIN NoValues = {} /\ Recorded(NoValues) /\ Positive(NoValues) = {}
  BY DEF NoValues, Recorded, Positive
<1>2. /\ Default.scale = MaxScale /\ Default.offset = None /\ Default.buckets = <<>>
      /\ Default = [scale |-> MaxScale, offset |-> None, buckets |-> <<>>, count |-> 0]
  BY DEF Default
<1>3. /\ Default \in Hists /\ MaxScale \in CoarsestScale..MaxScale
      /\ Len(Default.buckets) = 0 /\ 0 <= MaxSize
  BY <1>2, CountsAreInts, ScaleAssumption, BitsAssumption, SizeAssumption DEF Hists
<1>4. Shaped(Default)
  BY <1>2, <1>3 DEF Shaped
<1>5. Inside(Default, NoValues) /\ Ends(Default, NoValues)
  BY <1>1, <1>2 DEF Inside, Ends
<1>6. ASSUME NEW k \in Int
      PROVE  Count(Default, k) = Weight(NoValues, AtIndex(NoValues, Default.scale, k))
  <2>1. AtIndex(NoValues, Default.scale, k) = {}
    BY <1>1 DEF AtIndex
  <2>2. Count(Default, k) = 0
    BY <1>2 DEF Count, Within
  <2>3. QED
    BY <2>1, <2>2, WeightOfNone
<1>7. ZeroCount(Default) = Weight(NoValues, DOMAIN NoValues \cap {0})
  <2>1. DOMAIN NoValues \cap {0} = {}
    BY <1>1
  <2>2. QED
    BY <1>3, <2>1, WeightOfNone DEF ZeroCount
<1>8. QED
  BY <1>1, <1>2, <1>4, <1>5, <1>6, <1>7 DEF Tells, Exact, NoFinerThanNeeded

HInv ==
  /\ IInv
  /\ recorder \in Versions /\ version \in Versions
  /\ samples \in 0..MaxSamples /\ troubles \in 0..MaxTroubles
  /\ Recorded(recorded) /\ Tells(hist, recorded) /\ NoFinerThanNeeded(hist, recorded)

LEMMA InitTells == Init => HInv
BY InitCounts, NothingRecorded, DeviceAssumption DEF Init, HInv

(* A new recorder has recorded nothing.                                    *)
LEMMA FreshTells ==
  ASSUME NEW v, Fresh(v)
  PROVE  Recorded(recorded') /\ Tells(hist', recorded') /\ NoFinerThanNeeded(hist', recorded')
BY NothingRecorded DEF Fresh

LEMMA WeighIs == ASSUME NEW v, NEW w PROVE Weigh(v, w) = Weighed(recorded, v, w)
BY DEF Weigh, Weighed

LEMMA NextTells == HInv /\ [Next]_vars => HInv'
<1> SUFFICES ASSUME HInv, [Next]_vars PROVE HInv'
  OBVIOUS
<1>1. IInv'
  BY NextCounts DEF HInv
<1> DEFINE Told == /\ Recorded(recorded) /\ Tells(hist, recorded)
                   /\ NoFinerThanNeeded(hist, recorded)
<1> DEFINE Rest == /\ recorder \in Versions /\ version \in Versions
                   /\ samples \in 0..MaxSamples /\ troubles \in 0..MaxTroubles
<1>2. Told /\ Rest /\ Counters
  BY DEF HInv, IInv
<1>3. Told' /\ Rest' => HInv'
  BY <1>1 DEF HInv
<1>4. UNCHANGED <<hist, recorded>> => Told'
  BY <1>2 DEF Tells, Shaped, Inside, Ends, Exact, Recorded, NoFinerThanNeeded
<1>5. ASSUME NEW v \in Versions, Fresh(v) PROVE Told'
  BY <1>5, FreshTells
<1>6. ASSUME NEW v \in Values, NEW step \in 0..MaxStep, Record(v, step) PROVE Told' /\ Rest'
  <2>1. Rest'
    BY <1>2, <1>6, DeviceAssumption DEF Record
  <2>2. CASE last = None
    BY <1>4, <1>6, <2>1, <2>2 DEF Record
  <2>3. CASE last # None
    <3> DEFINE w == (clock' - last) % Wrap
    <3>1. w \in Counts
      <4>1. clock' \in Int /\ last \in Int
        BY <1>1, <1>2, <2>3, WrapAssumption DEF IInv, Counters
      <4>2. clock' - last \in Int
        BY <4>1
      <4>3. QED
        BY <4>2, InRange DEF Counts
    <3>2. hist' = RecordWeighted(hist, v, w) /\ recorded' = Weighed(recorded, v, w)
      BY <1>6, <2>3, WeighIs DEF Record
    <3> HIDE DEF w
    <3>3. Recorded(recorded') /\ DOMAIN recorded' = DOMAIN recorded \cup {v}
      BY <1>2, <3>1, <3>2, WeighedType DEF Counts
    <3>4. /\ Tells(hist', recorded')
          /\ hist'.scale = hist.scale \/ TooFine(hist'.scale + 1, DOMAIN recorded \cup {v})
      BY <1>2, <3>1, <3>2, RecordTells
    <3>5. NoFinerThanNeeded(hist', recorded')
      BY <1>2, <3>3, <3>4 DEF NoFinerThanNeeded, TooFine
    <3>6. QED
      BY <2>1, <3>3, <3>4, <3>5
  <2>4. QED
    BY <2>2, <2>3
<1>7. CASE ReadFails
  <2>1. Rest'
    <3>1. recorder' \in {recorder, version}
      BY <1>7 DEF ReadFails, Fresh
    <3>2. QED
      BY <1>2, <1>7, <3>1, DeviceAssumption DEF ReadFails
  <2>2. ASSUME Fresh(version) PROVE Told'
    BY <1>2, <1>5, <2>2
  <2>3. ASSUME UNCHANGED <<recorder, last, hist, recorded, first>> PROVE Told'
    BY <1>4, <2>3
  <2>4. QED
    BY <1>3, <1>7, <2>1, <2>2, <2>3 DEF ReadFails
<1>8. CASE WrongVersion
  <2>1. ASSUME NEW v \in Versions, Fresh(v) PROVE HInv'
    <3>1. Rest'
      BY <1>2, <1>8, <2>1 DEF WrongVersion, Fresh
    <3>2. QED
      BY <1>3, <1>5, <2>1, <3>1
  <2>2. CASE UNCHANGED <<recorder, last, hist, recorded, first>>
    <3>1. Rest'
      BY <1>2, <1>8, <2>2 DEF WrongVersion
    <3>2. QED
      BY <1>3, <1>4, <2>2, <3>1
  <2>3. QED
    BY <1>8, <2>1, <2>2 DEF WrongVersion
<1>9. CASE DeviceReset
  <2>1. Rest'
    BY <1>2, <1>9, DeviceAssumption DEF DeviceReset
  <2>2. QED
    BY <1>3, <1>4, <1>9, <2>1 DEF DeviceReset
<1>10. CASE UNCHANGED vars
  <2>1. Rest'
    BY <1>2, <1>10 DEF vars
  <2>2. QED
    BY <1>3, <1>4, <1>10, <2>1 DEF vars
<1>11. QED
  BY <1>3, <1>6, <1>7, <1>8, <1>9, <1>10 DEF Next

LEMMA HInvAlways == Spec => []HInv
BY InitTells, NextTells, PTL DEF Spec

-----------------------------------------------------------------------------
(* Every variable keeps its type: the histogram never has more than        *)
(* MaxSize buckets and never a scale coarser than the coarsest, so that the*)
(* loop of resize_to_fit ends.                                             *)
THEOREM TypeAlways == Spec => []TypeOK
<1>1. HInv => TypeOK
  <2> SUFFICES ASSUME HInv PROVE TypeOK
    OBVIOUS
  <2>1. Shaped(hist) /\ hist \in Hists
    BY DEF HInv, Tells, Shaped
  <2>2. /\ hist.offset \in Int \cup {None} /\ hist.buckets \in Seq(Counts)
        /\ hist.count \in Counts
    BY <2>1, HistFields
  <2>3. hist.scale \in CoarsestScale..MaxScale /\ Len(hist.buckets) <= MaxSize
    BY <2>1 DEF Shaped
  <2>4. DOMAIN recorded \subseteq Values
    BY DEF HInv, Recorded
  <2>5. QED
    BY <2>2, <2>3, <2>4 DEF TypeOK, HInv, IInv, Counters, Counts
<1>2. QED
  BY <1>1, HInvAlways, PTL

(* The histogram gives up no more resolution than it has to.               *)
THEOREM BestResolutionAlways == Spec => []BestResolution
<1>1. HInv => BestResolution
  <2> SUFFICES ASSUME HInv, hist.scale # MaxScale PROVE BestResolution
    BY DEF BestResolution
  <2>1. PICK u \in DOMAIN recorded \ {0}, w \in DOMAIN recorded \ {0} :
          IndexForValue(hist.scale + 1, w) - IndexForValue(hist.scale + 1, u) + 1 > MaxSize - 1
    BY DEF HInv, NoFinerThanNeeded, TooFine
  <2>2. QED
    BY <2>1 DEF BestResolution
<1>2. QED
  BY <1>1, HInvAlways, PTL

-----------------------------------------------------------------------------
(* What a report prints.                                                   *)

(* The values up to bucket k.                                              *)
UpTo(r, s, k) == {v \in DOMAIN r : v = 0 \/ (v # 0 /\ IndexForValue(s, v) <= k)}

(* The first i buckets together have the weight of the values up to the    *)
(* last of them.                                                           *)
LEMMA PrefixSums ==
  ASSUME NEW r, Recorded(r), NEW h, Tells(h, r), h.offset # None,
         NEW c, \A j \in 1..Len(h.buckets) : c[j] = h.buckets[j],
         NEW i \in 1..Len(h.buckets)
  PROVE  /\ SumFunctionOnSet(c, 1..i) \in Int
         /\ SumFunctionOnSet(c, 1..i) % Wrap = Weight(r, UpTo(r, h.scale, h.offset + i - 2))
<1> DEFINE n == Len(h.buckets)
<1> DEFINE o == h.offset
<1> DEFINE s == h.scale
<1>1. /\ h \in Hists /\ n \in Nat /\ n >= 2 /\ o \in Int /\ s \in Int /\ s <= MaxScale
      /\ \A j \in 1..n : h.buckets[j] \in Int
  <2>1. h \in Hists /\ s \in CoarsestScale..MaxScale /\ ~(n <= 1)
    BY DEF Tells, Shaped
  <2>2. n \in Nat /\ o \in Int /\ \A j \in 1..n : h.buckets[j] \in Int
    BY <2>1, HistFields
  <2>3. QED
    BY <2>1, <2>2, ScaleAssumption, BitsAssumption
<1>2. \A j \in 1..n : c[j] = h.buckets[j] /\ c[j] \in Int
  BY <1>1
<1>3. ZeroCount(h) = h.buckets[1] /\ ZeroCount(h) = Weight(r, DOMAIN r \cap {0})
  BY <1>1 DEF ZeroCount, Tells, Exact
<1>4. \A j \in 2..n : h.buckets[j] = Weight(r, AtIndex(r, s, o + j - 2))
  <2>1. ASSUME NEW j \in 2..n PROVE h.buckets[j] = Weight(r, AtIndex(r, s, o + j - 2))
    <3>1. o + j - 2 \in Int /\ (o + j - 2) - o + 2 = j
      BY <1>1
    <3>2. Within(h, o + j - 2)
      BY <1>1 DEF Within, LastIndex
    <3>3. Count(h, o + j - 2) = h.buckets[j]
      BY <3>1, <3>2 DEF Count
    <3>4. QED
      BY <3>1, <3>3 DEF Tells, Exact
  <2>2. QED
    BY <2>1
<1>5. \A v \in Positive(r) : IndexForValue(s, v) \in Int /\ o <= IndexForValue(s, v)
  BY <1>1, ValuesRecordable, IndexType DEF Tells, Inside, Within
<1> DEFINE P(m) == /\ SumFunctionOnSet(c, 1..m) \in Int
                   /\ SumFunctionOnSet(c, 1..m) % Wrap = Weight(r, UpTo(r, s, o + m - 2))
<1> HIDE DEF n, o, s
<1>6. P(1)
  <2>1. UpTo(r, s, o + 1 - 2) = DOMAIN r \cap {0}
    <3>1. ASSUME NEW v \in DOMAIN r, v # 0 PROVE ~(IndexForValue(s, v) <= o + 1 - 2)
      BY <1>1, <1>5, <3>1 DEF Positive
    <3>2. QED
      BY <3>1 DEF UpTo
  <2>2. 1..1 = {1} /\ 1 \in 1..n /\ c[1] \in Int
    BY <1>1, <1>2
  <2>3. SumFunctionOnSet(c, 1..1) = c[1]
    <3> HIDE DEF P
    <3>1. SumFunctionOnSet(c, {1}) = c[1]
      BY <2>2, SumOne, Zenon
    <3>2. QED
      BY <2>2, <3>1
  <2>4. c[1] \in 0..(Wrap - 1)
    <3>1. DOMAIN r \cap {0} \in SUBSET DOMAIN r
      OBVIOUS
    <3>2. Weight(r, DOMAIN r \cap {0}) \in 0..(Wrap - 1)
      BY <3>1, RecordedFinite
    <3>3. c[1] = Weight(r, DOMAIN r \cap {0})
      BY <1>2, <1>3, <2>2
    <3>4. QED
      BY <3>2, <3>3
  <2>5. c[1] % Wrap = c[1]
    BY <2>4, Unwrapped
  <2>6. QED
    BY <1>2, <1>3, <2>1, <2>2, <2>3, <2>5
<1>7. ASSUME NEW m \in Nat, m >= 1, m + 1 <= n, P(m) PROVE P(m + 1)
  <2> DEFINE k == o + (m + 1) - 2
  <2> DEFINE S == UpTo(r, s, o + m - 2)
  <2> DEFINE T == AtIndex(r, s, k)
  <2> DEFINE a == SumFunctionOnSet(c, 1..m)
  <2>1. /\ 1..(m + 1) = (1..m) \cup {m + 1} /\ m + 1 \notin 1..m /\ m + 1 \in 2..n
        /\ 1..(m + 1) \subseteq 1..n /\ k \in Int /\ o + m - 2 = k - 1
    <3> HIDE DEF P, S, T, a
    <3>1. 1..(m + 1) = (1..m) \cup {m + 1} /\ m + 1 \notin 1..m
      OBVIOUS
    <3>2. m + 1 \in 2..n /\ 1..(m + 1) \subseteq 1..n
      BY <1>1, <1>7
    <3>3. k \in Int /\ o + m - 2 = k - 1
      BY <1>1
    <3>4. QED
      BY <3>1, <3>2, <3>3
  <2>2. IsFiniteSet(1..m)
    BY FS_Interval
  <2>3. SumFunctionOnSet(c, (1..m) \cup {m + 1}) = a + c[m + 1]
    <3>1. \A x \in (1..m) \cup {m + 1} : c[x] \in Int
      BY <1>2, <2>1
    <3> DEFINE I == 1..m
    <3> DEFINE x == m + 1
    <3>2. IsFiniteSet(I) /\ x \notin I /\ \A y \in I \cup {x} : c[y] \in Int
      BY <2>1, <2>2, <3>1
    <3> HIDE DEF I, x, P
    <3>3. SumFunctionOnSet(c, I \cup {x}) = SumFunctionOnSet(c, I) + c[x]
      BY <3>2, SumAdd, Zenon
    <3>4. QED
      BY <3>3 DEF I, x
  <2>4. c[m + 1] = Weight(r, T) /\ c[m + 1] \in Int
    <3>1. m + 1 \in 1..n /\ m + 1 \in 2..n
      BY <2>1
    <3>2. QED
      BY <1>2, <1>4, <3>1
  <2>5. a \in Int /\ a % Wrap = Weight(r, S)
    BY <1>7
  <2>6. UpTo(r, s, k) = S \cup T /\ S \cap T = {}
    <3>1. \A v \in DOMAIN r : v # 0 => v \in Positive(r)
      BY DEF Positive
    <3>2. ASSUME NEW v \in Positive(r)
          PROVE  /\ IndexForValue(s, v) <= k <=> \/ IndexForValue(s, v) <= k - 1
                                                 \/ IndexForValue(s, v) = k
                 /\ ~(IndexForValue(s, v) <= k - 1 /\ IndexForValue(s, v) = k)
      <4>1. IndexForValue(s, v) \in Int
        BY <1>5
      <4> HIDE DEF k
      <4>2. QED
        BY <2>1, <4>1
    <3>3. S = {v \in DOMAIN r : v = 0 \/ (v # 0 /\ IndexForValue(s, v) <= k - 1)}
      BY <2>1 DEF UpTo
    <3>4. T = {v \in Positive(r) : IndexForValue(s, v) = k}
      BY DEF AtIndex
    <3>5. UpTo(r, s, k) = {v \in DOMAIN r : v = 0 \/ (v # 0 /\ IndexForValue(s, v) <= k)}
      BY DEF UpTo
    <3> HIDE DEF S, T, k
    <3>6. \A v \in Positive(r) : v \in DOMAIN r /\ v # 0
      BY DEF Positive
    <3>7. \A v : v \in UpTo(r, s, k) <=> v \in S \/ v \in T
      BY <3>1, <3>2, <3>3, <3>4, <3>5, <3>6
    <3>8. \A v : ~(v \in S /\ v \in T)
      BY <3>2, <3>3, <3>4, <3>6
    <3>9. QED
      BY <3>7, <3>8
  <2>7. S \in SUBSET DOMAIN r /\ T \in SUBSET DOMAIN r
    BY DEF UpTo, AtIndex, Positive
  <2> HIDE DEF S, T, a, k
  <2>8. Weight(r, S \cup T) = (Weight(r, S) + Weight(r, T)) % Wrap
    BY <2>6, <2>7, WeightUnion
  <2>9. ((a % Wrap) + c[m + 1]) % Wrap = (a + c[m + 1]) % Wrap
    BY <2>4, <2>5, ReducedSum
  <2>10. SumFunctionOnSet(c, 1..(m + 1)) = a + c[m + 1] /\ a + c[m + 1] \in Int
    <3>1. SumFunctionOnSet(c, 1..(m + 1)) = SumFunctionOnSet(c, (1..m) \cup {m + 1})
      BY <2>1
    <3> DEFINE x == c[m + 1]
    <3>2. x \in Int
      BY <2>4
    <3> HIDE DEF x
    <3>3. a + x \in Int
      BY <2>5, <3>2
    <3>4. QED
      BY <2>3, <3>1, <3>3 DEF x
  <2>11. (a + c[m + 1]) % Wrap = Weight(r, UpTo(r, s, k))
    BY <2>4, <2>5, <2>6, <2>8, <2>9
  <2>12. QED
    BY <2>10, <2>11 DEF k
<1> DEFINE N == {m \in Nat : m >= 1 /\ m <= n => P(m)}
<1>8. 0 \in N
  OBVIOUS
<1>9. ASSUME NEW m \in N PROVE m + 1 \in N
  <2>1. CASE m = 0
    <3> HIDE DEF P
    <3>1. QED
      BY <1>6, <2>1
  <2>2. CASE m # 0
    <3> HIDE DEF P
    <3> SUFFICES ASSUME m + 1 <= n PROVE P(m + 1)
      OBVIOUS
    <3>1. m \in Nat /\ m >= 1 /\ m <= n
      BY <1>1, <2>2
    <3>2. P(m)
      BY <3>1
    <3>3. QED
      BY <1>7, <3>1, <3>2
  <2>3. QED
    BY <2>1, <2>2
<1>10. N = Nat
  <2>1. N \in SUBSET Nat
    OBVIOUS
  <2> HIDE DEF N
  <2>2. QED
    BY <1>8, <1>9, <2>1, NatInd
<1>11. i \in Nat /\ i >= 1 /\ i <= n
  BY DEF n
<1>12. i \in N
  <2> HIDE DEF N
  <2>1. QED
    BY <1>10, <1>11
<1>13. P(i)
  <2> HIDE DEF P
  <2>1. QED
    BY <1>11, <1>12
<1>14. QED
  BY <1>13 DEF s, o

(* No bucket is left out of the last one.                                  *)
LEMMA UpToAll ==
  ASSUME NEW r, NEW h, Tells(h, r), h.offset # None
  PROVE  UpTo(r, h.scale, LastIndex(h)) = DOMAIN r
<1>1. \A v \in DOMAIN r : v # 0 => IndexForValue(h.scale, v) <= LastIndex(h)
  BY DEF Tells, Inside, Positive, Within
<1>2. QED
  BY <1>1 DEF UpTo

(* The bound printed for bucket i is the lower end of the one behind.      *)
LEMMA UpToBound ==
  ASSUME NEW r, Recorded(r), NEW h, Tells(h, r), h.offset # None, NEW i \in 1..Len(h.buckets)
  PROVE  {v \in DOMAIN r : AtMost(v, (i - 1) + h.offset, h.scale)}
           = UpTo(r, h.scale, h.offset + i - 2)
<1> DEFINE k == (i - 1) + h.offset
<1> DEFINE s == h.scale
<1>1. /\ h.offset \in Int /\ s \in Int /\ s <= MaxScale /\ i \in Int /\ i >= 1
  BY HistFields, ScaleAssumption, BitsAssumption DEF Tells, Shaped
<1>2. \A v \in Positive(r) : IndexForValue(s, v) \in Int /\ IndexForValue(s, v) >= -1
  BY <1>1, ValuesRecordable, IndexType
<1>3. PICK u \in Positive(r) : h.offset = IndexForValue(s, u)
  BY DEF Tells, Ends
<1>4. k \in Int /\ k >= -1 /\ h.offset + i - 2 = k - 1
  BY <1>1, <1>2, <1>3
<1> HIDE DEF k, s
<1>5. ASSUME NEW v \in DOMAIN r, v # 0
      PROVE  AtMost(v, k, s) <=> IndexForValue(s, v) <= k - 1
  <2>1. v \in Recordable /\ v \in Positive(r)
    BY <1>5, ValuesRecordable DEF Positive
  <2>2. AtMost(v, k, s) <=> IndexForValue(s, v) < k
    BY <1>1, <1>4, <2>1, AtMostIsIndex
  <2>3. QED
    BY <1>2, <1>4, <2>1, <2>2
<1>6. AtMost(0, k, s)
  BY DEF AtMost
<1>7. {v \in DOMAIN r : AtMost(v, k, s)} = UpTo(r, s, k - 1)
  BY <1>5, <1>6 DEF UpTo
<1>8. QED
  BY <1>4, <1>7 DEF k, s

(* Only the zero bucket is printed: nothing else was recorded.             *)
LEMMA OneBucket ==
  ASSUME NEW r, Recorded(r), NEW h, Tells(h, r), h.offset = None,
         NEW c, \A j \in 1..Len(h.buckets) : c[j] = h.buckets[j],
         NEW i \in 1..Len(h.buckets)
  PROVE  SumFunctionOnSet(c, 1..i) % Wrap = Weight(r, DOMAIN r)
<1>1. h \in Hists /\ Len(h.buckets) \in Nat /\ Len(h.buckets) <= 1
  BY HistFields DEF Tells, Shaped
<1>2. i = 1 /\ 1..i = {1} /\ ~(Len(h.buckets) = 0) /\ 1 \in 1..Len(h.buckets)
  BY <1>1
<1>3. c[1] = h.buckets[1] /\ c[1] \in Counts /\ c[1] \in Int
  BY <1>1, <1>2, HistFields
<1>4. DOMAIN r = DOMAIN r \cap {0}
  <2>1. Positive(r) = {}
    BY DEF Tells, Inside, Within
  <2>2. QED
    BY <2>1 DEF Positive
<1>5. c[1] = Weight(r, DOMAIN r)
  BY <1>2, <1>3, <1>4 DEF ZeroCount, Tells, Exact
<1>6. SumFunctionOnSet(c, 1..i) = c[1]
  BY <1>2, <1>3, SumOne
<1>7. c[1] % Wrap = c[1]
  BY <1>3, Unwrapped DEF Counts
<1>8. QED
  BY <1>5, <1>6, <1>7

(* Without buckets nothing is recorded yet.                                *)
LEMMA NoBuckets ==
  ASSUME NEW r, Recorded(r), NEW h, Tells(h, r), h.offset = None, Len(h.buckets) = 0
  PROVE  Weight(r, DOMAIN r) = 0
<1>1. DOMAIN r = DOMAIN r \cap {0}
  <2>1. Positive(r) = {}
    BY DEF Tells, Inside, Within
  <2>2. QED
    BY <2>1 DEF Positive
<1>2. QED
  BY <1>1 DEF ZeroCount, Tells, Exact

(* The count printed last, up to infinity.                                 *)
LEMMA AllBuckets ==
  ASSUME NEW r, Recorded(r), NEW h, Tells(h, r), h.offset # None,
         NEW c, \A j \in 1..Len(h.buckets) : c[j] = h.buckets[j], c[Len(h.buckets) + 1] = 0
  PROVE  SumFunctionOnSet(c, 1..(Len(h.buckets) + 1)) % Wrap = Weight(r, DOMAIN r)
<1> DEFINE n == Len(h.buckets)
<1> DEFINE a == SumFunctionOnSet(c, 1..n)
<1>1. h \in Hists /\ n \in Nat /\ n >= 2 /\ \A j \in 1..n : h.buckets[j] \in Int
  BY HistFields DEF Tells, Shaped
<1>2. \A j \in 1..n : c[j] \in Int
  BY <1>1
<1>3. a \in Int /\ a % Wrap = Weight(r, UpTo(r, h.scale, h.offset + n - 2))
  <2>1. n \in 1..n
    BY <1>1
  <2>2. QED
    BY <2>1, PrefixSums
<1>4. UpTo(r, h.scale, h.offset + n - 2) = DOMAIN r
  BY UpToAll DEF LastIndex
<1>5. c[n + 1] = 0
  OBVIOUS
<1> HIDE DEF n
<1>6. SumFunctionOnSet(c, 1..(n + 1)) = a
  <2>1. /\ 1..(n + 1) = (1..n) \cup {n + 1} /\ n + 1 \notin 1..n /\ IsFiniteSet(1..n)
        /\ \A x \in (1..n) \cup {n + 1} : c[x] \in Int
    <3> HIDE DEF a
    <3>1. 1..(n + 1) = (1..n) \cup {n + 1} /\ n + 1 \notin 1..n
      BY <1>1
    <3>2. IsFiniteSet(1..n)
      BY <1>1, FS_Interval
    <3>3. \A x \in (1..n) \cup {n + 1} : c[x] \in Int
      BY <1>2, <1>5
    <3>4. QED
      BY <3>1, <3>2, <3>3
  <2> DEFINE z == n + 1
  <2> DEFINE I == 1..n
  <2>2. SumFunctionOnSet(c, (1..n) \cup {z}) = SumFunctionOnSet(c, 1..n) + c[z]
    <3>1. IsFiniteSet(I) /\ z \notin I /\ \A x \in I \cup {z} : c[x] \in Int
      BY <2>1
    <3> HIDE DEF I, z
    <3>2. SumFunctionOnSet(c, I \cup {z}) = SumFunctionOnSet(c, I) + c[z]
      BY <3>1, SumAdd, Zenon
    <3>3. QED
      BY <3>2 DEF I
  <2> HIDE DEF z
  <2> HIDE DEF a
  <2>3. a + 0 = a
    BY <1>3
  <2>4. QED
    BY <1>5, <2>1, <2>2, <2>3 DEF a, z
<1>7. QED
  BY <1>3, <1>4, <1>6 DEF n

LEMMA AppendIs ==
  ASSUME NEW n \in Nat, NEW V, NEW s \in [1..n -> V], NEW x \in V
  PROVE  /\ DOMAIN Append(s, x) = 1..(n + 1)
         /\ \A i \in 1..n : Append(s, x)[i] = s[i]
         /\ Append(s, x)[n + 1] = x
<1>1. s \in Seq(V) /\ Len(s) = n
  OBVIOUS
<1>2. QED
  BY <1>1

(* A report is exact: the count printed for a bound is the weight of the   *)
(* recorded values up to it.                                               *)
THEOREM CumulativeExactAlways == Spec => []CumulativeExact
<1> DEFINE n == Len(hist.buckets)
<1> DEFINE s == Sample(hist)
<1> DEFINE b == IF hist.offset = None /\ s # <<>> THEN s ELSE Append(s, [le |-> None, count |-> 0])
<1> DEFINE c == [j \in DOMAIN b |-> b[j].count]
<1> DEFINE Printed(i) ==
      SumFunctionOnSet(c, 1..i) % Wrap =
        Weight(recorded, {v \in DOMAIN recorded : \/ b[i].le = None
                                                  \/ AtMost(v, b[i].le, hist.scale)})
<1>1. CumulativeExact <=> \A i \in DOMAIN b : Printed(i)
  <2>1. Report = [i \in DOMAIN b |->
                    [le |-> b[i].le, count |-> SumFunctionOnSet(c, 1..i) % Wrap]]
    BY DEF Report
  <2> HIDE DEF b, c
  <2>2. QED
    BY <2>1 DEF CumulativeExact, WeightOf, Weight
<1>2. HInv => /\ Recorded(recorded) /\ Tells(hist, recorded) /\ n \in Nat
              /\ hist.offset \in Int \cup {None}
  BY HistFields DEF HInv, Tells, Shaped
<1>3. s = [i \in 1..n |-> [le |-> IF hist.offset = None THEN None ELSE (i - 1) + hist.offset,
                           count |-> hist.buckets[i]]]
  BY DEF Sample
<1>4. ASSUME HInv, hist.offset = None, n # 0 PROVE \A i \in DOMAIN b : Printed(i)
  <2>1. DOMAIN b = 1..n /\ \A i \in 1..n : b[i].le = None /\ b[i].count = hist.buckets[i]
    <3>1. s # <<>>
      <4>1. DOMAIN s = 1..n /\ 1 \in 1..n
        BY <1>2, <1>3, <1>4
      <4>2. DOMAIN <<>> = {}
        OBVIOUS
      <4> HIDE DEF s
      <4>3. QED
        BY <4>1, <4>2
    <3>2. b = s
      BY <1>4, <3>1
    <3> HIDE DEF b, s
    <3>3. QED
      BY <1>3, <1>4, <3>2
  <2> HIDE DEF b
  <2>2. \A i \in 1..n : c[i] = hist.buckets[i]
    BY <2>1
  <2> HIDE DEF c
  <2>3. ASSUME NEW i \in 1..n PROVE Printed(i)
    <3>1. SumFunctionOnSet(c, 1..i) % Wrap = Weight(recorded, DOMAIN recorded)
      BY <1>2, <1>4, <2>2, OneBucket
    <3>2. {v \in DOMAIN recorded : b[i].le = None \/ AtMost(v, b[i].le, hist.scale)}
            = DOMAIN recorded
      BY <2>1
    <3>3. QED
      BY <3>1, <3>2
  <2> HIDE DEF Printed
  <2>4. QED
    BY <2>1, <2>3
<1>5. ASSUME HInv, hist.offset # None PROVE \A i \in DOMAIN b : Printed(i)
  <2>1. /\ DOMAIN b = 1..(n + 1)
        /\ \A i \in 1..n : b[i].le = (i - 1) + hist.offset /\ b[i].count = hist.buckets[i]
        /\ b[n + 1].le = None /\ b[n + 1].count = 0
    <3> DEFINE end == [le |-> None, count |-> 0]
    <3> DEFINE V == {s[i] : i \in 1..n} \cup {end}
    <3>1. \A i \in 1..n : s[i] = [le |-> (i - 1) + hist.offset, count |-> hist.buckets[i]]
      BY <1>3, <1>5
    <3>2. s \in [1..n -> V] /\ end \in V
      BY <1>3
    <3>3. b = Append(s, end)
      BY <1>5
    <3> HIDE DEF b, s, V
    <3>4. /\ DOMAIN b = 1..(n + 1) /\ \A i \in 1..n : b[i] = s[i]
          /\ b[n + 1] = end
      BY <1>2, <1>5, <3>2, <3>3, AppendIs
    <3>5. \A i \in 1..n : b[i].le = (i - 1) + hist.offset /\ b[i].count = hist.buckets[i]
      <4> HIDE DEF n, end, Printed, c
      <4>1. ASSUME NEW i \in 1..n
            PROVE  b[i].le = (i - 1) + hist.offset /\ b[i].count = hist.buckets[i]
        <5>1. b[i] = [le |-> (i - 1) + hist.offset, count |-> hist.buckets[i]]
          BY <3>1, <3>4
        <5>2. QED
          BY <5>1
      <4>2. QED
        BY <4>1
    <3>6. b[n + 1].le = None /\ b[n + 1].count = 0
      <4> HIDE DEF n, Printed, c
      <4>1. QED
        BY <3>4
    <3>7. QED
      BY <3>4, <3>5, <3>6
  <2> HIDE DEF b
  <2>2. /\ \A i \in 1..n : c[i] = hist.buckets[i]
        /\ c[n + 1] = 0
    <3>1. \A i \in 1..(n + 1) : c[i] = b[i].count
      BY <2>1
    <3>2. 1..n \subseteq 1..(n + 1) /\ n + 1 \in 1..(n + 1)
      BY <1>2, <1>5
    <3> HIDE DEF c
    <3>3. QED
      BY <2>1, <3>1, <3>2
  <2> HIDE DEF c
  <2>3. ASSUME NEW i \in 1..n PROVE Printed(i)
    <3>1. SumFunctionOnSet(c, 1..i) % Wrap
            = Weight(recorded, UpTo(recorded, hist.scale, hist.offset + i - 2))
      BY <1>2, <1>5, <2>2, PrefixSums
    <3>2. {v \in DOMAIN recorded : AtMost(v, (i - 1) + hist.offset, hist.scale)}
            = UpTo(recorded, hist.scale, hist.offset + i - 2)
      BY <1>2, <1>5, UpToBound
    <3>3. b[i].le = (i - 1) + hist.offset
      BY <2>1
    <3>4. b[i].le # None
      <4>1. (i - 1) + hist.offset \in Int
        BY <1>2, <1>5
      <4>2. QED
        BY <3>3, <4>1, NoneAssumption
    <3>5. {v \in DOMAIN recorded : b[i].le = None \/ AtMost(v, b[i].le, hist.scale)}
            = {v \in DOMAIN recorded : AtMost(v, (i - 1) + hist.offset, hist.scale)}
      BY <3>3, <3>4
    <3>6. QED
      BY <3>1, <3>2, <3>5
  <2>4. Printed(n + 1)
    <3>1. SumFunctionOnSet(c, 1..(n + 1)) % Wrap = Weight(recorded, DOMAIN recorded)
      BY <1>2, <1>5, <2>2, AllBuckets
    <3> DEFINE z == n + 1
    <3>2. b[z].le = None
      BY <2>1
    <3> HIDE DEF z
    <3>3. {v \in DOMAIN recorded : b[z].le = None \/ AtMost(v, b[z].le, hist.scale)}
            = DOMAIN recorded
      BY <3>2
    <3>4. QED
      BY <3>1, <3>3 DEF z
  <2>5. \A i \in 1..(n + 1) : i = n + 1 \/ i \in 1..n
    BY <1>2, <1>5
  <2> HIDE DEF Printed
  <2>6. QED
    BY <2>1, <2>3, <2>4, <2>5
<1>6. ASSUME HInv, hist.offset = None, n = 0 PROVE \A i \in DOMAIN b : Printed(i)
  <2>1. DOMAIN b = {1} /\ b[1].le = None /\ b[1].count = 0
    <3>1. s = <<>>
      BY <1>3, <1>6
    <3>2. b = <<[le |-> None, count |-> 0]>>
      BY <1>6, <3>1
    <3> HIDE DEF b
    <3>3. QED
      BY <3>2
  <2> HIDE DEF b
  <2>2. c[1] = 0 /\ 1..1 = {1}
    BY <2>1
  <2> HIDE DEF c
  <2>3. SumFunctionOnSet(c, 1..1) % Wrap = 0
    <3>1. SumFunctionOnSet(c, {1}) = 0
      BY <2>2, SumOne
    <3>2. 0 \in 0..(Wrap - 1)
      BY WrapAssumption
    <3>3. QED
      BY <2>2, <3>1, <3>2, Unwrapped
  <2>4. Weight(recorded, DOMAIN recorded) = 0
    BY <1>2, <1>6, NoBuckets
  <2>5. {v \in DOMAIN recorded : b[1].le = None \/ AtMost(v, b[1].le, hist.scale)}
          = DOMAIN recorded
    BY <2>1
  <2>6. Printed(1)
    BY <2>3, <2>4, <2>5
  <2> HIDE DEF Printed
  <2>7. QED
    BY <2>1, <2>6
<1>7. HInv => CumulativeExact
  <2> HIDE DEF Printed, b
  <2>1. QED
    BY <1>1, <1>4, <1>5, <1>6
<1>8. QED
  BY <1>7, HInvAlways, PTL

=============================================================================
