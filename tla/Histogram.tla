----------------------------- MODULE Histogram -----------------------------
(***************************************************************************)
(* ExponentialHistogram (src/amdgpu/src/histogram.rs): counts per bucket   *)
(* of exponentially growing width.  When the values no longer fit into     *)
(* MaxSize buckets the histogram halves its resolution and merges pairs of *)
(* buckets.                                                                *)
(*                                                                         *)
(* The values are natural numbers: what the program records are unsigned   *)
(* fields of gpu_metrics.  Logarithms are exact here; the program computes *)
(* them with doubles, which may differ for a value within a hundredth of a *)
(* bucket of a boundary at the finest scale.                               *)
(***************************************************************************)
EXTENDS Integers, Sequences

CONSTANTS
  MaxSize,     \* MAX_SIZE, the number of buckets
  MaxScale,    \* the scale of an empty histogram (20 in the program)
  Wrap,        \* counts are u64 and wrap here (2^64 in the program)
  MaxBits,     \* the values are below 2^MaxBits (at most 64 in the program)
  None,        \* Option::None, and the bound of a bucket without one
  CoarsestScale  \* two buckets hold all values at this scale

(* With fewer than two positive buckets resize_to_fit would never end.     *)
ASSUME SizeAssumption == MaxSize \in Nat /\ MaxSize >= 3
ASSUME ScaleAssumption == MaxScale \in Nat
ASSUME WrapAssumption == Wrap \in Nat /\ Wrap >= 2

(* x to the power of n.  It is a function by recursion on n, for the proofs:*)
(* the provers know nothing of ^.                                          *)
Pow(x, n) ==
  LET pow[k \in Nat] == IF k = 0 THEN 1 ELSE x * pow[k - 1]
  IN  pow[n]

ASSUME BitsAssumption ==
  /\ MaxBits \in Nat \ {0} /\ CoarsestScale \in Int
  /\ CoarsestScale <= 0 /\ Pow(2, -CoarsestScale) >= MaxBits

ASSUME NoneAssumption == None \notin Int

(* ilog2 of the mantissa, plus the exponent.                               *)
ILog2(v) ==
  CHOOSE k \in 0..(MaxBits * Pow(2, MaxScale)) : v < Pow(2, k + 1) /\ Pow(2, k) <= v
PowerOf2(v) == v = Pow(2, ILog2(v))
(* scale >= 0: the logarithm of v to the base of the scale, rounded down.  *)
Log(v, scale) == ILog2(Pow(v, Pow(2, scale)))

(* Mistake: a power of two is put into the bucket it opens.                *)
OpenBelow(scale, v) == IF v = 0 THEN None ELSE Log(v, scale)
(* index_for_value: bucket k holds the values in (2^(k/2^scale),           *)
(* 2^((k+1)/2^scale)], and None means the zero bucket.                     *)
IndexForValue(scale, v) ==
  CASE v = 0 -> None
    [] v > 0 /\ scale >= 0 /\ PowerOf2(v) -> ILog2(v) * Pow(2, scale) - 1
    [] v > 0 /\ scale >= 0 /\ ~PowerOf2(v) -> Log(v, scale)
    [] v > 0 /\ scale < 0 -> (ILog2(v) - (IF PowerOf2(v) THEN 1 ELSE 0)) \div Pow(2, -scale)

Default == [scale |-> MaxScale, offset |-> None, buckets |-> <<>>, count |-> 0]

PairUp(s) ==
  [i \in 1..((Len(s) + 1) \div 2) |->
     (s[2 * i - 1] + (IF 2 * i <= Len(s) THEN s[2 * i] ELSE 0)) % Wrap]

Zeros(n) == [i \in 1..n |-> 0]

(* Mistake: pairs are formed from the first bucket, whatever its index.    *)
NoShift(offset) == 0
(* A first bucket that is the second half of a pair needs a zero before it.*)
SecondHalf(offset) == offset % 2

(* compress                                                                *)
Compress(h) ==
  IF Len(h.buckets) <= 1 THEN [h EXCEPT !.scale = @ - 1]
  ELSE [h EXCEPT !.scale = @ - 1,
                 !.offset = @ \div 2,
                 !.buckets = <<Head(@)>>
                   \o PairUp(Zeros(SecondHalf(h.offset)) \o Tail(@))]

At(h, v) == IndexForValue(h.scale, v) - h.offset + 1
Shift(h, v) == IF At(h, v) < 1 THEN 1 - At(h, v) ELSE 0

AtLeast(a, b) == IF a >= b THEN a ELSE b

(* Mistake: the zero bucket is not counted.                                *)
WithoutZero(h, v) == AtLeast(AtLeast(At(h, v), 1), Len(h.buckets)) + Shift(h, v)
(* Mistake: one bucket is kept in reserve.                                 *)
OneSpare(h, v) == AtLeast(2 + AtLeast(At(h, v), 1), Len(h.buckets)) + Shift(h, v)
(* How many buckets the histogram would have with v in it.                 *)
NewLength(h, v) == AtLeast(1 + AtLeast(At(h, v), 1), Len(h.buckets)) + Shift(h, v)

Fits(h, v) == IndexForValue(h.scale, v) = None \/ h.offset = None
              \/ NewLength(h, v) <= MaxSize

(* resize_to_fit: compress until v fits, then make room in front.  The     *)
(* result is the histogram and the position of v in it, from 0.            *)
ResizeToFit(h, v) ==
  LET compressed[n \in Nat] == IF n = 0 THEN h ELSE Compress(compressed[n - 1])
      n == CHOOSE n \in 0..(h.scale - CoarsestScale) :
             /\ Fits(compressed[n], v)
             /\ \A m \in 0..(n - 1) : ~Fits(compressed[m], v)
      g == compressed[n]
      index == IndexForValue(g.scale, v)
  IN  CASE index = None -> [h |-> g, i |-> 0]
        [] index # None /\ g.offset = None -> [h |-> [g EXCEPT !.offset = index], i |-> 1]
        [] index # None /\ g.offset # None ->
             [h |-> IF Shift(g, v) = 0 THEN g
                    ELSE [g EXCEPT !.offset = @ - Shift(g, v),
                                   !.buckets = <<Head(@)>> \o Zeros(Shift(g, v)) \o Tail(@)],
              i |-> At(g, v) + Shift(g, v)]

(* record_weighted, but for the sum.                                       *)
RecordWeighted(h, v, weight) ==
  LET fit == ResizeToFit(h, v)
      missing == fit.i + 1 - Len(fit.h.buckets)
      grown == fit.h.buckets \o (IF missing > 0 THEN Zeros(missing) ELSE <<>>)
  IN  [scale |-> fit.h.scale, offset |-> fit.h.offset,
       buckets |-> [grown EXCEPT ![fit.i + 1] = (@ + weight) % Wrap],
       count |-> (h.count + weight) % Wrap]

(* sample: bucket i (from 0) ends at 2^((i + offset)/2^scale), and at      *)
(* infinity as long as there is only the zero bucket.  The bound is given  *)
(* by its exponent at the scale of the histogram.                          *)
Sample(h) ==
  [i \in 1..Len(h.buckets) |->
     [le |-> IF h.offset = None THEN None ELSE (i - 1) + h.offset,
      count |-> h.buckets[i]]]

(* v <= 2^(k / 2^scale)                                                    *)
AtMost(v, k, scale) ==
  \/ v = 0
  \/ k >= 0 /\ scale >= 0 /\ (\/ Log(v, scale) < k
                              \/ PowerOf2(v) /\ ILog2(v) * Pow(2, scale) = k)
  \/ k >= 0 /\ scale < 0 /\ (\/ ILog2(v) < k * Pow(2, -scale)
                             \/ PowerOf2(v) /\ ILog2(v) = k * Pow(2, -scale))
=============================================================================
