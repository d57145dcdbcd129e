--------------------------- MODULE QuantArithProofs ---------------------------
(***************************************************************************)
(* Lemmas about the integer arithmetic of QuantArith that the proofs of    *)
(* the int8 reference kernels and their drivers cite: the range of an     *)
(* int8 product, the int32 wrapping add, the int8 clamp, the type of the   *)
(* requantisation, and the class of the float multiplier derived from the  *)
(* extremes of int8 products.                                              *)
(***************************************************************************)
EXTENDS QuantArith, WellFoundedInduction, TLAPS

\* The product of two int8 values.
LEMMA ProductBound ==
  ASSUME NEW a \in Int8, NEW b \in Int8
  PROVE  a * b \in Int /\ -16384 <= a * b /\ a * b <= 16384
<1>1. a \in Int /\ -128 <= a /\ a <= 127 /\ b \in Int /\ -128 <= b /\ b <= 127
  BY DEF Int8
<1> QED
  BY <1>1, SMT

\* Membership of Int32 as the two comparisons the provers work with.
LEMMA Int32Range ==
  ASSUME NEW x
  PROVE  x \in Int32 <=> x \in Int /\ MinInt32 <= x /\ x <= MaxInt32
  BY DEF Int32

LEMMA MaxInt32Facts == MaxInt32 \in Nat /\ MaxInt32 > 16384
  BY SMT DEF MaxInt32

LEMMA AddWrap32Type ==
  ASSUME NEW a \in Int32, NEW b \in Int32
  PROVE  AddWrap32(a, b) \in Int32
<1>1. a \in Int /\ MinInt32 <= a /\ a <= MaxInt32 /\
      b \in Int /\ MinInt32 <= b /\ b <= MaxInt32
  BY DEF Int32
<1>2. LET r == AddWrap32(a, b) IN r \in Int /\ MinInt32 <= r /\ r <= MaxInt32
  BY <1>1, SMT DEF AddWrap32, MaxInt32, MinInt32
<1> QED
  BY <1>2 DEF Int32

\* Without overflow, the wrapped addition is the addition.
LEMMA AddWrap32Exact ==
  ASSUME NEW a \in Int32, NEW b \in Int32, a + b \in Int32
  PROVE  AddWrap32(a, b) = a + b
<1>1. /\ a \in Int /\ MinInt32 <= a /\ a <= MaxInt32
      /\ b \in Int /\ MinInt32 <= b /\ b <= MaxInt32
      /\ MinInt32 <= a + b /\ a + b <= MaxInt32
  BY DEF Int32
<1> QED
  BY <1>1, SMT DEF AddWrap32, MaxInt32, MinInt32

LEMMA ClampInt8Type ==
  ASSUME NEW v \in Int
  PROVE  ClampInt8(v) \in Int8
  BY SMT DEF ClampInt8, MIN, MAX, Int8

(***************************************************************************)
(* 2^s for the shift amounts the requantisation uses.  The provers know    *)
(* 2^k only for a literal k, hence one case per value.                     *)
(***************************************************************************)
LEMMA TwoPowPositive ==
  ASSUME NEW s \in 0..30
  PROVE  2^s \in Nat /\ 2^s > 0
<1>1. s = 0 \/ s = 1 \/ s = 2 \/ s = 3 \/ s = 4 \/ s = 5 \/ s = 6 \/
     s = 7 \/ s = 8 \/ s = 9 \/ s = 10 \/ s = 11 \/ s = 12 \/ s = 13 \/
     s = 14 \/ s = 15 \/ s = 16 \/ s = 17 \/ s = 18 \/ s = 19 \/ s = 20 \/
     s = 21 \/ s = 22 \/ s = 23 \/ s = 24 \/ s = 25 \/ s = 26 \/ s = 27 \/
     s = 28 \/ s = 29 \/ s = 30
  BY SMT
<1>2. CASE s = 0  BY <1>2, SMT
<1>3. CASE s = 1  BY <1>3, SMT
<1>4. CASE s = 2  BY <1>4, SMT
<1>5. CASE s = 3  BY <1>5, SMT
<1>6. CASE s = 4  BY <1>6, SMT
<1>7. CASE s = 5  BY <1>7, SMT
<1>8. CASE s = 6  BY <1>8, SMT
<1>9. CASE s = 7  BY <1>9, SMT
<1>10. CASE s = 8  BY <1>10, SMT
<1>11. CASE s = 9  BY <1>11, SMT
<1>12. CASE s = 10  BY <1>12, SMT
<1>13. CASE s = 11  BY <1>13, SMT
<1>14. CASE s = 12  BY <1>14, SMT
<1>15. CASE s = 13  BY <1>15, SMT
<1>16. CASE s = 14  BY <1>16, SMT
<1>17. CASE s = 15  BY <1>17, SMT
<1>18. CASE s = 16  BY <1>18, SMT
<1>19. CASE s = 17  BY <1>19, SMT
<1>20. CASE s = 18  BY <1>20, SMT
<1>21. CASE s = 19  BY <1>21, SMT
<1>22. CASE s = 20  BY <1>22, SMT
<1>23. CASE s = 21  BY <1>23, SMT
<1>24. CASE s = 22  BY <1>24, SMT
<1>25. CASE s = 23  BY <1>25, SMT
<1>26. CASE s = 24  BY <1>26, SMT
<1>27. CASE s = 25  BY <1>27, SMT
<1>28. CASE s = 26  BY <1>28, SMT
<1>29. CASE s = 27  BY <1>29, SMT
<1>30. CASE s = 28  BY <1>30, SMT
<1>31. CASE s = 29  BY <1>31, SMT
<1>32. CASE s = 30  BY <1>32, SMT
<1> QED
  BY <1>1, <1>2, <1>3, <1>4, <1>5, <1>6, <1>7, <1>8, <1>9, <1>10, <1>11,
     <1>12, <1>13, <1>14, <1>15, <1>16, <1>17, <1>18, <1>19, <1>20, <1>21,
     <1>22, <1>23, <1>24, <1>25, <1>26, <1>27, <1>28, <1>29, <1>30, <1>31,
     <1>32

\* The requantisation of an integer is an integer.
LEMMA MBQMType ==
  ASSUME NEW x \in Int, NEW m \in Int, NEW s \in -30..30
  PROVE  MultiplyByQuantizedMultiplier(x, m, s) \in Int
<1>1. RoundedHighMul(x, m) \in Int
  BY SMT DEF RoundedHighMul
<1>2. ASSUME NEW h \in Int, NEW r \in 1..30
      PROVE  RoundingRightShift(h, r) \in Int
  <2>1. r \in 0..30 /\ r - 1 \in 0..30
    BY SMT
  <2>2. 2^r \in Nat /\ 2^r > 0 /\ 2^(r - 1) \in Nat
    BY <2>1, TwoPowPositive
  <2> QED
    BY <2>2, SMT DEF RoundingRightShift
<1>3. ASSUME NEW h \in Int, NEW k \in 1..30
      PROVE  ShiftLeftWrap32(h, k) \in Int
  <2>1. k \in 0..30 /\ 31 - k \in 0..30
    BY SMT
  <2>2. 2^k \in Nat /\ 2^(31 - k) \in Nat /\ 2^(31 - k) > 0
    BY <2>1, TwoPowPositive
  <2> QED
    BY <2>2, SMT DEF ShiftLeftWrap32, MaxInt32
<1> QED
  <2>1. CASE s > 0
    BY <1>1, <1>2, <2>1 DEF MultiplyByQuantizedMultiplier
  <2>2. CASE s < 0
    BY <1>1, <1>3, <2>2 DEF MultiplyByQuantizedMultiplier
  <2>3. CASE s = 0
    BY <1>1, <2>3 DEF MultiplyByQuantizedMultiplier
  <2> QED
    BY <2>1, <2>2, <2>3
-----------------------------------------------------------------------------
(***************************************************************************)
(* The extremes the calc_*_float_multiplier functions fold with MAX / MIN  *)
(* exist: a non-empty set of integers bounded below has a least element,  *)
(* one bounded above a greatest (the naturals are well ordered).           *)
(***************************************************************************)
LEMMA IntMinExists ==
  ASSUME NEW T \in SUBSET Int, T # {}, NEW lo \in Int, \A v \in T : lo <= v
  PROVE  \E v \in T : \A w \in T : v <= w
<1> DEFINE U == {v - lo : v \in T}
<1>0. \A v \in T : v - lo \in Nat
  OBVIOUS
<1>1. U \subseteq Nat /\ U # {}
  BY <1>0
<1>2. PICK x \in U : \A y \in U : ~(<<y, x>> \in OpToRel(<, Nat))
  BY <1>1, NatLessThanWellFounded, WFMin
<1>3. PICK v \in T : x = v - lo
  BY <1>2
<1>4. ASSUME NEW w \in T PROVE v <= w
  <2>1. w - lo \in U /\ w - lo \in Nat /\ x \in Nat
    BY <1>1
  <2>2. ~(w - lo < x)
    BY <1>2, <2>1 DEF OpToRel
  <2> QED
    BY <1>3, <2>2
<1> QED
  BY <1>4

LEMMA IntMaxExists ==
  ASSUME NEW T \in SUBSET Int, T # {}, NEW hi \in Int, \A v \in T : v <= hi
  PROVE  \E v \in T : \A w \in T : w <= v
<1> DEFINE U == {hi - v : v \in T}
<1>0. \A v \in T : hi - v \in Nat
  OBVIOUS
<1>1. U \subseteq Nat /\ U # {}
  BY <1>0
<1>2. PICK x \in U : \A y \in U : ~(<<y, x>> \in OpToRel(<, Nat))
  BY <1>1, NatLessThanWellFounded, WFMin
<1>3. PICK v \in T : x = hi - v
  BY <1>2
<1>4. ASSUME NEW w \in T PROVE w <= v
  <2>1. hi - w \in U /\ hi - w \in Nat /\ x \in Nat
    BY <1>1
  <2>2. ~(hi - w < x)
    BY <1>2, <2>1 DEF OpToRel
  <2> QED
    BY <1>3, <2>2
<1> QED
  BY <1>4

(***************************************************************************)
(* 128.0f / abs(min) is negative only for min = INT_MIN: from extremes    *)
(* above INT_MIN the float multiplier is never classed "nonpos".           *)
(***************************************************************************)
LEMMA ClassNotNonpos ==
  ASSUME NEW mx \in Int, NEW mn \in Int, MinInt32 < mx, MinInt32 < mn
  PROVE  FloatMultiplierClass(mx, mn) \in {"valid", "one", "gt1"}
<1>1. AbsInt32(mx) \in Nat /\ AbsInt32(mn) \in Nat
  BY SMT DEF AbsInt32, MinInt32, MaxInt32
<1>2. AbsInt32(mn) # MinInt32
  BY <1>1, SMT DEF MinInt32, MaxInt32
<1> QED
  BY <1>1, <1>2 DEF FloatMultiplierClass
=============================================================================
