----------------------------- MODULE QuantArith -----------------------------
(***************************************************************************)
(* Integer arithmetic shared by the int8 reference kernels of the tests:   *)
(* the int8 / int32 ranges, the two's complement int32 `+=`, the MIN/MAX   *)
(* clamp to int8, the flattened NCHW offset and the fixed-point            *)
(* requantisation MultiplyByQuantizedMultiplier.                           *)
(*                                                                         *)
(* MultiplyByQuantizedMultiplier is declared by the runtime's test headers *)
(* and is not part of the sources; it is written from its description:    *)
(* a Q31 multiply whose 64-bit product is rounded half up to its high      *)
(* word (add 1 << 30, keep bits 31..62), then a rounding right shift for a *)
(* positive shift and a left shift for a negative one.                     *)
(*                                                                         *)
(* Every intermediate value stays inside the 32-bit signed range, so that  *)
(* TLC evaluates the operators exactly: the 64-bit product is formed from  *)
(* 15-bit limbs, and the wrapped sum is computed without forming the     *)
(* out-of-range sum.                                                       *)
(***************************************************************************)
EXTENDS Integers

Int8 == -128..127

MaxInt32 == 2147483647

MinInt32 == -MaxInt32 - 1

Int32 == MinInt32..MaxInt32

(***************************************************************************)
(* a += b on int32_t.  Signed overflow is undefined in C; the builds of    *)
(* these tests (gcc, no -ftrapv) wrap it modulo 2^32.                      *)
(***************************************************************************)
AddWrap32(a, b) ==
  CASE b > 0 /\ a > MaxInt32 - b -> (a - MaxInt32 - 1) + (b - MaxInt32 - 1)
    [] b < 0 /\ a < MinInt32 - b -> (a + MaxInt32 + 1) + (b + MaxInt32 + 1)
    [] OTHER                     -> a + b

\* The exact a + b lies outside int32: the cases in which AddWrap32 wraps.
Add32Overflows(a, b) ==
  \/ b > 0 /\ a > MaxInt32 - b
  \/ b < 0 /\ a < MinInt32 - b

\* MIN and MAX of the test sources: (((a) < (b)) ? (a) : (b)) and dual.
MIN(a, b) == IF a < b THEN a ELSE b

MAX(a, b) == IF a > b THEN a ELSE b

(***************************************************************************)
(* The saturation to int8 the references apply before the store:          *)
(*   acc = MAX(acc, output_activation_min);                                *)
(*   acc = MIN(acc, output_activation_max);                                *)
(***************************************************************************)
\* Mutant: the upper bound line acc = MIN(acc, output_activation_max) lost.
ClampInt8_NoMax(acc) == MAX(acc, -128)

ClampInt8(acc) == MIN(MAX(acc, -128), 127)

(***************************************************************************)
(* Offset(shape, i0, i1, i2, i3) of the depthwise test: the index of       *)
(* element (i0, i1, i2, i3) of a dense row-major 4-d array.                *)
(***************************************************************************)
Offset(shape, i0, i1, i2, i3) ==
  ((i0 * shape[2] + i1) * shape[3] + i2) * shape[4] + i3

(***************************************************************************)
(* (x * m + 2^30) >> 31 for an int32 x and 0 <= m < 2^31: the product is  *)
(* the sum of c_k * 2^(15k) over the limb products c_k, the carries are    *)
(* propagated limb by limb, 2^30 is the 1 added to limb 2, and bit 31 of   *)
(* the sum is bit 1 of limb 2.                                             *)
(***************************************************************************)
RoundedHighMul(x, m) ==
  LET B  == 32768
      x0 == x % B
      x1 == (x \div B) % B
      x2 == x \div (B * B)
      m0 == m % B
      m1 == (m \div B) % B
      m2 == m \div (B * B)
      t1 == x0 * m1 + x1 * m0 + (x0 * m0) \div B
      t2 == x0 * m2 + x1 * m1 + x2 * m0 + 1 + t1 \div B
      t3 == x1 * m2 + x2 * m1 + x2 * m2 * B + t2 \div B
  IN  t3 * (B \div 2) + (t2 % B) \div 2

\* (x + 2^(s-1)) >> s, arithmetic shift by 0 < s < 31 rounding half up.
RoundingRightShift(x, s) ==
  x \div 2^s + (IF x % 2^s >= 2^(s - 1) THEN 1 ELSE 0)

\* (int32_t)(x << k) for 0 < k < 31: the low 31 - k bits move up, bit
\* 31 - k becomes the sign bit.
ShiftLeftWrap32(x, k) ==
  LET low  == (x % 2^(31 - k)) * 2^k
      sign == (x \div 2^(31 - k)) % 2
  IN  IF sign = 1 THEN low - MaxInt32 - 1 ELSE low

MultiplyByQuantizedMultiplier(x, multiplier, shift) ==
  LET hi == RoundedHighMul(x, multiplier)
  IN  CASE shift > 0 -> RoundingRightShift(hi, shift)
        [] shift < 0 -> ShiftLeftWrap32(hi, -shift)
        [] OTHER     -> hi

\* abs() of an int; abs(INT_MIN) is undefined in C and yields INT_MIN on
\* the targets (two's complement negation wraps).
AbsInt32(x) == IF x = MinInt32 THEN MinInt32 ELSE IF x < 0 THEN -x ELSE x

(***************************************************************************)
(* The float multiplier the calc_*_float_multiplier functions derive from  *)
(* the extremes of the int32 results:                                      *)
(*   if (abs(max) > abs(min)) fm = 127.0f / abs(max);                      *)
(*   else                     fm = 128.0f / abs(min);                      *)
(* classified as the drivers test it: in (0, 1) ("valid"), exactly 1.0     *)
(* ("one": 127 / 127 and 128 / 128), above 1 or +inf (division by 0), and  *)
(* negative (only 128.0f / abs(INT_MIN)).  127 / M for M > 127 and         *)
(* 128 / m for m > 128 round below 1 in float.                             *)
(***************************************************************************)
FloatMultiplierClass(accMax, accMin) ==
  LET M == AbsInt32(accMax)
      m == AbsInt32(accMin)
  IN  IF M > m THEN CASE M > 127 -> "valid"
                      [] M = 127 -> "one"
                      [] OTHER   -> "gt1"
      ELSE CASE m > 128        -> "valid"
             [] m = 128        -> "one"
             [] m = MinInt32   -> "nonpos"
             [] OTHER          -> "gt1"

=============================================================================
