------------------------------ MODULE DwConvRef ------------------------------
(***************************************************************************)
(* dw_conv_per_channel_ref of test/1822/test_cv1822_depthwise_conv.c: the  *)
(* host reference of the per-channel quantised depthwise convolution that  *)
(* the TPU result is compared with.                                        *)
(*                                                                         *)
(* The loop nest batch / out_y / out_x / in_channel (depth_multiplier and  *)
(* the dilation factors are the constant 1 in the code) is kept as the     *)
(* mixed-radix counter pos; the filter_y / filter_x nest as the counter    *)
(* tap.  One AccumulateTap step is one iteration of the inner body, one    *)
(* StoreOutput step the bias add, requantisation, clamp and store that end *)
(* an output element.  The buffers the caller filled are chosen by Init    *)
(* and never change.                                                       *)
(***************************************************************************)
EXTENDS QuantArith

CONSTANTS
  Batches, InputDepth, InputHeight, InputWidth,  \* input_n/c/h/w
  OutputDepth, OutputHeight, OutputWidth,        \* output_c/h/w
  FilterHeight, FilterWidth,                     \* kh, kw
  StrideH, StrideW,                              \* stride_h, stride_w
  PadTop, PadLeft,                               \* pad_top, pad_left
  Inputs, Filters,          \* the int8 buffers fill_random_data_s8 can produce
  HasBiasChoices,           \* the values p_param->has_bias takes
  Biases,                   \* the int32 bias buffers
  Multipliers, Shifts       \* the per-channel quantisation buffers

Pos == Nat \ {0}

\* The values fill_random_data_s32 writes: INT_MIN when it saturates (its
\* is_sign is 1 or -1, never 0, so the INT_MAX branch is never taken), and
\* is_sign * rand() % 128 otherwise.
S32FillValues == (-127..127) \cup {MinInt32}

ASSUME ShapeAssumption ==
  /\ {Batches, InputDepth, InputHeight, InputWidth, OutputHeight,
      OutputWidth, FilterHeight, FilterWidth, StrideH, StrideW} \subseteq Pos
  /\ OutputDepth = InputDepth
  /\ {PadTop, PadLeft} \subseteq Nat

InputShape == <<Batches, InputDepth, InputHeight, InputWidth>>

FilterShape == <<OutputDepth, InputDepth, FilterHeight, FilterWidth>>

OutputShape == <<Batches, OutputDepth, OutputHeight, OutputWidth>>

InputSize == Batches * InputDepth * InputHeight * InputWidth

KernelSize == OutputDepth * InputDepth * FilterHeight * FilterWidth

OutputSize == Batches * OutputDepth * OutputHeight * OutputWidth

\* Iterations of the four outer loops, and of the two filter loops.
NOutputs == Batches * OutputHeight * OutputWidth * InputDepth

NTaps == FilterHeight * FilterWidth

ASSUME DataAssumption ==
  /\ Inputs \subseteq [0..InputSize - 1 -> Int8]
  /\ Filters \subseteq [0..KernelSize - 1 -> Int8]
  /\ HasBiasChoices \subseteq BOOLEAN
  /\ Biases \subseteq [0..OutputDepth - 1 -> Int32]
  /\ Multipliers \subseteq [0..OutputDepth - 1 -> 0..MaxInt32]
  /\ Shifts \subseteq [0..OutputDepth - 1 -> -30..30]

VARIABLES
  input, filter,            \* input_data, filter_data
  hasBias, bias,            \* p_param->has_bias, bias_data
  multiplier, shift,        \* output_multiplier, output_rshift
  pos,                      \* iteration of batch/out_y/out_x/in_channel
  tap,                      \* iteration of filter_y/filter_x
  acc,                      \* int32_t acc
  output                    \* output_data

data == <<input, filter, hasBias, bias, multiplier, shift>>

vars == <<data, pos, tap, acc, output>>

(***************************************************************************)
(* The loop indices, decoded from the counters (innermost loop last).      *)
(***************************************************************************)
batch == pos \div (OutputHeight * OutputWidth * InputDepth)

out_y == (pos \div (OutputWidth * InputDepth)) % OutputHeight

out_x == (pos \div InputDepth) % OutputWidth

in_channel == pos % InputDepth

output_channel == in_channel

filter_y == tap \div FilterWidth

filter_x == tap % FilterWidth

in_x == out_x * StrideW - PadLeft + filter_x

in_y == out_y * StrideH - PadTop + filter_y

is_point_inside_image ==
  /\ in_x >= 0 /\ in_x < InputWidth
  /\ in_y >= 0 /\ in_y < InputHeight

\* filter_val * (input_val + input_offset), input_offset = 0
TapProduct ==
  filter[Offset(FilterShape, 0, output_channel, filter_y, filter_x)]
    * input[Offset(InputShape, batch, in_channel, in_y, in_x)]

\* Mutant: the bias added whether or not has_bias is set (bias_data is
\* allocated and filled in either case by run_compare_dw_conv).
BiasedAcc_IgnoresHasBias == AddWrap32(acc, bias[output_channel])

\* acc after "if (bias_data) acc += bias_data[output_channel];"
BiasedAcc ==
  IF hasBias THEN AddWrap32(acc, bias[output_channel]) ELSE acc

\* acc after MultiplyByQuantizedMultiplier, += output_offset and the clamp
RequantizedAcc ==
  ClampInt8(MultiplyByQuantizedMultiplier(BiasedAcc,
              multiplier[output_channel], shift[output_channel]) + 0)

Init ==
  /\ input \in Inputs
  /\ filter \in Filters
  /\ hasBias \in HasBiasChoices
  /\ bias \in Biases
  /\ multiplier \in Multipliers
  /\ shift \in Shifts
  /\ pos = 0
  /\ tap = 0
  /\ acc = 0
  /\ output = [i \in 0..OutputSize - 1 |-> 0]   \* memset(output_data, 0, ..)

\* One pass of the filter_x loop body: acc += filter_val * input_val when the
\* point is inside the image (zero padding by omission).
AccumulateTap ==
  /\ pos < NOutputs
  /\ tap < NTaps
  /\ acc' = IF is_point_inside_image THEN AddWrap32(acc, TapProduct) ELSE acc
  /\ tap' = tap + 1
  /\ UNCHANGED <<data, pos, output>>

\* Mutant: acc is declared once outside the loops and never reset.
StoreOutput_NoReset ==
  /\ pos < NOutputs
  /\ tap = NTaps
  /\ output' = [output EXCEPT
       ![Offset(OutputShape, batch, output_channel, out_y, out_x)] =
         RequantizedAcc]
  /\ pos' = pos + 1
  /\ tap' = 0
  /\ UNCHANGED <<data, acc>>

\* The end of the m loop body: bias, requantisation, clamp, the store, and
\* the next output element starts with int32_t acc = 0.
StoreOutput ==
  /\ pos < NOutputs
  /\ tap = NTaps
  /\ output' = [output EXCEPT
       ![Offset(OutputShape, batch, output_channel, out_y, out_x)] =
         RequantizedAcc]
  /\ pos' = pos + 1
  /\ tap' = 0
  /\ acc' = 0
  /\ UNCHANGED data

Next == AccumulateTap \/ StoreOutput

Spec == Init /\ [][Next]_vars

Done == pos = NOutputs

-----------------------------------------------------------------------------
(***************************************************************************)
(* The depthwise convolution the reference is meant to compute, written    *)
(* on coordinates of the dense NCHW buffers: output (b, c, oy, ox) is the  *)
(* sum over the filter window of filter(c, fy, fx) * input(b, c, y, x) for *)
(* the points (y, x) = (oy*stride_h - pad_top + fy, ox*stride_w -          *)
(* pad_left + fx) that lie in the image, plus the bias, requantised and    *)
(* clamped.  The bias is added in int32 as the code adds it (line 517),   *)
(* wrapping: with the INT_MIN bias of fill_random_data_s32 and a negative  *)
(* window sum the result is not the clamp of the exact sum.               *)
(***************************************************************************)
InputAt(b, c, y, x) ==
  input[((b * InputDepth + c) * InputHeight + y) * InputWidth + x]

FilterAt(c, fy, fx) == filter[(c * FilterHeight + fy) * FilterWidth + fx]

WindowTerm(b, c, oy, ox, k) ==
  LET fy == k \div FilterWidth
      fx == k % FilterWidth
      y  == oy * StrideH - PadTop + fy
      x  == ox * StrideW - PadLeft + fx
  IN  IF y \in 0..InputHeight - 1 /\ x \in 0..InputWidth - 1
        THEN FilterAt(c, fy, fx) * InputAt(b, c, y, x) ELSE 0

\* The sum of the first n window terms.
WindowSum(b, c, oy, ox, n) ==
  LET S[k \in 0..n] == IF k = 0 THEN 0
                       ELSE S[k - 1] + WindowTerm(b, c, oy, ox, k - 1)
  IN  S[n]

ExpectedOutput(b, c, oy, ox) ==
  LET sum == AddWrap32(WindowSum(b, c, oy, ox, NTaps),
                       IF hasBias THEN bias[c] ELSE 0)
  IN  ClampInt8(MultiplyByQuantizedMultiplier(sum, multiplier[c], shift[c]))

OutputAt(b, c, oy, ox) ==
  output[((b * OutputDepth + c) * OutputHeight + oy) * OutputWidth + ox]

-----------------------------------------------------------------------------
(***************************************************************************)
(* Type invariant.                                                         *)
(***************************************************************************)
TypeOK ==
  /\ input \in Inputs
  /\ filter \in Filters
  /\ hasBias \in HasBiasChoices
  /\ bias \in Biases
  /\ multiplier \in Multipliers
  /\ shift \in Shifts
  /\ pos \in 0..NOutputs
  /\ tap \in 0..NTaps
  /\ acc \in Int32
  /\ output \in [0..OutputSize - 1 -> Int8]

(***************************************************************************)
(* While an output element is being accumulated, the int32 acc of the      *)
(* filter loops holds exactly the sum of the window terms visited so far:  *)
(* the Offset arithmetic reads the right input and filter bytes, the       *)
(* is_point_inside_image test skips exactly the padding, and nothing of    *)
(* the previous element is carried over.                                   *)
(***************************************************************************)
AccIsWindowSum ==
  pos < NOutputs => acc = WindowSum(batch, in_channel, out_y, out_x, tap)

(***************************************************************************)
(* When dw_conv_per_channel_ref returns, every element of output_data, at  *)
(* its NCHW coordinates, is its own window sum plus its channel's bias     *)
(* (when has_bias), requantised with its channel's multiplier and shift    *)
(* and clamped to int8: each element is stored once, at the right offset, *)
(* from the complete window and nothing else.                              *)
(***************************************************************************)
OutputMatchesConvolution ==
  Done =>
    \A b \in 0..Batches - 1, c \in 0..OutputDepth - 1,
       oy \in 0..OutputHeight - 1, ox \in 0..OutputWidth - 1 :
         OutputAt(b, c, oy, ox) = ExpectedOutput(b, c, oy, ox)

(***************************************************************************)
(* The int32 acc wraps only at the bias: acc += filter_val * input_val of  *)
(* the next inside tap is always exact, and acc += bias_data[...] at line *)
(* 517 leaves int32 only for a bias of INT_MIN on a negative window sum.   *)
(***************************************************************************)
AccWrapsOnlyAtIntMinBias ==
  pos < NOutputs =>
    /\ tap < NTaps /\ is_point_inside_image => acc + TapProduct \in Int32
    /\ tap = NTaps /\ hasBias /\ Add32Overflows(acc, bias[output_channel]) =>
         bias[output_channel] = MinInt32 /\ acc < 0

=============================================================================
