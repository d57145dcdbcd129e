--------------------------- MODULE DwConvRefProofs ---------------------------
(***************************************************************************)
(* Proofs about dw_conv_per_channel_ref (module DwConvRef) for every       *)
(* shape, stride, padding and every buffer contents the assumptions allow. *)
(***************************************************************************)
EXTENDS DwConvRef, QuantArithProofs, TLAPS

-----------------------------------------------------------------------------
(* Arithmetic lemmas. *)

LEMMA DivModBound ==
  ASSUME NEW a \in Nat, NEW K \in Pos, NEW N \in Nat, a < N * K
  PROVE  /\ a \div K \in 0..N - 1
         /\ a % K \in 0..K - 1
  BY SMT DEF Pos

\* Offset of an index inside a dense shape lies inside the buffer.
LEMMA OffsetBound ==
  ASSUME NEW d1 \in Pos, NEW d2 \in Pos, NEW d3 \in Pos, NEW d4 \in Pos,
         NEW i0 \in 0..d1 - 1, NEW i1 \in 0..d2 - 1,
         NEW i2 \in 0..d3 - 1, NEW i3 \in 0..d4 - 1
  PROVE  Offset(<<d1, d2, d3, d4>>, i0, i1, i2, i3) \in 0..d1 * d2 * d3 * d4 - 1
<1> DEFINE j1 == i0 * d2 + i1
           j2 == j1 * d3 + i2
           j3 == j2 * d4 + i3
<1>1. j1 \in 0..d1 * d2 - 1
  BY SMT DEF Pos
<1>2. j2 \in 0..d1 * d2 * d3 - 1
  BY <1>1, SMT DEF Pos
<1>3. j3 \in 0..d1 * d2 * d3 * d4 - 1
  BY <1>2, SMT DEF Pos
<1> QED
  BY <1>3 DEF Offset

-----------------------------------------------------------------------------
(* The loop indices and the buffer offsets. *)

\* ShapeAssumption, one constant at a time.
LEMMA ShapeFacts ==
  /\ Batches \in Pos /\ InputDepth \in Pos /\ InputHeight \in Pos
  /\ InputWidth \in Pos /\ OutputDepth \in Pos /\ OutputHeight \in Pos
  /\ OutputWidth \in Pos /\ FilterHeight \in Pos /\ FilterWidth \in Pos
  /\ StrideH \in Pos /\ StrideW \in Pos /\ PadTop \in Nat /\ PadLeft \in Nat
  /\ OutputDepth = InputDepth
  BY ShapeAssumption, Zenon

USE ShapeFacts DEF Pos

LEMMA SizesPositive ==
  /\ NOutputs \in Pos /\ NTaps \in Pos
  /\ InputSize \in Pos /\ KernelSize \in Pos /\ OutputSize \in Pos
  BY SMT DEF NOutputs, NTaps, InputSize, KernelSize, OutputSize

USE SizesPositive

\* While the loops run, every decoded loop index is inside its loop bounds.
LEMMA LoopIndexBounds ==
  ASSUME pos \in 0..NOutputs - 1
  PROVE  /\ batch \in 0..Batches - 1
         /\ out_y \in 0..OutputHeight - 1
         /\ out_x \in 0..OutputWidth - 1
         /\ in_channel \in 0..InputDepth - 1
<1>1. batch \in 0..Batches - 1
  <2>1. OutputHeight * OutputWidth * InputDepth \in Pos
    BY SMT
  <2>2. pos \in Nat /\ pos < Batches * (OutputHeight * OutputWidth * InputDepth)
    BY SMT DEF NOutputs
  <2> QED
    BY <2>1, <2>2, DivModBound DEF batch
<1>2. /\ out_y \in 0..OutputHeight - 1
      /\ out_x \in 0..OutputWidth - 1
      /\ in_channel \in 0..InputDepth - 1
  BY SMT DEF out_y, out_x, in_channel
<1> QED
  BY <1>1, <1>2

LEMMA TapIndexBounds ==
  ASSUME tap \in 0..NTaps - 1
  PROVE  /\ filter_y \in 0..FilterHeight - 1
         /\ filter_x \in 0..FilterWidth - 1
<1>1. tap \in Nat /\ tap < FilterHeight * FilterWidth
  BY SMT DEF NTaps
<1> QED
  BY <1>1, DivModBound DEF filter_y, filter_x

\* An inside tap reads input_data and filter_data within their buffers.
LEMMA TapOffsetsInRange ==
  ASSUME pos \in 0..NOutputs - 1, tap \in 0..NTaps - 1, is_point_inside_image
  PROVE  /\ Offset(InputShape, batch, in_channel, in_y, in_x)
              \in 0..InputSize - 1
         /\ Offset(FilterShape, 0, output_channel, filter_y, filter_x)
              \in 0..KernelSize - 1
<1>1. /\ batch \in 0..Batches - 1 /\ in_channel \in 0..InputDepth - 1
      /\ out_y \in 0..OutputHeight - 1 /\ out_x \in 0..OutputWidth - 1
      /\ filter_y \in 0..FilterHeight - 1 /\ filter_x \in 0..FilterWidth - 1
  BY LoopIndexBounds, TapIndexBounds
<1>2. in_y \in 0..InputHeight - 1 /\ in_x \in 0..InputWidth - 1
  BY <1>1, SMT DEF is_point_inside_image, in_y, in_x
<1>3. 0 \in 0..OutputDepth - 1 /\ output_channel \in 0..InputDepth - 1
  BY <1>1, SMT DEF output_channel
<1>4. Offset(InputShape, batch, in_channel, in_y, in_x) \in 0..InputSize - 1
  BY <1>1, <1>2, OffsetBound DEF InputShape, InputSize
<1>5. Offset(FilterShape, 0, output_channel, filter_y, filter_x)
        \in 0..KernelSize - 1
  BY <1>1, <1>3, OffsetBound DEF FilterShape, KernelSize
<1> QED
  BY <1>4, <1>5

\* The buffers keep the types DataAssumption gives them.
LEMMA DataTypes ==
  ASSUME TypeOK
  PROVE  /\ input \in [0..InputSize - 1 -> Int8]
         /\ filter \in [0..KernelSize - 1 -> Int8]
         /\ bias \in [0..OutputDepth - 1 -> Int32]
         /\ multiplier \in [0..OutputDepth - 1 -> 0..MaxInt32]
         /\ shift \in [0..OutputDepth - 1 -> -30..30]
  BY DataAssumption DEF TypeOK

\* filter_val * input_val of an inside tap is an int8 product.
LEMMA TapProductBound ==
  ASSUME TypeOK, pos \in 0..NOutputs - 1, tap \in 0..NTaps - 1,
         is_point_inside_image
  PROVE  TapProduct \in Int /\ -16384 <= TapProduct /\ TapProduct <= 16384
<1>1. /\ input[Offset(InputShape, batch, in_channel, in_y, in_x)] \in Int8
      /\ filter[Offset(FilterShape, 0, output_channel, filter_y, filter_x)]
           \in Int8
  BY DataTypes, TapOffsetsInRange
<1> QED
  BY <1>1, ProductBound DEF TapProduct

\* The value StoreOutput writes is an int8.
LEMMA RequantizedAccType ==
  ASSUME TypeOK, pos \in 0..NOutputs - 1
  PROVE  RequantizedAcc \in Int8
<1>1. output_channel \in 0..OutputDepth - 1
  BY LoopIndexBounds DEF output_channel
<1>2. /\ bias[output_channel] \in Int32
      /\ multiplier[output_channel] \in 0..MaxInt32
      /\ shift[output_channel] \in -30..30
  BY <1>1, DataTypes, Zenon
<1>3. BiasedAcc \in Int32
  BY <1>2, AddWrap32Type DEF BiasedAcc, TypeOK
<1>4. MultiplyByQuantizedMultiplier(BiasedAcc, multiplier[output_channel],
        shift[output_channel]) \in Int
  <2>1. BiasedAcc \in Int
    BY <1>3, Int32Range
  <2>2. multiplier[output_channel] \in Int
    BY <1>2, SMT
  <2> QED
    BY <1>2, <2>1, <2>2, MBQMType
<1> QED
  BY <1>4, ClampInt8Type DEF RequantizedAcc

LEMMA TypeInit == Init => TypeOK
<1> SUFFICES ASSUME Init PROVE TypeOK
  OBVIOUS
<1>1. pos \in 0..NOutputs /\ tap \in 0..NTaps
  BY SMT DEF Init
<1>2. acc \in Int32
  BY Int32Range, SMT DEF Init, MaxInt32, MinInt32
<1>3. output \in [0..OutputSize - 1 -> Int8]
  BY SMT DEF Init, Int8
<1> QED
  BY <1>1, <1>2, <1>3 DEF Init, TypeOK

LEMMA TypeNext == TypeOK /\ [Next]_vars => TypeOK'
<1> SUFFICES ASSUME TypeOK, [Next]_vars PROVE TypeOK'
  OBVIOUS
<1>1. CASE AccumulateTap
  <2>1. pos \in 0..NOutputs - 1 /\ tap \in 0..NTaps - 1
    BY <1>1, SMT DEF AccumulateTap, TypeOK
  <2>2. acc' \in Int32
    <3>1. CASE is_point_inside_image
      <4>1. TapProduct \in Int32
        <5>1. TapProduct \in Int /\ -16384 <= TapProduct /\ TapProduct <= 16384
          BY <2>1, <3>1, TapProductBound
        <5> QED
          BY <5>1, Int32Range, SMT DEF MaxInt32, MinInt32
      <4> QED
        BY <1>1, <3>1, <4>1, AddWrap32Type DEF AccumulateTap, TypeOK
    <3>2. CASE ~is_point_inside_image
      BY <1>1, <3>2 DEF AccumulateTap, TypeOK
    <3> QED
      BY <3>1, <3>2
  <2>3. tap' \in 0..NTaps
    BY <1>1, <2>1, SMT DEF AccumulateTap
  <2> QED
    BY <1>1, <2>2, <2>3 DEF AccumulateTap, TypeOK, data
<1>2. CASE StoreOutput
  <2>1. pos \in 0..NOutputs - 1
    BY <1>2, SMT DEF StoreOutput, TypeOK
  <2>2. RequantizedAcc \in Int8
    BY <2>1, RequantizedAccType
  <2>3. output' \in [0..OutputSize - 1 -> Int8]
    BY <1>2, <2>2 DEF StoreOutput, TypeOK
  <2>4. pos' \in 0..NOutputs /\ tap' \in 0..NTaps
    BY <1>2, <2>1, SMT DEF StoreOutput
  <2>5. acc' \in Int32
    BY <1>2, Int32Range, SMT DEF StoreOutput, MaxInt32, MinInt32
  <2> QED
    BY <1>2, <2>3, <2>4, <2>5 DEF StoreOutput, TypeOK, data
<1>3. CASE UNCHANGED vars
  BY <1>3 DEF vars, data, TypeOK
<1> QED
  BY <1>1, <1>2, <1>3 DEF Next

-----------------------------------------------------------------------------
(***************************************************************************)
(* Type correctness of dw_conv_per_channel_ref: the loop counters stay in  *)
(* their ranges, the int32 acc stays an int32 (every += wraps) and every   *)
(* byte stored to output_data is an int8, whatever the shape and buffers.  *)
(***************************************************************************)
THEOREM TypeCorrect == Spec => []TypeOK
  BY TypeInit, TypeNext, PTL DEF Spec

-----------------------------------------------------------------------------
(***************************************************************************)
(* The int32 accumulator of dw_conv_per_channel_ref wraps only where the  *)
(* INT_MIN bias of fill_random_data_s32 meets a negative window sum.  It   *)
(* holds for int8 data, every bias fill_random_data_s32 can write         *)
(* (S32FillValues) and any kernel of at most (2^31 - 128) / 2^14 taps,     *)
(* i.e. any kernel whose filter fits the 128 KiB of a local-memory lane:  *)
(* every tap add is exact, a bias in -127..127 adds exactly, and INT_MIN   *)
(* added to a sum >= 0 stays in int32.                                    *)
(*                                                                         *)
(* The invariant is strengthened with the bound |acc| <= 2^14 * tap: one   *)
(* int8 product adds at most 2^14 = (-128) * (-128) per tap, and acc is    *)
(* reset when tap is.                                                      *)
(***************************************************************************)
AccBound == acc \in Int /\ -16384 * tap <= acc /\ acc <= 16384 * tap

IInv == TypeOK /\ AccBound

THEOREM WrapOnlyAtIntMinBias ==
  ASSUME \A b \in Biases, c \in 0..OutputDepth - 1 : b[c] \in S32FillValues,
         NTaps * 16384 + 127 <= MaxInt32
  PROVE  Spec => []AccWrapsOnlyAtIntMinBias
<1> USE DEF MinInt32
<1>1. Init => IInv
  BY TypeInit, SMT DEF Init, IInv, AccBound
<1>2. ASSUME TypeOK, AccBound, pos \in 0..NOutputs - 1,
             tap \in 0..NTaps - 1, is_point_inside_image
      PROVE  /\ acc + TapProduct \in Int32
             /\ -16384 * (tap + 1) <= acc + TapProduct
             /\ acc + TapProduct <= 16384 * (tap + 1)
  <2>1. TapProduct \in Int /\ -16384 <= TapProduct /\ TapProduct <= 16384
    BY <1>2, TapProductBound
  <2>2. 16384 * (tap + 1) <= NTaps * 16384 /\ NTaps * 16384 < MaxInt32
    BY <1>2, MaxInt32Facts, SMT
  <2> QED
    BY <1>2, <2>1, <2>2, MaxInt32Facts, Int32Range, SMT DEF AccBound
<1>3. IInv /\ [Next]_vars => AccBound'
  <2> SUFFICES ASSUME TypeOK, AccBound, [Next]_vars PROVE AccBound'
    BY DEF IInv
  <2>1. CASE AccumulateTap
    <3>1. pos \in 0..NOutputs - 1 /\ tap \in 0..NTaps - 1
      BY <2>1, SMT DEF AccumulateTap, TypeOK
    <3>2. CASE is_point_inside_image
      <4>1. acc + TapProduct \in Int32
            /\ -16384 * (tap + 1) <= acc + TapProduct
            /\ acc + TapProduct <= 16384 * (tap + 1)
        BY <1>2, <3>1, <3>2
      <4>2. acc' = acc + TapProduct
        <5>1. acc \in Int32 /\ TapProduct \in Int32
          BY <3>1, <3>2, TapProductBound, Int32Range, SMT
             DEF TypeOK, AccBound, MaxInt32
        <5> QED
          BY <2>1, <3>2, <4>1, <5>1, AddWrap32Exact DEF AccumulateTap
      <4> QED
        BY <2>1, <4>1, <4>2, Int32Range, SMT DEF AccumulateTap, AccBound
    <3>3. CASE ~is_point_inside_image
      BY <2>1, <3>1, <3>3, SMT DEF AccumulateTap, AccBound
    <3> QED
      BY <3>2, <3>3
  <2>2. CASE StoreOutput
    BY <2>2, SMT DEF StoreOutput, AccBound
  <2>3. CASE UNCHANGED vars
    BY <2>3 DEF vars, AccBound
  <2> QED
    BY <2>1, <2>2, <2>3 DEF Next
<1>4. IInv => AccWrapsOnlyAtIntMinBias
  <2> SUFFICES ASSUME TypeOK, AccBound, pos < NOutputs
               PROVE  AccWrapsOnlyAtIntMinBias
    BY DEF IInv, AccWrapsOnlyAtIntMinBias
  <2>1. pos \in 0..NOutputs - 1
    BY SMT DEF TypeOK
  <2>2. ASSUME tap < NTaps, is_point_inside_image
        PROVE  acc + TapProduct \in Int32
    <3>1. tap \in 0..NTaps - 1
      BY <2>2, SMT DEF TypeOK
    <3> QED
      BY <1>2, <2>1, <2>2, <3>1
  <2>3. ASSUME tap = NTaps, hasBias, Add32Overflows(acc, bias[output_channel])
        PROVE  bias[output_channel] = MinInt32 /\ acc < 0
    <3>1. output_channel \in 0..OutputDepth - 1
      BY <2>1, LoopIndexBounds DEF output_channel
    <3>2. bias[output_channel] \in S32FillValues
      BY <3>1 DEF TypeOK
    <3>3. -16384 * NTaps <= acc /\ acc <= 16384 * NTaps /\ acc \in Int
      BY <2>3 DEF AccBound
    <3> QED
      BY <2>3, <3>2, <3>3, MaxInt32Facts, SMT DEF S32FillValues, Add32Overflows
  <2> QED
    BY <2>2, <2>3 DEF AccWrapsOnlyAtIntMinBias
<1> QED
  BY <1>1, <1>3, <1>4, TypeNext, PTL DEF Spec, IInv

=============================================================================
