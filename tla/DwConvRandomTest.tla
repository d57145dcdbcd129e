--------------------------- MODULE DwConvRandomTest ---------------------------
(***************************************************************************)
(* random_test and check_valid_test_param of                               *)
(* test/1822/test_cv1822_depthwise_conv.c: the sweep over the range tables *)
(* of batch, input height, width and depth, kernel height and width and    *)
(* the two strides, nine loops deep with the m loop of retry_test_count    *)
(* outermost.  Every loop body ends with the stop-at-first-error check.    *)
(* The input depth is drawn on entry to the l loop, with the index k of    *)
(* the width loop.  has_bias is drawn in the innermost body; it is kept    *)
(* with the stride width there.  run_compare_dw_conv is abstracted to its  *)
(* outcome (DwConvDriver models it).                                       *)
(***************************************************************************)
EXTENDS Integers, Sequences, FiniteSets

CONSTANTS
  BatchRange, HeightRange, WidthRange, DepthRange,     \* int *_range[]
  KernelHRange, KernelWRange, StrideHRange, StrideWRange,
  RetryTestCount,   \* const int retry_test_count = 100
  MinExecTests,     \* MIN_EXEC_TESTS (20)
  LmemSize,         \* cvk_ctx->info.lmem_size, bytes per lane
  NpuNum,           \* cvk_ctx->info.npu_num, lanes
  EuNum             \* cvk_ctx->info.eu_num, the lane's alignment unit

ASSUME DwRandomAssumption ==
  /\ \A t \in {BatchRange, HeightRange, WidthRange, DepthRange, KernelHRange,
               KernelWRange, StrideHRange, StrideWRange} :
       t \in Seq(Nat \ {0}) /\ t # <<>>
  /\ Len(BatchRange) = Len(HeightRange)
  /\ Len(WidthRange) = Len(HeightRange) /\ Len(DepthRange) = Len(HeightRange)
  /\ Len(KernelWRange) = Len(KernelHRange)
  /\ Len(StrideHRange) = Len(KernelHRange) /\ Len(StrideWRange) = Len(KernelHRange)
  /\ {RetryTestCount, LmemSize, NpuNum, EuNum} \subseteq Nat \ {0}
  /\ MinExecTests \in Nat

VARIABLES pc, lvl, idx, vals, ret, executed, failed, seen

vars == <<pc, lvl, idx, vals, ret, executed, failed, seen>>

\* input_range_size and kernel_range_size.
InputRangeSize == Len(HeightRange)

KernelRangeSize == Len(KernelHRange)

\* The loops m, i, j, k, l, m, n, x, y.
DwSizes ==
  <<RetryTestCount, InputRangeSize, InputRangeSize, InputRangeSize,
    InputRangeSize, KernelRangeSize, KernelRangeSize, KernelRangeSize,
    KernelRangeSize>>

\* choose_from_range(table, size, index): the values rand() can give.
ChooseFromRange(t, size, i) ==
  IF i >= size THEN {0}
  ELSE IF i < size - 1
         THEN LET range == IF t[i + 2] - t[i + 1] - 1 > 1
                             THEN t[i + 2] - t[i + 1] - 1 ELSE 1
              IN  t[i + 1]..(t[i + 1] + range - 1)
         ELSE {t[i + 1]}

\* The value drawn on entry to the body of loop L at the indices ix; the
\* depth is drawn with the width's index k (ix[4]), not its own l (ix[5]).
DwChoices(L, ix) ==
  CASE L = 1 -> {0}
    [] L = 2 -> ChooseFromRange(BatchRange, InputRangeSize, ix[2])
    [] L = 3 -> ChooseFromRange(HeightRange, InputRangeSize, ix[3])
    [] L = 4 -> ChooseFromRange(WidthRange, InputRangeSize, ix[4])
    [] L = 5 -> ChooseFromRange(DepthRange, InputRangeSize, ix[4])
    [] L = 6 -> ChooseFromRange(KernelHRange, KernelRangeSize, ix[6])
    [] L = 7 -> ChooseFromRange(KernelWRange, KernelRangeSize, ix[7])
    [] L = 8 -> ChooseFromRange(StrideHRange, KernelRangeSize, ix[8])
    [] L = 9 -> ChooseFromRange(StrideWRange, KernelRangeSize, ix[9])
                  \X BOOLEAN

\* The fields of test_param built from the draws v.
Batch(v) == v[2]
InH(v) == v[3]
InW(v) == v[4]
InC(v) == v[5]
KH(v) == v[6]
KW(v) == v[7]
StrH(v) == v[8]
StrW(v) == v[9][1]
HasBias(v) == v[9][2]

\* C integer division, truncating towards zero.
CDiv(a, b) == IF a >= 0 THEN a \div b ELSE -((-a) \div b)

\* calc_output_hw with no dilation, insertion or padding.
OutH(v) == CDiv(InH(v) - KH(v), StrH(v)) + 1
OutW(v) == CDiv(InW(v) - KW(v), StrW(v)) + 1

\* lmem_tensor_to_size of the kernel library: bytes per lane of an int8
\* tensor, channels spread over the lanes, h * w rounded up to eu_num when
\* eu-aligned.
TensorToSize(n, c, h, w, euAlign) ==
  LET hw == IF euAlign THEN ((h * w + EuNum - 1) \div EuNum) * EuNum ELSE h * w
  IN  n * ((c + NpuNum - 1) \div NpuNum) * hw

\* check_valid_test_param: the shape check, the total size against the
\* lmem of all lanes, the per-lane size of the four tensors.
CheckValid(v) ==
  LET chl == IF HasBias(v) THEN 9 ELSE 5
      total == Batch(v) * InC(v) * InH(v) * InW(v) + InC(v) * KH(v) * KW(v)
                 + Batch(v) * InC(v) * OutH(v) * OutW(v) + chl * NpuNum
      lane == TensorToSize(Batch(v), InC(v), InH(v), InW(v), TRUE)
                + TensorToSize(1, InC(v), KH(v), KW(v), TRUE)
                + TensorToSize(Batch(v), InC(v), OutH(v), OutW(v), TRUE)
                + TensorToSize(1, InC(v), 1, chl, FALSE)
  IN  /\ ~(KH(v) > InH(v) \/ KW(v) > InW(v)
           \/ StrH(v) > InH(v) \/ StrW(v) > InW(v))
      /\ total <= LmemSize * NpuNum
      /\ lane <= LmemSize

\* Mutant: the stop check of the innermost (y) loop lost.
DwBreakLevels_NoInner == 1..8

\* All nine loop bodies end with "if (ret && stop_at_first_error) break;".
DwBreakLevels == 1..9

\* An executed case is recorded by its depth loop index l and its depth.
DwObserve(ix, v) == [l |-> ix[5], c |-> InC(v)]

Sweep == INSTANCE RandomSweep
           WITH Sizes <- DwSizes, BreakLevels <- DwBreakLevels,
                Choices <- DwChoices, Observe <- DwObserve

Init == Sweep!Init

Next == Sweep!Next

Spec == Init /\ [][Next]_vars

-----------------------------------------------------------------------------
(***************************************************************************)
(* Type invariant.                                                         *)
(***************************************************************************)
TypeOK ==
  /\ pc \in {"case", "next", "after", "done"}
  /\ lvl \in 1..9
  /\ idx \in [1..9 -> Nat]
  /\ \A L \in 1..9 : idx[L] < DwSizes[L] /\ vals[L] \in DwChoices(L, idx)
  /\ ret \in {0, -1}
  /\ executed \in Nat /\ failed \in 0..executed

(***************************************************************************)
(* random_test stops at its first failing case: after a run_compare_dw_conv*)
(* that returns non-zero, every one of the nine loops is left.             *)
(***************************************************************************)
StopsAtFirstError == Sweep!StopsAtFirstError

(***************************************************************************)
(* Every executed case has its input depth drawn from the depth range of   *)
(* its own l loop, so that the sweep covers every depth range with every   *)
(* width range, as the nesting of the loops means to.                      *)
(***************************************************************************)
DepthDrawnFromItsRange ==
  \A s \in seen : s.c \in ChooseFromRange(DepthRange, InputRangeSize, s.l)

=============================================================================
