--------------------------- MODULE EltMulRandomTest ---------------------------
(***************************************************************************)
(* random_test and check_valid_test_param of                               *)
(* test/181x/test_181x_tensor_mul_qm.c: the sweep over the range tables of *)
(* input_n, input_c, input_h and input_w inside the m loop of              *)
(* retry_test_count.  The bodies of the m, i, j and k loops end with the   *)
(* stop-at-first-error check; the body of the innermost l loop has none.   *)
(* run_compare_elt_mul is abstracted to its outcome (EltMul models it).    *)
(***************************************************************************)
EXTENDS Integers, Sequences

CONSTANTS
  NRange, CRange, HRange, WRange,   \* int input_*_range[]
  RetryTestCount,   \* const int retry_test_count = 100
  MinExecTests,     \* MIN_EXEC_TESTS (20)
  LmemSize,         \* cvk_ctx->info.lmem_size, bytes per lane
  NpuNum,           \* cvk_ctx->info.npu_num, lanes
  EuNum             \* cvk_ctx->info.eu_num, the lane's alignment unit

ASSUME EltMulRandomAssumption ==
  /\ \A t \in {NRange, CRange, HRange, WRange} : t \in Seq(Nat \ {0}) /\ t # <<>>
  /\ {RetryTestCount, LmemSize, NpuNum, EuNum} \subseteq Nat \ {0}
  /\ MinExecTests \in Nat

VARIABLES pc, lvl, idx, vals, ret, executed, failed, seen

vars == <<pc, lvl, idx, vals, ret, executed, failed, seen>>

\* The loops m, i, j, k, l over retry_test_count and input_*_range_size.
EltSizes == <<RetryTestCount, Len(NRange), Len(CRange), Len(HRange), Len(WRange)>>

\* choose_from_range(table, size, index): the values rand() can give.
ChooseFromRange(t, size, i) ==
  IF i >= size THEN {0}
  ELSE IF i < size - 1
         THEN LET range == IF t[i + 2] - t[i + 1] - 1 > 1
                             THEN t[i + 2] - t[i + 1] - 1 ELSE 1
              IN  t[i + 1]..(t[i + 1] + range - 1)
         ELSE {t[i + 1]}

\* The value drawn on entry to the body of loop L at the indices ix.
EltChoices(L, ix) ==
  CASE L = 1 -> {0}
    [] L = 2 -> ChooseFromRange(NRange, Len(NRange), ix[2])
    [] L = 3 -> ChooseFromRange(CRange, Len(CRange), ix[3])
    [] L = 4 -> ChooseFromRange(HRange, Len(HRange), ix[4])
    [] L = 5 -> ChooseFromRange(WRange, Len(WRange), ix[5])

\* lmem_tensor_to_size of the kernel library for an eu-aligned int8
\* tensor: bytes per lane.
TensorToSize(n, c, h, w) ==
  n * ((c + NpuNum - 1) \div NpuNum) * (((h * w + EuNum - 1) \div EuNum) * EuNum)

\* check_valid_test_param: input1, input2 and output against the lmem of
\* all lanes, then against the lmem of one lane.
CheckValid(v) ==
  /\ 3 * v[2] * v[3] * v[4] * v[5] <= LmemSize * NpuNum
  /\ 3 * TensorToSize(v[2], v[3], v[4], v[5]) <= LmemSize

\* The innermost loop's body has no stop check.
EltBreakLevels == 1..4

\* Nothing of an executed case is recorded.
EltObserve(ix, v) == 0

Sweep == INSTANCE RandomSweep
           WITH Sizes <- EltSizes, BreakLevels <- EltBreakLevels,
                Choices <- EltChoices, Observe <- EltObserve

Init == Sweep!Init

Next == Sweep!Next

Spec == Init /\ [][Next]_vars

-----------------------------------------------------------------------------
(***************************************************************************)
(* Type invariant.                                                         *)
(***************************************************************************)
TypeOK ==
  /\ pc \in {"case", "next", "after", "done"}
  /\ lvl \in 1..5
  /\ idx \in [1..5 -> Nat]
  /\ \A L \in 1..5 : idx[L] < EltSizes[L] /\ vals[L] \in EltChoices(L, idx)
  /\ ret \in {0, -1}
  /\ executed \in Nat /\ failed \in 0..executed

(***************************************************************************)
(* random_test stops at its first failing case (stop_at_first_error is     *)
(* set): after a run_compare_elt_mul that returns non-zero no further case *)
(* is run.                                                                 *)
(***************************************************************************)
StopsAtFirstError == Sweep!StopsAtFirstError

=============================================================================
