----------------------------- MODULE DwConvDriver -----------------------------
(***************************************************************************)
(* run_compare_dw_conv of test/1822/test_cv1822_depthwise_conv.c: the      *)
(* driver of one depthwise test case.  It allocates the host buffers,      *)
(* draws random data until calc_dw_conv_float_multiplier yields a float    *)
(* multiplier in (0, 1) or the retry budget is spent, derives the          *)
(* per-channel multipliers and shifts, runs the reference of DwConvRef,    *)
(* allocates four local-memory (lmem) tensors, runs and compares the TPU   *)
(* result and releases everything.                                         *)
(*                                                                         *)
(* The reference is composed, not abstracted: while pc = "ref" the steps   *)
(* of the driver are the AccumulateTap and StoreOutput steps of DwConvRef  *)
(* on the buffers the last attempt filled.                                 *)
(*                                                                         *)
(* The lmem allocator of the kernel library is the stack of LmemStack:    *)
(* the tests free in "Reverse order" of allocation.                       *)
(* The TPU computation is abstracted to the outcome of the comparison.     *)
(***************************************************************************)
EXTENDS DwConvRef, Sequences, FiniteSets, LmemStack

CONSTANTS
  RetryCnt                  \* test_param.retry_cnt set by random_test

ASSUME RetryAssumption == RetryCnt \in Pos

\* The host buffers malloc'ed by the driver and by tensor_copy_l2g_d2s.
HostBuffers ==
  {"input", "kernel", "output", "bias", "multiplier", "shift",
   "chl_quan", "conv_output"}

\* The lmem tensors tl_input, tl_filter, tl_output, tl_chl_quan_dma, in
\* the order they are allocated.
AllocOrder == <<"input", "filter", "output", "chl_quan">>

LmemTensors == {AllocOrder[i] : i \in 1..4}

\* A failed lmem_alloc_tensor returns NULL, which is no tensor.
ASSUME NullAssumption == NULL \notin LmemTensors

\* The classes of p_param->float_multiplier the driver distinguishes:
\* in (0, 1), exactly 1.0, above 1 (+inf included), and negative.
FloatClasses == {"valid", "one", "gt1", "nonpos"}

VARIABLES
  pc,         \* the point of run_compare_dw_conv reached
  retry_cnt,  \* int retry_cnt of the retry loop
  attempts,   \* the number of data draws made (history)
  fm,         \* class of p_param->float_multiplier
  heap,       \* the live host buffers
  lmem,       \* the live lmem tensors, bottom of the stack first
  toFree,     \* lmem_free_tensor calls still to make, in program order
  ret         \* the value run_compare_dw_conv returns

dvars == <<pc, retry_cnt, attempts, fm, heap, lmem, toFree, ret>>

allvars == <<vars, dvars>>

-----------------------------------------------------------------------------
(***************************************************************************)
(* calc_dw_conv_float_multiplier.  acc of each output element is formed   *)
(* as in the reference (int32 +=, bias when has_bias), the extremes are    *)
(* folded with MAX / MIN from INT_MIN / INT_MAX, and the multiplier is     *)
(* 127.0f / abs(max) or 128.0f / abs(min).  abs(INT_MIN) is undefined in   *)
(* C and is INT_MIN on the targets, so 128.0f / abs(INT_MIN) is negative.  *)
(* A quotient 127 / M (M > 127) or 128 / m (m > 128) is below 1 in float, *)
(* and 127 / M (M <= 127), 128 / m (m <= 128) is at least 1 (or +inf).    *)
(***************************************************************************)
CalcAcc(in, flt, bs, b, c, oy, ox) ==
  LET Term(k) ==
        LET fy == k \div FilterWidth
            fx == k % FilterWidth
            y  == oy * StrideH - PadTop + fy
            x  == ox * StrideW - PadLeft + fx
        IN  IF y \in 0..InputHeight - 1 /\ x \in 0..InputWidth - 1
              THEN flt[Offset(FilterShape, 0, c, fy, fx)]
                     * in[Offset(InputShape, b, c, y, x)]
              ELSE 0
      S[k \in 0..NTaps] ==
        IF k = 0 THEN 0 ELSE AddWrap32(S[k - 1], Term(k - 1))
  IN  IF hasBias THEN AddWrap32(S[NTaps], bs[c]) ELSE S[NTaps]

\* The class of float_multiplier after calc_dw_conv_float_multiplier on
\* the input, filter and bias buffers in, flt and bs.
CalcFloatMultiplier(in, flt, bs) ==
  LET accs   == {CalcAcc(in, flt, bs, b, c, oy, ox) :
                   b \in 0..Batches - 1, c \in 0..OutputDepth - 1,
                   oy \in 0..OutputHeight - 1, ox \in 0..OutputWidth - 1}
      accMax == CHOOSE v \in accs : \A w \in accs : w <= v
      accMin == CHOOSE v \in accs : \A w \in accs : v <= w
  IN  FloatMultiplierClass(accMax, accMin)

-----------------------------------------------------------------------------
DriverInit ==
  /\ Init                       \* buffers uninitialised, output memset
  /\ retry_cnt = RetryCnt
  /\ attempts = 0
  /\ fm = "gt1"                 \* float_multiplier = 100.0 before a draw
  /\ heap = {}
  /\ lmem = <<>>
  /\ toFree = <<>>
  \* if (rt_handler == NULL || cvk_ctx == NULL) return -1;
  /\ \E handlesOk \in BOOLEAN :
       IF handlesOk THEN pc = "alloc_host" /\ ret = 0
                    ELSE pc = "done" /\ ret = -1

\* The three checked mallocs; on a failure the three are freed and -1 is
\* returned.  bias, multiplier and shift buffers are malloc'ed unchecked.
HostAlloc ==
  /\ pc = "alloc_host"
  /\ \E ok \in SUBSET {"input", "kernel", "output"} :
       IF ok = {"input", "kernel", "output"}
         THEN /\ heap' = ok \cup {"bias", "multiplier", "shift"}
              /\ pc' = "retry"
              /\ UNCHANGED ret
         ELSE /\ heap' = {}
              /\ ret' = -1
              /\ pc' = "done"
  /\ UNCHANGED <<vars, retry_cnt, attempts, fm, lmem, toFree>>

\* Mutant: while (retry_cnt--) in place of while (--retry_cnt).
Attempt_PostDecrement ==
  /\ pc = "retry"
  /\ \E in \in Inputs, flt \in Filters,
        bs \in IF hasBias THEN Biases ELSE {bias} :
       LET f == CalcFloatMultiplier(in, flt, bs) IN
       /\ input' = in
       /\ filter' = flt
       /\ bias' = bs
       /\ attempts' = attempts + 1
       /\ fm' = f
       /\ retry_cnt' = IF f = "valid" THEN retry_cnt ELSE retry_cnt - 1
       /\ pc' = IF f = "valid" \/ retry_cnt = 0 THEN "check" ELSE "retry"
  /\ UNCHANGED <<hasBias, multiplier, shift, pos, tap, acc, output,
                 heap, lmem, toFree, ret>>

\* One pass of the do { ... } while (--retry_cnt) loop: fresh input,
\* kernel and (with has_bias) bias data, then calc_dw_conv_float_multiplier;
\* the loop is left when the multiplier is in (0, 1) or the count hits 0.
Attempt ==
  /\ pc = "retry"
  /\ \E in \in Inputs, flt \in Filters,
        bs \in IF hasBias THEN Biases ELSE {bias} :
       LET f == CalcFloatMultiplier(in, flt, bs) IN
       /\ input' = in
       /\ filter' = flt
       /\ bias' = bs
       /\ attempts' = attempts + 1
       /\ fm' = f
       /\ retry_cnt' = IF f = "valid" THEN retry_cnt ELSE retry_cnt - 1
       /\ pc' = IF f = "valid" \/ retry_cnt - 1 = 0 THEN "check" ELSE "retry"
  /\ UNCHANGED <<hasBias, multiplier, shift, pos, tap, acc, output,
                 heap, lmem, toFree, ret>>

\* if (float_multiplier >= 1.0) { free the six buffers; return -1; }
\* otherwise QuantizeMultiplierSmallerThanOne and the per-channel
\* randomisation of multiplier_data and shift_data.
CheckMultiplier ==
  /\ pc = "check"
  /\ IF fm \in {"one", "gt1"}
       THEN /\ heap' = {}
            /\ ret' = -1
            /\ pc' = "done"
            /\ UNCHANGED <<multiplier, shift>>
       ELSE /\ multiplier' \in Multipliers
            /\ shift' \in Shifts
            /\ pc' = "ref"
            /\ UNCHANGED <<heap, ret>>
  /\ UNCHANGED <<input, filter, hasBias, bias, pos, tap, acc, output,
                 retry_cnt, attempts, fm, lmem, toFree>>

\* A step of dw_conv_per_channel_ref(p_param).
RunReference ==
  /\ pc = "ref"
  /\ Next
  /\ UNCHANGED dvars

\* The reference has returned; chl_quan_data is malloc'ed (unchecked) and
\* packed.
PackChlQuan ==
  /\ pc = "ref"
  /\ Done
  /\ heap' = heap \cup {"chl_quan"}
  /\ pc' = "alloc_lmem"
  /\ UNCHANGED <<vars, retry_cnt, attempts, fm, lmem, toFree, ret>>

\* Mutant: the "if (tl_filter) lmem_free_tensor(tl_filter)" line lost.
AllocFailureFreeOrder_NoFilter == <<"chl_quan", "output", NULL, "input">>

\* The frees of the error path after a failed lmem allocation: each
\* guarded by if (tl_x), tl_chl_quan_dma first.
AllocFailureFreeOrder == <<"chl_quan", "output", "filter", "input">>

\* The pointer tl_t when the allocations in ok succeeded: t, or NULL.
Got(t, ok) == IF t \in ok THEN t ELSE NULL

\* The four tensors of order o pushed in turn, the NULL ones skipped: the
\* four lmem_alloc_tensor calls, or the four "if (tl_x) lmem_free_tensor"
\* of the error path.
PushAll(stack, o, ok) ==
  Push(Push(Push(Push(stack, Got(o[1], ok)), Got(o[2], ok)), Got(o[3], ok)),
       Got(o[4], ok))

\* The four lmem_alloc_tensor calls; a NULL result leaves the tensor out
\* of the stack.  When one failed, the allocated ones are freed and -1 is
\* returned.
LmemAlloc ==
  /\ pc = "alloc_lmem"
  /\ \E ok \in SUBSET LmemTensors :
       /\ lmem' = PushAll(lmem, AllocOrder, ok)
       /\ IF ok = LmemTensors
            THEN /\ pc' = "compute"
                 /\ UNCHANGED <<toFree, ret>>
            ELSE /\ toFree' = PushAll(<< >>, AllocFailureFreeOrder, ok)
                 /\ ret' = -1
                 /\ pc' = "free_lmem_fail"
  /\ UNCHANGED <<vars, retry_cnt, attempts, fm, heap>>

\* Mutant: tl_output freed before tl_chl_quan_dma.
SuccessFreeOrder_Swapped == <<"output", "chl_quan", "filter", "input">>

\* The frees of the normal path, "Reverse order".
SuccessFreeOrder == <<"chl_quan", "output", "filter", "input">>

\* Load, tiu_depthwise_convolution, CVI_RT_Submit, the copy of the result
\* into a malloc'ed buffer, and the comparison, which may fail.
Compute ==
  /\ pc = "compute"
  /\ heap' = heap \cup {"conv_output"}
  /\ ret' \in {0, -1}
  /\ toFree' = SuccessFreeOrder
  /\ pc' = "free_lmem"
  /\ UNCHANGED <<vars, retry_cnt, attempts, fm, lmem>>

\* cvk_ctx->ops->lmem_free_tensor on the next tensor of the free list.
FreeLmem ==
  /\ pc \in {"free_lmem", "free_lmem_fail"}
  /\ toFree # <<>>
  /\ lmem' = Free(lmem, Head(toFree))
  /\ toFree' = Tail(toFree)
  /\ UNCHANGED <<vars, pc, retry_cnt, attempts, fm, heap, ret>>

\* return -1 after the frees of the failed lmem allocation.
ReturnAfterAllocFailure ==
  /\ pc = "free_lmem_fail"
  /\ toFree = <<>>
  /\ pc' = "done"
  /\ UNCHANGED <<vars, retry_cnt, attempts, fm, heap, lmem, toFree, ret>>

\* The eight host frees of the normal path, then return ret.
ReleaseHost ==
  /\ pc = "free_lmem"
  /\ toFree = <<>>
  /\ heap' = {}
  /\ pc' = "done"
  /\ UNCHANGED <<vars, retry_cnt, attempts, fm, lmem, toFree, ret>>

DriverNext ==
  \/ HostAlloc
  \/ Attempt
  \/ CheckMultiplier
  \/ RunReference
  \/ PackChlQuan
  \/ LmemAlloc
  \/ Compute
  \/ FreeLmem
  \/ ReturnAfterAllocFailure
  \/ ReleaseHost

DriverSpec == DriverInit /\ [][DriverNext]_allvars

-----------------------------------------------------------------------------
(***************************************************************************)
(* Type invariant (the reference's, and the driver's own variables).       *)
(***************************************************************************)
DriverTypeOK ==
  /\ TypeOK
  /\ pc \in {"alloc_host", "retry", "check", "ref", "alloc_lmem", "compute",
             "free_lmem", "free_lmem_fail", "done"}
  /\ retry_cnt \in 0..RetryCnt
  /\ attempts \in Nat
  /\ fm \in FloatClasses
  /\ heap \subseteq HostBuffers
  /\ lmem \in Seq(LmemTensors)
  /\ toFree \in Seq(LmemTensors)
  /\ ret \in {0, -1}

(***************************************************************************)
(* The retry loop draws data at most retry_cnt times: the do-while with    *)
(* the pre-decrement stops after RetryCnt draws and the counter never      *)
(* wraps below zero.                                                       *)
(***************************************************************************)
AttemptsWithinBudget == attempts <= RetryCnt

(***************************************************************************)
(* Every lmem_free_tensor call of the driver, on the error path as on the  *)
(* normal one, releases the most recently allocated live tensor: no call   *)
(* frees a NULL or an already freed tensor, or one below the top of the    *)
(* allocator's stack.                                                      *)
(***************************************************************************)
LmemFreedLifo ==
  [][toFree # <<>> /\ toFree' = Tail(toFree) =>
       lmem # <<>> /\ lmem[Len(lmem)] = Head(toFree)]_allvars

(***************************************************************************)
(* When run_compare_dw_conv returns, on any path, no lmem tensor it        *)
(* allocated is still live (the next test case starts on an empty lmem).   *)
(***************************************************************************)
LmemReleasedOnReturn == pc = "done" => lmem = <<>>

(***************************************************************************)
(* The quantisation parameters are derived, and the reference is run,     *)
(* only from a float multiplier strictly inside (0, 1); an exhausted       *)
(* search is reported to the caller as such (spec: "retry ... if the       *)
(* derived scale is not strictly less than 1.0"; the exhausted outcome is  *)
(* a distinct result).                                                     *)
(***************************************************************************)
QuantizedOnlyWithValidMultiplier ==
  pc \in {"ref", "alloc_lmem", "compute", "free_lmem", "free_lmem_fail"}
    => fm = "valid"

=============================================================================
