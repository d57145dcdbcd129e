-------------------------------- MODULE EltMul --------------------------------
(***************************************************************************)
(* run_compare_elt_mul of test/181x/test_181x_tensor_mul_qm.c with its     *)
(* reference elt_mul_ref: one test case of the quantised element-wise      *)
(* multiply.  Random int8 operands are drawn until                         *)
(* calc_elt_mul_float_multiplier gives a float multiplier in (0, 1) or the *)
(* retry budget is spent; then the multiplier and right shift are drawn,   *)
(* the reference computes                                                  *)
(*   output[i] = MIN(127, MAX(-128,                                        *)
(*     MultiplyByQuantizedMultiplier(input1[i] * input2[i], m, rshift)))   *)
(* one element per step, three lmem tensors are allocated, the TPU result  *)
(* is compared (abstracted to its outcome) and everything is released.     *)
(* The lmem allocator is LmemStack's stack, as for DwConvDriver.          *)
(***************************************************************************)
EXTENDS QuantArith, Sequences, LmemStack

CONSTANTS
  InputN, InputC, InputH, InputW,   \* p_param->input_n/c/h/w
  Inputs,                           \* the buffers fill_random_data_s8 fills
  Multipliers,                      \* values of output_multiplier
  Shifts,                           \* values of output_right_shift
  RetryCnt                          \* test_param.retry_cnt

Size == InputN * InputC * InputH * InputW

ASSUME EltMulAssumption ==
  /\ {InputN, InputC, InputH, InputW, RetryCnt} \subseteq Nat \ {0}
  /\ Inputs \subseteq [0..Size - 1 -> Int8]
  /\ Multipliers \subseteq 0..MaxInt32
  /\ Shifts \subseteq -30..30

\* tl_input1, tl_input2, tl_output in allocation order.
AllocOrder == <<"input1", "input2", "output">>

LmemTensors == {"input1", "input2", "output"}

ASSUME NullAssumption == NULL \notin LmemTensors

HostBuffers == {"input1", "input2", "output", "tiu_output"}

FloatClasses == {"valid", "one", "gt1", "nonpos"}

VARIABLES
  input1, input2, output,   \* the three host buffers
  multiplier, right_shift,  \* p_param->multiplier, p_param->right_shift
  i,                        \* the element index of elt_mul_ref
  pc, retry_cnt, attempts, fm, heap, lmem, toFree, ret

vars == <<input1, input2, output, multiplier, right_shift, i,
          pc, retry_cnt, attempts, fm, heap, lmem, toFree, ret>>

(***************************************************************************)
(* calc_elt_mul_float_multiplier on the operand buffers a and b: the       *)
(* extremes of the int32 products a[i] * b[i], then 127.0f / abs(max) or   *)
(* 128.0f / abs(min).                                                      *)
(***************************************************************************)
CalcFloatMultiplier(a, b) ==
  LET vals   == {a[k] * b[k] : k \in 0..Size - 1}
      valMax == CHOOSE v \in vals : \A w \in vals : w <= v
      valMin == CHOOSE v \in vals : \A w \in vals : v <= w
  IN  FloatMultiplierClass(valMax, valMin)

\* The element elt_mul_ref stores at index k.
RefElement(k) ==
  ClampInt8(MultiplyByQuantizedMultiplier(input1[k] * input2[k],
                                          multiplier, right_shift))

Init ==
  /\ input1 \in Inputs          \* malloc'ed buffers, content undefined
  /\ input2 \in Inputs
  /\ output \in Inputs
  /\ multiplier = 0
  /\ right_shift = 0
  /\ i = 0
  /\ pc = "alloc_host"
  /\ retry_cnt = RetryCnt
  /\ attempts = 0
  /\ fm = "gt1"                 \* float_multiplier = 100.0 before a draw
  /\ heap = {}
  /\ lmem = <<>>
  /\ toFree = <<>>
  /\ ret = 0

\* The three mallocs of run_compare_elt_mul; their results are not checked.
HostAlloc ==
  /\ pc = "alloc_host"
  /\ heap' = {"input1", "input2", "output"}
  /\ pc' = "retry"
  /\ UNCHANGED <<input1, input2, output, multiplier, right_shift, i,
                 retry_cnt, attempts, fm, lmem, toFree, ret>>

\* One pass of do { fill; fill; calc } while (--retry_cnt), left early
\* when the multiplier is in (0, 1).
Attempt ==
  /\ pc = "retry"
  /\ \E a \in Inputs, b \in Inputs :
       LET f == CalcFloatMultiplier(a, b) IN
       /\ input1' = a
       /\ input2' = b
       /\ attempts' = attempts + 1
       /\ fm' = f
       /\ retry_cnt' = IF f = "valid" THEN retry_cnt ELSE retry_cnt - 1
       /\ pc' = IF f = "valid" \/ retry_cnt - 1 = 0 THEN "check" ELSE "retry"
  /\ UNCHANGED <<output, multiplier, right_shift, i, heap, lmem, toFree, ret>>

\* Mutant: the exit test written float_multiplier > 1.0.
CheckMultiplier_GtOne ==
  /\ pc = "check"
  /\ IF fm = "gt1"
       THEN /\ heap' = {}
            /\ ret' = -1
            /\ pc' = "done"
            /\ UNCHANGED <<multiplier, right_shift>>
       ELSE /\ multiplier' \in Multipliers
            /\ right_shift' \in Shifts
            /\ pc' = "ref"
            /\ UNCHANGED <<heap, ret>>
  /\ UNCHANGED <<input1, input2, output, i, retry_cnt, attempts, fm,
                 lmem, toFree>>

\* if (float_multiplier >= 1.0) { free the three buffers; return -1; }
\* otherwise QuantizeMultiplierSmallerThanOne, the randomised multiplier
\* and truncate_rshift of the randomised shift.
CheckMultiplier ==
  /\ pc = "check"
  /\ IF fm \in {"one", "gt1"}
       THEN /\ heap' = {}
            /\ ret' = -1
            /\ pc' = "done"
            /\ UNCHANGED <<multiplier, right_shift>>
       ELSE /\ multiplier' \in Multipliers
            /\ right_shift' \in Shifts
            /\ pc' = "ref"
            /\ UNCHANGED <<heap, ret>>
  /\ UNCHANGED <<input1, input2, output, i, retry_cnt, attempts, fm,
                 lmem, toFree>>

\* One iteration of the loop of elt_mul_ref.
RefStep ==
  /\ pc = "ref"
  /\ i < Size
  /\ output' = [output EXCEPT ![i] = RefElement(i)]
  /\ i' = i + 1
  /\ UNCHANGED <<input1, input2, multiplier, right_shift, pc, retry_cnt,
                 attempts, fm, heap, lmem, toFree, ret>>

\* The pointer tl_t when the allocations in ok succeeded: t, or NULL.
Got(t, ok) == IF t \in ok THEN t ELSE NULL

\* The three lmem_alloc_tensor calls, then the three NULL checks, each of
\* which returns -1 at once.
LmemAlloc ==
  /\ pc = "ref"
  /\ i = Size
  /\ \E ok \in SUBSET LmemTensors :
       /\ lmem' = Push(Push(Push(lmem, Got(AllocOrder[1], ok)),
                            Got(AllocOrder[2], ok)),
                       Got(AllocOrder[3], ok))
       /\ IF ok = LmemTensors
            THEN /\ pc' = "compute"
                 /\ UNCHANGED ret
            ELSE /\ ret' = -1
                 /\ pc' = "done"
  /\ UNCHANGED <<input1, input2, output, multiplier, right_shift, i,
                 retry_cnt, attempts, fm, heap, toFree>>

\* Mutant: tl_input2 freed before tl_output.
SuccessFreeOrder_Swapped == <<"input2", "output", "input1">>

\* The frees of the normal path, "Reverse order".
SuccessFreeOrder == <<"output", "input2", "input1">>

\* Load, tiu_mul_qm, submit, copy back into tiu_output_data, compare,
\* free(tiu_output_data).
Compute ==
  /\ pc = "compute"
  /\ ret' \in {0, -1}
  /\ toFree' = SuccessFreeOrder
  /\ pc' = "free_lmem"
  /\ UNCHANGED <<input1, input2, output, multiplier, right_shift, i,
                 retry_cnt, attempts, fm, heap, lmem>>

\* cvk_ctx->ops->lmem_free_tensor on the next tensor of the free list.
FreeLmem ==
  /\ pc = "free_lmem"
  /\ toFree # <<>>
  /\ lmem' = Free(lmem, Head(toFree))
  /\ toFree' = Tail(toFree)
  /\ UNCHANGED <<input1, input2, output, multiplier, right_shift, i,
                 pc, retry_cnt, attempts, fm, heap, ret>>

\* The three host frees, then return ret.
ReleaseHost ==
  /\ pc = "free_lmem"
  /\ toFree = <<>>
  /\ heap' = {}
  /\ pc' = "done"
  /\ UNCHANGED <<input1, input2, output, multiplier, right_shift, i,
                 retry_cnt, attempts, fm, lmem, toFree, ret>>

Next ==
  \/ HostAlloc
  \/ Attempt
  \/ CheckMultiplier
  \/ RefStep
  \/ LmemAlloc
  \/ Compute
  \/ FreeLmem
  \/ ReleaseHost

Spec == Init /\ [][Next]_vars

-----------------------------------------------------------------------------
(***************************************************************************)
(* Type invariant.                                                         *)
(***************************************************************************)
TypeOK ==
  /\ input1 \in Inputs
  /\ input2 \in Inputs
  /\ output \in [0..Size - 1 -> Int8]
  /\ multiplier \in {0} \cup Multipliers
  /\ right_shift \in {0} \cup Shifts
  /\ i \in 0..Size
  /\ pc \in {"alloc_host", "retry", "check", "ref", "compute", "free_lmem",
             "done"}
  /\ retry_cnt \in 0..RetryCnt
  /\ attempts \in 0..RetryCnt
  /\ fm \in FloatClasses
  /\ heap \subseteq HostBuffers
  /\ lmem \in Seq(LmemTensors)
  /\ toFree \in Seq(LmemTensors)
  /\ ret \in {0, -1}

(***************************************************************************)
(* The multiplier and shift are derived, and the reference run, only from  *)
(* a float multiplier strictly inside (0, 1): the single exit test         *)
(* float_multiplier >= 1.0 after the loop must reject every other outcome  *)
(* of the last draw.  For products of int8 operands the extreme is never   *)
(* INT_MIN, so no negative multiplier can slip through here.               *)
(***************************************************************************)
QuantizedOnlyWithValidMultiplier ==
  pc \in {"ref", "compute", "free_lmem"} => fm = "valid"

(***************************************************************************)
(* Every lmem_free_tensor call releases the top of the allocator's stack.  *)
(***************************************************************************)
LmemFreedLifo ==
  [][toFree # <<>> /\ toFree' = Tail(toFree) =>
       lmem # <<>> /\ lmem[Len(lmem)] = Head(toFree)]_vars

=============================================================================
