-------------------------- MODULE DwConvDriverProofs --------------------------
(***************************************************************************)
(* Proofs about DwConvDriver: the retry loop of run_compare_dw_conv,       *)
(*   do { fill; calc_dw_conv_float_multiplier; ... } while (--retry_cnt);  *)
(* draws at most retry_cnt times, for every retry budget and every data.   *)
(***************************************************************************)
EXTENDS DwConvDriver, DwConvRefProofs, LmemStackProofs, TLAPS

(***************************************************************************)
(* The strengthening of AttemptsWithinBudget.  While the loop has not been *)
(* left, the draws made and the count still to go add up to the budget,   *)
(* and the count is positive: the pre-decrement leaves the loop when it    *)
(* reaches 0.  The loop is left on a valid multiplier or at 0, so the      *)
(* draws never exceed the budget.                                          *)
(***************************************************************************)
BudgetInv ==
  /\ retry_cnt \in Int /\ attempts \in Int
  /\ 0 <= retry_cnt /\ 0 <= attempts
  /\ pc \in {"alloc_host", "retry"} =>
       attempts + retry_cnt = RetryCnt /\ retry_cnt >= 1
  /\ attempts <= RetryCnt

\* The steps that leave both counters alone and do not re-enter the loop.
OtherStep ==
  /\ UNCHANGED <<retry_cnt, attempts>>
  /\ pc' \in {"alloc_host", "retry"} => pc \in {"alloc_host", "retry"}

LEMMA BudgetInit == DriverInit => BudgetInv
  BY RetryAssumption DEF DriverInit, BudgetInv, Pos

LEMMA OtherStepKeepsBudget == BudgetInv /\ OtherStep => BudgetInv'
  BY DEF BudgetInv, OtherStep

(***************************************************************************)
(* One pass of the loop body.  The multiplier's class is left opaque: the  *)
(* argument only splits on whether it is "valid".                          *)
(***************************************************************************)
LEMMA AttemptKeepsBudget == BudgetInv /\ Attempt => BudgetInv'
<1> SUFFICES ASSUME BudgetInv, Attempt PROVE BudgetInv'
  OBVIOUS
<1>1. PICK in \in Inputs, flt \in Filters,
           bs \in IF hasBias THEN Biases ELSE {bias} :
        /\ attempts' = attempts + 1
        /\ retry_cnt' = IF CalcFloatMultiplier(in, flt, bs) = "valid"
                          THEN retry_cnt ELSE retry_cnt - 1
        /\ pc' = IF CalcFloatMultiplier(in, flt, bs) = "valid"
                      \/ retry_cnt - 1 = 0
                   THEN "check" ELSE "retry"
  BY DEF Attempt
<1>2. pc = "retry"
  BY DEF Attempt
<1>3. CASE CalcFloatMultiplier(in, flt, bs) = "valid"
  BY <1>1, <1>2, <1>3 DEF BudgetInv
<1>4. CASE CalcFloatMultiplier(in, flt, bs) # "valid"
  BY <1>1, <1>2, <1>4 DEF BudgetInv
<1> QED
  BY <1>3, <1>4

LEMMA BudgetNext == BudgetInv /\ [DriverNext]_allvars => BudgetInv'
<1> SUFFICES ASSUME BudgetInv, [DriverNext]_allvars PROVE BudgetInv'
  OBVIOUS
<1>1. CASE HostAlloc
  BY <1>1, OtherStepKeepsBudget DEF HostAlloc, OtherStep
<1>2. CASE Attempt
  BY <1>2, AttemptKeepsBudget
<1>3. CASE CheckMultiplier
  BY <1>3, OtherStepKeepsBudget DEF CheckMultiplier, OtherStep
<1>4. CASE RunReference
  BY <1>4, OtherStepKeepsBudget DEF RunReference, dvars, OtherStep
<1>5. CASE PackChlQuan
  BY <1>5, OtherStepKeepsBudget DEF PackChlQuan, OtherStep
<1>6. CASE LmemAlloc
  BY <1>6, OtherStepKeepsBudget DEF LmemAlloc, OtherStep
<1>7. CASE Compute
  BY <1>7, OtherStepKeepsBudget DEF Compute, OtherStep
<1>8. CASE FreeLmem
  BY <1>8, OtherStepKeepsBudget DEF FreeLmem, OtherStep
<1>9. CASE ReturnAfterAllocFailure
  BY <1>9, OtherStepKeepsBudget DEF ReturnAfterAllocFailure, OtherStep
<1>10. CASE ReleaseHost
  BY <1>10, OtherStepKeepsBudget DEF ReleaseHost, OtherStep
<1>11. CASE UNCHANGED allvars
  BY <1>11, OtherStepKeepsBudget DEF allvars, dvars, OtherStep
<1> QED
  BY <1>1, <1>2, <1>3, <1>4, <1>5, <1>6, <1>7, <1>8, <1>9, <1>10, <1>11
     DEF DriverNext

(***************************************************************************)
(* For every retry budget, shape and data set, run_compare_dw_conv draws   *)
(* its random data at most retry_cnt times: the pre-decrement loop         *)
(* do { ... } while (--retry_cnt) neither runs once more nor wraps below   *)
(* zero.                                                                   *)
(***************************************************************************)
THEOREM BudgetRespected == DriverSpec => []AttemptsWithinBudget
<1>1. DriverInit => BudgetInv
  BY BudgetInit
<1>2. BudgetInv /\ [DriverNext]_allvars => BudgetInv'
  BY BudgetNext
<1>3. BudgetInv => AttemptsWithinBudget
  BY DEF BudgetInv, AttemptsWithinBudget
<1> QED
  BY <1>1, <1>2, <1>3, PTL DEF DriverSpec

-----------------------------------------------------------------------------
(***************************************************************************)
(* The lmem tensors of run_compare_dw_conv.  Before the four allocations   *)
(* and after the return the stack is empty; while the TPU runs it holds    *)
(* the four tensors in allocation order; on either free path the frees     *)
(* still to make are the stack read from the top, no tensor live twice.    *)
(***************************************************************************)
LmemInv ==
  /\ pc \in {"alloc_host", "retry", "check", "ref", "alloc_lmem", "done"} =>
       lmem = << >>
  /\ pc \notin {"free_lmem", "free_lmem_fail"} => toFree = << >>
  /\ pc = "compute" => lmem = AllocOrder
  /\ pc \in {"free_lmem", "free_lmem_fail"} => toFree = Rev(lmem) /\ NoDup(lmem)

DInv == DriverTypeOK /\ BudgetInv /\ LmemInv

\* The four lmem tensors are four distinct names, none of them NULL.
LEMMA LmemTensorsFacts ==
  /\ LmemTensors = {"input", "filter", "output", "chl_quan"}
  /\ AllocOrder \in Seq(LmemTensors)
  /\ NULL \notin LmemTensors
  BY NullAssumption DEF LmemTensors, AllocOrder

\* calc_dw_conv_float_multiplier yields one of the four classes.
LEMMA FloatClassType ==
  ASSUME NEW x, NEW y
  PROVE  FloatMultiplierClass(x, y) \in FloatClasses
  BY DEF FloatMultiplierClass, FloatClasses

LEMMA DInit == DriverInit => DInv
<1> SUFFICES ASSUME DriverInit PROVE DInv
  OBVIOUS
<1>1. TypeOK
  BY TypeInit DEF DriverInit
<1>2. BudgetInv
  BY BudgetInit
<1> QED
  BY <1>1, <1>2, RetryAssumption
     DEF DriverInit, DInv, DriverTypeOK, LmemInv, FloatClasses, Pos

\* A draw keeps every variable in its type: fresh input, filter and bias
\* data, and the class of the multiplier they give.
LEMMA AttemptType ==
  ASSUME DInv, Attempt
  PROVE  DriverTypeOK' /\ LmemInv'
<1>1. PICK in \in Inputs, flt \in Filters,
           bs \in IF hasBias THEN Biases ELSE {bias} :
        /\ input' = in /\ filter' = flt /\ bias' = bs
        /\ fm' = CalcFloatMultiplier(in, flt, bs)
        /\ retry_cnt' = IF CalcFloatMultiplier(in, flt, bs) = "valid"
                          THEN retry_cnt ELSE retry_cnt - 1
        /\ pc' = IF CalcFloatMultiplier(in, flt, bs) = "valid"
                      \/ retry_cnt - 1 = 0
                   THEN "check" ELSE "retry"
  BY DEF Attempt
<1>2. /\ pc = "retry" /\ retry_cnt \in 1..RetryCnt
      /\ UNCHANGED <<hasBias, multiplier, shift, pos, tap, acc, output,
                     heap, lmem, toFree, ret>>
      /\ attempts' = attempts + 1
  BY DEF Attempt, DInv, BudgetInv, DriverTypeOK
<1>3. bias' \in Biases
  BY <1>1 DEF DInv, DriverTypeOK, TypeOK
<1>4. fm' \in FloatClasses
  BY <1>1, FloatClassType DEF CalcFloatMultiplier
<1>5. TypeOK'
  BY <1>1, <1>2, <1>3 DEF DInv, DriverTypeOK, TypeOK
<1>6. retry_cnt' \in 0..RetryCnt /\ attempts' \in Nat
  BY <1>1, <1>2, RetryAssumption DEF DInv, DriverTypeOK, Pos
<1> QED
  BY <1>1, <1>2, <1>4, <1>5, <1>6 DEF DInv, DriverTypeOK, LmemInv

(***************************************************************************)
(* The four allocations: the stack holds the tensors obtained, in order;   *)
(* the guarded frees of the error path, written in reverse order, are the  *)
(* stack read from the top, whichever allocations failed.                  *)
(***************************************************************************)
LEMMA LmemAllocStep ==
  ASSUME DInv, LmemAlloc
  PROVE  DriverTypeOK' /\ LmemInv'
<1>1. /\ pc = "alloc_lmem" /\ lmem = << >> /\ toFree = << >>
      /\ UNCHANGED <<vars, retry_cnt, attempts, fm, heap>>
  BY DEF LmemAlloc, DInv, LmemInv
<1>2. PICK ok \in SUBSET LmemTensors :
        /\ lmem' = PushAll(lmem, AllocOrder, ok)
        /\ IF ok = LmemTensors
             THEN /\ pc' = "compute"
                  /\ UNCHANGED <<toFree, ret>>
             ELSE /\ toFree' = PushAll(<< >>, AllocFailureFreeOrder, ok)
                  /\ ret' = -1
                  /\ pc' = "free_lmem_fail"
  BY DEF LmemAlloc
<1> DEFINE gi == Got("input", ok)
           gf == Got("filter", ok)
           go == Got("output", ok)
           gq == Got("chl_quan", ok)
           Stack == Push(Push(Push(Push(<< >>, gi), gf), go), gq)
<1>3. /\ NULL \notin LmemTensors
      /\ gi \in LmemTensors \cup {NULL} /\ gf \in LmemTensors \cup {NULL}
      /\ go \in LmemTensors \cup {NULL} /\ gq \in LmemTensors \cup {NULL}
      /\ gi # NULL => gi \notin {gf, go, gq}
      /\ gf # NULL => gf \notin {go, gq}
      /\ go # NULL => go # gq
  BY LmemTensorsFacts DEF Got
<1>4. lmem' = Stack
  BY <1>1, <1>2 DEF PushAll, AllocOrder
<1>5. Stack \in Seq(LmemTensors) /\ NoDup(Stack)
  BY <1>3, PushFourNoDup
<1>8. /\ TypeOK' /\ retry_cnt' \in 0..RetryCnt /\ attempts' \in Nat
      /\ fm' \in FloatClasses /\ heap' \subseteq HostBuffers /\ ret \in {0, -1}
  <2>1. UNCHANGED <<input, filter, hasBias, bias, multiplier, shift, pos, tap,
                    acc, output>>
    BY <1>1 DEF vars, data
  <2>2. UNCHANGED <<retry_cnt, attempts, fm, heap>>
    BY <1>1
  <2> QED
    BY <2>1, <2>2 DEF DInv, DriverTypeOK, TypeOK
<1>6. CASE ok = LmemTensors
  <2>1. /\ gi = "input" /\ gf = "filter" /\ go = "output" /\ gq = "chl_quan"
        /\ {"input", "filter", "output", "chl_quan"} \subseteq LmemTensors
    BY <1>6, LmemTensorsFacts DEF Got
  <2>2. Stack = Append(Append(Append(Append(<< >>, "input"), "filter"),
                              "output"), "chl_quan")
    BY <1>3, <2>1 DEF Push
  <2>3. Stack = AllocOrder
    BY <2>1, <2>2, AppendFour DEF AllocOrder
  <2>4. /\ pc' = "compute" /\ toFree' = << >> /\ ret' = ret
        /\ lmem' = AllocOrder
    BY <1>1, <1>2, <1>4, <1>6, <2>3
  <2>5. AllocOrder \in Seq(LmemTensors) /\ << >> \in Seq(LmemTensors)
    BY LmemTensorsFacts
  <2> QED
    BY <1>8, <2>4, <2>5 DEF DriverTypeOK, LmemInv
<1>7. CASE ok # LmemTensors
  <2>1. toFree' = Push(Push(Push(Push(<< >>, gq), go), gf), gi)
    BY <1>2, <1>7 DEF PushAll, AllocFailureFreeOrder
  <2>2. toFree' = Rev(Stack)
    BY <1>3, <2>1, PushReversed
  <2>3. toFree' \in Seq(LmemTensors)
    BY <1>5, <2>2, RevProperties
  <2>4. pc' = "free_lmem_fail" /\ ret' = -1
    BY <1>2, <1>7
  <2> QED
    BY <1>4, <1>5, <1>8, <2>2, <2>3, <2>4 DEF DriverTypeOK, LmemInv
<1> QED
  BY <1>6, <1>7

(***************************************************************************)
(* A free of either free path takes the top of the stack; the frees left   *)
(* are the rest of the stack read from the top.                            *)
(***************************************************************************)
LEMMA FreeLmemStep ==
  ASSUME DInv, FreeLmem
  PROVE  /\ lmem # << >> /\ lmem[Len(lmem)] = Head(toFree)
         /\ DriverTypeOK' /\ LmemInv'
<1>1. /\ pc \in {"free_lmem", "free_lmem_fail"} /\ toFree # << >>
      /\ toFree = Rev(lmem) /\ NoDup(lmem) /\ lmem \in Seq(LmemTensors)
      /\ lmem' = Free(lmem, Head(toFree)) /\ toFree' = Tail(toFree)
      /\ UNCHANGED <<vars, pc, retry_cnt, attempts, fm, heap, ret>>
  BY DEF FreeLmem, DInv, DriverTypeOK, LmemInv
<1>2. lmem # << >>
  BY <1>1, RevEmpty
<1>3. /\ Head(Rev(lmem)) = lmem[Len(lmem)]
      /\ Tail(Rev(lmem)) = Rev(SubSeq(lmem, 1, Len(lmem) - 1))
  BY <1>1, <1>2, RevPop
<1>4. Len(lmem) >= 1
  BY <1>1, <1>2
<1>5. lmem' = SubSeq(lmem, 1, Len(lmem) - 1)
  <2>1. Free(lmem, Top(lmem)) = SubSeq(lmem, 1, Len(lmem) - 1)
    BY <1>1, <1>4, FreeTop
  <2> QED
    BY <1>1, <1>3, <2>1 DEF Top
<1>6. /\ SubSeq(lmem, 1, Len(lmem) - 1) \in Seq(LmemTensors)
      /\ NoDup(SubSeq(lmem, 1, Len(lmem) - 1))
  <2>1. Len(lmem) - 1 \in 0..Len(lmem)
    BY <1>1, <1>4
  <2> QED
    BY <1>1, <2>1, PrefixNoDup
<1>7. toFree' = Rev(lmem') /\ toFree' \in Seq(LmemTensors)
  BY <1>1, <1>3, <1>5, <1>6, RevProperties
<1>8. TypeOK'
  <2>1. UNCHANGED <<input, filter, hasBias, bias, multiplier, shift, pos, tap,
                    acc, output>>
    BY <1>1 DEF vars, data
  <2> QED
    BY <2>1 DEF DInv, DriverTypeOK, TypeOK
<1> QED
  BY <1>1, <1>2, <1>3, <1>5, <1>6, <1>7, <1>8 DEF DInv, DriverTypeOK, LmemInv

\* The "Reverse order" frees of the normal path are the four tensors read
\* from the top of the stack.
LEMMA SuccessOrderReversed ==
  /\ SuccessFreeOrder = Rev(AllocOrder)
  /\ NoDup(AllocOrder)
<1>1. /\ NULL \notin LmemTensors
      /\ {"input", "filter", "output", "chl_quan"} \subseteq LmemTensors
  BY LmemTensorsFacts
<1>2. Push(Push(Push(Push(<< >>, "chl_quan"), "output"), "filter"), "input")
        = Rev(Push(Push(Push(Push(<< >>, "input"), "filter"), "output"),
                   "chl_quan"))
  BY <1>1, PushReversed
<1>3. Push(Push(Push(Push(<< >>, "chl_quan"), "output"), "filter"), "input")
        = SuccessFreeOrder
  <2>1. Push(Push(Push(Push(<< >>, "chl_quan"), "output"), "filter"), "input")
          = Append(Append(Append(Append(<< >>, "chl_quan"), "output"), "filter"),
                   "input")
    BY <1>1 DEF Push
  <2> QED
    BY <1>1, <2>1, AppendFour DEF SuccessFreeOrder
<1>4. Push(Push(Push(Push(<< >>, "input"), "filter"), "output"), "chl_quan")
        = AllocOrder
  <2>1. Push(Push(Push(Push(<< >>, "input"), "filter"), "output"), "chl_quan")
          = Append(Append(Append(Append(<< >>, "input"), "filter"), "output"),
                   "chl_quan")
    BY <1>1 DEF Push
  <2> QED
    BY <1>1, <2>1, AppendFour DEF AllocOrder
<1>5. NoDup(AllocOrder)
  BY DEF NoDup, AllocOrder
<1> QED
  BY <1>2, <1>3, <1>4, <1>5

LEMMA DNext == DInv /\ [DriverNext]_allvars => DInv'
<1> SUFFICES ASSUME DInv, [DriverNext]_allvars PROVE DInv'
  OBVIOUS
<1>0. BudgetInv'
  BY BudgetNext DEF DInv
\* The steps that leave the reference's variables alone.
<1>a. ASSUME UNCHANGED vars PROVE TypeOK'
  <2>1. UNCHANGED <<input, filter, hasBias, bias, multiplier, shift, pos, tap,
                    acc, output>>
    BY <1>a DEF vars, data
  <2> QED
    BY <2>1 DEF DInv, DriverTypeOK, TypeOK
<1>1. CASE HostAlloc
  BY <1>0, <1>1, <1>a DEF HostAlloc, DInv, DriverTypeOK, LmemInv, HostBuffers
<1>2. CASE Attempt
  BY <1>0, <1>2, AttemptType DEF DInv
<1>3. CASE CheckMultiplier
  <2>1. TypeOK'
    BY <1>3 DEF CheckMultiplier, DInv, DriverTypeOK, TypeOK
  <2> QED
    BY <1>0, <1>3, <2>1 DEF CheckMultiplier, DInv, DriverTypeOK, LmemInv
<1>4. CASE RunReference
  <2>1. TypeOK'
    BY <1>4, TypeNext DEF RunReference, DInv, DriverTypeOK
  <2> QED
    BY <1>0, <1>4, <2>1 DEF RunReference, dvars, DInv, DriverTypeOK, LmemInv
<1>5. CASE PackChlQuan
  BY <1>0, <1>5, <1>a DEF PackChlQuan, DInv, DriverTypeOK, LmemInv, HostBuffers
<1>6. CASE LmemAlloc
  BY <1>0, <1>6, LmemAllocStep DEF DInv
<1>7. CASE Compute
  <2>1. /\ pc = "compute" /\ lmem = AllocOrder /\ lmem' = lmem
        /\ toFree' = SuccessFreeOrder
    BY <1>7 DEF Compute, DInv, LmemInv
  <2>2. toFree' = Rev(lmem') /\ NoDup(lmem') /\ toFree' \in Seq(LmemTensors)
    BY <2>1, SuccessOrderReversed, LmemTensorsFacts, RevProperties
  <2> QED
    BY <1>0, <1>7, <1>a, <2>1, <2>2
       DEF Compute, DInv, DriverTypeOK, LmemInv, HostBuffers
<1>8. CASE FreeLmem
  BY <1>0, <1>8, FreeLmemStep DEF DInv
<1>9. ASSUME pc \in {"free_lmem", "free_lmem_fail"}, toFree = << >>
      PROVE  lmem = << >>
  <2>1. toFree = Rev(lmem) /\ lmem \in Seq(LmemTensors)
    BY <1>9 DEF DInv, LmemInv, DriverTypeOK
  <2> QED
    BY <1>9, <2>1, RevEmpty
<1>10. CASE ReturnAfterAllocFailure
  BY <1>0, <1>10, <1>a, <1>9
     DEF ReturnAfterAllocFailure, DInv, DriverTypeOK, LmemInv
<1>11. CASE ReleaseHost
  BY <1>0, <1>11, <1>a, <1>9 DEF ReleaseHost, DInv, DriverTypeOK, LmemInv
<1>12. CASE UNCHANGED allvars
  BY <1>0, <1>12, <1>a DEF allvars, dvars, DInv, DriverTypeOK, LmemInv
<1> QED
  BY <1>1, <1>2, <1>3, <1>4, <1>5, <1>6, <1>7, <1>8, <1>10, <1>11, <1>12
     DEF DriverNext

(***************************************************************************)
(* Only a free of the free list shortens it: on the free paths no other    *)
(* step of run_compare_dw_conv is taken while a free remains.              *)
(***************************************************************************)
LEMMA LifoStep ==
  ASSUME DInv, [DriverNext]_allvars,
         toFree # << >>, toFree' = Tail(toFree)
  PROVE  lmem # << >> /\ lmem[Len(lmem)] = Head(toFree)
<1>1. pc \in {"free_lmem", "free_lmem_fail"} /\ toFree \in Seq(LmemTensors)
  BY DEF DInv, LmemInv, DriverTypeOK
<1>2. toFree' # toFree
  BY <1>1, HeadTailProperties
<1>3. CASE FreeLmem
  BY <1>3, FreeLmemStep
<1>4. CASE ~FreeLmem
  <2>1. ~(HostAlloc \/ Attempt \/ CheckMultiplier \/ RunReference
          \/ PackChlQuan \/ LmemAlloc \/ Compute)
    BY <1>1 DEF HostAlloc, Attempt, CheckMultiplier, RunReference,
                PackChlQuan, LmemAlloc, Compute
  <2>2. ~(ReturnAfterAllocFailure \/ ReleaseHost \/ UNCHANGED allvars)
    BY <1>2 DEF ReturnAfterAllocFailure, ReleaseHost, allvars, dvars
  <2> QED
    BY <1>4, <2>1, <2>2 DEF DriverNext
<1> QED
  BY <1>3, <1>4

(***************************************************************************)
(* run_compare_dw_conv's variables keep their types on every path: the    *)
(* reference's state, the host buffers, the lmem stack and the free list.  *)
(***************************************************************************)
THEOREM DriverTypeCorrect == DriverSpec => []DriverTypeOK
<1>1. DInv => DriverTypeOK
  BY DEF DInv
<1> QED
  BY DInit, DNext, <1>1, PTL DEF DriverSpec

(***************************************************************************)
(* The lmem stack is empty whenever run_compare_dw_conv returns, on every  *)
(* path: after the early return when the float multiplier is not below    *)
(* 1.0, after a failed lmem_alloc_tensor and after the normal frees.       *)
(***************************************************************************)
THEOREM DriverLmemReleased == DriverSpec => []LmemReleasedOnReturn
<1>1. DInv => LmemReleasedOnReturn
  BY DEF DInv, LmemInv, LmemReleasedOnReturn
<1> QED
  BY DInit, DNext, <1>1, PTL DEF DriverSpec

(***************************************************************************)
(* Every lmem_free_tensor call of run_compare_dw_conv, on the normal path  *)
(* ("Reverse order") and on the path after a failed allocation, releases   *)
(* the most recently allocated live tensor.                                *)
(***************************************************************************)
THEOREM DriverLifo == DriverSpec => LmemFreedLifo
<1>1. DInv /\ [DriverNext]_allvars =>
        [toFree # <<>> /\ toFree' = Tail(toFree) =>
           lmem # <<>> /\ lmem[Len(lmem)] = Head(toFree)]_allvars
  BY LifoStep
<1> QED
  BY DInit, DNext, <1>1, PTL DEF DriverSpec, LmemFreedLifo

=============================================================================
