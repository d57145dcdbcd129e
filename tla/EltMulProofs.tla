----------------------------- MODULE EltMulProofs -----------------------------
(***************************************************************************)
(* Proofs about run_compare_elt_mul (module EltMul) for every shape, retry *)
(* budget, operand set, multiplier and shift set the assumptions allow.    *)
(***************************************************************************)
EXTENDS EltMul, QuantArithProofs, LmemStackProofs, TLAPS

(***************************************************************************)
(* The strengthening of TypeOK, QuantizedOnlyWithValidMultiplier and       *)
(* LmemFreedLifo.                                                          *)
(*  - While the retry loop runs, the draws made and the count left add up  *)
(*    to the budget and at least one draw is left.                         *)
(*  - calc_elt_mul_float_multiplier never yields a negative multiplier:    *)
(*    the extremes of int8 products are far from INT_MIN.                 *)
(*  - From the reference on, the multiplier is in (0, 1).                  *)
(*  - The lmem stack is empty until the allocations, holds the three       *)
(*    tensors in allocation order while computing, and while freeing the   *)
(*    frees still to make are the stack read from its top.                 *)
(***************************************************************************)
EInv ==
  /\ pc \in {"alloc_host", "retry"} =>
       retry_cnt >= 1 /\ attempts + retry_cnt = RetryCnt
  /\ fm # "nonpos"
  /\ pc \in {"ref", "compute", "free_lmem"} => fm = "valid"
  /\ pc \in {"alloc_host", "retry", "check", "ref"} => lmem = << >>
  /\ pc # "free_lmem" => toFree = << >>
  /\ pc = "compute" => lmem = AllocOrder
  /\ pc = "free_lmem" => toFree = Rev(lmem) /\ NoDup(lmem)

IInv == TypeOK /\ EInv

\* EltMulAssumption, one constant at a time.
LEMMA EltMulFacts ==
  /\ Size \in Nat \ {0}
  /\ RetryCnt \in Nat \ {0}
  /\ Inputs \subseteq [0..Size - 1 -> Int8]
  /\ Multipliers \subseteq Int
  /\ Shifts \subseteq -30..30
<1>1. {InputN, InputC, InputH, InputW, RetryCnt} \subseteq Nat \ {0}
  BY EltMulAssumption
<1>2. Size \in Nat \ {0}
  BY <1>1, SMT DEF Size
<1>3. Multipliers \subseteq Int
  <2>1. Multipliers \subseteq 0..MaxInt32
    BY EltMulAssumption
  <2> QED
    BY <2>1, MaxInt32Facts
<1>4. Inputs \subseteq [0..Size - 1 -> Int8] /\ Shifts \subseteq -30..30
  BY EltMulAssumption
<1> QED
  BY <1>1, <1>2, <1>3, <1>4

(***************************************************************************)
(* calc_elt_mul_float_multiplier on int8 operands: the extremes of the     *)
(* products exist and lie in -16384..16384, so abs() never meets INT_MIN   *)
(* and the float multiplier is never negative.                             *)
(***************************************************************************)
LEMMA CalcClass ==
  ASSUME NEW a \in Inputs, NEW b \in Inputs
  PROVE  CalcFloatMultiplier(a, b) \in {"valid", "one", "gt1"}
<1> DEFINE vals   == {a[k] * b[k] : k \in 0..Size - 1}
           valMax == CHOOSE v \in vals : \A w \in vals : w <= v
           valMin == CHOOSE v \in vals : \A w \in vals : v <= w
<1>1. \A k \in 0..Size - 1 : a[k] \in Int8 /\ b[k] \in Int8
  BY EltMulFacts
<1>2. \A v \in vals : v \in Int /\ -16384 <= v /\ v <= 16384
  BY <1>1, ProductBound
<1>3. vals # {} /\ vals \subseteq Int
  BY <1>2, EltMulFacts
<1> DEFINE lo == -16384
           hi == 16384
<1>4. /\ lo \in Int /\ hi \in Int
      /\ \A v \in vals : lo <= v
      /\ \A v \in vals : v <= hi
  BY <1>2
<1> HIDE DEF vals, lo, hi
<1>5. \E v \in vals : \A w \in vals : v <= w
  BY <1>3, <1>4, IntMinExists
<1>6. \E v \in vals : \A w \in vals : w <= v
  BY <1>3, <1>4, IntMaxExists
<1>7. valMin \in vals /\ valMax \in vals
  BY <1>5, <1>6
<1>8. /\ valMin \in Int /\ MinInt32 < valMin
      /\ valMax \in Int /\ MinInt32 < valMax
  <2>1. valMin \in Int /\ valMax \in Int
    BY <1>3, <1>7
  <2>2. lo <= valMin /\ lo <= valMax
    BY <1>4, <1>7
  <2>3. MinInt32 \in Int /\ MinInt32 < lo
    BY DEF MinInt32, MaxInt32, lo
  <2> QED
    BY <2>1, <2>2, <2>3, <1>4, SMT
<1>9. FloatMultiplierClass(valMax, valMin) \in {"valid", "one", "gt1"}
  BY <1>8, ClassNotNonpos
<1> QED
  BY <1>9 DEF CalcFloatMultiplier, vals

LEMMA IInit == Init => IInv
<1> SUFFICES ASSUME Init PROVE IInv
  OBVIOUS
<1>1. TypeOK
  BY EltMulFacts DEF Init, TypeOK, FloatClasses
<1>2. EInv
  BY EltMulFacts DEF Init, EInv
<1> QED
  BY <1>1, <1>2 DEF IInv

\* The three lmem tensors of the test.
LEMMA LmemTensorsFacts ==
  /\ NULL \notin LmemTensors
  /\ {"input1", "input2", "output"} \subseteq LmemTensors
  /\ AllocOrder \in Seq(LmemTensors) /\ NoDup(AllocOrder)
  /\ << >> \in Seq(LmemTensors)
  BY NullAssumption DEF LmemTensors, AllocOrder, NoDup

(***************************************************************************)
(* A draw of the do/while loop: one draw is used up, the count left drops  *)
(* unless the multiplier is in (0, 1), and the loop is left with a draw    *)
(* whose class is never "nonpos".                                          *)
(***************************************************************************)
LEMMA AttemptStep ==
  ASSUME IInv, Attempt
  PROVE  IInv'
<1>1. PICK a \in Inputs, b \in Inputs :
        /\ input1' = a /\ input2' = b
        /\ attempts' = attempts + 1
        /\ fm' = CalcFloatMultiplier(a, b)
        /\ retry_cnt' = IF CalcFloatMultiplier(a, b) = "valid"
                          THEN retry_cnt ELSE retry_cnt - 1
        /\ pc' = IF CalcFloatMultiplier(a, b) = "valid" \/ retry_cnt - 1 = 0
                   THEN "check" ELSE "retry"
  BY DEF Attempt
<1>2. /\ pc = "retry" /\ retry_cnt >= 1 /\ attempts + retry_cnt = RetryCnt
      /\ retry_cnt \in 0..RetryCnt /\ attempts \in 0..RetryCnt
      /\ UNCHANGED <<output, multiplier, right_shift, i, heap, lmem, toFree, ret>>
  BY DEF Attempt, IInv, EInv, TypeOK
<1>3. CalcFloatMultiplier(a, b) \in {"valid", "one", "gt1"}
  BY CalcClass
<1>4. /\ retry_cnt' \in 0..RetryCnt /\ attempts' \in 0..RetryCnt
      /\ pc' = "retry" => retry_cnt' >= 1 /\ attempts' + retry_cnt' = RetryCnt
  BY <1>1, <1>2, EltMulFacts
<1>5. TypeOK'
  BY <1>1, <1>2, <1>3, <1>4 DEF IInv, TypeOK, FloatClasses
<1>6. EInv'
  BY <1>1, <1>2, <1>3, <1>4 DEF IInv, EInv
<1> QED
  BY <1>5, <1>6 DEF IInv

(***************************************************************************)
(* The exit test float_multiplier >= 1.0 sends every class but "valid" and *)
(* "nonpos" to the early return, and "nonpos" never occurs.                *)
(***************************************************************************)
LEMMA CheckStep ==
  ASSUME IInv, CheckMultiplier
  PROVE  IInv'
<1>1. /\ pc = "check" /\ fm \in FloatClasses /\ fm # "nonpos"
      /\ lmem = << >> /\ toFree = << >>
      /\ UNCHANGED <<input1, input2, output, i, retry_cnt, attempts, fm,
                     lmem, toFree>>
  BY DEF CheckMultiplier, IInv, EInv, TypeOK
<1>2. CASE fm \in {"one", "gt1"}
  BY <1>1, <1>2 DEF CheckMultiplier, IInv, EInv, TypeOK, HostBuffers
<1>3. CASE fm \notin {"one", "gt1"}
  <2>1. fm = "valid"
    BY <1>1, <1>3 DEF FloatClasses
  <2>2. /\ multiplier' \in Multipliers /\ right_shift' \in Shifts
        /\ pc' = "ref" /\ UNCHANGED <<heap, ret>>
    BY <1>3 DEF CheckMultiplier
  <2> QED
    BY <1>1, <2>1, <2>2 DEF IInv, EInv, TypeOK
<1> QED
  BY <1>2, <1>3

(***************************************************************************)
(* One element of elt_mul_ref: the requantised product, clamped, is an     *)
(* int8 and is stored inside the output buffer.                            *)
(***************************************************************************)
LEMMA RefStepStep ==
  ASSUME IInv, RefStep
  PROVE  IInv'
<1>1. /\ pc = "ref" /\ i \in 0..Size - 1
      /\ output' = [output EXCEPT ![i] = RefElement(i)] /\ i' = i + 1
      /\ UNCHANGED <<input1, input2, multiplier, right_shift, pc, retry_cnt,
                     attempts, fm, heap, lmem, toFree, ret>>
  BY EltMulFacts DEF RefStep, IInv, TypeOK
<1>2. input1[i] \in Int8 /\ input2[i] \in Int8
  BY <1>1, EltMulFacts DEF IInv, TypeOK
<1>3. input1[i] * input2[i] \in Int
  BY <1>2, ProductBound
<1>4. multiplier \in Int /\ right_shift \in -30..30
  BY EltMulFacts DEF IInv, TypeOK
<1>5. RefElement(i) \in Int8
  BY <1>3, <1>4, MBQMType, ClampInt8Type DEF RefElement
<1>6. output' \in [0..Size - 1 -> Int8]
  BY <1>1, <1>5 DEF IInv, TypeOK
<1> QED
  BY <1>1, <1>6, EltMulFacts DEF IInv, TypeOK, EInv


(***************************************************************************)
(* The three allocations on an empty stack: all three succeed and the      *)
(* stack holds them in allocation order, or one fails and the function     *)
(* returns at once with the others still live.                             *)
(***************************************************************************)
LEMMA LmemAllocStep ==
  ASSUME IInv, LmemAlloc
  PROVE  IInv'
<1>1. /\ pc = "ref" /\ lmem = << >> /\ toFree = << >>
      /\ UNCHANGED <<input1, input2, output, multiplier, right_shift, i,
                     retry_cnt, attempts, fm, heap, toFree>>
  BY DEF LmemAlloc, IInv, EInv
<1>2. PICK ok \in SUBSET LmemTensors :
        /\ lmem' = Push(Push(Push(lmem, Got(AllocOrder[1], ok)),
                             Got(AllocOrder[2], ok)),
                        Got(AllocOrder[3], ok))
        /\ IF ok = LmemTensors
             THEN pc' = "compute" /\ UNCHANGED ret
             ELSE ret' = -1 /\ pc' = "done"
  BY DEF LmemAlloc
<1> DEFINE g1 == Got("input1", ok)
           g2 == Got("input2", ok)
           g3 == Got("output", ok)
<1>3. lmem' = Push(Push(Push(<< >>, g1), g2), g3)
  BY <1>1, <1>2 DEF AllocOrder
<1>4. /\ g1 \in LmemTensors \cup {NULL} /\ g2 \in LmemTensors \cup {NULL}
      /\ g3 \in LmemTensors \cup {NULL}
  BY LmemTensorsFacts DEF Got
<1>5. lmem' \in Seq(LmemTensors)
  <2>1. Push(<< >>, g1) \in Seq(LmemTensors)
    BY <1>4, LmemTensorsFacts, PushType
  <2>2. Push(Push(<< >>, g1), g2) \in Seq(LmemTensors)
    BY <1>4, <2>1, PushType
  <2> QED
    BY <1>3, <1>4, <2>2, PushType
<1>6. /\ input1' \in Inputs /\ input2' \in Inputs
      /\ output' \in [0..Size - 1 -> Int8]
      /\ multiplier' \in {0} \cup Multipliers /\ right_shift' \in {0} \cup Shifts
      /\ i' \in 0..Size /\ retry_cnt' \in 0..RetryCnt
      /\ attempts' \in 0..RetryCnt /\ fm' \in FloatClasses
      /\ heap' \subseteq HostBuffers /\ toFree' \in Seq(LmemTensors)
      /\ fm' # "nonpos" /\ fm' = "valid" /\ toFree' = << >>
      /\ ret \in {0, -1}
  BY <1>1, LmemTensorsFacts DEF IInv, TypeOK, EInv
<1>7. CASE ok = LmemTensors
  <2>1. g1 = "input1" /\ g2 = "input2" /\ g3 = "output"
    BY <1>7, LmemTensorsFacts DEF Got
  <2>2. lmem' = Append(Append(Append(<< >>, "input1"), "input2"), "output")
    BY <1>3, <1>4, <2>1, LmemTensorsFacts DEF Push
  <2>3. lmem' = AllocOrder
    <3> DEFINE u == Append(Append(Append(<< >>, "input1"), "input2"), "output")
    <3>1. u \in Seq(LmemTensors) /\ Len(u) = 3
          /\ u[1] = "input1" /\ u[2] = "input2" /\ u[3] = "output"
      BY LmemTensorsFacts
    <3>2. AllocOrder \in Seq(LmemTensors) /\ Len(AllocOrder) = 3
          /\ \A k \in 1..3 : u[k] = AllocOrder[k]
      BY <3>1, LmemTensorsFacts DEF AllocOrder
    <3> HIDE DEF u
    <3>3. u = AllocOrder
      BY <3>1, <3>2, SeqEqual
    <3> QED
      BY <2>2, <3>3 DEF u
  <2>4. pc' = "compute" /\ ret' = ret
    BY <1>2, <1>7
  <2> QED
    BY <1>5, <1>6, <2>3, <2>4 DEF IInv, TypeOK, EInv
<1>8. CASE ok # LmemTensors
  <2>1. pc' = "done" /\ ret' = -1
    BY <1>2, <1>8
  <2> QED
    BY <1>5, <1>6, <2>1 DEF IInv, TypeOK, EInv
<1> QED
  BY <1>7, <1>8

\* The "Reverse order" frees are the three tensors read from the top.
LEMMA SuccessOrderReversed == SuccessFreeOrder = Rev(AllocOrder)
<1>1. /\ Rev(AllocOrder) \in Seq(LmemTensors) /\ Len(Rev(AllocOrder)) = 3
      /\ \A k \in 1..3 : Rev(AllocOrder)[k] = AllocOrder[3 - k + 1]
  <2>1. AllocOrder \in Seq(LmemTensors) /\ Len(AllocOrder) = 3
    BY LmemTensorsFacts DEF AllocOrder
  <2>2. /\ Rev(AllocOrder) \in Seq(LmemTensors)
        /\ Len(Rev(AllocOrder)) = Len(AllocOrder)
        /\ \A k \in 1..Len(AllocOrder) :
             Rev(AllocOrder)[k] = AllocOrder[Len(AllocOrder) - k + 1]
    BY <2>1, RevProperties
  <2> QED
    BY <2>1, <2>2
<1>2. /\ SuccessFreeOrder \in Seq(LmemTensors) /\ Len(SuccessFreeOrder) = 3
      /\ \A k \in 1..3 : SuccessFreeOrder[k] = AllocOrder[3 - k + 1]
  BY LmemTensorsFacts DEF SuccessFreeOrder, AllocOrder
<1> QED
  BY <1>1, <1>2, SeqEqual

\* The comparison done, the three frees are due.
LEMMA ComputeStep ==
  ASSUME IInv, Compute
  PROVE  IInv'
<1>1. /\ pc = "compute" /\ lmem = AllocOrder /\ lmem' = lmem
      /\ toFree' = SuccessFreeOrder /\ pc' = "free_lmem" /\ ret' \in {0, -1}
      /\ UNCHANGED <<input1, input2, output, multiplier, right_shift, i,
                     retry_cnt, attempts, fm, heap>>
  BY DEF Compute, IInv, EInv
<1>2. toFree' = Rev(lmem') /\ NoDup(lmem') /\ toFree' \in Seq(LmemTensors)
  BY <1>1, SuccessOrderReversed, LmemTensorsFacts DEF SuccessFreeOrder
<1> QED
  BY <1>1, <1>2 DEF IInv, TypeOK, EInv


(***************************************************************************)
(* A free of the normal path takes the top of the stack; the frees left    *)
(* are the rest of the stack read from the top.                            *)
(***************************************************************************)
LEMMA FreeLmemStep ==
  ASSUME IInv, FreeLmem
  PROVE  /\ lmem # << >> /\ lmem[Len(lmem)] = Head(toFree)
         /\ IInv'
<1>1. /\ pc = "free_lmem" /\ toFree # << >>
      /\ toFree = Rev(lmem) /\ NoDup(lmem) /\ lmem \in Seq(LmemTensors)
      /\ lmem' = Free(lmem, Head(toFree)) /\ toFree' = Tail(toFree)
      /\ UNCHANGED <<input1, input2, output, multiplier, right_shift, i,
                     pc, retry_cnt, attempts, fm, heap, ret>>
  BY DEF FreeLmem, IInv, TypeOK, EInv
<1>2. lmem # << >>
  BY <1>1, RevEmpty
<1>3. /\ Head(Rev(lmem)) = lmem[Len(lmem)]
      /\ Tail(Rev(lmem)) = Rev(SubSeq(lmem, 1, Len(lmem) - 1))
  BY <1>1, <1>2, RevPop
<1>4. Len(lmem) >= 1
  BY <1>1, <1>2
<1>5. lmem' = SubSeq(lmem, 1, Len(lmem) - 1)
  <2>1. Free(lmem, Top(lmem)) = SubSeq(lmem, 1, Len(lmem) - 1)
    BY <1>1, <1>4, FreeTop
  <2> QED
    BY <1>1, <1>3, <2>1 DEF Top
<1>6. /\ SubSeq(lmem, 1, Len(lmem) - 1) \in Seq(LmemTensors)
      /\ NoDup(SubSeq(lmem, 1, Len(lmem) - 1))
  <2>1. Len(lmem) - 1 \in 0..Len(lmem)
    BY <1>1, <1>4
  <2> QED
    BY <1>1, <2>1, PrefixNoDup
<1>7. toFree' = Rev(lmem') /\ toFree' \in Seq(LmemTensors)
  BY <1>1, <1>3, <1>5, <1>6, RevProperties
<1> QED
  BY <1>1, <1>2, <1>3, <1>5, <1>6, <1>7 DEF IInv, TypeOK, EInv

LEMMA INext == IInv /\ [Next]_vars => IInv'
<1> SUFFICES ASSUME IInv, [Next]_vars PROVE IInv'
  OBVIOUS
<1>1. CASE HostAlloc
  BY <1>1 DEF HostAlloc, IInv, TypeOK, EInv, HostBuffers
<1>2. CASE Attempt
  BY <1>2, AttemptStep
<1>3. CASE CheckMultiplier
  BY <1>3, CheckStep
<1>4. CASE RefStep
  BY <1>4, RefStepStep
<1>5. CASE LmemAlloc
  BY <1>5, LmemAllocStep
<1>6. CASE Compute
  BY <1>6, ComputeStep
<1>7. CASE FreeLmem
  BY <1>7, FreeLmemStep
<1>8. CASE ReleaseHost
  BY <1>8 DEF ReleaseHost, IInv, TypeOK, EInv
<1>9. CASE UNCHANGED vars
  BY <1>9 DEF vars, IInv, TypeOK, EInv
<1> QED
  BY <1>1, <1>2, <1>3, <1>4, <1>5, <1>6, <1>7, <1>8, <1>9 DEF Next

(***************************************************************************)
(* Every state of run_compare_elt_mul is well typed: the retry counters    *)
(* stay within the budget, every element elt_mul_ref stores is an int8 at  *)
(* an index inside the output buffer, and the lmem stack and free list     *)
(* hold only the three tensors.                                            *)
(***************************************************************************)
THEOREM TypeCorrectEltMul == Spec => []TypeOK
<1>1. IInv => TypeOK
  BY DEF IInv
<1> QED
  BY IInit, INext, <1>1, PTL DEF Spec

(***************************************************************************)
(* The multiplier and shift are derived, elt_mul_ref is run and the TPU    *)
(* result compared only with a float multiplier strictly inside (0, 1):    *)
(* the single exit test float_multiplier >= 1.0 after the retry loop is    *)
(* enough, because abs() of an extreme of int8 products never meets       *)
(* INT_MIN.                                                                *)
(***************************************************************************)
THEOREM EltMulValidMultiplier == Spec => []QuantizedOnlyWithValidMultiplier
<1>1. IInv => QuantizedOnlyWithValidMultiplier
  BY DEF IInv, EInv, QuantizedOnlyWithValidMultiplier
<1> QED
  BY IInit, INext, <1>1, PTL DEF Spec

(***************************************************************************)
(* Only a free shortens the free list: while frees remain, no other step   *)
(* of run_compare_elt_mul is taken.                                        *)
(***************************************************************************)
LEMMA LifoStep ==
  ASSUME IInv, [Next]_vars, toFree # << >>, toFree' = Tail(toFree)
  PROVE  lmem # << >> /\ lmem[Len(lmem)] = Head(toFree)
<1>1. pc = "free_lmem" /\ toFree \in Seq(LmemTensors)
  BY DEF IInv, EInv, TypeOK
<1>2. toFree' # toFree
  BY <1>1, HeadTailProperties
<1>3. CASE FreeLmem
  BY <1>3, FreeLmemStep
<1>4. CASE ~FreeLmem
  <2>1. ~(HostAlloc \/ Attempt \/ CheckMultiplier \/ RefStep \/ LmemAlloc
          \/ Compute)
    BY <1>1 DEF HostAlloc, Attempt, CheckMultiplier, RefStep, LmemAlloc,
                Compute
  <2>2. ~(ReleaseHost \/ UNCHANGED vars)
    BY <1>2 DEF ReleaseHost, vars
  <2> QED
    BY <1>4, <2>1, <2>2 DEF Next
<1> QED
  BY <1>3, <1>4

(***************************************************************************)
(* Every lmem_free_tensor call of run_compare_elt_mul ("Reverse order":    *)
(* tl_output, tl_input2, tl_input1) releases the top of the allocator's    *)
(* stack.                                                                  *)
(***************************************************************************)
THEOREM EltMulLifo == Spec => LmemFreedLifo
<1>1. IInv /\ [Next]_vars =>
        [toFree # <<>> /\ toFree' = Tail(toFree) =>
           lmem # <<>> /\ lmem[Len(lmem)] = Head(toFree)]_vars
  BY LifoStep
<1> QED
  BY IInit, INext, <1>1, PTL DEF Spec, LmemFreedLifo

=============================================================================
