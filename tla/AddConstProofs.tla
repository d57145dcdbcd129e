---------------------------- MODULE AddConstProofs ----------------------------
(***************************************************************************)
(* Proofs about AddConstTest: whatever the two lmem_alloc_tensor calls of  *)
(* test_tl_add_const return, the unconditional frees of fail_exit_2 take   *)
(* the top of the stack and leave it empty, for any number of calls and   *)
(* passes.                                                                 *)
(***************************************************************************)
EXTENDS AddConstTest, LmemStackProofs, TLAPS

\* The two tensors the call in progress allocates.
ATensor == <<"a_low", call>>

RTensor == <<"res_low", call>>

\* The stack while k of the two frees of fail_exit_2 are still to make:
\* tl_a_low, then tl_res_low, each pushed unless it is NULL.
Pending(k) == Pair(tlA, tlRes, k)

(***************************************************************************)
(* The strengthening of ReleasedBetweenCalls and LmemFreedLifo.  Inside a  *)
(* call the stack holds that call's tensors only, and only from the        *)
(* allocation to fail_exit_2; the frees still to make at fail_exit_2 are  *)
(* the last k of <<tl_res_low, tl_a_low>>, and the stack holds the first k *)
(* of <<tl_a_low, tl_res_low>> that are not NULL (k = 2, 1, 0).  res_low_data lives only *)
(* from its malloc to the free after the comparison.                      *)
(***************************************************************************)
AInv ==
  /\ pc # "start" => call < Calls
  /\ pc = "compare" => pass < Passes
  /\ pc \in {"start", "alloc", "fail_exit"} => lmem = << >>
  /\ pc # "fail_exit_2" => toFree = << >>
  /\ pc \in {"loop", "compare"} =>
       /\ tlA = ATensor /\ tlRes = RTensor
       /\ lmem = <<ATensor, RTensor>>
  /\ pc = "fail_exit_2" =>
       /\ tlA \in {ATensor, NULL} /\ tlRes \in {RTensor, NULL}
       /\ \/ toFree = FailExit2Order(tlA, tlRes) /\ lmem = Pending(2)
          \/ toFree = Tail(FailExit2Order(tlA, tlRes)) /\ lmem = Pending(1)
          \/ toFree = << >> /\ lmem = Pending(0)
  /\ pc = "start" => heap = {}
  /\ pc # "compare" => "res_low_data" \notin heap

IInv == TypeOK /\ AInv

LEMMA IInit == Init => IInv
  BY AddConstAssumption DEF Init, IInv, TypeOK, AInv


\* After the allocations, success or failure: Push of a, then of r.
LEMMA AllocStep ==
  ASSUME IInv, AllocLmem
  PROVE  IInv'
<1>1. /\ pc = "alloc" /\ lmem = << >> /\ call \in 0..Calls - 1
      /\ UNCHANGED <<call, heap, mainRet>> /\ pass' = 0
      /\ "res_low_data" \notin heap /\ heap \subseteq HostBuffers
      /\ mainRet \in {0, -1} /\ ret \in {0, -1} /\ toFree = << >>
  BY AddConstAssumption DEF IInv, TypeOK, AInv, AllocLmem
<1>2. /\ ATensor' = ATensor /\ RTensor' = RTensor
      /\ ATensor \in Tensors /\ RTensor \in Tensors /\ ATensor # RTensor
      /\ NULL \notin Tensors
  BY <1>1, NullAssumption DEF ATensor, RTensor, Tensors
<1>3. PICK a \in {ATensor, NULL}, r \in {RTensor, NULL} :
        /\ tlA' = a
        /\ tlRes' = r
        /\ lmem' = Push(Push(lmem, a), r)
        /\ IF a # NULL /\ r # NULL
             THEN /\ pc' = "loop"
                  /\ UNCHANGED <<ret, toFree>>
             ELSE /\ ret' = -1
                  /\ toFree' = FailExit2Order(a, r)
                  /\ pc' = "fail_exit_2"
  BY <1>2 DEF AllocLmem, ATensor, RTensor
<1>4. /\ lmem' = Pair(a, r, 2) /\ lmem' \in Seq(Tensors)
      /\ lmem' = Pending(2)'
  <2>1. /\ NULL \notin Tensors
        /\ a \in Tensors \cup {NULL} /\ r \in Tensors \cup {NULL}
        /\ a = NULL \/ a # r
    BY <1>2
  <2>2. Pair(a, r, 2) = Push(Push(<< >>, a), r) /\ Pair(a, r, 2) \in Seq(Tensors)
    <3>1. /\ Pair(a, r, 0) = << >>
          /\ Pair(a, r, 2) = Push(Push(<< >>, a), r)
          /\ \A k \in 0..2 : Pair(a, r, k) \in Seq(Tensors)
          /\ Free(Pair(a, r, 2), r) = Pair(a, r, 1)
          /\ Free(Pair(a, r, 1), a) = Pair(a, r, 0)
          /\ r # NULL => Pair(a, r, 2) # << >> /\ Top(Pair(a, r, 2)) = r
          /\ a # NULL => Pair(a, r, 1) # << >> /\ Top(Pair(a, r, 1)) = a
      BY <2>1, PairStack
    <3> QED
      BY <3>1
  <2> QED
    BY <1>1, <1>3, <2>2 DEF Pending
<1>5. CASE a # NULL /\ r # NULL
  <2>0. a = ATensor /\ r = RTensor
    BY <1>5
  <2>1. /\ pc' = "loop" /\ ret' = ret /\ toFree' = << >>
        /\ tlA' = ATensor' /\ tlRes' = RTensor'
        /\ lmem' = <<ATensor, RTensor>>'
    <3>1. lmem' = <<a, r>>
      <4>1. lmem' = Append(Append(<< >>, a), r)
        BY <1>1, <1>3, <1>5 DEF Push
      <4>2. a \in Tensors /\ r \in Tensors
        BY <1>2, <1>5
      <4> QED
        BY <4>1, <4>2, AppendTwo
    <3> QED
      BY <1>1, <1>2, <1>3, <1>5, <2>0, <3>1
  <2> QED
    BY <1>1, <1>2, <1>4, <2>1, AddConstAssumption DEF IInv, TypeOK, AInv
<1>6. CASE ~(a # NULL /\ r # NULL)
  <2>1. /\ pc' = "fail_exit_2" /\ ret' = -1
        /\ toFree' = FailExit2Order(a, r)
        /\ toFree' = FailExit2Order(tlA, tlRes)'
        /\ tlA' \in {ATensor, NULL}' /\ tlRes' \in {RTensor, NULL}'
    BY <1>2, <1>3, <1>6
  <2>2. toFree' \in Seq(Tensors \cup {NULL})
    BY <1>2, <1>3, <2>1 DEF FailExit2Order
  <2> QED
    BY <1>1, <1>2, <1>4, <2>1, <2>2, AddConstAssumption DEF IInv, TypeOK, AInv
<1> QED
  BY <1>5, <1>6

\* A free of fail_exit_2 on a tensor pops the top; a free of NULL changes
\* nothing; either way one free fewer remains.
LEMMA FreeStep ==
  ASSUME IInv, FreeLmem
  PROVE  /\ Head(toFree) # NULL => lmem # << >> /\ lmem[Len(lmem)] = Head(toFree)
         /\ IInv'
<1>1. /\ pc = "fail_exit_2" /\ toFree # << >>
      /\ tlA \in {ATensor, NULL} /\ tlRes \in {RTensor, NULL}
      /\ ATensor \in Tensors /\ RTensor \in Tensors /\ ATensor # RTensor
      /\ NULL \notin Tensors
      /\ UNCHANGED <<pc, call, pass, tlA, tlRes, heap, ret, mainRet>>
      /\ lmem' = Free(lmem, Head(toFree)) /\ toFree' = Tail(toFree)
  BY AddConstAssumption, NullAssumption
     DEF IInv, TypeOK, AInv, FreeLmem, ATensor, RTensor, Tensors
<1>2. \/ toFree = <<tlRes, tlA>> /\ lmem = Pending(2)
      \/ toFree = <<tlA>> /\ lmem = Pending(1)
  BY <1>1 DEF IInv, AInv, FailExit2Order
<1>3. /\ Pending(0) = << >>
      /\ \A k \in 0..2 : Pending(k) \in Seq(Tensors)
      /\ Free(Pending(2), tlRes) = Pending(1)
      /\ Free(Pending(1), tlA) = Pending(0)
      /\ tlRes # NULL => Pending(2) # << >> /\ Top(Pending(2)) = tlRes
      /\ tlA # NULL => Pending(1) # << >> /\ Top(Pending(1)) = tlA
  <2>1. /\ NULL \notin Tensors
        /\ tlA \in Tensors \cup {NULL} /\ tlRes \in Tensors \cup {NULL}
        /\ tlA = NULL \/ tlA # tlRes
    BY <1>1
  <2>2. /\ Pair(tlA, tlRes, 0) = << >>
        /\ Pair(tlA, tlRes, 2) = Push(Push(<< >>, tlA), tlRes)
        /\ \A k \in 0..2 : Pair(tlA, tlRes, k) \in Seq(Tensors)
        /\ Free(Pair(tlA, tlRes, 2), tlRes) = Pair(tlA, tlRes, 1)
        /\ Free(Pair(tlA, tlRes, 1), tlA) = Pair(tlA, tlRes, 0)
        /\ tlRes # NULL => Pair(tlA, tlRes, 2) # << >> /\ Top(Pair(tlA, tlRes, 2)) = tlRes
        /\ tlA # NULL => Pair(tlA, tlRes, 1) # << >> /\ Top(Pair(tlA, tlRes, 1)) = tlA
    BY <2>1, PairStack
  <2> QED
    BY <2>2 DEF Pending
<1>4. /\ Pending(0)' = Pending(0) /\ Pending(1)' = Pending(1)
      /\ FailExit2Order(tlA, tlRes)' = <<tlRes, tlA>>
      /\ Tail(FailExit2Order(tlA, tlRes))' = <<tlA>>
      /\ ATensor' = ATensor /\ RTensor' = RTensor
  BY <1>1 DEF Pending, FailExit2Order, ATensor, RTensor
<1>5. \* What the frees leave is the same strengthening, one free on.
      ASSUME \/ toFree' = <<tlA>> /\ lmem' = Pending(1)
             \/ toFree' = << >> /\ lmem' = Pending(0)
      PROVE  IInv'
  <2>1. AInv'
    BY <1>1, <1>4, <1>5, AddConstAssumption DEF IInv, TypeOK, AInv
  <2>2. toFree' \in Seq(Tensors \cup {NULL})
    <3>1. <<tlA>> \in Seq(Tensors \cup {NULL}) /\ << >> \in Seq(Tensors \cup {NULL})
      BY <1>1
    <3> QED
      BY <1>5, <3>1
  <2>3. TypeOK'
    BY <1>1, <1>3, <1>5, <2>2 DEF IInv, TypeOK
  <2> QED
    BY <2>1, <2>3 DEF IInv
<1>6. CASE toFree = <<tlA>> /\ lmem = Pending(1)
  <2>1. Head(toFree) = tlA /\ toFree' = << >> /\ lmem' = Pending(0)
    BY <1>1, <1>3, <1>6
  <2> QED
    BY <1>3, <1>5, <1>6, <2>1 DEF Top
<1>7. CASE toFree = <<tlRes, tlA>> /\ lmem = Pending(2)
  <2>1. Head(toFree) = tlRes /\ toFree' = <<tlA>> /\ lmem' = Pending(1)
    BY <1>1, <1>3, <1>7
  <2> QED
    BY <1>3, <1>5, <1>7, <2>1 DEF Top
<1> QED
  BY <1>2, <1>6, <1>7

LEMMA INext == IInv /\ [Next]_vars => IInv'
<1> SUFFICES ASSUME IInv, [Next]_vars PROVE IInv'
  OBVIOUS
<1>1. CASE Start
  BY <1>1, AddConstAssumption DEF Start, IInv, TypeOK, AInv, HostBuffers,
                                 InputBuffers
<1>2. CASE AllocLmem
  BY <1>2, AllocStep
<1>3. CASE Pass
  BY <1>3 DEF Pass, IInv, TypeOK, AInv, HostBuffers, InputBuffers,
              ATensor, RTensor
<1>4. CASE Compare
  BY <1>4, AddConstAssumption
     DEF Compare, IInv, TypeOK, AInv, HostBuffers, InputBuffers, ATensor,
         RTensor
<1>5. CASE EndLoop
  <2>1. /\ tlA = ATensor /\ tlRes = RTensor /\ lmem = <<ATensor, RTensor>>
        /\ ATensor # NULL /\ RTensor # NULL
        /\ ATensor \in Tensors /\ RTensor \in Tensors
    BY <1>5, AddConstAssumption, NullAssumption
       DEF EndLoop, IInv, TypeOK, AInv, ATensor, RTensor, Tensors
  <2>2. lmem = Pending(2) /\ toFree' = FailExit2Order(tlA, tlRes)
    BY <1>5, <2>1 DEF EndLoop, Pending, Pair, Push
  <2>3. toFree' \in Seq(Tensors \cup {NULL})
    BY <2>1, <2>2 DEF FailExit2Order
  <2> QED
    BY <1>5, <2>1, <2>2, <2>3
       DEF EndLoop, IInv, TypeOK, AInv, ATensor, RTensor, Pending
<1>6. CASE FreeLmem
  BY <1>6, FreeStep
<1>7. CASE EndFailExit2
  <2>1. lmem = Pending(0)
    BY <1>7 DEF EndFailExit2, IInv, AInv, FailExit2Order
  <2>2. lmem = << >>
    BY <2>1 DEF Pending, Pair, Push
  <2> QED
    BY <1>7, <2>2 DEF EndFailExit2, IInv, TypeOK, AInv
<1>8. CASE FailExit
  BY <1>8, AddConstAssumption DEF FailExit, IInv, TypeOK, AInv, HostBuffers,
                                 InputBuffers
<1>9. CASE UNCHANGED vars
  BY <1>9 DEF vars, IInv, TypeOK, AInv, ATensor, RTensor, Pending,
              FailExit2Order
<1> QED
  BY <1>1, <1>2, <1>3, <1>4, <1>5, <1>6, <1>7, <1>8, <1>9 DEF Next


(***************************************************************************)
(* For any number of calls and relu passes, every variable keeps its type: *)
(* the lmem stack holds only tensors of calls that exist, although         *)
(* fail_exit_2 passes a NULL tl_a_low or tl_res_low to lmem_free_tensor.   *)
(***************************************************************************)
THEOREM TypeCorrectAddConst == Spec => []TypeOK
<1>1. IInv => TypeOK
  BY DEF IInv
<1> QED
  BY IInit, INext, <1>1, PTL DEF Spec

(***************************************************************************)
(* For any number of calls and passes, test_tl_add_const returns to main   *)
(* with no lmem tensor and no host buffer live, on the normal path, after  *)
(* a failed host malloc and after either lmem allocation failed: the       *)
(* unconditional frees of fail_exit_2 release exactly what was allocated.  *)
(***************************************************************************)
THEOREM AddConstReleased == Spec => []ReleasedBetweenCalls
<1>1. IInv => ReleasedBetweenCalls
  BY DEF IInv, AInv, ReleasedBetweenCalls
<1> QED
  BY IInit, INext, <1>1, PTL DEF Spec

\* Outside a FreeLmem step no free is pending: fail_exit_2 is left only
\* once the list is empty.
LEMMA NoFreePending ==
  ASSUME IInv, Next, ~FreeLmem
  PROVE  toFree = << >>
<1>1. pc # "fail_exit_2" => toFree = << >>
  BY DEF IInv, AInv
<1> QED
  BY <1>1 DEF Next, Start, AllocLmem, Pass, Compare, EndLoop, EndFailExit2,
              FailExit

(***************************************************************************)
(* For any number of calls and passes, each lmem_free_tensor of            *)
(* fail_exit_2 on a tensor releases the top of the allocator's stack:      *)
(* tl_res_low before tl_a_low reverses the allocation, also when one of    *)
(* the two allocations failed and the free of NULL comes first.            *)
(***************************************************************************)
THEOREM AddConstLifo == Spec => LmemFreedLifo
<1> DEFINE Lifo == toFree # <<>> /\ toFree' = Tail(toFree) /\ Head(toFree) # NULL
                     => lmem # <<>> /\ lmem[Len(lmem)] = Head(toFree)
<1>1. IInv /\ [Next]_vars => [Lifo]_vars
  <2> SUFFICES ASSUME IInv, [Next]_vars PROVE [Lifo]_vars
    OBVIOUS
  <2>1. CASE FreeLmem
    BY <2>1, FreeStep
  <2>2. CASE Next /\ ~FreeLmem
    BY <2>2, NoFreePending
  <2>3. CASE UNCHANGED vars
    BY <2>3
  <2> QED
    BY <2>1, <2>2, <2>3
<1> QED
  BY <1>1, IInit, INext, PTL DEF Spec, LmemFreedLifo

=============================================================================
