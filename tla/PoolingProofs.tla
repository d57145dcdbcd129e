----------------------------- MODULE PoolingProofs -----------------------------
(***************************************************************************)
(* Proofs about PoolingTest: whatever the draws of random_pooling_param    *)
(* and the two lmem_alloc_tensor calls of each draw return, a rejected     *)
(* draw is undone by free_pooling_param from the top of the stack, for any *)
(* retry_cnt and any set of geometries.                                    *)
(***************************************************************************)
EXTENDS PoolingTest, LmemStackProofs, TLAPS

\* The two tensors the pass in progress allocates.
OT == <<"ofmap", iter>>

IT == <<"ifmap", iter>>

\* The stack while k of the frees of free_pooling_param are still to make:
\* p.ofmap, then p.ifmap, each pushed unless it is NULL.
Pending(k) == Pair(ofmap, ifmap, k)

(***************************************************************************)
(* The strengthening of RetryLeavesLmemAsFound and LmemFreedLifo.  A pass  *)
(* of the retry loop starts on an empty stack and no pending free; after   *)
(* an accepted draw the stack holds the draw's ofmap and ifmap; while      *)
(* free_pooling_param runs on the draw of a pass, k of its frees remain    *)
(* and the stack holds the first k of p.ofmap, p.ifmap that are not NULL.  *)
(* After the retries ran out every draw was freed: the stack is empty and  *)
(* stays so, free_pooling_param at the end freeing dangling pointers.      *)
(***************************************************************************)
PInv ==
  /\ pc = "gen" => lmem = << >>
  /\ pc \notin {"retry_free", "final_free"} => toFree = << >>
  /\ pc = "retry_free" => iter < RetryCnt
  /\ pc \in {"test", "copy_out", "compare"} /\ iter < RetryCnt =>
       ofmap = OT /\ ifmap = IT /\ lmem = Pending(2)
  /\ pc \in {"retry_free", "final_free"} /\ iter < RetryCnt =>
       /\ ofmap \in {OT, NULL} /\ ifmap \in {IT, NULL}
       /\ \E k \in 0..2 : toFree = PairFrees(ofmap, ifmap, k) /\ lmem = Pending(k)
  /\ pc \in {"test", "copy_out", "compare", "final_free"} /\ iter = RetryCnt =>
       lmem = << >>

IInv == TypeOK /\ PInv

\* The tensors of a pass of the retry loop are two distinct tensors.
LEMMA PassTensors ==
  ASSUME iter \in 0..RetryCnt - 1
  PROVE  /\ OT \in Tensors /\ IT \in Tensors /\ OT # IT
         /\ NULL \notin Tensors
  BY NullAssumption DEF OT, IT, Tensors

LEMMA IInit == Init => IInv
  BY PoolingAssumption DEF Init, IInv, TypeOK, PInv

\* One pass of the loop body: the stack after the two allocations is the
\* pair of the draw, kept on an accepted draw, to be freed on a rejected one.
LEMMA GenStep ==
  ASSUME IInv, Generate
  PROVE  IInv'
<1>1. /\ pc = "gen" /\ lmem = << >> /\ toFree = << >>
      /\ iter \in 0..RetryCnt - 1
      /\ UNCHANGED <<iter, heap, ret>>
      /\ heap \subseteq HostBuffers /\ ret \in {0, -1}
  BY PoolingAssumption DEF IInv, TypeOK, PInv, Generate
<1>2. /\ OT \in Tensors /\ IT \in Tensors /\ OT # IT /\ NULL \notin Tensors
      /\ OT' = OT /\ IT' = IT
  BY <1>1, PassTensors DEF OT, IT
<1>3. PICK g \in Geometries, ofm \in {OT, NULL}, ifm \in {IT, NULL} :
        /\ geo' = g
        /\ ofmap' = ofm
        /\ ifmap' = ifm
        /\ lmem' = Push(Push(lmem, ofm), ifm)
        /\ IF GeometryAccepted(g) /\ ofm # NULL /\ ifm # NULL
             THEN /\ pc' = "test"
                  /\ UNCHANGED toFree
             ELSE /\ toFree' = FreeParamOrder(ofm, ifm)
                  /\ pc' = "retry_free"
  BY <1>2 DEF Generate, OT, IT
<1>4. /\ NULL \notin Tensors
      /\ ofm \in Tensors \cup {NULL} /\ ifm \in Tensors \cup {NULL}
      /\ ofm = NULL \/ ofm # ifm
  BY <1>2
<1>5. /\ lmem' = Pair(ofm, ifm, 2) /\ lmem' \in Seq(Tensors)
      /\ lmem' = Pending(2)'
  <2>1. /\ Pair(ofm, ifm, 0) = << >>
        /\ Pair(ofm, ifm, 2) = Push(Push(<< >>, ofm), ifm)
        /\ \A k \in 0..2 : Pair(ofm, ifm, k) \in Seq(Tensors)
        /\ Free(Pair(ofm, ifm, 2), ifm) = Pair(ofm, ifm, 1)
        /\ Free(Pair(ofm, ifm, 1), ofm) = Pair(ofm, ifm, 0)
        /\ ifm # NULL => Pair(ofm, ifm, 2) # << >> /\ Top(Pair(ofm, ifm, 2)) = ifm
        /\ ofm # NULL => Pair(ofm, ifm, 1) # << >> /\ Top(Pair(ofm, ifm, 1)) = ofm
    BY <1>4, PairStack
  <2> QED
    BY <1>1, <1>3, <2>1 DEF Pending
<1>6. CASE GeometryAccepted(g) /\ ofm # NULL /\ ifm # NULL
  <2>1. /\ pc' = "test" /\ toFree' = << >>
        /\ ofmap' = OT' /\ ifmap' = IT'
    BY <1>1, <1>2, <1>3, <1>6
  <2> QED
    BY <1>1, <1>2, <1>3, <1>5, <2>1 DEF IInv, TypeOK, PInv
<1>7. CASE ~(GeometryAccepted(g) /\ ofm # NULL /\ ifm # NULL)
  <2>1. /\ pc' = "retry_free"
        /\ toFree' = PairFrees(ofm, ifm, 2)
        /\ toFree' = PairFrees(ofmap, ifmap, 2)'
    BY <1>3, <1>7 DEF FreeParamOrder, PairFrees
  <2>2. PairFrees(ofm, ifm, 2) \in Seq(Tensors)
    BY <1>4, PairFreeStep
  <2>3. \E k \in 0..2 : toFree' = PairFrees(ofmap, ifmap, k)' /\ lmem' = Pending(k)'
    BY <1>5, <2>1
  <2>4. ofmap' \in {OT, NULL}' /\ ifmap' \in {IT, NULL}'
    BY <1>2, <1>3
  <2>5. TypeOK'
    BY <1>1, <1>3, <1>4, <1>5, <2>1, <2>2, PoolingAssumption DEF TypeOK
  <2>6. PInv'
    BY <1>1, <2>1, <2>3, <2>4, PoolingAssumption DEF PInv
  <2> QED
    BY <2>5, <2>6 DEF IInv
<1> QED
  BY <1>6, <1>7

\* A free of free_pooling_param on a live tensor pops the top; what remains
\* is the same strengthening, one free on.
LEMMA FreeStep ==
  ASSUME IInv, FreeLmem
  PROVE  /\ Head(toFree) \in Live(lmem) => lmem[Len(lmem)] = Head(toFree)
         /\ IInv'
<1>1. /\ pc \in {"retry_free", "final_free"} /\ toFree # << >>
      /\ toFree \in Seq(Tensors) /\ lmem \in Seq(Tensors)
      /\ lmem' = Free(lmem, Head(toFree)) /\ toFree' = Tail(toFree)
      /\ UNCHANGED <<pc, iter, geo, ofmap, ifmap, heap, ret>>
  BY DEF IInv, TypeOK, FreeLmem
<1>2. toFree' \in Seq(Tensors) /\ lmem' \in Seq(Tensors)
  BY <1>1, HeadTailProperties, FreeType
<1>3. CASE iter < RetryCnt
  <2>1. /\ iter \in 0..RetryCnt - 1
        /\ ofmap \in {OT, NULL} /\ ifmap \in {IT, NULL}
        /\ OT \in Tensors /\ IT \in Tensors /\ OT # IT /\ NULL \notin Tensors
        /\ OT' = OT /\ IT' = IT /\ Pending(0)' = Pending(0)
        /\ Pending(1)' = Pending(1) /\ Pending(2)' = Pending(2)
    BY <1>1, <1>3, PassTensors, PoolingAssumption
       DEF IInv, TypeOK, PInv, OT, IT, Pending
  <2>2. PICK k \in 0..2 : toFree = PairFrees(ofmap, ifmap, k) /\ lmem = Pending(k)
    BY <1>1, <1>3 DEF IInv, PInv
  <2>3. /\ NULL \notin Tensors
        /\ ofmap \in Tensors \cup {NULL} /\ ifmap \in Tensors \cup {NULL}
        /\ ofmap = NULL \/ ofmap # ifmap
    BY <2>1
  <2>4. PairFrees(ofmap, ifmap, k) # << >> =>
          \E j \in 0..1 :
             /\ Tail(PairFrees(ofmap, ifmap, k)) = PairFrees(ofmap, ifmap, j)
             /\ Free(Pair(ofmap, ifmap, k), Head(PairFrees(ofmap, ifmap, k)))
                  = Pair(ofmap, ifmap, j)
             /\ Pair(ofmap, ifmap, k) # << >>
             /\ Top(Pair(ofmap, ifmap, k)) = Head(PairFrees(ofmap, ifmap, k))
    BY <2>3, PairFreeStep
  <2>5. PICK j \in 0..1 :
          /\ toFree' = PairFrees(ofmap, ifmap, j)
          /\ lmem' = Pending(j)
          /\ lmem[Len(lmem)] = Head(toFree)
    BY <1>1, <2>2, <2>4 DEF Pending, Top
  <2>6. PInv'
    <3>1. \E k2 \in 0..2 : toFree' = PairFrees(ofmap, ifmap, k2)' /\ lmem' = Pending(k2)'
      BY <1>1, <2>1, <2>5
    <3> QED
      BY <1>1, <1>3, <2>1, <3>1 DEF PInv
  <2> QED
    BY <1>1, <1>2, <2>5, <2>6 DEF IInv, TypeOK
<1>4. CASE ~(iter < RetryCnt)
  <2>1. iter = RetryCnt /\ pc = "final_free" /\ lmem = << >>
    BY <1>1, <1>4, PoolingAssumption DEF IInv, TypeOK, PInv
  <2>2. Head(toFree) \notin Live(lmem) /\ lmem' = << >>
    BY <1>1, <2>1 DEF Live, Free, IsAt
  <2> QED
    BY <1>1, <1>2, <2>1, <2>2 DEF IInv, TypeOK, PInv
<1> QED
  BY <1>3, <1>4

\* The frees of a rejected draw are done: they left the stack empty.
LEMMA NextIterationStep ==
  ASSUME IInv, NextIteration
  PROVE  IInv'
<1>1. /\ pc = "retry_free" /\ toFree = << >> /\ iter \in 0..RetryCnt - 1
      /\ ofmap \in {OT, NULL} /\ ifmap \in {IT, NULL}
      /\ OT \in Tensors /\ IT \in Tensors /\ OT # IT /\ NULL \notin Tensors
  BY PassTensors, PoolingAssumption DEF IInv, TypeOK, PInv, NextIteration
<1>2. PICK k \in 0..2 : toFree = PairFrees(ofmap, ifmap, k) /\ lmem = Pending(k)
  BY <1>1 DEF IInv, PInv
<1>3. PairFrees(ofmap, ifmap, k) = << >> => Pair(ofmap, ifmap, k) = << >>
  <2>1. /\ ofmap \in Tensors \cup {NULL} /\ ifmap \in Tensors \cup {NULL}
        /\ ofmap = NULL \/ ofmap # ifmap
    BY <1>1
  <2> QED
    BY <1>1, <2>1, PairFreeStep
<1>4. lmem = << >>
  BY <1>1, <1>2, <1>3 DEF Pending
<1> QED
  BY <1>1, <1>4, PoolingAssumption DEF IInv, TypeOK, PInv, NextIteration

\* compare_results is followed by free_pooling_param on the draw.
LEMMA CompareStep ==
  ASSUME IInv, Compare
  PROVE  IInv'
<1>1. /\ pc = "compare" /\ pc' = "final_free"
      /\ toFree' = FreeParamOrder(ofmap, ifmap)
      /\ UNCHANGED <<iter, geo, ofmap, ifmap, lmem>>
      /\ heap' \subseteq HostBuffers /\ ret' \in {0, -1}
  BY DEF IInv, TypeOK, Compare, HostBuffers
<1>2. toFree' \in Seq(Tensors)
  <2>0. << >> \in Seq(Tensors) /\ ifmap \in Tensors \cup {NULL}
    BY DEF IInv, TypeOK
  <2>1. Push(<< >>, ifmap) \in Seq(Tensors)
    BY <2>0, PushType
  <2> QED
    BY <1>1, <2>1, PushType DEF IInv, TypeOK, FreeParamOrder
<1>3. CASE iter < RetryCnt
  <2>1. /\ ofmap = OT /\ ifmap = IT /\ lmem = Pending(2)
        /\ OT' = OT /\ IT' = IT /\ Pending(2)' = Pending(2)
        /\ toFree' = PairFrees(ofmap, ifmap, 2)'
    BY <1>1, <1>3 DEF IInv, PInv, OT, IT, Pending, FreeParamOrder, PairFrees
  <2> QED
    BY <1>1, <1>2, <1>3, <2>1 DEF IInv, TypeOK, PInv
<1>4. CASE ~(iter < RetryCnt)
  BY <1>1, <1>2, <1>4, PoolingAssumption DEF IInv, TypeOK, PInv
<1> QED
  BY <1>3, <1>4

LEMMA INext == IInv /\ [Next]_vars => IInv'
<1> SUFFICES ASSUME IInv, [Next]_vars PROVE IInv'
  OBVIOUS
<1>1. CASE Generate
  BY <1>1, GenStep
<1>2. CASE Exhausted
  BY <1>2 DEF Exhausted, IInv, TypeOK, PInv
<1>3. CASE FreeLmem
  BY <1>3, FreeStep
<1>4. CASE NextIteration
  BY <1>4, NextIterationStep
<1>5. CASE LoadAndRun
  BY <1>5 DEF LoadAndRun, IInv, TypeOK, PInv, HostBuffers, OT, IT, Pending
<1>6. CASE CopyOut
  BY <1>6 DEF CopyOut, IInv, TypeOK, PInv, HostBuffers, OT, IT, Pending
<1>7. CASE Compare
  BY <1>7, CompareStep
<1>8. CASE ReleaseHost
  BY <1>8 DEF ReleaseHost, IInv, TypeOK, PInv, HostBuffers
<1>9. CASE UNCHANGED vars
  BY <1>9 DEF vars, IInv, TypeOK, PInv, OT, IT, Pending
<1> QED
  BY <1>1, <1>2, <1>3, <1>4, <1>5, <1>6, <1>7, <1>8, <1>9 DEF Next

(***************************************************************************)
(* For any retry_cnt and any geometries, every variable keeps its type:    *)
(* the lmem stack and the free list of free_pooling_param hold only        *)
(* tensors of passes that exist, although both allocations may fail.       *)
(***************************************************************************)
THEOREM TypeCorrectPooling == Spec => []TypeOK
<1>1. IInv => TypeOK
  BY DEF IInv
<1> QED
  BY IInit, INext, <1>1, PTL DEF Spec

(***************************************************************************)
(* For any retry_cnt and any geometries, each pass of the retry loop of    *)
(* random_pooling_param starts on an empty lmem stack: a rejected draw     *)
(* frees whichever of its ofmap and ifmap were allocated.                  *)
(***************************************************************************)
THEOREM PoolingRetryReleases == Spec => []RetryLeavesLmemAsFound
<1>1. IInv => RetryLeavesLmemAsFound
  BY DEF IInv, PInv, RetryLeavesLmemAsFound
<1> QED
  BY IInit, INext, <1>1, PTL DEF Spec

\* Outside a FreeLmem step no free is pending, or the list is left as it is.
LEMMA NoFreePending ==
  ASSUME IInv, Next, ~FreeLmem
  PROVE  toFree = << >> \/ toFree' = toFree
<1>1. pc \notin {"retry_free", "final_free"} => toFree = << >>
  BY DEF IInv, PInv
<1> QED
  BY <1>1 DEF Next, Generate, Exhausted, NextIteration, LoadAndRun, CopyOut,
              Compare, ReleaseHost

\* A non-empty list is not its own tail.
LEMMA TailShorter ==
  ASSUME NEW S, NEW s \in Seq(S), s # << >>
  PROVE  Tail(s) # s
  BY HeadTailProperties

(***************************************************************************)
(* For any retry_cnt and any geometries, each lmem_free_tensor call of     *)
(* free_pooling_param on a live tensor, in the retry loop and at the end   *)
(* of _test_pooling, releases the top of the allocator's stack: p->ifmap   *)
(* before p->ofmap reverses the allocation, also when one of the two       *)
(* allocations failed.                                                     *)
(***************************************************************************)
THEOREM PoolingLifo == Spec => LmemFreedLifo
<1> DEFINE Lifo == toFree # <<>> /\ toFree' = Tail(toFree) /\ Head(toFree) \in Live(lmem)
                     => lmem[Len(lmem)] = Head(toFree)
<1>1. IInv /\ [Next]_vars => [Lifo]_vars
  <2> SUFFICES ASSUME IInv, [Next]_vars PROVE [Lifo]_vars
    OBVIOUS
  <2>0. toFree \in Seq(Tensors)
    BY DEF IInv, TypeOK
  <2>1. CASE FreeLmem
    BY <2>1, FreeStep
  <2>2. CASE Next /\ ~FreeLmem
    BY <2>0, <2>2, NoFreePending, TailShorter
  <2>3. CASE UNCHANGED vars
    BY <2>3
  <2> QED
    BY <2>1, <2>2, <2>3
<1> QED
  BY <1>1, IInit, INext, PTL DEF Spec, LmemFreedLifo

=============================================================================
