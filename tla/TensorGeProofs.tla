---------------------------- MODULE TensorGeProofs ----------------------------
(***************************************************************************)
(* Proofs about TensorGeTest: the host buffers of test_tl_ge are released *)
(* by every return, for any number of calls and of format passes.          *)
(***************************************************************************)
EXTENDS TensorGeTest, LmemStackProofs, TLAPS

(***************************************************************************)
(* The strengthening of HostReleasedBetweenCalls.  ge_data is live only    *)
(* between the copy-out of a pass and its free(ge_data), so that fail_exit,*)
(* which frees only a_data, b_data and ref_data, finds nothing else live.  *)
(* Outside test_tl_ge, in main, no host buffer is live at all.             *)
(***************************************************************************)
HostInv ==
  /\ heap \subseteq HostBuffers
  /\ pc \in {"loop", "compute", "fail_exit"} => "ge_data" \notin heap
  /\ pc \in {"rt_init", "register", "check", "start", "deinit", "exit"} =>
       heap = {}

LEMMA HostInit == Init => HostInv
  BY DEF Init, HostInv

LEMMA HostNext == HostInv /\ [Next]_vars => HostInv'
<1> SUFFICES ASSUME HostInv, [Next]_vars PROVE HostInv'
  OBVIOUS
<1>9. CASE RtInit
  BY <1>9 DEF RtInit, HostInv
<1>10. CASE RegisterKernel
  BY <1>10 DEF RegisterKernel, HostInv
<1>11. CASE MainCheck
  BY <1>11 DEF MainCheck, HostInv
<1>12. CASE UnRegisterKernel
  BY <1>12 DEF UnRegisterKernel, HostInv
<1>13. CASE DeInit
  BY <1>13 DEF DeInit, HostInv
<1>1. CASE Start
  BY <1>1 DEF Start, HostInv, HostBuffers, InputBuffers
<1>2. CASE AllocPass
  BY <1>2 DEF AllocPass, HostInv
<1>3. CASE Compute
  BY <1>3 DEF Compute, HostInv, HostBuffers
<1>4. CASE FreeLmem
  BY <1>4 DEF FreeLmem, HostInv
<1>5. CASE EndPass
  BY <1>5 DEF EndPass, HostInv
<1>6. CASE EndLoop
  BY <1>6 DEF EndLoop, HostInv
<1>7. CASE FailExit
  <2>1. heap \subseteq {"a_data", "b_data", "ref_data"}
    BY <1>7 DEF FailExit, HostInv, HostBuffers, InputBuffers
  <2> QED
    BY <1>7, <2>1 DEF FailExit, HostInv, HostBuffers, InputBuffers
<1>8. CASE UNCHANGED vars
  BY <1>8 DEF vars, devVars, HostInv
<1> QED
  BY <1>1, <1>2, <1>3, <1>4, <1>5, <1>6, <1>7, <1>8, <1>9, <1>10, <1>11,
     <1>12, <1>13 DEF Next

(***************************************************************************)
(* For any number of calls and passes, whenever test_tl_ge is entered no   *)
(* host buffer of an earlier call is live: the free(ge_data) at the end of *)
(* each pass and the three frees of fail_exit release everything, on the  *)
(* normal path and after a failed allocation alike.                        *)
(***************************************************************************)
THEOREM HostReleased == Spec => []HostReleasedBetweenCalls
<1>1. Init => HostInv
  BY HostInit
<1>2. HostInv /\ [Next]_vars => HostInv'
  BY HostNext
<1>3. HostInv => HostReleasedBetweenCalls
  BY DEF HostInv, HostReleasedBetweenCalls
<1> QED
  BY <1>1, <1>2, <1>3, PTL DEF Spec

-----------------------------------------------------------------------------
(***************************************************************************)
(* The lmem stack across the calls.  Tensors leaked by an earlier call     *)
(* (a failed allocation jumps to fail_exit without freeing) lie at the     *)
(* bottom; while a pass computes and frees, its own tensors lie on top in  *)
(* allocation order, and the frees still to make are their reverse: so     *)
(* each free takes the top.                                                *)
(***************************************************************************)
PassTensors == <<T("a", call, pass), T("b", call, pass), T("ge", call, pass)>>

\* The k tensors on top of the stack are the first k of the pass.
PassOnTop(k) ==
  /\ Len(lmem) >= k
  /\ \A j \in 1..k : lmem[Len(lmem) - k + j] = PassTensors[j]

\* All tensors but the k on top of the stack come from earlier calls.
Older(k) == \A i \in 1..Len(lmem) - k : lmem[i][2] < call

LmemInv ==
  /\ NoDup(lmem)
  /\ pc \in {"loop", "compute", "free_pass", "fail_exit"} => call < Calls
  /\ pc \in {"compute", "free_pass"} => pass < Passes
  /\ pc \notin {"compute", "free_pass", "fail_exit"} => Older(0)
  /\ pc = "fail_exit" => \A i \in 1..Len(lmem) : lmem[i][2] <= call
  /\ pc # "free_pass" => toFree = << >>
  /\ pc = "compute" => PassOnTop(3) /\ Older(3)
  /\ pc = "free_pass" =>
       \E k \in 0..3 :
          /\ toFree = SubSeq(PassFreeOrder(call, pass), 4 - k, 3)
          /\ PassOnTop(k)
          /\ Older(k)

IInv == TypeOK /\ LmemInv

LEMMA IInit == Init => IInv
<1> SUFFICES ASSUME Init PROVE IInv
  OBVIOUS
<1>1. TypeOK
  <2>1. call \in 0..Calls /\ pass \in 0..Passes
    BY GeAssumption DEF Init
  <2>2. lmem \in Seq(Tensors) /\ toFree \in Seq(Tensors)
    BY DEF Init
  <2>3. Dev!TypeOK
    BY DEF Init, Dev!Init, Dev!TypeOK
  <2> QED
    BY <2>1, <2>2, <2>3 DEF Init, TypeOK
<1>2. LmemInv
  BY DEF Init, LmemInv, NoDup, Older
<1> QED
  BY <1>1, <1>2 DEF IInv

\* The three pushes of a pass onto a stack of older tensors.
LEMMA PushPass ==
  ASSUME IInv, pc = "loop", pass < Passes,
         NEW tlA \in {T("a", call, pass), NULL},
         NEW tlB \in {T("b", call, pass), NULL},
         NEW tlGe \in {T("ge", call, pass), NULL}
  PROVE  LET l == Push(Push(Push(lmem, tlA), tlB), tlGe)
         IN  /\ l \in Seq(Tensors)
             /\ NoDup(l)
             /\ \A i \in 1..Len(l) : l[i][2] <= call
             /\ NULL \notin {tlA, tlB, tlGe} =>
                  l = lmem \o PassTensors
<1> DEFINE l1 == Push(lmem, tlA)
           l2 == Push(l1, tlB)
           l3 == Push(l2, tlGe)
<1>1. /\ call \in 0..Calls - 1 /\ pass \in 0..Passes - 1
      /\ lmem \in Seq(Tensors) /\ NoDup(lmem)
      /\ \A x \in Live(lmem) : x[2] < call
  BY GeAssumption DEF IInv, TypeOK, LmemInv, Older, Live
<1>2. /\ {T("a", call, pass), T("b", call, pass), T("ge", call, pass)}
           \subseteq Tensors
      /\ T("a", call, pass)[2] = call /\ T("b", call, pass)[2] = call
      /\ T("ge", call, pass)[2] = call
      /\ T("a", call, pass) # T("b", call, pass)
      /\ T("a", call, pass) # T("ge", call, pass)
      /\ T("b", call, pass) # T("ge", call, pass)
  BY <1>1 DEF T, Tensors
<1>3. /\ l1 \in Seq(Tensors) /\ NoDup(l1)
      /\ Live(l1) \subseteq Live(lmem) \cup ({tlA} \ {NULL})
  <2>1. tlA = NULL \/ (tlA \in Tensors /\ tlA \notin Live(lmem))
    BY <1>1, <1>2
  <2> QED
    BY <1>1, <2>1, PushFresh
<1>4. /\ l2 \in Seq(Tensors) /\ NoDup(l2)
      /\ Live(l2) \subseteq Live(lmem) \cup ({tlA, tlB} \ {NULL})
  <2>1. tlB = NULL \/ (tlB \in Tensors /\ tlB \notin Live(l1))
    BY <1>1, <1>2, <1>3, NullAssumption
  <2> QED
    BY <1>3, <2>1, PushFresh
<1>5. /\ l3 \in Seq(Tensors) /\ NoDup(l3)
      /\ Live(l3) \subseteq Live(lmem) \cup ({tlA, tlB, tlGe} \ {NULL})
  <2>1. tlGe = NULL \/ (tlGe \in Tensors /\ tlGe \notin Live(l2))
    BY <1>1, <1>2, <1>4, NullAssumption
  <2> QED
    BY <1>4, <2>1, PushFresh
<1>6. \A i \in 1..Len(l3) : l3[i][2] <= call
  <2>0. \A x \in Live(lmem) : x[2] \in Int
    BY <1>1 DEF Live, Tensors
  <2>1. \A x \in Live(l3) : x[2] <= call
    BY <1>1, <1>2, <1>5, <2>0
  <2> QED
    BY <2>1, <1>5 DEF Live
<1>7. NULL \notin {tlA, tlB, tlGe} => l3 = lmem \o PassTensors
  BY <1>1, <1>2 DEF Push, PassTensors
<1> QED
  BY <1>5, <1>6, <1>7

\* The steps of main outside test_tl_ge touch neither the stack nor the pass.
MainStep == UNCHANGED <<call, pass, lmem, toFree, heap, ret>>

LEMMA IMain ==
  ASSUME IInv, MainStep, Dev!TypeOK',
         pc' \in {"rt_init", "register", "check", "start", "deinit", "exit"},
         pc \in {"rt_init", "register", "check", "start", "deinit", "exit"}
           \/ (pc = "start" /\ pc' = "deinit"),
         cvk' \in BOOLEAN
  PROVE  IInv'
  BY DEF IInv, TypeOK, LmemInv, MainStep, Older

\* A free in a pass pops the top, which is the tensor freed.
LEMMA FreeStep ==
  ASSUME IInv, FreeLmem
  PROVE  /\ lmem # << >> /\ Top(lmem) = Head(toFree)
         /\ IInv'
<1>1. /\ call \in 0..Calls - 1 /\ pass \in 0..Passes - 1
      /\ lmem \in Seq(Tensors) /\ NoDup(lmem) /\ toFree # << >>
      /\ pc = "free_pass" /\ TypeOK
  BY GeAssumption DEF IInv, TypeOK, LmemInv, FreeLmem
<1>2. PICK k \in 0..3 :
        /\ toFree = SubSeq(PassFreeOrder(call, pass), 4 - k, 3)
        /\ PassOnTop(k)
        /\ Older(k)
  BY <1>1 DEF IInv, LmemInv
<1>3. k >= 1
  BY <1>1, <1>2
<1>4. Head(toFree) = PassTensors[k] /\ Top(lmem) = PassTensors[k]
  BY <1>2, <1>3 DEF PassFreeOrder, PassTensors, PassOnTop, Top
<1>5. lmem' = SubSeq(lmem, 1, Len(lmem) - 1)
  <2>1. lmem \in Seq(Tensors) /\ Len(lmem) >= 1 /\ NoDup(lmem)
    BY <1>1, <1>2, <1>3 DEF PassOnTop
  <2>2. Free(lmem, Top(lmem)) = SubSeq(lmem, 1, Len(lmem) - 1)
    BY <2>1, FreeTop
  <2>3. lmem' = Free(lmem, Top(lmem))
    BY <1>4 DEF FreeLmem
  <2> QED
    BY <2>2, <2>3
<1>6. toFree' = SubSeq(PassFreeOrder(call, pass), 4 - (k - 1), 3)
  BY <1>2, <1>3 DEF FreeLmem, PassFreeOrder
<1>7. /\ lmem' \in Seq(Tensors) /\ NoDup(lmem')
  BY <1>1, <1>2, <1>3, <1>5, PrefixNoDup DEF PassOnTop
<1>14. Len(lmem) >= k
  BY <1>2 DEF PassOnTop
<1>12. Len(lmem) >= k /\ Len(lmem') = Len(lmem) - 1
  BY <1>1, <1>3, <1>5, <1>14, PopProperties
<1>13. \A i \in 1..Len(lmem') : lmem'[i] = lmem[i]
  BY <1>1, <1>3, <1>12, <1>14, <1>5, PopProperties
<1>8. /\ PassOnTop(k - 1)'
      /\ Older(k - 1)'
  <2>1. UNCHANGED <<call, pass>>
    BY DEF FreeLmem
  <2>4. \A j \in 1..k : lmem[Len(lmem) - k + j] = PassTensors[j]
    BY <1>2 DEF PassOnTop
  <2>5. PassTensors' = PassTensors
    BY <2>1 DEF PassTensors, T
  <2>6. \A j \in 1..k - 1 : lmem'[Len(lmem') - (k - 1) + j] = PassTensors[j]
    <3> TAKE j \in 1..k - 1
    <3>1. Len(lmem') - (k - 1) + j = Len(lmem) - k + j
      BY <1>3, <1>12
    <3>2. Len(lmem) - k + j \in 1..Len(lmem')
      BY <1>3, <1>12, <1>14
    <3> QED
      BY <3>1, <3>2, <1>13, <2>4
  <2>2. PassOnTop(k - 1)'
    BY <1>3, <1>12, <2>5, <2>6 DEF PassOnTop
  <2>7. \A i \in 1..Len(lmem) - k : lmem[i][2] < call
    BY <1>2 DEF Older
  <2>3. Older(k - 1)'
    <3>1. \A i \in 1..Len(lmem') - (k - 1) : lmem'[i][2] < call
      BY <1>3, <1>12, <1>13, <2>7
    <3> QED
      BY <2>1, <3>1 DEF Older
  <2> QED
    BY <2>2, <2>3
<1>9. toFree' \in Seq(Tensors)
  BY <1>1, <1>6 DEF PassFreeOrder, T, Tensors
<1>10. TypeOK'
  BY <1>1, <1>7, <1>9 DEF FreeLmem, TypeOK, Dev!TypeOK, devVars
<1>11. LmemInv'
  <2>2. pc' = "free_pass" /\ UNCHANGED <<call, pass>>
    BY DEF FreeLmem
  <2>3. \E kk \in 0..3 :
          /\ toFree' = SubSeq(PassFreeOrder(call, pass), 4 - kk, 3)
          /\ PassOnTop(kk)'
          /\ Older(kk)'
    BY <1>3, <1>6, <1>8
  <2>4. call < Calls /\ pass < Passes
    BY <1>1, GeAssumption
  <2>5. (pc \in {"loop", "compute", "free_pass", "fail_exit"} => call < Calls)'
    BY <2>2, <2>4
  <2>6. (pc \in {"compute", "free_pass"} => pass < Passes)'
    BY <2>2, <2>4
  <2>7. (pc = "free_pass" =>
          \E kk \in 0..3 :
             /\ toFree = SubSeq(PassFreeOrder(call, pass), 4 - kk, 3)
             /\ PassOnTop(kk)
             /\ Older(kk))'
    BY <2>2, <2>3
  <2> QED
    BY <1>7, <2>2, <2>5, <2>6, <2>7 DEF LmemInv
<1> QED
  BY <1>1, <1>4, <1>10, <1>11, <1>12, <1>3 DEF IInv

LEMMA INext == IInv /\ [Next]_vars => IInv'
<1> SUFFICES ASSUME IInv, [Next]_vars PROVE IInv'
  OBVIOUS
<1>0. TypeOK /\ LmemInv
  BY DEF IInv
<1>1. CASE RtInit
  <2>1. Dev!TypeOK'
    BY <1>0, <1>1, ChipAssumption
       DEF RtInit, TypeOK, Dev!TypeOK, Dev!ConstructBase, Dev!ConstructDerived,
           Dev!RtDeviceOpen, Dev!Call, Dev!DynType, Dev!Overrides
  <2>2. MainStep /\ cvk' \in BOOLEAN
          /\ pc' \in {"rt_init", "register", "check", "start", "deinit", "exit"}
          /\ (pc \in {"rt_init", "register", "check", "start", "deinit", "exit"}
              \/ (pc = "start" /\ pc' = "deinit"))
    BY <1>0, <1>1 DEF RtInit, MainStep, TypeOK
  <2> QED
    BY <2>1, <2>2, IMain
<1>2. CASE RegisterKernel
  <2>1. Dev!TypeOK'
    BY <1>0, <1>2 DEF RegisterKernel, devVars, TypeOK, Dev!TypeOK
  <2>2. MainStep /\ cvk' \in BOOLEAN
          /\ pc' \in {"rt_init", "register", "check", "start", "deinit", "exit"}
          /\ (pc \in {"rt_init", "register", "check", "start", "deinit", "exit"}
              \/ (pc = "start" /\ pc' = "deinit"))
    BY <1>0, <1>2 DEF RegisterKernel, MainStep, TypeOK
  <2> QED
    BY <2>1, <2>2, IMain
<1>3. CASE MainCheck
  <2>1. Dev!TypeOK'
    BY <1>0, <1>3 DEF MainCheck, devVars, TypeOK, Dev!TypeOK
  <2>2. MainStep /\ cvk' \in BOOLEAN
          /\ pc' \in {"rt_init", "register", "check", "start", "deinit", "exit"}
          /\ (pc \in {"rt_init", "register", "check", "start", "deinit", "exit"}
              \/ (pc = "start" /\ pc' = "deinit"))
    BY <1>0, <1>3 DEF MainCheck, MainStep, TypeOK
  <2> QED
    BY <2>1, <2>2, IMain
<1>4. CASE UnRegisterKernel
  <2>1. Dev!TypeOK'
    BY <1>0, <1>4 DEF UnRegisterKernel, devVars, TypeOK, Dev!TypeOK
  <2>2. MainStep /\ cvk' \in BOOLEAN
          /\ pc' \in {"rt_init", "register", "check", "start", "deinit", "exit"}
          /\ (pc \in {"rt_init", "register", "check", "start", "deinit", "exit"}
              \/ (pc = "start" /\ pc' = "deinit"))
    BY <1>0, <1>4 DEF UnRegisterKernel, MainStep, TypeOK
  <2> QED
    BY <2>1, <2>2, IMain
<1>5. CASE DeInit
  <2>1. Dev!TypeOK'
    BY <1>0, <1>5 DEF DeInit, TypeOK, Dev!TypeOK, Dev!DestroyDerived,
                      Dev!DestroyBase
  <2>2. MainStep /\ cvk' \in BOOLEAN
          /\ pc' \in {"rt_init", "register", "check", "start", "deinit", "exit"}
          /\ (pc \in {"rt_init", "register", "check", "start", "deinit", "exit"}
              \/ (pc = "start" /\ pc' = "deinit"))
    BY <1>0, <1>5 DEF DeInit, MainStep, TypeOK
  <2> QED
    BY <2>1, <2>2, IMain
<1>6. CASE Start
  <2>1. /\ call \in 0..Calls - 1 /\ lmem \in Seq(Tensors)
        /\ Older(0) /\ toFree = << >>
    BY <1>0, <1>6, GeAssumption DEF Start, TypeOK, LmemInv
  <2>2. TypeOK'
    BY <1>0, <1>6, GeAssumption DEF Start, TypeOK, HostBuffers, InputBuffers, devVars,
                                    Dev!TypeOK
  <2>3. LmemInv'
    <3>1. \A i \in 1..Len(lmem) : lmem[i][2] <= call
      BY <2>1 DEF Older, Tensors
    <3> QED
      BY <1>0, <1>6, <2>1, <3>1 DEF Start, LmemInv, Older, NoDup
  <2> QED
    BY <2>2, <2>3 DEF IInv
<1>7. CASE EndLoop
  <2>1. \A i \in 1..Len(lmem) : lmem[i][2] <= call
    BY <1>0, <1>7 DEF EndLoop, LmemInv, Older, TypeOK, Tensors
  <2> QED
    BY <1>0, <1>7, <2>1 DEF EndLoop, IInv, LmemInv, TypeOK, Dev!TypeOK,
                            devVars, Older, NoDup
<1>8. CASE FailExit
  <2>1. /\ call \in 0..Calls - 1 /\ lmem \in Seq(Tensors)
        /\ \A i \in 1..Len(lmem) : lmem[i][2] <= call
    BY <1>0, <1>8, GeAssumption DEF FailExit, TypeOK, LmemInv
  <2>2. \A i \in 1..Len(lmem) : lmem[i][2] < call + 1
    BY <2>1 DEF Tensors
  <2>3. TypeOK'
    BY <1>0, <1>8, <2>1, GeAssumption DEF FailExit, TypeOK, HostBuffers,
                                          devVars, Dev!TypeOK
  <2>4. LmemInv'
    BY <1>0, <1>8, <2>2 DEF FailExit, LmemInv, Older, NoDup
  <2> QED
    BY <2>3, <2>4 DEF IInv
<1>9. CASE UNCHANGED vars
  BY <1>0, <1>9 DEF vars, devVars, IInv, TypeOK, Dev!TypeOK, LmemInv, Older,
                     NoDup, PassOnTop, PassTensors, T
<1>10. CASE EndPass
  <2>1. /\ call \in 0..Calls - 1 /\ pass \in 0..Passes - 1
    BY <1>0, <1>10, GeAssumption DEF EndPass, TypeOK, LmemInv
  <2>2. PICK k \in 0..3 :
          /\ toFree = SubSeq(PassFreeOrder(call, pass), 4 - k, 3)
          /\ PassOnTop(k)
          /\ Older(k)
    BY <1>0, <1>10 DEF EndPass, LmemInv
  <2>3. k = 0
    <3>1. Len(SubSeq(PassFreeOrder(call, pass), 4 - k, 3)) = k
      <4>1. PassFreeOrder(call, pass) \in Seq(Tensors \cup {NULL})
            /\ Len(PassFreeOrder(call, pass)) = 3
        BY <2>1 DEF PassFreeOrder, T, Tensors
      <4> QED
        BY <4>1, SubSeqProperties
    <3> QED
      BY <1>10, <2>2, <3>1 DEF EndPass
  <2>4. TypeOK'
    BY <1>0, <1>10, <2>1, GeAssumption
       DEF EndPass, TypeOK, HostBuffers, devVars, Dev!TypeOK
  <2>5. LmemInv'
    BY <1>0, <1>10, <2>1, <2>2, <2>3 DEF EndPass, LmemInv, Older, NoDup
  <2> QED
    BY <2>4, <2>5 DEF IInv
<1>11. CASE FreeLmem
  BY <1>11, FreeStep
<1>12. CASE AllocPass
  <2>1. PICK tlA \in {T("a", call, pass), NULL},
             tlB \in {T("b", call, pass), NULL},
             tlGe \in {T("ge", call, pass), NULL} :
          /\ lmem' = Push(Push(Push(lmem, tlA), tlB), tlGe)
          /\ IF NULL \notin {tlA, tlB, tlGe}
               THEN /\ pc' = "compute"
                    /\ UNCHANGED ret
               ELSE /\ ret' = -1
                    /\ pc' = "fail_exit"
    BY <1>12 DEF AllocPass
  <2>2. /\ pc = "loop" /\ pass < Passes
        /\ UNCHANGED <<call, pass, toFree, heap, cvk, devVars>>
        /\ call \in 0..Calls - 1 /\ pass \in 0..Passes - 1
    BY <1>0, <1>12, GeAssumption DEF AllocPass, TypeOK, LmemInv
  <2>3. /\ lmem' \in Seq(Tensors)
        /\ NoDup(lmem')
        /\ \A i \in 1..Len(lmem') : lmem'[i][2] <= call
        /\ NULL \notin {tlA, tlB, tlGe} => lmem' = lmem \o PassTensors
    BY <2>1, <2>2, PushPass
  <2>4. TypeOK'
    BY <1>0, <2>1, <2>2, <2>3 DEF TypeOK, devVars, Dev!TypeOK
  <2>5. CASE NULL \in {tlA, tlB, tlGe}
    BY <1>0, <2>1, <2>2, <2>3, <2>4, <2>5 DEF IInv, LmemInv
  <2>6. CASE NULL \notin {tlA, tlB, tlGe}
    <3>1. pc' = "compute" /\ lmem' = lmem \o PassTensors
      BY <2>1, <2>3, <2>6
    <3>2. /\ lmem \in Seq(Tensors) /\ Older(0)
          /\ PassTensors \in Seq(Tensors) /\ Len(PassTensors) = 3
      BY <1>0, <2>2 DEF TypeOK, LmemInv, PassTensors, T, Tensors
    <3>3. /\ Len(lmem') = Len(lmem) + 3
          /\ \A i \in 1..Len(lmem) : lmem'[i] = lmem[i]
          /\ \A j \in 1..3 : lmem'[Len(lmem) + j] = PassTensors[j]
      <4>1. /\ Len(lmem \o PassTensors) = Len(lmem) + 3
            /\ \A i \in 1..Len(lmem) + 3 : (lmem \o PassTensors)[i] =
                  IF i <= Len(lmem) THEN lmem[i] ELSE PassTensors[i - Len(lmem)]
        <5>1. lmem \in Seq(Tensors) /\ PassTensors \in Seq(Tensors)
          BY <3>2
        <5>2. /\ Len(lmem \o PassTensors) = Len(lmem) + Len(PassTensors)
              /\ \A i \in 1..Len(lmem) + Len(PassTensors) :
                   (lmem \o PassTensors)[i] =
                     IF i <= Len(lmem) THEN lmem[i]
                                       ELSE PassTensors[i - Len(lmem)]
          BY <5>1, ConcatProperties
        <5> QED
          BY <3>2, <5>2
      <4> QED
        BY <3>1, <4>1
    <3>4. PassOnTop(3)'
      <4>1. PassTensors' = PassTensors
        BY <2>2 DEF PassTensors, T
      <4> QED
        BY <3>2, <3>3, <4>1 DEF PassOnTop
    <3>5. Older(3)'
      <4>1. \A i \in 1..Len(lmem) : lmem[i][2] < call
        BY <3>2 DEF Older
      <4> QED
        BY <2>2, <3>2, <3>3, <4>1 DEF Older
    <3> QED
      BY <2>2, <2>3, <2>4, <3>1, <3>4, <3>5 DEF IInv, LmemInv
  <2> QED
    BY <2>5, <2>6
<1>13. CASE Compute
  <2>1. /\ pc = "compute" /\ pc' = "free_pass"
        /\ toFree' = PassFreeOrder(call, pass)
        /\ UNCHANGED <<call, pass, lmem>>
        /\ call \in 0..Calls - 1 /\ pass \in 0..Passes - 1
    BY <1>0, <1>13, GeAssumption DEF Compute, TypeOK, LmemInv
  <2>2. PassFreeOrder(call, pass) = SubSeq(PassFreeOrder(call, pass), 4 - 3, 3)
    BY DEF PassFreeOrder
  <2>3. Dev!TypeOK'
    BY <1>0, <1>13, ChipAssumption
       DEF Compute, TypeOK, Dev!TypeOK, Dev!Submit, Dev!DynType, Dev!Overrides
  <2>4. TypeOK'
    BY <1>0, <1>13, <2>1, <2>3, GeAssumption
       DEF Compute, TypeOK, HostBuffers, PassFreeOrder, T, Tensors
  <2>5. PassOnTop(3)' /\ Older(3)'
    BY <1>0, <2>1 DEF LmemInv, PassOnTop, PassTensors, T, Older
  <2>6. LmemInv'
    BY <1>0, <2>1, <2>2, <2>5 DEF LmemInv
  <2> QED
    BY <2>4, <2>6 DEF IInv
<1> QED
  BY <1>1, <1>2, <1>3, <1>4, <1>5, <1>6, <1>7, <1>8, <1>9, <1>10, <1>11,
     <1>12, <1>13 DEF Next


(***************************************************************************)
(* For any number of calls and passes, every variable of the model keeps   *)
(* its type: in particular the lmem stack holds only tensors of the calls  *)
(* and passes that exist, and pass never runs past the format loop's bound.*)
(***************************************************************************)
THEOREM TypeCorrectGe == Spec => []TypeOK
<1>1. IInv => TypeOK
  BY DEF IInv
<1> QED
  BY IInit, INext, <1>1, PTL DEF Spec

\* Outside a FreeLmem step no free is pending: only free_pass has any, and
\* the only other step taken there, EndPass, waits for the list to empty.
LEMMA NoFreePending ==
  ASSUME IInv, Next, ~FreeLmem
  PROVE  toFree = << >>
<1>1. pc # "free_pass" => toFree = << >>
  BY DEF IInv, LmemInv
<1> QED
  BY <1>1 DEF Next, RtInit, RegisterKernel, MainCheck, Start, AllocPass,
              Compute, EndPass, EndLoop, FailExit, UnRegisterKernel, DeInit

(***************************************************************************)
(* For any number of calls and passes, each lmem_free_tensor of test_tl_ge *)
(* releases the tensor on top of the allocator's stack, although a failed  *)
(* allocation leaves the tensors of its pass live below the next call's:   *)
(* the frees of tl_ge, tl_b and tl_a reverse their allocation.             *)
(***************************************************************************)
THEOREM LmemLifo == Spec => LmemFreedLifo
<1> DEFINE Lifo == toFree # <<>> /\ toFree' = Tail(toFree) =>
                     lmem # <<>> /\ lmem[Len(lmem)] = Head(toFree)
<1>1. IInv /\ [Next]_vars => [Lifo]_vars
  <2> SUFFICES ASSUME IInv, [Next]_vars PROVE [Lifo]_vars
    OBVIOUS
  <2>1. CASE FreeLmem
    BY <2>1, FreeStep DEF Top
  <2>2. CASE Next /\ ~FreeLmem
    BY <2>2, NoFreePending
  <2>3. CASE UNCHANGED vars
    BY <2>3
  <2> QED
    BY <2>1, <2>2, <2>3
<1> QED
  BY <1>1, IInit, INext, PTL DEF Spec, LmemFreedLifo

=============================================================================
