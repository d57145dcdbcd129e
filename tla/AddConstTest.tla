------------------------------ MODULE AddConstTest ------------------------------
(***************************************************************************)
(* test/180x/test_180x_bf16_tensor_add_const.c: main calls                 *)
(* test_tl_add_const twice (eu_align 0 and 1).  test_tl_add_const mallocs  *)
(* two host buffers (a failure: goto fail_exit), allocates tl_a_low and    *)
(* tl_res_low in lmem (a NULL: goto fail_exit_2), runs the bf16 add of a  *)
(* constant for relu_enable 0 and 1, each pass copying the result into a   *)
(* malloc'ed buffer that is freed after the comparison, and ends at        *)
(* fail_exit_2, which frees tl_res_low and tl_a_low unconditionally, and   *)
(* fail_exit, which frees the host buffers.                                *)
(*                                                                         *)
(* The data and the comparison are abstracted to the outcome; the lmem     *)
(* allocator is the stack of LmemStack, of the tensors named by call and   *)
(* field.                                                                  *)
(***************************************************************************)
EXTENDS Integers, Sequences, LmemStack

CONSTANTS
  Calls,    \* the calls of test_tl_add_const from main (2)
  Passes    \* the passes of the relu_enable loop (2)

ASSUME AddConstAssumption == {Calls, Passes} \subseteq Nat \ {0}

Tensors == {"a_low", "res_low"} \X (0..Calls - 1)

\* A failed allocation returns NULL, which is no tensor.
ASSUME NullAssumption == NULL \notin Tensors

\* a_low_data and ref_low_data, malloc'ed on entry to test_tl_add_const.
InputBuffers == {"a_low_data", "ref_low_data"}

HostBuffers == InputBuffers \cup {"res_low_data"}

VARIABLES
  pc,       \* the point of test_tl_add_const reached
  call,     \* the call in progress
  pass,     \* relu_enable
  tlA,      \* tl_a_low: a tensor or NULL
  tlRes,    \* tl_res_low: a tensor or NULL
  lmem,     \* the live lmem tensors, bottom of the stack first
  toFree,   \* lmem_free_tensor arguments still to pass, in program order
  heap,     \* the live host buffers
  ret,      \* ret of test_tl_add_const
  mainRet   \* ret of main, ret |= test_tl_add_const(...)

vars == <<pc, call, pass, tlA, tlRes, lmem, toFree, heap, ret, mainRet>>

Init ==
  /\ pc = "start"
  /\ call = 0
  /\ pass = 0
  /\ tlA = NULL
  /\ tlRes = NULL
  /\ lmem = <<>>
  /\ toFree = <<>>
  /\ heap = {}
  /\ ret = 0
  /\ mainRet = 0

\* Entry: ret = 0 and the two host mallocs, each of which may return NULL;
\* if one did, ret = -1 and goto fail_exit with the other still live.
Start ==
  /\ pc = "start"
  /\ call < Calls
  /\ \E got \in SUBSET InputBuffers :
       /\ heap' = heap \cup got
       /\ IF got = InputBuffers
            THEN ret' = 0 /\ pc' = "alloc"
            ELSE ret' = -1 /\ pc' = "fail_exit"
  /\ UNCHANGED <<mainRet, call, pass, tlA, tlRes, lmem, toFree>>

\* Mutant: fail_exit_2 frees tl_a_low before tl_res_low.
FailExit2Order_Swapped(a, r) == <<a, r>>

\* fail_exit_2: lmem_free_tensor(tl_res_low); lmem_free_tensor(tl_a_low);
FailExit2Order(a, r) == <<r, a>>

\* The two lmem_alloc_tensor calls; if either is NULL, ret = -1 and goto
\* fail_exit_2 with both pointers as they are.
AllocLmem ==
  /\ pc = "alloc"
  /\ \E okA \in BOOLEAN, okR \in BOOLEAN :
       LET a == IF okA THEN <<"a_low", call>> ELSE NULL
           r == IF okR THEN <<"res_low", call>> ELSE NULL
       IN  /\ tlA' = a
           /\ tlRes' = r
           /\ lmem' = Push(Push(lmem, a), r)
           /\ IF okA /\ okR
                THEN /\ pc' = "loop"
                     /\ UNCHANGED <<ret, toFree>>
                ELSE /\ ret' = -1
                     /\ toFree' = FailExit2Order(a, r)
                     /\ pc' = "fail_exit_2"
  /\ pass' = 0
  /\ UNCHANGED <<mainRet, call, heap>>

\* Mutant: for (relu_enable = 0; relu_enable <= 2; relu_enable++).
Pass_OneMore ==
  /\ pc = "loop"
  /\ pass <= Passes
  /\ heap' = heap \cup {"res_low_data"}
  /\ pc' = "compare"
  /\ UNCHANGED <<mainRet, call, pass, tlA, tlRes, lmem, toFree, ret>>

\* The first part of a pass of the relu_enable loop: reference, copy in,
\* tiu_add, and the copy of the result into a malloc'ed res_low_data.
Pass ==
  /\ pc = "loop"
  /\ pass < Passes
  /\ heap' = heap \cup {"res_low_data"}
  /\ pc' = "compare"
  /\ UNCHANGED <<mainRet, call, pass, tlA, tlRes, lmem, toFree, ret>>

\* Mutant: free(res_low_data) lost.
Compare_NoFree ==
  /\ pc = "compare"
  /\ \E mismatch \in BOOLEAN : ret' = IF mismatch THEN -1 ELSE ret
  /\ pass' = pass + 1
  /\ pc' = "loop"
  /\ UNCHANGED <<mainRet, heap, call, tlA, tlRes, lmem, toFree>>

\* The comparison (ret = -1 on a mismatch) and free(res_low_data).
Compare ==
  /\ pc = "compare"
  /\ \E mismatch \in BOOLEAN : ret' = IF mismatch THEN -1 ELSE ret
  /\ heap' = heap \ {"res_low_data"}
  /\ pass' = pass + 1
  /\ pc' = "loop"
  /\ UNCHANGED <<mainRet, call, tlA, tlRes, lmem, toFree>>

\* The loop is over: fall through to fail_exit_2.
EndLoop ==
  /\ pc = "loop"
  /\ pass = Passes
  /\ toFree' = FailExit2Order(tlA, tlRes)
  /\ pc' = "fail_exit_2"
  /\ UNCHANGED <<mainRet, call, pass, tlA, tlRes, lmem, heap, ret>>

\* cvk_ctx->ops->lmem_free_tensor on the next argument.
FreeLmem ==
  /\ pc = "fail_exit_2"
  /\ toFree # <<>>
  /\ lmem' = Free(lmem, Head(toFree))
  /\ toFree' = Tail(toFree)
  /\ UNCHANGED <<mainRet, pc, call, pass, tlA, tlRes, heap, ret>>

\* The frees of fail_exit_2 are done: fall through to fail_exit.
EndFailExit2 ==
  /\ pc = "fail_exit_2"
  /\ toFree = <<>>
  /\ pc' = "fail_exit"
  /\ UNCHANGED <<mainRet, call, pass, tlA, tlRes, lmem, toFree, heap, ret>>

\* fail_exit: free the host buffers and return ret, which main ORs into
\* its own.
FailExit ==
  /\ pc = "fail_exit"
  /\ heap' = heap \ {"a_low_data", "ref_low_data"}
  /\ mainRet' = IF ret = 0 THEN mainRet ELSE -1
  /\ call' = call + 1
  /\ pc' = "start"
  /\ UNCHANGED <<pass, tlA, tlRes, lmem, toFree, ret>>

Next ==
  \/ Start
  \/ AllocLmem
  \/ Pass
  \/ Compare
  \/ EndLoop
  \/ FreeLmem
  \/ EndFailExit2
  \/ FailExit

Spec == Init /\ [][Next]_vars

-----------------------------------------------------------------------------
(***************************************************************************)
(* Type invariant.                                                         *)
(***************************************************************************)
TypeOK ==
  /\ pc \in {"start", "alloc", "loop", "compare", "fail_exit_2", "fail_exit"}
  /\ call \in 0..Calls
  /\ pass \in 0..Passes
  /\ tlA \in Tensors \cup {NULL}
  /\ tlRes \in Tensors \cup {NULL}
  /\ lmem \in Seq(Tensors)
  /\ toFree \in Seq(Tensors \cup {NULL})
  /\ heap \subseteq HostBuffers
  /\ ret \in {0, -1}
  /\ mainRet \in {0, -1}

(***************************************************************************)
(* Every lmem_free_tensor call on a non-NULL tensor releases the top of    *)
(* the allocator's stack.                                                  *)
(***************************************************************************)
LmemFreedLifo ==
  [][toFree # <<>> /\ toFree' = Tail(toFree) /\ Head(toFree) # NULL =>
       lmem # <<>> /\ lmem[Len(lmem)] = Head(toFree)]_vars

(***************************************************************************)
(* Between two calls of test_tl_add_const no lmem tensor and no host       *)
(* buffer is live.                                                         *)
(***************************************************************************)
ReleasedBetweenCalls == pc = "start" => lmem = <<>> /\ heap = {}

=============================================================================
