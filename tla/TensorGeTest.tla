------------------------------ MODULE TensorGeTest ------------------------------
(***************************************************************************)
(* test/181x/test_181x_tensor_ge.c: main calls test_tl_ge twice (eu_align  *)
(* 0 and 1) on one kernel context.  test_tl_ge mallocs three host buffers, *)
(* then for the I8 and the U8 format allocates tl_a, tl_b and tl_ge in     *)
(* lmem, runs tiu_ge, copies the result into a malloc'ed ge_data, compares *)
(* it with tl_ge_ref and frees tl_ge, tl_b, tl_a and ge_data.  Any failed  *)
(* allocation jumps to fail_exit, which frees the host buffers only.       *)
(*                                                                         *)
(* The data and the comparison are abstracted to the outcome; the lmem     *)
(* allocator (LmemStack) is a stack of the tensors named by call, pass and *)
(* field.                                                                  *)
(*                                                                         *)
(* main is modelled with the runtime it drives: CVI_RT_Init builds the     *)
(* cmodel command-buffer object of the chip (CmdbufDevice) and opens the   *)
(* device, CVI_RT_RegisterKernel may return NULL, the copies of test_tl_ge *)
(* submit command buffers to the device, and CVI_RT_DeInit deletes it.    *)
(***************************************************************************)
EXTENDS Integers, Sequences, LmemStack

CONSTANTS
  Calls,    \* the calls of test_tl_ge from main (2)
  Passes,   \* the passes of the format loop (2: I8, U8)
  Chip      \* the cmodel command-buffer class of the build

ASSUME GeAssumption == {Calls, Passes} \subseteq Nat \ {0}

Tensors == {"a", "b", "ge"} \X (0..Calls - 1) \X (0..Passes - 1)

\* A failed allocation returns NULL, which is no tensor.
ASSUME NullAssumption == NULL \notin Tensors

\* a_data, b_data and ref_data, malloc'ed on entry to test_tl_ge.
InputBuffers == {"a_data", "b_data", "ref_data"}

HostBuffers == InputBuffers \cup {"ge_data"}

VARIABLES
  pc,       \* the point of test_tl_ge reached
  call,     \* the call of test_tl_ge in progress
  pass,     \* i of the format loop
  lmem,     \* the live lmem tensors, bottom of the stack first
  toFree,   \* lmem_free_tensor calls still to make
  heap,     \* the live host buffers
  ret,      \* ret of test_tl_ge
  cvk,      \* cvk_ctx is not NULL
  devPhase, \* the lifetime phase of the command-buffer object
  rtDev,    \* the device it opened, or NULL
  ran       \* the implementations of its virtual methods that ran

devVars == <<devPhase, rtDev, ran>>

vars == <<pc, call, pass, lmem, toFree, heap, ret, cvk, devVars>>

\* The command-buffer object behind rt_handle.
Dev == INSTANCE CmdbufDevice WITH phase <- devPhase, dev <- rtDev, ran <- ran

\* The build selects one of the two chip variants.
ASSUME ChipAssumption == Chip \in Dev!Variants

\* The tensor f allocated by call c in pass i.
T(f, c, i) == <<f, c, i>>

Init ==
  /\ pc = "rt_init"
  /\ cvk = FALSE
  /\ Dev!Init
  /\ call = 0
  /\ pass = 0
  /\ lmem = <<>>
  /\ toFree = <<>>
  /\ heap = {}
  /\ ret = 0

\* CVI_RT_Init(&rt_handle): the command-buffer object of the chip is
\* constructed, base part first, and opens device 0; rt_handle is set
\* when the open succeeded.
RtInit ==
  /\ pc = "rt_init"
  /\ \/ Dev!ConstructBase /\ UNCHANGED pc
     \/ Dev!ConstructDerived /\ UNCHANGED pc
     \/ Dev!RtDeviceOpen(0) /\ pc' = "register"
  /\ UNCHANGED <<call, pass, lmem, toFree, heap, ret, cvk>>

\* cvk_ctx = CVI_RT_RegisterKernel(rt_handle, CMDBUF_SIZE), NULL on failure.
RegisterKernel ==
  /\ pc = "register"
  /\ cvk' \in BOOLEAN
  /\ pc' = "check"
  /\ UNCHANGED <<call, pass, lmem, toFree, heap, ret, devVars>>

\* if (!rt_handle || !cvk_ctx) return -1;
MainCheck ==
  /\ pc = "check"
  /\ pc' = IF rtDev = NULL \/ ~cvk THEN "exit" ELSE "start"
  /\ UNCHANGED <<call, pass, lmem, toFree, heap, ret, cvk, devVars>>

\* The two calls are over: CVI_RT_UnRegisterKernel(cvk_ctx).
UnRegisterKernel ==
  /\ pc = "start"
  /\ call = Calls
  /\ cvk' = FALSE
  /\ pc' = "deinit"
  /\ UNCHANGED <<call, pass, lmem, toFree, heap, ret, devVars>>

\* CVI_RT_DeInit(rt_handle) deletes the object through its base pointer,
\* then main returns.
DeInit ==
  /\ pc = "deinit"
  /\ \/ Dev!DestroyDerived /\ UNCHANGED pc
     \/ Dev!DestroyBase /\ pc' = "exit"
  /\ UNCHANGED <<call, pass, lmem, toFree, heap, ret, cvk>>

\* test_tl_ge is entered: ret = 0 and the three host mallocs, each of which
\* may return NULL; if one did, ret = -1 and goto fail_exit with the others
\* still live.
Start ==
  /\ pc = "start"
  /\ call < Calls
  /\ \E got \in SUBSET InputBuffers :
       /\ heap' = heap \cup got
       /\ IF got = InputBuffers
            THEN ret' = 0 /\ pc' = "loop"
            ELSE ret' = -1 /\ pc' = "fail_exit"
  /\ pass' = 0
  /\ UNCHANGED <<call, lmem, toFree, cvk, devVars>>

\* Mutant: for (int i = 0; i <= 2; i++).
AllocPass_OneMore ==
  /\ pc = "loop"
  /\ pass <= Passes
  /\ \E tlA \in {T("a", call, pass), NULL}, tlB \in {T("b", call, pass), NULL},
       tlGe \in {T("ge", call, pass), NULL} :
       /\ lmem' = Push(Push(Push(lmem, tlA), tlB), tlGe)
       /\ IF NULL \notin {tlA, tlB, tlGe}
            THEN /\ pc' = "compute"
                 /\ UNCHANGED ret
            ELSE /\ ret' = -1
                 /\ pc' = "fail_exit"
  /\ UNCHANGED <<call, pass, toFree, heap, cvk, devVars>>

\* One pass of the format loop up to the checks of the three
\* lmem_alloc_tensor results: if one is NULL, ret = -1, goto fail_exit.
AllocPass ==
  /\ pc = "loop"
  /\ pass < Passes
  /\ \E tlA \in {T("a", call, pass), NULL}, tlB \in {T("b", call, pass), NULL},
       tlGe \in {T("ge", call, pass), NULL} :
       /\ lmem' = Push(Push(Push(lmem, tlA), tlB), tlGe)
       /\ IF NULL \notin {tlA, tlB, tlGe}
            THEN /\ pc' = "compute"
                 /\ UNCHANGED ret
            ELSE /\ ret' = -1
                 /\ pc' = "fail_exit"
  /\ UNCHANGED <<call, pass, toFree, heap, cvk, devVars>>

\* Mutant: tl_a freed before tl_b.
PassFreeOrder_Swapped(c, i) == <<T("ge", c, i), T("a", c, i), T("b", c, i)>>

\* The frees at the end of a pass: tl_ge, tl_b, tl_a.
PassFreeOrder(c, i) == <<T("ge", c, i), T("b", c, i), T("a", c, i)>>

\* The copies, tiu_ge, the copy of the result into ge_data and the
\* comparison, which sets ret = -1 on a mismatch.
Compute ==
  /\ pc = "compute"
  /\ \E mismatch \in BOOLEAN :
       ret' = IF mismatch THEN -1 ELSE ret
  /\ heap' = heap \cup {"ge_data"}
  /\ toFree' = PassFreeOrder(call, pass)
  /\ pc' = "free_pass"
  /\ Dev!Submit
  /\ UNCHANGED <<call, pass, lmem, cvk>>

\* cvk_ctx->ops->lmem_free_tensor on the next tensor of the free list.
FreeLmem ==
  /\ pc = "free_pass"
  /\ toFree # <<>>
  /\ lmem' = Free(lmem, Head(toFree))
  /\ toFree' = Tail(toFree)
  /\ UNCHANGED <<pc, call, pass, heap, ret, cvk, devVars>>

\* Mutant: the i++ of the format loop lost.
EndPass_NoIncrement ==
  /\ pc = "free_pass"
  /\ toFree = <<>>
  /\ heap' = heap \ {"ge_data"}
  /\ pass' = pass
  /\ pc' = "loop"
  /\ UNCHANGED <<call, lmem, toFree, ret, cvk, devVars>>

\* free(ge_data) and the next pass.
EndPass ==
  /\ pc = "free_pass"
  /\ toFree = <<>>
  /\ heap' = heap \ {"ge_data"}
  /\ pass' = pass + 1
  /\ pc' = "loop"
  /\ UNCHANGED <<call, lmem, toFree, ret, cvk, devVars>>

\* The loop is over: fall through to fail_exit.
EndLoop ==
  /\ pc = "loop"
  /\ pass = Passes
  /\ pc' = "fail_exit"
  /\ UNCHANGED <<call, pass, lmem, toFree, heap, ret, cvk, devVars>>

\* Mutant: free(ref_data) lost at fail_exit.
FailExit_NoRefFree ==
  /\ pc = "fail_exit"
  /\ heap' = heap \ {"a_data", "b_data"}
  /\ call' = call + 1
  /\ pc' = "start"
  /\ UNCHANGED <<pass, lmem, toFree, ret, cvk, devVars>>

\* fail_exit: free the three host buffers, return ret to main.
FailExit ==
  /\ pc = "fail_exit"
  /\ heap' = heap \ {"a_data", "b_data", "ref_data"}
  /\ call' = call + 1
  /\ pc' = "start"
  /\ UNCHANGED <<pass, lmem, toFree, ret, cvk, devVars>>

Next ==
  \/ RtInit
  \/ RegisterKernel
  \/ MainCheck
  \/ Start
  \/ AllocPass
  \/ Compute
  \/ FreeLmem
  \/ EndPass
  \/ EndLoop
  \/ FailExit
  \/ UnRegisterKernel
  \/ DeInit

\* main is one thread that never blocks: a step it can take is taken.
Spec == Init /\ [][Next]_vars /\ WF_vars(Next)

-----------------------------------------------------------------------------
(***************************************************************************)
(* Type invariant.                                                         *)
(***************************************************************************)
TypeOK ==
  /\ pc \in {"rt_init", "register", "check", "start", "loop", "compute",
            "free_pass", "fail_exit", "deinit", "exit"}
  /\ call \in 0..Calls
  /\ pass \in 0..Passes
  /\ lmem \in Seq(Tensors)
  /\ toFree \in Seq(Tensors)
  /\ heap \subseteq HostBuffers
  /\ ret \in {0, -1}
  /\ cvk \in BOOLEAN
  /\ Dev!TypeOK

(***************************************************************************)
(* Every lmem_free_tensor call releases the top of the allocator's stack,  *)
(* across the passes and the two calls of test_tl_ge.                      *)
(***************************************************************************)
LmemFreedLifo ==
  [][toFree # <<>> /\ toFree' = Tail(toFree) =>
       lmem # <<>> /\ lmem[Len(lmem)] = Head(toFree)]_vars

(***************************************************************************)
(* Between two calls of test_tl_ge no host buffer is live.                 *)
(***************************************************************************)
HostReleasedBetweenCalls == pc = "start" => heap = {}

(***************************************************************************)
(* main returns: both calls of test_tl_ge end, whichever allocations fail, *)
(* and the format loop of each reaches its bound.                          *)
(***************************************************************************)
MainTerminates == <>(pc = "exit")

=============================================================================
