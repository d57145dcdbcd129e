------------------------------ MODULE PoolingTest ------------------------------
(***************************************************************************)
(* _test_pooling of test/180x/test_180x_avg_pooling.c with                 *)
(* random_pooling_param and free_pooling_param: one average-pooling test   *)
(* case.  random_pooling_param draws parameters, allocates the ofmap and   *)
(* then the ifmap lmem tensor, and keeps the draw when the geometry checks *)
(* pass and both allocations succeeded; otherwise it frees what it got and *)
(* draws again, at most retry_cnt (100) times, returning the last p in     *)
(* any case.  _test_pooling then fills a host input, runs the TPU, copies  *)
(* the result out, compares it with the native reference and frees.       *)
(*                                                                         *)
(* The drawn parameters are abstracted to the geometry the checks read: a  *)
(* record of the h and w extents, kernel, stride, insertion and padding,   *)
(* chosen from the constant set Geometries.  A tensor is named by the      *)
(* field and the iteration that allocated it, so that a pointer kept past  *)
(* its free is told apart from a live one.  The lmem allocator is the     *)
(* stack of LmemStack.                                                      *)
(***************************************************************************)
EXTENDS Integers, Sequences, LmemStack

CONSTANTS
  Geometries,   \* the drawn shapes, kernels, strides, insertions and pads
  RetryCnt      \* int retry_cnt = 100 of random_pooling_param

ASSUME PoolingAssumption ==
  /\ RetryCnt \in Nat \ {0}
  /\ \A g \in Geometries :
       /\ {g.ih, g.iw, g.kh, g.kw, g.stride_h, g.stride_w} \subseteq Nat \ {0}
       /\ {g.ins_h, g.ins_w, g.ins_last_h, g.ins_last_w,
           g.pad_top, g.pad_bottom, g.pad_left, g.pad_right} \subseteq Nat

\* The lmem tensors p.ofmap and p.ifmap of iteration k.
Tensors == {"ofmap", "ifmap"} \X (0..RetryCnt - 1)

\* A failed allocation returns NULL, which is no tensor.
ASSUME NullAssumption == NULL \notin Tensors

HostBuffers == {"input", "output", "output_ref"}

VARIABLES
  pc,       \* the point of _test_pooling reached
  iter,     \* i of the retry loop
  geo,      \* the geometry of the last draw
  ofmap,    \* p.ofmap: a tensor or NULL
  ifmap,    \* p.ifmap: a tensor or NULL
  lmem,     \* the live lmem tensors, bottom of the stack first
  toFree,   \* lmem_free_tensor calls still to make
  heap,     \* the live host buffers
  ret       \* the value _test_pooling returns

vars == <<pc, iter, geo, ofmap, ifmap, lmem, toFree, heap, ret>>

-----------------------------------------------------------------------------
(***************************************************************************)
(* pooling_ih_ext and pooling_iw_ext: the extent of the input after the   *)
(* insertions and the padding.                                             *)
(***************************************************************************)
pooling_ih_ext(g) ==
  (g.ih - 1) * (g.ins_h + 1) + g.ins_last_h + 1 + g.pad_top + g.pad_bottom

pooling_iw_ext(g) ==
  (g.iw - 1) * (g.ins_w + 1) + g.ins_last_w + 1 + g.pad_left + g.pad_right

\* The condition under which random_pooling_param keeps a draw.
GeometryAccepted(g) ==
  /\ g.kh <= pooling_ih_ext(g)
  /\ g.kw <= pooling_iw_ext(g)
  /\ g.pad_top < 16 /\ g.pad_bottom < 16
  /\ g.pad_left < 16 /\ g.pad_right < 16

\* Mutant: free_pooling_param releasing the ofmap first.
FreeParamOrder_OfmapFirst(ofm, ifm) == Push(Push(<< >>, ofm), ifm)

\* Mutant: the "if (p->ofmap) lmem_free_tensor(p->ofmap)" line lost.
FreeParamOrder_NoOfmap(ofm, ifm) == Push(<< >>, ifm)

\* free_pooling_param: the ifmap (if non-NULL), then the ofmap (if
\* non-NULL); Push leaves out a NULL.
FreeParamOrder(ofm, ifm) == Push(Push(<< >>, ifm), ofm)

Init ==
  /\ pc = "gen"
  /\ iter = 0
  /\ geo \in Geometries         \* p is uninitialised before the loop
  /\ ofmap = NULL
  /\ ifmap = NULL
  /\ lmem = <<>>
  /\ toFree = <<>>
  /\ heap = {}
  /\ ret = 0

\* Mutant: for (i = 0; i <= retry_cnt; i++).
Generate_OneMore ==
  /\ pc = "gen"
  /\ iter <= RetryCnt
  /\ \E g \in Geometries, okO \in BOOLEAN, okI \in BOOLEAN :
       LET ofm == IF okO THEN <<"ofmap", iter>> ELSE NULL
           ifm == IF okI THEN <<"ifmap", iter>> ELSE NULL
       IN  /\ geo' = g
           /\ ofmap' = ofm
           /\ ifmap' = ifm
           /\ lmem' = Push(Push(lmem, ofm), ifm)
           /\ IF GeometryAccepted(g) /\ okO /\ okI
                THEN /\ pc' = "test"
                     /\ UNCHANGED toFree
                ELSE /\ toFree' = FreeParamOrder(ofm, ifm)
                     /\ pc' = "retry_free"
  /\ UNCHANGED <<iter, heap, ret>>

\* One pass of the loop body: the draw, the two allocations (ofmap first),
\* and either the break or free_pooling_param before the next pass.
Generate ==
  /\ pc = "gen"
  /\ iter < RetryCnt
  /\ \E g \in Geometries, okO \in BOOLEAN, okI \in BOOLEAN :
       LET ofm == IF okO THEN <<"ofmap", iter>> ELSE NULL
           ifm == IF okI THEN <<"ifmap", iter>> ELSE NULL
       IN  /\ geo' = g
           /\ ofmap' = ofm
           /\ ifmap' = ifm
           /\ lmem' = Push(Push(lmem, ofm), ifm)
           /\ IF GeometryAccepted(g) /\ okO /\ okI
                THEN /\ pc' = "test"
                     /\ UNCHANGED toFree
                ELSE /\ toFree' = FreeParamOrder(ofm, ifm)
                     /\ pc' = "retry_free"
  /\ UNCHANGED <<iter, heap, ret>>

\* The loop ran out of retries: return p as the last draw left it.
Exhausted ==
  /\ pc = "gen"
  /\ iter = RetryCnt
  /\ pc' = "test"
  /\ UNCHANGED <<iter, geo, ofmap, ifmap, lmem, toFree, heap, ret>>

\* lmem_free_tensor on the next tensor of the free list.
FreeLmem ==
  /\ pc \in {"retry_free", "final_free"}
  /\ toFree # <<>>
  /\ lmem' = Free(lmem, Head(toFree))
  /\ toFree' = Tail(toFree)
  /\ UNCHANGED <<pc, iter, geo, ofmap, ifmap, heap, ret>>

\* The frees of a rejected draw are done: i++.
NextIteration ==
  /\ pc = "retry_free"
  /\ toFree = <<>>
  /\ iter' = iter + 1
  /\ pc' = "gen"
  /\ UNCHANGED <<geo, ofmap, ifmap, lmem, toFree, heap, ret>>

\* alloc_input (malloc of tl_shape_size(&p->ifmap->shape) bytes, which
\* may fail: return -1), tensor_copy_s2d_g2l to p.ifmap,
\* tiu_average_pooling, CVI_RT_Submit.
LoadAndRun ==
  /\ pc = "test"
  /\ \E ok \in BOOLEAN :
       IF ok THEN /\ heap' = heap \cup {"input"}
                  /\ pc' = "copy_out"
                  /\ UNCHANGED ret
             ELSE /\ ret' = -1
                  /\ pc' = "done"
                  /\ UNCHANGED heap
  /\ UNCHANGED <<iter, geo, ofmap, ifmap, lmem, toFree>>

\* tensor_copy_l2g_d2s of p.ofmap; a NULL result returns -1.
CopyOut ==
  /\ pc = "copy_out"
  /\ \E ok \in BOOLEAN :
       IF ok THEN /\ heap' = heap \cup {"output"}
                  /\ pc' = "compare"
                  /\ UNCHANGED ret
             ELSE /\ ret' = -1
                  /\ pc' = "done"
                  /\ UNCHANGED heap
  /\ UNCHANGED <<iter, geo, ofmap, ifmap, lmem, toFree>>

\* compare_results: output_ref is malloc'ed; when the native reference
\* fails its error is returned at once, output_ref left allocated, else the
\* arrays are compared and output_ref freed.  Back in _test_pooling,
\* free_pooling_param follows in either case.
Compare ==
  /\ pc = "compare"
  /\ \E refFails \in BOOLEAN, r \in {0, -1} :
       IF refFails
         THEN /\ heap' = heap \cup {"output_ref"}
              /\ ret' = -1
         ELSE /\ ret' = r
              /\ UNCHANGED heap
  /\ toFree' = FreeParamOrder(ofmap, ifmap)
  /\ pc' = "final_free"
  /\ UNCHANGED <<iter, geo, ofmap, ifmap, lmem>>

\* free(output); free(input); return ret.
ReleaseHost ==
  /\ pc = "final_free"
  /\ toFree = <<>>
  /\ heap' = heap \ {"input", "output"}
  /\ pc' = "done"
  /\ UNCHANGED <<iter, geo, ofmap, ifmap, lmem, toFree, ret>>

Next ==
  \/ Generate
  \/ Exhausted
  \/ FreeLmem
  \/ NextIteration
  \/ LoadAndRun
  \/ CopyOut
  \/ Compare
  \/ ReleaseHost

Spec == Init /\ [][Next]_vars

-----------------------------------------------------------------------------
(***************************************************************************)
(* Type invariant.                                                         *)
(***************************************************************************)
TypeOK ==
  /\ pc \in {"gen", "retry_free", "test", "copy_out", "compare",
             "final_free", "done"}
  /\ iter \in 0..RetryCnt
  /\ geo \in Geometries
  /\ ofmap \in Tensors \cup {NULL}
  /\ ifmap \in Tensors \cup {NULL}
  /\ lmem \in Seq(Tensors)
  /\ toFree \in Seq(Tensors)
  /\ heap \subseteq HostBuffers
  /\ ret \in {0, -1}

(***************************************************************************)
(* Each pass of the retry loop of random_pooling_param starts on the lmem  *)
(* it was entered with (empty here): a rejected draw frees whatever of     *)
(* its ofmap and ifmap was allocated, whichever of the two allocations     *)
(* failed and whether or not the geometry was valid.                       *)
(***************************************************************************)
RetryLeavesLmemAsFound == pc = "gen" => lmem = <<>>

(***************************************************************************)
(* Every lmem_free_tensor call on a live tensor, in the retry loop and at  *)
(* the end of _test_pooling, releases the top of the allocator's stack.    *)
(***************************************************************************)
LmemFreedLifo ==
  [][toFree # <<>> /\ toFree' = Tail(toFree) /\ Head(toFree) \in Live(lmem) =>
       lmem[Len(lmem)] = Head(toFree)]_vars

(***************************************************************************)
(* From the return of random_pooling_param to the final frees, p.ifmap and *)
(* p.ofmap are live tensors: alloc_input reads p->ifmap->shape, the copy   *)
(* and the TPU use both, and free_pooling_param frees them.                *)
(***************************************************************************)
NoDanglingParam ==
  pc \in {"test", "copy_out", "compare", "final_free"} =>
    ifmap \in Live(lmem) /\ ofmap \in Live(lmem)

=============================================================================
