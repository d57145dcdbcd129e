------------------------------- MODULE LmemStack -------------------------------
(***************************************************************************)
(* The local-memory allocator of the kernel library as the tests use it:   *)
(* cvk_ctx->ops->lmem_alloc_tensor and lmem_free_tensor.  The allocator is *)
(* not under src/; it hands out lmem as a stack.  A model keeps the live   *)
(* tensors as a sequence, bottom of the stack first.                       *)
(***************************************************************************)
EXTENDS Integers, Sequences

CONSTANT NULL   \* the NULL cvk_tl_t * of a failed allocation

\* The position of tensor t in the stack, when it is live.
IsAt(stack, t, i) == i \in 1..Len(stack) /\ stack[i] = t

\* lmem_alloc_tensor: the result t is pushed, or it is NULL and the stack
\* is as it was.
Push(stack, t) == IF t = NULL THEN stack ELSE Append(stack, t)

\* lmem_free_tensor(t): t leaves the stack wherever it is; a tensor that is
\* not live (NULL among them) leaves the stack as it was.
Free(stack, t) ==
  IF \E i \in 1..Len(stack) : IsAt(stack, t, i)
    THEN LET i == CHOOSE i \in 1..Len(stack) : IsAt(stack, t, i)
         IN  SubSeq(stack, 1, i - 1) \o SubSeq(stack, i + 1, Len(stack))
    ELSE stack

\* The most recently allocated live tensor.
Top(stack) == stack[Len(stack)]

\* No tensor is live twice.
NoDup(stack) == \A i, j \in 1..Len(stack) : stack[i] = stack[j] => i = j

\* The set of live tensors.
Live(stack) == {stack[i] : i \in 1..Len(stack)}

=============================================================================
