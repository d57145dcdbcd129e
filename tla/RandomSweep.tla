------------------------------ MODULE RandomSweep ------------------------------
(***************************************************************************)
(* The random_test loop nest of the tests: for (m < retry_test_count)      *)
(* around a nest of loops, one per shape dimension, each over the indices  *)
(* of a range table.  On entry to a loop, choose_from_range draws the      *)
(* dimension from the range of its index.  The body of the innermost loop *)
(* builds test_param, skips it when check_valid_test_param rejects it      *)
(* (continue), else runs the case:                                         *)
(*   ret2 = run_compare_...; failed_tests += (ret2 != 0); ret |= ret2;     *)
(*   executed_tests++;                                                     *)
(* Loops whose body ends with "if (ret && stop_at_first_error) break;"     *)
(* are the BreakLevels; the outermost body then also ends with             *)
(* "if (executed_tests >= MIN_EXEC_TESTS) break;".                         *)
(*                                                                         *)
(* Level 1 is the m loop, level Len(Sizes) the innermost.  idx[L] is the   *)
(* index of loop L and vals[L] the value drawn on entry to its body.  The  *)
(* case itself is abstracted to the value ret2 run_compare returns, 0 or   *)
(* -1.  This module is instantiated by the sweeps of each test.            *)
(***************************************************************************)
EXTENDS Integers, Sequences

CONSTANTS
  Sizes,           \* <<retry_test_count, range sizes of the loops>>
  BreakLevels,     \* the loops whose body ends with the stop check
  MinExecTests,    \* MIN_EXEC_TESTS
  Choices(_, _),   \* Choices(L, idx): the values choose_from_range can draw
  CheckValid(_),   \* check_valid_test_param on the drawn values
  Observe(_, _)    \* what the history records of an executed case

Depth == Len(Sizes)

Levels == 1..Depth

VARIABLES
  pc,        \* "case", "next" (advance loop lvl), "after" (loop lvl left), "done"
  lvl,       \* the loop the control point refers to
  idx,       \* the loop indices
  vals,      \* the values drawn on entry to each loop body
  ret,       \* int ret of random_test
  executed,  \* executed_tests
  failed,    \* failed_tests
  seen       \* history: Observe of every executed case

vars == <<pc, lvl, idx, vals, ret, executed, failed, seen>>

\* The draws of the first k loops when the loops from L inwards are entered
\* at the indices ix: the outer ones keep their values.
RECURSIVE Draws(_, _, _)
Draws(k, L, ix) ==
  IF k = 0 THEN {<<>>}
  ELSE {Append(p, x) : p \in Draws(k - 1, L, ix),
                       x \in IF k < L THEN {vals[k]} ELSE Choices(k, ix)}

\* Loop L moves to index i: the loops inside it are entered afresh at
\* index 0, each drawing its value on entry.
Enter(L, i) ==
  LET ix == [k \in Levels |-> IF k < L THEN idx[k] ELSE IF k = L THEN i ELSE 0]
  IN  /\ idx' = ix
      /\ vals' \in Draws(Depth, L, ix)

Init ==
  /\ pc = "case"
  /\ lvl = Depth
  /\ idx = [k \in Levels |-> 0]
  /\ vals \in Draws(Depth, 1, idx)
  /\ ret = 0
  /\ executed = 0
  /\ failed = 0
  /\ seen = {}

\* The innermost body: continue on an invalid case, else run it, count it
\* and, where the innermost loop has the check, break on an error.
RunCase ==
  /\ pc = "case"
  /\ IF ~CheckValid(vals)
       THEN /\ pc' = "next"
            /\ UNCHANGED <<ret, executed, failed, seen>>
       ELSE \E ret2 \in {0, -1} :
              LET r == IF ret2 # 0 THEN -1 ELSE ret IN
              /\ ret' = r
              /\ failed' = IF ret2 # 0 THEN failed + 1 ELSE failed
              /\ executed' = executed + 1
              /\ seen' = seen \cup {Observe(idx, vals)}
              /\ pc' = IF Depth \in BreakLevels /\ r # 0 THEN "after" ELSE "next"
  /\ lvl' = Depth
  /\ UNCHANGED <<idx, vals>>

\* Mutant: the loop condition written idx <= range_size.
Advance_OffByOne ==
  /\ pc = "next"
  /\ IF idx[lvl] + 1 <= Sizes[lvl]
       THEN /\ Enter(lvl, idx[lvl] + 1)
            /\ pc' = "case"
            /\ lvl' = Depth
       ELSE /\ pc' = "after"
            /\ UNCHANGED <<lvl, idx, vals>>
  /\ UNCHANGED <<ret, executed, failed, seen>>

\* ++idx of loop lvl: its next iteration, or the loop is left.
Advance ==
  /\ pc = "next"
  /\ IF idx[lvl] + 1 < Sizes[lvl]
       THEN /\ Enter(lvl, idx[lvl] + 1)
            /\ pc' = "case"
            /\ lvl' = Depth
       ELSE /\ pc' = "after"
            /\ UNCHANGED <<lvl, idx, vals>>
  /\ UNCHANGED <<ret, executed, failed, seen>>

\* Loop lvl has been left; the rest of the body of the loop around it: the
\* stop check (where written), and in the outermost body the
\* MIN_EXEC_TESTS check.  Leaving the outermost loop returns ret.
AfterLoop ==
  /\ pc = "after"
  /\ IF lvl = 1
       THEN /\ pc' = "done"
            /\ UNCHANGED lvl
       ELSE LET L == lvl - 1 IN
            /\ lvl' = L
            /\ pc' = IF \/ L \in BreakLevels /\ ret # 0
                        \/ L = 1 /\ executed >= MinExecTests
                     THEN "after" ELSE "next"
  /\ UNCHANGED <<idx, vals, ret, executed, failed, seen>>

Next == RunCase \/ Advance \/ AfterLoop

Spec == Init /\ [][Next]_vars

(***************************************************************************)
(* With stop_at_first_error set, no case is run after the first failing    *)
(* one: the stop checks of the loops leave every loop, from the innermost  *)
(* out, before another case is drawn.                                      *)
(***************************************************************************)
StopsAtFirstError == failed <= 1

=============================================================================
