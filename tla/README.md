# TLA+ models of the cviruntime kernel tests

This directory holds TLA+ models of the host-side test programs of cviruntime.
It covers the test drivers in `src/test/**`: the integer reference
implementations, the retry loops that search for a quantisation multiplier,
the allocation and free discipline of host buffers and local-memory (lmem)
tensors, and the randomised range sweeps. TLC checks each model on small
instances. It also covers the cmodel command-buffer device of `src/cmodel`:
one object per chip variant behind the runtime handle, composed into `main`
of the tensor_ge test. TLAPS proves these things for all parameters:
- type correctness and the absence of accumulator overflow of the
  depthwise-convolution reference;
- the retry bound of its driver;
- the release of the host buffers by the tensor_ge test;
- that the tensor_ge tests run only on an open device and a registered
  kernel context, that every call of an overridden method reaches the chip's
  implementation, and that the device object is destroyed variant first.

## The system

Each test program follows the same pattern:

1. It draws or fixes a shape and some data.
2. A native reference computes the expected output on the host. The
   references are `dw_conv_per_channel_ref` and `elt_mul_ref`, plus the
   pooling, ge and add_const references.
3. The program allocates lmem tensors through `cvk_ctx->ops->lmem_alloc_tensor`.
4. It copies the data in, issues a TIU operation and submits the command
   buffer.
5. It copies the result out and compares it with the reference.
6. It frees everything and returns 0 or -1.

A `random_test` wraps many such cases in a nest of loops over range tables:
- `check_valid_test_param` filters out invalid cases;
- `stop_at_first_error` ends the sweep on the first failure;
- `MIN_EXEC_TESTS` ends it once enough cases have run.

The lmem allocator of the kernel library is a stack. A tensor may only be
freed when it is the most recently allocated live tensor. Every model
therefore keeps lmem as a sequence, and a free removes the freed tensor from
it. The action property `LmemFreedLifo` checks that each free takes the top
of the stack.

The allocator is not under `src/`, so its stack behaviour comes from the
kernel library's documented contract.

The runtime (`CVI_RT_Init`, `CVI_RT_RegisterKernel`, `CVI_RT_DeInit`) sits
between a test's `main` and the device. Behind `rt_handle` there is one
command-buffer object, and its class depends on the chip:
`CModelCmdbuf180x` or `CModelCmdbuf183x`. Both derive from `CModelCmdbuf`
and override `rt_device_open`, `enable_interrupt`, `set_eod` and the
destructor. The spec asks for exactly this: a single interface with one
implementation per chip variant. Only the two headers are under `src/`.
The method bodies and the runtime are modelled from the spec.

## Modules and their correspondence to the code

| Module | Models | Source |
|---|---|---|
| `QuantArith` | int8/int32 arithmetic: wrapping add, clamp, `Offset`, `MultiplyByQuantizedMultiplier` (doubling high multiply and rounding shift), `abs` on int32, and the class of a float multiplier | `test_cv1822_depthwise_conv.c` 55-61, 539-541, 650-664; the gemmlowp helpers of the kernel library (spec-modelled) |
| `DwConvRef` | `dw_conv_per_channel_ref`: one action per filter tap (`AccumulateTap`), one per output element (`StoreOutput`: bias, requantise, offset, clamp, store) | 430-560 |
| `DwConvDriver` | `run_compare_dw_conv` with `calc_dw_conv_float_multiplier`, composed with `DwConvRef` | 562-664, 1033-1308 |
| `RandomSweep` | the generic `random_test` loop nest: draws on loop entry, the valid-check `continue`, the run, the counters, the stop checks and `MIN_EXEC_TESTS` | 1366-1625 |
| `DwConvRandomTest` | the nine-loop depthwise sweep, `choose_from_range` and `check_valid_test_param`, instantiating `RandomSweep` | 934-947, 1311-1625 |
| `EltMul` | `run_compare_elt_mul`, `calc_elt_mul_float_multiplier` and `elt_mul_ref`; its tensors live on `LmemStack`'s stack | `test_181x_tensor_mul_qm.c` 31-112, 298-456 |
| `EltMulRandomTest` | the five-loop mul_qm sweep with its `check_valid_test_param` | 189-233, 458-561 |
| `PoolingTest` | `random_pooling_param`, `free_pooling_param`, `_test_pooling`, `compare_results` | `test_180x_avg_pooling.c` 33-215 |
| `CmdbufDevice` | the command-buffer object of one chip variant: construction base-first (`ConstructBase`, `ConstructDerived`), `RtDeviceOpen`, the submission hooks (`Submit`), virtual dispatch (`DynType`), the destructor chain (`DestroyDerived`, `DestroyBase`) | `cmodel_cmdbuf_180x.h` 2-12 (the 183x header is the same declaration); the base class, its constructor and destructor and C++ dispatch are spec-modelled |
| `TensorGeTest` | `main` with the runtime calls (`RtInit`, `RegisterKernel`, `MainCheck`, `UnRegisterKernel`, `DeInit`) and `test_tl_ge` called twice; it instantiates `CmdbufDevice` as `Dev` | `test_181x_tensor_ge.c` 22-122 |
| `AddConstTest` | `test_tl_add_const` called twice from `main` | `test_180x_bf16_tensor_add_const.c` 26-133 |
| `LmemStack` | the kernel library's lmem allocator as the tests use it: `Push` (`lmem_alloc_tensor`, NULL leaves the stack as it was) and `Free` (`lmem_free_tensor`, the tensor leaves the stack wherever it is) | spec-modelled (the allocator is outside `src/`) |
| `LmemStackProofs` | lemmas on `Push`, `Free` and the reversal `Rev` of a stack | - |
| `QuantArithProofs` | lemmas on `QuantArith` (int32 range, wrapping add, clamp, `MultiplyByQuantizedMultiplier`) and on sets of integers (`IntMinExists`, `IntMaxExists`: any bounded non-empty set of integers has a least and a greatest element), and `ClassNotNonpos` | - |
| `DwConvRefProofs`, `DwConvDriverProofs`, `TensorGeProofs`, `AddConstProofs`, `PoolingProofs`, `EltMulProofs` | TLAPS proofs | - |

`MC_*.tla` modules give the constants: small data sets, range tables and
geometries. The `.cfg` files bind them.

State and actions:

- **`DwConvRef`.**
  - `pos` enumerates the output elements in the code's loop order (batch,
    out_y, out_x, in_channel), and `tap` the filter taps (filter_y,
    filter_x).
  - `acc` is the int32 accumulator. `+=` is `AddWrap32`, because the C
    addition wraps on the targets.
  - `output` is the int8 output buffer, indexed by `Offset`.
- **Drivers.**
  - `pc` marks the point of the function.
  - `retry_cnt` and `attempts` track the do/while retry loop.
  - `fm` is the class of the float multiplier: valid, one, gt1 or nonpos.
    The multiplier is computed exactly as a quotient of integers, so the
    classification needs no floats.
  - `heap` holds the live host buffers, `lmem` the tensor stack, and
    `toFree` the sequence of frees still to make. The frees of one code block
    are then separate steps, each checked by `LmemFreedLifo`.
  - A failed allocation is a nondeterministic choice of which allocations
    returned NULL, for the host mallocs as for the lmem tensors.
  - `run_compare_dw_conv` returns -1 at once when `rt_handler` or `cvk_ctx`
    is NULL: its initial state chooses whether they are.
  - The TPU comparison is abstracted to a nondeterministic 0/-1.
- **Sweeps.**
  - `idx` holds the loop indices and `vals` the values drawn on entry to each
    loop. `choose_from_range` is the set of values `rand()` can give.
  - `ret`, `executed` and `failed` are the counters.
  - `seen` is a history variable: what each executed case looked like.
- **`CmdbufDevice`.**
  - `phase` is the object's lifetime: none, base_ctor, live, base_dtor,
    gone.
  - `DynType` is the class a virtual call reaches. It is the chip's class
    while the object is live, and `CModelCmdbuf` while the base part is
    being built or torn down, as C++ prescribes.
  - `dev` is the device `rt_device_open` returned, or NULL.
  - `ran` is a history of the implementations that ran.
  - In `TensorGeTest`, the steps of `CVI_RT_Init` and `CVI_RT_DeInit` are
    steps of the object. `Compute` includes the submission of the copies.

## Runs

| Run | Checks | Shows |
|---|---|---|
| `dwconv_small` | TypeOK, AccIsWindowSum, OutputMatchesConvolution | On a padded 1x3 input and 1x2 filter of extreme int8 values, with and without bias (INT_MIN included), the accumulator equals the window sum at every step, and every output is its own window sum plus its channel's bias (added in int32, wrapping, as at line 517), requantised and clamped. The requantisation is the same operator on both sides, so its rounding is not checked here. |
| `dwdriver` | AttemptsWithinBudget, DriverTypeOK, LmemReleasedOnReturn, LmemFreedLifo | The retry loop draws at most `retry_cnt` times, and every path of `run_compare_dw_conv` frees its lmem tensors in stack order. |
| `dwdriver_intmin` (violation) | QuantizedOnlyWithValidMultiplier | `abs(INT_MIN)` gives a negative multiplier that the `>= 1.0` test lets through. |
| `dwrandom` | TypeOK, StopsAtFirstError | The nine-loop sweep stays in its tables and stops at the first error. |
| `dwrandom_depth` (violation) | DepthDrawnFromItsRange | The depth is drawn with the width loop's index `k`. |
| `eltmul_small` | TypeOK, QuantizedOnlyWithValidMultiplier, LmemFreedLifo | Only multipliers in (0, 1) reach the reference, and the frees are in stack order. The assumption `SimpleTestVectors` checks `QuantArith` against the expected output of `simple_test`. |
| `eltmulrandom` | TypeOK | The five-loop sweep stays in its tables. |
| `eltmulrandom_stop` (violation) | StopsAtFirstError | The innermost loop lacks the stop check. |
| `pooling` | TypeOK, RetryLeavesLmemAsFound, LmemFreedLifo | Each rejected draw frees what it allocated, in stack order. |
| `pooling_dangling` (violation) | NoDanglingParam | Exhausted retries return freed or NULL tensors, which are then used. |
| `tensor_ge` | TypeOK, HostReleasedBetweenCalls, LmemFreedLifo, MainTerminates | Host buffers are freed by every return, after any subset of the three mallocs failed, and tensors are freed in stack order. `main` returns under weak fairness. |
| `add_const` | TypeOK, ReleasedBetweenCalls, LmemFreedLifo | Both calls release everything, also after one of the two mallocs failed. |

Every violation run has an entry in `findings` of `PROJECT.json`. That entry
says what the code does and what the spec, a comment or the code's structure
says it should do. Every property of a passing run has a mutant in
`PROJECT.json`: a plausible bug in the mapped definition (a dropped guard, an
off-by-one, a swapped free) that TLC shows the property catches.

### Further defects seen in the code

These defects were found while modelling the code. The models show them:
with the property that each one breaks added, TLC reports the defect. No run
checks them, because the code plainly contradicts each of these properties.
They are listed as hazards in `PROJECT.json`.

- **Bias wrap** (`test_cv1822_depthwise_conv.c:517`).
  `acc += bias[c]` wraps for the INT_MIN bias that `fill_random_data_s32`
  writes when it saturates. The spec asks for a clamp. `dwconv_small` draws
  that bias, and `OutputMatchesConvolution` states the code's wrapping add;
  `WrapOnlyAtIntMinBias` proves that this is the only add of the reference
  that wraps. The same routine never writes INT_MAX: `is_sign` is 1 or -1,
  so `is_satured && is_sign` holds whenever it saturates.
- **Host leak after an lmem failure** (`run_compare_dw_conv`, line 1214).
  After an lmem allocation failure it returns without freeing its host
  buffers.
- **Exhausted search counted as a failure** (line 1550).
  An exhausted multiplier search is counted as a failed test. The spec says
  such a case is skipped.
- **Early return in `run_compare_elt_mul`** (`test_181x_tensor_mul_qm.c:381`).
  It returns on a NULL tensor, leaving the other tensors and the host
  buffers allocated.
- **Leak in `_test_pooling`** (`test_180x_avg_pooling.c:197`).
  It returns without `free_pooling_param` when `alloc_input` fails.
- **Leak across calls in `test_tl_ge`** (`test_181x_tensor_ge.c:60`).
  `goto fail_exit` frees no lmem tensor, so the next call starts with live
  tensors.
- **NULL free in `test_tl_add_const`** (`test_180x_bf16_tensor_add_const.c:97`).
  At `fail_exit_2` it passes NULL to `lmem_free_tensor`.
- **Device never released when kernel registration fails**
  (`test_181x_tensor_ge.c:112`). If `CVI_RT_RegisterKernel` returns NULL
  after `CVI_RT_Init` succeeded, `main` returns -1 without
  `CVI_RT_DeInit`. The `tensor_ge` state space has such exit states, with
  the object still live.

### Bounds

- **Reference runs.** The data sets are the extreme int8 values {-128, 1,
  127} and their mixes. Padding puts taps outside the image. Both bias
  choices are included. These inputs reach the clamp at both ends, the
  rounding of the shift and every branch of `is_point_inside_image`.
- **Driver runs.**
  - `retry_cnt` is 2 or 3. That is enough to see both the exhausting and the
    succeeding loop, and the off-by-one of a post-decrement.
  - Every subset of allocations can fail.
- **Sweep runs.**
  - Every table has 2 or 3 entries. That is enough for a depth index to differ
    from a width index.
  - `MIN_EXEC_TESTS` is larger than the number of valid cases of one m
    iteration, so the m loop repeats.
  - The run outcomes include a failure, so every stop check is exercised.
- **Whole-function runs.** The pooling, ge and add_const models run the
  whole function (both calls from `main`) with every allocation outcome. The
  pooling geometries include one rejected and one accepted shape.

`CHECK_DEADLOCK FALSE` is used where the modelled function returns (`pc =
"done"`, or after the last call from `main`): the program ends there.

One liveness property is stated: `MainTerminates` in `tensor_ge`. Its
specification assumes `WF_vars(Next)`. `main` is a single thread that never
blocks, so a step it can take is eventually taken. Under that assumption TLC
shows that both format loops reach their bound and that every failure path
leaves. A lost `i++` is caught. The other runs assume no fairness. They are
sequential, every loop is bounded, and each reaches its final states.

## Proofs

`DwConvRefProofs` extends `DwConvRef` and TLAPS, and proves two theorems for
every value of the constants allowed by `ShapeAssumption` and
`DataAssumption`:

- `TypeCorrect == Spec => []TypeOK`.
  - `TypeOK` is inductive by itself. It includes the range of `acc` in int32
    and of `output` in int8.
  - The proof rests on lemmas of `QuantArithProofs`:
    - on the wrapping add (`AddWrap32Type`);
    - on the clamp (`ClampInt8Type`);
    - on the type of `MultiplyByQuantizedMultiplier` (`MBQMType`);
    - that every `Offset` the reference reads lies inside its buffer
      (`OffsetBound`, `TapOffsetsInRange`).
  - Out-of-bounds reads in the C code would be undefined behaviour, so this
    is the memory-safety argument of the reference.
- `WrapOnlyAtIntMinBias == Spec => []AccWrapsOnlyAtIntMinBias`. Assume the
  biases are values `fill_random_data_s32` can write (`S32FillValues`:
  -127..127 and INT_MIN) and `NTaps * 2^14 + 127 <= INT_MAX`. Then every
  `acc += filter_val * input_val` is exact, and `acc += bias` (line 517)
  leaves int32 only for the INT_MIN bias on a negative window sum: the
  bias wrap found in the code is the only one.
  - The inductive invariant is `TypeOK /\ AccBound`, where
    `|acc| <= 2^14 * tap`. It is needed because the accumulator's bound
    depends on how many taps have been added since the reset.

`DwConvDriverProofs` proves `BudgetRespected == DriverSpec => []AttemptsWithinBudget`
for every `RetryCnt` in `Pos`. `AttemptsWithinBudget` is not inductive by
itself. The step that leaves the loop must know how many draws are left. The
invariant `BudgetInv` says that while `pc` is `"alloc_host"` or `"retry"`,
`attempts + retry_cnt = RetryCnt` and `retry_cnt >= 1`. The proof leaves
`CalcFloatMultiplier` opaque and only splits on whether its class is
`"valid"`, so it holds for any data. The reference steps composed into the
driver leave both counters unchanged.

`TensorGeProofs` proves `HostReleased == Spec => []HostReleasedBetweenCalls`
for every number of calls and passes. The invariant `HostInv` adds a fact:
`ge_data` is not live at `"loop"`, `"compute"` or `"fail_exit"`. Without it,
the frees of `fail_exit` would not be known to empty the heap.

### The lmem stack

The allocator is a stack (`LmemStack`). A failed `lmem_alloc_tensor`
returns NULL and pushes nothing (`Push`); `lmem_free_tensor(t)` removes `t`
wherever it lies (`Free`, a `SubSeq` concatenation). The drivers keep the
frees still to make as a sequence `toFree`, one step per free, so that
`LmemFreedLifo` checks each free against the top of the stack.
`LmemStackProofs` proves the lemmas the invariants need, each for any set
of tensors and any `NULL` outside it:

- `PushType`, `FreeType`, `FreeAbsent`: typing; freeing a tensor that is not
  live (NULL included) changes nothing.
- `FreeTop`: freeing the top of the stack pops it. `FreeAppend`,
  `PairStack`, `PairFreeStep`: the two-tensor pattern (allocate two, some
  NULL; free them in reverse) of add_const and pooling.
- `NoDup` lemmas (`PushNoDup`, `PushFresh`, `PrefixNoDup`, `PushFourNoDup`):
  no tensor is live twice, which is what makes `Free` of the top a pop.
- `Rev`, the stack read from its top: `RevProperties`, `RevEmpty`,
  `RevConcat`, `RevPop` (the head of `Rev(s)` is the top of `s`, its tail
  the reverse of `s` popped), and `PushReversed` (four pushes in one order
  are the reverse of the four in the other).

With them, each test's free discipline is proved for every value of its
constants:

- `TensorGeProofs`: `TypeCorrectGe` and `LmemLifo`. `LmemInv` keeps the
  stack free of duplicates, the tensors of the pass on top in allocation
  order (`PassOnTop(k)`), the tensors leaked by earlier calls below them
  (`Older(k)`), and the pending frees equal to the last k of the pass's
  free order.
- `AddConstProofs`: `TypeCorrectAddConst`, `AddConstReleased` (nothing live
  between calls) and `AddConstLifo`. `AInv` ties the stack at `fail_exit_2`
  to the k frees still to make, for each combination of NULL pointers.
- `PoolingProofs`: `TypeCorrectPooling`, `PoolingRetryReleases` (each retry
  of `random_pooling_param` starts on an empty stack) and `PoolingLifo`.
  `PInv` says that while `free_pooling_param` runs, k of its frees remain
  (`PairFrees`) and the stack holds the first k non-NULL of ofmap, ifmap
  (`Pair`); after the retries ran out the stack stays empty.
- `DwConvDriverProofs`: `DriverTypeCorrect`, `DriverLmemReleased`
  (`LmemReleasedOnReturn`) and `DriverLifo`. `LmemInv` says the stack is
  empty before the allocations and at return, equals `AllocOrder` while
  computing, and on both free paths `toFree = Rev(lmem)` with `NoDup(lmem)`.
  The failure path's frees (`PushAll` over `AllocFailureFreeOrder`) are the
  reverse of the pushes by `PushReversed`; the normal path's
  `SuccessFreeOrder` is `Rev(AllocOrder)`. `NullAssumption` (NULL is no
  tensor) is the only assumption added.

- `EltMulProofs`: `TypeCorrectEltMul`, `EltMulValidMultiplier`
  (`Spec => []QuantizedOnlyWithValidMultiplier`) and `EltMulLifo`.
  `EInv` adds to the retry budget of the loop that the class of the
  multiplier is never `"nonpos"`, and is `"valid"` from the reference on;
  that the stack is empty before `lmem_alloc_tensor`, equals `AllocOrder`
  while computing, and on the free path `toFree = Rev(lmem)` with
  `NoDup(lmem)`. The multiplier fact is the interesting one.
  `calc_elt_mul_float_multiplier` divides by `abs(max - min)` of the int8
  products. `CalcClass` proves that this class is never `"nonpos"` for any
  inputs the constants allow: the products lie in -16384..16384, so their
  greatest and least elements exist (`IntMaxExists`, `IntMinExists`, proved
  from the well-foundedness of `<` on `Nat`, with no induction operator),
  are above `INT_MIN`, and `ClassNotNonpos` then rules out the negative
  `abs`. The single `>= 1.0` exit test therefore suffices here, unlike in
  the depthwise driver (`dwdriver_intmin`), whose bias can reach
  `INT_MIN`.

Every one of these invariants is first checked by TLC as an invariant of the
test's run, then proved inductive (`Init => IInv`, `IInv /\ [Next]_vars =>
IInv'`). The LIFO properties are action properties; they follow from the
invariant, because a step that shortens `toFree` by its head can only be
the free step (every other step leaves `toFree` alone or starts from an
empty one).

What is only model-checked:
- the functional correctness of the reference (`AccIsWindowSum`,
  `OutputMatchesConvolution`): they state what a loop computes for all
  data, which needs induction over the data;
- `QuantizedOnlyWithValidMultiplier` in the depthwise driver: it fails
  there (the `dwdriver_intmin` run), so there is nothing to prove;
- the properties of the sweeps: `RandomSweep` uses a RECURSIVE operator,
  which takes the SMT backend away from any module that reaches it;
- `MainTerminates` (liveness). Liveness and `ENABLED` are out of TLAPS's
  reach.

## Not modelled

- **The bodies of the cmodel command-buffer methods.** They live in
  `cmodel_cmdbuf.h` and the runtime, outside `src/`. `rt_device_open` is
  modelled as success or error, and the hooks only as the fact that they
  ran. No property about the object's dispatch or destructor order is
  kept: the methods and the destructor are declared `override`, so both
  follow from the C++ rules the model encodes, whatever `main` does. The mains of the other tests drive the same runtime. Only the
  tensor_ge one is composed with the device.
- **TDMA copy, fill-constant, VLC and bf16 stride tests.** Each is a device
  operation followed by a comparison loop. The allocate/free pattern is the
  one checked in `TensorGeTest`.
- **bf16 atan.** It is floating-point table interpolation.
- **tensor_min_const.** It follows the tensor_ge pattern and is planned next.

The device itself is not modelled, and neither is the memory of the
comparison data. The pooling stride draw (`rand() % p.kh` for `stride_w`) is
abstracted by a constant set of geometries.

## Plan for later work

- Model `tensor_min_const` and the TDMA index maps, as pure operators checked
  against a reference definition.
- Functional correctness of `elt_mul_ref` and of the depthwise reference
  needs induction over the data, which the installed provers cannot
  instantiate; the sweeps would need `RandomSweep`'s recursion rewritten as a
  recursive function before anything about them could be proved.
