# A TLA+ verification of the Qwen3 runtime

This directory models and verifies the C++ runtime that executes Qwen3-0.6B on
RISC-V: the decoder with its key/value caches, the program and the script that
drive it, the weight directory they read, and the memory layer underneath.
Paths below are relative to the repository root.

Contents: [the system](#the-system), [the modules](#the-modules),
[the runs](#the-runs), [fairness](#fairness), [the proofs](#the-proofs),
[findings](#findings), [what is not modelled](#what-is-not-modelled),
[the plan](#the-plan).

## The system

The runtime is single threaded C++17 over Eigen. Two processes and two
directories make up a deployment:

```
 export_qwen3_weights.py  --writes-->  models/qwen3_0.6b/*.bin
                                             |  load_qwen3_weights
                                             v
 run_qwen3.py --starts--> qwen3_run (main.cpp) --prefill, decode--> Qwen3Model
      ^                        |                                        |
      '----- token file -------'                        kernels of src/core/*.h
```

| component | state it keeps | operations | what makes it correct |
|---|---|---|---|
| `Qwen3Model` (`src/llm/qwen3_model.*`) | `caches_` (a key and a value matrix per layer), `past_length_`; inside `forward` the layer index, the residual stream and the MLP output | `prefill`, `decode`, `reset` | the caches always hold what a decoder without caches would have computed for the tokens taken in; logits are that decoder's; a rejected or failed call leaves a state from which later calls are right or rejected |
| `group_query_attention` (`src/core/group_query_attention.h`) | none; builds the present caches from past caches and new rows | one call per layer | the head-major flat layout survives each extension; causal and length masks; each query head reads its own group's rows; inconsistent lengths are rejected |
| `rotary_embedding`, normalisation, elementwise kernels (`src/core/*.h`) | none | one call each | rows are rotated by their absolute position; the position limit is the only capacity check of the runtime |
| weight loader (`src/llm/weights.cpp`) and exporter (`scripts/export_qwen3_weights.py`) | files, positions in them | export, load | every column lands in the tensor it came from; a half written directory is not loaded |
| `qwen3_run` (`src/llm/main.cpp`) | the arguments, the generated tokens, two output files | one execution | greedy generation; complete outputs or a failure status; it ends |
| `run_qwen3.py` | a temporary file, the child process | one execution | prints the whole continuation or nothing; removes its file |
| allocators, `MemoryPool` (`src/core/memory/`) | `base_`, `offset_`, `fallback_allocations_` | `Allocate`, `Deallocate`, destruction | disjoint, aligned blocks of the requested size inside memory that is still there |
| `Tensor` (`src/core/tensor/`) | `data_`, `owns_data_`, a shared allocator | construct, move, `Allocate`, `Deallocate`, `Clone`, `FillZero`, destroy | each owned block is freed exactly once, by the allocator that gave it out, and not before its owner is gone |
| `Shape`, `AddOp` (`src/core/tensor/shape.h`, `src/core/operators/math/add.h`) | dimensions | `NumElements`; `Compute` | the memory of a tensor is the size its shape says; the sum is a new tensor and leaves its inputs alone |
| operator registry (`src/core/operators/base/`) | a table of factories, filled once before `main` | register, create | not modelled |
| kernels of exported graphs (`gather`, `concat`, `unsqueeze`, `sub`, `reduce_sum`, `shape`, `transpose`), and `reshape` | none | pure functions | equal to their ONNX definition, and consistent with each other |
| facade (`include/llm_runtime/`) | a path | stub | nothing builds or calls it |
| golden and profiling scripts | none shared with the runtime | straight-line tooling | not modelled |

Interaction is by calls and exceptions inside a process, and by files between
processes. No component waits for another except `run_qwen3.py` for its child.

What is hard here:

* **Partial failure.** Any kernel may throw in the middle of `forward`
  (`std::invalid_argument` from a guard, `std::bad_alloc` from any matrix).
  The caches of the layers before are then extended, those after are not, and
  `past_length_` is not set; the caller may go on using the object.
* **A limit found late.** Nothing compares the prompt or the generation with
  the context length in advance; the guard of the RoPE table of layer 0 does,
  in the middle of a call, possibly in the middle of a generation.
* **Index arithmetic.** Flat head-major caches are rebuilt with every token;
  wrong strides and masks show only with several heads, several tokens and
  several calls.
* **Files as the only protocol.** Tensors are found by position, files by
  name; sizes are checked before opening; nothing orders an export and a load,
  or tells a re-export that crashed. The output streams are never checked.
* **Ownership by convention.** A moved-from tensor, a view, a pool that lives
  in the shared pointers of its tensors, an allocator replaced before an
  allocation throws.

`PROJECT.json` lists these hazards line by line, with the properties that
would catch each of them going wrong.

## The modules

| module | models | lines of code it stands for |
|---|---|---|
| `GroupQueryAttention` | guards, present caches, masks, head groups, as operators on matrices of rows | `group_query_attention.h` |
| `DecoderStack` | the terms that stand for float rows, and the decoder **without** any cache | `forward` and the kernels it calls |
| `TokenHistory` | abstract specification: a token history, `prefill`, `decode`, `reset`, what each may return | the promise of `qwen3_model.h` |
| `ContextLength` | abstract specification without tokens: the length of the context, and which calls are served | the same promise |
| `Qwen3Model` | the cached forward pass, one step per layer | `qwen3_model.cpp` |
| `Qwen3Model_proofs` | theorems about it | |
| `ForwardShapes` | `forward` statement by statement, with the dimensions of its matrices and every guard of the kernels | `qwen3_model.cpp`, the guards in `src/core/*.h` |
| `ForwardShapes_proofs` | theorems about it | |
| `Qwen3Run` | `main`, over `Model == INSTANCE TokenHistory` | `main.cpp` |
| `RunQwen3` | the script around it, a second process | `run_qwen3.py` |
| `Qwen3Run_proofs` | theorems about both | |
| `WeightFiles` | exporter and loader over one directory | `weights.cpp`, `export_qwen3_weights.py` |
| `WeightFiles_proofs` | theorems about it | |
| `DataInduction` | induction over naturals and finite sets as lemmas about sets, and the laws of finite sums that follow | |
| `Allocator` | abstract specification of an allocator | `allocator.h` |
| `MemoryPool` | the pool, in machine words | `memory_pool.cpp` |
| `MemoryPool_proofs` | theorems about it | |
| `TensorStorage` | ownership of tensor data | `tensor.cpp` |
| `TensorValues` | abstract specification: each tensor that owns data is a value of its own | the promise of `tensor.h` |
| `TensorData` | `TensorStorage` with element types, shapes and contents, and `AddOp` | `tensor.cpp`, `tensor.h`, `shape.h`, `types.h`, `add.h` |
| `Tensor_proofs` | theorems about both | |
| `Kernels` | kernels as operators on matrices | `gather.h`, `concat.h`, `unsqueeze.h`, `reshape.h`, `sub.h`, `reduce_sum.h`, `shape.h`, `transpose.h` |
| `KernelChain` | a tensor that goes from kernel to kernel, and what each must return | the same, as a graph calls them |
| `Kernels_proofs` | theorems about it | |
| `MCDecoder`, `MCQwen3Model`, `MCQwen3Run`, `MCRunQwen3`, `MCTensorStorage`, `MCTensorData`, `MCKernelChain` | definitions that only TLC needs | |

### The decoder

Float values are *terms*: a row of a matrix is the record of the kernels, layer,
head and position that produced it (`KeyRow(l, h, p, of)` is the key of head `h`
in layer `l` at position `p`, computed from the stream row `of`). Two rows are
equal exactly when the same computation was applied to the same inputs, so a row
in the wrong place, of the wrong head, rotated by the wrong position or built
from the wrong residual is a different value. Numerics (rounding, softmax) are
not modelled. `Hidden(l, hist)` is the residual stream that enters layer `l` at
the last position of the history `hist` **when everything is computed anew**;
`HiddenAssumption` is its recursive definition, given as an assumption so that
the theorems hold for every such decoder and no recursive operator stands in the
way of the provers. `MCDecoder` builds one by a recursive function, and TLC
evaluates the assumption on it.

`Qwen3Model` has the members of the class and the locals of `forward` as
variables. `Prefill`/`Decode` enter `forward`; `Layer` is one pass of the loop,
from the normalisation to the MLP, with the assignment to both caches;
`RejectLayer` is an exception of a guard; `LayerOutOfMemory` an allocation
failure before or after the caches were assigned; `Finish`,
`FinalNormOutOfMemory` and `LogitsOutOfMemory` are the code after the loop,
where `past_length_` is set *before* the logits are allocated. `history` is a
ghost: the tokens that `past_length_` counts.

`TokenHistory` is what a caller may rely on. A served call appends its tokens
and answers with the logits of the cache-free decoder. A rejected call does
nothing, except that `prefill` has dropped the context. A call that runs out of
memory does nothing, or has taken the tokens in without answering, or leaves the
model `stalled`: every later decode is rejected until a reset or a prefill. In
the refinement, `health` is "stalled" exactly when layer 0's cache is longer
than `past_length_` says.

`ForwardShapes` justifies what `Qwen3Model` takes for granted: that of all the
guards of all the kernels only those on lengths (`LayerRejects`) can end a call,
and that the loop body may be one step. Each statement of `forward` is a step
that gives the result of a kernel to a local (`Assign`); a matrix is its
dimensions, so nothing about values is said here. A kernel's operator returns
dimensions, or the guard that rejects (`Rejects`), and the exception leaves
`forward` (`Leave`). Memory may run out wherever a matrix is computed, with the
caches of the layers before already extended. The configuration constants are
parameters; `ConfigAssumption` asks of them what `qwen3_config.h` satisfies and
the kernels need.

`ContextLength` is what both models of `forward` have in common: `TokenHistory`
with lengths for token sequences. `ForwardShapes` implements it statement by
statement and `Qwen3Model` layer by layer (`ImplementsContextLength` in each), so
that the coarse step and the fine ones agree on which calls are served, which
are rejected, and what a call that runs out of memory leaves. In the refinement
of `ForwardShapes` a call takes effect when it returns: between the assignment
to `past_length_` and the return (`pc = "logits"`), `length` is still
`position_start`. `health` is "stalled" when layer 0's cache is ahead of
`past_length_` and no call is under way that has put it there (`Storing`).

### The programs

`Qwen3Run` follows `main` from the arguments to the exit status; the model
object is the abstract one, so what is shown of the program rests only on
`TokenHistory`, and `Qwen3Model` implements that. A text of comma separated
numbers is the sequence of its fields (`Blank` for an empty one, `Junk` for one
that `std::stoi` refuses); `Items` is what `parse_tokens` sees of it, where a
trailing empty field vanishes; `CutOff` is what a failed write may leave, the
last number cut in the middle included. `main` catches `const std::exception&`,
of which everything thrown inside its `try` block is one (`CatchException`); only
`std::stoi` of `--max-new` is outside, and what it throws ends the process
(`Exec` with `OutOfRange`, status "aborted"). `RunQwen3` extends it with the
steps of the script; the two processes share the token file and the exit status.
An interrupt reaches the script while it waits (`Interrupted`, answered by its
`finally` clause) or where nothing answers it, before the `try` statement and in
the clause before `os.unlink` (`InterruptedOutsideTry`).

### The weight directory

A file is a sequence of strips, one per tensor column: Fortran order writes a
tensor column by column and Eigen stores matrices in that order. Both sides' own
lists of tensors are written down separately (`LAYER_TENSORS`, `LayerReads`), as
is the hand-written size formula (`layer_file_floats`), so that their agreement
is checked and not assumed. Each strip written, each size check, open and strip
read is a step; `StartExport`, `ExportDies` and the loader's steps interleave
freely.

### Memory

`MemoryPool` computes in words of `Word` values, additions wrap; `heap` is what
`malloc` and `operator new` have given out, `blocks` what callers hold, with the
size and alignment they asked for, and is the variable of the abstract
`Allocator`. In `TensorStorage` the places in which tensors live are `Tensors`;
`Become` applies an operation's effect and then drops the pool, with its blocks,
if neither the program nor a tensor refers to it any more.

`TensorData` extends `TensorStorage`: each of its actions is one of
`TensorStorage` together with what it does to `shape` (the element type and
dimensions of each object) and `content` (the cells of each block). `Size` is
`Bytes()` in cells of four bytes and follows `NumElements`: 0 without
dimensions, unknown (the code throws) when one is negative. Memory that was
allocated and not written holds `Junk`, and so does the clone of a tensor
without data; a sum with it is `Junk` again. `Compute` is `AddOp`: two tensors
of the same type and shape, a new third one. Tensors follow their pointers
unchecked, so the model restricts the *program* to what that asks for
(`Usable`): it goes through a view only while some tensor owns at least as many
cells of that data, and gives `AddOp` allocated inputs. `TensorValues`
promises the rest: values are made, copied, added, written, moved and dropped
one at a time.

### Kernels

A matrix is a record of its dimensions and its entries, so that matrices with
rows and no columns exist as they do in Eigen; `Rejected` is the exception of a
guard. Where the code walks a matrix by row, `RowMajor` says which entry comes
when. `KernelChain` feeds what a kernel returned to the next one, which gives
tensors in every order of entries and of every small shape, and states for each
of them, with every argument in a set that goes beyond the legal range, what
each kernel must return. The references are written from the ONNX definitions
the headers name and not from the code: `ReshapeFollowsOnnx` asks which shapes
the arguments leave open, `GatherFollowsOnnx` reduces one axis to the other by
transposing, `SubBroadcasts` reads operands modulo their sizes.

## The runs

All passing runs are complete explorations. Deadlock is checked where the
system never stops (`model`, `forward_shapes`, `memory_pool`, `tensor_storage`,
`tensor_data`, `kernels`); a program, a script and a load do stop.

| run | properties | instance |
|---|---|---|
| `model` | `CacheMirrorsHistory`, `LogitsFollowHistory`, `OnlyFirstLayerRejects`, `IInv` (with `TypeOK`), `ImplementsTokenHistory` (refinement), `ServableCallsAreServed` (liveness) | 2 tokens, 2 layers, 4 query and 2 key/value heads, 3 positions, prompts up to 4; 370 states |
| `forward_shapes` | `TypeOK`, `OnlyLengthsAreRejected`, `CachesCoverTheContext`, `ImplementsContextLength` (refinement) | 2 layers, 4 query and 2 key/value heads of 2, hidden 3, intermediate 5, vocabulary 7, 4 positions, prompts of 0 to 5; 649 states |
| `qwen3_run` | `TypeOK`, `GeneratedIsGreedy`, `UndisturbedRunsSucceedIfTheyFit`, `OutputsAreComplete`, `StartedRunsEnd` (liveness) | 2 tokens, 3 positions, prompt texts of up to 4 fields, `--max-new` from -1 to 3 and unconvertible; 54,000 states |
| `run_qwen3` | `RunnerTypeOK`, `PrintedIsGreedy`, `TempFileIsRemoved` (liveness) | the same; 11,200 states |
| `weight_files` | `TypeOK`, `WeightsInPlace`, `LoadNeedsAFinishedExport`, `QuietLoadsAreAccepted`, `QuietLoadsAreWhole` | one layer of every tensor kind, two exports, one load; 187,000 states |
| `memory_pool` | `TypeOK`, `BlocksAreBacked`, `NothingElseLeaks`, `KeepsContract` (refinement) | pools of 0, 7, 12 bytes, requests of 0, 1, 3, 9 bytes at alignments 1, 4, up to 3 blocks held; 57,000 states |
| `tensor_storage` | `TypeOK`, `OwnedIsAllocated`, `OwnersAreExclusive`, `NothingLeaks` | 3 tensors, 3 blocks, two allocators, under symmetry; 15,000 states |
| `tensor_data` | `MemoryMatchesShape`, `KeepsValues` (refinement) | 3 tensors, 3 blocks, two allocators, shapes of one, two and an unknown number of cells, under symmetry; 349,000 states |
| `kernels` | `TypeOK`, `ReshapeFollowsOnnx`, `UnsqueezeIsReshape`, `GatherFollowsOnnx`, `GatherUndoesConcat`, `ReduceSumComposes`, `SubBroadcasts` | tensors of up to 4 entries from -1 to 3; 2,000 states |
| `pool_alignment`, `pool_word`, `sub_sizes` | one each, violated | see [findings](#findings) |

Why the bounds are enough:

* `model`: two layers are the least with a layer that is extended and one that
  is not; two key/value heads the least where a head's block moves in the flat
  cache; four query heads make the group size 2, different from every other
  count; three positions give a prefill of several tokens followed by several
  decodes, and prompts one longer than that exceed the limit. The theorems
  remove these bounds.
* `forward_shapes`: the widths (hidden 3, query 8, key 4, head 2, intermediate 5,
  vocabulary 7) all differ, so that no two are exchanged unnoticed; prompts may be
  empty, fill the positions and exceed them by one. The theorems remove these
  bounds.
* `qwen3_run`, `run_qwen3`: the limit can be met at the prompt (4 fields), in
  the first and in a later decode; `MaxNew = 3` is reached exactly at the limit
  and beyond it. The layers do not matter here (the model is abstract): one.
  The argmax of `MCQwen3Run` depends on the whole history, so that a token fed
  twice or not at all changes what follows.
* `weight_files`: dimensions are the smallest for which all eleven layer tensors
  are nonempty, `q_proj`, `k_proj`, `v_proj` have several columns, and tensors
  of equal shape exist to be confused. The layers of the real model repeat the
  same file. Two exports are enough for a stale file and for one that changes
  while it is read.
* `memory_pool`: 7 is no multiple of the alignment, 9 fits once and then falls
  back, three blocks allow two in the pool and one on the heap; no sum reaches
  `Word` (32) here.
* `tensor_storage`: three tensors allow a source, a target and a bystander that
  shares a pool or is a view; three blocks one for each.
* `tensor_data`: one and two cells let a view be shorter than its owner and a
  copy stop too early; the unknown size is the one `Bytes()` throws for. The
  only number is 0, told apart from cells nobody has written. The theorems
  remove these bounds.
* `kernels`: four entries give 2x2 matrices, where row and column order differ,
  beside 1x4 and 4x1; every shape with 0 rows or columns up to 3 occurs;
  `reshape` is asked for dimensions from -2 to 5, axes go from -3 to 2, indices
  from -4 to 4. `MaxSize` and `Values` bound which answers are used again, not
  which are checked: the operands of `concat` and `sub` go up to 3x2.

Each property has a mutant: the definitions marked `mutation` in the modules are
plausible bugs of the code (reset forgets a layer, the causal mask is dropped,
the heads are appended instead of interleaved, the last token is decoded too,
`check=True` is missing, the `finally` clause runs only after a success, the
loop catches what a decode throws and decodes again, two weight tensors change
places, a moved-from tensor keeps its data, ...), and the property fails when
the mutated form replaces the real one.

What the properties say about the code:

* `CacheMirrorsHistory`, `LogitsFollowHistory`: caching is invisible. The state
  after any sequence of calls, failures included, is that of the cache-free
  decoder, or the model is stalled and says so.
* `OnlyFirstLayerRejects`: no guard of a kernel fires after a cache has been
  extended, so `std::invalid_argument` never leaves a half extended context.
  Only `std::bad_alloc` can.
* `OnlyLengthsAreRejected`: of the guards of all kernels only three ever fire,
  the end of the RoPE tables, the length of the cache and the empty prompt, each
  for its own reason and in the first layer. In particular an empty prompt gets
  through two reshapes, whose 0 rows mean "as the input", and both rotations.
* `CachesCoverTheContext`: between calls every cache has room for exactly the
  context, or those of the first layers are longer by the same tokens.
* `ImplementsContextLength`: which calls `forward` serves can be told from the
  length of the context alone, statement by statement as in one step; a run
  checks it for `ForwardShapes`, and it is proved for `Qwen3Model` too.
* `ImplementsTokenHistory`: the exact set of outcomes of each call; in
  particular a `decode` that threw `std::bad_alloc` may have taken its token in
  (`LogitsOutOfMemory`), so it must not simply be repeated.
* `GeneratedIsGreedy`, `PrintedIsGreedy`: every token is the argmax after the
  prompt and the tokens before it, all the way to what the script prints. The
  script cannot see that the program lost or cut its token file; it then prints
  a beginning of the continuation, in which the last token, and no other, may be
  one that was never generated: the digits that were left of it.
* `StartedRunsEnd`, `TempFileIsRemoved`: no run goes on forever, and the script's
  file is gone in the end, unless the script is killed or interrupted where no
  `finally` clause covers it.
* `UndisturbedRunsSucceedIfTheyFit`: a run succeeds if and only if prompt plus
  `--max-new` minus one fit the context; otherwise everything generated is lost.
* `OutputsAreComplete`: a token file only holds all tokens or was cut by a
  failed write, and the logits file belongs to the prompt.
* `WeightsInPlace`, `LoadNeedsAFinishedExport`: a load that succeeds has every
  column in its place, and some export had completed. It may still be a mixture
  of two exports; only a load that no export disturbs
  (`QuietLoadsAreAccepted`, `QuietLoadsAreWhole`) is accepted and gets one
  export's weights.
* `KeepsContract`, `BlocksAreBacked`, `NothingElseLeaks`: within the sizes and
  alignments the repository uses, the pool is an allocator; the one leak is a
  fallback block whose `push_back` throws.
* `OwnedIsAllocated`, `OwnersAreExclusive`, `NothingLeaks`: no double free, no
  free with the wrong allocator, no use of a pool that is gone, no leak.
* `MemoryMatchesShape`: every loop over `NumElements()` and every copy of
  `Bytes()` stays inside the block, after any sequence of moves, clones and
  allocations.
* `KeepsValues`: no operation on one tensor changes what another owner holds,
  even when blocks are freed and handed out again.
* The kernel properties: `reshape` accepts exactly the arguments that leave one
  shape open and keeps the data's order, `unsqueeze` is that same flattening,
  `gather` undoes `concat` along every axis, axes named twice or from the end
  are reduced once, and non-empty operands of `sub` broadcast as in Numpy.

## Fairness

`Qwen3Model` assumes `WF_vars(Progress)`: `forward` is a loop of kernels that
terminate, on one thread, so a call that has been made proceeds. `Qwen3Run`
assumes the same of `main`. `RunQwen3` assumes it of both processes separately
(`WF_all(ScriptStep)`, `WF_all(BinaryStep)`): the operating system starves
neither. Nothing is assumed about callers, failures, signals or about exports
and loads; `ForwardShapes`, `WeightFiles`, `MemoryPool`, `TensorStorage`, `TensorData` and
the kernels have safety properties only.

## The proofs

`Qwen3Model_proofs` proves, for every vocabulary, number of layers, positions
and heads (query heads divisible by key/value heads, as the kernel demands):

| theorem | states |
|---|---|
| `Invariance` | `Spec => []IInv` |
| `TypeCorrect` | `Spec => []TypeOK` |
| `CachesFollow` | `Spec => []CacheMirrorsHistory` |
| `LogitsFollow` | `Spec => []LogitsFollowHistory` |
| `FirstLayerRejects` | `Spec => []OnlyFirstLayerRejects` |
| `Implements` | `Spec => ImplementsTokenHistory`, the refinement |
| `ImplementsLengths` | `Spec => ImplementsContextLength`, the same with lengths for tokens |

The argument. `CacheOf(l, hist)` is the cache matrix a cache-free decoder would
fill for `hist`. `CacheMirrorsHistory` alone is not inductive: in the middle of
the loop some layers hold `history \o tokens` and others `history`, and after an
out-of-memory failure that stays so. `IInv` therefore says: in the loop, layers
below `layer_index` hold the extended history (`CachesAt`) and the stream rows
are those of the decoder (`StreamFollowsHistory`); between calls either all
layers hold `history`, or those below some `k >= 1` hold it extended by some
nonempty sequence that fits. In the second case layer 0's row count differs from
what `past_length_` implies, its guard rejects every decode, and nothing gets
past layer 0. The key lemmas are `PresentKeyMirrors` and `PresentValueMirrors`
(the block copies of the kernel turn `CacheOf` of a history into `CacheOf` of
the longer one; division and remainder by two different block lengths),
`LayerMirrors` (one pass keeps stream and caches equal to the decoder's) and
`LeaveExtended` (a failure leaves one of the states of `IInv`). The refinement
has one lemma per action; every action maps to one abstract action or a stutter.
Assumptions used: the heads, layers and positions are positive and divide as
stated, the prompt bound is positive, and `HiddenAssumption`.

`ForwardShapes_proofs` proves, for every number of layers and positions and all
dimensions that `ConfigAssumption` allows:

| theorem | states |
|---|---|
| `Invariance` | `Spec => []IInv` |
| `TypeCorrect`, `ShapesAgree`, `CachesAgree` | `Spec => []TypeOK`, `[]OnlyLengthsAreRejected`, `[]CachesCoverTheContext` |
| `Implements` | `Spec => ImplementsContextLength`, the refinement |

The argument. `LocalsKnown` gives, for each statement, the dimensions of the
locals that it or a later one reads; `CallKnown` which guards the call has
passed (`Accepted`); `CachesKnown` how far the loop has extended the caches.
One group of lemmas says what each kernel returns for such dimensions
(`MatmulAccepts`, `NormAccepts`, `HeadsAccept`, `RotaryAccepts`,
`AttentionAccepts`); `AssignKeeps` and `LeaveKeeps` say what a statement has to
show, and each group of statements has a lemma that shows it. `LayerCache` is
the heart of it: the first layer's cache decides whether a call whose tokens
some cache already holds is rejected, and once it has passed there, no later
layer rejects it. The refinement reads the same invariant at the places where a
call ends: a guard fires only where the call is not `Servable`, and a call that
gets to the return was, because the guards of the first layer are exactly the
three conditions of `Servable`.

`Tensor_proofs` proves, for any sets of tensors and blocks:

| theorem | states |
|---|---|
| `Invariance` | the conjunction of the four properties is inductive |
| `TypeCorrect`, `OwnedAllocated`, `OwnersExclusive`, `NoLeaks` | `Spec => []TypeOK`, `[]OwnedIsAllocated`, `[]OwnersAreExclusive`, `[]NothingLeaks` |

The argument. Every action changes some tensors and blocks and ends in `Become`,
which drops the pool with its last owner. The lemmas first show that the state
before `Become` satisfies the ownership properties that do not mention the pool
(`ReplaceSound` where a tensor gives up its block, `TakeSound` where it gets one,
`MoveSound` where a block changes owner), and `BecomeSound` that dropping the
pool then harms nobody: whoever owns a pool block refers to the pool and so holds
it.

The second part of `Tensor_proofs` proves, for any shapes and values too:

| theorem | states |
|---|---|
| `DataInvariance` | ownership as in `Invariance`, and memory that matches shapes |
| `MemoryMatches` | `DataSpec => []MemoryMatchesShape` |
| `KeepsStorage` | `DataSpec` implies the specification of `TensorStorage` |
| `Implements` | `DataSpec => KeepsValues`: tensors implement `TensorValues` |

The argument. A step of `TensorData` is one of `TensorStorage` as far as objects
and memory go (`StorageStep`), so that blocks have one owner and are allocated
while they are owned is not proved again. `ChangesKeep` says what a step then has
to show: only one tensor's value changes, in a way `TensorValues` allows.
`GivesUp` and `GetsMemory` show it for the operations that end a value and those
that make one; exclusive ownership is why writing one block leaves every other
value alone. `ShapesAssumption` (the products of dimensions are natural numbers
or unknown) and `ValueAssumption` are what is assumed.

`MemoryPool_proofs` proves, for every word size, set of sizes, alignments and
number of blocks, and under `RequestsFit`:

| theorem | states |
|---|---|
| `Invariance` | the inductive invariant below |
| `TypeCorrect`, `Backed`, `NoOtherLeaks` | `Spec => []TypeOK`, `[]BlocksAreBacked`, `[]NothingElseLeaks` |
| `Implements` | `Spec => KeepsContract`: the pool implements `Allocator` |
| `BlocksApart` | `Spec => []HeldBlocksAreApart`: blocks in use are aligned and disjoint |

`RequestsFit` says that a pool size, an alignment and a request together stay
below `Word`, and that every alignment divides that of the heap: what the
callers in the repository keep to. Neither half can be dropped, as `pool_word`
and `pool_alignment` show. The invariant has three parts: `HeapAccounted` (the
heap is the pool's range, the fallbacks and what was lost, all disjoint),
`PoolConsistent` (offset and base within the word) and `BlocksConsistent` (each
block lies in a fallback of its own, or in the pool below `offset`). A new pool
block starts at or above the old offset, which is why it is disjoint from the
others.

`WeightFiles_proofs` proves, for all dimensions, any number of layers and any
number of exports:

| theorem | states |
|---|---|
| `WeightInvariance` | `Spec => []Inv` |
| `TypeCorrect`, `StripsInPlace`, `LoadsAreFinished` | `Spec => []TypeOK`, `[]WeightsInPlace`, `[]LoadNeedsAFinishedExport` |
| `QuietAccepted`, `QuietWhole` | `Spec => []QuietLoadsAreAccepted`, `[]QuietLoadsAreWhole` |

The argument. The key lemma is about no state at all: `FileFloats` shows that
the loader's formula for the size of a file is the number of floats the script
writes into it, for all dimensions, and `SameFiles` that both sides list the same
tensors. In the invariant, `OnDisk` says that a file is always the beginning of
what the script writes, of some export; `Exporting` that the running export has
left complete files behind it, and that the *last* file is complete only if some
export has finished, which is why a load that got to the end had a finished
export before it; `Loading` the same for what was read; `Quiet` that an
undisturbed load sees the strips of one export only.

`Floats` adds up a sequence. The library's induction theorems take an operator as
a parameter, which the provers cannot instantiate; `DataInduction` states
induction for *sets* of naturals instead (`SetInduction`), from
well-foundedness of `<`. A recursive function is then shown to exist by putting
the lengths for which it does into such a set (`FloatsSteps`, `FlattenSteps`,
`ReadBack`), and what it computes is shown in the same way.

`Qwen3Run_proofs` proves, for every vocabulary, decoder, argmax, prompt and
number of generated tokens:

| theorem | states |
|---|---|
| `RunInvariance`, `RunFilesInvariance` | `Spec => []RunInv`, and with the token file |
| `TypeCorrect`, `Greedy` | `Spec => []TypeOK`, `[]GeneratedIsGreedy` |
| `SuccessIfFits`, `OutputsComplete` | `Spec => []UndisturbedRunsSucceedIfTheyFit`, `[]OutputsAreComplete` |
| `RunnerInvariance` | `RunnerSpec => []RunnerInv` |
| `RunnerTypes`, `PrintedGreedy` | `RunnerSpec => []RunnerTypeOK`, `[]PrintedIsGreedy` |
| `UsesModel`, `RunnerUsesModel` | `Spec => Model!Spec`, `RunnerSpec => Model!Spec` |
| `CallsASoundModel` | `Spec => []CallsFindItSound`: after a failure the model is not called again |

The argument. `RunInv` says, place by place of `main`, what the model object has
taken in: nothing at the start, the prompt in prefill, `Prompt \o
Front(generated)` while the last generated token is being decoded, `Prompt \o
generated` where the next one is chosen (`AtGenerate`). With `LastRow` (the last
row of what a call returns is the logits of the whole history) that makes the
loop's choice the greedy one. `ReturnedFrom` is the contract of `TokenHistory` as
`main` sees it, and the reason why errors without an outside cause mean that the
context was too short (`ErrorsHaveReasons`). `TokenFile(before)` follows the
token file from what was there before the run, nothing or the empty file of the
script, to the generated tokens, and `RunnerInv` carries it, with the steps of
both processes interleaved, to the point where the script reads the file back
(`ReadBack`). A file that was cut is one of `CutOff(generated)`, and what is read
of it agrees with `generated` in all places but its last (`BeginsAsGenerated`,
`CutFilesBegin`).

`RunInv` rests on `TokenHistory` and not on `Qwen3Model`. Two theorems close the
gap: `UsesModel` says that whatever a run does to its model object is a behaviour
of `TokenHistory`, and `Implements` of `Qwen3Model_proofs` that the object behind
it behaves like that.

`Kernels_proofs` proves, for inputs, operands and indices of any size and all
arguments:

| theorem | states |
|---|---|
| `ChainInvariance`, `KernelTypes` | `Spec => []IsMatrix(tensor)`, `[]TypeOK` |
| `ReshapeOnnx`, `UnsqueezeFlattens` | `Spec => []ReshapeFollowsOnnx`, `[]UnsqueezeIsReshape` |
| `GatherOnnx`, `ConcatUndone` | `Spec => []GatherFollowsOnnx`, `[]GatherUndoesConcat` |
| `SubFollowsNumpy` | `Spec => []SubBroadcasts` |
| `ReduceSumInAnyOrder` | `Spec => []ReduceSumComposes` |

The argument. Each property is a fact about matrices; the invariant only says
that the tensor is one. `MatrixAssumption` and `ArgumentAssumption` say the same
of what a chain is given; the bounds `MaxSize` and `Values` are arbitrary.
`PlaceOf` and `PlaceAt` take row-major places apart and put them together, which
settles the order of the data in `reshape` (`ReshapedData`) and of the indices
in `gather` (`IndexIs`, `IndicesVisited`). For the shapes of `reshape`, a factor
that is given determines the other unless it is 0 or no divisor
(`TheOtherFactor`), and 0 leaves at least two shapes open or none (`RowsOpen`,
`ColumnsOpen`). `FromEndIs` is why an index counted from the end is the remainder
by the extent.

`reduce_sum` adds over sets of entries. `SubsetInduction` is induction over
finite sets, stated for the *subsets* that have a property as `SetInduction` is
for naturals; by it a sum over a finite set exists (`SumSteps`), is an integer,
and loses one element's part when that element goes (`SumTakesOut`).
`SumOfParts` follows: a sum over a set cut into parts is the sum of the parts'
sums. Cut by columns (`ColumnsAddUp`) and by rows (`RowsAddUp`) it gives the
order independence; `AxisIs`, `AxesOfOne` and `AxesOfTwo` say which axes a
vector names, with repetitions and from the end.

Only model-checked: the liveness properties `ServableCallsAreServed`,
`StartedRunsEnd` and `TempFileIsRemoved`, because fairness is stated with
ENABLED, which is outside the prover's reach. Every safety property of the
passing runs, refinements included, has a theorem.

## Findings

* `pool_alignment` -- `src/src/core/memory/memory_pool.cpp:44`: the pool aligns
  the offset and not the address, and the fallback ignores the alignment.
  `allocator.h:16` promises "at least `alignment` alignment". Alignments up to
  that of `std::max_align_t`, the only ones the repository asks for, are kept
  (`memory_pool`).
* `sub_sizes` -- `src/src/core/sub.h:30`: the size of the result is the maximum
  of the operands', so that 1 against 0 gives 1 and the empty operand is
  rejected. `sub.h:13` promises "A dimension of size 1 is broadcast to the other
  operand's size, matching ONNX". Operands with entries are broadcast as
  promised (`kernels`).
* `pool_word` -- `src/src/core/memory/memory_pool.cpp:45`: `aligned_offset +
  size` wraps in `std::size_t`; a size near the maximum passes the capacity
  check. No caller in the repository asks for such sizes.

## What is not modelled

* Float numerics: rounding, softmax, the normalisation formula, `argmax` ties.
  Rows are terms. Comparison with golden logits is a test's job.
* An allocation that fails *inside* the assignment to a cache
  (`qwen3_model.cpp:106-107`): what an Eigen matrix holds then is decided by
  Eigen.
* Token ids outside the vocabulary. `main` takes any `int` from `--tokens`
  (`main.cpp:17,33`) and `embed` does not check it; reading a row that is not
  there is undefined in Eigen. The tokenizer and argmax never produce such ids,
  so `run_qwen3.py` never passes one on; of a `main` called by hand with one,
  nothing is shown.
* The public facade (a stub that is never built) and the ONNX golden, profiling
  and structure scripts (straight-line tools without shared state).
* Products of dimensions that overflow, in `int` in the kernels and in
  `std::int64_t` in `Shape`: no caller comes near, and C++ leaves the result
  undefined. Element types that do not fill whole cells of four bytes.
* Reads through a view whose owner has gone, or of inputs of `AddOp` that were
  never allocated: the code does not check, and the callers of the repository
  do neither. The model takes callers to keep to that (`Usable`). `cast` and `constant`, which convert
  or copy each entry and keep the shape.
* The operator registry: static initialisation fills its table once, before
  `main`, with one name, and nothing in the repository changes it afterwards.

## The plan

Done: the decoder, the dimensions in it, the runner and its script, the weight
directory, the memory pool, the ownership and the contents of tensors with
`AddOp`, the kernels of exported graphs, each with its proofs.

Left:

1. The operator registry, if it is ever written to after start-up.
2. A refinement of `WeightFiles` to a directory that is read and written in one
   step, where no export disturbs a load.
