# Verification of llvmexpr

TLA+ models of the VapourSynth filter `llvmexpr` (C++), checked with TLC and, where a
result should hold for every size, proved with TLAPS. File names below are relative to
`llvmexpr/` in the repository, unless they start with `docs/`.

## 1. Inventory

The plugin compiles an expression per pixel (`Expr`), per frame (`SingleExpr`) or for a
GPU (`VkExpr`). Text in infix notation is turned into postfix tokens, the tokens are
analysed, code is generated, and frame requests run the code on several host threads.

| Component | State it keeps | Operations | Talks to |
|---|---|---|---|
| Infix front end (`frontend/infix2postfix/`) | macro table, symbol tables, overload sets | preprocess, parse, analyse, emit postfix | calls the tokenizer's table of operators; its output is postfix text |
| Postfix tokenizer (`frontend/Tokenizer.cpp`) | none (a constant table of tokens) | `tokenize`, `get_token_behavior` | analysis, code generators |
| Analysis framework (`analysis/framework/`) | results of passes by type, per `AnalysisManager` | `getResult` (lazy), `invalidate` | all passes; shared by filter creation and by compilation |
| Analysis passes (`analysis/passes/`) | a result each | CFG, block summaries, stack depths, initialisation, validation, constants, array optimisations, structured control flow | each other, through the manager |
| LLVM code generation (`codegen/llvm/`) | stack of SSA names, PHIs, allocas | `generateIRFromTokens`, one virtual method per kind of token | the analysis results |
| GLSL code generation (`codegen/glsl/`) | output text, a stack of texts, slots per block | one method per token, structured emission, a state machine where that fails | the structurizer |
| Sorting networks (`codegen/Sorting.hpp`) | none (tables) | comparators of `sortN`, `argsortN` | both generators |
| Compiler and JIT (`runtime/llvm/`) | symbols of the process-wide `OrcJit` | `compile`, `addModule`, `getFunctionAddress` | called under `cache_mutex` |
| CPU filters (`llvmexpr.cpp`) | `jit_cache` (mutex), `expr_autotune_cache` (mutex), `compiled[plane]` (no mutex), a thread-local map of dynamic arrays | `exprCreate`, `exprGetFrame`, `singleExprCreate`, `singleExprGetFrame`, `genericFree` | VapourSynth calls them from several threads (`fmParallel`) |
| Vulkan filter (`llvmexpr.cpp`, `runtime/vulkan/VkExprExecutor.cpp`) | streams (buffers, command buffer, fence), queue of free indices, semaphore | `vkExprCreate`, `vkExprGetFrame`, `processPlane`, `vkExprFree` | the GPU, through a queue shared under `queue_mutex` |
| Vulkan context and caches (`runtime/vulkan/`) | contexts by device, shaders, descriptors bound | `getInstance`, `compileShader`, `updateDescriptorSets` | all executors of a device |

### What is hard here

* **Threads.** Frame requests of one filter run at once, and filters share the JIT, its
  cache and a GPU device. Two pieces of state have no lock (`compiled[plane]`), one has
  two locks that follow each other (the tuned tile and its function), and one is a
  semaphore, a queue and a mutex used together (the stream pool).
* **The GPU.** It works on buffers after the submission returned, until the fence.
* **Failures.** Allocation, submission, waiting and compilation throw through code that
  holds a stream, a mutex or frames.
* **Control flow of expressions.** Programs have labels and jumps, so the stack depth
  and the initialisation of variables are properties of all paths; the passes must reach
  fixed points and code must be generated before some predecessors are known.
* **Order of passes.** Passes change tokens that cached results refer to by index.
* **Two of everything.** LLVM IR and GLSL are generated by two classes from one table of
  tokens, and infix functions, which the language describes as calls, are inlined. In both
  cases two pieces of code must mean the same.
* **Values with a second meaning.** NaN payloads mark deleted properties and pixels that
  are not written; properties that are read and written share a cell.

### What makes each component correct

* Stream pool: no stream is lent twice, none is lost, the destructor waits for all.
* Executor: a frame is computed from its own pixels; nothing is touched under the GPU; a
  descriptor set refers to the buffers of its stream as they are now.
* CPU filter: a request calls a function compiled for its plane; a function is compiled
  once; no request keeps frames or the lock.
* Filter creation: clips are given back on every path; what is accepted compiles.
* CFG and stack safety: a program is accepted if and only if no execution underflows and
  all end with the expected depth.
* Initialisation: an accepted program reads only what it has written.
* Code generation: the generated code computes what the program does, on every path.
* Both back ends: they leave the same samples; the loops reach each pixel once; no read
  leaves its plane.
* Structurizer and GLSL control flow: the shader runs the blocks that the expression runs,
  with its operands.
* Array optimisations: the optimised program accesses the arrays the original does.
* SingleExpr: properties get the value and type of the last write; arrays keep what they
  are given, though they move.
* Infix front end: what the analysis accepts the postfix compiler takes, and inlining does
  not change what a program means.

## 2. Modules

| Module | Models | Kind |
|---|---|---|
| `StreamLease` | what the pool promises: streams are lent and given back | abstract specification |
| `StreamPool` | `acquireStreamIndex`, `releaseStreamIndex`, `drain`, the destructor | detailed; implements `StreamLease` |
| `VkExecutor` | `vkExprGetFrame`, `processPlane` and the descriptor cache; extends `StreamPool` | composition |
| `ExprJit` | `exprGetFrame`, `get_or_compile`, tile tuning | concurrent |
| `PostfixCFG` | tokens, blocks, labels, successors (`BuildCFGPass`) | operators |
| `StackSafety` | `BuildCFGPass`, `BlockAnalysisPass`, `StackSafetyPass` as a machine | algorithm |
| `StackCodegen` | `generateIRFromTokens`, then code and program executed side by side; extends `StackSafety` | algorithm and simulation |
| `InitDataflow` | `ForwardDataflowAnalysis`, `VarInitPass`, `StaticAllocReachabilityPass`, `ValidationPass`, then the execution | algorithm |
| `ArrayTokens` | tokens with arrays, and what `ValidationPass` requires of them, as properties of paths | operators |
| `ArrayOpt` | `ConstPropPass`, `StaticArrayOptPass`, `DynamicArrayAllocOptPass` as `singleExprCreate` runs them, then the written and the optimised program in step | algorithm and simulation |
| `Operators` | the table of tokens; what both generators emit for operators | operators |
| `SortingNetworks` | the tables and the odd-even merge of `Sorting.hpp` | operators |
| `PixelLoops` | the loops of `ExprIRGenerator`: tiles, rows, peeled and unchecked columns | algorithm |
| `Backends` | one expression on the CPU and on the GPU; extends the three above | simulation |
| `StructurizeCFG` | `StructurizeCFGPass`: components, node splitting, dominators, loops | algorithm |
| `GlslControl` | the control flow and the slots of `GLSLGenerator`, next to the expression | simulation |
| `Filters` | `exprCreate`, `vkExprCreate`, `singleExprCreate`, `Free` | sequential, with failures |
| `SingleExpr` | the life of a SingleExpr filter: collected properties, frames, cells, arrays; extends `Filters` | sequential, with failures |
| `InfixAnalysis` | syntax trees and `SemanticAnalyzer` | operators |
| `InfixCodegen` | `CodeGenerator` | operators |
| `InfixMeaning` | the language as `docs/infix.md` describes it, with calls | reference definition |
| `Infix` | a text from the analysis to its result | composition |
| `*_proofs` | theorems about the module before the underscore; `VkExecutor_proofs` begins with those about `StreamPool`, `StackCodegen_proofs` with those about `StackSafety` | proofs |
| `MC*` | values of the constants for TLC | instances |

Definitions preceded by "Faulty:" are variants of the definition that follows them, with
a mistake the code could have. They are used nowhere in the specifications; putting one
in the place of the definition shows that a property notices the mistake.

### StreamPool, VkExecutor

`StreamPool` splits `acquireStreamIndex` into the semaphore, the lock, `front()` and
`pop()`, and `releaseStreamIndex` into lock and push, then the semaphore, because other
threads run in between. `pc` is where each caller is. The destructor (`BeginDrain`,
`DrainPermit`, `Destroy`) takes as many permits as there are streams.

`VkExecutor` adds frame requests: a host thread takes a frame, goes through the planes,
and for each processed plane leases a stream, reallocates or reuses its resources, packs
the sources, updates the descriptors, records, submits and waits, then unpacks. A buffer
holds the frame and the plane its contents come from, so that "the wrong picture" is
visible. `bound` is the descriptor cache (`VulkanComputePipeline.cpp:190`): it compares
handles, and the driver may give out the handle of a destroyed buffer again. The GPU is an
actor of its own (external): it reads and writes the buffers at some moment between the
submission and the signal of the fence. Allocation, submission and waiting may fail, as
often as `MaxFaults` says; the exception releases the stream (`StreamReleaser`) and becomes
an error of the frame. A wait that fails may leave the GPU at work on buffers which the
next caller uses; `abandoned` records it, and the safety properties say nothing of what
follows: that is a hazard of the code, which does not wait for the device there. The same
action stands for `resetFences`, which may throw after the wait (`VkExprExecutor.cpp:689`) and
leaves a fence that the next submission cannot use.

### ExprJit

One request per thread. `compiled`, `jit_cache`, `tuned` and the mutex are shared; the
key of a function stands for the text `generate_cache_key` writes. The critical section
of `get_or_compile` is three actions (lock, look, compile), so that a missing lock would
be noticed. The JIT refuses to define a symbol twice, as LLVM does.

### Filters, SingleExpr

`Filters` takes the steps of a creation in their order (`CheckClips`, formats, stages,
planes); what throws goes to the catch block that frees the clips. An expression is
reduced to what the passes say of it. `nodes` counts the references to clips. `crashed` is
the division at `llvmexpr.cpp:1272`: `subSamplingW` is a logarithm, and 0 for RGB and
4:4:4, so the size of planes 1 and 2 is divided by zero. Two more observations: formats of
the clips are not compared, only width and height, and an empty expression copies a plane
even if `format` has another depth.

`SingleExpr` has one cell for each property that is read or written, as the generated code has.
Types of properties are decided by the text (`PropWriteTypeSafetyPass`); `did` records what the
program itself said last, for `PropsAsWritten`. `Analyse` refuses a program whose stack does
not balance (`Heights`, `Balanced`); one that ends with a jump may leave values. Arrays are
buffers that move when they grow; `pointer` holds what generated code keeps for each
allocation, and `stored` what the request has stored itself. An access uses the pointer of the
allocation that is last in the text before it (`Allocation`, the map `array_ptr_cache` of the
generator); where the array has moved since, it reaches anything (`Garbage`). `Dangles` names
the arrays that are exposed to this, by the jumps of the program. A frame request fails in the
compiler or ends; `refs` counts its frames.

### PostfixCFG, StackSafety, StackCodegen

A token keeps its kind, label, arity and stack effect. Blocks are named by their first
token. The order of the worklist, the early exits and the limit on `processed_count` are
those of the code. `home`, `before` and `last` are what the loops of the passes know of
a token at the time they look at it.

`StackCodegen` keeps the code's stack of names (`rpn`), the stacks at the end of blocks
and the entries of PHIs, then executes: the program on values, the code on names, both
with the same outcomes of conditions. A value tells which token produced it and the
parity of the execution, so stale values of an earlier iteration are told apart.

### InitDataflow

One action per block and round of the solver, one per token of `ValidationPass`. Both
analyses start as the code starts them: all names for the intersection, none for the
union, and the boundary value at block 0 whatever leads to it. Duplicate predecessors are
a set here; both meets are idempotent.

### ArrayOpt

One action per block of constant propagation, one per transformation, one for the analysis
of what they leave. `program` is the text, `tokens` what the passes make of it; blocks are
always those of `program`, because the analysis manager is asked once and never
invalidated. The analysis that follows has a manager of its own; what it accepts is stated
as properties of paths (`Typed`, `Initialised`, `AllocatedOnce` of `ArrayTokens`), which
`StackSafety` and `InitDataflow` show and prove of the algorithms. A popped empty vector
ends the model (`undefined`). Two operators that fold stand for all: one that always gives
a number and one that may give a NaN. Programs are a constant: `MCArrayOpt` joins phrases, the
proofs allow any. `NewIndex` relates the two programs token by token;
`Allocated` records the size an array was last given. A load stands for stores too.

The properties name the cases in which the code does not keep them, and TLC finds a
program for each: a loop that starts with values on the stack is rejected by constant
propagation (`ConstPropPass.cpp:63`), though `StackSafetyPass` accepts it; an allocation of
constant size in a loop is made static and then rejected as repeated; a removed allocation
is one that was needed, in a loop or after tokens have moved; a NaN at the end of a block
keeps constant propagation going for ever. `StaticArrayOptPass` knows a size only if it
comes from an earlier block: within a block it takes every token, numbers too, to leave an
unknown value (line 94), so `10 buffer{}^`, the example of
`tests/test_optimization_passes.py:50`, stays dynamic.

### Operators, SortingNetworks, PixelLoops, Backends

Numbers count halves, so that rounding is visible; what both generators hand to a library
is one uninterpreted function. `PixelLoops` is the control of the loops only. `Backends`
runs it, stops at the pixel that is watched, and takes words one at a time: the CPU keeps
values, the shader keeps texts, which are temporaries, literals or names of variables.
`PlaceCpu` and `IndexGlsl` are the places that a read reaches; `LoadsStayInside` says that
they are in the plane for every read that the expression could make where it is.

The two back ends differ for the causes listed in `Excluded`, and only for those in the
expressions checked (leaving one out of the set makes TLC show an expression for it):

* `alias`: a variable is stored while a load of it is on the stack. `GLSLGenerator.cpp:1429`
  pushes the name, so `1 a! a@ 2 a! a@ +` is 4 in the shader and 3 on the CPU
  (`docs/postfix.md:225`).
* `literal`: the negation of a negative literal is written `--5.0`, which no GLSL compiler
  takes.
* `Mod`: GLSL floors, the CPU truncates (`docs/postfix.md:125` says `fmodf`).
* `Copysign`: GLSL takes the sign of 0 to be 0 (`docs/postfix.md:168`).
* `halves`: bitwise operators round halves to even on the CPU; `docs/postfix.md:190` says
  away from zero.
* `undefined`: GLSL leaves `clamp` with its bounds exchanged and `pow` of a negative
  number undefined.

### StructurizeCFG, GlslControl

`StructurizeCFG` is a function from a graph to a graph with post-dominators and loops. A
program brings the number of blocks that copying must not exceed; in the code it is 256 or
eight times the blocks. Predecessors are part of the graph, because copying leaves them as they
were and a split that the limit stops (`StructurizeCFGPass.cpp:266`) never writes them down
again; and copies that were made before the limit stopped both transformations are dropped with
them, since neither then says that it has changed the graph (`MakeReducible`). `GlslControl`
emits the structure (`Describe`) as a tree of statements and interprets it one statement at a
time next to the expression: `where` is the block the expression is at. The structured form is
used unless the graph stays irreducible or emission fails, then the state machine.

`StructureIsSound` compares the result with the paths of the graph, by removing blocks and
looking at what is still reached, and with none of the fixed points of the pass: the graph is a
copy of the expression's; success means that every cycle is entered at one block, failure that
the copies of one with several entries would exceed the limit; loops are the jumps back that no
path reaches but through their target, with the blocks of the loop, all of them and no others;
post-dominators and follow blocks are the first that close all paths to the end.

`OperandsArrive` holds unless the shader has taken one of these edges, each of which the
model gives a name in `causes` and TLC finds an expression for:

* `silent`: a branch goes straight to a join, or falls through to the block the emission
  stops at, with operands on the stack. No statement is written for that edge, so the
  slots of the join are not assigned. Example: `x x 128 > skip# 2 * #skip`.
* `parallel`: slots are assigned one after the other (`emitStackToEntrySlots`), and the
  text of one operand is a slot that was assigned just before, as after `swap` in a loop.
* `machine`: in the state machine a block with one predecessor, or one that copying has left
  without predecessors, has no slots and uses texts of the block emitted before it, which need
  not be the one that runs before it.

The comment at `StructurizeCFGPass.cpp:197` takes a component with one entry for reducible.
A cycle with several entries inside of it is not looked for, so it is neither split nor a reason
for `success` to be false; `StructureIsSound` asks for one entry of whole components only.
Emission fails for such a cycle and the state machine is used, which `FollowsThePath` includes.

### InfixAnalysis, InfixCodegen, InfixMeaning, Infix

`Infix` analyses and generates statement by statement, as both visitors do; within a
statement they are functions (the trees are data), in which every check and every update
of a table has its place. `InfixCodegen` copies bodies with their variables renamed by
function and call. The generated postfix program is then checked as the postfix compiler
checks it and executed by the machine at the end of the module. `InfixMeaning` is the
reference: an interpreter with real calls and fresh variables, bounded by `Fuel`.

What `SemanticAnalyzer` accepts and the postfix compiler refuses is listed in
`AcceptedIsValid`:

* in a function, a `goto` backwards into a block skips definitions; only gotos forwards are
  compared with the variables of their label (`SemanticAnalyzer.cpp:1183`;
  `docs/infix.md:495` speaks of all paths);
* a function whose last statement returns is taken to return always, gotos or not;
* a function that assigns a global it declares reads its own renamed variable;
* calls in functions, arguments, elements and `nth` are not asked for their globals;
* labels in blocks at the top level may be there twice;
* `return f()` passes though `f` returns nothing; an array may be allocated in a loop.

A `Clip` or `Literal` parameter that is assigned keeps its first value, because its uses
are replaced by the argument: the exception of `InliningKeepsMeaning`.

## 3. Runs

| Run | Shows | Bounds |
|---|---|---|
| `pool` | `front()` on a queue with an element, nothing in use at destruction; implements `StreamLease`; the destructor ends; a waiting caller is served | 4 callers, 2 streams: both streams lent, two callers waiting, the destructor at any time |
| `vk_executor` | a frame shows itself only, streams are quiet, descriptors are current, no loss without a failure, every frame is answered | 2 threads, 2 streams, 2 frames, 3 planes (one copied), 2 buffers, 2 handles, 1 failure: every reuse of a stream by another thread, and of a handle by another buffer |
| `jit` | own functions, published tiles are compiled, no symbol twice, frames are freed once and only once, requests end | 3 requests of 2 filters with one key in common, one tuning 2 tiles; 3 planes, one copied; compilations may fail |
| `codegen` | accepted programs are typed and typed programs are accepted; the limit never strikes; depths, and code follows program | all programs of up to 5 of 7 tokens with 2 labels; up to 4 tokens, and loops of 6, with dup and swap |
| `codegen_trailing_jump` | **violated**: a trailing jump is taken always | up to 4 tokens, ending in a jump |
| `init_analysis` | no uninitialised read; rejections have a path; a static allocation is repeated only through block 0; the solver ends | all programs of up to 5 of 7 tokens, 2 labels, with a variable or with static and dynamic allocations |
| `array_passes` | constants hold on every path; sizes agree; propagation ends with its second round and pops nothing that is not there; valid programs stay valid | 18 phrases of 1 to 9 tokens, up to four in a row; two values of unknown operators |
| `array_removed_in_loop` | **violated**: an access in a loop finds the size of an older allocation | 3 phrases |
| `backends` | same samples on both back ends; every pixel once; reads inside; sorting words as documented | families of words: arithmetic up to 4, stack moves 6, arrays 7, reads 3, writes 5; planes up to 5 by 2, tiles 0 to 3, offsets -3 to 2; sorts of 1 to 9 operands, each of 0 and 1 |
| `glsl_control` | the shader follows the path, operands arrive, the structure is that of the graph | all graphs of 5 blocks with an empty stack, of 4 blocks with up to 2 operands; 4 effects of blocks; small blocks or not; up to 12 blocks after copying. Irreducible graphs of 5 blocks with room for 8, and graphs with a cycle of three blocks that are all entered from outside, of which the limit leaves one copy of two |
| `filters` | clips and frames are given back; properties as written; arrays hold; accepted programs compile | 3 filters with lists of clips, formats, and expressions right and wrong; SingleExpr programs of up to 3 of 20 phrases; 8 kinds of source frames, 2 frames |
| `infix` | accepted programs are valid; inlining keeps the meaning | 8 shapes of control flow around 2 statements, at the top and in a function called twice; 9 overloads, 7 callers, 10 calls; numbers below 3, fuel 8 |

Two labels, forward and backward jumps and five or six tokens give loops, joins, branches
into the middle of a program, nested and overlapping loops: what the passes do depends on
the shape of the graph around one block, and every shape of up to four blocks is there.
Where programs must be longer (`ArrayOpt`, `SingleExpr`, `Infix`) they are put together
from phrases, each a fragment that one of the passes reacts to. A graph that is not
reducible needs three blocks, and five give one inside a loop, which is where splitting
and the state machine begin. Sorting networks sort everything if they sort all inputs of
zeros and ones; nine operands are the first that the tables of the model do not have, so
that both the tables and the merge are used. The pixel loops have all their cases in
planes wider than the two margins, as wide, and narrower. The proofs remove the bounds for
`StreamPool`, `VkExecutor`, `ExprJit`, `StackSafety`, `StackCodegen`, `InitDataflow`,
`ArrayOpt`, `SingleExpr` and, but for the sorting words, `Backends`.

`CHECK_DEADLOCK FALSE` is used where the system stops: all frames are answered, the
executor is destroyed, the passes or the program have ended.

### Disagreements found

Two have a run of their own:

* `codegen/llvm/IRGeneratorBase.cpp:928`: a jump that is the last token has one successor,
  its target, and gets an unconditional branch. `docs/postfix.md:494` says a false
  condition continues with the next instruction. (The stack depths still fit, as a
  program that never ends has no final depth to check.)
* `analysis/passes/DynamicArrayAllocOptPass.cpp:111`: the search for accesses after an
  allocation does not enter the allocation's own block again, so it misses an access before
  it in a loop and removes the allocation. The comment of the pass (`.hpp:30`) promises to
  look at all paths. After `StaticArrayOptPass` has inserted tokens it also searches with
  stale indices; `SizesAgree` excepts both.

The others are named exceptions of properties, so that a run shows that nothing else is:

* `analysis/framework/ForwardDataflowAnalysis.hpp:78`: the boundary value replaces what
  back edges bring to block 0, so a loop that starts with the first token may repeat a
  static allocation (`ReallocationThroughStart`). `docs/postfix.md:281` promises an error.
* `codegen/llvm/SingleExprIRGenerator.cpp:512`: an access uses the pointer of the allocation
  that is last in the text before it, from when that allocation was executed
  (`array_ptr_cache`). If a jump leads to it from another allocation of the array,
  which may have moved the array, the pointer dangles, though `docs/postfix.md:297` says that
  values are preserved in reallocations. `ArraysHold` excepts these arrays (`Dangles`).
* A property of clip 0 that is read and conditionally written is written back
  (`PropsAsWritten`; `docs/postfix.md:424`). `p$d x.p q$f` deletes `q` too, since what is
  read after a deletion is the marker. A deletion that stands first makes the type float.
* Absolute access (`ClipAbs`) is accepted for SingleExpr at creation and throws at the
  first frame, and so do two allocations of one array joined by a jump
  (`AcceptedCompiles`).
* The causes of `BackendsAgree` and `OperandsArrive`, the cycles that `StructureIsSound` does
  not speak of, and the exceptions of `AcceptedIsValid` and `InliningKeepsMeaning`: see the
  modules above.

One is no exception of any property, only what the model does: `llvmexpr.cpp:693` clears the
arrays for every frame (`ClearArrays`). `docs/postfix.md:293` says that they persist across
frames and warns against using it, `docs/infix.md:1107` says that they do not. `ArraysHold`
therefore speaks of what the same request has stored, and of nothing else.

## 4. Fairness

* Pool and executor: weak fairness of each thread, of the destructor and of the GPU (a device
  either signals the fence or is lost). Operating-system mutexes and semaphores wake waiters
  but promise no order, so a thread that competes for the mutex or a permit has weak fairness
  too: it may lose to others for ever, and the properties promise no caller its turn while
  others keep calling.
* `ExprJit`: weak fairness of each request. A request takes finitely many steps under
  the mutex, so the mutex is free for ever in the end and the last waiter gets it.
* Passes (`InitDataflow`, `ArrayOpt`): weak fairness of the one thread that runs them.
* `Infix`: weak fairness of the generated program, which is sequential and waits for
  nothing; that it ends where its meaning is defined is then its own doing.
* `Backends`, `GlslControl` and `SingleExpr` state no fairness: they have safety properties
  only.

## 5. Proofs

`VkExecutor_proofs`, first part, on `StreamPool` (any number of callers and streams): types,
exclusive streams, permits and indices that add up (these three are proved only),
`FrontBacked`, `DestroyedQuiescent`, and that every step of the pool is a step of `StreamLease`
or a stutter. The invariant relates the length of the queue, the permits of the semaphore and
the callers between the two: the queue alone is not inductive, because a caller with a permit
that has not reached `front()` yet must find an index.

`VkExecutor_proofs`, second part (any number of callers, streams, planes and frames, and any
number of faults): every behaviour of the executor is one of the pool, so what is proved of the
pool holds in it; types; `FrameIntegrity`, `StreamQuiet`, `DescriptorsCurrent` and
`LeakNeedsFailure`. None of these is inductive. `ControlInv` ties the statement a request is at
to what it holds of the pool; with the exclusive streams of `PoolInv` it follows that only one
request touches the resources of a stream. `QuietInv`: a stream is quiet unless its owner waits
for it, and a lost device runs nothing. Without the second part the invariant is not inductive:
a wait that fails on a lost device leaves the stream to the next caller, and only an idle GPU
makes that harmless. `DataInv` follows one frame through a stream: what is staged is the
request's while it prepares, what is computed is its own once the fence is signaled.
`PlanesInv` carries that from plane to plane until the frame is returned. `BufferInv` says that
a descriptor set names buffers by the count of their creation as well as by the handle: the
handle alone would not do, because the driver may give it to the next buffer. `LeakInv` says
that with no fault every buffer belongs to a stream that knows it.

`ExprJit_proofs` (any number of requests, filters, planes and tiles): types,
`CallsOwnFunction`, `PublishedIsCompiled`, `NoFrameLeaks`. The invariant `IInv` has six
parts: `MutexInv`, who is in the critical section; `PlaceInv`, which plane and tile a
request is busy with; `CacheInv`, what is in the cache when a request relies on it;
`CalledInv`, that the field without a lock only ever holds functions of its plane;
`SymbolInv`, that the cache and the symbols of the JIT correspond until a compilation
fails; `RefsInv`, how many frames a request holds at each point. The property about calls
needs `CacheInv` of *other* requests: what is published was cached by someone who has left
the critical section.

`StackCodegen_proofs`, first part, on `StackSafety` (any set of programs, of any length):
types, soundness (`AcceptedIsTyped`), completeness (`TypedIsAccepted`, for typings of any
size), and `HeuristicSilent`. `WalkInv` says that the summary of a block accounts for every
token walked; `FlowInv` that every block with a depth waits, is at hand or has served its
successors; `CountInv` that the processed blocks and the waiting ones add up to those with a
depth (each is pushed once, so the limit is out of reach). Completeness has an invariant of its
own, `RigidInv`: any typing agrees with every depth found so far, so a rejection contradicts
it.

`StackCodegen_proofs`, second part (any set of programs, of any length): `DepthsRealised` and
`CodeFollowsProgram`, that is, the generated code simulates the program. Every behaviour is one
of the passes alone, so the code is generated for a typed program. The generator walks the
tokens in order, while a typing follows the jumps; the two meet because a jump is conditional,
so that the token after it is one of its successors and the depths are known in the order of
the tokens (`CodeInv`). `Written` says which names are before a token: those its predecessor
leaves, or PHIs where edges meet. A block with one predecessor is entered from the block before
it, so its final stack exists when it is needed; that is why the generator never meets an empty
`block_final_stacks` entry it should not. `PhisInv` describes the entries of the PHIs edge by
edge, `EmitCommutes` says that a token does the same to names as to their values, and
`Transfer` that crossing an edge keeps the values, all PHIs moving at once; names are older
than the token that is executed (`OlderThan`), so a new value never overwrites one still on the
stack, not even in a loop. `ExecInv` is the simulation itself. A program whose last token is a
jump is excepted there, as in the property: its code is not where the program is (section 3,
`codegen_trailing_jump`).

`InitDataflow_proofs` (any set of programs and names): types, `NoUninitialisedRead` and
`ReallocationThroughStart`. `SolverInv` says which blocks already agree with their
predecessors: those the current round has passed, if it has changed nothing, so a round
without a change leaves a fixed point of both analyses. `CheckInv` says that what
`ValidationPass` carries from token to token is the fixed point at that token. `RunInv` is
the meaning of the fixed point: wherever the execution is, what the analysis calls
initialised has been written, and what may have been allocated contains what has been. The
exception for block 0 is in the invariant too, because the boundary value there ignores the
back edges. The converse, `UninitialisedIsJustified`, has an invariant of its own, `JustInv`:
what the out set of a block lacks is missing on some path to its end, so a read that is
refused is reached without a write. Blocks are followed token by token by taking the least
counterexample (`LeastOf`), and the paths of the property are those of the blocks because
jumps are conditional: every block but the first has the one before it as a predecessor.

`Backends_proofs` (any planes, tiles, offsets, clips, library functions, words and stacks):
`EveryPixelOnce`, `BackendsAgree` and `LoadsStayInside`. For the loops, `Passed` describes the
pixels that control has left behind, in the order of five nested loops; `LoopInv` says that
those were visited once and no others, `PlaceOK` bounds the counters at each loop header, and
`UncheckedHolds` that the range without a check reads inside the plane. `AgreeInv` says that
every text on the stack of the shader stands for the value on the stack of the CPU, that
variables and arrays are the same, and that so are the samples. Each word keeps it
(`EveryWord`): both generators compute the same (`ComputeAgrees`), read the same place although
one mirrors with a remainder that may be negative and the other with a modulus, and the shader
packs its planes (`SamePlace`, from `MirrorsAgree` and `Packed`), and sort alike, because a
select on a comparison is a minimum and a maximum (`SortsAgree`, which follows the recursion of
`After` by the least step at which two sorts differ). The one word that changes what a text
stands for is a store to a variable (`TextsKeep`). The hypothesis `Known \subseteq Excluded`
says that the expression avoids the causes of divergence listed in section 2; without it
`BackendsAgree` is false, and TLC shows an expression for each cause. The theorems speak of the
values that the exploration admits, up to any bound below the number that marks an exit.

`ArrayTokens_proofs` has the lemmas on paths that the next two modules share. `ReachedStep`,
`ReachIsClosed` and `ReachIsLeast`: the stages of the closure under successors grow until they
stop, they stop within the length of the program, and every token found is at the end of a
path. `RecursionExists`, `IsUnfolding` and `UnfoldsOnce`: a function defined by recursion on an
index exists and satisfies its defining equation, so `tlapm` may unfold it one step at a time.

`ArrayOpt_proofs` (any programs, names, values of unknown operators, and threshold): types and
the four properties of the run. The stages are these.

* `ConstInv` says of every block constant propagation has passed that its stacks are what its
  predecessors and its tokens give, at the depth of the paths that lead there (`ConstFacts`).
  `PropagationEnds` follows: a block that is entered from behind has, in the first round, a
  predecessor without a stack, so it is either rejected or keeps the empty stack, and the
  second round computes what the first did. Only a NaN, which differs from itself, counts as a
  change again; that case is named in the property.
* `PassTokens` says what the tokens are after each pass: those of the program, in their order,
  with allocations replaced and a `drop1` before each converted one (`Moved`). Paths and depths
  of the two correspond in both directions (`TypedForward`, `TypedBackward`, `ReachBack`); the
  closure that defines depths is complete within its stages if they agree (`DepthsClosed`).
* `Executing` is a simulation: at every token the stack of the execution agrees with the stacks
  that constant propagation and `StaticArrayOptPass` have there (`AgreeStep` for a token,
  `MergeAgrees` for a join). At the start of a block that is `ConstantsHold`, and at a
  converted allocation it says that the constant is the size.
* `SizesInv` says where the sizes of an array may differ: between a removed allocation and the
  allocation that made it look unneeded (`Region`). Whoever passes the first is in the region
  (`RegionEntered`) and stays there until the second (`RegionKept`), and there is no access in
  it unless the block of the first is entered again (`RegionAccess`). After a conversion the
  indices are stale and the invariant claims nothing of arrays with a removed allocation; both
  cases are named in the property.
* `ValidProgramsAccepted` has one lemma for each way to be rejected: by constant propagation
  (`DepthsRejected`), for an allocation that is repeated (`OnceRejected`), for an access that no
  allocation precedes (`MissedRejected`). Depths cannot be the reason, since the tokens of a
  typed program stay typed.

`SingleExpr_proofs` (any calls, programs, properties and writers of properties): the four
properties of the run. `HandlesBalance` needs `CreationInv` and `FrameInv`, which count the
references to clips at every step of a creation and of a request, the steps that throw
included. `AcceptedCompiles` needs `AcceptedInv`: the functions that exist come from programs
that passed every check. Its argument is that control which meets a token of an accepted
program meets it with the stack of `Heights`, so the last token is the end of a path with an
empty stack, and that a label which is jumped to exists. `Heights` is a recursive function on a
set found by closure, on which see `ArrayTokens_proofs`. `PropsAsWritten` has `ValuesInv`: the
cell of a property holds what the program stored last, in the type that the text gives it, and
a cell that was read but not written still holds what the frame came with; the cells are those
`required` and `output` name, and `Collected` says that these are what the text reads and
writes. `ArraysHold` has `PointersInv`: an allocation that control may have passed since an
array was last allocated has the pointer of the present buffer, because what could move the
buffer lies on no path from there (`PointedStep`, `WhatMoves`). So an access of an array that
does not dangle reaches the array (`PointerIsCurrent`), and `ContentsInv` follows: what a store
notes is what it writes, and growing keeps it.

The proofs assume the named assumptions on constants in `StreamPool`, `StreamLease`,
`VkExecutor`, `ExprJit`, `StackSafety`, `StackCodegen`, `InitDataflow`, `PixelLoops`,
`SortingNetworks`, `ArrayOpt`, `Backends`, `Filters` and `SingleExpr`:
finite sets of callers, at least one stream, the value for "no frame" different from every
frame and handle, tokens that take no more than they need, planes that are not empty and
offsets that include the pixel itself. `StackCodegen` assumes what `get_token_behavior` says of
dup, swap, labels and jumps, and that no token adds more than one value to the stack (its
arities and effects, `Tokenizer.cpp:618-660` and the table after it); the depths of an
accepted program are bounded by its length for that reason. `Filters` and `SingleExpr`
assume of a call and a program what the arguments and the tokenizer make of them: known
formats, at least one clip where there is any, the fields of each kind of token, and numbers
as values of properties. `ArrayOpt` assumes that its programs are sequences of the tokens that
the tokenizer makes, that sizes are natural numbers and that the threshold is positive.
`SortingNetworks` assumes of its fixed tables that every comparator
is between two of the inputs, which TLC computes, and `Backends` that words have the fields
that the tokenizer captures. TLC evaluates all of them.

Model-checked only:

* `GlslControl` and `Infix`: the code generator for structured shaders and
  the visitors of syntax trees call themselves, and so do the operators that model them. In a
  module that declares a recursive operator the prover has no arithmetic, and what the operators
  write is a tree of any depth, to be reasoned about by induction over data.
* `SortsAsDocumented` of `Backends`: that a network sorts is computed for each size; what a
  recursive definition computes for every input needs induction over data, which the prover
  does not have.
* All liveness, of which the prover knows neither fairness nor `ENABLED`.
* The two runs that expect a violation: there is nothing to prove.

## 6. Not modelled

* `Preprocessor.cpp`, the infix tokenizer and the parser: text to text and text to tree.
  The models begin at trees and at tokens. The same holds for the recognition of token
  texts in `Tokenizer.cpp`.
* The builtins of the infix language (one call to one token), its library, which is infix
  text itself, and the tools beside the plugin.
* `<global.all>` and modes other than Expr in the infix front end; arrays have one element
  and one operator stands for all. Not in the model, but seen while reading: isolation of
  `<global.none>` is not enforced (`docs/infix.md:941`), recursion is found by name, and
  both sides of `&&`, `||` and the ternary operator are evaluated.
* The LLVM pipeline, the fallback without fast math, the polynomials of `Math.hpp`: floating
  point. What operators compute in `Operators` is exact arithmetic on halves; half-float
  conversion and fast-math flags are left out.
* Of Vulkan: choice of the device, the static map of contexts (one critical section),
  compilation of shaders, contents of command buffers. Calls of Vulkan, VapourSynth and LLVM
  appear as external actions.
* Sorting networks in tables for 9 to 64 operands: data of the same form. The model's
  tables end at 8, and it uses the merge rule from 9 on.
* Negative sizes of dynamic arrays: `llvmexpr_ensure_buffer` converts them to `size_t`, so
  `resize` throws through generated code. `docs/postfix.md:288` leaves them undefined; the
  programs of the model allocate none.
* Wording of errors, dumps, environment variables.

`PROJECT.json` lists every component with its state.

## 7. Plan

What runs concurrently and what decides which programs are accepted came first, then the
two back ends, the filters and the infix language. What is left, in order:

1. The parts of `StructureIsSound` on copies and on dominance, as theorems about
   `StructurizeCFG`, which declares no recursive operator.
2. The preprocessor: conditionals, macro arguments, the end of recursive expansion.
3. Builtins with a state of their own (`dyn`, `store`, `prop`), and `<global.all>`.
4. The table of tokens against the tokens of `SingleExpr` for GLSL, where a mode refuses
   what the other takes.
