# easy_ntt in TLA+

easy_ntt wraps TensorRT and CUDA for inference on one GPU. This directory holds TLA+ models of
the part of it where state, order and failure matter, TLC configurations that check them on small
instances, and TLAPS proofs that what the passing runs check holds for every size. Paths below are relative to `src/`.

## 1. Inventory

| part | state it keeps | operations | what is hard |
|---|---|---|---|
| `TensorRTEngine` (`src/tensorrt_engine/tensorrt_engine.cpp`) | configuration, `io_frozen_`, `tensor_map_`, `user_binding_addresses_`, execution stream, CUDA graph with the shapes it was captured at, ready events; and, inside TensorRT, the context's shapes, addresses and profile | construction, `SetBindingShape`, `SetOptimizationProfile`, `SetBindingAddress`, `FreezeIO`, `SetInputData`, `InferAsync`, `GetOutputData`, `Execute`, graph control | the same fact (a shape, an address) is kept in the tensor, in the context and in a captured graph; calls come in any order; loops return in the middle |
| streams and events (`src/driver/cuda_stream.cpp`, `cuda_event.cpp`, and their use in the engine) | work enqueued on `stream_` and on the execution stream, one event per input and output | record, wait, synchronise | the device runs the streams at its own pace; only events order them |
| `Tensor` (`src/tensorrt_engine/tensor.cpp`) | dims, byte size, cached capacity, a shared `CudaBaseMemory` | `Resize`, `Reshape`, `View`, `ViewFrom`, copies | capacity and size are kept twice, in the tensor and in memory that others share |
| `CudaBaseMemory` (`src/driver/cuda_base_memory.cpp`) | pointer, byte size, capacity, registered / asynchronous / view flags | allocate, free, register, copy, destroy | two device allocators with a fallback, memory it does not own, failures that leave half a state |
| `CudaGraph`, `CudaGraphExec` (`src/driver/cuda_graph.cpp`) | a graph handle, the stream it captures, `is_capturing_`; a shared executable | construct, move, begin, end, destroy; instantiate, copy, launch, update | a failing `EndCapture`, moves and destruction during a capture, two objects on one stream |
| NVTX scopes (`src/nvtx/nvtx_scoped.cpp`) | one process-wide atomic flag; `pushed_` and `previous_` in each scope | ranges, conditional ranges, warm-up pauses, the setter | the flag changes during a range; pauses that overlap on several threads |
| voxelization (`src/kernels/voxelization.cu`) | counters and rows in device memory that the client owns | three kernels, one behind the other | threads take slots by atomic counters that run past their capacity; nothing is cleared between frames |
| preprocessing (`src/kernels/preprocess_cuda_kernels.cu`) | one device flag for all gather calls and one for all fuse calls, made once | gather, fuse (two kernels), normalise | callers share the flag, the thread's last CUDA error outlives a call |
| BEV-pool plugin (`src/plugins/bev_pool_v2/`) | none | `enqueue`: zero, pool; serialise | the two steps are on two streams |
| logger, utilities, device monitor | none | - | - |

The client (one host thread; the engine has no locks) calls the engine. The engine owns the
tensors; each tensor owns or shares one `CudaBaseMemory`, made with `stream_` as its stream, on
which it therefore allocates, frees and copies. Addresses travel from `CudaBaseMemory` through
`Tensor::mutable_data()` to `setTensorAddress`, and from there into a captured graph; the properties below
are about these copies staying true. What makes each part correct:

* engine: whatever is launched uses current addresses and shapes, live memory and enough of it;
  frozen addresses never move; what is read back is what the latest inference wrote;
* streams: copies, inferences and reallocations that touch the same buffer never overlap, each
  reads what was meant for it, also when an event could not be recorded;
* graph wrapper: a capture belongs to one object that can end it, an object has the graph of a capture of its own, and
  each CUDA handle is destroyed when its last user goes;
* kernels: each slot is filled by one thread, every voxel, token or cell with input gets its result and nothing of
  an earlier call, and a call reports its own fault;
* NVTX: pushes and pops match, and the flag follows the pauses;
* tensor and memory: each block has one owner, which frees it once, with the allocator it
  came from; no copy leaves its block; a size that was accepted can be copied.

## 2. Modules

    TensorBuffer                    what a tensor promises: memory moves only to grow
      ^ implemented by (proved)   ^ implemented by (proved)
    EngineTensor                TensorRTEngine
      | EXTENDS                     EngineStreams (device order; stands alone)
    Tensor
      | EXTENDS
    CudaBaseMemory                  CudaGraph (stands alone; the engine does not use the wrapper)

    Voxelization    KernelCalls    NvtxScopes     (each stands alone, as its code does)

The theorems about `X` are in `X_proofs`, which extends it; `EngineTensor_proofs` is about `Tensor` as well, and
extends `CudaBaseMemory_proofs`.

* **CudaBaseMemory** - several objects over one allocator. `mem[o]` has the fields of the class;
  `heap` says of each block whether it is unused, live or freed, its size and its allocator. One
  action per method; `AllocateMemory` has the branches of the code (nothing asked, reuse, free and
  reallocate with either allocator, fail). `Transfer` stands for `Memset` and the four `Memcpy`, which make
  the same tests; the abort of `CUDA_CHECK_NOTNULL` is the variable `aborted`.
* **Tensor** - `tensor[t]` with its cached `byte_size` and `capacity_bytes`; every action is the
  tensor's own update and an action of `CudaBaseMemory`. Sharing by `shared_ptr` is `SoleOwner`.
* **EngineTensor** - the calls the engine makes on a tensor, in the combinations it makes them
  (`SetInputData`: `Reshape`, else `Resize`; `UpdateOutputShapes`: `Resize(bytes)` or `Reshape`), beside a client
  that has memory objects of its own from the same allocator (`ClientMemory`, every call of CudaBaseMemory but views).
* **TensorBuffer** - abstract: size, capacity and address of a buffer. The address changes only when the buffer must
  grow beyond its capacity or is released, and no two buffers have the same.
* **TensorRTEngine** - the engine as one thread drives it. One action per public method that changes state,
  each the whole handler with its early returns and partial failures; `Execute(inputs, outputs)` is
  a program counter `exec` over the same methods, a step for each of its calls. `ctxShape`, `ctxAddr` and `profile`
  are the execution context; `graph` is the captured graph with everything it bakes in; `launch` and
  `got` are history variables for the properties. A shape is an opaque value with a size, an
  allocation is `<<tensor, number>>`.
* **EngineStreams** - the device. `issued[s]` is what was enqueued on stream `s`, `done[s]` how much has completed,
  `running` which streams are inside an operation, so that two operations can be seen to overlap. An
  event is `<<stream, count>>`. `SetInputData`, `InferAsync`, `GetOutputData`, `SetStream`, the growth of an output
  (`GrowOutput`) and the blocking calls enqueue exactly the operations, records and waits of the code, on the streams the code uses; `ClientRead` is
  a client that makes a stream of its own wait through `WaitOutputReady` and reads the output there. Recording an event may fail: the call returns false, its work is under way, and the event of
  an earlier call stays in its place. `returned` is the client's memory of the latest calls that returned true. `cells` says which allocation each of the two
  tensors has; an operation names the allocations it reads and writes.
* **CudaGraph** - objects over CUDA's capture modes and handles. `capture[s]` is the capture mode of a stream with the number of its
  capture, `handle` and `instance` what CUDA has handed out; `graph[g]` has the fields of `CudaGraph`, and `mine` and `before`, the
  capture it began last and the one whose graph it had then. A capture may end spoilt, or with success and no graph (`EndedWithoutGraph`). One action per constructor, destructor, move and method; `Invalidate` is CUDA spoiling a capture.
* **Voxelization** - the threads of the three kernels. `pc` and `taken` are where each thread is and the slot it took;
  `buffer` has a field for each buffer of the call. The threads interleave between their `atomicAdd` and what they do with its result; in the third kernel, between
  reading the number of pillars and the rest. A point is its thread, with a cell or out of range; a feature says which points and which cell it was computed from.
* **KernelCalls** - host threads inside `LaunchGather...`, `LaunchFuse...` and the plugin's `enqueue`, one action per runtime call or launch, over
  a queue of device operations that CUDA orders by stream, and through the legacy default stream (`Ordered`). `flag` and `scratch` are the shared device flags and
  their pointers, `last_error` is the sticky error of each thread. `enqueue` does not look at its two launches
  (`LaunchUnchecked`): a refused one, or one with an empty grid, leaves only that error.
* **NvtxScopes** - the live scopes of each thread as a stack; the constructor of a pause is two steps, its load and its store.
* **MC...** modules give the constants values; each definition marked `Slip` in a module is a
  plausible mistake in the definition that follows, kept to show that a property can fail.

Operations of one host thread are atomic in the modules of the engine, its memory and its graphs: no code between
the entry and the return of a method lets another run. Inside EngineStreams a host call is atomic since it
only enqueues, and the device interleaves freely with it. Voxelization, KernelCalls and NvtxScopes take a step for
each access to what threads share.

## 3. What TLC checks

| run | question | properties |
|---|---|---|
| EngineFreeze | max-profile engines, frozen by the constructor or later, with graphs | `TypeOK`, `GraphCurrent`, `LaunchFits`, `GetDelivers`, `FrozenLocked` |
| EngineAllocFaults | four configurations, allocations fail anywhere | `FrozenBound`, `LaunchCurrent`, `LaunchLive`, `TensorMapIsBuffers` |
| EngineMemory | the engine's tensors and a client over one failing allocator, with a registered page | `CopyAccepted`, `TransferLive`, `OneOwner`, `ClientKeeps`, `TensorsAreBuffers` |
| TensorShare | tensors sharing memory or viewing the client's | `TensorTypeOK`, `TensorsOwnMemory`, `CapacityBacked`, `TransferInBounds` |
| GraphObjects | `CudaGraph` objects and shared executables of a careful client | `GraphTypeOK`, `CaptureOwned`, `OwnGraph`, `HandlesOwned`, `InstancesShared` |
| StreamsCareful | three streams, growing buffers, records that fail, a reading client, every order of the device | `StreamsTypeOK`, `NoRace`, `BufferLive`, `InputCurrent`, `OutputDelivered` |
| VoxelSlots | every order of the threads over small frames | `SlotsOwned`, `PillarsComplete`, `FeaturesCurrent` |
| KernelCallers | two threads, three functions, streams of every kind, failing CUDA calls and refused launches | `CallHonest`, `EmbeddingsComplete`, `PoolComplete` |
| NvtxThreads | two threads of nested ranges and pauses | `RangesMatch`, `FlagFollowsPauses` |

**Bounds.** Engine: one dynamic input and one output, three shapes of 1, 2 and 4 bytes; profile 0
admits the first two, so that every shape can be refused, fit or need growth, and `MaxAllocs = 2` lets each
tensor move once after its construction, which is all that a stale address needs. Memory: two tensors and two objects in all,
three blocks and a page of the client; tensors of 1, 2 and 3 bytes and the client's allocations of 0 and 2: one owner may free while the other allocates, and a tensor may be
given less than it once had and more than it has now. TensorShare: three
tensors over one object, or a client's buffer. Graphs: two objects, streams, executables and instances, three captures and three handles - one object that failed, or is overwritten,
besides one that captures, and one capture more. Streams: two `SetInputData`, two `InferAsync`, one read of
the output, by the engine or on the client's stream, and one reallocation of the input or the output, over three streams - a race, an
overtaking, or an event of an earlier call, needs two of one kind. Voxels: two batches of three cells and two pillars, two points per voxel, frames of up to four points in all: a voxel may get
more points than it holds, a batch has as many pillars as there are, and one thread of the last block is beyond the points. Calls: two rows of three tokens and two image features, one input with no mark, one with a
row that has room left and a full row, and one with a row that has too many. Scopes: three deep on two threads, a pause in a pause with a range around or inside. Blocks, objects, tensors and callers are symmetric. Deadlock is checked
in Voxelization, KernelCalls and NvtxScopes, where it would be a kernel that does not end or a call that does not return. It is not in the others: there the client may
stop at any time, engines are destroyed, and the bounds end every behaviour.

**Fairness.** None is assumed: no property here says that something must happen. A client may stop at any time; and that a blocking call of the engine
returns says nothing about the engine, since an event can only be of work that is already enqueued, so that waits follow the order of the calls
whatever the engine does. That a kernel or a call of the threads in Voxelization, KernelCalls and NvtxScopes cannot stop halfway is checked as absence of deadlock.

**The careful client.** With an external stream, nothing in the engine orders an inference before the next
`SetInputData`, since copies stay on `stream_`. `Careful` states what a client must do, and has to be an
assumption: it waits for inferences on an external stream before it overwrites their input and before it changes the stream,
on an external stream it infers after a `SetInputData` and after its asynchronous reads are known to be over, it takes a false result for an answer (what it sets or reads
next on another stream, it sets or reads after a call that returned true, or after it synchronised), it reads an output only after an
inference into the allocation it has, and has an output grown only when nothing it knows of uses it.
With `Careful = FALSE` TLC finds `InputCurrent`, `NoRace`, `BufferLive` and `OutputDelivered` violated within a few calls.
The careful client of CudaGraph assigns to no object that is capturing (the defaulted move assignment would drop the capture), and begins no capture
beside an object whose `EndCapture` failed: that object still believes to be capturing, and would end the capture and take
its graph. With `Careful = FALSE`, `CaptureOwned` and `OwnGraph` are violated.
The careful client of Voxelization has no more nonempty voxels in a batch than `max_pillar_num`, clears the two counters on the stream before each frame, and keeps a zero behind
`points_size`, which the threads of the last block read. The careful client of KernelCalls has one caller of gather and one of fuse at a time, drains the
streams of a call, and clears the CUDA error, before the next one; it may run the plugin on any stream. That of NvtxScopes has no pauses that overlap on two threads
and sets no flag during one. Nothing in the code enforces any of these: with `Careful = FALSE`, `CallHonest`, `EmbeddingsComplete`, `PoolComplete` and `FlagFollowsPauses` are each violated.

### Disagreements between code and comments

Three runs show the code doing something else than a comment of the repository says; each must be violated.

* **EngineExecute** - `tensorrt_engine.hpp:256`: `Execute` runs with "explicit host/device pointers"; once a device pointer was bound, a later call with a host pointer fills the tensor and runs on the old device pointer.
* **MemoryView** - `cuda_base_memory.h:21`: a view "does not own the underlying pointer"; `FreeMemory`, or growing it, frees that pointer.

* **VoxelOverflow** - `voxelization.cu:78` and `:85`: `max_pillar_num` pillars per batch, and buffers of that size; a thread takes its pillar with an `atomicAdd`
  that it never compares to `max_pillar_num`, and writes to the pillars of the next batch, or behind the buffers. The third kernel limits the count, after the fact.

Seen in the code and modelled, with no run of their own: `SetBindingShape` resizes no tensor (`tensorrt_engine.hpp:179` says it does), an output that grew keeps its old dims
(`:312`), and with another profile selected first the frozen memory is not that profile's maximum (`:241`).

**The plugin on the engine's stream.** `stream_` is non-blocking (`tensorrt_engine.hpp:272`), and nothing orders it with the zeroing that `enqueue` puts on the default stream
(`trt_bev_pool_kernel.cu:63`). `PoolComplete` says what is left of its promise there: once the zeroing is over, a cell is zero, or it has points and is pooled; a pooled cell may have been zeroed
afterwards. On a stream that synchronises with the default one the output is exact. Both are asked of a thread that finds no CUDA error, which is the only trace of
a refused launch; without intervals the pooling has an empty grid, and CUDA refuses it each time (`:58`).

**A capture without a graph.** When `cudaStreamEndCapture` succeeds and gives no graph, `EndCapture` warns, returns true and keeps the graph of the
object's own capture before (`cuda_graph.cpp:64-69`). `OwnGraph` allows this and nothing else.

Others of the same kind, recorded as hazards in PROJECT.json and left out of the passing runs' instances:
a view that grew leaks its new block (EngineMemory has no views); `RegisterHostMemory` on an object that has memory leaks it and leaves a
stale capacity (`OneOwner` demands an owner of device blocks only); without max-profile buffers an output grows only after the inference that needed
it; a failed growth of shared memory leaves other tensors with a capacity that is gone.

## 4. What is proved

Every safety invariant, the action property and the two refinements of section 3 are theorems, for all
values of the constants that satisfy the named assumptions of the modules (`EngineAssumption`, `MemoryAssumption` and so on). The last
column has the hypotheses that a theorem adds; each is explained below, and the instance of the run meets it.

| module | theorem | states | under |
|---|---|---|---|
| TensorRTEngine_proofs | `TypeCorrect`, `GraphIsCurrent`, `FrozenIsBound`, `LaunchIsCurrent`, `LaunchIsLive`, `FrozenIsLocked` | `TypeOK`, `GraphCurrent`, `FrozenBound`, `LaunchCurrent`, `LaunchLive`, `FrozenLocked` | |
| | `TensorMapRefines` | `TensorMapIsBuffers` | |
| | `LaunchFitsTheorem` | `LaunchFits` | `MaxProfileBuffers` |
| | `GetDeliversTheorem` | `GetDelivers` | `MaxProfileBuffers`, a dynamic input |
| EngineStreams_proofs | `StreamsTypeTheorem` | `StreamsTypeOK` | |
| | `RaceFreeTheorem`, `BufferLiveTheorem`, `InputCurrentTheorem`, `OutputDeliveredTheorem` | `NoRace`, `BufferLive`, `InputCurrent`, `OutputDelivered` | `Careful` |
| CudaBaseMemory_proofs | `MemoryTheorem` | `TransferLive`, for objects alone | |
| | `MemoryOwnedTheorem` | `OneOwner`, for objects alone | `NoViews` |
| EngineTensor_proofs | `TensorTypeTheorem`, `TransferTheorem` | `TensorTypeOK`, `TransferInBounds` | |
| | `TensorsOwnTheorem` | `TensorsOwnMemory` | `ViewsFit` |
| | `CapacityTheorem` | `CapacityBacked` | `NeverFails` |
| | `EngineTransferTheorem`, `CopyAcceptedTheorem`, `TensorsRefine` | `TransferLive`, `CopyAccepted`, `TensorsAreBuffers`, with the client beside the engine | |
| | `EngineOwnedTheorem` | `OneOwner`, with the client | `NoViews` |
| | `ClientKeepsTheorem` | `ClientKeeps` | `NoViews`, `OnePage` |
| CudaGraph_proofs | `GraphTypeTheorem`, `HandlesOwnedTheorem`, `InstancesSharedTheorem` | `GraphTypeOK`, `HandlesOwned`, `InstancesShared` | |
| | `CaptureOwnedTheorem`, `OwnGraphTheorem` | `CaptureOwned`, `OwnGraph` | `Careful` |
| Voxelization_proofs | `SlotsOwnedTheorem`, `PillarsCompleteTheorem`, `FeaturesCurrentTheorem` | `SlotsOwned`, `PillarsComplete`, `FeaturesCurrent` | `Careful`, `NoPointBehind` |
| KernelCalls_proofs | `CallHonestTheorem`, `EmbeddingsCompleteTheorem`, `PoolCompleteTheorem` | `CallHonest`, `EmbeddingsComplete`, `PoolComplete` | `Careful` |
| NvtxScopes_proofs | `RangesMatchTheorem` | `RangesMatch` | |
| | `FlagFollowsPausesTheorem` | `FlagFollowsPauses` | `Careful` |

### The arguments

Hardly one of the properties is inductive alone. Each proof module defines the invariant it needs, has a lemma for each
action, and draws the theorems from it at the end.

* **TensorRTEngine.** A launch with a graph uses the graph's addresses, so `LaunchCurrent` needs `GraphCurrent`, which
  needs that an unfrozen engine has no graph; a frozen engine does not bind, so it needs `FrozenBound`; a launch on live memory needs that only a
  graph captured with no null address is kept. `IInv` is these with `EnteredUnfrozen` (the engine is not frozen, and has no graph, before its
  constructor freezes it) and `GraphAddressed` (a graph has no null address). `Execute` is reduced to the lemmas of the methods
  it calls. For room, `RoomInv` adds that every tensor has what the first profile's maximum needs (`RoomForAll`), that the
  context has admitted shapes only (`Admitted`), and that therefore no output ever moves (`OutputsStay`, `LaunchStays`). The refinement shows for each action that every
  tensor idles, changes in place, grows or is released (`NextMoves`).
* **CudaBaseMemory.** `MemoryInv`: a pointer of an object that is no view is to a live block (`PtrLive`), no two such objects have the same
  (`PtrUnique`), a destroyed object has none. `DeviceOwned` (each live device block has an object; a view has the pointer of a buffer of
  the client) and `PagesHeld` are the parts that hold only without views, or for one page.
* **Tensor and EngineTensor.** `TensorInv` ties sizes, counts of sharers and memory: an object's size is within its block (`SizesFit`), each
  live tensor has a live object and each live object a tensor (`ObjectsOwned`). The engine's own way of calling adds
  `TensorsBacked`: each tensor has an object of its own, with the capacity it remembers, all of which is the object's size. The refinement of TensorBuffer
  follows step by step: with the client's calls beside, each call of the engine on a tensor is one abstract step and the others stutter. Both of its sides are proved.
* **EngineStreams.** `StreamsInv` has the types, that every event is of work already enqueued, and that nothing has begun before what it
  waits for (`WaitsKept`). The order of the device is `Ordered`: of two operations where one has to come first (`Precedes`: a write before the inferences
  that read it, an inference before the next write, a use before the free, ...), the first is earlier on the same
  stream, already done, or included in an event the other waits for (`Before`; `Covers` takes events two deep, since an output-ready event stands for the input-ready
  event its inference waited for). To keep `Ordered` when a call enqueues, `CallsInv` says what is on which stream (`OnStreams`, `InCallOrder`), that the ready
  events are those of the latest calls that returned true (`EventsKept`), and that the allocation of the output is made before whatever touches it (`OutputMade`); `DeviceInv` says what the work done so far has left in the buffers.
  `NoRace` and `BufferLive` follow from `Ordered`: conflicting operations are ordered one way or the other, and what must be over before another begins is.
* **CudaGraph.** `ObjectsInv` (each live handle has exactly the object it is of) and `ExecsInv` hold for every client; `CaptureInv`, that a capture belongs to
  one object and that an object has its own graph, needs the careful one; `GraphsOwn` is the second part made inductive: while an object captures, its graph is that of `before`, which is what a capture without a
  graph falls back to.
* **Voxelization.** `VoxelInv` says for each kernel what its threads have taken and stored so far: the slots taken of a counter are distinct and are those below it, and
  a thread's store is in its own slot (`PointsTaken`, `PillarsTaken`, `FeaturesTaken`); and what a finished kernel leaves to the next (`VoxelsFilled`,
  `PillarsFilled`). The counts are cardinalities of sets of threads.
* **KernelCalls.** `CallInv`: one caller of gather and one of fuse (`Alone`), the queue in order (`InOrder`), and for each caller what of its work is still in the queue and what
  the rest has done (`Suffix`, `Progress`, `Outcome`). Of a pooling that lost a launch, or is on a non-blocking stream, this is known only as far as it goes (`Loose`); `Clean` has the rest: once such a call's
  zeroing is over, every cell is zero, or marked and pooled.
* **NvtxScopes.** `RangesInv` matches the open ranges with the scopes that pushed one, in order; `PausesInv` says that only one thread
  has pauses (`OnePausing`), that they saved the client's value first and then false (`PausesSaved`), and the flag in terms of both.

TLC finds each of these invariants to hold on the instance of the run whose properties it carries.

### The hypotheses

| hypothesis | says | without it the code |
|---|---|---|
| `Careful` | the client does what section 3 describes | breaks the property, as section 3 tells |
| `NoViews` | the client makes no views | a view that grows leaves its new block behind, and its destructor does not free (`cuda_base_memory.cpp`; run MemoryView) |
| `ViewsFit` | viewed buffers are as large as anything their tensors are resized to | the same |
| `OnePage` | there is one page to register | a second `RegisterHostMemory` on an object drops the first page, registered (`cuda_base_memory.cpp:257`) |
| `NeverFails` | device allocations succeed | a failed growth of shared memory leaves other tensors with a capacity that is gone |
| `NoPointBehind` | there is a zero behind `points_size`, or no thread beyond the points | threads of the last block read behind the array (`voxelization.cu:45`) |
| `MaxProfileBuffers` | persistent buffers at the maximum, allocated; no later profile admits more than the first | the outputs of an inference grow after it, or are of the wrong profile |
| a dynamic input | `Dynamic # {}` | a frozen static engine does not look at its outputs again |

### What the proofs found

* Two guards of a `CASE` in KernelCalls overlapped, where the code has an `if` and an `else if`: TLA+ leaves the value open there. The model was wrong and now follows the code.
* `GetDelivers` does not follow for an engine with no dynamic input, and `ClientKeeps` not for two pages, for the reasons in the table.
* An output-ready event has to include its inference's input wait: for a reader on another stream the second hop of `Covers` is what
  orders the read behind the allocation of the output.

### What is model-checked only

The three runs
that expect a violation have no theorem. What bounds the runs also bounds the specifications that are proved (numbers of calls, blocks and
so on), but there as arbitrary constants.

## 5. Abstractions and what is not modelled

* Bytes in buffers are not kept: an inference is what it was launched with, an output is the run that wrote it.
* An engine with dynamic outputs has dynamic inputs. `Execute` is given every tensor. Copies and
  `cudaGraphLaunch` do not fail; waiting on an event does not fail; allocation, capture and recording do.
* TensorRTEngine keeps which outputs have an event, not which inference it is of; EngineStreams does, of one output, so that a loop over several outputs that fails in
  the middle (`tensorrt_engine.cpp:879`) is seen as a failure of the one output concerned.
* `SetInputData` is called with sizes that match its dims; the refusals of malformed arguments change no state.
* `LaunchFits` and `GetDelivers` are checked without allocation failures: a growth that failed has lost the buffer and the code
  goes on until `CUDA_CHECK_NOTNULL`.
* `enqueue` of the plugin is called with the one data type that `supportsFormatCombination` accepts; its refusal of another is left out.
* EngineStreams has one input and one output; an output that is not read does not matter.
* A voxel index that float rounding carries past the grid (`voxelization.cu:53`) is not reached: a point in range has a cell. The sums and offsets of features are sets of points.
* A device operation of KernelCalls is atomic; two callers' kernels never write the same output.
* Sizes are naturals without width.
* Not modelled: loading of files and plugins, auxiliary streams, `SetDeviceMemory`, tensors in host memory, raw events kept by a client, logging, shapes
  as arithmetic, creation flags and priorities of streams (calls into TensorRT and CUDA with no state of this code); pixel normalisation, sums of products in BEV pooling, bfloat16 rounding (arithmetic of single values); the plugin's
  formats, serialisation and registration, the logger, tables of names and the device monitor (no state that changes).

## 6. Plan

Done: every module above, and the theorems of section 4. What is left:

1. TensorRTEngine: `GetDelivers` for static engines, from the output shapes that the constructor resolves; what `Execute` keeps for clients with host pointers only.
2. Action properties of memory and tensors (what no call may do to another object's block), with their proofs.
3. CudaGraph: an executable launched has the content of the graph it was last updated from.
