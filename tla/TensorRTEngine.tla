--------------------------- MODULE TensorRTEngine ---------------------------
(***************************************************************************)
(* The I/O, shape and CUDA-graph control of TensorRTEngine                 *)
(* (src/tensorrt_engine/tensorrt_engine.cpp), as one host thread drives it *)
(* through the public methods of a successfully deserialised engine.       *)
(*                                                                         *)
(* Abstractions.  An I/O tensor is its index in the engine.  A shape is an *)
(* opaque value with a size in bytes.  A device allocation is <<t, g>>,    *)
(* the g-th allocation of tensor t: the code never compares addresses, so  *)
(* a fresh one for each allocation loses nothing.  The contents of the     *)
(* buffers and the order of work on the GPU are not kept here.             *)
(***************************************************************************)
EXTENDS Naturals

CONSTANTS
    NbIOTensors,       \* the I/O tensors are 0 .. NbIOTensors - 1, in engine order
    Inputs, Outputs,   \* a partition of them
    Shapes, Bytes,     \* concrete shapes and the bytes each one needs
    Dynamic,           \* the inputs whose engine shape has a -1
    FlatShape,         \* engine shape of a tensor with dims <= 0 made 1
    Profiles,          \* optimization profiles; 0 is the default one
    Admits,            \* Admits[p][i]: shapes profile p accepts for input i
    MaxShape,          \* MaxShape[p][i]: the kMAX shape of that profile
    OutShape,          \* OutShape[o][s]: shape of o when the inputs have s
    UserPtr,           \* device pointers the client owns
    Streams, Internal, \* CUDA streams, and the engine's own one
    Configs,           \* the configurations the client constructs with
    Faults,            \* which of "alloc", "capture", "event" may fail
    MaxAllocs,         \* bound: allocations of one tensor
    Null, None, Unresolved, HostPtr   \* nullptr; absent; a -1 shape; a host pointer

Tensors == Inputs \cup Outputs

ASSUME EngineAssumption ==
    /\ NbIOTensors \in Nat
    /\ Inputs \cup Outputs = 0 .. NbIOTensors - 1
    /\ Inputs \cap Outputs = {}
    /\ Bytes \in [Shapes -> Nat \ {0}]
    /\ Dynamic \subseteq Inputs
    /\ FlatShape \in [Tensors -> Shapes]
    /\ 0 \in Profiles
    /\ Admits \in [Profiles -> [Inputs -> SUBSET Shapes]]
    /\ \A p \in Profiles, i \in Inputs \ Dynamic : Admits[p][i] = {FlatShape[i]}
    /\ MaxShape \in [Profiles -> [Inputs -> Shapes]]
    /\ OutShape \in [Outputs -> [[Inputs -> Shapes] -> Shapes]]
    /\ Null \notin UserPtr /\ None \notin UserPtr /\ HostPtr \notin UserPtr
    /\ (UserPtr \cup {Null}) \cap (Tensors \X Nat) = {}
    /\ Unresolved \notin Shapes
    /\ Internal \in Streams
    /\ MaxAllocs \in Nat \ {0}

\* TensorRT orders the shapes of a profile: kMAX is the largest of them, and no
\* output is larger than at the kMAX inputs.
ASSUME ProfileAssumption ==
    \A p \in Profiles :
        /\ \A i \in Inputs : /\ MaxShape[p][i] \in Admits[p][i]
                             /\ \A s \in Admits[p][i] : Bytes[s] <= Bytes[MaxShape[p][i]]
        /\ \A o \in Outputs, s \in [Inputs -> Shapes] :
              (\A i \in Inputs : s[i] \in Admits[p][i])
                 => Bytes[OutShape[o][s]] <= Bytes[OutShape[o][MaxShape[p]]]

VARIABLES
    phase,         \* "new", "allocated" (inside the constructor), "ready", "aborted", "gone"
    config,        \* config_ ; .graph is also cuda_graph_enabled_
    io_frozen,     \* io_frozen_
    tensor_map,    \* tensor_map_: shape, byte size, capacity and allocation number
    profile,       \* the context's optimization profile
    ctxShape,      \* the context's input shapes
    ctxAddr,       \* the context's tensor addresses
    user_binding_addresses,
    stream,        \* external_stream_, or Internal while it is null
    graph,         \* the captured CUDA graph with cuda_graph_tensor_shapes_, or None
    output_ready,  \* the keys of output_ready_events_
    launch,        \* history: what the latest inference was launched with
    got,           \* what the call that just returned copied to the host, or None
    ret,           \* the result of the latest call
    exec           \* progress of Execute(inputs, outputs)

buffers == <<tensor_map, ctxAddr>>
context == <<profile, ctxShape>>
running == <<graph, output_ready, launch>>
vars == <<phase, config, io_frozen, tensor_map, profile, ctxShape, ctxAddr,
          user_binding_addresses, stream, graph, output_ready, launch, got, ret, exec>>

Idle == [stage |-> "idle"]
AllocNumber == 0 .. MaxAllocs
Address == {Null} \cup UserPtr \cup (Tensors \X AllocNumber)
Config == [persistent : BOOLEAN, max_profile : BOOLEAN, auto_freeze : BOOLEAN, graph : BOOLEAN]

ASSUME ConfigAssumption == Configs \subseteq Config

-----------------------------------------------------------------------------
(* Tensors, as far as the engine uses them: mutable_data(), Reshape and the *)
(* two Resize overloads.                                                    *)

\* An allocation of n bytes succeeded, or failed leaving the tensor empty.
Allocated(r, n) == [r EXCEPT !.bytes = n, !.cap = n, !.alloc = @ + 1]
AllocFailed(r, n) == [r EXCEPT !.bytes = n, !.cap = 0]
Reshaped(r, s) == [r EXCEPT !.shape = s, !.bytes = Bytes[s]]
\* Slip: the capacity is not compared.
CanReshapeAlways(r, s) == TRUE
CanReshape(r, s) == Bytes[s] <= r.cap

OwnAddr(t, r) == IF r.cap = 0 THEN Null ELSE <<t, r.alloc>>

-----------------------------------------------------------------------------
(* The TensorRT execution context, as the engine uses it.                   *)

Resolved == \A i \in Inputs : ctxShape[i] # Unresolved
ContextShape(t) ==
    IF t \in Inputs THEN ctxShape[t]
    ELSE IF Resolved THEN OutShape[t][ctxShape] ELSE Unresolved
\* enqueueV3 refuses unset shapes and unset addresses.
Enqueueable(addr) == Resolved /\ \A t \in Tensors : addr[t] # Null

-----------------------------------------------------------------------------
(* Helpers of the engine.                                                   *)

BoundAddr(tm) == [t \in Tensors |->
    IF user_binding_addresses[t] # None THEN user_binding_addresses[t]
    ELSE OwnAddr(t, tm[t])]

ResetCudaGraph == graph' = None
ShouldUseCudaGraph == config.graph /\ io_frozen

CudaGraphShapesMatch ==
    /\ graph.shape = ctxShape
    /\ \A o \in Outputs : graph.outShape[o] = tensor_map[o].shape

\* The room the memory at address a offers to tensor t: nothing if it is freed.
Room(t, a) == IF a # Null /\ a = OwnAddr(t, tensor_map[t]) THEN tensor_map[t].cap ELSE 0

Launched(addr, shape) ==
    [addr |-> addr, shape |-> shape, bound |-> BoundAddr(tensor_map), asked |-> ctxShape,
     room |-> [t \in Tensors |-> Room(t, addr[t])]]

\* A call that returns without having changed anything.
Refuse == /\ ret' = FALSE /\ got' = None
          /\ UNCHANGED <<phase, config, io_frozen, buffers, context,
                         user_binding_addresses, stream, running>>

\* UpdateOutputShapes walks the outputs in engine order and stops at the first one
\* it cannot update; stop is that output, or one past all of them.
Past == NbIOTensors
Grows(o) == /\ ContextShape(o) # Unresolved
            /\ Bytes[ContextShape(o)] > tensor_map[o].cap
MayStop(stop) ==
    \/ stop = Past
    \/ stop \in Outputs /\ Grows(stop) /\ (io_frozen \/ "alloc" \in Faults)
\* Slip: outputs may grow although the I/O is frozen.
MayPassFrozen(o) == ~Grows(o) \/ tensor_map[o].alloc < MaxAllocs
MayPass(o) == ~Grows(o) \/ (~io_frozen /\ tensor_map[o].alloc < MaxAllocs)

\* Slip: an output that fits keeps its old shape.
UpdatedIfGrown(o) ==
    IF Grows(o) THEN Allocated(tensor_map[o], Bytes[ContextShape(o)]) ELSE tensor_map[o]
UpdatedOutput(o) ==
    IF ContextShape(o) = Unresolved THEN tensor_map[o]
    ELSE IF Grows(o) THEN Allocated(tensor_map[o], Bytes[ContextShape(o)])
    ELSE Reshaped(tensor_map[o], ContextShape(o))
StoppedOutput(o) ==
    IF io_frozen THEN tensor_map[o] ELSE AllocFailed(tensor_map[o], Bytes[ContextShape(o)])

UpdateOutputShapes(stop) ==
    /\ MayStop(stop)
    /\ \A o \in Outputs : o < stop => MayPass(o)
    /\ tensor_map' = [t \in Tensors |->
          IF t \notin Outputs \/ t > stop THEN tensor_map[t]
          ELSE IF t = stop THEN StoppedOutput(t) ELSE UpdatedOutput(t)]

ResizedAddr(stop) == [t \in Tensors |->
    IF t \in Outputs /\ t < stop /\ Grows(t) THEN OwnAddr(t, tensor_map'[t]) ELSE ctxAddr[t]]

-----------------------------------------------------------------------------
(* Construction and destruction.                                            *)

Normalised(c) ==
    IF c.persistent THEN c
    ELSE [c EXCEPT !.max_profile = FALSE, !.auto_freeze = FALSE, !.graph = FALSE]

NewTensor(s, failed) ==
    [shape |-> s, bytes |-> Bytes[s], cap |-> IF failed THEN 0 ELSE Bytes[s],
     alloc |-> IF failed THEN 0 ELSE 1]

\* Slip: dynamic inputs are never allocated at the max profile.
InputAllocFlat(c) == [i \in Inputs |-> FlatShape[i]]
InputAlloc(c) == [i \in Inputs |->
    IF i \in Dynamic /\ c.max_profile THEN MaxShape[0][i] ELSE FlatShape[i]]

\* AllocateIOBindingsMemory: the inputs first, then the outputs at the shapes the
\* context infers; failed are the tensors whose allocation fails.
AllocateIOBindingsMemory(c, failed) ==
    LET shape == InputAlloc(c)
        accepted == \A i \in Inputs : shape[i] \in Admits[0][i]
        outShape(o) == IF accepted THEN OutShape[o][shape] ELSE FlatShape[o]
    IN  /\ tensor_map' = [t \in Tensors |->
              NewTensor(IF t \in Inputs THEN shape[t] ELSE outShape(t), t \in failed)]
        /\ ctxAddr' = [t \in Tensors |-> OwnAddr(t, tensor_map'[t])]
        /\ ctxShape' = [i \in Inputs |-> IF shape[i] \in Admits[0][i] THEN shape[i] ELSE Unresolved]

Construct(c) ==
    /\ phase = "new"
    /\ config' = Normalised(c)
    /\ \E failed \in SUBSET Tensors :
          /\ failed = {} \/ "alloc" \in Faults
          /\ AllocateIOBindingsMemory(config', failed)
    /\ phase' = "allocated"
    /\ UNCHANGED <<io_frozen, profile, user_binding_addresses, stream, running, got, ret>>

\* Slip: the addresses are not bound again when they are frozen.
FreezeUnbound ==
    /\ UpdateOutputShapes(Past)
    /\ ctxAddr' = ResizedAddr(Past)
    /\ io_frozen' = TRUE
    /\ ResetCudaGraph
    /\ ret' = TRUE /\ got' = None
    /\ UNCHANGED <<config, context, user_binding_addresses, stream, output_ready, launch>>

\* UpdateOutputShapes and BindIOAddresses have succeeded.
Freeze ==
    /\ UpdateOutputShapes(Past)
    /\ ctxAddr' = BoundAddr(tensor_map')
    /\ io_frozen' = TRUE
    /\ ResetCudaGraph
    /\ ret' = TRUE /\ got' = None
    /\ UNCHANGED <<config, context, user_binding_addresses, stream, output_ready, launch>>

FreezeIO ==
    \/ config.persistent /\ ~io_frozen /\ Freeze
    \/ /\ config.persistent /\ ~io_frozen
       /\ \E stop \in Outputs : /\ UpdateOutputShapes(stop)
                                /\ ctxAddr' = ResizedAddr(stop)
       /\ ret' = FALSE /\ got' = None
       /\ UNCHANGED <<config, io_frozen, context, user_binding_addresses, stream, running>>
    \/ /\ ~config.persistent \/ io_frozen
       /\ ret' = io_frozen /\ got' = None
       /\ UNCHANGED <<config, io_frozen, buffers, context, user_binding_addresses, stream, running>>

\* The end of the constructor; a FreezeIO that fails is only logged.
ConstructorFreeze ==
    /\ phase = "allocated"
    /\ \/ config.auto_freeze /\ FreezeIO
       \/ ~config.auto_freeze /\ UNCHANGED <<config, io_frozen, buffers, context,
                                             user_binding_addresses, stream, running, got, ret>>
    /\ phase' = "ready"

Cleanup ==
    /\ phase = "ready" /\ phase' = "gone"
    /\ ResetCudaGraph
    /\ user_binding_addresses' = [t \in Tensors |-> None]
    /\ output_ready' = {}
    /\ tensor_map' = [t \in Tensors |-> AllocFailed(tensor_map[t], 0)]
    /\ got' = None
    /\ UNCHANGED <<config, io_frozen, context, ctxAddr, stream, launch, ret>>

-----------------------------------------------------------------------------
(* The public methods.  Those that only read are left out.                  *)

\* Slip: the graph survives a change of stream.
SetStreamKeepingGraph(s) ==
    /\ stream' = s
    /\ ret' = TRUE /\ got' = None
    /\ UNCHANGED <<phase, config, io_frozen, buffers, context, user_binding_addresses, running>>

SetStream(s) ==
    /\ ResetCudaGraph
    /\ stream' = s
    /\ ret' = TRUE /\ got' = None
    /\ UNCHANGED <<phase, config, io_frozen, buffers, context, user_binding_addresses,
                   output_ready, launch>>

EnableCudaGraph(enable) ==
    /\ config' = [config EXCEPT !.graph = enable]
    /\ IF enable THEN UNCHANGED graph ELSE ResetCudaGraph
    /\ ret' = TRUE /\ got' = None
    /\ UNCHANGED <<phase, io_frozen, buffers, context, user_binding_addresses, stream,
                   output_ready, launch>>

\* The public ResetCudaGraph, which returns nothing.
DestroyCudaGraph ==
    /\ ResetCudaGraph
    /\ got' = None
    /\ UNCHANGED <<phase, config, io_frozen, buffers, context, user_binding_addresses, stream,
                   output_ready, launch, ret>>

SetBindingShape(i, s) ==
    \/ /\ io_frozen => Dynamic # {}
       /\ s \in Admits[profile][i]
       /\ ctxShape' = [ctxShape EXCEPT ![i] = s]
       /\ IF io_frozen THEN ResetCudaGraph ELSE UNCHANGED graph
       /\ ret' = TRUE /\ got' = None
       /\ UNCHANGED <<phase, config, io_frozen, buffers, profile, user_binding_addresses, stream,
                      output_ready, launch>>
    \/ /\ (io_frozen /\ Dynamic = {}) \/ s \notin Admits[profile][i]
       /\ Refuse

\* TensorRT forgets the shapes of the dynamic inputs when the profile changes.
SetOptimizationProfile(p) ==
    \/ /\ ~io_frozen
       /\ ResetCudaGraph
       /\ profile' = p
       /\ ctxShape' = [i \in Inputs |-> IF i \in Dynamic THEN Unresolved ELSE ctxShape[i]]
       /\ ret' = TRUE /\ got' = None
       /\ UNCHANGED <<phase, config, io_frozen, buffers, user_binding_addresses, stream,
                      output_ready, launch>>
    \/ io_frozen /\ Refuse

\* Slip: addresses may be bound although the I/O is frozen.
SetBindingAddressFrozen(t, ptr) ==
    /\ ctxAddr' = [ctxAddr EXCEPT ![t] = ptr]
    /\ user_binding_addresses' = [user_binding_addresses EXCEPT ![t] = ptr]
    /\ ResetCudaGraph
    /\ ret' = TRUE /\ got' = None
    /\ UNCHANGED <<phase, config, io_frozen, tensor_map, context, stream, output_ready, launch>>

SetBindingAddress(t, ptr) ==
    \/ /\ ~io_frozen
       /\ ctxAddr' = [ctxAddr EXCEPT ![t] = ptr]
       /\ user_binding_addresses' = [user_binding_addresses EXCEPT ![t] = ptr]
       /\ ResetCudaGraph
       /\ ret' = TRUE /\ got' = None
       /\ UNCHANGED <<phase, config, io_frozen, tensor_map, context, stream, output_ready, launch>>
    \/ io_frozen /\ Refuse

\* The client reshapes a binding itself: GetBindingByName(name)->Reshape(dims).
ReshapeBinding(t, s) ==
    /\ CanReshape(tensor_map[t], s)
    /\ tensor_map' = [tensor_map EXCEPT ![t] = Reshaped(@, s)]
    /\ ret' = TRUE /\ got' = None
    /\ UNCHANGED <<phase, config, io_frozen, context, ctxAddr, user_binding_addresses, stream, running>>

\* The copy itself cannot fail; recording the input-ready event after it can.
RecordInputReadyEvent == ret' \in {TRUE} \cup (IF "event" \in Faults THEN {FALSE} ELSE {})

SetInputData(i, s) ==
    \/ /\ CanReshape(tensor_map[i], s)
       /\ tensor_map' = [tensor_map EXCEPT ![i] = Reshaped(@, s)]
       /\ RecordInputReadyEvent /\ got' = None
       /\ UNCHANGED <<phase, config, io_frozen, context, ctxAddr, user_binding_addresses, stream, running>>
    \/ /\ ~CanReshape(tensor_map[i], s) /\ ~io_frozen
       /\ tensor_map[i].alloc < MaxAllocs
       /\ tensor_map' = [tensor_map EXCEPT ![i] = Allocated(Reshaped(@, s), Bytes[s])]
       /\ ctxAddr' = [ctxAddr EXCEPT ![i] = OwnAddr(i, tensor_map'[i])]
       /\ ResetCudaGraph
       /\ RecordInputReadyEvent /\ got' = None
       /\ UNCHANGED <<phase, config, io_frozen, context, user_binding_addresses, stream,
                      output_ready, launch>>
    \/ /\ ~CanReshape(tensor_map[i], s) /\ ~io_frozen
       /\ "alloc" \in Faults
       /\ tensor_map' = [tensor_map EXCEPT ![i] = AllocFailed(Reshaped(@, s), Bytes[s])]
       /\ ret' = FALSE /\ got' = None
       /\ UNCHANGED <<phase, config, io_frozen, context, ctxAddr, user_binding_addresses, stream, running>>
    \/ ~CanReshape(tensor_map[i], s) /\ io_frozen /\ Refuse

\* GetOutputData for a host buffer of n bytes.  The result of UpdateOutputShapes is
\* ignored; the copy checks the tensor's memory with CUDA_CHECK_NOTNULL, which aborts.
GetOutputData(o, n) ==
    /\ \/ /\ ~io_frozen \/ Dynamic # {}
          /\ \E stop \in Outputs \cup {Past} :
                UpdateOutputShapes(stop) /\ ctxAddr' = ResizedAddr(stop)
       \/ io_frozen /\ Dynamic = {} /\ UNCHANGED buffers
    /\ LET copied == n = tensor_map'[o].bytes /\ o \in output_ready
           memory == OwnAddr(o, tensor_map'[o])
       IN  /\ ret' = (copied /\ memory # Null)
           /\ got' = IF ret' THEN [out |-> o, addr |-> memory, bytes |-> n] ELSE None
           /\ phase' = IF copied /\ memory = Null THEN "aborted" ELSE phase
    /\ UNCHANGED <<config, io_frozen, context, user_binding_addresses, stream, running>>

\* CaptureCudaGraph(stream): bound by the addresses and shapes the context has now.
Captured == [addr |-> ctxAddr, shape |-> ctxShape, stream |-> stream,
             outShape |-> [o \in Outputs |-> tensor_map[o].shape]]

CaptureCudaGraph ==
    \/ /\ ShouldUseCudaGraph /\ Enqueueable(ctxAddr)
       /\ graph' = Captured
       /\ ret' = TRUE /\ got' = None
       /\ UNCHANGED <<phase, config, io_frozen, buffers, context, user_binding_addresses, stream,
                      output_ready, launch>>
    \/ /\ ShouldUseCudaGraph
       /\ ~Enqueueable(ctxAddr) \/ "capture" \in Faults
       /\ ResetCudaGraph
       /\ ret' = FALSE /\ got' = None
       /\ UNCHANGED <<phase, config, io_frozen, buffers, context, user_binding_addresses, stream,
                      output_ready, launch>>
    \/ ~ShouldUseCudaGraph /\ Refuse

\* Slip: events are recorded for the inputs too.
RecordEventsOfAll ==
    /\ output_ready' = Tensors
    /\ ret' = TRUE

\* RecordOutputReadyEvents may fail after some of the outputs.
RecordOutputReadyEvents ==
    \E recorded \in SUBSET Outputs :
        /\ recorded = Outputs \/ "event" \in Faults
        /\ output_ready' = output_ready \cup recorded
        /\ ret' = (recorded = Outputs)

\* Launch the graph g, or refuse to.
LaunchGraph(g) ==
    /\ graph' = g
    /\ launch' = Launched(g.addr, g.shape)
    /\ RecordOutputReadyEvents

Enqueue(addr) ==
    \/ /\ Enqueueable(addr)
       /\ launch' = Launched(addr, ctxShape)
       /\ RecordOutputReadyEvents
    \/ /\ ~Enqueueable(addr)
       /\ ret' = FALSE
       /\ UNCHANGED <<output_ready, launch>>

\* Slip: an inference never binds the addresses again.
InferAddrUnbound == ctxAddr

\* The addresses to run with: BindIOAddresses is skipped once they are frozen.
InferAddr == IF io_frozen THEN ctxAddr ELSE BoundAddr(tensor_map)

InferAsync ==
    /\ ctxAddr' = InferAddr
    /\ \/ /\ ShouldUseCudaGraph /\ graph # None /\ CudaGraphShapesMatch
          /\ LaunchGraph(graph)
       \/ /\ ShouldUseCudaGraph /\ (graph # None => ~CudaGraphShapesMatch)
          /\ \/ Enqueueable(ctxAddr) /\ LaunchGraph(Captured)
             \/ /\ ~Enqueueable(ctxAddr) \/ "capture" \in Faults
                /\ ResetCudaGraph /\ Enqueue(ctxAddr)
       \/ ~ShouldUseCudaGraph /\ Enqueue(ctxAddr') /\ UNCHANGED graph
    /\ got' = None
    /\ UNCHANGED <<phase, config, io_frozen, tensor_map, context, user_binding_addresses, stream>>

-----------------------------------------------------------------------------
(* Execute(inputs, outputs): one call of the public methods after another,  *)
(* given up at the first that fails.  ptr maps every tensor to the host or  *)
(* to a device pointer of the client.                                       *)

ExecuteBegin ==
    /\ exec = Idle
    /\ \E ptr \in [Tensors -> {HostPtr} \cup UserPtr] :
          exec' = [stage |-> "inputs", ptr |-> ptr, todo |-> Inputs]
    /\ UNCHANGED <<phase, config, io_frozen, buffers, context, user_binding_addresses, stream,
                   running, got, ret>>

\* The next item done, or the call over because the inner one returned false.
Proceed(t) == exec' = IF ret' THEN [exec EXCEPT !.todo = @ \ {t}] ELSE Idle

ExecuteInput(i) ==
    /\ exec.stage = "inputs" /\ i \in exec.todo
    /\ \/ exec.ptr[i] = HostPtr /\ ctxShape[i] # Unresolved /\ SetInputData(i, ctxShape[i])
       \/ exec.ptr[i] = HostPtr /\ ctxShape[i] = Unresolved /\ Refuse
       \/ exec.ptr[i] # HostPtr /\ SetBindingAddress(i, exec.ptr[i])
    /\ Proceed(i)

ExecuteOutput(o) ==
    /\ exec.stage = "outputs" /\ o \in exec.todo
    /\ SetBindingAddress(o, exec.ptr[o])
    /\ Proceed(o)

ExecuteInfer ==
    /\ exec.stage = "outputs" /\ exec.todo = {}
    /\ InferAsync
    /\ exec' = IF ret' THEN [exec EXCEPT !.stage = "copy",
                                         !.todo = {o \in Outputs : exec.ptr[o] = HostPtr}]
               ELSE Idle

ExecuteCopy(o) ==
    /\ exec.stage = "copy" /\ o \in exec.todo
    /\ GetOutputData(o, Bytes[ContextShape(o)])
    /\ Proceed(o)

\* Between the loops, and the return.
ExecuteAdvance ==
    /\ exec # Idle /\ exec.todo = {}
    /\ \/ /\ exec.stage = "inputs"
          /\ exec' = [exec EXCEPT !.stage = "outputs",
                                  !.todo = {o \in Outputs : exec.ptr[o] # HostPtr}]
       \/ exec.stage = "copy" /\ exec' = Idle
    /\ UNCHANGED <<phase, config, io_frozen, buffers, context, user_binding_addresses, stream,
                   running, got, ret>>

Execute ==
    \/ ExecuteBegin
    \/ \E i \in Inputs : ExecuteInput(i)
    \/ \E o \in Outputs : ExecuteOutput(o) \/ ExecuteCopy(o)
    \/ ExecuteInfer
    \/ ExecuteAdvance

-----------------------------------------------------------------------------
Init ==
    /\ phase = "new"
    /\ config = [persistent |-> FALSE, max_profile |-> FALSE, auto_freeze |-> FALSE, graph |-> FALSE]
    /\ io_frozen = FALSE
    /\ tensor_map = [t \in Tensors |-> NewTensor(FlatShape[t], TRUE)]
    /\ profile = 0
    /\ ctxShape = [i \in Inputs |-> FlatShape[i]]
    /\ ctxAddr = [t \in Tensors |-> Null]
    /\ user_binding_addresses = [t \in Tensors |-> None]
    /\ stream = Internal
    /\ graph = None /\ output_ready = {} /\ launch = None /\ got = None
    /\ ret = TRUE /\ exec = Idle

Call ==
    \/ \E s \in Streams \ {Internal} : SetStream(s)
    \/ \E enable \in BOOLEAN : EnableCudaGraph(enable)
    \/ \E i \in Inputs, s \in Shapes : SetBindingShape(i, s) \/ SetInputData(i, s)
    \/ \E p \in Profiles : SetOptimizationProfile(p)
    \/ \E t \in Tensors : \/ \E ptr \in UserPtr : SetBindingAddress(t, ptr)
                          \/ \E s \in Shapes : ReshapeBinding(t, s)
    \/ \E o \in Outputs, s \in Shapes : GetOutputData(o, Bytes[s])
    \/ CaptureCudaGraph \/ DestroyCudaGraph
    \/ InferAsync

Next ==
    \/ /\ \/ \E c \in Configs : Construct(c)
          \/ ConstructorFreeze
          \/ exec = Idle /\ Cleanup
       /\ UNCHANGED exec
    \/ phase = "ready" /\ exec = Idle /\ (Call \/ (FreezeIO /\ UNCHANGED phase)) /\ UNCHANGED exec
    \/ phase = "ready" /\ Execute

Spec == Init /\ [][Next]_vars

-----------------------------------------------------------------------------
(* Properties.                                                              *)

TensorRecord == [shape : Shapes, bytes : Nat, cap : Nat, alloc : AllocNumber]
GraphRecord == [addr : [Tensors -> Address], shape : [Inputs -> Shapes], stream : Streams,
                outShape : [Outputs -> Shapes]]
ExecRecord == [stage : {"inputs", "outputs", "copy"}, ptr : [Tensors -> {HostPtr} \cup UserPtr],
               todo : SUBSET Tensors]

EngineTypeOK ==
    /\ phase \in {"new", "allocated", "ready", "aborted", "gone"}
    /\ config \in Config
    /\ io_frozen \in BOOLEAN
    /\ tensor_map \in [Tensors -> TensorRecord]
    /\ profile \in Profiles
    /\ ctxShape \in [Inputs -> Shapes \cup {Unresolved}]
    /\ ctxAddr \in [Tensors -> Address]
    /\ user_binding_addresses \in [Tensors -> UserPtr \cup {None}]
    /\ stream \in Streams
    /\ graph \in GraphRecord \cup {None}
    /\ output_ready \subseteq Outputs
    /\ ret \in BOOLEAN

ExecTypeOK ==
    /\ exec = Idle \/ exec \in ExecRecord
    /\ exec.stage = "inputs" => exec.todo \subseteq Inputs
    /\ exec.stage \in {"outputs", "copy"} => exec.todo \subseteq Outputs
    /\ exec.stage = "outputs" => \A o \in exec.todo : exec.ptr[o] # HostPtr

\* Types of the variables of the engine, and what the loops of Execute have left to do.
TypeOK == EngineTypeOK /\ ExecTypeOK

\* A captured graph is only kept while it still describes the engine: the I/O is
\* frozen, graphs are enabled, and the addresses, input shapes and stream it was
\* captured with are the current ones.  Every method that changes one of them
\* must have destroyed the graph (the calls of ResetCudaGraph).
GraphCurrent ==
    graph # None =>
        /\ io_frozen /\ config.graph
        /\ graph.addr = ctxAddr /\ graph.shape = ctxShape /\ graph.stream = stream

\* While the I/O is frozen InferAsync skips BindIOAddresses, so the addresses in the
\* context must already be the ones it would bind: the user's, or the tensor's
\* own live memory.
FrozenBound ==
    io_frozen /\ phase = "ready" => ctxAddr = BoundAddr(tensor_map)

\* Whatever way an inference is launched (enqueueV3, a fresh or an old graph), it
\* runs with the addresses bound and the shapes set at that moment.
LaunchCurrent ==
    launch # None => launch.addr = launch.bound /\ launch.shape = launch.asked

\* No inference is launched on memory of the engine that has been freed: an address
\* that is not the user's is the live allocation of that tensor.
LaunchLive ==
    launch # None => \A t \in Tensors : launch.addr[t] \notin UserPtr => launch.room[t] > 0

LaunchShape(t) == IF t \in Inputs THEN launch.shape[t] ELSE OutShape[t][launch.shape]

\* An inference never touches memory beyond a buffer of the engine: each one holds
\* the shape the context runs with.
LaunchFits ==
    launch # None =>
        \A t \in Tensors : launch.addr[t] \notin UserPtr => Bytes[LaunchShape(t)] <= launch.room[t]

\* A GetOutputData that returns true has copied, in full, the buffer the latest
\* inference wrote, unless the output is bound to a user address or the shapes
\* were changed since.
GetDelivers ==
    (/\ got # None /\ launch # None
     /\ user_binding_addresses[got.out] = None /\ launch.shape = ctxShape)
        => /\ got.addr = launch.addr[got.out]
           /\ got.bytes = Bytes[LaunchShape(got.out)]

\* The inference of Execute(inputs, outputs) reads and writes where its arguments
\* say: the device pointers given, and the tensors that stand for host pointers.
ExecuteUsesPointers ==
    exec.stage = "copy" =>
        \A t \in Tensors : launch.addr[t] = IF exec.ptr[t] = HostPtr THEN OwnAddr(t, tensor_map[t])
                                             ELSE exec.ptr[t]

\* Freezing is for ever: no later call changes an address the context uses, or
\* moves the memory of a tensor (cuda_graph and user code hold those addresses).
FrozenLocked ==
    [][io_frozen /\ phase' = "ready" =>
          /\ io_frozen' /\ ctxAddr' = ctxAddr
          /\ \A t \in Tensors : OwnAddr(t, tensor_map'[t]) = OwnAddr(t, tensor_map[t])]_vars

Buffer == INSTANCE TensorBuffer WITH
    Buffers <- Tensors,
    byte_size <- [t \in Tensors |-> tensor_map[t].bytes],
    capacity <- [t \in Tensors |-> tensor_map[t].cap],
    memory <- [t \in Tensors |-> OwnAddr(t, tensor_map[t])]

\* The tensors of tensor_map_ are the buffers that Tensor and CudaBaseMemory
\* implement (TensorsAreBuffers of EngineTensor), under every call of the engine.
TensorMapIsBuffers == Buffer!BufferSpec
=============================================================================
