----------------------- MODULE TensorRTEngine_proofs -----------------------
(***************************************************************************)
(* Type correctness, the address and graph invariants and the refinement   *)
(* of TensorBuffer, for every engine, profile set, configuration and       *)
(* fault; and what the buffers of a maximal profile are good for.          *)
(***************************************************************************)
EXTENDS TensorRTEngine, TLAPS

-----------------------------------------------------------------------------
(* What the helpers return.                                                 *)

LEMMA IndexIsNat ==
    /\ NbIOTensors \in Nat
    /\ Tensors = 0 .. NbIOTensors - 1
    /\ \A t \in Tensors : t \in Nat /\ t < NbIOTensors
    /\ \A o \in Outputs : o \in Nat /\ o < NbIOTensors /\ o \in Tensors
BY EngineAssumption DEF Tensors

LEMMA OwnAddrType ==
    ASSUME NEW t \in Tensors, NEW r \in TensorRecord
    PROVE  OwnAddr(t, r) \in Address
BY DEF OwnAddr, Address, TensorRecord, AllocNumber

LEMMA TensorOpType ==
    ASSUME NEW r \in TensorRecord, NEW n \in Nat, NEW s \in Shapes
    PROVE  /\ r.alloc < MaxAllocs => Allocated(r, n) \in TensorRecord
           /\ AllocFailed(r, n) \in TensorRecord
           /\ Reshaped(r, s) \in TensorRecord
<1>1. Bytes[s] \in Nat /\ MaxAllocs \in Nat
  BY EngineAssumption
<1>2. ASSUME r.alloc < MaxAllocs PROVE Allocated(r, n) \in TensorRecord
  <2>1. r.alloc + 1 \in AllocNumber
    BY <1>1, <1>2 DEF AllocNumber, TensorRecord
  <2> QED BY <2>1 DEF TensorRecord, Allocated
<1>3. AllocFailed(r, n) \in TensorRecord
  BY DEF TensorRecord, AllocFailed
<1>4. Reshaped(r, s) \in TensorRecord
  BY <1>1 DEF TensorRecord, Reshaped
<1> QED BY <1>2, <1>3, <1>4

LEMMA NewTensorType ==
    ASSUME NEW s \in Shapes, NEW b
    PROVE  NewTensor(s, b) \in TensorRecord
BY EngineAssumption DEF TensorRecord, NewTensor, AllocNumber

LEMMA ContextShapeType ==
    ASSUME EngineTypeOK, NEW t \in Tensors
    PROVE  ContextShape(t) \in Shapes \cup {Unresolved}
BY EngineAssumption DEF EngineTypeOK, ContextShape, Resolved, Tensors

LEMMA BoundAddrType ==
    ASSUME user_binding_addresses \in [Tensors -> UserPtr \cup {None}],
           NEW tm \in [Tensors -> TensorRecord]
    PROVE  BoundAddr(tm) \in [Tensors -> Address]
BY OwnAddrType DEF BoundAddr, Address

LEMMA UpdateType ==
    ASSUME EngineTypeOK, NEW stop \in Outputs \cup {Past}, UpdateOutputShapes(stop)
    PROVE  /\ tensor_map' \in [Tensors -> TensorRecord]
           /\ ResizedAddr(stop) \in [Tensors -> Address]
<1>1. ASSUME NEW t \in Tensors
      PROVE  /\ tensor_map'[t] \in TensorRecord
             /\ tensor_map'[t] = IF t \notin Outputs \/ t > stop THEN tensor_map[t]
                                 ELSE IF t = stop THEN StoppedOutput(t) ELSE UpdatedOutput(t)
  <2>1. tensor_map[t] \in TensorRecord
    BY DEF EngineTypeOK
  <2>2. CASE t \notin Outputs \/ t > stop
    BY <2>1, <2>2 DEF UpdateOutputShapes
  <2>3. CASE t \in Outputs /\ ~(t > stop) /\ t = stop
    <3>1. Grows(t)
      BY <2>3, EngineAssumption DEF UpdateOutputShapes, MayStop, Past
    <3>2. Bytes[ContextShape(t)] \in Nat
      BY <3>1, ContextShapeType, EngineAssumption DEF Grows
    <3>3. StoppedOutput(t) \in TensorRecord
      BY <2>1, <3>2, TensorOpType, EngineAssumption DEF StoppedOutput, AllocFailed, TensorRecord
    <3> QED BY <2>3, <3>3 DEF UpdateOutputShapes
  <2>4. CASE t \in Outputs /\ ~(t > stop) /\ t # stop
    <3>1. t < stop
      BY <2>4, IndexIsNat DEF Past
    <3>2. MayPass(t)
      BY <2>4, <3>1 DEF UpdateOutputShapes
    <3>3. UpdatedOutput(t) \in TensorRecord
      <4>1. CASE ContextShape(t) = Unresolved
        BY <4>1, <2>1 DEF UpdatedOutput
      <4>2. CASE ContextShape(t) # Unresolved
        <5>1. ContextShape(t) \in Shapes /\ Bytes[ContextShape(t)] \in Nat
          BY <4>2, ContextShapeType, EngineAssumption
        <5> QED BY <4>2, <5>1, <3>2, <2>1, TensorOpType DEF UpdatedOutput, MayPass
      <4> QED BY <4>1, <4>2
    <3> QED BY <2>4, <3>3 DEF UpdateOutputShapes
  <2> QED BY <2>2, <2>3, <2>4
<1>2. tensor_map' \in [Tensors -> TensorRecord]
  BY <1>1 DEF UpdateOutputShapes
<1>3. ResizedAddr(stop) \in [Tensors -> Address]
  BY <1>1, OwnAddrType DEF ResizedAddr, EngineTypeOK
<1> QED BY <1>2, <1>3

-----------------------------------------------------------------------------
(* Every handler preserves the types.                                       *)

LEMMA ResetCudaGraphType == ResetCudaGraph => graph' \in GraphRecord \cup {None}
BY DEF ResetCudaGraph

LEMMA ConstructType ==
    ASSUME EngineTypeOK, NEW c \in Config, Construct(c)
    PROVE  EngineTypeOK'
<1>1. config' \in Config
  BY DEF Construct, Normalised, Config
<1>2. PICK failed \in SUBSET Tensors : AllocateIOBindingsMemory(config', failed)
  BY DEF Construct
<1>3. InputAlloc(config') \in [Inputs -> Shapes]
  BY EngineAssumption DEF InputAlloc, Tensors
<1>4. tensor_map' \in [Tensors -> TensorRecord]
  <2>1. ASSUME NEW o \in Outputs
        PROVE  OutShape[o][InputAlloc(config')] \in Shapes /\ FlatShape[o] \in Shapes
    BY <1>3, EngineAssumption DEF Tensors
  <2>2. ASSUME NEW t \in Tensors PROVE tensor_map'[t] \in TensorRecord
    <3>1. PICK s \in Shapes : tensor_map'[t] = NewTensor(s, t \in failed)
      <4>1. CASE t \in Inputs
        <5>1. tensor_map'[t] = NewTensor(InputAlloc(config')[t], t \in failed)
          BY <4>1, <1>2 DEF AllocateIOBindingsMemory
        <5> QED BY <5>1, <4>1, <1>3
      <4>2. CASE t \in Outputs /\ t \notin Inputs
        <5>1. \/ tensor_map'[t] = NewTensor(OutShape[t][InputAlloc(config')], t \in failed)
              \/ tensor_map'[t] = NewTensor(FlatShape[t], t \in failed)
          BY <4>2, <1>2 DEF AllocateIOBindingsMemory
        <5> QED BY <5>1, <4>2, <2>1
      <4> QED BY <4>1, <4>2 DEF Tensors
    <3> QED BY <3>1, NewTensorType
  <2> QED BY <1>2, <2>2 DEF AllocateIOBindingsMemory
<1>5. ctxAddr' \in [Tensors -> Address]
  BY <1>2, <1>4, OwnAddrType DEF AllocateIOBindingsMemory
<1>6. ctxShape' \in [Inputs -> Shapes \cup {Unresolved}]
  BY <1>2, <1>3 DEF AllocateIOBindingsMemory
<1> QED BY <1>1, <1>4, <1>5, <1>6 DEF Construct, EngineTypeOK, context, running

LEMMA FreezeIOType ==
    ASSUME EngineTypeOK, FreezeIO, phase' \in {"ready"}
    PROVE  EngineTypeOK'
<1>1. CASE Freeze
  <2>1. tensor_map' \in [Tensors -> TensorRecord]
    BY <1>1, UpdateType DEF Freeze
  <2>2. BoundAddr(tensor_map') \in [Tensors -> Address]
    BY <2>1, BoundAddrType DEF EngineTypeOK
  <2> QED BY <1>1, <2>1, <2>2, ResetCudaGraphType DEF Freeze, EngineTypeOK, context
<1>2. ASSUME NEW stop \in Outputs, UpdateOutputShapes(stop), ctxAddr' = ResizedAddr(stop), ret' = FALSE,
             UNCHANGED <<config, io_frozen, context, user_binding_addresses, stream, running>>
      PROVE  EngineTypeOK'
  BY <1>2, UpdateType DEF EngineTypeOK, context, running
<1>3. CASE /\ ret' = io_frozen
           /\ UNCHANGED <<config, io_frozen, buffers, context, user_binding_addresses, stream, running>>
  BY <1>3 DEF EngineTypeOK, buffers, context, running
<1> QED BY <1>1, <1>2, <1>3 DEF FreezeIO

LEMMA RefuseType ==
    ASSUME EngineTypeOK, Refuse
    PROVE  EngineTypeOK'
BY DEF EngineTypeOK, Refuse, buffers, context, running

LEMMA CleanupType ==
    ASSUME EngineTypeOK, Cleanup
    PROVE  EngineTypeOK'
<1>1. tensor_map' \in [Tensors -> TensorRecord]
  BY TensorOpType DEF Cleanup, EngineTypeOK, AllocFailed, TensorRecord
<1> QED BY <1>1, ResetCudaGraphType DEF Cleanup, EngineTypeOK, context

LEMMA SetStreamType ==
    ASSUME EngineTypeOK, NEW s \in Streams, SetStream(s)
    PROVE  EngineTypeOK'
BY ResetCudaGraphType DEF EngineTypeOK, SetStream, buffers, context

LEMMA EnableCudaGraphType ==
    ASSUME EngineTypeOK, NEW enable \in BOOLEAN, EnableCudaGraph(enable)
    PROVE  EngineTypeOK'
<1>1. config' \in Config
  BY DEF EngineTypeOK, EnableCudaGraph, Config
<1>2. graph' \in GraphRecord \cup {None}
  BY ResetCudaGraphType DEF EngineTypeOK, EnableCudaGraph
<1> QED BY <1>1, <1>2 DEF EngineTypeOK, EnableCudaGraph, buffers, context

LEMMA DestroyCudaGraphType ==
    ASSUME EngineTypeOK, DestroyCudaGraph
    PROVE  EngineTypeOK'
BY ResetCudaGraphType DEF EngineTypeOK, DestroyCudaGraph, buffers, context

LEMMA SetBindingShapeType ==
    ASSUME EngineTypeOK, NEW i \in Inputs, NEW s \in Shapes, SetBindingShape(i, s)
    PROVE  EngineTypeOK'
<1>1. CASE Refuse
  BY <1>1, RefuseType
<1>2. CASE ~Refuse
  <2>1. graph' \in GraphRecord \cup {None}
    BY <1>2, ResetCudaGraphType DEF EngineTypeOK, SetBindingShape
  <2> QED BY <1>2, <2>1 DEF EngineTypeOK, SetBindingShape, buffers
<1> QED BY <1>1, <1>2

LEMMA SetOptimizationProfileType ==
    ASSUME EngineTypeOK, NEW p \in Profiles, SetOptimizationProfile(p)
    PROVE  EngineTypeOK'
<1>1. CASE Refuse
  BY <1>1, RefuseType
<1>2. CASE ~Refuse
  <2>1. ctxShape' \in [Inputs -> Shapes \cup {Unresolved}]
    BY <1>2 DEF EngineTypeOK, SetOptimizationProfile
  <2> QED BY <1>2, <2>1, ResetCudaGraphType DEF EngineTypeOK, SetOptimizationProfile, buffers
<1> QED BY <1>1, <1>2

LEMMA SetBindingAddressType ==
    ASSUME EngineTypeOK, NEW t \in Tensors, NEW ptr \in UserPtr, SetBindingAddress(t, ptr)
    PROVE  EngineTypeOK'
<1>1. CASE Refuse
  BY <1>1, RefuseType
<1>2. CASE ~Refuse
  <2>1. ptr \in Address
    BY DEF Address
  <2> QED BY <1>2, <2>1, ResetCudaGraphType DEF EngineTypeOK, SetBindingAddress, context
<1> QED BY <1>1, <1>2

LEMMA ReshapeBindingType ==
    ASSUME EngineTypeOK, NEW t \in Tensors, NEW s \in Shapes, ReshapeBinding(t, s)
    PROVE  EngineTypeOK'
<1>1. Reshaped(tensor_map[t], s) \in TensorRecord
  BY TensorOpType, 0 \in Nat DEF EngineTypeOK
<1> QED BY <1>1 DEF EngineTypeOK, ReshapeBinding, context, running
LEMMA SetInputDataType ==
    ASSUME EngineTypeOK, NEW i \in Inputs, NEW s \in Shapes, SetInputData(i, s)
    PROVE  EngineTypeOK'
<1> DEFINE r == Reshaped(tensor_map[i], s)
<1>1. /\ i \in Tensors /\ tensor_map[i] \in TensorRecord
      /\ Bytes[s] \in Nat /\ r \in TensorRecord
  BY TensorOpType, 0 \in Nat, EngineAssumption DEF EngineTypeOK, Tensors
<1>2. RecordInputReadyEvent => ret' \in BOOLEAN
  BY DEF RecordInputReadyEvent
<1>3. CASE /\ tensor_map' = [tensor_map EXCEPT ![i] = Reshaped(@, s)]
           /\ RecordInputReadyEvent
           /\ UNCHANGED <<phase, config, io_frozen, context, ctxAddr, user_binding_addresses,
                          stream, running>>
  <2>1. tensor_map' \in [Tensors -> TensorRecord]
    BY <1>1, <1>3 DEF EngineTypeOK
  <2> QED BY <1>2, <1>3, <2>1 DEF EngineTypeOK, context, running
<1>4. CASE /\ tensor_map[i].alloc < MaxAllocs
           /\ tensor_map' = [tensor_map EXCEPT ![i] = Allocated(Reshaped(@, s), Bytes[s])]
           /\ ctxAddr' = [ctxAddr EXCEPT ![i] = OwnAddr(i, tensor_map'[i])]
           /\ ResetCudaGraph /\ RecordInputReadyEvent
           /\ UNCHANGED <<phase, config, io_frozen, context, user_binding_addresses, stream,
                          output_ready, launch>>
  <2>1. r.alloc = tensor_map[i].alloc
    BY <1>1 DEF Reshaped, TensorRecord
  <2>2. Allocated(r, Bytes[s]) \in TensorRecord
    BY <1>1, <1>4, <2>1, TensorOpType
  <2>3. /\ tensor_map' \in [Tensors -> TensorRecord]
        /\ tensor_map'[i] \in TensorRecord
    BY <1>1, <1>4, <2>2 DEF EngineTypeOK
  <2>4. ctxAddr' \in [Tensors -> Address]
    BY <1>4, <2>3, <1>1, OwnAddrType DEF EngineTypeOK
  <2> QED BY <1>2, <1>4, <2>3, <2>4, ResetCudaGraphType DEF EngineTypeOK, context
<1>5. CASE /\ tensor_map' = [tensor_map EXCEPT ![i] = AllocFailed(Reshaped(@, s), Bytes[s])]
           /\ ret' = FALSE
           /\ UNCHANGED <<phase, config, io_frozen, context, ctxAddr, user_binding_addresses,
                          stream, running>>
  <2>1. AllocFailed(r, Bytes[s]) \in TensorRecord
    BY <1>1, TensorOpType
  <2>2. tensor_map' \in [Tensors -> TensorRecord]
    BY <1>1, <1>5, <2>1 DEF EngineTypeOK
  <2> QED BY <1>5, <2>2 DEF EngineTypeOK, context, running
<1>6. CASE Refuse
  BY <1>6, RefuseType
<1> QED BY <1>3, <1>4, <1>5, <1>6 DEF SetInputData

LEMMA GetOutputDataType ==
    ASSUME EngineTypeOK, NEW o \in Outputs, NEW n, GetOutputData(o, n), phase = "ready"
    PROVE  EngineTypeOK'
<1>1. /\ tensor_map' \in [Tensors -> TensorRecord]
      /\ ctxAddr' \in [Tensors -> Address]
  BY UpdateType DEF GetOutputData, EngineTypeOK, buffers
<1>2. ret' \in BOOLEAN /\ phase' \in {"ready", "aborted"}
  BY DEF GetOutputData
<1> QED BY <1>1, <1>2 DEF GetOutputData, EngineTypeOK, context, running

LEMMA CapturedType ==
    ASSUME EngineTypeOK, Enqueueable(ctxAddr)
    PROVE  Captured \in GraphRecord
<1>1. ctxShape \in [Inputs -> Shapes]
  BY DEF EngineTypeOK, Enqueueable, Resolved
<1>2. [o \in Outputs |-> tensor_map[o].shape] \in [Outputs -> Shapes]
  BY DEF EngineTypeOK, TensorRecord, Tensors
<1> QED BY <1>1, <1>2 DEF Captured, GraphRecord, EngineTypeOK

LEMMA CaptureCudaGraphType ==
    ASSUME EngineTypeOK, CaptureCudaGraph
    PROVE  EngineTypeOK'
<1>1. CASE Refuse
  BY <1>1, RefuseType
<1>2. CASE ~Refuse
  <2>1. graph' \in GraphRecord \cup {None}
    BY <1>2, CapturedType, ResetCudaGraphType DEF CaptureCudaGraph
  <2> QED BY <1>2, <2>1 DEF EngineTypeOK, CaptureCudaGraph, buffers, context
<1> QED BY <1>1, <1>2

LEMMA EnqueueType ==
    ASSUME EngineTypeOK, NEW addr, Enqueue(addr)
    PROVE  output_ready' \subseteq Outputs /\ ret' \in BOOLEAN
BY DEF EngineTypeOK, Enqueue, RecordOutputReadyEvents

LEMMA InferAsyncType ==
    ASSUME EngineTypeOK, InferAsync
    PROVE  EngineTypeOK'
<1>1. ctxAddr' \in [Tensors -> Address]
  BY BoundAddrType DEF InferAsync, InferAddr, EngineTypeOK
<1>2. /\ graph' \in GraphRecord \cup {None}
      /\ output_ready' \subseteq Outputs /\ ret' \in BOOLEAN
  <2>1. CASE graph # None /\ LaunchGraph(graph)
    BY <2>1 DEF LaunchGraph, RecordOutputReadyEvents, EngineTypeOK
  <2>2. CASE Enqueueable(ctxAddr) /\ LaunchGraph(Captured)
    BY <2>2, CapturedType DEF LaunchGraph, RecordOutputReadyEvents, EngineTypeOK
  <2>3. CASE ResetCudaGraph /\ Enqueue(ctxAddr)
    BY <2>3, EnqueueType, ResetCudaGraphType
  <2>4. CASE Enqueue(ctxAddr') /\ UNCHANGED graph
    BY <2>4, EnqueueType DEF EngineTypeOK
  <2> QED BY <2>1, <2>2, <2>3, <2>4 DEF InferAsync
<1> QED BY <1>1, <1>2 DEF InferAsync, EngineTypeOK, context

LEMMA CallType ==
    ASSUME EngineTypeOK, phase = "ready", Call
    PROVE  EngineTypeOK'
<1>1. ASSUME NEW o \in Outputs, NEW s \in Shapes, GetOutputData(o, Bytes[s]) PROVE EngineTypeOK'
  BY <1>1, GetOutputDataType
<1> QED
  BY <1>1, SetStreamType, EnableCudaGraphType, SetBindingShapeType, SetInputDataType,
     SetOptimizationProfileType, SetBindingAddressType, ReshapeBindingType,
     CaptureCudaGraphType, DestroyCudaGraphType, InferAsyncType
  DEF Call

-----------------------------------------------------------------------------
(* Execute.                                                                 *)

LEMMA ProceedType ==
    ASSUME ExecTypeOK, exec # Idle, NEW t, Proceed(t), ret' \in BOOLEAN
    PROVE  ExecTypeOK'
<1>1. exec \in ExecRecord
  BY DEF ExecTypeOK
<1>2. CASE ret'
  <2> DEFINE next == [exec EXCEPT !.todo = @ \ {t}]
  <2>1. /\ exec' = next /\ next \in ExecRecord
        /\ next.stage = exec.stage /\ next.ptr = exec.ptr /\ next.todo = exec.todo \ {t}
    BY <1>1, <1>2 DEF Proceed, ExecRecord
  <2> QED BY <2>1 DEF ExecTypeOK
<1>3. CASE ~ret'
  BY <1>3 DEF Proceed, ExecTypeOK, Idle
<1> QED BY <1>2, <1>3

LEMMA ExecuteType ==
    ASSUME TypeOK, phase = "ready", Execute
    PROVE  TypeOK'
<1> USE DEF TypeOK
<1> DEFINE Same == UNCHANGED <<phase, config, io_frozen, buffers, context, user_binding_addresses,
                               stream, running, got, ret>>
<1>1. Same => EngineTypeOK'
  BY DEF EngineTypeOK, buffers, context, running
<1>2. exec # Idle => /\ exec \in ExecRecord
                     /\ \A t \in Tensors : exec.ptr[t] \in {HostPtr} \cup UserPtr
  BY DEF ExecTypeOK, ExecRecord
<1>3. EngineTypeOK' => ret' \in BOOLEAN
  BY DEF EngineTypeOK
<1>4. CASE ExecuteBegin
  <2>1. PICK ptr \in [Tensors -> {HostPtr} \cup UserPtr] :
            exec' = [stage |-> "inputs", ptr |-> ptr, todo |-> Inputs]
    BY <1>4 DEF ExecuteBegin
  <2>2. ExecTypeOK'
    BY <2>1 DEF ExecTypeOK, ExecRecord, Tensors
  <2> QED BY <1>1, <1>4, <2>2 DEF ExecuteBegin
<1>5. ASSUME NEW i \in Inputs, ExecuteInput(i) PROVE TypeOK'
  <2>1. exec # Idle /\ i \in Tensors
    BY <1>5 DEF ExecuteInput, Idle, Tensors
  <2>2. ctxShape[i] # Unresolved => ctxShape[i] \in Shapes
    BY DEF EngineTypeOK
  <2>3. EngineTypeOK'
    BY <1>2, <1>5, <2>1, <2>2, SetInputDataType, RefuseType, SetBindingAddressType DEF ExecuteInput
  <2> QED BY <1>3, <1>5, <2>1, <2>3, ProceedType DEF ExecuteInput
<1>6. ASSUME NEW o \in Outputs, ExecuteOutput(o) PROVE TypeOK'
  <2>1. exec # Idle /\ o \in Tensors
    BY <1>6 DEF ExecuteOutput, Idle, Tensors
  <2>2. exec.ptr[o] \in UserPtr
    BY <1>2, <1>6, <2>1 DEF ExecuteOutput, ExecTypeOK
  <2>3. EngineTypeOK'
    BY <1>6, <2>1, <2>2, SetBindingAddressType DEF ExecuteOutput
  <2> QED BY <1>3, <1>6, <2>1, <2>3, ProceedType DEF ExecuteOutput
<1>7. ASSUME NEW o \in Outputs, ExecuteCopy(o) PROVE TypeOK'
  <2>1. exec # Idle
    BY <1>7 DEF ExecuteCopy, Idle
  <2>2. EngineTypeOK'
    BY <1>7, GetOutputDataType DEF ExecuteCopy
  <2> QED BY <1>3, <1>7, <2>1, <2>2, ProceedType DEF ExecuteCopy
<1>8. CASE ExecuteInfer
  <2>1. EngineTypeOK' /\ exec \in ExecRecord
    BY <1>2, <1>8, InferAsyncType DEF ExecuteInfer, Idle
  <2> DEFINE next == [exec EXCEPT !.stage = "copy", !.todo = {o \in Outputs : exec.ptr[o] = HostPtr}]
  <2>2. next \in ExecRecord /\ next.stage = "copy" /\ next.todo \subseteq Outputs
    BY <2>1 DEF ExecRecord, Tensors
  <2>3. exec' = next \/ exec' = Idle
    BY <1>8 DEF ExecuteInfer
  <2>4. exec' = next => ExecTypeOK'
    BY <2>2 DEF ExecTypeOK
  <2>5. exec' = Idle => ExecTypeOK'
    BY DEF ExecTypeOK, Idle
  <2> QED BY <2>1, <2>3, <2>4, <2>5
<1>9. CASE ExecuteAdvance
  <2>1. EngineTypeOK' /\ exec \in ExecRecord
    BY <1>1, <1>2, <1>9 DEF ExecuteAdvance
  <2> DEFINE next == [exec EXCEPT !.stage = "outputs", !.todo = {o \in Outputs : exec.ptr[o] # HostPtr}]
  <2>2. /\ next \in ExecRecord /\ next.stage = "outputs" /\ next.ptr = exec.ptr
        /\ next.todo = {o \in Outputs : exec.ptr[o] # HostPtr}
    BY <2>1 DEF ExecRecord, Tensors
  <2>3. exec' = next \/ exec' = Idle
    BY <1>9 DEF ExecuteAdvance
  <2>4. exec' = next => ExecTypeOK'
    BY <2>2 DEF ExecTypeOK
  <2>5. exec' = Idle => ExecTypeOK'
    BY DEF ExecTypeOK, Idle
  <2> QED BY <2>1, <2>3, <2>4, <2>5
<1> QED BY <1>4, <1>5, <1>6, <1>7, <1>8, <1>9 DEF Execute

-----------------------------------------------------------------------------
LEMMA InitType == Init => TypeOK
<1> SUFFICES ASSUME Init PROVE TypeOK
  OBVIOUS
<1>1. tensor_map \in [Tensors -> TensorRecord]
  BY NewTensorType, EngineAssumption DEF Init
<1>2. EngineTypeOK
  BY <1>1, EngineAssumption DEF Init, EngineTypeOK, Config, Address, Tensors
<1>3. ExecTypeOK
  BY DEF Init, ExecTypeOK, Idle
<1> QED BY <1>2, <1>3 DEF TypeOK

LEMMA NextType == TypeOK /\ [Next]_vars => TypeOK'
<1> SUFFICES ASSUME TypeOK, [Next]_vars PROVE TypeOK'
  OBVIOUS
<1>1. UNCHANGED exec => ExecTypeOK'
  BY DEF TypeOK, ExecTypeOK
<1>2. CASE \E c \in Configs : Construct(c) /\ UNCHANGED exec
  BY <1>1, <1>2, ConstructType, ConfigAssumption DEF TypeOK
<1>3. CASE ConstructorFreeze /\ UNCHANGED exec
  <2>1. CASE FreezeIO
    BY <1>1, <1>3, <2>1, FreezeIOType DEF ConstructorFreeze, TypeOK
  <2>2. CASE ~FreezeIO
    BY <1>1, <1>3, <2>2 DEF ConstructorFreeze, TypeOK, EngineTypeOK, buffers, context, running
  <2> QED BY <2>1, <2>2
<1>4. CASE Cleanup /\ UNCHANGED exec
  BY <1>1, <1>4, CleanupType DEF TypeOK
<1>5. CASE phase = "ready" /\ Call /\ UNCHANGED exec
  BY <1>1, <1>5, CallType DEF TypeOK
<1>6. CASE phase = "ready" /\ FreezeIO /\ UNCHANGED phase /\ UNCHANGED exec
  BY <1>1, <1>6, FreezeIOType DEF TypeOK
<1>7. CASE phase = "ready" /\ Execute
  BY <1>7, ExecuteType
<1>8. CASE UNCHANGED vars
  BY <1>1, <1>8 DEF vars, TypeOK, EngineTypeOK
<1> QED BY <1>2, <1>3, <1>4, <1>5, <1>6, <1>7, <1>8 DEF Next

\* Every variable of the engine keeps its type, and Execute never has an item left
\* to do that its present loop does not handle.
THEOREM TypeCorrect == Spec => []TypeOK
BY InitType, NextType, PTL DEF Spec

-----------------------------------------------------------------------------
(* The inductive invariant.  FrozenBound alone is not inductive: a graph is    *)
(* captured from, and an inference launched with, the addresses it speaks of,  *)
(* and it only starts to hold when the constructor is over.                    *)

EnteredUnfrozen == phase \in {"new", "allocated"} => ~io_frozen
GraphAddressed == graph # None => \A t \in Tensors : graph.addr[t] # Null

IInv ==
    /\ TypeOK
    /\ EnteredUnfrozen
    /\ GraphAddressed
    /\ GraphCurrent
    /\ FrozenBound
    /\ LaunchCurrent
    /\ LaunchLive

\* The memory of every tensor stays where it is.
SameMemory == \A t \in Tensors : /\ tensor_map'[t].cap = tensor_map[t].cap
                                 /\ tensor_map'[t].alloc = tensor_map[t].alloc

\* What any call does to the engine's own variables, whether the client or Execute
\* makes it.
Operation ==
    \/ \E s \in Streams : SetStream(s)
    \/ \E enable \in BOOLEAN : EnableCudaGraph(enable)
    \/ \E i \in Inputs, s \in Shapes : SetBindingShape(i, s) \/ SetInputData(i, s)
    \/ \E p \in Profiles : SetOptimizationProfile(p)
    \/ \E t \in Tensors, ptr \in UserPtr : SetBindingAddress(t, ptr)
    \/ \E t \in Tensors, s \in Shapes : ReshapeBinding(t, s)
    \/ \E o \in Outputs : \E n : GetOutputData(o, n)
    \/ CaptureCudaGraph \/ DestroyCudaGraph
    \/ InferAsync
    \/ FreezeIO /\ UNCHANGED phase
    \/ Refuse

engine_vars == <<phase, config, io_frozen, tensor_map, profile, ctxShape, ctxAddr,
                 user_binding_addresses, stream, graph, output_ready, launch, got>>

LEMMA ExecuteIsOperation ==
    ASSUME TypeOK, Execute
    PROVE  Operation \/ UNCHANGED engine_vars
<1>1. exec # Idle => \A t \in Tensors : exec.ptr[t] \in {HostPtr} \cup UserPtr
  BY DEF TypeOK, ExecTypeOK, ExecRecord
<1>2. CASE ExecuteBegin \/ ExecuteAdvance
  BY <1>2 DEF ExecuteBegin, ExecuteAdvance, engine_vars, buffers, context, running
<1>3. ASSUME NEW i \in Inputs, ExecuteInput(i) PROVE Operation
  <2>1. exec # Idle /\ i \in Tensors
    BY <1>3 DEF ExecuteInput, Idle, Tensors
  <2>2. ctxShape[i] # Unresolved => ctxShape[i] \in Shapes
    BY DEF TypeOK, EngineTypeOK
  <2> QED BY <1>1, <1>3, <2>1, <2>2 DEF ExecuteInput, Operation
<1>4. ASSUME NEW o \in Outputs, ExecuteOutput(o) PROVE Operation
  <2>1. o \in Tensors /\ exec.ptr[o] \in UserPtr
    BY <1>1, <1>4 DEF ExecuteOutput, TypeOK, ExecTypeOK, Idle, Tensors
  <2> QED BY <1>4, <2>1 DEF ExecuteOutput, Operation
<1>5. ASSUME NEW o \in Outputs, ExecuteCopy(o) PROVE Operation
  BY <1>5 DEF ExecuteCopy, Operation
<1>6. CASE ExecuteInfer
  BY <1>6 DEF ExecuteInfer, Operation
<1> QED BY <1>2, <1>3, <1>4, <1>5, <1>6 DEF Execute

\* What a step of the system is, as far as the engine's variables go.
LEMMA NextIsOperation ==
    ASSUME TypeOK, [Next]_vars
    PROVE  \/ \E c \in Config : Construct(c)
           \/ ConstructorFreeze
           \/ Cleanup
           \/ phase = "ready" /\ Operation
           \/ UNCHANGED engine_vars
<1>1. Call => Operation
  BY DEF Call, Operation
<1>2. Execute => Operation \/ UNCHANGED engine_vars
  BY ExecuteIsOperation
<1>3. UNCHANGED vars => UNCHANGED engine_vars
  BY DEF vars, engine_vars
<1>4. phase = "ready" /\ FreezeIO /\ UNCHANGED phase => phase = "ready" /\ Operation
  BY DEF Operation
<1> QED BY <1>1, <1>2, <1>3, <1>4, ConfigAssumption DEF Next

-----------------------------------------------------------------------------
(* While the I/O is frozen.                                                 *)

LEMMA FrozenUpdate ==
    ASSUME EngineTypeOK, io_frozen, NEW stop \in Outputs \cup {Past}, UpdateOutputShapes(stop)
    PROVE  SameMemory /\ ResizedAddr(stop) = ctxAddr
<1>1. ASSUME NEW t \in Tensors
      PROVE  /\ tensor_map'[t].cap = tensor_map[t].cap
             /\ tensor_map'[t].alloc = tensor_map[t].alloc
  <2>1. tensor_map'[t] = IF t \notin Outputs \/ t > stop THEN tensor_map[t]
                         ELSE IF t = stop THEN StoppedOutput(t) ELSE UpdatedOutput(t)
    BY DEF UpdateOutputShapes
  <2>2. StoppedOutput(t) = tensor_map[t]
    BY DEF StoppedOutput
  <2>3. ASSUME t \in Outputs, ~(t > stop), t # stop
        PROVE  \/ UpdatedOutput(t) = tensor_map[t]
               \/ UpdatedOutput(t) = Reshaped(tensor_map[t], ContextShape(t))
    <3>1. t < stop
      BY <2>3, IndexIsNat DEF Past
    <3> QED BY <2>3, <3>1 DEF UpdateOutputShapes, MayPass, UpdatedOutput
  <2>4. tensor_map[t] \in TensorRecord
    BY DEF EngineTypeOK
  <2>5. ASSUME NEW s
        PROVE  /\ Reshaped(tensor_map[t], s).cap = tensor_map[t].cap
               /\ Reshaped(tensor_map[t], s).alloc = tensor_map[t].alloc
    BY <2>4 DEF Reshaped, TensorRecord
  <2> QED BY <2>1, <2>2, <2>3, <2>5
<1>2. ResizedAddr(stop) = ctxAddr
  BY DEF ResizedAddr, UpdateOutputShapes, MayPass, EngineTypeOK
<1> QED BY <1>1, <1>2 DEF SameMemory

LEMMA SameMemoryOwnAddr ==
    ASSUME SameMemory
    PROVE  \A t \in Tensors : OwnAddr(t, tensor_map'[t]) = OwnAddr(t, tensor_map[t])
BY DEF SameMemory, OwnAddr

LEMMA UnchangedSameMemory == UNCHANGED tensor_map => SameMemory
BY DEF SameMemory

LEMMA ReshapedSameMemory ==
    ASSUME EngineTypeOK, NEW t \in Tensors, NEW s,
           tensor_map' = [tensor_map EXCEPT ![t] = Reshaped(@, s)]
    PROVE  SameMemory
<1>1. tensor_map[t] \in TensorRecord
  BY DEF EngineTypeOK
<1>2. /\ Reshaped(tensor_map[t], s).cap = tensor_map[t].cap
      /\ Reshaped(tensor_map[t], s).alloc = tensor_map[t].alloc
  BY <1>1 DEF Reshaped, TensorRecord
<1> QED BY <1>2 DEF SameMemory, EngineTypeOK

\* No call changes the addresses, the user's bindings or the memory of a tensor.
LEMMA FrozenOperation ==
    ASSUME EngineTypeOK, io_frozen, Operation
    PROVE  io_frozen' /\ ctxAddr' = ctxAddr /\ SameMemory /\ UNCHANGED user_binding_addresses
<1> DEFINE Kept == io_frozen' /\ ctxAddr' = ctxAddr /\ SameMemory /\ UNCHANGED user_binding_addresses
<1>1. Refuse => Kept
  BY UnchangedSameMemory DEF Refuse, buffers
<1>2. ASSUME NEW s \in Streams, SetStream(s) PROVE Kept
  BY <1>2, UnchangedSameMemory DEF SetStream, buffers
<1>3. ASSUME NEW enable \in BOOLEAN, EnableCudaGraph(enable) PROVE Kept
  BY <1>3, UnchangedSameMemory DEF EnableCudaGraph, buffers
<1>4. ASSUME NEW i \in Inputs, NEW s \in Shapes, SetBindingShape(i, s) PROVE Kept
  BY <1>1, <1>4, UnchangedSameMemory DEF SetBindingShape, buffers
<1>5. ASSUME NEW i \in Inputs, NEW s \in Shapes, SetInputData(i, s) PROVE Kept
  <2>1. i \in Tensors
    BY DEF Tensors
  <2> QED BY <1>1, <1>5, <2>1, ReshapedSameMemory DEF SetInputData
<1>6. ASSUME NEW p \in Profiles, SetOptimizationProfile(p) PROVE Kept
  BY <1>1, <1>6 DEF SetOptimizationProfile
<1>7. ASSUME NEW t \in Tensors, NEW ptr \in UserPtr, SetBindingAddress(t, ptr) PROVE Kept
  BY <1>1, <1>7 DEF SetBindingAddress
<1>8. ASSUME NEW t \in Tensors, NEW s \in Shapes, ReshapeBinding(t, s) PROVE Kept
  BY <1>8, ReshapedSameMemory DEF ReshapeBinding
<1>9. ASSUME NEW o \in Outputs, NEW n, GetOutputData(o, n) PROVE Kept
  BY <1>9, FrozenUpdate, UnchangedSameMemory DEF GetOutputData, buffers
<1>10. CaptureCudaGraph => Kept
  BY <1>1, UnchangedSameMemory DEF CaptureCudaGraph, buffers
<1>13. DestroyCudaGraph => Kept
  BY UnchangedSameMemory DEF DestroyCudaGraph, buffers
<1>11. InferAsync => Kept
  BY UnchangedSameMemory DEF InferAsync, InferAddr
<1>12. FreezeIO => Kept
  BY UnchangedSameMemory DEF FreezeIO, buffers
<1> QED
  BY <1>1, <1>2, <1>3, <1>4, <1>5, <1>6, <1>7, <1>8, <1>9, <1>10, <1>11, <1>12, <1>13
  DEF Operation

LEMMA BoundAddrKept ==
    ASSUME SameMemory, UNCHANGED user_binding_addresses
    PROVE  BoundAddr(tensor_map)' = BoundAddr(tensor_map)
BY SameMemoryOwnAddr DEF BoundAddr

-----------------------------------------------------------------------------
(* Steps: the frozen state, the graph and the launch.                       *)

LEMMA EnteredUnfrozenStep ==
    ASSUME TypeOK, EnteredUnfrozen, [Next]_vars
    PROVE  EnteredUnfrozen'
<1>1. CASE \E c \in Config : Construct(c)
  BY <1>1 DEF Construct, EnteredUnfrozen
<1>2. CASE ConstructorFreeze
  BY <1>2 DEF ConstructorFreeze, EnteredUnfrozen
<1>3. CASE Cleanup
  BY <1>3 DEF Cleanup, EnteredUnfrozen
<1>4. CASE phase = "ready" /\ Operation
  <2>1. phase' \in {"ready", "aborted"}
    BY <1>4 DEF Operation, SetStream, EnableCudaGraph, SetBindingShape, SetInputData,
       SetOptimizationProfile, SetBindingAddress, ReshapeBinding, GetOutputData,
       CaptureCudaGraph, DestroyCudaGraph, InferAsync, Refuse
  <2> QED BY <2>1 DEF EnteredUnfrozen
<1>5. CASE UNCHANGED engine_vars
  BY <1>5 DEF engine_vars, EnteredUnfrozen
<1> QED BY <1>1, <1>2, <1>3, <1>4, <1>5, NextIsOperation

\* The graph after a step: none, the one there was, or one just captured.
LEMMA GraphStep ==
    ASSUME TypeOK, EnteredUnfrozen, GraphCurrent, [Next]_vars, graph' # None
    PROVE  \/ /\ graph' = graph
              /\ UNCHANGED <<io_frozen, ctxAddr, ctxShape, stream>> /\ config'.graph = config.graph
           \/ /\ graph' = Captured /\ ShouldUseCudaGraph /\ Enqueueable(ctxAddr)
              /\ UNCHANGED <<config, io_frozen, ctxAddr, ctxShape, stream>>
<1> DEFINE Kept == /\ graph' = graph
                   /\ UNCHANGED <<io_frozen, ctxAddr, ctxShape, stream>> /\ config'.graph = config.graph
           Fresh == /\ graph' = Captured /\ ShouldUseCudaGraph /\ Enqueueable(ctxAddr)
                    /\ UNCHANGED <<config, io_frozen, ctxAddr, ctxShape, stream>>
<1> USE DEF ResetCudaGraph
<1>1. graph # None => io_frozen /\ config.graph /\ phase \notin {"new", "allocated"}
  BY DEF GraphCurrent, EnteredUnfrozen
<1>2. EngineTypeOK
  BY DEF TypeOK
<1>3. CASE \E c \in Config : Construct(c)
  BY <1>1, <1>3 DEF Construct, running
<1>4. CASE ConstructorFreeze
  <2>1. graph = None
    BY <1>1, <1>4 DEF ConstructorFreeze
  <2> QED BY <1>4, <2>1 DEF ConstructorFreeze, FreezeIO, Freeze, running
<1>5. CASE Cleanup
  BY <1>5 DEF Cleanup
<1>6. CASE phase = "ready" /\ Operation
  <2>1. Refuse => Kept
    BY DEF Refuse, buffers, context, running
  <2>2. ASSUME NEW s \in Streams, SetStream(s) PROVE Kept
    BY <2>2 DEF SetStream
  <2>3. ASSUME NEW enable \in BOOLEAN, EnableCudaGraph(enable) PROVE Kept
    <3>1. enable /\ graph' = graph /\ config'.graph = enable
      BY <1>2, <2>3 DEF EnableCudaGraph, EngineTypeOK, Config
    <3> QED BY <1>1, <2>3, <3>1 DEF EnableCudaGraph, buffers, context
  <2>4. ASSUME NEW i \in Inputs, NEW s \in Shapes, SetBindingShape(i, s) PROVE Kept
    BY <1>1, <2>1, <2>4 DEF SetBindingShape
  <2>5. ASSUME NEW i \in Inputs, NEW s \in Shapes, SetInputData(i, s) PROVE Kept
    BY <2>1, <2>5 DEF SetInputData, context, running
  <2>6. ASSUME NEW p \in Profiles, SetOptimizationProfile(p) PROVE Kept
    BY <2>1, <2>6 DEF SetOptimizationProfile
  <2>7. ASSUME NEW t \in Tensors, NEW ptr \in UserPtr, SetBindingAddress(t, ptr) PROVE Kept
    BY <2>1, <2>7 DEF SetBindingAddress
  <2>8. ASSUME NEW t \in Tensors, NEW s \in Shapes, ReshapeBinding(t, s) PROVE Kept
    BY <2>8 DEF ReshapeBinding, context, running
  <2>9. ASSUME NEW o \in Outputs, NEW n, GetOutputData(o, n) PROVE Kept
    BY <1>1, <1>2, <2>9, FrozenUpdate DEF GetOutputData, buffers, context, running
  <2>10. CaptureCudaGraph => Kept \/ Fresh
    BY <2>1 DEF CaptureCudaGraph, buffers, context
  <2>13. DestroyCudaGraph => Kept
    BY DEF DestroyCudaGraph
  <2>11. CASE InferAsync
    <3>1. UNCHANGED <<config, io_frozen, ctxShape, stream>>
      BY <2>11 DEF InferAsync, context
    <3>2. CASE graph' = graph
      BY <1>1, <2>11, <3>1, <3>2 DEF InferAsync, InferAddr
    <3>3. CASE graph' # graph
      BY <2>11, <3>1, <3>3 DEF InferAsync, InferAddr, LaunchGraph, ShouldUseCudaGraph
    <3> QED BY <3>2, <3>3
  <2>12. FreezeIO => Kept
    BY <1>1 DEF FreezeIO, Freeze, buffers, context, running
  <2> QED
    BY <1>6, <2>1, <2>2, <2>3, <2>4, <2>5, <2>6, <2>7, <2>8, <2>9, <2>10, <2>11, <2>12, <2>13
    DEF Operation
<1>7. CASE UNCHANGED engine_vars
  BY <1>7 DEF engine_vars
<1> QED BY <1>3, <1>4, <1>5, <1>6, <1>7, NextIsOperation

LEMMA GraphCurrentStep ==
    ASSUME TypeOK, EnteredUnfrozen, GraphCurrent, GraphAddressed, [Next]_vars
    PROVE  GraphCurrent' /\ GraphAddressed'
<1>1. CASE graph' = None
  BY <1>1 DEF GraphCurrent, GraphAddressed
<1>2. CASE graph' # None
  BY <1>2, GraphStep DEF GraphCurrent, GraphAddressed, Captured, ShouldUseCudaGraph, Enqueueable
<1> QED BY <1>1, <1>2

LEMMA FrozenBoundStep ==
    ASSUME TypeOK, EnteredUnfrozen, FrozenBound, [Next]_vars
    PROVE  FrozenBound'
<1>1. EngineTypeOK
  BY DEF TypeOK
<1>2. Freeze => ctxAddr' = BoundAddr(tensor_map)'
  BY DEF Freeze, BoundAddr
<1>3. CASE \E c \in Config : Construct(c)
  BY <1>3 DEF Construct, FrozenBound
<1>4. CASE ConstructorFreeze
  BY <1>2, <1>4 DEF ConstructorFreeze, FreezeIO, FrozenBound, EnteredUnfrozen
<1>5. CASE Cleanup
  BY <1>5 DEF Cleanup, FrozenBound
<1>6. CASE phase = "ready" /\ Operation
  <2>1. CASE io_frozen
    BY <1>1, <1>6, <2>1, FrozenOperation, BoundAddrKept DEF FrozenBound
  <2>2. CASE ~io_frozen /\ Freeze
    BY <1>2, <2>2 DEF FrozenBound
  <2>3. CASE ~io_frozen /\ ~Freeze
    <3>1. ~io_frozen'
      BY <1>6, <2>3 DEF Operation, SetStream, EnableCudaGraph, SetBindingShape, SetInputData,
         SetOptimizationProfile, SetBindingAddress, ReshapeBinding, GetOutputData,
         CaptureCudaGraph, DestroyCudaGraph, InferAsync, FreezeIO, Refuse
    <3> QED BY <3>1 DEF FrozenBound
  <2> QED BY <2>1, <2>2, <2>3
<1>7. CASE UNCHANGED engine_vars
  BY <1>7 DEF engine_vars, FrozenBound, BoundAddr
<1> QED BY <1>3, <1>4, <1>5, <1>6, <1>7, NextIsOperation

\* Only an inference changes the launch, and it runs with the addresses that are
\* bound and non-null, and with the shapes that are set.
LEMMA LaunchedStep ==
    ASSUME TypeOK, EnteredUnfrozen, GraphCurrent, GraphAddressed, FrozenBound, [Next]_vars
    PROVE  \/ launch' = launch
           \/ \E addr, shape :
                 /\ launch' = Launched(addr, shape)
                 /\ addr = BoundAddr(tensor_map) /\ shape = ctxShape /\ shape \in [Inputs -> Shapes]
                 /\ \A t \in Tensors : addr[t] # Null
                 /\ phase = "ready" /\ UNCHANGED <<phase, tensor_map, user_binding_addresses>>
<1>1. CASE \E c \in Config : Construct(c)
  BY <1>1 DEF Construct, running
<1>2. CASE ConstructorFreeze
  BY <1>2 DEF ConstructorFreeze, FreezeIO, Freeze, running
<1>3. CASE Cleanup
  BY <1>3 DEF Cleanup
<1>4. CASE phase = "ready" /\ Operation /\ ~InferAsync
  <2>1. Refuse => launch' = launch
    BY DEF Refuse, running
  <2> QED BY <1>4, <2>1 DEF Operation, SetStream, EnableCudaGraph, SetBindingShape, SetInputData,
         SetOptimizationProfile, SetBindingAddress, ReshapeBinding, GetOutputData,
         CaptureCudaGraph, DestroyCudaGraph, FreezeIO, Freeze, running
<1>5. CASE phase = "ready" /\ InferAsync
  <2> DEFINE Current(addr, shape) ==
                 /\ launch' = Launched(addr, shape)
                 /\ addr = BoundAddr(tensor_map) /\ shape = ctxShape /\ shape \in [Inputs -> Shapes]
                 /\ \A t \in Tensors : addr[t] # Null
                 /\ phase = "ready" /\ UNCHANGED <<phase, tensor_map, user_binding_addresses>>
  <2>1. InferAddr = BoundAddr(tensor_map) /\ (io_frozen => ctxAddr = BoundAddr(tensor_map))
    BY <1>5 DEF InferAddr, FrozenBound
  <2>6. phase = "ready" /\ UNCHANGED <<phase, tensor_map, user_binding_addresses>>
    BY <1>5 DEF InferAsync
  <2>7. /\ Resolved => ctxShape \in [Inputs -> Shapes]
        /\ graph # None => graph.shape \in [Inputs -> Shapes]
    BY DEF TypeOK, EngineTypeOK, GraphRecord, Resolved
  <2>2. CASE graph # None /\ LaunchGraph(graph)
    <3>1. graph.addr = BoundAddr(tensor_map) /\ graph.shape = ctxShape
      BY <2>1, <2>2 DEF GraphCurrent
    <3>2. Current(graph.addr, graph.shape)
      BY <2>2, <2>6, <2>7, <3>1 DEF LaunchGraph, GraphAddressed
    <3> QED BY <3>2
  <2>3. CASE ShouldUseCudaGraph /\ Enqueueable(ctxAddr) /\ LaunchGraph(Captured)
    <3>1. Captured.addr = ctxAddr /\ Captured.shape = ctxShape
      BY DEF Captured
    <3>2. Current(Captured.addr, Captured.shape)
      BY <2>1, <2>3, <2>6, <2>7, <3>1 DEF LaunchGraph, ShouldUseCudaGraph, Enqueueable
    <3> QED BY <3>2
  <2>4. CASE ShouldUseCudaGraph /\ Enqueue(ctxAddr)
    <3>1. launch' # launch => Current(ctxAddr, ctxShape)
      BY <2>1, <2>4, <2>6, <2>7 DEF Enqueue, ShouldUseCudaGraph, Enqueueable
    <3> QED BY <3>1
  <2>5. CASE Enqueue(ctxAddr')
    <3>1. launch' # launch => Current(ctxAddr', ctxShape)
      BY <1>5, <2>1, <2>5, <2>6, <2>7 DEF Enqueue, Enqueueable, InferAsync
    <3> QED BY <3>1
  <2> QED BY <1>5, <2>2, <2>3, <2>4, <2>5 DEF InferAsync
<1>6. CASE UNCHANGED engine_vars
  BY <1>6 DEF engine_vars
<1> QED BY <1>1, <1>2, <1>3, <1>4, <1>5, <1>6, NextIsOperation

LEMMA BoundRoom ==
    ASSUME TypeOK, NEW t \in Tensors,
           BoundAddr(tensor_map)[t] # Null, BoundAddr(tensor_map)[t] \notin UserPtr
    PROVE  Room(t, BoundAddr(tensor_map)[t]) > 0
<1>1. tensor_map[t] \in TensorRecord /\ user_binding_addresses[t] \in UserPtr \cup {None}
  BY DEF TypeOK, EngineTypeOK
<1>2. BoundAddr(tensor_map)[t] = OwnAddr(t, tensor_map[t])
  BY <1>1 DEF BoundAddr
<1>3. tensor_map[t].cap \in Nat /\ tensor_map[t].cap # 0
  BY <1>1, <1>2 DEF OwnAddr, TensorRecord
<1> QED BY <1>2, <1>3 DEF Room

LEMMA LaunchStep ==
    ASSUME IInv, [Next]_vars
    PROVE  LaunchCurrent' /\ LaunchLive'
<1> USE DEF IInv
<1>1. CASE launch' = launch
  BY <1>1 DEF LaunchCurrent, LaunchLive
<1>2. CASE launch' # launch
  <2>1. PICK addr, shape : /\ launch' = Launched(addr, shape)
                           /\ addr = BoundAddr(tensor_map) /\ shape = ctxShape
                           /\ \A t \in Tensors : addr[t] # Null
    BY <1>2, LaunchedStep
  <2>2. /\ launch'.addr = addr /\ launch'.shape = shape
        /\ launch'.bound = BoundAddr(tensor_map) /\ launch'.asked = ctxShape
        /\ \A t \in Tensors : launch'.room[t] = Room(t, addr[t])
    BY <2>1 DEF Launched
  <2> QED BY <2>1, <2>2, BoundRoom DEF LaunchCurrent, LaunchLive
<1> QED BY <1>1, <1>2

-----------------------------------------------------------------------------
LEMMA InitInvariant == Init => IInv
<1> SUFFICES ASSUME Init PROVE IInv
  OBVIOUS
<1>1. TypeOK
  BY InitType
<1>2. /\ EnteredUnfrozen /\ GraphAddressed /\ GraphCurrent
      /\ FrozenBound /\ LaunchCurrent /\ LaunchLive
  BY DEF Init, EnteredUnfrozen, GraphAddressed, GraphCurrent, FrozenBound, LaunchCurrent, LaunchLive
<1> QED BY <1>1, <1>2 DEF IInv

LEMMA NextInvariant == IInv /\ [Next]_vars => IInv'
<1> SUFFICES ASSUME IInv, [Next]_vars PROVE IInv'
  OBVIOUS
<1>1. TypeOK'
  BY NextType DEF IInv
<1>2. EnteredUnfrozen' /\ GraphCurrent' /\ GraphAddressed' /\ FrozenBound'
  BY EnteredUnfrozenStep, GraphCurrentStep, FrozenBoundStep DEF IInv
<1>3. LaunchCurrent' /\ LaunchLive'
  BY LaunchStep
<1> QED BY <1>1, <1>2, <1>3 DEF IInv

LEMMA Invariant == Spec => []IInv
BY InitInvariant, NextInvariant, PTL DEF Spec

\* A captured CUDA graph is never older than the engine: it has been destroyed by
\* every call that changes the addresses, the shapes or the stream it was captured
\* with (ResetCudaGraph).
THEOREM GraphIsCurrent == Spec => []GraphCurrent
<1>1. IInv => GraphCurrent
  BY DEF IInv
<1> QED BY <1>1, Invariant, PTL

\* Skipping BindIOAddresses once the I/O is frozen loses nothing: the context still
\* holds the addresses it would bind.
THEOREM FrozenIsBound == Spec => []FrozenBound
<1>1. IInv => FrozenBound
  BY DEF IInv
<1> QED BY <1>1, Invariant, PTL

\* Every inference runs with the addresses bound and the shapes set when it is asked
\* for, on whichever of the three paths of InferAsync it is launched.
THEOREM LaunchIsCurrent == Spec => []LaunchCurrent
<1>1. IInv => LaunchCurrent
  BY DEF IInv
<1> QED BY <1>1, Invariant, PTL

\* No inference runs on memory of the engine that has been freed, whatever
\* allocations failed before.
THEOREM LaunchIsLive == Spec => []LaunchLive
<1>1. IInv => LaunchLive
  BY DEF IInv
<1> QED BY <1>1, Invariant, PTL

\* Freezing is for ever: no later call unfreezes the I/O, changes an address of the
\* context or moves the memory of a tensor.
THEOREM FrozenIsLocked == Spec => FrozenLocked
<1> DEFINE Locked == io_frozen /\ phase' = "ready" =>
                        /\ io_frozen' /\ ctxAddr' = ctxAddr
                        /\ \A t \in Tensors : OwnAddr(t, tensor_map'[t]) = OwnAddr(t, tensor_map[t])
<1>1. ASSUME IInv, [Next]_vars PROVE [Locked]_vars
  <2> SUFFICES ASSUME io_frozen, phase' = "ready"
               PROVE  /\ io_frozen' /\ ctxAddr' = ctxAddr
                      /\ \A t \in Tensors : OwnAddr(t, tensor_map'[t]) = OwnAddr(t, tensor_map[t])
    OBVIOUS
  <2>1. TypeOK /\ EngineTypeOK /\ phase \notin {"new", "allocated"}
    BY <1>1 DEF IInv, TypeOK, EnteredUnfrozen
  <2>2. CASE \E c \in Config : Construct(c)
    BY <2>1, <2>2 DEF Construct
  <2>3. CASE ConstructorFreeze \/ Cleanup
    BY <2>1, <2>3 DEF ConstructorFreeze, Cleanup
  <2>4. CASE phase = "ready" /\ Operation
    BY <2>1, <2>4, FrozenOperation, SameMemoryOwnAddr
  <2>5. CASE UNCHANGED engine_vars
    BY <2>5 DEF engine_vars
  <2> QED BY <1>1, <2>1, <2>2, <2>3, <2>4, <2>5, NextIsOperation
<1> QED BY <1>1, Invariant, PTL DEF Spec, FrozenLocked

-----------------------------------------------------------------------------
(* The refinement of TensorBuffer: whatever the client calls, the memory of a *)
(* tensor moves only when it must grow, or goes.                              *)

\* A tensor has no memory before the constructor gives it some.
NewEmpty == phase = "new" => \A t \in Tensors : tensor_map[t].cap = 0 /\ tensor_map[t].alloc = 0

RInv == TypeOK /\ NewEmpty

-----------------------------------------------------------------------------
(* What a call does to the record of one tensor: what a buffer may do.      *)

KeepsMemory(r, q) == q.cap = r.cap /\ q.alloc = r.alloc
Moves(r, q) ==
    \/ q.bytes = r.bytes /\ KeepsMemory(r, q)
    \/ q.bytes <= r.cap /\ KeepsMemory(r, q)
    \/ q.bytes > r.cap /\ q.cap = q.bytes /\ q.alloc = r.alloc + 1
    \/ q.bytes > r.cap /\ q.cap = 0
    \/ q.bytes = 0 /\ q.cap = 0

AllMove == \A t \in Tensors : Moves(tensor_map[t], tensor_map'[t])

BufferStep(t) == Buffer!Idles(t) \/ Buffer!InPlace(t) \/ Buffer!Grow(t) \/ Buffer!Release(t)

LEMMA OwnAddrNull ==
    ASSUME NEW t \in Tensors, NEW r \in TensorRecord
    PROVE  OwnAddr(t, r) = Null <=> r.cap = 0
<1>1. <<t, r.alloc>> \in Tensors \X Nat
  BY DEF TensorRecord, AllocNumber
<1>2. <<t, r.alloc>> # Null
  BY <1>1, EngineAssumption
<1> QED BY <1>2 DEF OwnAddr

LEMMA MoveIsBufferStep ==
    ASSUME EngineTypeOK, EngineTypeOK', NEW t \in Tensors, Moves(tensor_map[t], tensor_map'[t])
    PROVE  BufferStep(t)
<1> DEFINE r == tensor_map[t]
           q == tensor_map'[t]
<1>1. /\ r \in TensorRecord /\ q \in TensorRecord
      /\ r.bytes \in Nat /\ r.cap \in Nat /\ r.alloc \in Nat
      /\ q.bytes \in Nat /\ q.cap \in Nat /\ q.alloc \in Nat
  BY DEF EngineTypeOK, TensorRecord, AllocNumber
<1>2. /\ OwnAddr(t, r) = Null <=> r.cap = 0
      /\ OwnAddr(t, q) = Null <=> q.cap = 0
  BY <1>1, OwnAddrNull
<1>3. ASSUME KeepsMemory(r, q) PROVE OwnAddr(t, q) = OwnAddr(t, r)
  BY <1>3 DEF KeepsMemory, OwnAddr
<1>4. CASE q.bytes = r.bytes /\ KeepsMemory(r, q)
  <2>1. Buffer!Idles(t)
    BY <1>3, <1>4 DEF Buffer!Idles, Buffer!Keeps, KeepsMemory
  <2> QED BY <2>1 DEF BufferStep
<1>5. CASE q.bytes <= r.cap /\ KeepsMemory(r, q)
  <2>1. Buffer!InPlace(t)
    BY <1>3, <1>5 DEF Buffer!InPlace, Buffer!Keeps, KeepsMemory
  <2> QED BY <2>1 DEF BufferStep
<1>6. CASE q.bytes > r.cap /\ q.cap = q.bytes /\ q.alloc = r.alloc + 1
  <2>1. q.cap # 0
    BY <1>1, <1>6
  <2>2. OwnAddr(t, q) # Null /\ OwnAddr(t, q) = <<t, q.alloc>>
    BY <1>2, <2>1 DEF OwnAddr
  <2>3. OwnAddr(t, r) \in {Null, <<t, r.alloc>>}
    BY DEF OwnAddr
  <2>4. <<t, q.alloc>> # <<t, r.alloc>>
    BY <1>1, <1>6
  <2>5. OwnAddr(t, q) # OwnAddr(t, r)
    BY <2>2, <2>3, <2>4
  <2>6. Buffer!Grow(t)
    BY <1>6, <2>2, <2>5 DEF Buffer!Grow
  <2> QED BY <2>6 DEF BufferStep
<1>7. CASE q.bytes > r.cap /\ q.cap = 0
  <2>1. Buffer!Grow(t)
    BY <1>2, <1>7 DEF Buffer!Grow, Buffer!Loses
  <2> QED BY <2>1 DEF BufferStep
<1>8. CASE q.bytes = 0 /\ q.cap = 0
  <2>1. Buffer!Release(t)
    BY <1>2, <1>8 DEF Buffer!Release, Buffer!Loses
  <2> QED BY <2>1 DEF BufferStep
<1> QED BY <1>4, <1>5, <1>6, <1>7, <1>8 DEF Moves

LEMMA BuffersSeparate ==
    ASSUME EngineTypeOK
    PROVE  Buffer!Separate
<1> SUFFICES ASSUME NEW t \in Tensors, NEW u \in Tensors, t # u, OwnAddr(t, tensor_map[t]) # Null
             PROVE  OwnAddr(t, tensor_map[t]) # OwnAddr(u, tensor_map[u])
  BY DEF Buffer!Separate
<1> QED BY DEF OwnAddr

-----------------------------------------------------------------------------
(* Every step moves every tensor so.                                        *)

LEMMA UnchangedMoves == UNCHANGED tensor_map => AllMove
BY DEF AllMove, Moves, KeepsMemory

\* Reshaped within the capacity, or grown, or failed to grow.
LEMMA RecordMoves ==
    ASSUME NEW r \in TensorRecord, NEW s \in Shapes
    PROVE  /\ CanReshape(r, s) => Moves(r, Reshaped(r, s))
           /\ ~CanReshape(r, s) => /\ Moves(r, Allocated(r, Bytes[s]))
                                   /\ Moves(r, Allocated(Reshaped(r, s), Bytes[s]))
                                   /\ Moves(r, AllocFailed(r, Bytes[s]))
                                   /\ Moves(r, AllocFailed(Reshaped(r, s), Bytes[s]))
<1>1. Bytes[s] \in Nat /\ r.cap \in Nat
  BY EngineAssumption DEF TensorRecord
<1> QED BY <1>1 DEF TensorRecord, CanReshape, Moves, KeepsMemory, Reshaped, Allocated, AllocFailed

LEMMA UpdateMoves ==
    ASSUME EngineTypeOK, NEW stop \in Outputs \cup {Past}, UpdateOutputShapes(stop)
    PROVE  AllMove
<1> SUFFICES ASSUME NEW t \in Tensors PROVE Moves(tensor_map[t], tensor_map'[t])
  BY DEF AllMove
<1>1. tensor_map'[t] = IF t \notin Outputs \/ t > stop THEN tensor_map[t]
                       ELSE IF t = stop THEN StoppedOutput(t) ELSE UpdatedOutput(t)
  BY DEF UpdateOutputShapes
<1>2. Moves(tensor_map[t], tensor_map[t])
  BY DEF Moves, KeepsMemory
<1>3. tensor_map[t] \in TensorRecord
  BY DEF EngineTypeOK
<1>4. ContextShape(t) # Unresolved => ContextShape(t) \in Shapes
  BY ContextShapeType
<1>5. ASSUME t = stop, t \in Outputs PROVE Moves(tensor_map[t], StoppedOutput(t))
  <2>1. Grows(t)
    BY <1>5, IndexIsNat DEF UpdateOutputShapes, MayStop, Past
  <2>2. ~CanReshape(tensor_map[t], ContextShape(t)) /\ ContextShape(t) \in Shapes
    BY <1>3, <1>4, <2>1, EngineAssumption DEF Grows, CanReshape, TensorRecord
  <2> QED BY <1>2, <1>3, <2>2, RecordMoves DEF StoppedOutput
<1>6. Moves(tensor_map[t], UpdatedOutput(t))
  <2>1. CASE ContextShape(t) = Unresolved
    BY <1>2, <2>1 DEF UpdatedOutput
  <2>2. CASE ContextShape(t) # Unresolved
    <3>1. Grows(t) <=> ~CanReshape(tensor_map[t], ContextShape(t))
      BY <1>3, <1>4, <2>2, EngineAssumption DEF Grows, CanReshape, TensorRecord
    <3> QED BY <1>3, <1>4, <2>2, <3>1, RecordMoves DEF UpdatedOutput
  <2> QED BY <2>1, <2>2
<1> QED BY <1>1, <1>2, <1>5, <1>6

LEMMA OneMoves ==
    ASSUME EngineTypeOK, NEW t \in Tensors, NEW q, Moves(tensor_map[t], q),
           tensor_map' = [tensor_map EXCEPT ![t] = q]
    PROVE  AllMove
BY DEF AllMove, Moves, KeepsMemory, EngineTypeOK

LEMMA SetInputDataMoves ==
    ASSUME EngineTypeOK, NEW i \in Inputs, NEW s \in Shapes, SetInputData(i, s)
    PROVE  AllMove
<1>1. i \in Tensors /\ tensor_map[i] \in TensorRecord
  BY DEF EngineTypeOK, Tensors
<1>2. CASE CanReshape(tensor_map[i], s)
  BY <1>1, <1>2, RecordMoves, OneMoves DEF SetInputData
<1>3. CASE ~CanReshape(tensor_map[i], s) /\ tensor_map' = [tensor_map EXCEPT ![i] = Allocated(Reshaped(@, s), Bytes[s])]
  BY <1>1, <1>3, RecordMoves, OneMoves
<1>4. CASE ~CanReshape(tensor_map[i], s) /\ tensor_map' = [tensor_map EXCEPT ![i] = AllocFailed(Reshaped(@, s), Bytes[s])]
  BY <1>1, <1>4, RecordMoves, OneMoves
<1>5. CASE Refuse
  BY <1>5, UnchangedMoves DEF Refuse, buffers
<1> QED BY <1>2, <1>3, <1>4, <1>5 DEF SetInputData

LEMMA OperationMoves ==
    ASSUME EngineTypeOK, Operation
    PROVE  AllMove
<1>1. Refuse => AllMove
  BY UnchangedMoves DEF Refuse, buffers
<1>2. ASSUME NEW s \in Streams, SetStream(s) PROVE AllMove
  BY <1>2, UnchangedMoves DEF SetStream, buffers
<1>3. ASSUME NEW enable \in BOOLEAN, EnableCudaGraph(enable) PROVE AllMove
  BY <1>3, UnchangedMoves DEF EnableCudaGraph, buffers
<1>4. ASSUME NEW i \in Inputs, NEW s \in Shapes, SetBindingShape(i, s) PROVE AllMove
  BY <1>1, <1>4, UnchangedMoves DEF SetBindingShape, buffers
<1>5. ASSUME NEW p \in Profiles, SetOptimizationProfile(p) PROVE AllMove
  BY <1>1, <1>5, UnchangedMoves DEF SetOptimizationProfile, buffers
<1>6. ASSUME NEW t \in Tensors, NEW ptr \in UserPtr, SetBindingAddress(t, ptr) PROVE AllMove
  BY <1>1, <1>6, UnchangedMoves DEF SetBindingAddress
<1>7. ASSUME NEW t \in Tensors, NEW s \in Shapes, ReshapeBinding(t, s) PROVE AllMove
  <2>1. tensor_map[t] \in TensorRecord
    BY DEF EngineTypeOK
  <2> QED BY <1>7, <2>1, RecordMoves, OneMoves DEF ReshapeBinding
<1>8. ASSUME NEW o \in Outputs, NEW n, GetOutputData(o, n) PROVE AllMove
  BY <1>8, UpdateMoves, UnchangedMoves DEF GetOutputData, buffers
<1>9. CaptureCudaGraph \/ DestroyCudaGraph => AllMove
  BY <1>1, UnchangedMoves DEF CaptureCudaGraph, DestroyCudaGraph, buffers
<1>10. InferAsync => AllMove
  BY UnchangedMoves DEF InferAsync
<1>11. FreezeIO => AllMove
  BY UpdateMoves, UnchangedMoves DEF FreezeIO, Freeze, buffers
<1> QED
  BY <1>1, <1>2, <1>3, <1>4, <1>5, <1>6, <1>7, <1>8, <1>9, <1>10, <1>11, SetInputDataMoves
  DEF Operation

LEMMA ConstructMoves ==
    ASSUME RInv, NEW c \in Config, Construct(c)
    PROVE  AllMove
<1> SUFFICES ASSUME NEW t \in Tensors PROVE Moves(tensor_map[t], tensor_map'[t])
  BY DEF AllMove
<1>1. /\ tensor_map[t].cap = 0 /\ tensor_map[t].alloc = 0
      /\ tensor_map'[t] \in TensorRecord
  BY ConstructType DEF RInv, NewEmpty, Construct, TypeOK, EngineTypeOK
<1>2. PICK failed \in SUBSET Tensors : AllocateIOBindingsMemory(config', failed)
  BY DEF Construct
<1>3. PICK s : tensor_map'[t] = NewTensor(s, t \in failed)
  BY <1>2 DEF AllocateIOBindingsMemory
<1>4. Bytes[s] \in Nat /\ tensor_map'[t].bytes = Bytes[s]
  BY <1>1, <1>3 DEF NewTensor, TensorRecord
<1>5. CASE Bytes[s] > 0
  BY <1>1, <1>3, <1>4, <1>5 DEF NewTensor, Moves
<1>6. CASE Bytes[s] = 0
  BY <1>1, <1>3, <1>4, <1>6 DEF NewTensor, Moves
<1> QED BY <1>4, <1>5, <1>6

LEMMA CleanupMoves ==
    ASSUME EngineTypeOK, Cleanup
    PROVE  AllMove
<1>1. ASSUME NEW t \in Tensors PROVE Moves(tensor_map[t], tensor_map'[t])
  BY DEF Cleanup, EngineTypeOK, AllocFailed, TensorRecord, Moves
<1> QED BY <1>1 DEF AllMove

LEMMA NextMoves ==
    ASSUME RInv, [Next]_vars
    PROVE  AllMove
<1>1. TypeOK /\ EngineTypeOK
  BY DEF RInv, TypeOK
<1>2. ConstructorFreeze => AllMove
  BY <1>1, UpdateMoves, UnchangedMoves DEF ConstructorFreeze, FreezeIO, Freeze, buffers
<1>3. UNCHANGED engine_vars => AllMove
  BY UnchangedMoves DEF engine_vars
<1> QED BY <1>1, <1>2, <1>3, NextIsOperation, ConstructMoves, CleanupMoves, OperationMoves

-----------------------------------------------------------------------------
LEMMA InitRInv == Init => RInv
<1>1. Init => NewEmpty
  BY DEF Init, NewEmpty, NewTensor
<1> QED BY <1>1, InitType DEF RInv

LEMMA NextRInv == RInv /\ [Next]_vars => RInv'
<1> SUFFICES ASSUME RInv, [Next]_vars PROVE RInv'
  OBVIOUS
<1>1. TypeOK'
  BY NextType DEF RInv
<1>2. phase' = "new" => phase = "new" /\ UNCHANGED tensor_map
  <2>1. phase = "ready" /\ Operation => phase' \in {"ready", "aborted"}
    BY DEF Operation, Refuse, SetStream, EnableCudaGraph, SetBindingShape, SetInputData,
           SetOptimizationProfile, SetBindingAddress, ReshapeBinding, GetOutputData,
           CaptureCudaGraph, DestroyCudaGraph, InferAsync
  <2> QED BY <2>1, NextIsOperation
          DEF RInv, Construct, ConstructorFreeze, Cleanup, engine_vars
<1>3. NewEmpty'
  BY <1>2 DEF RInv, NewEmpty
<1> QED BY <1>1, <1>3 DEF RInv

LEMMA InitIsBufferInit == Init => Buffer!BufferInit
<1> SUFFICES ASSUME Init PROVE Buffer!BufferInit
  OBVIOUS
<1>1. TypeOK
  BY InitType
<1>2. ASSUME NEW t \in Tensors
      PROVE  tensor_map[t].bytes \in Nat /\ tensor_map[t].cap = 0
  BY <1>1 DEF Init, NewTensor, TypeOK, EngineTypeOK, TensorRecord
<1> QED BY <1>2 DEF Buffer!BufferInit, OwnAddr

\* The memory of a tensor moves only when a call needs more than its capacity, or
\* when the engine gives it up, and no two tensors ever have the same memory: the
\* engine implements TensorBuffer through Reshape and Resize, for all clients.
THEOREM TensorMapRefines == Spec => TensorMapIsBuffers
<1>1. ASSUME RInv, RInv', [Next]_vars PROVE Buffer!BufferNext
  <2>1. EngineTypeOK /\ EngineTypeOK'
    BY <1>1 DEF RInv, TypeOK
  <2>2. Buffer!Separate'
    <3>1. EngineTypeOK' => Buffer!Separate'
      BY BuffersSeparate, PTL
    <3> QED BY <2>1, <3>1
  <2>3. ASSUME NEW t \in Tensors PROVE BufferStep(t)
    BY <1>1, <2>1, NextMoves, MoveIsBufferStep DEF AllMove
  <2> QED BY <2>2, <2>3 DEF Buffer!BufferNext, BufferStep
<1>2. RInv /\ RInv' /\ [Next]_vars => [Buffer!BufferNext]_(Buffer!buffer_vars)
  BY <1>1
<1>3. Spec => []RInv
  BY InitRInv, NextRInv, PTL DEF Spec
<1> QED BY <1>2, <1>3, InitIsBufferInit, PTL DEF Spec, TensorMapIsBuffers, Buffer!BufferSpec

-----------------------------------------------------------------------------
(* Engines with buffers for the maximal profile, which is the first one.    *)

\* The client asks for the buffers of the maximal profile and gets them, and no later
\* profile admits more than the first one, at whose maximum they are allocated.
MaxProfileBuffers ==
    /\ "alloc" \notin Faults
    /\ \A c \in Configs : c.persistent /\ c.max_profile
    /\ \A p \in Profiles :
          /\ \A i \in Inputs : Bytes[MaxShape[p][i]] <= Bytes[MaxShape[0][i]]
          /\ \A o \in Outputs : Bytes[OutShape[o][MaxShape[p]]] <= Bytes[OutShape[o][MaxShape[0]]]

Needed(t) == IF t \in Inputs THEN Bytes[MaxShape[0][t]] ELSE Bytes[OutShape[t][MaxShape[0]]]
Constructed == phase \in {"allocated", "ready", "aborted"}

\* Every tensor has room for every shape that the context can have, so that no output
\* ever moves, and what was launched on an output is where it still is.
RoomForAll == Constructed => \A t \in Tensors : Needed(t) <= tensor_map[t].cap
Admitted == Constructed => \A i \in Inputs : ctxShape[i] \in Admits[profile][i] \cup {Unresolved}
OutputsStay == Constructed => \A o \in Outputs : tensor_map[o].alloc = 1
LaunchStays ==
    launch # None =>
        /\ launch.shape \in [Inputs -> Shapes]
        /\ Constructed =>
              \A o \in Outputs : user_binding_addresses[o] = None => launch.addr[o] = <<o, 1>>
NotLaunched ==
    /\ phase = "new" => profile = 0
    /\ phase \in {"new", "allocated"} => launch = None /\ got = None

RoomInv == IInv /\ RoomForAll /\ Admitted /\ OutputsStay /\ LaunchStays /\ NotLaunched /\ LaunchFits

LEMMA NeededType == \A t \in Tensors : Needed(t) \in Nat \ {0}
<1> SUFFICES ASSUME NEW t \in Tensors PROVE Needed(t) \in Nat \ {0} OBVIOUS
<1>1. MaxShape[0] \in [Inputs -> Shapes] BY EngineAssumption
<1>2. CASE t \in Inputs BY <1>1, <1>2, EngineAssumption DEF Needed
<1>3. CASE t \notin Inputs
  <2>1. t \in Outputs BY <1>3 DEF Tensors
  <2>2. OutShape[t][MaxShape[0]] \in Shapes BY <1>1, <2>1, EngineAssumption
  <2> QED BY <1>3, <2>2, EngineAssumption DEF Needed
<1> QED BY <1>2, <1>3

LEMMA ContextFits ==
    ASSUME MaxProfileBuffers, EngineTypeOK, Admitted, Constructed, NEW t \in Tensors,
           ContextShape(t) # Unresolved
    PROVE  ContextShape(t) \in Shapes /\ Bytes[ContextShape(t)] <= Needed(t)
<1>1. ContextShape(t) \in Shapes BY ContextShapeType
<1>2. profile \in Profiles /\ MaxShape[profile] \in [Inputs -> Shapes] /\ MaxShape[0] \in [Inputs -> Shapes]
  BY EngineAssumption DEF EngineTypeOK
<1>3. \A s \in Shapes : Bytes[s] \in Nat BY EngineAssumption
<1>4. CASE t \in Inputs
  <2>1. ContextShape(t) = ctxShape[t] /\ ctxShape[t] \in Admits[profile][t] BY <1>4 DEF ContextShape, Admitted
  <2>2. Bytes[ctxShape[t]] <= Bytes[MaxShape[profile][t]] BY <1>2, <1>4, <2>1, ProfileAssumption
  <2>3. Bytes[MaxShape[profile][t]] <= Bytes[MaxShape[0][t]] BY <1>2, <1>4 DEF MaxProfileBuffers
  <2>4. Bytes[ctxShape[t]] \in Nat /\ Bytes[MaxShape[profile][t]] \in Nat /\ Bytes[MaxShape[0][t]] \in Nat
    BY <1>1, <1>2, <1>3, <1>4, <2>1
  <2> QED BY <1>1, <1>4, <2>1, <2>2, <2>3, <2>4 DEF Needed
<1>5. CASE t \notin Inputs
  <2>1. t \in Outputs /\ Resolved /\ ContextShape(t) = OutShape[t][ctxShape] BY <1>5 DEF ContextShape, Tensors
  <2>2. ctxShape \in [Inputs -> Shapes] /\ \A i \in Inputs : ctxShape[i] \in Admits[profile][i]
    BY <2>1 DEF Resolved, EngineTypeOK, Admitted
  <2>3. Bytes[OutShape[t][ctxShape]] <= Bytes[OutShape[t][MaxShape[profile]]]
    BY <1>2, <2>1, <2>2, ProfileAssumption
  <2>4. Bytes[OutShape[t][MaxShape[profile]]] <= Bytes[OutShape[t][MaxShape[0]]]
    BY <1>2, <2>1 DEF MaxProfileBuffers
  <2>5. /\ OutShape[t][ctxShape] \in Shapes /\ OutShape[t][MaxShape[profile]] \in Shapes
        /\ OutShape[t][MaxShape[0]] \in Shapes
    BY <1>2, <2>1, <2>2, EngineAssumption
  <2>6. /\ Bytes[OutShape[t][ctxShape]] \in Nat /\ Bytes[OutShape[t][MaxShape[profile]]] \in Nat
        /\ Bytes[OutShape[t][MaxShape[0]]] \in Nat
    BY <1>3, <2>5
  <2> QED BY <1>1, <1>5, <2>1, <2>3, <2>4, <2>6 DEF Needed
<1> QED BY <1>4, <1>5

\* UpdateOutputShapes reaches its end, and moves no output.
LEMMA UpdateStays ==
    ASSUME MaxProfileBuffers, EngineTypeOK, RoomForAll, Admitted, Constructed,
           NEW stop \in Outputs \cup {Past}, UpdateOutputShapes(stop)
    PROVE  /\ SameMemory
           /\ \A o \in Outputs : ContextShape(o) # Unresolved => tensor_map'[o].bytes = Bytes[ContextShape(o)]
<1>1. \A o \in Outputs : ~Grows(o)
  <2> SUFFICES ASSUME NEW o \in Outputs, Grows(o) PROVE FALSE OBVIOUS
  <2>1. o \in Tensors /\ tensor_map[o] \in TensorRecord BY DEF Tensors, EngineTypeOK
  <2>2. ContextShape(o) \in Shapes /\ Bytes[ContextShape(o)] <= Needed(o) BY <2>1, ContextFits DEF Grows
  <2>3. Needed(o) <= tensor_map[o].cap /\ Needed(o) \in Nat BY <2>1, NeededType DEF RoomForAll
  <2>4. Bytes[ContextShape(o)] \in Nat /\ tensor_map[o].cap \in Nat
    BY <2>1, <2>2, EngineAssumption DEF TensorRecord
  <2> QED BY <2>2, <2>3, <2>4 DEF Grows
<1>2. stop = Past BY <1>1 DEF UpdateOutputShapes, MayStop
<1>3. ASSUME NEW t \in Tensors
      PROVE  /\ tensor_map'[t].cap = tensor_map[t].cap /\ tensor_map'[t].alloc = tensor_map[t].alloc
             /\ t \in Outputs /\ ContextShape(t) # Unresolved =>
                    tensor_map'[t].bytes = Bytes[ContextShape(t)]
  <2>1. tensor_map[t] \in TensorRecord BY DEF EngineTypeOK
  <2>2. ~(t > stop) /\ t # stop BY <1>2, IndexIsNat DEF Past
  <2>3. tensor_map'[t] = IF t \notin Outputs THEN tensor_map[t] ELSE UpdatedOutput(t)
    BY <2>2 DEF UpdateOutputShapes
  <2>4. t \in Outputs => UpdatedOutput(t) = IF ContextShape(t) = Unresolved THEN tensor_map[t]
                                            ELSE Reshaped(tensor_map[t], ContextShape(t))
    BY <1>1 DEF UpdatedOutput
  <2> DEFINE q == Reshaped(tensor_map[t], ContextShape(t))
  <2>5. q.cap = tensor_map[t].cap /\ q.alloc = tensor_map[t].alloc /\ q.bytes = Bytes[ContextShape(t)]
    BY <2>1 DEF Reshaped, TensorRecord
  <2> QED BY <2>3, <2>4, <2>5
<1> QED BY <1>3 DEF SameMemory, Tensors

\* Buffers of tensors only grow, and those of the outputs stay.
MemoryGrows ==
    \A t \in Tensors : /\ tensor_map[t].cap <= tensor_map'[t].cap
                       /\ t \in Outputs => tensor_map'[t].alloc = tensor_map[t].alloc

LEMMA SameMemoryGrows == EngineTypeOK /\ SameMemory => MemoryGrows
  BY DEF EngineTypeOK, TensorRecord, SameMemory, MemoryGrows, Tensors

LEMMA OperationGrows ==
    ASSUME MaxProfileBuffers, TypeOK, RoomForAll, Admitted, phase = "ready", Operation
    PROVE  MemoryGrows
<1>1. EngineTypeOK /\ Constructed BY DEF TypeOK, Constructed
<1>2. UNCHANGED tensor_map => MemoryGrows BY <1>1, UnchangedSameMemory, SameMemoryGrows
<1>3. Refuse => MemoryGrows BY <1>2 DEF Refuse, buffers
<1>4. ASSUME NEW i \in Inputs, NEW s \in Shapes, SetInputData(i, s) PROVE MemoryGrows
  <2>1. i \in Tensors /\ i \notin Outputs /\ tensor_map[i] \in TensorRecord
    BY <1>1, EngineAssumption DEF Tensors, EngineTypeOK
  <2>2. CASE tensor_map' = [tensor_map EXCEPT ![i] = Reshaped(@, s)]
    BY <1>1, <2>1, <2>2, ReshapedSameMemory, SameMemoryGrows
  <2>3. CASE ~CanReshape(tensor_map[i], s) /\ tensor_map' = [tensor_map EXCEPT ![i] = Allocated(Reshaped(@, s), Bytes[s])]
    <3> DEFINE q == Allocated(Reshaped(tensor_map[i], s), Bytes[s])
    <3>1. q.cap = Bytes[s] BY <2>1 DEF Allocated, Reshaped, TensorRecord
    <3>2. tensor_map[i].cap \in Nat /\ Bytes[s] \in Nat /\ ~(Bytes[s] <= tensor_map[i].cap)
      BY <2>1, <2>3, EngineAssumption DEF CanReshape, TensorRecord
    <3>3. tensor_map' = [tensor_map EXCEPT ![i] = q] BY <2>3
    <3> HIDE DEF q
    <3>4. \A t \in Tensors : t # i => tensor_map'[t] = tensor_map[t] BY <1>1, <3>3 DEF EngineTypeOK
    <3>5. tensor_map'[i] = q BY <1>1, <2>1, <3>3 DEF EngineTypeOK
    <3>6. \A t \in Tensors : tensor_map[t].cap \in Nat BY <1>1 DEF EngineTypeOK, TensorRecord
    <3> QED BY <2>1, <3>1, <3>2, <3>4, <3>5, <3>6 DEF MemoryGrows
  <2> QED BY <1>3, <1>4, <2>2, <2>3 DEF SetInputData, MaxProfileBuffers
<1>5. ASSUME NEW t \in Tensors, NEW s \in Shapes, ReshapeBinding(t, s) PROVE MemoryGrows
  BY <1>1, <1>5, ReshapedSameMemory, SameMemoryGrows DEF ReshapeBinding
<1>6. ASSUME NEW o \in Outputs, NEW n, GetOutputData(o, n) PROVE MemoryGrows
  <2>1. UNCHANGED buffers => MemoryGrows BY <1>2 DEF buffers
  <2> QED BY <1>1, <1>6, <2>1, UpdateStays, SameMemoryGrows DEF GetOutputData
<1>7. FreezeIO => MemoryGrows
  <2>1. UNCHANGED buffers => MemoryGrows BY <1>2 DEF buffers
  <2> QED BY <1>1, <2>1, UpdateStays, SameMemoryGrows DEF FreezeIO, Freeze
<1>8. ASSUME NEW s \in Streams, SetStream(s) PROVE MemoryGrows BY <1>2, <1>8 DEF SetStream, buffers
<1>9. ASSUME NEW enable \in BOOLEAN, EnableCudaGraph(enable) PROVE MemoryGrows
  BY <1>2, <1>9 DEF EnableCudaGraph, buffers
<1>10. ASSUME NEW i \in Inputs, NEW s \in Shapes, SetBindingShape(i, s) PROVE MemoryGrows
  BY <1>2, <1>3, <1>10 DEF SetBindingShape, buffers
<1>11. ASSUME NEW p \in Profiles, SetOptimizationProfile(p) PROVE MemoryGrows
  BY <1>2, <1>3, <1>11 DEF SetOptimizationProfile, buffers
<1>12. ASSUME NEW t \in Tensors, NEW ptr \in UserPtr, SetBindingAddress(t, ptr) PROVE MemoryGrows
  BY <1>2, <1>3, <1>12 DEF SetBindingAddress
<1>13. CaptureCudaGraph \/ DestroyCudaGraph => MemoryGrows
  BY <1>2, <1>3 DEF CaptureCudaGraph, DestroyCudaGraph, buffers
<1>14. InferAsync => MemoryGrows BY <1>2 DEF InferAsync
<1> QED
  BY <1>3, <1>4, <1>5, <1>6, <1>7, <1>8, <1>9, <1>10, <1>11, <1>12, <1>13, <1>14 DEF Operation

LEMMA PhaseStep ==
    ASSUME TypeOK, [Next]_vars
    PROVE  /\ phase = "new" => (\E c \in Configs : Construct(c)) \/ UNCHANGED vars
           /\ phase # "new" => \A c : ~Construct(c)
           /\ Constructed' => phase = "new" \/ Constructed
           /\ phase' = "new" => UNCHANGED <<phase, profile>>
           /\ phase' = "allocated" => phase = "new" \/ UNCHANGED <<phase, launch, got>>
<1>1. /\ phase = "new" => (\E c \in Configs : Construct(c)) \/ UNCHANGED vars
      /\ phase # "new" => \A c : ~Construct(c)
  BY DEF Next, Construct, ConstructorFreeze, Cleanup
<1>2. phase = "ready" /\ Operation => phase' \in {"ready", "aborted"}
  BY DEF Operation, Refuse, SetStream, EnableCudaGraph, SetBindingShape, SetInputData,
         SetOptimizationProfile, SetBindingAddress, ReshapeBinding, GetOutputData,
         CaptureCudaGraph, DestroyCudaGraph, InferAsync
<1> QED BY <1>1, <1>2, NextIsOperation
        DEF TypeOK, EngineTypeOK, Constructed, Construct, ConstructorFreeze, Cleanup, engine_vars, vars

\* The buffers and shapes of a new engine.
LEMMA ConstructRoom ==
    ASSUME MaxProfileBuffers, TypeOK, NotLaunched, NEW c \in Configs, Construct(c)
    PROVE  RoomForAll' /\ Admitted' /\ OutputsStay'
<1>1. PICK failed \in SUBSET Tensors :
          (failed = {} \/ "alloc" \in Faults) /\ AllocateIOBindingsMemory(config', failed)
  BY DEF Construct
<1>2. failed = {} BY <1>1 DEF MaxProfileBuffers
<1>3. config'.max_profile
  <2>1. config' = c /\ c.max_profile BY DEF Construct, Normalised, MaxProfileBuffers
  <2> QED BY <2>1
<1>4. profile = 0 /\ profile' = 0 BY DEF Construct, NotLaunched
<1>5. MaxShape[0] \in [Inputs -> Shapes] /\ 0 \in Profiles BY EngineAssumption
<1>6. \A i \in Inputs : InputAlloc(config')[i] = MaxShape[0][i] /\ MaxShape[0][i] \in Admits[0][i]
  <2> TAKE i \in Inputs
  <2>1. MaxShape[0][i] \in Admits[0][i] BY <1>5, ProfileAssumption
  <2>2. i \notin Dynamic => MaxShape[0][i] = FlatShape[i] BY <1>5, <2>1, EngineAssumption
  <2> QED BY <1>3, <2>1, <2>2 DEF InputAlloc
<1>7. InputAlloc(config') = MaxShape[0] BY <1>5, <1>6 DEF InputAlloc
<1>8. \A i \in Inputs : InputAlloc(config')[i] \in Admits[0][i] BY <1>6
<1>9. \A t \in Tensors : tensor_map'[t].cap = Needed(t) /\ tensor_map'[t].alloc = 1
  <2> TAKE t \in Tensors
  <2> DEFINE s == IF t \in Inputs THEN MaxShape[0][t] ELSE OutShape[t][MaxShape[0]]
  <2>1. tensor_map'[t] = NewTensor(s, t \in failed) BY <1>1, <1>7, <1>8, Zenon DEF AllocateIOBindingsMemory
  <2>2. Bytes[s] = Needed(t) BY DEF Needed
  <2> HIDE DEF s
  <2>3. tensor_map'[t].cap = Bytes[s] /\ tensor_map'[t].alloc = 1 BY <1>2, <2>1 DEF NewTensor
  <2> QED BY <2>2, <2>3
<1>10. \A i \in Inputs : ctxShape'[i] = MaxShape[0][i] BY <1>1, <1>6, <1>7 DEF AllocateIOBindingsMemory
<1>11. RoomForAll' BY <1>9, NeededType DEF RoomForAll, Needed
<1>12. Admitted' BY <1>4, <1>6, <1>10 DEF Admitted
<1>13. OutputsStay' BY <1>9 DEF OutputsStay, Tensors
<1> QED BY <1>11, <1>12, <1>13

LEMMA RoomStep ==
    ASSUME MaxProfileBuffers, RoomInv, [Next]_vars
    PROVE  RoomForAll' /\ Admitted' /\ OutputsStay'
<1>1. TypeOK /\ EngineTypeOK /\ RoomForAll /\ Admitted /\ OutputsStay /\ NotLaunched BY DEF RoomInv, IInv, TypeOK
<1>2. CASE \E c \in Configs : Construct(c) BY <1>1, <1>2, ConstructRoom
<1>3. CASE ~Constructed' BY <1>3 DEF RoomForAll, Admitted, OutputsStay
<1>4. CASE UNCHANGED <<phase, tensor_map, ctxShape, profile>>
  BY <1>1, <1>4 DEF RoomForAll, Admitted, OutputsStay, Constructed, Needed
<1>5. CASE Constructed /\ Constructed' /\ (ConstructorFreeze \/ (phase = "ready" /\ Operation))
  <2>1. MemoryGrows
    <3>1. CASE ConstructorFreeze
      <4>1. UNCHANGED buffers => MemoryGrows BY <1>1, UnchangedSameMemory, SameMemoryGrows DEF buffers
      <4> QED BY <1>1, <1>5, <3>1, <4>1, UpdateStays, SameMemoryGrows DEF ConstructorFreeze, FreezeIO, Freeze
    <3>2. CASE phase = "ready" /\ Operation BY <1>1, <3>2, OperationGrows
    <3> QED BY <1>5, <3>1, <3>2
  <2>2. EngineTypeOK'
    <3>1. TypeOK' BY <1>1, NextType
    <3> QED BY <3>1 DEF TypeOK
  <2>3. RoomForAll'
    <3> SUFFICES ASSUME NEW t \in Tensors PROVE Needed(t) <= tensor_map'[t].cap BY DEF RoomForAll, Needed
    <3>1. Needed(t) <= tensor_map[t].cap /\ tensor_map[t].cap <= tensor_map'[t].cap BY <1>1, <1>5, <2>1 DEF RoomForAll, MemoryGrows
    <3>2. Needed(t) \in Nat /\ tensor_map[t].cap \in Nat /\ tensor_map'[t].cap \in Nat
      BY <1>1, <2>2, NeededType DEF EngineTypeOK, TensorRecord
    <3> QED BY <3>1, <3>2
  <2>4. OutputsStay' BY <1>1, <1>5, <2>1 DEF OutputsStay, MemoryGrows, Tensors
  <2>5. Admitted'
    <3>1. UNCHANGED context => Admitted' BY <1>1, <1>5 DEF context, Admitted
    <3>2. Refuse => Admitted' BY <3>1 DEF Refuse
    <3>3. ASSUME NEW i \in Inputs, NEW s \in Shapes, SetBindingShape(i, s) PROVE Admitted'
      <4>1. CASE /\ s \in Admits[profile][i] /\ ctxShape' = [ctxShape EXCEPT ![i] = s] /\ profile' = profile
        BY <1>1, <1>5, <4>1 DEF Admitted, EngineTypeOK
      <4> QED BY <3>2, <3>3, <4>1 DEF SetBindingShape
    <3>4. ASSUME NEW p \in Profiles, SetOptimizationProfile(p) PROVE Admitted'
      <4>1. CASE /\ profile' = p
                 /\ ctxShape' = [i \in Inputs |-> IF i \in Dynamic THEN Unresolved ELSE ctxShape[i]]
        <5> SUFFICES ASSUME NEW i \in Inputs \ Dynamic PROVE ctxShape[i] \in Admits[p][i] \cup {Unresolved}
          BY <4>1 DEF Admitted
        <5>1. profile \in Profiles BY <1>1 DEF EngineTypeOK
        <5>2. Admits[p][i] = {FlatShape[i]} /\ Admits[profile][i] = {FlatShape[i]} BY <5>1, EngineAssumption
        <5> QED BY <1>1, <1>5, <5>2 DEF Admitted
      <4> QED BY <3>2, <3>4, <4>1 DEF SetOptimizationProfile
    <3>5. CASE ConstructorFreeze BY <3>1, <3>5 DEF ConstructorFreeze, FreezeIO, Freeze
    <3>6. CASE Operation
      BY <3>1, <3>2, <3>3, <3>4, <3>6 DEF Operation, SetStream, EnableCudaGraph, SetInputData, SetBindingAddress,
         ReshapeBinding, GetOutputData, CaptureCudaGraph, DestroyCudaGraph, InferAsync, FreezeIO, Freeze
    <3> QED BY <1>5, <3>5, <3>6
  <2> QED BY <2>3, <2>4, <2>5
<1>6. Cleanup => ~Constructed' BY DEF Cleanup, Constructed
<1>7. UNCHANGED vars => UNCHANGED <<phase, tensor_map, ctxShape, profile>> BY DEF vars
<1>8. UNCHANGED engine_vars => UNCHANGED <<phase, tensor_map, ctxShape, profile>> BY DEF engine_vars
<1> QED BY <1>1, <1>2, <1>3, <1>4, <1>5, <1>6, <1>7, <1>8, NextIsOperation, PhaseStep

\* No call takes the binding of a user address back.
LEMMA BindingsStay ==
    ASSUME TypeOK, [Next]_vars, Constructed'
    PROVE  \A t \in Tensors : user_binding_addresses'[t] = None => user_binding_addresses[t] = None
<1>1. UNCHANGED user_binding_addresses => (\A t \in Tensors : user_binding_addresses'[t] = None => user_binding_addresses[t] = None)
  OBVIOUS
<1>2. ASSUME NEW t \in Tensors, NEW ptr \in UserPtr, user_binding_addresses' = [user_binding_addresses EXCEPT ![t] = ptr]
      PROVE  \A u \in Tensors : user_binding_addresses'[u] = None => user_binding_addresses[u] = None
  BY <1>2, EngineAssumption DEF TypeOK, EngineTypeOK
<1>3. (\E c \in Config : Construct(c)) => UNCHANGED user_binding_addresses BY DEF Construct
<1>4. ConstructorFreeze => UNCHANGED user_binding_addresses BY DEF ConstructorFreeze, FreezeIO, Freeze
<1>5. ~Cleanup BY DEF Cleanup, Constructed
<1>6. Refuse => UNCHANGED user_binding_addresses BY DEF Refuse
<1>7. ASSUME Operation, ~UNCHANGED user_binding_addresses
      PROVE  \E t \in Tensors, ptr \in UserPtr : user_binding_addresses' = [user_binding_addresses EXCEPT ![t] = ptr]
  BY <1>6, <1>7 DEF Operation, SetStream, EnableCudaGraph, SetBindingShape, SetInputData, SetOptimizationProfile,
     SetBindingAddress, ReshapeBinding, GetOutputData, CaptureCudaGraph, DestroyCudaGraph, InferAsync, FreezeIO, Freeze
<1>8. UNCHANGED engine_vars => UNCHANGED user_binding_addresses BY DEF engine_vars
<1> QED BY <1>1, <1>2, <1>3, <1>4, <1>5, <1>7, <1>8, NextIsOperation

\* The address of a tensor that the user has not bound is that of its own buffer, which
\* has room for the shape the context runs with.
LEMMA BoundFits ==
    ASSUME MaxProfileBuffers, RoomInv, Constructed, ctxShape \in [Inputs -> Shapes], NEW t \in Tensors
    PROVE  /\ OwnAddr(t, tensor_map[t]) = <<t, tensor_map[t].alloc>>
           /\ BoundAddr(tensor_map)[t] \notin UserPtr =>
                 Bytes[ContextShape(t)] <= Room(t, BoundAddr(tensor_map)[t])
<1>1. EngineTypeOK /\ RoomForAll /\ Admitted BY DEF RoomInv, IInv, TypeOK
<1>2. ContextShape(t) # Unresolved
  <2>1. Resolved BY EngineAssumption DEF Resolved
  <2> QED BY <2>1, EngineAssumption DEF ContextShape, Tensors
<1>3. ContextShape(t) \in Shapes /\ Bytes[ContextShape(t)] <= Needed(t) BY <1>1, <1>2, ContextFits
<1>4. Needed(t) <= tensor_map[t].cap /\ Needed(t) \in Nat \ {0} BY <1>1, NeededType DEF RoomForAll
<1>5. tensor_map[t] \in TensorRecord /\ tensor_map[t].cap \in Nat /\ tensor_map[t].alloc \in Nat
  BY <1>1 DEF EngineTypeOK, TensorRecord, AllocNumber
<1>6. tensor_map[t].cap # 0 BY <1>4, <1>5
<1>7. OwnAddr(t, tensor_map[t]) = <<t, tensor_map[t].alloc>> BY <1>6 DEF OwnAddr
<1>8. OwnAddr(t, tensor_map[t]) # Null BY <1>1, <1>5, <1>6, OwnAddrNull
<1>9. Bytes[ContextShape(t)] <= tensor_map[t].cap
  <2>1. Bytes[ContextShape(t)] \in Nat BY <1>3, EngineAssumption
  <2> QED BY <1>3, <1>4, <1>5, <2>1
<1>10. ASSUME BoundAddr(tensor_map)[t] \notin UserPtr PROVE BoundAddr(tensor_map)[t] = OwnAddr(t, tensor_map[t])
  BY <1>1, <1>10 DEF BoundAddr, EngineTypeOK
<1> QED BY <1>7, <1>8, <1>9, <1>10 DEF Room

LEMMA LaunchFitsStep ==
    ASSUME MaxProfileBuffers, RoomInv, [Next]_vars
    PROVE  LaunchStays' /\ LaunchFits'
<1>1. /\ TypeOK /\ EngineTypeOK /\ EnteredUnfrozen /\ GraphCurrent /\ GraphAddressed /\ FrozenBound
      /\ LaunchStays /\ LaunchFits /\ OutputsStay /\ NotLaunched
  BY DEF RoomInv, IInv, TypeOK
<1>2. CASE launch' = launch
  <2>1. LaunchFits' BY <1>1, <1>2 DEF LaunchFits, LaunchShape
  <2>2. launch # None /\ Constructed' => Constructed BY <1>1, PhaseStep DEF NotLaunched
  <2>3. LaunchStays' BY <1>1, <1>2, <2>2, BindingsStay DEF LaunchStays, Tensors
  <2> QED BY <2>1, <2>3
<1>3. CASE launch' # launch
  <2>1. PICK addr, shape :
            /\ launch' = Launched(addr, shape)
            /\ addr = BoundAddr(tensor_map) /\ shape = ctxShape /\ shape \in [Inputs -> Shapes]
            /\ \A t \in Tensors : addr[t] # Null
            /\ phase = "ready" /\ UNCHANGED <<phase, tensor_map, user_binding_addresses>>
    BY <1>1, <1>3, LaunchedStep
  <2>2. /\ launch'.addr = BoundAddr(tensor_map) /\ launch'.shape = ctxShape
        /\ \A t \in Tensors : launch'.room[t] = Room(t, BoundAddr(tensor_map)[t])
    BY <2>1 DEF Launched
  <2>3. Constructed BY <2>1 DEF Constructed
  <2>4. Resolved BY <2>1, EngineAssumption DEF Resolved
  <2>5. \A t \in Tensors : LaunchShape(t)' = ContextShape(t) BY <2>2, <2>4 DEF LaunchShape, ContextShape
  <2>6. LaunchFits'
    <3> SUFFICES ASSUME NEW t \in Tensors, launch'.addr[t] \notin UserPtr
                 PROVE  Bytes[LaunchShape(t)'] <= launch'.room[t]
      BY DEF LaunchFits
    <3>1. Bytes[ContextShape(t)] <= Room(t, BoundAddr(tensor_map)[t]) BY <2>1, <2>2, <2>3, BoundFits
    <3> QED BY <2>2, <2>5, <3>1
  <2>7. LaunchStays'
    <3>1. ASSUME NEW o \in Outputs, user_binding_addresses[o] = None PROVE launch'.addr[o] = <<o, 1>>
      <4>1. o \in Tensors BY DEF Tensors
      <4>2. BoundAddr(tensor_map)[o] = OwnAddr(o, tensor_map[o]) BY <3>1, <4>1 DEF BoundAddr
      <4>3. OwnAddr(o, tensor_map[o]) = <<o, tensor_map[o].alloc>> BY <2>1, <2>3, <4>1, BoundFits
      <4> QED BY <1>1, <2>2, <2>3, <4>2, <4>3 DEF OutputsStay
    <3> QED BY <2>1, <2>2, <3>1 DEF LaunchStays
  <2> QED BY <2>6, <2>7
<1> QED BY <1>2, <1>3

LEMMA RoomInvInit == Init => RoomInv
<1> SUFFICES ASSUME Init PROVE RoomInv OBVIOUS
<1>1. IInv BY InitInvariant
<1>2. ~Constructed BY DEF Init, Constructed
<1>3. launch = None /\ got = None /\ profile = 0 BY DEF Init
<1> QED BY <1>1, <1>2, <1>3 DEF RoomInv, RoomForAll, Admitted, OutputsStay, LaunchStays, NotLaunched, LaunchFits

LEMMA RoomInvStep ==
    ASSUME MaxProfileBuffers, RoomInv, [Next]_vars
    PROVE  RoomInv'
<1>1. TypeOK /\ IInv /\ NotLaunched BY DEF RoomInv, IInv
<1>2. IInv' BY <1>1, NextInvariant
<1>3. RoomForAll' /\ Admitted' /\ OutputsStay' /\ LaunchStays' /\ LaunchFits' BY RoomStep, LaunchFitsStep
<1>4. NotLaunched'
  <2>1. CASE phase' = "new" \/ phase' = "allocated"
    <3>1. (\E c \in Configs : Construct(c)) => UNCHANGED <<launch, got>> BY DEF Construct, running
    <3>2. UNCHANGED vars => UNCHANGED <<phase, profile, launch, got>> BY DEF vars
    <3>3. phase' = "new" => UNCHANGED <<phase, profile>> BY <1>1, PhaseStep
    <3>4. phase = "new" => UNCHANGED <<launch, got>> BY <1>1, <3>1, <3>2, PhaseStep
    <3>5. phase' = "allocated" => phase = "new" \/ UNCHANGED <<phase, launch, got>> BY <1>1, PhaseStep
    <3> QED BY <1>1, <2>1, <3>3, <3>4, <3>5 DEF NotLaunched
  <2>2. CASE phase' \notin {"new", "allocated"} BY <2>2 DEF NotLaunched
  <2> QED BY <2>1, <2>2
<1> QED BY <1>2, <1>3, <1>4 DEF RoomInv

\* Where the maximal shapes were allocated in advance, an inference has room for
\* whatever shapes the client sets, and for the outputs they have, before the engine has
\* looked at the outputs at all (AllocateIOBindingsMemory).
THEOREM LaunchFitsTheorem == MaxProfileBuffers /\ Spec => []LaunchFits
<1>1. CASE MaxProfileBuffers
  <2>1. Init => RoomInv BY RoomInvInit
  <2>2. RoomInv /\ [Next]_vars => RoomInv' BY <1>1, RoomInvStep
  <2>3. RoomInv => LaunchFits BY DEF RoomInv
  <2> QED BY <2>1, <2>2, <2>3, PTL DEF Spec
<1>2. CASE ~MaxProfileBuffers BY <1>2
<1> QED BY <1>1, <1>2

\* Only GetOutputData copies; what it copied is forgotten when the next call returns.
LEMMA GotStep ==
    ASSUME TypeOK, NotLaunched, [Next]_vars, got' # None
    PROVE  \/ UNCHANGED <<got, launch, ctxShape, user_binding_addresses>>
           \/ phase = "ready" /\ \E o \in Outputs : \E n : GetOutputData(o, n)
<1> DEFINE Same == UNCHANGED <<got, launch, ctxShape, user_binding_addresses>>
<1>1. (\E c \in Config : Construct(c)) => FALSE BY DEF Construct, NotLaunched
<1>2. ConstructorFreeze => Same BY DEF ConstructorFreeze, FreezeIO, Freeze, context, running
<1>3. ~Cleanup BY DEF Cleanup
<1>4. Refuse => FALSE BY DEF Refuse
<1>5. Operation => \E o \in Outputs : \E n : GetOutputData(o, n)
  BY <1>4 DEF Operation, SetStream, EnableCudaGraph, SetBindingShape, SetInputData, SetOptimizationProfile,
     SetBindingAddress, ReshapeBinding, CaptureCudaGraph, DestroyCudaGraph, InferAsync, FreezeIO, Freeze
<1>6. UNCHANGED engine_vars => Same BY DEF engine_vars
<1> QED BY <1>1, <1>2, <1>3, <1>5, <1>6, NextIsOperation

LEMMA GetDeliversStep ==
    ASSUME MaxProfileBuffers, Dynamic # {}, RoomInv, GetDelivers, [Next]_vars
    PROVE  GetDelivers'
<1>1. /\ TypeOK /\ EngineTypeOK /\ RoomForAll /\ Admitted /\ OutputsStay /\ LaunchStays /\ NotLaunched
  BY DEF RoomInv, IInv, TypeOK
<1>2. CASE got' = None BY <1>2 DEF GetDelivers
<1>3. CASE UNCHANGED <<got, launch, ctxShape, user_binding_addresses>>
  BY <1>3 DEF GetDelivers, LaunchShape
<1>4. ASSUME got' # None, phase = "ready", NEW o \in Outputs, NEW n, GetOutputData(o, n)
      PROVE  GetDelivers'
  <2>1. o \in Tensors /\ o \notin Inputs /\ Constructed BY <1>4, EngineAssumption DEF Tensors, Constructed
  <2>2. /\ got' = [out |-> o, addr |-> OwnAddr(o, tensor_map'[o]), bytes |-> n]
        /\ n = tensor_map'[o].bytes /\ UNCHANGED <<ctxShape, user_binding_addresses, launch>>
    BY <1>4 DEF GetOutputData, context, running
  <2>3. PICK stop \in Outputs \cup {Past} : UpdateOutputShapes(stop) BY <1>4 DEF GetOutputData, MaxProfileBuffers
  <2>4. SameMemory /\ (ContextShape(o) # Unresolved => n = Bytes[ContextShape(o)])
    BY <1>1, <2>1, <2>2, <2>3, UpdateStays
  <2> SUFFICES ASSUME launch # None, user_binding_addresses[o] = None, launch.shape = ctxShape
               PROVE  OwnAddr(o, tensor_map'[o]) = launch.addr[o] /\ n = Bytes[LaunchShape(o)]
    BY <2>2 DEF GetDelivers, LaunchShape
  <2>5. ctxShape \in [Inputs -> Shapes] /\ launch.addr[o] = <<o, 1>> BY <1>1, <2>1 DEF LaunchStays
  <2>6. OwnAddr(o, tensor_map[o]) = <<o, 1>> BY <1>1, <2>1, <2>5, BoundFits DEF OutputsStay
  <2>7. OwnAddr(o, tensor_map'[o]) = <<o, 1>> BY <2>1, <2>4, <2>6, SameMemoryOwnAddr
  <2>8. Resolved BY <2>5, EngineAssumption DEF Resolved
  <2>9. ContextShape(o) = LaunchShape(o) BY <2>1, <2>8 DEF ContextShape, LaunchShape
  <2>10. OutShape[o] \in [[Inputs -> Shapes] -> Shapes] BY EngineAssumption
  <2>11. OutShape[o][ctxShape] \in Shapes BY <2>5, <2>10
  <2>12. ContextShape(o) # Unresolved BY <2>1, <2>8, <2>11, EngineAssumption DEF ContextShape
  <2> QED BY <2>4, <2>5, <2>7, <2>9, <2>12
<1> QED BY <1>1, <1>2, <1>3, <1>4, GotStep

\* With the same buffers, and an input whose shape can change, a GetOutputData that
\* succeeds has copied all of what the latest inference wrote, from where it wrote it.
\* An engine of static shapes that is frozen does not look at its outputs again
\* (tensorrt_engine.cpp, GetOutputData): the client's own Reshape of one decides there
\* how much is copied.
THEOREM GetDeliversTheorem == MaxProfileBuffers /\ Dynamic # {} /\ Spec => []GetDelivers
<1>1. CASE MaxProfileBuffers /\ Dynamic # {}
  <2>1. Init => RoomInv /\ GetDelivers BY RoomInvInit DEF Init, GetDelivers
  <2>2. RoomInv /\ GetDelivers /\ [Next]_vars => (RoomInv /\ GetDelivers)' BY <1>1, RoomInvStep, GetDeliversStep
  <2> QED BY <2>1, <2>2, PTL DEF Spec
<1>2. CASE ~(MaxProfileBuffers /\ Dynamic # {}) BY <1>2
<1> QED BY <1>1, <1>2
=============================================================================
