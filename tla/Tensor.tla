------------------------------- MODULE Tensor -------------------------------
(***************************************************************************)
(* tensorrt_engine::tensor::Tensor (src/tensorrt_engine/tensor.cpp): dims  *)
(* and sizes over a CudaBaseMemory that several tensors may share.  Every  *)
(* call composes the tensor's own update with the action of the memory.    *)
(*                                                                         *)
(* A shape stands for its dims, Unsized for dims with a -1.  The element   *)
(* size is abstracted to whether the data type is a supported one.         *)
(***************************************************************************)
EXTENDS CudaBaseMemory

CONSTANTS Tensors, Shapes, Bytes, Unsized

ASSUME TensorAssumption ==
    /\ Bytes \in [Shapes -> Nat]
    /\ Unsized \notin Shapes

VARIABLE tensor   \* the fields of every tensor

tensor_vars == <<memory_vars, tensor>>

NoTensor == [phase |-> "none", data |-> Null, dims |-> Unsized, byte_size |-> 0, capacity_bytes |-> 0,
             typed |-> FALSE]

LiveTensor(t) == tensor[t].phase = "live"
Data(t) == tensor[t].data
Fresh(o) == mem[o].phase = "none"

TensorInit == MemoryInit /\ tensor = [t \in Tensors |-> NoTensor]

TensorReturns(result) == Returns(result) /\ UNCHANGED <<mem, heap>>

-----------------------------------------------------------------------------
\* Tensor(), and the constructors with a type of memory; those with dims go on with
\* Resize and ignore its result.
New(t, o, type) ==
    /\ tensor[t].phase = "none" /\ Fresh(o)
    /\ Construct(o, type)
    /\ tensor' = [tensor EXCEPT ![t] = [NoTensor EXCEPT !.phase = "live", !.data = o]]

Resize(t, s, supported) ==
    /\ LiveTensor(t)
    /\ \/ /\ ~supported \/ s = Unsized
          /\ tensor' = [tensor EXCEPT ![t].dims = s, ![t].typed = supported]
          /\ TensorReturns(FALSE)
       \/ /\ supported /\ s # Unsized
          /\ AllocateMemory(Data(t), Bytes[s])
          /\ tensor' = [tensor EXCEPT ![t].dims = s, ![t].typed = TRUE, ![t].byte_size = Bytes[s],
                                      ![t].capacity_bytes = mem'[Data(t)].capacity_bytes]

ResizeBytes(t, n) ==
    /\ LiveTensor(t)
    /\ AllocateMemory(Data(t), n)
    /\ tensor' = [tensor EXCEPT ![t].byte_size = n, ![t].capacity_bytes = mem'[Data(t)].capacity_bytes]

\* Slip: the capacity is not compared.
CanReshapeAlways(t, s) == tensor[t].typed /\ s # Unsized

CanReshape(t, s) ==
    tensor[t].typed /\ s # Unsized /\ Bytes[s] <= tensor[t].capacity_bytes

Reshape(t, s) ==
    /\ LiveTensor(t)
    /\ IF CanReshape(t, s)
       THEN tensor' = [tensor EXCEPT ![t].dims = s, ![t].byte_size = Bytes[s]]
       ELSE UNCHANGED tensor
    /\ TensorReturns(CanReshape(t, s))

\* Slip: a view remembers as much capacity as its dims need.
ViewTrustingDims(t, v, s) ==
    /\ LiveTensor(t) /\ tensor[v].phase = "none"
    /\ tensor' = [tensor EXCEPT ![v] = [tensor[t] EXCEPT !.dims = s, !.byte_size = Bytes[s],
                                                        !.capacity_bytes = Bytes[s]]]
    /\ TensorReturns(TRUE)

\* t.View(dims) as the tensor v: the memory is shared, the dims are not checked.
View(t, v, s) ==
    /\ LiveTensor(t) /\ tensor[v].phase = "none"
    /\ tensor' = [tensor EXCEPT ![v] = [tensor[t] EXCEPT !.dims = s, !.byte_size = Bytes[s]]]
    /\ TensorReturns(TRUE)

ViewFrom(t, o, x, s, type) ==
    /\ tensor[t].phase = "none" /\ Fresh(o) /\ ExternSize[x] = Bytes[s]
    /\ ConstructView(o, x, type)
    /\ tensor' = [tensor EXCEPT ![t] = [phase |-> "live", data |-> o, dims |-> s, byte_size |-> Bytes[s],
                                        capacity_bytes |-> Bytes[s], typed |-> TRUE]]

\* Slip: a tensor destroys its memory whoever else has it.
SoleOwnerAlways(t) == TRUE
\* Slip: no tensor ever destroys its memory.
SoleOwnerNever(t) == FALSE
SoleOwner(t) == \A v \in Tensors \ {t} : LiveTensor(v) => Data(v) # Data(t)

\* ~Tensor releases its share of the memory.
Drop(t) ==
    /\ LiveTensor(t)
    /\ IF SoleOwner(t) THEN Destroy(Data(t)) ELSE TensorReturns(TRUE)
    /\ tensor' = [tensor EXCEPT ![t] = [NoTensor EXCEPT !.phase = "gone"]]

\* CopyFromHost, CopyToHost, CopyFromDevice, CopyToDevice and their Async forms.
Copy(t) ==
    /\ LiveTensor(t)
    /\ Transfer(Data(t), 0, tensor[t].byte_size)
    /\ UNCHANGED tensor

-----------------------------------------------------------------------------
TensorNext ==
    /\ ~aborted
    /\ \E t \in Tensors :
          \/ \E o \in Objects, type \in Types : New(t, o, type)
          \/ \E s \in Shapes \cup {Unsized}, supported \in BOOLEAN : Resize(t, s, supported)
          \/ \E n \in Sizes : ResizeBytes(t, n)
          \/ \E s \in Shapes \cup {Unsized} : Reshape(t, s)
          \/ \E v \in Tensors, s \in Shapes : View(t, v, s)
          \/ \E o \in Objects, x \in Extern, s \in Shapes, type \in Types : ViewFrom(t, o, x, s, type)
          \/ Drop(t)
          \/ Copy(t)

TensorSpec == TensorInit /\ [][TensorNext]_tensor_vars

-----------------------------------------------------------------------------
(* Properties.                                                              *)

TensorRecord ==
    [phase : {"none", "live", "gone"}, data : Objects \cup {Null}, dims : Shapes \cup {Unsized},
     byte_size : Nat, capacity_bytes : Nat, typed : BOOLEAN]

\* Types, and that every live tensor has a live memory.
TensorTypeOK ==
    /\ MemoryTypeOK
    /\ tensor \in [Tensors -> TensorRecord]
    /\ \A t \in Tensors : LiveTensor(t) => Data(t) \in Objects /\ Live(Data(t))

\* Tensors share memory without losing it: every live memory object belongs to a live
\* tensor, and OneOwner holds of the blocks.
TensorsOwnMemory ==
    /\ OneOwner
    /\ \A o \in Objects : Live(o) => \E t \in Tensors : LiveTensor(t) /\ Data(t) = o

\* The capacity a tensor remembers is there, even when a tensor that shares its
\* memory has resized it since: what Reshape accepts fits.
CapacityBacked ==
    \A t \in Tensors : LiveTensor(t) => tensor[t].capacity_bytes <= mem[Data(t)].capacity_bytes
=============================================================================
