---------------------------- MODULE EngineTensor ----------------------------
(***************************************************************************)
(* The tensors of a TensorRTEngine down to the allocator: the calls that   *)
(* src/tensorrt_engine/tensorrt_engine.cpp makes on a tensor of            *)
(* tensor_map_, composed from the actions of Tensor and CudaBaseMemory.    *)
(* TensorRTEngine keeps only a size, a capacity and an address of each     *)
(* tensor; that both are the buffer of TensorBuffer is checked.            *)
(***************************************************************************)
EXTENDS Tensor

Constructed(t) == LiveTensor(t) /\ tensor[t].dims # Unsized

\* make_shared<Tensor>(alloc_shape, type, stream): New, and then this Resize.
ConstructSized(t, s) == ~Constructed(t) /\ Resize(t, s, TRUE)

\* SetInputData.
SetInput(t, s) ==
    /\ Constructed(t)
    /\ IF CanReshape(t, s) THEN Reshape(t, s) ELSE Resize(t, s, TRUE)

\* Slip: an output grows when it is larger than its latest size.
UpdateOutputBySize(t, s) ==
    /\ Constructed(t)
    /\ IF Bytes[s] > tensor[t].byte_size THEN ResizeBytes(t, Bytes[s]) ELSE Reshape(t, s)

\* The body of the loop of UpdateOutputShapes.
UpdateOutput(t, s) ==
    /\ Constructed(t)
    /\ IF Bytes[s] > tensor[t].capacity_bytes THEN ResizeBytes(t, Bytes[s]) ELSE Reshape(t, s)

\* SetInputData and GetOutputData copy the whole tensor; the client may reshape it.
EngineTensorNext ==
    /\ ~aborted
    /\ \E t \in Tensors :
          \/ \E o \in Objects : New(t, o, "DEVICE")
          \/ \E s \in Shapes : ConstructSized(t, s) \/ SetInput(t, s) \/ UpdateOutput(t, s)
          \/ \E s \in Shapes : Constructed(t) /\ Reshape(t, s)
          \/ Constructed(t) /\ Copy(t)
          \/ Drop(t)

\* The client has memory of its own from the same allocator, beside the engine's.
ClientMemory ==
    /\ ~aborted
    /\ \E o \in Objects : (\A t \in Tensors : Data(t) # o) /\ ObjectCall(o)
    /\ UNCHANGED tensor

EngineTensorSpec == TensorInit /\ [][EngineTensorNext \/ ClientMemory]_tensor_vars

-----------------------------------------------------------------------------
(* Properties.                                                              *)

Buffer == INSTANCE TensorBuffer WITH
    Buffers <- Tensors,
    byte_size <- [t \in Tensors |-> tensor[t].byte_size],
    capacity <- [t \in Tensors |-> tensor[t].capacity_bytes],
    memory <- [t \in Tensors |-> IF LiveTensor(t) THEN mem[Data(t)].ptr ELSE Null]

\* Every tensor of the engine is a buffer of TensorBuffer: mutable_data() changes
\* only when Resize was needed, which is when the engine sets the address again.
TensorsAreBuffers == Buffer!BufferSpec

\* A copy of a whole tensor is never refused for its size while there is memory: the
\* byte_size_ of the CudaBaseMemory, against which copies are tested, keeps up with
\* the byte_size_ of the tensor, which Reshape changes alone.
CopyAccepted ==
    \A t \in Tensors : LiveTensor(t) /\ mem[Data(t)].ptr # Null =>
        tensor[t].byte_size <= mem[Data(t)].byte_size
=============================================================================
