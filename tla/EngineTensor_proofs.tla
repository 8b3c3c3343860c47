------------------------ MODULE EngineTensor_proofs ------------------------
(***************************************************************************)
(* Tensors over their memory, alone (TensorSpec) and in an engine beside a *)
(* client (EngineTensorSpec), for any tensors, objects, blocks and shapes. *)
(***************************************************************************)
EXTENDS EngineTensor, CudaBaseMemory_proofs

ObjectsOwned == \A o \in Objects : Live(o) => \E t \in Tensors : LiveTensor(t) /\ Data(t) = o

TensorInv == MemoryInv /\ SizesFit /\ TensorTypeOK /\ ObjectsOwned

\* A view stays one of the buffer of the client that it was made for.
ViewsKept ==
    \A o \in Objects : mem[o].is_view =>
        /\ mem[o].ptr \in Extern /\ ExternKind[mem[o].ptr] # "pageable"
        /\ mem[o].capacity_bytes = ExternSize[mem[o].ptr]

ViewsInv == DeviceOwned /\ ViewsKept

\* No memory, no capacity.
NullEmpty == \A o \in Objects : mem[o].ptr = Null => mem[o].capacity_bytes = 0

CapacityInv == NullEmpty /\ CapacityBacked

\* The client views no buffer that is smaller than what its tensors are resized to: a
\* view that grows gets a block that its destructor leaves behind.
ViewsFit ==
    \A x \in Extern : ExternKind[x] # "pageable" =>
        (\A s \in Shapes : Bytes[s] <= ExternSize[x]) /\ \A n \in Sizes : n <= ExternSize[x]

NeverFails == "malloc" \notin Faults

Preserved ==
    /\ TensorInv'
    /\ ViewsFit /\ ViewsInv => ViewsInv'
    /\ NeverFails /\ CapacityInv => CapacityInv'

-----------------------------------------------------------------------------
(* The steps of a tensor.                                                   *)

LEMMA TensorAssigned ==
    ASSUME TensorTypeOK, NEW t \in Tensors, NEW r \in TensorRecord, tensor' = [tensor EXCEPT ![t] = r]
    PROVE  /\ tensor' \in [Tensors -> TensorRecord] /\ tensor'[t] = r
           /\ \A u \in Tensors \ {t} : tensor'[u] = tensor[u]
  BY DEF TensorTypeOK

\* The memory stays: no tensor gets memory no tensor had, and none is forgotten.
LEMMA MemoryStays ==
    ASSUME TensorInv, MemoryInv', SizesFit', UNCHANGED <<mem, heap>>, tensor' \in [Tensors -> TensorRecord],
           \A u \in Tensors : LiveTensor(u)' =>
               \E v \in Tensors : /\ LiveTensor(v) /\ tensor'[u].data = Data(v)
                                  /\ tensor'[u].capacity_bytes = tensor[v].capacity_bytes,
           \A v \in Tensors : LiveTensor(v) =>
               \E u \in Tensors : LiveTensor(u)' /\ tensor'[u].data = Data(v)
    PROVE  Preserved
<1>1. \A u \in Tensors : LiveTensor(u)' => tensor'[u].data \in Objects /\ mem[tensor'[u].data].phase = "live"
  BY DEF TensorInv, TensorTypeOK, Live
<1>2. TensorTypeOK' BY <1>1 DEF TensorTypeOK, MemoryInv, Live, Data
<1>3. ObjectsOwned' BY DEF TensorInv, ObjectsOwned, Live, Data
<1>4. ViewsInv => ViewsInv' BY DEF ViewsInv, DeviceOwned, ViewsKept
<1>5. CapacityInv => CapacityInv' BY DEF CapacityInv, NullEmpty, CapacityBacked, Data
<1> QED BY <1>2, <1>3, <1>4, <1>5 DEF Preserved, TensorInv

\* The tensor t asks its memory for n bytes.
LEMMA TensorAllocates ==
    ASSUME TensorInv, NEW t \in Tensors, NEW n \in Nat, LiveTensor(t), AllocateMemory(Data(t), n),
           n \in Sizes \/ \E s \in Shapes : n = Bytes[s],
           NEW r \in TensorRecord, tensor' = [tensor EXCEPT ![t] = r], r.phase = "live", r.data = Data(t),
           r.capacity_bytes = mem'[Data(t)].capacity_bytes
    PROVE  Preserved
<1> DEFINE o == Data(t)
<1>1. MemoryInv /\ SizesFit /\ TensorTypeOK /\ ObjectsOwned BY DEF TensorInv
<1>2. o \in Objects /\ Live(o) BY <1>1 DEF TensorTypeOK
<1>3. /\ MemoryInv' /\ SizesFit'
      /\ DeviceOwned /\ (mem[o].is_view => Reuses(o, n) \/ n = 0) => DeviceOwned'
      /\ \A p \in Objects \ {o} : mem'[p] = mem[p]
      /\ mem'[o].phase = mem[o].phase /\ mem'[o].is_view = mem[o].is_view
      /\ \/ (n = 0 \/ Reuses(o, n)) /\ Stays(o)
         \/ n # 0 /\ ~Reuses(o, n) /\ (Fetches(o, n) \/ Loses(o))
  BY <1>1, <1>2, AllocateFacts
<1>4. /\ tensor' \in [Tensors -> TensorRecord] /\ tensor'[t] = r
      /\ \A u \in Tensors \ {t} : tensor'[u] = tensor[u]
  BY <1>1, TensorAssigned
<1>5. \A u \in Tensors : (LiveTensor(u)' <=> LiveTensor(u)) /\ (LiveTensor(u) => tensor'[u].data = Data(u))
  BY <1>4 DEF LiveTensor, Data
<1>6. \A p \in Objects : mem'[p].phase = mem[p].phase BY <1>3
<1>7. TensorTypeOK' BY <1>1, <1>3, <1>4, <1>5, <1>6 DEF TensorTypeOK, MemoryInv, Live, Data
<1>8. ObjectsOwned' BY <1>1, <1>5, <1>6 DEF ObjectsOwned, Live, Data
<1>9. ASSUME ViewsFit, ViewsInv PROVE ViewsInv'
  <2>1. ASSUME mem[o].is_view PROVE Reuses(o, n)
    <3>1. mem[o].ptr \in Extern /\ ExternKind[mem[o].ptr] # "pageable"
          /\ mem[o].capacity_bytes = ExternSize[mem[o].ptr]
      BY <1>2, <1>9, <2>1 DEF ViewsInv, ViewsKept
    <3>2. n <= ExternSize[mem[o].ptr] BY <1>9, <3>1 DEF ViewsFit
    <3> QED BY <3>1, <3>2, NullApart DEF Reuses
  <2>2. DeviceOwned' BY <1>3, <1>9, <2>1 DEF ViewsInv
  <2>3. mem[o].is_view => Stays(o) BY <1>3, <2>1
  <2>4. ViewsKept' BY <1>3, <1>9, <2>3 DEF ViewsInv, ViewsKept, Stays
  <2> QED BY <2>2, <2>4 DEF ViewsInv
<1>10. ASSUME NeverFails, CapacityInv PROVE CapacityInv'
  <2>1. mem[o] \in ObjectRecord /\ mem[o].capacity_bytes \in Nat
    BY <1>1, <1>2 DEF MemoryInv, MemoryTypeOK, ObjectRecord
  <2>2. ~Loses(o) BY <1>10 DEF Loses, NeverFails
  <2>3. Fetches(o, n) /\ ~Reuses(o, n) => mem[o].capacity_bytes <= n
    BY <1>2, <1>10, <2>1 DEF Reuses, CapacityInv, NullEmpty
  <2>4. mem'[o].capacity_bytes \in Nat /\ mem[o].capacity_bytes <= mem'[o].capacity_bytes
    BY <1>3, <2>1, <2>2, <2>3 DEF Stays, Fetches
  <2>5. mem'[o].ptr = Null => mem'[o].capacity_bytes = 0
    BY <1>2, <1>3, <1>10, <2>2, NullApart DEF Stays, Fetches, CapacityInv, NullEmpty
  <2>6. NullEmpty' BY <1>3, <1>10, <2>5 DEF CapacityInv, NullEmpty
  <2>7. ASSUME NEW u \in Tensors, LiveTensor(u)'
        PROVE  tensor'[u].capacity_bytes <= mem'[tensor'[u].data].capacity_bytes
    <3>1. CASE u = t BY <1>4, <2>4, <3>1
    <3>2. CASE u # t
      <4>1. tensor'[u] = tensor[u] /\ LiveTensor(u) /\ Data(u) \in Objects
        BY <1>1, <1>4, <1>5, <2>7, <3>2 DEF TensorTypeOK
      <4>2. tensor[u].capacity_bytes \in Nat BY <1>1 DEF TensorTypeOK, TensorRecord
      <4>3. tensor[u].capacity_bytes <= mem[Data(u)].capacity_bytes BY <1>10, <4>1 DEF CapacityInv, CapacityBacked
      <4>4. CASE Data(u) = o BY <2>1, <2>4, <4>1, <4>2, <4>3, <4>4 DEF Data
      <4>5. CASE Data(u) # o BY <1>3, <4>1, <4>3, <4>5 DEF Data
      <4> QED BY <4>4, <4>5
    <3> QED BY <3>1, <3>2
  <2> QED BY <2>6, <2>7 DEF CapacityInv, CapacityBacked, Data
<1> QED BY <1>3, <1>7, <1>8, <1>9, <1>10 DEF Preserved, TensorInv

\* A new tensor t gets the new memory o.
LEMMA TensorMade ==
    ASSUME TensorInv, NEW t \in Tensors, NEW o \in Objects, tensor[t].phase = "none", Fresh(o),
           MemoryInv', SizesFit', \A p \in Objects \ {o} : mem'[p] = mem[p], mem'[o].phase = "live",
           NEW r \in TensorRecord, tensor' = [tensor EXCEPT ![t] = r], r.phase = "live", r.data = o,
           r.capacity_bytes <= mem'[o].capacity_bytes,
           mem'[o].ptr = Null => mem'[o].capacity_bytes = 0
    PROVE  /\ TensorInv'
           /\ CapacityInv => CapacityInv'
<1>1. MemoryInv /\ SizesFit /\ TensorTypeOK /\ ObjectsOwned BY DEF TensorInv
<1>2. /\ tensor' \in [Tensors -> TensorRecord] /\ tensor'[t] = r
      /\ \A u \in Tensors \ {t} : tensor'[u] = tensor[u]
  BY <1>1, TensorAssigned
<1>3. ~Live(o) /\ ~LiveTensor(t) BY DEF Fresh, Live, LiveTensor
<1>4. \A u \in Tensors : u # t /\ LiveTensor(u)' => LiveTensor(u) /\ Data(u) \in Objects \ {o} /\ Live(Data(u))
  BY <1>1, <1>2, <1>3 DEF LiveTensor, TensorTypeOK
<1>5. TensorTypeOK'
  <2>1. \A u \in Tensors : LiveTensor(u)' => tensor'[u].data \in Objects /\ mem'[tensor'[u].data].phase = "live"
    BY <1>2, <1>4 DEF Data, Live
  <2> QED BY <1>2, <2>1 DEF TensorTypeOK, MemoryInv, Live, Data
<1>6. ObjectsOwned'
  <2> SUFFICES ASSUME NEW p \in Objects, mem'[p].phase = "live"
               PROVE  \E u \in Tensors : tensor'[u].phase = "live" /\ tensor'[u].data = p
    BY DEF ObjectsOwned, Live, LiveTensor, Data
  <2>1. CASE p = o BY <1>2, <2>1
  <2>2. CASE p # o
    <3>1. Live(p) BY <2>2 DEF Live
    <3>2. PICK u \in Tensors : LiveTensor(u) /\ Data(u) = p BY <1>1, <3>1 DEF ObjectsOwned
    <3> QED BY <1>2, <1>3, <3>2 DEF LiveTensor, Data
  <2> QED BY <2>1, <2>2
<1>7. ASSUME CapacityInv PROVE CapacityInv'
  <2>1. NullEmpty' BY <1>7 DEF CapacityInv, NullEmpty
  <2>2. CapacityBacked' BY <1>2, <1>4, <1>7 DEF CapacityInv, CapacityBacked, LiveTensor, Data
  <2> QED BY <2>1, <2>2 DEF CapacityInv
<1> QED BY <1>5, <1>6, <1>7 DEF TensorInv

LEMMA NoTensorType == NoTensor \in TensorRecord /\ NoTensor.phase = "none" /\ NoTensor.data = Null
                      /\ NoTensor.capacity_bytes = 0 /\ NoTensor.byte_size = 0 /\ NoTensor.dims = Unsized
  BY DEF NoTensor, TensorRecord

LEMMA NewStep ==
    ASSUME TensorInv, NEW t \in Tensors, NEW o \in Objects, NEW type \in Types, New(t, o, type)
    PROVE  Preserved
<1> DEFINE r == [NoTensor EXCEPT !.phase = "live", !.data = o]
<1>1. type \in {"DEVICE", "PINNED", "PINNED_WC"} BY MemoryAssumption
<1>2. r \in TensorRecord /\ r.phase = "live" /\ r.data = o /\ r.capacity_bytes = 0
  BY NoTensorType DEF TensorRecord
<1>3. /\ tensor[t].phase = "none" /\ Fresh(o) /\ Construct(o, type)
      /\ tensor' = [tensor EXCEPT ![t] = r]
  BY DEF New
<1> HIDE DEF r
<1>4. MemoryInv /\ SizesFit BY DEF TensorInv
<1>5. /\ MemoryInv' /\ SizesFit' /\ (DeviceOwned => DeviceOwned')
      /\ \A p \in Objects \ {o} : mem'[p] = mem[p]
      /\ mem'[o].phase = "live" /\ mem'[o].ptr = Null /\ ~mem'[o].is_view /\ mem'[o].capacity_bytes = 0
  BY <1>1, <1>3, <1>4, ConstructFacts
<1>6. r.capacity_bytes <= mem'[o].capacity_bytes BY <1>2, <1>5
<1>7. TensorInv' /\ (CapacityInv => CapacityInv') BY <1>2, <1>3, <1>5, <1>6, TensorMade
<1>8. ViewsInv => ViewsInv' BY <1>5 DEF ViewsInv, ViewsKept
<1> QED BY <1>7, <1>8 DEF Preserved

LEMMA ViewFromStep ==
    ASSUME TensorInv, NEW t \in Tensors, NEW o \in Objects, NEW x \in Extern, NEW s \in Shapes,
           NEW type \in Types, ViewFrom(t, o, x, s, type)
    PROVE  Preserved
<1> DEFINE r == [phase |-> "live", data |-> o, dims |-> s, byte_size |-> Bytes[s],
                 capacity_bytes |-> Bytes[s], typed |-> TRUE]
<1>1. type \in {"DEVICE", "PINNED", "PINNED_WC"} /\ Bytes[s] \in Nat BY MemoryAssumption, TensorAssumption
<1>2. r \in TensorRecord /\ r.phase = "live" /\ r.data = o /\ r.capacity_bytes = Bytes[s]
  BY <1>1 DEF TensorRecord
<1>3. /\ tensor[t].phase = "none" /\ Fresh(o) /\ ConstructView(o, x, type)
      /\ tensor' = [tensor EXCEPT ![t] = r] /\ ExternSize[x] = Bytes[s]
  BY DEF ViewFrom
<1> HIDE DEF r
<1>4. MemoryInv /\ SizesFit BY DEF TensorInv
<1>5. /\ MemoryInv' /\ SizesFit' /\ (DeviceOwned => DeviceOwned')
      /\ \A p \in Objects \ {o} : mem'[p] = mem[p]
      /\ mem'[o].phase = "live" /\ mem'[o].ptr = x /\ mem'[o].is_view
      /\ mem'[o].capacity_bytes = ExternSize[x]
  BY <1>1, <1>3, <1>4, ObjectViews
<1>6. mem'[o].ptr # Null /\ r.capacity_bytes <= mem'[o].capacity_bytes
  BY <1>1, <1>2, <1>3, <1>5, NullApart
<1>7. TensorInv' /\ (CapacityInv => CapacityInv') BY <1>2, <1>3, <1>5, <1>6, TensorMade
<1>8. ExternKind[x] # "pageable" BY <1>3 DEF ConstructView, ViewKind
<1>9. ViewsInv => ViewsInv' BY <1>5, <1>8 DEF ViewsInv, ViewsKept
<1> QED BY <1>7, <1>9 DEF Preserved

LEMMA ReturnsKeeps ==
    ASSUME TensorInv, NEW result \in BOOLEAN, TensorReturns(result)
    PROVE  MemoryInv' /\ SizesFit' /\ UNCHANGED <<mem, heap>>
<1>1. UNCHANGED <<mem, heap, access, aborted>> /\ ret' \in BOOLEAN BY DEF TensorReturns, Returns
<1>2. MemoryInv /\ SizesFit /\ aborted \in BOOLEAN BY DEF TensorInv, MemoryInv, MemoryTypeOK
<1> QED BY <1>1, <1>2, ObjectsKept

\* A step that changes at most the size, the dims and the type of t, and no memory.
LEMMA TensorRelabelled ==
    ASSUME TensorInv, MemoryInv', SizesFit', UNCHANGED <<mem, heap>>, NEW t \in Tensors,
           NEW r \in TensorRecord, tensor' = [tensor EXCEPT ![t] = r], r.phase = tensor[t].phase,
           r.data = Data(t), r.capacity_bytes = tensor[t].capacity_bytes
    PROVE  Preserved
<1>1. TensorTypeOK BY DEF TensorInv
<1>2. /\ tensor' \in [Tensors -> TensorRecord] /\ tensor'[t] = r
      /\ \A u \in Tensors \ {t} : tensor'[u] = tensor[u]
  BY <1>1, TensorAssigned
<1>3. \A u \in Tensors : /\ LiveTensor(u)' <=> LiveTensor(u)
                         /\ tensor'[u].data = Data(u) /\ tensor'[u].capacity_bytes = tensor[u].capacity_bytes
  BY <1>2 DEF LiveTensor, Data
<1> QED BY <1>2, <1>3, MemoryStays

LEMMA ResizeStep ==
    ASSUME TensorInv, NEW t \in Tensors, NEW s \in Shapes \cup {Unsized}, NEW supported \in BOOLEAN,
           Resize(t, s, supported)
    PROVE  Preserved
<1>1. TensorTypeOK /\ MemoryInv /\ tensor[t] \in TensorRecord /\ LiveTensor(t) BY DEF TensorInv, TensorTypeOK, Resize
<1>2. CASE ~supported \/ s = Unsized
  <2> DEFINE r == [tensor[t] EXCEPT !.dims = s, !.typed = supported]
  <2>1. tensor' = [tensor EXCEPT ![t].dims = s, ![t].typed = supported] /\ TensorReturns(FALSE)
    BY <1>2 DEF Resize
  <2>2. tensor' = [tensor EXCEPT ![t] = r] BY <1>1, <2>1 DEF TensorTypeOK
  <2>3. r \in TensorRecord /\ r.phase = tensor[t].phase /\ r.data = Data(t)
        /\ r.capacity_bytes = tensor[t].capacity_bytes
    BY <1>1 DEF TensorRecord, Data
  <2> HIDE DEF r
  <2>4. MemoryInv' /\ SizesFit' /\ UNCHANGED <<mem, heap>> BY <2>1, ReturnsKeeps
  <2> QED BY <2>2, <2>3, <2>4, TensorRelabelled
<1>3. CASE supported /\ s # Unsized
  <2> DEFINE c == mem'[Data(t)].capacity_bytes
             r == [tensor[t] EXCEPT !.dims = s, !.typed = TRUE, !.byte_size = Bytes[s], !.capacity_bytes = c]
  <2>1. /\ AllocateMemory(Data(t), Bytes[s])
        /\ tensor' = [tensor EXCEPT ![t].dims = s, ![t].typed = TRUE, ![t].byte_size = Bytes[s],
                                    ![t].capacity_bytes = c]
    BY <1>3 DEF Resize
  <2>2. Data(t) \in Objects /\ s \in Shapes /\ Bytes[s] \in Nat
    BY <1>1, <1>3, TensorAssumption DEF TensorTypeOK
  <2>3. MemoryInv' BY <1>1, <2>1, <2>2, AllocateFacts
  <2>4. c \in Nat BY <2>2, <2>3 DEF MemoryInv, MemoryTypeOK, ObjectRecord
  <2>5. tensor' = [tensor EXCEPT ![t] = r] BY <1>1, <2>1 DEF TensorTypeOK
  <2> HIDE DEF c
  <2>6. r \in TensorRecord /\ r.phase = "live" /\ r.data = Data(t) /\ r.capacity_bytes = c
    BY <1>1, <2>2, <2>4 DEF TensorRecord, Data, LiveTensor
  <2> HIDE DEF r
  <2> QED BY <1>1, <2>1, <2>2, <2>5, <2>6, TensorAllocates DEF c
<1> QED BY <1>2, <1>3

LEMMA ResizeBytesStep ==
    ASSUME TensorInv, NEW t \in Tensors, NEW n \in Nat, n \in Sizes \/ \E s \in Shapes : n = Bytes[s],
           ResizeBytes(t, n)
    PROVE  Preserved
<1>1. TensorTypeOK /\ MemoryInv /\ tensor[t] \in TensorRecord /\ LiveTensor(t)
  BY DEF TensorInv, TensorTypeOK, ResizeBytes
<1> DEFINE c == mem'[Data(t)].capacity_bytes
           r == [tensor[t] EXCEPT !.byte_size = n, !.capacity_bytes = c]
<1>2. /\ AllocateMemory(Data(t), n)
      /\ tensor' = [tensor EXCEPT ![t].byte_size = n, ![t].capacity_bytes = c]
  BY DEF ResizeBytes
<1>3. Data(t) \in Objects BY <1>1 DEF TensorTypeOK
<1>4. MemoryInv' BY <1>1, <1>2, <1>3, AllocateFacts
<1>5. c \in Nat BY <1>3, <1>4 DEF MemoryInv, MemoryTypeOK, ObjectRecord
<1>6. tensor' = [tensor EXCEPT ![t] = r] BY <1>1, <1>2 DEF TensorTypeOK
<1> HIDE DEF c
<1>7. r \in TensorRecord /\ r.phase = "live" /\ r.data = Data(t) /\ r.capacity_bytes = c
  BY <1>1, <1>5 DEF TensorRecord, Data, LiveTensor
<1> HIDE DEF r
<1> QED BY <1>1, <1>2, <1>6, <1>7, TensorAllocates DEF c

LEMMA ReshapeStep ==
    ASSUME TensorInv, NEW t \in Tensors, NEW s \in Shapes \cup {Unsized}, Reshape(t, s)
    PROVE  Preserved
<1>1. TensorTypeOK /\ tensor[t] \in TensorRecord /\ LiveTensor(t) BY DEF TensorInv, TensorTypeOK, Reshape
<1>2. MemoryInv' /\ SizesFit' /\ UNCHANGED <<mem, heap>>
  BY ReturnsKeeps DEF Reshape, CanReshape, TensorReturns, Returns
<1>3. CASE CanReshape(t, s)
  <2> DEFINE r == [tensor[t] EXCEPT !.dims = s, !.byte_size = Bytes[s]]
  <2>1. tensor' = [tensor EXCEPT ![t] = r] BY <1>1, <1>3 DEF Reshape, TensorTypeOK
  <2>2. s \in Shapes /\ Bytes[s] \in Nat BY <1>3, TensorAssumption DEF CanReshape
  <2>3. r \in TensorRecord /\ r.phase = tensor[t].phase /\ r.data = Data(t)
        /\ r.capacity_bytes = tensor[t].capacity_bytes
    BY <1>1, <2>2 DEF TensorRecord, Data
  <2> HIDE DEF r
  <2> QED BY <1>2, <2>1, <2>3, TensorRelabelled
<1>4. CASE ~CanReshape(t, s)
  <2>1. UNCHANGED tensor BY <1>4 DEF Reshape
  <2> QED BY <1>1, <1>2, <2>1, MemoryStays DEF TensorTypeOK, LiveTensor, Data
<1> QED BY <1>3, <1>4

LEMMA ViewStep ==
    ASSUME TensorInv, NEW t \in Tensors, NEW v \in Tensors, NEW s \in Shapes, View(t, v, s)
    PROVE  Preserved
<1> DEFINE r == [tensor[t] EXCEPT !.dims = s, !.byte_size = Bytes[s]]
<1>1. TensorTypeOK /\ tensor[t] \in TensorRecord /\ LiveTensor(t) /\ tensor[v].phase = "none"
      /\ Bytes[s] \in Nat
  BY TensorAssumption DEF TensorInv, TensorTypeOK, View
<1>2. r \in TensorRecord /\ r.phase = "live" /\ r.data = Data(t) /\ r.capacity_bytes = tensor[t].capacity_bytes
  BY <1>1 DEF TensorRecord, Data, LiveTensor
<1>3. tensor' = [tensor EXCEPT ![v] = r] BY DEF View
<1> HIDE DEF r
<1>4. MemoryInv' /\ SizesFit' /\ UNCHANGED <<mem, heap>> BY ReturnsKeeps DEF View
<1>5. /\ tensor' \in [Tensors -> TensorRecord] /\ tensor'[v] = r
      /\ \A u \in Tensors \ {v} : tensor'[u] = tensor[u]
  BY <1>1, <1>2, <1>3, TensorAssigned
<1>6. ~LiveTensor(v) BY <1>1 DEF LiveTensor
<1> QED BY <1>1, <1>2, <1>4, <1>5, <1>6, MemoryStays DEF LiveTensor, Data

LEMMA DropStep ==
    ASSUME TensorInv, NEW t \in Tensors, Drop(t)
    PROVE  Preserved
<1> DEFINE o == Data(t)
           r == [NoTensor EXCEPT !.phase = "gone"]
<1>1. MemoryInv /\ SizesFit /\ TensorTypeOK /\ ObjectsOwned /\ LiveTensor(t) BY DEF TensorInv, Drop
<1>2. r \in TensorRecord /\ r.phase = "gone" BY NoTensorType DEF TensorRecord
<1>3. tensor' = [tensor EXCEPT ![t] = r] BY DEF Drop
<1> HIDE DEF r
<1>4. /\ tensor' \in [Tensors -> TensorRecord] /\ tensor'[t] = r
      /\ \A u \in Tensors \ {t} : tensor'[u] = tensor[u]
  BY <1>1, <1>2, <1>3, TensorAssigned
<1>5. \A u \in Tensors : LiveTensor(u)' => u # t /\ LiveTensor(u) /\ tensor'[u] = tensor[u]
  BY <1>2, <1>4 DEF LiveTensor
<1>6. CASE ~SoleOwner(t)
  <2>1. MemoryInv' /\ SizesFit' /\ UNCHANGED <<mem, heap>> BY <1>6, ReturnsKeeps DEF Drop
  <2>2. PICK w \in Tensors \ {t} : LiveTensor(w) /\ Data(w) = Data(t) BY <1>6 DEF SoleOwner
  <2>3. \A v \in Tensors : LiveTensor(v) => \E u \in Tensors : LiveTensor(u)' /\ tensor'[u].data = Data(v)
    BY <1>4, <2>2 DEF LiveTensor, Data
  <2> QED BY <1>4, <1>5, <2>1, <2>3, MemoryStays DEF Data
<1>7. CASE SoleOwner(t)
  <2>1. Destroy(o) BY <1>7 DEF Drop
  <2>2. o \in Objects BY <1>1 DEF TensorTypeOK
  <2>3. /\ MemoryInv' /\ SizesFit' /\ (DeviceOwned => DeviceOwned')
        /\ \A p \in Objects \ {o} : mem'[p] = mem[p]
        /\ mem'[o].phase = "gone" /\ mem'[o].ptr = Null /\ ~mem'[o].is_view /\ mem'[o].capacity_bytes = 0
    BY <1>1, <2>1, <2>2, DestroyFacts
  <2>4. \A u \in Tensors : LiveTensor(u)' => Data(u) \in Objects \ {o} /\ Live(Data(u))
    BY <1>1, <1>5, <1>7 DEF SoleOwner, TensorTypeOK
  <2>5. TensorTypeOK'
    <3>1. \A u \in Tensors : LiveTensor(u)' => tensor'[u].data \in Objects /\ mem'[tensor'[u].data].phase = "live"
      BY <1>5, <2>3, <2>4 DEF Data, Live
    <3> QED BY <1>4, <2>3, <3>1 DEF TensorTypeOK, MemoryInv, Live, Data
  <2>6. ObjectsOwned'
    <3> SUFFICES ASSUME NEW p \in Objects, mem'[p].phase = "live"
                 PROVE  \E u \in Tensors : tensor'[u].phase = "live" /\ tensor'[u].data = p
      BY DEF ObjectsOwned, Live, LiveTensor, Data
    <3>1. p # o /\ Live(p) BY <2>3 DEF Live
    <3>2. PICK u \in Tensors : LiveTensor(u) /\ Data(u) = p BY <1>1, <3>1 DEF ObjectsOwned
    <3> QED BY <1>4, <3>1, <3>2 DEF LiveTensor, Data
  <2>7. ViewsInv => ViewsInv' BY <2>3 DEF ViewsInv, ViewsKept
  <2>8. CapacityInv => CapacityInv'
    BY <1>5, <2>3, <2>4 DEF CapacityInv, NullEmpty, CapacityBacked, Data
  <2> QED BY <2>3, <2>5, <2>6, <2>7, <2>8 DEF Preserved, TensorInv
<1> QED BY <1>6, <1>7

LEMMA CopyStep ==
    ASSUME TensorInv, NEW t \in Tensors, Copy(t)
    PROVE  Preserved
<1>1. TensorTypeOK /\ MemoryInv /\ SizesFit /\ LiveTensor(t) BY DEF TensorInv, Copy
<1>2. Data(t) \in Objects /\ tensor[t].byte_size \in Nat /\ 0 \in Nat BY <1>1 DEF TensorTypeOK, TensorRecord
<1>3. Transfer(Data(t), 0, tensor[t].byte_size) /\ UNCHANGED tensor BY DEF Copy
<1>4. MemoryInv' /\ SizesFit' /\ UNCHANGED <<mem, heap>> BY <1>1, <1>2, <1>3, TransferFacts
<1> QED BY <1>1, <1>3, <1>4, MemoryStays DEF TensorTypeOK, LiveTensor, Data

LEMMA TensorStep == TensorInv /\ [TensorNext]_tensor_vars => Preserved
<1> SUFFICES ASSUME TensorInv, [TensorNext]_tensor_vars PROVE Preserved OBVIOUS
<1>1. CASE UNCHANGED tensor_vars
  <2>1. UNCHANGED <<mem, heap, access, ret, aborted, tensor>> BY <1>1 DEF tensor_vars, memory_vars
  <2>2. MemoryInv /\ SizesFit /\ ret' \in BOOLEAN /\ aborted' \in BOOLEAN
    BY <2>1 DEF TensorInv, MemoryInv, MemoryTypeOK
  <2>3. MemoryInv' /\ SizesFit' BY <2>1, <2>2, ObjectsKept
  <2> QED BY <2>1, <2>3, MemoryStays DEF TensorInv, TensorTypeOK, LiveTensor, Data
<1>2. ASSUME NEW t \in Tensors, NEW n \in Sizes, ResizeBytes(t, n) PROVE Preserved
  <2>1. n \in Nat BY MemoryAssumption
  <2> QED BY <1>2, <2>1, ResizeBytesStep
<1> QED BY <1>1, <1>2, NewStep, ResizeStep, ReshapeStep, ViewStep, ViewFromStep, DropStep, CopyStep DEF TensorNext

LEMMA TensorInitInv == TensorInit => TensorInv /\ ViewsInv /\ CapacityInv
<1> SUFFICES ASSUME TensorInit PROVE TensorInv /\ ViewsInv /\ CapacityInv OBVIOUS
<1>1. MemoryInv /\ DeviceOwned /\ SizesFit BY MemoryInitFacts DEF TensorInit
<1>2. \A o \in Objects : mem[o] = Absent BY DEF TensorInit, MemoryInit
<1>3. \A t \in Tensors : tensor[t] = NoTensor BY DEF TensorInit
<1>4. TensorTypeOK BY <1>1, <1>3, NoTensorType DEF TensorTypeOK, MemoryInv, TensorInit, LiveTensor
<1>5. ObjectsOwned BY <1>2, RecordTypes DEF ObjectsOwned, Live
<1>6. ViewsKept BY <1>2, RecordTypes DEF ViewsKept
<1>7. NullEmpty BY <1>2 DEF NullEmpty, Absent
<1>8. CapacityBacked BY <1>3, NoTensorType DEF CapacityBacked, LiveTensor
<1> QED BY <1>1, <1>4, <1>5, <1>6, <1>7, <1>8 DEF TensorInv, ViewsInv, CapacityInv
-----------------------------------------------------------------------------
(* The theorems of TensorSpec.                                              *)

\* Types; a live tensor always has a live memory, however its memory was shared and
\* whichever of the tensors that share it went first.
THEOREM TensorTypeTheorem == TensorSpec => []TensorTypeOK
<1>1. TensorInv => TensorTypeOK BY DEF TensorInv
<1> QED BY <1>1, TensorInitInv, TensorStep, PTL DEF TensorSpec, Preserved

\* No copy of a tensor reaches beyond its block: the size that the memory compares a copy
\* with (cuda_base_memory.cpp:293) is never larger than the block, though tensors that
\* share the memory resize it behind each other's back.
THEOREM TransferTheorem == TensorSpec => []TransferInBounds
<1>1. TensorInv => TransferInBounds BY DEF TensorInv, SizesFit
<1> QED BY <1>1, TensorInitInv, TensorStep, PTL DEF TensorSpec, Preserved

\* With views of buffers large enough for every size the client asks for, tensors that
\* share memory neither lose a block nor leave a memory that no tensor has.
THEOREM TensorsOwnTheorem == ViewsFit /\ TensorSpec => []TensorsOwnMemory
<1>1. ViewsFit /\ TensorInv /\ ViewsInv /\ [TensorNext]_tensor_vars => (TensorInv /\ ViewsInv)'
  BY TensorStep DEF Preserved
<1>2. TensorInv /\ ViewsInv => TensorsOwnMemory
  BY OneOwnerFollows DEF TensorInv, ViewsInv, ObjectsOwned, TensorsOwnMemory
<1>3. CASE ViewsFit BY <1>1, <1>2, <1>3, TensorInitInv, PTL DEF TensorSpec
<1>4. CASE ~ViewsFit BY <1>4
<1> QED BY <1>3, <1>4

\* While the allocator has memory, the capacity a tensor remembers (tensor.cpp:114) is
\* there, even when a tensor that shares its memory has resized it since.
THEOREM CapacityTheorem == NeverFails /\ TensorSpec => []CapacityBacked
<1>1. NeverFails /\ TensorInv /\ CapacityInv /\ [TensorNext]_tensor_vars => (TensorInv /\ CapacityInv)'
  BY TensorStep DEF Preserved
<1>2. CapacityInv => CapacityBacked BY DEF CapacityInv
<1>3. CASE NeverFails BY <1>1, <1>2, <1>3, TensorInitInv, PTL DEF TensorSpec
<1>4. CASE ~NeverFails BY <1>4
<1> QED BY <1>3, <1>4

-----------------------------------------------------------------------------
(* The engine and its client.                                               *)

\* What the memory m of an engine's tensor r is to it: a block of its own, as large as
\* the tensor believes, or nothing.
BackedBy(r, m) ==
    /\ m.ptr \in Blocks \cup {Null} /\ m.capacity_bytes = r.capacity_bytes
    /\ m.ptr # Null => m.byte_size = m.capacity_bytes /\ r.byte_size <= m.byte_size
    /\ m.ptr = Null => m.capacity_bytes = 0
    /\ IF r.dims = Unsized THEN m.ptr = Null ELSE r.typed

Backed(t) ==
    IF LiveTensor(t) THEN Data(t) \in Objects /\ Live(Data(t)) /\ BackedBy(tensor[t], mem[Data(t)])
    ELSE tensor[t].byte_size = 0 /\ tensor[t].capacity_bytes = 0

Apart == \A t, u \in Tensors : LiveTensor(t) /\ LiveTensor(u) /\ Data(t) = Data(u) => t = u

TensorsBacked == tensor \in [Tensors -> TensorRecord] /\ (\A t \in Tensors : Backed(t)) /\ Apart

EngineInv == MemoryInv /\ TensorsBacked

OwnedInv == DeviceOwned /\ \A o \in Objects : ~mem[o].is_view

BufferStep(t) == Buffer!Idles(t) \/ Buffer!InPlace(t) \/ Buffer!Grow(t) \/ Buffer!Release(t)

EnginePreserved ==
    /\ EngineInv'
    /\ NoViews /\ OwnedInv => OwnedInv'
    /\ NoViews /\ OnePage /\ PagesHeld => PagesHeld'
    /\ \A t \in Tensors : BufferStep(t)

\* A tensor whose memory nobody touches idles.
LEMMA TensorIdles ==
    ASSUME TensorsBacked, NEW t \in Tensors, tensor'[t] = tensor[t],
           LiveTensor(t) => mem'[Data(t)] = mem[Data(t)]
    PROVE  Backed(t)' /\ BufferStep(t)
<1>1. Backed(t) BY DEF TensorsBacked
<1>2. (LiveTensor(t)' <=> LiveTensor(t)) /\ tensor'[t].data = Data(t) BY DEF LiveTensor, Data
<1>3. Backed(t)' BY <1>1, <1>2 DEF Backed, Live, Data
<1>4. Buffer!Idles(t) BY <1>2 DEF Buffer!Idles, Buffer!Keeps, Data
<1> QED BY <1>3, <1>4 DEF BufferStep

\* A call on the tensor t and the memory o, which no other tensor has.
LEMMA OneTensorSteps ==
    ASSUME EngineInv, MemoryInv', NEW t \in Tensors, NEW o \in Objects, NEW r \in TensorRecord,
           tensor' = [tensor EXCEPT ![t] = r], \A p \in Objects \ {o} : mem'[p] = mem[p],
           \A u \in Tensors \ {t} : LiveTensor(u) => Data(u) # o,
           IF r.phase = "live" THEN r.data = o /\ mem'[o].phase = "live" /\ BackedBy(r, mem'[o])
           ELSE r.byte_size = 0 /\ r.capacity_bytes = 0,
           BufferStep(t)
    PROVE  EngineInv' /\ \A u \in Tensors : BufferStep(u)
<1>1. TensorsBacked BY DEF EngineInv
<1>2. /\ tensor' \in [Tensors -> TensorRecord] /\ tensor'[t] = r
      /\ \A u \in Tensors \ {t} : tensor'[u] = tensor[u]
  BY <1>1 DEF TensorsBacked
<1>3. ASSUME NEW u \in Tensors \ {t} PROVE Backed(u)' /\ BufferStep(u)
  <2>1. LiveTensor(u) => Data(u) \in Objects \ {o} BY <1>1 DEF TensorsBacked, Backed
  <2> QED BY <1>1, <1>2, <2>1, TensorIdles
<1>4. Backed(t)' BY <1>2 DEF Backed, LiveTensor, Live, Data
<1>5. Apart'
  <2>1. \A u \in Tensors \ {t} : LiveTensor(u)' => LiveTensor(u) /\ tensor'[u].data = Data(u) /\ Data(u) # o
    BY <1>2 DEF LiveTensor, Data
  <2>2. LiveTensor(t)' => tensor'[t].data = o BY <1>2 DEF LiveTensor
  <2> QED BY <1>1, <2>1, <2>2 DEF TensorsBacked, Apart, Data
<1> QED BY <1>2, <1>3, <1>4, <1>5 DEF EngineInv, TensorsBacked

LEMMA EngineNew ==
    ASSUME EngineInv, NEW t \in Tensors, NEW o \in Objects, New(t, o, "DEVICE")
    PROVE  EnginePreserved
<1> DEFINE r == [NoTensor EXCEPT !.phase = "live", !.data = o]
<1>1. MemoryInv /\ TensorsBacked BY DEF EngineInv
<1>2. /\ r \in TensorRecord /\ r.phase = "live" /\ r.data = o /\ r.capacity_bytes = 0 /\ r.byte_size = 0
      /\ r.dims = Unsized
  BY NoTensorType DEF TensorRecord, NoTensor
<1>3. /\ tensor[t].phase = "none" /\ Fresh(o) /\ Construct(o, "DEVICE") /\ tensor' = [tensor EXCEPT ![t] = r]
  BY DEF New
<1> HIDE DEF r
<1>4. /\ MemoryInv' /\ (DeviceOwned => DeviceOwned') /\ (PagesHeld => PagesHeld')
      /\ \A p \in Objects \ {o} : mem'[p] = mem[p]
      /\ mem'[o].phase = "live" /\ mem'[o].ptr = Null /\ ~mem'[o].is_view
      /\ mem'[o].byte_size = 0 /\ mem'[o].capacity_bytes = 0
  BY <1>1, <1>3, ConstructFacts
<1>5. ~LiveTensor(t) /\ Backed(t) BY <1>1, <1>3 DEF LiveTensor, TensorsBacked
<1>6. \A u \in Tensors : LiveTensor(u) => Data(u) # o BY <1>1, <1>3 DEF TensorsBacked, Backed, Live, Fresh
<1>7. BackedBy(r, mem'[o]) BY <1>2, <1>4 DEF BackedBy
<1>8. tensor'[t] = r BY <1>1, <1>3 DEF TensorsBacked
<1>9. Buffer!Idles(t) BY <1>2, <1>4, <1>5, <1>8 DEF Backed, Buffer!Idles, Buffer!Keeps, LiveTensor, Data
<1>10. EngineInv' /\ \A u \in Tensors : BufferStep(u)
  BY <1>2, <1>3, <1>4, <1>6, <1>7, <1>9, OneTensorSteps DEF BufferStep
<1>11. OwnedInv => OwnedInv' BY <1>4 DEF OwnedInv
<1> QED BY <1>4, <1>10, <1>11 DEF EnginePreserved

\* The tensor t asks for n bytes, more than it has; the constructor may ask for none.
LEMMA EngineAllocates ==
    ASSUME EngineInv, NEW t \in Tensors, NEW n \in Nat, LiveTensor(t), AllocateMemory(Data(t), n),
           n > tensor[t].capacity_bytes \/ (n = 0 /\ mem[Data(t)].ptr = Null),
           NEW r \in TensorRecord, tensor' = [tensor EXCEPT ![t] = r], r.phase = "live", r.data = Data(t),
           r.capacity_bytes = mem'[Data(t)].capacity_bytes, r.byte_size = n, r.dims # Unsized, r.typed
    PROVE  EnginePreserved
<1> DEFINE o == Data(t)
<1>1. MemoryInv /\ TensorsBacked BY DEF EngineInv
<1>2. o \in Objects /\ Live(o) /\ BackedBy(tensor[t], mem[o]) BY <1>1 DEF TensorsBacked, Backed
<1>3. /\ MemoryInv' /\ (PagesHeld => PagesHeld')
      /\ DeviceOwned /\ (mem[o].is_view => Reuses(o, n) \/ n = 0) => DeviceOwned'
      /\ \A p \in Objects \ {o} : mem'[p] = mem[p]
      /\ mem'[o].phase = mem[o].phase /\ mem'[o].is_view = mem[o].is_view /\ mem'[o].byte_size = n
      /\ \/ (n = 0 \/ Reuses(o, n)) /\ Stays(o)
         \/ n # 0 /\ ~Reuses(o, n) /\ (Fetches(o, n) \/ Loses(o))
  BY <1>1, <1>2, AllocateFacts
<1>4. \A u \in Tensors \ {t} : LiveTensor(u) => Data(u) # o BY <1>1 DEF TensorsBacked, Apart
<1>5. tensor[t].capacity_bytes \in Nat /\ mem[o].capacity_bytes = tensor[t].capacity_bytes
  BY <1>1, <1>2 DEF TensorsBacked, TensorRecord, BackedBy
<1>6. tensor'[t] = r /\ LiveTensor(t)' BY <1>1 DEF TensorsBacked, LiveTensor
<1>7. \/ Stays(o) /\ n = 0 /\ mem[o].ptr = Null
      \/ n > tensor[t].capacity_bytes /\ (Fetches(o, n) \/ Loses(o))
  <2>1. CASE n = 0 /\ mem[o].ptr = Null BY <1>3, <2>1
  <2>2. CASE n > tensor[t].capacity_bytes
    <3>1. n # 0 /\ ~Reuses(o, n) BY <1>5, <2>2 DEF Reuses
    <3> QED BY <1>3, <2>2, <3>1
  <2> QED BY <2>1, <2>2
<1>8. ASSUME Stays(o) /\ n = 0 /\ mem[o].ptr = Null PROVE BackedBy(r, mem'[o]) /\ BufferStep(t)
  <2>1. mem'[o].ptr = Null /\ mem'[o].capacity_bytes = mem[o].capacity_bytes /\ mem[o].capacity_bytes = 0
    BY <1>2, <1>8 DEF Stays, BackedBy
  <2>2. BackedBy(r, mem'[o]) BY <2>1 DEF BackedBy
  <2>3. Buffer!Keeps(t) BY <1>5, <1>6, <1>8, <2>1 DEF Buffer!Keeps, Data
  <2>4. tensor'[t].byte_size <= tensor[t].capacity_bytes BY <1>5, <1>6, <1>8, <2>1
  <2>5. Buffer!InPlace(t) BY <2>3, <2>4 DEF Buffer!InPlace
  <2> QED BY <2>2, <2>5 DEF BufferStep
<1>9. ASSUME n > tensor[t].capacity_bytes /\ Fetches(o, n) PROVE BackedBy(r, mem'[o]) /\ BufferStep(t)
  <2>1. mem'[o].ptr \in Blocks /\ mem'[o].ptr # Null /\ mem'[o].capacity_bytes = n /\ mem'[o].ptr # mem[o].ptr
    BY <1>2, <1>9, NullApart DEF Fetches
  <2>2. BackedBy(r, mem'[o]) BY <1>3, <2>1 DEF BackedBy
  <2>3. Buffer!Grow(t) BY <1>6, <1>9, <2>1 DEF Buffer!Grow, Data
  <2> QED BY <2>2, <2>3 DEF BufferStep
<1>10. ASSUME n > tensor[t].capacity_bytes /\ Loses(o) PROVE BackedBy(r, mem'[o]) /\ BufferStep(t)
  <2>1. mem'[o].ptr = Null /\ mem'[o].capacity_bytes = 0 BY <1>10 DEF Loses
  <2>2. BackedBy(r, mem'[o]) BY <2>1 DEF BackedBy
  <2>3. Buffer!Grow(t) BY <1>6, <1>10, <2>1 DEF Buffer!Grow, Buffer!Loses, Data
  <2> QED BY <2>2, <2>3 DEF BufferStep
<1>11. BackedBy(r, mem'[o]) /\ BufferStep(t) BY <1>7, <1>8, <1>9, <1>10
<1>12. mem'[o].phase = "live" BY <1>2, <1>3 DEF Live
<1>13. EngineInv' /\ \A u \in Tensors : BufferStep(u)
  BY <1>2, <1>3, <1>4, <1>11, <1>12, OneTensorSteps
<1>14. OwnedInv => OwnedInv' BY <1>2, <1>3 DEF OwnedInv
<1> QED BY <1>3, <1>13, <1>14 DEF EnginePreserved

\* The tensor t changes its dims and its size within its capacity.
LEMMA EngineRelabels ==
    ASSUME EngineInv, MemoryInv', UNCHANGED <<mem, heap>>, NEW t \in Tensors, LiveTensor(t),
           NEW r \in TensorRecord, tensor' = [tensor EXCEPT ![t] = r], r.phase = "live", r.data = Data(t),
           r.capacity_bytes = tensor[t].capacity_bytes, r.byte_size <= tensor[t].capacity_bytes,
           tensor[t].dims # Unsized, r.dims # Unsized, r.typed
    PROVE  EnginePreserved
<1> DEFINE o == Data(t)
<1>1. MemoryInv /\ TensorsBacked BY DEF EngineInv
<1>2. o \in Objects /\ Live(o) /\ BackedBy(tensor[t], mem[o]) BY <1>1 DEF TensorsBacked, Backed
<1>3. \A u \in Tensors \ {t} : LiveTensor(u) => Data(u) # o BY <1>1 DEF TensorsBacked, Apart
<1>4. BackedBy(r, mem'[o]) BY <1>2 DEF BackedBy
<1>5. tensor'[t] = r /\ LiveTensor(t)' BY <1>1 DEF TensorsBacked, LiveTensor
<1>6. Buffer!InPlace(t) BY <1>5 DEF Buffer!InPlace, Buffer!Keeps, Data
<1>7. mem'[o].phase = "live" BY <1>2 DEF Live
<1>8. EngineInv' /\ \A u \in Tensors : BufferStep(u)
  BY <1>2, <1>3, <1>4, <1>6, <1>7, OneTensorSteps DEF BufferStep
<1> QED BY <1>8 DEF EnginePreserved, OwnedInv, DeviceOwned, PagesHeld, ClientKeeps

\* Neither the tensors nor their memory change.
LEMMA EngineKeeps ==
    ASSUME EngineInv, MemoryInv', UNCHANGED tensor,
           \A t \in Tensors : LiveTensor(t) => mem'[Data(t)] = mem[Data(t)]
    PROVE  EngineInv' /\ \A t \in Tensors : BufferStep(t)
<1>1. TensorsBacked BY DEF EngineInv
<1>2. \A t \in Tensors : Backed(t)' /\ BufferStep(t) BY <1>1, TensorIdles
<1>3. Apart' BY <1>1 DEF TensorsBacked, Apart, LiveTensor, Data
<1> QED BY <1>1, <1>2, <1>3 DEF EngineInv, TensorsBacked

LEMMA EngineReshape ==
    ASSUME EngineInv, NEW t \in Tensors, NEW s \in Shapes, Constructed(t), Reshape(t, s)
    PROVE  EnginePreserved
<1>1. MemoryInv /\ tensor \in [Tensors -> TensorRecord] /\ tensor[t] \in TensorRecord /\ LiveTensor(t)
      /\ tensor[t].dims # Unsized /\ Bytes[s] \in Nat /\ s # Unsized
  BY TensorAssumption DEF EngineInv, TensorsBacked, Constructed
<1>2. UNCHANGED <<mem, heap, access, aborted>> /\ ret' \in BOOLEAN
  BY DEF Reshape, CanReshape, TensorReturns, Returns
<1>3. MemoryInv' BY <1>1, <1>2, ObjectsKept DEF MemoryInv, MemoryTypeOK
<1>4. CASE CanReshape(t, s)
  <2> DEFINE r == [tensor[t] EXCEPT !.dims = s, !.byte_size = Bytes[s]]
  <2>1. tensor' = [tensor EXCEPT ![t] = r] BY <1>1, <1>4 DEF Reshape
  <2>2. r \in TensorRecord /\ r.phase = "live" /\ r.data = Data(t) /\ r.dims = s /\ r.byte_size = Bytes[s]
        /\ r.capacity_bytes = tensor[t].capacity_bytes /\ r.typed = tensor[t].typed
    BY <1>1 DEF TensorRecord, Data, LiveTensor
  <2>3. Bytes[s] <= tensor[t].capacity_bytes /\ tensor[t].typed BY <1>4 DEF CanReshape
  <2> HIDE DEF r
  <2> QED BY <1>1, <1>2, <1>3, <2>1, <2>2, <2>3, EngineRelabels
<1>5. CASE ~CanReshape(t, s)
  <2>1. UNCHANGED tensor BY <1>5 DEF Reshape
  <2>2. EngineInv' /\ \A u \in Tensors : BufferStep(u) BY <1>2, <1>3, <2>1, EngineKeeps
  <2> QED BY <1>2, <2>2 DEF EnginePreserved, OwnedInv, DeviceOwned, PagesHeld, ClientKeeps
<1> QED BY <1>4, <1>5

\* Resize of a tensor that has too little, or nothing yet.
LEMMA EngineResize ==
    ASSUME EngineInv, NEW t \in Tensors, NEW s \in Shapes, Resize(t, s, TRUE),
           Bytes[s] > tensor[t].capacity_bytes \/ ~Constructed(t)
    PROVE  EnginePreserved
<1> DEFINE c == mem'[Data(t)].capacity_bytes
           r == [tensor[t] EXCEPT !.dims = s, !.typed = TRUE, !.byte_size = Bytes[s], !.capacity_bytes = c]
<1>1. MemoryInv /\ TensorsBacked /\ tensor[t] \in TensorRecord /\ LiveTensor(t) /\ s # Unsized /\ Bytes[s] \in Nat
  BY TensorAssumption DEF EngineInv, TensorsBacked, Resize
<1>2. /\ AllocateMemory(Data(t), Bytes[s])
      /\ tensor' = [tensor EXCEPT ![t].dims = s, ![t].typed = TRUE, ![t].byte_size = Bytes[s],
                                  ![t].capacity_bytes = c]
  BY <1>1 DEF Resize
<1>3. Data(t) \in Objects /\ BackedBy(tensor[t], mem[Data(t)]) BY <1>1 DEF TensorsBacked, Backed
<1>4. MemoryInv' BY <1>1, <1>2, <1>3, AllocateFacts
<1>5. c \in Nat BY <1>3, <1>4 DEF MemoryInv, MemoryTypeOK, ObjectRecord
<1>6. tensor' = [tensor EXCEPT ![t] = r] BY <1>1, <1>2 DEF TensorsBacked
<1> HIDE DEF c
<1>7. /\ r \in TensorRecord /\ r.phase = "live" /\ r.data = Data(t) /\ r.capacity_bytes = c
      /\ r.byte_size = Bytes[s] /\ r.dims = s /\ r.typed = TRUE
  BY <1>1, <1>5 DEF TensorRecord, Data, LiveTensor
<1> HIDE DEF r
<1>8. Bytes[s] > tensor[t].capacity_bytes \/ (Bytes[s] = 0 /\ mem[Data(t)].ptr = Null)
  <2>1. CASE ~Constructed(t)
    <3>1. tensor[t].dims = Unsized BY <1>1, <2>1 DEF Constructed
    <3>2. mem[Data(t)].ptr = Null /\ tensor[t].capacity_bytes = 0 BY <1>3, <3>1 DEF BackedBy
    <3> QED BY <1>1, <3>2
  <2> QED BY <2>1
<1> QED BY <1>1, <1>2, <1>6, <1>7, <1>8, EngineAllocates DEF c

LEMMA EngineGrows ==
    ASSUME EngineInv, NEW t \in Tensors, NEW n \in Nat, Constructed(t), ResizeBytes(t, n),
           n > tensor[t].capacity_bytes
    PROVE  EnginePreserved
<1> DEFINE c == mem'[Data(t)].capacity_bytes
           r == [tensor[t] EXCEPT !.byte_size = n, !.capacity_bytes = c]
<1>1. MemoryInv /\ TensorsBacked /\ tensor[t] \in TensorRecord /\ LiveTensor(t) /\ tensor[t].dims # Unsized
  BY DEF EngineInv, TensorsBacked, Constructed
<1>2. /\ AllocateMemory(Data(t), n)
      /\ tensor' = [tensor EXCEPT ![t].byte_size = n, ![t].capacity_bytes = c]
  BY DEF ResizeBytes
<1>3. Data(t) \in Objects /\ tensor[t].typed BY <1>1 DEF TensorsBacked, Backed, BackedBy
<1>4. MemoryInv' BY <1>1, <1>2, <1>3, AllocateFacts
<1>5. c \in Nat BY <1>3, <1>4 DEF MemoryInv, MemoryTypeOK, ObjectRecord
<1>6. tensor' = [tensor EXCEPT ![t] = r] BY <1>1, <1>2 DEF TensorsBacked
<1> HIDE DEF c
<1>7. /\ r \in TensorRecord /\ r.phase = "live" /\ r.data = Data(t) /\ r.capacity_bytes = c
      /\ r.byte_size = n /\ r.dims = tensor[t].dims /\ r.typed = tensor[t].typed
  BY <1>1, <1>5 DEF TensorRecord, Data, LiveTensor
<1> HIDE DEF r
<1>8. r.dims # Unsized /\ r.typed BY <1>1, <1>3, <1>7
<1> QED BY <1>1, <1>2, <1>6, <1>7, <1>8, EngineAllocates DEF c

LEMMA EngineDrop ==
    ASSUME EngineInv, NEW t \in Tensors, Drop(t)
    PROVE  EnginePreserved
<1> DEFINE o == Data(t)
           r == [NoTensor EXCEPT !.phase = "gone"]
<1>1. MemoryInv /\ TensorsBacked /\ LiveTensor(t) BY DEF EngineInv, Drop
<1>2. r \in TensorRecord /\ r.phase = "gone" /\ r.byte_size = 0 /\ r.capacity_bytes = 0
  BY NoTensorType DEF TensorRecord, NoTensor
<1>3. tensor' = [tensor EXCEPT ![t] = r] BY DEF Drop
<1> HIDE DEF r
<1>4. \A u \in Tensors \ {t} : LiveTensor(u) => Data(u) # o BY <1>1 DEF TensorsBacked, Apart
<1>5. Destroy(o) BY <1>4 DEF Drop, SoleOwner
<1>6. o \in Objects BY <1>1 DEF TensorsBacked, Backed
<1>7. /\ MemoryInv' /\ (DeviceOwned => DeviceOwned') /\ (PagesHeld => PagesHeld')
      /\ \A p \in Objects \ {o} : mem'[p] = mem[p]
      /\ ~mem'[o].is_view
  BY <1>1, <1>5, <1>6, DestroyFacts
<1>8. tensor'[t] = r /\ ~LiveTensor(t)' BY <1>1, <1>2, <1>3 DEF TensorsBacked, LiveTensor
<1>9. Buffer!Release(t) BY <1>2, <1>8 DEF Buffer!Release, Buffer!Loses
<1>10. EngineInv' /\ \A u \in Tensors : BufferStep(u)
  BY <1>2, <1>3, <1>4, <1>6, <1>7, <1>9, OneTensorSteps DEF BufferStep
<1>11. OwnedInv => OwnedInv' BY <1>7 DEF OwnedInv
<1> QED BY <1>7, <1>10, <1>11 DEF EnginePreserved

LEMMA EngineCopy ==
    ASSUME EngineInv, NEW t \in Tensors, Copy(t)
    PROVE  EnginePreserved
<1>1. MemoryInv /\ Data(t) \in Objects /\ tensor[t].byte_size \in Nat /\ 0 \in Nat
  BY DEF EngineInv, TensorsBacked, Backed, Copy, TensorRecord
<1>2. Transfer(Data(t), 0, tensor[t].byte_size) /\ UNCHANGED tensor BY DEF Copy
<1>3. MemoryInv' /\ UNCHANGED <<mem, heap>> BY <1>1, <1>2, TransferFacts
<1>4. EngineInv' /\ \A u \in Tensors : BufferStep(u) BY <1>2, <1>3, EngineKeeps
<1> QED BY <1>3, <1>4 DEF EnginePreserved, OwnedInv, DeviceOwned, PagesHeld, ClientKeeps

LEMMA EngineClient ==
    ASSUME EngineInv, ClientMemory
    PROVE  EnginePreserved
<1>1. PICK o \in Objects : (\A t \in Tensors : Data(t) # o) /\ ObjectCall(o) BY DEF ClientMemory
<1>2. MemoryInv /\ UNCHANGED tensor BY DEF EngineInv, ClientMemory
<1>3. /\ MemoryInv'
      /\ NoViews /\ OwnedInv => OwnedInv'
      /\ NoViews /\ OnePage /\ PagesHeld => PagesHeld'
      /\ \A p \in Objects \ {o} : mem'[p] = mem[p]
  BY <1>1, <1>2, ObjectCallFacts DEF OwnedInv
<1>4. \A t \in Tensors : LiveTensor(t) => mem'[Data(t)] = mem[Data(t)]
  BY <1>1, <1>3 DEF EngineInv, TensorsBacked, Backed
<1>5. EngineInv' /\ \A u \in Tensors : BufferStep(u) BY <1>2, <1>3, <1>4, EngineKeeps
<1> QED BY <1>3, <1>5 DEF EnginePreserved

LEMMA EngineStep == EngineInv /\ [EngineTensorNext \/ ClientMemory]_tensor_vars => EnginePreserved
<1> SUFFICES ASSUME EngineInv, [EngineTensorNext \/ ClientMemory]_tensor_vars PROVE EnginePreserved
  OBVIOUS
<1>1. \A t \in Tensors : tensor[t].capacity_bytes \in Nat BY DEF EngineInv, TensorsBacked, TensorRecord
<1>2. \A s \in Shapes : Bytes[s] \in Nat /\ s # Unsized BY TensorAssumption
<1>3. ASSUME NEW t \in Tensors, NEW s \in Shapes, ConstructSized(t, s) PROVE EnginePreserved
  BY <1>3, EngineResize DEF ConstructSized
<1>4. ASSUME NEW t \in Tensors, NEW s \in Shapes, SetInput(t, s) PROVE EnginePreserved
  <2>1. Constructed(t) BY <1>4 DEF SetInput
  <2>2. CASE CanReshape(t, s) BY <1>4, <2>1, <2>2, EngineReshape DEF SetInput
  <2>3. CASE ~CanReshape(t, s)
    <3>1. tensor[t].typed BY <2>1 DEF EngineInv, TensorsBacked, Backed, BackedBy, Constructed
    <3>2. Bytes[s] > tensor[t].capacity_bytes BY <1>1, <1>2, <2>3, <3>1 DEF CanReshape
    <3>3. Resize(t, s, TRUE) BY <1>4, <2>3 DEF SetInput
    <3> QED BY <3>2, <3>3, EngineResize
  <2> QED BY <2>2, <2>3
<1>5. ASSUME NEW t \in Tensors, NEW s \in Shapes, UpdateOutput(t, s) PROVE EnginePreserved
  <2>1. Constructed(t) /\ Bytes[s] \in Nat BY <1>2, <1>5 DEF UpdateOutput
  <2>2. CASE Bytes[s] > tensor[t].capacity_bytes
    <3>1. ResizeBytes(t, Bytes[s]) BY <1>5, <2>2 DEF UpdateOutput
    <3> QED BY <2>1, <2>2, <3>1, EngineGrows
  <2>3. CASE ~(Bytes[s] > tensor[t].capacity_bytes)
    <3>1. Reshape(t, s) BY <1>5, <2>3 DEF UpdateOutput
    <3> QED BY <2>1, <3>1, EngineReshape
  <2> QED BY <2>2, <2>3
<1>6. CASE UNCHANGED tensor_vars
  <2>1. UNCHANGED <<mem, heap, access, ret, aborted, tensor>> BY <1>6 DEF tensor_vars, memory_vars
  <2>2. MemoryInv /\ ret' \in BOOLEAN /\ aborted' \in BOOLEAN BY <2>1 DEF EngineInv, MemoryInv, MemoryTypeOK
  <2>3. MemoryInv' BY <2>1, <2>2, ObjectsKept
  <2>4. EngineInv' /\ \A u \in Tensors : BufferStep(u) BY <2>1, <2>3, EngineKeeps
  <2> QED BY <2>1, <2>4 DEF EnginePreserved, OwnedInv, DeviceOwned, PagesHeld, ClientKeeps
<1>7. CASE EngineTensorNext BY <1>3, <1>4, <1>5, <1>7, EngineNew, EngineReshape, EngineCopy, EngineDrop DEF EngineTensorNext
<1> QED BY <1>6, <1>7, EngineClient

LEMMA EngineInitInv == TensorInit => EngineInv /\ OwnedInv /\ PagesHeld /\ Buffer!BufferInit
<1> SUFFICES ASSUME TensorInit PROVE EngineInv /\ OwnedInv /\ PagesHeld /\ Buffer!BufferInit OBVIOUS
<1>1. MemoryInv /\ OwnedInv /\ PagesHeld BY MemoryInitFacts DEF TensorInit, OwnedInv
<1>2. \A t \in Tensors : tensor[t] = NoTensor /\ ~LiveTensor(t) BY NoTensorType DEF TensorInit, LiveTensor
<1>3. tensor \in [Tensors -> TensorRecord] BY NoTensorType DEF TensorInit
<1>4. TensorsBacked BY <1>2, <1>3, NoTensorType DEF TensorsBacked, Backed, Apart
<1>5. Buffer!BufferInit BY <1>2, NoTensorType DEF Buffer!BufferInit
<1> QED BY <1>1, <1>4, <1>5 DEF EngineInv

\* Each block is the memory of one object, and an object of one tensor.
LEMMA TensorsSeparate == EngineInv => Buffer!Separate
<1> SUFFICES ASSUME EngineInv, NEW t \in Tensors, NEW u \in Tensors, t # u, LiveTensor(t), LiveTensor(u),
                    mem[Data(t)].ptr # Null
             PROVE  mem[Data(t)].ptr # mem[Data(u)].ptr
  BY DEF Buffer!Separate
<1>1. /\ Data(t) \in Objects /\ Data(u) \in Objects /\ Data(t) # Data(u)
      /\ BackedBy(tensor[t], mem[Data(t)])
  BY DEF EngineInv, TensorsBacked, Backed, Apart
<1> QED BY <1>1 DEF EngineInv, MemoryInv, PtrUnique, BackedBy

-----------------------------------------------------------------------------
(* The theorems of EngineTensorSpec.                                        *)

\* While an engine reshapes, grows, copies and drops its tensors and a client calls what
\* it likes on memory of its own, no transfer touches a block that was freed.
THEOREM EngineTransferTheorem == EngineTensorSpec => []TransferLive
<1>1. EngineInv => TransferLive BY DEF EngineInv, MemoryInv
<1>2. EnginePreserved => EngineInv' BY DEF EnginePreserved
<1> QED BY <1>1, <1>2, EngineInitInv, EngineStep, PTL DEF EngineTensorSpec

\* A copy of a whole tensor is never refused for its size: SetInputData and
\* UpdateOutputShapes (tensorrt_engine.cpp:429, :1002) choose between Reshape and Resize
\* so that the byte_size_ of the memory is that of its capacity.
THEOREM CopyAcceptedTheorem == EngineTensorSpec => []CopyAccepted
<1>1. EngineInv => CopyAccepted
  BY DEF EngineInv, TensorsBacked, Backed, BackedBy, CopyAccepted
<1>2. EnginePreserved => EngineInv' BY DEF EnginePreserved
<1> QED BY <1>1, <1>2, EngineInitInv, EngineStep, PTL DEF EngineTensorSpec

\* The tensors of an engine are buffers of TensorBuffer: their memory moves only when they
\* grow beyond their capacity or go, and no two have the same.
THEOREM TensorsRefine == EngineTensorSpec => TensorsAreBuffers
<1>1. EngineInv /\ EngineInv' /\ [EngineTensorNext \/ ClientMemory]_tensor_vars
        => [Buffer!BufferNext]_(Buffer!buffer_vars)
  <2> SUFFICES ASSUME EngineInv, EngineInv', [EngineTensorNext \/ ClientMemory]_tensor_vars
               PROVE  Buffer!BufferNext
    OBVIOUS
  <2>1. EngineInv' => Buffer!Separate' BY TensorsSeparate, PTL
  <2>2. \A t \in Tensors : BufferStep(t) BY EngineStep DEF EnginePreserved
  <2> QED BY <2>1, <2>2 DEF Buffer!BufferNext, BufferStep
<1>2. EnginePreserved => EngineInv' BY DEF EnginePreserved
<1>3. EngineTensorSpec => []EngineInv BY <1>2, EngineInitInv, EngineStep, PTL DEF EngineTensorSpec
<1> QED BY <1>1, <1>3, EngineInitInv, PTL DEF EngineTensorSpec, TensorsAreBuffers, Buffer!BufferSpec

\* A client that views nothing loses no device memory and shares none with the engine.
THEOREM EngineOwnedTheorem == NoViews /\ EngineTensorSpec => []OneOwner
<1>1. NoViews /\ EngineInv /\ OwnedInv /\ [EngineTensorNext \/ ClientMemory]_tensor_vars
        => (EngineInv /\ OwnedInv)'
  BY EngineStep DEF EnginePreserved
<1>2. EngineInv /\ OwnedInv => OneOwner BY OneOwnerFollows DEF EngineInv, OwnedInv
<1>3. CASE NoViews BY <1>1, <1>2, <1>3, EngineInitInv, PTL DEF EngineTensorSpec
<1>4. CASE ~NoViews BY <1>4
<1> QED BY <1>3, <1>4

\* The page of a client that registers it is never freed, and stays registered no longer
\* than an object holds it, whatever is freed, grown or destroyed meanwhile.
THEOREM ClientKeepsTheorem == NoViews /\ OnePage /\ EngineTensorSpec => []ClientKeeps
<1>1. NoViews /\ OnePage /\ EngineInv /\ PagesHeld /\ [EngineTensorNext \/ ClientMemory]_tensor_vars
        => (EngineInv /\ PagesHeld)'
  BY EngineStep DEF EnginePreserved
<1>2. PagesHeld => ClientKeeps BY DEF PagesHeld
<1>3. CASE NoViews /\ OnePage BY <1>1, <1>2, <1>3, EngineInitInv, PTL DEF EngineTensorSpec
<1>4. CASE ~(NoViews /\ OnePage) BY <1>4
<1> QED BY <1>3, <1>4
=============================================================================
