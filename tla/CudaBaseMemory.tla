--------------------------- MODULE CudaBaseMemory ---------------------------
(***************************************************************************)
(* driver::base_memory::CudaBaseMemory (src/driver/cuda_base_memory.cpp):  *)
(* several objects over one CUDA allocator, and the buffers of the client  *)
(* they may view or register.                                              *)
(*                                                                         *)
(* Abstractions.  device_ and host_ are one pointer, since the type of an  *)
(* object says which of them it uses.  The allocator returns a block that  *)
(* was never used before, so that the use of a freed block can be told.    *)
(* Bytes are not kept, only how far a transfer reaches into a block.       *)
(***************************************************************************)
EXTENDS Naturals, FiniteSets

CONSTANTS
    Objects,      \* CudaBaseMemory objects
    Blocks,       \* what the allocator may return; bounds the allocations
    Extern,       \* buffers of the client
    ExternKind,   \* "device", "pinned" or "pageable"
    ExternSize,
    Types,        \* the CudaMemoryTypes in use, of "DEVICE", "PINNED", "PINNED_WC"
    Sizes,        \* byte sizes and offsets the client asks for
    Faults,       \* "malloc": no memory is left; "mallocAsync": its allocator alone has none
    Null, None

ASSUME MemoryAssumption ==
    /\ Null \notin Blocks \cup Extern
    /\ Blocks \cap Extern = {}
    /\ ExternKind \in [Extern -> {"device", "pinned", "pageable"}]
    /\ ExternSize \in [Extern -> Nat]
    /\ Types \subseteq {"DEVICE", "PINNED", "PINNED_WC"}
    /\ Sizes \subseteq Nat

VARIABLES
    mem,      \* the fields of every object
    heap,     \* the state of every block and buffer
    access,   \* history: the block the latest transfer touched, or None
    ret,      \* result of the latest call
    aborted   \* CUDA_CHECK_NOTNULL has ended the process

memory_vars == <<mem, heap, access, ret, aborted>>

Memory == Blocks \cup Extern
Unused == [state |-> "unused", kind |-> "none", size |-> 0, async |-> FALSE, registered |-> FALSE]
Client(x) == [Unused EXCEPT !.state = "live", !.kind = ExternKind[x], !.size = ExternSize[x]]

Absent == [phase |-> "none", type |-> "DEVICE", ptr |-> Null, byte_size |-> 0, capacity_bytes |-> 0,
           host_registered |-> FALSE, use_async_allocator |-> FALSE, is_view |-> FALSE]

Live(o) == mem[o].phase = "live"
Pinned(o) == mem[o].type \in {"PINNED", "PINNED_WC"}

MemoryInit ==
    /\ mem = [o \in Objects |-> Absent]
    /\ heap = [b \in Memory |-> IF b \in Extern THEN Client(b) ELSE Unused]
    /\ access = None /\ ret = TRUE /\ aborted = FALSE

Returns(result) == ret' = result /\ UNCHANGED <<access, aborted>>
Refuse == Returns(FALSE) /\ UNCHANGED <<mem, heap>>

-----------------------------------------------------------------------------
Construct(o, type) ==
    /\ mem[o].phase = "none"
    /\ mem' = [mem EXCEPT ![o] = [Absent EXCEPT !.phase = "live", !.type = type]]
    /\ Returns(TRUE) /\ UNCHANGED heap

\* The client views memory of the kind the type says.
ViewKind(x, type) ==
    ExternKind[x] = IF type = "DEVICE" THEN "device" ELSE "pinned"

ConstructView(o, x, type) ==
    /\ mem[o].phase = "none" /\ ViewKind(x, type)
    /\ mem' = [mem EXCEPT ![o] = [Absent EXCEPT !.phase = "live", !.type = type, !.ptr = x,
                                     !.byte_size = ExternSize[x], !.capacity_bytes = ExternSize[x],
                                     !.is_view = TRUE]]
    /\ Returns(TRUE) /\ UNCHANGED heap

\* FreeMemory, in two parts: what it does to the memory and to the object.
\* Slip: a registered buffer is freed like an allocated one.
FreedHeapAlways(o) ==
    IF mem[o].ptr = Null THEN heap ELSE [heap EXCEPT ![mem[o].ptr].state = "freed"]
FreedHeap(o) ==
    IF mem[o].ptr = Null THEN heap
    ELSE IF mem[o].host_registered THEN [heap EXCEPT ![mem[o].ptr].registered = FALSE]
    ELSE [heap EXCEPT ![mem[o].ptr].state = "freed"]

\* Slip: FreeMemory keeps the pointer.
EmptiedButPtr(m) == [m EXCEPT !.byte_size = 0, !.capacity_bytes = 0, !.host_registered = FALSE]
Emptied(m) == [m EXCEPT !.ptr = Null, !.byte_size = 0, !.capacity_bytes = 0,
                        !.host_registered = FALSE, !.use_async_allocator = FALSE]

FreeMemory(o) ==
    /\ Live(o)
    /\ heap' = FreedHeap(o)
    /\ mem' = [mem EXCEPT ![o] = Emptied(@)]
    /\ Returns(TRUE)

\* Slip: the test on is_view_ is the wrong way round.
DestroyViewOnly(o) ==
    /\ Live(o)
    /\ heap' = IF mem[o].is_view THEN FreedHeap(o) ELSE heap
    /\ mem' = [mem EXCEPT ![o] = [Absent EXCEPT !.phase = "gone"]]
    /\ Returns(TRUE)

\* ~CudaBaseMemory.
Destroy(o) ==
    /\ Live(o)
    /\ heap' = IF mem[o].is_view THEN heap ELSE FreedHeap(o)
    /\ mem' = [mem EXCEPT ![o] = [Absent EXCEPT !.phase = "gone"]]
    /\ Returns(TRUE)

-----------------------------------------------------------------------------
Reuses(o, n) == n <= mem[o].capacity_bytes /\ mem[o].ptr # Null

\* The allocator's answer to a request of n bytes: a block, asynchronous or not
\* (cudaMalloc is the fallback of cudaMallocAsync; only DEVICE memory has both).
NewBlock(o, n, b, async) ==
    /\ b \in Blocks /\ heap[b] = Unused
    /\ async => mem[o].type = "DEVICE"
    /\ ~async => Pinned(o) \/ "mallocAsync" \in Faults
    /\ heap' = [FreedHeap(o) EXCEPT ![b] =
          [Unused EXCEPT !.state = "live", !.kind = IF Pinned(o) THEN "pinned" ELSE "device",
                         !.size = n, !.async = async]]
    /\ mem' = [mem EXCEPT ![o] = [Emptied(@) EXCEPT !.ptr = b, !.byte_size = n, !.capacity_bytes = n,
                                                    !.use_async_allocator = async]]
    /\ Returns(TRUE)

\* A failed request leaves the size asked for and no memory.
NoBlock(o, n) ==
    /\ "malloc" \in Faults
    /\ heap' = FreedHeap(o)
    /\ mem' = [mem EXCEPT ![o] = [Emptied(@) EXCEPT !.byte_size = n]]
    /\ Returns(FALSE)

AllocateMemory(o, n) ==
    /\ Live(o)
    /\ \/ /\ n = 0 \/ Reuses(o, n)
          /\ mem' = [mem EXCEPT ![o].byte_size = n]
          /\ Returns(TRUE) /\ UNCHANGED heap
       \/ /\ n # 0 /\ ~Reuses(o, n)
          /\ (\E b \in Blocks, async \in BOOLEAN : NewBlock(o, n, b, async)) \/ NoBlock(o, n)

AllocateMemoryAsync(o, n) ==
    \/ mem[o].type = "DEVICE" /\ AllocateMemory(o, n)
    \/ Live(o) /\ mem[o].type # "DEVICE" /\ Refuse

\* cudaHostRegister refuses memory that is pinned or registered already.
RegisterHostMemory(o, x) ==
    /\ Live(o)
    /\ \/ /\ Pinned(o) /\ ExternKind[x] = "pageable" /\ ~heap[x].registered
          /\ heap' = [heap EXCEPT ![x].registered = TRUE]
          /\ mem' = [mem EXCEPT ![o].ptr = x, ![o].byte_size = ExternSize[x], ![o].host_registered = TRUE]
          /\ Returns(TRUE)
       \/ /\ ~Pinned(o) \/ ExternKind[x] # "pageable" \/ heap[x].registered
          /\ Refuse

\* Slip: nothing is compared.
WithinAnything(o, offset, n) == TRUE
Within(o, offset, n) == offset + n <= mem[o].byte_size

\* Memset and the four directions of Memcpy, which make the same tests.
Transfer(o, offset, n) ==
    /\ Live(o)
    /\ \/ n = 0 /\ Returns(TRUE)
       \/ n # 0 /\ ~Within(o, offset, n) /\ Returns(FALSE)
       \/ /\ n # 0 /\ Within(o, offset, n) /\ mem[o].ptr # Null
          /\ access' = [block |-> mem[o].ptr, end |-> offset + n,
                        live |-> heap[mem[o].ptr].state = "live", room |-> heap[mem[o].ptr].size]
          /\ ret' = TRUE /\ UNCHANGED aborted
       \/ /\ n # 0 /\ Within(o, offset, n) /\ mem[o].ptr = Null
          /\ aborted' = TRUE /\ UNCHANGED <<access, ret>>
    /\ UNCHANGED <<mem, heap>>

-----------------------------------------------------------------------------
\* Any call on the object o.
ObjectCall(o) ==
    \/ \E type \in Types : Construct(o, type)
    \/ \E x \in Extern, type \in Types : ConstructView(o, x, type)
    \/ FreeMemory(o)
    \/ Destroy(o)
    \/ \E n \in Sizes : AllocateMemory(o, n) \/ AllocateMemoryAsync(o, n)
    \/ \E x \in Extern : RegisterHostMemory(o, x)
    \/ \E offset, n \in Sizes : Transfer(o, offset, n)

MemoryNext == ~aborted /\ \E o \in Objects : ObjectCall(o)

MemorySpec == MemoryInit /\ [][MemoryNext]_memory_vars

-----------------------------------------------------------------------------
(* Properties.                                                              *)

BlockRecord ==
    [state : {"unused", "live", "freed"}, kind : {"none", "device", "pinned", "pageable"}, size : Nat,
     async : BOOLEAN, registered : BOOLEAN]
ObjectRecord ==
    [phase : {"none", "live", "gone"}, type : {"DEVICE", "PINNED", "PINNED_WC"}, ptr : Memory \cup {Null},
     byte_size : Nat, capacity_bytes : Nat, host_registered : BOOLEAN, use_async_allocator : BOOLEAN,
     is_view : BOOLEAN]

\* Types; only pageable buffers of the client are ever registered, and only pinned
\* objects hold them.
MemoryTypeOK ==
    /\ mem \in [Objects -> ObjectRecord]
    /\ heap \in [Memory -> BlockRecord]
    /\ \A b \in Memory : heap[b].registered => b \in Extern /\ ExternKind[b] = "pageable"
    /\ \A o \in Objects : mem[o].host_registered => Pinned(o) /\ mem[o].ptr \in Extern
    /\ ret \in BOOLEAN /\ aborted \in BOOLEAN

\* No transfer touches a block that has been freed.
TransferLive == access # None /\ access.block \in Blocks => access.live

\* No transfer reaches beyond the block it touches.
TransferInBounds == access # None => access.end <= access.room

\* No block has two owners, and no device memory is lost: a live block is the pointer
\* of one object, which frees it with the allocator it came from.  (A pinned block
\* is lost when its object registers other memory.)
OneOwner ==
    \A b \in Blocks : heap[b].state = "live" =>
        LET owners == {o \in Objects : mem[o].ptr = b}
        IN  /\ Cardinality(owners) <= 1
            /\ heap[b].kind = "device" => Cardinality(owners) = 1
            /\ \A o \in owners : mem[o].use_async_allocator = heap[b].async

\* A registered buffer of the client is never freed, and stays registered no longer
\* than the object that registered it holds it (cuda_base_memory_test.cpp:96).  With
\* more than one buffer that would fail: a second RegisterHostMemory leaves the first.
ClientKeeps ==
    \A x \in Extern :
        /\ heap[x].state = "live"
        /\ heap[x].registered => \E o \in Objects : mem[o].ptr = x /\ mem[o].host_registered

\* cuda_base_memory.h:21 on the view constructor: "Create a memory view that does not
\* own the underlying pointer".
ViewOwnsNothing == \A x \in Extern : heap[x].state = "live"
=============================================================================
