----------------------- MODULE CudaBaseMemory_proofs -----------------------
(***************************************************************************)
(* What every call on a CudaBaseMemory preserves, for any objects, blocks, *)
(* buffers of the client, sizes and faults; the tensors use these lemmas   *)
(* for the calls they make.                                                *)
(***************************************************************************)
EXTENDS CudaBaseMemory, FiniteSetTheorems, TLAPS

\* A block an object points to is alive, of the kind of the object, and from the
\* allocator the object will give it back to.
PtrLive ==
    \A o \in Objects : mem[o].ptr \in Blocks =>
        /\ heap[mem[o].ptr].state = "live"
        /\ heap[mem[o].ptr].kind = IF Pinned(o) THEN "pinned" ELSE "device"
        /\ heap[mem[o].ptr].async = mem[o].use_async_allocator

PtrUnique == \A o, p \in Objects : mem[o].ptr \in Blocks /\ mem[o].ptr = mem[p].ptr => o = p

GoneEmpty == \A o \in Objects : ~Live(o) => mem[o].ptr = Null /\ ~mem[o].is_view

MemoryInv == MemoryTypeOK /\ PtrLive /\ PtrUnique /\ GoneEmpty /\ TransferLive

\* No device memory is lost while views own no block of their own.
DeviceOwned ==
    /\ \A b \in Blocks : heap[b].state = "live" /\ heap[b].kind = "device" => \E o \in Objects : mem[o].ptr = b
    /\ \A o \in Objects : mem[o].is_view => mem[o].ptr \notin Blocks

\* The sizes an object remembers are there.
SizesFit ==
    /\ \A o \in Objects : mem[o].ptr # Null =>
          mem[o].byte_size <= mem[o].capacity_bytes /\ mem[o].capacity_bytes <= heap[mem[o].ptr].size
    /\ \A x \in Extern : heap[x].size = ExternSize[x]
    /\ TransferInBounds

\* Without views the client's buffers are only ever registered.
PagesHeld ==
    /\ \A o \in Objects : ~mem[o].is_view /\ (mem[o].ptr \in Extern => mem[o].host_registered)
    /\ ClientKeeps

-----------------------------------------------------------------------------
(* Types of the pieces.                                                     *)

LEMMA NullApart == Null \notin Blocks /\ Null \notin Extern /\ Null \notin Memory /\ Blocks \cap Extern = {}
  BY MemoryAssumption DEF Memory

LEMMA RecordTypes ==
    /\ Absent \in ObjectRecord /\ Absent.phase = "none" /\ Absent.ptr = Null /\ ~Absent.is_view
    /\ Absent.host_registered = FALSE /\ Absent.type = "DEVICE"
    /\ Unused \in BlockRecord /\ Unused.state = "unused" /\ Unused.registered = FALSE
  BY DEF Absent, ObjectRecord, Unused, BlockRecord

LEMMA ClientType ==
    ASSUME NEW x \in Extern
    PROVE  /\ Client(x) \in BlockRecord /\ Client(x).state = "live" /\ Client(x).registered = FALSE
           /\ Client(x).size = ExternSize[x]
<1>1. ExternKind[x] \in {"device", "pinned", "pageable"} /\ ExternSize[x] \in Nat
  BY MemoryAssumption
<1>2. Client(x) \in BlockRecord BY <1>1, RecordTypes DEF Client, BlockRecord
<1> QED BY <1>2, RecordTypes DEF Client, Unused

\* What FreeMemory does to the heap.
LEMMA FreedHeapFacts ==
    ASSUME MemoryInv, NEW o \in Objects
    PROVE  /\ FreedHeap(o) \in [Memory -> BlockRecord]
           /\ \A b \in Memory : b # mem[o].ptr => FreedHeap(o)[b] = heap[b]
           /\ \A b \in Memory : /\ FreedHeap(o)[b].kind = heap[b].kind /\ FreedHeap(o)[b].async = heap[b].async
                                /\ FreedHeap(o)[b].size = heap[b].size
                                /\ FreedHeap(o)[b].registered => heap[b].registered
           /\ mem[o].ptr \in Blocks => FreedHeap(o)[mem[o].ptr].state = "freed"
           /\ mem[o].host_registered =>
                 /\ \A b \in Memory : FreedHeap(o)[b].state = heap[b].state
                 /\ FreedHeap(o)[mem[o].ptr].registered = FALSE
<1> DEFINE p == mem[o].ptr
<1>1. /\ heap \in [Memory -> BlockRecord] /\ p \in Memory \cup {Null}
      /\ mem[o].host_registered => p \in Extern
  BY DEF MemoryInv, MemoryTypeOK, ObjectRecord
<1>2. CASE p = Null
  <2>1. FreedHeap(o) = heap BY <1>2 DEF FreedHeap
  <2> QED BY <1>1, <1>2, <2>1, NullApart
<1>3. CASE p # Null /\ mem[o].host_registered
  <2>1. FreedHeap(o) = [heap EXCEPT ![p].registered = FALSE] /\ p \in Memory /\ p \notin Blocks
    BY <1>1, <1>3, NullApart DEF FreedHeap, Memory
  <2> HIDE DEF p
  <2>2. heap[p] \in BlockRecord /\ FreedHeap(o)[p] = [heap[p] EXCEPT !.registered = FALSE]
    BY <1>1, <2>1
  <2>3. /\ FreedHeap(o)[p] \in BlockRecord /\ FreedHeap(o)[p].registered = FALSE
        /\ FreedHeap(o)[p].kind = heap[p].kind /\ FreedHeap(o)[p].async = heap[p].async
        /\ FreedHeap(o)[p].size = heap[p].size /\ FreedHeap(o)[p].state = heap[p].state
    BY <2>2 DEF BlockRecord
  <2>4. \A b \in Memory : b # p => FreedHeap(o)[b] = heap[b] BY <1>1, <2>1
  <2>5. FreedHeap(o) \in [Memory -> BlockRecord] BY <1>1, <2>1, <2>3, <2>4
  <2> QED BY <1>1, <2>1, <2>3, <2>4, <2>5 DEF p
<1>4. CASE p # Null /\ ~mem[o].host_registered
  <2>1. FreedHeap(o) = [heap EXCEPT ![p].state = "freed"] /\ p \in Memory
    BY <1>1, <1>4 DEF FreedHeap
  <2> HIDE DEF p
  <2>2. heap[p] \in BlockRecord /\ FreedHeap(o)[p] = [heap[p] EXCEPT !.state = "freed"]
    BY <1>1, <2>1
  <2>3. /\ FreedHeap(o)[p] \in BlockRecord /\ FreedHeap(o)[p].registered = heap[p].registered
        /\ FreedHeap(o)[p].kind = heap[p].kind /\ FreedHeap(o)[p].async = heap[p].async
        /\ FreedHeap(o)[p].size = heap[p].size /\ FreedHeap(o)[p].state = "freed"
    BY <2>2 DEF BlockRecord
  <2>4. \A b \in Memory : b # p => FreedHeap(o)[b] = heap[b] BY <1>1, <2>1
  <2>5. FreedHeap(o) \in [Memory -> BlockRecord] BY <1>1, <2>1, <2>3, <2>4
  <2> QED BY <1>1, <1>4, <2>1, <2>3, <2>4, <2>5 DEF p
<1> QED BY <1>2, <1>3, <1>4

\* The object of a call is the only one that changes.
LEMMA ObjectAssigned ==
    ASSUME MemoryInv, NEW o \in Objects, NEW m \in ObjectRecord, mem' = [mem EXCEPT ![o] = m]
    PROVE  /\ mem' \in [Objects -> ObjectRecord] /\ mem'[o] = m
           /\ \A p \in Objects \ {o} : mem'[p] = mem[p]
  BY DEF MemoryInv, MemoryTypeOK

LEMMA EmptiedFacts ==
    ASSUME NEW m \in ObjectRecord
    PROVE  /\ Emptied(m) \in ObjectRecord
           /\ Emptied(m).ptr = Null /\ Emptied(m).byte_size = 0 /\ Emptied(m).capacity_bytes = 0
           /\ ~Emptied(m).host_registered /\ Emptied(m).phase = m.phase /\ Emptied(m).type = m.type
           /\ Emptied(m).is_view = m.is_view
  BY DEF Emptied, ObjectRecord

-----------------------------------------------------------------------------
(* The steps of the calls.                                                  *)

\* o loses its memory: it is freed, or was that of a view.
LEMMA ObjectEmptied ==
    ASSUME MemoryInv, NEW o \in Objects, NEW m \in ObjectRecord, mem' = [mem EXCEPT ![o] = m],
           m.ptr = Null, ~m.host_registered, m.phase # "live" => ~m.is_view,
           heap' = FreedHeap(o) \/ (mem[o].is_view /\ heap' = heap),
           ret' \in BOOLEAN, UNCHANGED <<access, aborted>>
    PROVE  /\ MemoryInv'
           /\ DeviceOwned => DeviceOwned'
           /\ SizesFit => SizesFit'
           /\ PagesHeld /\ ~m.is_view => PagesHeld'
<1>1. /\ mem' \in [Objects -> ObjectRecord] /\ mem'[o] = m
      /\ \A p \in Objects \ {o} : mem'[p] = mem[p]
  BY ObjectAssigned
<1>2. MemoryTypeOK /\ PtrLive /\ PtrUnique /\ GoneEmpty /\ TransferLive BY DEF MemoryInv
<1>3. /\ heap' \in [Memory -> BlockRecord]
      /\ \A b \in Memory : b # mem[o].ptr => heap'[b] = heap[b]
      /\ \A b \in Memory : /\ heap'[b].kind = heap[b].kind /\ heap'[b].async = heap[b].async
                           /\ heap'[b].size = heap[b].size
                           /\ heap'[b].registered => heap[b].registered
  <2>1. CASE heap' = FreedHeap(o) BY <2>1, FreedHeapFacts
  <2>2. CASE heap' = heap BY <1>2, <2>2 DEF MemoryTypeOK
  <2> QED BY <2>1, <2>2
<1>4. \A p \in Objects \ {o} : mem[p].ptr \in Blocks => mem[p].ptr # mem[o].ptr /\ mem[p].ptr \in Memory
  BY <1>2 DEF PtrUnique, Memory
<1>5. MemoryTypeOK'
  <2>1. \A b \in Memory : heap'[b].registered => b \in Extern /\ ExternKind[b] = "pageable"
    BY <1>2, <1>3 DEF MemoryTypeOK
  <2>2. \A p \in Objects : mem'[p].host_registered => Pinned(p)' /\ mem'[p].ptr \in Extern
    BY <1>1, <1>2 DEF MemoryTypeOK, Pinned
  <2>3. aborted' \in BOOLEAN BY <1>2 DEF MemoryTypeOK
  <2> QED BY <1>1, <1>3, <2>1, <2>2, <2>3 DEF MemoryTypeOK
<1>6. PtrLive'
  <2> SUFFICES ASSUME NEW p \in Objects, mem'[p].ptr \in Blocks
               PROVE  /\ heap'[mem'[p].ptr].state = "live"
                      /\ heap'[mem'[p].ptr].kind = IF Pinned(p)' THEN "pinned" ELSE "device"
                      /\ heap'[mem'[p].ptr].async = mem'[p].use_async_allocator
    BY DEF PtrLive
  <2>1. p # o /\ mem'[p] = mem[p] BY <1>1, NullApart
  <2>2. heap'[mem[p].ptr] = heap[mem[p].ptr] BY <1>3, <1>4, <2>1
  <2> QED BY <1>2, <2>1, <2>2 DEF PtrLive, Pinned
<1>7. PtrUnique'
  <2> SUFFICES ASSUME NEW p \in Objects, NEW q \in Objects, mem'[p].ptr \in Blocks, mem'[p].ptr = mem'[q].ptr
               PROVE  p = q
    BY DEF PtrUnique
  <2>1. p # o /\ q # o BY <1>1, NullApart
  <2> QED BY <1>1, <1>2, <2>1 DEF PtrUnique
<1>8. GoneEmpty' BY <1>1, <1>2 DEF GoneEmpty, Live
<1>9. TransferLive' BY <1>2 DEF TransferLive
<1>10. MemoryInv' BY <1>5, <1>6, <1>7, <1>8, <1>9 DEF MemoryInv
<1>11. ASSUME DeviceOwned PROVE DeviceOwned'
  <2>1. ASSUME NEW b \in Blocks, heap'[b].state = "live", heap'[b].kind = "device"
        PROVE  \E p \in Objects : mem'[p].ptr = b
    <3>1. b \in Memory BY DEF Memory
    <3>2. b # mem[o].ptr
      <4>1. CASE heap' = FreedHeap(o) BY <2>1, <4>1, FreedHeapFacts
      <4>2. CASE mem[o].is_view BY <1>11, <4>2 DEF DeviceOwned
      <4> QED BY <4>1, <4>2
    <3>3. heap'[b] = heap[b] BY <1>3, <3>1, <3>2
    <3>4. PICK p \in Objects : mem[p].ptr = b BY <1>11, <2>1, <3>3 DEF DeviceOwned
    <3>5. p # o BY <3>2, <3>4
    <3> QED BY <1>1, <3>4, <3>5
  <2>2. \A p \in Objects : mem'[p].is_view => mem'[p].ptr \notin Blocks
    BY <1>1, <1>11, NullApart DEF DeviceOwned
  <2> QED BY <2>1, <2>2 DEF DeviceOwned
<1>12. ASSUME SizesFit PROVE SizesFit'
  <2>1. ASSUME NEW p \in Objects, mem'[p].ptr # Null
        PROVE  mem'[p].byte_size <= mem'[p].capacity_bytes /\ mem'[p].capacity_bytes <= heap'[mem'[p].ptr].size
    <3>1. p # o /\ mem'[p] = mem[p] BY <1>1, <2>1
    <3>2. mem[p].ptr \in Memory BY <1>2, <2>1, <3>1 DEF MemoryTypeOK, ObjectRecord
    <3> QED BY <1>3, <1>12, <2>1, <3>1, <3>2 DEF SizesFit
  <2>2. \A x \in Extern : heap'[x].size = ExternSize[x] BY <1>3, <1>12 DEF SizesFit, Memory
  <2> QED BY <1>12, <2>1, <2>2 DEF SizesFit, TransferInBounds
<1>13. ASSUME PagesHeld, ~m.is_view PROVE PagesHeld'
  <2>1. \A p \in Objects : ~mem'[p].is_view /\ (mem'[p].ptr \in Extern => mem'[p].host_registered)
    BY <1>1, <1>13, NullApart DEF PagesHeld
  <2>2. heap' = FreedHeap(o) BY <1>13 DEF PagesHeld
  <2>3. ASSUME NEW x \in Extern
        PROVE  heap'[x].state = "live" /\ (heap'[x].registered => \E p \in Objects : mem'[p].ptr = x /\ mem'[p].host_registered)
    <3>1. x \in Memory /\ heap[x].state = "live" BY <1>13 DEF PagesHeld, ClientKeeps, Memory
    <3>2. CASE x = mem[o].ptr
      <4>1. mem[o].host_registered BY <1>13, <3>2 DEF PagesHeld
      <4> QED BY <2>2, <3>1, <3>2, <4>1, FreedHeapFacts
    <3>3. CASE x # mem[o].ptr
      <4>1. heap'[x] = heap[x] BY <1>3, <3>1, <3>3
      <4>2. heap[x].registered => \E p \in Objects : mem[p].ptr = x /\ mem[p].host_registered
        BY <1>13 DEF PagesHeld, ClientKeeps
      <4> QED BY <1>1, <3>1, <3>3, <4>1, <4>2
    <3> QED BY <3>2, <3>3
  <2> QED BY <2>1, <2>3 DEF PagesHeld, ClientKeeps
<1> QED BY <1>10, <1>11, <1>12, <1>13

\* o gets a block that was never used.
LEMMA ObjectAllocated ==
    ASSUME MemoryInv, NEW o \in Objects, NEW n \in Nat, NEW b, NEW async \in BOOLEAN,
           Live(o), NewBlock(o, n, b, async)
    PROVE  /\ MemoryInv'
           /\ DeviceOwned /\ ~mem[o].is_view => DeviceOwned'
           /\ SizesFit => SizesFit'
           /\ PagesHeld => PagesHeld'
           /\ b \in Blocks /\ mem'[o].ptr = b /\ mem'[o].byte_size = n /\ mem'[o].capacity_bytes = n
           /\ \A p \in Objects : mem[p].ptr # b
<1> DEFINE m == [Emptied(mem[o]) EXCEPT !.ptr = b, !.byte_size = n, !.capacity_bytes = n,
                                        !.use_async_allocator = async]
           k == IF Pinned(o) THEN "pinned" ELSE "device"
           nb == [Unused EXCEPT !.state = "live", !.kind = k, !.size = n, !.async = async]
<1>1. MemoryTypeOK /\ PtrLive /\ PtrUnique /\ GoneEmpty /\ TransferLive BY DEF MemoryInv
<1>2. b \in Blocks /\ b \in Memory /\ b \notin Extern /\ b # Null /\ heap[b] = Unused
  BY NullApart DEF NewBlock, Memory
<1>3. mem' = [mem EXCEPT ![o] = m] /\ heap' = [FreedHeap(o) EXCEPT ![b] = nb] /\ ret' = TRUE
      /\ UNCHANGED <<access, aborted>>
  BY DEF NewBlock, Returns
<1>4. mem[o] \in ObjectRecord BY <1>1 DEF MemoryTypeOK
<1>5. /\ m \in ObjectRecord /\ m.ptr = b /\ m.byte_size = n /\ m.capacity_bytes = n
      /\ m.use_async_allocator = async /\ ~m.host_registered /\ m.phase = mem[o].phase
      /\ m.type = mem[o].type /\ m.is_view = mem[o].is_view
  <2>1. Emptied(mem[o]) \in ObjectRecord BY <1>4, EmptiedFacts
  <2>2. m \in ObjectRecord BY <1>2, <2>1 DEF ObjectRecord, Memory
  <2>3. m.ptr = b /\ m.byte_size = n /\ m.capacity_bytes = n /\ m.use_async_allocator = async
    BY <2>1 DEF ObjectRecord
  <2>4. /\ m.host_registered = Emptied(mem[o]).host_registered /\ m.phase = Emptied(mem[o]).phase
        /\ m.type = Emptied(mem[o]).type /\ m.is_view = Emptied(mem[o]).is_view
    BY <2>1 DEF ObjectRecord
  <2> QED BY <1>4, <2>2, <2>3, <2>4, EmptiedFacts
<1>6. /\ nb \in BlockRecord /\ nb.state = "live" /\ nb.kind = k /\ nb.size = n /\ nb.async = async
      /\ nb.registered = FALSE
  <2>1. nb \in BlockRecord BY RecordTypes DEF BlockRecord
  <2> QED BY <2>1, RecordTypes DEF BlockRecord, Unused
<1> HIDE DEF m, nb, k
<1>7. /\ mem' \in [Objects -> ObjectRecord] /\ mem'[o] = m
      /\ \A p \in Objects \ {o} : mem'[p] = mem[p]
  BY <1>3, <1>5, ObjectAssigned
<1>8. /\ heap' \in [Memory -> BlockRecord] /\ heap'[b] = nb
      /\ \A c \in Memory \ {b} : heap'[c] = FreedHeap(o)[c]
  BY <1>2, <1>3, <1>6, FreedHeapFacts
<1>9. \A p \in Objects : mem[p].ptr # b
  <2> SUFFICES ASSUME NEW p \in Objects, mem[p].ptr = b PROVE FALSE OBVIOUS
  <2>1. heap[b].state = "live" BY <1>1, <1>2 DEF PtrLive
  <2> QED BY <1>2, <2>1, RecordTypes
<1>10. \A p \in Objects \ {o} : mem[p].ptr \in Blocks => mem[p].ptr \in Memory /\ heap'[mem[p].ptr] = heap[mem[p].ptr]
  <2> SUFFICES ASSUME NEW p \in Objects \ {o}, mem[p].ptr \in Blocks
               PROVE  mem[p].ptr \in Memory /\ heap'[mem[p].ptr] = heap[mem[p].ptr]
    OBVIOUS
  <2>1. mem[p].ptr \in Memory /\ mem[p].ptr # b /\ mem[p].ptr # mem[o].ptr
    BY <1>1, <1>9 DEF PtrUnique, Memory
  <2> QED BY <1>8, <2>1, FreedHeapFacts
<1>11. MemoryTypeOK'
  <2>1. \A c \in Memory : heap'[c].registered => c \in Extern /\ ExternKind[c] = "pageable"
    BY <1>1, <1>6, <1>8, FreedHeapFacts DEF MemoryTypeOK
  <2>2. \A p \in Objects : mem'[p].host_registered => Pinned(p)' /\ mem'[p].ptr \in Extern
    BY <1>1, <1>5, <1>7 DEF MemoryTypeOK, Pinned
  <2>3. ret' \in BOOLEAN /\ aborted' \in BOOLEAN BY <1>1, <1>3 DEF MemoryTypeOK
  <2> QED BY <1>7, <1>8, <2>1, <2>2, <2>3 DEF MemoryTypeOK
<1>12. PtrLive'
  <2> SUFFICES ASSUME NEW p \in Objects, mem'[p].ptr \in Blocks
               PROVE  /\ heap'[mem'[p].ptr].state = "live"
                      /\ heap'[mem'[p].ptr].kind = IF Pinned(p)' THEN "pinned" ELSE "device"
                      /\ heap'[mem'[p].ptr].async = mem'[p].use_async_allocator
    BY DEF PtrLive
  <2>1. CASE p = o
    <3>1. Pinned(o)' <=> Pinned(o) BY <1>5, <1>7 DEF Pinned
    <3> QED BY <1>5, <1>6, <1>7, <1>8, <2>1, <3>1 DEF k
  <2>2. CASE p # o BY <1>1, <1>7, <1>10, <2>2 DEF PtrLive, Pinned
  <2> QED BY <2>1, <2>2
<1>13. PtrUnique' BY <1>1, <1>5, <1>7, <1>9 DEF PtrUnique
<1>14. GoneEmpty' BY <1>1, <1>5, <1>7 DEF GoneEmpty, Live
<1>15. TransferLive' BY <1>1, <1>3 DEF TransferLive
<1>16. MemoryInv' BY <1>11, <1>12, <1>13, <1>14, <1>15 DEF MemoryInv
<1>17. ASSUME DeviceOwned, ~mem[o].is_view PROVE DeviceOwned'
  <2>1. ASSUME NEW c \in Blocks, heap'[c].state = "live", heap'[c].kind = "device"
        PROVE  \E p \in Objects : mem'[p].ptr = c
    <3>1. CASE c = b BY <1>5, <1>7, <3>1
    <3>2. CASE c # b
      <4>1. c \in Memory /\ heap'[c] = FreedHeap(o)[c] BY <1>8, <3>2 DEF Memory
      <4>2. c # mem[o].ptr BY <2>1, <4>1, FreedHeapFacts
      <4>3. heap'[c] = heap[c] BY <4>1, <4>2, FreedHeapFacts
      <4>4. PICK p \in Objects : mem[p].ptr = c BY <1>17, <2>1, <4>3 DEF DeviceOwned
      <4> QED BY <1>7, <4>2, <4>4
    <3> QED BY <3>1, <3>2
  <2>2. \A p \in Objects : mem'[p].is_view => mem'[p].ptr \notin Blocks
    BY <1>5, <1>7, <1>17 DEF DeviceOwned
  <2> QED BY <2>1, <2>2 DEF DeviceOwned
<1>18. ASSUME SizesFit PROVE SizesFit'
  <2>1. ASSUME NEW p \in Objects, mem'[p].ptr # Null
        PROVE  mem'[p].byte_size <= mem'[p].capacity_bytes /\ mem'[p].capacity_bytes <= heap'[mem'[p].ptr].size
    <3>1. CASE p = o BY <1>5, <1>6, <1>7, <1>8, <3>1
    <3>2. CASE p # o
      <4>1. mem'[p] = mem[p] BY <1>7, <3>2
      <4>2. mem[p].ptr \in Memory /\ mem[p].ptr # b
        BY <1>1, <1>9, <2>1, <4>1 DEF MemoryTypeOK, ObjectRecord
      <4>3. heap'[mem[p].ptr] = FreedHeap(o)[mem[p].ptr] BY <1>8, <4>2
      <4>4. FreedHeap(o)[mem[p].ptr].size = heap[mem[p].ptr].size BY <4>2, FreedHeapFacts
      <4> QED BY <1>18, <2>1, <4>1, <4>3, <4>4 DEF SizesFit
    <3> QED BY <3>1, <3>2
  <2>2. ASSUME NEW x \in Extern PROVE heap'[x].size = ExternSize[x]
    <3>1. x \in Memory /\ heap'[x] = FreedHeap(o)[x] BY <1>2, <1>8 DEF Memory
    <3>2. FreedHeap(o)[x].size = heap[x].size BY <3>1, FreedHeapFacts
    <3> QED BY <1>18, <3>1, <3>2 DEF SizesFit
  <2> QED BY <1>3, <1>18, <2>1, <2>2 DEF SizesFit, TransferInBounds
<1>19. ASSUME PagesHeld PROVE PagesHeld'
  <2>1. \A p \in Objects : ~mem'[p].is_view /\ (mem'[p].ptr \in Extern => mem'[p].host_registered)
    BY <1>2, <1>5, <1>7, <1>19 DEF PagesHeld
  <2>2. ASSUME NEW x \in Extern
        PROVE  heap'[x].state = "live" /\ (heap'[x].registered => \E p \in Objects : mem'[p].ptr = x /\ mem'[p].host_registered)
    <3>1. x \in Memory /\ x # b /\ heap[x].state = "live" BY <1>2, <1>19 DEF PagesHeld, ClientKeeps, Memory
    <3>2. heap'[x] = FreedHeap(o)[x] BY <1>8, <3>1
    <3>3. CASE x = mem[o].ptr
      <4>1. mem[o].host_registered BY <1>19, <3>3 DEF PagesHeld
      <4>2. FreedHeap(o)[x].state = heap[x].state BY <3>1, <4>1, FreedHeapFacts
      <4>3. FreedHeap(o)[x].registered = FALSE BY <3>3, <4>1, FreedHeapFacts
      <4> QED BY <3>1, <3>2, <4>2, <4>3
    <3>4. CASE x # mem[o].ptr
      <4>1. heap'[x] = heap[x] BY <3>1, <3>2, <3>4, FreedHeapFacts
      <4>2. heap[x].registered => \E p \in Objects : mem[p].ptr = x /\ mem[p].host_registered
        BY <1>19 DEF PagesHeld, ClientKeeps
      <4> QED BY <1>7, <3>1, <3>4, <4>1, <4>2
    <3> QED BY <3>3, <3>4
  <2> QED BY <2>1, <2>2 DEF PagesHeld, ClientKeeps
<1> QED BY <1>2, <1>5, <1>7, <1>9, <1>16, <1>17, <1>18, <1>19

\* o keeps its memory and forgets or takes no more of it than it may.
LEMMA ObjectResized ==
    ASSUME MemoryInv, NEW o \in Objects, NEW n \in Nat, Live(o),
           n <= mem[o].capacity_bytes \/ n = 0,
           mem' = [mem EXCEPT ![o].byte_size = n], UNCHANGED <<heap, access, aborted>>, ret' \in BOOLEAN
    PROVE  /\ MemoryInv'
           /\ DeviceOwned => DeviceOwned'
           /\ SizesFit => SizesFit'
           /\ PagesHeld => PagesHeld'
<1> DEFINE m == [mem[o] EXCEPT !.byte_size = n]
<1>1. MemoryTypeOK /\ PtrLive /\ PtrUnique /\ GoneEmpty /\ TransferLive BY DEF MemoryInv
<1>2. mem[o] \in ObjectRecord BY <1>1 DEF MemoryTypeOK
<1>3. /\ m \in ObjectRecord /\ m.byte_size = n /\ m.ptr = mem[o].ptr /\ m.capacity_bytes = mem[o].capacity_bytes
      /\ m.use_async_allocator = mem[o].use_async_allocator /\ m.host_registered = mem[o].host_registered
      /\ m.phase = mem[o].phase /\ m.type = mem[o].type /\ m.is_view = mem[o].is_view
  BY <1>2 DEF ObjectRecord
<1>4. mem' = [mem EXCEPT ![o] = m] OBVIOUS
<1> HIDE DEF m
<1>5. /\ mem' \in [Objects -> ObjectRecord] /\ mem'[o] = m
      /\ \A p \in Objects \ {o} : mem'[p] = mem[p]
  BY <1>3, <1>4, ObjectAssigned
<1>6. \A p \in Objects : /\ mem'[p].ptr = mem[p].ptr /\ mem'[p].capacity_bytes = mem[p].capacity_bytes
                         /\ mem'[p].use_async_allocator = mem[p].use_async_allocator
                         /\ mem'[p].host_registered = mem[p].host_registered /\ mem'[p].phase = mem[p].phase
                         /\ mem'[p].type = mem[p].type /\ mem'[p].is_view = mem[p].is_view
  BY <1>3, <1>5
<1>7. MemoryTypeOK' BY <1>1, <1>5, <1>6 DEF MemoryTypeOK, Pinned
<1>8. PtrLive' BY <1>1, <1>6 DEF PtrLive, Pinned
<1>9. PtrUnique' BY <1>1, <1>6 DEF PtrUnique
<1>10. GoneEmpty' BY <1>1, <1>6 DEF GoneEmpty, Live
<1>11. TransferLive' BY <1>1 DEF TransferLive
<1>12. DeviceOwned => DeviceOwned' BY <1>6 DEF DeviceOwned
<1>13. ASSUME SizesFit PROVE SizesFit'
  <2>1. n <= mem[o].capacity_bytes BY <1>2 DEF ObjectRecord
  <2>2. \A p \in Objects : mem'[p].ptr # Null => mem'[p].byte_size <= mem'[p].capacity_bytes
    BY <1>3, <1>5, <1>13, <2>1 DEF SizesFit
  <2> QED BY <1>6, <1>13, <2>2 DEF SizesFit, TransferInBounds
<1>14. PagesHeld => PagesHeld' BY <1>6 DEF PagesHeld, ClientKeeps
<1> QED BY <1>7, <1>8, <1>9, <1>10, <1>11, <1>12, <1>13, <1>14 DEF MemoryInv

\* o becomes a view of the buffer x.
LEMMA ObjectViews ==
    ASSUME MemoryInv, NEW o \in Objects, NEW x \in Extern, NEW type \in {"DEVICE", "PINNED", "PINNED_WC"},
           ConstructView(o, x, type)
    PROVE  /\ MemoryInv'
           /\ DeviceOwned => DeviceOwned'
           /\ SizesFit => SizesFit'
           /\ mem'[o].phase = "live" /\ mem'[o].is_view /\ mem'[o].ptr = x
           /\ mem'[o].capacity_bytes = ExternSize[x] /\ mem'[o].byte_size = ExternSize[x]
           /\ \A p \in Objects \ {o} : mem'[p] = mem[p]
<1> DEFINE m == [Absent EXCEPT !.phase = "live", !.type = type, !.ptr = x, !.byte_size = ExternSize[x],
                               !.capacity_bytes = ExternSize[x], !.is_view = TRUE]
<1>1. MemoryTypeOK /\ PtrLive /\ PtrUnique /\ GoneEmpty /\ TransferLive BY DEF MemoryInv
<1>2. ExternSize[x] \in Nat /\ x \in Memory /\ x \notin Blocks BY MemoryAssumption DEF Memory
<1>3. m \in ObjectRecord BY <1>2, RecordTypes DEF ObjectRecord
<1>4. /\ m.phase = "live" /\ m.type = type /\ m.ptr = x /\ m.byte_size = ExternSize[x]
      /\ m.capacity_bytes = ExternSize[x] /\ m.is_view = TRUE /\ m.host_registered = FALSE
  BY DEF Absent
<1>5. mem' = [mem EXCEPT ![o] = m] /\ mem[o].phase = "none" /\ ret' = TRUE /\ UNCHANGED <<heap, access, aborted>>
  BY DEF ConstructView, Returns
<1> HIDE DEF m
<1>6. /\ mem' \in [Objects -> ObjectRecord] /\ mem'[o] = m
      /\ \A p \in Objects \ {o} : mem'[p] = mem[p]
  BY <1>3, <1>5, ObjectAssigned
<1>7. mem[o].ptr = Null BY <1>1, <1>5 DEF GoneEmpty, Live
<1>8. MemoryTypeOK'
  <2>1. \A p \in Objects : mem'[p].host_registered => Pinned(p)' /\ mem'[p].ptr \in Extern
    BY <1>1, <1>4, <1>6 DEF MemoryTypeOK, Pinned
  <2>2. ret' \in BOOLEAN /\ aborted' \in BOOLEAN BY <1>1, <1>5 DEF MemoryTypeOK
  <2>3. heap' = heap BY <1>5
  <2> QED BY <1>1, <1>6, <2>1, <2>2, <2>3 DEF MemoryTypeOK
<1>9. PtrLive' BY <1>1, <1>2, <1>4, <1>5, <1>6 DEF PtrLive, Pinned
<1>10. PtrUnique' BY <1>1, <1>2, <1>4, <1>6 DEF PtrUnique
<1>11. GoneEmpty' BY <1>1, <1>4, <1>6 DEF GoneEmpty, Live
<1>12. TransferLive' BY <1>1, <1>5 DEF TransferLive
<1>13. ASSUME DeviceOwned PROVE DeviceOwned'
  <2>1. ASSUME NEW b \in Blocks, heap'[b].state = "live", heap'[b].kind = "device"
        PROVE  \E p \in Objects : mem'[p].ptr = b
    <3>1. PICK p \in Objects : mem[p].ptr = b BY <1>5, <1>13, <2>1 DEF DeviceOwned
    <3> QED BY <1>6, <1>7, <3>1, NullApart
  <2>2. \A p \in Objects : mem'[p].is_view => mem'[p].ptr \notin Blocks
    BY <1>2, <1>4, <1>6, <1>13 DEF DeviceOwned
  <2> QED BY <2>1, <2>2 DEF DeviceOwned
<1>14. ASSUME SizesFit PROVE SizesFit'
  <2>1. \A p \in Objects : mem'[p].ptr # Null =>
            mem'[p].byte_size <= mem'[p].capacity_bytes /\ mem'[p].capacity_bytes <= heap'[mem'[p].ptr].size
    BY <1>2, <1>4, <1>5, <1>6, <1>14 DEF SizesFit
  <2> QED BY <1>5, <1>14, <2>1 DEF SizesFit, TransferInBounds
<1> QED BY <1>4, <1>6, <1>8, <1>9, <1>10, <1>11, <1>12, <1>13, <1>14 DEF MemoryInv

\* A call that only answers.
LEMMA ObjectsKept ==
    ASSUME MemoryInv, UNCHANGED <<mem, heap, access>>, ret' \in BOOLEAN, aborted' \in BOOLEAN
    PROVE  /\ MemoryInv'
           /\ DeviceOwned => DeviceOwned'
           /\ SizesFit => SizesFit'
           /\ PagesHeld => PagesHeld'
<1>1. MemoryTypeOK' BY DEF MemoryInv, MemoryTypeOK, Pinned
<1>2. PtrLive' /\ PtrUnique' /\ GoneEmpty' /\ TransferLive'
  BY DEF MemoryInv, PtrLive, PtrUnique, GoneEmpty, TransferLive, Live, Pinned
<1> QED BY <1>1, <1>2 DEF MemoryInv, DeviceOwned, SizesFit, TransferInBounds, PagesHeld, ClientKeeps

LEMMA TransferFacts ==
    ASSUME MemoryInv, NEW o \in Objects, NEW offset \in Nat, NEW n \in Nat, Transfer(o, offset, n)
    PROVE  /\ MemoryInv'
           /\ DeviceOwned => DeviceOwned'
           /\ SizesFit => SizesFit'
           /\ PagesHeld => PagesHeld'
           /\ UNCHANGED <<mem, heap>>
<1>1. UNCHANGED <<mem, heap>> BY DEF Transfer
<1>2. ret \in BOOLEAN /\ aborted \in BOOLEAN BY DEF MemoryInv, MemoryTypeOK
<1>3. CASE UNCHANGED access
  <2>1. ret' \in BOOLEAN /\ aborted' \in BOOLEAN BY <1>2 DEF Transfer, Returns
  <2> QED BY <1>1, <1>3, <2>1, ObjectsKept
<1>4. CASE ~UNCHANGED access
  <2>1. /\ Within(o, offset, n) /\ mem[o].ptr # Null /\ ret' = TRUE /\ UNCHANGED aborted
        /\ access' = [block |-> mem[o].ptr, end |-> offset + n,
                      live |-> heap[mem[o].ptr].state = "live", room |-> heap[mem[o].ptr].size]
    BY <1>4 DEF Transfer, Returns
  <2>2. MemoryTypeOK' BY <1>1, <1>2, <2>1 DEF MemoryInv, MemoryTypeOK, Pinned
  <2>3. PtrLive' /\ PtrUnique' /\ GoneEmpty'
    BY <1>1 DEF MemoryInv, PtrLive, PtrUnique, GoneEmpty, Live, Pinned
  <2>4. TransferLive' BY <2>1 DEF MemoryInv, PtrLive, TransferLive
  <2>5. ASSUME SizesFit PROVE SizesFit'
    <3>1. mem[o] \in ObjectRecord /\ mem[o].ptr \in Memory /\ heap[mem[o].ptr] \in BlockRecord
      BY <2>1 DEF MemoryInv, MemoryTypeOK, ObjectRecord
    <3>2. mem[o].byte_size <= mem[o].capacity_bytes /\ mem[o].capacity_bytes <= heap[mem[o].ptr].size
      BY <2>1, <2>5 DEF SizesFit
    <3>3. mem[o].byte_size \in Nat /\ mem[o].capacity_bytes \in Nat /\ heap[mem[o].ptr].size \in Nat
      BY <3>1 DEF ObjectRecord, BlockRecord
    <3>4. offset + n <= heap[mem[o].ptr].size BY <2>1, <3>2, <3>3 DEF Within
    <3> QED BY <1>1, <2>1, <2>5, <3>4 DEF SizesFit, TransferInBounds
  <2> QED BY <1>1, <2>2, <2>3, <2>4, <2>5 DEF MemoryInv, DeviceOwned, PagesHeld, ClientKeeps
<1> QED BY <1>3, <1>4

\* o takes a page of the client: the only page there is, or it might hold another one
\* that nobody would ever unregister.
LEMMA ObjectRegisters ==
    ASSUME MemoryInv, NEW o \in Objects, NEW x \in Extern, RegisterHostMemory(o, x)
    PROVE  /\ MemoryInv'
           /\ DeviceOwned => DeviceOwned'
           /\ PagesHeld /\ (\A y \in Extern : y = x) => PagesHeld'
           /\ \A p \in Objects \ {o} : mem'[p] = mem[p]
<1>1. CASE Refuse
  <2>1. UNCHANGED <<mem, heap, access, aborted>> /\ ret' = FALSE BY <1>1 DEF Refuse, Returns
  <2>2. aborted \in BOOLEAN BY DEF MemoryInv, MemoryTypeOK
  <2> QED BY <2>1, <2>2, ObjectsKept
<1>2. CASE ~Refuse
  <2> DEFINE m == [mem[o] EXCEPT !.ptr = x, !.byte_size = ExternSize[x], !.host_registered = TRUE]
  <2>1. MemoryTypeOK /\ PtrLive /\ PtrUnique /\ GoneEmpty /\ TransferLive BY DEF MemoryInv
  <2>2. ExternSize[x] \in Nat /\ x \in Memory /\ x \notin Blocks BY MemoryAssumption DEF Memory
  <2>3. mem[o] \in ObjectRecord BY <2>1 DEF MemoryTypeOK
  <2>4. /\ Live(o) /\ Pinned(o) /\ ExternKind[x] = "pageable"
        /\ heap' = [heap EXCEPT ![x].registered = TRUE]
        /\ ret' = TRUE /\ UNCHANGED <<access, aborted>>
    BY <1>2 DEF RegisterHostMemory, Returns
  <2>5. mem' = [mem EXCEPT ![o].ptr = x, ![o].byte_size = ExternSize[x], ![o].host_registered = TRUE]
    BY <1>2 DEF RegisterHostMemory
  <2>6. /\ mem' \in [Objects -> ObjectRecord]
        /\ \A p \in Objects \ {o} : mem'[p] = mem[p]
        /\ mem'[o].ptr = x /\ mem'[o].host_registered = TRUE
        /\ mem'[o].phase = mem[o].phase /\ mem'[o].type = mem[o].type /\ mem'[o].is_view = mem[o].is_view
    <3>1. m \in ObjectRecord BY <2>2, <2>3 DEF ObjectRecord
    <3>2. /\ m.ptr = x /\ m.host_registered = TRUE /\ m.phase = mem[o].phase /\ m.type = mem[o].type
          /\ m.is_view = mem[o].is_view
      BY <2>3 DEF ObjectRecord
    <3>3. mem \in [Objects -> ObjectRecord] BY <2>1 DEF MemoryTypeOK
    <3>4. mem'[o] = m BY <2>5, <3>3
    <3>5. \A p \in Objects \ {o} : mem'[p] = mem[p] BY <2>5, <3>3
    <3>6. DOMAIN mem' = Objects /\ mem' = [p \in Objects |-> mem'[p]] BY <2>5, <3>3
    <3> HIDE DEF m
    <3>7. mem' \in [Objects -> ObjectRecord] BY <3>1, <3>3, <3>4, <3>5, <3>6
    <3> QED BY <3>2, <3>4, <3>5, <3>7
  <2>7. /\ heap' \in [Memory -> BlockRecord]
        /\ \A b \in Memory \ {x} : heap'[b] = heap[b]
        /\ heap'[x].state = heap[x].state
    <3>1. heap \in [Memory -> BlockRecord] BY <2>1 DEF MemoryTypeOK
    <3>2. heap[x] \in BlockRecord /\ heap'[x] = [heap[x] EXCEPT !.registered = TRUE] BY <2>2, <2>4, <3>1
    <3>3. heap'[x] \in BlockRecord /\ heap'[x].state = heap[x].state BY <3>2 DEF BlockRecord
    <3> QED BY <2>2, <2>4, <3>1, <3>3
  <2>8. MemoryTypeOK'
    <3>1. \A b \in Memory : heap'[b].registered => b \in Extern /\ ExternKind[b] = "pageable"
      BY <2>1, <2>4, <2>7 DEF MemoryTypeOK
    <3>2. \A p \in Objects : mem'[p].host_registered => Pinned(p)' /\ mem'[p].ptr \in Extern
      BY <2>1, <2>4, <2>6 DEF MemoryTypeOK, Pinned
    <3>3. ret' \in BOOLEAN /\ aborted' \in BOOLEAN BY <2>1, <2>4 DEF MemoryTypeOK
    <3> QED BY <2>6, <2>7, <3>1, <3>2, <3>3 DEF MemoryTypeOK
  <2>9. PtrLive'
    <3> SUFFICES ASSUME NEW p \in Objects, mem'[p].ptr \in Blocks
                 PROVE  /\ heap'[mem'[p].ptr].state = "live"
                        /\ heap'[mem'[p].ptr].kind = IF Pinned(p)' THEN "pinned" ELSE "device"
                        /\ heap'[mem'[p].ptr].async = mem'[p].use_async_allocator
      BY DEF PtrLive
    <3>1. p # o /\ mem'[p] = mem[p] BY <2>2, <2>6
    <3>2. heap'[mem[p].ptr] = heap[mem[p].ptr] BY <2>2, <2>7, <3>1 DEF Memory
    <3> QED BY <2>1, <3>1, <3>2 DEF PtrLive, Pinned
  <2>10. PtrUnique' BY <2>1, <2>2, <2>6 DEF PtrUnique
  <2>11. GoneEmpty' BY <2>1, <2>4, <2>6 DEF GoneEmpty, Live
  <2>12. TransferLive' BY <2>1, <2>4 DEF TransferLive
  <2>13. ASSUME DeviceOwned PROVE DeviceOwned'
    <3>1. ASSUME NEW b \in Blocks, heap'[b].state = "live", heap'[b].kind = "device"
          PROVE  \E p \in Objects : mem'[p].ptr = b
      <4>1. heap'[b] = heap[b] BY <2>2, <2>7 DEF Memory
      <4>2. PICK p \in Objects : mem[p].ptr = b BY <2>13, <3>1, <4>1 DEF DeviceOwned
      <4>3. p # o BY <2>1, <2>4, <3>1, <4>1, <4>2 DEF PtrLive
      <4> QED BY <2>6, <4>2, <4>3
    <3>2. \A p \in Objects : mem'[p].is_view => mem'[p].ptr \notin Blocks
      BY <2>2, <2>6, <2>13 DEF DeviceOwned
    <3> QED BY <3>1, <3>2 DEF DeviceOwned
  <2>14. ASSUME PagesHeld, \A y \in Extern : y = x PROVE PagesHeld'
    <3>1. \A p \in Objects : ~mem'[p].is_view /\ (mem'[p].ptr \in Extern => mem'[p].host_registered)
      BY <2>6, <2>14 DEF PagesHeld
    <3>2. heap'[x].state = "live" BY <2>7, <2>14 DEF PagesHeld, ClientKeeps
    <3> QED BY <2>6, <2>14, <3>1, <3>2 DEF PagesHeld, ClientKeeps
  <2> QED BY <2>6, <2>8, <2>9, <2>10, <2>11, <2>12, <2>13, <2>14 DEF MemoryInv
<1> QED BY <1>1, <1>2
-----------------------------------------------------------------------------
(* Whole calls.                                                             *)

\* The pointer and the capacity of o stay, are new, or are lost.
Stays(o) == mem'[o].ptr = mem[o].ptr /\ mem'[o].capacity_bytes = mem[o].capacity_bytes /\ ret' = TRUE
Fetches(o, n) ==
    /\ mem'[o].ptr \in Blocks /\ mem'[o].capacity_bytes = n /\ ret' = TRUE
    /\ \A p \in Objects : mem[p].ptr # mem'[o].ptr
Loses(o) == "malloc" \in Faults /\ mem'[o].ptr = Null /\ mem'[o].capacity_bytes = 0 /\ ret' = FALSE

LEMMA AllocateFacts ==
    ASSUME MemoryInv, NEW o \in Objects, NEW n \in Nat, AllocateMemory(o, n)
    PROVE  /\ MemoryInv'
           /\ DeviceOwned /\ (mem[o].is_view => Reuses(o, n) \/ n = 0) => DeviceOwned'
           /\ SizesFit => SizesFit'
           /\ PagesHeld => PagesHeld'
           /\ \A p \in Objects \ {o} : mem'[p] = mem[p]
           /\ mem'[o].phase = mem[o].phase /\ mem'[o].is_view = mem[o].is_view /\ mem'[o].byte_size = n
           /\ \/ (n = 0 \/ Reuses(o, n)) /\ Stays(o)
              \/ n # 0 /\ ~Reuses(o, n) /\ (Fetches(o, n) \/ Loses(o))
<1>1. mem \in [Objects -> ObjectRecord] /\ mem[o] \in ObjectRecord /\ aborted \in BOOLEAN /\ Live(o)
  BY DEF MemoryInv, MemoryTypeOK, AllocateMemory
<1>2. CASE n = 0 \/ Reuses(o, n)
  <2>1. mem' = [mem EXCEPT ![o].byte_size = n] /\ UNCHANGED <<heap, access, aborted>> /\ ret' = TRUE
    BY <1>2 DEF AllocateMemory, Returns
  <2>2. n <= mem[o].capacity_bytes \/ n = 0 BY <1>2 DEF Reuses
  <2>3. /\ MemoryInv'
        /\ DeviceOwned => DeviceOwned'
        /\ SizesFit => SizesFit'
        /\ PagesHeld => PagesHeld'
    BY <1>1, <2>1, <2>2, ObjectResized
  <2>4. \A p \in Objects \ {o} : mem'[p] = mem[p] BY <1>1, <2>1
  <2>5. mem'[o] = [mem[o] EXCEPT !.byte_size = n] BY <1>1, <2>1
  <2>6. /\ mem'[o].phase = mem[o].phase /\ mem'[o].is_view = mem[o].is_view /\ mem'[o].byte_size = n
        /\ mem'[o].ptr = mem[o].ptr /\ mem'[o].capacity_bytes = mem[o].capacity_bytes
    BY <1>1, <2>5 DEF ObjectRecord
  <2> QED BY <1>2, <2>1, <2>3, <2>4, <2>6 DEF Stays
<1>3. ASSUME n # 0, ~Reuses(o, n), NEW b \in Blocks, NEW async \in BOOLEAN, NewBlock(o, n, b, async)
      PROVE  /\ MemoryInv'
             /\ DeviceOwned /\ ~mem[o].is_view => DeviceOwned'
             /\ SizesFit => SizesFit'
             /\ PagesHeld => PagesHeld'
             /\ \A p \in Objects \ {o} : mem'[p] = mem[p]
             /\ mem'[o].phase = mem[o].phase /\ mem'[o].is_view = mem[o].is_view /\ mem'[o].byte_size = n
             /\ Fetches(o, n)
  <2>1. /\ MemoryInv'
        /\ DeviceOwned /\ ~mem[o].is_view => DeviceOwned'
        /\ SizesFit => SizesFit'
        /\ PagesHeld => PagesHeld'
        /\ b \in Blocks /\ mem'[o].ptr = b /\ mem'[o].byte_size = n /\ mem'[o].capacity_bytes = n
        /\ \A p \in Objects : mem[p].ptr # b
    BY <1>1, <1>3, ObjectAllocated
  <2> DEFINE m == [Emptied(mem[o]) EXCEPT !.ptr = b, !.byte_size = n, !.capacity_bytes = n,
                                          !.use_async_allocator = async]
  <2>2. mem' = [mem EXCEPT ![o] = m] /\ ret' = TRUE BY <1>3 DEF NewBlock, Returns
  <2>3. Emptied(mem[o]) \in ObjectRecord BY <1>1, EmptiedFacts
  <2>4. m.phase = Emptied(mem[o]).phase /\ m.is_view = Emptied(mem[o]).is_view BY <2>3 DEF ObjectRecord
  <2>5. m.phase = mem[o].phase /\ m.is_view = mem[o].is_view BY <1>1, <2>4, EmptiedFacts
  <2> HIDE DEF m
  <2>6. mem'[o] = m /\ \A p \in Objects \ {o} : mem'[p] = mem[p] BY <1>1, <2>2
  <2> QED BY <2>1, <2>2, <2>5, <2>6 DEF Fetches
<1>4. CASE NoBlock(o, n)
  <2> DEFINE m == [Emptied(mem[o]) EXCEPT !.byte_size = n]
  <2>1. mem' = [mem EXCEPT ![o] = m] /\ heap' = FreedHeap(o) /\ ret' = FALSE /\ UNCHANGED <<access, aborted>>
        /\ "malloc" \in Faults
    BY <1>4 DEF NoBlock, Returns
  <2>2. Emptied(mem[o]) \in ObjectRecord BY <1>1, EmptiedFacts
  <2>3. /\ m \in ObjectRecord /\ m.byte_size = n
        /\ m.phase = Emptied(mem[o]).phase /\ m.is_view = Emptied(mem[o]).is_view
        /\ m.ptr = Emptied(mem[o]).ptr /\ m.capacity_bytes = Emptied(mem[o]).capacity_bytes
        /\ m.host_registered = Emptied(mem[o]).host_registered
    BY <2>2 DEF ObjectRecord
  <2>4. /\ m.phase = mem[o].phase /\ m.is_view = mem[o].is_view /\ m.ptr = Null /\ m.capacity_bytes = 0
        /\ ~m.host_registered
    BY <1>1, <2>3, EmptiedFacts
  <2>5. m.phase = "live" BY <1>1, <2>4 DEF Live
  <2> HIDE DEF m
  <2>6. /\ MemoryInv'
        /\ DeviceOwned => DeviceOwned'
        /\ SizesFit => SizesFit'
        /\ PagesHeld /\ ~m.is_view => PagesHeld'
    BY <2>1, <2>3, <2>4, <2>5, ObjectEmptied
  <2>7. PagesHeld => ~m.is_view BY <2>4 DEF PagesHeld
  <2>8. mem'[o] = m /\ \A p \in Objects \ {o} : mem'[p] = mem[p] BY <1>1, <2>1
  <2>9. n = 0 \/ Reuses(o, n) \/ (n # 0 /\ ~Reuses(o, n)) OBVIOUS
  <2> QED BY <1>2, <2>1, <2>3, <2>4, <2>6, <2>7, <2>8, <2>9 DEF Loses
<1>5. \/ n = 0 \/ Reuses(o, n)
      \/ /\ n # 0 /\ ~Reuses(o, n)
         /\ (\E b \in Blocks, async \in BOOLEAN : NewBlock(o, n, b, async)) \/ NoBlock(o, n)
  BY DEF AllocateMemory
<1> QED BY <1>2, <1>3, <1>4, <1>5

LEMMA ConstructFacts ==
    ASSUME MemoryInv, NEW o \in Objects, NEW type \in {"DEVICE", "PINNED", "PINNED_WC"}, Construct(o, type)
    PROVE  /\ MemoryInv'
           /\ DeviceOwned => DeviceOwned'
           /\ SizesFit => SizesFit'
           /\ PagesHeld => PagesHeld'
           /\ \A p \in Objects \ {o} : mem'[p] = mem[p]
           /\ mem'[o].phase = "live" /\ mem'[o].ptr = Null /\ ~mem'[o].is_view
           /\ mem'[o].byte_size = 0 /\ mem'[o].capacity_bytes = 0
<1> DEFINE m == [Absent EXCEPT !.phase = "live", !.type = type]
<1>1. mem \in [Objects -> ObjectRecord] BY DEF MemoryInv, MemoryTypeOK
<1>2. m \in ObjectRecord BY RecordTypes DEF ObjectRecord
<1>3. /\ m.phase = "live" /\ m.ptr = Null /\ ~m.is_view /\ ~m.host_registered
      /\ m.byte_size = 0 /\ m.capacity_bytes = 0
  BY DEF Absent
<1>4. mem' = [mem EXCEPT ![o] = m] /\ ret' = TRUE /\ UNCHANGED <<heap, access, aborted>> /\ ~Live(o)
  BY DEF Construct, Returns, Live
<1> HIDE DEF m
<1>5. heap' = FreedHeap(o) BY <1>4 DEF MemoryInv, GoneEmpty, FreedHeap
<1>6. /\ MemoryInv'
      /\ DeviceOwned => DeviceOwned'
      /\ SizesFit => SizesFit'
      /\ PagesHeld /\ ~m.is_view => PagesHeld'
  BY <1>2, <1>3, <1>4, <1>5, ObjectEmptied
<1>7. mem'[o] = m /\ \A p \in Objects \ {o} : mem'[p] = mem[p] BY <1>1, <1>4
<1> QED BY <1>3, <1>6, <1>7

LEMMA DestroyFacts ==
    ASSUME MemoryInv, NEW o \in Objects, Destroy(o)
    PROVE  /\ MemoryInv'
           /\ DeviceOwned => DeviceOwned'
           /\ SizesFit => SizesFit'
           /\ PagesHeld => PagesHeld'
           /\ \A p \in Objects \ {o} : mem'[p] = mem[p]
           /\ mem'[o].phase = "gone" /\ mem'[o].ptr = Null /\ ~mem'[o].is_view /\ mem'[o].capacity_bytes = 0
<1> DEFINE m == [Absent EXCEPT !.phase = "gone"]
<1>1. mem \in [Objects -> ObjectRecord] BY DEF MemoryInv, MemoryTypeOK
<1>2. m \in ObjectRecord BY RecordTypes DEF ObjectRecord
<1>3. m.phase = "gone" /\ m.ptr = Null /\ ~m.is_view /\ ~m.host_registered /\ m.capacity_bytes = 0
  BY DEF Absent
<1>4. /\ mem' = [mem EXCEPT ![o] = m] /\ ret' = TRUE /\ UNCHANGED <<access, aborted>>
      /\ heap' = FreedHeap(o) \/ (mem[o].is_view /\ heap' = heap)
  BY DEF Destroy, Returns
<1> HIDE DEF m
<1>5. /\ MemoryInv'
      /\ DeviceOwned => DeviceOwned'
      /\ SizesFit => SizesFit'
      /\ PagesHeld /\ ~m.is_view => PagesHeld'
  BY <1>2, <1>3, <1>4, ObjectEmptied
<1>6. mem'[o] = m /\ \A p \in Objects \ {o} : mem'[p] = mem[p] BY <1>1, <1>4
<1> QED BY <1>3, <1>5, <1>6

LEMMA FreeFacts ==
    ASSUME MemoryInv, NEW o \in Objects, FreeMemory(o)
    PROVE  /\ MemoryInv'
           /\ DeviceOwned => DeviceOwned'
           /\ SizesFit => SizesFit'
           /\ PagesHeld => PagesHeld'
           /\ \A p \in Objects \ {o} : mem'[p] = mem[p]
<1> DEFINE m == Emptied(mem[o])
<1>1. mem \in [Objects -> ObjectRecord] /\ mem[o] \in ObjectRecord BY DEF MemoryInv, MemoryTypeOK
<1>2. /\ m \in ObjectRecord /\ m.phase = mem[o].phase /\ m.is_view = mem[o].is_view /\ m.ptr = Null
      /\ ~m.host_registered
  BY <1>1, EmptiedFacts
<1>3. mem' = [mem EXCEPT ![o] = m] /\ heap' = FreedHeap(o) /\ ret' = TRUE /\ UNCHANGED <<access, aborted>>
  BY DEF FreeMemory, Returns
<1>4. m.phase = "live" BY <1>2 DEF FreeMemory, Live
<1> HIDE DEF m
<1>5. /\ MemoryInv'
      /\ DeviceOwned => DeviceOwned'
      /\ SizesFit => SizesFit'
      /\ PagesHeld /\ ~m.is_view => PagesHeld'
  BY <1>2, <1>3, <1>4, ObjectEmptied
<1>6. \A p \in Objects \ {o} : mem'[p] = mem[p] BY <1>1, <1>3
<1>7. PagesHeld => ~m.is_view BY <1>2 DEF PagesHeld
<1> QED BY <1>5, <1>6, <1>7

-----------------------------------------------------------------------------
(* The client's own calls, and what the invariants say.                     *)

\* The client has pageable buffers only, which no object may view.
NoViews == \A x \in Extern : ExternKind[x] = "pageable"

\* The client has one page to register (or its objects register one page only).
OnePage == \A x, y \in Extern : x = y

LEMMA ObjectCallFacts ==
    ASSUME MemoryInv, NEW o \in Objects, ObjectCall(o)
    PROVE  /\ MemoryInv'
           /\ NoViews /\ DeviceOwned /\ (\A p \in Objects : ~mem[p].is_view) =>
                 DeviceOwned' /\ \A p \in Objects : ~mem'[p].is_view
           /\ NoViews /\ OnePage /\ PagesHeld => PagesHeld'
           /\ \A p \in Objects \ {o} : mem'[p] = mem[p]
<1>1. mem \in [Objects -> ObjectRecord] /\ mem[o] \in ObjectRecord /\ aborted \in BOOLEAN
  BY DEF MemoryInv, MemoryTypeOK
<1>2. Types \subseteq {"DEVICE", "PINNED", "PINNED_WC"} /\ Sizes \subseteq Nat BY MemoryAssumption
<1> DEFINE NotViews == \A p \in Objects : ~mem[p].is_view
           NotViewsThen == \A p \in Objects : ~mem'[p].is_view
           Kept == \A p \in Objects \ {o} : mem'[p] = mem[p]
           Facts == /\ MemoryInv'
                    /\ NoViews /\ DeviceOwned /\ NotViews => DeviceOwned' /\ NotViewsThen
                    /\ NoViews /\ OnePage /\ PagesHeld => PagesHeld'
                    /\ Kept
<1>3. ASSUME NEW type \in Types, Construct(o, type) PROVE Facts BY <1>2, <1>3, ConstructFacts
<1>4. ASSUME NEW x \in Extern, NEW type \in Types, ConstructView(o, x, type) PROVE Facts
  <2>1. ~NoViews BY <1>4 DEF NoViews, ConstructView, ViewKind
  <2>2. MemoryInv' /\ Kept BY <1>2, <1>4, ObjectViews
  <2> QED BY <2>1, <2>2
<1>5. ASSUME FreeMemory(o) PROVE Facts
  <2>1. MemoryInv' /\ (DeviceOwned => DeviceOwned') /\ (PagesHeld => PagesHeld') /\ Kept BY <1>5, FreeFacts
  <2>2. mem'[o].is_view = mem[o].is_view BY <1>1, <1>5, EmptiedFacts DEF FreeMemory
  <2> QED BY <2>1, <2>2
<1>6. ASSUME Destroy(o) PROVE Facts
  <2>1. MemoryInv' /\ (DeviceOwned => DeviceOwned') /\ (PagesHeld => PagesHeld') /\ Kept BY <1>6, DestroyFacts
  <2>2. ~mem'[o].is_view BY <1>1, <1>6 DEF Destroy, Absent
  <2> QED BY <2>1, <2>2
<1>7. ASSUME NEW n \in Sizes, AllocateMemory(o, n) PROVE Facts
  <2>1. /\ MemoryInv' /\ (DeviceOwned /\ ~mem[o].is_view => DeviceOwned') /\ (PagesHeld => PagesHeld') /\ Kept
        /\ mem'[o].is_view = mem[o].is_view
    BY <1>2, <1>7, AllocateFacts
  <2> QED BY <2>1
<1>8. ASSUME Refuse PROVE Facts
  <2>1. UNCHANGED <<mem, heap, access, aborted>> /\ ret' = FALSE BY <1>8 DEF Refuse, Returns
  <2> QED BY <1>1, <2>1, ObjectsKept
<1>9. ASSUME NEW n \in Sizes, AllocateMemoryAsync(o, n) PROVE Facts
  BY <1>7, <1>8, <1>9 DEF AllocateMemoryAsync
<1>10. ASSUME NEW x \in Extern, RegisterHostMemory(o, x) PROVE Facts
  <2>1. /\ MemoryInv' /\ (DeviceOwned => DeviceOwned') /\ Kept
        /\ PagesHeld /\ (\A y \in Extern : y = x) => PagesHeld'
    BY <1>10, ObjectRegisters
  <2>2. OnePage => \A y \in Extern : y = x BY DEF OnePage
  <2>3. mem'[o].is_view = mem[o].is_view
    <3>1. CASE mem' = mem BY <3>1
    <3>2. CASE mem' = [mem EXCEPT ![o].ptr = x, ![o].byte_size = ExternSize[x], ![o].host_registered = TRUE]
      <4>1. mem'[o] = [mem[o] EXCEPT !.ptr = x, !.byte_size = ExternSize[x], !.host_registered = TRUE]
        BY <1>1, <3>2
      <4> QED BY <1>1, <4>1 DEF ObjectRecord
    <3> QED BY <1>10, <3>1, <3>2 DEF RegisterHostMemory, Refuse
  <2> QED BY <2>1, <2>2, <2>3
<1>11. ASSUME NEW offset \in Sizes, NEW n \in Sizes, Transfer(o, offset, n) PROVE Facts
  BY <1>2, <1>11, TransferFacts
<1> HIDE DEF Facts
<1>12. Facts BY <1>3, <1>4, <1>5, <1>6, <1>7, <1>9, <1>10, <1>11 DEF ObjectCall
<1> QED BY <1>12 DEF Facts

LEMMA MemoryInitFacts ==
    ASSUME MemoryInit
    PROVE  MemoryInv /\ DeviceOwned /\ SizesFit /\ (\A o \in Objects : ~mem[o].is_view) /\ PagesHeld
<1>1. \A o \in Objects : mem[o] = Absent BY DEF MemoryInit
<1>2. mem \in [Objects -> ObjectRecord] BY RecordTypes DEF MemoryInit
<1>3. \A b \in Memory : heap[b] = IF b \in Extern THEN Client(b) ELSE Unused BY DEF MemoryInit
<1>4. \A b \in Memory : heap[b] \in BlockRecord BY <1>3, ClientType, RecordTypes
<1>5. heap \in [Memory -> BlockRecord] BY <1>4 DEF MemoryInit
<1>6. \A x \in Extern : x \in Memory /\ heap[x] = Client(x) BY <1>3 DEF Memory
<1>7. \A b \in Blocks : b \in Memory /\ heap[b] = Unused BY <1>3, NullApart DEF Memory
<1>8. \A b \in Memory : heap[b].registered = FALSE BY <1>3, ClientType, RecordTypes
<1>9. MemoryTypeOK BY <1>1, <1>2, <1>5, <1>8, RecordTypes DEF MemoryTypeOK, MemoryInit
<1>10. PtrLive /\ PtrUnique /\ GoneEmpty BY <1>1, RecordTypes, NullApart DEF PtrLive, PtrUnique, GoneEmpty, Live
<1>11. TransferLive /\ TransferInBounds BY DEF TransferLive, TransferInBounds, MemoryInit
<1>12. DeviceOwned BY <1>1, <1>7, RecordTypes DEF DeviceOwned
<1>13. SizesFit BY <1>1, <1>6, <1>11, ClientType, RecordTypes DEF SizesFit
<1>14. PagesHeld BY <1>1, <1>6, ClientType, RecordTypes, NullApart DEF PagesHeld, ClientKeeps
<1> QED BY <1>1, <1>9, <1>10, <1>11, <1>12, <1>13, <1>14, RecordTypes DEF MemoryInv

LEMMA OneOwnerFollows == MemoryInv /\ DeviceOwned => OneOwner
<1> SUFFICES ASSUME MemoryInv, DeviceOwned, NEW b \in Blocks, heap[b].state = "live"
             PROVE  LET owners == {o \in Objects : mem[o].ptr = b}
                    IN  /\ Cardinality(owners) <= 1
                        /\ heap[b].kind = "device" => Cardinality(owners) = 1
                        /\ \A o \in owners : mem[o].use_async_allocator = heap[b].async
  BY DEF OneOwner
<1> DEFINE owners == {o \in Objects : mem[o].ptr = b}
<1>1. \A o \in owners : mem[o].use_async_allocator = heap[b].async BY DEF MemoryInv, PtrLive
<1>2. CASE owners = {}
  <2>1. Cardinality(owners) = 0 BY <1>2, FS_EmptySet
  <2>2. heap[b].kind # "device" BY <1>2 DEF DeviceOwned
  <2> QED BY <1>1, <2>1, <2>2
<1>3. ASSUME NEW o \in owners PROVE owners = {o} BY <1>3 DEF MemoryInv, PtrUnique
<1>4. CASE owners # {}
  <2>1. PICK o \in owners : TRUE BY <1>4
  <2>2. Cardinality(owners) = 1 BY <1>3, <2>1, FS_Singleton
  <2> QED BY <1>1, <2>2
<1> QED BY <1>2, <1>4

-----------------------------------------------------------------------------
(* Theorems.                                                                *)

LEMMA MemoryStep ==
    MemoryInv /\ [MemoryNext]_memory_vars =>
        /\ MemoryInv'
        /\ NoViews /\ DeviceOwned /\ (\A p \in Objects : ~mem[p].is_view) =>
              DeviceOwned' /\ \A p \in Objects : ~mem'[p].is_view
        /\ NoViews /\ OnePage /\ PagesHeld => PagesHeld'
<1> SUFFICES ASSUME MemoryInv, [MemoryNext]_memory_vars
             PROVE  /\ MemoryInv'
                    /\ NoViews /\ DeviceOwned /\ (\A p \in Objects : ~mem[p].is_view) =>
                          DeviceOwned' /\ \A p \in Objects : ~mem'[p].is_view
                    /\ NoViews /\ OnePage /\ PagesHeld => PagesHeld'
  OBVIOUS
<1>1. ASSUME NEW o \in Objects, ObjectCall(o)
      PROVE  /\ MemoryInv'
             /\ NoViews /\ DeviceOwned /\ (\A p \in Objects : ~mem[p].is_view) =>
                   DeviceOwned' /\ \A p \in Objects : ~mem'[p].is_view
             /\ NoViews /\ OnePage /\ PagesHeld => PagesHeld'
  BY <1>1, ObjectCallFacts
<1>2. CASE UNCHANGED memory_vars
  <2>1. UNCHANGED <<mem, heap, access, ret, aborted>> BY <1>2 DEF memory_vars
  <2>2. ret' \in BOOLEAN /\ aborted' \in BOOLEAN BY <2>1 DEF MemoryInv, MemoryTypeOK
  <2> QED BY <2>1, <2>2, ObjectsKept
<1> QED BY <1>1, <1>2 DEF MemoryNext

\* Whatever calls a client makes on its CudaBaseMemory objects, one that frees, views,
\* grows or registers included, no transfer touches a block that was freed
\* (cuda_base_memory.cpp:85).
THEOREM MemoryTheorem == MemorySpec => [](MemoryTypeOK /\ TransferLive)
<1>1. MemoryInit => MemoryInv BY MemoryInitFacts
<1>2. MemoryInv /\ [MemoryNext]_memory_vars => MemoryInv' BY MemoryStep
<1>3. MemoryInv => MemoryTypeOK /\ TransferLive BY DEF MemoryInv
<1> QED BY <1>1, <1>2, <1>3, PTL DEF MemorySpec

\* Without views every block has at most one owner and every block of device memory
\* exactly one, who frees it with the allocator it came from.
THEOREM MemoryOwnedTheorem == NoViews /\ MemorySpec => []OneOwner
<1> DEFINE Inv == MemoryInv /\ DeviceOwned /\ \A p \in Objects : ~mem[p].is_view
<1>1. MemoryInit => Inv BY MemoryInitFacts
<1>2. NoViews /\ Inv /\ [MemoryNext]_memory_vars => Inv' BY MemoryStep
<1>3. Inv => OneOwner BY OneOwnerFollows
<1> HIDE DEF Inv
<1>4. CASE NoViews BY <1>1, <1>2, <1>3, <1>4, PTL DEF MemorySpec
<1>5. CASE ~NoViews BY <1>5
<1> QED BY <1>4, <1>5
=============================================================================
