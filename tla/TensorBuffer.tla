---------------------------- MODULE TensorBuffer ----------------------------
(***************************************************************************)
(* What the tensors of an engine promise to whoever holds their addresses: *)
(* the memory of a tensor moves only when it has to grow beyond its        *)
(* capacity, or is released; until then every size up to the capacity is   *)
(* served in place.  No two tensors have the same memory.                  *)
(***************************************************************************)
EXTENDS Naturals

CONSTANTS Buffers, Null

VARIABLES byte_size, capacity, memory   \* of every buffer

buffer_vars == <<byte_size, capacity, memory>>

Separate == \A t, u \in Buffers : t # u /\ memory[t] # Null => memory[t] # memory[u]

BufferInit ==
    /\ byte_size \in [Buffers -> Nat]
    /\ capacity = [t \in Buffers |-> 0]
    /\ memory = [t \in Buffers |-> Null]

Keeps(t) == capacity'[t] = capacity[t] /\ memory'[t] = memory[t]
Loses(t) == capacity'[t] = 0 /\ memory'[t] = Null

Idles(t) == byte_size'[t] = byte_size[t] /\ Keeps(t)

InPlace(t) == byte_size'[t] <= capacity[t] /\ Keeps(t)

\* More room than there is: new memory of just that size, or a failure that loses
\* the old memory.
Grow(t) ==
    /\ byte_size'[t] > capacity[t]
    /\ \/ capacity'[t] = byte_size'[t] /\ memory'[t] \notin {Null, memory[t]}
       \/ Loses(t)

Release(t) == byte_size'[t] = 0 /\ Loses(t)

\* One call may touch several buffers.
BufferNext ==
    /\ Separate'
    /\ \A t \in Buffers : Idles(t) \/ InPlace(t) \/ Grow(t) \/ Release(t)

BufferSpec == BufferInit /\ [][BufferNext]_buffer_vars
=============================================================================
