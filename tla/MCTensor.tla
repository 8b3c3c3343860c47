------------------------------ MODULE MCTensor ------------------------------
(***************************************************************************)
(* Three tensors over one memory object and two blocks; shapes of 1 and    *)
(* 2 bytes, and a device buffer of the client of 2 bytes.                  *)
(***************************************************************************)
EXTENDS Tensor, TLC

CONSTANTS small, large, device_buffer

MCSymmetry == Permutations(Blocks) \cup Permutations(Objects) \cup Permutations(Tensors)
MCShapes == {small, large}
MCBytes == [s \in MCShapes |-> IF s = small THEN 1 ELSE 2]
MCExternKind == [x \in Extern |-> "device"]
MCExternSize == [x \in Extern |-> 2]
=============================================================================
