-------------------------- MODULE MCCudaBaseMemory --------------------------
(***************************************************************************)
(* Two objects over a few blocks, and one buffer of the client of each     *)
(* kind, of two bytes.                                                     *)
(***************************************************************************)
EXTENDS CudaBaseMemory, TLC

CONSTANTS device_buffer, pinned_buffer, page

\* Neither objects nor blocks are told apart.
MCSymmetry == Permutations(Blocks) \cup Permutations(Objects)
MCExternKind == [x \in Extern |-> CASE x = device_buffer -> "device"
                                    [] x = pinned_buffer -> "pinned"
                                    [] OTHER -> "pageable"]
MCExternSize == [x \in Extern |-> 2]
=============================================================================
