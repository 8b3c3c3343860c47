--------------------------- MODULE MCEngineTensor ---------------------------
(***************************************************************************)
(* An engine with two tensors and a client with memory of its own, of two  *)
(* memory objects in all; shapes of 1, 2 and 3 bytes, so that a tensor may *)
(* be given less than it once had and more than it has; a page of the      *)
(* client of 2 bytes.                                                      *)
(***************************************************************************)
EXTENDS EngineTensor, TLC

CONSTANTS small, medium, large, page

MCShapes == {small, medium, large}
MCBytes == [s \in MCShapes |-> CASE s = small -> 1 [] s = medium -> 2 [] s = large -> 3]
MCExternKind == [x \in Extern |-> "pageable"]
MCExternSize == [x \in Extern |-> 2]
MCSymmetry == Permutations(Blocks) \cup Permutations(Objects) \cup Permutations(Tensors)
=============================================================================
