--------------------------- MODULE MCKernelCalls ----------------------------
(***************************************************************************)
(* Two host threads, which are not told apart; two rows of tokens, with no *)
(* mark, with marks that leave one feature of a row or none unused, and    *)
(* with one row that has more marks than features.                         *)
(***************************************************************************)
EXTENDS KernelCalls

MCSymmetry == Permutations(Callers)

MCInputs == {{}, {<<1, 2>>, <<2, 1>>, <<2, 3>>}, {<<1, 3>>, <<2, 1>>, <<2, 2>>, <<2, 3>>}}
=============================================================================
