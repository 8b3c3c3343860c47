---------------------------- MODULE MCCudaGraph ----------------------------
(***************************************************************************)
(* Symmetry of the objects, streams and handles of CudaGraph.              *)
(***************************************************************************)
EXTENDS CudaGraph, TLC

MCSymmetry ==
    Permutations(Graphs) \cup Permutations(Execs) \cup Permutations(Streams)
        \cup Permutations(Handles) \cup Permutations(Instances)
=============================================================================
