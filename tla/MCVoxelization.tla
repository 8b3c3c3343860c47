--------------------------- MODULE MCVoxelization ---------------------------
(***************************************************************************)
(* Frames of a few points in all, of one to three per batch; the client    *)
(* keeps a zero behind points_size.                                        *)
(***************************************************************************)
EXTENDS Voxelization

RECURSIVE MCTotal(_, _)
MCTotal(size, b) == IF b = BatchSize THEN 0 ELSE size[b] + MCTotal(size, b + 1)

MCPointsSizes ==
    {size \in [0 .. BatchSize -> 0 .. MaxNumPoints] : size[BatchSize] = 0 /\ MCTotal(size, 0) <= 4}
=============================================================================
