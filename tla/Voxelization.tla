---------------------------- MODULE Voxelization ----------------------------
(***************************************************************************)
(* kernels::generateVoxelizationFeature (src/kernels/voxelization.cu): the *)
(* threads of three kernels that follow each other on a stream.  The       *)
(* threads of one kernel run in any order and take slots by atomic         *)
(* counters.                                                               *)
(*                                                                         *)
(* Abstractions.  A point is its index among the threads of the first      *)
(* kernel, a voxel its cell in the grid of its batch.  A feature says      *)
(* which points and which cell it was computed from.  What an earlier call *)
(* left in a buffer is Stale.  A thread that returns before it has touched *)
(* what others see has done so when its kernel starts.                     *)
(***************************************************************************)
EXTENDS Integers, FiniteSets

CONSTANTS
    BatchSize, MaxNumPoints, MaxPointsPerVoxel, MaxPillarNum,
    GridSize,       \* grid_y_size * grid_x_size
    Padding,        \* threads of the last block of generateVoxelsKernel beyond the points
    PointsSizes,    \* of every batch, and of BatchSize what the word behind them holds
    PointValues,    \* num_point_values, of 4 and 5
    Careful,        \* the client never has more nonempty voxels than pillars
    Stale, OutOfRange

ASSUME VoxelAssumption ==
    /\ {BatchSize, MaxNumPoints, MaxPointsPerVoxel, MaxPillarNum, GridSize} \subseteq Nat \ {0}
    /\ Padding \in 0 .. MaxNumPoints
    /\ PointsSizes \subseteq [0 .. BatchSize -> Nat]
    /\ PointValues \subseteq {4, 5}
    /\ Careful \in BOOLEAN
    /\ MaxPointsPerVoxel <= 64      \* the __shared__ arrays
    /\ Stale \notin Nat

VARIABLES
    call,               \* the arguments of the latest call
    kernel, pc, taken,  \* the running kernel; where its threads are and what they took
    buffer,             \* the contents of the buffers, by their parameters' names
    outside             \* a thread has left the buffers

voxel_vars == <<call, kernel, pc, taken, buffer, outside>>

PointThreads == 0 .. BatchSize * MaxNumPoints + Padding - 1
Voxels == 0 .. BatchSize * GridSize - 1
Pillars == 0 .. BatchSize * MaxPillarNum - 1
Batches == 0 .. BatchSize - 1
Lanes == 0 .. MaxPointsPerVoxel - 1     \* the points of a voxel or a pillar
Cells == 0 .. GridSize - 1

PointBatch(p) == p \div MaxNumPoints
VoxelBatch(v) == v \div GridSize
PillarBatch(s) == s \div MaxPillarNum
AtMost(n, bound) == IF n > bound THEN bound ELSE n

InFrame(c, p) == p % MaxNumPoints < c.points_size[PointBatch(p)]
InRange(c, p) == InFrame(c, p) /\ c.cell[p] # OutOfRange
VoxelOf(c, p) == PointBatch(p) * GridSize + c.cell[p]

\* What the kernels are asked to find: the points of voxel v.
PointsIn(c, v) == {p \in PointThreads : InRange(c, p) /\ VoxelOf(c, p) = v}
Filled(c, b) == {v \in Voxels : VoxelBatch(v) = b /\ PointsIn(c, v) # {}}

Calls ==
    {c \in [points_size : PointsSizes, cell : [PointThreads -> Cells \cup {OutOfRange}],
            num_point_values : PointValues] :
        /\ \A p \in PointThreads : p % MaxNumPoints >= c.points_size[PointBatch(p)] => c.cell[p] = OutOfRange
        /\ Careful => \A b \in Batches : Cardinality(Filled(c, b)) <= MaxPillarNum}

Start(k, threads, running) ==
    /\ kernel' = k
    /\ pc' = [t \in threads |-> IF t \in running THEN "ready" ELSE "done"]
    /\ taken' = [t \in threads |-> 0]

Ended(k) == kernel = k /\ \A t \in DOMAIN pc : pc[t] = "done"
Takes(t, slot, label) == taken' = [taken EXCEPT ![t] = slot] /\ pc' = [pc EXCEPT ![t] = label]
Finish(t) == pc' = [pc EXCEPT ![t] = "done"] /\ UNCHANGED taken
LeaveBuffers == outside' = TRUE /\ UNCHANGED <<pc, taken, buffer>>
At(k, t, label) == kernel = k /\ t \in DOMAIN pc /\ pc[t] = label

NoCall == [points_size |-> [b \in 0 .. BatchSize |-> 0], cell |-> [p \in PointThreads |-> OutOfRange],
           num_point_values |-> 4]

\* The buffers before a call, whatever earlier calls left in them; the largest count is
\* the one that would show most.  The client clears the two counters on the stream,
\* and nothing else is ever cleared.
BeforeCall ==
    [mask |-> [v \in Voxels |-> 0], voxels |-> [v \in Voxels |-> [i \in Lanes |-> Stale]],
     pillar_num |-> [b \in Batches |-> 0], voxel_num_points |-> [s \in Pillars |-> MaxPointsPerVoxel],
     coords |-> [s \in Pillars |-> Stale], voxel_features |-> [s \in Pillars |-> [i \in Lanes |-> Stale]],
     features |-> [s \in Pillars |-> [i \in Lanes |-> Stale]]]

VoxelInit ==
    /\ call = NoCall /\ kernel = "none" /\ pc = <<>> /\ taken = <<>>
    /\ buffer = BeforeCall /\ outside = FALSE

-----------------------------------------------------------------------------
\* generateVoxelizationFeature launches the three kernels one behind the other; each
\* starts when the one before it has ended.
generateVoxels(c) ==
    /\ call' = c
    /\ Start("generateVoxels", PointThreads, {p \in PointThreads : InRange(c, p)})
    /\ UNCHANGED <<buffer, outside>>

\* generateVoxelsKernel, up to the atomicAdd and from there.
TakePoint(p) ==
    LET v == VoxelOf(call, p)
        point_id == buffer.mask[v]
    IN  /\ At("generateVoxels", p, "ready")
        /\ \/ /\ v \in Voxels
              /\ buffer' = [buffer EXCEPT !.mask[v] = @ + 1]
              /\ Takes(p, point_id, IF point_id >= MaxPointsPerVoxel THEN "done" ELSE "slot")
              /\ UNCHANGED outside
           \/ v \notin Voxels /\ LeaveBuffers
        /\ UNCHANGED <<call, kernel>>

StorePoint(p) ==
    /\ At("generateVoxels", p, "slot")
    /\ buffer' = [buffer EXCEPT !.voxels[VoxelOf(call, p)][taken[p]] = p]
    /\ Finish(p) /\ UNCHANGED <<call, kernel, outside>>

generateBaseFeatures ==
    /\ Ended("generateVoxels")
    /\ Start("generateBaseFeatures", Voxels, {v \in Voxels : buffer.mask[v] > 0})
    /\ UNCHANGED <<call, buffer, outside>>

\* generateBaseFeaturesKernel, up to the atomicAdd and from there.
TakePillar(v) ==
    /\ At("generateBaseFeatures", v, "ready")
    /\ buffer' = [buffer EXCEPT !.pillar_num[VoxelBatch(v)] = @ + 1]
    /\ Takes(v, buffer.pillar_num[VoxelBatch(v)], "slot")
    /\ UNCHANGED <<call, kernel, outside>>

\* Slip: the number within the batch is taken for one among all pillars.
PillarOfUnscaled(v) == VoxelBatch(v) + taken[v]
PillarOf(v) == VoxelBatch(v) * MaxPillarNum + taken[v]

\* Slip: the number of points is not limited to those that were stored.
StoredCountRaw(v) == buffer.mask[v]
StoredCount(v) == AtMost(buffer.mask[v], MaxPointsPerVoxel)

StorePillar(v) ==
    LET s == PillarOf(v)
    IN  /\ At("generateBaseFeatures", v, "slot")
        /\ \/ /\ s \in Pillars
              /\ buffer' = [buffer EXCEPT
                     !.voxel_num_points[s] = StoredCount(v), !.coords[s] = v % GridSize,
                     !.voxel_features[s] = [i \in Lanes |-> IF i < StoredCount(v) THEN buffer.voxels[v][i] ELSE @[i]]]
              /\ Finish(v) /\ UNCHANGED outside
           \/ s \notin Pillars /\ LeaveBuffers
        /\ UNCHANGED <<call, kernel>>

\* Only points of four values have a third kernel; otherwise the call just returns.
generateFeatures ==
    /\ Ended("generateBaseFeatures")
    /\ IF call.num_point_values = 4
       THEN Start("generateFeatures", Pillars, Pillars)
       ELSE Start("returned", {}, {})
    /\ UNCHANGED <<call, buffer, outside>>

\* generateFeaturesKernel4x, by the threads of one pillar together: they read how many
\* pillars there are, while the first pillar of the batch stores that number again.
ReadPillarNum(s) ==
    /\ At("generateFeatures", s, "ready")
    /\ Takes(s, AtMost(buffer.pillar_num[PillarBatch(s)], MaxPillarNum), "slot")
    /\ UNCHANGED <<call, kernel, buffer, outside>>

Zero == [points |-> {}, point |-> Stale, cell |-> Stale]

\* Slip: every lane is computed, whether it has a point or not.
FeatureAllLanes(s, i) ==
    [points |-> {buffer.voxel_features[s][j] : j \in Lanes}, point |-> buffer.voxel_features[s][i],
     cell |-> buffer.coords[s]]

\* The point, its offset to the mean of the pillar's points and to the centre of the cell.
Feature(s, i) ==
    IF i < buffer.voxel_num_points[s]
    THEN [points |-> {buffer.voxel_features[s][j] : j \in 0 .. buffer.voxel_num_points[s] - 1},
          point |-> buffer.voxel_features[s][i], cell |-> buffer.coords[s]]
    ELSE Zero

StoreFeatures(s) ==
    LET first == s % MaxPillarNum = 0
        within == s % MaxPillarNum < taken[s]
    IN  /\ At("generateFeatures", s, "slot")
        /\ buffer' = [buffer EXCEPT
               !.pillar_num[PillarBatch(s)] = IF first THEN taken[s] ELSE @,
               !.features[s] = IF within THEN [i \in Lanes |-> Feature(s, i)] ELSE @]
        /\ Finish(s) /\ UNCHANGED <<call, kernel, outside>>

Return ==
    /\ Ended("generateFeatures")
    /\ Start("returned", {}, {})
    /\ UNCHANGED <<call, buffer, outside>>

\* The client reads the results and goes on to the next frame.
NextFrame ==
    /\ kernel = "returned" /\ Start("none", {}, {})
    /\ call' = NoCall /\ buffer' = BeforeCall /\ UNCHANGED outside

-----------------------------------------------------------------------------
VoxelNext ==
    /\ ~outside
    /\ \/ kernel = "none" /\ \E c \in Calls : generateVoxels(c)
       \/ \E p \in PointThreads : TakePoint(p) \/ StorePoint(p)
       \/ generateBaseFeatures
       \/ \E v \in Voxels : TakePillar(v) \/ StorePillar(v)
       \/ generateFeatures
       \/ \E s \in Pillars : ReadPillarNum(s) \/ StoreFeatures(s)
       \/ Return
       \/ NextFrame

VoxelSpec == VoxelInit /\ [][VoxelNext]_voxel_vars

-----------------------------------------------------------------------------
(* Properties.                                                              *)

\* The slot a thread is about to fill is no other thread's, in its own batch and in
\* that of the others; nobody leaves the buffers.
SlotsOwned ==
    /\ ~outside
    /\ kernel = "generateVoxels" =>
          \A p, q \in PointThreads : p # q /\ pc[p] = "slot" /\ pc[q] = "slot" /\ taken[p] = taken[q] =>
              VoxelOf(call, p) # VoxelOf(call, q)
    /\ kernel = "generateBaseFeatures" =>
          \A v, u \in Voxels : v # u /\ pc[v] = "slot" /\ pc[u] = "slot" => PillarOf(v) # PillarOf(u)

\* As many points of voxel v as there is room for.
HasPointsOf(points, v) ==
    /\ points \subseteq PointsIn(call, v)
    /\ Cardinality(points) = AtMost(Cardinality(PointsIn(call, v)), MaxPointsPerVoxel)

Occupied(b) == {s \in Pillars : PillarBatch(s) = b /\ s % MaxPillarNum < buffer.pillar_num[b]}

\* In whatever order the threads took their slots, the pillars of a batch are its
\* voxels with points, one for one, with their cell, their number of points and
\* points of this call that lie in that cell.
PillarsComplete ==
    kernel = "generateFeatures" =>
        \A b \in Batches :
            /\ Cardinality(Filled(call, b)) = buffer.pillar_num[b]
            /\ \A v \in Filled(call, b) : \E s \in Occupied(b) :
                  /\ buffer.coords[s] = v % GridSize
                  /\ buffer.voxel_num_points[s] \in 1 .. MaxPointsPerVoxel
                  /\ HasPointsOf({buffer.voxel_features[s][i] : i \in 0 .. buffer.voxel_num_points[s] - 1}, v)

\* When a call has returned, features has a row for each nonempty voxel of the batch,
\* in which every point was offset to the mean of the row's own points and to its
\* cell, with zeros behind the last point and nothing of an earlier call.
FeaturesCurrent ==
    kernel = "returned" /\ call.num_point_values = 4 =>
        \A b \in Batches :
            /\ Cardinality(Filled(call, b)) = buffer.pillar_num[b]
            /\ \A v \in Filled(call, b) : \E s \in Occupied(b) :
                  LET row == buffer.features[s]
                      points == {row[i].point : i \in Lanes} \ {Stale}
                  IN  /\ HasPointsOf(points, v)
                      /\ \A i \in Lanes :
                            row[i] = IF i < Cardinality(points)
                                     THEN [points |-> points, point |-> row[i].point, cell |-> v % GridSize]
                                     ELSE Zero

\* voxelization.cu:78 and 85: max_pillar_num is the "max pillar num per batch" and
\* coords has room for batch_size * max_pillar_num: no thread takes a pillar beyond
\* those of its batch.
PillarInBatch ==
    kernel = "generateBaseFeatures" => \A v \in Voxels : taken[v] < MaxPillarNum
=============================================================================
