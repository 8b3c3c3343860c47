------------------------ MODULE Voxelization_proofs ------------------------
(***************************************************************************)
(* The voxels and pillars of generateVoxelizationFeature, for any batches, *)
(* points, grids and orders of the threads.                                *)
(***************************************************************************)
EXTENDS Voxelization, FiniteSetTheorems, TLAPS

\* The client keeps a zero behind points_size, or has points for whole blocks of threads
\* (the kernel reads points_size of one batch too many, voxelization.cu:45).
NoPointBehind == Padding = 0 \/ \A size \in PointsSizes : size[BatchSize] = 0

FeatureRecord ==
    [points : SUBSET (PointThreads \cup {Stale}), point : PointThreads \cup {Stale}, cell : Cells \cup {Stale}]
Buffers ==
    [mask : [Voxels -> Nat], voxels : [Voxels -> [Lanes -> PointThreads \cup {Stale}]],
     pillar_num : [Batches -> Nat], voxel_num_points : [Pillars -> 0 .. MaxPointsPerVoxel],
     coords : [Pillars -> Cells \cup {Stale}], voxel_features : [Pillars -> [Lanes -> PointThreads \cup {Stale}]],
     features : [Pillars -> [Lanes -> FeatureRecord \cup {Stale}]]]

Running(threads) == pc \in [threads -> {"ready", "slot", "done"}] /\ taken \in [threads -> Nat]

\* While points are taken: the numbers taken of a voxel are those below its counter, each
\* once, and a point that is done is in its slot if there was one.
Took(p) == InRange(call, p) /\ pc[p] # "ready"
PointsTaken ==
    /\ Running(PointThreads)
    /\ \A p \in PointThreads : pc[p] # "done" => InRange(call, p)
    /\ \A p \in PointThreads : pc[p] = "slot" => taken[p] < MaxPointsPerVoxel
    /\ \A p \in PointThreads : Took(p) => taken[p] < buffer.mask[VoxelOf(call, p)]
    /\ \A p, q \in PointThreads :
          Took(p) /\ Took(q) /\ VoxelOf(call, p) = VoxelOf(call, q) /\ taken[p] = taken[q] => p = q
    /\ \A v \in Voxels : \A i \in 0 .. buffer.mask[v] - 1 :
          \E p \in PointThreads : Took(p) /\ VoxelOf(call, p) = v /\ taken[p] = i
    /\ \A v \in Voxels : buffer.mask[v] = Cardinality({p \in PointsIn(call, v) : pc[p] # "ready"})
    /\ \A p \in PointThreads : Took(p) /\ pc[p] = "done" /\ taken[p] < MaxPointsPerVoxel =>
          buffer.voxels[VoxelOf(call, p)][taken[p]] = p
    /\ \A b \in Batches : buffer.pillar_num[b] = 0

\* count places of row hold different points of the voxel v.
HoldsPoints(row, count, v) ==
    /\ \A i \in 0 .. count - 1 : row[i] \in PointsIn(call, v)
    /\ \A i, j \in 0 .. count - 1 : row[i] = row[j] => i = j

VoxelsFilled ==
    \A v \in Voxels : /\ buffer.mask[v] = Cardinality(PointsIn(call, v))
                      /\ HoldsPoints(buffer.voxels[v], StoredCount(v), v)

\* The pillar s is that of the voxel v.
PillarHolds(s, v) ==
    /\ buffer.coords[s] = v % GridSize
    /\ buffer.voxel_num_points[s] = AtMost(Cardinality(PointsIn(call, v)), MaxPointsPerVoxel)
    /\ HoldsPoints(buffer.voxel_features[s], buffer.voxel_num_points[s], v)

\* While pillars are taken: the numbers taken in a batch are different and below its
\* counter, and a voxel that is done has its pillar.
TookPillar(v) == buffer.mask[v] > 0 /\ pc[v] # "ready"
PillarsTaken ==
    /\ Running(Voxels)
    /\ \A v \in Voxels : pc[v] # "done" => buffer.mask[v] > 0
    /\ \A v \in Voxels : TookPillar(v) => taken[v] < buffer.pillar_num[VoxelBatch(v)]
    /\ \A v, u \in Voxels :
          TookPillar(v) /\ TookPillar(u) /\ VoxelBatch(v) = VoxelBatch(u) /\ taken[v] = taken[u] => v = u
    /\ \A b \in Batches : buffer.pillar_num[b] = Cardinality({v \in Filled(call, b) : pc[v] # "ready"})
    /\ \A v \in Voxels : TookPillar(v) /\ pc[v] = "done" => PillarHolds(PillarOf(v), v)

PillarsFilled ==
    \A b \in Batches :
        /\ buffer.pillar_num[b] = Cardinality(Filled(call, b))
        /\ \A v \in Filled(call, b) : \E s \in Occupied(b) : PillarHolds(s, v)

FeatureStored(s) == buffer.features[s] = [i \in Lanes |-> Feature(s, i)]

\* While features are computed, the number of pillars is stored again as it was.
FeaturesTaken ==
    /\ Running(Pillars)
    /\ \A s \in Pillars : pc[s] # "ready" => taken[s] = buffer.pillar_num[PillarBatch(s)]
    /\ \A s \in Pillars : pc[s] = "done" /\ s % MaxPillarNum < buffer.pillar_num[PillarBatch(s)] =>
          FeatureStored(s)

FeaturesFilled ==
    \A s \in Pillars : s % MaxPillarNum < buffer.pillar_num[PillarBatch(s)] => FeatureStored(s)

VoxelInv ==
    /\ kernel \in {"none", "generateVoxels", "generateBaseFeatures", "generateFeatures", "returned"}
    /\ buffer \in Buffers /\ ~outside
    /\ IF kernel = "none" THEN buffer = BeforeCall ELSE call \in Calls
    /\ kernel = "generateVoxels" => PointsTaken
    /\ kernel = "generateBaseFeatures" => VoxelsFilled /\ PillarsTaken
    /\ kernel = "generateFeatures" => PillarsFilled /\ FeaturesTaken
    /\ kernel = "returned" /\ call.num_point_values = 4 => PillarsFilled /\ FeaturesFilled

-----------------------------------------------------------------------------
(* Rows of g places: the numbers b * g + k.                                 *)

LEMMA TimesMonotone ==
    ASSUME NEW a \in Nat, NEW b \in Nat, NEW g \in Nat, a <= b
    PROVE  a * g \in Nat /\ b * g \in Nat /\ a * g <= b * g
<1>1. (b - a) * g >= 0 BY Z3
<1> QED BY <1>1, Z3

LEMMA NextRow ==
    ASSUME NEW a \in Nat, NEW b \in Nat, NEW g \in Nat, a < b
    PROVE  a * g \in Nat /\ b * g \in Nat /\ a * g + g <= b * g
<1>1. (a + 1) * g <= b * g BY TimesMonotone
<1>2. (a + 1) * g = a * g + g OBVIOUS
<1> QED BY <1>1, <1>2, TimesMonotone

LEMMA RowAndPlace ==
    ASSUME NEW n \in Nat, NEW g \in Nat \ {0}, NEW v \in 0 .. n * g - 1
    PROVE  v \div g \in 0 .. n - 1 /\ v % g \in 0 .. g - 1 /\ v = (v \div g) * g + (v % g)
<1>1. v \in Nat /\ n * g \in Nat OBVIOUS
<1>2. v \div g \in Nat /\ v % g \in 0 .. g - 1 /\ v = (v \div g) * g + (v % g)
  <2>1. v \div g \in Int /\ v \div g >= 0 BY <1>1
  <2>2. v % g \in Int /\ v % g >= 0 /\ v % g < g BY <1>1
  <2>3. v % g = v - g * (v \div g) BY <1>1, Z3
  <2>4. g * (v \div g) \in Int /\ g * (v \div g) = (v \div g) * g BY <2>1
  <2> QED BY <1>1, <2>1, <2>2, <2>3, <2>4
<1>3. v \div g < n
  <2>1. ASSUME n <= v \div g PROVE FALSE
    <3>1. n * g <= (v \div g) * g BY <1>2, <2>1, TimesMonotone
    <3>2. (v \div g) * g \in Nat BY <1>2
    <3> QED BY <1>1, <1>2, <3>1, <3>2
  <2> QED BY <1>2, <2>1
<1> QED BY <1>2, <1>3

LEMMA PlaceInRow ==
    ASSUME NEW n \in Nat, NEW g \in Nat \ {0}, NEW b \in 0 .. n - 1, NEW k \in 0 .. g - 1
    PROVE  /\ b * g + k \in 0 .. n * g - 1
           /\ (b * g + k) \div g = b /\ (b * g + k) % g = k
<1> DEFINE v == b * g + k
<1>1. b * g \in Nat /\ n * g \in Nat /\ b * g + g <= n * g BY NextRow
<1>2. v \in 0 .. n * g - 1 BY <1>1
<1>3. v \div g \in 0 .. n - 1 /\ v % g \in 0 .. g - 1 /\ v = (v \div g) * g + (v % g) BY <1>2, RowAndPlace
<1> DEFINE q == v \div g
           r == v % g
<1> HIDE DEF q, r
<1>4. q \in Nat /\ b \in Nat /\ r \in 0 .. g - 1 /\ b * g + k = q * g + r BY <1>3 DEF q, r
<1>5. q * g \in Nat BY <1>4
<1>6. ~(q < b)
  <2> SUFFICES ASSUME q < b PROVE FALSE OBVIOUS
  <2>1. q * g + g <= b * g BY <1>4, NextRow
  <2> QED BY <1>1, <1>4, <1>5, <2>1
<1>7. ~(b < q)
  <2> SUFFICES ASSUME b < q PROVE FALSE OBVIOUS
  <2>1. b * g + g <= q * g BY <1>4, NextRow
  <2> QED BY <1>1, <1>4, <1>5, <2>1
<1>8. q = b BY <1>4, <1>6, <1>7
<1>9. r = k BY <1>1, <1>4, <1>8
<1> QED BY <1>2, <1>8, <1>9 DEF q, r
-----------------------------------------------------------------------------
(* The layout of the buffers.                                               *)

LEMMA Sizes ==
    /\ BatchSize \in Nat \ {0} /\ MaxNumPoints \in Nat \ {0} /\ MaxPointsPerVoxel \in Nat \ {0}
    /\ MaxPillarNum \in Nat \ {0} /\ GridSize \in Nat \ {0} /\ Padding \in 0 .. MaxNumPoints
    /\ Stale \notin Nat
  BY VoxelAssumption

LEMMA CallFacts ==
    ASSUME NEW c \in Calls
    PROVE  /\ c.points_size \in PointsSizes /\ c.points_size \in [0 .. BatchSize -> Nat]
           /\ c.cell \in [PointThreads -> Cells \cup {OutOfRange}]
           /\ Careful => \A b \in Batches : Cardinality(Filled(c, b)) <= MaxPillarNum
  BY VoxelAssumption DEF Calls

LEMMA VoxelLayout ==
    ASSUME NEW v \in Voxels
    PROVE  VoxelBatch(v) \in Batches /\ v % GridSize \in Cells
  BY Sizes, RowAndPlace DEF Voxels, VoxelBatch, Batches, Cells

LEMMA PillarLayout ==
    ASSUME NEW s \in Pillars
    PROVE  PillarBatch(s) \in Batches /\ s % MaxPillarNum \in 0 .. MaxPillarNum - 1
  BY Sizes, RowAndPlace DEF Pillars, PillarBatch, Batches

LEMMA PillarPlace ==
    ASSUME NEW b \in Batches, NEW k \in Nat, k < MaxPillarNum
    PROVE  /\ b * MaxPillarNum + k \in Pillars
           /\ PillarBatch(b * MaxPillarNum + k) = b /\ (b * MaxPillarNum + k) % MaxPillarNum = k
<1>1. k \in 0 .. MaxPillarNum - 1 BY Sizes
<1> QED BY <1>1, Sizes, PlaceInRow DEF Pillars, PillarBatch, Batches

\* A point in range lies in a voxel of its batch.
LEMMA PointLayout ==
    ASSUME NoPointBehind, NEW c \in Calls, NEW p \in PointThreads, InRange(c, p)
    PROVE  VoxelOf(c, p) \in Voxels
<1> DEFINE b == PointBatch(p)
<1>1. b \in Batches
  <2>1. BatchSize * MaxNumPoints \in Nat /\ (BatchSize + 1) * MaxNumPoints = BatchSize * MaxNumPoints + MaxNumPoints
    BY Sizes
  <2>2. p \in 0 .. (BatchSize + 1) * MaxNumPoints - 1 BY <2>1, Sizes DEF PointThreads
  <2>3. b \in 0 .. BatchSize /\ p % MaxNumPoints \in Nat
    BY <2>2, Sizes, RowAndPlace DEF PointBatch
  <2>4. CASE Padding = 0
    <3>1. p \in 0 .. BatchSize * MaxNumPoints - 1 BY <2>1, <2>4 DEF PointThreads
    <3> QED BY <3>1, Sizes, RowAndPlace DEF PointBatch, Batches
  <2>5. CASE \A size \in PointsSizes : size[BatchSize] = 0
    <3>1. c.points_size[BatchSize] = 0 BY <2>5, CallFacts
    <3>2. p % MaxNumPoints < c.points_size[b] BY DEF InRange, InFrame
    <3>3. b # BatchSize BY <2>3, <3>1, <3>2
    <3> QED BY <2>3, <3>3, Sizes DEF Batches
  <2> QED BY <2>4, <2>5 DEF NoPointBehind
<1>2. c.cell[p] \in Cells BY CallFacts DEF InRange
<1> HIDE DEF b
<1>3. b * GridSize + c.cell[p] \in Voxels BY <1>1, <1>2, Sizes, PlaceInRow DEF Voxels, Batches, Cells
<1> QED BY <1>3 DEF VoxelOf, b

LEMMA Finite ==
    /\ \A c, v : IsFiniteSet(PointsIn(c, v)) /\ Cardinality(PointsIn(c, v)) \in Nat
    /\ \A c, b : IsFiniteSet(Filled(c, b)) /\ Cardinality(Filled(c, b)) \in Nat
<1>1. IsFiniteSet(PointThreads) /\ IsFiniteSet(Voxels)
  <2>1. BatchSize * MaxNumPoints + Padding - 1 \in Int /\ BatchSize * GridSize - 1 \in Int BY Sizes
  <2> QED BY <2>1, FS_Interval DEF PointThreads, Voxels
<1>2. \A c, v : PointsIn(c, v) \in SUBSET PointThreads BY DEF PointsIn
<1>3. \A c, b : Filled(c, b) \in SUBSET Voxels BY DEF Filled
<1> QED BY <1>1, <1>2, <1>3, FS_Subset, FS_CardinalityType

LEMMA AtMostFacts ==
    ASSUME NEW n \in Nat, NEW m \in Nat
    PROVE  AtMost(n, m) \in Nat /\ AtMost(n, m) <= n /\ AtMost(n, m) <= m /\ (n <= m => AtMost(n, m) = n)
  BY DEF AtMost

\* count different places make a set of count points.
LEMMA RowCardinality ==
    ASSUME NEW row, NEW count \in Nat, \A i, j \in 0 .. count - 1 : row[i] = row[j] => i = j
    PROVE  Cardinality({row[i] : i \in 0 .. count - 1}) = count
<1> DEFINE places == 0 .. count - 1
           points == {row[i] : i \in places}
           f == [i \in places |-> row[i]]
<1>1. IsFiniteSet(places) /\ Cardinality(places) = count BY FS_Interval
<1>2. f \in Injection(places, points) /\ f \in Surjection(places, points)
  BY DEF Injection, Surjection, IsInjective
<1>3. f \in Bijection(places, points) BY <1>2 DEF Bijection
<1>4. ExistsBijection(places, points) BY <1>3 DEF ExistsBijection
<1> HIDE DEF places, points
<1>5. Cardinality(points) = count BY <1>1, <1>4, FS_Bijection
<1> QED BY <1>5 DEF places, points

-----------------------------------------------------------------------------
(* The kernel that stores the points.                                       *)

LEMMA BeforeCallType == BeforeCall \in Buffers
  BY Sizes DEF BeforeCall, Buffers

LEMMA VoxelsStart ==
    ASSUME VoxelInv, kernel = "none", NEW c \in Calls, generateVoxels(c)
    PROVE  VoxelInv'
<1>1. /\ call' = c /\ kernel' = "generateVoxels" /\ buffer' = buffer /\ outside' = outside
      /\ pc' = [p \in PointThreads |-> IF p \in {q \in PointThreads : InRange(c, q)} THEN "ready" ELSE "done"]
      /\ taken' = [p \in PointThreads |-> 0]
  BY DEF generateVoxels, Start
<1>2. buffer = BeforeCall BY DEF VoxelInv
<1>3. /\ \A v \in Voxels : buffer'.mask[v] = 0
      /\ \A b \in Batches : buffer'.pillar_num[b] = 0
  BY <1>1, <1>2 DEF BeforeCall
<1>4. \A p \in PointThreads : (pc'[p] = "ready" <=> InRange(c, p)) /\ (pc'[p] # "ready" => pc'[p] = "done")
  BY <1>1
<1>5. Running(PointThreads)' BY <1>1 DEF Running
<1>6. \A p \in PointThreads : ~(InRange(c, p) /\ pc'[p] # "ready") BY <1>4
<1>7. ASSUME NEW v \in Voxels PROVE buffer'.mask[v] = Cardinality({p \in PointsIn(c, v) : pc'[p] # "ready"})
  <2>1. {p \in PointsIn(c, v) : pc'[p] # "ready"} = {} BY <1>6 DEF PointsIn
  <2> QED BY <1>3, <2>1, FS_EmptySet
<1>8. PointsTaken' BY <1>1, <1>3, <1>4, <1>5, <1>6, <1>7 DEF PointsTaken, Took
<1> QED BY <1>1, <1>8 DEF VoxelInv

LEMMA TakePointStep ==
    ASSUME NoPointBehind, VoxelInv, NEW p \in PointThreads, TakePoint(p)
    PROVE  VoxelInv'
<1> DEFINE v == VoxelOf(call, p)
           m == buffer.mask[v]
           label == IF m >= MaxPointsPerVoxel THEN "done" ELSE "slot"
<1>1. kernel = "generateVoxels" /\ pc[p] = "ready" /\ call' = call /\ kernel' = kernel BY DEF TakePoint, At
<1>2. PointsTaken /\ call \in Calls /\ buffer \in Buffers /\ ~outside BY <1>1 DEF VoxelInv
<1>3. Running(PointThreads) /\ InRange(call, p) BY <1>1, <1>2 DEF PointsTaken
<1>4. v \in Voxels /\ m \in Nat BY <1>2, <1>3, PointLayout DEF Buffers
<1>5. /\ buffer' = [buffer EXCEPT !.mask[v] = @ + 1] /\ outside' = outside
      /\ taken' = [taken EXCEPT ![p] = m] /\ pc' = [pc EXCEPT ![p] = label]
  BY <1>4 DEF TakePoint, Takes
<1>6. /\ buffer' \in Buffers
      /\ buffer'.mask = [buffer.mask EXCEPT ![v] = m + 1]
      /\ buffer'.voxels = buffer.voxels /\ buffer'.pillar_num = buffer.pillar_num
  <2>1. /\ buffer'.mask = [buffer.mask EXCEPT ![v] = m + 1]
        /\ buffer'.voxels = buffer.voxels /\ buffer'.pillar_num = buffer.pillar_num
        /\ buffer'.voxel_num_points = buffer.voxel_num_points /\ buffer'.coords = buffer.coords
        /\ buffer'.voxel_features = buffer.voxel_features /\ buffer'.features = buffer.features
    BY <1>2, <1>5 DEF Buffers
  <2>2. m + 1 \in Nat BY <1>4
  <2>3. [buffer.mask EXCEPT ![v] = m + 1] \in [Voxels -> Nat] BY <1>2, <2>2 DEF Buffers
  <2>4. buffer' = [buffer EXCEPT !.mask = [buffer.mask EXCEPT ![v] = m + 1]] BY <1>5
  <2> HIDE DEF v, m
  <2>5. buffer' \in Buffers BY <1>2, <2>3, <2>4 DEF Buffers
  <2> QED BY <2>1, <2>5
<1>7. buffer'.mask[v] = m + 1 /\ \A u \in Voxels \ {v} : buffer'.mask[u] = buffer.mask[u]
  BY <1>2, <1>4, <1>6 DEF Buffers
<1>8. \A u \in Voxels : buffer.mask[u] \in Nat BY <1>2 DEF Buffers
<1>9. /\ Running(PointThreads)' /\ pc'[p] = label /\ taken'[p] = m
      /\ \A q \in PointThreads \ {p} : pc'[q] = pc[q] /\ taken'[q] = taken[q]
  BY <1>3, <1>4, <1>5 DEF Running
<1>10. \A q \in PointThreads : taken[q] \in Nat /\ (Took(q) => VoxelOf(call, q) \in Voxels)
  BY <1>2, <1>3, PointLayout DEF Running, Took
<1>11. label # "ready" /\ ~Took(p) BY <1>1 DEF Took
<1>12. \A q \in PointThreads : Took(q)' <=> Took(q) \/ q = p BY <1>1, <1>3, <1>9, <1>11 DEF Took
<1>13. \A q \in PointThreads : pc'[q] # "done" => InRange(call, q) BY <1>2, <1>3, <1>9 DEF PointsTaken
<1>14. \A q \in PointThreads : pc'[q] = "slot" => taken'[q] < MaxPointsPerVoxel
  BY <1>2, <1>4, <1>9, Sizes DEF PointsTaken
<1>15. ASSUME NEW q \in PointThreads, Took(q)' PROVE taken'[q] < buffer'.mask[VoxelOf(call, q)]
  <2>1. CASE q = p BY <1>4, <1>7, <1>9, <2>1
  <2>2. CASE q # p
    <3>1. Took(q) /\ taken'[q] = taken[q] /\ VoxelOf(call, q) \in Voxels
      BY <1>9, <1>10, <1>12, <1>15, <2>2
    <3>2. taken[q] < buffer.mask[VoxelOf(call, q)] BY <1>2, <3>1 DEF PointsTaken
    <3>3. buffer.mask[VoxelOf(call, q)] <= buffer'.mask[VoxelOf(call, q)] BY <1>4, <1>7, <1>8, <3>1
    <3>4. buffer'.mask[VoxelOf(call, q)] \in Nat BY <1>4, <1>7, <1>8, <3>1
    <3> QED BY <1>8, <1>10, <3>1, <3>2, <3>3, <3>4
  <2> QED BY <2>1, <2>2
<1>16. ASSUME NEW q \in PointThreads, NEW r \in PointThreads, Took(q)', Took(r)',
              VoxelOf(call, q) = VoxelOf(call, r), taken'[q] = taken'[r]
       PROVE  q = r
  <2>1. \A x \in PointThreads \ {p} : Took(x) /\ VoxelOf(call, x) = v => taken[x] < m
    BY <1>2 DEF PointsTaken
  <2>2. \A x \in PointThreads \ {p} : Took(x) /\ VoxelOf(call, x) = v => taken'[x] # m
    BY <1>4, <1>9, <1>10, <2>1
  <2>3. CASE q = p BY <1>9, <1>12, <1>16, <2>2, <2>3
  <2>4. CASE r = p BY <1>9, <1>12, <1>16, <2>2, <2>4
  <2>5. CASE q # p /\ r # p BY <1>2, <1>9, <1>12, <1>16, <2>5 DEF PointsTaken
  <2> QED BY <2>3, <2>4, <2>5
<1>17. ASSUME NEW u \in Voxels, NEW i \in 0 .. buffer'.mask[u] - 1
       PROVE  \E q \in PointThreads : Took(q)' /\ VoxelOf(call, q) = u /\ taken'[q] = i
  <2>1. CASE u = v /\ i = m BY <1>9, <1>12, <2>1
  <2>2. CASE ~(u = v /\ i = m)
    <3>1. i \in 0 .. buffer.mask[u] - 1 BY <1>4, <1>7, <1>8, <2>2
    <3>2. PICK q \in PointThreads : Took(q) /\ VoxelOf(call, q) = u /\ taken[q] = i
      BY <1>2, <3>1 DEF PointsTaken
    <3>3. q # p BY <1>11, <3>2
    <3> QED BY <1>9, <1>12, <3>2, <3>3
  <2> QED BY <2>1, <2>2
<1>18. ASSUME NEW u \in Voxels PROVE buffer'.mask[u] = Cardinality({q \in PointsIn(call, u) : pc'[q] # "ready"})
  <2> DEFINE old == {q \in PointsIn(call, u) : pc[q] # "ready"}
             new == {q \in PointsIn(call, u) : pc'[q] # "ready"}
  <2>1. buffer.mask[u] = Cardinality(old) BY <1>2 DEF PointsTaken
  <2>2. \A q \in PointsIn(call, u) : q \in PointThreads /\ VoxelOf(call, q) = u BY DEF PointsIn
  <2>3. CASE u = v
    <3>1. p \in PointsIn(call, u) BY <1>3, <2>3 DEF PointsIn
    <3>2. new = old \cup {p} BY <1>9, <1>11, <2>2, <3>1
    <3>3. p \notin old BY <1>1
    <3>4. IsFiniteSet(old)
      <4>1. old \in SUBSET PointsIn(call, u) OBVIOUS
      <4> QED BY <4>1, Finite, FS_Subset
    <3> HIDE DEF old, new
    <3>5. Cardinality(new) = Cardinality(old) + 1 BY <3>2, <3>3, <3>4, FS_AddElement
    <3> QED BY <1>7, <2>1, <2>3, <3>5 DEF new
  <2>4. CASE u # v
    <3>1. p \notin PointsIn(call, u) BY <2>2, <2>4
    <3>2. new = old BY <1>9, <2>2, <3>1
    <3> QED BY <1>7, <2>1, <2>4, <3>2
  <2> QED BY <2>3, <2>4
<1>19. ASSUME NEW q \in PointThreads, Took(q)', pc'[q] = "done", taken'[q] < MaxPointsPerVoxel
       PROVE  buffer'.voxels[VoxelOf(call, q)][taken'[q]] = q
  <2>1. q # p BY <1>4, <1>9, <1>19, Sizes
  <2> QED BY <1>2, <1>6, <1>9, <1>12, <1>19, <2>1 DEF PointsTaken
<1>20. \A b \in Batches : buffer'.pillar_num[b] = 0 BY <1>2, <1>6 DEF PointsTaken
<1> HIDE DEF v, m, label
<1>21. PointsTaken'
  BY <1>1, <1>9, <1>13, <1>14, <1>15, <1>16, <1>17, <1>18, <1>19, <1>20 DEF PointsTaken
<1> QED BY <1>1, <1>2, <1>5, <1>6, <1>21 DEF VoxelInv

LEMMA StorePointStep ==
    ASSUME NoPointBehind, VoxelInv, NEW p \in PointThreads, StorePoint(p)
    PROVE  VoxelInv'
<1> DEFINE v == VoxelOf(call, p)
           k == taken[p]
<1>1. /\ kernel = "generateVoxels" /\ pc[p] = "slot" /\ UNCHANGED <<call, kernel, outside, taken>>
      /\ pc' = [pc EXCEPT ![p] = "done"]
      /\ buffer' = [buffer EXCEPT !.voxels[v][k] = p]
  BY DEF StorePoint, At, Finish
<1>2. PointsTaken /\ call \in Calls /\ buffer \in Buffers /\ ~outside BY <1>1 DEF VoxelInv
<1>3. Running(PointThreads) /\ InRange(call, p) /\ k < MaxPointsPerVoxel BY <1>1, <1>2 DEF PointsTaken
<1>4. v \in Voxels /\ k \in Lanes BY <1>2, <1>3, Sizes, PointLayout DEF Running, Lanes
<1>5. /\ buffer'.voxels = [buffer.voxels EXCEPT ![v] = [buffer.voxels[v] EXCEPT ![k] = p]]
      /\ buffer'.mask = buffer.mask /\ buffer'.pillar_num = buffer.pillar_num
      /\ buffer'.voxel_num_points = buffer.voxel_num_points /\ buffer'.coords = buffer.coords
      /\ buffer'.voxel_features = buffer.voxel_features /\ buffer'.features = buffer.features
  BY <1>1, <1>2 DEF Buffers
<1>6. buffer.voxels[v] \in [Lanes -> PointThreads \cup {Stale}] BY <1>2, <1>4 DEF Buffers
<1>7. /\ buffer'.voxels[v][k] = p
      /\ \A j \in Lanes \ {k} : buffer'.voxels[v][j] = buffer.voxels[v][j]
      /\ \A u \in Voxels \ {v} : buffer'.voxels[u] = buffer.voxels[u]
  BY <1>2, <1>4, <1>5, <1>6 DEF Buffers
<1>8. buffer' \in Buffers
  <2>1. [buffer.voxels[v] EXCEPT ![k] = p] \in [Lanes -> PointThreads \cup {Stale}] BY <1>6
  <2>2. [buffer.voxels EXCEPT ![v] = [buffer.voxels[v] EXCEPT ![k] = p]]
          \in [Voxels -> [Lanes -> PointThreads \cup {Stale}]]
    BY <1>2, <2>1 DEF Buffers
  <2> QED BY <1>1, <1>2, <1>5, <2>2 DEF Buffers
<1>9. /\ Running(PointThreads)' /\ pc'[p] = "done"
      /\ \A q \in PointThreads \ {p} : pc'[q] = pc[q]
  BY <1>1, <1>3 DEF Running
<1>10. \A q \in PointThreads : Took(q)' <=> Took(q) BY <1>1, <1>3, <1>9 DEF Took
<1>11. \A q \in PointThreads : pc'[q] # "ready" <=> pc[q] # "ready" BY <1>1, <1>9
<1>12. Took(p) BY <1>1, <1>3 DEF Took
<1>13. ASSUME NEW q \in PointThreads, Took(q)', pc'[q] = "done", taken[q] < MaxPointsPerVoxel
       PROVE  buffer'.voxels[VoxelOf(call, q)][taken[q]] = q
  <2>1. CASE q = p BY <1>7, <2>1
  <2>2. CASE q # p
    <3>1. Took(q) /\ pc[q] = "done" BY <1>9, <1>10, <1>13, <2>2
    <3>2. buffer.voxels[VoxelOf(call, q)][taken[q]] = q BY <1>2, <1>13, <3>1 DEF PointsTaken
    <3>3. ~(VoxelOf(call, q) = v /\ taken[q] = k) BY <1>2, <1>12, <2>2, <3>1 DEF PointsTaken
    <3>4. VoxelOf(call, q) \in Voxels BY <1>2, <3>1, PointLayout DEF Took
    <3>5. taken[q] \in Lanes BY <1>3, <1>13, Sizes DEF Running, Lanes
    <3> HIDE DEF v, k
    <3> QED BY <1>7, <3>2, <3>3, <3>4, <3>5
  <2> QED BY <2>1, <2>2
<1> HIDE DEF v, k
<1>14. \A u \in Voxels : {q \in PointsIn(call, u) : pc'[q] # "ready"} = {q \in PointsIn(call, u) : pc[q] # "ready"}
  BY <1>11 DEF PointsIn
<1>15. \A q \in PointThreads : /\ pc'[q] # "done" => InRange(call, q)
                               /\ pc'[q] = "slot" => taken[q] < MaxPointsPerVoxel
                               /\ Took(q)' => taken[q] < buffer.mask[VoxelOf(call, q)]
  BY <1>2, <1>9, <1>10 DEF PointsTaken
<1>16. \A q, r \in PointThreads :
          Took(q)' /\ Took(r)' /\ VoxelOf(call, q) = VoxelOf(call, r) /\ taken[q] = taken[r] => q = r
  BY <1>2, <1>10 DEF PointsTaken
<1>17. \A u \in Voxels : \A i \in 0 .. buffer.mask[u] - 1 :
          \E q \in PointThreads : Took(q)' /\ VoxelOf(call, q) = u /\ taken[q] = i
  BY <1>2, <1>10 DEF PointsTaken
<1>18. \A u \in Voxels : buffer.mask[u] = Cardinality({q \in PointsIn(call, u) : pc'[q] # "ready"})
  BY <1>2, <1>14 DEF PointsTaken
<1>19. \A b \in Batches : buffer.pillar_num[b] = 0 BY <1>2 DEF PointsTaken
<1>20. PointsTaken'
  BY <1>1, <1>5, <1>9, <1>13, <1>15, <1>16, <1>17, <1>18, <1>19 DEF PointsTaken
<1> QED BY <1>1, <1>2, <1>8, <1>20 DEF VoxelInv

-----------------------------------------------------------------------------
(* The kernel that stores the pillars.                                      *)

LEMMA VoxelsEnd ==
    ASSUME PointsTaken, call \in Calls, buffer \in Buffers, \A p \in PointThreads : pc[p] = "done"
    PROVE  VoxelsFilled
<1> SUFFICES ASSUME NEW v \in Voxels
             PROVE  /\ buffer.mask[v] = Cardinality(PointsIn(call, v))
                    /\ HoldsPoints(buffer.voxels[v], StoredCount(v), v)
  BY DEF VoxelsFilled
<1>1. buffer.mask[v] = Cardinality(PointsIn(call, v))
  <2>1. {p \in PointsIn(call, v) : pc[p] # "ready"} = PointsIn(call, v) BY DEF PointsIn
  <2> QED BY <2>1 DEF PointsTaken
<1>2. buffer.mask[v] \in Nat BY DEF Buffers
<1>3. StoredCount(v) \in Nat /\ StoredCount(v) <= buffer.mask[v] /\ StoredCount(v) <= MaxPointsPerVoxel
  BY <1>2, Sizes, AtMostFacts DEF StoredCount
<1>4. ASSUME NEW i \in 0 .. StoredCount(v) - 1
      PROVE  \E p \in PointsIn(call, v) : taken[p] = i /\ buffer.voxels[v][i] = p
  <2>1. i \in 0 .. buffer.mask[v] - 1 /\ i < MaxPointsPerVoxel BY <1>2, <1>3, Sizes
  <2>2. PICK p \in PointThreads : Took(p) /\ VoxelOf(call, p) = v /\ taken[p] = i
    BY <2>1 DEF PointsTaken
  <2>3. buffer.voxels[v][i] = p BY <2>1, <2>2 DEF PointsTaken
  <2> QED BY <2>2, <2>3 DEF Took, PointsIn
<1> QED BY <1>1, <1>4 DEF HoldsPoints

LEMMA FilledHasPoints ==
    \A c, b : \A v \in Filled(c, b) :
        v \in Voxels /\ VoxelBatch(v) = b /\ Cardinality(PointsIn(c, v)) \in Nat \ {0}
<1> SUFFICES ASSUME NEW c, NEW b, NEW v \in Filled(c, b)
             PROVE  v \in Voxels /\ VoxelBatch(v) = b /\ Cardinality(PointsIn(c, v)) \in Nat \ {0}
  OBVIOUS
<1>1. v \in Voxels /\ VoxelBatch(v) = b /\ PointsIn(c, v) # {} BY DEF Filled
<1>2. IsFiniteSet(PointsIn(c, v)) /\ Cardinality(PointsIn(c, v)) \in Nat BY Finite
<1>3. Cardinality(PointsIn(c, v)) # 0 BY <1>1, <1>2, FS_EmptySet
<1> QED BY <1>1, <1>2, <1>3

LEMMA FilledVoxel ==
    ASSUME VoxelsFilled, NEW v \in Voxels, buffer.mask[v] > 0
    PROVE  v \in Filled(call, VoxelBatch(v))
<1>1. Cardinality(PointsIn(call, v)) # 0 BY DEF VoxelsFilled
<1>2. PointsIn(call, v) # {} BY <1>1, FS_EmptySet
<1> QED BY <1>2 DEF Filled

LEMMA PillarsStart ==
    ASSUME VoxelInv, generateBaseFeatures
    PROVE  VoxelInv'
<1>1. /\ kernel = "generateVoxels" /\ kernel' = "generateBaseFeatures" /\ \A p \in DOMAIN pc : pc[p] = "done"
      /\ pc' = [v \in Voxels |-> IF v \in {u \in Voxels : buffer.mask[u] > 0} THEN "ready" ELSE "done"]
      /\ taken' = [v \in Voxels |-> 0]
      /\ UNCHANGED <<call, buffer, outside>>
  BY DEF generateBaseFeatures, Start, Ended
<1>2. PointsTaken /\ call \in Calls /\ buffer \in Buffers /\ ~outside BY <1>1 DEF VoxelInv
<1>3. \A p \in PointThreads : pc[p] = "done" BY <1>1, <1>2 DEF PointsTaken, Running
<1>4. VoxelsFilled BY <1>2, <1>3, VoxelsEnd
<1>5. VoxelsFilled' BY <1>1, <1>4 DEF VoxelsFilled, HoldsPoints, StoredCount
<1>6. \A v \in Voxels : (pc'[v] = "ready" <=> buffer.mask[v] > 0) /\ (pc'[v] # "ready" => pc'[v] = "done")
  BY <1>1
<1>7. Running(Voxels)' BY <1>1 DEF Running
<1>8. ASSUME NEW b \in Batches
      PROVE  buffer.pillar_num[b] = Cardinality({v \in Filled(call, b) : pc'[v] # "ready"})
  <2>1. \A v \in Filled(call, b) : pc'[v] = "ready"
    BY <1>4, <1>6, FilledHasPoints DEF VoxelsFilled
  <2>2. {v \in Filled(call, b) : pc'[v] # "ready"} = {} BY <2>1
  <2>3. buffer.pillar_num[b] = 0 BY <1>2 DEF PointsTaken
  <2> QED BY <2>2, <2>3, FS_EmptySet
<1>9. PillarsTaken' BY <1>1, <1>6, <1>7, <1>8 DEF PillarsTaken, TookPillar
<1> QED BY <1>1, <1>2, <1>5, <1>9 DEF VoxelInv

LEMMA TakePillarStep ==
    ASSUME VoxelInv, NEW v \in Voxels, TakePillar(v)
    PROVE  VoxelInv'
<1> DEFINE b == VoxelBatch(v)
           n == buffer.pillar_num[b]
<1>1. /\ kernel = "generateBaseFeatures" /\ pc[v] = "ready" /\ UNCHANGED <<call, kernel, outside>>
      /\ buffer' = [buffer EXCEPT !.pillar_num[b] = @ + 1]
      /\ taken' = [taken EXCEPT ![v] = n] /\ pc' = [pc EXCEPT ![v] = "slot"]
  BY DEF TakePillar, At, Takes
<1>2. VoxelsFilled /\ PillarsTaken /\ call \in Calls /\ buffer \in Buffers /\ ~outside BY <1>1 DEF VoxelInv
<1>3. Running(Voxels) /\ buffer.mask[v] > 0 BY <1>1, <1>2 DEF PillarsTaken
<1>4. b \in Batches /\ n \in Nat BY <1>2, VoxelLayout DEF Buffers
<1>5. v \in Filled(call, b) BY <1>2, <1>3, FilledVoxel
<1>6. /\ buffer'.mask = buffer.mask /\ buffer'.voxels = buffer.voxels
      /\ buffer'.pillar_num = [buffer.pillar_num EXCEPT ![b] = n + 1]
      /\ buffer'.voxel_num_points = buffer.voxel_num_points /\ buffer'.coords = buffer.coords
      /\ buffer'.voxel_features = buffer.voxel_features /\ buffer'.features = buffer.features
  BY <1>1, <1>2 DEF Buffers
<1>7. buffer' \in Buffers
  <2>1. n + 1 \in Nat BY <1>4
  <2>2. [buffer.pillar_num EXCEPT ![b] = n + 1] \in [Batches -> Nat] BY <1>2, <2>1 DEF Buffers
  <2>3. buffer' = [buffer EXCEPT !.pillar_num = [buffer.pillar_num EXCEPT ![b] = n + 1]] BY <1>1
  <2> HIDE DEF b, n
  <2> QED BY <1>2, <2>2, <2>3 DEF Buffers
<1>8. /\ buffer'.pillar_num[b] = n + 1
      /\ \A d \in Batches \ {b} : buffer'.pillar_num[d] = buffer.pillar_num[d]
  BY <1>2, <1>4, <1>6 DEF Buffers
<1>9. \A d \in Batches : buffer.pillar_num[d] \in Nat BY <1>2 DEF Buffers
<1>10. /\ Running(Voxels)' /\ pc'[v] = "slot" /\ taken'[v] = n
       /\ \A u \in Voxels \ {v} : pc'[u] = pc[u] /\ taken'[u] = taken[u]
  BY <1>1, <1>3, <1>4 DEF Running
<1>11. \A u \in Voxels : TookPillar(u)' <=> TookPillar(u) \/ u = v
  BY <1>1, <1>3, <1>6, <1>10 DEF TookPillar
<1>12. \A u \in Voxels : taken[u] \in Nat /\ VoxelBatch(u) \in Batches BY <1>3, VoxelLayout DEF Running
<1>13. \A u \in Voxels : pc'[u] # "done" => buffer'.mask[u] > 0 BY <1>2, <1>3, <1>6, <1>10 DEF PillarsTaken
<1>14. ASSUME NEW u \in Voxels, TookPillar(u)' PROVE taken'[u] < buffer'.pillar_num[VoxelBatch(u)]
  <2>1. CASE u = v BY <1>4, <1>8, <1>10, <2>1
  <2>2. CASE u # v
    <3>1. taken[u] < buffer.pillar_num[VoxelBatch(u)] BY <1>2, <1>11, <1>14, <2>2 DEF PillarsTaken
    <3>2. /\ buffer.pillar_num[VoxelBatch(u)] \in Nat /\ buffer'.pillar_num[VoxelBatch(u)] \in Nat
          /\ buffer.pillar_num[VoxelBatch(u)] <= buffer'.pillar_num[VoxelBatch(u)]
      BY <1>4, <1>8, <1>9, <1>12
    <3> QED BY <1>10, <1>12, <2>2, <3>1, <3>2
  <2> QED BY <2>1, <2>2
<1>15. ASSUME NEW u \in Voxels, NEW w \in Voxels, TookPillar(u)', TookPillar(w)',
              VoxelBatch(u) = VoxelBatch(w), taken'[u] = taken'[w]
       PROVE  u = w
  <2>1. \A x \in Voxels \ {v} : TookPillar(x) /\ VoxelBatch(x) = b => taken[x] < n
    BY <1>2 DEF PillarsTaken
  <2>2. \A x \in Voxels \ {v} : TookPillar(x) /\ VoxelBatch(x) = b => taken'[x] # n
    BY <1>4, <1>10, <1>12, <2>1
  <2>3. CASE u = v BY <1>10, <1>11, <1>15, <2>2, <2>3
  <2>4. CASE w = v BY <1>10, <1>11, <1>15, <2>2, <2>4
  <2>5. CASE u # v /\ w # v BY <1>2, <1>10, <1>11, <1>15, <2>5 DEF PillarsTaken
  <2> QED BY <2>3, <2>4, <2>5
<1>16. ASSUME NEW d \in Batches
       PROVE  buffer'.pillar_num[d] = Cardinality({u \in Filled(call, d) : pc'[u] # "ready"})
  <2> DEFINE old == {u \in Filled(call, d) : pc[u] # "ready"}
             new == {u \in Filled(call, d) : pc'[u] # "ready"}
  <2>1. buffer.pillar_num[d] = Cardinality(old) BY <1>2 DEF PillarsTaken
  <2>2. \A u \in Filled(call, d) : u \in Voxels /\ VoxelBatch(u) = d BY DEF Filled
  <2>3. CASE d = b
    <3>1. new = old \cup {v} BY <1>5, <1>10, <2>2, <2>3
    <3>2. v \notin old BY <1>1
    <3>3. IsFiniteSet(old)
      <4>1. old \in SUBSET Filled(call, d) OBVIOUS
      <4> QED BY <4>1, Finite, FS_Subset
    <3> HIDE DEF old, new
    <3>4. Cardinality(new) = Cardinality(old) + 1 BY <3>1, <3>2, <3>3, FS_AddElement
    <3> QED BY <1>8, <2>1, <2>3, <3>4 DEF new
  <2>4. CASE d # b
    <3>1. new = old BY <1>10, <2>2, <2>4
    <3> QED BY <1>8, <2>1, <2>4, <3>1
  <2> QED BY <2>3, <2>4
<1>17. ASSUME NEW u \in Voxels, TookPillar(u)', pc'[u] = "done" PROVE PillarHolds(PillarOf(u), u)'
  <2>1. u # v /\ TookPillar(u) /\ pc[u] = "done" /\ taken'[u] = taken[u] BY <1>10, <1>11, <1>17
  <2>2. PillarHolds(PillarOf(u), u) BY <1>2, <2>1 DEF PillarsTaken
  <2> QED BY <1>1, <1>6, <2>1, <2>2 DEF PillarHolds, PillarOf, HoldsPoints
<1>18. VoxelsFilled' BY <1>1, <1>2, <1>6 DEF VoxelsFilled, HoldsPoints, StoredCount
<1> HIDE DEF b, n
<1>19. PillarsTaken' BY <1>1, <1>10, <1>13, <1>14, <1>15, <1>16, <1>17 DEF PillarsTaken
<1> QED BY <1>1, <1>2, <1>7, <1>18, <1>19 DEF VoxelInv

LEMMA PillarNumFits ==
    ASSUME Careful, PillarsTaken, call \in Calls, NEW b \in Batches
    PROVE  buffer.pillar_num[b] \in Nat /\ buffer.pillar_num[b] <= MaxPillarNum
<1> DEFINE counted == {v \in Filled(call, b) : pc[v] # "ready"}
<1>1. buffer.pillar_num[b] = Cardinality(counted) BY DEF PillarsTaken
<1>2. counted \in SUBSET Filled(call, b) OBVIOUS
<1> HIDE DEF counted
<1>3. Cardinality(counted) \in Nat /\ Cardinality(counted) <= Cardinality(Filled(call, b))
  BY <1>2, Finite, FS_Subset, FS_CardinalityType
<1>4. Cardinality(Filled(call, b)) \in Nat /\ Cardinality(Filled(call, b)) <= MaxPillarNum
  BY Finite, CallFacts
<1> QED BY <1>1, <1>3, <1>4, Sizes

LEMMA PillarFree ==
    ASSUME Careful, PillarsTaken, call \in Calls, NEW v \in Voxels, TookPillar(v)
    PROVE  /\ PillarOf(v) \in Pillars /\ PillarBatch(PillarOf(v)) = VoxelBatch(v)
           /\ PillarOf(v) % MaxPillarNum = taken[v]
<1>1. VoxelBatch(v) \in Batches BY VoxelLayout
<1>2. taken[v] \in Nat /\ taken[v] < buffer.pillar_num[VoxelBatch(v)] BY DEF PillarsTaken, Running
<1>3. taken[v] < MaxPillarNum BY <1>1, <1>2, PillarNumFits, Sizes
<1> QED BY <1>1, <1>2, <1>3, PillarPlace DEF PillarOf

LEMMA StorePillarStep ==
    ASSUME Careful, VoxelInv, NEW v \in Voxels, StorePillar(v)
    PROVE  VoxelInv'
<1> DEFINE s == PillarOf(v)
           count == StoredCount(v)
           row == [i \in Lanes |-> IF i < count THEN buffer.voxels[v][i] ELSE buffer.voxel_features[s][i]]
<1>1. kernel = "generateBaseFeatures" /\ pc[v] = "slot" /\ UNCHANGED <<call, kernel>> BY DEF StorePillar, At
<1>2. VoxelsFilled /\ PillarsTaken /\ call \in Calls /\ buffer \in Buffers /\ ~outside BY <1>1 DEF VoxelInv
<1>3. Running(Voxels) /\ buffer.mask[v] > 0 /\ TookPillar(v) BY <1>1, <1>2 DEF PillarsTaken, TookPillar
<1>4. s \in Pillars BY <1>2, <1>3, PillarFree
<1>5. /\ UNCHANGED <<outside, taken>> /\ pc' = [pc EXCEPT ![v] = "done"]
      /\ buffer' = [buffer EXCEPT !.voxel_num_points[s] = count, !.coords[s] = v % GridSize,
                                  !.voxel_features[s] = row]
  BY <1>4 DEF StorePillar, Finish
<1>6. /\ count = AtMost(Cardinality(PointsIn(call, v)), MaxPointsPerVoxel)
      /\ count \in 0 .. MaxPointsPerVoxel
  BY <1>2, Sizes, Finite, AtMostFacts DEF VoxelsFilled, StoredCount
<1>7. row \in [Lanes -> PointThreads \cup {Stale}] BY <1>2, <1>4 DEF Buffers
<1>8. v % GridSize \in Cells BY VoxelLayout
<1>9. HoldsPoints(row, count, v)
  <2>1. HoldsPoints(buffer.voxels[v], count, v) BY <1>2 DEF VoxelsFilled
  <2>2. \A i \in 0 .. count - 1 : row[i] = buffer.voxels[v][i] BY <1>6, Sizes DEF Lanes
  <2> HIDE DEF row, count
  <2> QED BY <2>1, <2>2 DEF HoldsPoints
<1> HIDE DEF s, count, row
<1>10. /\ buffer'.mask = buffer.mask /\ buffer'.voxels = buffer.voxels
       /\ buffer'.pillar_num = buffer.pillar_num /\ buffer'.features = buffer.features
       /\ buffer'.voxel_num_points = [buffer.voxel_num_points EXCEPT ![s] = count]
       /\ buffer'.coords = [buffer.coords EXCEPT ![s] = v % GridSize]
       /\ buffer'.voxel_features = [buffer.voxel_features EXCEPT ![s] = row]
  BY <1>2, <1>5 DEF Buffers
<1>11. buffer' \in Buffers
  <2>1. [buffer.voxel_num_points EXCEPT ![s] = count] \in [Pillars -> 0 .. MaxPointsPerVoxel]
    BY <1>2, <1>6 DEF Buffers
  <2>2. [buffer.coords EXCEPT ![s] = v % GridSize] \in [Pillars -> Cells \cup {Stale}]
    BY <1>2, <1>8 DEF Buffers
  <2>3. [buffer.voxel_features EXCEPT ![s] = row] \in [Pillars -> [Lanes -> PointThreads \cup {Stale}]]
    BY <1>2, <1>7 DEF Buffers
  <2>4. buffer' = [buffer EXCEPT !.voxel_num_points = [buffer.voxel_num_points EXCEPT ![s] = count],
                                 !.coords = [buffer.coords EXCEPT ![s] = v % GridSize],
                                 !.voxel_features = [buffer.voxel_features EXCEPT ![s] = row]]
    BY <1>5
  <2> QED BY <1>2, <2>1, <2>2, <2>3, <2>4 DEF Buffers
<1>12. /\ buffer'.voxel_num_points[s] = count /\ buffer'.coords[s] = v % GridSize
       /\ buffer'.voxel_features[s] = row
       /\ \A r \in Pillars \ {s} : /\ buffer'.voxel_num_points[r] = buffer.voxel_num_points[r]
                                   /\ buffer'.coords[r] = buffer.coords[r]
                                   /\ buffer'.voxel_features[r] = buffer.voxel_features[r]
  BY <1>2, <1>4, <1>10 DEF Buffers
<1>13. /\ Running(Voxels)' /\ pc'[v] = "done" /\ \A u \in Voxels \ {v} : pc'[u] = pc[u]
  BY <1>3, <1>5 DEF Running
<1>14. \A u \in Voxels : (TookPillar(u)' <=> TookPillar(u)) /\ (pc'[u] # "ready" <=> pc[u] # "ready")
  BY <1>1, <1>10, <1>13 DEF TookPillar
<1>15. ASSUME NEW u \in Voxels, TookPillar(u)', pc'[u] = "done" PROVE PillarHolds(PillarOf(u), u)'
  <2>1. CASE u = v
    <3>1. PillarOf(u)' = s BY <1>5, <2>1 DEF PillarOf, s
    <3> QED BY <1>1, <1>6, <1>9, <1>12, <2>1, <3>1 DEF PillarHolds, HoldsPoints
  <2>2. CASE u # v
    <3>1. TookPillar(u) /\ pc[u] = "done" BY <1>13, <1>14, <1>15, <2>2
    <3>2. PillarHolds(PillarOf(u), u) BY <1>2, <3>1 DEF PillarsTaken
    <3>3. PillarOf(u) \in Pillars BY <1>2, <3>1, PillarFree
    <3>4. PillarOf(u) # s
      <4> SUFFICES ASSUME PillarOf(u) = PillarOf(v) PROVE FALSE BY DEF s
      <4>1. VoxelBatch(u) = VoxelBatch(v) /\ taken[u] = taken[v] BY <1>2, <1>3, <3>1, PillarFree
      <4> QED BY <1>2, <1>3, <2>2, <3>1, <4>1 DEF PillarsTaken
    <3>5. PillarOf(u)' = PillarOf(u) BY <1>5 DEF PillarOf
    <3> QED BY <1>1, <1>12, <3>2, <3>3, <3>4, <3>5 DEF PillarHolds, HoldsPoints
  <2> QED BY <2>1, <2>2
<1>16. VoxelsFilled' BY <1>1, <1>2, <1>10 DEF VoxelsFilled, HoldsPoints, StoredCount
<1>17. \A u \in Voxels : /\ pc'[u] # "done" => buffer'.mask[u] > 0
                         /\ TookPillar(u)' => taken'[u] < buffer'.pillar_num[VoxelBatch(u)]
  BY <1>2, <1>3, <1>5, <1>10, <1>13, <1>14 DEF PillarsTaken
<1>18. \A u, w \in Voxels :
          TookPillar(u)' /\ TookPillar(w)' /\ VoxelBatch(u) = VoxelBatch(w) /\ taken'[u] = taken'[w] => u = w
  BY <1>2, <1>5, <1>14 DEF PillarsTaken
<1>19. ASSUME NEW b \in Batches
       PROVE  buffer'.pillar_num[b] = Cardinality({u \in Filled(call, b) : pc'[u] # "ready"})
  <2>1. {u \in Filled(call, b) : pc'[u] # "ready"} = {u \in Filled(call, b) : pc[u] # "ready"}
    BY <1>14 DEF Filled
  <2> QED BY <1>2, <1>10, <2>1 DEF PillarsTaken
<1>20. PillarsTaken' BY <1>1, <1>13, <1>15, <1>17, <1>18, <1>19 DEF PillarsTaken
<1> QED BY <1>1, <1>2, <1>5, <1>11, <1>16, <1>20 DEF VoxelInv

-----------------------------------------------------------------------------
(* The kernel that computes the features, and the calls around.             *)

LEMMA PillarsEnd ==
    ASSUME Careful, VoxelsFilled, PillarsTaken, call \in Calls, \A v \in Voxels : pc[v] = "done"
    PROVE  PillarsFilled
<1> SUFFICES ASSUME NEW b \in Batches
             PROVE  /\ buffer.pillar_num[b] = Cardinality(Filled(call, b))
                    /\ \A v \in Filled(call, b) : \E s \in Occupied(b) : PillarHolds(s, v)
  BY DEF PillarsFilled
<1>1. {v \in Filled(call, b) : pc[v] # "ready"} = Filled(call, b) BY DEF Filled
<1>2. buffer.pillar_num[b] = Cardinality(Filled(call, b)) BY <1>1 DEF PillarsTaken
<1>3. ASSUME NEW v \in Filled(call, b) PROVE \E s \in Occupied(b) : PillarHolds(s, v)
  <2>1. v \in Voxels /\ VoxelBatch(v) = b /\ TookPillar(v)
    BY FilledHasPoints DEF VoxelsFilled, TookPillar
  <2>2. /\ PillarOf(v) \in Pillars /\ PillarBatch(PillarOf(v)) = b
        /\ PillarOf(v) % MaxPillarNum = taken[v]
    BY <2>1, PillarFree
  <2>3. taken[v] < buffer.pillar_num[b] /\ PillarHolds(PillarOf(v), v) BY <2>1 DEF PillarsTaken
  <2> QED BY <2>2, <2>3 DEF Occupied
<1> QED BY <1>2, <1>3

LEMMA FeaturesStart ==
    ASSUME Careful, VoxelInv, generateFeatures
    PROVE  VoxelInv'
<1>1. /\ kernel = "generateBaseFeatures" /\ \A v \in DOMAIN pc : pc[v] = "done"
      /\ UNCHANGED <<call, buffer, outside>>
  BY DEF generateFeatures, Ended
<1>2. VoxelsFilled /\ PillarsTaken /\ call \in Calls /\ buffer \in Buffers /\ ~outside BY <1>1 DEF VoxelInv
<1>3. \A v \in Voxels : pc[v] = "done" BY <1>1, <1>2 DEF PillarsTaken, Running
<1>4. PillarsFilled BY <1>2, <1>3, PillarsEnd
<1>5. PillarsFilled' BY <1>1, <1>4 DEF PillarsFilled, Occupied, PillarHolds, HoldsPoints
<1>6. CASE call.num_point_values = 4
  <2>1. /\ kernel' = "generateFeatures" /\ taken' = [s \in Pillars |-> 0]
        /\ pc' = [s \in Pillars |-> IF s \in Pillars THEN "ready" ELSE "done"]
    BY <1>6 DEF generateFeatures, Start
  <2>2. \A s \in Pillars : pc'[s] = "ready" BY <2>1
  <2>3. Running(Pillars)' BY <2>1 DEF Running
  <2>4. FeaturesTaken' BY <2>2, <2>3 DEF FeaturesTaken
  <2> QED BY <1>1, <1>2, <1>5, <2>1, <2>4 DEF VoxelInv
<1>7. CASE call.num_point_values # 4
  <2>1. kernel' = "returned" BY <1>7 DEF generateFeatures, Start
  <2> QED BY <1>1, <1>2, <1>7, <2>1 DEF VoxelInv
<1> QED BY <1>6, <1>7

LEMMA ReadPillarNumStep ==
    ASSUME Careful, VoxelInv, NEW s \in Pillars, ReadPillarNum(s)
    PROVE  VoxelInv'
<1> DEFINE n == buffer.pillar_num[PillarBatch(s)]
<1>1. /\ kernel = "generateFeatures" /\ pc[s] = "ready" /\ UNCHANGED <<call, kernel, buffer, outside>>
      /\ taken' = [taken EXCEPT ![s] = AtMost(n, MaxPillarNum)] /\ pc' = [pc EXCEPT ![s] = "slot"]
  BY DEF ReadPillarNum, At, Takes
<1>2. PillarsFilled /\ FeaturesTaken /\ call \in Calls /\ buffer \in Buffers /\ ~outside BY <1>1 DEF VoxelInv
<1>3. PillarBatch(s) \in Batches BY PillarLayout
<1>4. n \in Nat /\ n <= MaxPillarNum
  <2>1. n = Cardinality(Filled(call, PillarBatch(s))) BY <1>2, <1>3 DEF PillarsFilled
  <2> QED BY <1>2, <1>3, <2>1, Finite, CallFacts
<1>5. taken' = [taken EXCEPT ![s] = n] BY <1>1, <1>4, Sizes, AtMostFacts
<1>6. /\ Running(Pillars)' /\ pc'[s] = "slot" /\ taken'[s] = n
      /\ \A r \in Pillars \ {s} : pc'[r] = pc[r] /\ taken'[r] = taken[r]
  BY <1>1, <1>2, <1>4, <1>5 DEF FeaturesTaken, Running
<1>7. FeaturesTaken'
  <2>1. \A r \in Pillars : pc'[r] # "ready" => taken'[r] = buffer.pillar_num[PillarBatch(r)]
    BY <1>2, <1>6 DEF FeaturesTaken
  <2>2. \A r \in Pillars : pc'[r] = "done" /\ r % MaxPillarNum < buffer.pillar_num[PillarBatch(r)] =>
            FeatureStored(r)
    BY <1>2, <1>6 DEF FeaturesTaken
  <2> QED BY <1>1, <1>6, <2>1, <2>2 DEF FeaturesTaken, FeatureStored, Feature
<1>8. PillarsFilled' BY <1>1, <1>2 DEF PillarsFilled, Occupied, PillarHolds, HoldsPoints
<1> QED BY <1>1, <1>2, <1>7, <1>8 DEF VoxelInv

LEMMA FeatureType ==
    ASSUME buffer \in Buffers, NEW s \in Pillars, NEW i \in Lanes
    PROVE  Feature(s, i) \in FeatureRecord
<1> DEFINE held == buffer.voxel_features[s]
           count == buffer.voxel_num_points[s]
<1>1. held \in [Lanes -> PointThreads \cup {Stale}] /\ count \in 0 .. MaxPointsPerVoxel
      /\ buffer.coords[s] \in Cells \cup {Stale}
  BY DEF Buffers
<1>2. \A j \in 0 .. count - 1 : j \in Lanes BY <1>1, Sizes DEF Lanes
<1>3. {held[j] : j \in 0 .. count - 1} \in SUBSET (PointThreads \cup {Stale}) BY <1>1, <1>2
<1>4. held[i] \in PointThreads \cup {Stale} BY <1>1
<1> QED BY <1>1, <1>3, <1>4 DEF Feature, FeatureRecord, Zero

LEMMA StoreFeaturesStep ==
    ASSUME VoxelInv, NEW s \in Pillars, StoreFeatures(s)
    PROVE  VoxelInv'
<1> DEFINE b == PillarBatch(s)
           within == s % MaxPillarNum < buffer.pillar_num[b]
           row == IF within THEN [i \in Lanes |-> Feature(s, i)] ELSE buffer.features[s]
<1>1. /\ kernel = "generateFeatures" /\ pc[s] = "slot" /\ UNCHANGED <<call, kernel, outside, taken>>
      /\ pc' = [pc EXCEPT ![s] = "done"]
      /\ buffer' = [buffer EXCEPT !.pillar_num[b] = IF s % MaxPillarNum = 0 THEN taken[s] ELSE @,
                                  !.features[s] = IF s % MaxPillarNum < taken[s]
                                                  THEN [i \in Lanes |-> Feature(s, i)] ELSE @]
  BY DEF StoreFeatures, At, Finish
<1>2. PillarsFilled /\ FeaturesTaken /\ call \in Calls /\ buffer \in Buffers /\ ~outside BY <1>1 DEF VoxelInv
<1>3. Running(Pillars) /\ taken[s] = buffer.pillar_num[b] BY <1>1, <1>2 DEF FeaturesTaken
<1>4. b \in Batches BY PillarLayout
<1>5. row \in [Lanes -> FeatureRecord \cup {Stale}]
  <2>1. \A i \in Lanes : Feature(s, i) \in FeatureRecord BY <1>2, FeatureType
  <2>2. [i \in Lanes |-> Feature(s, i)] \in [Lanes -> FeatureRecord \cup {Stale}] BY <2>1
  <2>3. buffer.features[s] \in [Lanes -> FeatureRecord \cup {Stale}] BY <1>2 DEF Buffers
  <2> QED BY <2>2, <2>3
<1>6. /\ buffer'.mask = buffer.mask /\ buffer'.voxels = buffer.voxels /\ buffer'.coords = buffer.coords
      /\ buffer'.voxel_num_points = buffer.voxel_num_points
      /\ buffer'.voxel_features = buffer.voxel_features
      /\ buffer'.pillar_num = buffer.pillar_num
      /\ buffer'.features = [buffer.features EXCEPT ![s] = row]
  <2>1. /\ buffer'.mask = buffer.mask /\ buffer'.voxels = buffer.voxels /\ buffer'.coords = buffer.coords
        /\ buffer'.voxel_num_points = buffer.voxel_num_points
        /\ buffer'.voxel_features = buffer.voxel_features
        /\ buffer'.pillar_num = [buffer.pillar_num EXCEPT ![b] = buffer.pillar_num[b]]
        /\ buffer'.features = [buffer.features EXCEPT ![s] = row]
    BY <1>1, <1>2, <1>3 DEF Buffers
  <2>2. buffer.pillar_num \in [Batches -> Nat] BY <1>2 DEF Buffers
  <2>3. [buffer.pillar_num EXCEPT ![b] = buffer.pillar_num[b]] = buffer.pillar_num BY <1>4, <2>2
  <2> QED BY <2>1, <2>3
<1>7. buffer' \in Buffers
  <2>1. [buffer.features EXCEPT ![s] = row] \in [Pillars -> [Lanes -> FeatureRecord \cup {Stale}]]
    BY <1>2, <1>5 DEF Buffers
  <2>2. buffer' = [buffer EXCEPT !.pillar_num = buffer'.pillar_num, !.features = buffer'.features]
    <3>1. buffer' = [buffer EXCEPT !.pillar_num = [buffer.pillar_num EXCEPT ![b] =
                                        IF s % MaxPillarNum = 0 THEN taken[s] ELSE @],
                                   !.features = [buffer.features EXCEPT ![s] =
                                        IF s % MaxPillarNum < taken[s]
                                        THEN [i \in Lanes |-> Feature(s, i)] ELSE @]]
      BY <1>1
    <3> HIDE DEF b
    <3> QED BY <1>2, <3>1 DEF Buffers
  <2> HIDE DEF row, b
  <2> QED BY <1>2, <1>6, <2>1, <2>2 DEF Buffers
<1>8. \A r \in Pillars \ {s} : buffer'.features[r] = buffer.features[r] BY <1>2, <1>6 DEF Buffers
<1>9. within => buffer'.features[s] = [i \in Lanes |-> Feature(s, i)] BY <1>2, <1>6 DEF Buffers
<1>10. /\ Running(Pillars)' /\ pc'[s] = "done" /\ \A r \in Pillars \ {s} : pc'[r] = pc[r]
  BY <1>1, <1>3 DEF Running
<1>11. \A r \in Pillars : FeatureStored(r)' <=> buffer'.features[r] = [i \in Lanes |-> Feature(r, i)]
  BY <1>6 DEF FeatureStored, Feature
<1>12. FeaturesTaken'
  <2>1. \A r \in Pillars : pc'[r] # "ready" => taken'[r] = buffer'.pillar_num[PillarBatch(r)]
    BY <1>1, <1>2, <1>6, <1>10 DEF FeaturesTaken
  <2>2. ASSUME NEW r \in Pillars, pc'[r] = "done", r % MaxPillarNum < buffer'.pillar_num[PillarBatch(r)]
        PROVE  FeatureStored(r)'
    <3>1. CASE r = s BY <1>6, <1>9, <1>11, <2>2, <3>1
    <3>2. CASE r # s
      <4>1. FeatureStored(r) BY <1>2, <1>6, <1>10, <2>2, <3>2 DEF FeaturesTaken
      <4> QED BY <1>8, <1>11, <3>2, <4>1 DEF FeatureStored
    <3> QED BY <3>1, <3>2
  <2> QED BY <1>10, <2>1, <2>2 DEF FeaturesTaken
<1>13. PillarsFilled' BY <1>1, <1>2, <1>6 DEF PillarsFilled, Occupied, PillarHolds, HoldsPoints
<1> QED BY <1>1, <1>2, <1>7, <1>12, <1>13 DEF VoxelInv

LEMMA ReturnStep ==
    ASSUME VoxelInv, Return
    PROVE  VoxelInv'
<1>1. /\ kernel = "generateFeatures" /\ kernel' = "returned" /\ \A s \in DOMAIN pc : pc[s] = "done"
      /\ UNCHANGED <<call, buffer, outside>>
  BY DEF Return, Start, Ended
<1>2. PillarsFilled /\ FeaturesTaken /\ call \in Calls /\ buffer \in Buffers /\ ~outside BY <1>1 DEF VoxelInv
<1>3. \A s \in Pillars : pc[s] = "done" BY <1>1, <1>2 DEF FeaturesTaken, Running
<1>4. FeaturesFilled BY <1>2, <1>3 DEF FeaturesTaken, FeaturesFilled
<1>5. FeaturesFilled' BY <1>1, <1>4 DEF FeaturesFilled, FeatureStored, Feature
<1>6. PillarsFilled' BY <1>1, <1>2 DEF PillarsFilled, Occupied, PillarHolds, HoldsPoints
<1> QED BY <1>1, <1>2, <1>5, <1>6 DEF VoxelInv

LEMMA VoxelInvInit == VoxelInit => VoxelInv
  BY BeforeCallType DEF VoxelInit, VoxelInv

LEMMA VoxelInvStep ==
    ASSUME Careful, NoPointBehind, VoxelInv, [VoxelNext]_voxel_vars
    PROVE  VoxelInv'
<1>1. ASSUME kernel = "none", NEW c \in Calls, generateVoxels(c) PROVE VoxelInv' BY <1>1, VoxelsStart
<1>2. ASSUME NEW p \in PointThreads, TakePoint(p) \/ StorePoint(p) PROVE VoxelInv'
  BY <1>2, TakePointStep, StorePointStep
<1>3. ASSUME generateBaseFeatures PROVE VoxelInv' BY <1>3, PillarsStart
<1>4. ASSUME NEW v \in Voxels, TakePillar(v) \/ StorePillar(v) PROVE VoxelInv'
  BY <1>4, TakePillarStep, StorePillarStep
<1>5. ASSUME generateFeatures PROVE VoxelInv' BY <1>5, FeaturesStart
<1>6. ASSUME NEW s \in Pillars, ReadPillarNum(s) \/ StoreFeatures(s) PROVE VoxelInv'
  BY <1>6, ReadPillarNumStep, StoreFeaturesStep
<1>7. ASSUME Return PROVE VoxelInv' BY <1>7, ReturnStep
<1>8. ASSUME NextFrame PROVE VoxelInv'
  <2>1. kernel' = "none" /\ buffer' = BeforeCall /\ outside' = outside BY <1>8 DEF NextFrame, Start
  <2> QED BY <2>1, BeforeCallType DEF VoxelInv
<1>9. ASSUME UNCHANGED voxel_vars PROVE VoxelInv'
  <2>1. UNCHANGED <<call, kernel, pc, taken, buffer, outside>> BY <1>9 DEF voxel_vars
  <2>2. /\ (PointsTaken' <=> PointsTaken) /\ (VoxelsFilled' <=> VoxelsFilled)
        /\ (PillarsTaken' <=> PillarsTaken) /\ (PillarsFilled' <=> PillarsFilled)
    BY <2>1 DEF PointsTaken, VoxelsFilled, PillarsTaken, PillarsFilled, Running, Took, TookPillar,
                HoldsPoints, PillarHolds, PillarOf, StoredCount, Occupied
  <2>3. (FeaturesTaken' <=> FeaturesTaken) /\ (FeaturesFilled' <=> FeaturesFilled)
    BY <2>1 DEF FeaturesTaken, FeaturesFilled, Running, FeatureStored, Feature
  <2> QED BY <2>1, <2>2, <2>3 DEF VoxelInv
<1> QED BY <1>1, <1>2, <1>3, <1>4, <1>5, <1>6, <1>7, <1>8, <1>9 DEF VoxelNext

-----------------------------------------------------------------------------
(* What follows from the invariant.                                         *)

LEMMA SlotsAreOwned ==
    ASSUME Careful, VoxelInv
    PROVE  SlotsOwned
<1>1. ASSUME kernel = "generateVoxels", NEW p \in PointThreads, NEW q \in PointThreads, p # q,
             pc[p] = "slot", pc[q] = "slot", taken[p] = taken[q]
      PROVE  VoxelOf(call, p) # VoxelOf(call, q)
  <2>1. PointsTaken BY <1>1 DEF VoxelInv
  <2>2. Took(p) /\ Took(q) BY <1>1, <2>1 DEF PointsTaken, Took
  <2> QED BY <1>1, <2>1, <2>2 DEF PointsTaken
<1>2. ASSUME kernel = "generateBaseFeatures", NEW v \in Voxels, NEW u \in Voxels, v # u,
             pc[v] = "slot", pc[u] = "slot"
      PROVE  PillarOf(v) # PillarOf(u)
  <2>1. PillarsTaken /\ call \in Calls BY <1>2 DEF VoxelInv
  <2>2. TookPillar(v) /\ TookPillar(u) BY <1>2, <2>1 DEF PillarsTaken, TookPillar
  <2>3. PillarOf(v) = PillarOf(u) => VoxelBatch(v) = VoxelBatch(u) /\ taken[v] = taken[u]
    BY <2>1, <2>2, PillarFree
  <2> QED BY <1>2, <2>1, <2>2, <2>3 DEF PillarsTaken
<1> QED BY <1>1, <1>2 DEF VoxelInv, SlotsOwned

\* The places of a row that holds points of v are as many points of v as there is room for.
LEMMA RowHasPoints ==
    ASSUME NEW v, NEW row, NEW count, HoldsPoints(row, count, v), Cardinality(PointsIn(call, v)) \in Nat \ {0},
           count = AtMost(Cardinality(PointsIn(call, v)), MaxPointsPerVoxel)
    PROVE  /\ count \in 1 .. MaxPointsPerVoxel
           /\ HasPointsOf({row[i] : i \in 0 .. count - 1}, v)
<1>1. count \in 1 .. MaxPointsPerVoxel BY Sizes DEF AtMost
<1>2. Cardinality({row[i] : i \in 0 .. count - 1}) = count BY <1>1, Sizes, RowCardinality DEF HoldsPoints
<1>3. {row[i] : i \in 0 .. count - 1} \subseteq PointsIn(call, v) BY DEF HoldsPoints
<1> QED BY <1>1, <1>2, <1>3 DEF HasPointsOf

LEMMA PillarsAreComplete ==
    ASSUME VoxelInv
    PROVE  PillarsComplete
<1> SUFFICES ASSUME kernel = "generateFeatures", NEW b \in Batches
             PROVE  /\ Cardinality(Filled(call, b)) = buffer.pillar_num[b]
                    /\ \A v \in Filled(call, b) : \E s \in Occupied(b) :
                          /\ buffer.coords[s] = v % GridSize
                          /\ buffer.voxel_num_points[s] \in 1 .. MaxPointsPerVoxel
                          /\ HasPointsOf({buffer.voxel_features[s][i] :
                                              i \in 0 .. buffer.voxel_num_points[s] - 1}, v)
  BY DEF PillarsComplete
<1>1. PillarsFilled BY DEF VoxelInv
<1>2. ASSUME NEW v \in Filled(call, b)
      PROVE  \E s \in Occupied(b) :
                /\ buffer.coords[s] = v % GridSize
                /\ buffer.voxel_num_points[s] \in 1 .. MaxPointsPerVoxel
                /\ HasPointsOf({buffer.voxel_features[s][i] : i \in 0 .. buffer.voxel_num_points[s] - 1}, v)
  <2>1. PICK s \in Occupied(b) : PillarHolds(s, v) BY <1>1 DEF PillarsFilled
  <2> DEFINE held == buffer.voxel_features[s]
             count == buffer.voxel_num_points[s]
  <2>2. Cardinality(PointsIn(call, v)) \in Nat \ {0} BY FilledHasPoints
  <2>3. /\ HoldsPoints(held, count, v) /\ buffer.coords[s] = v % GridSize
        /\ count = AtMost(Cardinality(PointsIn(call, v)), MaxPointsPerVoxel)
    BY <2>1 DEF PillarHolds
  <2> HIDE DEF held, count
  <2>4. count \in 1 .. MaxPointsPerVoxel /\ HasPointsOf({held[i] : i \in 0 .. count - 1}, v)
    BY <2>2, <2>3, RowHasPoints
  <2> USE DEF held, count
  <2> QED BY <2>1, <2>3, <2>4
<1> QED BY <1>1, <1>2 DEF PillarsFilled

LEMMA FeaturesAreCurrent ==
    ASSUME VoxelInv
    PROVE  FeaturesCurrent
<1> DEFINE Current(b, v, s) ==
        LET row == buffer.features[s]
            points == {row[i].point : i \in Lanes} \ {Stale}
        IN  /\ HasPointsOf(points, v)
            /\ \A i \in Lanes :
                  row[i] = IF i < Cardinality(points)
                           THEN [points |-> points, point |-> row[i].point, cell |-> v % GridSize]
                           ELSE Zero
<1> SUFFICES ASSUME kernel = "returned", call.num_point_values = 4, NEW b \in Batches
             PROVE  /\ Cardinality(Filled(call, b)) = buffer.pillar_num[b]
                    /\ \A v \in Filled(call, b) : \E s \in Occupied(b) : Current(b, v, s)
  BY DEF FeaturesCurrent
<1>1. PillarsFilled /\ FeaturesFilled /\ buffer \in Buffers BY DEF VoxelInv
<1>2. ASSUME NEW v \in Filled(call, b) PROVE \E s \in Occupied(b) : Current(b, v, s)
  <2>1. PICK s \in Occupied(b) : PillarHolds(s, v) BY <1>1 DEF PillarsFilled
  <2> DEFINE row == buffer.features[s]
             held == buffer.voxel_features[s]
             count == buffer.voxel_num_points[s]
             points == {held[i] : i \in 0 .. count - 1}
  <2>2. /\ count \in 1 .. MaxPointsPerVoxel /\ Cardinality(points) = count /\ HasPointsOf(points, v)
        /\ HoldsPoints(held, count, v)
    <3>1. Cardinality(PointsIn(call, v)) \in Nat \ {0} BY FilledHasPoints
    <3>2. HoldsPoints(held, count, v) /\ count = AtMost(Cardinality(PointsIn(call, v)), MaxPointsPerVoxel)
      BY <2>1 DEF PillarHolds
    <3> HIDE DEF held, count
    <3>3. count \in 1 .. MaxPointsPerVoxel /\ HasPointsOf(points, v) BY <3>1, <3>2, RowHasPoints
    <3>4. Cardinality(points) = count BY <3>2, <3>3 DEF HasPointsOf
    <3> QED BY <3>2, <3>3, <3>4
  <2>3. s \in Pillars /\ FeatureStored(s) BY <1>1, <2>1 DEF Occupied, FeaturesFilled
  <2>4. \A i \in Lanes : row[i] = IF i < count THEN [points |-> points, point |-> held[i], cell |-> v % GridSize]
                                  ELSE Zero
    BY <2>1, <2>3 DEF FeatureStored, Feature, PillarHolds
  <2> HIDE DEF row, held, count
  <2>5. \A i \in Lanes : row[i].point = IF i < count THEN held[i] ELSE Stale
    <3> TAKE i \in Lanes
    <3> HIDE DEF points
    <3>1. CASE i < count
      <4>1. row[i] = [points |-> points, point |-> held[i], cell |-> v % GridSize] BY <2>4, <3>1, Zenon
      <4> QED BY <3>1, <4>1
    <3>2. CASE ~(i < count)
      <4>1. row[i] = Zero BY <2>4, <3>2, Zenon
      <4> QED BY <3>2, <4>1 DEF Zero
    <3> QED BY <3>1, <3>2
  <2>6. \A i \in 0 .. count - 1 : i \in Lanes /\ held[i] # Stale
    <3> TAKE i \in 0 .. count - 1
    <3>1. i \in Lanes BY <2>2, Sizes DEF Lanes
    <3>2. held[i] \in PointThreads BY <2>2 DEF HoldsPoints, PointsIn
    <3>3. held[i] \in Nat BY <3>2 DEF PointThreads
    <3> QED BY <3>1, <3>3, Sizes
  <2>7. \A i \in Lanes : i < count => i \in 0 .. count - 1 BY <2>2, Sizes DEF Lanes
  <2>8. \A i \in 0 .. count - 1 : i < count BY <2>2
  <2>9. {row[i].point : i \in Lanes} \ {Stale} = points BY <2>5, <2>6, <2>7, <2>8
  <2> HIDE DEF points
  <2>10. \A i \in Lanes :
            row[i] = IF i < count THEN [points |-> points, point |-> row[i].point, cell |-> v % GridSize]
                     ELSE Zero
    BY <2>4, <2>5
  <2>11. Current(b, v, s) BY <2>2, <2>9, <2>10 DEF row
  <2> QED BY <2>1, <2>11
<1> QED BY <1>1, <1>2 DEF PillarsFilled

-----------------------------------------------------------------------------
\* The theorems say it of a client that keeps within the pillars and behind whose
\* points nothing is taken for points; the runs show what happens to the others.
THEOREM VoxelInvariance == Careful /\ NoPointBehind /\ VoxelSpec => []VoxelInv
<1>1. CASE Careful /\ NoPointBehind
  <2>1. VoxelInit => VoxelInv BY VoxelInvInit
  <2>2. VoxelInv /\ [VoxelNext]_voxel_vars => VoxelInv' BY <1>1, VoxelInvStep
  <2> QED BY <2>1, <2>2, PTL DEF VoxelSpec
<1>2. CASE ~(Careful /\ NoPointBehind) BY <1>2
<1> QED BY <1>1, <1>2

\* No two threads of a kernel store into the same place, whatever the order in which
\* they took it from the atomic counter, and none leaves the buffers.
THEOREM SlotsOwnedTheorem == Careful /\ NoPointBehind /\ VoxelSpec => []SlotsOwned
<1>1. CASE Careful
  <2>1. VoxelInv => SlotsOwned BY <1>1, SlotsAreOwned
  <2> QED BY <2>1, VoxelInvariance, PTL
<1>2. CASE ~Careful BY <1>2
<1> QED BY <1>1, <1>2

\* In every order of the threads the pillars are the nonempty voxels, one for one, with
\* as many points of the voxel as they have room for.
THEOREM PillarsCompleteTheorem == Careful /\ NoPointBehind /\ VoxelSpec => []PillarsComplete
<1>1. VoxelInv => PillarsComplete BY PillarsAreComplete
<1> QED BY <1>1, VoxelInvariance, PTL

\* What a call returns was computed from its own points, with zeros behind the last one
\* and nothing of an earlier call.
THEOREM FeaturesCurrentTheorem == Careful /\ NoPointBehind /\ VoxelSpec => []FeaturesCurrent
<1>1. VoxelInv => FeaturesCurrent BY FeaturesAreCurrent
<1> QED BY <1>1, VoxelInvariance, PTL
=============================================================================
