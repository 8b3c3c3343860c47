-------------------------- MODULE CudaGraph_proofs --------------------------
(***************************************************************************)
(* Proofs about the CudaGraph and CudaGraphExec objects, for any number of *)
(* variables of the client, streams and handles, and any faults.           *)
(***************************************************************************)
EXTENDS CudaGraph, FiniteSetTheorems, TLAPS

Objects == [live : BOOLEAN, graph : Handles \cup {Null}, stream : Streams \cup {Null},
            is_capturing : BOOLEAN, mine : 0 .. MaxCaptures, before : 0 .. MaxCaptures]
Captures == [state : {"none", "active", "invalid"}, id : 0 .. MaxCaptures]
HandleStates == [state : {"unused", "live", "destroyed"}, of : 0 .. MaxCaptures]

\* The half of GraphTypeOK about the CudaGraph objects, and the one about the executables.
ObjectsTypeOK ==
    /\ graph \in [Graphs -> Objects]
    /\ \A g \in Graphs : graph[g].stream = Null => graph[g].graph = Null
    /\ capture \in [Streams -> Captures]
    /\ handle \in [Handles -> HandleStates]
    /\ captures \in 0 .. MaxCaptures
ExecsTypeOK ==
    /\ exec \in [Execs -> Instances \cup {Null, Absent, Empty}]
    /\ instance \in [Instances -> {"unused", "live", "destroyed"}]
ResultTypeOK == ret \in BOOLEAN /\ aborted \in BOOLEAN

\* A variable without an object holds nothing.
GoneEmpty == \A g \in Graphs : ~graph[g].live => graph[g] = Gone

\* HandlesOwned without counting: the live graphs are those of some object, and no graph
\* is that of two.
HandlesHeld ==
    /\ \A h \in Handles : handle[h].state = "live" <=> \E g \in Graphs : graph[g].graph = h
    /\ \A g, k \in Graphs : graph[g].graph # Null /\ graph[g].graph = graph[k].graph => g = k

ObjectsInv == ObjectsTypeOK /\ GoneEmpty /\ HandlesHeld
ExecsInv == ExecsTypeOK /\ InstancesShared

\* The capture whose graph an object has: its own latest, or while a capture is running, or
\* failed to end, the one before.
Has(o) == IF o.is_capturing THEN o.before ELSE o.mine
GraphsOwn == \A g \in Graphs : graph[g].graph # Null => handle[graph[g].graph].of = Has(graph[g])

CaptureInv == CaptureOwned /\ GraphsOwn
objects == <<graph, capture, handle, captures>>

-----------------------------------------------------------------------------
(* The executables.                                                         *)

LEMMA NullsDiffer ==
    /\ Null \notin Handles /\ Null \notin Instances /\ Null \notin Streams
    /\ Absent \notin Instances /\ Empty \notin Instances
  BY CudaGraphAssumption

LEMMA GoneType == Gone \in Objects
  BY CudaGraphAssumption DEF Gone, Objects

LEMMA DroppedType ==
    ASSUME ExecsInv, NEW e \in Execs
    PROVE  /\ Dropped(e) \in [Instances -> {"unused", "live", "destroyed"}]
           /\ \A i \in Instances : Dropped(e)[i] = "live" <=> \E f \in Execs \ {e} : exec[f] = i
           /\ \A i \in Instances : instance[i] = "unused" => Dropped(e)[i] = "unused"
<1>1. ExecsTypeOK /\ InstancesShared BY DEF ExecsInv
<1>2. CASE exec[e] \in Instances /\ \A f \in Execs \ {e} : exec[f] # exec[e]
  <2>1. Dropped(e) = [instance EXCEPT ![exec[e]] = "destroyed"] BY <1>2 DEF Dropped
  <2>2. instance[exec[e]] = "live" BY <1>1, <1>2 DEF InstancesShared
  <2> QED BY <1>1, <1>2, <2>1, <2>2 DEF ExecsTypeOK, InstancesShared
<1>3. CASE ~(exec[e] \in Instances /\ \A f \in Execs \ {e} : exec[f] # exec[e])
  <2>1. Dropped(e) = instance BY <1>3 DEF Dropped
  <2> QED BY <1>1, <1>3, <2>1 DEF ExecsTypeOK, InstancesShared
<1> QED BY <1>2, <1>3

\* e comes to refer to x, which no executable of its own depends on losing.
LEMMA ExecAssigned ==
    ASSUME ExecsInv, NEW e \in Execs, NEW x \in Instances \cup {Null, Absent, Empty},
           x \in Instances => \E f \in Execs \ {e} : exec[f] = x,
           exec' = [exec EXCEPT ![e] = x], instance' = Dropped(e)
    PROVE  ExecsInv'
<1>1. ExecsTypeOK' BY DroppedType DEF ExecsInv, ExecsTypeOK
<1>2. exec'[e] = x /\ \A f \in Execs \ {e} : exec'[f] = exec[f] BY DEF ExecsInv, ExecsTypeOK
<1>3. InstancesShared'
  <2> SUFFICES ASSUME NEW i \in Instances
               PROVE  instance'[i] = "live" <=> \E f \in Execs : exec'[f] = i
    BY DEF InstancesShared
  <2>1. instance'[i] = "live" <=> \E f \in Execs \ {e} : exec[f] = i BY DroppedType
  <2>2. (\E f \in Execs : exec'[f] = i) <=> (x = i \/ \E f \in Execs \ {e} : exec[f] = i) BY <1>2
  <2> QED BY <2>1, <2>2
<1> QED BY <1>1, <1>3 DEF ExecsInv

LEMMA InstantiateExecs ==
    ASSUME ExecsInv, NEW g \in Graphs, NEW e \in Execs, Instantiate(g, e)
    PROVE  ExecsInv'
<1>1. ASSUME NEW i \in Instances, instance[i] = "unused",
             instance' = [Dropped(e) EXCEPT ![i] = "live"], exec' = [exec EXCEPT ![e] = i]
      PROVE  ExecsInv'
  <2>1. ExecsTypeOK' BY <1>1, DroppedType DEF ExecsInv, ExecsTypeOK
  <2>2. exec'[e] = i /\ \A f \in Execs \ {e} : exec'[f] = exec[f] BY <1>1 DEF ExecsInv, ExecsTypeOK
  <2>3. \A f \in Execs : exec[f] # i BY <1>1 DEF ExecsInv, InstancesShared
  <2>4. InstancesShared'
    <3> SUFFICES ASSUME NEW j \in Instances
                 PROVE  instance'[j] = "live" <=> \E f \in Execs : exec'[f] = j
      BY DEF InstancesShared
    <3>1. CASE j = i BY <1>1, <2>2, <3>1, DroppedType
    <3>2. CASE j # i
      <4>1. instance'[j] = "live" <=> \E f \in Execs \ {e} : exec[f] = j BY <1>1, <3>2, DroppedType
      <4> QED BY <2>2, <3>2, <4>1
    <3> QED BY <3>1, <3>2
  <2> QED BY <2>1, <2>4 DEF ExecsInv
<1>2. ASSUME instance' = Dropped(e), exec' = [exec EXCEPT ![e] = Empty] PROVE ExecsInv'
  BY <1>2, ExecAssigned, NullsDiffer
<1> QED BY <1>1, <1>2 DEF Instantiate

LEMMA ExecMoveExecs ==
    ASSUME ExecsInv, NEW e \in Execs, NEW from \in Execs, ExecMove(e, from)
    PROVE  ExecsInv'
<1>1. /\ e # from /\ instance' = Dropped(e)
      /\ exec' = [exec EXCEPT ![e] = exec[from], ![from] = Null]
  BY DEF ExecMove
<1>2. ExecsTypeOK' BY <1>1, DroppedType DEF ExecsInv, ExecsTypeOK
<1>3. /\ exec'[e] = exec[from] /\ exec'[from] = Null
      /\ \A f \in Execs \ {e, from} : exec'[f] = exec[f]
  BY <1>1 DEF ExecsInv, ExecsTypeOK
<1>4. InstancesShared'
  <2> SUFFICES ASSUME NEW i \in Instances
               PROVE  instance'[i] = "live" <=> \E f \in Execs : exec'[f] = i
    BY DEF InstancesShared
  <2>1. instance'[i] = "live" <=> \E f \in Execs \ {e} : exec[f] = i BY <1>1, DroppedType
  <2>2. (\E f \in Execs : exec'[f] = i) <=> (exec[from] = i \/ \E f \in Execs \ {e, from} : exec[f] = i)
    BY <1>1, <1>3, NullsDiffer
  <2>3. (\E f \in Execs \ {e} : exec[f] = i) <=> (exec[from] = i \/ \E f \in Execs \ {e, from} : exec[f] = i)
    BY <1>1
  <2> QED BY <2>1, <2>2, <2>3
<1> QED BY <1>2, <1>4 DEF ExecsInv

\* The calls on an executable; they leave the CudaGraph objects alone.
ExecCall ==
    \E e \in Execs :
        \/ \E g \in Graphs : Instantiate(g, e) \/ Update(e, g)
        \/ ExecConstruct(e) \/ ExecDestroy(e) \/ Launch(e)
        \/ \E from \in Execs : ExecCopy(e, from) \/ ExecMove(e, from)

LEMMA ExecCallExecs ==
    ASSUME ExecsInv, ResultTypeOK, ExecCall
    PROVE  ExecsInv' /\ ResultTypeOK' /\ UNCHANGED objects
<1>1. PICK e \in Execs :
        \/ \E g \in Graphs : Instantiate(g, e) \/ Update(e, g)
        \/ ExecConstruct(e) \/ ExecDestroy(e) \/ Launch(e)
        \/ \E from \in Execs : ExecCopy(e, from) \/ ExecMove(e, from)
  BY DEF ExecCall
<1>2. ASSUME NEW g \in Graphs, Instantiate(g, e) PROVE ExecsInv' /\ ResultTypeOK' /\ UNCHANGED objects
  BY <1>2, InstantiateExecs DEF Instantiate, Returns, ResultTypeOK, objects
<1>3. ASSUME NEW g \in Graphs, Update(e, g) PROVE ExecsInv' /\ ResultTypeOK' /\ UNCHANGED objects
  BY <1>3 DEF Update, Returns, ResultTypeOK, ExecsInv, ExecsTypeOK, InstancesShared, executables, objects
<1>4. CASE ExecConstruct(e)
  <2>1. ExecsTypeOK' BY <1>4 DEF ExecConstruct, ExecsInv, ExecsTypeOK
  <2>2. InstancesShared'
    <3>1. \A i \in Instances : \A f \in Execs : exec'[f] = i <=> exec[f] = i
      BY <1>4, NullsDiffer DEF ExecConstruct, ExecsInv, ExecsTypeOK
    <3> QED BY <1>4, <3>1 DEF ExecConstruct, ExecsInv, InstancesShared
  <2> QED BY <1>4, <2>1, <2>2 DEF ExecConstruct, Returns, ResultTypeOK, ExecsInv, objects
<1>5. CASE ExecDestroy(e)
  <2>1. ExecsInv' BY <1>5, ExecAssigned, NullsDiffer DEF ExecDestroy
  <2> QED BY <1>5, <2>1 DEF ExecDestroy, Returns, ResultTypeOK, objects
<1>6. CASE Launch(e)
  BY <1>6 DEF Launch, Returns, ResultTypeOK, ExecsInv, ExecsTypeOK, InstancesShared, executables, objects
<1>7. ASSUME NEW from \in Execs, ExecCopy(e, from) PROVE ExecsInv' /\ ResultTypeOK' /\ UNCHANGED objects
  <2>1. exec[from] \in Instances \cup {Null, Absent, Empty} BY DEF ExecsInv, ExecsTypeOK
  <2>2. ExecsInv' BY <1>7, <2>1, ExecAssigned DEF ExecCopy
  <2> QED BY <1>7, <2>2 DEF ExecCopy, Returns, ResultTypeOK, objects
<1>8. ASSUME NEW from \in Execs, ExecMove(e, from) PROVE ExecsInv' /\ ResultTypeOK' /\ UNCHANGED objects
  BY <1>8, ExecMoveExecs DEF ExecMove, Returns, ResultTypeOK, objects
<1> QED BY <1>1, <1>2, <1>3, <1>4, <1>5, <1>6, <1>7, <1>8

-----------------------------------------------------------------------------
(* The CudaGraph objects and their handles.                                 *)

LEMMA ReleasedHandles ==
    ASSUME ObjectsInv, NEW g \in Graphs
    PROVE  /\ Released(g) \in [Handles -> HandleStates]
           /\ \A h \in Handles : Released(g)[h].state = "live" <=> \E k \in Graphs \ {g} : graph[k].graph = h
           /\ \A h \in Handles : Released(g)[h].of = handle[h].of
           /\ \A h \in Handles : handle[h] = Unused => Released(g)[h] = Unused
<1>1. /\ handle \in [Handles -> HandleStates] /\ graph[g].graph \in Handles \cup {Null}
  BY DEF ObjectsInv, ObjectsTypeOK, Objects
<1>2. /\ \A h \in Handles : handle[h].state = "live" <=> \E k \in Graphs : graph[k].graph = h
      /\ \A k, m \in Graphs : graph[k].graph # Null /\ graph[k].graph = graph[m].graph => k = m
  BY DEF ObjectsInv, HandlesHeld
<1>3. CASE graph[g].graph = Null
  <2>1. Released(g) = handle BY <1>3 DEF Released
  <2> QED BY <1>1, <1>2, <1>3, <2>1, NullsDiffer
<1>4. CASE graph[g].graph # Null
  <2> DEFINE x == graph[g].graph
  <2>1. x \in Handles /\ Released(g) = [handle EXCEPT ![x].state = "destroyed"]
    BY <1>1, <1>4 DEF Released
  <2>2. handle[x].state = "live" BY <1>2, <2>1
  <2>3. \A k \in Graphs \ {g} : graph[k].graph # x BY <1>2, <1>4
  <2> HIDE DEF x
  <2>4. Released(g)[x].state = "destroyed" /\ Released(g)[x].of = handle[x].of
        /\ Released(g)[x] \in HandleStates
    BY <1>1, <2>1 DEF HandleStates
  <2>5. \A h \in Handles \ {x} : Released(g)[h] = handle[h] BY <1>1, <2>1
  <2>6. Released(g) \in [Handles -> HandleStates] BY <1>1, <2>1, <2>4, <2>5
  <2>7. \A h \in Handles : Released(g)[h].state = "live" <=> \E k \in Graphs \ {g} : graph[k].graph = h
    <3> TAKE h \in Handles
    <3>1. CASE h = x BY <2>3, <2>4, <3>1
    <3>2. CASE h # x
      <4>1. graph[g].graph # h BY <3>2 DEF x
      <4> QED BY <1>2, <2>5, <3>2, <4>1
    <3> QED BY <3>1, <3>2
  <2>8. handle[x] # Unused BY <2>2 DEF Unused
  <2> QED BY <2>4, <2>5, <2>6, <2>7, <2>8
<1> QED BY <1>3, <1>4

LEMMA CaptureInvElements ==
    CaptureInv <=>
        /\ \A s \in Streams : capture[s].state # "none" =>
              \E g \in Graphs :
                  /\ graph[g].live /\ graph[g].is_capturing /\ graph[g].mine = capture[s].id
                  /\ \A h \in Graphs : graph[h].is_capturing /\ graph[h].stream = s <=> h = g
        /\ GraphsOwn
<1>1. ASSUME NEW s \in Streams, NEW g \in Graphs
      PROVE  {h \in Graphs : graph[h].is_capturing /\ graph[h].stream = s} = {g}
                <=> \A h \in Graphs : graph[h].is_capturing /\ graph[h].stream = s <=> h = g
  OBVIOUS
<1> QED BY <1>1 DEF CaptureInv, CaptureOwned

LEMMA ConstructObjects ==
    ASSUME ObjectsInv, NEW g \in Graphs, NEW s \in Streams, Construct(g, s)
    PROVE  ObjectsInv' /\ (CaptureInv => CaptureInv')
<1>1. ObjectsTypeOK /\ GoneEmpty /\ HandlesHeld BY DEF ObjectsInv
<1>2. ~graph[g].live /\ graph[g] = Gone BY <1>1 DEF Construct, GoneEmpty
<1>3. UNCHANGED <<capture, captures>> BY DEF Construct
<1>4. s # Null BY NullsDiffer
<1>5. ASSUME NEW x \in Handles \cup {Null}, handle' \in [Handles -> HandleStates],
             NEW o \in Objects, o.live, o.graph = x, o.stream = s, Has(o) = 0, ~o.is_capturing,
             graph' = [graph EXCEPT ![g] = o],
             \A h \in Handles : handle'[h].state = "live" <=> h = x \/ handle[h].state = "live",
             \A h \in Handles : h # x => handle'[h].of = handle[h].of,
             x # Null => handle[x].state # "live" /\ handle'[x].of = 0
      PROVE  ObjectsInv' /\ (CaptureInv => CaptureInv')
  <2>3. /\ graph'[g] = o /\ \A k \in Graphs \ {g} : graph'[k] = graph[k]
        /\ graph' \in [Graphs -> Objects]
    BY <1>1, <1>5 DEF ObjectsTypeOK
  <2>4. ObjectsTypeOK' BY <1>1, <1>3, <1>4, <1>5, <2>3 DEF ObjectsTypeOK
  <2>5. GoneEmpty' BY <1>1, <1>5, <2>3 DEF GoneEmpty
  <2>6. \A k \in Graphs : x # Null => graph[k].graph # x BY <1>1, <1>5 DEF HandlesHeld
  <2>7. HandlesHeld'
    <3>1. ASSUME NEW h \in Handles PROVE handle'[h].state = "live" <=> \E k \in Graphs : graph'[k].graph = h
      <4>1. graph[g].graph # h BY <1>2, NullsDiffer DEF Gone
      <4>2. handle[h].state = "live" <=> \E k \in Graphs \ {g} : graph[k].graph = h
        BY <1>1, <4>1 DEF HandlesHeld
      <4> QED BY <1>5, <2>3, <4>2
    <3>2. ASSUME NEW k \in Graphs, NEW m \in Graphs, graph'[k].graph # Null, graph'[k].graph = graph'[m].graph
          PROVE  k = m
      BY <1>1, <1>5, <2>3, <2>6, <3>2 DEF HandlesHeld
    <3> QED BY <3>1, <3>2 DEF HandlesHeld
  <2>8. ASSUME CaptureInv PROVE CaptureInv'
    <3>1. /\ \A t \in Streams : capture[t].state # "none" =>
                \E k \in Graphs :
                  /\ graph[k].live /\ graph[k].is_capturing /\ graph[k].mine = capture[t].id
                  /\ \A h \in Graphs : graph[h].is_capturing /\ graph[h].stream = t <=> h = k
          /\ GraphsOwn
      BY <2>8, CaptureInvElements
    <3>2. ~graph[g].is_capturing BY <1>2 DEF Gone
    <3>3. CaptureOwned'
      <4> SUFFICES ASSUME NEW t \in Streams, capture'[t].state # "none"
                   PROVE  \E k \in Graphs :
                            /\ graph'[k].live /\ graph'[k].is_capturing /\ graph'[k].mine = capture'[t].id
                            /\ {h \in Graphs : graph'[h].is_capturing /\ graph'[h].stream = t} = {k}
        BY DEF CaptureOwned
      <4>1. PICK k \in Graphs :
                  /\ graph[k].live /\ graph[k].is_capturing /\ graph[k].mine = capture[t].id
                  /\ \A h \in Graphs : graph[h].is_capturing /\ graph[h].stream = t <=> h = k
        BY <1>3, <3>1
      <4>2. k # g BY <3>2, <4>1
      <4>3. \A h \in Graphs : graph'[h].is_capturing /\ graph'[h].stream = t <=> h = k
        BY <1>5, <2>3, <3>2, <4>1
      <4> QED BY <1>3, <2>3, <4>1, <4>2, <4>3
    <3>4. GraphsOwn'
      <4> SUFFICES ASSUME NEW k \in Graphs, graph'[k].graph # Null
                   PROVE  handle'[graph'[k].graph].of = Has(graph'[k])
        BY DEF GraphsOwn
      <4>1. CASE k = g BY <1>5, <2>3, <4>1
      <4>2. CASE k # g
        <5>1. graph[k].graph \in Handles /\ graph[k].graph # x
          BY <1>1, <2>3, <2>6, <4>2 DEF ObjectsTypeOK, Objects
        <5> QED BY <1>5, <2>3, <3>1, <4>2, <5>1 DEF GraphsOwn
      <4> QED BY <4>1, <4>2
    <3> QED BY <3>3, <3>4 DEF CaptureInv
  <2> QED BY <2>4, <2>5, <2>7, <2>8 DEF ObjectsInv
<1>6. ASSUME NEW h \in Handles, handle[h] = Unused, handle' = [handle EXCEPT ![h] = Recorded(0)],
             graph' = [graph EXCEPT ![g] = [Gone EXCEPT !.live = TRUE, !.graph = h, !.stream = s]]
      PROVE  ObjectsInv' /\ (CaptureInv => CaptureInv')
  <2>1. Recorded(0) \in HandleStates /\ Recorded(0).state = "live" /\ Recorded(0).of = 0
    BY CudaGraphAssumption DEF Recorded, HandleStates
  <2>2. /\ handle' \in [Handles -> HandleStates]
        /\ handle'[h] = Recorded(0) /\ \A k \in Handles \ {h} : handle'[k] = handle[k]
    BY <1>1, <1>6, <2>1 DEF ObjectsTypeOK
  <2>3. handle[h].state # "live" BY <1>6 DEF Unused
  <2> DEFINE o == [Gone EXCEPT !.live = TRUE, !.graph = h, !.stream = s]
  <2>4. o \in Objects /\ o.live /\ o.graph = h /\ o.stream = s /\ ~o.is_capturing /\ Has(o) = 0
    <3>1. o \in Objects BY GoneType DEF Objects
    <3> QED BY <3>1 DEF Gone, Has
  <2> HIDE DEF o
  <2>5. graph' = [graph EXCEPT ![g] = o] BY <1>6 DEF o
  <2>6. \A k \in Handles : handle'[k].state = "live" <=> k = h \/ handle[k].state = "live"
    BY <2>1, <2>2
  <2>7. \A k \in Handles : k # h => handle'[k].of = handle[k].of BY <2>2
  <2>8. handle'[h].of = 0 BY <2>1, <2>2
  <2>9. h \in Handles \cup {Null} OBVIOUS
  <2> QED BY ONLY <1>5, <2>2, <2>3, <2>4, <2>5, <2>6, <2>7, <2>8, <2>9
<1>7. ASSUME graph' = [graph EXCEPT ![g] = [Gone EXCEPT !.live = TRUE, !.stream = s]], UNCHANGED handle
      PROVE  ObjectsInv' /\ (CaptureInv => CaptureInv')
  <2> DEFINE o == [Gone EXCEPT !.live = TRUE, !.stream = s]
  <2>1. o \in Objects /\ o.live /\ o.graph = Null /\ o.stream = s /\ ~o.is_capturing /\ Has(o) = 0
    <3>1. o \in Objects BY GoneType DEF Objects
    <3> QED BY <3>1 DEF Gone, Has
  <2> HIDE DEF o
  <2>2. graph' = [graph EXCEPT ![g] = o] BY <1>7 DEF o
  <2>3. handle' \in [Handles -> HandleStates] BY <1>1, <1>7 DEF ObjectsTypeOK
  <2>4. \A k \in Handles : handle'[k].state = "live" <=> k = Null \/ handle[k].state = "live"
    BY <1>7, NullsDiffer
  <2> QED BY <1>5, <1>7, <2>1, <2>2, <2>3, <2>4
<1> QED BY <1>6, <1>7 DEF Construct

\* A stream of the client, and the one object that is capturing on it.
CapturesOn(s, g) ==
    /\ graph[g].live /\ graph[g].is_capturing /\ graph[g].mine = capture[s].id
    /\ \A h \in Graphs : graph[h].is_capturing /\ graph[h].stream = s <=> h = g

LEMMA CaptureOwnedElements ==
    CaptureOwned <=> \A s \in Streams : capture[s].state # "none" => \E g \in Graphs : CapturesOn(s, g)
  BY CaptureInvElements DEF CaptureOwned, CapturesOn

LEMMA DestroyObjects ==
    ASSUME ObjectsInv, NEW g \in Graphs, Destroy(g)
    PROVE  ObjectsInv' /\ (CaptureInv => CaptureInv')
<1>1. ObjectsTypeOK /\ GoneEmpty /\ HandlesHeld BY DEF ObjectsInv
<1>2. /\ capture' = IF graph[g].is_capturing /\ graph[g].stream # Null THEN Ended(graph[g].stream) ELSE capture
      /\ handle' = Released(g) /\ graph' = [graph EXCEPT ![g] = Gone] /\ UNCHANGED captures
  BY DEF Destroy
<1>3. graph'[g] = Gone /\ \A k \in Graphs \ {g} : graph'[k] = graph[k] BY <1>1, <1>2 DEF ObjectsTypeOK
<1>4. Gone.graph = Null /\ Gone.stream = Null /\ ~Gone.live /\ ~Gone.is_capturing BY DEF Gone
<1>5. /\ capture' \in [Streams -> Captures]
      /\ \A s \in Streams : capture'[s].state # "none" =>
            capture'[s] = capture[s] /\ ~(graph[g].is_capturing /\ graph[g].stream = s)
  <2>1. NotCapturing \in Captures /\ NotCapturing.state = "none"
    BY CudaGraphAssumption DEF NotCapturing, Captures
  <2> QED BY <1>1, <1>2, <2>1, NullsDiffer DEF Ended, ObjectsTypeOK, Objects
<1>6. ObjectsTypeOK'
  <2>1. graph' \in [Graphs -> Objects] BY <1>1, <1>2, GoneType DEF ObjectsTypeOK
  <2>2. handle' \in [Handles -> HandleStates] BY <1>2, ReleasedHandles
  <2> QED BY <1>1, <1>2, <1>3, <1>4, <1>5, <2>1, <2>2 DEF ObjectsTypeOK
<1>7. GoneEmpty' BY <1>1, <1>3 DEF GoneEmpty
<1>8. HandlesHeld'
  <2>1. \A h \in Handles : handle'[h].state = "live" <=> \E k \in Graphs : graph'[k].graph = h
    BY <1>2, <1>3, <1>4, ReleasedHandles, NullsDiffer
  <2>2. \A k, m \in Graphs : graph'[k].graph # Null /\ graph'[k].graph = graph'[m].graph => k = m
    BY <1>1, <1>3, <1>4 DEF HandlesHeld
  <2> QED BY <2>1, <2>2 DEF HandlesHeld
<1>9. ASSUME CaptureOwned, NEW s \in Streams, capture'[s].state # "none"
      PROVE  \E k \in Graphs :
                /\ graph'[k].live /\ graph'[k].is_capturing /\ graph'[k].mine = capture'[s].id
                /\ {h \in Graphs : graph'[h].is_capturing /\ graph'[h].stream = s} = {k}
  <2>1. PICK k \in Graphs : CapturesOn(s, k) BY <1>5, <1>9, CaptureOwnedElements
  <2>2. k # g BY <1>5, <1>9, <2>1 DEF CapturesOn
  <2>3. \A h \in Graphs : graph'[h].is_capturing /\ graph'[h].stream = s <=> h = k
    BY <1>3, <1>4, <2>1, <2>2 DEF CapturesOn
  <2> QED BY <1>3, <1>5, <1>9, <2>1, <2>2, <2>3 DEF CapturesOn
<1>10. ASSUME GraphsOwn PROVE GraphsOwn'
  <2> SUFFICES ASSUME NEW k \in Graphs, graph'[k].graph # Null
               PROVE  handle'[graph'[k].graph].of = Has(graph'[k])
    BY DEF GraphsOwn
  <2>1. k # g BY <1>3, <1>4
  <2>2. graph[k].graph \in Handles BY <1>1, <1>3, <2>1 DEF ObjectsTypeOK, Objects
  <2> QED BY <1>2, <1>3, <1>10, <2>1, <2>2, ReleasedHandles DEF GraphsOwn
<1>11. CaptureInv => CaptureInv' BY <1>9, <1>10 DEF CaptureInv, CaptureOwned
<1> QED BY <1>6, <1>7, <1>8, <1>11 DEF ObjectsInv

\* Both moves; what g had before is released, and is not a running capture.
LEMMA Moved ==
    ASSUME ObjectsInv, NEW g \in Graphs, NEW from \in Graphs, g # from, graph[from].live,
           graph' = [graph EXCEPT ![g] = graph[from], ![from] = LeftBehind(from)],
           handle' = Released(g), UNCHANGED <<capture, captures>>
    PROVE  /\ ObjectsInv'
           /\ CaptureInv /\ ~(graph[g].is_capturing /\ graph[g].stream # Null) => CaptureInv'
<1>1. ObjectsTypeOK /\ GoneEmpty /\ HandlesHeld BY DEF ObjectsInv
<1> DEFINE left == LeftBehind(from)
<1>2. graph[from] \in Objects BY <1>1 DEF ObjectsTypeOK
<1>3. /\ left \in Objects /\ left.graph = Null /\ left.stream = Null /\ left.live
      /\ left.is_capturing = graph[from].is_capturing /\ left.mine = graph[from].mine
  BY <1>2 DEF LeftBehind, Objects
<1> HIDE DEF left
<1>4. /\ graph'[g] = graph[from] /\ graph'[from] = left
      /\ \A k \in Graphs \ {g, from} : graph'[k] = graph[k]
      /\ graph' \in [Graphs -> Objects]
  BY <1>1, <1>2, <1>3 DEF ObjectsTypeOK, left
<1>5. ObjectsTypeOK'
  <2>1. handle' \in [Handles -> HandleStates] BY ReleasedHandles
  <2>2. \A k \in Graphs : graph'[k].stream = Null => graph'[k].graph = Null
    BY <1>1, <1>3, <1>4 DEF ObjectsTypeOK
  <2> QED BY <1>1, <1>4, <2>1, <2>2 DEF ObjectsTypeOK
<1>6. GoneEmpty' BY <1>1, <1>3, <1>4 DEF GoneEmpty
<1>7. HandlesHeld'
  <2>1. ASSUME NEW h \in Handles
        PROVE  handle'[h].state = "live" <=> \E k \in Graphs : graph'[k].graph = h
    <3>1. handle'[h].state = "live" <=> \E k \in Graphs \ {g} : graph[k].graph = h BY ReleasedHandles
    <3>2. (\E k \in Graphs : graph'[k].graph = h)
             <=> graph[from].graph = h \/ \E k \in Graphs \ {g, from} : graph[k].graph = h
      BY <1>3, <1>4, NullsDiffer
    <3> QED BY <3>1, <3>2
  <2>2. ASSUME NEW k \in Graphs, NEW m \in Graphs, graph'[k].graph # Null, graph'[k].graph = graph'[m].graph
        PROVE  k = m
    <3>1. k # from /\ m # from BY <1>3, <1>4, <2>2
    <3> QED BY <1>1, <1>4, <2>2, <3>1 DEF HandlesHeld
  <2> QED BY <2>1, <2>2 DEF HandlesHeld
<1>8. ASSUME CaptureOwned, ~(graph[g].is_capturing /\ graph[g].stream # Null),
             NEW s \in Streams, capture'[s].state # "none"
      PROVE  \E k \in Graphs :
                /\ graph'[k].live /\ graph'[k].is_capturing /\ graph'[k].mine = capture'[s].id
                /\ {h \in Graphs : graph'[h].is_capturing /\ graph'[h].stream = s} = {k}
  <2>1. PICK k \in Graphs : CapturesOn(s, k) BY <1>8, CaptureOwnedElements
  <2>2. s # Null BY NullsDiffer
  <2>3. k # g BY <1>8, <2>1, <2>2 DEF CapturesOn
  <2>4. CASE k = from
    <3>1. \A h \in Graphs : graph'[h].is_capturing /\ graph'[h].stream = s <=> h = g
      BY <1>3, <1>4, <2>1, <2>2, <2>4 DEF CapturesOn
    <3> QED BY <1>4, <2>1, <2>4, <3>1 DEF CapturesOn
  <2>5. CASE k # from
    <3>1. \A h \in Graphs : graph'[h].is_capturing /\ graph'[h].stream = s <=> h = k
      BY <1>3, <1>4, <2>1, <2>2, <2>3, <2>5 DEF CapturesOn
    <3> QED BY <1>4, <2>1, <2>3, <2>5, <3>1 DEF CapturesOn
  <2> QED BY <2>4, <2>5
<1>9. ASSUME GraphsOwn PROVE GraphsOwn'
  <2> SUFFICES ASSUME NEW k \in Graphs, graph'[k].graph # Null
               PROVE  handle'[graph'[k].graph].of = Has(graph'[k])
    BY DEF GraphsOwn
  <2>1. k # from BY <1>3, <1>4
  <2>2. PICK m \in Graphs : graph'[k] = graph[m] BY <1>4, <2>1
  <2>3. graph[m].graph \in Handles BY <1>1, <2>2 DEF ObjectsTypeOK, Objects
  <2> QED BY <1>9, <2>2, <2>3, ReleasedHandles DEF GraphsOwn
<1>10. CaptureInv /\ ~(graph[g].is_capturing /\ graph[g].stream # Null) => CaptureInv'
  BY <1>8, <1>9 DEF CaptureInv, CaptureOwned
<1> QED BY <1>5, <1>6, <1>7, <1>10 DEF ObjectsInv

LEMMA MoveConstructObjects ==
    ASSUME ObjectsInv, NEW g \in Graphs, NEW from \in Graphs, MoveConstruct(g, from)
    PROVE  ObjectsInv' /\ (CaptureInv => CaptureInv')
<1>1. g # from /\ graph[from].live /\ graph[g] = Gone
  BY DEF MoveConstruct, ObjectsInv, GoneEmpty
<1>2. graph[g].graph = Null /\ graph[g].stream = Null BY <1>1 DEF Gone
<1>3. handle' = Released(g) BY <1>2 DEF MoveConstruct, Released
<1> QED BY <1>1, <1>2, <1>3, Moved DEF MoveConstruct

LEMMA MoveAssignObjects ==
    ASSUME ObjectsInv, NEW g \in Graphs, NEW from \in Graphs, MoveAssign(g, from)
    PROVE  ObjectsInv' /\ (Careful /\ CaptureInv => CaptureInv')
  BY Moved DEF MoveAssign, MayAssign

LEMMA ObjectsKept ==
    ASSUME ObjectsInv, UNCHANGED objects
    PROVE  ObjectsInv' /\ (CaptureInv => CaptureInv')
<1>1. ObjectsTypeOK' BY DEF objects, ObjectsInv, ObjectsTypeOK
<1>2. GoneEmpty' /\ HandlesHeld' BY DEF objects, ObjectsInv, GoneEmpty, HandlesHeld
<1>3. CaptureInv => CaptureInv' BY DEF objects, CaptureInv, CaptureOwned, GraphsOwn
<1> QED BY <1>1, <1>2, <1>3 DEF ObjectsInv

LEMMA BeginCaptureObjects ==
    ASSUME ObjectsInv, NEW g \in Graphs, BeginCapture(g)
    PROVE  ObjectsInv' /\ (Careful /\ CaptureInv => CaptureInv')
<1>1. CASE ~CanBegin(g) /\ Refuse BY <1>1, ObjectsKept DEF Refuse, objects
<1>2. CASE /\ CanBegin(g) /\ captures < MaxCaptures
           /\ captures' = captures + 1
           /\ capture' = [capture EXCEPT ![graph[g].stream] = [state |-> "active", id |-> captures']]
           /\ graph' = [graph EXCEPT ![g].is_capturing = TRUE, ![g].mine = captures',
                                     ![g].before = graph[g].mine]
           /\ UNCHANGED handle
  <2> DEFINE s == graph[g].stream  o == graph'[g]  c == [state |-> "active", id |-> captures']
  <2>1. ObjectsTypeOK /\ GoneEmpty /\ HandlesHeld BY DEF ObjectsInv
  <2>2. s \in Streams /\ graph[g] \in Objects /\ ~graph[g].is_capturing /\ graph[g].live
        /\ capture[s].state = "none"
    BY <1>2, <2>1 DEF CanBegin, ObjectsTypeOK, Objects, BeginCapture
  <2>3. captures' \in 0 .. MaxCaptures BY <1>2, <2>1, CudaGraphAssumption DEF ObjectsTypeOK
  <2>4. /\ o \in Objects /\ o.live /\ o.graph = graph[g].graph /\ o.stream = s
        /\ o.is_capturing /\ o.mine = captures' /\ o.before = graph[g].mine
    <3>1. graph'[g] = [graph[g] EXCEPT !.is_capturing = TRUE, !.mine = captures', !.before = graph[g].mine]
      BY <1>2, <2>1 DEF ObjectsTypeOK
    <3> QED BY <2>2, <2>3, <3>1 DEF Objects
  <2>5. \A k \in Graphs \ {g} : graph'[k] = graph[k] BY <1>2, <2>1 DEF ObjectsTypeOK
  <2>6. graph' \in [Graphs -> Objects]
    <3>1. DOMAIN graph' = Graphs /\ graph' = [k \in Graphs |-> graph'[k]] BY <1>2, <2>1 DEF ObjectsTypeOK
    <3>2. \A k \in Graphs : graph'[k] \in Objects BY <2>1, <2>4, <2>5 DEF ObjectsTypeOK
    <3> QED BY <3>1, <3>2
  <2>7. c \in Captures /\ c.id = captures' BY <2>3 DEF Captures
  <2> HIDE DEF c
  <2>8. /\ capture' \in [Streams -> Captures] /\ capture'[s] = c
        /\ \A t \in Streams \ {s} : capture'[t] = capture[t]
    <3>1. capture' = [capture EXCEPT ![s] = c] BY <1>2 DEF c
    <3> QED BY <2>1, <2>2, <2>7, <3>1 DEF ObjectsTypeOK
  <2> HIDE DEF s, o
  <2>9. \A k \in Graphs : graph'[k].graph = graph[k].graph /\ graph'[k].stream = graph[k].stream
    BY <2>4, <2>5 DEF s, o
  <2>10. ObjectsTypeOK' BY <1>2, <2>1, <2>3, <2>6, <2>8, <2>9 DEF ObjectsTypeOK
  <2>11. GoneEmpty' BY <2>1, <2>4, <2>5 DEF GoneEmpty, o
  <2>12. HandlesHeld'
    <3>1. handle' = handle BY <1>2
    <3>2. \A h \in Handles : (\E k \in Graphs : graph'[k].graph = h) <=> \E k \in Graphs : graph[k].graph = h
      BY <2>9
    <3>3. \A k, m \in Graphs : graph'[k].graph # Null /\ graph'[k].graph = graph'[m].graph => k = m
      BY <2>1, <2>9 DEF HandlesHeld
    <3> QED BY <2>1, <3>1, <3>2, <3>3 DEF HandlesHeld
  <2>13. ASSUME Careful, CaptureOwned, NEW t \in Streams, capture'[t].state # "none"
         PROVE  \E k \in Graphs :
                /\ graph'[k].live /\ graph'[k].is_capturing /\ graph'[k].mine = capture'[t].id
                /\ {h \in Graphs : graph'[h].is_capturing /\ graph'[h].stream = t} = {k}
    <3>1. CASE t = s
      <4>1. \A h \in Graphs \ {g} : ~(graph[h].is_capturing /\ graph[h].stream = s)
        BY <2>13 DEF BeginCapture, MayBegin, s
      <4>2. \A h \in Graphs : graph'[h].is_capturing /\ graph'[h].stream = s <=> h = g
        BY <2>4, <2>5, <4>1 DEF o
      <4>3. graph'[g].live /\ graph'[g].is_capturing /\ graph'[g].mine = capture'[s].id
        BY <2>4, <2>7, <2>8 DEF o
      <4> QED BY <3>1, <4>2, <4>3
    <3>2. CASE t # s
      <4>1. PICK k \in Graphs : CapturesOn(t, k) BY <2>8, <2>13, <3>2, CaptureOwnedElements
      <4>2. k # g BY <2>2, <4>1 DEF CapturesOn
      <4>3. \A h \in Graphs : graph'[h].is_capturing /\ graph'[h].stream = t <=> h = k
        BY <2>4, <2>5, <3>2, <4>1, <4>2 DEF CapturesOn, o
      <4> QED BY <2>5, <2>8, <3>2, <4>1, <4>2, <4>3 DEF CapturesOn
    <3> QED BY <3>1, <3>2
  <2>14. GraphsOwn => GraphsOwn'
    <3>1. \A k \in Graphs : Has(graph'[k]) = Has(graph[k]) BY <2>2, <2>4, <2>5 DEF Has, o
    <3>2. handle' = handle BY <1>2
    <3> QED BY <2>9, <3>1, <3>2 DEF GraphsOwn
  <2>15. Careful /\ CaptureInv => CaptureInv' BY <2>13, <2>14 DEF CaptureInv, CaptureOwned
  <2> QED BY <2>10, <2>11, <2>12, <2>15 DEF ObjectsInv
<1> QED BY <1>1, <1>2 DEF BeginCapture

LEMMA InvalidateObjects ==
    ASSUME ObjectsInv, NEW s \in Streams, Invalidate(s)
    PROVE  ObjectsInv' /\ (CaptureInv => CaptureInv')
<1>1. ObjectsTypeOK /\ GoneEmpty /\ HandlesHeld BY DEF ObjectsInv
<1>2. /\ capture[s].state = "active" /\ capture' = [capture EXCEPT ![s].state = "invalid"]
      /\ UNCHANGED <<graph, handle, captures>>
  BY DEF Invalidate
<1>3. capture[s] \in Captures BY <1>1 DEF ObjectsTypeOK
<1>4. [capture[s] EXCEPT !.state = "invalid"] \in Captures BY <1>3 DEF Captures
<1>5. /\ capture' \in [Streams -> Captures] /\ capture'[s].id = capture[s].id
      /\ \A t \in Streams \ {s} : capture'[t] = capture[t]
  BY <1>1, <1>2, <1>3, <1>4 DEF ObjectsTypeOK, Captures
<1>6. ObjectsTypeOK' BY <1>1, <1>2, <1>5 DEF ObjectsTypeOK
<1>7. GoneEmpty' /\ HandlesHeld' BY <1>1, <1>2 DEF GoneEmpty, HandlesHeld
<1>8. \A t \in Streams : capture'[t].id = capture[t].id /\ (capture'[t].state # "none" => capture[t].state # "none")
  BY <1>2, <1>5
<1>9. CaptureOwned => CaptureOwned' BY <1>2, <1>8 DEF CaptureOwned
<1>10. GraphsOwn => GraphsOwn' BY <1>2 DEF GraphsOwn
<1> QED BY <1>6, <1>7, <1>9, <1>10 DEF ObjectsInv, CaptureInv

LEMMA EndCaptureObjects ==
    ASSUME ObjectsInv, NEW g \in Graphs, EndCapture(g)
    PROVE  ObjectsInv' /\ (CaptureInv => CaptureInv')
<1> DEFINE s == graph[g].stream
<1>1. ObjectsTypeOK /\ GoneEmpty /\ HandlesHeld BY DEF ObjectsInv
<1>2. CASE ~CanEnd(g) /\ Refuse BY <1>2, ObjectsKept DEF Refuse, objects
<1>3. ASSUME CanEnd(g), capture' = Ended(s)
      PROVE  /\ s \in Streams /\ graph[g].is_capturing /\ capture' \in [Streams -> Captures]
             /\ \A t \in Streams : capture'[t].state # "none" => capture'[t] = capture[t] /\ t # s
  <2>1. s \in Streams /\ graph[g].is_capturing BY <1>1, <1>3 DEF CanEnd, ObjectsTypeOK, Objects
  <2>2. NotCapturing \in Captures /\ NotCapturing.state = "none"
    BY CudaGraphAssumption DEF NotCapturing, Captures
  <2> QED BY <1>1, <1>3, <2>1, <2>2 DEF Ended, ObjectsTypeOK
<1>4. CASE /\ CanEnd(g) /\ capture[s].state # "active" /\ capture' = Ended(s)
           /\ UNCHANGED <<graph, handle, captures>>
  <2>1. ObjectsTypeOK' BY <1>1, <1>3, <1>4 DEF ObjectsTypeOK
  <2>2. GoneEmpty' /\ HandlesHeld' BY <1>1, <1>4 DEF GoneEmpty, HandlesHeld
  <2>3. CaptureOwned => CaptureOwned' BY <1>3, <1>4 DEF CaptureOwned
  <2>4. GraphsOwn => GraphsOwn' BY <1>4 DEF GraphsOwn
  <2> QED BY <2>1, <2>2, <2>3, <2>4 DEF ObjectsInv, CaptureInv
<1>5. ASSUME NEW h \in Handles, CanEnd(g), capture[s].state = "active", handle[h] = Unused,
             handle' = [Released(g) EXCEPT ![h] = Recorded(capture[s].id)],
             graph' = [graph EXCEPT ![g].graph = h, ![g].is_capturing = FALSE],
             capture' = Ended(s), UNCHANGED captures
      PROVE  ObjectsInv' /\ (CaptureInv => CaptureInv')
  <2>1. /\ s \in Streams /\ graph[g].is_capturing /\ capture' \in [Streams -> Captures]
        /\ \A t \in Streams : capture'[t].state # "none" => capture'[t] = capture[t] /\ t # s
    BY <1>3, <1>5
  <2> DEFINE o == graph'[g]
  <2>2. graph[g] \in Objects /\ graph[g].live BY <1>1 DEF ObjectsTypeOK, EndCapture
  <2>3. o \in Objects /\ o.live /\ o.graph = h /\ o.stream = s /\ ~o.is_capturing /\ o.mine = graph[g].mine
    <3>1. o = [graph[g] EXCEPT !.graph = h, !.is_capturing = FALSE] BY <1>1, <1>5 DEF ObjectsTypeOK
    <3> QED BY <2>2, <3>1 DEF Objects
  <2>4. \A k \in Graphs \ {g} : graph'[k] = graph[k] BY <1>1, <1>5 DEF ObjectsTypeOK
  <2>5. graph' \in [Graphs -> Objects]
    <3>1. DOMAIN graph' = Graphs /\ graph' = [k \in Graphs |-> graph'[k]] BY <1>1, <1>5 DEF ObjectsTypeOK
    <3>2. \A k \in Graphs : graph'[k] \in Objects BY <1>1, <2>3, <2>4 DEF ObjectsTypeOK
    <3> QED BY <3>1, <3>2
  <2>6. capture[s].id \in 0 .. MaxCaptures BY <1>1, <2>1 DEF ObjectsTypeOK, Captures
  <2>7. /\ Recorded(capture[s].id) \in HandleStates /\ Recorded(capture[s].id).state = "live"
        /\ Recorded(capture[s].id).of = capture[s].id
    BY <2>6 DEF Recorded, HandleStates
  <2>8. /\ handle' \in [Handles -> HandleStates] /\ handle'[h].state = "live" /\ handle'[h].of = capture[s].id
        /\ \A k \in Handles \ {h} : handle'[k] = Released(g)[k]
    BY <1>5, <2>7, ReleasedHandles
  <2> HIDE DEF s, o
  <2>9. \A k \in Graphs : graph[k].graph # h
    <3>1. handle[h].state # "live" BY <1>5 DEF Unused
    <3> QED BY <1>1, <3>1 DEF HandlesHeld
  <2>10. ObjectsTypeOK'
    <3>1. \A k \in Graphs : graph'[k].stream = Null => graph'[k].graph = Null
      BY <1>1, <2>1, <2>3, <2>4, NullsDiffer DEF ObjectsTypeOK, o
    <3> QED BY <1>1, <1>5, <2>1, <2>5, <2>8, <3>1 DEF ObjectsTypeOK
  <2>11. GoneEmpty' BY <1>1, <2>3, <2>4 DEF GoneEmpty, o
  <2>12. HandlesHeld'
    <3>1. ASSUME NEW x \in Handles
          PROVE  handle'[x].state = "live" <=> \E k \in Graphs : graph'[k].graph = x
      <4>1. CASE x = h BY <2>3, <2>8, <4>1 DEF o
      <4>2. CASE x # h
        <5>1. handle'[x].state = "live" <=> \E k \in Graphs \ {g} : graph[k].graph = x
          BY <2>8, <4>2, ReleasedHandles
        <5> QED BY <2>3, <2>4, <4>2, <5>1 DEF o
      <4> QED BY <4>1, <4>2
    <3>2. \A k, m \in Graphs : graph'[k].graph # Null /\ graph'[k].graph = graph'[m].graph => k = m
      BY <1>1, <2>3, <2>4, <2>9 DEF HandlesHeld, o
    <3> QED BY <3>1, <3>2 DEF HandlesHeld
  <2>13. ASSUME CaptureOwned, NEW t \in Streams, capture'[t].state # "none"
         PROVE  \E k \in Graphs :
                /\ graph'[k].live /\ graph'[k].is_capturing /\ graph'[k].mine = capture'[t].id
                /\ {x \in Graphs : graph'[x].is_capturing /\ graph'[x].stream = t} = {k}
    <3>1. PICK k \in Graphs : CapturesOn(t, k) BY <2>1, <2>13, CaptureOwnedElements
    <3>2. k # g BY <2>1, <2>13, <3>1 DEF CapturesOn, s
    <3>3. \A x \in Graphs : graph'[x].is_capturing /\ graph'[x].stream = t <=> x = k
      BY <2>3, <2>4, <3>1, <3>2 DEF CapturesOn, o
    <3> QED BY <2>1, <2>4, <2>13, <3>1, <3>2, <3>3 DEF CapturesOn
  <2>14. ASSUME CaptureOwned PROVE capture[s].id = graph[g].mine
    <3>1. capture[s].state # "none" BY <1>5
    <3>2. PICK k \in Graphs : CapturesOn(s, k) BY <2>1, <2>14, <3>1, CaptureOwnedElements
    <3>3. k = g BY <2>1, <3>2 DEF CapturesOn, s
    <3> QED BY <3>2, <3>3 DEF CapturesOn
  <2>15. ASSUME CaptureInv PROVE GraphsOwn'
    <3> SUFFICES ASSUME NEW k \in Graphs, graph'[k].graph # Null
                 PROVE  handle'[graph'[k].graph].of = Has(graph'[k])
      BY DEF GraphsOwn
    <3>1. CASE k = g BY <2>3, <2>8, <2>14, <2>15, <3>1 DEF CaptureInv, Has, o
    <3>2. CASE k # g
      <4>1. graph[k].graph \in Handles \ {h} BY <1>1, <2>4, <2>9, <3>2 DEF ObjectsTypeOK, Objects
      <4> QED BY <2>4, <2>8, <2>15, <3>2, <4>1, ReleasedHandles DEF CaptureInv, GraphsOwn
    <3> QED BY <3>1, <3>2
  <2>16. CaptureInv => CaptureInv' BY <2>13, <2>15 DEF CaptureInv, CaptureOwned
  <2> QED BY <2>10, <2>11, <2>12, <2>16 DEF ObjectsInv
<1>6. ASSUME CanEnd(g), EndedWithoutGraph(g), capture' = Ended(s), UNCHANGED captures
      PROVE  ObjectsInv' /\ (CaptureInv => CaptureInv')
  <2>1. /\ s \in Streams /\ graph[g].is_capturing /\ capture' \in [Streams -> Captures]
        /\ \A t \in Streams : capture'[t].state # "none" => capture'[t] = capture[t] /\ t # s
    BY <1>3, <1>6
  <2>2. /\ graph' = [graph EXCEPT ![g].is_capturing = FALSE, ![g].mine = graph[g].before]
        /\ handle' = handle
    BY <1>6 DEF EndedWithoutGraph
  <2> DEFINE o == graph'[g]
  <2>3. graph[g] \in Objects /\ graph[g].live BY <1>1 DEF ObjectsTypeOK, EndCapture
  <2>4. /\ o \in Objects /\ o.live /\ o.graph = graph[g].graph /\ o.stream = s
        /\ ~o.is_capturing /\ o.mine = graph[g].before
    <3>1. o = [graph[g] EXCEPT !.is_capturing = FALSE, !.mine = graph[g].before]
      BY <1>1, <2>2 DEF ObjectsTypeOK
    <3> QED BY <2>3, <3>1 DEF Objects
  <2>5. \A k \in Graphs \ {g} : graph'[k] = graph[k] BY <1>1, <2>2 DEF ObjectsTypeOK
  <2>6. graph' \in [Graphs -> Objects]
    <3>1. DOMAIN graph' = Graphs /\ graph' = [k \in Graphs |-> graph'[k]] BY <1>1, <2>2 DEF ObjectsTypeOK
    <3>2. \A k \in Graphs : graph'[k] \in Objects BY <1>1, <2>4, <2>5 DEF ObjectsTypeOK
    <3> QED BY <3>1, <3>2
  <2> HIDE DEF s, o
  <2>7. \A k \in Graphs : graph'[k].graph = graph[k].graph /\ graph'[k].stream = graph[k].stream
    BY <2>4, <2>5 DEF s, o
  <2>8. ObjectsTypeOK' BY <1>1, <1>6, <2>1, <2>2, <2>6, <2>7 DEF ObjectsTypeOK
  <2>9. GoneEmpty' BY <1>1, <2>4, <2>5 DEF GoneEmpty, o
  <2>10. HandlesHeld'
    <3>1. \A h \in Handles : (\E k \in Graphs : graph'[k].graph = h) <=> \E k \in Graphs : graph[k].graph = h
      BY <2>7
    <3>2. \A k, m \in Graphs : graph'[k].graph # Null /\ graph'[k].graph = graph'[m].graph => k = m
      BY <1>1, <2>7 DEF HandlesHeld
    <3> QED BY <1>1, <2>2, <3>1, <3>2 DEF HandlesHeld
  <2>11. ASSUME CaptureOwned, NEW t \in Streams, capture'[t].state # "none"
         PROVE  \E k \in Graphs :
                /\ graph'[k].live /\ graph'[k].is_capturing /\ graph'[k].mine = capture'[t].id
                /\ {x \in Graphs : graph'[x].is_capturing /\ graph'[x].stream = t} = {k}
    <3>1. PICK k \in Graphs : CapturesOn(t, k) BY <2>1, <2>11, CaptureOwnedElements
    <3>2. k # g BY <2>1, <2>11, <3>1 DEF CapturesOn, s
    <3>3. \A x \in Graphs : graph'[x].is_capturing /\ graph'[x].stream = t <=> x = k
      BY <2>4, <2>5, <3>1, <3>2 DEF CapturesOn, o
    <3> QED BY <2>1, <2>5, <2>11, <3>1, <3>2, <3>3 DEF CapturesOn
  <2>12. GraphsOwn => GraphsOwn'
    <3>1. \A k \in Graphs : Has(graph'[k]) = Has(graph[k]) BY <2>1, <2>4, <2>5 DEF Has, o
    <3> QED BY <2>2, <2>7, <3>1 DEF GraphsOwn
  <2>13. CaptureInv => CaptureInv' BY <2>11, <2>12 DEF CaptureInv, CaptureOwned
  <2> QED BY <2>8, <2>9, <2>10, <2>13 DEF ObjectsInv
<1>7. EndedWithGraph(g) =>
        \E h \in Handles :
            /\ handle[h] = Unused
            /\ handle' = [Released(g) EXCEPT ![h] = Recorded(capture[s].id)]
            /\ graph' = [graph EXCEPT ![g].graph = h, ![g].is_capturing = FALSE]
  BY DEF EndedWithGraph
<1> HIDE DEF s
<1>8. \/ ~CanEnd(g) /\ Refuse
      \/ /\ CanEnd(g) /\ capture[s].state # "active" /\ capture' = Ended(s)
         /\ UNCHANGED <<graph, handle, captures>>
      \/ /\ CanEnd(g) /\ capture[s].state = "active" /\ capture' = Ended(s) /\ UNCHANGED captures
         /\ EndedWithGraph(g) \/ EndedWithoutGraph(g)
  BY DEF EndCapture, s
<1> QED BY <1>2, <1>4, <1>5, <1>6, <1>7, <1>8

-----------------------------------------------------------------------------
(* The theorems.                                                            *)

\* The calls on a CudaGraph, and CUDA spoiling a capture.
ObjectCall ==
    \/ \E g \in Graphs :
          \/ \E s \in Streams : Construct(g, s)
          \/ Destroy(g) \/ BeginCapture(g) \/ EndCapture(g)
          \/ \E from \in Graphs : MoveConstruct(g, from) \/ MoveAssign(g, from)
    \/ \E s \in Streams : Invalidate(s)

LEMMA ObjectCallObjects ==
    ASSUME ObjectsInv, ObjectCall
    PROVE  ObjectsInv' /\ (Careful /\ CaptureInv => CaptureInv')
  BY ConstructObjects, DestroyObjects, BeginCaptureObjects, EndCaptureObjects, MoveConstructObjects,
     MoveAssignObjects, InvalidateObjects
  DEF ObjectCall

LEMMA ObjectCallExecs ==
    ASSUME ExecsInv, ResultTypeOK, ObjectCall
    PROVE  ExecsInv' /\ ResultTypeOK'
<1>1. UNCHANGED executables /\ ResultTypeOK'
  <2>1. ASSUME NEW g \in Graphs, EndCapture(g) PROVE UNCHANGED executables /\ ResultTypeOK'
    BY <2>1 DEF EndCapture, Refuse, Returns, ResultTypeOK, executables
  <2> QED
    BY <2>1 DEF ObjectCall, Construct, Destroy, MoveConstruct, MoveAssign, BeginCapture, Invalidate,
            Refuse, Returns, ResultTypeOK, executables
<1> QED BY <1>1 DEF executables, ExecsInv, ExecsTypeOK, InstancesShared

GraphInv == ObjectsInv /\ ExecsInv /\ ResultTypeOK

LEMMA GraphInitInv == GraphInit => GraphInv /\ CaptureInv
<1> SUFFICES ASSUME GraphInit PROVE GraphInv /\ CaptureInv OBVIOUS
<1>1. /\ NotCapturing \in Captures /\ NotCapturing.state = "none"
      /\ Unused \in HandleStates /\ Unused.state = "unused"
      /\ Gone.graph = Null /\ ~Gone.live
  BY CudaGraphAssumption DEF NotCapturing, Captures, Unused, HandleStates, Gone
<1>2. ObjectsTypeOK BY <1>1, GoneType, CudaGraphAssumption DEF GraphInit, ObjectsTypeOK
<1>3. GoneEmpty /\ HandlesHeld BY <1>1, NullsDiffer DEF GraphInit, GoneEmpty, HandlesHeld
<1>4. ExecsInv BY NullsDiffer DEF GraphInit, ExecsInv, ExecsTypeOK, InstancesShared
<1>5. CaptureInv BY <1>1 DEF GraphInit, CaptureInv, CaptureOwned, GraphsOwn
<1> QED BY <1>2, <1>3, <1>4, <1>5 DEF GraphInit, GraphInv, ObjectsInv, ResultTypeOK

LEMMA GraphStepInv ==
    GraphInv /\ [GraphNext]_graph_vars => GraphInv' /\ (Careful /\ CaptureInv => CaptureInv')
<1> SUFFICES ASSUME GraphInv, [GraphNext]_graph_vars
             PROVE  GraphInv' /\ (Careful /\ CaptureInv => CaptureInv')
  OBVIOUS
<1>1. CASE ObjectCall BY <1>1, ObjectCallObjects, ObjectCallExecs DEF GraphInv
<1>2. CASE ExecCall
  <2>1. ExecsInv' /\ ResultTypeOK' /\ UNCHANGED objects BY <1>2, ExecCallExecs DEF GraphInv
  <2> QED BY <2>1, ObjectsKept DEF GraphInv
<1>3. CASE UNCHANGED graph_vars
  <2>1. ExecsInv' /\ ResultTypeOK' /\ UNCHANGED objects
    BY <1>3 DEF GraphInv, graph_vars, ExecsInv, ExecsTypeOK, InstancesShared, ResultTypeOK, objects
  <2> QED BY <2>1, ObjectsKept DEF GraphInv
<1>4. GraphNext => ObjectCall \/ ExecCall BY DEF GraphNext, ObjectCall, ExecCall
<1> QED BY <1>1, <1>2, <1>3, <1>4

\* Types of the objects, the handles and the executables; an object that was moved from
\* has neither a stream nor a graph.
THEOREM GraphTypeTheorem == GraphSpec => []GraphTypeOK
<1>1. GraphInv => GraphTypeOK
  BY DEF GraphInv, ObjectsInv, ExecsInv, ObjectsTypeOK, ExecsTypeOK, ResultTypeOK, Objects, Captures,
         HandleStates, GraphTypeOK
<1> QED BY <1>1, GraphInitInv, GraphStepInv, PTL DEF GraphSpec

\* Whatever is moved, assigned and destroyed in which order, and whatever fails, the live
\* cudaGraph_t are those of one object each (the deleters of graph_).
THEOREM HandlesOwnedTheorem == GraphSpec => []HandlesOwned
<1>1. ASSUME GraphInv, NEW h \in Handles
      PROVE  Cardinality({g \in Graphs : graph[g].graph = h}) = IF handle[h].state = "live" THEN 1 ELSE 0
  <2>1. HandlesHeld BY <1>1 DEF GraphInv, ObjectsInv
  <2>2. CASE handle[h].state = "live"
    <3>1. PICK g \in Graphs : graph[g].graph = h BY <2>1, <2>2 DEF HandlesHeld
    <3>2. {k \in Graphs : graph[k].graph = h} = {g} BY <2>1, <3>1, NullsDiffer DEF HandlesHeld
    <3> QED BY <2>2, <3>2, FS_Singleton
  <2>3. CASE handle[h].state # "live"
    <3>1. {k \in Graphs : graph[k].graph = h} = {} BY <2>1, <2>3 DEF HandlesHeld
    <3> QED BY <2>3, <3>1, FS_EmptySet
  <2> QED BY <2>2, <2>3
<1>2. GraphInv => HandlesOwned BY <1>1 DEF HandlesOwned
<1> QED BY <1>2, GraphInitInv, GraphStepInv, PTL DEF GraphSpec

\* A cudaGraphExec_t lives exactly as long as some CudaGraphExec shares it (cuda_graph.h:57).
THEOREM InstancesSharedTheorem == GraphSpec => []InstancesShared
<1>1. GraphInv => InstancesShared BY DEF GraphInv, ExecsInv
<1> QED BY <1>1, GraphInitInv, GraphStepInv, PTL DEF GraphSpec

LEMMA CaptureAlways == Careful /\ GraphSpec => []CaptureInv
<1>1. Careful /\ GraphInv /\ CaptureInv /\ [GraphNext]_graph_vars => (GraphInv /\ CaptureInv)'
  BY GraphStepInv
<1>2. CASE Careful BY <1>1, <1>2, GraphInitInv, PTL DEF GraphSpec
<1>3. CASE ~Careful BY <1>3
<1> QED BY <1>2, <1>3

\* With a client that neither assigns over a running capture nor begins one on the stream
\* of an object that believes to be capturing, every capture in progress belongs to one
\* live object, which can end it (the destructor and EndCapture of cuda_graph.cpp).
THEOREM CaptureOwnedTheorem == Careful /\ GraphSpec => []CaptureOwned
<1>1. CaptureInv => CaptureOwned BY DEF CaptureInv
<1> QED BY <1>1, CaptureAlways, PTL

\* With the same client, an object that is not capturing has the graph of its own latest
\* capture that CUDA ended with one, though several objects capture on the same streams in
\* turn, captures fail, and EndCapture returns true for a capture without a graph.
THEOREM OwnGraphTheorem == Careful /\ GraphSpec => []OwnGraph
<1>1. CaptureInv => OwnGraph BY DEF CaptureInv, GraphsOwn, Has, OwnGraph
<1> QED BY <1>1, CaptureAlways, PTL
=============================================================================
