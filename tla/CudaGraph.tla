----------------------------- MODULE CudaGraph -----------------------------
(***************************************************************************)
(* driver::graph::CudaGraph and CudaGraphExec (src/driver/cuda_graph.cpp): *)
(* objects that capture what is enqueued on a stream into a graph, and     *)
(* the executables made of these graphs.                                   *)
(*                                                                         *)
(* Abstractions.  The recorded work is the number of its capture, 0 for    *)
(* the empty graph of a constructor.  capture_stream_, a shared copy of    *)
(* the client's stream, is that stream; one thread makes all the calls.    *)
(***************************************************************************)
EXTENDS Naturals, FiniteSets

CONSTANTS
    Graphs, Execs,        \* the variables of the client that may hold an object
    Streams,
    Handles, Instances,   \* what CUDA may return as cudaGraph_t and cudaGraphExec_t
    MaxCaptures,          \* bounds the captures begun
    Faults,               \* of "create", "instantiate", "invalidate" and "null_graph"
    Careful,              \* the client is careful, see MayBegin and MayAssign
    Null, Absent,
    Empty                 \* exec_ of a default executable: it points to a null handle

ASSUME CudaGraphAssumption ==
    /\ MaxCaptures \in Nat
    /\ Faults \subseteq {"create", "instantiate", "invalidate", "null_graph"}
    /\ Careful \in BOOLEAN
    /\ Null \notin Handles \cup Instances \cup Streams
    /\ Absent \notin Instances /\ Empty \notin Instances
    /\ Cardinality({Null, Absent, Empty}) = 3

VARIABLES
    graph,      \* the CudaGraph objects
    capture,    \* the capture mode of every stream
    handle,     \* the cudaGraph_t: its state, and the capture it records
    exec,       \* exec_ of the CudaGraphExec objects
    instance,   \* the state of every cudaGraphExec_t
    captures,   \* how many captures have begun
    ret,        \* result of the latest call
    aborted     \* CUDA_CHECK has ended the process

graph_vars == <<graph, capture, handle, exec, instance, captures, ret, aborted>>

\* History: mine is the latest capture begun by this object, or by the one moved into it,
\* that CUDA has not ended without a graph; before is what mine was when it began.
Gone == [live |-> FALSE, graph |-> Null, stream |-> Null, is_capturing |-> FALSE,
         mine |-> 0, before |-> 0]
NotCapturing == [state |-> "none", id |-> 0]
Unused == [state |-> "unused", of |-> 0]
Recorded(id) == [state |-> "live", of |-> id]

GraphInit ==
    /\ graph = [g \in Graphs |-> Gone]
    /\ capture = [s \in Streams |-> NotCapturing]
    /\ handle = [h \in Handles |-> Unused]
    /\ exec = [e \in Execs |-> Absent]
    /\ instance = [i \in Instances |-> "unused"]
    /\ captures = 0 /\ ret = TRUE /\ aborted = FALSE

Returns(result) == ret' = result /\ UNCHANGED aborted
executables == <<exec, instance>>
Refuse == Returns(FALSE) /\ UNCHANGED <<graph, capture, handle, executables, captures>>

\* Slip: the graph is not destroyed.
ReleasedNever(g) == handle
\* The deleter of graph_: cudaGraphDestroy.
Released(g) ==
    IF graph[g].graph = Null THEN handle ELSE [handle EXCEPT ![graph[g].graph].state = "destroyed"]

\* cudaStreamEndCapture leaves the capture mode, whatever it returns.
Ended(s) == [capture EXCEPT ![s] = NotCapturing]

-----------------------------------------------------------------------------
(* CudaGraph.                                                               *)

\* A constructor whose cudaGraphCreate failed leaves an object without a graph.
Construct(g, s) ==
    /\ ~graph[g].live
    /\ \/ \E h \in Handles :
             /\ handle[h] = Unused
             /\ handle' = [handle EXCEPT ![h] = Recorded(0)]
             /\ graph' = [graph EXCEPT ![g] = [Gone EXCEPT !.live = TRUE, !.graph = h, !.stream = s]]
       \/ /\ "create" \in Faults
          /\ graph' = [graph EXCEPT ![g] = [Gone EXCEPT !.live = TRUE, !.stream = s]]
          /\ UNCHANGED handle
    /\ Returns(TRUE) /\ UNCHANGED <<capture, executables, captures>>

\* Slip: the destructor leaves a running capture alone.
DestroyCapturing(g) ==
    /\ graph[g].live
    /\ handle' = Released(g)
    /\ graph' = [graph EXCEPT ![g] = Gone]
    /\ Returns(TRUE) /\ UNCHANGED <<capture, executables, captures>>

\* ~CudaGraph, which destroys the graph of the capture it ends at once.
Destroy(g) ==
    /\ graph[g].live
    /\ capture' = IF graph[g].is_capturing /\ graph[g].stream # Null
                  THEN Ended(graph[g].stream) ELSE capture
    /\ handle' = Released(g)
    /\ graph' = [graph EXCEPT ![g] = Gone]
    /\ Returns(TRUE) /\ UNCHANGED <<executables, captures>>

\* Slip: graph_ is copied like is_capturing_.
LeftBehindGraph(g) == [graph[g] EXCEPT !.stream = Null]
\* What the defaulted moves leave of their source: the pointers are gone, the flag is not.
LeftBehind(g) == [graph[g] EXCEPT !.graph = Null, !.stream = Null]

MoveConstruct(g, from) ==
    /\ ~graph[g].live /\ graph[from].live
    /\ graph' = [graph EXCEPT ![g] = graph[from], ![from] = LeftBehind(from)]
    /\ Returns(TRUE) /\ UNCHANGED <<capture, handle, executables, captures>>

\* The client: assigning to an object drops its capture without ending it.
MayAssign(g) == Careful => ~(graph[g].is_capturing /\ graph[g].stream # Null)

MoveAssign(g, from) ==
    /\ g # from /\ graph[g].live /\ graph[from].live /\ MayAssign(g)
    /\ handle' = Released(g)
    /\ graph' = [graph EXCEPT ![g] = graph[from], ![from] = LeftBehind(from)]
    /\ Returns(TRUE) /\ UNCHANGED <<capture, executables, captures>>

\* The client: an object whose EndCapture failed still believes to be capturing, and
\* would end the capture of another object on its stream.
MayBegin(g) ==
    Careful => \A h \in Graphs \ {g} :
                  ~(graph[h].is_capturing /\ graph[h].stream = graph[g].stream)

CanBegin(g) ==
    /\ ~graph[g].is_capturing /\ graph[g].stream # Null /\ graph[g].graph # Null
    /\ capture[graph[g].stream].state = "none"

BeginCapture(g) ==
    /\ graph[g].live /\ MayBegin(g)
    /\ \/ /\ CanBegin(g) /\ captures < MaxCaptures
          /\ captures' = captures + 1
          /\ capture' = [capture EXCEPT ![graph[g].stream] = [state |-> "active", id |-> captures']]
          /\ graph' = [graph EXCEPT ![g].is_capturing = TRUE, ![g].mine = captures',
                                    ![g].before = graph[g].mine]
          /\ Returns(TRUE) /\ UNCHANGED <<handle, executables>>
       \/ ~CanBegin(g) /\ Refuse

\* An operation that may not be captured spoils the captures of its stream.
Invalidate(s) ==
    /\ "invalidate" \in Faults /\ capture[s].state = "active"
    /\ capture' = [capture EXCEPT ![s].state = "invalid"]
    /\ UNCHANGED <<graph, handle, executables, captures, ret, aborted>>

CanEnd(g) == graph[g].is_capturing /\ graph[g].stream # Null

\* What EndCapture leaves when cudaStreamEndCapture succeeds but gives no graph: a warning,
\* and the graph that g had before.
EndedWithoutGraph(g) ==
    /\ "null_graph" \in Faults
    /\ graph' = [graph EXCEPT ![g].is_capturing = FALSE, ![g].mine = graph[g].before]
    /\ UNCHANGED handle

\* And when it gives one, which replaces the graph that g had before.
EndedWithGraph(g) ==
    \E h \in Handles :
        /\ handle[h] = Unused
        /\ handle' = [Released(g) EXCEPT ![h] = Recorded(capture[graph[g].stream].id)]
        /\ graph' = [graph EXCEPT ![g].graph = h, ![g].is_capturing = FALSE]

\* Slip: the result of cudaStreamEndCapture is not looked at, so that its failure is
\* taken for a capture without a graph.
EndCaptureUnchecked(g) ==
    /\ graph[g].live
    /\ \/ /\ CanEnd(g)
          /\ \/ capture[graph[g].stream].state = "active" /\ (EndedWithGraph(g) \/ EndedWithoutGraph(g))
             \/ /\ capture[graph[g].stream].state # "active"
                /\ graph' = [graph EXCEPT ![g].is_capturing = FALSE]
                /\ UNCHANGED handle
          /\ capture' = Ended(graph[g].stream)
          /\ Returns(TRUE) /\ UNCHANGED <<executables, captures>>
       \/ ~CanEnd(g) /\ Refuse

\* A capture that was spoilt, or is over, has no graph: the call fails and is_capturing_ stays.
EndCapture(g) ==
    /\ graph[g].live
    /\ \/ /\ CanEnd(g) /\ capture[graph[g].stream].state = "active"
          /\ EndedWithGraph(g) \/ EndedWithoutGraph(g)
          /\ capture' = Ended(graph[g].stream)
          /\ Returns(TRUE) /\ UNCHANGED <<executables, captures>>
       \/ /\ CanEnd(g) /\ capture[graph[g].stream].state # "active"
          /\ capture' = Ended(graph[g].stream)
          /\ Returns(FALSE) /\ UNCHANGED <<graph, handle, executables, captures>>
       \/ ~CanEnd(g) /\ Refuse

-----------------------------------------------------------------------------
(* CudaGraphExec.                                                           *)

\* Slip: every object destroys its executable.
DroppedAlways(e) ==
    IF exec[e] \in Instances THEN [instance EXCEPT ![exec[e]] = "destroyed"] ELSE instance
\* What is left of the executables when e no longer refers to its own.
Dropped(e) ==
    IF exec[e] \in Instances /\ \A f \in Execs \ {e} : exec[f] # exec[e]
    THEN [instance EXCEPT ![exec[e]] = "destroyed"] ELSE instance

ExecConstruct(e) ==
    /\ exec[e] = Absent
    /\ exec' = [exec EXCEPT ![e] = Empty]
    /\ Returns(TRUE) /\ UNCHANGED <<graph, capture, handle, captures, instance>>

\* Instantiate, its result constructed in or assigned to e.
Instantiate(g, e) ==
    /\ graph[g].live
    /\ \/ /\ graph[g].graph # Null
          /\ \E i \in Instances :
                /\ instance[i] = "unused"
                /\ instance' = [Dropped(e) EXCEPT ![i] = "live"]
                /\ exec' = [exec EXCEPT ![e] = i]
       \/ /\ graph[g].graph = Null \/ "instantiate" \in Faults
          /\ instance' = Dropped(e)
          /\ exec' = [exec EXCEPT ![e] = Empty]
    /\ Returns(TRUE) /\ UNCHANGED <<graph, capture, handle, captures>>

\* Copy construction and assignment: one shared_ptr more.
ExecCopy(e, from) ==
    /\ e # from /\ exec[from] # Absent
    /\ instance' = Dropped(e)
    /\ exec' = [exec EXCEPT ![e] = exec[from]]
    /\ Returns(TRUE) /\ UNCHANGED <<graph, capture, handle, captures>>

ExecMove(e, from) ==
    /\ e # from /\ exec[from] # Absent
    /\ instance' = Dropped(e)
    /\ exec' = [exec EXCEPT ![e] = exec[from], ![from] = Null]
    /\ Returns(TRUE) /\ UNCHANGED <<graph, capture, handle, captures>>

ExecDestroy(e) ==
    /\ exec[e] # Absent
    /\ instance' = Dropped(e)
    /\ exec' = [exec EXCEPT ![e] = Absent]
    /\ Returns(TRUE) /\ UNCHANGED <<graph, capture, handle, captures>>

\* cudaGraphLaunch refuses the null handle of a default executable.
Launch(e) ==
    /\ exec[e] # Absent
    /\ Returns(exec[e] \in Instances)
    /\ UNCHANGED <<graph, capture, handle, executables, captures>>

\* Update; CUDA says whether the graph fits the executable.  graph() checks its pointer
\* before CUDA is called.
Update(e, g) ==
    /\ exec[e] # Absent /\ graph[g].live
    /\ \/ exec[e] = Null /\ Returns(FALSE)
       \/ exec[e] # Null /\ graph[g].graph = Null /\ aborted' = TRUE /\ UNCHANGED ret
       \/ exec[e] # Null /\ graph[g].graph # Null
          /\ \E fits \in BOOLEAN : Returns(fits /\ exec[e] \in Instances)
    /\ UNCHANGED <<graph, capture, handle, executables, captures>>

-----------------------------------------------------------------------------
GraphNext ==
    /\ ~aborted
    /\ \/ \E g \in Graphs :
             \/ \E s \in Streams : Construct(g, s)
             \/ Destroy(g)
             \/ \E from \in Graphs : MoveConstruct(g, from) \/ MoveAssign(g, from)
             \/ BeginCapture(g)
             \/ EndCapture(g)
             \/ \E e \in Execs : Instantiate(g, e) \/ Update(e, g)
       \/ \E s \in Streams : Invalidate(s)
       \/ \E e \in Execs :
             \/ ExecConstruct(e)
             \/ \E from \in Execs : ExecCopy(e, from) \/ ExecMove(e, from)
             \/ ExecDestroy(e)
             \/ Launch(e)

GraphSpec == GraphInit /\ [][GraphNext]_graph_vars

-----------------------------------------------------------------------------
(* Properties.                                                              *)

\* Types; an object that is gone, or was moved from, has no graph to lose.
GraphTypeOK ==
    /\ graph \in [Graphs -> [live : BOOLEAN, graph : Handles \cup {Null}, stream : Streams \cup {Null},
                             is_capturing : BOOLEAN, mine : 0 .. MaxCaptures, before : 0 .. MaxCaptures]]
    /\ \A g \in Graphs : graph[g].stream = Null => graph[g].graph = Null
    /\ capture \in [Streams -> [state : {"none", "active", "invalid"}, id : 0 .. MaxCaptures]]
    /\ handle \in [Handles -> [state : {"unused", "live", "destroyed"}, of : 0 .. MaxCaptures]]
    /\ exec \in [Execs -> Instances \cup {Null, Absent, Empty}]
    /\ instance \in [Instances -> {"unused", "live", "destroyed"}]
    /\ captures \in 0 .. MaxCaptures /\ ret \in BOOLEAN /\ aborted \in BOOLEAN

\* A stream that is capturing belongs to the one object that began the capture and can
\* still end it, through moves and destructions: no stream stays in capture mode with
\* nobody to take it out (the destructor, cuda_graph.cpp:27, and the defaulted moves).
CaptureOwned ==
    \A s \in Streams : capture[s].state # "none" =>
        \E g \in Graphs :
            /\ graph[g].live /\ graph[g].is_capturing /\ graph[g].mine = capture[s].id
            /\ {h \in Graphs : graph[h].is_capturing /\ graph[h].stream = s} = {g}

\* An object that is not capturing has the graph of its own latest capture: neither an
\* older one nor the capture of another object on the same stream (EndCapture, and what
\* Instantiate then uses).  One exception, of the code: a capture that CUDA ends with
\* success and without a graph also makes EndCapture return true (cuda_graph.cpp:64-69);
\* the object then has the graph of its own latest capture before that one.  A failure
\* of CUDA is never taken for such a capture.
OwnGraph ==
    \A g \in Graphs : graph[g].graph # Null /\ ~graph[g].is_capturing =>
        handle[graph[g].graph].of = graph[g].mine

\* No cudaGraph_t is lost, destroyed while in use, or destroyed twice: the live ones are
\* those of one object each (the deleters of graph_).
HandlesOwned ==
    \A h \in Handles :
        Cardinality({g \in Graphs : graph[g].graph = h}) = IF handle[h].state = "live" THEN 1 ELSE 0

\* An executable lives as long as some CudaGraphExec shares it, and no longer
\* (cuda_graph.h:57, "Exec instances can be shared").
InstancesShared ==
    \A i \in Instances : instance[i] = "live" <=> \E e \in Execs : exec[e] = i
=============================================================================
