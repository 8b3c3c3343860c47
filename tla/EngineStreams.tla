---------------------------- MODULE EngineStreams ----------------------------
(***************************************************************************)
(* When the work of a TensorRTEngine really runs.  The host enqueues on    *)
(* two CUDA streams: copies and (de)allocations always go to the engine's  *)
(* own stream_, inferences to GetCudaStream(), which SetStream replaces.   *)
(* Only input_ready_events_ and output_ready_events_ order the two, and    *)
(* the streams on which the client itself reads outputs.                   *)
(*                                                                         *)
(* Abstractions.  One input and one output; addresses, shapes and graphs   *)
(* are TensorRTEngine's, and a graph launch is an inference like any       *)
(* other.  Recording an event on a stream marks how much has been enqueued *)
(* there: an event is <<stream, count>>, done when that much has run.      *)
(* Recording may fail; the call then returns false, with what it enqueued  *)
(* before still under way and the event of an earlier call in its place.   *)
(***************************************************************************)
EXTENDS Integers, Sequences, FiniteSets, FiniteSetsExt

CONSTANTS
    Streams, Internal,   \* CUDA streams, and stream_
    Careful,             \* whether the client waits for what it would overtake
    MaxVersions,         \* bound: SetInputData calls
    MaxRuns,             \* bound: InferAsync calls
    MaxReads,            \* bound: GetOutputData calls, and reads by the client
    MaxGrowths,          \* bound: reallocations, of the input and of the output
    Faults,              \* what may fail: "record"
    None

ASSUME StreamsAssumption ==
    /\ Internal \in Streams
    /\ Careful \in BOOLEAN
    /\ {MaxVersions, MaxRuns, MaxReads, MaxGrowths} \subseteq Nat
    /\ Faults \subseteq {"record"}
    /\ None \notin Streams \X Nat

VARIABLES
    issued,        \* the operations enqueued on each stream, in order
    done,          \* how many of them have completed
    running,       \* the streams whose next operation has begun
    stream,        \* GetCudaStream()
    version,       \* number of SetInputData calls: names the data
    runs, reads,   \* number of InferAsync calls, and of reads of the output
    cells,         \* which allocation the input and the output tensor have
    input_ready,   \* input_ready_events_: the event, or None
    output_ready,  \* output_ready_events_
    host,          \* the event the host is blocked on, or None
    known,         \* how much of each stream the client knows to be complete
    returned,      \* the latest SetInputData and InferAsync to return true, as the
                   \* events these were to leave, or None
    live,          \* allocations that the device holds
    content,       \* input data in the buffer, and the run that wrote the output
    delivered      \* what the latest copies to the host were to read and have read

device_vars == <<done, running, live, content, delivered>>
engine_vars == <<stream, version, runs, reads, cells, input_ready, output_ready>>
client_vars == <<host, known, returned>>
streams_vars == <<issued, device_vars, engine_vars, client_vars>>

-----------------------------------------------------------------------------
(* Operations of the device, as enqueued: the allocations they read and     *)
(* write, the data and the run they carry or are meant to find, and the     *)
(* events the stream waits for before them.                                 *)

In(n) == <<"input", n>>
Out(n) == <<"output", n>>
Input == In(cells.input)
Output == Out(cells.output)

Op(kind, reading, writing, data, run, after) ==
    [kind |-> kind, reads |-> reading, writes |-> writing, data |-> data, run |-> run, after |-> after]

Conflict(p, q) ==
    p.writes \cap (q.reads \cup q.writes) # {} \/ q.writes \cap p.reads # {}

Head1(s) == issued[s][done[s] + 1]
Reached(e) == done[e[1]] >= e[2]

\* cudaEventRecord after the latest operation on s.
Recorded(s) == <<s, Len(issued'[s])>>
\* Whether cudaEventRecord succeeds.
Records == {TRUE} \cup (IF "record" \in Faults THEN {FALSE} ELSE {})

\* cudaStreamWaitEvent before the next operation.
WaitEvent(e) == IF e = None THEN {} ELSE {e}

Enqueue(s, ops) == issued' = [issued EXCEPT ![s] = @ \o ops]

-----------------------------------------------------------------------------
(* The client.  A careful one does not overtake what still runs on another  *)
(* stream, as far as the calls it has returned from tell it.                *)

Unknown(s, kinds) == \E n \in known[s] + 1 .. Len(issued[s]) : issued[s][n].kind \in kinds

MayOverwrite == Careful => \A s \in Streams \ {Internal} : ~Unknown(s, {"infer"})
\* On another stream than stream_ an inference waits for a SetInputData that returned
\* true, and whatever touched the input or made the output after that is over.
MayInfer ==
    Careful =>
        /\ \A s \in Streams \ {stream} : ~Unknown(s, {"read"})
        /\ stream # Internal =>
              /\ returned.input # None
              /\ \A n \in returned.input[2] + 1 .. Len(issued[Internal]) :
                    \/ n <= known[Internal]
                    \/ \A c \in issued[Internal][n].writes : c[1] = "output" /\ c # Output
MayGrowOutput == Careful => \A s \in Streams \ {Internal} : ~Unknown(s, {"infer", "read"})
\* After an InferAsync that did not return true there is nothing to wait for on another
\* stream: the client synchronises, or infers again.
MayRead(s) ==
    Careful =>
        /\ \E r \in Streams : \E n \in 1 .. Len(issued[r]) :
              issued[r][n].run = runs /\ Output' \in issued[r][n].writes
        /\ \A r \in Streams \ {s} : \A n \in known[r] + 1 .. Len(issued[r]) :
              issued[r][n].kind = "infer" => \E e \in WaitEvent(returned.output) : r = e[1] /\ n <= e[2]
MayChangeStream == Careful => ~Unknown(stream, {"infer"})

\* Waiting for e tells what e waited for, too.
Implied(e) == {e} \cup UNION {issued[e[1]][n].after : n \in 1 .. e[2]}
Learn(e) ==
    known' = [s \in Streams |-> Max({known[s]} \cup {f[2] : f \in {g \in Implied(e) : g[1] = s}})]

-----------------------------------------------------------------------------
(* The calls of the engine.                                                 *)

Ready == host = None
HostKeeps == UNCHANGED client_vars

\* What a call that was to leave the event e tells the client.
Returns(call, ok, e) == returned' = IF ok THEN [returned EXCEPT ![call] = e] ELSE returned

\* Slips: the input-ready event is recorded before the copy; the result of recording is
\* not looked at.
RecordInputReadyEarly(ok) ==
    /\ input_ready' = IF ok THEN <<Internal, Len(issued[Internal])>> ELSE input_ready
    /\ Returns("input", ok, Recorded(Internal))
RecordInputUnchecked(ok) ==
    /\ input_ready' = IF ok THEN Recorded(Internal) ELSE input_ready
    /\ Returns("input", TRUE, Recorded(Internal))
RecordOutputUnchecked(ok) ==
    /\ output_ready' = IF ok THEN Recorded(stream) ELSE output_ready
    /\ Returns("output", TRUE, Recorded(stream))

\* The new event replaces the one before once it is recorded.
RecordInputReadyEvent(ok) ==
    /\ input_ready' = IF ok THEN Recorded(Internal) ELSE input_ready
    /\ Returns("input", ok, Recorded(Internal))
RecordOutputReadyEvents(ok) ==
    /\ output_ready' = IF ok THEN Recorded(stream) ELSE output_ready
    /\ Returns("output", ok, Recorded(stream))

\* Resize frees the old allocation and makes the new one on the tensor's own stream.
Growth(old, new) == <<Op("free", {}, {old}, 0, 0, {}), Op("alloc", {}, {new}, 0, 0, {})>>

MayGrow == cells.input + cells.output < 2 + MaxGrowths

SetInputData(grows, recorded) ==
    /\ Ready /\ MayOverwrite
    /\ version < MaxVersions /\ (grows => MayGrow)
    /\ version' = version + 1
    /\ cells' = IF grows THEN [cells EXCEPT !.input = @ + 1] ELSE cells
    /\ Enqueue(Internal, (IF grows THEN Growth(Input, Input') ELSE <<>>)
                            \o <<Op("write", {}, {Input'}, version', 0, {})>>)
    /\ RecordInputReadyEvent(recorded)
    /\ UNCHANGED <<host, known, device_vars, stream, runs, reads, output_ready>>

\* Slip: the inference does not wait for the inputs.
InferAsyncUnordered(recorded) ==
    /\ Ready /\ MayInfer /\ runs < MaxRuns
    /\ runs' = runs + 1
    /\ Enqueue(stream, <<Op("infer", {Input}, {Output}, version, runs', {})>>)
    /\ RecordOutputReadyEvents(recorded)
    /\ UNCHANGED <<host, known, device_vars, stream, version, reads, cells, input_ready>>

InferAsync(recorded) ==
    /\ Ready /\ MayInfer /\ runs < MaxRuns
    /\ runs' = runs + 1
    /\ Enqueue(stream, <<Op("infer", {Input}, {Output}, version, runs', WaitEvent(input_ready))>>)
    /\ RecordOutputReadyEvents(recorded)
    /\ UNCHANGED <<host, known, device_vars, stream, version, reads, cells, input_ready>>

ReadOutput(s, growth) ==
    /\ Ready /\ output_ready # None /\ MayRead(s) /\ reads < MaxReads
    /\ reads' = reads + 1
    /\ Enqueue(s, growth \o <<Op("read", {Output'}, {}, 0, runs, WaitEvent(output_ready))>>)

\* UpdateOutputShapes may reallocate the output first, which leaves nothing to read: a
\* careful client has given it its size before.  Without async, CopyToHost synchronises
\* the stream of the tensor.
GetOutputData(async, grows) ==
    /\ grows => MayGrow
    /\ cells' = IF grows THEN [cells EXCEPT !.output = @ + 1] ELSE cells
    /\ ReadOutput(Internal, IF grows THEN Growth(Output, Output') ELSE <<>>)
    /\ host' = IF async THEN None ELSE Recorded(Internal)
    /\ UNCHANGED <<known, returned, device_vars, stream, version, runs, input_ready, output_ready>>

\* The client makes a stream of its own wait for the output and reads it there.
ClientRead(s) ==
    /\ s # Internal
    /\ UNCHANGED cells /\ ReadOutput(s, <<>>)
    /\ HostKeeps /\ UNCHANGED <<device_vars, stream, version, runs, input_ready, output_ready>>

\* Slip: the tensor does not keep the allocation that Resize made for it.
GrowOutputForgotten ==
    /\ Ready /\ MayGrow /\ MayGrowOutput
    /\ Enqueue(Internal, Growth(Output, Out(cells.output + 1)))
    /\ HostKeeps /\ UNCHANGED <<device_vars, stream, version, runs, reads, cells, input_ready, output_ready>>

\* UpdateOutputShapes reallocates the output, called from FreezeIO or from a
\* GetOutputData that then finds no event or another size.
GrowOutput ==
    /\ Ready /\ MayGrow /\ MayGrowOutput
    /\ cells' = [cells EXCEPT !.output = @ + 1]
    /\ Enqueue(Internal, Growth(Output, Output'))
    /\ HostKeeps /\ UNCHANGED <<device_vars, stream, version, runs, reads, input_ready, output_ready>>

SetStream(s) ==
    /\ Ready /\ MayChangeStream /\ s # Internal /\ s # stream
    /\ stream' = s
    /\ HostKeeps /\ UNCHANGED <<issued, device_vars, version, runs, reads, cells, input_ready, output_ready>>

Blocks(e) == Ready /\ host' = e /\ UNCHANGED <<issued, device_vars, engine_vars, known, returned>>

Synchronize == Blocks(<<stream, Len(issued[stream])>>)
ClientSynchronize(s) == s # Internal /\ s # stream /\ Blocks(<<s, Len(issued[s])>>)
SynchronizeInput == input_ready # None /\ Blocks(input_ready)
SynchronizeOutput == output_ready # None /\ Blocks(output_ready)

\* The blocking call returns.
HostReturn ==
    /\ ~Ready /\ Reached(host)
    /\ Learn(host) /\ host' = None
    /\ UNCHANGED <<issued, device_vars, engine_vars, returned>>

-----------------------------------------------------------------------------
(* The device: each stream runs its operations in order, a wait holds up    *)
(* all that follow it, and nothing else orders the streams.                 *)

Begin(s) ==
    /\ s \notin running /\ done[s] < Len(issued[s])
    /\ \A e \in Head1(s).after : Reached(e)
    /\ running' = running \cup {s}
    /\ UNCHANGED <<issued, done, live, content, delivered, engine_vars, client_vars>>

Effect(op) ==
    /\ live' = CASE op.kind = "alloc" -> live \cup op.writes
                 [] op.kind = "free" -> live \ op.writes
                 [] OTHER -> live
    /\ content' = CASE op.kind = "write" -> [content EXCEPT !.input = op.data]
                    [] op.kind = "infer" -> [content EXCEPT !.run = op.run, !.wants = op.data,
                                                            !.used = content.input]
                    [] op.kind = "alloc" /\ \A cell \in op.writes : cell[1] = "output" -> [content EXCEPT !.run = 0]
                    [] OTHER -> content
    /\ delivered' = IF op.kind = "read" THEN [wants |-> op.run, got |-> content.run] ELSE delivered

End(s) ==
    /\ s \in running
    /\ running' = running \ {s}
    /\ done' = [done EXCEPT ![s] = @ + 1]
    /\ Effect(Head1(s))
    /\ UNCHANGED <<issued, engine_vars, client_vars>>

-----------------------------------------------------------------------------
\* The constructor has enqueued the allocations of the input and the output.
StreamsInit ==
    /\ issued = [s \in Streams |-> IF s = Internal THEN <<Op("alloc", {}, {In(1)}, 0, 0, {}), Op("alloc", {}, {Out(1)}, 0, 0, {})>>
                                        ELSE <<>>]
    /\ done = [s \in Streams |-> 0] /\ running = {}
    /\ stream = Internal /\ version = 0 /\ runs = 0 /\ reads = 0
    /\ cells = [input |-> 1, output |-> 1] /\ input_ready = None /\ output_ready = None
    /\ host = None /\ known = [s \in Streams |-> 0] /\ returned = [input |-> None, output |-> None]
    /\ live = {}
    /\ content = [input |-> 0, run |-> 0, wants |-> 0, used |-> 0]
    /\ delivered = [wants |-> 0, got |-> 0]

Host ==
    \/ \E grows \in BOOLEAN, recorded \in Records : SetInputData(grows, recorded)
    \/ \E recorded \in Records : InferAsync(recorded)
    \/ \E async, grows \in BOOLEAN : GetOutputData(async, grows)
    \/ GrowOutput
    \/ \E s \in Streams : SetStream(s) \/ ClientRead(s) \/ ClientSynchronize(s)
    \/ Synchronize \/ SynchronizeInput \/ SynchronizeOutput
    \/ HostReturn

Device == \E s \in Streams : Begin(s) \/ End(s)

StreamsNext == Host \/ Device

StreamsSpec == StreamsInit /\ [][StreamsNext]_streams_vars

-----------------------------------------------------------------------------
(* Properties.                                                              *)

Enqueued(e) == e \in Streams \X Nat /\ e[2] <= Len(issued[e[1]])

\* Types, and that an event is only ever of operations already enqueued.
StreamsTypeOK ==
    /\ done \in [Streams -> Nat] /\ \A s \in Streams : done[s] <= Len(issued[s])
    /\ running \subseteq Streams /\ stream \in Streams
    /\ \A e \in {input_ready, output_ready, host} \ {None} : Enqueued(e)
    /\ \A s \in Streams : known[s] <= done[s]
    /\ live \subseteq {In(n) : n \in 1 .. cells.input} \cup {Out(n) : n \in 1 .. cells.output}

\* No two operations that run at the same time touch the same buffer, unless both
\* only read it.
NoRace ==
    \A s, r \in running : s # r => ~Conflict(Head1(s), Head1(r))

\* Nothing uses an allocation of the input or the output before it exists, or after it
\* was freed (cudaMallocAsync and cudaFreeAsync are ordered on stream_ only).
BufferLive ==
    \A s \in running : LET op == Head1(s) IN op.kind # "alloc" => op.reads \cup op.writes \subseteq live

\* An inference works on the data of the last SetInputData before it.
InputCurrent == content.used = content.wants

\* GetOutputData copies, and a stream of the client finds, the output of the last
\* InferAsync before it, whatever stream that ran on.
OutputDelivered == delivered.got = delivered.wants
=============================================================================
