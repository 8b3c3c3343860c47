------------------------ MODULE EngineStreams_proofs ------------------------
(***************************************************************************)
(* The order of an engine's device work, for any number of streams, of     *)
(* calls and of reallocations, and every speed of the device.              *)
(***************************************************************************)
EXTENDS EngineStreams, FiniteSetTheorems, WellFoundedInduction, SequenceTheorems, TLAPS

-----------------------------------------------------------------------------
(* Types, and what the operations enqueued look like.                       *)

Positive == Nat \ {0}
Cells == {"input", "output"} \X Positive
Events == Streams \X Nat
Ops ==
    [kind : {"alloc", "free", "write", "infer", "read"}, reads : SUBSET Cells, writes : SUBSET Cells,
     data : Nat, run : Nat, after : SUBSET Events]

Uses(p) == p.reads \cup p.writes
CellsMade == {In(n) : n \in 1 .. cells.input} \cup {Out(n) : n \in 1 .. cells.output}
Positions(s) == 1 .. Len(issued[s])
\* How many operations of a stream have begun, with their waits over.
Begun(s) == IF s \in running THEN done[s] + 1 ELSE done[s]

Values ==
    /\ issued \in [Streams -> Seq(Ops)]
    /\ done \in [Streams -> Nat] /\ known \in [Streams -> Nat]
    /\ running \subseteq Streams /\ stream \in Streams
    /\ version \in Nat /\ runs \in Nat /\ reads \in Nat
    /\ cells \in [input : Positive, output : Positive]
    /\ content \in [input : Nat, run : Nat, wants : Nat, used : Nat]
    /\ delivered \in [wants : Nat, got : Nat]

Progress ==
    /\ \A s \in Streams : known[s] <= done[s] /\ Begun(s) <= Len(issued[s])
    /\ \A e \in {input_ready, output_ready, host} \ {None} : Enqueued(e)
    /\ live \subseteq CellsMade

\* An operation names allocations that exist, and waits for what has been enqueued.
Grounded(p) == Uses(p) \subseteq CellsMade /\ \A e \in p.after : Enqueued(e)
AllGrounded == \A s \in Streams : \A n \in Positions(s) : Grounded(issued[s][n])

\* Nothing begins before the events it waits for.
WaitsKept == \A s \in Streams : \A n \in 1 .. Begun(s) : \A e \in issued[s][n].after : Reached(e)

StreamsInv == Values /\ Progress /\ AllGrounded /\ WaitsKept

-----------------------------------------------------------------------------
(* The order of the device's work.                                          *)

\* What e includes: the operations up to its mark, and what these waited for.
Covers(e, s, n) ==
    \/ e[1] = s /\ n <= e[2]
    \/ \E k \in 1 .. e[2] : \E f \in issued[e[1]][k].after : f[1] = s /\ n <= f[2]

\* The n-th operation of s is over when the m-th of r begins: by their stream, since it
\* is over already, or by an event that r waits for.
Before(s, n, r, m) ==
    \/ s = r /\ n < m
    \/ n <= done[s]
    \/ \E k \in 1 .. m : \E e \in issued[r][k].after : Covers(e, s, n)

\* Allocations of a tensor before later ones of it.
Earlier(cs, ds) == \E c \in cs, d \in ds : c[1] = d[1] /\ c[2] < d[2]

\* Which of two operations has to come first for the results to be right.
Precedes(p, q) ==
    \/ p.kind = "write" /\ q.kind = "infer" /\ p.data <= q.data
    \/ p.kind = "infer" /\ q.kind = "write" /\ p.data < q.data
    \/ p.kind = "write" /\ q.kind = "write" /\ p.data < q.data
    \/ p.kind = "infer" /\ q.kind = "infer" /\ p.run < q.run
    \/ p.kind = "infer" /\ q.kind = "read" /\ p.run <= q.run
    \/ p.kind = "read" /\ q.kind = "infer" /\ p.run < q.run
    \/ p.kind = "read" /\ q.kind = "alloc" /\ Earlier(p.reads, q.writes)
    \/ p.kind = "alloc" /\ q.kind # "alloc" /\ p.writes \cap Uses(q) # {}
    \/ p.kind \notin {"alloc", "free"} /\ q.kind = "free" /\ Uses(p) \cap q.writes # {}

Ordered ==
    \A s, r \in Streams : \A n \in Positions(s), m \in Positions(r) :
        Precedes(issued[s][n], issued[r][m]) => Before(s, n, r, m)

\* The operations of each kind.
Shaped(p) ==
    /\ p.kind \in {"alloc", "free"} =>
          p.reads = {} /\ (\E c \in Cells : p.writes = {c}) /\ p.data = 0 /\ p.run = 0
    /\ p.kind = "write" =>
          p.reads = {} /\ (\E n \in Positive : p.writes = {In(n)}) /\ p.data \in 1 .. version /\ p.run = 0
    /\ p.kind = "infer" =>
          /\ (\E n \in Positive : p.reads = {In(n)}) /\ (\E n \in Positive : p.writes = {Out(n)})
          /\ p.data <= version /\ p.run \in 1 .. runs
    /\ p.kind = "read" =>
          (\E n \in Positive : p.reads = {Out(n)}) /\ p.writes = {} /\ p.run \in 1 .. runs
AllShaped == \A s \in Streams : \A n \in Positions(s) : Shaped(issued[s][n])

IsAt(kind, s, n) == issued[s][n].kind = kind

\* Only inferences and reads are enqueued on the client's streams, and its inferences
\* on another stream than the present one are known to be over.
OnStreams ==
    /\ \A s \in Streams \ {Internal} : \A n \in Positions(s) : issued[s][n].kind \in {"infer", "read"}
    /\ \A s \in Streams \ {stream} : \A n \in Positions(s) : IsAt("infer", s, n) => n <= known[s]
    /\ \A s, r \in Streams : \A n \in Positions(s), m \in Positions(r) :
          IsAt("infer", s, n) /\ IsAt("infer", r, m) /\ issued[s][n].run = issued[r][m].run =>
              s = r /\ n = m

\* stream_ in the order of the calls: each allocation is made before the next one of
\* its tensor, freed when there is a next one, and each version is written.
InCallOrder ==
    /\ \A c \in CellsMade : \E n \in Positions(Internal) : IsAt("alloc", Internal, n) /\ issued[Internal][n].writes = {c}
    /\ \A n, m \in Positions(Internal) :
          IsAt("alloc", Internal, n) /\ IsAt("alloc", Internal, m)
              /\ Earlier(issued[Internal][n].writes, issued[Internal][m].writes) => n < m
    /\ \A n, m \in Positions(Internal) :
          IsAt("free", Internal, n) /\ IsAt("free", Internal, m) /\ issued[Internal][n].writes = issued[Internal][m].writes
              => n = m
    /\ \A n \in Positions(Internal) :
          IsAt("free", Internal, n) => Input \notin issued[Internal][n].writes /\ Output \notin issued[Internal][n].writes
    /\ \A v \in 1 .. version : \E n \in Positions(Internal) : IsAt("write", Internal, n) /\ issued[Internal][n].data = v

\* The events are those of the latest calls to return true, and the inputs' on stream_.
EventsKept ==
    /\ returned = [input |-> input_ready, output |-> output_ready]
    /\ input_ready # None => input_ready[1] = Internal
    /\ output_ready # None => runs > 0

\* The output of an inference is made before it: earlier on its stream, by now, or by
\* the event that it waits for itself.
MadeBefore(n, s, m) ==
    \/ s = Internal /\ n < m
    \/ n <= done[Internal]
    \/ \E e \in issued[s][m].after : e[1] = Internal /\ n <= e[2]
OutputMade ==
    \A s \in Streams : \A m \in Positions(s) : IsAt("infer", s, m) =>
        \A n \in Positions(Internal) :
            IsAt("alloc", Internal, n) /\ issued[Internal][n].writes \cap issued[s][m].writes # {} =>
                MadeBefore(n, s, m)

\* A read is of an output that its inference writes.
ReadsWritten ==
    \A s \in Streams : \A n \in Positions(s) : IsAt("read", s, n) =>
        \E r \in Streams : \E m \in Positions(r) :
            IsAt("infer", r, m) /\ issued[r][m].run = issued[s][n].run /\ issued[r][m].writes = issued[s][n].reads

CallsInv == AllShaped /\ OnStreams /\ InCallOrder /\ EventsKept /\ OutputMade /\ ReadsWritten

\* What has been done to an allocation, to the input and to the output.
LiveHeld ==
    \A c \in CellsMade :
        /\ \E n \in 1 .. done[Internal] : IsAt("alloc", Internal, n) /\ issued[Internal][n].writes = {c}
        /\ \A n \in 1 .. done[Internal] : IsAt("free", Internal, n) => c \notin issued[Internal][n].writes
        => c \in live

InputHeld ==
    /\ \A n \in 1 .. done[Internal] : IsAt("write", Internal, n) => issued[Internal][n].data <= content.input
    /\ content.input # 0 =>
          \E n \in 1 .. done[Internal] : IsAt("write", Internal, n) /\ issued[Internal][n].data = content.input

\* The last inference done, unless its output was replaced since.
LastDone(s, n) ==
    /\ \A r \in Streams : \A m \in 1 .. done[r] : IsAt("infer", r, m) => issued[r][m].run <= issued[s][n].run
    /\ \A m \in 1 .. done[Internal] : IsAt("alloc", Internal, m) => ~Earlier(issued[s][n].writes, issued[Internal][m].writes)
OutputHeld ==
    \A s \in Streams : \A n \in 1 .. done[s] :
        IsAt("infer", s, n) /\ LastDone(s, n) => content.run = issued[s][n].run

DeviceInv == LiveHeld /\ InputHeld /\ OutputHeld /\ InputCurrent /\ OutputDelivered

OrderInv == StreamsInv /\ Ordered /\ CallsInv /\ DeviceInv

-----------------------------------------------------------------------------
(* Operators and sequences.                                                 *)

\* A nonempty set of naturals that is bounded has a maximum.
LEMMA MaxInside ==
    ASSUME NEW d \in Nat, NEW S \in SUBSET (0 .. d), S # {}
    PROVE  Max(S) \in S /\ \A y \in S : Max(S) >= y
<1> DEFINE Above(x) == x .. d
           T == {Above(x) : x \in S}
<1>1. IsFiniteSet(0 .. d) BY FS_Interval
<1>2. FiniteSubsetsOf(0 .. d) = SUBSET (0 .. d) BY <1>1, FS_FiniteSubsetsOfFinite
<1>3. T \subseteq FiniteSubsetsOf(0 .. d) /\ T # {}
  <2>1. \A x \in S : Above(x) \in SUBSET (0 .. d) OBVIOUS
  <2>2. PICK x : x \in S OBVIOUS
  <2>3. Above(x) \in T BY <2>2
  <2>4. \A U \in T : U \in SUBSET (0 .. d) BY <2>1
  <2> HIDE DEF T
  <2>5. QED BY <1>2, <2>3, <2>4
<1>4. PICK U \in T : \A V \in T : <<V, U>> \notin StrictSubsetOrdering(0 .. d)
  <2>1. IsWellFoundedOn(StrictSubsetOrdering(0 .. d), FiniteSubsetsOf(0 .. d))
        BY FS_StrictSubsetOrderingWellFounded
  <2> HIDE DEF T
  <2>2. QED BY <1>3, <2>1, WFMin
<1>5. PICK x \in S : U = Above(x) BY <1>4
<1>6. ASSUME NEW y \in S, y > x PROVE FALSE
  <2>1. Above(y) \subseteq U /\ x \in U /\ x \notin Above(y) BY <1>5, <1>6
  <2>2. <<Above(y), U>> \in StrictSubsetOrdering(0 .. d)
    <3>1. U \in SUBSET (0 .. d) /\ Above(y) \in SUBSET (0 .. d) BY <1>5, <1>6
    <3> HIDE DEF Above
    <3>2. QED BY <2>1, <3>1 DEF StrictSubsetOrdering
  <2>3. Above(y) \in T BY <1>6
  <2>4. QED BY <1>4, <2>2, <2>3
<1>7. \A y \in S : x >= y BY <1>6
<1>8. QED BY <1>7 DEF Max

\* What enqueueing does to the streams.
LEMMA EnqueueAppends ==
    ASSUME issued \in [Streams -> Seq(Ops)], NEW r \in Streams, NEW ops \in Seq(Ops), Enqueue(r, ops)
    PROVE  /\ issued' \in [Streams -> Seq(Ops)]
           /\ \A s \in Streams \ {r} : issued'[s] = issued[s]
           /\ Len(issued'[r]) = Len(issued[r]) + Len(ops)
           /\ \A n \in 1 .. Len(issued[r]) : issued'[r][n] = issued[r][n]
           /\ \A n \in 1 .. Len(ops) : issued'[r][Len(issued[r]) + n] = ops[n]
<1>1. issued[r] \in Seq(Ops) OBVIOUS
<1>2. issued'[r] = issued[r] \o ops BY DEF Enqueue
<1>3. issued[r] \o ops \in Seq(Ops) BY <1>1, ConcatProperties
<1>4. QED BY <1>1, <1>2, <1>3, ConcatProperties DEF Enqueue

\* The streams only ever get longer.
Extends ==
    \A s \in Streams :
        Len(issued[s]) <= Len(issued'[s]) /\ \A n \in 1 .. Len(issued[s]) : issued'[s][n] = issued[s][n]

LEMMA EnqueueExtends ==
    ASSUME issued \in [Streams -> Seq(Ops)], NEW r \in Streams, NEW ops \in Seq(Ops), Enqueue(r, ops)
    PROVE  /\ Extends
           /\ \A s \in Streams : \A n \in Positions(s)' :
                 \/ n \in Positions(s) /\ issued'[s][n] = issued[s][n]
                 \/ /\ s = r /\ n - Len(issued[r]) \in 1 .. Len(ops)
                    /\ issued'[r][n] = ops[n - Len(issued[r])]
<1>1. /\ issued' \in [Streams -> Seq(Ops)]
      /\ \A s \in Streams \ {r} : issued'[s] = issued[s]
      /\ Len(issued'[r]) = Len(issued[r]) + Len(ops)
      /\ \A n \in 1 .. Len(issued[r]) : issued'[r][n] = issued[r][n]
      /\ \A n \in 1 .. Len(ops) : issued'[r][Len(issued[r]) + n] = ops[n]
      BY EnqueueAppends
<1>2. Len(ops) \in Nat /\ \A s \in Streams : Len(issued[s]) \in Nat /\ Len(issued'[s]) \in Nat BY <1>1
<1>3. Extends BY <1>1, <1>2 DEF Extends
<1>4. ASSUME NEW s \in Streams, NEW n \in Positions(s)'
      PROVE  \/ n \in Positions(s) /\ issued'[s][n] = issued[s][n]
             \/ /\ s = r /\ n - Len(issued[r]) \in 1 .. Len(ops)
                /\ issued'[r][n] = ops[n - Len(issued[r])]
  <2>1. CASE s # r BY <1>1, <1>4, <2>1 DEF Positions
  <2>2. CASE s = r /\ n <= Len(issued[r]) BY <1>1, <1>2, <1>4, <2>2 DEF Positions
  <2>3. CASE s = r /\ n > Len(issued[r])
    <3>1. n \in 1 .. Len(issued[r]) + Len(ops) BY <1>1, <1>4, <2>3 DEF Positions
    <3>2. n - Len(issued[r]) \in 1 .. Len(ops) BY <1>2, <2>3, <3>1
    <3>3. n = Len(issued[r]) + (n - Len(issued[r])) BY <1>2, <3>1
    <3>4. QED BY <1>1, <2>3, <3>2, <3>3
  <2>4. QED BY <1>2, <1>4, <2>1, <2>2, <2>3 DEF Positions
<1>5. QED BY <1>3, <1>4

LEMMA EnqueuedKept ==
    ASSUME issued \in [Streams -> Seq(Ops)], issued' \in [Streams -> Seq(Ops)], Extends, NEW e, Enqueued(e)
    PROVE  Enqueued(e)'
<1>1. e[1] \in Streams /\ e[2] \in Nat BY DEF Enqueued
<1>2. Len(issued[e[1]]) \in Nat /\ Len(issued'[e[1]]) \in Nat BY <1>1
<1>3. QED BY <1>1, <1>2 DEF Enqueued, Extends

\* A call that enqueues operations on existing allocations keeps the invariant.
LEMMA AppendTyped ==
    ASSUME StreamsInv, NEW r \in Streams, NEW ops \in Seq(Ops), Enqueue(r, ops),
           UNCHANGED <<device_vars, known>>,
           stream' \in Streams, version' \in Nat, runs' \in Nat, reads' \in Nat,
           cells' \in [input : Positive, output : Positive],
           cells.input <= cells'.input, cells.output <= cells'.output,
           \A e \in {input_ready', output_ready', host'} \ {None} : Enqueued(e)',
           \A n \in 1 .. Len(ops) : Grounded(ops[n])'
    PROVE  StreamsInv'
<1>1. Values /\ Progress /\ AllGrounded /\ WaitsKept BY DEF StreamsInv
<1>2. issued \in [Streams -> Seq(Ops)] BY <1>1 DEF Values
<1>3. issued' \in [Streams -> Seq(Ops)] BY <1>2, EnqueueAppends
<1>4. Extends BY <1>2, EnqueueExtends
<1>5. Values' BY <1>1, <1>3 DEF Values, device_vars
<1>6. CellsMade \subseteq CellsMade'
  <2>1. /\ cells.input \in Nat /\ cells.output \in Nat /\ cells'.input \in Nat /\ cells'.output \in Nat
        BY <1>1 DEF Values, Positive
  <2>2. QED BY <2>1 DEF CellsMade
<1>7. done' = done /\ running' = running /\ live' = live /\ known' = known BY DEF device_vars
<1>8. ASSUME NEW s \in Streams
      PROVE  /\ Len(issued[s]) \in Nat /\ Len(issued'[s]) \in Nat /\ done[s] \in Nat /\ Begun(s) \in Nat
             /\ Begun(s)' = Begun(s) /\ Begun(s) <= Len(issued[s])
  <2>1. Len(issued[s]) \in Nat /\ Len(issued'[s]) \in Nat BY <1>2, <1>3
  <2>2. done[s] \in Nat BY <1>1 DEF Values
  <2>3. Begun(s)' = Begun(s) BY <1>7 DEF Begun
  <2>4. Begun(s) \in Nat BY <2>2 DEF Begun
  <2>5. Begun(s) <= Len(issued[s]) BY <1>1 DEF Progress
  <2>6. QED BY <2>1, <2>2, <2>3, <2>4, <2>5
<1>9. Progress'
  <2>1. \A s \in Streams : known'[s] <= done'[s] /\ Begun(s)' <= Len(issued'[s])
        BY <1>1, <1>4, <1>7, <1>8 DEF Progress, Extends
  <2>2. QED BY <1>1, <1>6, <1>7, <2>1 DEF Progress
<1>10. AllGrounded'
  <2> SUFFICES ASSUME NEW s \in Streams, NEW n \in Positions(s)' PROVE Grounded(issued[s][n])'
      BY DEF AllGrounded
  <2>1. CASE n \in Positions(s) /\ issued'[s][n] = issued[s][n]
    <3>1. Grounded(issued[s][n]) BY <1>1, <2>1 DEF AllGrounded
    <3>2. \A e \in issued[s][n].after : Enqueued(e)' BY <1>2, <1>3, <1>4, <3>1, EnqueuedKept DEF Grounded
    <3>3. QED BY <1>6, <2>1, <3>1, <3>2 DEF Grounded, Uses
  <2>2. CASE s = r /\ n - Len(issued[r]) \in 1 .. Len(ops) /\ issued'[r][n] = ops[n - Len(issued[r])]
        BY <2>2
  <2>3. QED BY <1>2, <2>1, <2>2, EnqueueExtends
<1>11. WaitsKept'
  <2> SUFFICES ASSUME NEW s \in Streams, NEW n \in 1 .. Begun(s), NEW e \in issued[s][n].after PROVE Reached(e)
      BY <1>4, <1>7, <1>8 DEF WaitsKept, Extends, Reached
  <2>1. QED BY <1>1 DEF WaitsKept
<1>12. QED BY <1>5, <1>9, <1>10, <1>11 DEF StreamsInv

\* What the client knows is done is done.
LEMMA ReturnTyped ==
    ASSUME StreamsInv, HostReturn
    PROVE  /\ StreamsInv'
           /\ \A s \in Streams : known[s] <= known'[s]
<1>1. Values /\ Progress /\ AllGrounded /\ WaitsKept BY DEF StreamsInv
<1>2. Enqueued(host) /\ Reached(host) BY <1>1 DEF Progress, HostReturn, Ready
<1>3. /\ host' = None
      /\ UNCHANGED <<issued, done, running, live, content, delivered, stream, version, runs, reads, cells, input_ready, output_ready>>
      BY DEF HostReturn, device_vars, engine_vars
<1> DEFINE Learnt(s) == {known[s]} \cup {f[2] : f \in {g \in Implied(host) : g[1] = s}}
<1>4. host[1] \in Streams /\ host[2] \in Nat /\ host[2] <= done[host[1]] /\ done[host[1]] \in Nat
      BY <1>1, <1>2 DEF Enqueued, Reached, Values
<1>5. \A g \in Implied(host) : g[2] \in Nat /\ (g[1] \in Streams => g[2] <= done[g[1]])
  <2>1. ASSUME NEW n \in 1 .. host[2], NEW g \in issued[host[1]][n].after
        PROVE  g[2] \in Nat /\ g[2] <= done[g[1]]
    <3>1. Begun(host[1]) \in Nat /\ host[2] <= Begun(host[1]) BY <1>4 DEF Begun
    <3>2. n \in Nat /\ n \in 1 .. Begun(host[1]) BY <1>4, <3>1
    <3>3. Reached(g) BY <1>1, <1>4, <3>2 DEF WaitsKept
    <3>4. issued[host[1]] \in Seq(Ops) /\ Begun(host[1]) <= Len(issued[host[1]])
          BY <1>1, <1>4 DEF Values, Progress
    <3>5. issued[host[1]][n] \in Ops BY <3>1, <3>2, <3>4
    <3>6. g \in Events BY <3>5 DEF Ops
    <3>7. done[g[1]] \in Nat BY <1>1, <3>6 DEF Events, Values
    <3>8. QED BY <3>3, <3>6, <3>7 DEF Reached, Events
  <2>2. QED BY <1>4, <2>1 DEF Implied
<1>6. ASSUME NEW s \in Streams
      PROVE  known'[s] \in Nat /\ known[s] <= known'[s] /\ known'[s] <= done[s]
  <2>1. known[s] \in Nat /\ done[s] \in Nat /\ known[s] <= done[s] BY <1>1 DEF Values, Progress
  <2>2. Learnt(s) \in SUBSET (0 .. done[s]) BY <1>5, <2>1
  <2>3. known'[s] = Max(Learnt(s)) BY DEF HostReturn, Learn
  <2>4. known[s] \in Learnt(s) OBVIOUS
  <2> HIDE DEF Learnt
  <2>5. Max(Learnt(s)) \in Learnt(s) /\ \A y \in Learnt(s) : Max(Learnt(s)) >= y
        BY <2>1, <2>2, <2>4, MaxInside
  <2>6. QED BY <2>1, <2>2, <2>3, <2>4, <2>5
<1>7. known' = [s \in Streams |-> Max(Learnt(s))] BY DEF HostReturn, Learn
<1>8. known' \in [Streams -> Nat]
  <2> HIDE DEF Learnt
  <2>1. known' = [s \in Streams |-> known'[s]] BY <1>7
  <2>2. QED BY <1>6, <2>1
<1>9. Values' BY <1>1, <1>3, <1>8 DEF Values
<1>10. \A s \in Streams : Begun(s)' = Begun(s) BY <1>3 DEF Begun
<1>11. CellsMade' = CellsMade BY <1>3 DEF CellsMade
<1>12. \A e : Enqueued(e)' <=> Enqueued(e) BY <1>3 DEF Enqueued
<1>13. Progress' BY <1>1, <1>3, <1>6, <1>10, <1>11, <1>12 DEF Progress
<1>14. AllGrounded' BY <1>1, <1>3, <1>11, <1>12 DEF AllGrounded, Grounded, Positions, Uses
<1>15. WaitsKept' BY <1>1, <1>3, <1>10 DEF WaitsKept, Reached
<1>16. QED BY <1>6, <1>9, <1>13, <1>14, <1>15 DEF StreamsInv

\* The calls that enqueue nothing.
LEMMA QuietTyped ==
    ASSUME StreamsInv, UNCHANGED <<issued, device_vars, version, runs, reads, cells, input_ready, output_ready, known>>,
           stream' \in Streams, host' \in {None} \cup {e \in Events : Enqueued(e)}
    PROVE  StreamsInv'
<1>1. Values /\ Progress /\ AllGrounded /\ WaitsKept BY DEF StreamsInv
<1>2. UNCHANGED <<issued, done, running, live, content, delivered, version, runs, reads, cells, input_ready, output_ready, known>>
      BY DEF device_vars
<1>3. Values' BY <1>1, <1>2 DEF Values
<1>4. \A s \in Streams : Begun(s)' = Begun(s) BY <1>2 DEF Begun
<1>5. CellsMade' = CellsMade BY <1>2 DEF CellsMade
<1>6. \A e : Enqueued(e)' <=> Enqueued(e) BY <1>2 DEF Enqueued
<1>7. Progress' BY <1>1, <1>2, <1>4, <1>5, <1>6 DEF Progress
<1>8. AllGrounded' BY <1>1, <1>2, <1>5, <1>6 DEF AllGrounded, Grounded, Positions, Uses
<1>9. WaitsKept' BY <1>1, <1>2, <1>4 DEF WaitsKept, Reached
<1>10. QED BY <1>3, <1>7, <1>8, <1>9 DEF StreamsInv

LEMMA BeginTyped ==
    ASSUME StreamsInv, NEW s \in Streams, Begin(s)
    PROVE  StreamsInv'
<1>1. Values /\ Progress /\ AllGrounded /\ WaitsKept BY DEF StreamsInv
<1>2. UNCHANGED <<issued, done, live, content, delivered, engine_vars, client_vars>> /\ running' = running \cup {s}
      BY DEF Begin
<1>3. UNCHANGED <<stream, version, runs, reads, cells, input_ready, output_ready, host, known>>
      BY <1>2 DEF engine_vars, client_vars
<1>4. Values' BY <1>1, <1>2, <1>3 DEF Values
<1>5. \A r \in Streams \ {s} : Begun(r)' = Begun(r) BY <1>2 DEF Begun
<1>6. s \notin running /\ done[s] < Len(issued[s]) /\ Begun(s) = done[s] /\ Begun(s)' = done[s] + 1
      BY <1>2 DEF Begin, Begun
<1>7. CellsMade' = CellsMade BY <1>3 DEF CellsMade
<1>8. \A e : Enqueued(e)' <=> Enqueued(e) BY <1>2 DEF Enqueued
<1>9. done[s] \in Nat /\ Len(issued[s]) \in Nat BY <1>1 DEF Values
<1>10. Progress'
  <2>1. \A r \in Streams : known'[r] <= done'[r] BY <1>1, <1>2, <1>3 DEF Progress
  <2>2. \A r \in Streams : Begun(r)' <= Len(issued'[r]) BY <1>1, <1>2, <1>5, <1>6, <1>9 DEF Progress
  <2>3. QED BY <1>1, <1>2, <1>3, <1>7, <1>8, <2>1, <2>2 DEF Progress
<1>11. AllGrounded' BY <1>1, <1>2, <1>7, <1>8 DEF AllGrounded, Grounded, Positions, Uses
<1>12. WaitsKept'
  <2> SUFFICES ASSUME NEW r \in Streams, NEW n \in 1 .. Begun(r)', NEW e \in issued[r][n].after PROVE Reached(e)
      BY <1>2 DEF WaitsKept, Reached
  <2>1. CASE r = s /\ n = done[s] + 1 BY <2>1 DEF Begin, Head1
  <2>2. CASE ~(r = s /\ n = done[s] + 1)
    <3>1. n \in 1 .. Begun(r) BY <1>5, <1>6, <1>9, <2>2
    <3>2. QED BY <1>1, <3>1 DEF WaitsKept
  <2>3. QED BY <2>1, <2>2
<1>13. QED BY <1>4, <1>10, <1>11, <1>12 DEF StreamsInv

\* What the end of an operation changes, by its kind.
LEMMA EffectByKind ==
    ASSUME StreamsInv, NEW s \in Streams, End(s)
    PROVE  /\ done[s] + 1 \in Positions(s) /\ Head1(s) \in Ops
           /\ Head1(s).kind = "alloc" => live' = live \cup Head1(s).writes /\ UNCHANGED delivered
                 /\ content'.input = content.input /\ content'.wants = content.wants /\ content'.used = content.used
                 /\ content'.run \in {0, content.run}
                 /\ ((\E c \in Head1(s).writes : c[1] # "output") => content'.run = content.run)
           /\ Head1(s).kind = "free" => live' = live \ Head1(s).writes /\ UNCHANGED <<content, delivered>>
           /\ Head1(s).kind = "write" => UNCHANGED <<live, delivered>> /\ content' = [content EXCEPT !.input = Head1(s).data]
           /\ Head1(s).kind = "infer" => UNCHANGED <<live, delivered>>
                 /\ content' = [content EXCEPT !.run = Head1(s).run, !.wants = Head1(s).data, !.used = content.input]
           /\ Head1(s).kind = "read" => UNCHANGED <<live, content>>
                 /\ delivered' = [wants |-> Head1(s).run, got |-> content.run]
<1>1. Values /\ Progress BY DEF StreamsInv
<1>2. s \in running /\ Effect(Head1(s)) BY DEF End
<1>3. done[s] \in Nat /\ issued[s] \in Seq(Ops) /\ Begun(s) = done[s] + 1 /\ Begun(s) <= Len(issued[s])
      BY <1>1, <1>2 DEF Values, Progress, Begun
<1>4. done[s] + 1 \in Positions(s) BY <1>3 DEF Positions
<1>5. Head1(s) \in Ops BY <1>3, <1>4 DEF Head1, Positions
<1>6. content \in [input : Nat, run : Nat, wants : Nat, used : Nat] BY <1>1 DEF Values
<1> DEFINE op == Head1(s)
<1> HIDE DEF op
<1>7. Effect(op) BY <1>2 DEF op
<1>8. CASE op.kind = "alloc"
  <2>1. live' = live \cup op.writes /\ UNCHANGED delivered BY <1>7, <1>8 DEF Effect
  <2>2. content' = content \/ content' = [content EXCEPT !.run = 0] BY <1>7, <1>8 DEF Effect
  <2>3. (\E c \in op.writes : c[1] # "output") => content' = content BY <1>7, <1>8 DEF Effect
  <2>4. QED BY <1>4, <1>5, <1>6, <1>8, <2>1, <2>2, <2>3 DEF op
<1>9. CASE op.kind = "free"
  <2>1. live' = live \ op.writes /\ UNCHANGED <<content, delivered>> BY <1>7, <1>9 DEF Effect
  <2>2. QED BY <1>4, <1>5, <1>9, <2>1 DEF op
<1>10. CASE op.kind = "write"
  <2>1. UNCHANGED <<live, delivered>> /\ content' = [content EXCEPT !.input = op.data] BY <1>7, <1>10 DEF Effect
  <2>2. QED BY <1>4, <1>5, <1>10, <2>1 DEF op
<1>11. CASE op.kind = "infer"
  <2>1. /\ UNCHANGED <<live, delivered>>
        /\ content' = [content EXCEPT !.run = op.run, !.wants = op.data, !.used = content.input]
        BY <1>7, <1>11 DEF Effect
  <2>2. QED BY <1>4, <1>5, <1>11, <2>1 DEF op
<1>12. CASE op.kind = "read"
  <2>1. UNCHANGED <<live, content>> /\ delivered' = [wants |-> op.run, got |-> content.run]
        BY <1>7, <1>12 DEF Effect
  <2>2. QED BY <1>4, <1>5, <1>12, <2>1 DEF op
<1>13. QED BY <1>5, <1>8, <1>9, <1>10, <1>11, <1>12 DEF op, Ops

LEMMA EndTyped ==
    ASSUME StreamsInv, NEW s \in Streams, End(s)
    PROVE  StreamsInv'
<1>1. Values /\ Progress /\ AllGrounded /\ WaitsKept BY DEF StreamsInv
<1>2. /\ UNCHANGED <<issued, engine_vars, client_vars>> /\ running' = running \ {s} /\ s \in running
      /\ done' = [done EXCEPT ![s] = @ + 1]
      BY DEF End
<1>3. UNCHANGED <<stream, version, runs, reads, cells, input_ready, output_ready, host, known>>
      BY <1>2 DEF engine_vars, client_vars
<1>4. \A r \in Streams : Begun(r)' = Begun(r) BY <1>1, <1>2 DEF Begun, Values
<1>5. CellsMade' = CellsMade BY <1>3 DEF CellsMade
<1>6. \A e : Enqueued(e)' <=> Enqueued(e) BY <1>2 DEF Enqueued
<1>7. \A r \in Streams : done[r] \in Nat /\ done'[r] \in Nat /\ done[r] <= done'[r] BY <1>1, <1>2 DEF Values
<1>8. Head1(s) \in Ops /\ Head1(s).writes \subseteq CellsMade
  <2>1. done[s] + 1 \in Positions(s) /\ Head1(s) \in Ops BY EffectByKind
  <2>2. Grounded(Head1(s)) BY <1>1, <2>1 DEF AllGrounded, Head1
  <2>3. QED BY <2>1, <2>2 DEF Grounded, Uses
<1>9. live' \subseteq live \cup Head1(s).writes BY <1>8, EffectByKind DEF Ops
<1>10. content' \in [input : Nat, run : Nat, wants : Nat, used : Nat] /\ delivered' \in [wants : Nat, got : Nat]
  <2>1. content \in [input : Nat, run : Nat, wants : Nat, used : Nat] /\ delivered \in [wants : Nat, got : Nat]
        BY <1>1 DEF Values
  <2>2. Head1(s).data \in Nat /\ Head1(s).run \in Nat BY <1>8 DEF Ops
  <2>3. Effect(Head1(s)) BY DEF End
  <2> DEFINE op == Head1(s)
  <2> HIDE DEF op
  <2>4. content' \in {content, [content EXCEPT !.input = op.data], [content EXCEPT !.run = 0],
                      [content EXCEPT !.run = op.run, !.wants = op.data, !.used = content.input]}
    <3>1. Effect(op) /\ op \in Ops BY <1>8, <2>3 DEF op
    <3>2. op.kind \in {"alloc", "free", "write", "infer", "read"} BY <3>1 DEF Ops
    <3>3. CASE op.kind \in {"alloc", "free", "read"} BY <3>1, <3>3 DEF Effect
    <3>4. CASE op.kind = "write" BY <3>1, <3>4 DEF Effect
    <3>5. CASE op.kind = "infer" BY <3>1, <3>5 DEF Effect
    <3>6. QED BY <3>2, <3>3, <3>4, <3>5
  <2>5. delivered' \in {delivered, [wants |-> op.run, got |-> content.run]} BY <2>3 DEF Effect, op
  <2>6. op.data \in Nat /\ op.run \in Nat BY <2>2 DEF op
  <2>7. [content EXCEPT !.input = op.data] \in [input : Nat, run : Nat, wants : Nat, used : Nat]
        BY <2>1, <2>6
  <2>8. [content EXCEPT !.run = 0] \in [input : Nat, run : Nat, wants : Nat, used : Nat] BY <2>1
  <2>9. [content EXCEPT !.run = op.run, !.wants = op.data, !.used = content.input]
           \in [input : Nat, run : Nat, wants : Nat, used : Nat]
        BY <2>1, <2>6
  <2>10. delivered' \in [wants : Nat, got : Nat] BY <2>1, <2>5, <2>6
  <2>11. QED BY <2>1, <2>4, <2>7, <2>8, <2>9, <2>10
<1>11. Values'
  <2>1. done' \in [Streams -> Nat] BY <1>1, <1>2 DEF Values
  <2>2. QED BY <1>1, <1>2, <1>3, <1>10, <2>1 DEF Values
<1>12. Progress'
  <2>1. \A r \in Streams : known'[r] <= done'[r]
    <3>1. \A r \in Streams : known[r] \in Nat /\ known[r] <= done[r] BY <1>1 DEF Values, Progress
    <3>2. QED BY <1>3, <1>7, <3>1
  <2>2. \A r \in Streams : Begun(r)' <= Len(issued'[r]) BY <1>1, <1>2, <1>4 DEF Progress
  <2>3. live' \subseteq CellsMade' BY <1>1, <1>5, <1>8, <1>9 DEF Progress
  <2>4. QED BY <1>1, <1>3, <1>6, <2>1, <2>2, <2>3 DEF Progress
<1>13. AllGrounded' BY <1>1, <1>2, <1>5, <1>6 DEF AllGrounded, Grounded, Positions, Uses
<1>14. WaitsKept'
  <2> SUFFICES ASSUME NEW r \in Streams, NEW n \in 1 .. Begun(r), NEW e \in issued[r][n].after PROVE Reached(e)'
      BY <1>2, <1>4 DEF WaitsKept
  <2>1. Begun(r) \in Nat /\ Begun(r) <= Len(issued[r]) /\ issued[r] \in Seq(Ops)
        BY <1>1, <1>7 DEF Begun, Progress, Values
  <2>2. issued[r][n] \in Ops BY <2>1
  <2>3. e \in Events BY <2>2 DEF Ops
  <2>4. Reached(e) BY <1>1 DEF WaitsKept
  <2>5. QED BY <1>7, <2>3, <2>4 DEF Reached, Events
<1>15. QED BY <1>11, <1>12, <1>13, <1>14 DEF StreamsInv

LEMMA TripleIsConcat ==
    ASSUME NEW S, NEW a \in S, NEW b \in S, NEW c \in S
    PROVE  /\ <<a, b>> \o <<c>> = <<a, b, c>> /\ <<>> \o <<c>> = <<c>>
           /\ <<a, b, c>> \in Seq(S) /\ <<a, b>> \in Seq(S) /\ <<c>> \in Seq(S)
<1>1. <<a, b, c>> \in Seq(S) /\ <<a, b>> \in Seq(S) /\ <<c>> \in Seq(S) OBVIOUS
<1>2. <<a, b>> \o <<c>> \in Seq(S) /\ Len(<<a, b>> \o <<c>>) = 3
      /\ \A i \in 1 .. 3 : (<<a, b>> \o <<c>>)[i] = IF i <= 2 THEN <<a, b>>[i] ELSE <<c>>[i - 2]
      BY <1>1, ConcatProperties
<1>3. <<a, b>> \o <<c>> = <<a, b, c>>
  <2>1. \A i \in 1 .. 3 : (<<a, b>> \o <<c>>)[i] = <<a, b, c>>[i]
    <3>1. (<<a, b>> \o <<c>>)[1] = a /\ (<<a, b>> \o <<c>>)[2] = b /\ (<<a, b>> \o <<c>>)[3] = c BY <1>2
    <3> HIDE <1>2
    <3>2. \A i \in 1 .. 3 : i = 1 \/ i = 2 \/ i = 3 OBVIOUS
    <3>3. QED BY <3>1, <3>2
  <2>2. QED BY <1>1, <1>2, <2>1, SeqEqual
<1>4. QED BY <1>1, <1>3, ConcatEmptySeq

-----------------------------------------------------------------------------
(* What each call enqueues.                                                 *)

Freed(c) == Op("free", {}, {c}, 0, 0, {})
Made(c) == Op("alloc", {}, {c}, 0, 0, {})
InputWritten(c) == Op("write", {}, {c}, version + 1, 0, {})
OutputRead(c) == Op("read", {c}, {}, 0, runs, WaitEvent(output_ready))

SetInputOps(grows) ==
    IF grows THEN <<Freed(Input), Made(In(cells.input + 1)), InputWritten(In(cells.input + 1))>>
    ELSE <<InputWritten(Input)>>
InferOps == <<Op("infer", {Input}, {Output}, version, runs + 1, WaitEvent(input_ready))>>
ReadOps(grows) ==
    IF grows THEN <<Freed(Output), Made(Out(cells.output + 1)), OutputRead(Out(cells.output + 1))>>
    ELSE <<OutputRead(Output)>>
GrowOps == <<Freed(Output), Made(Out(cells.output + 1))>>

LEMMA CellTypes ==
    ASSUME Values
    PROVE  /\ Input \in Cells /\ Output \in Cells /\ In(cells.input + 1) \in Cells /\ Out(cells.output + 1) \in Cells
           /\ cells.input \in Positive /\ cells.output \in Positive
           /\ [cells EXCEPT !.input = @ + 1] \in [input : Positive, output : Positive]
           /\ [cells EXCEPT !.output = @ + 1] \in [input : Positive, output : Positive]
<1>1. cells.input \in Positive /\ cells.output \in Positive BY DEF Values
<1>2. cells.input + 1 \in Positive /\ cells.output + 1 \in Positive BY <1>1 DEF Positive
<1>3. \A n \in Positive : In(n) \in Cells /\ Out(n) \in Cells BY DEF In, Out, Cells
<1>4. QED BY <1>1, <1>2, <1>3 DEF Values, Input, Output

LEMMA EventTypes ==
    ASSUME StreamsInv
    PROVE  /\ WaitEvent(input_ready) \subseteq Events /\ WaitEvent(output_ready) \subseteq Events
           /\ \A e \in WaitEvent(input_ready) \cup WaitEvent(output_ready) : Enqueued(e)
BY DEF StreamsInv, Progress, WaitEvent, Enqueued, Events

LEMMA SetInputForm ==
    ASSUME StreamsInv, NEW grows \in BOOLEAN, NEW recorded \in BOOLEAN, SetInputData(grows, recorded)
    PROVE  /\ SetInputOps(grows) \in Seq(Ops) /\ Enqueue(Internal, SetInputOps(grows))
           /\ version' = version + 1 /\ cells' = IF grows THEN [cells EXCEPT !.input = @ + 1] ELSE cells
           /\ input_ready' = IF recorded THEN <<Internal, Len(issued'[Internal])>> ELSE input_ready
           /\ Returns("input", recorded, <<Internal, Len(issued'[Internal])>>)
           /\ Ready /\ MayOverwrite
           /\ UNCHANGED <<device_vars, host, known, stream, runs, reads, output_ready>>
<1>1. Values BY DEF StreamsInv
<1>2. /\ Ready /\ MayOverwrite /\ version' = version + 1
      /\ cells' = IF grows THEN [cells EXCEPT !.input = @ + 1] ELSE cells
      /\ Enqueue(Internal, (IF grows THEN Growth(Input, Input') ELSE <<>>)
                              \o <<Op("write", {}, {Input'}, version', 0, {})>>)
      /\ input_ready' = IF recorded THEN <<Internal, Len(issued'[Internal])>> ELSE input_ready
      /\ Returns("input", recorded, <<Internal, Len(issued'[Internal])>>)
      /\ UNCHANGED <<device_vars, host, known, stream, runs, reads, output_ready>>
      BY DEF SetInputData, RecordInputReadyEvent, Recorded
<1>3. Input' = IF grows THEN In(cells.input + 1) ELSE Input BY <1>1, <1>2 DEF Input, Values
<1>4. /\ Freed(Input) \in Ops /\ Made(In(cells.input + 1)) \in Ops
      /\ InputWritten(In(cells.input + 1)) \in Ops /\ InputWritten(Input) \in Ops
  <2>1. version + 1 \in Nat BY <1>1 DEF Values
  <2>2. Freed(Input) \in Ops /\ Made(In(cells.input + 1)) \in Ops BY <1>1, CellTypes DEF Ops, Op, Freed, Made
  <2>3. InputWritten(In(cells.input + 1)) \in Ops /\ InputWritten(Input) \in Ops
        BY <1>1, <2>1, CellTypes DEF Ops, Op, InputWritten
  <2>4. QED BY <2>2, <2>3
<1>5. CASE grows
  <2>1. Enqueue(Internal, <<Freed(Input), Made(In(cells.input + 1))>> \o <<InputWritten(In(cells.input + 1))>>)
        BY <1>2, <1>3, <1>5 DEF Growth, Freed, Made, InputWritten
  <2>2. QED BY <1>2, <1>4, <1>5, <2>1, TripleIsConcat DEF SetInputOps
<1>6. CASE ~grows
  <2>1. Enqueue(Internal, <<>> \o <<InputWritten(Input)>>) BY <1>2, <1>3, <1>6 DEF InputWritten
  <2>2. QED BY <1>2, <1>4, <1>6, <2>1, TripleIsConcat DEF SetInputOps
<1>7. QED BY <1>5, <1>6

LEMMA InferForm ==
    ASSUME StreamsInv, NEW recorded \in BOOLEAN, InferAsync(recorded)
    PROVE  /\ InferOps \in Seq(Ops) /\ Enqueue(stream, InferOps) /\ runs' = runs + 1
           /\ output_ready' = IF recorded THEN <<stream, Len(issued'[stream])>> ELSE output_ready
           /\ Returns("output", recorded, <<stream, Len(issued'[stream])>>)
           /\ Ready /\ MayInfer
           /\ UNCHANGED <<device_vars, host, known, stream, version, reads, cells, input_ready>>
<1>1. Values BY DEF StreamsInv
<1>2. Op("infer", {Input}, {Output}, version, runs + 1, WaitEvent(input_ready)) \in Ops
  <2>1. version \in Nat /\ runs + 1 \in Nat BY <1>1 DEF Values
  <2>2. QED BY <1>1, <2>1, CellTypes, EventTypes DEF Ops, Op
<1>3. QED BY <1>2, TripleIsConcat DEF InferAsync, InferOps, Recorded, RecordOutputReadyEvents

LEMMA ReadForm ==
    ASSUME StreamsInv, NEW s \in Streams, NEW grows \in BOOLEAN,
           cells' = IF grows THEN [cells EXCEPT !.output = @ + 1] ELSE cells,
           ReadOutput(s, IF grows THEN Growth(Output, Output') ELSE <<>>)
    PROVE  ReadOps(grows) \in Seq(Ops) /\ Enqueue(s, ReadOps(grows))
<1>1. Values BY DEF StreamsInv
<1>2. Output' = IF grows THEN Out(cells.output + 1) ELSE Output BY <1>1 DEF Output, Values
<1>3. Enqueue(s, (IF grows THEN Growth(Output, Output') ELSE <<>>)
                    \o <<Op("read", {Output'}, {}, 0, runs, WaitEvent(output_ready))>>)
      BY DEF ReadOutput
<1>4. /\ Freed(Output) \in Ops /\ Made(Out(cells.output + 1)) \in Ops
      /\ OutputRead(Out(cells.output + 1)) \in Ops /\ OutputRead(Output) \in Ops
      BY <1>1, CellTypes, EventTypes DEF Values, Ops, Op, Freed, Made, OutputRead
<1>5. CASE grows
  <2>1. Enqueue(s, <<Freed(Output), Made(Out(cells.output + 1))>> \o <<OutputRead(Out(cells.output + 1))>>)
        BY <1>2, <1>3, <1>5 DEF Growth, Freed, Made, OutputRead
  <2>2. QED BY <1>4, <1>5, <2>1, TripleIsConcat DEF ReadOps
<1>6. CASE ~grows
  <2>1. Enqueue(s, <<>> \o <<OutputRead(Output)>>) BY <1>2, <1>3, <1>6 DEF OutputRead
  <2>2. QED BY <1>4, <1>6, <2>1, TripleIsConcat DEF ReadOps
<1>7. QED BY <1>5, <1>6

LEMMA GrowForm ==
    ASSUME StreamsInv, GrowOutput
    PROVE  /\ GrowOps \in Seq(Ops) /\ Enqueue(Internal, GrowOps)
           /\ cells' = [cells EXCEPT !.output = @ + 1]
           /\ Ready /\ MayGrowOutput
           /\ UNCHANGED <<device_vars, client_vars, stream, version, runs, reads, input_ready, output_ready>>
<1>1. Values BY DEF StreamsInv
<1>2. /\ cells' = [cells EXCEPT !.output = @ + 1] /\ Enqueue(Internal, Growth(Output, Output'))
      /\ Ready /\ MayGrowOutput
      /\ UNCHANGED <<device_vars, client_vars, stream, version, runs, reads, input_ready, output_ready>>
      BY DEF GrowOutput, HostKeeps
<1>3. Output' = Out(cells.output + 1) BY <1>1, <1>2 DEF Output, Values
<1>4. Freed(Output) \in Ops /\ Made(Out(cells.output + 1)) \in Ops
      BY <1>1, CellTypes DEF Ops, Op, Freed, Made
<1>5. QED BY <1>2, <1>3, <1>4, TripleIsConcat DEF GrowOps, Growth, Freed, Made

-----------------------------------------------------------------------------
(* Every call and every step of the device keeps the invariant.             *)

\* After a call has enqueued something, the old events and the one just recorded are
\* of operations enqueued.
LEMMA EventsAfter ==
    ASSUME StreamsInv, NEW r \in Streams, NEW ops \in Seq(Ops), Enqueue(r, ops)
    PROVE  /\ \A e : Enqueued(e) => Enqueued(e)'
           /\ \A e : e = <<r, Len(issued'[r])>> => Enqueued(e)'
<1>1. issued \in [Streams -> Seq(Ops)] /\ issued' \in [Streams -> Seq(Ops)] /\ Extends
      BY EnqueueAppends, EnqueueExtends DEF StreamsInv, Values
<1>2. \A e : Enqueued(e) => Enqueued(e)' BY <1>1, EnqueuedKept
<1>3. Len(issued'[r]) \in Nat BY <1>1
<1>4. QED BY <1>2, <1>3 DEF Enqueued

LEMMA CellsAfter ==
    ASSUME Values, cells' \in {cells, [cells EXCEPT !.input = @ + 1], [cells EXCEPT !.output = @ + 1]}
    PROVE  /\ cells' \in [input : Positive, output : Positive]
           /\ cells.input <= cells'.input /\ cells.output <= cells'.output
           /\ \A n \in 1 .. cells'.input : In(n) \in CellsMade'
           /\ \A n \in 1 .. cells'.output : Out(n) \in CellsMade'
           /\ CellsMade \subseteq CellsMade'
           /\ Input \in CellsMade' /\ Output \in CellsMade'
           /\ cells' = [cells EXCEPT !.input = @ + 1] => In(cells.input + 1) \in CellsMade'
           /\ cells' = [cells EXCEPT !.output = @ + 1] => Out(cells.output + 1) \in CellsMade'
<1>1. cells' \in [input : Positive, output : Positive] BY CellTypes DEF Values
<1>2. cells.input \in Nat /\ cells.output \in Nat /\ cells.input > 0 /\ cells.output > 0
      BY DEF Values, Positive
<1>3. /\ cells'.input \in {cells.input, cells.input + 1} /\ cells'.output \in {cells.output, cells.output + 1}
      /\ cells' = [cells EXCEPT !.input = @ + 1] => cells'.input = cells.input + 1
      /\ cells' = [cells EXCEPT !.output = @ + 1] => cells'.output = cells.output + 1
      BY <1>2 DEF Values
<1>4. /\ \A n \in 1 .. cells'.input : In(n) \in CellsMade'
      /\ \A n \in 1 .. cells'.output : Out(n) \in CellsMade'
      BY DEF CellsMade
<1>5. cells.input <= cells'.input /\ cells.output <= cells'.output BY <1>2, <1>3
<1>6. CellsMade \subseteq CellsMade' BY <1>2, <1>3, <1>5 DEF CellsMade
<1>7. cells.input \in 1 .. cells'.input /\ cells.output \in 1 .. cells'.output BY <1>2, <1>3
<1>8. /\ cells' = [cells EXCEPT !.input = @ + 1] => cells.input + 1 \in 1 .. cells'.input
      /\ cells' = [cells EXCEPT !.output = @ + 1] => cells.output + 1 \in 1 .. cells'.output
      BY <1>2, <1>3
<1>9. QED BY <1>1, <1>4, <1>5, <1>6, <1>7, <1>8 DEF Input, Output

LEMMA SetInputTyped ==
    ASSUME StreamsInv, NEW grows \in BOOLEAN, NEW recorded \in BOOLEAN, SetInputData(grows, recorded)
    PROVE  StreamsInv'
<1>1. Values /\ Progress BY DEF StreamsInv
<1>2. /\ SetInputOps(grows) \in Seq(Ops) /\ Enqueue(Internal, SetInputOps(grows))
      /\ version' = version + 1 /\ cells' = IF grows THEN [cells EXCEPT !.input = @ + 1] ELSE cells
      /\ input_ready' = IF recorded THEN <<Internal, Len(issued'[Internal])>> ELSE input_ready
      /\ UNCHANGED <<device_vars, host, known, stream, runs, reads, output_ready>>
      BY SetInputForm
<1>3. Internal \in Streams BY StreamsAssumption
<1>4. \A e \in {input_ready', output_ready', host'} \ {None} : Enqueued(e)'
      BY <1>1, <1>2, <1>3, EventsAfter DEF Progress
<1>5. /\ cells' \in [input : Positive, output : Positive]
      /\ cells.input <= cells'.input /\ cells.output <= cells'.output
      BY <1>1, <1>2, CellsAfter
<1>6. PICK ops : ops = SetInputOps(grows) OBVIOUS
<1>7. ASSUME NEW n \in 1 .. Len(ops) PROVE Grounded(ops[n])'
  <2>1. CASE grows
    <3>1. Input \in CellsMade' /\ In(cells.input + 1) \in CellsMade' BY <1>1, <1>2, <2>1, CellsAfter
    <3>2. ops[n] \in {Freed(Input), Made(In(cells.input + 1)), InputWritten(In(cells.input + 1))}
          BY <1>6, <1>7, <2>1 DEF SetInputOps
    <3>3. ops[n].reads = {} /\ ops[n].after = {} /\ ops[n].writes \subseteq {Input, In(cells.input + 1)}
          BY <3>2 DEF Freed, Made, InputWritten, Op
    <3>4. QED BY <3>1, <3>3 DEF Grounded, Uses
  <2>2. CASE ~grows
    <3>1. Input \in CellsMade' BY <1>1, <1>2, <2>2, CellsAfter
    <3>2. ops[n] = InputWritten(Input) BY <1>6, <1>7, <2>2 DEF SetInputOps
    <3>3. ops[n].reads = {} /\ ops[n].after = {} /\ ops[n].writes = {Input} BY <3>2 DEF InputWritten, Op
    <3>4. QED BY <3>1, <3>3 DEF Grounded, Uses
  <2>3. QED BY <2>1, <2>2
<1>8. version' \in Nat /\ stream' \in Streams /\ runs' \in Nat /\ reads' \in Nat
  <2>1. version + 1 \in Nat BY <1>1 DEF Values
  <2>2. QED BY <1>1, <1>2, <2>1 DEF Values
<1>9. UNCHANGED <<device_vars, known>> BY <1>2
<1>10. ops \in Seq(Ops) /\ Enqueue(Internal, ops) BY <1>2, <1>6
<1>11. QED BY <1>3, <1>4, <1>5, <1>7, <1>8, <1>9, <1>10, AppendTyped

LEMMA InferTyped ==
    ASSUME StreamsInv, NEW recorded \in BOOLEAN, InferAsync(recorded)
    PROVE  StreamsInv'
<1>1. Values /\ Progress BY DEF StreamsInv
<1>2. /\ InferOps \in Seq(Ops) /\ Enqueue(stream, InferOps)
      /\ runs' = runs + 1
      /\ output_ready' = IF recorded THEN <<stream, Len(issued'[stream])>> ELSE output_ready
      /\ UNCHANGED <<device_vars, host, known, stream, version, reads, cells, input_ready>>
      BY InferForm
<1>3. stream \in Streams BY <1>1 DEF Values
<1>4. \A e \in {input_ready', output_ready', host'} \ {None} : Enqueued(e)'
      BY <1>1, <1>2, <1>3, EventsAfter DEF Progress
<1>5. /\ cells' \in [input : Positive, output : Positive]
      /\ cells.input <= cells'.input /\ cells.output <= cells'.output
      BY <1>1, <1>2, CellsAfter
<1>6. PICK ops : ops = InferOps OBVIOUS
<1>7. ASSUME NEW n \in 1 .. Len(ops) PROVE Grounded(ops[n])'
  <2>1. Input \in CellsMade' /\ Output \in CellsMade' BY <1>1, <1>2, CellsAfter
  <2>2. ops[n].reads = {Input} /\ ops[n].after = WaitEvent(input_ready) /\ ops[n].writes = {Output}
        BY <1>6, <1>7 DEF InferOps, Op
  <2>3. \A e \in WaitEvent(input_ready) : Enqueued(e)' BY <1>2, <1>3, EventTypes, EventsAfter
  <2>4. QED BY <2>1, <2>2, <2>3 DEF Grounded, Uses
<1>8. version' \in Nat /\ stream' \in Streams /\ runs' \in Nat /\ reads' \in Nat
  <2>1. runs + 1 \in Nat BY <1>1 DEF Values
  <2>2. QED BY <1>1, <1>2, <2>1 DEF Values
<1>9. UNCHANGED <<device_vars, known>> BY <1>2
<1>10. ops \in Seq(Ops) /\ Enqueue(stream, ops) BY <1>2, <1>6
<1>11. QED BY <1>3, <1>4, <1>5, <1>7, <1>8, <1>9, <1>10, AppendTyped

LEMMA ReadTyped ==
    ASSUME StreamsInv, NEW s \in Streams, NEW grows \in BOOLEAN,
           cells' = IF grows THEN [cells EXCEPT !.output = @ + 1] ELSE cells,
           ReadOutput(s, IF grows THEN Growth(Output, Output') ELSE <<>>),
           host' = None \/ host' = <<s, Len(issued'[s])>>,
           UNCHANGED <<device_vars, known, stream, version, runs, input_ready, output_ready>>
    PROVE  StreamsInv'
<1>1. Values /\ Progress BY DEF StreamsInv
<1>2. ReadOps(grows) \in Seq(Ops) /\ Enqueue(s, ReadOps(grows)) BY ReadForm
<1>3. \A e \in {input_ready', output_ready', host'} \ {None} : Enqueued(e)'
      BY <1>1, <1>2, EventsAfter DEF Progress
<1>4. /\ cells' \in [input : Positive, output : Positive]
      /\ cells.input <= cells'.input /\ cells.output <= cells'.output
      BY <1>1, CellsAfter
<1>5. PICK ops : ops = ReadOps(grows) OBVIOUS
<1>6. \A e \in WaitEvent(output_ready) : Enqueued(e)' BY <1>2, EventTypes, EventsAfter
<1>7. ASSUME NEW n \in 1 .. Len(ops) PROVE Grounded(ops[n])'
  <2>1. CASE grows
    <3>1. Output \in CellsMade' /\ Out(cells.output + 1) \in CellsMade' BY <1>1, <2>1, CellsAfter
    <3>2. ops[n] \in {Freed(Output), Made(Out(cells.output + 1)), OutputRead(Out(cells.output + 1))}
          BY <1>5, <1>7, <2>1 DEF ReadOps
    <3>3. /\ Uses(ops[n]) \subseteq {Output, Out(cells.output + 1)}
          /\ ops[n].after \subseteq WaitEvent(output_ready)
          BY <3>2 DEF Freed, Made, OutputRead, Op, Uses
    <3>4. QED BY <1>6, <3>1, <3>3 DEF Grounded, Uses
  <2>2. CASE ~grows
    <3>1. Output \in CellsMade' BY <1>1, <2>2, CellsAfter
    <3>2. ops[n] = OutputRead(Output) BY <1>5, <1>7, <2>2 DEF ReadOps
    <3>3. Uses(ops[n]) = {Output} /\ ops[n].after = WaitEvent(output_ready) BY <3>2 DEF OutputRead, Op, Uses
    <3>4. QED BY <1>6, <3>1, <3>3 DEF Grounded, Uses
  <2>3. QED BY <2>1, <2>2
<1>8. version' \in Nat /\ stream' \in Streams /\ runs' \in Nat /\ reads' \in Nat
  <2>1. reads' = reads + 1 BY DEF ReadOutput
  <2>2. QED BY <1>1, <2>1 DEF Values
<1>9. ops \in Seq(Ops) /\ Enqueue(s, ops) BY <1>2, <1>5
<1>10. QED BY <1>3, <1>4, <1>7, <1>8, <1>9, AppendTyped

LEMMA GrowTyped ==
    ASSUME StreamsInv, GrowOutput
    PROVE  StreamsInv'
<1>1. Values /\ Progress BY DEF StreamsInv
<1>2. /\ GrowOps \in Seq(Ops) /\ Enqueue(Internal, GrowOps)
      /\ cells' = [cells EXCEPT !.output = @ + 1]
      /\ UNCHANGED <<device_vars, client_vars, stream, version, runs, reads, input_ready, output_ready>>
      BY GrowForm
<1>3. Internal \in Streams BY StreamsAssumption
<1>4. \A e \in {input_ready', output_ready', host'} \ {None} : Enqueued(e)'
      BY <1>1, <1>2, <1>3, EventsAfter DEF Progress, client_vars
<1>5. /\ cells' \in [input : Positive, output : Positive]
      /\ cells.input <= cells'.input /\ cells.output <= cells'.output
      /\ Output \in CellsMade' /\ Out(cells.output + 1) \in CellsMade'
      BY <1>1, <1>2, CellsAfter
<1>6. PICK ops : ops = GrowOps OBVIOUS
<1>7. ASSUME NEW n \in 1 .. Len(ops) PROVE Grounded(ops[n])'
  <2>1. ops[n] \in {Freed(Output), Made(Out(cells.output + 1))} BY <1>6, <1>7 DEF GrowOps
  <2>2. ops[n].reads = {} /\ ops[n].after = {} /\ ops[n].writes \subseteq {Output, Out(cells.output + 1)}
        BY <2>1 DEF Freed, Made, Op
  <2>3. QED BY <1>5, <2>2 DEF Grounded, Uses
<1>8. version' \in Nat /\ stream' \in Streams /\ runs' \in Nat /\ reads' \in Nat BY <1>1, <1>2 DEF Values
<1>9. UNCHANGED <<device_vars, known>> BY <1>2 DEF client_vars
<1>10. ops \in Seq(Ops) /\ Enqueue(Internal, ops) BY <1>2, <1>6
<1>11. QED BY <1>3, <1>4, <1>5, <1>7, <1>8, <1>9, <1>10, AppendTyped

LEMMA BlocksTyped ==
    ASSUME StreamsInv, NEW e, Blocks(e), e = None \/ Enqueued(e)
    PROVE  StreamsInv'
<1>1. /\ UNCHANGED <<issued, device_vars, version, runs, reads, cells, input_ready, output_ready, known, stream>>
      /\ host' = e
      BY DEF Blocks, engine_vars
<1>2. stream \in Streams BY DEF StreamsInv, Values
<1>3. Enqueued(e) => e \in Events BY DEF Enqueued, Events
<1>4. QED BY <1>1, <1>2, <1>3, QuietTyped

LEMMA StreamsInit_Inv == StreamsInit => StreamsInv
<1> SUFFICES ASSUME StreamsInit PROVE StreamsInv
    OBVIOUS
<1> DEFINE first == <<Op("alloc", {}, {In(1)}, 0, 0, {}), Op("alloc", {}, {Out(1)}, 0, 0, {})>>
<1>1. In(1) \in Cells /\ Out(1) \in Cells BY DEF In, Out, Cells, Positive
<1>2. Op("alloc", {}, {In(1)}, 0, 0, {}) \in Ops /\ Op("alloc", {}, {Out(1)}, 0, 0, {}) \in Ops
      BY <1>1 DEF Op, Ops
<1>3. first \in Seq(Ops) /\ Len(first) = 2 BY <1>2
<1>4. issued = [s \in Streams |-> IF s = Internal THEN first ELSE <<>>] BY DEF StreamsInit
<1>5. issued \in [Streams -> Seq(Ops)]
  <2> HIDE DEF first
  <2>1. QED BY <1>3, <1>4
<1>6. Len(first) = 2 /\ first[1] = Op("alloc", {}, {In(1)}, 0, 0, {}) /\ first[2] = Op("alloc", {}, {Out(1)}, 0, 0, {})
      BY <1>3
<1> HIDE DEF first
<1>7. /\ done = [s \in Streams |-> 0] /\ known = [s \in Streams |-> 0] /\ running = {} /\ live = {}
       /\ stream = Internal /\ version = 0 /\ runs = 0 /\ reads = 0 /\ cells = [input |-> 1, output |-> 1]
       /\ input_ready = None /\ output_ready = None /\ host = None
       /\ content = [input |-> 0, run |-> 0, wants |-> 0, used |-> 0] /\ delivered = [wants |-> 0, got |-> 0]
       BY DEF StreamsInit
<1>8. Values
  <2>1. cells \in [input : Positive, output : Positive] BY <1>7 DEF Positive
  <2>2. /\ content \in [input : Nat, run : Nat, wants : Nat, used : Nat]
        /\ delivered \in [wants : Nat, got : Nat]
        BY <1>7
  <2>3. done \in [Streams -> Nat] /\ known \in [Streams -> Nat] BY <1>7
  <2>4. QED BY <1>5, <1>7, <2>1, <2>2, <2>3, StreamsAssumption DEF Values
<1>9. \A s \in Streams : Begun(s) = 0 BY <1>7 DEF Begun
<1>10. Progress
  <2>1. \A s \in Streams : Len(issued[s]) \in Nat BY <1>5
  <2>2. QED BY <1>9, <1>7, <2>1 DEF Progress
<1>11. ASSUME NEW s \in Streams, NEW n \in Positions(s) PROVE Grounded(issued[s][n])
  <2>1. s = Internal /\ issued[s] = first BY <1>4, <1>11 DEF Positions
  <2>2. n \in 1 .. 2 BY <1>3, <1>11, <2>1 DEF Positions
  <2>3. issued[s][n] \in {Op("alloc", {}, {In(1)}, 0, 0, {}), Op("alloc", {}, {Out(1)}, 0, 0, {})}
        BY <1>6, <2>1, <2>2
  <2>4. In(1) \in CellsMade /\ Out(1) \in CellsMade BY <1>7 DEF CellsMade
  <2>5. Uses(issued[s][n]) \subseteq CellsMade /\ issued[s][n].after = {} BY <2>3, <2>4 DEF Op, Uses
  <2>6. QED BY <2>5 DEF Grounded
<1>12. QED BY <1>8, <1>9, <1>10, <1>11 DEF StreamsInv, AllGrounded, WaitsKept

LEMMA StreamsInv_Step == StreamsInv /\ [StreamsNext]_streams_vars => StreamsInv'
<1> SUFFICES ASSUME StreamsInv, [StreamsNext]_streams_vars PROVE StreamsInv'
    OBVIOUS
<1>1. ASSUME NEW grows \in BOOLEAN, NEW recorded \in BOOLEAN, SetInputData(grows, recorded) PROVE StreamsInv'
      BY <1>1, SetInputTyped
<1>2. ASSUME NEW recorded \in BOOLEAN, InferAsync(recorded) PROVE StreamsInv' BY <1>2, InferTyped
<1>3. ASSUME NEW async \in BOOLEAN, NEW grows \in BOOLEAN, GetOutputData(async, grows) PROVE StreamsInv'
  <2>1. /\ cells' = IF grows THEN [cells EXCEPT !.output = @ + 1] ELSE cells
        /\ ReadOutput(Internal, IF grows THEN Growth(Output, Output') ELSE <<>>)
        /\ host' = None \/ host' = <<Internal, Len(issued'[Internal])>>
        /\ UNCHANGED <<device_vars, known, stream, version, runs, input_ready, output_ready>>
        BY <1>3 DEF GetOutputData, Recorded
  <2>2. QED BY <2>1, ReadTyped, StreamsAssumption
<1>4. CASE GrowOutput BY <1>4, GrowTyped
<1>5. ASSUME NEW s \in Streams, SetStream(s) PROVE StreamsInv'
  <2>1. /\ UNCHANGED <<issued, device_vars, version, runs, reads, cells, input_ready, output_ready, known>>
        /\ stream' = s /\ host' = None
        BY <1>5 DEF SetStream, HostKeeps, client_vars, Ready
  <2>2. QED BY <1>5, <2>1, QuietTyped
<1>6. ASSUME NEW s \in Streams, ClientRead(s) PROVE StreamsInv'
  <2>1. /\ cells' = IF FALSE THEN [cells EXCEPT !.output = @ + 1] ELSE cells
        /\ ReadOutput(s, IF FALSE THEN Growth(Output, Output') ELSE <<>>)
        /\ host' = None
        /\ UNCHANGED <<device_vars, known, stream, version, runs, input_ready, output_ready>>
        BY <1>6 DEF ClientRead, HostKeeps, client_vars, ReadOutput, Ready
  <2>2. QED BY <1>6, <2>1, ReadTyped
<1>7. \A s \in Streams : Enqueued(<<s, Len(issued[s])>>)
  <2>1. issued \in [Streams -> Seq(Ops)] BY DEF StreamsInv, Values
  <2>2. QED BY <2>1 DEF Enqueued
<1>8. ASSUME NEW s \in Streams, ClientSynchronize(s) PROVE StreamsInv'
      BY <1>7, <1>8, BlocksTyped DEF ClientSynchronize
<1>9. CASE Synchronize
  <2>1. stream \in Streams BY DEF StreamsInv, Values
  <2>2. QED BY <1>7, <1>9, <2>1, BlocksTyped DEF Synchronize
<1>10. CASE SynchronizeInput BY <1>10, BlocksTyped DEF SynchronizeInput, StreamsInv, Progress
<1>11. CASE SynchronizeOutput BY <1>11, BlocksTyped DEF SynchronizeOutput, StreamsInv, Progress
<1>12. CASE HostReturn BY <1>12, ReturnTyped
<1>13. ASSUME NEW s \in Streams, Begin(s) PROVE StreamsInv' BY <1>13, BeginTyped
<1>14. ASSUME NEW s \in Streams, End(s) PROVE StreamsInv' BY <1>14, EndTyped
<1>15. CASE UNCHANGED streams_vars
  <2>1. UNCHANGED <<issued, device_vars, version, runs, reads, cells, input_ready, output_ready, known, stream, host>>
        BY <1>15 DEF streams_vars, engine_vars, client_vars
  <2>2. stream \in Streams /\ (host # None => Enqueued(host)) BY DEF StreamsInv, Values, Progress
  <2>3. \A e : Enqueued(e) => e \in Events BY DEF Enqueued, Events
  <2>4. QED BY <2>1, <2>2, <2>3, QuietTyped
<1>16. QED
  BY <1>1, <1>2, <1>3, <1>4, <1>5, <1>6, <1>8, <1>9, <1>10, <1>11, <1>12, <1>13, <1>14, <1>15
  DEF StreamsNext, Host, Device, Records

\* What is enqueued on the streams, known of them and recorded of them always fits: no
\* event is of work not yet enqueued, the client knows of nothing that is not done, and
\* the device holds nothing the tensors were not given (StreamsTypeOK).
THEOREM StreamsTypeTheorem == StreamsSpec => []StreamsTypeOK
<1>1. StreamsInv => StreamsTypeOK
  <2> SUFFICES ASSUME StreamsInv PROVE StreamsTypeOK
      OBVIOUS
  <2>1. Values /\ Progress BY DEF StreamsInv
  <2>2. ASSUME NEW s \in Streams PROVE done[s] <= Len(issued[s])
    <3>1. done[s] \in Nat /\ Len(issued[s]) \in Nat /\ Begun(s) <= Len(issued[s]) BY <2>1 DEF Values, Progress
    <3>2. QED BY <3>1 DEF Begun
  <2>3. QED BY <2>1, <2>2 DEF StreamsTypeOK, Values, Progress, CellsMade
<1>2. QED BY <1>1, StreamsInit_Inv, StreamsInv_Step, PTL DEF StreamsSpec

-----------------------------------------------------------------------------
(* The order is kept when operations are enqueued, and enforced when they   *)
(* begin.                                                                   *)

\* An operation whose predecessor is still due has not begun.
LEMMA BeforeOver ==
    ASSUME StreamsInv, NEW s \in Streams, NEW r \in Streams, NEW n \in Positions(s), NEW m \in 1 .. Begun(r),
           Before(s, n, r, m)
    PROVE  n <= done[s]
<1>1. Values /\ Progress /\ WaitsKept BY DEF StreamsInv
<1>2. ASSUME NEW z \in Streams
      PROVE  /\ done[z] \in Nat /\ Begun(z) \in Nat /\ done[z] <= Begun(z) /\ Begun(z) <= done[z] + 1
             /\ Begun(z) <= Len(issued[z]) /\ issued[z] \in Seq(Ops) /\ Len(issued[z]) \in Nat
  <2>1. done[z] \in Nat /\ issued[z] \in Seq(Ops) BY <1>1 DEF Values
  <2>2. Begun(z) <= Len(issued[z]) BY <1>1 DEF Progress
  <2>3. QED BY <2>1, <2>2 DEF Begun
<1>3. ASSUME NEW z \in Streams, NEW k \in 1 .. Begun(z), NEW e \in issued[z][k].after
      PROVE  e \in Events /\ e[2] <= done[e[1]]
  <2>1. issued[z][k] \in Ops BY <1>2
  <2>2. e \in Events BY <2>1 DEF Ops
  <2>3. Reached(e) BY <1>1 DEF WaitsKept
  <2>4. done[e[1]] \in Nat BY <1>2, <2>2 DEF Events
  <2>5. QED BY <2>2, <2>3, <2>4 DEF Reached, Events
<1>4. n \in Nat BY <1>2 DEF Positions
<1>5. CASE s = r /\ n < m BY <1>2, <1>4, <1>5
<1>6. ASSUME NEW k \in 1 .. m, NEW e \in issued[r][k].after, Covers(e, s, n) PROVE n <= done[s]
  <2>1. k \in 1 .. Begun(r) BY <1>2
  <2>2. e \in Events /\ e[2] <= done[e[1]] BY <1>3, <2>1
  <2>3. e[1] \in Streams /\ e[2] \in Nat BY <2>2 DEF Events
  <2>4. CASE e[1] = s /\ n <= e[2] BY <1>2, <1>4, <2>2, <2>3, <2>4
  <2>5. ASSUME NEW l \in 1 .. e[2], NEW f \in issued[e[1]][l].after, f[1] = s, n <= f[2] PROVE n <= done[s]
    <3>1. l \in 1 .. Begun(e[1]) BY <1>2, <2>2, <2>3
    <3>2. f \in Events /\ f[2] <= done[f[1]] BY <1>3, <2>3, <3>1
    <3>3. QED BY <1>2, <1>4, <2>5, <3>2 DEF Events
  <2>6. QED BY <1>6, <2>4, <2>5 DEF Covers
<1>7. QED BY <1>5, <1>6 DEF Before

\* Two operations on different streams that may not overlap have an order.
LEMMA ConflictHasOrder ==
    ASSUME AllShaped, OnStreams, NEW s \in Streams, NEW r \in Streams, s # r,
           NEW n \in Positions(s), NEW m \in Positions(r), issued \in [Streams -> Seq(Ops)],
           version \in Nat, runs \in Nat,
           issued[s][n].writes \cap Uses(issued[r][m]) # {}
    PROVE  Precedes(issued[s][n], issued[r][m]) \/ Precedes(issued[r][m], issued[s][n])
<1> DEFINE p == issued[s][n]
           q == issued[r][m]
<1>1. p \in Ops /\ q \in Ops BY DEF Positions
<1>2. Shaped(p) /\ Shaped(q) BY DEF AllShaped
<1>3. p.kind \notin {"infer", "read"} => q.kind \in {"infer", "read"} BY DEF OnStreams
<1>4. p.kind = "infer" /\ q.kind = "infer" => p.run # q.run BY DEF OnStreams, IsAt
<1>5. p.kind \in {"alloc", "free", "write", "infer", "read"} /\ q.kind \in {"alloc", "free", "write", "infer", "read"}
      BY <1>1 DEF Ops
<1>6. p.data \in Nat /\ q.data \in Nat /\ p.run \in Nat /\ q.run \in Nat BY <1>1 DEF Ops
<1>7. \A i, j \in Positive : In(i) # Out(j) BY DEF In, Out
<1>8. p.writes \cap Uses(q) # {} OBVIOUS
<1> HIDE DEF p, q
<1>9. CASE p.kind = "alloc" BY <1>3, <1>5, <1>8, <1>9 DEF Precedes, p, q
<1>10. CASE p.kind = "free"
  <2>1. Uses(q) \cap p.writes # {} BY <1>8
  <2>2. Precedes(q, p) BY <1>3, <1>10, <2>1 DEF Precedes
  <2>3. QED BY <2>2 DEF p, q
<1>11. CASE p.kind = "write"
  <2>1. q.kind # "read"
    <3>1. SUFFICES ASSUME q.kind = "read" PROVE FALSE
          OBVIOUS
    <3>2. (\E i \in Positive : p.writes = {In(i)}) /\ (\E j \in Positive : Uses(q) = {Out(j)})
          BY <1>2, <1>11, <3>1 DEF Shaped, Uses
    <3>3. QED BY <1>7, <1>8, <3>2
  <2>2. q.kind = "infer" BY <1>3, <1>11, <2>1
  <2>3. Precedes(p, q) \/ Precedes(q, p) BY <1>6, <1>11, <2>2 DEF Precedes
  <2>4. QED BY <2>3 DEF p, q
<1>12. CASE p.kind = "infer"
  <2>1. CASE q.kind \in {"alloc", "free"}
    <3>1. q.reads = {} BY <1>2, <2>1 DEF Shaped
    <3>2. q.writes \cap Uses(p) # {} /\ Uses(p) \cap q.writes # {} BY <1>8, <3>1 DEF Uses
    <3>3. Precedes(p, q) \/ Precedes(q, p) BY <1>12, <2>1, <3>2 DEF Precedes
    <3>4. QED BY <3>3 DEF p, q
  <2>2. CASE q.kind = "write"
    <3>1. (\E i \in Positive : p.writes = {Out(i)}) /\ (\E j \in Positive : Uses(q) = {In(j)})
          BY <1>2, <1>12, <2>2 DEF Shaped, Uses
    <3>2. QED BY <1>7, <1>8, <3>1
  <2>3. CASE q.kind \in {"infer", "read"}
    <3>1. Precedes(p, q) \/ Precedes(q, p) BY <1>4, <1>6, <1>12, <2>3 DEF Precedes
    <3>2. QED BY <3>1 DEF p, q
  <2>4. QED BY <1>5, <2>1, <2>2, <2>3
<1>13. CASE p.kind = "read" BY <1>2, <1>8, <1>13 DEF Shaped
<1>14. QED BY <1>5, <1>9, <1>10, <1>11, <1>12, <1>13

LEMMA OrderMeansNoRace ==
    ASSUME StreamsInv, AllShaped, OnStreams, Ordered
    PROVE  NoRace
<1> SUFFICES ASSUME NEW s \in running, NEW r \in running, s # r, Conflict(Head1(s), Head1(r)) PROVE FALSE
    BY DEF NoRace
<1>1. Values /\ Progress BY DEF StreamsInv
<1>2. ASSUME NEW z \in running
      PROVE  /\ z \in Streams /\ done[z] \in Nat /\ done[z] + 1 \in Positions(z)
             /\ done[z] + 1 \in 1 .. Begun(z) /\ Head1(z) = issued[z][done[z] + 1]
  <2>1. z \in Streams /\ done[z] \in Nat /\ issued[z] \in Seq(Ops) BY <1>1 DEF Values
  <2>2. Begun(z) = done[z] + 1 /\ Begun(z) <= Len(issued[z]) BY <1>1, <2>1 DEF Progress, Begun
  <2>3. QED BY <2>1, <2>2 DEF Positions, Head1
<1> DEFINE n == done[s] + 1
           m == done[r] + 1
<1>3. /\ s \in Streams /\ r \in Streams /\ n \in Positions(s) /\ m \in Positions(r)
      /\ n \in 1 .. Begun(s) /\ m \in 1 .. Begun(r) /\ ~(n <= done[s]) /\ ~(m <= done[r])
      /\ Head1(s) = issued[s][n] /\ Head1(r) = issued[r][m]
      BY <1>2
<1> HIDE DEF n, m
<1>4. ~Before(s, n, r, m) /\ ~Before(r, m, s, n) BY <1>3, BeforeOver
<1>5. ~Precedes(issued[s][n], issued[r][m]) /\ ~Precedes(issued[r][m], issued[s][n])
      BY <1>3, <1>4 DEF Ordered
<1>6. issued[s][n].writes \cap Uses(issued[r][m]) # {} \/ issued[r][m].writes \cap Uses(issued[s][n]) # {}
      BY <1>3 DEF Conflict, Uses
<1>7. issued \in [Streams -> Seq(Ops)] /\ version \in Nat /\ runs \in Nat BY <1>1 DEF Values
<1>8. QED BY <1>3, <1>5, <1>6, <1>7, ConflictHasOrder

-----------------------------------------------------------------------------
(* The end of an operation: those that had to come first are done, those    *)
(* that have to come later are not.                                         *)

EndsInTurn(s) ==
    /\ done[s] + 1 \in Positions(s) /\ done[s] + 1 \notin 1 .. done[s] /\ Head1(s) = issued[s][done[s] + 1]
    /\ Head1(s) \in Ops /\ Shaped(Head1(s)) /\ Grounded(Head1(s))
    /\ \A r \in Streams : \A n \in 1 .. done[r] : n \in Positions(r) /\ ~Precedes(Head1(s), issued[r][n])
    /\ \A r \in Streams : \A n \in Positions(r) : Precedes(issued[r][n], Head1(s)) => n \in 1 .. done[r]

LEMMA EndComesInTurn ==
    ASSUME StreamsInv, AllShaped, Ordered, NEW s \in running
    PROVE  s \in Streams /\ EndsInTurn(s)
<1>1. Values /\ Progress /\ AllGrounded BY DEF StreamsInv
<1>2. ASSUME NEW z \in Streams
      PROVE  /\ done[z] \in Nat /\ Begun(z) \in Nat /\ done[z] <= Begun(z) /\ Begun(z) <= Len(issued[z])
             /\ Len(issued[z]) \in Nat /\ issued[z] \in Seq(Ops)
  <2>1. done[z] \in Nat /\ issued[z] \in Seq(Ops) BY <1>1 DEF Values
  <2>2. Begun(z) <= Len(issued[z]) BY <1>1 DEF Progress
  <2>3. QED BY <2>1, <2>2 DEF Begun
<1>3. s \in Streams /\ Begun(s) = done[s] + 1 BY <1>1 DEF Values, Begun
<1> DEFINE n0 == done[s] + 1
           p == Head1(s)
<1>4. n0 \in Positions(s) /\ n0 \in 1 .. Begun(s) /\ ~(n0 <= done[s]) /\ p = issued[s][n0]
      BY <1>2, <1>3 DEF Positions, Head1
<1>5. p \in Ops BY <1>2, <1>3, <1>4 DEF Positions
<1>6. Shaped(p) BY <1>3, <1>4 DEF AllShaped
<1>7. Grounded(p) BY <1>1, <1>3, <1>4 DEF AllGrounded
<1> HIDE DEF n0, p
<1>8. ASSUME NEW r \in Streams, NEW n \in 1 .. done[r] PROVE n \in Positions(r) /\ ~Precedes(p, issued[r][n])
  <2>1. n \in Positions(r) /\ n \in 1 .. Begun(r) BY <1>2 DEF Positions
  <2>2. ~Before(s, n0, r, n) BY <1>3, <1>4, <2>1, BeforeOver
  <2>3. QED BY <1>3, <1>4, <2>1, <2>2 DEF Ordered
<1>9. ASSUME NEW r \in Streams, NEW n \in Positions(r), Precedes(issued[r][n], p) PROVE n \in 1 .. done[r]
  <2>1. Before(r, n, s, n0) BY <1>3, <1>4, <1>9 DEF Ordered
  <2>2. n <= done[r] BY <1>3, <1>4, <2>1, BeforeOver
  <2>3. QED BY <1>2, <2>2 DEF Positions
<1>10. QED BY <1>2, <1>3, <1>4, <1>5, <1>6, <1>7, <1>8, <1>9 DEF n0, p, EndsInTurn

LEMMA OrderMeansLive ==
    ASSUME StreamsInv, AllShaped, OnStreams, InCallOrder, Ordered, LiveHeld
    PROVE  BufferLive
<1> SUFFICES ASSUME NEW s \in running, Head1(s).kind # "alloc", NEW c \in Uses(Head1(s)) PROVE c \in live
    BY DEF BufferLive, Uses
<1> DEFINE p == Head1(s)
<1>1. s \in Streams /\ EndsInTurn(s) BY EndComesInTurn
<1>2. p \in Ops /\ c \in Uses(p) /\ p.kind # "alloc" /\ c \in CellsMade BY <1>1 DEF EndsInTurn, Grounded
<1>3. Internal \in Streams BY StreamsAssumption
<1>4. PICK n \in Positions(Internal) : IsAt("alloc", Internal, n) /\ issued[Internal][n].writes = {c}
      BY <1>2 DEF InCallOrder
<1>5. Precedes(issued[Internal][n], p) BY <1>2, <1>4 DEF Precedes, IsAt
<1>6. n \in 1 .. done[Internal] BY <1>1, <1>3, <1>5 DEF EndsInTurn
<1>7. ASSUME NEW k \in 1 .. done[Internal], IsAt("free", Internal, k), c \in issued[Internal][k].writes
      PROVE  FALSE
  <2>1. k \in Positions(Internal) /\ ~Precedes(p, issued[Internal][k]) BY <1>1, <1>3 DEF EndsInTurn
  <2>2. CASE p.kind # "free" BY <1>2, <1>7, <2>1, <2>2 DEF Precedes, IsAt
  <2>3. CASE p.kind = "free"
    <3>1. s = Internal BY <1>1, <2>3 DEF OnStreams, EndsInTurn
    <3>2. Shaped(p) /\ Shaped(issued[Internal][k]) BY <1>1, <1>3, <2>1 DEF EndsInTurn, AllShaped
    <3>3. p.writes = {c} /\ issued[Internal][k].writes = {c}
          BY <1>2, <1>7, <2>3, <3>2 DEF Shaped, IsAt, Uses
    <3>4. p = issued[Internal][done[s] + 1] /\ done[s] + 1 \in Positions(Internal) BY <1>1, <3>1 DEF EndsInTurn
    <3>5. k = done[s] + 1 BY <1>7, <2>1, <2>3, <3>3, <3>4 DEF InCallOrder, IsAt
    <3>6. QED BY <1>1, <1>7, <3>1, <3>5 DEF EndsInTurn
  <2>4. QED BY <2>2, <2>3
<1>8. QED BY <1>2, <1>4, <1>6, <1>7 DEF LiveHeld

\* How much is done after an operation of s has ended.
LEMMA DoneAfter ==
    ASSUME StreamsInv, NEW s \in Streams, End(s)
    PROVE  /\ UNCHANGED <<issued, cells, version, runs, stream>> /\ s \in running
           /\ \A r \in Streams : \A n : n \in 1 .. done'[r] <=> n \in 1 .. done[r] \/ (r = s /\ n = done[s] + 1)
<1>1. done \in [Streams -> Nat] BY DEF StreamsInv, Values
<1>2. /\ UNCHANGED <<issued, cells, version, runs, stream>> /\ done' = [done EXCEPT ![s] = @ + 1] /\ s \in running
      BY DEF End, engine_vars
<1>3. QED BY <1>1, <1>2

LEMMA EndKeepsLive ==
    ASSUME StreamsInv, AllShaped, OnStreams, Ordered, LiveHeld, NEW s \in Streams, End(s)
    PROVE  LiveHeld'
<1> DEFINE p == Head1(s)
           AllocAt(n, c) == IsAt("alloc", Internal, n) /\ issued[Internal][n].writes = {c}
           FreeAt(n, c) == IsAt("free", Internal, n) /\ c \in issued[Internal][n].writes
<1>1. UNCHANGED <<issued, cells>> /\ s \in running BY DoneAfter
<1>2. EndsInTurn(s) BY <1>1, EndComesInTurn
<1>3. Internal \in Streams BY StreamsAssumption
<1>4. CellsMade' = CellsMade BY <1>1 DEF CellsMade
<1> SUFFICES ASSUME NEW c \in CellsMade, NEW n \in 1 .. done'[Internal], AllocAt(n, c),
                    \A k \in 1 .. done'[Internal] : ~FreeAt(k, c)
             PROVE  c \in live'
    BY <1>1, <1>4 DEF LiveHeld, IsAt
<1>5. \A k \in 1 .. done[Internal] : ~FreeAt(k, c) BY <1>3, DoneAfter
<1>6. p = issued[s][done[s] + 1] /\ p \in Ops BY <1>2 DEF EndsInTurn
<1>7. CASE p.kind = "alloc"
  <2>1. live' = live \cup p.writes BY <1>7, EffectByKind
  <2>2. CASE n \in 1 .. done[Internal]
    <3>1. c \in live BY <1>5, <2>2 DEF LiveHeld
    <3>2. QED BY <2>1, <3>1
  <2>3. CASE n \notin 1 .. done[Internal]
    <3>1. s = Internal /\ n = done[s] + 1 BY <1>3, <2>3, DoneAfter
    <3>2. QED BY <1>6, <2>1, <3>1
  <2>4. QED BY <2>2, <2>3
<1>8. CASE p.kind # "alloc"
  <2>1. n \in 1 .. done[Internal]
    <3>1. SUFFICES ASSUME s = Internal /\ n = done[s] + 1 PROVE FALSE
          BY <1>3, DoneAfter
    <3>2. QED BY <1>6, <1>8, <3>1 DEF IsAt
  <2>2. c \in live BY <1>5, <2>1 DEF LiveHeld
  <2>3. CASE p.kind = "free"
    <3>1. live' = live \ p.writes BY <2>3, EffectByKind
    <3>2. s = Internal BY <1>2, <2>3 DEF OnStreams, EndsInTurn
    <3>3. done[s] + 1 \in 1 .. done'[Internal] BY <1>3, <3>2, DoneAfter
    <3>4. c \notin p.writes BY <1>6, <2>3, <3>2, <3>3 DEF IsAt
    <3>5. QED BY <2>2, <3>1, <3>4
  <2>4. CASE p.kind # "free"
    <3>1. live' = live BY <1>6, <1>8, <2>4, EffectByKind DEF Ops
    <3>2. QED BY <2>2, <3>1
  <2>5. QED BY <2>3, <2>4
<1>9. QED BY <1>7, <1>8

LEMMA EndKeepsInput ==
    ASSUME StreamsInv, AllShaped, OnStreams, Ordered, InputHeld, NEW s \in Streams, End(s)
    PROVE  InputHeld'
<1> DEFINE p == Head1(s)
<1>1. UNCHANGED issued /\ s \in running BY DoneAfter
<1>2. EndsInTurn(s) BY <1>1, EndComesInTurn
<1>3. Internal \in Streams BY StreamsAssumption
<1>4. p = issued[s][done[s] + 1] /\ p \in Ops BY <1>2 DEF EndsInTurn
<1>5. content \in [input : Nat, run : Nat, wants : Nat, used : Nat] BY DEF StreamsInv, Values
<1>6. CASE p.kind = "write"
  <2>1. content'.input = p.data BY <1>5, <1>6, EffectByKind
  <2>2. s = Internal BY <1>2, <1>6 DEF OnStreams, EndsInTurn
  <2>3. ASSUME NEW n \in 1 .. done'[Internal], IsAt("write", Internal, n) PROVE issued[Internal][n].data <= p.data
    <3>1. CASE n = done[s] + 1 BY <1>4, <2>2, <3>1 DEF Ops
    <3>2. CASE n \in 1 .. done[Internal]
      <4>1. n \in Positions(Internal) /\ ~Precedes(p, issued[Internal][n]) BY <1>2, <1>3, <3>2 DEF EndsInTurn
      <4>2. ~(p.data < issued[Internal][n].data) BY <1>6, <2>3, <4>1 DEF Precedes, IsAt
      <4>3. issued[Internal] \in Seq(Ops) BY <1>3 DEF StreamsInv, Values
      <4>4. issued[Internal][n] \in Ops BY <4>1, <4>3 DEF Positions
      <4>5. QED BY <1>4, <4>2, <4>4 DEF Ops
    <3>3. QED BY <1>3, <3>1, <3>2, DoneAfter
  <2>4. done[s] + 1 \in 1 .. done'[Internal] BY <1>3, <2>2, DoneAfter
  <2>5. QED BY <1>1, <1>4, <1>6, <2>1, <2>2, <2>3, <2>4 DEF InputHeld, IsAt
<1>7. CASE p.kind # "write"
  <2>1. content'.input = content.input BY <1>4, <1>5, <1>7, EffectByKind DEF Ops
  <2>2. \A n \in 1 .. done'[Internal] : IsAt("write", Internal, n) => n \in 1 .. done[Internal]
        BY <1>3, <1>4, <1>7, DoneAfter DEF IsAt
  <2>3. \A n \in 1 .. done[Internal] : n \in 1 .. done'[Internal] BY <1>3, DoneAfter
  <2>4. \A n : IsAt("write", Internal, n)' <=> IsAt("write", Internal, n) BY <1>1 DEF IsAt
  <2>5. QED BY <1>1, <2>1, <2>2, <2>3, <2>4 DEF InputHeld
<1>8. QED BY <1>6, <1>7

LEMMA EndKeepsOutput ==
    ASSUME StreamsInv, AllShaped, OnStreams, InCallOrder, Ordered, OutputHeld, NEW s \in Streams, End(s)
    PROVE  OutputHeld'
<1> DEFINE p == Head1(s)
<1>1. UNCHANGED issued /\ s \in running BY DoneAfter
<1>2. EndsInTurn(s) BY <1>1, EndComesInTurn
<1>3. Internal \in Streams /\ issued \in [Streams -> Seq(Ops)]
      BY StreamsAssumption DEF StreamsInv, Values
<1>4. p = issued[s][done[s] + 1] /\ p \in Ops BY <1>2 DEF EndsInTurn
<1>5. content \in [input : Nat, run : Nat, wants : Nat, used : Nat] BY DEF StreamsInv, Values
<1>6. SUFFICES ASSUME NEW r \in Streams, NEW n \in 1 .. done'[r], IsAt("infer", r, n), LastDone(r, n)'
               PROVE  content'.run = issued[r][n].run
  <2>1. \A r \in Streams : \A n : IsAt("infer", r, n)' <=> IsAt("infer", r, n) BY <1>1 DEF IsAt
  <2>2. QED BY <1>1, <1>6, <2>1 DEF OutputHeld
<1> DEFINE q == issued[r][n]
<1>7. /\ \A z \in Streams : \A m \in 1 .. done'[z] : IsAt("infer", z, m) => issued[z][m].run <= q.run
      /\ \A m \in 1 .. done'[Internal] :
            IsAt("alloc", Internal, m) => ~Earlier(q.writes, issued[Internal][m].writes)
      BY <1>1, <1>6 DEF LastDone, IsAt
<1>8. \A z \in Streams : \A m \in 1 .. done[z] : m \in 1 .. done'[z] BY DoneAfter
<1>9. LastDone(r, n) BY <1>3, <1>7, <1>8 DEF LastDone
<1>10. CASE p.kind = "infer"
  <2>1. content'.run = p.run BY <1>5, <1>10, EffectByKind
  <2>2. CASE r = s /\ n = done[s] + 1 BY <1>4, <2>1, <2>2
  <2>3. CASE ~(r = s /\ n = done[s] + 1)
    <3>1. n \in 1 .. done[r] BY <2>3, DoneAfter
    <3>2. n \in Positions(r) /\ ~Precedes(p, q) BY <1>2, <3>1 DEF EndsInTurn
    <3>3. ~(p.run < q.run) BY <1>6, <1>10, <3>2 DEF Precedes, IsAt
    <3>4. p.run <= q.run
      <4>1. done[s] + 1 \in 1 .. done'[s] BY DoneAfter
      <4>2. QED BY <1>4, <1>7, <1>10, <4>1 DEF IsAt
    <3>5. q \in Ops BY <1>3, <3>2 DEF Positions
    <3>6. QED BY <1>4, <2>1, <3>3, <3>4, <3>5 DEF Ops
  <2>4. QED BY <2>2, <2>3
<1>11. CASE p.kind # "infer"
  <2>1. n \in 1 .. done[r] BY <1>4, <1>6, <1>11, DoneAfter DEF IsAt
  <2>2. n \in Positions(r) /\ ~Precedes(p, q) BY <1>2, <2>1 DEF EndsInTurn
  <2>3. content.run = q.run BY <1>6, <1>9, <2>1 DEF OutputHeld
  <2>4. CASE p.kind # "alloc"
    <3>1. content'.run = content.run BY <1>4, <1>5, <1>11, <2>4, EffectByKind DEF Ops
    <3>2. QED BY <2>3, <3>1
  <2>5. CASE p.kind = "alloc"
    <3>1. SUFFICES ASSUME ~\E c \in p.writes : c[1] # "output" PROVE FALSE
          BY <2>3, <2>5, EffectByKind
    <3>2. PICK c \in Cells : p.writes = {c} BY <1>2, <2>5 DEF EndsInTurn, Shaped
    <3>3. Shaped(q) BY <2>2 DEF AllShaped
    <3>4. PICK i \in Positive : q.writes = {Out(i)} BY <1>6, <3>3 DEF Shaped, IsAt
    <3>5. c[1] = "output" /\ c[2] \in Positive /\ c = Out(c[2]) BY <3>1, <3>2 DEF Cells, Out
    <3>6. s = Internal BY <1>2, <2>5 DEF OnStreams, EndsInTurn
    <3>7. done[s] + 1 \in 1 .. done'[Internal] BY <1>3, <3>6, DoneAfter
    <3>8. ~Earlier(q.writes, p.writes) BY <1>4, <1>7, <2>5, <3>6, <3>7 DEF IsAt
    <3>9. ~(i < c[2]) BY <3>2, <3>4, <3>5, <3>8 DEF Earlier, Out
    <3>10. CASE c[2] = i
      <4>1. Precedes(p, q) BY <1>6, <2>5, <3>2, <3>4, <3>5, <3>10 DEF Precedes, Uses, IsAt
      <4>2. QED BY <2>2, <4>1
    <3>11. CASE c[2] < i
      <4>1. Out(i) \in CellsMade BY <2>2, <3>4 DEF StreamsInv, AllGrounded, Grounded, Uses
      <4>2. PICK j \in Positions(Internal) :
               IsAt("alloc", Internal, j) /\ issued[Internal][j].writes = {Out(i)}
            BY <4>1 DEF InCallOrder
      <4>3. Precedes(issued[Internal][j], q) BY <1>6, <3>4, <4>2 DEF Precedes, Uses, IsAt
      <4>4. j \in 1 .. done[Internal]
        <5>1. Before(Internal, j, r, n) BY <1>3, <2>2, <4>3 DEF Ordered
        <5>2. n \in 1 .. Begun(r)
          <6>1. done[r] \in Nat BY DEF StreamsInv, Values
          <6>2. QED BY <2>1, <6>1 DEF Begun
        <5>3. j <= done[Internal] BY <1>3, <5>1, <5>2, BeforeOver
        <5>4. done[Internal] \in Nat BY <1>3 DEF StreamsInv, Values
        <5>5. QED BY <5>3, <5>4 DEF Positions
      <4>5. Earlier(p.writes, issued[Internal][j].writes)
        <5>1. c[1] = Out(i)[1] /\ c[2] < Out(i)[2] BY <3>5, <3>11 DEF Out
        <5>2. QED BY <3>2, <4>2, <5>1 DEF Earlier
      <4>6. done[s] + 1 \in Positions(Internal) BY <1>2, <3>6 DEF EndsInTurn
      <4>7. done[s] + 1 < j
        <5>1. IsAt("alloc", Internal, done[s] + 1) /\ issued[Internal][done[s] + 1].writes = p.writes
              BY <1>4, <2>5, <3>6 DEF IsAt
        <5>2. \A k, l \in Positions(Internal) :
                 IsAt("alloc", Internal, k) /\ IsAt("alloc", Internal, l)
                     /\ Earlier(issued[Internal][k].writes, issued[Internal][l].writes) => k < l
              BY DEF InCallOrder
        <5> HIDE DEF p
        <5>3. QED BY <4>2, <4>5, <4>6, <5>1, <5>2
      <4>8. done[s] \in Nat BY DEF StreamsInv, Values
      <4>9. QED BY <3>6, <4>4, <4>7, <4>8
    <3>12. QED BY <3>4, <3>5, <3>9, <3>10, <3>11 DEF Positive
  <2>6. QED BY <2>4, <2>5
<1>12. QED BY <1>10, <1>11

LEMMA EndKeepsCurrent ==
    ASSUME StreamsInv, AllShaped, InCallOrder, Ordered, InputHeld, InputCurrent, NEW s \in Streams, End(s)
    PROVE  InputCurrent'
<1> DEFINE p == Head1(s)
<1>1. UNCHANGED issued /\ s \in running BY DoneAfter
<1>2. EndsInTurn(s) BY <1>1, EndComesInTurn
<1>3. Internal \in Streams /\ version \in Nat /\ issued \in [Streams -> Seq(Ops)]
      BY StreamsAssumption DEF StreamsInv, Values
<1>4. p \in Ops /\ Shaped(p) BY <1>2 DEF EndsInTurn
<1>5. content \in [input : Nat, run : Nat, wants : Nat, used : Nat] BY DEF StreamsInv, Values
<1>6. CASE p.kind = "infer"
  <2>1. content'.wants = p.data /\ content'.used = content.input BY <1>5, <1>6, EffectByKind
  <2>2. p.data <= version /\ p.data \in Nat BY <1>4, <1>6 DEF Shaped, Ops
  <2>3. p.data <= content.input
    <3>1. CASE p.data = 0 BY <1>5, <3>1
    <3>2. CASE p.data > 0
      <4>1. PICK n \in Positions(Internal) : IsAt("write", Internal, n) /\ issued[Internal][n].data = p.data
            BY <1>3, <2>2, <3>2 DEF InCallOrder
      <4>2. Precedes(issued[Internal][n], p) BY <1>6, <2>2, <4>1 DEF Precedes, IsAt
      <4>3. n \in 1 .. done[Internal] BY <1>2, <1>3, <4>2 DEF EndsInTurn
      <4>4. QED BY <4>1, <4>3 DEF InputHeld
    <3>3. QED BY <2>2, <3>1, <3>2
  <2>4. content.input <= p.data
    <3>1. CASE content.input = 0 BY <2>2, <3>1
    <3>2. CASE content.input # 0
      <4>1. PICK n \in 1 .. done[Internal] :
               IsAt("write", Internal, n) /\ issued[Internal][n].data = content.input
            BY <3>2 DEF InputHeld
      <4>2. ~Precedes(p, issued[Internal][n]) BY <1>2, <1>3 DEF EndsInTurn
      <4>3. ~(p.data < content.input) BY <1>6, <4>1, <4>2 DEF Precedes, IsAt
      <4>4. QED BY <1>5, <2>2, <4>3
    <3>3. QED BY <3>1, <3>2
  <2>5. QED BY <1>5, <2>1, <2>2, <2>3, <2>4 DEF InputCurrent
<1>7. CASE p.kind # "infer"
  <2>1. content'.wants = content.wants /\ content'.used = content.used
        BY <1>4, <1>5, <1>7, EffectByKind DEF Ops
  <2>2. QED BY <2>1 DEF InputCurrent
<1>8. QED BY <1>6, <1>7

LEMMA EndDelivers ==
    ASSUME StreamsInv, AllShaped, ReadsWritten, Ordered, OutputHeld, OutputDelivered, NEW s \in Streams, End(s)
    PROVE  OutputDelivered'
<1> DEFINE p == Head1(s)
<1>1. UNCHANGED issued /\ s \in running BY DoneAfter
<1>2. EndsInTurn(s) BY <1>1, EndComesInTurn
<1>3. Internal \in Streams /\ issued \in [Streams -> Seq(Ops)]
      BY StreamsAssumption DEF StreamsInv, Values
<1>4. p \in Ops /\ p = issued[s][done[s] + 1] /\ done[s] + 1 \in Positions(s) BY <1>2 DEF EndsInTurn
<1>5. CASE p.kind = "read"
  <2>1. delivered' = [wants |-> p.run, got |-> content.run] BY <1>5, EffectByKind
  <2>2. PICK r \in Streams : \E m \in Positions(r) :
           IsAt("infer", r, m) /\ issued[r][m].run = p.run /\ issued[r][m].writes = p.reads
        BY <1>4, <1>5 DEF ReadsWritten, IsAt
  <2> PICK m \in Positions(r) :
         IsAt("infer", r, m) /\ issued[r][m].run = p.run /\ issued[r][m].writes = p.reads
      BY <2>2
  <2>3. issued[r][m] \in Ops BY <1>3 DEF Positions
  <2>4. Precedes(issued[r][m], p) BY <1>4, <1>5 DEF Precedes, IsAt, Ops
  <2>5. m \in 1 .. done[r] BY <1>2, <2>4 DEF EndsInTurn
  <2>6. ASSUME NEW z \in Streams, NEW k \in 1 .. done[z], IsAt("infer", z, k)
        PROVE  issued[z][k].run <= issued[r][m].run
    <3>1. k \in Positions(z) /\ ~Precedes(p, issued[z][k]) BY <1>2 DEF EndsInTurn
    <3>2. issued[z][k] \in Ops BY <1>3, <3>1 DEF Positions
    <3>3. ~(p.run < issued[z][k].run) BY <1>5, <2>6, <3>1 DEF Precedes, IsAt
    <3>4. QED BY <1>4, <3>2, <3>3 DEF Ops
  <2>7. ASSUME NEW k \in 1 .. done[Internal], IsAt("alloc", Internal, k)
        PROVE  ~Earlier(issued[r][m].writes, issued[Internal][k].writes)
    <3>1. ~Precedes(p, issued[Internal][k]) BY <1>2, <1>3 DEF EndsInTurn
    <3>2. QED BY <1>5, <2>7, <3>1 DEF Precedes, IsAt
  <2>8. LastDone(r, m) BY <2>6, <2>7 DEF LastDone
  <2>9. content.run = p.run BY <2>5, <2>8 DEF OutputHeld
  <2>10. QED BY <2>1, <2>9 DEF OutputDelivered
<1>6. CASE p.kind # "read"
  <2>1. delivered' = delivered BY <1>4, <1>6, EffectByKind DEF Ops
  <2>2. QED BY <2>1 DEF OutputDelivered
<1>7. QED BY <1>5, <1>6

-----------------------------------------------------------------------------
(* What operations already enqueued, and what is done, keep.                *)

LEMMA CoversKept ==
    ASSUME StreamsInv, Extends, NEW e, Enqueued(e), NEW s, NEW n, Covers(e, s, n)
    PROVE  Covers(e, s, n)'
<1>1. e[1] \in Streams /\ e[2] \in Nat /\ e[2] <= Len(issued[e[1]]) BY DEF Enqueued
<1>2. Len(issued[e[1]]) \in Nat BY <1>1 DEF StreamsInv, Values
<1>3. \A k \in 1 .. e[2] : issued'[e[1]][k] = issued[e[1]][k] BY <1>1, <1>2 DEF Extends
<1>4. QED BY <1>3 DEF Covers

LEMMA BeforeKept ==
    ASSUME StreamsInv, Extends, NEW s \in Streams, NEW r \in Streams, NEW n \in Positions(s), NEW m \in Positions(r),
           done'[s] \in Nat, done[s] <= done'[s], Before(s, n, r, m)
    PROVE  Before(s, n, r, m)'
<1>1. Len(issued[r]) \in Nat /\ Len(issued[s]) \in Nat /\ done[s] \in Nat BY DEF StreamsInv, Values
<1>2. n \in Nat /\ m \in Nat BY <1>1 DEF Positions
<1>3. CASE s = r /\ n < m BY <1>3 DEF Before
<1>4. CASE n <= done[s]
  <2>1. n <= done'[s] BY <1>1, <1>2, <1>4
  <2>2. QED BY <2>1 DEF Before
<1>5. ASSUME NEW k \in 1 .. m, NEW e \in issued[r][k].after, Covers(e, s, n) PROVE Before(s, n, r, m)'
  <2>1. k \in Positions(r) /\ issued'[r][k] = issued[r][k] BY <1>1, <1>2 DEF Extends, Positions
  <2>2. Enqueued(e) BY <2>1 DEF StreamsInv, AllGrounded, Grounded
  <2>3. Covers(e, s, n)' BY <1>5, <2>2, CoversKept
  <2>4. QED BY <2>1, <2>3 DEF Before
<1>6. QED BY <1>3, <1>4, <1>5 DEF Before

LEMMA AppendOrdered ==
    ASSUME StreamsInv, Ordered, NEW r \in Streams, NEW ops \in Seq(Ops), Enqueue(r, ops), done' = done,
           \A s \in Streams \ {r} : \A n \in Positions(s), m \in 1 .. Len(ops) :
               Precedes(issued[s][n], ops[m]) =>
                   \/ n <= done[s]
                   \/ \E e \in ops[m].after : Enqueued(e) /\ Covers(e, s, n)
                   \/ \E k \in Positions(r) : \E e \in issued[r][k].after : Covers(e, s, n),
           \A s \in Streams : \A n \in Positions(s), m \in 1 .. Len(ops) : ~Precedes(ops[m], issued[s][n]),
           \A m, k \in 1 .. Len(ops) : Precedes(ops[m], ops[k]) => m < k
    PROVE  Ordered'
<1> SUFFICES ASSUME NEW s \in Streams, NEW z \in Streams, NEW n \in Positions(s)', NEW m \in Positions(z)',
                    Precedes(issued'[s][n], issued'[z][m])
             PROVE  Before(s, n, z, m)'
    BY DEF Ordered, Precedes, Earlier, Uses
<1>1. issued \in [Streams -> Seq(Ops)] /\ done \in [Streams -> Nat] BY DEF StreamsInv, Values
<1>2. Extends BY <1>1, EnqueueExtends
<1>3. \A y \in Streams : Len(issued[y]) \in Nat /\ done[y] \in Nat BY <1>1
<1>4. issued' \in [Streams -> Seq(Ops)] /\ n \in Nat /\ m \in Nat
  <2>1. issued' \in [Streams -> Seq(Ops)] BY <1>1, EnqueueAppends
  <2>2. QED BY <2>1 DEF Positions
<1> DEFINE Old(y, i) == i \in Positions(y) /\ issued'[y][i] = issued[y][i]
           New(y, i) == y = r /\ i - Len(issued[r]) \in 1 .. Len(ops) /\ issued'[r][i] = ops[i - Len(issued[r])]
<1>5. (Old(s, n) \/ New(s, n)) /\ (Old(z, m) \/ New(z, m)) BY <1>1, EnqueueExtends
<1>6. CASE Old(s, n) /\ Old(z, m)
  <2>1. Before(s, n, z, m) BY <1>6 DEF Ordered
  <2>2. QED BY <1>2, <1>3, <1>6, <2>1, BeforeKept
<1>7. CASE Old(s, n) /\ New(z, m)
  <2>1. CASE s = r
    <3>1. n < m BY <1>3, <1>4, <1>7, <2>1 DEF Positions
    <3>2. QED BY <1>7, <2>1, <3>1 DEF Before
  <2>2. CASE s # r
    <3>1. \/ n <= done[s]
          \/ \E e \in ops[m - Len(issued[r])].after : Enqueued(e) /\ Covers(e, s, n)
          \/ \E k \in Positions(r) : \E e \in issued[r][k].after : Covers(e, s, n)
          BY <1>7, <2>2
    <3>2. CASE n <= done[s] BY <3>2 DEF Before
    <3>3. ASSUME NEW e \in ops[m - Len(issued[r])].after, Enqueued(e), Covers(e, s, n)
          PROVE  Before(s, n, z, m)'
      <4>1. Covers(e, s, n)' BY <1>2, <3>3, CoversKept
      <4>2. e \in issued'[z][m].after BY <1>7
      <4>3. m \in 1 .. m BY <1>3, <1>4, <1>7
      <4>4. QED BY <4>1, <4>2, <4>3 DEF Before
    <3>4. ASSUME NEW k \in Positions(r), NEW e \in issued[r][k].after, Covers(e, s, n)
          PROVE  Before(s, n, z, m)'
      <4>1. k \in 1 .. Len(issued[r]) BY DEF Positions
      <4>2. issued'[z][k] = issued[r][k] BY <1>2, <1>7, <4>1 DEF Extends
      <4>3. Enqueued(e) BY <3>4 DEF StreamsInv, AllGrounded, Grounded
      <4>4. Covers(e, s, n)' BY <1>2, <3>4, <4>3, CoversKept
      <4>5. k \in 1 .. m BY <1>3, <1>4, <1>7, <4>1
      <4>6. QED BY <3>4, <4>2, <4>4, <4>5 DEF Before
    <3>5. QED BY <3>1, <3>2, <3>3, <3>4
  <2>3. QED BY <2>1, <2>2
<1>8. CASE New(s, n) /\ Old(z, m) BY <1>8
<1>9. CASE New(s, n) /\ New(z, m)
  <2>1. n - Len(issued[r]) < m - Len(issued[r]) BY <1>9
  <2>2. n < m BY <1>3, <1>4, <2>1
  <2>3. QED BY <1>9, <2>2 DEF Before
<1>10. QED BY <1>5, <1>6, <1>7, <1>8, <1>9

\* Steps that enqueue nothing.
LEMMA QuietOrdered ==
    ASSUME StreamsInv, Ordered, CallsInv,
           UNCHANGED <<issued, cells, version, runs, input_ready, output_ready, returned>>,
           \A s \in Streams : done'[s] \in Nat /\ known'[s] \in Nat /\ done[s] <= done'[s] /\ known[s] <= known'[s],
           \A s \in Streams \ {stream'} : \A n \in Positions(s) : IsAt("infer", s, n) => n <= known'[s]
    PROVE  Ordered' /\ CallsInv'
<1>1. Values /\ Progress BY DEF StreamsInv
<1>2. \A s \in Streams : Len(issued[s]) \in Nat /\ done[s] \in Nat /\ known[s] \in Nat BY <1>1 DEF Values
<1>3. Extends BY <1>2 DEF Extends
<1>4. /\ \A s : Positions(s)' = Positions(s) /\ \A k, n : IsAt(k, s, n)' <=> IsAt(k, s, n)
      /\ CellsMade' = CellsMade /\ Input' = Input /\ Output' = Output
      /\ \A e, s, n : Covers(e, s, n)' <=> Covers(e, s, n)
      BY DEF Positions, IsAt, CellsMade, Input, Output, Covers
<1>5. Ordered'
  <2> SUFFICES ASSUME NEW s \in Streams, NEW r \in Streams, NEW n \in Positions(s), NEW m \in Positions(r),
                      Precedes(issued[s][n], issued[r][m])
               PROVE  Before(s, n, r, m)'
      BY <1>4 DEF Ordered, Precedes, Earlier, Uses
  <2>1. Before(s, n, r, m) BY DEF Ordered
  <2>2. QED BY <1>3, <2>1, BeforeKept
<1>6. AllShaped' BY <1>4 DEF CallsInv, AllShaped, Shaped
<1>7. OnStreams' BY <1>4 DEF CallsInv, OnStreams
<1>8. InCallOrder' BY <1>4 DEF CallsInv, InCallOrder, Earlier
<1>9. EventsKept' BY DEF CallsInv, EventsKept
<1>10. OutputMade'
  <2>1. \A n \in Positions(Internal) : n <= done[Internal] => n <= done'[Internal]
        BY <1>2, StreamsAssumption DEF Positions
  <2>2. QED BY <1>4, <2>1 DEF CallsInv, OutputMade, MadeBefore
<1>11. ReadsWritten' BY <1>4 DEF CallsInv, ReadsWritten
<1>12. QED BY <1>5, <1>6, <1>7, <1>8, <1>9, <1>10, <1>11 DEF CallsInv

LEMMA AppendKeepsDevice ==
    ASSUME StreamsInv, DeviceInv, Extends, UNCHANGED device_vars,
           \A c \in CellsMade' \ CellsMade : \A n \in Positions(Internal) : issued[Internal][n].writes # {c}
    PROVE  DeviceInv'
<1>1. Values /\ Progress BY DEF StreamsInv
<1>2. UNCHANGED <<done, running, live, content, delivered>> BY DEF device_vars
<1>3. Internal \in Streams BY StreamsAssumption
<1>4. ASSUME NEW s \in Streams, NEW n \in 1 .. done[s]
      PROVE  n \in Positions(s) /\ issued'[s][n] = issued[s][n] /\ \A kind : IsAt(kind, s, n)' <=> IsAt(kind, s, n)
  <2>1. done[s] \in Nat /\ Len(issued[s]) \in Nat /\ Begun(s) <= Len(issued[s]) BY <1>1 DEF Values, Progress
  <2>2. done[s] <= Len(issued[s]) BY <2>1 DEF Begun
  <2>3. n \in 1 .. Len(issued[s]) BY <2>1, <2>2
  <2>4. QED BY <2>3 DEF Positions, Extends, IsAt
<1>5. LiveHeld'
  <2>1. SUFFICES ASSUME NEW c \in CellsMade',
                        NEW n \in 1 .. done[Internal],
                        IsAt("alloc", Internal, n) /\ issued[Internal][n].writes = {c},
                        \A m \in 1 .. done[Internal] : IsAt("free", Internal, m) => c \notin issued[Internal][m].writes
                 PROVE  c \in live
        BY <1>2, <1>3, <1>4 DEF LiveHeld
  <2>2. c \in CellsMade BY <1>3, <1>4, <2>1
  <2>3. QED BY <2>1, <2>2 DEF DeviceInv, LiveHeld
<1>6. InputHeld' BY <1>2, <1>3, <1>4 DEF DeviceInv, InputHeld
<1>7. OutputHeld'
  <2>1. ASSUME NEW s \in Streams, NEW n \in 1 .. done[s], LastDone(s, n)' PROVE LastDone(s, n)
        BY <1>2, <1>3, <1>4, <2>1 DEF LastDone, Earlier
  <2>2. QED BY <1>2, <1>4, <2>1 DEF DeviceInv, OutputHeld
<1>8. InputCurrent' /\ OutputDelivered' BY <1>2 DEF DeviceInv, InputCurrent, OutputDelivered
<1>9. QED BY <1>5, <1>6, <1>7, <1>8 DEF DeviceInv

-----------------------------------------------------------------------------
(* What new operations have to be for the rest of the invariant.            *)

LEMMA OldOperation ==
    ASSUME StreamsInv, AllShaped, NEW s \in Streams, NEW n \in Positions(s)
    PROVE  /\ issued[s][n] \in Ops /\ Shaped(issued[s][n]) /\ Grounded(issued[s][n])
           /\ issued[s][n].run <= runs /\ runs \in Nat /\ version \in Nat
<1>1. issued \in [Streams -> Seq(Ops)] /\ runs \in Nat /\ version \in Nat BY DEF StreamsInv, Values
<1>2. issued[s][n] \in Ops BY <1>1 DEF Positions
<1>3. Shaped(issued[s][n]) BY DEF AllShaped
<1>4. Grounded(issued[s][n]) BY DEF StreamsInv, AllGrounded
<1>5. issued[s][n].run <= runs BY <1>1, <1>2, <1>3 DEF Shaped, Ops
<1>6. QED BY <1>1, <1>2, <1>3, <1>4, <1>5

LEMMA CellsMadeTypes ==
    ASSUME StreamsInv, NEW c \in CellsMade
    PROVE  /\ c \in Cells /\ c[2] \in Nat
           /\ c[1] = "input" => c[2] <= cells.input
           /\ c[1] = "output" => c[2] <= cells.output
<1>1. cells.input \in Nat /\ cells.output \in Nat BY DEF StreamsInv, Values, Positive
<1>2. QED BY <1>1 DEF CellsMade, In, Out, Cells, Positive

LEMMA AppendShaped ==
    ASSUME StreamsInv, AllShaped, NEW r \in Streams, NEW ops \in Seq(Ops), Enqueue(r, ops),
           version' \in Nat, runs' \in Nat, version <= version', runs <= runs',
           \A n \in 1 .. Len(ops) : Shaped(ops[n])'
    PROVE  AllShaped'
<1> SUFFICES ASSUME NEW s \in Streams, NEW n \in Positions(s)' PROVE Shaped(issued[s][n])'
    BY DEF AllShaped
<1>1. issued \in [Streams -> Seq(Ops)] /\ version \in Nat /\ runs \in Nat BY DEF StreamsInv, Values
<1>2. CASE n \in Positions(s) /\ issued'[s][n] = issued[s][n]
  <2>1. Shaped(issued[s][n]) /\ issued[s][n] \in Ops BY <1>2, OldOperation
  <2>2. QED BY <1>1, <1>2, <2>1 DEF Shaped, Ops
<1>3. CASE s = r /\ n - Len(issued[r]) \in 1 .. Len(ops) /\ issued'[r][n] = ops[n - Len(issued[r])]
  <2>1. PICK m \in 1 .. Len(ops) : m = n - Len(issued[r]) BY <1>3
  <2>2. Shaped(ops[m])' BY <2>1
  <2>3. issued'[s][n] = ops[m] BY <1>3, <2>1
  <2>4. QED BY <2>2, <2>3 DEF Shaped
<1>4. QED BY <1>1, <1>2, <1>3, EnqueueExtends

LEMMA AppendOnStreams ==
    ASSUME StreamsInv, AllShaped, OnStreams, NEW r \in Streams, NEW ops \in Seq(Ops), Enqueue(r, ops),
           UNCHANGED <<stream, known>>,
           r # Internal => \A n \in 1 .. Len(ops) : ops[n].kind \in {"infer", "read"},
           \/ \A n \in 1 .. Len(ops) : ops[n].kind # "infer"
           \/ r = stream /\ Len(ops) = 1 /\ ops[1].run = runs + 1
    PROVE  OnStreams'
<1> DEFINE Old(y, i) == i \in Positions(y) /\ issued'[y][i] = issued[y][i]
           New(y, i) == y = r /\ i - Len(issued[r]) \in 1 .. Len(ops) /\ issued'[r][i] = ops[i - Len(issued[r])]
<1>1. issued \in [Streams -> Seq(Ops)] /\ runs \in Nat BY DEF StreamsInv, Values
<1>2. \A y \in Streams : \A i \in Positions(y)' : Old(y, i) \/ New(y, i) BY <1>1, EnqueueExtends
<1>3. issued' \in [Streams -> Seq(Ops)] BY <1>1, EnqueueAppends
<1>4. \A y \in Streams : \A i \in Positions(y)' : i \in Nat BY <1>3 DEF Positions
<1>5. Len(issued[r]) \in Nat BY <1>1
<1>6. \A y \in Streams : \A i \in Positions(y) : issued[y][i].run <= runs /\ issued[y][i] \in Ops BY OldOperation
<1> HIDE DEF Old, New
<1>7. ASSUME NEW s \in Streams \ {Internal}, NEW n \in Positions(s)' PROVE issued'[s][n].kind \in {"infer", "read"}
      BY <1>2 DEF Old, New, OnStreams
<1>8. ASSUME NEW s \in Streams \ {stream'}, NEW n \in Positions(s)', IsAt("infer", s, n)' PROVE n <= known'[s]
  <2>1. CASE Old(s, n) BY <1>8, <2>1 DEF Old, OnStreams, IsAt
  <2>2. CASE New(s, n)
    <3>1. s # stream BY <1>8
    <3>2. QED BY <1>8, <2>2, <3>1 DEF New, IsAt
  <2>3. QED BY <1>2, <2>1, <2>2
<1>9. ASSUME NEW s \in Streams, NEW z \in Streams, NEW n \in Positions(s)', NEW m \in Positions(z)',
             IsAt("infer", s, n)', IsAt("infer", z, m)', issued'[s][n].run = issued'[z][m].run
      PROVE  s = z /\ n = m
  <2>1. CASE Old(s, n) /\ Old(z, m) BY <1>9, <2>1 DEF Old, OnStreams, IsAt
  <2>2. ASSUME NEW y \in Streams, NEW i \in Positions(y)', New(y, i), IsAt("infer", y, i)'
        PROVE  y = r /\ i = Len(issued[r]) + 1 /\ issued'[y][i].run = runs + 1
    <3>1. Len(ops) = 1 /\ ops[1].run = runs + 1 BY <2>2 DEF New, IsAt
    <3>2. i - Len(issued[r]) = 1 BY <1>4, <1>5, <2>2, <3>1 DEF New
    <3>3. i = Len(issued[r]) + 1 BY <1>4, <1>5, <3>2
    <3>4. QED BY <2>2, <3>1, <3>2, <3>3 DEF New
  <2>3. CASE Old(s, n) /\ New(z, m)
    <3>1. issued'[s][n].run <= runs /\ issued'[s][n].run \in Nat BY <1>6, <2>3 DEF Old, Ops
    <3>2. QED BY <1>1, <1>9, <2>2, <2>3, <3>1
  <2>4. CASE New(s, n) /\ Old(z, m)
    <3>1. issued'[z][m].run <= runs /\ issued'[z][m].run \in Nat BY <1>6, <2>4 DEF Old, Ops
    <3>2. QED BY <1>1, <1>9, <2>2, <2>4, <3>1
  <2>5. CASE New(s, n) /\ New(z, m) BY <1>9, <2>2, <2>5
  <2>6. QED BY <1>2, <2>1, <2>3, <2>4, <2>5
<1>10. /\ \A s \in Streams \ {Internal} : \A n \in Positions(s)' : issued'[s][n].kind \in {"infer", "read"}
       /\ \A s \in Streams \ {stream'} : \A n \in Positions(s)' : IsAt("infer", s, n)' => n <= known'[s]
       BY <1>7, <1>8
<1>11. QED BY <1>9, <1>10 DEF OnStreams

LEMMA AppendInCallOrder ==
    ASSUME StreamsInv, AllShaped, OnStreams, InCallOrder,
           NEW r \in Streams, NEW ops \in Seq(Ops), Enqueue(r, ops), version' \in Nat,
           r # Internal => CellsMade' = CellsMade /\ version' = version,
           \A c \in CellsMade' \ CellsMade :
               \E n \in 1 .. Len(ops) : ops[n].kind = "alloc" /\ ops[n].writes = {c},
           \A n \in 1 .. Len(ops) : ops[n].kind = "alloc" =>
               \E c \in Cells : ops[n].writes = {c} /\ \A d \in CellsMade : d[1] = c[1] => d[2] < c[2],
           \A n, m \in 1 .. Len(ops) : ops[n].kind = "alloc" /\ ops[m].kind = "alloc" => n = m,
           \A n \in 1 .. Len(ops) : ops[n].kind = "free" =>
               /\ ops[n].writes = {Input} \/ ops[n].writes = {Output}
               /\ Input' \notin ops[n].writes /\ Output' \notin ops[n].writes,
           \A n, m \in 1 .. Len(ops) : ops[n].kind = "free" /\ ops[m].kind = "free" => n = m,
           Input' = Input \/ Input' \notin CellsMade,
           Output' = Output \/ Output' \notin CellsMade,
           \A v \in 1 .. version' :
               v \in 1 .. version \/ \E n \in 1 .. Len(ops) : ops[n].kind = "write" /\ ops[n].data = v
    PROVE  InCallOrder'
<1> DEFINE Old(i) == i \in Positions(Internal) /\ issued'[Internal][i] = issued[Internal][i]
           New(i) == r = Internal /\ i - Len(issued[r]) \in 1 .. Len(ops)
                     /\ issued'[Internal][i] = ops[i - Len(issued[r])]
<1>1. issued \in [Streams -> Seq(Ops)] /\ version \in Nat BY DEF StreamsInv, Values
<1>2. Internal \in Streams BY StreamsAssumption
<1>3. \A i \in Positions(Internal)' : Old(i) \/ New(i) BY <1>1, <1>2, EnqueueExtends
<1>4. issued' \in [Streams -> Seq(Ops)] BY <1>1, EnqueueAppends
<1>5. \A i \in Positions(Internal)' : i \in Nat BY <1>2, <1>4 DEF Positions
<1>6. Len(issued[r]) \in Nat /\ Len(issued[Internal]) \in Nat BY <1>1, <1>2
<1>7. \A i \in Positions(Internal) : i \in Positions(Internal)' /\ Old(i)
  <2>1. Extends BY <1>1, EnqueueExtends
  <2>2. Len(issued'[Internal]) \in Nat BY <1>2, <1>4
  <2>3. QED BY <1>2, <1>6, <2>1, <2>2 DEF Extends, Positions
<1>8. r = Internal => \A k \in 1 .. Len(ops) :
         Len(issued[r]) + k \in Positions(Internal)' /\ New(Len(issued[r]) + k)
         /\ issued'[Internal][Len(issued[r]) + k] = ops[k]
  <2>1. /\ Len(issued'[r]) = Len(issued[r]) + Len(ops)
        /\ \A n \in 1 .. Len(ops) : issued'[r][Len(issued[r]) + n] = ops[n]
        BY <1>1, EnqueueAppends
  <2>2. Len(ops) \in Nat OBVIOUS
  <2>3. \A k \in 1 .. Len(ops) :
           Len(issued[r]) + k \in 1 .. Len(issued[r]) + Len(ops) /\ (Len(issued[r]) + k) - Len(issued[r]) = k
        BY <1>6, <2>2
  <2>4. QED BY <2>1, <2>3 DEF Positions
<1>9. \A i \in Positions(Internal) : Uses(issued[Internal][i]) \subseteq CellsMade
      BY <1>2, OldOperation DEF Grounded
<1> HIDE DEF Old, New
<1>10. ASSUME NEW c \in CellsMade'
       PROVE  \E n \in Positions(Internal)' : IsAt("alloc", Internal, n)' /\ issued'[Internal][n].writes = {c}
  <2>1. CASE c \in CellsMade
    <3>1. PICK n \in Positions(Internal) : IsAt("alloc", Internal, n) /\ issued[Internal][n].writes = {c}
          BY <2>1 DEF InCallOrder
    <3>2. QED BY <1>7, <3>1 DEF Old, IsAt
  <2>2. CASE c \notin CellsMade
    <3>1. PICK k \in 1 .. Len(ops) : ops[k].kind = "alloc" /\ ops[k].writes = {c} BY <2>2
    <3>2. r = Internal BY <2>2
    <3>3. PICK i \in Positions(Internal)' : issued'[Internal][i] = ops[k] BY <1>8, <3>2
    <3>4. QED BY <3>1, <3>3 DEF IsAt
  <2>3. QED BY <2>1, <2>2
<1>11. ASSUME NEW n \in Positions(Internal)', NEW m \in Positions(Internal)',
              IsAt("alloc", Internal, n)', IsAt("alloc", Internal, m)',
              Earlier(issued'[Internal][n].writes, issued'[Internal][m].writes)
       PROVE  n < m
  <2>1. CASE Old(n) /\ Old(m) BY <1>11, <2>1 DEF Old, InCallOrder, IsAt
  <2>2. CASE Old(n) /\ New(m) BY <1>5, <1>6, <2>2 DEF Old, New, Positions
  <2>3. CASE New(n) /\ Old(m)
    <3>1. PICK c \in Cells : issued'[Internal][n].writes = {c} /\ \A d \in CellsMade : d[1] = c[1] => d[2] < c[2]
          BY <1>11, <2>3 DEF New, IsAt
    <3>2. PICK d \in issued'[Internal][m].writes : c[1] = d[1] /\ c[2] < d[2] BY <1>11, <3>1 DEF Earlier
    <3>3. d \in CellsMade BY <1>9, <2>3, <3>2 DEF Old, Uses
    <3>4. d[2] < c[2] /\ d[2] \in Nat /\ c[2] \in Nat BY <3>1, <3>2, <3>3, CellsMadeTypes DEF Cells, Positive
    <3>5. QED BY <3>2, <3>4
  <2>4. CASE New(n) /\ New(m)
    <3>1. n - Len(issued[r]) = m - Len(issued[r]) BY <1>11, <2>4 DEF New, IsAt
    <3>2. n = m BY <1>5, <1>6, <3>1
    <3>3. PICK c \in Cells : issued'[Internal][n].writes = {c} BY <1>11, <2>4 DEF New, IsAt
    <3>4. QED BY <1>11, <3>2, <3>3 DEF Earlier, Cells, Positive
  <2>5. QED BY <1>3, <2>1, <2>2, <2>3, <2>4
<1>12. ASSUME NEW n \in Positions(Internal)', NEW m \in Positions(Internal)',
              IsAt("free", Internal, n)', IsAt("free", Internal, m)',
              issued'[Internal][n].writes = issued'[Internal][m].writes
       PROVE  n = m
  <2>1. CASE Old(n) /\ Old(m) BY <1>12, <2>1 DEF Old, InCallOrder, IsAt
  <2>2. CASE New(n) /\ New(m)
    <3>1. n - Len(issued[r]) = m - Len(issued[r]) BY <1>12, <2>2 DEF New, IsAt
    <3>2. QED BY <1>5, <1>6, <3>1
  <2>3. CASE Old(n) /\ New(m)
    <3>1. Input \notin issued'[Internal][n].writes /\ Output \notin issued'[Internal][n].writes
          BY <1>12, <2>3 DEF Old, InCallOrder, IsAt
    <3>2. Input \in issued'[Internal][m].writes \/ Output \in issued'[Internal][m].writes
          BY <1>12, <2>3 DEF New, IsAt
    <3>3. QED BY <1>12, <3>1, <3>2
  <2>4. CASE New(n) /\ Old(m)
    <3>1. Input \notin issued'[Internal][m].writes /\ Output \notin issued'[Internal][m].writes
          BY <1>12, <2>4 DEF Old, InCallOrder, IsAt
    <3>2. Input \in issued'[Internal][n].writes \/ Output \in issued'[Internal][n].writes
          BY <1>12, <2>4 DEF New, IsAt
    <3>3. QED BY <1>12, <3>1, <3>2
  <2>5. QED BY <1>3, <2>1, <2>2, <2>3, <2>4
<1>13. ASSUME NEW n \in Positions(Internal)', IsAt("free", Internal, n)'
       PROVE  Input' \notin issued'[Internal][n].writes /\ Output' \notin issued'[Internal][n].writes
  <2>1. CASE Old(n)
    <3>1. Input \notin issued[Internal][n].writes /\ Output \notin issued[Internal][n].writes
          BY <1>13, <2>1 DEF Old, InCallOrder, IsAt
    <3>2. issued[Internal][n].writes \subseteq CellsMade BY <1>9, <2>1 DEF Old, Uses
    <3>3. QED BY <2>1, <3>1, <3>2 DEF Old
  <2>2. CASE New(n) BY <1>13, <2>2 DEF New, IsAt
  <2>3. QED BY <1>3, <2>1, <2>2
<1>14. ASSUME NEW v \in 1 .. version'
       PROVE  \E n \in Positions(Internal)' : IsAt("write", Internal, n)' /\ issued'[Internal][n].data = v
  <2>1. CASE v \in 1 .. version
    <3>1. PICK n \in Positions(Internal) : IsAt("write", Internal, n) /\ issued[Internal][n].data = v
          BY <2>1 DEF InCallOrder
    <3>2. QED BY <1>7, <3>1 DEF Old, IsAt
  <2>2. CASE v \notin 1 .. version
    <3>1. PICK k \in 1 .. Len(ops) : ops[k].kind = "write" /\ ops[k].data = v BY <2>2
    <3>2. r = Internal BY <2>2
    <3>3. QED BY <1>8, <3>1, <3>2 DEF IsAt
  <2>3. QED BY <2>1, <2>2
<1>15. QED BY <1>10, <1>11, <1>12, <1>13, <1>14 DEF InCallOrder, Earlier

LEMMA AppendReadsWritten ==
    ASSUME StreamsInv, ReadsWritten, NEW r \in Streams, NEW ops \in Seq(Ops), Enqueue(r, ops),
           \A n \in 1 .. Len(ops) : ops[n].kind = "read" =>
               \E z \in Streams : \E m \in Positions(z) :
                   IsAt("infer", z, m) /\ issued[z][m].run = ops[n].run /\ issued[z][m].writes = ops[n].reads
    PROVE  ReadsWritten'
<1> DEFINE Found(p) == \E z \in Streams : \E m \in Positions(z) :
                           IsAt("infer", z, m) /\ issued[z][m].run = p.run /\ issued[z][m].writes = p.reads
<1> SUFFICES ASSUME NEW s \in Streams, NEW n \in Positions(s)', IsAt("read", s, n)'
             PROVE  \E z \in Streams : \E m \in Positions(z)' :
                        /\ IsAt("infer", z, m)' /\ issued'[z][m].run = issued'[s][n].run
                        /\ issued'[z][m].writes = issued'[s][n].reads
    BY DEF ReadsWritten
<1>1. issued \in [Streams -> Seq(Ops)] BY DEF StreamsInv, Values
<1>2. issued' \in [Streams -> Seq(Ops)] /\ Extends BY <1>1, EnqueueAppends, EnqueueExtends
<1>3. Found(issued'[s][n])
  <2>1. CASE n \in Positions(s) /\ issued'[s][n] = issued[s][n] BY <2>1 DEF ReadsWritten, IsAt
  <2>2. CASE s = r /\ n - Len(issued[r]) \in 1 .. Len(ops) /\ issued'[r][n] = ops[n - Len(issued[r])]
        BY <2>2 DEF IsAt
  <2>3. QED BY <1>1, <2>1, <2>2, EnqueueExtends
<1>4. \A z \in Streams : \A m \in Positions(z) : m \in Positions(z)' /\ issued'[z][m] = issued[z][m]
  <2>1. \A z \in Streams : Len(issued[z]) \in Nat /\ Len(issued'[z]) \in Nat BY <1>1, <1>2
  <2>2. QED BY <1>2, <2>1 DEF Extends, Positions
<1>5. QED BY <1>3, <1>4 DEF IsAt

LEMMA AppendOutputMade ==
    ASSUME StreamsInv, OutputMade, NEW r \in Streams, NEW ops \in Seq(Ops), Enqueue(r, ops), done' = done,
           \A k \in 1 .. Len(ops) : ops[k].kind = "alloc" =>
               \A s \in Streams : \A m \in Positions(s) : ops[k].writes \cap issued[s][m].writes = {},
           \A k \in 1 .. Len(ops) : ops[k].kind = "infer" =>
               /\ \A j \in 1 .. Len(ops) : ops[j].kind # "alloc"
               /\ r # Internal =>
                     \A n \in Positions(Internal) :
                         IsAt("alloc", Internal, n) /\ issued[Internal][n].writes \cap ops[k].writes # {} =>
                             n <= done[Internal] \/ \E e \in ops[k].after : e[1] = Internal /\ n <= e[2]
    PROVE  OutputMade'
<1> SUFFICES ASSUME NEW s \in Streams, NEW m \in Positions(s)', IsAt("infer", s, m)',
                    NEW n \in Positions(Internal)', IsAt("alloc", Internal, n)',
                    issued'[Internal][n].writes \cap issued'[s][m].writes # {}
             PROVE  MadeBefore(n, s, m)'
    BY DEF OutputMade
<1>1. issued \in [Streams -> Seq(Ops)] /\ Internal \in Streams BY StreamsAssumption DEF StreamsInv, Values
<1> DEFINE Old(y, i) == i \in Positions(y) /\ issued'[y][i] = issued[y][i]
           New(y, i) == y = r /\ i - Len(issued[r]) \in 1 .. Len(ops) /\ issued'[r][i] = ops[i - Len(issued[r])]
<1>2. (Old(s, m) \/ New(s, m)) /\ (Old(Internal, n) \/ New(Internal, n)) BY <1>1, EnqueueExtends
<1>3. CASE Old(s, m) /\ Old(Internal, n)
  <2>1. MadeBefore(n, s, m) BY <1>3 DEF OutputMade, IsAt
  <2>2. QED BY <1>3, <2>1 DEF MadeBefore
<1>4. CASE Old(s, m) /\ New(Internal, n) BY <1>4 DEF IsAt
<1>5. CASE New(s, m) /\ New(Internal, n) BY <1>5 DEF IsAt
<1>6. CASE New(s, m) /\ Old(Internal, n)
  <2>1. CASE r = Internal
    <3>1. Len(issued[r]) \in Nat BY <1>1
    <3>2. m > Len(issued[r]) /\ n <= Len(issued[r]) /\ n \in Nat /\ m \in Int BY <1>6, <2>1, <3>1 DEF Positions
    <3>3. QED BY <1>6, <2>1, <3>1, <3>2 DEF MadeBefore
  <2>2. CASE r # Internal
    <3>1. PICK k \in 1 .. Len(ops) : k = m - Len(issued[r]) /\ issued'[s][m] = ops[k] BY <1>6
    <3>2. n <= done[Internal] \/ \E e \in ops[k].after : e[1] = Internal /\ n <= e[2]
          BY <1>6, <2>2, <3>1 DEF IsAt
    <3>3. QED BY <3>1, <3>2 DEF MadeBefore
  <2>3. QED BY <2>1, <2>2
<1>7. QED BY <1>2, <1>3, <1>4, <1>5, <1>6

-----------------------------------------------------------------------------
(* The calls of a careful client.                                           *)

\* The kinds of operations on the streams beside stream_, and what the client knows.
LEMMA OutsideInternal ==
    ASSUME StreamsInv, CallsInv, NEW s \in Streams \ {Internal}, NEW n \in Positions(s)
    PROVE  /\ issued[s][n].kind \in {"infer", "read"}
           /\ \A kinds : ~Unknown(s, kinds) /\ issued[s][n].kind \in kinds => n <= done[s]
<1>1. known[s] \in Nat /\ done[s] \in Nat /\ known[s] <= done[s] /\ Len(issued[s]) \in Nat
      BY DEF StreamsInv, Values, Progress
<1>2. issued[s][n].kind \in {"infer", "read"} BY DEF CallsInv, OnStreams
<1>3. ASSUME NEW kinds, ~Unknown(s, kinds), issued[s][n].kind \in kinds PROVE n <= done[s]
  <2>1. n \notin known[s] + 1 .. Len(issued[s]) BY <1>3 DEF Unknown
  <2>2. QED BY <1>1, <2>1 DEF Positions
<1>4. QED BY <1>2, <1>3

\* New allocations are of none of the old operations.
LEMMA NewCell ==
    ASSUME StreamsInv, NEW c \in {In(cells.input + 1), Out(cells.output + 1)}
    PROVE  /\ c \notin CellsMade /\ c \in Cells /\ \A d \in CellsMade : d[1] = c[1] => d[2] < c[2]
           /\ c # Input /\ c # Output
           /\ \A s \in Streams : \A n \in Positions(s) : c \notin Uses(issued[s][n])
<1>1. cells.input \in Nat /\ cells.output \in Nat BY DEF StreamsInv, Values, Positive
<1>2. c \in Cells BY <1>1 DEF In, Out, Cells, Positive
<1>3. ASSUME NEW d \in CellsMade, d[1] = c[1] PROVE d[2] < c[2]
  <2>1. /\ d[2] \in Nat /\ (d[1] = "input" => d[2] <= cells.input) /\ (d[1] = "output" => d[2] <= cells.output)
        BY CellsMadeTypes
  <2>2. (c[1] = "input" /\ c[2] = cells.input + 1) \/ (c[1] = "output" /\ c[2] = cells.output + 1)
        BY DEF In, Out
  <2>3. QED BY <1>1, <1>3, <2>1, <2>2
<1>4. c \notin CellsMade
  <2>1. c[2] \in Nat BY <1>2 DEF Cells, Positive
  <2>2. QED BY <1>3, <2>1
<1>5. c # Input /\ c # Output
  <2>1. Input \in CellsMade /\ Output \in CellsMade
    <3>1. cells.input \in 1 .. cells.input /\ cells.output \in 1 .. cells.output
          BY DEF StreamsInv, Values, Positive
    <3>2. QED BY <3>1 DEF CellsMade, Input, Output
  <2>2. QED BY <1>4, <2>1
<1>6. \A s \in Streams : \A n \in Positions(s) : c \notin Uses(issued[s][n])
      BY <1>4 DEF StreamsInv, AllGrounded, Grounded
<1>7. QED BY <1>2, <1>3, <1>4, <1>5, <1>6

LEMMA GrownCells ==
    ASSUME StreamsInv
    PROVE  /\ cells' = [cells EXCEPT !.input = @ + 1] =>
                 /\ CellsMade' \subseteq CellsMade \cup {In(cells.input + 1)}
                 /\ Input' = In(cells.input + 1) /\ Output' = Output
           /\ cells' = [cells EXCEPT !.output = @ + 1] =>
                 /\ CellsMade' \subseteq CellsMade \cup {Out(cells.output + 1)}
                 /\ Output' = Out(cells.output + 1) /\ Input' = Input
           /\ cells' = cells => CellsMade' = CellsMade /\ Input' = Input /\ Output' = Output
<1>1. cells.input \in Nat /\ cells.output \in Nat /\ cells \in [input : Positive, output : Positive]
      BY DEF StreamsInv, Values, Positive
<1>2. ASSUME cells' = [cells EXCEPT !.input = @ + 1]
      PROVE  /\ CellsMade' \subseteq CellsMade \cup {In(cells.input + 1)}
             /\ Input' = In(cells.input + 1) /\ Output' = Output
  <2>1. cells'.input = cells.input + 1 /\ cells'.output = cells.output BY <1>1, <1>2
  <2>2. \A n \in 1 .. cells'.input : n \in 1 .. cells.input \/ n = cells.input + 1 BY <1>1, <2>1
  <2>3. QED BY <2>1, <2>2 DEF CellsMade, Input, Output
<1>3. ASSUME cells' = [cells EXCEPT !.output = @ + 1]
      PROVE  /\ CellsMade' \subseteq CellsMade \cup {Out(cells.output + 1)}
             /\ Output' = Out(cells.output + 1) /\ Input' = Input
  <2>1. cells'.output = cells.output + 1 /\ cells'.input = cells.input BY <1>1, <1>3
  <2>2. \A n \in 1 .. cells'.output : n \in 1 .. cells.output \/ n = cells.output + 1 BY <1>1, <2>1
  <2>3. QED BY <2>1, <2>2 DEF CellsMade, Input, Output
<1>4. cells' = cells => CellsMade' = CellsMade /\ Input' = Input /\ Output' = Output
      BY DEF CellsMade, Input, Output
<1>5. QED BY <1>2, <1>3, <1>4

LEMMA CurrentCells ==
    ASSUME StreamsInv
    PROVE  /\ Input \in CellsMade /\ Output \in CellsMade /\ Input \in Cells /\ Output \in Cells
           /\ Input[1] = "input" /\ Output[1] = "output" /\ Input # Output
           /\ Input[2] = cells.input /\ Output[2] = cells.output
           /\ cells.input \in Positive /\ cells.output \in Positive
<1>1. cells.input \in Positive /\ cells.output \in Positive BY DEF StreamsInv, Values
<1>2. cells.input \in 1 .. cells.input /\ cells.output \in 1 .. cells.output BY <1>1 DEF Positive
<1>3. QED BY <1>1, <1>2 DEF CellsMade, Input, Output, In, Out, Cells

LEMMA InferOrdered ==
    ASSUME StreamsInv, Ordered, CallsInv, Careful, NEW recorded \in BOOLEAN, InferAsync(recorded)
    PROVE  Ordered' /\ CallsInv'
<1>1. /\ InferOps \in Seq(Ops) /\ Enqueue(stream, InferOps)
      /\ runs' = runs + 1 /\ MayInfer
      /\ output_ready' = IF recorded THEN <<stream, Len(issued'[stream])>> ELSE output_ready
      /\ Returns("output", recorded, <<stream, Len(issued'[stream])>>)
      /\ UNCHANGED <<device_vars, host, known, stream, version, reads, cells, input_ready>>
      BY InferForm
<1>2. UNCHANGED <<done, known>> BY <1>1 DEF device_vars
<1>3. stream \in Streams /\ Internal \in Streams /\ runs \in Nat /\ version \in Nat
      /\ issued \in [Streams -> Seq(Ops)] /\ done \in [Streams -> Nat] /\ known \in [Streams -> Nat]
      BY StreamsAssumption DEF StreamsInv, Values
<1>4. AllShaped /\ OnStreams /\ InCallOrder /\ EventsKept /\ OutputMade /\ ReadsWritten BY DEF CallsInv
<1>5. PICK ops : ops = InferOps OBVIOUS
<1>6. PICK p : p = ops[1] OBVIOUS
<1>7. /\ ops \in Seq(Ops) /\ Len(ops) = 1 /\ p \in Ops /\ \A n \in 1 .. Len(ops) : n = 1 /\ ops[n] = p
      /\ p.kind = "infer" /\ p.reads = {Input} /\ p.writes = {Output} /\ p.data = version /\ p.run = runs + 1
      /\ p.after = WaitEvent(input_ready)
  <2>1. ops \in Seq(Ops) BY <1>1, <1>5
  <2>2. ops = <<Op("infer", {Input}, {Output}, version, runs + 1, WaitEvent(input_ready))>> BY <1>5 DEF InferOps
  <2>3. p = Op("infer", {Input}, {Output}, version, runs + 1, WaitEvent(input_ready)) BY <1>6, <2>2
  <2>4. Len(ops) = 1 BY <2>2
  <2>5. \A n \in 1 .. Len(ops) : n = 1 BY <2>4
  <2>6. 1 \in 1 .. Len(ops) BY <2>4
  <2>7. p \in Ops BY <1>6, <2>1, <2>6
  <2>8. /\ p.kind = "infer" /\ p.reads = {Input} /\ p.writes = {Output} /\ p.data = version /\ p.run = runs + 1
        /\ p.after = WaitEvent(input_ready)
        BY <2>3 DEF Op
  <2>9. QED BY <1>6, <2>1, <2>4, <2>5, <2>7, <2>8
<1>8. Enqueue(stream, ops) BY <1>1, <1>5
<1>9. \A s \in Streams : \A n \in Positions(s) : n \in Nat /\ n <= Len(issued[s]) /\ n >= 1 BY <1>3 DEF Positions
<1>10. CellsMade' = CellsMade /\ Input' = Input /\ Output' = Output BY <1>1, GrownCells
\* What the inference must follow on other streams.
<1>11. ASSUME NEW s \in Streams \ {stream}, NEW n \in Positions(s), Precedes(issued[s][n], p)
       PROVE  n <= done[s] \/ (s = Internal /\ stream # Internal /\ input_ready # None /\ n <= input_ready[2])
  <2> DEFINE q == issued[s][n]
  <2>1. q \in Ops /\ Shaped(q) BY <1>4, OldOperation
  <2>2. known[s] \in Nat /\ done[s] \in Nat /\ known[s] <= done[s] /\ Len(issued[s]) \in Nat
        BY <1>3 DEF StreamsInv, Progress
  <2>3. ~Unknown(s, {"read"}) BY <1>1, <1>3 DEF MayInfer
  <2>4. q.kind \in {"write", "infer", "read", "alloc"} BY <1>7, <1>11 DEF Precedes
  <2>5. CASE q.kind = "infer"
    <3>1. n <= known[s] BY <1>4, <2>5 DEF OnStreams, IsAt
    <3>2. QED BY <1>9, <2>2, <3>1
  <2>6. CASE q.kind = "read"
    <3>1. n \notin known[s] + 1 .. Len(issued[s]) BY <2>3, <2>6 DEF Unknown
    <3>2. QED BY <1>9, <2>2, <3>1
  <2>7. CASE q.kind \in {"write", "alloc"}
    <3>1. s = Internal /\ stream # Internal BY <1>4, <2>7 DEF OnStreams
    <3>2. input_ready # None /\ \A k \in input_ready[2] + 1 .. Len(issued[Internal]) :
             k <= known[Internal] \/ \A c \in issued[Internal][k].writes : c[1] = "output" /\ c # Output
          BY <1>1, <1>4, <3>1 DEF MayInfer, EventsKept
    <3>3. input_ready[2] \in Nat BY <3>2 DEF StreamsInv, Progress, Enqueued
    <3>4. SUFFICES ASSUME n > input_ready[2] PROVE n <= done[s]
          BY <1>9, <3>1, <3>2, <3>3
    <3>5. n \in input_ready[2] + 1 .. Len(issued[Internal]) BY <1>9, <3>1, <3>3, <3>4
    <3>6. CASE n <= known[s] BY <1>9, <2>2, <3>6
    <3>7. CASE \A c \in q.writes : c[1] = "output" /\ c # Output
      <4>1. q.kind # "write"
        <5>1. SUFFICES ASSUME q.kind = "write" PROVE FALSE
              OBVIOUS
        <5>2. PICK i \in Positive : q.writes = {In(i)} BY <2>1, <5>1 DEF Shaped
        <5>3. QED BY <3>7, <5>2 DEF In
      <4>2. q.writes \cap {Input, Output} # {} BY <1>7, <1>11, <2>7, <4>1 DEF Precedes, Uses
      <4>3. Input \notin q.writes /\ Output \notin q.writes BY <3>7, CurrentCells
      <4>4. QED BY <4>2, <4>3
    <3>8. QED BY <3>1, <3>2, <3>5, <3>6, <3>7
  <2>8. QED BY <2>4, <2>5, <2>6, <2>7
<1>12. \A s \in Streams : \A n \in Positions(s) : ~Precedes(p, issued[s][n])
  <2> SUFFICES ASSUME NEW s \in Streams, NEW n \in Positions(s), Precedes(p, issued[s][n]) PROVE FALSE
      OBVIOUS
  <2> DEFINE q == issued[s][n]
  <2>1. q \in Ops /\ Shaped(q) /\ q.run <= runs /\ q.run \in Nat BY <1>4, OldOperation DEF Ops
  <2>2. \/ q.kind = "write" /\ p.data < q.data
        \/ q.kind = "infer" /\ p.run < q.run
        \/ q.kind = "read" /\ p.run <= q.run
        \/ q.kind = "free" /\ Uses(p) \cap q.writes # {}
        BY <1>7 DEF Precedes
  <2>3. CASE q.kind = "write" /\ p.data < q.data BY <1>3, <1>7, <2>1, <2>3 DEF Shaped
  <2>4. CASE q.kind \in {"infer", "read"} /\ p.run <= q.run BY <1>3, <1>7, <2>1, <2>4
  <2>5. CASE q.kind = "free" /\ Uses(p) \cap q.writes # {}
    <3>1. s = Internal BY <1>4, <2>5 DEF OnStreams
    <3>2. Input \notin q.writes /\ Output \notin q.writes BY <1>4, <2>5, <3>1 DEF InCallOrder, IsAt
    <3>3. QED BY <1>7, <2>5, <3>2 DEF Uses
  <2>6. p.run \in Nat BY <1>7 DEF Ops
  <2>7. QED BY <2>1, <2>2, <2>3, <2>4, <2>5, <2>6
<1>13. ~Precedes(p, p) BY <1>3, <1>7 DEF Precedes
<1>14. input_ready # None => Enqueued(input_ready) /\ input_ready[1] = Internal /\ input_ready \in p.after
       BY <1>4, <1>7 DEF StreamsInv, Progress, EventsKept, WaitEvent
<1>15. Ordered'
  <2>1. \A s \in Streams \ {stream} : \A n \in Positions(s), m \in 1 .. Len(ops) :
           Precedes(issued[s][n], ops[m]) =>
               n <= done[s] \/ \E e \in ops[m].after : Enqueued(e) /\ Covers(e, s, n)
        BY <1>7, <1>11, <1>14 DEF Covers
  <2>2. \A s \in Streams : \A n \in Positions(s), m \in 1 .. Len(ops) : ~Precedes(ops[m], issued[s][n])
        BY <1>7, <1>12
  <2>3. \A m, k \in 1 .. Len(ops) : Precedes(ops[m], ops[k]) => m < k BY <1>7, <1>13
  <2>4. QED BY <1>2, <1>3, <1>7, <1>8, <2>1, <2>2, <2>3, AppendOrdered
<1>16. AllShaped'
  <2>1. \E i \in Positive : p.reads = {In(i)} BY <1>7, CurrentCells DEF Input
  <2>2. \E i \in Positive : p.writes = {Out(i)} BY <1>7, CurrentCells DEF Output
  <2>3. p.data <= version' /\ p.run \in 1 .. runs' BY <1>1, <1>3, <1>7
  <2>4. Shaped(p)' BY <1>7, <2>1, <2>2, <2>3 DEF Shaped
  <2>5. \A n \in 1 .. Len(ops) : Shaped(ops[n])' BY <1>7, <2>4 DEF Shaped
  <2>6. version' \in Nat /\ runs' \in Nat /\ version <= version' /\ runs <= runs' BY <1>1, <1>3
  <2>7. QED BY <1>3, <1>4, <1>7, <1>8, <2>5, <2>6, AppendShaped
<1>17. OnStreams'
  <2>1. \A n \in 1 .. Len(ops) : ops[n].kind \in {"infer", "read"} BY <1>7
  <2>2. ops[1].run = runs + 1 BY <1>6, <1>7
  <2>3. QED BY <1>1, <1>2, <1>3, <1>4, <1>7, <1>8, <2>1, <2>2, AppendOnStreams
<1>18. InCallOrder'
  <2>1. \A n \in 1 .. Len(ops) : ops[n].kind = "infer" BY <1>7
  <2>2. QED BY <1>1, <1>3, <1>4, <1>7, <1>8, <1>10, <2>1, AppendInCallOrder
<1>19. ReadsWritten'
  <2>1. \A n \in 1 .. Len(ops) : ops[n].kind = "infer" BY <1>7
  <2>2. QED BY <1>3, <1>4, <1>7, <1>8, <2>1, AppendReadsWritten
<1>20. EventsKept'
  <2>1. returned' = [input |-> input_ready', output |-> output_ready'] BY <1>1, <1>4 DEF EventsKept, Returns
  <2>2. runs' > 0 BY <1>1, <1>3
  <2>3. QED BY <1>1, <1>4, <2>1, <2>2 DEF EventsKept
<1>21. OutputMade'
  <2>1. \A k \in 1 .. Len(ops) : ops[k].kind # "alloc" BY <1>7
  <2>2. ASSUME stream # Internal, NEW n \in Positions(Internal), IsAt("alloc", Internal, n),
               issued[Internal][n].writes \cap p.writes # {}
        PROVE  n <= done[Internal] \/ \E e \in p.after : e[1] = Internal /\ n <= e[2]
    <3>1. Precedes(issued[Internal][n], p) BY <1>7, <2>2 DEF Precedes, Uses, IsAt
    <3>2. n <= done[Internal] \/ (input_ready # None /\ n <= input_ready[2]) BY <1>3, <1>11, <2>2, <3>1
    <3>3. QED BY <1>14, <3>2
  <2>3. \A k \in 1 .. Len(ops) : ops[k] = p BY <1>7
  <2>4. QED BY <1>2, <1>3, <1>4, <1>7, <1>8, <2>1, <2>2, <2>3, AppendOutputMade
<1>22. QED BY <1>15, <1>16, <1>17, <1>18, <1>19, <1>20, <1>21 DEF CallsInv

\* What SetInputData and the reallocation of the output enqueue, operation by operation.
Freeing(p, c) == p.kind = "free" /\ p.reads = {} /\ p.writes = {c} /\ p.data = 0 /\ p.run = 0
Making(p, c) == p.kind = "alloc" /\ p.reads = {} /\ p.writes = {c} /\ p.data = 0 /\ p.run = 0
Writing(p, c) == p.kind = "write" /\ p.reads = {} /\ p.writes = {c} /\ p.data = version + 1 /\ p.run = 0

LEMMA SetInputParts ==
    ASSUME NEW grows \in BOOLEAN, NEW ops, ops = SetInputOps(grows),
           NEW c, c = IF grows THEN In(cells.input + 1) ELSE Input
    PROVE  /\ Len(ops) \in 1 .. 3 /\ Writing(ops[Len(ops)], c)
           /\ grows => Len(ops) = 3 /\ Freeing(ops[1], Input) /\ Making(ops[2], c)
           /\ \A n \in 1 .. Len(ops) :
                 \/ n = Len(ops) /\ Writing(ops[n], c)
                 \/ grows /\ Len(ops) = 3 /\ n = 1 /\ Freeing(ops[n], Input)
                 \/ grows /\ Len(ops) = 3 /\ n = 2 /\ Making(ops[n], c)
<1>1. Freeing(Freed(Input), Input) /\ Making(Made(c), c) /\ Writing(InputWritten(c), c)
      BY DEF Freeing, Making, Writing, Freed, Made, InputWritten, Op
<1>2. CASE grows
  <2>1. ops = <<Freed(Input), Made(c), InputWritten(c)>> BY <1>2 DEF SetInputOps
  <2>2. Len(ops) = 3 /\ ops[1] = Freed(Input) /\ ops[2] = Made(c) /\ ops[3] = InputWritten(c) BY <2>1
  <2>3. \A n \in 1 .. Len(ops) : n = 1 \/ n = 2 \/ n = 3 BY <2>2
  <2>4. Len(ops) \in 1 .. 3 BY <2>2
  <2>5. Freeing(ops[1], Input) /\ Making(ops[2], c) /\ Writing(ops[3], c) BY <1>1, <2>2
  <2>6. ASSUME NEW n \in 1 .. Len(ops)
        PROVE  \/ n = Len(ops) /\ Writing(ops[n], c)
               \/ grows /\ Len(ops) = 3 /\ n = 1 /\ Freeing(ops[n], Input)
               \/ grows /\ Len(ops) = 3 /\ n = 2 /\ Making(ops[n], c)
    <3>1. CASE n = 1 BY <1>2, <2>2, <2>5, <3>1
    <3>2. CASE n = 2 BY <1>2, <2>2, <2>5, <3>2
    <3>3. CASE n = 3 BY <2>2, <2>5, <3>3
    <3>4. QED BY <2>3, <3>1, <3>2, <3>3
  <2>7. QED BY <2>2, <2>4, <2>5, <2>6
<1>3. CASE ~grows
  <2>1. ops = <<InputWritten(c)>> BY <1>3 DEF SetInputOps
  <2>2. Len(ops) = 1 /\ ops[1] = InputWritten(c) BY <2>1
  <2>3. \A n \in 1 .. Len(ops) : n = 1 BY <2>2
  <2>4. QED BY <1>1, <1>3, <2>2, <2>3
<1>4. QED BY <1>2, <1>3

LEMMA GrowParts ==
    ASSUME NEW ops, ops = GrowOps
    PROVE  /\ Len(ops) = 2 /\ Freeing(ops[1], Output) /\ Making(ops[2], Out(cells.output + 1))
           /\ \A n \in 1 .. Len(ops) : n = 1 \/ n = 2
<1>1. Freeing(Freed(Output), Output) /\ Making(Made(Out(cells.output + 1)), Out(cells.output + 1))
      BY DEF Freeing, Making, Freed, Made, Op
<1>2. ops = <<Freed(Output), Made(Out(cells.output + 1))>> BY DEF GrowOps
<1>3. Len(ops) = 2 /\ ops[1] = Freed(Output) /\ ops[2] = Made(Out(cells.output + 1)) BY <1>2
<1>4. \A n \in 1 .. Len(ops) : n = 1 \/ n = 2 BY <1>3
<1>5. QED BY <1>1, <1>3, <1>4

LEMMA SetInputOrdered ==
    ASSUME StreamsInv, Ordered, CallsInv, Careful, NEW grows \in BOOLEAN,
           NEW recorded \in BOOLEAN, SetInputData(grows, recorded)
    PROVE  Ordered' /\ CallsInv'
<1>1. /\ SetInputOps(grows) \in Seq(Ops) /\ Enqueue(Internal, SetInputOps(grows))
      /\ version' = version + 1 /\ cells' = IF grows THEN [cells EXCEPT !.input = @ + 1] ELSE cells
      /\ input_ready' = IF recorded THEN <<Internal, Len(issued'[Internal])>> ELSE input_ready
      /\ Returns("input", recorded, <<Internal, Len(issued'[Internal])>>)
      /\ MayOverwrite
      /\ UNCHANGED <<device_vars, host, known, stream, runs, reads, output_ready>>
      BY SetInputForm
<1>2. UNCHANGED <<done, known>> BY <1>1 DEF device_vars
<1>3. Internal \in Streams /\ runs \in Nat /\ version \in Nat /\ issued \in [Streams -> Seq(Ops)]
      BY StreamsAssumption DEF StreamsInv, Values
<1>4. AllShaped /\ OnStreams /\ InCallOrder /\ EventsKept /\ OutputMade /\ ReadsWritten BY DEF CallsInv
<1>5. PICK ops : ops = SetInputOps(grows) OBVIOUS
<1>6. PICK c : c = IF grows THEN In(cells.input + 1) ELSE Input OBVIOUS
<1>7. ops \in Seq(Ops) /\ Enqueue(Internal, ops) BY <1>1, <1>5
<1>8. /\ Len(ops) \in 1 .. 3 /\ Writing(ops[Len(ops)], c)
      /\ grows => Len(ops) = 3 /\ Freeing(ops[1], Input) /\ Making(ops[2], c)
      /\ \A n \in 1 .. Len(ops) :
            \/ n = Len(ops) /\ Writing(ops[n], c)
            \/ grows /\ Len(ops) = 3 /\ n = 1 /\ Freeing(ops[n], Input)
            \/ grows /\ Len(ops) = 3 /\ n = 2 /\ Making(ops[n], c)
      BY <1>5, <1>6, SetInputParts
<1>9. /\ Input' = c /\ Output' = Output /\ c \in Cells /\ c[1] = "input" /\ c # Output
      /\ CellsMade' \subseteq CellsMade \cup {c}
      /\ grows => c \notin CellsMade /\ c # Input /\ \A d \in CellsMade : d[1] = c[1] => d[2] < c[2]
      /\ ~grows => CellsMade' = CellsMade /\ c = Input
  <2>1. CASE grows BY <1>1, <1>6, <2>1, GrownCells, NewCell DEF In
  <2>2. CASE ~grows BY <1>1, <1>6, <2>2, GrownCells, CurrentCells
  <2>3. QED BY <2>1, <2>2
<1>10. \E i \in Positive : c = In(i) BY <1>9 DEF Cells, In
<1>11. \A s \in Streams : \A n \in Positions(s) :
          /\ grows => c \notin Uses(issued[s][n])
          /\ issued[s][n].kind = "free" => c \notin issued[s][n].writes
  <2> SUFFICES ASSUME NEW s \in Streams, NEW n \in Positions(s)
               PROVE  /\ grows => c \notin Uses(issued[s][n])
                      /\ issued[s][n].kind = "free" => c \notin issued[s][n].writes
      OBVIOUS
  <2>1. grows => c \notin Uses(issued[s][n]) BY <1>6, NewCell
  <2>2. CASE grows BY <2>1, <2>2 DEF Uses
  <2>3. CASE ~grows
    <3>1. issued[s][n].kind = "free" => s = Internal BY <1>4 DEF OnStreams
    <3>2. QED BY <1>4, <1>9, <2>3, <3>1 DEF InCallOrder, IsAt
  <2>4. QED BY <2>1, <2>2, <2>3
<1>12. \A n \in 1 .. Len(ops) : ops[n].kind \in {"alloc", "free", "write"}
       BY <1>8 DEF Writing, Freeing, Making
\* The client has waited for the inferences on other streams; reads are of the output.
<1>13. ASSUME NEW s \in Streams \ {Internal}, NEW n \in Positions(s), NEW m \in 1 .. Len(ops),
              Precedes(issued[s][n], ops[m])
       PROVE  n <= done[s]
  <2> DEFINE q == issued[s][n]
  <2>1. q.kind \in {"infer", "read"} BY OutsideInternal
  <2>2. CASE q.kind = "infer" BY <1>1, <2>2, OutsideInternal DEF MayOverwrite
  <2>3. CASE q.kind = "read"
    <3>1. Shaped(q) BY <1>4, OldOperation
    <3>2. PICK i \in Positive : q.reads = {Out(i)} /\ q.writes = {} BY <2>3, <3>1 DEF Shaped
    <3>3. \A d \in ops[m].writes : d[1] = "input"
          BY <1>8, <1>9, CurrentCells DEF Writing, Freeing, Making
    <3>4. /\ ops[m].kind = "alloc" => Earlier(q.reads, ops[m].writes)
          /\ ops[m].kind = "free" => Uses(q) \cap ops[m].writes # {}
          BY <1>12, <1>13, <2>3 DEF Precedes
    <3>5. ops[m].kind = "write" => FALSE BY <1>13, <2>3 DEF Precedes
    <3>6. QED BY <1>12, <3>2, <3>3, <3>4, <3>5 DEF Earlier, Uses, Out
  <2>4. QED BY <2>1, <2>2, <2>3
<1>14. ASSUME NEW s \in Streams, NEW n \in Positions(s), NEW m \in 1 .. Len(ops) PROVE ~Precedes(ops[m], issued[s][n])
  <2> DEFINE q == issued[s][n]
  <2>1. q \in Ops /\ Shaped(q) BY <1>4, OldOperation
  <2>2. q.data \in Nat /\ (q.kind \in {"infer", "write"} => q.data <= version) BY <1>3, <2>1 DEF Shaped, Ops
  <2>3. CASE Writing(ops[m], c)
    <3>1. Uses(ops[m]) = {c} BY <2>3 DEF Writing, Uses
    <3>2. q.kind = "free" => Uses(ops[m]) \cap q.writes = {} BY <1>11, <3>1
    <3>3. q.kind \in {"infer", "write"} => ~(ops[m].data <= q.data) /\ ~(ops[m].data < q.data)
          BY <1>3, <2>2, <2>3 DEF Writing
    <3>4. ops[m].kind = "write" BY <2>3 DEF Writing
    <3>5. QED BY <3>2, <3>3, <3>4 DEF Precedes
  <2>4. CASE Freeing(ops[m], Input) BY <2>4 DEF Freeing, Precedes
  <2>5. CASE grows /\ Making(ops[m], c)
    <3>1. ops[m].writes \cap Uses(q) = {} BY <1>11, <2>5 DEF Making
    <3>2. QED BY <2>5, <3>1 DEF Making, Precedes
  <2>6. QED BY <1>8, <2>3, <2>4, <2>5
<1>15. ASSUME NEW m \in 1 .. Len(ops), NEW k \in 1 .. Len(ops), Precedes(ops[m], ops[k]) PROVE m < k
  <2>1. CASE m = Len(ops) /\ Writing(ops[m], c)
    <3>1. ~Writing(ops[k], c) BY <1>3, <1>15, <2>1 DEF Precedes, Writing
    <3>2. ~Making(ops[k], c) BY <1>15, <2>1 DEF Precedes, Writing, Making
    <3>3. grows /\ Freeing(ops[k], Input) BY <1>8, <3>1, <3>2
    <3>4. Uses(ops[m]) = {c} BY <2>1 DEF Writing, Uses
    <3>5. QED BY <1>9, <1>15, <2>1, <3>3, <3>4 DEF Precedes, Writing, Freeing
  <2>2. CASE Freeing(ops[m], Input) BY <1>15, <2>2 DEF Precedes, Freeing
  <2>3. CASE grows /\ Len(ops) = 3 /\ m = 2 /\ Making(ops[m], c)
    <3>1. ~Making(ops[k], c) BY <1>15, <2>3 DEF Precedes, Making
    <3>2. CASE Freeing(ops[k], Input)
      <4>1. Uses(ops[k]) = {Input} BY <3>2 DEF Freeing, Uses
      <4>2. QED BY <1>9, <1>15, <2>3, <3>2, <4>1 DEF Precedes, Making, Freeing
    <3>3. CASE k = Len(ops) BY <2>3, <3>3
    <3>4. QED BY <1>8, <3>1, <3>2, <3>3
  <2>4. QED BY <1>8, <2>1, <2>2, <2>3
<1>16. Ordered' BY <1>2, <1>3, <1>7, <1>13, <1>14, <1>15, AppendOrdered
<1>17. AllShaped'
  <2>1. version' \in Nat /\ runs' \in Nat /\ version <= version' /\ runs <= runs' BY <1>1, <1>3
  <2>2. version' \in 1 .. version' BY <1>1, <1>3
  <2>3. ASSUME NEW n \in 1 .. Len(ops) PROVE Shaped(ops[n])'
    <3>1. CASE Writing(ops[n], c) BY <1>1, <1>10, <2>2, <3>1 DEF Writing, Shaped
    <3>2. CASE Freeing(ops[n], Input) BY <3>2, CurrentCells DEF Freeing, Shaped
    <3>3. CASE Making(ops[n], c) BY <1>9, <3>3 DEF Making, Shaped
    <3>4. QED BY <1>8, <3>1, <3>2, <3>3
  <2>4. QED BY <1>3, <1>4, <1>7, <2>1, <2>3, AppendShaped
<1>18. OnStreams'
  <2>1. \A n \in 1 .. Len(ops) : ops[n].kind # "infer" BY <1>12
  <2>2. QED BY <1>1, <1>2, <1>3, <1>4, <1>7, <2>1, AppendOnStreams
<1>19. InCallOrder'
  <2>1. ASSUME NEW d \in CellsMade' \ CellsMade
        PROVE  \E n \in 1 .. Len(ops) : ops[n].kind = "alloc" /\ ops[n].writes = {d}
    <3>1. grows /\ d = c BY <1>9, <2>1
    <3>2. 2 \in 1 .. Len(ops) /\ Making(ops[2], c) BY <1>8, <3>1
    <3>3. QED BY <3>1, <3>2 DEF Making
  <2>2. ASSUME NEW n \in 1 .. Len(ops), ops[n].kind = "alloc"
        PROVE  n = 2 /\ \E e \in Cells : ops[n].writes = {e} /\ \A d \in CellsMade : d[1] = e[1] => d[2] < e[2]
    <3>1. grows /\ n = 2 /\ Making(ops[n], c) BY <1>8, <2>2 DEF Writing, Freeing
    <3>2. QED BY <1>9, <3>1 DEF Making
  <2>3. ASSUME NEW n \in 1 .. Len(ops), ops[n].kind = "free"
        PROVE  n = 1 /\ ops[n].writes = {Input} /\ Input' \notin ops[n].writes /\ Output' \notin ops[n].writes
    <3>1. grows /\ n = 1 /\ Freeing(ops[n], Input) BY <1>8, <2>3 DEF Writing, Making
    <3>2. QED BY <1>9, <3>1, CurrentCells DEF Freeing
  <2>4. (Input' = Input \/ Input' \notin CellsMade) /\ (Output' = Output \/ Output' \notin CellsMade) BY <1>9
  <2>5. ASSUME NEW v \in 1 .. version', v \notin 1 .. version
        PROVE  \E n \in 1 .. Len(ops) : ops[n].kind = "write" /\ ops[n].data = v
    <3>1. v = version + 1 BY <1>1, <1>3, <2>5
    <3>2. Len(ops) \in 1 .. Len(ops) BY <1>8
    <3>3. QED BY <1>8, <3>1, <3>2 DEF Writing
  <2>6. version' \in Nat BY <1>1, <1>3
  <2>7. \A n, m \in 1 .. Len(ops) : ops[n].kind = "alloc" /\ ops[m].kind = "alloc" => n = m BY <2>2
  <2>8. \A n, m \in 1 .. Len(ops) : ops[n].kind = "free" /\ ops[m].kind = "free" => n = m BY <2>3
  <2>9. \A n \in 1 .. Len(ops) : ops[n].kind = "alloc" =>
           \E e \in Cells : ops[n].writes = {e} /\ \A d \in CellsMade : d[1] = e[1] => d[2] < e[2]
        BY <2>2
  <2>10. \A n \in 1 .. Len(ops) : ops[n].kind = "free" =>
            /\ ops[n].writes = {Input} \/ ops[n].writes = {Output}
            /\ Input' \notin ops[n].writes /\ Output' \notin ops[n].writes
         BY <2>3
  <2>11. \A v \in 1 .. version' :
            v \in 1 .. version \/ \E n \in 1 .. Len(ops) : ops[n].kind = "write" /\ ops[n].data = v
         BY <2>5
  <2> HIDE <2>2, <2>3, <2>5
  <2>12. QED BY <1>3, <1>4, <1>7, <2>1, <2>4, <2>6, <2>7, <2>8, <2>9, <2>10, <2>11, AppendInCallOrder
<1>20. ReadsWritten'
  <2>1. \A n \in 1 .. Len(ops) : ops[n].kind # "read" BY <1>12
  <2>2. QED BY <1>3, <1>4, <1>7, <2>1, AppendReadsWritten
<1>21. EventsKept'
  <2>1. returned' = [input |-> input_ready', output |-> output_ready'] BY <1>1, <1>4 DEF EventsKept, Returns
  <2>2. QED BY <1>1, <1>4, <2>1 DEF EventsKept
<1>22. OutputMade'
  <2>1. \A k \in 1 .. Len(ops) : ops[k].kind # "infer" BY <1>12
  <2>2. ASSUME NEW k \in 1 .. Len(ops), ops[k].kind = "alloc", NEW s \in Streams, NEW m \in Positions(s)
        PROVE  ops[k].writes \cap issued[s][m].writes = {}
    <3>1. grows /\ Making(ops[k], c) BY <1>8, <2>2 DEF Writing, Freeing
    <3>2. QED BY <1>11, <3>1 DEF Making, Uses
  <2>3. QED BY <1>2, <1>3, <1>4, <1>7, <2>1, <2>2, AppendOutputMade
<1>23. QED BY <1>16, <1>17, <1>18, <1>19, <1>20, <1>21, <1>22 DEF CallsInv

LEMMA GrowOrdered ==
    ASSUME StreamsInv, Ordered, CallsInv, Careful, GrowOutput
    PROVE  Ordered' /\ CallsInv'
<1>1. /\ GrowOps \in Seq(Ops) /\ Enqueue(Internal, GrowOps)
      /\ cells' = [cells EXCEPT !.output = @ + 1] /\ MayGrowOutput
      /\ UNCHANGED <<device_vars, client_vars, stream, version, runs, reads, input_ready, output_ready>>
      BY GrowForm
<1>2. UNCHANGED <<done, known>> BY <1>1 DEF device_vars, client_vars
<1>3. Internal \in Streams /\ runs \in Nat /\ version \in Nat /\ issued \in [Streams -> Seq(Ops)]
      BY StreamsAssumption DEF StreamsInv, Values
<1>4. AllShaped /\ OnStreams /\ InCallOrder /\ EventsKept /\ OutputMade /\ ReadsWritten BY DEF CallsInv
<1>5. PICK ops : ops = GrowOps OBVIOUS
<1>6. PICK c : c = Out(cells.output + 1) OBVIOUS
<1>7. ops \in Seq(Ops) /\ Enqueue(Internal, ops) BY <1>1, <1>5
<1>8. /\ Len(ops) = 2 /\ Freeing(ops[1], Output) /\ Making(ops[2], c)
      /\ \A n \in 1 .. Len(ops) : n = 1 \/ n = 2
      BY <1>5, <1>6, GrowParts
<1>9. /\ Output' = c /\ Input' = Input /\ c \in Cells /\ c[1] = "output" /\ c # Output /\ c # Input
      /\ CellsMade' \subseteq CellsMade \cup {c} /\ c \notin CellsMade
      /\ \A d \in CellsMade : d[1] = c[1] => d[2] < c[2]
      /\ \A s \in Streams : \A n \in Positions(s) : c \notin Uses(issued[s][n])
      BY <1>1, <1>6, GrownCells, NewCell DEF Out
<1>10. \A n \in 1 .. Len(ops) : ops[n].kind \in {"alloc", "free"} /\ \A d \in ops[n].writes : d[1] = "output"
       BY <1>8, <1>9, CurrentCells DEF Freeing, Making
\* The client has waited for what the other streams do with the output.
<1>11. ASSUME NEW s \in Streams \ {Internal}, NEW n \in Positions(s) PROVE n <= done[s]
       BY <1>1, OutsideInternal DEF MayGrowOutput
<1>12. ASSUME NEW s \in Streams, NEW n \in Positions(s), NEW m \in 1 .. Len(ops) PROVE ~Precedes(ops[m], issued[s][n])
  <2>1. CASE m = 1 BY <1>8, <2>1 DEF Freeing, Precedes
  <2>2. CASE m = 2
    <3>1. ops[m].writes \cap Uses(issued[s][n]) = {} BY <1>8, <1>9, <2>2 DEF Making
    <3>2. QED BY <1>8, <2>2, <3>1 DEF Making, Precedes
  <2>3. QED BY <1>8, <2>1, <2>2
<1>13. ASSUME NEW m \in 1 .. Len(ops), NEW k \in 1 .. Len(ops), Precedes(ops[m], ops[k]) PROVE m < k
  <2>1. m # 1 BY <1>8, <1>13 DEF Freeing, Precedes
  <2>2. k # 2 BY <1>8, <1>13, <2>1 DEF Making, Precedes
  <2>3. m = 2 /\ k = 1 BY <1>8, <2>1, <2>2
  <2>4. Uses(ops[1]) = {Output} /\ ops[2].writes = {c} BY <1>8 DEF Freeing, Making, Uses
  <2>5. QED BY <1>8, <1>9, <1>13, <2>3, <2>4 DEF Freeing, Making, Precedes
<1>14. Ordered' BY <1>2, <1>3, <1>7, <1>11, <1>12, <1>13, AppendOrdered
<1>15. AllShaped'
  <2>1. version' \in Nat /\ runs' \in Nat /\ version <= version' /\ runs <= runs' BY <1>1, <1>3
  <2>2. Shaped(ops[1])' BY <1>8, CurrentCells DEF Freeing, Shaped
  <2>3. Shaped(ops[2])' BY <1>8, <1>9 DEF Making, Shaped
  <2>4. ASSUME NEW n \in 1 .. Len(ops) PROVE Shaped(ops[n])'
    <3>1. n = 1 \/ n = 2 BY <1>8
    <3>2. QED BY <2>2, <2>3, <3>1 DEF Shaped
  <2>5. QED BY <1>3, <1>4, <1>7, <2>1, <2>4, AppendShaped
<1>16. OnStreams'
  <2>1. \A n \in 1 .. Len(ops) : ops[n].kind # "infer" BY <1>10
  <2>2. QED BY <1>1, <1>2, <1>3, <1>4, <1>7, <2>1, AppendOnStreams
<1>17. InCallOrder'
  <2>1. \A d \in CellsMade' \ CellsMade :
           \E n \in 1 .. Len(ops) : ops[n].kind = "alloc" /\ ops[n].writes = {d}
    <3>1. 2 \in 1 .. Len(ops) BY <1>8
    <3>2. QED BY <1>8, <1>9, <3>1 DEF Making
  <2>2. \A n \in 1 .. Len(ops) : ops[n].kind = "alloc" => n = 2 BY <1>8 DEF Freeing
  <2>3. \A n \in 1 .. Len(ops) : ops[n].kind = "free" => n = 1 BY <1>8 DEF Making
  <2>4. \A n, m \in 1 .. Len(ops) : ops[n].kind = "alloc" /\ ops[m].kind = "alloc" => n = m BY <2>2
  <2>5. \A n, m \in 1 .. Len(ops) : ops[n].kind = "free" /\ ops[m].kind = "free" => n = m BY <2>3
  <2>6. \A n \in 1 .. Len(ops) : ops[n].kind = "alloc" =>
           \E e \in Cells : ops[n].writes = {e} /\ \A d \in CellsMade : d[1] = e[1] => d[2] < e[2]
        BY <1>8, <1>9, <2>2 DEF Making
  <2>7. \A n \in 1 .. Len(ops) : ops[n].kind = "free" =>
           /\ ops[n].writes = {Input} \/ ops[n].writes = {Output}
           /\ Input' \notin ops[n].writes /\ Output' \notin ops[n].writes
        BY <1>8, <1>9, <2>3, CurrentCells DEF Freeing
  <2>8. (Input' = Input \/ Input' \notin CellsMade) /\ (Output' = Output \/ Output' \notin CellsMade) BY <1>9
  <2>9. version' \in Nat
        /\ \A v \in 1 .. version' :
              v \in 1 .. version \/ \E n \in 1 .. Len(ops) : ops[n].kind = "write" /\ ops[n].data = v
        BY <1>1, <1>3
  <2> HIDE <2>2, <2>3
  <2>10. QED BY <1>3, <1>4, <1>7, <2>1, <2>4, <2>5, <2>6, <2>7, <2>8, <2>9, AppendInCallOrder
<1>18. ReadsWritten'
  <2>1. \A n \in 1 .. Len(ops) : ops[n].kind # "read" BY <1>10
  <2>2. QED BY <1>3, <1>4, <1>7, <2>1, AppendReadsWritten
<1>19. EventsKept' BY <1>1, <1>4 DEF EventsKept, client_vars
<1>20. OutputMade'
  <2>1. \A k \in 1 .. Len(ops) : ops[k].kind # "infer" BY <1>10
  <2>2. ASSUME NEW k \in 1 .. Len(ops), ops[k].kind = "alloc", NEW s \in Streams, NEW m \in Positions(s)
        PROVE  ops[k].writes \cap issued[s][m].writes = {}
    <3>1. k = 2 /\ Making(ops[k], c) BY <1>8, <2>2 DEF Freeing
    <3>2. QED BY <1>9, <3>1 DEF Making, Uses
  <2>3. QED BY <1>2, <1>3, <1>4, <1>7, <2>1, <2>2, AppendOutputMade
<1>21. QED BY <1>14, <1>15, <1>16, <1>17, <1>18, <1>19, <1>20 DEF CallsInv

LEMMA ReadOrdered ==
    ASSUME StreamsInv, Ordered, CallsInv, Careful, NEW s \in Streams, NEW grows \in BOOLEAN,
           cells' = IF grows THEN [cells EXCEPT !.output = @ + 1] ELSE cells,
           ReadOutput(s, IF grows THEN Growth(Output, Output') ELSE <<>>),
           UNCHANGED <<device_vars, known, returned, stream, version, runs, input_ready, output_ready>>
    PROVE  cells' = cells /\ Ordered' /\ CallsInv'
<1>1. ReadOps(grows) \in Seq(Ops) /\ Enqueue(s, ReadOps(grows)) BY ReadForm
<1>2. output_ready # None /\ MayRead(s) BY DEF ReadOutput
<1>3. Internal \in Streams /\ runs \in Nat /\ version \in Nat /\ issued \in [Streams -> Seq(Ops)] /\ UNCHANGED done
      BY StreamsAssumption DEF StreamsInv, Values, device_vars
<1>4. AllShaped /\ OnStreams /\ InCallOrder /\ EventsKept /\ OutputMade /\ ReadsWritten BY DEF CallsInv
<1>5. runs > 0 BY <1>2, <1>4 DEF EventsKept
\* The client reads what the last run wrote, and that is not a new allocation.
<1>6. PICK z \in Streams : \E i \in Positions(z) : issued[z][i].run = runs /\ Output' \in issued[z][i].writes
      BY <1>2 DEF MayRead, Positions
<1> PICK i \in Positions(z) : issued[z][i].run = runs /\ Output' \in issued[z][i].writes BY <1>6
<1>7. ~grows
  <2>1. SUFFICES ASSUME grows PROVE FALSE
        OBVIOUS
  <2>2. Output' = Out(cells.output + 1) BY <2>1, GrownCells
  <2>3. QED BY <1>6, <2>2, NewCell DEF Uses
<1>8. cells' = cells /\ Output' = Output /\ Input' = Input /\ CellsMade' = CellsMade BY <1>7, GrownCells
<1>9. IsAt("infer", z, i) /\ issued[z][i].run = runs /\ issued[z][i].writes = {Output}
  <2>1. Shaped(issued[z][i]) /\ issued[z][i] \in Ops BY <1>4, OldOperation
  <2>2. issued[z][i].kind = "infer" BY <1>5, <1>6, <2>1 DEF Shaped, Ops
  <2>3. QED BY <1>6, <1>8, <2>1, <2>2 DEF Shaped, IsAt
\* Inferences on another stream are over, or the event includes them.
<1>10. ASSUME NEW r \in Streams \ {s}, NEW n \in Positions(r), IsAt("infer", r, n)
       PROVE  n <= done[r] \/ (r = output_ready[1] /\ n <= output_ready[2])
  <2>1. known[r] \in Nat /\ known[r] <= done[r] /\ done[r] \in Nat /\ Len(issued[r]) \in Nat
        BY <1>3 DEF StreamsInv, Values, Progress
  <2>2. n \in Nat /\ n <= Len(issued[r]) BY <2>1 DEF Positions
  <2>3. CASE n <= known[r] BY <2>1, <2>2, <2>3
  <2>4. CASE n > known[r]
    <3>1. n \in known[r] + 1 .. Len(issued[r]) BY <2>1, <2>2, <2>4
    <3>2. returned.output = output_ready /\ WaitEvent(output_ready) = {output_ready}
          BY <1>2, <1>4 DEF EventsKept, WaitEvent
    <3>3. QED BY <1>2, <1>10, <3>1, <3>2 DEF MayRead, IsAt
  <2>5. QED BY <2>1, <2>2, <2>3, <2>4
<1>11. PICK ops : ops = ReadOps(grows) OBVIOUS
<1>12. PICK p : p = ops[1] OBVIOUS
<1>13. /\ ops \in Seq(Ops) /\ Enqueue(s, ops) /\ Len(ops) = 1 /\ \A n \in 1 .. Len(ops) : n = 1 /\ ops[n] = p
       /\ p.kind = "read" /\ p.reads = {Output} /\ p.writes = {} /\ p.data = 0 /\ p.run = runs
       /\ p.after = {output_ready}
  <2>1. ops = <<OutputRead(Output)>> BY <1>7, <1>11 DEF ReadOps
  <2>2. p = OutputRead(Output) BY <1>12, <2>1
  <2>3. Len(ops) = 1 BY <2>1
  <2>4. \A n \in 1 .. Len(ops) : n = 1 BY <2>3
  <2>5. /\ p.kind = "read" /\ p.reads = {Output} /\ p.writes = {} /\ p.data = 0 /\ p.run = runs
        /\ p.after = {output_ready}
        BY <1>2, <2>2 DEF OutputRead, Op, WaitEvent
  <2>6. QED BY <1>1, <1>11, <1>12, <2>3, <2>4, <2>5
<1>14. Uses(p) = {Output} BY <1>13 DEF Uses
\* What the read must follow on other streams; the making of the output at one remove,
\* through what the inference waited for.
<1>15. ASSUME NEW r \in Streams \ {s}, NEW n \in Positions(r), Precedes(issued[r][n], p)
       PROVE  \/ n <= done[r] \/ Covers(output_ready, r, n)
              \/ \E k \in Positions(s) : \E e \in issued[s][k].after : Covers(e, r, n)
  <2> DEFINE q == issued[r][n]
  <2>1. q.kind = "infer" \/ (q.kind = "alloc" /\ Output \in q.writes) BY <1>13, <1>14, <1>15 DEF Precedes
  <2>2. CASE q.kind = "infer"
    <3>1. n <= done[r] \/ (r = output_ready[1] /\ n <= output_ready[2]) BY <1>10, <2>2 DEF IsAt
    <3>2. QED BY <3>1 DEF Covers
  <2>3. CASE q.kind = "alloc" /\ Output \in q.writes
    <3>1. r = Internal /\ s # Internal BY <1>4, <2>3 DEF OnStreams
    <3>2. MadeBefore(n, z, i)
      <4>1. IsAt("alloc", Internal, n) /\ issued[Internal][n].writes \cap issued[z][i].writes # {}
            BY <1>9, <2>3, <3>1 DEF IsAt
      <4>2. QED BY <1>4, <1>9, <3>1, <4>1 DEF OutputMade
    <3>3. \A y \in Streams : done[y] \in Nat /\ Len(issued[y]) \in Nat BY <1>3 DEF StreamsInv, Values
    <3>4. n \in Nat /\ i \in Nat BY <3>3 DEF Positions
    <3>5. output_ready[2] \in Nat BY <1>2 DEF StreamsInv, Progress, Enqueued
    <3>6. CASE z = Internal /\ n < i
      <4>1. i <= done[r] \/ (r = output_ready[1] /\ i <= output_ready[2]) BY <1>9, <1>10, <3>1, <3>6
      <4>2. n <= done[r] \/ (r = output_ready[1] /\ n <= output_ready[2]) BY <3>3, <3>4, <3>5, <3>6, <4>1
      <4>3. QED BY <4>2 DEF Covers
    <3>7. CASE n <= done[Internal] BY <3>1, <3>7
    <3>8. ASSUME NEW e \in issued[z][i].after, e[1] = Internal, n <= e[2]
          PROVE  \/ n <= done[r] \/ Covers(output_ready, r, n)
                 \/ \E k \in Positions(s) : \E f \in issued[s][k].after : Covers(f, r, n)
      <4>1. CASE z = s
        <5>1. Covers(e, r, n) BY <3>1, <3>8 DEF Covers
        <5>2. QED BY <1>6, <3>8, <4>1, <5>1
      <4>2. CASE z # s /\ i <= done[z]
        <5>1. i \in 1 .. Begun(z) BY <3>3, <3>4, <4>2 DEF Begun, Positions
        <5>2. Reached(e) BY <3>8, <5>1 DEF StreamsInv, WaitsKept
        <5>3. e[2] \in Nat
          <6>1. Enqueued(e) BY <3>8 DEF StreamsInv, AllGrounded, Grounded
          <6>2. QED BY <6>1 DEF Enqueued
        <5>4. QED BY <3>1, <3>3, <3>4, <3>8, <5>2, <5>3 DEF Reached
      <4>3. CASE z # s /\ z = output_ready[1] /\ i <= output_ready[2]
        <5>1. i \in 1 .. output_ready[2] BY <3>4, <3>5, <4>3 DEF Positions
        <5>2. QED BY <3>1, <3>8, <4>3, <5>1 DEF Covers
      <4>4. QED BY <1>9, <1>10, <4>1, <4>2, <4>3
    <3>9. QED BY <3>2, <3>6, <3>7, <3>8 DEF MadeBefore
  <2>4. QED BY <2>1, <2>2, <2>3
<1>16. ASSUME NEW r \in Streams, NEW n \in Positions(r) PROVE ~Precedes(p, issued[r][n])
  <2> DEFINE q == issued[r][n]
  <2>1. q \in Ops /\ Shaped(q) /\ Grounded(q) /\ q.run <= runs BY <1>4, OldOperation
  <2>2. ~(p.run < q.run) BY <1>3, <1>13, <2>1 DEF Ops
  <2>3. ~Earlier(p.reads, q.writes)
    <3>1. SUFFICES ASSUME NEW d \in q.writes, d[1] = Output[1], Output[2] < d[2] PROVE FALSE
          BY <1>13 DEF Earlier
    <3>2. d \in CellsMade BY <2>1 DEF Grounded, Uses
    <3>3. d[2] <= cells.output /\ d[2] \in Nat BY <3>1, <3>2, CellsMadeTypes, CurrentCells
    <3>4. QED BY <3>1, <3>3, CurrentCells DEF Positive
  <2>4. q.kind = "free" => Output \notin q.writes
    <3>1. q.kind = "free" => r = Internal BY <1>4 DEF OnStreams
    <3>2. QED BY <1>4, <3>1 DEF InCallOrder, IsAt
  <2>5. QED BY <1>13, <1>14, <2>2, <2>3, <2>4 DEF Precedes
<1>17. Ordered'
  <2>1. Enqueued(output_ready) BY <1>2 DEF StreamsInv, Progress
  <2>2. \A r \in Streams \ {s} : \A n \in Positions(r), m \in 1 .. Len(ops) :
           Precedes(issued[r][n], ops[m]) =>
               \/ n <= done[r]
               \/ \E e \in ops[m].after : Enqueued(e) /\ Covers(e, r, n)
               \/ \E k \in Positions(s) : \E e \in issued[s][k].after : Covers(e, r, n)
        BY <1>13, <1>15, <2>1
  <2>3. \A r \in Streams : \A n \in Positions(r), m \in 1 .. Len(ops) : ~Precedes(ops[m], issued[r][n])
        BY <1>13, <1>16
  <2>4. \A m, k \in 1 .. Len(ops) : Precedes(ops[m], ops[k]) => m < k BY <1>13 DEF Precedes
  <2>5. QED BY <1>3, <1>13, <2>2, <2>3, <2>4, AppendOrdered
<1>18. AllShaped'
  <2>1. version' \in Nat /\ runs' \in Nat /\ version <= version' /\ runs <= runs' BY <1>3
  <2>2. \E j \in Positive : p.reads = {Out(j)} BY <1>13, CurrentCells DEF Output
  <2>3. p.run \in 1 .. runs' BY <1>3, <1>5, <1>13
  <2>4. Shaped(p)' BY <1>13, <2>2, <2>3 DEF Shaped
  <2>5. \A n \in 1 .. Len(ops) : Shaped(ops[n])' BY <1>13, <2>4 DEF Shaped
  <2>6. QED BY <1>3, <1>4, <1>13, <2>1, <2>5, AppendShaped
<1>19. OnStreams'
  <2>1. \A n \in 1 .. Len(ops) : ops[n].kind = "read" BY <1>13
  <2>2. QED BY <1>3, <1>4, <1>13, <2>1, AppendOnStreams
<1>20. InCallOrder'
  <2>1. \A n \in 1 .. Len(ops) : ops[n].kind = "read" BY <1>13
  <2>2. QED BY <1>3, <1>4, <1>8, <1>13, <2>1, AppendInCallOrder
<1>21. ReadsWritten'
  <2>1. ASSUME NEW n \in 1 .. Len(ops)
        PROVE  IsAt("infer", z, i) /\ issued[z][i].run = ops[n].run /\ issued[z][i].writes = ops[n].reads
        BY <1>9, <1>13
  <2>2. QED BY <1>3, <1>4, <1>13, <2>1, AppendReadsWritten
<1>22. EventsKept' BY <1>4 DEF EventsKept
<1>23. OutputMade'
  <2>1. \A n \in 1 .. Len(ops) : ops[n].kind # "infer" /\ ops[n].kind # "alloc" BY <1>13
  <2>2. QED BY <1>3, <1>4, <1>13, <2>1, AppendOutputMade
<1>24. QED BY <1>8, <1>17, <1>18, <1>19, <1>20, <1>21, <1>22, <1>23 DEF CallsInv

-----------------------------------------------------------------------------
(* The invariant of a careful client.                                       *)

LEMMA OrderInit == StreamsInit => OrderInv
<1> SUFFICES ASSUME StreamsInit PROVE OrderInv
    OBVIOUS
<1>1. StreamsInv BY StreamsInit_Inv
<1>2. PICK a : a = Op("alloc", {}, {In(1)}, 0, 0, {}) OBVIOUS
<1>3. PICK b : b = Op("alloc", {}, {Out(1)}, 0, 0, {}) OBVIOUS
<1>4. /\ a.kind = "alloc" /\ a.reads = {} /\ a.writes = {In(1)} /\ a.data = 0 /\ a.run = 0 /\ a.after = {}
      /\ b.kind = "alloc" /\ b.reads = {} /\ b.writes = {Out(1)} /\ b.data = 0 /\ b.run = 0 /\ b.after = {}
      BY <1>2, <1>3 DEF Op
<1>5. issued = [s \in Streams |-> IF s = Internal THEN <<a, b>> ELSE <<>>] BY <1>2, <1>3 DEF StreamsInit
<1>6. Internal \in Streams BY StreamsAssumption
<1>7. /\ issued[Internal][1] = a /\ issued[Internal][2] = b /\ 1 \in Positions(Internal) /\ 2 \in Positions(Internal)
      /\ \A n \in Positions(Internal) : n = 1 \/ n = 2
      BY <1>5, <1>6 DEF Positions
<1>8. \A s \in Streams \ {Internal} : Positions(s) = {} BY <1>5 DEF Positions
<1>9. /\ done = [s \in Streams |-> 0] /\ stream = Internal /\ version = 0 /\ runs = 0
      /\ cells = [input |-> 1, output |-> 1] /\ input_ready = None /\ output_ready = None
      /\ returned = [input |-> None, output |-> None]
      /\ content = [input |-> 0, run |-> 0, wants |-> 0, used |-> 0] /\ delivered = [wants |-> 0, got |-> 0]
      BY DEF StreamsInit
<1>10. \A s \in Streams : \A n \in Positions(s) : s = Internal /\ issued[s][n] \in {a, b} BY <1>7, <1>8
<1>11. \A s \in Streams : \A n \in Positions(s) : issued[s][n].kind = "alloc" BY <1>4, <1>10
<1>12. Ordered BY <1>11 DEF Ordered, Precedes
<1>13. In(1) \in Cells /\ Out(1) \in Cells BY DEF In, Out, Cells, Positive
<1>14. AllShaped BY <1>4, <1>10, <1>13 DEF AllShaped, Shaped
<1>15. OnStreams BY <1>8, <1>9, <1>11 DEF OnStreams, IsAt
<1>16. InCallOrder
  <2>1. \A c \in CellsMade : c = In(1) \/ c = Out(1) BY <1>9 DEF CellsMade
  <2>2. ASSUME NEW c \in CellsMade
        PROVE  \E n \in Positions(Internal) : IsAt("alloc", Internal, n) /\ issued[Internal][n].writes = {c}
    <3>1. CASE c = In(1) BY <1>4, <1>7, <3>1 DEF IsAt
    <3>2. CASE c = Out(1) BY <1>4, <1>7, <3>2 DEF IsAt
    <3>3. QED BY <2>1, <3>1, <3>2
  <2>3. ~Earlier({In(1)}, {In(1)}) /\ ~Earlier({In(1)}, {Out(1)}) /\ ~Earlier({Out(1)}, {In(1)})
        /\ ~Earlier({Out(1)}, {Out(1)})
        BY DEF Earlier, In, Out
  <2>4. \A n, m \in Positions(Internal) : ~Earlier(issued[Internal][n].writes, issued[Internal][m].writes)
        BY <1>4, <1>7, <2>3
  <2>5. \A n \in Positions(Internal) : ~IsAt("free", Internal, n) BY <1>6, <1>11 DEF IsAt
  <2>6. 1 .. version = {} BY <1>9
  <2>7. QED BY <2>2, <2>4, <2>5, <2>6 DEF InCallOrder
<1>17. EventsKept /\ OutputMade BY <1>9, <1>11 DEF EventsKept, OutputMade, IsAt
<1>18. ReadsWritten BY <1>11 DEF ReadsWritten, IsAt
<1>19. CallsInv BY <1>14, <1>15, <1>16, <1>17, <1>18 DEF CallsInv
<1>20. \A s \in Streams : 1 .. done[s] = {} BY <1>9
<1>21. LiveHeld BY <1>6, <1>20 DEF LiveHeld
<1>22. InputHeld /\ InputCurrent /\ OutputDelivered BY <1>6, <1>9, <1>20 DEF InputHeld, InputCurrent, OutputDelivered
<1>23. OutputHeld BY <1>20 DEF OutputHeld
<1>24. QED BY <1>1, <1>12, <1>19, <1>21, <1>22, <1>23 DEF OrderInv, DeviceInv

\* A call that enqueues something, as far as the device is concerned.
LEMMA CallKeepsDevice ==
    ASSUME StreamsInv, DeviceInv, NEW r \in Streams, NEW ops \in Seq(Ops), Enqueue(r, ops), UNCHANGED device_vars,
           cells' \in {cells, [cells EXCEPT !.input = @ + 1], [cells EXCEPT !.output = @ + 1]}
    PROVE  DeviceInv'
<1>1. Extends BY EnqueueExtends DEF StreamsInv, Values
<1>2. Internal \in Streams BY StreamsAssumption
<1>3. ASSUME NEW c \in CellsMade' \ CellsMade, NEW n \in Positions(Internal) PROVE issued[Internal][n].writes # {c}
  <2>1. c \in {In(cells.input + 1), Out(cells.output + 1)} BY <1>3, GrownCells
  <2>2. c \notin Uses(issued[Internal][n]) BY <1>2, <2>1, NewCell
  <2>3. QED BY <2>2 DEF Uses
<1>4. QED BY <1>1, <1>3, AppendKeepsDevice

\* A step that enqueues nothing and that the device takes no part in.
LEMMA QuietKeeps ==
    ASSUME OrderInv, UNCHANGED <<issued, device_vars, cells, version, runs, input_ready, output_ready, returned>>,
           \A s \in Streams : known'[s] \in Nat /\ known[s] <= known'[s],
           \A s \in Streams \ {stream'} : \A n \in Positions(s) : IsAt("infer", s, n) => n <= known'[s]
    PROVE  Ordered' /\ CallsInv' /\ DeviceInv'
<1>1. StreamsInv /\ Ordered /\ CallsInv /\ DeviceInv BY DEF OrderInv
<1>2. \A s \in Streams : done'[s] \in Nat /\ done[s] <= done'[s] BY <1>1 DEF StreamsInv, Values, device_vars
<1>3. Ordered' /\ CallsInv' BY <1>1, <1>2, QuietOrdered
<1>4. issued \in [Streams -> Seq(Ops)] BY <1>1 DEF StreamsInv, Values
<1>5. Extends BY <1>4 DEF Extends
<1>6. CellsMade' = CellsMade BY DEF CellsMade
<1>7. DeviceInv' BY <1>1, <1>5, <1>6, AppendKeepsDevice
<1>8. QED BY <1>3, <1>7

LEMMA OrderStep ==
    ASSUME Careful, OrderInv, [StreamsNext]_streams_vars
    PROVE  OrderInv'
<1>1. StreamsInv /\ Ordered /\ CallsInv /\ DeviceInv BY DEF OrderInv
<1>2. StreamsInv' BY <1>1, StreamsInv_Step
<1>3. SUFFICES Ordered' /\ CallsInv' /\ DeviceInv' BY <1>2 DEF OrderInv
<1>4. /\ Internal \in Streams /\ stream \in Streams
      /\ \A s \in Streams : known[s] \in Nat /\ done[s] \in Nat
      BY <1>1, StreamsAssumption DEF StreamsInv, Values
<1>5. \A s \in Streams \ {stream} : \A n \in Positions(s) : IsAt("infer", s, n) => n <= known[s]
      BY <1>1 DEF CallsInv, OnStreams
<1>6. ASSUME NEW grows \in BOOLEAN, NEW recorded \in BOOLEAN, SetInputData(grows, recorded)
      PROVE  Ordered' /\ CallsInv' /\ DeviceInv'
  <2>1. Ordered' /\ CallsInv' BY <1>1, <1>6, SetInputOrdered
  <2>2. /\ SetInputOps(grows) \in Seq(Ops) /\ Enqueue(Internal, SetInputOps(grows)) /\ UNCHANGED device_vars
        /\ cells' \in {cells, [cells EXCEPT !.input = @ + 1]}
        BY <1>1, <1>6, SetInputForm
  <2>3. QED BY <1>1, <1>4, <2>1, <2>2, CallKeepsDevice
<1>7. ASSUME NEW recorded \in BOOLEAN, InferAsync(recorded) PROVE Ordered' /\ CallsInv' /\ DeviceInv'
  <2>1. Ordered' /\ CallsInv' BY <1>1, <1>7, InferOrdered
  <2>2. InferOps \in Seq(Ops) /\ Enqueue(stream, InferOps) /\ UNCHANGED <<device_vars, cells>>
        BY <1>1, <1>7, InferForm
  <2>3. QED BY <1>1, <1>4, <2>1, <2>2, CallKeepsDevice
<1>8. ASSUME NEW s \in Streams, NEW grows \in BOOLEAN,
             cells' = IF grows THEN [cells EXCEPT !.output = @ + 1] ELSE cells,
             ReadOutput(s, IF grows THEN Growth(Output, Output') ELSE <<>>),
             UNCHANGED <<device_vars, known, returned, stream, version, runs, input_ready, output_ready>>
      PROVE  Ordered' /\ CallsInv' /\ DeviceInv'
  <2>1. cells' = cells /\ Ordered' /\ CallsInv' BY <1>1, <1>8, ReadOrdered
  <2>2. ReadOps(grows) \in Seq(Ops) /\ Enqueue(s, ReadOps(grows)) BY <1>1, <1>8, ReadForm
  <2>3. UNCHANGED device_vars BY <1>8
  <2>4. QED BY <1>1, <2>1, <2>2, <2>3, CallKeepsDevice
<1>9. ASSUME NEW async \in BOOLEAN, NEW grows \in BOOLEAN, GetOutputData(async, grows)
      PROVE  Ordered' /\ CallsInv' /\ DeviceInv'
  <2>1. /\ cells' = IF grows THEN [cells EXCEPT !.output = @ + 1] ELSE cells
        /\ ReadOutput(Internal, IF grows THEN Growth(Output, Output') ELSE <<>>)
        /\ UNCHANGED <<device_vars, known, returned, stream, version, runs, input_ready, output_ready>>
        BY <1>9 DEF GetOutputData
  <2>2. QED BY <1>4, <1>8, <2>1
<1>10. ASSUME NEW s \in Streams, ClientRead(s) PROVE Ordered' /\ CallsInv' /\ DeviceInv'
  <2>1. /\ cells' = IF FALSE THEN [cells EXCEPT !.output = @ + 1] ELSE cells
        /\ ReadOutput(s, IF FALSE THEN Growth(Output, Output') ELSE <<>>)
        /\ UNCHANGED <<device_vars, known, returned, stream, version, runs, input_ready, output_ready>>
        BY <1>10 DEF ClientRead, HostKeeps, client_vars
  <2>2. QED BY <1>8, <2>1
<1>11. CASE GrowOutput
  <2>1. Ordered' /\ CallsInv' BY <1>1, <1>11, GrowOrdered
  <2>2. /\ GrowOps \in Seq(Ops) /\ Enqueue(Internal, GrowOps) /\ UNCHANGED device_vars
        /\ cells' = [cells EXCEPT !.output = @ + 1]
        BY <1>1, <1>11, GrowForm
  <2>3. QED BY <1>1, <1>4, <2>1, <2>2, CallKeepsDevice
\* The client knows the inferences on the stream it leaves to be over.
<1>12. ASSUME NEW s \in Streams, SetStream(s) PROVE Ordered' /\ CallsInv' /\ DeviceInv'
  <2>1. /\ UNCHANGED <<issued, device_vars, version, runs, cells, input_ready, output_ready, returned, known>>
        /\ ~Unknown(stream, {"infer"})
        BY <1>12 DEF SetStream, HostKeeps, client_vars, MayChangeStream
  <2>2. issued \in [Streams -> Seq(Ops)] BY <1>1 DEF StreamsInv, Values
  <2>3. ASSUME NEW n \in Positions(stream), IsAt("infer", stream, n) PROVE n <= known[stream]
    <3>1. n \notin known[stream] + 1 .. Len(issued[stream]) BY <2>1, <2>3 DEF Unknown, IsAt
    <3>2. Len(issued[stream]) \in Nat BY <1>4, <2>2
    <3>3. QED BY <1>4, <3>1, <3>2 DEF Positions
  <2>4. \A r \in Streams \ {stream'} : \A n \in Positions(r) : IsAt("infer", r, n) => n <= known'[r]
        BY <1>5, <2>1, <2>3
  <2>5. \A r \in Streams : known'[r] \in Nat /\ known[r] <= known'[r] BY <1>4, <2>1
  <2>6. QED BY <2>1, <2>4, <2>5, QuietKeeps
<1>13. ASSUME UNCHANGED <<issued, device_vars, version, runs, cells, input_ready, output_ready, returned, known, stream>>
       PROVE  Ordered' /\ CallsInv' /\ DeviceInv'
  <2>1. \A r \in Streams : known'[r] \in Nat /\ known[r] <= known'[r] BY <1>4, <1>13
  <2>2. QED BY <1>5, <1>13, <2>1, QuietKeeps
<1>14. ASSUME NEW e, Blocks(e) PROVE Ordered' /\ CallsInv' /\ DeviceInv'
       BY <1>13, <1>14 DEF Blocks, engine_vars
<1>15. CASE HostReturn
  <2>1. UNCHANGED <<issued, device_vars, version, runs, cells, input_ready, output_ready, returned, stream>>
        BY <1>15 DEF HostReturn, engine_vars
  <2>2. \A r \in Streams : known'[r] \in Nat /\ known[r] <= known'[r]
        BY <1>1, <1>2, <1>15, ReturnTyped DEF StreamsInv, Values
  <2>3. ASSUME NEW r \in Streams \ {stream}, NEW n \in Positions(r), IsAt("infer", r, n) PROVE n <= known'[r]
    <3>1. n <= known[r] BY <1>5, <2>3
    <3>2. issued \in [Streams -> Seq(Ops)] BY <1>1 DEF StreamsInv, Values
    <3>3. n \in Nat BY <3>2 DEF Positions
    <3>4. QED BY <1>4, <2>2, <3>1, <3>3
  <2>4. QED BY <2>1, <2>2, <2>3, QuietKeeps
<1>16. ASSUME NEW s \in Streams, Begin(s) PROVE Ordered' /\ CallsInv' /\ DeviceInv'
  <2>1. /\ UNCHANGED <<issued, done, live, content, delivered, version, runs, cells, input_ready, output_ready, returned>>
        /\ UNCHANGED <<known, stream>>
        BY <1>16 DEF Begin, engine_vars, client_vars
  <2>2. \A r \in Streams : done'[r] \in Nat /\ known'[r] \in Nat /\ done[r] <= done'[r] /\ known[r] <= known'[r]
        BY <1>4, <2>1
  <2>3. Ordered' /\ CallsInv' BY <1>1, <1>5, <2>1, <2>2, QuietOrdered
  <2>4. DeviceInv'
        BY <1>1, <2>1 DEF DeviceInv, LiveHeld, InputHeld, OutputHeld, LastDone, InputCurrent, OutputDelivered,
                          CellsMade, IsAt, Earlier
  <2>5. QED BY <2>3, <2>4
<1>17. ASSUME NEW s \in Streams, End(s) PROVE Ordered' /\ CallsInv' /\ DeviceInv'
  <2>1. /\ UNCHANGED <<issued, version, runs, cells, input_ready, output_ready, returned, known, stream>>
        /\ done' = [done EXCEPT ![s] = @ + 1]
        BY <1>17 DEF End, engine_vars, client_vars
  <2>2. \A r \in Streams : done'[r] \in Nat /\ known'[r] \in Nat /\ done[r] <= done'[r] /\ known[r] <= known'[r]
    <3>1. done \in [Streams -> Nat] BY <1>1 DEF StreamsInv, Values
    <3>2. QED BY <1>4, <2>1, <3>1
  <2>3. Ordered' /\ CallsInv' BY <1>1, <1>5, <2>1, <2>2, QuietOrdered
  <2>4. AllShaped /\ OnStreams /\ InCallOrder /\ ReadsWritten BY <1>1 DEF CallsInv
  <2>5. LiveHeld /\ InputHeld /\ OutputHeld /\ InputCurrent /\ OutputDelivered BY <1>1 DEF DeviceInv
  <2>6. LiveHeld' BY <1>1, <1>17, <2>4, <2>5, EndKeepsLive
  <2>7. InputHeld' BY <1>1, <1>17, <2>4, <2>5, EndKeepsInput
  <2>8. OutputHeld' BY <1>1, <1>17, <2>4, <2>5, EndKeepsOutput
  <2>9. InputCurrent' BY <1>1, <1>17, <2>4, <2>5, EndKeepsCurrent
  <2>10. OutputDelivered' BY <1>1, <1>17, <2>4, <2>5, EndDelivers
  <2>11. QED BY <2>3, <2>6, <2>7, <2>8, <2>9, <2>10 DEF DeviceInv
<1>18. CASE UNCHANGED streams_vars BY <1>13, <1>18 DEF streams_vars, engine_vars, client_vars
<1>19. CASE Host
  <2>1. CASE \E grows \in BOOLEAN, recorded \in Records : SetInputData(grows, recorded)
        BY <1>6, <2>1 DEF Records
  <2>2. CASE \E async, grows \in BOOLEAN : GetOutputData(async, grows) BY <1>9, <2>2
  <2>3. CASE \E s \in Streams : SetStream(s) \/ ClientRead(s) \/ ClientSynchronize(s)
        BY <1>10, <1>12, <1>14, <2>3 DEF ClientSynchronize
  <2>4. CASE Synchronize \/ SynchronizeInput \/ SynchronizeOutput
        BY <1>14, <2>4 DEF Synchronize, SynchronizeInput, SynchronizeOutput
  <2>5. CASE \E recorded \in Records : InferAsync(recorded) BY <1>7, <2>5 DEF Records
  <2>6. QED BY <1>11, <1>15, <1>19, <2>1, <2>2, <2>3, <2>4, <2>5 DEF Host
<1>20. CASE Device BY <1>16, <1>17, <1>20 DEF Device
<1>21. QED BY <1>18, <1>19, <1>20 DEF StreamsNext

\* A careful client keeps all of the device's work in order.
LEMMA OrderAlways == Careful /\ StreamsSpec => []OrderInv
<1>1. CASE Careful
  <2>1. OrderInv /\ [StreamsNext]_streams_vars => OrderInv' BY <1>1, OrderStep
  <2>2. QED BY <2>1, OrderInit, PTL DEF StreamsSpec
<1>2. CASE ~Careful BY <1>2, PTL
<1>3. QED BY <1>1, <1>2

\* What a careful client gets from the two events, for any number of streams, calls and
\* reallocations, and however fast each stream runs: no two operations that overlap in
\* time touch the same buffer, one of them writing (NoRace).
THEOREM RaceFreeTheorem == Careful /\ StreamsSpec => []NoRace
<1>1. OrderInv => NoRace BY OrderMeansNoRace DEF OrderInv, CallsInv
<1>2. QED BY <1>1, OrderAlways, PTL

\* Whatever runs, runs on allocations that exist: Resize never pulls a buffer from under
\* an inference or a copy, nor does one begin on a buffer that is still to come (BufferLive).
THEOREM BufferLiveTheorem == Careful /\ StreamsSpec => []BufferLive
<1>1. OrderInv => BufferLive BY OrderMeansLive DEF OrderInv, CallsInv, DeviceInv
<1>2. QED BY <1>1, OrderAlways, PTL

\* Every inference finds the data of the last SetInputData before it (InputCurrent).
THEOREM InputCurrentTheorem == Careful /\ StreamsSpec => []InputCurrent
<1>1. OrderInv => InputCurrent BY DEF OrderInv, DeviceInv
<1>2. QED BY <1>1, OrderAlways, PTL

\* Every read of the output finds what the last InferAsync before it wrote, whichever
\* stream that ran on and the read is on (OutputDelivered).
THEOREM OutputDeliveredTheorem == Careful /\ StreamsSpec => []OutputDelivered
<1>1. OrderInv => OutputDelivered BY DEF OrderInv, DeviceInv
<1>2. QED BY <1>1, OrderAlways, PTL
=============================================================================
