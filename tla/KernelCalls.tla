---------------------------- MODULE KernelCalls -----------------------------
(***************************************************************************)
(* Host threads that launch kernels on CUDA streams:                       *)
(* LaunchGatherBFloat16Embeddings and LaunchFuseImageEmbeddings            *)
(* (src/kernels/preprocess_cuda_kernels.cu), which report errors through a *)
(* device flag that all callers of a function share, and the BEV-pool      *)
(* plugin's enqueue (src/plugins/bev_pool_v2), which zeroes its output on  *)
(* the legacy default stream.                                              *)
(*                                                                         *)
(* Abstractions.  The input of a call is one bit per token: out of the     *)
(* vocabulary (gather), masked (fuse), or pooled into (the cells of pool). *)
(* Its output says of every token what was stored there last; the pair     *)
(* <<"image", k>> is the k-th image feature.  Operations that nothing      *)
(* orders run one after the other, in any order.  Rejected arguments are   *)
(* left out, and with them the data types that enqueue has no case for     *)
(* (supportsFormatCombination accepts none of them).                       *)
(***************************************************************************)
EXTENDS Integers, FiniteSets, Sequences, SequencesExt

CONSTANTS
    Callers,            \* host threads, each with an output of its own
    Streams, Legacy, NonBlocking,
    Functions,          \* of "gather", "fuse" and "pool"
    Rows, SeqLen,
    ImageTokenCount,
    Inputs,             \* the sets of marked tokens that are tried
    Faults,             \* "malloc": cudaMalloc fails; "call": a runtime call fails; "launch": a launch does
    Careful,            \* the client is; see MayCall and GoOn
    None

ASSUME CallAssumption ==
    /\ Legacy \in Streams \ NonBlocking /\ NonBlocking \subseteq Streams
    /\ Functions \subseteq {"gather", "fuse", "pool"}
    /\ {Rows, SeqLen, ImageTokenCount} \subseteq Nat \ {0}
    /\ Inputs \subseteq SUBSET ((1 .. Rows) \X (1 .. SeqLen))
    /\ Careful \in BOOLEAN

VARIABLES
    host,       \* the call of every thread and how far it is
    last_error, \* of every thread: what cudaGetLastError would return
    pending,    \* device operations in the order they were issued
    flag,       \* the device flags
    scratch,    \* their pointers: "unset", "device", or "null" for ever
    output

call_vars == <<host, last_error, pending, flag, scratch, output>>

Tokens == (1 .. Rows) \X (1 .. SeqLen)
Flagged == {"gather", "fuse"}
Idle == [step |-> "idle", fn |-> None, stream |-> None, marks |-> {}, parallel |-> FALSE,
         h_flag |-> 0, faulted |-> FALSE, result |-> FALSE]

CallInit ==
    /\ host = [t \in Callers |-> Idle]
    /\ last_error = [t \in Callers |-> FALSE]
    /\ pending = <<>>
    /\ flag = [f \in Flagged |-> 0]
    /\ scratch = [f \in Flagged |-> "unset"]
    /\ output = [t \in Callers |-> [x \in Tokens |-> <<"stale">>]]

-----------------------------------------------------------------------------
(* The host.                                                                *)

At(t, step) == host[t].step = step
Goto(t, step) == host' = [host EXCEPT ![t].step = step]

Returned(t, result, faulted) ==
    [host EXCEPT ![t].step = "returned", ![t].result = result, ![t].faulted = faulted]

Op(t, kind, stream) ==
    [kind |-> kind, caller |-> t, stream |-> stream, fn |-> host[t].fn, marks |-> host[t].marks,
     parallel |-> host[t].parallel]
Issue(t, kind) == pending' = Append(pending, Op(t, kind, host[t].stream))

\* A runtime call that fails ends the function; its error stays with the thread.
Fail(t, fault) ==
    /\ fault \in Faults
    /\ host' = Returned(t, FALSE, TRUE)
    /\ last_error' = [last_error EXCEPT ![t] = TRUE]
    /\ UNCHANGED pending

IssueOrFail(t, kind, next) ==
    \/ Issue(t, kind) /\ Goto(t, next) /\ UNCHANGED last_error
    \/ Fail(t, "call")

\* A careful client has one caller of a function with a flag at a time.
MayCall(f) == Careful /\ f \in Flagged => \A t \in Callers : host[t].fn # f

FirstStep == [gather |-> "scratch", fuse |-> "copy", pool |-> "zero"]

Call(t, f, s, marks, parallel) ==
    /\ At(t, "idle") /\ MayCall(f)
    /\ f # "fuse" => ~parallel
    /\ host' = [host EXCEPT ![t] = [Idle EXCEPT !.step = FirstStep[f], !.fn = f, !.stream = s,
                                               !.marks = marks, !.parallel = parallel]]
    /\ output' = [output EXCEPT ![t] = [x \in Tokens |-> <<"stale">>]]
    /\ UNCHANGED <<last_error, pending, flag, scratch>>

\* LaunchFuseImageEmbeddings begins with the token embeddings.
CopyTokens(t) == At(t, "copy") /\ IssueOrFail(t, "copy", "scratch") /\ UNCHANGED <<flag, scratch, output>>

\* call_once runs its function once, whether cudaMalloc succeeds in it or not.
DeviceIntScratch(t) ==
    LET f == host[t].fn
    IN  /\ At(t, "scratch")
        /\ \/ /\ scratch[f] = "unset" /\ "malloc" \in Faults
              /\ scratch' = [scratch EXCEPT ![f] = "null"]
              /\ Fail(t, "malloc")
           \/ /\ scratch[f] \in {"unset", "device"}
              /\ scratch' = [scratch EXCEPT ![f] = "device"]
              /\ Goto(t, "memset") /\ UNCHANGED <<last_error, pending>>
           \/ /\ scratch[f] = "null"
              /\ host' = Returned(t, FALSE, TRUE)
              /\ UNCHANGED <<scratch, last_error, pending>>
        /\ UNCHANGED <<flag, output>>

\* Slip: the flag is taken to be clear.
ClearFlagNever(t) == At(t, "memset") /\ Goto(t, "launch") /\ UNCHANGED <<last_error, pending, flag, scratch, output>>

ClearFlag(t) == At(t, "memset") /\ IssueOrFail(t, "memset", "launch") /\ UNCHANGED <<flag, scratch, output>>

\* cudaGetLastError returns, and forgets, whichever error the thread had last.
LaunchKernel(t) ==
    /\ At(t, "launch")
    /\ \/ /\ Issue(t, "kernel")
          /\ host' = IF last_error[t] THEN Returned(t, FALSE, FALSE) ELSE [host EXCEPT ![t].step = "readback"]
       \/ "launch" \in Faults /\ host' = Returned(t, FALSE, TRUE) /\ UNCHANGED pending
    /\ last_error' = [last_error EXCEPT ![t] = FALSE]
    /\ UNCHANGED <<flag, scratch, output>>

ReadBack(t) == At(t, "readback") /\ IssueOrFail(t, "readback", "sync") /\ UNCHANGED <<flag, scratch, output>>

Drained(s) == \A i \in DOMAIN pending : pending[i].stream # s

\* cudaStreamSynchronize, and the result.
Synchronize(t) ==
    /\ At(t, "sync") /\ Drained(host[t].stream)
    /\ host' = Returned(t, host[t].h_flag = 0, FALSE)
    /\ UNCHANGED <<last_error, pending, flag, scratch, output>>

\* A launch of enqueue, which returns 0 whether CUDA accepts it or not: the error of a
\* refused one stays with the thread.  An empty grid is always refused.
LaunchUnchecked(t, kind, stream, grid, next) ==
    /\ Goto(t, next)
    /\ \/ grid # {} /\ pending' = Append(pending, Op(t, kind, stream)) /\ UNCHANGED last_error
       \/ /\ grid = {} \/ "launch" \in Faults
          /\ last_error' = [last_error EXCEPT ![t] = TRUE] /\ UNCHANGED pending
    /\ UNCHANGED <<flag, scratch, output>>

\* Slip: the zeroing is on a stream of its own, which nothing orders with the pooling.
EnqueueZeroAside(t) ==
    At(t, "zero") /\ \E s \in NonBlocking : LaunchUnchecked(t, "zero", s, Tokens, "pool")

\* enqueue of the plugin: the output is zeroed on the default stream, and the intervals,
\* of which there may be none, are pooled on the stream of its caller, who synchronises it.
EnqueueZero(t) == At(t, "zero") /\ LaunchUnchecked(t, "zero", Legacy, Tokens, "pool")
EnqueuePool(t) == At(t, "pool") /\ LaunchUnchecked(t, "kernel", host[t].stream, host[t].marks, "sync")

\* Before it goes on, a careful client drains the streams of its call, also of one that
\* failed, and clears the error.
GoOn(t) ==
    /\ At(t, "returned")
    /\ Careful => \A i \in DOMAIN pending : pending[i].caller # t
    /\ host' = [host EXCEPT ![t] = Idle]
    /\ last_error' = [last_error EXCEPT ![t] = @ /\ ~Careful]
    /\ UNCHANGED <<pending, flag, scratch, output>>

-----------------------------------------------------------------------------
(* The device.                                                              *)

\* CUDA orders the operations of a stream, and those of the legacy default stream
\* with those of every stream that is not non-blocking.
Ordered(s, r) == s = r \/ (Legacy \in {s, r} /\ NonBlocking \cap {s, r} = {})

RowMarks(marks, row) == {x \in marks : x[1] = row}
\* Slip: a token takes the feature of its place in the row.
PlaceIdx(marks, x) == x[2] - 1
ImageIdx(marks, x) == Cardinality({y \in RowMarks(marks, x[1]) : y[2] < x[2]})

Overflows(marks, row) == Cardinality(RowMarks(marks, row)) > ImageTokenCount

BadInput(f, marks) ==
    \/ f = "gather" /\ marks # {}
    \/ f = "fuse" /\ \E row \in 1 .. Rows : Overflows(marks, row)

\* Which tokens a kernel stores to.  Of a row with too many masked tokens, the parallel
\* fuse kernel stores none and the serial one as many as there are features.
StoredTo(op) ==
    IF op.kind # "kernel" THEN Tokens
    ELSE CASE op.fn = "gather" -> Tokens \ op.marks
           [] op.fn = "fuse" /\ op.parallel -> {x \in op.marks : ~Overflows(op.marks, x[1])}
           [] op.fn = "fuse" /\ ~op.parallel -> {x \in op.marks : ImageIdx(op.marks, x) < ImageTokenCount}
           [] op.fn = "pool" -> op.marks

Value(op, x) ==
    CASE op.kind = "copy" -> <<"text">>
      [] op.kind = "zero" -> <<"zero">>
      [] op.kind = "kernel" /\ op.fn = "gather" -> <<"row">>
      [] op.kind = "kernel" /\ op.fn = "fuse" -> <<"image", ImageIdx(op.marks, x)>>
      [] op.kind = "kernel" /\ op.fn = "pool" -> <<"pooled">>

\* The operation at place i of pending, all at once.
Execute(i) ==
    LET op == pending[i]
        t == op.caller
    IN  /\ \A j \in 1 .. i - 1 : ~Ordered(pending[j].stream, op.stream)
        /\ pending' = RemoveAt(pending, i)
        /\ output' = IF op.kind \in {"copy", "zero", "kernel"}
                     THEN [output EXCEPT ![t] = [x \in Tokens |-> IF x \in StoredTo(op) THEN Value(op, x) ELSE @[x]]]
                     ELSE output
        /\ flag' = CASE op.kind = "memset" -> [flag EXCEPT ![op.fn] = 0]
                     [] op.kind = "kernel" /\ BadInput(op.fn, op.marks) -> [flag EXCEPT ![op.fn] = 1]
                     [] OTHER -> flag
        /\ host' = IF op.kind = "readback" THEN [host EXCEPT ![t].h_flag = flag[op.fn]] ELSE host
        /\ UNCHANGED <<last_error, scratch>>

-----------------------------------------------------------------------------
CallNext ==
    \/ \E t \in Callers :
          \/ \E f \in Functions, s \in Streams, marks \in Inputs, parallel \in BOOLEAN :
                Call(t, f, s, marks, parallel)
          \/ CopyTokens(t) \/ DeviceIntScratch(t) \/ ClearFlag(t) \/ LaunchKernel(t) \/ ReadBack(t)
          \/ Synchronize(t) \/ EnqueueZero(t) \/ EnqueuePool(t) \/ GoOn(t)
    \/ \E i \in DOMAIN pending : Execute(i)

CallSpec == CallInit /\ [][CallNext]_call_vars

-----------------------------------------------------------------------------
(* Properties.                                                              *)

\* A gather or fuse call whose CUDA calls all succeed reports exactly the fault of its
\* own input: not that of an earlier call, of another thread or of another function.
CallHonest ==
    \A t \in Callers :
        At(t, "returned") /\ host[t].fn \in Flagged /\ ~host[t].faulted =>
            (host[t].result <=> ~BadInput(host[t].fn, host[t].marks))

\* preprocess_cuda_kernels.cu:85: "k-th masked token in sequence order uses
\* image_features[:, k, :]", the others keep their embedding; and every token of a
\* gather has its row of the table.  Both whichever kernel ran, when the call succeeds.
EmbeddingsComplete ==
    \A t \in Callers : At(t, "returned") /\ host[t].result =>
        CASE host[t].fn = "gather" -> \A x \in Tokens : output[t][x] = <<"row">>
          [] host[t].fn = "fuse" ->
                \A x \in Tokens :
                    IF x \in host[t].marks
                    THEN output[t][x] = <<"image", Cardinality({y \in 1 .. x[2] - 1 : <<x[1], y>> \in host[t].marks})>>
                    ELSE output[t][x] = <<"text">>
          [] OTHER -> TRUE

\* A caller of the plugin that has synchronised its stream, and finds no CUDA error with
\* its thread, has every cell with points pooled and every other one zero.  That is so on
\* the streams that the default stream synchronises with.  On a non-blocking one, as the
\* engine's own is (tensorrt_engine.hpp:272), the zeroing (trt_bev_pool_kernel.cu:63) may
\* run after the pooling (:58) and even after the call: once it is over, pooled cells may
\* be zero, but no cell is left from an earlier frame.
PoolComplete ==
    \A t \in Callers : At(t, "returned") /\ host[t].fn = "pool" /\ ~last_error[t] =>
        /\ host[t].stream \notin NonBlocking =>
              output[t] = [x \in Tokens |-> IF x \in host[t].marks THEN <<"pooled">> ELSE <<"zero">>]
        /\ (\A i \in DOMAIN pending : pending[i].caller # t) =>
              \A x \in Tokens :
                  output[t][x] = <<"zero">> \/ (x \in host[t].marks /\ output[t][x] = <<"pooled">>)
=============================================================================
