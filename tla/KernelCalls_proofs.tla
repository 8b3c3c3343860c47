------------------------- MODULE KernelCalls_proofs -------------------------
(***************************************************************************)
(* What careful callers of the kernels find, for any number of threads,    *)
(* streams and tokens, whichever CUDA calls fail.                          *)
(***************************************************************************)
EXTENDS KernelCalls, FiniteSetTheorems, TLAPS

KindSet == {"copy", "zero", "memset", "kernel", "readback"}
StepSet == {"idle", "copy", "zero", "pool", "scratch", "memset", "launch", "readback", "sync", "returned"}
FunctionSet == {"gather", "fuse", "pool"}

\* The operations of a function in the order in which it issues them, and where a call
\* has got to in that order.
Rank(kind) ==
    IF kind \in {"copy", "zero"} THEN 1 ELSE IF kind = "memset" THEN 2 ELSE IF kind = "kernel" THEN 3 ELSE 4
Place(step) ==
    IF step \in {"idle", "copy", "zero"} THEN 1 ELSE IF step \in {"scratch", "memset"} THEN 2
    ELSE IF step \in {"launch", "pool"} THEN 3 ELSE IF step = "readback" THEN 4 ELSE 5
KindsOf(f) ==
    IF f = "pool" THEN {"zero", "kernel"}
    ELSE IF f = "fuse" THEN {"copy", "memset", "kernel", "readback"} ELSE {"memset", "kernel", "readback"}
StepsOf(f) ==
    IF f = "pool" THEN {"zero", "pool", "sync", "returned"}
    ELSE IF f = "fuse" THEN {"copy", "scratch", "memset", "launch", "readback", "sync", "returned"}
    ELSE {"scratch", "memset", "launch", "readback", "sync", "returned"}

Active(t) == ~At(t, "idle")
Hosts ==
    [step : StepSet, fn : FunctionSet \cup {None}, stream : Streams \cup {None}, marks : SUBSET Tokens,
     parallel : BOOLEAN, h_flag : {0, 1}, faulted : BOOLEAN, result : BOOLEAN]
Ops ==
    [kind : KindSet, caller : Callers, stream : Streams, fn : FunctionSet, marks : SUBSET Tokens,
     parallel : BOOLEAN]
CallsType ==
    /\ host \in [Callers -> Hosts] /\ last_error \in [Callers -> BOOLEAN]
    /\ pending \in Seq(Ops) /\ flag \in [Flagged -> {0, 1}]
    /\ output = [t \in Callers |-> output[t]]
    /\ \A t \in Callers : Active(t) =>
          host[t].fn \in FunctionSet /\ host[t].step \in StepsOf(host[t].fn) /\ host[t].stream \in Streams

\* Each function of the device flags has one caller at a time, and an error is left only
\* by a pooling or a call that has ended.
Alone ==
    /\ \A t, u \in Callers : t # u /\ Active(t) /\ Active(u) /\ host[t].fn = host[u].fn => host[t].fn = "pool"
    /\ \A t \in Callers : last_error[t] => Active(t) /\ (At(t, "returned") \/ host[t].fn = "pool")

\* What is pending is of the call its thread is in, in the order of the function.
OfItsCall(op) ==
    /\ Active(op.caller)
    /\ op.fn = host[op.caller].fn /\ op.marks = host[op.caller].marks /\ op.parallel = host[op.caller].parallel
    /\ op.kind \in KindsOf(op.fn) /\ Rank(op.kind) < Place(host[op.caller].step)
    /\ op.stream = IF op.kind = "zero" THEN Legacy ELSE host[op.caller].stream
InOrder ==
    /\ \A i \in DOMAIN pending : OfItsCall(pending[i])
    /\ \A i, j \in DOMAIN pending :
          i < j /\ pending[i].caller = pending[j].caller => Rank(pending[i].kind) < Rank(pending[j].kind)

Pending(t, kind) == \E i \in DOMAIN pending : pending[i].caller = t /\ pending[i].kind = kind
Issued(t, kind) == kind \in KindsOf(host[t].fn) /\ Rank(kind) < Place(host[t].step)
Executed(t, kind) == Issued(t, kind) /\ ~Pending(t, kind)

\* What has not been executed is the end of what was issued.
Suffix(t) ==
    \A k, l \in KindSet : Pending(t, k) /\ Rank(k) < Rank(l) /\ Issued(t, l) => Pending(t, l)

Bad(t) == BadInput(host[t].fn, host[t].marks)
Bit(b) == IF b THEN 1 ELSE 0
AllOf(value) == [x \in Tokens |-> value]
ImageOf(marks) == [x \in Tokens |-> IF x \in marks THEN <<"image", ImageIdx(marks, x)>> ELSE <<"text">>]
PoolOf(marks) == [x \in Tokens |-> IF x \in marks THEN <<"pooled">> ELSE <<"zero">>]
Final(t) ==
    IF host[t].fn = "gather" THEN AllOf(<<"row">>)
    ELSE IF host[t].fn = "fuse" THEN ImageOf(host[t].marks) ELSE PoolOf(host[t].marks)

\* What the operations executed so far have left behind.
Progress(t) ==
    /\ Executed(t, "copy") /\ ~Executed(t, "kernel") => output[t] = AllOf(<<"text">>)
    /\ Executed(t, "zero") /\ ~Executed(t, "kernel") => output[t] = AllOf(<<"zero">>)
    /\ Executed(t, "memset") /\ ~Executed(t, "kernel") => flag[host[t].fn] = 0
    /\ Executed(t, "kernel") /\ host[t].fn \in Flagged => flag[host[t].fn] = Bit(Bad(t))
    /\ Executed(t, "kernel") /\ ~Bad(t) => output[t] = Final(t)
    /\ Executed(t, "readback") => host[t].h_flag = Bit(Bad(t))

\* A pooling that lacks a launch, or whose launches nothing orders.
Loose(t) == host[t].fn = "pool" /\ (last_error[t] \/ host[t].stream \in NonBlocking)

\* What a call that has returned has left behind, unless a CUDA call failed in it.
Outcome(t) ==
    /\ host[t].faulted => host[t].fn \in Flagged /\ ~host[t].result
    /\ ~host[t].faulted /\ ~Loose(t) =>
          /\ \A k \in KindSet : ~Pending(t, k)
          /\ host[t].fn \in Flagged => (host[t].result <=> ~Bad(t))
          /\ ~Bad(t) => output[t] = Final(t)

Kept(t) ==
    Active(t) => IF At(t, "returned") THEN Outcome(t) ELSE Loose(t) \/ (Suffix(t) /\ Progress(t))

CallInv == CallsType /\ Alone /\ InOrder /\ \A t \in Callers : Kept(t)

\* Once the output of a pooling has been zeroed, on whichever stream it is pooled, no cell
\* is left from an earlier frame.
NotStale(t) ==
    \A x \in Tokens : output[t][x] = <<"zero">> \/ (x \in host[t].marks /\ output[t][x] = <<"pooled">>)
Zeroed(t) ==
    Active(t) /\ host[t].fn = "pool" /\ ~At(t, "zero") /\ ~last_error[t] /\ ~Pending(t, "zero")
Clean == \A t \in Callers : Zeroed(t) => NotStale(t)

-----------------------------------------------------------------------------
(* The operators of the model.                                              *)

LEMMA FunctionsAre == Functions \subseteq FunctionSet /\ Legacy \in Streams /\ Legacy \notin NonBlocking
  BY CallAssumption DEF FunctionSet

\* No two operations of a function have the same rank.
LEMMA KindRanks ==
    \A f \in FunctionSet :
        /\ KindsOf(f) \subseteq KindSet
        /\ \A k, l \in KindsOf(f) : Rank(k) = Rank(l) => k = l
  BY DEF FunctionSet, KindsOf, KindSet, Rank

LEMMA RankType == \A k \in KindSet : Rank(k) \in 1 .. 4
  BY DEF KindSet, Rank

LEMMA PendingOps ==
    ASSUME CallsType, NEW i \in DOMAIN pending
    PROVE  pending[i] \in Ops /\ pending[i].caller \in Callers /\ pending[i].kind \in KindSet
<1>1. pending \in Seq(Ops) BY DEF CallsType
<1>2. pending[i] \in Ops BY <1>1
<1> QED BY <1>2 DEF Ops

LEMMA TokensFinite == IsFiniteSet(Tokens)
<1>1. IsFiniteSet(1 .. Rows) /\ IsFiniteSet(1 .. SeqLen) BY CallAssumption, FS_Interval
<1> QED BY <1>1, FS_Product DEF Tokens

LEMMA RowMarksFinite ==
    ASSUME NEW marks \in SUBSET Tokens, NEW row
    PROVE  IsFiniteSet(RowMarks(marks, row)) /\ Cardinality(RowMarks(marks, row)) \in Nat
<1>1. RowMarks(marks, row) \in SUBSET Tokens BY DEF RowMarks
<1> QED BY <1>1, TokensFinite, FS_Subset, FS_CardinalityType

\* The mark x is not among those before it, so that fewer than all have a feature before.
LEMMA ImageIdxBelow ==
    ASSUME NEW marks \in SUBSET Tokens, NEW x \in marks
    PROVE  ImageIdx(marks, x) \in Nat /\ ImageIdx(marks, x) < Cardinality(RowMarks(marks, x[1]))
<1> DEFINE row == RowMarks(marks, x[1])
           before == {y \in row : y[2] < x[2]}
<1>1. IsFiniteSet(row) /\ Cardinality(row) \in Nat BY RowMarksFinite
<1>2. x \in row /\ x \notin before
  <2>1. x \in Tokens /\ x[2] \in Int BY CallAssumption DEF Tokens
  <2> QED BY <2>1 DEF RowMarks
<1>3. before \in SUBSET row /\ before # row BY <1>2
<1> HIDE DEF row, before
<1>4. Cardinality(before) \in Nat /\ Cardinality(before) <= Cardinality(row) /\ Cardinality(before) # Cardinality(row)
  BY <1>1, <1>3, FS_Subset, FS_CardinalityType
<1> QED BY <1>1, <1>4 DEF ImageIdx, row, before

\* Of rows with no more marks than features, both fuse kernels store every mark.
LEMMA FuseStoresMarks ==
    ASSUME NEW op \in Ops, op.kind = "kernel", op.fn = "fuse", ~BadInput("fuse", op.marks)
    PROVE  StoredTo(op) = op.marks
<1>1. op.marks \in SUBSET Tokens /\ op.parallel \in BOOLEAN BY DEF Ops
<1>2. \A x \in op.marks : ~Overflows(op.marks, x[1])
  <2>1. \A x \in op.marks : x[1] \in 1 .. Rows BY <1>1 DEF Tokens
  <2> QED BY <2>1 DEF BadInput
<1>3. \A x \in op.marks : ImageIdx(op.marks, x) < ImageTokenCount
  <2> TAKE x \in op.marks
  <2>1. Cardinality(RowMarks(op.marks, x[1])) \in Nat /\ Cardinality(RowMarks(op.marks, x[1])) <= ImageTokenCount
    BY <1>1, <1>2, RowMarksFinite, CallAssumption DEF Overflows
  <2>2. ImageIdx(op.marks, x) \in Nat /\ ImageIdx(op.marks, x) < Cardinality(RowMarks(op.marks, x[1]))
    BY <1>1, ImageIdxBelow
  <2> QED BY <2>1, <2>2, CallAssumption
<1>4. CASE op.parallel
  <2>1. StoredTo(op) = {x \in op.marks : ~Overflows(op.marks, x[1])} BY <1>4 DEF StoredTo
  <2> QED BY <1>2, <2>1
<1>5. CASE ~op.parallel
  <2>1. StoredTo(op) = {x \in op.marks : ImageIdx(op.marks, x) < ImageTokenCount} BY <1>5 DEF StoredTo
  <2> QED BY <1>3, <2>1
<1> QED BY <1>1, <1>4, <1>5

\* The feature of a mark is the number of marks before it in its row.
LEMMA ImageIdxCounts ==
    ASSUME NEW marks \in SUBSET Tokens, NEW x \in marks
    PROVE  ImageIdx(marks, x) = Cardinality({y \in 1 .. x[2] - 1 : <<x[1], y>> \in marks})
<1> DEFINE before == {y \in RowMarks(marks, x[1]) : y[2] < x[2]}
           columns == {y \in 1 .. x[2] - 1 : <<x[1], y>> \in marks}
           f == [c \in columns |-> <<x[1], c>>]
<1>1. x[1] \in Int /\ x[2] \in Int BY CallAssumption DEF Tokens
<1>2. \A c \in columns : <<x[1], c>> \in before BY <1>1 DEF RowMarks
<1>3. \A y \in before : y[2] \in columns /\ y = <<x[1], y[2]>>
  <2> TAKE y \in before
  <2>1. y \in marks /\ y \in Tokens /\ y[1] = x[1] /\ y[2] < x[2] BY DEF RowMarks
  <2>2. y[2] \in 1 .. SeqLen /\ y = <<y[1], y[2]>> BY <2>1 DEF Tokens
  <2>3. y = <<x[1], y[2]>> BY <2>1, <2>2
  <2>4. y[2] \in 1 .. x[2] - 1 BY <1>1, <2>1, <2>2
  <2> QED BY <2>1, <2>3, <2>4
<1> HIDE DEF before, columns
<1>4. f \in [columns -> before] BY <1>2
<1>5. IsInjective(f) BY DEF IsInjective
<1>6. \A y \in before : \E c \in columns : f[c] = y BY <1>3
<1>7. f \in Bijection(columns, before) BY <1>4, <1>5, <1>6 DEF Bijection, Injection, Surjection
<1>8. ExistsBijection(columns, before) BY <1>7 DEF ExistsBijection
<1>9. IsFiniteSet(columns)
  <2>1. columns \in SUBSET (1 .. x[2] - 1) BY DEF columns
  <2>2. IsFiniteSet(1 .. x[2] - 1) BY <1>1, FS_Interval
  <2> QED BY <2>1, <2>2, FS_Subset
<1>10. Cardinality(before) = Cardinality(columns) BY <1>8, <1>9, FS_Bijection
<1> QED BY <1>10 DEF ImageIdx, before, columns

-----------------------------------------------------------------------------
(* The callers that a step leaves alone.                                    *)

LEMMA KeptAlone ==
    ASSUME NEW u \in Callers, host'[u] = host[u], output'[u] = output[u], last_error'[u] = last_error[u],
           host[u].fn \in Flagged /\ Active(u) => flag'[host[u].fn] = flag[host[u].fn],
           \A k \in KindSet : Pending(u, k)' <=> Pending(u, k),
           Active(u) => host[u].fn \in FunctionSet, Kept(u)
    PROVE  Kept(u)'
<1> SUFFICES ASSUME Active(u)
             PROVE  IF At(u, "returned") THEN Outcome(u)' ELSE Loose(u)' \/ (Suffix(u)' /\ Progress(u)')
  BY DEF Kept, At, Active
<1>0. Loose(u)' <=> Loose(u) BY DEF Loose
<1>1. \A k \in KindSet : (Issued(u, k)' <=> Issued(u, k)) /\ (Executed(u, k)' <=> Executed(u, k))
  BY DEF Issued, Executed
<1>2. (Bad(u)' <=> Bad(u)) /\ Final(u)' = Final(u)
  <2>1. Final(u)' = Final(u) BY DEF Final
  <2>2. Bad(u)' <=> Bad(u) BY Zenon DEF Bad
  <2> QED BY <2>1, <2>2
<1>3. CASE At(u, "returned")
  <2>1. Outcome(u) BY <1>3 DEF Kept
  <2>2. Outcome(u)' BY <1>0, <1>2, <2>1 DEF Outcome
  <2> QED BY <1>3, <2>2
<1>4. CASE ~At(u, "returned") /\ ~Loose(u)
  <2>1. Suffix(u) /\ Progress(u) BY <1>4 DEF Kept
  <2>2. Suffix(u)' BY <1>1, <2>1 DEF Suffix
  <2>3. {"copy", "zero", "memset", "kernel", "readback"} \subseteq KindSet BY DEF KindSet
  <2>4. Executed(u, "memset") => host[u].fn \in Flagged
    BY DEF Executed, Issued, KindsOf, FunctionSet, Flagged
  <2>5. Progress(u)' BY <1>1, <1>2, <2>1, <2>3, <2>4 DEF Progress, Bit
  <2> QED BY <1>4, <2>2, <2>5
<1> QED BY <1>0, <1>3, <1>4

-----------------------------------------------------------------------------
(* Steps of the host.                                                       *)

\* The record of t after a step that moves it on, or ends its call.
LEMMA GotoRecord ==
    ASSUME CallsType, NEW t \in Callers, NEW step \in StepSet, Goto(t, step)
    PROVE  /\ host' \in [Callers -> Hosts] /\ \A u \in Callers \ {t} : host'[u] = host[u]
           /\ host'[t].step = step /\ host'[t].fn = host[t].fn /\ host'[t].stream = host[t].stream
           /\ host'[t].marks = host[t].marks /\ host'[t].parallel = host[t].parallel
           /\ host'[t].h_flag = host[t].h_flag /\ host'[t].faulted = host[t].faulted
           /\ host'[t].result = host[t].result
<1> DEFINE h == [host[t] EXCEPT !.step = step]
<1>1. host' = [host EXCEPT ![t] = h] BY DEF Goto
<1>2. host[t] \in Hosts BY DEF CallsType
<1>3. /\ h \in Hosts /\ h.step = step /\ h.fn = host[t].fn /\ h.stream = host[t].stream
      /\ h.marks = host[t].marks /\ h.parallel = host[t].parallel /\ h.h_flag = host[t].h_flag
      /\ h.faulted = host[t].faulted /\ h.result = host[t].result
  BY <1>2 DEF Hosts
<1> HIDE DEF h
<1> QED BY <1>1, <1>3 DEF CallsType

LEMMA ReturnedRecord ==
    ASSUME CallsType, NEW t \in Callers, NEW result \in BOOLEAN, NEW faulted \in BOOLEAN,
           host' = Returned(t, result, faulted)
    PROVE  /\ host' \in [Callers -> Hosts] /\ \A u \in Callers \ {t} : host'[u] = host[u]
           /\ host'[t].step = "returned" /\ host'[t].fn = host[t].fn /\ host'[t].stream = host[t].stream
           /\ host'[t].marks = host[t].marks /\ host'[t].parallel = host[t].parallel
           /\ host'[t].faulted = faulted /\ host'[t].result = result
<1> DEFINE h == [host[t] EXCEPT !.step = "returned", !.result = result, !.faulted = faulted]
<1>1. host' = [host EXCEPT ![t] = h] BY DEF Returned
<1>2. host[t] \in Hosts BY DEF CallsType
<1>3. /\ h \in Hosts /\ h.step = "returned" /\ h.fn = host[t].fn /\ h.stream = host[t].stream
      /\ h.marks = host[t].marks /\ h.parallel = host[t].parallel
      /\ h.faulted = faulted /\ h.result = result
  BY <1>2 DEF Hosts, StepSet
<1> HIDE DEF h
<1> QED BY <1>1, <1>3 DEF CallsType

\* A call in which a CUDA call has failed is over, whatever of it is pending.
LEMMA FaultStep ==
    ASSUME CallInv, NEW t \in Callers, Active(t), host[t].fn \in Flagged,
           host' = Returned(t, FALSE, TRUE), last_error' \in [Callers -> BOOLEAN],
           \A u \in Callers \ {t} : last_error'[u] = last_error[u],
           UNCHANGED <<pending, flag, output>>
    PROVE  CallInv'
<1>1. CallsType /\ Alone /\ InOrder /\ \A u \in Callers : Kept(u) BY DEF CallInv
<1>2. /\ host' \in [Callers -> Hosts] /\ \A u \in Callers \ {t} : host'[u] = host[u]
      /\ host'[t].step = "returned" /\ host'[t].fn = host[t].fn /\ host'[t].stream = host[t].stream
      /\ host'[t].marks = host[t].marks /\ host'[t].parallel = host[t].parallel
      /\ host'[t].faulted = TRUE /\ host'[t].result = FALSE
  BY <1>1, ReturnedRecord
<1>3. \A u \in Callers : Active(u)' <=> Active(u) BY <1>2 DEF Active, At
<1>4. CallsType'
  <2>1. "returned" \in StepsOf(host[t].fn) BY DEF StepsOf
  <2>2. \A u \in Callers : Active(u)' =>
            host'[u].fn \in FunctionSet /\ host'[u].step \in StepsOf(host'[u].fn) /\ host'[u].stream \in Streams
    BY <1>1, <1>2, <1>3, <2>1 DEF CallsType
  <2> QED BY <1>1, <1>2, <2>2 DEF CallsType
<1>5. Alone'
  <2>1. \A u \in Callers : last_error'[u] => Active(u)' /\ (At(u, "returned")' \/ host'[u].fn = "pool")
    BY <1>1, <1>2, <1>3 DEF Alone, At
  <2>2. \A u \in Callers : host'[u].fn = host[u].fn /\ host'[u].stream = host[u].stream BY <1>2
  <2> QED BY <1>1, <1>3, <2>1, <2>2 DEF Alone
<1>6. InOrder'
  <2>1. ASSUME NEW i \in DOMAIN pending PROVE OfItsCall(pending[i])'
    <3>1. OfItsCall(pending[i]) /\ pending[i] \in Ops BY <1>1 DEF InOrder, CallsType
    <3>2. pending[i].caller \in Callers /\ pending[i].kind \in KindSet BY <3>1 DEF Ops
    <3>3. Rank(pending[i].kind) < Place("returned") BY <3>2 DEF KindSet, Rank, Place
    <3> QED BY <1>2, <1>3, <3>1, <3>2, <3>3 DEF OfItsCall
  <2> QED BY <1>1, <2>1 DEF InOrder
<1>7. \A u \in Callers, k \in KindSet : Pending(u, k)' <=> Pending(u, k) BY DEF Pending
<1>8. ASSUME NEW u \in Callers PROVE Kept(u)'
  <2>1. CASE u = t BY <1>2, <2>1 DEF Kept, Outcome, At
  <2>2. CASE u # t
    <3>1. Active(u) => host[u].fn \in FunctionSet BY <1>1 DEF CallsType
    <3> QED BY <1>1, <1>2, <1>7, <2>2, <3>1, KeptAlone
  <2> QED BY <2>1, <2>2
<1> QED BY <1>4, <1>5, <1>6, <1>8 DEF CallInv

\* A step of a call that issues its next operation.
LEMMA IssueStep ==
    ASSUME CallInv, NEW t \in Callers, Active(t), ~At(t, "returned"),
           NEW kind \in KindsOf(host[t].fn), Place(host[t].step) <= Rank(kind),
           NEW next \in StepsOf(host[t].fn), next # "returned",
           \A k \in KindsOf(host[t].fn) : Rank(k) < Place(next) <=> (Rank(k) < Place(host[t].step) \/ k = kind),
           pending' = Append(pending, Op(t, kind, IF kind = "zero" THEN Legacy ELSE host[t].stream)),
           Goto(t, next), last_error' \in [Callers -> BOOLEAN],
           \A u \in Callers : last_error'[u] => last_error[u],
           host[t].fn = "pool" => last_error'[t] = last_error[t],
           \A u \in Callers \ {t} : last_error'[u] = last_error[u], UNCHANGED <<flag, output>>
    PROVE  CallInv'
<1> DEFINE on == IF kind = "zero" THEN Legacy ELSE host[t].stream
           op == Op(t, kind, on)
<1>1. CallsType /\ Alone /\ InOrder /\ \A u \in Callers : Kept(u) BY DEF CallInv
<1>2. host[t] \in Hosts /\ host[t].fn \in FunctionSet /\ host[t].stream \in Streams BY <1>1 DEF CallsType
<1>3. next \in StepSet /\ next # "idle" BY DEF StepsOf, StepSet
<1>4. kind \in KindSet /\ on \in Streams BY <1>2, FunctionsAre DEF KindsOf, KindSet
<1>5. /\ host' \in [Callers -> Hosts] /\ \A u \in Callers \ {t} : host'[u] = host[u]
      /\ host'[t].step = next /\ host'[t].fn = host[t].fn /\ host'[t].stream = host[t].stream
      /\ host'[t].marks = host[t].marks /\ host'[t].parallel = host[t].parallel
      /\ host'[t].h_flag = host[t].h_flag
  BY <1>1, <1>3, GotoRecord
<1>6. /\ op \in Ops /\ op.kind = kind /\ op.caller = t /\ op.fn = host[t].fn /\ op.stream = on
      /\ op.marks = host[t].marks /\ op.parallel = host[t].parallel
  BY <1>2, <1>4 DEF Op, Ops, Hosts
<1>7. pending \in Seq(Ops) /\ pending' = Append(pending, op) BY <1>1 DEF CallsType
<1> HIDE DEF op
<1>8. /\ pending' \in Seq(Ops) /\ Len(pending') = Len(pending) + 1 /\ pending'[Len(pending) + 1] = op
      /\ Len(pending) \in Nat /\ DOMAIN pending = 1 .. Len(pending)
      /\ DOMAIN pending' = 1 .. Len(pending) + 1
      /\ \A i \in DOMAIN pending : pending'[i] = pending[i] /\ pending[i] \in Ops
  BY <1>6, <1>7
<1>9. \A u \in Callers : Active(u)' <=> Active(u) BY <1>3, <1>5 DEF Active, At
<1>10. \A u \in Callers, k \in KindSet : Pending(u, k)' <=> Pending(u, k) \/ (u = t /\ k = kind)
  <2> TAKE u \in Callers, k \in KindSet
  <2>1. ASSUME Pending(u, k)' PROVE Pending(u, k) \/ (u = t /\ k = kind)
    <3>1. PICK i \in DOMAIN pending' : pending'[i].caller = u /\ pending'[i].kind = k BY <2>1 DEF Pending
    <3>2. CASE i = Len(pending) + 1 BY <1>6, <1>8, <3>1, <3>2
    <3>3. CASE i # Len(pending) + 1
      <4>1. i \in DOMAIN pending BY <1>8, <3>3
      <4> QED BY <1>8, <3>1, <4>1 DEF Pending
    <3> QED BY <3>2, <3>3
  <2>2. ASSUME Pending(u, k) PROVE Pending(u, k)'
    <3>1. PICK i \in DOMAIN pending : pending[i].caller = u /\ pending[i].kind = k BY <2>2 DEF Pending
    <3>2. i \in DOMAIN pending' BY <1>8
    <3> QED BY <1>8, <3>1, <3>2 DEF Pending
  <2>3. ASSUME u = t, k = kind PROVE Pending(u, k)'
    <3>1. Len(pending) + 1 \in DOMAIN pending' BY <1>8
    <3> QED BY <1>6, <1>8, <2>3, <3>1 DEF Pending
  <2> QED BY <2>1, <2>2, <2>3
<1>11. CallsType'
  <2>1. \A u \in Callers : Active(u)' =>
            host'[u].fn \in FunctionSet /\ host'[u].step \in StepsOf(host'[u].fn) /\ host'[u].stream \in Streams
    BY <1>1, <1>5, <1>9 DEF CallsType
  <2> QED BY <1>1, <1>5, <1>8, <2>1 DEF CallsType
<1>12. Alone'
  <2>1. \A u \in Callers : last_error'[u] => Active(u)' /\ (At(u, "returned")' \/ host'[u].fn = "pool")
    BY <1>1, <1>5, <1>9 DEF Alone, At
  <2>2. \A u \in Callers : host'[u].fn = host[u].fn /\ host'[u].stream = host[u].stream BY <1>5
  <2> QED BY <1>1, <1>9, <2>1, <2>2 DEF Alone
<1>13. Place(host[t].step) \in 1 .. 5 /\ Rank(kind) \in 1 .. 4 BY <1>4, RankType DEF Place
<1>14. InOrder'
  <2>1. ASSUME NEW i \in DOMAIN pending PROVE OfItsCall(pending[i])'
    <3>1. OfItsCall(pending[i]) /\ pending[i] \in Ops /\ pending'[i] = pending[i] BY <1>1, <1>8 DEF InOrder
    <3>2. pending[i].caller \in Callers /\ Rank(pending[i].kind) \in 1 .. 4 BY <3>1, RankType DEF Ops
    <3>3. Rank(pending[i].kind) < Place(host'[pending[i].caller].step) BY <1>5, <3>1, <3>2 DEF OfItsCall
    <3> QED BY <1>5, <1>9, <3>1, <3>2, <3>3 DEF OfItsCall
  <2>2. ASSUME NEW i \in DOMAIN pending', i \notin DOMAIN pending PROVE OfItsCall(pending[i])'
    <3>1. pending'[i] = op BY <1>8, <2>2
    <3>2. Rank(kind) < Place(next) OBVIOUS
    <3> QED BY <1>4, <1>5, <1>6, <1>9, <3>1, <3>2 DEF OfItsCall
  <2>3. ASSUME NEW i \in DOMAIN pending, pending[i].caller = t PROVE Rank(pending[i].kind) < Rank(kind)
    <3>1. Rank(pending[i].kind) < Place(host[t].step) BY <1>1, <2>3 DEF InOrder, OfItsCall
    <3>2. Rank(pending[i].kind) \in 1 .. 4 BY <1>1, PendingOps, RankType
    <3> QED BY <1>13, <3>1, <3>2
  <2>4. ASSUME NEW i \in DOMAIN pending', NEW j \in DOMAIN pending', i < j, pending'[i].caller = pending'[j].caller
        PROVE  Rank(pending'[i].kind) < Rank(pending'[j].kind)
    <3>1. i \in DOMAIN pending BY <1>8, <2>4
    <3>2. CASE j \in DOMAIN pending BY <1>1, <1>8, <2>4, <3>1, <3>2 DEF InOrder
    <3>3. CASE j \notin DOMAIN pending
      <4>1. j = Len(pending) + 1 BY <1>8, <3>3
      <4> QED BY <1>6, <1>8, <2>3, <2>4, <3>1, <4>1
    <3> QED BY <3>2, <3>3
  <2> QED BY <2>1, <2>2, <2>4 DEF InOrder
<1>15. CASE Loose(t)
  <2>1. Kept(t)' BY <1>5, <1>15 DEF Kept, Loose, At
  <2>2. ASSUME NEW u \in Callers \ {t} PROVE Kept(u)'
    <3>1. Active(u) => host[u].fn \in FunctionSet BY <1>1 DEF CallsType
    <3> QED BY <1>1, <1>5, <1>10, <3>1, KeptAlone
  <2> QED BY <1>11, <1>12, <1>14, <2>1, <2>2 DEF CallInv
<1>16. ASSUME ~Loose(t) PROVE Kept(t)'
  <2>1. Suffix(t) /\ Progress(t) BY <1>1, <1>16 DEF Kept
  <2>2. \A k \in KindSet : Issued(t, k)' <=> Issued(t, k) \/ k = kind BY <1>5 DEF Issued
  <2>3. ~Issued(t, kind) BY <1>13 DEF Issued
  <2>4. \A k \in KindSet : Executed(t, k)' <=> Executed(t, k) BY <1>10, <2>2, <2>3 DEF Executed
  <2>5. Suffix(t)'
    <3> SUFFICES ASSUME NEW k \in KindSet, NEW l \in KindSet, Pending(t, k)', Rank(k) < Rank(l), Issued(t, l)'
                 PROVE  Pending(t, l)'
      BY DEF Suffix
    <3>1. CASE l = kind BY <1>10, <3>1
    <3>2. CASE l # kind
      <4>1. Issued(t, l) BY <2>2, <3>2
      <4>2. k # kind
        <5>1. Rank(k) \in 1 .. 4 /\ Rank(l) \in 1 .. 4 BY RankType
        <5> QED BY <1>13, <4>1, <5>1 DEF Issued
      <4> QED BY <1>10, <2>1, <4>1, <4>2 DEF Suffix
    <3> QED BY <3>1, <3>2
  <2>6. (Bad(t)' <=> Bad(t)) /\ Final(t)' = Final(t)
    <3>1. Final(t)' = Final(t) BY <1>5 DEF Final
    <3>2. Bad(t)' <=> Bad(t) BY <1>5, Zenon DEF Bad
    <3> QED BY <3>1, <3>2
  <2>7. {"copy", "zero", "memset", "kernel", "readback"} \subseteq KindSet BY DEF KindSet
  <2>8. Progress(t)' BY <1>5, <2>1, <2>4, <2>6, <2>7 DEF Progress, Bit
  <2> QED BY <1>5, <2>5, <2>8 DEF Kept, At
<1>17. ASSUME NEW u \in Callers \ {t} PROVE Kept(u)'
  <2>1. Active(u) => host[u].fn \in FunctionSet BY <1>1 DEF CallsType
  <2> QED BY <1>1, <1>5, <1>10, <2>1, KeptAlone
<1> QED BY <1>11, <1>12, <1>14, <1>15, <1>16, <1>17 DEF CallInv

\* The steps of the functions with a flag, which issue their operations one by one.
LEMMA IssueNextStep ==
    ASSUME CallInv, NEW t \in Callers, Active(t), ~At(t, "returned"), host[t].fn \in Flagged,
           NEW kind \in KindsOf(host[t].fn), Rank(kind) = Place(host[t].step),
           NEW next \in StepsOf(host[t].fn), next # "returned", Place(next) = Place(host[t].step) + 1,
           Issue(t, kind), Goto(t, next), last_error' \in [Callers -> BOOLEAN],
           \A u \in Callers : last_error'[u] => last_error[u],
           \A u \in Callers \ {t} : last_error'[u] = last_error[u], UNCHANGED <<flag, output>>
    PROVE  CallInv'
<1>1. host[t].fn \in FunctionSet /\ host[t].fn # "pool" BY DEF CallInv, CallsType, Flagged
<1>2. kind # "zero" BY <1>1 DEF KindsOf, Flagged
<1>3. pending' = Append(pending, Op(t, kind, IF kind = "zero" THEN Legacy ELSE host[t].stream))
  BY <1>2 DEF Issue
<1>4. Place(host[t].step) \in 1 .. 5 BY DEF Place
<1>5. ASSUME NEW k \in KindsOf(host[t].fn)
      PROVE  Rank(k) < Place(next) <=> (Rank(k) < Place(host[t].step) \/ k = kind)
  <2>1. Rank(k) \in 1 .. 4 /\ (Rank(k) = Rank(kind) => k = kind) BY <1>1, KindRanks, RankType
  <2> QED BY <1>4, <2>1
<1> QED BY <1>1, <1>3, <1>4, <1>5, IssueStep

LEMMA CallStep ==
    ASSUME CallInv, Careful, NEW t \in Callers, NEW f \in Functions, NEW s \in Streams, NEW marks \in Inputs,
           NEW parallel \in BOOLEAN, Call(t, f, s, marks, parallel)
    PROVE  CallInv'
<1> DEFINE first == FirstStep[f]
           h == [Idle EXCEPT !.step = first, !.fn = f, !.stream = s, !.marks = marks, !.parallel = parallel]
<1>1. CallsType /\ Alone /\ InOrder /\ \A u \in Callers : Kept(u) BY DEF CallInv
<1>2. /\ ~Active(t) /\ host' = [host EXCEPT ![t] = h] /\ MayCall(f)
      /\ output' = [output EXCEPT ![t] = [x \in Tokens |-> <<"stale">>]]
      /\ UNCHANGED <<last_error, pending, flag>>
  BY DEF Call, Active
<1>3. f \in FunctionSet /\ marks \in SUBSET Tokens BY FunctionsAre, CallAssumption DEF Tokens
<1>4. /\ first \in StepsOf(f) /\ first \in StepSet /\ first # "idle" /\ first # "returned"
      /\ \A k \in KindsOf(f) : Place(first) <= Rank(k)
  <2>1. CASE f = "gather" BY <2>1 DEF FirstStep, StepsOf, StepSet, KindsOf, Place, Rank
  <2>2. CASE f = "fuse" BY <2>2 DEF FirstStep, StepsOf, StepSet, KindsOf, Place, Rank
  <2>3. CASE f = "pool" BY <2>3 DEF FirstStep, StepsOf, StepSet, KindsOf, Place, Rank
  <2> QED BY <1>3, <2>1, <2>2, <2>3 DEF FunctionSet
<1> HIDE DEF first
<1>5. h \in Hosts /\ h.step = first /\ h.fn = f /\ h.stream = s /\ h.marks = marks
  BY <1>3, <1>4 DEF Idle, Hosts
<1> HIDE DEF h
<1>6. host' \in [Callers -> Hosts] /\ host'[t] = h /\ \A u \in Callers \ {t} : host'[u] = host[u]
  BY <1>1, <1>2, <1>5 DEF CallsType
<1>7. output' = [u \in Callers |-> output'[u]] /\ \A u \in Callers \ {t} : output'[u] = output[u]
  BY <1>1, <1>2 DEF CallsType
<1>8. Active(t)' /\ ~At(t, "returned")' /\ \A u \in Callers \ {t} : Active(u)' <=> Active(u)
  BY <1>4, <1>5, <1>6 DEF Active, At
<1>9. CallsType'
  <2>1. \A u \in Callers : Active(u)' =>
            host'[u].fn \in FunctionSet /\ host'[u].step \in StepsOf(host'[u].fn) /\ host'[u].stream \in Streams
    BY <1>1, <1>3, <1>4, <1>5, <1>6, <1>8 DEF CallsType
  <2> QED BY <1>1, <1>2, <1>6, <1>7, <2>1 DEF CallsType
<1>10. Alone'
  <2>1. f # "pool" => \A u \in Callers : host[u].fn # f BY <1>2, <1>3 DEF MayCall, FunctionSet, Flagged
  <2>3. \A u \in Callers : last_error'[u] => Active(u)' /\ (At(u, "returned")' \/ host'[u].fn = "pool")
    BY <1>1, <1>2, <1>6, <1>8 DEF Alone, At
  <2>4. \A u, w \in Callers : u # w /\ Active(u)' /\ Active(w)' /\ host'[u].fn = host'[w].fn => host'[u].fn = "pool"
    BY <1>1, <1>5, <1>6, <1>8, <2>1 DEF Alone
  <2> QED BY <2>3, <2>4 DEF Alone
<1>11. ASSUME NEW i \in DOMAIN pending PROVE pending[i].caller \in Callers \ {t}
  <2>1. Active(pending[i].caller) BY <1>1 DEF InOrder, OfItsCall
  <2> QED BY <1>1, <1>2, <2>1, PendingOps
<1>12. InOrder'
  <2>1. ASSUME NEW i \in DOMAIN pending PROVE OfItsCall(pending[i])'
    <3>1. OfItsCall(pending[i]) BY <1>1 DEF InOrder
    <3> QED BY <1>2, <1>6, <1>8, <1>11, <3>1 DEF OfItsCall
  <2> QED BY <1>1, <1>2, <2>1 DEF InOrder
<1>13. \A u \in Callers, k \in KindSet : Pending(u, k)' <=> Pending(u, k) BY <1>2 DEF Pending
<1>14. Kept(t)'
  <2>1. \A k \in KindSet : ~Issued(t, k)'
    <3> TAKE k \in KindSet
    <3>1. Rank(k) \in 1 .. 4 /\ Place(first) \in 1 .. 5 BY RankType DEF Place
    <3> QED BY <1>4, <1>5, <1>6, <3>1 DEF Issued
  <2>2. {"copy", "zero", "memset", "kernel", "readback"} \subseteq KindSet BY DEF KindSet
  <2>3. Suffix(t)' BY <2>1 DEF Suffix
  <2>4. Progress(t)' BY <2>1, <2>2 DEF Progress, Executed
  <2> QED BY <1>8, <2>3, <2>4 DEF Kept
<1>15. ASSUME NEW u \in Callers \ {t} PROVE Kept(u)'
  <2>1. Active(u) => host[u].fn \in FunctionSet BY <1>1 DEF CallsType
  <2> QED BY <1>1, <1>2, <1>6, <1>7, <1>13, <2>1, KeptAlone
<1> QED BY <1>9, <1>10, <1>12, <1>14, <1>15 DEF CallInv

\* What the place of a call in its function says of it.
LEMMA PlaceFacts ==
    ASSUME CallInv, NEW t \in Callers, Active(t)
    PROVE  /\ host[t].fn \in FunctionSet /\ host[t].step \in StepsOf(host[t].fn)
           /\ At(t, "copy") => host[t].fn = "fuse" /\ ~At(t, "returned")
           /\ At(t, "zero") \/ At(t, "pool") => host[t].fn = "pool" /\ ~At(t, "returned")
           /\ host[t].step \in {"scratch", "memset", "launch", "readback"} =>
                 host[t].fn \in Flagged /\ ~At(t, "returned")
           /\ ~At(t, "returned") /\ host[t].fn \in Flagged => ~last_error[t]
<1>1. host[t].fn \in FunctionSet /\ host[t].step \in StepsOf(host[t].fn) BY DEF CallInv, CallsType
<1>2. ~At(t, "returned") /\ host[t].fn \in Flagged => ~last_error[t] BY DEF CallInv, Alone, Flagged
<1> QED BY <1>1, <1>2 DEF StepsOf, FunctionSet, Flagged, At

LEMMA FailStep ==
    ASSUME CallInv, NEW t \in Callers, Active(t), host[t].fn \in Flagged, NEW fault, Fail(t, fault),
           UNCHANGED <<flag, output>>
    PROVE  CallInv'
<1>1. /\ host' = Returned(t, FALSE, TRUE) /\ pending' = pending
      /\ last_error' = [last_error EXCEPT ![t] = TRUE]
  BY DEF Fail
<1>2. last_error \in [Callers -> BOOLEAN] BY DEF CallInv, CallsType
<1>3. last_error' \in [Callers -> BOOLEAN] /\ \A u \in Callers \ {t} : last_error'[u] = last_error[u]
  BY <1>1, <1>2
<1> QED BY <1>1, <1>3, FaultStep

LEMMA LastErrorType == CallInv => last_error \in [Callers -> BOOLEAN]
  BY DEF CallInv, CallsType

LEMMA CopyTokensStep ==
    ASSUME CallInv, NEW t \in Callers, CopyTokens(t)
    PROVE  CallInv'
<1>1. At(t, "copy") /\ IssueOrFail(t, "copy", "scratch") /\ UNCHANGED <<flag, output>> BY DEF CopyTokens
<1>2. Active(t) BY <1>1 DEF Active, At
<1>3. host[t].fn = "fuse" /\ ~At(t, "returned") BY <1>1, <1>2, PlaceFacts
<1>4. host[t].fn \in Flagged /\ "copy" \in KindsOf(host[t].fn) /\ "scratch" \in StepsOf(host[t].fn)
  BY <1>3 DEF Flagged, KindsOf, StepsOf
<1>5. Rank("copy") = Place(host[t].step) /\ Place("scratch") = Place(host[t].step) + 1
  BY <1>1 DEF Rank, Place, At
<1>6. CASE Issue(t, "copy") /\ Goto(t, "scratch") /\ UNCHANGED last_error
  BY <1>1, <1>2, <1>3, <1>4, <1>5, <1>6, LastErrorType, IssueNextStep
<1>7. CASE Fail(t, "call") BY <1>1, <1>2, <1>4, <1>7, FailStep
<1> QED BY <1>1, <1>6, <1>7 DEF IssueOrFail

LEMMA ClearFlagStep ==
    ASSUME CallInv, NEW t \in Callers, ClearFlag(t)
    PROVE  CallInv'
<1>1. At(t, "memset") /\ IssueOrFail(t, "memset", "launch") /\ UNCHANGED <<flag, output>> BY DEF ClearFlag
<1>2. Active(t) BY <1>1 DEF Active, At
<1>3. host[t].fn \in Flagged /\ ~At(t, "returned") BY <1>1, <1>2, PlaceFacts DEF At
<1>4. "memset" \in KindsOf(host[t].fn) /\ "launch" \in StepsOf(host[t].fn)
  BY <1>3 DEF Flagged, KindsOf, StepsOf
<1>5. Rank("memset") = Place(host[t].step) /\ Place("launch") = Place(host[t].step) + 1
  BY <1>1 DEF Rank, Place, At
<1>6. CASE Issue(t, "memset") /\ Goto(t, "launch") /\ UNCHANGED last_error
  BY <1>1, <1>2, <1>3, <1>4, <1>5, <1>6, LastErrorType, IssueNextStep
<1>7. CASE Fail(t, "call") BY <1>1, <1>2, <1>3, <1>7, FailStep
<1> QED BY <1>1, <1>6, <1>7 DEF IssueOrFail

LEMMA ReadBackStep ==
    ASSUME CallInv, NEW t \in Callers, ReadBack(t)
    PROVE  CallInv'
<1>1. At(t, "readback") /\ IssueOrFail(t, "readback", "sync") /\ UNCHANGED <<flag, output>> BY DEF ReadBack
<1>2. Active(t) BY <1>1 DEF Active, At
<1>3. host[t].fn \in Flagged /\ ~At(t, "returned") BY <1>1, <1>2, PlaceFacts DEF At
<1>4. "readback" \in KindsOf(host[t].fn) /\ "sync" \in StepsOf(host[t].fn)
  BY <1>3 DEF Flagged, KindsOf, StepsOf
<1>5. Rank("readback") = Place(host[t].step) /\ Place("sync") = Place(host[t].step) + 1
  BY <1>1 DEF Rank, Place, At
<1>6. CASE Issue(t, "readback") /\ Goto(t, "sync") /\ UNCHANGED last_error
  BY <1>1, <1>2, <1>3, <1>4, <1>5, <1>6, LastErrorType, IssueNextStep
<1>7. CASE Fail(t, "call") BY <1>1, <1>2, <1>3, <1>7, FailStep
<1> QED BY <1>1, <1>6, <1>7 DEF IssueOrFail

LEMMA LaunchKernelStep ==
    ASSUME CallInv, NEW t \in Callers, LaunchKernel(t)
    PROVE  CallInv'
<1>1. At(t, "launch") /\ last_error' = [last_error EXCEPT ![t] = FALSE] /\ UNCHANGED <<flag, output>>
  BY DEF LaunchKernel
<1>2. Active(t) BY <1>1 DEF Active, At
<1>3. host[t].fn \in Flagged /\ ~At(t, "returned") /\ ~last_error[t] BY <1>1, <1>2, PlaceFacts DEF At
<1>4. "kernel" \in KindsOf(host[t].fn) /\ "readback" \in StepsOf(host[t].fn)
  BY <1>3 DEF Flagged, KindsOf, StepsOf
<1>5. Rank("kernel") = Place(host[t].step) /\ Place("readback") = Place(host[t].step) + 1
  BY <1>1 DEF Rank, Place, At
<1>6. /\ last_error' \in [Callers -> BOOLEAN] /\ \A u \in Callers : last_error'[u] => last_error[u]
      /\ \A u \in Callers \ {t} : last_error'[u] = last_error[u]
  BY <1>1, LastErrorType
<1>7. CASE Issue(t, "kernel") /\ Goto(t, "readback")
  BY <1>1, <1>2, <1>3, <1>4, <1>5, <1>6, <1>7, IssueNextStep
<1>8. CASE host' = Returned(t, FALSE, TRUE) /\ UNCHANGED pending BY <1>1, <1>2, <1>3, <1>6, <1>8, FaultStep
<1> QED BY <1>3, <1>7, <1>8 DEF LaunchKernel, Goto

LEMMA DeviceIntScratchStep ==
    ASSUME CallInv, NEW t \in Callers, DeviceIntScratch(t)
    PROVE  CallInv'
<1>1. At(t, "scratch") /\ UNCHANGED <<flag, output>> BY DEF DeviceIntScratch
<1>2. Active(t) BY <1>1 DEF Active, At
<1>3. host[t].fn \in Flagged /\ ~At(t, "returned") BY <1>1, <1>2, PlaceFacts DEF At
<1>4. CASE Fail(t, "malloc") BY <1>1, <1>2, <1>3, <1>4, FailStep
<1>5. CASE host' = Returned(t, FALSE, TRUE) /\ UNCHANGED <<last_error, pending>>
  BY <1>1, <1>2, <1>3, <1>5, LastErrorType, FaultStep
<1>6. CASE Goto(t, "memset") /\ UNCHANGED <<last_error, pending>>
  <2>1. CallsType /\ Alone /\ InOrder /\ \A u \in Callers : Kept(u) BY DEF CallInv
  <2>2. "memset" \in StepSet /\ "memset" \in StepsOf(host[t].fn) BY <1>3 DEF StepSet, StepsOf, Flagged
  <2>3. /\ host' \in [Callers -> Hosts] /\ \A u \in Callers \ {t} : host'[u] = host[u]
        /\ host'[t].step = "memset" /\ host'[t].fn = host[t].fn /\ host'[t].stream = host[t].stream
        /\ host'[t].marks = host[t].marks /\ host'[t].parallel = host[t].parallel
        /\ host'[t].h_flag = host[t].h_flag
    BY <1>6, <2>1, <2>2, GotoRecord
  <2>4. \A u \in Callers : Active(u)' <=> Active(u) BY <1>2, <2>3 DEF Active, At
  <2>5. \A u \in Callers : /\ Place(host'[u].step) = Place(host[u].step)
                           /\ host'[u].fn = host[u].fn /\ host'[u].stream = host[u].stream
                           /\ host'[u].marks = host[u].marks /\ host'[u].parallel = host[u].parallel
    BY <1>1, <2>3 DEF Place, At
  <2>6. CallsType'
    <3>1. \A u \in Callers : Active(u)' =>
              host'[u].fn \in FunctionSet /\ host'[u].step \in StepsOf(host'[u].fn) /\ host'[u].stream \in Streams
      BY <2>1, <2>2, <2>3, <2>4 DEF CallsType
    <3> QED BY <1>1, <1>6, <2>1, <2>3, <3>1 DEF CallsType
  <2>7. Alone'
    <3>1. \A u \in Callers : last_error'[u] => Active(u)' /\ (At(u, "returned")' \/ host'[u].fn = "pool")
      BY <1>3, <1>6, <2>1, <2>3, <2>4 DEF Alone, At
    <3> QED BY <2>1, <2>4, <2>5, <3>1 DEF Alone
  <2>8. InOrder'
    <3>1. ASSUME NEW i \in DOMAIN pending PROVE OfItsCall(pending[i])'
      <4>2. pending[i].caller \in Callers BY <2>1, PendingOps
      <4>3. OfItsCall(pending[i]) BY <2>1 DEF InOrder
      <4> QED BY <1>6, <2>4, <2>5, <4>2, <4>3 DEF OfItsCall
    <3> QED BY <1>6, <2>1, <3>1 DEF InOrder
  <2>9. \A u \in Callers, k \in KindSet : Pending(u, k)' <=> Pending(u, k) BY <1>6 DEF Pending
  <2>10. Kept(t)'
    <3>1. Suffix(t) /\ Progress(t) BY <1>2, <1>3, <2>1 DEF Kept, Loose, Flagged
    <3>2. \A k \in KindSet : (Issued(t, k)' <=> Issued(t, k)) /\ (Executed(t, k)' <=> Executed(t, k))
      BY <2>5, <2>9 DEF Issued, Executed
    <3>3. Final(t)' = Final(t) BY <2>3 DEF Final
    <3>4. Bad(t)' <=> Bad(t) BY <2>3, Zenon DEF Bad
    <3>5. {"copy", "zero", "memset", "kernel", "readback"} \subseteq KindSet BY DEF KindSet
    <3>6. Suffix(t)' BY <2>9, <3>1, <3>2 DEF Suffix
    <3>7. Progress(t)' BY <1>1, <2>3, <3>1, <3>2, <3>3, <3>4, <3>5 DEF Progress, Bit
    <3> QED BY <2>3, <3>6, <3>7 DEF Kept, At
  <2>11. ASSUME NEW u \in Callers \ {t} PROVE Kept(u)'
    <3>1. Active(u) => host[u].fn \in FunctionSet BY <2>1 DEF CallsType
    <3> QED BY <1>1, <1>6, <2>1, <2>3, <2>9, <3>1, KeptAlone
  <2> QED BY <2>6, <2>7, <2>8, <2>10, <2>11 DEF CallInv
<1> QED BY <1>4, <1>5, <1>6 DEF DeviceIntScratch

\* When its stream is drained, nothing of a call is pending, and it has all been executed.
LEMMA NothingPending ==
    ASSUME CallInv, NEW t \in Callers, At(t, "sync"), ~Loose(t), Drained(host[t].stream)
    PROVE  /\ \A k \in KindSet : ~Pending(t, k)
           /\ \A k \in KindsOf(host[t].fn) : Executed(t, k)
<1>1. CallsType /\ InOrder /\ Kept(t) BY DEF CallInv
<1>2. Active(t) /\ ~At(t, "returned") /\ Place(host[t].step) = 5 BY DEF Active, At, Place
<1>3. Suffix(t) /\ host[t].fn \in FunctionSet BY <1>1, <1>2 DEF Kept, CallsType
<1>4. \A i \in DOMAIN pending : pending[i].caller = t => pending[i].kind = "zero" /\ "zero" \in KindsOf(host[t].fn)
  BY <1>1 DEF InOrder, OfItsCall, Drained
<1>5. \A k \in KindSet : Pending(t, k) => k = "zero" /\ "zero" \in KindsOf(host[t].fn) BY <1>4 DEF Pending
<1>6. \A k \in KindsOf(host[t].fn) : k \in KindSet /\ Issued(t, k)
  BY <1>2, <1>3, RankType, KindRanks DEF Issued
<1>7. ~Pending(t, "zero")
  <2> SUFFICES ASSUME Pending(t, "zero") PROVE FALSE OBVIOUS
  <2>1. "zero" \in KindSet /\ "kernel" \in KindSet BY DEF KindSet
  <2>2. "kernel" \in KindsOf(host[t].fn) BY <1>3 DEF KindsOf, FunctionSet
  <2>3. Rank("zero") < Rank("kernel") BY DEF Rank
  <2>4. Pending(t, "kernel") BY <1>3, <1>6, <2>1, <2>2, <2>3 DEF Suffix
  <2> QED BY <1>5, <2>1, <2>4
<1>8. \A k \in KindSet : ~Pending(t, k) BY <1>5, <1>7
<1> QED BY <1>6, <1>8 DEF Executed

LEMMA SynchronizeStep ==
    ASSUME CallInv, NEW t \in Callers, Synchronize(t)
    PROVE  CallInv'
<1> DEFINE result == host[t].h_flag = 0
<1>1. /\ At(t, "sync") /\ Drained(host[t].stream) /\ host' = Returned(t, result, FALSE)
      /\ UNCHANGED <<last_error, pending, flag, output>>
  BY DEF Synchronize
<1>2. CallsType /\ Alone /\ InOrder /\ \A u \in Callers : Kept(u) BY DEF CallInv
<1>3. Active(t) /\ ~At(t, "returned") BY <1>1 DEF Active, At
<1>4. result \in BOOLEAN OBVIOUS
<1>5. /\ host' \in [Callers -> Hosts] /\ \A u \in Callers \ {t} : host'[u] = host[u]
      /\ host'[t].step = "returned" /\ host'[t].fn = host[t].fn /\ host'[t].stream = host[t].stream
      /\ host'[t].marks = host[t].marks /\ host'[t].parallel = host[t].parallel
      /\ host'[t].faulted = FALSE /\ host'[t].result = result
  BY <1>1, <1>2, <1>4, ReturnedRecord
<1>6. \A u \in Callers : Active(u)' <=> Active(u) BY <1>3, <1>5 DEF Active, At
<1>7. host[t].fn \in FunctionSet /\ "returned" \in StepsOf(host[t].fn) BY <1>2, <1>3 DEF CallsType, StepsOf
<1>8. CallsType'
  <2>1. \A u \in Callers : Active(u)' =>
            host'[u].fn \in FunctionSet /\ host'[u].step \in StepsOf(host'[u].fn) /\ host'[u].stream \in Streams
    BY <1>2, <1>5, <1>6, <1>7 DEF CallsType
  <2> QED BY <1>1, <1>2, <1>5, <2>1 DEF CallsType
<1>9. Alone'
  <2>1. \A u \in Callers : last_error'[u] => Active(u)' /\ (At(u, "returned")' \/ host'[u].fn = "pool")
    BY <1>1, <1>2, <1>5, <1>6 DEF Alone, At
  <2>2. \A u \in Callers : host'[u].fn = host[u].fn /\ host'[u].stream = host[u].stream BY <1>5
  <2> QED BY <1>2, <1>6, <2>1, <2>2 DEF Alone
<1>10. ~Loose(t) => \A k \in KindSet : ~Pending(t, k) BY <1>1, NothingPending
<1>11. ~Loose(t) => \A k \in KindsOf(host[t].fn) : Executed(t, k) BY <1>1, NothingPending
<1>12. InOrder'
  <2>1. ASSUME NEW i \in DOMAIN pending PROVE OfItsCall(pending[i])'
    <3>1. pending[i].caller \in Callers BY <1>2, PendingOps
    <3>2. OfItsCall(pending[i]) BY <1>2 DEF InOrder
    <3>3. \A u \in Callers : Place(host'[u].step) = Place(host[u].step) BY <1>1, <1>5 DEF Place, At
    <3>4. \A u \in Callers : /\ host'[u].fn = host[u].fn /\ host'[u].stream = host[u].stream
                             /\ host'[u].marks = host[u].marks /\ host'[u].parallel = host[u].parallel
      BY <1>5
    <3> QED BY <1>1, <1>6, <3>1, <3>2, <3>3, <3>4 DEF OfItsCall
  <2> QED BY <1>1, <1>2, <2>1 DEF InOrder
<1>13. \A u \in Callers, k \in KindSet : Pending(u, k)' <=> Pending(u, k) BY <1>1 DEF Pending
<1>14. Outcome(t)'
  <2>0. Loose(t)' <=> Loose(t) BY <1>1, <1>5 DEF Loose
  <2> SUFFICES ASSUME ~Loose(t) PROVE Outcome(t)' BY <1>5, <2>0 DEF Outcome
  <2>1. Progress(t) BY <1>2, <1>3 DEF Kept
  <2>2. Executed(t, "kernel") /\ (host[t].fn \in Flagged => Executed(t, "readback"))
    BY <1>7, <1>11 DEF KindsOf, FunctionSet, Flagged
  <2>3. Final(t)' = Final(t) BY <1>5 DEF Final
  <2>4. Bad(t)' <=> Bad(t) BY <1>5, Zenon DEF Bad
  <2>5. host[t].fn \in Flagged => (result <=> ~Bad(t)) BY <2>1, <2>2 DEF Progress, Bit
  <2>6. ~Bad(t) => output[t] = Final(t) BY <2>1, <2>2 DEF Progress
  <2> QED BY <1>1, <1>5, <1>10, <1>13, <2>3, <2>4, <2>5, <2>6 DEF Outcome
<1>15. ASSUME NEW u \in Callers PROVE Kept(u)'
  <2>1. CASE u = t BY <1>5, <1>14, <2>1 DEF Kept, At
  <2>2. CASE u # t
    <3>1. Active(u) => host[u].fn \in FunctionSet BY <1>2 DEF CallsType
    <3> QED BY <1>1, <1>2, <1>5, <1>13, <2>2, <3>1, KeptAlone
  <2> QED BY <2>1, <2>2
<1> QED BY <1>8, <1>9, <1>12, <1>15 DEF CallInv

LEMMA GoOnStep ==
    ASSUME CallInv, Careful, NEW t \in Callers, GoOn(t)
    PROVE  CallInv'
<1>1. /\ At(t, "returned") /\ \A i \in DOMAIN pending : pending[i].caller # t
      /\ host' = [host EXCEPT ![t] = Idle] /\ last_error' = [last_error EXCEPT ![t] = FALSE]
      /\ UNCHANGED <<pending, flag, output>>
  <2>1. last_error \in [Callers -> BOOLEAN] BY LastErrorType
  <2>2. [last_error EXCEPT ![t] = @ /\ ~Careful] = [last_error EXCEPT ![t] = FALSE] BY <2>1
  <2> QED BY <2>2 DEF GoOn
<1>2. CallsType /\ Alone /\ InOrder /\ \A u \in Callers : Kept(u) BY DEF CallInv
<1>3. Idle \in Hosts /\ Idle.step = "idle" BY DEF Idle, Hosts, StepSet
<1>4. host' \in [Callers -> Hosts] /\ host'[t] = Idle /\ \A u \in Callers \ {t} : host'[u] = host[u]
  BY <1>1, <1>2, <1>3 DEF CallsType
<1>5. ~Active(t)' /\ \A u \in Callers \ {t} : Active(u)' <=> Active(u) BY <1>3, <1>4 DEF Active, At
<1>6. last_error' \in [Callers -> BOOLEAN] /\ ~last_error'[t] /\ \A u \in Callers \ {t} : last_error'[u] = last_error[u]
  BY <1>1, <1>2 DEF CallsType
<1>7. CallsType'
  <2>1. \A u \in Callers : Active(u)' =>
            host'[u].fn \in FunctionSet /\ host'[u].step \in StepsOf(host'[u].fn) /\ host'[u].stream \in Streams
    BY <1>2, <1>4, <1>5 DEF CallsType
  <2> QED BY <1>1, <1>2, <1>4, <1>6, <2>1 DEF CallsType
<1>8. Alone'
  <2>1. \A u \in Callers : last_error'[u] => Active(u)' /\ (At(u, "returned")' \/ host'[u].fn = "pool")
    BY <1>2, <1>4, <1>5, <1>6 DEF Alone, At
  <2>2. \A u \in Callers : Active(u)' => u # t BY <1>5
  <2> QED BY <1>2, <1>4, <1>5, <2>1, <2>2 DEF Alone
<1>9. InOrder'
  <2>1. ASSUME NEW i \in DOMAIN pending PROVE OfItsCall(pending[i])'
    <3>2. pending[i].caller \in Callers \ {t} BY <1>1, <1>2, PendingOps
    <3>3. OfItsCall(pending[i]) BY <1>2 DEF InOrder
    <3> QED BY <1>1, <1>4, <1>5, <3>2, <3>3 DEF OfItsCall
  <2> QED BY <1>1, <1>2, <2>1 DEF InOrder
<1>10. \A u \in Callers, k \in KindSet : Pending(u, k)' <=> Pending(u, k) BY <1>1 DEF Pending
<1>11. ASSUME NEW u \in Callers PROVE Kept(u)'
  <2>1. CASE u = t BY <1>5, <2>1 DEF Kept
  <2>2. CASE u # t
    <3>1. Active(u) => host[u].fn \in FunctionSet BY <1>2 DEF CallsType
    <3> QED BY <1>1, <1>2, <1>4, <1>6, <1>10, <2>2, <3>1, KeptAlone
  <2> QED BY <2>1, <2>2
<1> QED BY <1>7, <1>8, <1>9, <1>11 DEF CallInv

\* A launch of enqueue that CUDA refuses.
LEMMA RefusedStep ==
    ASSUME CallInv, NEW t \in Callers, Active(t), ~At(t, "returned"), host[t].fn = "pool",
           NEW next \in StepsOf("pool"), next # "returned", Place(host[t].step) <= Place(next), Goto(t, next),
           last_error' = [last_error EXCEPT ![t] = TRUE], UNCHANGED <<pending, flag, output>>
    PROVE  CallInv'
<1>1. CallsType /\ Alone /\ InOrder /\ \A u \in Callers : Kept(u) BY DEF CallInv
<1>2. next \in StepSet /\ next # "idle" BY DEF StepSet, StepsOf
<1>3. /\ host' \in [Callers -> Hosts] /\ \A u \in Callers \ {t} : host'[u] = host[u]
      /\ host'[t].step = next /\ host'[t].fn = host[t].fn /\ host'[t].stream = host[t].stream
      /\ host'[t].marks = host[t].marks /\ host'[t].parallel = host[t].parallel
  BY <1>1, <1>2, GotoRecord
<1>4. /\ last_error' \in [Callers -> BOOLEAN] /\ last_error'[t]
      /\ \A u \in Callers \ {t} : last_error'[u] = last_error[u]
  BY <1>1 DEF CallsType
<1>5. \A u \in Callers : Active(u)' <=> Active(u) BY <1>2, <1>3 DEF Active, At
<1>6. CallsType'
  <2>1. \A u \in Callers : Active(u)' =>
            host'[u].fn \in FunctionSet /\ host'[u].step \in StepsOf(host'[u].fn) /\ host'[u].stream \in Streams
    BY <1>1, <1>3, <1>5 DEF CallsType
  <2> QED BY <1>1, <1>3, <1>4, <2>1 DEF CallsType
<1>7. Alone'
  <2>1. \A u \in Callers : last_error'[u] => Active(u)' /\ (At(u, "returned")' \/ host'[u].fn = "pool")
    BY <1>1, <1>3, <1>4, <1>5 DEF Alone, At
  <2>2. \A u \in Callers : host'[u].fn = host[u].fn BY <1>3
  <2> QED BY <1>1, <1>5, <2>1, <2>2 DEF Alone
<1>8. InOrder'
  <2>1. ASSUME NEW i \in DOMAIN pending PROVE OfItsCall(pending[i])'
    <3>1. pending[i].caller \in Callers /\ Rank(pending[i].kind) \in 1 .. 4 BY <1>1, PendingOps, RankType
    <3>2. OfItsCall(pending[i]) BY <1>1 DEF InOrder
    <3>3. Place(host[t].step) \in 1 .. 5 /\ Place(next) \in 1 .. 5 BY DEF Place
    <3>4. Rank(pending[i].kind) < Place(host'[pending[i].caller].step) BY <1>3, <3>1, <3>2, <3>3 DEF OfItsCall
    <3> QED BY <1>3, <1>5, <3>1, <3>2, <3>4 DEF OfItsCall
  <2> QED BY <1>1, <2>1 DEF InOrder
<1>9. Kept(t)' BY <1>3, <1>4 DEF Kept, Loose, At
<1>10. ASSUME NEW u \in Callers \ {t} PROVE Kept(u)'
  <2>1. \A k \in KindSet : Pending(u, k)' <=> Pending(u, k) BY DEF Pending
  <2>2. Active(u) => host[u].fn \in FunctionSet BY <1>1 DEF CallsType
  <2> QED BY <1>1, <1>3, <1>4, <2>1, <2>2, KeptAlone
<1> QED BY <1>6, <1>7, <1>8, <1>9, <1>10 DEF CallInv

LEMMA EnqueueZeroStep ==
    ASSUME CallInv, NEW t \in Callers, EnqueueZero(t)
    PROVE  CallInv'
<1>1. At(t, "zero") /\ LaunchUnchecked(t, "zero", Legacy, Tokens, "pool") BY DEF EnqueueZero
<1>2. Active(t) BY <1>1 DEF Active, At
<1>3. host[t].fn = "pool" /\ ~At(t, "returned") BY <1>1, <1>2, PlaceFacts
<1>4. /\ "zero" \in KindsOf(host[t].fn) /\ "pool" \in StepsOf(host[t].fn) /\ "pool" \in StepsOf("pool")
      /\ Place(host[t].step) = 1 /\ Rank("zero") = 1 /\ Place("pool") = 3
      /\ \A k \in KindsOf(host[t].fn) : Rank(k) < Place("pool") <=> (Rank(k) < Place(host[t].step) \/ k = "zero")
  BY <1>1, <1>3 DEF KindsOf, StepsOf, Rank, Place, At
<1>5. CASE pending' = Append(pending, Op(t, "zero", Legacy)) /\ UNCHANGED last_error
  <2>1. Goto(t, "pool") /\ UNCHANGED <<flag, output>> BY <1>1 DEF LaunchUnchecked
  <2>2. pending' = Append(pending, Op(t, "zero", IF "zero" = "zero" THEN Legacy ELSE host[t].stream)) BY <1>5
  <2> QED BY <1>2, <1>3, <1>4, <1>5, <2>1, <2>2, LastErrorType, IssueStep
<1>6. CASE last_error' = [last_error EXCEPT ![t] = TRUE] /\ UNCHANGED pending
  <2>1. Goto(t, "pool") /\ UNCHANGED <<pending, flag, output>> BY <1>1, <1>6 DEF LaunchUnchecked
  <2>2. Place(host[t].step) <= Place("pool") BY <1>4
  <2>3. last_error' = [last_error EXCEPT ![t] = TRUE] BY <1>6
  <2> QED BY <1>2, <1>3, <1>4, <2>1, <2>2, <2>3, RefusedStep
<1> QED BY <1>1, <1>5, <1>6 DEF LaunchUnchecked

LEMMA EnqueuePoolStep ==
    ASSUME CallInv, NEW t \in Callers, EnqueuePool(t)
    PROVE  CallInv'
<1>1. At(t, "pool") /\ LaunchUnchecked(t, "kernel", host[t].stream, host[t].marks, "sync") BY DEF EnqueuePool
<1>2. Active(t) BY <1>1 DEF Active, At
<1>3. host[t].fn = "pool" /\ ~At(t, "returned") BY <1>1, <1>2, PlaceFacts
<1>4. /\ "kernel" \in KindsOf(host[t].fn) /\ "sync" \in StepsOf(host[t].fn) /\ "sync" \in StepsOf("pool")
      /\ Place(host[t].step) = 3 /\ Rank("kernel") = 3 /\ Place("sync") = 5
      /\ \A k \in KindsOf(host[t].fn) : Rank(k) < Place("sync") <=> (Rank(k) < Place(host[t].step) \/ k = "kernel")
  BY <1>1, <1>3 DEF KindsOf, StepsOf, Rank, Place, At
<1>5. CASE pending' = Append(pending, Op(t, "kernel", host[t].stream)) /\ UNCHANGED last_error
  <2>1. Goto(t, "sync") /\ UNCHANGED <<flag, output>> BY <1>1 DEF LaunchUnchecked
  <2>2. pending' = Append(pending, Op(t, "kernel", IF "kernel" = "zero" THEN Legacy ELSE host[t].stream)) BY <1>5
  <2> QED BY <1>2, <1>3, <1>4, <1>5, <2>1, <2>2, LastErrorType, IssueStep
<1>6. CASE last_error' = [last_error EXCEPT ![t] = TRUE] /\ UNCHANGED pending
  <2>1. Goto(t, "sync") /\ UNCHANGED <<pending, flag, output>> BY <1>1, <1>6 DEF LaunchUnchecked
  <2>2. Place(host[t].step) <= Place("sync") BY <1>4
  <2>3. last_error' = [last_error EXCEPT ![t] = TRUE] BY <1>6
  <2> QED BY <1>2, <1>3, <1>4, <2>1, <2>2, <2>3, RefusedStep
<1> QED BY <1>1, <1>5, <1>6 DEF LaunchUnchecked

-----------------------------------------------------------------------------
(* Steps of the device.                                                     *)

\* Removing the operation at place i leaves the others in their order.
LEMMA Removed ==
    ASSUME NEW S, NEW q \in Seq(S), NEW i \in DOMAIN q
    PROVE  /\ RemoveAt(q, i) \in Seq(S) /\ Len(RemoveAt(q, i)) = Len(q) - 1
           /\ \A j \in DOMAIN RemoveAt(q, i) : RemoveAt(q, i)[j] = q[IF j < i THEN j ELSE j + 1]
<1> DEFINE a == SubSeq(q, 1, i - 1)
           b == SubSeq(q, i + 1, Len(q))
<1>1. i \in 1 .. Len(q) /\ Len(q) \in Nat OBVIOUS
<1>2. a \in Seq(S) /\ Len(a) = i - 1 /\ \A j \in 1 .. i - 1 : a[j] = q[j] BY <1>1
<1>3. b \in Seq(S) /\ Len(b) = Len(q) - i /\ \A j \in 1 .. Len(q) - i : b[j] = q[i + j] BY <1>1
<1>4. RemoveAt(q, i) = a \o b BY DEF RemoveAt
<1> HIDE DEF a, b
<1>5. a \o b \in Seq(S) /\ Len(a \o b) = Len(q) - 1 BY <1>1, <1>2, <1>3
<1>6. \A j \in 1 .. Len(q) - 1 : (a \o b)[j] = IF j <= i - 1 THEN a[j] ELSE b[j - (i - 1)] BY <1>1, <1>2, <1>3
<1>7. \A j \in 1 .. Len(q) - 1 : (a \o b)[j] = q[IF j < i THEN j ELSE j + 1]
  <2> TAKE j \in 1 .. Len(q) - 1
  <2>1. CASE j < i
    <3>1. j <= i - 1 /\ j \in 1 .. i - 1 BY <1>1, <2>1
    <3> QED BY <1>2, <1>6, <2>1, <3>1
  <2>2. CASE ~(j < i)
    <3>1. ~(j <= i - 1) /\ j - (i - 1) \in 1 .. Len(q) - i /\ i + (j - (i - 1)) = j + 1 BY <1>1, <2>2
    <3> QED BY <1>3, <1>6, <2>2, <3>1
  <2> QED BY <2>1, <2>2
<1>8. DOMAIN (a \o b) = 1 .. Len(q) - 1 BY <1>1, <1>5
<1> QED BY <1>4, <1>5, <1>7, <1>8

\* CUDA executes the operations of a call in their order: what is pending besides the one
\* that runs comes after it.
LEMMA ExecutesFirst ==
    ASSUME CallInv, NEW i \in DOMAIN pending, ~Loose(pending[i].caller),
           \A j \in 1 .. i - 1 : ~Ordered(pending[j].stream, pending[i].stream)
    PROVE  \A k \in KindSet : Pending(pending[i].caller, k) =>
              k = pending[i].kind \/ Rank(pending[i].kind) < Rank(k)
<1> DEFINE op == pending[i]
           t == op.caller
<1>1. CallsType /\ InOrder /\ Alone BY DEF CallInv
<1>2. t \in Callers /\ op.kind \in KindSet /\ OfItsCall(op) BY <1>1, PendingOps DEF InOrder
<1>3. Active(t) /\ host[t].fn \in FunctionSet BY <1>1, <1>2 DEF OfItsCall, CallsType
<1>4. i \in Nat /\ DOMAIN pending = 1 .. Len(pending) /\ Len(pending) \in Nat
  <2>1. pending \in Seq(Ops) BY <1>1 DEF CallsType
  <2> QED BY <2>1
<1> SUFFICES ASSUME NEW k \in KindSet, Pending(t, k), k # op.kind PROVE Rank(op.kind) < Rank(k)
  OBVIOUS
<1>5. PICK j \in DOMAIN pending : pending[j].caller = t /\ pending[j].kind = k BY DEF Pending
<1>6. CASE i < j BY <1>1, <1>5, <1>6 DEF InOrder
<1>7. CASE j < i
  <2>1. Rank(k) < Rank(op.kind) BY <1>1, <1>5, <1>7 DEF InOrder
  <2>2. OfItsCall(pending[j]) BY <1>1 DEF InOrder
  <2>3. op.kind # "zero"
    <3>1. Rank(k) \in 1 .. 4 /\ Rank("zero") = 1 BY RankType DEF Rank
    <3> QED BY <2>1, <3>1
  <2>4. op.stream = host[t].stream BY <1>2, <2>3 DEF OfItsCall
  <2>5. CASE k = "zero"
    <3>1. pending[j].stream = Legacy /\ host[t].fn = "pool" BY <1>3, <1>5, <2>2, <2>5 DEF OfItsCall, KindsOf
    <3>2. host[t].stream \notin NonBlocking BY <3>1 DEF Loose
    <3>3. Ordered(pending[j].stream, op.stream) BY <2>4, <3>1, <3>2, FunctionsAre DEF Ordered
    <3> QED BY <1>4, <1>7, <3>3
  <2>6. CASE k # "zero"
    <3>1. pending[j].stream = op.stream BY <1>5, <2>2, <2>4, <2>6 DEF OfItsCall
    <3> QED BY <1>4, <1>7, <3>1 DEF Ordered
  <2> QED BY <2>5, <2>6
<1> QED BY <1>4, <1>5, <1>6, <1>7

\* What is executed of a call before and after one of its operations is.
LEMMA ExecutedBefore ==
    ASSUME CallInv, NEW t \in Callers, Suffix(t), Active(t), NEW kind \in KindsOf(host[t].fn),
           Rank(kind) < Place(host[t].step), Pending(t, kind),
           \A k \in KindSet : Pending(t, k) => k = kind \/ Rank(kind) < Rank(k), NEW k \in KindSet
    PROVE  /\ Executed(t, k) <=> k \in KindsOf(host[t].fn) /\ Rank(k) < Rank(kind)
           /\ (Issued(t, k) /\ ~(Pending(t, k) /\ k # kind)) <=>
                  (k \in KindsOf(host[t].fn) /\ (Rank(k) < Rank(kind) \/ k = kind))
<1>1. host[t].fn \in FunctionSet BY DEF CallInv, CallsType
<1>2. kind \in KindSet BY <1>1, KindRanks
<1>3. Rank(k) \in Nat /\ Rank(kind) \in Nat /\ Place(host[t].step) \in Nat BY <1>2, RankType DEF Place
<1>4. k \in KindsOf(host[t].fn) /\ Rank(k) = Rank(kind) => k = kind BY <1>1, KindRanks
<1>5. Rank(kind) < Rank(k) /\ Issued(t, k) => Pending(t, k) BY <1>2 DEF Suffix
<1> QED BY <1>3, <1>4, <1>5 DEF Executed, Issued

\* The queue after the operation at place i has run.
LEMMA ExecuteQueue ==
    ASSUME CallInv, NEW i \in DOMAIN pending, pending' = RemoveAt(pending, i)
    PROVE  /\ pending' \in Seq(Ops)
           /\ \A j \in DOMAIN pending' : \E m \in DOMAIN pending : m # i /\ pending'[j] = pending[m]
           /\ \A j, l \in DOMAIN pending' : j < l /\ pending'[j].caller = pending'[l].caller =>
                 Rank(pending'[j].kind) < Rank(pending'[l].kind)
           /\ \A u \in Callers, k \in KindSet :
                 Pending(u, k)' <=> Pending(u, k) /\ ~(u = pending[i].caller /\ k = pending[i].kind)
<1> DEFINE At2(j) == IF j < i THEN j ELSE j + 1
<1>1. CallsType /\ InOrder BY DEF CallInv
<1>2. pending \in Seq(Ops) BY <1>1 DEF CallsType
<1>3. /\ pending' \in Seq(Ops) /\ Len(pending') = Len(pending) - 1
      /\ \A j \in DOMAIN pending' : pending'[j] = pending[At2(j)]
  BY <1>2, Removed
<1>4. /\ DOMAIN pending = 1 .. Len(pending) /\ DOMAIN pending' = 1 .. Len(pending) - 1
      /\ Len(pending) \in Nat /\ i \in 1 .. Len(pending)
  BY <1>2, <1>3
<1>5. \A j \in DOMAIN pending' : At2(j) \in DOMAIN pending /\ At2(j) # i BY <1>4
<1>6. \A j, l \in DOMAIN pending' : j < l => At2(j) < At2(l) BY <1>4
<1>7. \A m \in DOMAIN pending : m # i => \E j \in DOMAIN pending' : At2(j) = m
  <2> TAKE m \in DOMAIN pending
  <2> HAVE m # i
  <2>1. CASE m < i
    <3>1. m \in DOMAIN pending' /\ At2(m) = m BY <1>4, <2>1
    <3> QED BY <3>1
  <2>2. CASE i < m
    <3>1. m - 1 \in DOMAIN pending' /\ At2(m - 1) = m BY <1>4, <2>2
    <3> QED BY <3>1
  <2> QED BY <1>4, <2>1, <2>2
<1> HIDE DEF At2
<1>8. \A j, l \in DOMAIN pending' : j < l /\ pending'[j].caller = pending'[l].caller =>
          Rank(pending'[j].kind) < Rank(pending'[l].kind)
  BY <1>1, <1>3, <1>5, <1>6 DEF InOrder
<1>9. ASSUME NEW u \in Callers, NEW k \in KindSet
      PROVE  Pending(u, k)' <=> Pending(u, k) /\ ~(u = pending[i].caller /\ k = pending[i].kind)
  <2>1. ASSUME Pending(u, k)' PROVE Pending(u, k) /\ ~(u = pending[i].caller /\ k = pending[i].kind)
    <3>1. PICK j \in DOMAIN pending' : pending'[j].caller = u /\ pending'[j].kind = k BY <2>1 DEF Pending
    <3> DEFINE m == At2(j)
    <3>2. m \in DOMAIN pending /\ m # i /\ pending[m].caller = u /\ pending[m].kind = k BY <1>3, <1>5, <3>1
    <3> HIDE DEF m
    <3>3. ASSUME u = pending[i].caller, k = pending[i].kind PROVE FALSE
      <4>1. Rank(k) \in Nat BY RankType
      <4>2. ~(m < i) /\ ~(i < m) BY <1>1, <3>2, <3>3, <4>1 DEF InOrder
      <4> QED BY <1>4, <3>2, <4>2
    <3> QED BY <3>2, <3>3 DEF Pending
  <2>2. ASSUME Pending(u, k), ~(u = pending[i].caller /\ k = pending[i].kind) PROVE Pending(u, k)'
    <3>1. PICK m \in DOMAIN pending : pending[m].caller = u /\ pending[m].kind = k BY <2>2 DEF Pending
    <3>2. m # i BY <2>2, <3>1
    <3>3. PICK j \in DOMAIN pending' : At2(j) = m BY <1>7, <3>2
    <3> QED BY <1>3, <3>1, <3>3 DEF Pending
  <2> QED BY <2>1, <2>2
<1> QED BY <1>3, <1>5, <1>8, <1>9

\* What the operation at place i leaves in the flags, with the host and in the outputs.
LEMMA ExecuteEffect ==
    ASSUME CallInv, NEW i \in DOMAIN pending, Execute(i)
    PROVE  LET op == pending[i]
               t == op.caller
           IN  /\ host' \in [Callers -> Hosts] /\ flag' \in [Flagged -> {0, 1}]
               /\ output' = [u \in Callers |-> output'[u]]
               /\ \A u \in Callers \ {t} : host'[u] = host[u] /\ output'[u] = output[u]
               /\ \A f \in Flagged \ {op.fn} : flag'[f] = flag[f]
               /\ host'[t].step = host[t].step /\ host'[t].fn = host[t].fn /\ host'[t].stream = host[t].stream
               /\ host'[t].marks = host[t].marks /\ host'[t].parallel = host[t].parallel
               /\ host'[t].faulted = host[t].faulted /\ host'[t].result = host[t].result
               /\ host'[t].h_flag = IF op.kind = "readback" THEN flag[op.fn] ELSE host[t].h_flag
               /\ op.kind = "memset" => flag'[op.fn] = 0
               /\ op.kind = "kernel" /\ BadInput(op.fn, op.marks) => flag'[op.fn] = 1
               /\ op.kind # "memset" /\ ~(op.kind = "kernel" /\ BadInput(op.fn, op.marks)) => flag' = flag
               /\ output'[t] = IF op.kind \in {"copy", "zero", "kernel"}
                               THEN [x \in Tokens |-> IF x \in StoredTo(op) THEN Value(op, x) ELSE output[t][x]]
                               ELSE output[t]
<1> DEFINE op == pending[i]
           t == op.caller
           h == IF op.kind = "readback" THEN [host[t] EXCEPT !.h_flag = flag[op.fn]] ELSE host[t]
<1>1. CallsType /\ InOrder BY DEF CallInv
<1>2. op \in Ops /\ t \in Callers /\ op.kind \in KindSet /\ OfItsCall(op) /\ op.fn \in FunctionSet
  BY <1>1, PendingOps DEF InOrder, Ops
<1>3. op.kind \in {"memset", "readback"} => op.fn \in Flagged BY <1>2 DEF OfItsCall, KindsOf, FunctionSet, Flagged
<1>4. BadInput(op.fn, op.marks) => op.fn \in Flagged BY DEF BadInput, Flagged
<1>5. /\ output' = IF op.kind \in {"copy", "zero", "kernel"}
                   THEN [output EXCEPT ![t] =
                            [x \in Tokens |-> IF x \in StoredTo(op) THEN Value(op, x) ELSE @[x]]]
                   ELSE output
      /\ flag' = CASE op.kind = "memset" -> [flag EXCEPT ![op.fn] = 0]
                   [] op.kind = "kernel" /\ BadInput(op.fn, op.marks) -> [flag EXCEPT ![op.fn] = 1]
                   [] OTHER -> flag
      /\ host' = IF op.kind = "readback" THEN [host EXCEPT ![t].h_flag = flag[op.fn]] ELSE host
  BY DEF Execute
<1>6. host[t] \in Hosts /\ flag \in [Flagged -> {0, 1}] BY <1>1, <1>2 DEF CallsType
<1>7. /\ h \in Hosts /\ h.step = host[t].step /\ h.fn = host[t].fn /\ h.stream = host[t].stream
      /\ h.marks = host[t].marks /\ h.parallel = host[t].parallel
      /\ h.faulted = host[t].faulted /\ h.result = host[t].result
      /\ h.h_flag = IF op.kind = "readback" THEN flag[op.fn] ELSE host[t].h_flag
  BY <1>3, <1>6 DEF Hosts
<1>8. host' = [host EXCEPT ![t] = h] BY <1>1, <1>2, <1>5 DEF CallsType
<1> HIDE DEF h
<1>9. host' \in [Callers -> Hosts] /\ host'[t] = h /\ \A u \in Callers \ {t} : host'[u] = host[u]
  BY <1>1, <1>2, <1>7, <1>8 DEF CallsType
<1>10. /\ output' = [u \in Callers |-> output'[u]] /\ \A u \in Callers \ {t} : output'[u] = output[u]
       /\ output'[t] = IF op.kind \in {"copy", "zero", "kernel"}
                       THEN [x \in Tokens |-> IF x \in StoredTo(op) THEN Value(op, x) ELSE output[t][x]]
                       ELSE output[t]
  <2>1. output = [u \in Callers |-> output[u]] BY <1>1 DEF CallsType
  <2>2. CASE op.kind \in {"copy", "zero", "kernel"}
    <3> DEFINE new == [x \in Tokens |-> IF x \in StoredTo(op) THEN Value(op, x) ELSE output[t][x]]
    <3>1. output' = [output EXCEPT ![t] = new] BY <1>5, <2>2
    <3> HIDE DEF new
    <3>2. output'[t] = new /\ output' = [u \in Callers |-> output'[u]]
          /\ \A u \in Callers \ {t} : output'[u] = output[u]
      BY <1>2, <2>1, <3>1
    <3> QED BY <2>2, <3>2 DEF new
  <2>3. CASE op.kind \notin {"copy", "zero", "kernel"} BY <1>5, <2>1, <2>3
  <2> QED BY <2>2, <2>3
<1>11. /\ flag' \in [Flagged -> {0, 1}] /\ \A f \in Flagged \ {op.fn} : flag'[f] = flag[f]
       /\ op.kind = "memset" => flag'[op.fn] = 0
       /\ op.kind = "kernel" /\ BadInput(op.fn, op.marks) => flag'[op.fn] = 1
       /\ op.kind # "memset" /\ ~(op.kind = "kernel" /\ BadInput(op.fn, op.marks)) => flag' = flag
  <2>1. CASE op.kind = "memset"
    <3>1. flag' = [flag EXCEPT ![op.fn] = 0] BY <1>5, <2>1
    <3> QED BY <1>3, <1>6, <2>1, <3>1
  <2>2. CASE op.kind = "kernel" /\ BadInput(op.fn, op.marks)
    <3>1. flag' = [flag EXCEPT ![op.fn] = 1] BY <1>5, <2>2
    <3> QED BY <1>4, <1>6, <2>2, <3>1
  <2>3. CASE op.kind # "memset" /\ ~(op.kind = "kernel" /\ BadInput(op.fn, op.marks))
    <3>1. flag' = flag BY <1>5, <2>3
    <3> QED BY <1>6, <2>3, <3>1
  <2> QED BY <2>1, <2>2, <2>3
<1> QED BY <1>7, <1>9, <1>10, <1>11

\* What a kernel leaves in the output of a call whose input has no fault.
LEMMA KernelOutput ==
    ASSUME CallInv, NEW t \in Callers, NEW op \in Ops, op.kind = "kernel", op.fn = host[t].fn,
           op.marks = host[t].marks, ~Bad(t), op.fn = "fuse" => output[t] = AllOf(<<"text">>),
           op.fn = "pool" => output[t] = AllOf(<<"zero">>)
    PROVE  [x \in Tokens |-> IF x \in StoredTo(op) THEN Value(op, x) ELSE output[t][x]] = Final(t)
<1> DEFINE new == [x \in Tokens |-> IF x \in StoredTo(op) THEN Value(op, x) ELSE output[t][x]]
<1>1. op.fn \in FunctionSet /\ op.marks \in SUBSET Tokens /\ ~BadInput(op.fn, op.marks) BY DEF Ops, Bad
<1>2. CASE op.fn = "gather"
  <2>1. op.marks = {} BY <1>1, <1>2 DEF BadInput
  <2>2. StoredTo(op) = Tokens BY <1>2, <2>1 DEF StoredTo
  <2>3. \A x \in Tokens : Value(op, x) = <<"row">> BY <1>2 DEF Value
  <2>4. new = AllOf(<<"row">>) BY <2>2, <2>3 DEF AllOf
  <2>5. Final(t) = AllOf(<<"row">>) BY <1>2 DEF Final
  <2> QED BY <2>4, <2>5
<1>3. CASE op.fn = "fuse"
  <2>1. StoredTo(op) = op.marks BY <1>1, <1>3, FuseStoresMarks
  <2>2. \A x \in Tokens : Value(op, x) = <<"image", ImageIdx(op.marks, x)>> BY <1>3 DEF Value
  <2>3. \A x \in Tokens : output[t][x] = <<"text">> BY <1>3 DEF AllOf
  <2>4. new = ImageOf(op.marks) BY <2>1, <2>2, <2>3 DEF ImageOf
  <2>5. Final(t) = ImageOf(op.marks) BY <1>3 DEF Final
  <2> QED BY <2>4, <2>5
<1>4. CASE op.fn = "pool"
  <2>1. StoredTo(op) = op.marks BY <1>4 DEF StoredTo
  <2>2. \A x \in Tokens : Value(op, x) = <<"pooled">> BY <1>4 DEF Value
  <2>3. \A x \in Tokens : output[t][x] = <<"zero">> BY <1>4 DEF AllOf
  <2>4. new = PoolOf(op.marks) BY <2>1, <2>2, <2>3 DEF PoolOf
  <2>5. Final(t) = PoolOf(op.marks) BY <1>4 DEF Final
  <2> QED BY <2>4, <2>5
<1> QED BY <1>1, <1>2, <1>3, <1>4 DEF FunctionSet

\* An operation that runs in a call that is still on.
LEMMA ExecuteProgress ==
    ASSUME CallInv, NEW i \in DOMAIN pending, Execute(i), NEW t \in Callers, t = pending[i].caller,
           ~At(t, "returned"), ~Loose(t)
    PROVE  Suffix(t)' /\ Progress(t)'
<1> DEFINE op == pending[i]
<1>1. CallsType /\ InOrder /\ Kept(t) BY DEF CallInv
<1>2. op \in Ops /\ op.kind \in KindSet /\ OfItsCall(op) BY <1>1, PendingOps DEF InOrder
<1>3. /\ Active(t) /\ op.fn = host[t].fn /\ op.marks = host[t].marks /\ op.kind \in KindsOf(host[t].fn)
      /\ Rank(op.kind) < Place(host[t].step) /\ host[t].fn \in FunctionSet
  BY <1>1, <1>2 DEF OfItsCall, CallsType
<1>4. Suffix(t) /\ Progress(t) BY <1>1, <1>3 DEF Kept
<1>5. /\ host'[t].step = host[t].step /\ host'[t].fn = host[t].fn /\ host'[t].marks = host[t].marks
      /\ host'[t].h_flag = IF op.kind = "readback" THEN flag[op.fn] ELSE host[t].h_flag
      /\ op.kind = "memset" => flag'[op.fn] = 0
      /\ op.kind = "kernel" /\ BadInput(op.fn, op.marks) => flag'[op.fn] = 1
      /\ op.kind # "memset" /\ ~(op.kind = "kernel" /\ BadInput(op.fn, op.marks)) => flag' = flag
      /\ output'[t] = IF op.kind \in {"copy", "zero", "kernel"}
                      THEN [x \in Tokens |-> IF x \in StoredTo(op) THEN Value(op, x) ELSE output[t][x]]
                      ELSE output[t]
  BY ExecuteEffect
<1>6. /\ \A j \in 1 .. i - 1 : ~Ordered(pending[j].stream, op.stream)
      /\ pending' = RemoveAt(pending, i)
  BY DEF Execute
<1>7. \A k \in KindSet : Pending(t, k)' <=> Pending(t, k) /\ k # op.kind BY <1>6, ExecuteQueue
<1>8. \A k \in KindSet : Pending(t, k) => k = op.kind \/ Rank(op.kind) < Rank(k) BY <1>6, ExecutesFirst
<1>9. Pending(t, op.kind) BY DEF Pending
<1>10. \A k \in KindSet : Issued(t, k)' <=> Issued(t, k) BY <1>5 DEF Issued
<1>11. \A k \in KindSet :
          /\ Executed(t, k) <=> k \in KindsOf(host[t].fn) /\ Rank(k) < Rank(op.kind)
          /\ Executed(t, k)' <=> k \in KindsOf(host[t].fn) /\ (Rank(k) < Rank(op.kind) \/ k = op.kind)
  <2> TAKE k \in KindSet
  <2> HIDE DEF op
  <2>1. /\ Executed(t, k) <=> k \in KindsOf(host[t].fn) /\ Rank(k) < Rank(op.kind)
        /\ (Issued(t, k) /\ ~(Pending(t, k) /\ k # op.kind)) <=>
              (k \in KindsOf(host[t].fn) /\ (Rank(k) < Rank(op.kind) \/ k = op.kind))
    BY <1>3, <1>4, <1>8, <1>9, ExecutedBefore
  <2>2. Executed(t, k)' <=> Issued(t, k) /\ ~(Pending(t, k) /\ k # op.kind) BY <1>7, <1>10 DEF Executed
  <2> QED BY <2>1, <2>2
<1>12. Suffix(t)'
  <2> SUFFICES ASSUME NEW k \in KindSet, NEW l \in KindSet, Pending(t, k)', Rank(k) < Rank(l), Issued(t, l)'
               PROVE  Pending(t, l)'
    BY DEF Suffix
  <2>1. Pending(t, k) /\ k # op.kind /\ Rank(op.kind) < Rank(k) BY <1>7, <1>8
  <2>2. Pending(t, l) BY <1>4, <1>10, <2>1 DEF Suffix
  <2>3. l # op.kind
    <3>1. Rank(k) \in Nat /\ Rank(l) \in Nat BY RankType
    <3> QED BY <2>1, <3>1
  <2> QED BY <1>7, <2>2, <2>3
<1>13. (Bad(t)' <=> Bad(t)) /\ Final(t)' = Final(t) /\ (Bad(t) <=> BadInput(op.fn, op.marks))
  <2>1. Final(t)' = Final(t) BY <1>5 DEF Final
  <2>2. Bad(t)' <=> Bad(t) BY <1>5, Zenon DEF Bad
  <2>3. Bad(t) <=> BadInput(op.fn, op.marks) BY <1>3, Zenon DEF Bad
  <2> QED BY <2>1, <2>2, <2>3
<1>14. {"copy", "zero", "memset", "kernel", "readback"} \subseteq KindSet BY DEF KindSet
<1>15. op.kind # "zero" /\ op.kind # "copy" => (\A k \in {"copy", "zero"} : Executed(t, k)' <=> Executed(t, k))
  <2>1. op.kind # "zero" /\ op.kind # "copy" => Rank(op.kind) > 1 BY <1>2 DEF Rank, KindSet
  <2> QED BY <1>11, <1>14, <2>1 DEF Rank
<1>16. CASE op.kind \in {"copy", "zero"}
  <2>1. ~Executed(t, "kernel")' /\ ~Executed(t, "memset")' /\ ~Executed(t, "readback")'
    BY <1>11, <1>14, <1>16 DEF Rank
  <2>2. op.kind = "copy" => host[t].fn = "fuse" BY <1>3 DEF KindsOf, FunctionSet
  <2>3. op.kind = "zero" => host[t].fn = "pool" BY <1>3 DEF KindsOf, FunctionSet
  <2>4. Executed(t, "copy")' => op.kind = "copy" BY <1>11, <1>14, <1>16, <2>3 DEF KindsOf
  <2>5. Executed(t, "zero")' => op.kind = "zero" BY <1>11, <1>14, <1>16, <2>2 DEF KindsOf
  <2>6. StoredTo(op) = Tokens BY <1>16 DEF StoredTo
  <2>7. output'[t] = [x \in Tokens |-> Value(op, x)] BY <1>5, <1>16, <2>6
  <2>8. op.kind = "copy" => output'[t] = AllOf(<<"text">>) BY <2>7 DEF Value, AllOf
  <2>9. op.kind = "zero" => output'[t] = AllOf(<<"zero">>) BY <2>7 DEF Value, AllOf
  <2>10. Progress(t)' BY <2>1, <2>4, <2>5, <2>8, <2>9 DEF Progress
  <2> QED BY <1>12, <2>10
<1>17. CASE op.kind = "memset"
  <2>1. ~Executed(t, "kernel")' /\ ~Executed(t, "readback")' /\ ~Executed(t, "kernel")
    BY <1>11, <1>14, <1>17 DEF Rank
  <2>2. output'[t] = output[t] /\ flag'[host'[t].fn] = 0 BY <1>3, <1>5, <1>17
  <2>3. (Executed(t, "copy")' <=> Executed(t, "copy")) /\ (Executed(t, "zero")' <=> Executed(t, "zero"))
    BY <1>15, <1>17
  <2>4. Progress(t)' BY <1>4, <2>1, <2>2, <2>3 DEF Progress, AllOf
  <2> QED BY <1>12, <2>4
<1>18. CASE op.kind = "kernel"
  <2>1. Executed(t, "kernel")' /\ ~Executed(t, "readback")' /\ ~Executed(t, "kernel")
    BY <1>3, <1>11, <1>14, <1>18 DEF Rank
  <2>2. host[t].fn \in Flagged => flag'[host[t].fn] = Bit(Bad(t))
    <3> SUFFICES ASSUME host[t].fn \in Flagged PROVE flag'[host[t].fn] = Bit(Bad(t)) OBVIOUS
    <3>1. Executed(t, "memset")
      <4>1. "memset" \in KindsOf(host[t].fn) BY DEF KindsOf, Flagged
      <4> QED BY <1>11, <1>14, <1>18, <4>1 DEF Rank
    <3>2. flag[host[t].fn] = 0 BY <1>4, <2>1, <3>1 DEF Progress
    <3>3. CASE Bad(t) BY <1>3, <1>5, <1>13, <1>18, <3>3 DEF Bit
    <3>4. CASE ~Bad(t) BY <1>3, <1>5, <1>13, <1>18, <3>2, <3>4 DEF Bit
    <3> QED BY <3>3, <3>4
  <2>3. ~Bad(t) => output'[t] = Final(t)
    <3> SUFFICES ASSUME ~Bad(t) PROVE output'[t] = Final(t) OBVIOUS
    <3>1. op.fn = "fuse" => output[t] = AllOf(<<"text">>)
      <4> SUFFICES ASSUME op.fn = "fuse" PROVE output[t] = AllOf(<<"text">>) OBVIOUS
      <4>1. Executed(t, "copy") BY <1>3, <1>11, <1>14, <1>18 DEF Rank, KindsOf
      <4> QED BY <1>4, <2>1, <4>1 DEF Progress
    <3>2. op.fn = "pool" => output[t] = AllOf(<<"zero">>)
      <4> SUFFICES ASSUME op.fn = "pool" PROVE output[t] = AllOf(<<"zero">>) OBVIOUS
      <4>1. Executed(t, "zero") BY <1>3, <1>11, <1>14, <1>18 DEF Rank, KindsOf
      <4> QED BY <1>4, <2>1, <4>1 DEF Progress
    <3> HIDE DEF op
    <3>3. [x \in Tokens |-> IF x \in StoredTo(op) THEN Value(op, x) ELSE output[t][x]] = Final(t)
      BY <1>2, <1>3, <1>18, <3>1, <3>2, KernelOutput
    <3> QED BY <1>5, <1>18, <3>3
  <2>4. flag'[host'[t].fn] = Bit(Bad(t))' \/ host'[t].fn \notin Flagged BY <1>5, <1>13, <2>2 DEF Bit
  <2>5. ~Bad(t)' => output'[t] = Final(t)' BY <1>13, <2>3
  <2>6. Progress(t)' BY <2>1, <2>4, <2>5 DEF Progress
  <2> QED BY <1>12, <2>6
<1>19. CASE op.kind = "readback"
  <2>1. Executed(t, "kernel")' /\ Executed(t, "kernel")
    <3>1. "kernel" \in KindsOf(host[t].fn) BY DEF KindsOf
    <3> QED BY <1>11, <1>14, <1>19, <3>1 DEF Rank
  <2>2. host[t].fn \in Flagged BY <1>3, <1>19 DEF KindsOf, FunctionSet, Flagged
  <2>3. flag[host[t].fn] = Bit(Bad(t)) /\ (~Bad(t) => output[t] = Final(t)) BY <1>4, <2>1, <2>2 DEF Progress
  <2>4. flag' = flag /\ output'[t] = output[t] /\ host'[t].h_flag = flag[host[t].fn] BY <1>3, <1>5, <1>19
  <2>5. Bit(Bad(t))' = Bit(Bad(t)) BY <1>13 DEF Bit
  <2>6. Progress(t)' BY <1>5, <1>13, <2>1, <2>3, <2>4, <2>5 DEF Progress
  <2> QED BY <1>12, <2>6
<1> QED BY <1>2, <1>16, <1>17, <1>18, <1>19 DEF KindSet

LEMMA ExecuteStep ==
    ASSUME CallInv, NEW i \in DOMAIN pending, Execute(i)
    PROVE  CallInv'
<1> DEFINE op == pending[i]
<1>1. CallsType /\ Alone /\ InOrder /\ \A u \in Callers : Kept(u) BY DEF CallInv
<1> PICK t \in Callers : t = op.caller BY <1>1, PendingOps
<1>2. op \in Ops /\ t \in Callers /\ op.kind \in KindSet /\ OfItsCall(op) BY <1>1, PendingOps DEF InOrder
<1>3. Active(t) /\ op.fn = host[t].fn /\ op.kind \in KindsOf(host[t].fn) BY <1>2 DEF OfItsCall
<1>4. pending' = RemoveAt(pending, i) /\ UNCHANGED last_error BY DEF Execute
<1>5. /\ pending' \in Seq(Ops)
      /\ \A j \in DOMAIN pending' : \E m \in DOMAIN pending : m # i /\ pending'[j] = pending[m]
      /\ \A j, l \in DOMAIN pending' : j < l /\ pending'[j].caller = pending'[l].caller =>
            Rank(pending'[j].kind) < Rank(pending'[l].kind)
      /\ \A u \in Callers, k \in KindSet : Pending(u, k)' <=> Pending(u, k) /\ ~(u = t /\ k = op.kind)
  BY <1>4, ExecuteQueue
<1>6. /\ host' \in [Callers -> Hosts] /\ flag' \in [Flagged -> {0, 1}]
      /\ output' = [u \in Callers |-> output'[u]]
      /\ \A u \in Callers \ {t} : host'[u] = host[u] /\ output'[u] = output[u]
      /\ \A f \in Flagged \ {op.fn} : flag'[f] = flag[f]
      /\ host'[t].step = host[t].step /\ host'[t].fn = host[t].fn /\ host'[t].stream = host[t].stream
      /\ host'[t].marks = host[t].marks /\ host'[t].parallel = host[t].parallel
      /\ host'[t].faulted = host[t].faulted /\ host'[t].result = host[t].result
  BY ExecuteEffect
<1>7. \A u \in Callers :
          /\ host'[u].step = host[u].step /\ host'[u].fn = host[u].fn /\ host'[u].stream = host[u].stream
          /\ host'[u].marks = host[u].marks /\ host'[u].parallel = host[u].parallel
  BY <1>6
<1>8. \A u \in Callers : Active(u)' <=> Active(u) BY <1>7 DEF Active, At
<1>9. CallsType'
  <2>1. \A u \in Callers : Active(u)' =>
            host'[u].fn \in FunctionSet /\ host'[u].step \in StepsOf(host'[u].fn) /\ host'[u].stream \in Streams
    BY <1>1, <1>7, <1>8 DEF CallsType
  <2> QED BY <1>1, <1>4, <1>5, <1>6, <2>1 DEF CallsType
<1>10. Alone' BY <1>1, <1>4, <1>7, <1>8 DEF Alone, At
<1>11. InOrder'
  <2>1. ASSUME NEW j \in DOMAIN pending' PROVE OfItsCall(pending[j])'
    <3>1. PICK m \in DOMAIN pending : pending'[j] = pending[m] BY <1>5
    <3>2. OfItsCall(pending[m]) /\ pending[m].caller \in Callers BY <1>1, PendingOps DEF InOrder
    <3> QED BY <1>7, <1>8, <3>1, <3>2 DEF OfItsCall
  <2> QED BY <1>5, <2>1 DEF InOrder
<1>12. ASSUME NEW u \in Callers \ {t} PROVE Kept(u)'
  <2>1. \A k \in KindSet : Pending(u, k)' <=> Pending(u, k) BY <1>5
  <2>2. Active(u) => host[u].fn \in FunctionSet BY <1>1 DEF CallsType
  <2>3. host[u].fn \in Flagged /\ Active(u) => host[u].fn # op.fn BY <1>1, <1>2, <1>3 DEF Alone, Flagged
  <2>4. host[u].fn \in Flagged /\ Active(u) => flag'[host[u].fn] = flag[host[u].fn] BY <1>6, <2>3
  <2> HIDE DEF op
  <2> QED BY <1>1, <1>4, <1>6, <2>1, <2>2, <2>4, KeptAlone
<1>13. Kept(t)'
  <2>1. CASE At(t, "returned")
    <3>1. Outcome(t) BY <1>1, <1>2, <1>3, <2>1 DEF Kept
    <3>2. Pending(t, op.kind) BY DEF Pending
    <3>3. host[t].faulted \/ Loose(t) BY <1>2, <3>1, <3>2 DEF Outcome
    <3>4. Outcome(t)' BY <1>4, <1>6, <3>1, <3>3 DEF Outcome, Loose
    <3> QED BY <1>6, <2>1, <3>4 DEF Kept, At
  <2>2. CASE ~At(t, "returned")
    <3>1. ~Loose(t) => Suffix(t)' /\ Progress(t)' BY <1>2, <2>2, ExecuteProgress
    <3>2. ~At(t, "returned")' /\ (Loose(t)' <=> Loose(t)) BY <1>4, <1>6, <2>2 DEF At, Loose
    <3> QED BY <3>1, <3>2 DEF Kept
  <2> QED BY <2>1, <2>2
<1> QED BY <1>9, <1>10, <1>11, <1>12, <1>13 DEF CallInv

-----------------------------------------------------------------------------
(* The inductive invariant.                                                 *)

LEMMA CallInvInit == CallInit => CallInv
<1> SUFFICES ASSUME CallInit PROVE CallInv OBVIOUS
<1>1. \A t \in Callers : host[t] = Idle /\ last_error[t] = FALSE BY DEF CallInit
<1>2. Idle \in Hosts /\ Idle.step = "idle" BY DEF Idle, Hosts, StepSet
<1>3. \A t \in Callers : ~Active(t) BY <1>1, <1>2 DEF Active, At
<1>4. pending = <<>> /\ pending \in Seq(Ops) /\ DOMAIN pending = {} BY DEF CallInit
<1>5. CallsType BY <1>1, <1>2, <1>3, <1>4 DEF CallInit, CallsType
<1>6. Alone BY <1>1, <1>3 DEF Alone
<1>7. InOrder BY <1>4 DEF InOrder
<1>8. \A t \in Callers : Kept(t) BY <1>3 DEF Kept
<1> QED BY <1>5, <1>6, <1>7, <1>8 DEF CallInv

LEMMA CallInvStep ==
    ASSUME Careful, CallInv, [CallNext]_call_vars
    PROVE  CallInv'
<1>1. ASSUME NEW t \in Callers, NEW f \in Functions, NEW s \in Streams, NEW marks \in Inputs,
             NEW parallel \in BOOLEAN, Call(t, f, s, marks, parallel)
      PROVE  CallInv'
  BY <1>1, CallStep
<1>2. ASSUME NEW t \in Callers, CopyTokens(t) \/ DeviceIntScratch(t) \/ ClearFlag(t) PROVE CallInv'
  BY <1>2, CopyTokensStep, DeviceIntScratchStep, ClearFlagStep
<1>3. ASSUME NEW t \in Callers, LaunchKernel(t) \/ ReadBack(t) PROVE CallInv'
  BY <1>3, LaunchKernelStep, ReadBackStep
<1>4. ASSUME NEW t \in Callers, Synchronize(t) \/ EnqueueZero(t) \/ EnqueuePool(t) \/ GoOn(t) PROVE CallInv'
  BY <1>4, SynchronizeStep, EnqueueZeroStep, EnqueuePoolStep, GoOnStep
<1>5. ASSUME NEW i \in DOMAIN pending, Execute(i) PROVE CallInv' BY <1>5, ExecuteStep
<1>6. ASSUME UNCHANGED call_vars PROVE CallInv'
  <2>1. UNCHANGED <<host, last_error, pending, flag, output>> BY <1>6 DEF call_vars
  <2>2. CallsType /\ Alone /\ InOrder /\ \A u \in Callers : Kept(u) BY DEF CallInv
  <2>3. CallsType' /\ Alone' BY <2>1, <2>2 DEF CallsType, Alone, Active, At
  <2>4. InOrder' BY <2>1, <2>2 DEF InOrder, OfItsCall, Active, At
  <2>5. \A u \in Callers, k \in KindSet : Pending(u, k)' <=> Pending(u, k) BY <2>1 DEF Pending
  <2>6. ASSUME NEW u \in Callers PROVE Kept(u)'
    <3>1. Active(u) => host[u].fn \in FunctionSet BY <2>2 DEF CallsType
    <3> QED BY <2>1, <2>2, <2>5, <3>1, KeptAlone
  <2> QED BY <2>3, <2>4, <2>6 DEF CallInv
<1> QED BY <1>1, <1>2, <1>3, <1>4, <1>5, <1>6 DEF CallNext

\* A step that leaves of t all that Clean is about.
LEMMA CleanKept ==
    ASSUME Clean, NEW t \in Callers, host'[t].fn = host[t].fn, host'[t].marks = host[t].marks,
           Active(t)' => Active(t), At(t, "zero") => At(t, "zero")', last_error'[t] = last_error[t],
           Pending(t, "zero")' <=> Pending(t, "zero"), output'[t] = output[t]
    PROVE  Zeroed(t)' => NotStale(t)'
<1>1. Zeroed(t)' => Zeroed(t) BY DEF Zeroed
<1> QED BY <1>1 DEF Clean, NotStale

\* A step of another thread that issues at most operations of its own.
LEMMA CleanOther ==
    ASSUME Clean, CallsType, CallsType', NEW t \in Callers, NEW u \in Callers \ {t},
           host'[t] = host[t], last_error'[t] = last_error[t], output'[t] = output[t],
           pending' = pending \/ \E op : op.caller = u /\ op.kind \in KindSet /\ pending' = Append(pending, op)
    PROVE  Zeroed(t)' => NotStale(t)'
<1>1. pending \in Seq(Ops) BY DEF CallsType
<1>2. Pending(t, "zero")' <=> Pending(t, "zero")
  <2>1. CASE pending' = pending BY <2>1 DEF Pending
  <2>2. CASE \E op : op.caller = u /\ op.kind \in KindSet /\ pending' = Append(pending, op)
    <3>1. PICK op : op.caller = u /\ pending' = Append(pending, op) BY <2>2
    <3>2. /\ DOMAIN pending = 1 .. Len(pending) /\ Len(pending) \in Nat
          /\ DOMAIN pending' = 1 .. Len(pending) + 1 /\ pending'[Len(pending) + 1] = op
          /\ \A i \in DOMAIN pending : pending'[i] = pending[i]
      BY <1>1, <3>1
    <3>3. ASSUME Pending(t, "zero")' PROVE Pending(t, "zero")
      <4>1. PICK i \in DOMAIN pending' : pending'[i].caller = t /\ pending'[i].kind = "zero"
        BY <3>3 DEF Pending
      <4>2. CASE i = Len(pending) + 1
        <5>1. op.caller = t BY <3>2, <4>1, <4>2
        <5> QED BY <3>1, <5>1
      <4>3. CASE i # Len(pending) + 1
        <5>1. i \in DOMAIN pending BY <3>2, <4>1, <4>3
        <5> QED BY <3>2, <4>1, <5>1 DEF Pending
      <4> QED BY <4>2, <4>3
    <3>4. ASSUME Pending(t, "zero") PROVE Pending(t, "zero")'
      <4>1. PICK i \in DOMAIN pending : pending[i].caller = t /\ pending[i].kind = "zero"
        BY <3>4 DEF Pending
      <4>2. i \in DOMAIN pending' BY <3>2
      <4> QED BY <3>2, <4>1, <4>2 DEF Pending
    <3> QED BY <3>3, <3>4
  <2> QED BY <2>1, <2>2
<1> QED BY <1>2, CleanKept DEF Active, At

\* What an operation of a pooling stores.
LEMMA PoolStores ==
    ASSUME CallInv, NEW i \in DOMAIN pending, Execute(i), NEW t \in Callers, t = pending[i].caller,
           host[t].fn = "pool", pending[i].kind = "zero" \/ NotStale(t)
    PROVE  NotStale(t)'
<1> DEFINE op == pending[i]
<1>1. op \in Ops /\ OfItsCall(op) BY PendingOps DEF CallInv, InOrder
<1>2. op.fn = "pool" /\ op.marks = host[t].marks /\ op.kind \in {"zero", "kernel"}
  BY <1>1 DEF OfItsCall, KindsOf
<1>3. /\ host'[t].marks = host[t].marks
      /\ output'[t] = [x \in Tokens |-> IF x \in StoredTo(op) THEN Value(op, x) ELSE output[t][x]]
  BY <1>2, ExecuteEffect
<1> HIDE DEF op
<1>4. CASE op.kind = "zero"
  <2>1. StoredTo(op) = Tokens /\ \A x \in Tokens : Value(op, x) = <<"zero">> BY <1>4 DEF StoredTo, Value
  <2> QED BY <1>3, <2>1 DEF NotStale
<1>5. CASE op.kind = "kernel"
  <2>1. StoredTo(op) = host[t].marks BY <1>2, <1>5 DEF StoredTo
  <2>2. \A x \in Tokens : Value(op, x) = <<"pooled">> BY <1>2, <1>5 DEF Value
  <2>3. NotStale(t) BY <1>5 DEF op
  <2> QED BY <1>3, <2>1, <2>2, <2>3 DEF NotStale
<1> QED BY <1>2, <1>4, <1>5

LEMMA CleanStep ==
    ASSUME Careful, CallInv, CallInv', Clean, [CallNext]_call_vars
    PROVE  Clean'
<1> SUFFICES ASSUME NEW t \in Callers PROVE Zeroed(t)' => NotStale(t)' BY DEF Clean
<1>1. CallsType /\ CallsType' BY DEF CallInv
<1>2. ASSUME NEW i \in DOMAIN pending, Execute(i) PROVE Zeroed(t)' => NotStale(t)'
  <2>1. PICK u \in Callers : u = pending[i].caller BY <1>1, PendingOps
  <2>2. /\ \A k \in KindSet : Pending(t, k)' <=> Pending(t, k) /\ ~(t = u /\ k = pending[i].kind)
        /\ last_error' = last_error /\ pending[i].kind \in KindSet
    <3>1. pending' = RemoveAt(pending, i) /\ UNCHANGED last_error BY <1>2 DEF Execute
    <3> QED BY <1>1, <2>1, <3>1, ExecuteQueue, PendingOps
  <2>3. "zero" \in KindSet BY DEF KindSet
  <2>4. CASE t = u
    <3>1. host'[t].step = host[t].step /\ host'[t].fn = host[t].fn BY <1>2, <2>1, <2>4, ExecuteEffect
    <3>2. ASSUME Zeroed(t)' PROVE host[t].fn = "pool" /\ (pending[i].kind = "zero" \/ NotStale(t))
      BY <2>2, <2>3, <3>1, <3>2 DEF Zeroed, Active, At, Clean
    <3> QED BY <1>2, <2>1, <2>4, <3>2, PoolStores
  <2>5. CASE t # u
    <3>1. host'[t] = host[t] /\ output'[t] = output[t] BY <1>2, <2>1, <2>5, ExecuteEffect
    <3> QED BY <2>2, <2>3, <2>5, <3>1, CleanKept DEF Active, At
  <2> QED BY <2>4, <2>5
<1>3. CASE UNCHANGED call_vars
  BY <1>3, CleanKept DEF call_vars, Active, At, Pending
<1>4. ASSUME NEW u \in Callers, u # t,
             \/ \E f \in Functions, s \in Streams, marks \in Inputs, parallel \in BOOLEAN :
                   Call(u, f, s, marks, parallel)
             \/ CopyTokens(u) \/ DeviceIntScratch(u) \/ ClearFlag(u) \/ LaunchKernel(u) \/ ReadBack(u)
             \/ Synchronize(u) \/ EnqueueZero(u) \/ EnqueuePool(u) \/ GoOn(u)
      PROVE  Zeroed(t)' => NotStale(t)'
  <2>1. host'[t] = host[t] /\ last_error'[t] = last_error[t]
    BY <1>1, <1>4 DEF CallsType, Call, CopyTokens, DeviceIntScratch, ClearFlag, LaunchKernel, ReadBack,
           Synchronize, EnqueueZero, EnqueuePool, GoOn, IssueOrFail, LaunchUnchecked, Fail, Goto, Returned
  <2>2. output'[t] = output[t]
    BY <1>1, <1>4 DEF CallsType, Call, CopyTokens, DeviceIntScratch, ClearFlag, LaunchKernel, ReadBack,
           Synchronize, EnqueueZero, EnqueuePool, GoOn, LaunchUnchecked
  <2>3. pending' = pending \/ \E kind \in KindSet : \E s : pending' = Append(pending, Op(u, kind, s))
    BY <1>4 DEF Call, CopyTokens, DeviceIntScratch, ClearFlag, LaunchKernel, ReadBack, Synchronize,
           EnqueueZero, EnqueuePool, GoOn, IssueOrFail, LaunchUnchecked, Fail, Issue, KindSet
  <2>4. \A kind \in KindSet : \A s : Op(u, kind, s).caller = u /\ Op(u, kind, s).kind = kind BY DEF Op
  <2> QED BY <1>1, <1>4, <2>1, <2>2, <2>3, <2>4, CleanOther
<1>5. ASSUME NEW f \in Functions, NEW s \in Streams, NEW marks \in Inputs, NEW parallel \in BOOLEAN,
             Call(t, f, s, marks, parallel)
      PROVE  ~Zeroed(t)'
  <2>1. host'[t].step = FirstStep[f] /\ host'[t].fn = f
    <3>1. host' = [host EXCEPT ![t] = [Idle EXCEPT !.step = FirstStep[f], !.fn = f, !.stream = s,
                                               !.marks = marks, !.parallel = parallel]]
      BY <1>5 DEF Call
    <3> QED BY <1>1, <3>1 DEF CallsType, Idle
  <2> QED BY <2>1 DEF FirstStep, Zeroed, At
<1>6. CASE CopyTokens(t) \/ DeviceIntScratch(t) \/ ClearFlag(t) \/ LaunchKernel(t) \/ ReadBack(t)
  <2>1. At(t, "copy") \/ host[t].step \in {"scratch", "memset", "launch", "readback"}
    BY <1>6 DEF CopyTokens, DeviceIntScratch, ClearFlag, LaunchKernel, ReadBack, At
  <2>2. Active(t) BY <2>1 DEF Active, At
  <2>3. host[t].fn # "pool" BY <2>1, <2>2, PlaceFacts DEF Flagged
  <2>4. \/ \E step \in StepSet : Goto(t, step)
        \/ \E result, faulted \in BOOLEAN : host' = Returned(t, result, faulted)
    BY <1>6 DEF CopyTokens, DeviceIntScratch, ClearFlag, LaunchKernel, ReadBack, IssueOrFail, Fail, Goto,
           StepSet
  <2>5. host'[t].fn = host[t].fn BY <1>1, <2>4, GotoRecord, ReturnedRecord
  <2> QED BY <2>3, <2>5 DEF Zeroed
<1>7. CASE Synchronize(t)
  <2>1. /\ At(t, "sync") /\ host' = Returned(t, host[t].h_flag = 0, FALSE)
        /\ UNCHANGED <<last_error, pending, output>>
    BY <1>7 DEF Synchronize
  <2>2. (host[t].h_flag = 0) \in BOOLEAN OBVIOUS
  <2>3. host'[t].fn = host[t].fn /\ host'[t].marks = host[t].marks BY <1>1, <2>1, ReturnedRecord
  <2>4. Active(t) /\ ~At(t, "zero") BY <2>1 DEF Active, At
  <2>5. Pending(t, "zero")' <=> Pending(t, "zero") BY <2>1 DEF Pending
  <2> QED BY <2>1, <2>3, <2>4, <2>5, CleanKept
<1>8. CASE EnqueueZero(t)
  <2>1. \/ pending' = Append(pending, Op(t, "zero", Legacy))
        \/ last_error' = [last_error EXCEPT ![t] = TRUE]
    BY <1>8 DEF EnqueueZero, LaunchUnchecked
  <2>2. ASSUME pending' = Append(pending, Op(t, "zero", Legacy)) PROVE Pending(t, "zero")'
    <3>1. pending \in Seq(Ops) BY <1>1 DEF CallsType
    <3>2. Len(pending) + 1 \in DOMAIN pending' /\ pending'[Len(pending) + 1] = Op(t, "zero", Legacy)
      BY <2>2, <3>1
    <3>3. Op(t, "zero", Legacy).caller = t /\ Op(t, "zero", Legacy).kind = "zero" BY DEF Op
    <3> QED BY <3>2, <3>3 DEF Pending
  <2>3. last_error' = [last_error EXCEPT ![t] = TRUE] => last_error'[t] BY <1>1 DEF CallsType
  <2> QED BY <2>1, <2>2, <2>3 DEF Zeroed
<1>9. CASE EnqueuePool(t)
  <2>1. /\ At(t, "pool") /\ Goto(t, "sync") /\ UNCHANGED output
        /\ \/ pending' = Append(pending, Op(t, "kernel", host[t].stream)) /\ UNCHANGED last_error
           \/ last_error' = [last_error EXCEPT ![t] = TRUE]
    BY <1>9 DEF EnqueuePool, LaunchUnchecked
  <2>2. host'[t].fn = host[t].fn /\ host'[t].marks = host[t].marks BY <1>1, <2>1, GotoRecord DEF StepSet
  <2>3. Active(t) /\ ~At(t, "zero") BY <2>1 DEF Active, At
  <2>4. CASE last_error' = [last_error EXCEPT ![t] = TRUE]
    <3>1. last_error'[t] BY <1>1, <2>4 DEF CallsType
    <3> QED BY <3>1 DEF Zeroed
  <2>5. CASE pending' = Append(pending, Op(t, "kernel", host[t].stream)) /\ UNCHANGED last_error
    <3>1. pending \in Seq(Ops) BY <1>1 DEF CallsType
    <3>2. /\ DOMAIN pending = 1 .. Len(pending) /\ Len(pending) \in Nat
          /\ DOMAIN pending' = 1 .. Len(pending) + 1
          /\ pending'[Len(pending) + 1] = Op(t, "kernel", host[t].stream)
          /\ \A i \in DOMAIN pending : pending'[i] = pending[i]
      BY <2>5, <3>1
    <3>3. Op(t, "kernel", host[t].stream).kind = "kernel" BY DEF Op
    <3>4. Pending(t, "zero")' <=> Pending(t, "zero") BY <3>2, <3>3 DEF Pending
    <3> QED BY <2>1, <2>2, <2>3, <2>5, <3>4, CleanKept
  <2> QED BY <2>1, <2>4, <2>5
<1>10. CASE GoOn(t)
  <2>1. host'[t] = Idle BY <1>1, <1>10 DEF GoOn, CallsType
  <2> QED BY <2>1 DEF Zeroed, Active, At, Idle
<1>11. PICK u \in Callers :
        \/ \E f \in Functions, s \in Streams, marks \in Inputs, parallel \in BOOLEAN :
              Call(u, f, s, marks, parallel)
        \/ CopyTokens(u) \/ DeviceIntScratch(u) \/ ClearFlag(u) \/ LaunchKernel(u) \/ ReadBack(u)
        \/ Synchronize(u) \/ EnqueueZero(u) \/ EnqueuePool(u) \/ GoOn(u)
        \/ \E i \in DOMAIN pending : Execute(i)
        \/ UNCHANGED call_vars
  BY DEF CallNext
<1>12. CASE u # t BY <1>2, <1>3, <1>4, <1>11, <1>12
<1>13. CASE u = t BY <1>2, <1>3, <1>5, <1>6, <1>7, <1>8, <1>9, <1>10, <1>11, <1>13
<1> QED BY <1>12, <1>13

\* A call that returned without a fault of CUDA, in the terms of the invariant.
LEMMA ReturnedCall ==
    ASSUME CallInv, NEW t \in Callers, At(t, "returned")
    PROVE  /\ host[t].fn \in FunctionSet /\ host[t].marks \in SUBSET Tokens /\ Outcome(t)
           /\ host[t].result \in BOOLEAN
<1>1. CallsType /\ Kept(t) BY DEF CallInv
<1>2. Active(t) BY DEF Active, At
<1>3. host[t] \in Hosts /\ host[t].fn \in FunctionSet BY <1>1, <1>2 DEF CallsType
<1> QED BY <1>1, <1>2, <1>3 DEF Kept, Hosts

LEMMA CallsAreHonest == CallInv => CallHonest
<1> SUFFICES ASSUME CallInv, NEW t \in Callers, At(t, "returned"), host[t].fn \in Flagged, ~host[t].faulted
             PROVE  host[t].result <=> ~BadInput(host[t].fn, host[t].marks)
  BY DEF CallHonest
<1>1. Outcome(t) /\ ~Loose(t) BY ReturnedCall DEF Loose, Flagged
<1>2. host[t].result <=> ~Bad(t) BY <1>1, Zenon DEF Outcome
<1> QED BY <1>2, Zenon DEF Bad

LEMMA EmbeddingsAreComplete == CallInv => EmbeddingsComplete
<1> SUFFICES ASSUME CallInv, NEW t \in Callers, At(t, "returned"), host[t].result
             PROVE  CASE host[t].fn = "gather" -> \A x \in Tokens : output[t][x] = <<"row">>
                      [] host[t].fn = "fuse" ->
                            \A x \in Tokens :
                                IF x \in host[t].marks
                                THEN output[t][x] = <<"image", Cardinality({y \in 1 .. x[2] - 1 : <<x[1], y>> \in host[t].marks})>>
                                ELSE output[t][x] = <<"text">>
                      [] OTHER -> TRUE
  BY Zenon DEF EmbeddingsComplete
<1>1. Outcome(t) /\ host[t].marks \in SUBSET Tokens BY ReturnedCall
<1>2. ~host[t].faulted BY <1>1 DEF Outcome
<1>3. host[t].fn \in Flagged => output[t] = Final(t) BY <1>1, <1>2 DEF Outcome, Loose, Flagged
<1>4. CASE host[t].fn = "gather"
  <2>1. output[t] = AllOf(<<"row">>) BY <1>3, <1>4 DEF Final, Flagged
  <2> QED BY <1>4, <2>1 DEF AllOf
<1>5. CASE host[t].fn = "fuse"
  <2>1. output[t] = ImageOf(host[t].marks) BY <1>3, <1>5 DEF Final, Flagged
  <2>2. ASSUME NEW x \in Tokens
        PROVE  IF x \in host[t].marks
               THEN output[t][x] = <<"image", Cardinality({y \in 1 .. x[2] - 1 : <<x[1], y>> \in host[t].marks})>>
               ELSE output[t][x] = <<"text">>
    <3>1. CASE x \in host[t].marks
      <4>1. output[t][x] = <<"image", ImageIdx(host[t].marks, x)>> BY <2>1, <3>1 DEF ImageOf
      <4>2. ImageIdx(host[t].marks, x) = Cardinality({y \in 1 .. x[2] - 1 : <<x[1], y>> \in host[t].marks})
        BY <1>1, <3>1, ImageIdxCounts
      <4> QED BY <3>1, <4>1, <4>2
    <3>2. CASE x \notin host[t].marks BY <2>1, <3>2 DEF ImageOf
    <3> QED BY <3>1, <3>2
  <2> QED BY <1>5, <2>2
<1> QED BY <1>4, <1>5

LEMMA PoolsAreComplete == CallInv /\ Clean => PoolComplete
<1> SUFFICES ASSUME CallInv, Clean, NEW t \in Callers, At(t, "returned"), host[t].fn = "pool", ~last_error[t]
             PROVE  /\ host[t].stream \notin NonBlocking => output[t] = PoolOf(host[t].marks)
                    /\ (\A i \in DOMAIN pending : pending[i].caller # t) => NotStale(t)
  BY DEF PoolComplete, PoolOf, NotStale
<1>1. ASSUME host[t].stream \notin NonBlocking PROVE output[t] = PoolOf(host[t].marks)
  <2>1. Outcome(t) /\ ~Loose(t) BY <1>1, ReturnedCall DEF Loose
  <2>2. ~host[t].faulted BY <2>1 DEF Outcome, Flagged
  <2>3. ~Bad(t) BY DEF Bad, BadInput
  <2>4. output[t] = Final(t) BY <2>1, <2>2, <2>3 DEF Outcome
  <2> QED BY <2>4 DEF Final
<1>2. ASSUME \A i \in DOMAIN pending : pending[i].caller # t PROVE NotStale(t)
  <2>1. Zeroed(t) BY <1>2 DEF Zeroed, Active, At, Pending
  <2> QED BY <2>1 DEF Clean
<1> QED BY <1>1, <1>2

-----------------------------------------------------------------------------
\* The theorems say it of careful callers: of two threads in one function with a flag
\* either can clear the flag of the other, and an error that is left is that of the next call.
THEOREM CallInvariance == Careful /\ CallSpec => [](CallInv /\ Clean)
<1>1. CASE Careful
  <2>1. CallInit => CallInv /\ Clean
    <3>1. CallInit => Clean BY DEF CallInit, Clean, Zeroed, Active, At, Idle
    <3> QED BY <3>1, CallInvInit
  <2>2. CallInv /\ Clean /\ [CallNext]_call_vars => (CallInv /\ Clean)' BY <1>1, CallInvStep, CleanStep
  <2> QED BY <2>1, <2>2, PTL DEF CallSpec
<1>2. CASE ~Careful BY <1>2
<1> QED BY <1>1, <1>2

\* A gather or fuse call whose CUDA calls succeed reports the fault of its own input and
\* no other, however the device runs its operations among those of the other threads and
\* whatever errors came before it.
THEOREM CallHonestTheorem == Careful /\ CallSpec => []CallHonest
<1>1. CallInv => CallHonest BY CallsAreHonest
<1> QED BY <1>1, CallInvariance, PTL

\* A successful call has stored the row of every token, or the feature of every masked
\* token by its number in the row, with the serial kernel as with the parallel one.
THEOREM EmbeddingsCompleteTheorem == Careful /\ CallSpec => []EmbeddingsComplete
<1>1. CallInv => EmbeddingsComplete BY EmbeddingsAreComplete
<1> QED BY <1>1, CallInvariance, PTL

\* Whichever launches of enqueue are refused: when no error is left with the thread, a
\* caller whose stream the default stream synchronises with finds every cell pooled or zero
\* as it should be, and one on any other stream finds nothing of an earlier frame once the
\* zeroing is over too.
THEOREM PoolCompleteTheorem == Careful /\ CallSpec => []PoolComplete
<1>1. CallInv /\ Clean => PoolComplete BY PoolsAreComplete
<1> QED BY <1>1, CallInvariance, PTL
=============================================================================
