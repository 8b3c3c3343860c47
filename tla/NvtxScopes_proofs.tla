------------------------- MODULE NvtxScopes_proofs -------------------------
(***************************************************************************)
(* Proofs about the NVTX scopes, for any set of threads and any depth: the *)
(* open ranges of a thread are those of its live scopes, and the flag of   *)
(* the process follows the pauses of a careful client.                     *)
(***************************************************************************)
EXTENDS NvtxScopes, SequenceTheorems, TLAPS

Scopes == [kind : {"range", "loaded", "pause"}, pushed : BOOLEAN, previous : BOOLEAN]

NvtxTypeOK ==
    /\ runtime_enabled \in BOOLEAN /\ env_disables \in BOOLEAN /\ wanted \in BOOLEAN
    /\ scopes \in [Threads -> Seq(Scopes)]
    /\ ranges \in [Threads -> Seq(Nat)]

\* Only a range pushes, and a pause that has not yet stored the flag is the innermost scope.
ScopesSound ==
    \A t \in Threads : \A i \in 1 .. Len(scopes[t]) :
        /\ scopes[t][i].pushed => scopes[t][i].kind = "range"
        /\ scopes[t][i].kind = "loaded" => i = Len(scopes[t])

\* The pauses of a thread, by their depth.
Pauses(t) == {i \in 1 .. Len(scopes[t]) : scopes[t][i].kind # "range"}
Stored(t, i) == scopes[t][i].kind = "pause"

\* One thread at a time is inside a pause.
OnePausing == \A t, u \in Threads : Pauses(t) # {} /\ Pauses(u) # {} => t = u

\* Of the nested pauses of a thread the outermost saved what the client wants, and every
\* inner one FALSE, so that the flag is right whichever of them ends next.
PausesSaved ==
    \A t \in Threads : \A i \in Pauses(t) :
        scopes[t][i].previous <=> wanted /\ ~\E j \in Pauses(t) : j < i /\ Stored(t, j)

RangesInv == NvtxTypeOK /\ ScopesSound /\ RangesMatch
\* FlagFollowsPauses, in terms of Pauses.
FlagByPauses ==
    ~env_disables =>
        (runtime_enabled <=> wanted /\ ~\E t \in Threads : \E i \in Pauses(t) : Stored(t, i))

PausesInv == OnePausing /\ (~env_disables => PausesSaved) /\ FlagByPauses

-----------------------------------------------------------------------------
(* The two changes of a stack.                                              *)

LEMMA AppendStack ==
    ASSUME NEW S, NEW s \in Seq(S), NEW e \in S
    PROVE  /\ Append(s, e) \in Seq(S)
           /\ Len(Append(s, e)) = Len(s) + 1
           /\ \A i \in 1 .. Len(s) : Append(s, e)[i] = s[i]
           /\ Append(s, e)[Len(s) + 1] = e
  BY AppendProperties

LEMMA FrontStack ==
    ASSUME NEW S, NEW s \in Seq(S), s # <<>>
    PROVE  /\ Front(s) \in Seq(S)
           /\ Len(s) \in Nat \ {0}
           /\ Len(Front(s)) = Len(s) - 1
           /\ \A i \in 1 .. Len(s) - 1 : Front(s)[i] = s[i]
           /\ Last(s) = s[Len(s)] /\ Last(s) \in S
<1>1. Len(s) \in Nat \ {0} BY EmptySeq
<1>2. \A i \in 1 .. Len(s) - 1 : s[i] \in S BY ElementOfSeq
<1>3. Last(s) = s[Len(s)] /\ Last(s) \in S BY <1>1, ElementOfSeq DEF Last
<1>4. Len(s) - 1 \in Int /\ 1 \in Int /\ Len(s) - 1 - 1 + 1 = Len(s) - 1
  BY <1>1
<1>5. \A i \in 1 .. Len(s) - 1 : 1 + i - 1 = i
  OBVIOUS
<1>6. /\ SubSeq(s, 1, Len(s) - 1) \in Seq(S)
      /\ Len(SubSeq(s, 1, Len(s) - 1)) = Len(s) - 1
      /\ \A i \in 1 .. Len(s) - 1 : SubSeq(s, 1, Len(s) - 1)[i] = s[i]
  BY <1>1, <1>2, <1>4, <1>5, SubSeqProperties
<1> QED BY <1>1, <1>3, <1>6 DEF Front

LEMMA EnterStack ==
    ASSUME NvtxTypeOK, NEW t \in Threads, NEW scope \in Scopes, Enter(t, scope)
    PROVE  /\ scopes' \in [Threads -> Seq(Scopes)]
           /\ Len(scopes[t]) \in Nat /\ Len(scopes'[t]) = Len(scopes[t]) + 1
           /\ \A i \in 1 .. Len(scopes[t]) : scopes'[t][i] = scopes[t][i]
           /\ scopes'[t][Len(scopes[t]) + 1] = scope
           /\ \A u \in Threads \ {t} : scopes'[u] = scopes[u]
<1>1. scopes[t] \in Seq(Scopes) /\ Len(scopes[t]) \in Nat BY LenProperties DEF NvtxTypeOK
<1>2. scopes' = [scopes EXCEPT ![t] = Append(scopes[t], scope)] BY DEF Enter
<1>3. scopes'[t] = Append(scopes[t], scope) /\ \A u \in Threads \ {t} : scopes'[u] = scopes[u]
  BY <1>2 DEF NvtxTypeOK
<1> QED BY <1>1, <1>2, <1>3, AppendStack DEF NvtxTypeOK

LEMMA LeaveStack ==
    ASSUME NvtxTypeOK, NEW t \in Threads, scopes[t] # <<>>, Leave(t)
    PROVE  /\ scopes' \in [Threads -> Seq(Scopes)]
           /\ Len(scopes[t]) \in Nat \ {0} /\ Len(scopes'[t]) = Len(scopes[t]) - 1
           /\ \A i \in 1 .. Len(scopes[t]) - 1 : scopes'[t][i] = scopes[t][i]
           /\ Top(t) = scopes[t][Len(scopes[t])] /\ Top(t) \in Scopes
           /\ \A u \in Threads \ {t} : scopes'[u] = scopes[u]
<1>1. scopes[t] \in Seq(Scopes) BY DEF NvtxTypeOK
<1>2. scopes' = [scopes EXCEPT ![t] = Front(scopes[t])] BY DEF Leave
<1>3. scopes'[t] = Front(scopes[t]) /\ \A u \in Threads \ {t} : scopes'[u] = scopes[u]
  BY <1>2 DEF NvtxTypeOK
<1> DEFINE f == Front(scopes[t])  n == Len(scopes[t])
<1>4. /\ f \in Seq(Scopes) /\ n \in Nat \ {0} /\ Len(f) = n - 1
      /\ \A i \in 1 .. n - 1 : f[i] = scopes[t][i]
      /\ Top(t) = scopes[t][n] /\ Top(t) \in Scopes
  BY <1>1, FrontStack DEF Top
<1>5. scopes' \in [Threads -> Seq(Scopes)] BY <1>2, <1>4 DEF NvtxTypeOK
<1> HIDE DEF f
<1>6. scopes'[t] = f BY <1>3 DEF f
<1> QED BY <1>3, <1>4, <1>5, <1>6

\* Replacing the innermost scope, as the end of the constructor of a pause does.
LEMMA ReplaceStack ==
    ASSUME NvtxTypeOK, NEW t \in Threads, scopes[t] # <<>>, NEW scope \in Scopes,
           scopes' = [scopes EXCEPT ![t] = Append(Front(@), scope)]
    PROVE  /\ scopes' \in [Threads -> Seq(Scopes)]
           /\ Len(scopes[t]) \in Nat \ {0} /\ Len(scopes'[t]) = Len(scopes[t])
           /\ \A i \in 1 .. Len(scopes[t]) - 1 : scopes'[t][i] = scopes[t][i]
           /\ scopes'[t][Len(scopes[t])] = scope
           /\ Top(t) = scopes[t][Len(scopes[t])] /\ Top(t) \in Scopes
           /\ \A u \in Threads \ {t} : scopes'[u] = scopes[u]
<1>1. scopes[t] \in Seq(Scopes) BY DEF NvtxTypeOK
<1>2. scopes'[t] = Append(Front(scopes[t]), scope) /\ \A u \in Threads \ {t} : scopes'[u] = scopes[u]
  BY DEF NvtxTypeOK
<1> DEFINE f == Front(scopes[t])  n == Len(scopes[t])
<1>3. /\ f \in Seq(Scopes) /\ n \in Nat \ {0} /\ Len(f) = n - 1
      /\ \A i \in 1 .. n - 1 : f[i] = scopes[t][i]
      /\ Top(t) = scopes[t][n] /\ Top(t) \in Scopes
  BY <1>1, FrontStack DEF Top
<1>4. /\ Append(f, scope) \in Seq(Scopes) /\ Len(Append(f, scope)) = Len(f) + 1
      /\ \A i \in 1 .. Len(f) : Append(f, scope)[i] = f[i]
      /\ Append(f, scope)[Len(f) + 1] = scope
  BY <1>3, AppendStack
<1>5. scopes' \in [Threads -> Seq(Scopes)] BY <1>2, <1>4 DEF NvtxTypeOK
<1> HIDE DEF f
<1>6. Len(f) + 1 = n BY <1>3
<1>7. scopes'[t] = Append(f, scope) BY <1>2 DEF f
<1> QED BY <1>2, <1>3, <1>4, <1>5, <1>6, <1>7

-----------------------------------------------------------------------------
(* RangesMatch.                                                             *)

Matches(r, s) ==
    /\ \A i, j \in DOMAIN r : i < j => r[i] < r[j]
    /\ Range(r) = {d \in DOMAIN s : s[d].pushed}

\* The depths of the scopes that pushed, as numbers.
LEMMA MatchesElements ==
    ASSUME NEW r \in Seq(Nat), NEW s \in Seq(Scopes)
    PROVE  Matches(r, s) <=>
              /\ \A i, j \in 1 .. Len(r) : i < j => r[i] < r[j]
              /\ \A i \in 1 .. Len(r) : r[i] \in 1 .. Len(s) /\ s[r[i]].pushed
              /\ \A d \in 1 .. Len(s) : s[d].pushed => \E i \in 1 .. Len(r) : r[i] = d
<1>1. DOMAIN r = 1 .. Len(r) /\ DOMAIN s = 1 .. Len(s) BY LenProperties
<1>2. Range(r) = {r[i] : i \in 1 .. Len(r)} BY <1>1 DEF Range
<1> QED BY <1>1, <1>2 DEF Matches

LEMMA MatchPush ==
    ASSUME NEW r \in Seq(Nat), NEW s \in Seq(Scopes), NEW s2 \in Seq(Scopes), Matches(r, s),
           Len(s2) = Len(s) + 1, \A i \in 1 .. Len(s) : s2[i] = s[i]
    PROVE  /\ s2[Len(s) + 1].pushed => Matches(Append(r, Len(s) + 1), s2)
           /\ ~s2[Len(s) + 1].pushed => Matches(r, s2)
<1> DEFINE n == Len(s)  m == Len(r)
<1>1. n \in Nat /\ m \in Nat /\ \A i \in 1 .. m : r[i] \in Nat BY LenProperties, ElementOfSeq
<1>2. /\ \A i, j \in 1 .. m : i < j => r[i] < r[j]
      /\ \A i \in 1 .. m : r[i] \in 1 .. n /\ s[r[i]].pushed
      /\ \A d \in 1 .. n : s[d].pushed => \E i \in 1 .. m : r[i] = d
  BY MatchesElements
<1>a. Len(s2) = n + 1 /\ \A i \in 1 .. n : s2[i] = s[i]
  OBVIOUS
<1>b. SUFFICES /\ s2[n + 1].pushed => Matches(Append(r, n + 1), s2)
               /\ ~s2[n + 1].pushed => Matches(r, s2)
  OBVIOUS
<1>c. /\ m = Len(r) /\ n = Len(s)
  OBVIOUS
<1> HIDE DEF n, m
<1>3. ASSUME ~s2[n + 1].pushed PROVE Matches(r, s2)
  <2>1. \A i \in 1 .. m : r[i] \in 1 .. n + 1 /\ s2[r[i]].pushed
    <3> TAKE i \in 1 .. m
    <3>1. r[i] \in 1 .. n /\ s[r[i]].pushed BY <1>2
    <3>2. r[i] \in 1 .. n + 1 /\ s2[r[i]] = s[r[i]] BY <1>1, <1>a, <3>1
    <3> QED BY <3>1, <3>2
  <2>2. ASSUME NEW d \in 1 .. n + 1, s2[d].pushed PROVE \E i \in 1 .. m : r[i] = d
    <3>1. d \in 1 .. n BY <1>1, <1>3, <2>2
    <3> QED BY <1>2, <1>a, <2>2, <3>1
  <2> QED BY <1>2, <1>a, <1>c, <2>1, <2>2, MatchesElements
<1>4. ASSUME s2[n + 1].pushed PROVE Matches(Append(r, n + 1), s2)
  <2> DEFINE q == Append(r, n + 1)
  <2>1. /\ q \in Seq(Nat) /\ Len(q) = m + 1
        /\ \A i \in 1 .. m : q[i] = r[i]
        /\ q[m + 1] = n + 1
    BY <1>1, <1>c, AppendStack
  <2> HIDE DEF q
  <2>2. \A i \in 1 .. m : q[i] < n + 1 /\ q[i] \in 1 .. n /\ s2[q[i]].pushed
    <3> TAKE i \in 1 .. m
    <3>1. q[i] \in 1 .. n /\ s[q[i]].pushed BY <1>2, <2>1
    <3>2. q[i] < n + 1 /\ s2[q[i]] = s[q[i]] BY <1>1, <1>a, <3>1
    <3> QED BY <3>1, <3>2
  <2>3. \A i \in 1 .. m + 1 : q[i] \in 1 .. n + 1 /\ s2[q[i]].pushed
    <3> TAKE i \in 1 .. m + 1
    <3>1. CASE i = m + 1
      <4>1. q[i] = n + 1 BY <2>1, <3>1
      <4>2. n + 1 \in 1 .. n + 1 BY <1>1
      <4> QED BY <1>4, <4>1, <4>2
    <3>2. CASE i \in 1 .. m
      <4>1. q[i] \in 1 .. n /\ s2[q[i]].pushed BY <2>2, <3>2
      <4>2. 1 .. n \subseteq 1 .. n + 1 BY <1>1
      <4> QED BY <4>1, <4>2
    <3>3. i = m + 1 \/ i \in 1 .. m BY <1>1
    <3> QED BY <3>1, <3>2, <3>3
  <2>4. \A i, j \in 1 .. m + 1 : i < j => q[i] < q[j]
    <3> SUFFICES ASSUME NEW i \in 1 .. m + 1, NEW j \in 1 .. m + 1, i < j PROVE q[i] < q[j]
      OBVIOUS
    <3>1. i \in 1 .. m BY <1>1
    <3>2. CASE j = m + 1 BY <2>1, <2>2, <3>1, <3>2
    <3>3. CASE j \in 1 .. m BY <1>2, <2>1, <3>1, <3>3
    <3>4. j = m + 1 \/ j \in 1 .. m BY <1>1
    <3> QED BY <3>2, <3>3, <3>4
  <2>5. ASSUME NEW d \in 1 .. n + 1, s2[d].pushed PROVE \E i \in 1 .. m + 1 : q[i] = d
    <3>1. CASE d = n + 1
      <4>1. m + 1 \in 1 .. m + 1 BY <1>1
      <4> QED BY <2>1, <3>1, <4>1
    <3>2. CASE d \in 1 .. n
      <4>1. PICK i \in 1 .. m : r[i] = d BY <1>2, <1>a, <2>5, <3>2
      <4>2. i \in 1 .. m + 1 /\ q[i] = d BY <1>1, <2>1, <4>1
      <4> QED BY <4>2
    <3>3. d = n + 1 \/ d \in 1 .. n BY <1>1
    <3> QED BY <3>1, <3>2, <3>3
  <2>6. Matches(q, s2)
    <3>1. SUFFICES /\ \A i, j \in 1 .. Len(q) : i < j => q[i] < q[j]
                   /\ \A i \in 1 .. Len(q) : q[i] \in 1 .. Len(s2) /\ s2[q[i]].pushed
                   /\ \A d \in 1 .. Len(s2) : s2[d].pushed => \E i \in 1 .. Len(q) : q[i] = d
      BY <2>1, MatchesElements
    <3> QED BY <2>1, <1>a, <2>3, <2>4, <2>5
  <2> QED BY <2>6 DEF q
<1> QED BY <1>3, <1>4

LEMMA MatchPop ==
    ASSUME NEW r \in Seq(Nat), NEW s \in Seq(Scopes), NEW s2 \in Seq(Scopes), Matches(r, s),
           s # <<>>, Len(s2) = Len(s) - 1, \A i \in 1 .. Len(s) - 1 : s2[i] = s[i]
    PROVE  /\ s[Len(s)].pushed => r # <<>> /\ Matches(Front(r), s2)
           /\ ~s[Len(s)].pushed => Matches(r, s2)
<1> DEFINE n == Len(s)  m == Len(r)
<1>1. n \in Nat \ {0} /\ m \in Nat /\ \A i \in 1 .. m : r[i] \in Nat
  BY EmptySeq, LenProperties, ElementOfSeq
<1>2. /\ \A i, j \in 1 .. m : i < j => r[i] < r[j]
      /\ \A i \in 1 .. m : r[i] \in 1 .. n /\ s[r[i]].pushed
      /\ \A d \in 1 .. n : s[d].pushed => \E i \in 1 .. m : r[i] = d
  BY MatchesElements
<1>a. Len(s2) = n - 1 /\ \A i \in 1 .. n - 1 : s2[i] = s[i]
  OBVIOUS
<1>b. SUFFICES /\ s[n].pushed => r # <<>> /\ Matches(Front(r), s2)
               /\ ~s[n].pushed => Matches(r, s2)
  OBVIOUS
<1>c. /\ m = Len(r) /\ n = Len(s)
  OBVIOUS
<1> HIDE DEF n, m
<1>3. ASSUME ~s[n].pushed PROVE Matches(r, s2)
  <2>1. \A i \in 1 .. m : r[i] \in 1 .. n - 1 /\ s2[r[i]].pushed
    <3> TAKE i \in 1 .. m
    <3>1. r[i] # n BY <1>2, <1>3
    <3>2. r[i] \in 1 .. n - 1 BY <1>1, <1>2, <3>1
    <3> QED BY <1>2, <1>a, <3>2
  <2>2. \A d \in 1 .. n - 1 : s2[d].pushed => \E i \in 1 .. m : r[i] = d
    <3> TAKE d \in 1 .. n - 1
    <3>1. d \in 1 .. n /\ s2[d] = s[d] BY <1>1, <1>a
    <3> QED BY <1>2, <3>1
  <2> QED BY <1>2, <1>a, <1>c, <2>1, <2>2, MatchesElements
<1>4. ASSUME s[n].pushed PROVE r # <<>> /\ Matches(Front(r), s2)
  <2>1. PICK k \in 1 .. m : r[k] = n BY <1>1, <1>2, <1>4
  <2>2. k = m
    <3>1. CASE k < m
      <4>1. m \in 1 .. m BY <1>1, <2>1
      <4>2. r[k] < r[m] BY <1>2, <2>1, <3>1, <4>1
      <4> QED BY <1>1, <1>2, <2>1, <4>1, <4>2
    <3> QED BY <1>1, <2>1, <3>1
  <2>3. r # <<>> BY <1>c, <2>1, EmptySeq
  <2> DEFINE q == Front(r)
  <2>4. q \in Seq(Nat) /\ Len(q) = m - 1 /\ \A i \in 1 .. m - 1 : q[i] = r[i]
    BY <1>c, <2>3, FrontStack
  <2> HIDE DEF q
  <2>5. \A i, j \in 1 .. m - 1 : i < j => q[i] < q[j]
    <3> TAKE i, j \in 1 .. m - 1
    <3>1. i \in 1 .. m /\ j \in 1 .. m BY <1>1
    <3> QED BY <1>2, <2>4, <3>1
  <2>6. \A i \in 1 .. m - 1 : q[i] \in 1 .. n - 1 /\ s2[q[i]].pushed
    <3> TAKE i \in 1 .. m - 1
    <3>1. r[i] < r[m] /\ r[i] \in 1 .. n /\ s[r[i]].pushed BY <1>1, <1>2
    <3>2. r[i] \in 1 .. n - 1 BY <1>1, <2>1, <2>2, <3>1
    <3> QED BY <1>a, <2>4, <3>1, <3>2
  <2>7. ASSUME NEW d \in 1 .. n - 1, s2[d].pushed PROVE \E i \in 1 .. m - 1 : q[i] = d
    <3>1. d \in 1 .. n /\ s[d].pushed BY <1>1, <1>a, <2>7
    <3>2. PICK i \in 1 .. m : r[i] = d BY <1>2, <3>1
    <3>3. i # m BY <1>1, <2>1, <2>2, <3>2
    <3>4. i \in 1 .. m - 1 BY <1>1, <3>3
    <3> QED BY <2>4, <3>2, <3>4
  <2>8. Matches(q, s2)
    <3>1. SUFFICES /\ \A i, j \in 1 .. Len(q) : i < j => q[i] < q[j]
                   /\ \A i \in 1 .. Len(q) : q[i] \in 1 .. Len(s2) /\ s2[q[i]].pushed
                   /\ \A d \in 1 .. Len(s2) : s2[d].pushed => \E i \in 1 .. Len(q) : q[i] = d
      BY <2>4, MatchesElements
    <3> QED BY <2>4, <1>a, <2>5, <2>6, <2>7
  <2> QED BY <2>3, <2>8 DEF q
<1> QED BY <1>3, <1>4

LEMMA MatchKeep ==
    ASSUME NEW r \in Seq(Nat), NEW s \in Seq(Scopes), NEW s2 \in Seq(Scopes), Matches(r, s),
           Len(s2) = Len(s), \A i \in 1 .. Len(s) : s2[i].pushed <=> s[i].pushed
    PROVE  Matches(r, s2)
<1>1. DOMAIN s2 = DOMAIN s /\ DOMAIN s = 1 .. Len(s) BY LenProperties
<1> QED BY <1>1, MatchesElements

LEMMA OpenRangeRanges ==
    ASSUME RangesInv, NEW t \in Threads, NEW condition \in BOOLEAN, OpenRange(t, condition)
    PROVE  RangesInv'
<1> DEFINE pushed == condition /\ NvtxRuntimeInferenceEnabled
           n == Len(scopes[t])
<1>1. NvtxTypeOK /\ ScopesSound /\ RangesMatch BY DEF RangesInv
<1>2. pushed \in BOOLEAN /\ RangeScope(pushed) \in Scopes /\ RangeScope(pushed).kind = "range"
      /\ RangeScope(pushed).pushed = pushed
  BY <1>1 DEF Scopes, RangeScope, NvtxRuntimeInferenceEnabled, NvtxTypeOK
<1>3. /\ Enter(t, RangeScope(pushed)) /\ ~TopIs(t, "loaded")
      /\ ranges' = IF pushed THEN [ranges EXCEPT ![t] = Append(ranges[t], n + 1)] ELSE ranges
      /\ UNCHANGED <<runtime_enabled, env_disables, wanted>>
  BY DEF OpenRange, CanEnter
<1> HIDE DEF pushed
<1>4. /\ scopes' \in [Threads -> Seq(Scopes)] /\ n \in Nat /\ Len(scopes'[t]) = n + 1
      /\ \A i \in 1 .. n : scopes'[t][i] = scopes[t][i]
      /\ scopes'[t][n + 1] = RangeScope(pushed)
      /\ \A u \in Threads \ {t} : scopes'[u] = scopes[u]
  BY <1>1, <1>2, <1>3, EnterStack
<1>5. \A u \in Threads : ranges[u] \in Seq(Nat) /\ scopes[u] \in Seq(Scopes) /\ Matches(ranges[u], scopes[u])
  BY <1>1 DEF NvtxTypeOK, RangesMatch, Matches
<1>6. Append(ranges[t], n + 1) \in Seq(Nat) BY <1>4, <1>5, AppendStack
<1>7. NvtxTypeOK' BY <1>1, <1>3, <1>4, <1>6 DEF NvtxTypeOK
<1>8. ScopesSound'
  <2> SUFFICES ASSUME NEW u \in Threads, NEW i \in 1 .. Len(scopes'[u])
               PROVE  /\ scopes'[u][i].pushed => scopes'[u][i].kind = "range"
                      /\ scopes'[u][i].kind = "loaded" => i = Len(scopes'[u])
    BY DEF ScopesSound
  <2>1. CASE u # t BY <1>1, <1>4, <2>1 DEF ScopesSound
  <2>2. CASE u = t /\ i = n + 1 BY <1>2, <1>4, <2>2
  <2>3. CASE u = t /\ i \in 1 .. n
    <3>1. scopes[t][i].kind # "loaded"
      <4>1. CASE i = n
        <5>1. scopes[t] # <<>> BY <1>4, <1>5, <4>1, <2>3, EmptySeq
        <5> QED BY <1>3, <4>1, <5>1 DEF TopIs, Top, Last
      <4> QED BY <1>1, <2>3, <4>1 DEF ScopesSound
    <3> QED BY <1>1, <1>4, <2>3, <3>1 DEF ScopesSound
  <2> QED BY <1>4, <2>1, <2>2, <2>3
<1>9. RangesMatch'
  <2>1. ASSUME NEW u \in Threads, u # t PROVE Matches(ranges'[u], scopes'[u])
    <3>1. ranges'[u] = ranges[u] BY <1>1, <1>3, <2>1 DEF NvtxTypeOK
    <3> QED BY <1>4, <1>5, <2>1, <3>1
  <2>2. /\ scopes'[t][n + 1].pushed => Matches(Append(ranges[t], n + 1), scopes'[t])
        /\ ~scopes'[t][n + 1].pushed => Matches(ranges[t], scopes'[t])
    <3>1. scopes'[t] \in Seq(Scopes) BY <1>4
    <3> QED BY <1>4, <1>5, <3>1, MatchPush
  <2>3. Matches(ranges'[t], scopes'[t])
    <3>1. CASE pushed
      <4>1. ranges'[t] = Append(ranges[t], n + 1) BY <1>1, <1>3, <3>1 DEF NvtxTypeOK
      <4> QED BY <1>2, <1>4, <2>2, <3>1, <4>1
    <3>2. CASE ~pushed BY <1>2, <1>3, <1>4, <2>2, <3>2
    <3> QED BY <3>1, <3>2
  <2> QED BY <2>1, <2>3 DEF RangesMatch, Matches
<1> QED BY <1>7, <1>8, <1>9 DEF RangesInv

LEMMA CloseRangeRanges ==
    ASSUME RangesInv, NEW t \in Threads, CloseRange(t)
    PROVE  RangesInv'
<1> DEFINE n == Len(scopes[t])
<1>1. NvtxTypeOK /\ ScopesSound /\ RangesMatch BY DEF RangesInv
<1>2. /\ scopes[t] # <<>> /\ Leave(t)
      /\ ranges' = IF Top(t).pushed /\ ranges[t] # <<>> THEN [ranges EXCEPT ![t] = Front(ranges[t])] ELSE ranges
      /\ UNCHANGED <<runtime_enabled, env_disables, wanted>>
  BY DEF CloseRange, TopIs, Pops
<1>3. /\ scopes' \in [Threads -> Seq(Scopes)] /\ n \in Nat \ {0} /\ Len(scopes'[t]) = n - 1
      /\ \A i \in 1 .. n - 1 : scopes'[t][i] = scopes[t][i]
      /\ Top(t) = scopes[t][n]
      /\ \A u \in Threads \ {t} : scopes'[u] = scopes[u]
  BY <1>1, <1>2, LeaveStack
<1>4. \A u \in Threads : ranges[u] \in Seq(Nat) /\ scopes[u] \in Seq(Scopes) /\ Matches(ranges[u], scopes[u])
  BY <1>1 DEF NvtxTypeOK, RangesMatch, Matches
<1>5. /\ scopes[t][n].pushed => ranges[t] # <<>> /\ Matches(Front(ranges[t]), scopes'[t])
      /\ ~scopes[t][n].pushed => Matches(ranges[t], scopes'[t])
  <2>1. scopes'[t] \in Seq(Scopes) BY <1>3
  <2> QED BY <1>2, <1>3, <1>4, <2>1, MatchPop
<1>6. NvtxTypeOK'
  <2>1. ranges[t] # <<>> => Front(ranges[t]) \in Seq(Nat) BY <1>4, FrontStack
  <2> QED BY <1>1, <1>2, <1>3, <2>1 DEF NvtxTypeOK
<1>7. ScopesSound'
  <2> SUFFICES ASSUME NEW u \in Threads, NEW i \in 1 .. Len(scopes'[u])
               PROVE  /\ scopes'[u][i].pushed => scopes'[u][i].kind = "range"
                      /\ scopes'[u][i].kind = "loaded" => i = Len(scopes'[u])
    BY DEF ScopesSound
  <2>1. CASE u # t BY <1>1, <1>3, <2>1 DEF ScopesSound
  <2>2. CASE u = t BY <1>1, <1>3, <2>2 DEF ScopesSound
  <2> QED BY <2>1, <2>2
<1>8. RangesMatch'
  <2>1. ASSUME NEW u \in Threads, u # t PROVE Matches(ranges'[u], scopes'[u])
    <3>1. ranges'[u] = ranges[u] BY <1>1, <1>2, <2>1 DEF NvtxTypeOK
    <3> QED BY <1>3, <1>4, <2>1, <3>1
  <2>2. Matches(ranges'[t], scopes'[t])
    <3>1. CASE scopes[t][n].pushed
      <4>1. ranges'[t] = Front(ranges[t]) BY <1>1, <1>2, <1>3, <1>5, <3>1 DEF NvtxTypeOK
      <4> QED BY <1>5, <3>1, <4>1
    <3>2. CASE ~scopes[t][n].pushed BY <1>2, <1>3, <1>5, <3>2
    <3> QED BY <3>1, <3>2
  <2> QED BY <2>1, <2>2 DEF RangesMatch, Matches
<1> QED BY <1>6, <1>7, <1>8 DEF RangesInv

LEMMA LoadPreviousRanges ==
    ASSUME RangesInv, NEW t \in Threads, LoadPrevious(t)
    PROVE  RangesInv'
<1> DEFINE scope == PauseScope(NvtxRuntimeInferenceEnabled, "loaded")
           n == Len(scopes[t])
<1>1. NvtxTypeOK /\ ScopesSound /\ RangesMatch BY DEF RangesInv
<1>2. scope \in Scopes /\ scope.kind = "loaded" /\ scope.pushed = FALSE
  BY <1>1 DEF Scopes, PauseScope, NvtxRuntimeInferenceEnabled, NvtxTypeOK
<1>3. /\ Enter(t, scope) /\ ~TopIs(t, "loaded")
      /\ UNCHANGED <<runtime_enabled, env_disables, wanted, ranges>>
  BY DEF LoadPrevious, CanEnter
<1> HIDE DEF scope
<1>4. /\ scopes' \in [Threads -> Seq(Scopes)] /\ n \in Nat /\ Len(scopes'[t]) = n + 1
      /\ \A i \in 1 .. n : scopes'[t][i] = scopes[t][i]
      /\ scopes'[t][n + 1] = scope
      /\ \A u \in Threads \ {t} : scopes'[u] = scopes[u]
  BY <1>1, <1>2, <1>3, EnterStack
<1>5. \A u \in Threads : ranges[u] \in Seq(Nat) /\ scopes[u] \in Seq(Scopes) /\ Matches(ranges[u], scopes[u])
  BY <1>1 DEF NvtxTypeOK, RangesMatch, Matches
<1>6. NvtxTypeOK' BY <1>1, <1>3, <1>4 DEF NvtxTypeOK
<1>7. ScopesSound'
  <2> SUFFICES ASSUME NEW u \in Threads, NEW i \in 1 .. Len(scopes'[u])
               PROVE  /\ scopes'[u][i].pushed => scopes'[u][i].kind = "range"
                      /\ scopes'[u][i].kind = "loaded" => i = Len(scopes'[u])
    BY DEF ScopesSound
  <2>1. CASE u # t BY <1>1, <1>4, <2>1 DEF ScopesSound
  <2>2. CASE u = t /\ i = n + 1 BY <1>2, <1>4, <2>2
  <2>3. CASE u = t /\ i \in 1 .. n
    <3>1. scopes[t][i].kind # "loaded"
      <4>1. CASE i = n
        <5>1. scopes[t] # <<>> BY <1>4, <1>5, <4>1, <2>3, EmptySeq
        <5> QED BY <1>3, <4>1, <5>1 DEF TopIs, Top, Last
      <4> QED BY <1>1, <2>3, <4>1 DEF ScopesSound
    <3> QED BY <1>1, <1>4, <2>3, <3>1 DEF ScopesSound
  <2> QED BY <1>4, <2>1, <2>2, <2>3
<1>8. RangesMatch'
  <2>1. ASSUME NEW u \in Threads, u # t PROVE Matches(ranges'[u], scopes'[u])
    BY <1>3, <1>4, <1>5, <2>1
  <2>2. scopes'[t] \in Seq(Scopes) /\ ~scopes'[t][n + 1].pushed BY <1>2, <1>4
  <2>3. Matches(ranges[t], scopes'[t]) BY <1>4, <1>5, <2>2, MatchPush
  <2> QED BY <1>3, <2>1, <2>3 DEF RangesMatch, Matches
<1> QED BY <1>6, <1>7, <1>8 DEF RangesInv

LEMMA ClearFlagRanges ==
    ASSUME RangesInv, NEW t \in Threads, ClearFlag(t)
    PROVE  RangesInv'
<1> DEFINE scope == PauseScope(Top(t).previous, "pause")
           n == Len(scopes[t])
<1>1. NvtxTypeOK /\ ScopesSound /\ RangesMatch BY DEF RangesInv
<1>2. /\ scopes[t] # <<>> /\ Top(t).kind = "loaded"
      /\ scopes' = [scopes EXCEPT ![t] = Append(Front(@), scope)]
      /\ runtime_enabled' = FALSE /\ UNCHANGED <<env_disables, wanted, ranges>>
  BY DEF ClearFlag, TopIs
<1>3. Top(t) \in Scopes /\ Top(t) = scopes[t][n] BY <1>1, <1>2, FrontStack DEF NvtxTypeOK, Top
<1>4. scope \in Scopes /\ scope.kind = "pause" /\ scope.pushed = FALSE
  BY <1>3 DEF Scopes, PauseScope
<1> HIDE DEF scope
<1>5. /\ scopes' \in [Threads -> Seq(Scopes)] /\ n \in Nat \ {0} /\ Len(scopes'[t]) = n
      /\ \A i \in 1 .. n - 1 : scopes'[t][i] = scopes[t][i]
      /\ scopes'[t][n] = scope
      /\ \A u \in Threads \ {t} : scopes'[u] = scopes[u]
  BY <1>1, <1>2, <1>4, ReplaceStack
<1>6. NvtxTypeOK' BY <1>1, <1>2, <1>5 DEF NvtxTypeOK
<1>7. ScopesSound'
  <2> SUFFICES ASSUME NEW u \in Threads, NEW i \in 1 .. Len(scopes'[u])
               PROVE  /\ scopes'[u][i].pushed => scopes'[u][i].kind = "range"
                      /\ scopes'[u][i].kind = "loaded" => i = Len(scopes'[u])
    BY DEF ScopesSound
  <2>1. CASE u # t BY <1>1, <1>5, <2>1 DEF ScopesSound
  <2>2. CASE u = t /\ i = n BY <1>4, <1>5, <2>2
  <2>3. CASE u = t /\ i \in 1 .. n - 1 BY <1>1, <1>5, <2>3 DEF ScopesSound
  <2> QED BY <1>5, <2>1, <2>2, <2>3
<1>8. RangesMatch'
  <2>1. \A u \in Threads : ranges[u] \in Seq(Nat) /\ scopes[u] \in Seq(Scopes) /\ Matches(ranges[u], scopes[u])
    BY <1>1 DEF NvtxTypeOK, RangesMatch, Matches
  <2>2. ASSUME NEW u \in Threads, u # t PROVE Matches(ranges'[u], scopes'[u])
    BY <1>2, <1>5, <2>1, <2>2
  <2>3. \A i \in 1 .. n : scopes'[t][i].pushed <=> scopes[t][i].pushed
    <3>1. ~scopes[t][n].pushed BY <1>1, <1>2, <1>3, <1>5 DEF ScopesSound
    <3> QED BY <1>4, <1>5, <3>1
  <2>4. scopes'[t] \in Seq(Scopes) BY <1>5
  <2>5. Matches(ranges[t], scopes'[t]) BY <1>5, <2>1, <2>3, <2>4, MatchKeep
  <2> QED BY <1>2, <2>2, <2>5 DEF RangesMatch, Matches
<1> QED BY <1>6, <1>7, <1>8 DEF RangesInv

LEMMA EndPauseRanges ==
    ASSUME RangesInv, NEW t \in Threads, EndPause(t)
    PROVE  RangesInv'
<1> DEFINE n == Len(scopes[t])
<1>1. NvtxTypeOK /\ ScopesSound /\ RangesMatch BY DEF RangesInv
<1>2. /\ scopes[t] # <<>> /\ Leave(t) /\ Top(t).kind = "pause" /\ runtime_enabled' = Top(t).previous
      /\ UNCHANGED <<env_disables, wanted, ranges>>
  BY DEF EndPause, TopIs, Restored
<1>3. /\ scopes' \in [Threads -> Seq(Scopes)] /\ n \in Nat \ {0} /\ Len(scopes'[t]) = n - 1
      /\ \A i \in 1 .. n - 1 : scopes'[t][i] = scopes[t][i]
      /\ Top(t) = scopes[t][n] /\ Top(t) \in Scopes
      /\ \A u \in Threads \ {t} : scopes'[u] = scopes[u]
  BY <1>1, <1>2, LeaveStack
<1>4. NvtxTypeOK' BY <1>1, <1>2, <1>3 DEF NvtxTypeOK, Scopes
<1>5. ScopesSound'
  <2> SUFFICES ASSUME NEW u \in Threads, NEW i \in 1 .. Len(scopes'[u])
               PROVE  /\ scopes'[u][i].pushed => scopes'[u][i].kind = "range"
                      /\ scopes'[u][i].kind = "loaded" => i = Len(scopes'[u])
    BY DEF ScopesSound
  <2>1. CASE u # t BY <1>1, <1>3, <2>1 DEF ScopesSound
  <2>2. CASE u = t BY <1>1, <1>3, <2>2 DEF ScopesSound
  <2> QED BY <2>1, <2>2
<1>6. RangesMatch'
  <2>1. \A u \in Threads : ranges[u] \in Seq(Nat) /\ scopes[u] \in Seq(Scopes) /\ Matches(ranges[u], scopes[u])
    BY <1>1 DEF NvtxTypeOK, RangesMatch, Matches
  <2>2. ASSUME NEW u \in Threads, u # t PROVE Matches(ranges'[u], scopes'[u])
    BY <1>2, <1>3, <2>1, <2>2
  <2>3. scopes'[t] \in Seq(Scopes) /\ ~scopes[t][n].pushed BY <1>1, <1>2, <1>3 DEF ScopesSound
  <2>4. Matches(ranges[t], scopes'[t]) BY <1>2, <1>3, <2>1, <2>3, MatchPop
  <2> QED BY <1>2, <2>2, <2>4 DEF RangesMatch, Matches
<1> QED BY <1>4, <1>5, <1>6 DEF RangesInv

LEMMA NvtxInitRanges == NvtxInit => RangesInv
<1> SUFFICES ASSUME NvtxInit PROVE RangesInv OBVIOUS
<1>1. <<>> \in Seq(Scopes) /\ <<>> \in Seq(Nat) /\ Len(<<>>) = 0 /\ DOMAIN <<>> = {}
  BY EmptySeq
<1>2. \A t \in Threads : scopes[t] = <<>> /\ ranges[t] = <<>> BY DEF NvtxInit
<1>3. NvtxTypeOK BY <1>1 DEF NvtxInit, NvtxTypeOK
<1>4. ScopesSound BY <1>1, <1>2 DEF ScopesSound
<1>5. RangesMatch BY <1>1, <1>2 DEF RangesMatch, Range
<1> QED BY <1>3, <1>4, <1>5 DEF RangesInv

LEMMA NvtxStepRanges == RangesInv /\ [NvtxNext]_nvtx_vars => RangesInv'
<1> SUFFICES ASSUME RangesInv, [NvtxNext]_nvtx_vars PROVE RangesInv' OBVIOUS
<1>1. ASSUME NEW enabled \in BOOLEAN, SetNvtxRuntimeInferenceEnabled(enabled) PROVE RangesInv'
  BY <1>1 DEF RangesInv, NvtxTypeOK, ScopesSound, RangesMatch, SetNvtxRuntimeInferenceEnabled
<1>2. CASE UNCHANGED nvtx_vars
  BY <1>2 DEF nvtx_vars, RangesInv, NvtxTypeOK, ScopesSound, RangesMatch
<1> QED
  BY <1>1, <1>2, OpenRangeRanges, CloseRangeRanges, LoadPreviousRanges, ClearFlagRanges, EndPauseRanges
  DEF NvtxNext

\* However the threads interleave and whoever clears the flag in between, NVTX has open
\* exactly the ranges of the scopes that pushed one (the destructors of nvtx_scoped.cpp).
THEOREM RangesMatchTheorem == NvtxSpec => []RangesMatch
<1>1. RangesInv => RangesMatch BY DEF RangesInv
<1> QED BY <1>1, NvtxInitRanges, NvtxStepRanges, PTL DEF NvtxSpec

-----------------------------------------------------------------------------
(* FlagFollowsPauses, of a careful client.                                  *)

LEMMA PausesElements ==
    ASSUME NvtxTypeOK
    PROVE  /\ \A t \in Threads : Pausing(t) <=> Pauses(t) # {}
           /\ FlagFollowsPauses <=> FlagByPauses
<1>1. \A t \in Threads : DOMAIN scopes[t] = 1 .. Len(scopes[t])
                          /\ \A i \in 1 .. Len(scopes[t]) : scopes[t][i] \in Scopes
  BY LenProperties, ElementOfSeq DEF NvtxTypeOK
<1>2. \A t \in Threads : \A i \in 1 .. Len(scopes[t]) :
         scopes[t][i].kind \in {"loaded", "pause"} <=> scopes[t][i].kind # "range"
  BY <1>1 DEF Scopes
<1>3. \A t \in Threads : Pausing(t) <=> Pauses(t) # {}
  BY <1>1, <1>2 DEF Pausing, Pauses
<1>4. (\E t \in Threads : \E i \in DOMAIN scopes[t] : scopes[t][i].kind = "pause")
         <=> (\E t \in Threads : \E i \in Pauses(t) : Stored(t, i))
  BY <1>1 DEF Pauses, Stored
<1> QED BY <1>3, <1>4 DEF FlagFollowsPauses, FlagByPauses

\* A step that opens or closes a range, and none of the flags, changes nothing here.
LEMMA PausesKept ==
    ASSUME NvtxTypeOK, NvtxTypeOK', PausesInv, UNCHANGED <<runtime_enabled, env_disables, wanted>>,
           \A t \in Threads : Pauses(t)' = Pauses(t) /\ \A i \in Pauses(t) : scopes'[t][i] = scopes[t][i]
    PROVE  PausesInv'
<1>1. OnePausing' BY DEF PausesInv, OnePausing
<1>2. \A t \in Threads : \A i \in Pauses(t) : Stored(t, i)' <=> Stored(t, i)
  BY DEF Stored
<1>3. ~env_disables' => PausesSaved'
  BY <1>2 DEF PausesInv, PausesSaved
<1>4. FlagByPauses'
  <2>1. (\E t \in Threads : \E i \in Pauses(t)' : Stored(t, i)') <=> (\E t \in Threads : \E i \in Pauses(t) : Stored(t, i))
    BY <1>2
  <2> QED BY <2>1 DEF PausesInv, FlagByPauses
<1> QED BY <1>1, <1>3, <1>4 DEF PausesInv

LEMMA OpenRangePauses ==
    ASSUME RangesInv, PausesInv, NEW t \in Threads, NEW condition \in BOOLEAN, OpenRange(t, condition)
    PROVE  PausesInv'
<1> DEFINE n == Len(scopes[t])  scope == RangeScope(condition /\ NvtxRuntimeInferenceEnabled)
<1>1. NvtxTypeOK /\ NvtxTypeOK' BY OpenRangeRanges DEF RangesInv
<1>2. scope \in Scopes /\ scope.kind = "range"
  BY <1>1 DEF Scopes, RangeScope, NvtxRuntimeInferenceEnabled, NvtxTypeOK
<1>3. Enter(t, scope) /\ UNCHANGED <<runtime_enabled, env_disables, wanted>>
  BY DEF OpenRange
<1> HIDE DEF scope
<1>4. /\ n \in Nat /\ Len(scopes'[t]) = n + 1
      /\ \A i \in 1 .. n : scopes'[t][i] = scopes[t][i]
      /\ scopes'[t][n + 1] = scope
      /\ \A u \in Threads \ {t} : scopes'[u] = scopes[u]
  BY <1>1, <1>2, <1>3, EnterStack
<1>5. \A u \in Threads : Pauses(u)' = Pauses(u) /\ \A i \in Pauses(u) : scopes'[u][i] = scopes[u][i]
  BY <1>2, <1>4 DEF Pauses
<1> QED BY <1>1, <1>3, <1>5, PausesKept

LEMMA CloseRangePauses ==
    ASSUME RangesInv, PausesInv, NEW t \in Threads, CloseRange(t)
    PROVE  PausesInv'
<1> DEFINE n == Len(scopes[t])
<1>1. NvtxTypeOK /\ NvtxTypeOK' BY CloseRangeRanges DEF RangesInv
<1>2. /\ scopes[t] # <<>> /\ Leave(t) /\ Top(t).kind = "range"
      /\ UNCHANGED <<runtime_enabled, env_disables, wanted>>
  BY DEF CloseRange, TopIs
<1>3. /\ n \in Nat \ {0} /\ Len(scopes'[t]) = n - 1
      /\ \A i \in 1 .. n - 1 : scopes'[t][i] = scopes[t][i]
      /\ Top(t) = scopes[t][n]
      /\ \A u \in Threads \ {t} : scopes'[u] = scopes[u]
  BY <1>1, <1>2, LeaveStack
<1>4. \A u \in Threads : Pauses(u)' = Pauses(u) /\ \A i \in Pauses(u) : scopes'[u][i] = scopes[u][i]
  BY <1>2, <1>3 DEF Pauses
<1> QED BY <1>1, <1>2, <1>4, PausesKept

LEMMA LoadPreviousPauses ==
    ASSUME Careful, RangesInv, PausesInv, NEW t \in Threads, LoadPrevious(t)
    PROVE  PausesInv'
<1> DEFINE n == Len(scopes[t])  scope == PauseScope(NvtxRuntimeInferenceEnabled, "loaded")
<1>1. NvtxTypeOK /\ NvtxTypeOK' BY LoadPreviousRanges DEF RangesInv
<1>2. /\ scope \in Scopes /\ scope.kind = "loaded"
      /\ scope.previous <=> ~env_disables /\ runtime_enabled
  BY <1>1 DEF Scopes, PauseScope, NvtxRuntimeInferenceEnabled, NvtxTypeOK
<1>3. Enter(t, scope) /\ UNCHANGED <<runtime_enabled, env_disables, wanted>>
  BY DEF LoadPrevious
<1> HIDE DEF scope
<1>4. /\ n \in Nat /\ Len(scopes'[t]) = n + 1
      /\ \A i \in 1 .. n : scopes'[t][i] = scopes[t][i]
      /\ scopes'[t][n + 1] = scope
      /\ \A u \in Threads \ {t} : scopes'[u] = scopes[u]
  BY <1>1, <1>2, <1>3, EnterStack
<1>5. \A u \in Threads \ {t} : Pauses(u) = {}
  BY <1>1, PausesElements DEF LoadPrevious
<1>6. \A u \in Threads \ {t} : Pauses(u)' = {}
  BY <1>4, <1>5 DEF Pauses
<1>7. /\ Pauses(t)' = Pauses(t) \cup {n + 1}
      /\ \A i \in Pauses(t) : i \in 1 .. n /\ scopes'[t][i] = scopes[t][i] /\ (Stored(t, i)' <=> Stored(t, i))
      /\ \A i : i = n + 1 => ~Stored(t, i)'
  <2>1. Pauses(t)' = {i \in 1 .. n + 1 : scopes'[t][i].kind # "range"} BY <1>4 DEF Pauses
  <2>2. \A i \in 1 .. n : i \in Pauses(t)' <=> i \in Pauses(t) BY <1>4, <2>1 DEF Pauses
  <2>3. n + 1 \in Pauses(t)' BY <1>2, <1>4, <2>1
  <2>4. Pauses(t) \subseteq 1 .. n BY DEF Pauses
  <2>5. Pauses(t)' \subseteq 1 .. n + 1 BY <2>1
  <2>6. Pauses(t)' = Pauses(t) \cup {n + 1} BY <1>4, <2>2, <2>3, <2>4, <2>5
  <2>7. \A i \in Pauses(t) : scopes'[t][i] = scopes[t][i] BY <1>4, <2>4
  <2>8. \A i : i = n + 1 => ~Stored(t, i)' BY <1>2, <1>4 DEF Stored
  <2> QED BY <2>4, <2>6, <2>7, <2>8 DEF Stored
<1>8. OnePausing' BY <1>6 DEF OnePausing
<1>9. (\E u \in Threads : \E i \in Pauses(u)' : Stored(u, i)') <=> (\E u \in Threads : \E i \in Pauses(u) : Stored(u, i))
  <2>1. (\E u \in Threads : \E i \in Pauses(u)' : Stored(u, i)') <=> \E i \in Pauses(t) : Stored(t, i)
    BY <1>6, <1>7
  <2>2. (\E u \in Threads : \E i \in Pauses(u) : Stored(u, i)) <=> \E i \in Pauses(t) : Stored(t, i)
    BY <1>5
  <2> QED BY <2>1, <2>2
<1>10. FlagByPauses'
  <2> QED BY <1>3, <1>9 DEF PausesInv, FlagByPauses
<1>11. ASSUME ~env_disables' PROVE PausesSaved'
  <2> SUFFICES ASSUME NEW u \in Threads, NEW i \in Pauses(u)'
               PROVE  scopes'[u][i].previous <=> wanted' /\ ~\E j \in Pauses(u)' : j < i /\ Stored(u, j)'
    BY DEF PausesSaved
  <2>1. u = t BY <1>6
  <2>2. CASE i = n + 1
    <3>1. (\E j \in Pauses(t)' : j < i /\ Stored(t, j)') <=> \E u2 \in Threads : \E j \in Pauses(u2) : Stored(u2, j)
      <4>1. (\E j \in Pauses(t)' : j < i /\ Stored(t, j)') <=> \E j \in Pauses(t) : Stored(t, j)
        BY <1>4, <1>7, <2>2
      <4> QED BY <1>5, <4>1
    <3>2. runtime_enabled <=> wanted /\ ~\E u2 \in Threads : \E j \in Pauses(u2) : Stored(u2, j)
      BY <1>3, <1>11 DEF PausesInv, FlagByPauses
    <3> QED BY <1>2, <1>3, <1>4, <1>11, <2>1, <2>2, <3>1, <3>2
  <2>3. CASE i \in Pauses(t)
    <3>1. scopes[t][i].previous <=> wanted /\ ~\E j \in Pauses(t) : j < i /\ Stored(t, j)
      BY <1>3, <1>11, <2>3 DEF PausesInv, PausesSaved
    <3>2. (\E j \in Pauses(t)' : j < i /\ Stored(t, j)') <=> \E j \in Pauses(t) : j < i /\ Stored(t, j)
      BY <1>7
    <3> QED BY <1>3, <1>7, <2>1, <2>3, <3>1, <3>2
  <2> QED BY <1>7, <2>1, <2>2, <2>3
<1> QED BY <1>8, <1>10, <1>11 DEF PausesInv

LEMMA ClearFlagPauses ==
    ASSUME RangesInv, PausesInv, NEW t \in Threads, ClearFlag(t)
    PROVE  PausesInv'
<1> DEFINE n == Len(scopes[t])  scope == PauseScope(Top(t).previous, "pause")
<1>1. NvtxTypeOK /\ NvtxTypeOK' BY ClearFlagRanges DEF RangesInv
<1>2. /\ scopes[t] # <<>> /\ Top(t).kind = "loaded"
      /\ scopes' = [scopes EXCEPT ![t] = Append(Front(@), scope)]
      /\ runtime_enabled' = FALSE /\ UNCHANGED <<env_disables, wanted>>
  BY DEF ClearFlag, TopIs
<1>3. Top(t) \in Scopes /\ Top(t) = scopes[t][n] BY <1>1, <1>2, FrontStack DEF NvtxTypeOK, Top
<1>4. scope \in Scopes /\ scope.kind = "pause" /\ scope.previous = Top(t).previous
  BY <1>3 DEF Scopes, PauseScope
<1> HIDE DEF scope
<1>5. /\ n \in Nat \ {0} /\ Len(scopes'[t]) = n
      /\ \A i \in 1 .. n - 1 : scopes'[t][i] = scopes[t][i]
      /\ scopes'[t][n] = scope
      /\ \A u \in Threads \ {t} : scopes'[u] = scopes[u]
  BY <1>1, <1>2, <1>4, ReplaceStack
<1>6. /\ \A u \in Threads : Pauses(u)' = Pauses(u)
      /\ \A u \in Threads \ {t} : \A i \in Pauses(u) : scopes'[u][i] = scopes[u][i]
      /\ n \in Pauses(t)
      /\ \A i \in Pauses(t) : i \in 1 .. n
  BY <1>2, <1>3, <1>4, <1>5 DEF Pauses
<1>7. OnePausing' BY <1>6 DEF PausesInv, OnePausing
<1>8. FlagByPauses'
  <2>1. \E i \in Pauses(t)' : Stored(t, i)'
    <3>1. scopes'[t][n].kind = "pause" /\ n \in Pauses(t)' BY <1>4, <1>5, <1>6
    <3> QED BY <3>1 DEF Stored
  <2> QED BY <1>2, <1>6, <2>1 DEF FlagByPauses
<1>9. ASSUME ~env_disables' PROVE PausesSaved'
  <2> SUFFICES ASSUME NEW u \in Threads, NEW i \in Pauses(u)
               PROVE  scopes'[u][i].previous <=> wanted' /\ ~\E j \in Pauses(u) : j < i /\ Stored(u, j)'
    BY <1>6 DEF PausesSaved
  <2>1. scopes[u][i].previous <=> wanted /\ ~\E j \in Pauses(u) : j < i /\ Stored(u, j)
    BY <1>2, <1>9 DEF PausesInv, PausesSaved
  <2>2. scopes'[u][i].previous = scopes[u][i].previous
    <3>1. CASE u = t /\ i = n BY <1>3, <1>4, <1>5, <3>1
    <3>2. CASE u = t /\ i # n
      <4>1. i \in 1 .. n - 1 BY <1>5, <1>6, <3>2
      <4> QED BY <1>5, <3>2, <4>1
    <3> QED BY <1>6, <3>1, <3>2
  <2>3. \A j \in Pauses(u) : j < i => (Stored(u, j)' <=> Stored(u, j))
    <3>1. CASE u # t BY <1>6, <3>1 DEF Stored
    <3>2. CASE u = t
      <4>1. \A j \in Pauses(t) : j < i => j \in 1 .. n - 1 BY <1>5, <1>6, <3>2
      <4> QED BY <1>5, <3>2, <4>1 DEF Stored
    <3> QED BY <3>1, <3>2
  <2> QED BY <1>2, <2>1, <2>2, <2>3
<1> QED BY <1>7, <1>8, <1>9 DEF PausesInv

LEMMA EndPausePauses ==
    ASSUME RangesInv, PausesInv, NEW t \in Threads, EndPause(t)
    PROVE  PausesInv'
<1> DEFINE n == Len(scopes[t])
<1>1. NvtxTypeOK /\ NvtxTypeOK' BY EndPauseRanges DEF RangesInv
<1>2. /\ scopes[t] # <<>> /\ Leave(t) /\ Top(t).kind = "pause" /\ runtime_enabled' = Top(t).previous
      /\ UNCHANGED <<env_disables, wanted>>
  BY DEF EndPause, TopIs, Restored
<1>3. /\ n \in Nat \ {0} /\ Len(scopes'[t]) = n - 1
      /\ \A i \in 1 .. n - 1 : scopes'[t][i] = scopes[t][i]
      /\ Top(t) = scopes[t][n]
      /\ \A u \in Threads \ {t} : scopes'[u] = scopes[u]
  BY <1>1, <1>2, LeaveStack
<1>4. /\ n \in Pauses(t) /\ Pauses(t)' = Pauses(t) \ {n}
      /\ \A i \in Pauses(t) \ {n} : i \in 1 .. n - 1 /\ scopes'[t][i] = scopes[t][i]
  BY <1>2, <1>3 DEF Pauses
<1>5. \A u \in Threads \ {t} : Pauses(u) = {} /\ Pauses(u)' = {}
  <2>1. \A u \in Threads \ {t} : Pauses(u) = {} BY <1>4 DEF PausesInv, OnePausing
  <2> QED BY <1>3, <2>1 DEF Pauses
<1>6. OnePausing' BY <1>5 DEF OnePausing
<1>7. \A i \in Pauses(t) \ {n} : Stored(t, i)' <=> Stored(t, i) BY <1>4 DEF Stored
<1>8. ASSUME ~env_disables' PROVE PausesSaved'
  <2> SUFFICES ASSUME NEW i \in Pauses(t) \ {n}
               PROVE  scopes'[t][i].previous <=> wanted' /\ ~\E j \in Pauses(t)' : j < i /\ Stored(t, j)'
    BY <1>4, <1>5 DEF PausesSaved
  <2>1. scopes[t][i].previous <=> wanted /\ ~\E j \in Pauses(t) : j < i /\ Stored(t, j)
    BY <1>2, <1>8 DEF PausesInv, PausesSaved
  <2>2. (\E j \in Pauses(t)' : j < i /\ Stored(t, j)') <=> \E j \in Pauses(t) : j < i /\ Stored(t, j)
    <3>1. ~(n < i) BY <1>3, <1>4
    <3> QED BY <1>4, <1>7, <3>1
  <2> QED BY <1>2, <1>4, <2>1, <2>2
<1>9. FlagByPauses'
  <2>2. (\E u \in Threads : \E i \in Pauses(u)' : Stored(u, i)') <=> \E j \in Pauses(t) : j < n /\ Stored(t, j)
    <3>1. (\E u \in Threads : \E i \in Pauses(u)' : Stored(u, i)') <=> \E j \in Pauses(t) \ {n} : Stored(t, j)
      BY <1>4, <1>5, <1>7
    <3>2. \A j \in Pauses(t) : j < n <=> j \in Pauses(t) \ {n} BY <1>3, <1>4
    <3> QED BY <3>1, <3>2
  <2>3. ~env_disables => (Top(t).previous <=> wanted /\ ~\E j \in Pauses(t) : j < n /\ Stored(t, j))
    BY <1>3, <1>4 DEF PausesInv, PausesSaved
  <2> QED BY <1>2, <2>2, <2>3 DEF FlagByPauses
<1> QED BY <1>6, <1>8, <1>9 DEF PausesInv

LEMMA NvtxInitPauses == NvtxInit => PausesInv
<1> SUFFICES ASSUME NvtxInit PROVE PausesInv OBVIOUS
<1>1. \A t \in Threads : Len(scopes[t]) = 0 BY EmptySeq DEF NvtxInit
<1>2. \A t \in Threads : Pauses(t) = {} BY <1>1 DEF Pauses
<1> QED BY <1>2 DEF PausesInv, OnePausing, PausesSaved, FlagByPauses, NvtxInit

LEMMA NvtxStepPauses ==
    ASSUME Careful, RangesInv, PausesInv, [NvtxNext]_nvtx_vars
    PROVE  PausesInv'
<1>1. ASSUME NEW enabled \in BOOLEAN, SetNvtxRuntimeInferenceEnabled(enabled) PROVE PausesInv'
  <2>1. \A t \in Threads : Pauses(t) = {}
    BY <1>1, PausesElements DEF RangesInv, SetNvtxRuntimeInferenceEnabled
  <2>2. \A t \in Threads : Pauses(t)' = {}
    BY <1>1, <2>1 DEF SetNvtxRuntimeInferenceEnabled, Pauses
  <2> QED BY <1>1, <2>2 DEF SetNvtxRuntimeInferenceEnabled, PausesInv, OnePausing, PausesSaved, FlagByPauses
<1>2. CASE UNCHANGED nvtx_vars
  <2>1. NvtxTypeOK /\ NvtxTypeOK' BY <1>2 DEF nvtx_vars, RangesInv, NvtxTypeOK
  <2>2. \A t \in Threads : Pauses(t)' = Pauses(t) /\ \A i \in Pauses(t) : scopes'[t][i] = scopes[t][i]
    BY <1>2 DEF nvtx_vars, Pauses
  <2> QED BY <1>2, <2>1, <2>2, PausesKept DEF nvtx_vars
<1> QED
  BY <1>1, <1>2, OpenRangePauses, CloseRangePauses, LoadPreviousPauses, ClearFlagPauses, EndPausePauses
  DEF NvtxNext

\* With a client that nests the pauses of one thread as it likes, but overlaps no pauses
\* of two threads and sets no flag during one, the flag is false during the pauses and
\* otherwise what the client set last (nvtx_scoped.h:5).
THEOREM FlagFollowsPausesTheorem == Careful /\ NvtxSpec => []FlagFollowsPauses
<1>1. NvtxInit => RangesInv /\ PausesInv BY NvtxInitRanges, NvtxInitPauses
<1>2. Careful /\ RangesInv /\ PausesInv /\ [NvtxNext]_nvtx_vars => (RangesInv /\ PausesInv)'
  BY NvtxStepRanges, NvtxStepPauses
<1>3. RangesInv /\ PausesInv => FlagFollowsPauses
  BY PausesElements DEF RangesInv, PausesInv
<1>4. CASE Careful BY <1>1, <1>2, <1>3, <1>4, PTL DEF NvtxSpec
<1>5. CASE ~Careful BY <1>5
<1> QED BY <1>4, <1>5
=============================================================================
