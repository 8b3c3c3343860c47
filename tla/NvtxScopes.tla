----------------------------- MODULE NvtxScopes -----------------------------
(***************************************************************************)
(* The scopes of src/nvtx/nvtx_scoped.cpp on several threads: NvtxRange    *)
(* and NvtxRangeIf, which push a range of their thread, and                *)
(* NvtxWarmupPause, which saves, clears and restores the flag of the       *)
(* process.  Scopes of a thread are destroyed in the reverse order of      *)
(* their construction.                                                     *)
(***************************************************************************)
EXTENDS Naturals, Sequences, SequencesExt

CONSTANTS
    Threads,
    MaxDepth,   \* bounds the scopes of a thread
    Careful     \* pauses of two threads never overlap, and the client sets no flag during one

ASSUME NvtxAssumption == MaxDepth \in Nat \ {0} /\ Careful \in BOOLEAN

VARIABLES
    runtime_enabled,    \* g_nvtx_runtime_inference_enabled
    env_disables,       \* GR00T_DISABLE_NVTX, read once
    scopes,             \* the live scopes of every thread, the innermost last
    ranges,             \* NVTX: the open ranges of every thread, by the depth of their scope
    wanted              \* history: what the client last set

nvtx_vars == <<runtime_enabled, env_disables, scopes, ranges, wanted>>

NvtxInit ==
    /\ runtime_enabled = TRUE /\ wanted = TRUE
    /\ env_disables \in BOOLEAN
    /\ scopes = [t \in Threads |-> <<>>]
    /\ ranges = [t \in Threads |-> <<>>]

NvtxRuntimeInferenceEnabled == ~env_disables /\ runtime_enabled

RangeScope(pushed) == [kind |-> "range", pushed |-> pushed, previous |-> FALSE]
\* The constructor of a pause has loaded the flag, and has not yet stored it, while it
\* is "loaded".
PauseScope(previous, kind) == [kind |-> kind, pushed |-> FALSE, previous |-> previous]

Top(t) == Last(scopes[t])
TopIs(t, kind) == scopes[t] # <<>> /\ Top(t).kind = kind
Pausing(t) == \E i \in DOMAIN scopes[t] : scopes[t][i].kind \in {"loaded", "pause"}

Enter(t, scope) == scopes' = [scopes EXCEPT ![t] = Append(@, scope)]
Leave(t) == scopes' = [scopes EXCEPT ![t] = Front(@)]
CanEnter(t) == Len(scopes[t]) < MaxDepth /\ ~TopIs(t, "loaded")

-----------------------------------------------------------------------------
SetNvtxRuntimeInferenceEnabled(enabled) ==
    /\ Careful => \A t \in Threads : ~Pausing(t)
    /\ runtime_enabled' = enabled /\ wanted' = enabled
    /\ UNCHANGED <<env_disables, scopes, ranges>>

\* NvtxRangeIf; NvtxRange is the one whose condition is TRUE.
OpenRange(t, condition) ==
    LET pushed == condition /\ NvtxRuntimeInferenceEnabled
    IN  /\ CanEnter(t)
        /\ Enter(t, RangeScope(pushed))
        /\ ranges' = IF pushed THEN [ranges EXCEPT ![t] = Append(@, Len(scopes[t]) + 1)] ELSE ranges
        /\ UNCHANGED <<runtime_enabled, env_disables, wanted>>

\* Slip: the destructor looks at the flag instead of pushed_.
PopsIfEnabled(t) == NvtxRuntimeInferenceEnabled
Pops(t) == Top(t).pushed

CloseRange(t) ==
    /\ TopIs(t, "range")
    /\ ranges' = IF Pops(t) /\ ranges[t] # <<>> THEN [ranges EXCEPT ![t] = Front(@)] ELSE ranges
    /\ Leave(t)
    /\ UNCHANGED <<runtime_enabled, env_disables, wanted>>

\* NvtxWarmupPause, up to the load of previous_ and from there.
LoadPrevious(t) ==
    /\ CanEnter(t)
    /\ Careful => \A u \in Threads \ {t} : ~Pausing(u)
    /\ Enter(t, PauseScope(NvtxRuntimeInferenceEnabled, "loaded"))
    /\ UNCHANGED <<runtime_enabled, env_disables, ranges, wanted>>

ClearFlag(t) ==
    /\ TopIs(t, "loaded")
    /\ runtime_enabled' = FALSE
    /\ scopes' = [scopes EXCEPT ![t] = Append(Front(@), PauseScope(Top(t).previous, "pause"))]
    /\ UNCHANGED <<env_disables, ranges, wanted>>

\* Slip: a pause ends with the ranges enabled, whatever was before it.
RestoredTrue(t) == TRUE
Restored(t) == Top(t).previous

EndPause(t) ==
    /\ TopIs(t, "pause")
    /\ runtime_enabled' = Restored(t)
    /\ Leave(t)
    /\ UNCHANGED <<env_disables, ranges, wanted>>

NvtxNext ==
    \/ \E enabled \in BOOLEAN : SetNvtxRuntimeInferenceEnabled(enabled)
    \/ \E t \in Threads :
          \/ \E condition \in BOOLEAN : OpenRange(t, condition)
          \/ CloseRange(t) \/ LoadPrevious(t) \/ ClearFlag(t) \/ EndPause(t)

NvtxSpec == NvtxInit /\ [][NvtxNext]_nvtx_vars

-----------------------------------------------------------------------------
(* Properties.                                                              *)

\* Whatever other threads do to the flag between the construction and the destruction
\* of a range, NVTX has exactly the ranges of the live scopes that pushed one, in their
\* order: no pop is missing and none takes the range of an outer scope or of the client.
RangesMatch ==
    \A t \in Threads :
        /\ \A i, j \in DOMAIN ranges[t] : i < j => ranges[t][i] < ranges[t][j]
        /\ Range(ranges[t]) = {d \in DOMAIN scopes[t] : scopes[t][d].pushed}

\* nvtx_scoped.h:5: the flag is "false during warm-up pauses", however they nest, and
\* otherwise it is what the client set last.
FlagFollowsPauses ==
    ~env_disables =>
        (runtime_enabled <=> wanted /\ ~\E t \in Threads : \E i \in DOMAIN scopes[t] : scopes[t][i].kind = "pause")
=============================================================================
