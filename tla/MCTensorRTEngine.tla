-------------------------- MODULE MCTensorRTEngine --------------------------
(***************************************************************************)
(* Small engines for TLC: one dynamic input (tensor 0), one or two outputs *)
(* (tensors 1 and 2), three shapes of 1, 2 and 4 bytes.                    *)
(***************************************************************************)
EXTENDS TensorRTEngine

CONSTANTS small, mid, large

MCShapes == {small, mid, large}
MCBytes == [s \in MCShapes |-> CASE s = small -> 1 [] s = mid -> 2 [] s = large -> 4]

\* The engine shape of the input with its -1 replaced by 1, and an output that is
\* as large as the input.
MCFlatShape == [t \in Tensors |-> small]
MCOutShape == [o \in Outputs |-> [s \in [Inputs -> MCShapes] |-> s[CHOOSE i \in Inputs : TRUE]]]

\* Profile 0 stops at mid, profile 1 goes up to large.
MCAdmits == [p \in Profiles |-> [i \in Inputs |-> IF p = 0 THEN {small, mid} ELSE MCShapes]]
MCMaxShape == [p \in Profiles |-> [i \in Inputs |-> IF p = 0 THEN mid ELSE large]]

Flags(persistent, max_profile, auto_freeze, cuda_graph) ==
    [persistent |-> persistent, max_profile |-> max_profile,
     auto_freeze |-> auto_freeze, graph |-> cuda_graph]

\* The presets of TensorRTEngineConfig, and one set by hand that keeps graphs but
\* freezes explicitly.
Default == Flags(TRUE, TRUE, TRUE, TRUE)
Compatibility == Flags(TRUE, TRUE, FALSE, FALSE)
MinimalMemory == Flags(FALSE, FALSE, FALSE, FALSE)
ExplicitFreeze == Flags(TRUE, TRUE, FALSE, TRUE)
GrowThenFreeze == Flags(TRUE, FALSE, FALSE, TRUE)

CompatibilityOnly == {Compatibility}
FreezingConfigs == {Default, ExplicitFreeze}
AllConfigs == {Default, ExplicitFreeze, MinimalMemory, GrowThenFreeze}
=============================================================================
