---------------------------- MODULE MCNvtxScopes ----------------------------
(***************************************************************************)
(* Two threads with scopes three deep: a pause in a pause, and ranges      *)
(* around and inside them.                                                 *)
(***************************************************************************)
EXTENDS NvtxScopes
=============================================================================
