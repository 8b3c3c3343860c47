-------------------------- MODULE MCEngineStreams --------------------------
(***************************************************************************)
(* stream_ and one or two streams of the client; a few calls of each kind. *)
(***************************************************************************)
EXTENDS EngineStreams
=============================================================================
