-------------------------- MODULE MCMessageStream --------------------------
(***************************************************************************)
(* Constants for TLC: payloads that hold the special bytes.  The errors of *)
(* the configuration hit a frame's head, its checksum or its end, and with *)
(* the interval also the one or the two frames after it, so that the       *)
(* decoder runs from one frame into the next.                              *)
(***************************************************************************)
EXTENDS MessageStream

SpecialPayloads == {<<>>, <<Flag, 2, 0, 5, Escape>>}
=============================================================================
