---------------------------- MODULE MCSSEStream ----------------------------
(***************************************************************************)
(* Instances of SSEStream for TLC.                                         *)
(***************************************************************************)
EXTENDS SSEStream

\* The callbacks that a chunk can reach.
StreamCallbacks == {"on_message", "on_error"}
NoRetryAfter    == {-1}
=============================================================================
