----------------------------- MODULE MCPollTask -----------------------------
(***************************************************************************)
(* Instances of PollTask for TLC: delays of up to Half - 1 ms, well past   *)
(* the cap, on ticks of 2 ms.                                              *)
(***************************************************************************)
EXTENDS PollTask

SomeCallbacks == {"on_error", "on_closed"}
NoRetryAfter == {-1}
=============================================================================
