---------------------------- MODULE MCSSEClient ----------------------------
(***************************************************************************)
(* Instances of SSEClient for TLC.  The clock is scaled down to 2 * Half   *)
(* values so that wrapping, the signed deadline and the INT32_MAX clamp    *)
(* are all reached within a few ticks.                                     *)
(***************************************************************************)
EXTENDS SSEClient

AllCallbacks == Callbacks
NoPolicy     == Callbacks \ {"reconnect_policy"}
\* -1 is an absent Retry-After, the largest overflows the clamp.
SomeRetryAfters == {-1, 0, 1, INT32_MAX}
NoRetryAfter    == {-1}
=============================================================================
