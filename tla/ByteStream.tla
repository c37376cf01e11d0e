----------------------------- MODULE ByteStream -----------------------------
(***************************************************************************)
(* What src/include/eventsource/sse_transport.h promises the client of a   *)
(* transport's read(), without saying how: the bytes of the response body  *)
(* in order, each once, none after the end has been reported, and the end  *)
(* only after the last of them.  Bytes are numbered from 0.                *)
(***************************************************************************)
EXTENDS Naturals, Sequences

VARIABLES up,       \* open() succeeded and close() was not called yet
          sent,     \* bytes the peer has sent
          ended,    \* the peer has finished, or failed
          taken,    \* bytes read() has returned
          got       \* the result of the latest call

svars == <<up, sent, ended, taken, got>>

\* A result that carries no bytes.
Only(kind) == [kind |-> kind, bytes |-> <<>>]

SInit == up = FALSE /\ sent = 0 /\ ended = FALSE /\ taken = 0 /\ got = Only("none")

\* Some of the body may have come before open() returns.
Connect ==
    /\ ~ up /\ up'
    /\ sent' \in Nat /\ ended' \in BOOLEAN
    /\ taken' = 0 /\ got' = Only("open")

Disconnect ==
    /\ ~ up'
    /\ sent' = 0 /\ ended' = FALSE /\ taken' = 0 /\ got' \in {Only("none"), Only("failed")}

\* The peer sends more, or finishes.
Peer ==
    /\ up /\ ~ ended
    /\ sent' >= sent /\ ended' \in BOOLEAN
    /\ UNCHANGED <<up, taken, got>>

Deliver ==
    /\ up
    /\ taken' \in taken + 1 .. sent
    /\ got' = [kind |-> "data", bytes |-> [i \in 1 .. taken' - taken |-> taken + i - 1]]
    /\ UNCHANGED <<up, sent, ended>>

\* SSE_READ_TIMEOUT.
Quiet == up /\ got' = Only("timeout") /\ UNCHANGED <<up, sent, ended, taken>>

\* SSE_READ_ERROR, at any moment.
Break == up /\ got' = Only("error") /\ UNCHANGED <<up, sent, ended, taken>>

\* SSE_READ_EOF.
End ==
    /\ up /\ ended /\ taken = sent
    /\ got' = Only("eof")
    /\ UNCHANGED <<up, sent, ended, taken>>

SNext == Connect \/ Disconnect \/ Peer \/ Deliver \/ Quiet \/ Break \/ End

SSpec == SInit /\ [][SNext]_svars
=============================================================================
