-------------------------- MODULE MCCurlTransport --------------------------
(***************************************************************************)
(* Instances of CurlTransport for TLC.                                     *)
(***************************************************************************)
EXTENDS CurlTransport

HomeUrl == [scheme |-> "https", host |-> "a", port |-> 0]

\* The same origin with its port spelled out, another host, another port, a
\* downgrade, and no usable Location.
AllLocations ==
    {[HomeUrl EXCEPT !.port = 443], [HomeUrl EXCEPT !.host = "b"],
     [HomeUrl EXCEPT !.port = 8443], [HomeUrl EXCEPT !.scheme = "http"], NoUrl}
HomeOnly == {HomeUrl}
=============================================================================
