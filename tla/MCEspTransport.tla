--------------------------- MODULE MCEspTransport ---------------------------
(***************************************************************************)
(* Instances of EspTransport for TLC.                                      *)
(***************************************************************************)
EXTENDS EspTransport

HomeUrl == [scheme |-> "https", host |-> "a", port |-> NoPort]

To(u) == [kind |-> "absolute", url |-> u]

\* The same origin in other spellings; another host, port or scheme; URLs that
\* do not parse; and the kinds of relative reference.
AllLocations ==
    {To([HomeUrl EXCEPT !.scheme = "HTTPS", !.host = "A"]),
     To([HomeUrl EXCEPT !.port = 443]), To([HomeUrl EXCEPT !.port = BadPort]),
     To([HomeUrl EXCEPT !.port = 65536]), To([HomeUrl EXCEPT !.host = "b"]),
     To([HomeUrl EXCEPT !.host = "long"]), To([HomeUrl EXCEPT !.scheme = "http"]),
     To([HomeUrl EXCEPT !.scheme = "ftp", !.port = 443]),
     [kind |-> "network", url |-> [HomeUrl EXCEPT !.host = "b"]],
     [kind |-> "relative", url |-> NoOrigin], [kind |-> "path", url |-> NoOrigin],
     NoLocation}
=============================================================================
