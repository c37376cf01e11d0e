--------------------------- MODULE ClientContract ---------------------------
(***************************************************************************)
(* What the client promises its application, without saying how: the       *)
(* order in which callbacks may be called.                                 *)
(*                                                                         *)
(*   - on_open, then any number of on_message and informational on_error,  *)
(*     then the loss of the connection, and so on;                         *)
(*   - every failure owes the application one on_error, preceded by one    *)
(*     question to reconnect_policy, and no connection is announced        *)
(*     before that debt is paid;                                           *)
(*   - on_closed at any moment, once, and nothing after it.                *)
(*                                                                         *)
(* A callback that is not installed is due like any other; nobody hears    *)
(* of it.                                                                  *)
(***************************************************************************)
CONSTANT Installed  \* the callbacks that are not NULL

VARIABLES phase,    \* "down", "up" or "closed"
          owed,     \* of a failure: "nothing", "question" or "report"
          signal    \* the callback called last

cvars == <<phase, owed, signal>>

CInit == phase = "down" /\ owed = "nothing" /\ signal = "none"

Calls(cb) == signal' = IF cb \in Installed THEN cb ELSE signal

\* The callbacks that may be called next, on_closed apart.
Due ==
    IF owed = "question" THEN {"reconnect_policy"}
    ELSE IF owed = "report" THEN {"on_error"}
    ELSE IF phase = "up" THEN {"on_message", "on_error"}    \* of a dropped event
    ELSE {"on_open"}

OpenSignal ==
    /\ phase = "down" /\ owed = "nothing"
    /\ phase' = "up" /\ Calls("on_open")
    /\ UNCHANGED owed

StreamSignal ==
    /\ phase = "up"
    /\ \E cb \in Due : Calls(cb)
    /\ UNCHANGED <<phase, owed>>

Failure ==
    /\ phase # "closed" /\ owed = "nothing"
    /\ phase' = "down"
    /\ owed' = IF "reconnect_policy" \in Installed THEN "question" ELSE "report"
    /\ UNCHANGED signal

AskPolicy ==
    /\ owed = "question"
    /\ owed' = "report" /\ Calls("reconnect_policy")
    /\ UNCHANGED phase

ReportFailure ==
    /\ owed = "report"
    /\ owed' = "nothing" /\ Calls("on_error")
    /\ UNCHANGED phase

\* Also from inside a callback: without an on_closed, that one is the last.
CloseSignal ==
    /\ phase # "closed"
    /\ phase' = "closed" /\ owed' = "nothing"
    /\ signal' \in IF "on_closed" \in Installed THEN {"on_closed"}
                   ELSE {signal} \cup (Due \cap Installed)

CNext == OpenSignal \/ StreamSignal \/ Failure \/ AskPolicy \/ ReportFailure
            \/ CloseSignal

CSpec == CInit /\ [][CNext]_cvars
=============================================================================
