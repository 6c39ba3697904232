--------------------------- MODULE EndpointContract ---------------------------
(***************************************************************************)
(* What an endpoint connection promises the session that is built on it    *)
(* (the interface EndpointWire of src/herdr-endpoint-transport.ts), without *)
(* frames, locks and tables: one failure, at most one boot, a reader that  *)
(* stops for good, and for every request an answer or the failure.         *)
(*                                                                         *)
(* EndpointConnection implements it; ClientShell, which models the same    *)
(* connection from the other side, relies on no more than it.              *)
(***************************************************************************)
CONSTANTS
    Askers,     \* who may have a request in flight
    Boot,       \* boot ids
    Failure,    \* why a connection ends
    None        \* nothing yet

VARIABLES
    failure,    \* the first failure, None while open
    boot,       \* the boot the connection is bound to
    reading,    \* messages and answers may still come
    asking      \* each asker's request: "none", "waiting" or "answered"

vars == <<failure, boot, reading, asking>>

Open == failure = None

Init ==
    /\ failure = None
    /\ boot = None
    /\ reading = TRUE
    /\ asking = [a \in Askers |-> "none"]

BindsBoot ==
    /\ Open /\ boot = None
    /\ boot' \in Boot
    /\ UNCHANGED <<failure, reading, asking>>

\* A request names the boot, so there has to be one.
Asks(a) ==
    /\ Open /\ boot # None
    /\ asking[a] = "none"
    /\ asking' = [asking EXCEPT ![a] = "waiting"]
    /\ UNCHANGED <<failure, boot, reading>>

Answers(a) ==
    /\ Open /\ reading
    /\ asking[a] = "waiting"
    /\ asking' = [asking EXCEPT ![a] = "answered"]
    /\ UNCHANGED <<failure, boot, reading>>

\* The asker takes its answer.
Returns(a) ==
    /\ Open
    /\ asking[a] = "answered"
    /\ asking' = [asking EXCEPT ![a] = "none"]
    /\ UNCHANGED <<failure, boot, reading>>

\* The connection ends, and with it any of the requests in flight: a request that
\* ends without its answer is one of the reasons.
Fails(reason) ==
    /\ Open
    /\ failure' = reason
    /\ reading' \in {reading, FALSE}
    /\ \E ended \in SUBSET Askers :
          asking' = [a \in Askers |-> IF a \in ended THEN "none" ELSE asking[a]]
    /\ UNCHANGED boot

\* What is left after the failure: the reader stops, requests end.
StopsReading ==
    /\ ~Open
    /\ reading' = FALSE
    /\ UNCHANGED <<failure, boot, asking>>

Ends(a) ==
    /\ ~Open
    /\ asking' = [asking EXCEPT ![a] = "none"]
    /\ UNCHANGED <<failure, boot, reading>>

Next ==
    \/ BindsBoot
    \/ \E a \in Askers : Asks(a) \/ Answers(a) \/ Returns(a) \/ Ends(a)
    \/ \E reason \in Failure : Fails(reason)
    \/ StopsReading

Spec == Init /\ [][Next]_vars
=============================================================================
