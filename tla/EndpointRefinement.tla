-------------------------- MODULE EndpointRefinement --------------------------
(***************************************************************************)
(* EndpointConnection implements EndpointContract: a request waits until   *)
(* its Deferred is settled with the answer, or the connection has failed.  *)
(***************************************************************************)
EXTENDS EndpointConnectionProps

\* A request's call as its caller sees it, until the caller goes on.
Asking(r) ==
    IF call[r] = "answered" \/ (InFlight(r) /\ settled[r] = "answered") THEN "answered"
    ELSE IF InFlight(r) THEN "waiting"
    ELSE "none"

Contract == INSTANCE EndpointContract WITH
    Askers <- Requests,
    Boot <- Boots,
    Failure <- Reason,
    None <- Undefined,
    boot <- bootId,
    reading <- reader # "stopped",
    asking <- [r \in Requests |-> Asking(r)]

\* Every step of the connection is one the session may rely on: the first failure
\* stands, the boot never changes, only an open reader answers, a request begins
\* only with a boot, and none ends unanswered without ending the connection
\* (fail, bindBoot, request, receive).
ImplementsEndpoint == Contract!Spec
=============================================================================
