-------------------------- MODULE ApiTransportProps --------------------------
(***************************************************************************)
(* The correctness properties of ApiTransport: what the shared check owes  *)
(* its callers and they owe it, and that no exchange outlives its call.    *)
(***************************************************************************)
EXTENDS ApiTransport

Checked == Requests \cup Streams

\* Nothing but a ping is ever put on a socket before the compatibility of the
\* server was confirmed, whoever confirmed it (compatibilityCheck).
CheckedBeforeSent ==
    \A c \in Checked : step[c] \in Exchanging \cup {"held", "succeeded"}
                          => entry = "success"

\* The check runs exactly as long as somebody awaits it: a caller that gives up
\* neither takes it from the others nor leaves it behind as the last one, and nobody
\* awaits a check that is not running (Cache.get, its awaiters).
CheckHasWaiter ==
    /\ step[Check] \in Exchanging <=> waiting # {}
    /\ entry = "pending" <=> waiting # {}
    /\ waiting = {c \in Calls : step[c] = "checking"}

\* Live sockets belong to running exchanges and open streams: on no path does one
\* outlive its call (acquireUseRelease, acquireRelease, onError, connectSocket).
SocketsOwned ==
    \A a \in Actors :
        /\ step[a] \in Exchanging => socket[a] = "live"
        /\ socket[a] = "live" => step[a] \in Exchanging \cup {"held"}

\* A failed check is passed on to those who awaited it and to no one after, and a
\* success is never looked up again (timeToLive of the cache).
FailureNotKept ==
    [][ /\ \A c \in Calls : (step[c] # "checkFailed" /\ step'[c] = "checkFailed")
                               => c \in waiting /\ step[Check] \in Exchanging
        /\ entry = "success" => entry' = "success" ]_vars

\* What is inductive.
TransportInv == TypeOK /\ CheckHasWaiter /\ CheckedBeforeSent /\ SocketsOwned

-----------------------------------------------------------------------------
(* Fairness: deadlines pass.  The peer and the sockets owe nothing.          *)

Fairness ==
    /\ \A c \in Calls : WF_vars(Deadline(c))
    /\ WF_vars(CheckDeadline)

FairSpec == Spec /\ Fairness

\* Every call ends or holds its stream, also while it waits for a check that others
\* keep alive (request, openStream: timeoutOrElse).
CallsEnd ==
    \A c \in Calls : (step[c] \in {"checking"} \cup Exchanging)
                        ~> (step[c] \in Ended \cup {"held"})
=============================================================================
