---------------------------- MODULE ApiTransport ----------------------------
(***************************************************************************)
(* The API transport of src/herdr-transport.ts: requests and streams, each *)
(* on a socket of its own, and the protocol compatibility check that they  *)
(* share through a cache of one entry.                                     *)
(*                                                                         *)
(* The check runs in a fiber that belongs to none of its callers: the      *)
(* first caller starts it, later ones join it, and the last one to give up *)
(* interrupts it (Cache.get of the Effect runtime).  A socket exchange is  *)
(* the same for the check and for a call; the peer answers anything at any *)
(* time, or nothing.  A fiber that is woken runs inside the waking action. *)
(***************************************************************************)
EXTENDS Naturals, FiniteSets

CONSTANTS
    Pings,      \* calls of request("ping", ...): they do not use the cache
    Requests,   \* calls of request with any other method
    Streams,    \* calls of openStream
    Check       \* the shared lookup, as an actor

Calls == Pings \cup Requests \cup Streams
Actors == Calls \cup {Check}

ASSUME ActorsAssumption ==
    /\ Check \notin Calls
    /\ Streams \cap (Pings \cup Requests) = {}
    /\ Pings \cap Requests = {}

\* The steps of one exchange: exchangeWireLine, or openStream up to its handshake.
Exchanging == {"connecting", "writing", "reading"}

\* How an exchange fails of itself: "timedOut" by its deadline, "failed" by a
\* transport error or a response that is refused.
Failure == {"failed", "timedOut"}

\* "checkFailed": with the failure of the check it waited for.
Ended == Failure \cup {"succeeded", "checkFailed", "interrupted", "released"}

VARIABLES
    entry,      \* the cache's entry: "none", "pending", "success", "failure"
    waiting,    \* the callers that await the pending entry
    step,       \* where each actor is, or how it ended; "held" is an open stream
    socket      \* each actor's socket: "none", "live" until the SDK destroys it

vars == <<entry, waiting, step, socket>>

TypeOK ==
    /\ entry \in {"none", "pending", "success", "failure"}
    /\ waiting \subseteq Requests \cup Streams
    /\ step \in [Actors -> {"idle", "checking", "held"} \cup Exchanging \cup Ended]
    /\ socket \in [Actors -> {"none", "live", "destroyed"}]

Init ==
    /\ entry = "none"
    /\ waiting = {}
    /\ step = [a \in Actors |-> "idle"]
    /\ socket = [a \in Actors |-> "none"]

-----------------------------------------------------------------------------
(* Calls begin.                                                             *)

\* compatibilityCheck precedes every call but a ping.
UsesCheck(c) == c \in Requests \cup Streams

\* Mutant of Usable: a failed check is served from the cache.
Usable_FailureToo == entry # "none"

\* hasExpired: a success never expires, a failure has as soon as it is there.
Usable == entry \in {"pending", "success"}

\* The options do not decode or the parameters do not encode: no socket is made.
Reject(c) ==
    /\ step[c] = "idle"
    /\ step' = [step EXCEPT ![c] = "failed"]
    /\ UNCHANGED <<entry, waiting, socket>>

BeginPing(c) ==
    /\ c \in Pings
    /\ step[c] = "idle"
    /\ step' = [step EXCEPT ![c] = "connecting"]
    /\ socket' = [socket EXCEPT ![c] = "live"]
    /\ UNCHANGED <<entry, waiting>>

\* A call finds an entry: it goes on, awaits it, or gets the failure kept in it.
JoinCheck(c) ==
    /\ UsesCheck(c)
    /\ step[c] = "idle"
    /\ Usable
    /\ step' = [step EXCEPT ![c] = CASE entry = "success" -> "connecting"
                                     [] entry = "pending" -> "checking"
                                     [] OTHER -> "checkFailed"]
    /\ socket' = [socket EXCEPT ![c] = IF entry = "success" THEN "live" ELSE @]
    /\ waiting' = IF entry = "pending" THEN waiting \cup {c} ELSE waiting
    /\ UNCHANGED entry

\* A call finds none, or an expired one: it starts the check and awaits it.
StartCheck(c) ==
    /\ UsesCheck(c)
    /\ step[c] = "idle"
    /\ ~Usable
    /\ entry' = "pending"
    /\ waiting' = {c}
    /\ step' = [step EXCEPT ![c] = "checking", ![Check] = "connecting"]
    /\ socket' = [socket EXCEPT ![Check] = "live"]

-----------------------------------------------------------------------------
(* One exchange on a socket.                                                *)

Connected(a) ==
    /\ step[a] = "connecting"
    /\ step' = [step EXCEPT ![a] = "writing"]
    /\ UNCHANGED <<entry, waiting, socket>>

Written(a) ==
    /\ step[a] = "writing"
    /\ step' = [step EXCEPT ![a] = "reading"]
    /\ UNCHANGED <<entry, waiting, socket>>

\* Mutant of ClosedBy: an exchange that is cut off leaves its socket.
ClosedBy_NotByTimeout(end) == IF end = "timedOut" THEN "live" ELSE "destroyed"

\* acquireUseRelease, connectSocket's cleanup, openStream's onError: whatever the
\* end, the socket is destroyed.
ClosedBy(end) == "destroyed"

\* Mutant of AfterCheck: the callers go on whatever came of the check.
AfterCheck_Always(success) == "connecting"

\* What the callers that awaited the check do next.
AfterCheck(success) == IF success THEN "connecting" ELSE "checkFailed"

\* The check ends; everyone who awaits it goes on inside its completion.
CheckEnds(end) ==
    /\ entry' = IF end = "succeeded" THEN "success" ELSE "failure"
    /\ waiting' = {}
    /\ step' = [a \in Actors |->
                  IF a = Check THEN end
                  ELSE IF a \in waiting THEN AfterCheck(end = "succeeded")
                  ELSE step[a]]
    /\ socket' = [a \in Actors |->
                    IF a = Check THEN ClosedBy(end)
                    ELSE IF step'[a] # step[a] /\ step'[a] = "connecting" THEN "live"
                    ELSE socket[a]]

\* A call's own exchange ends.
CallEnds(c, end) ==
    /\ step' = [step EXCEPT ![c] = end]
    /\ socket' = [socket EXCEPT ![c] = ClosedBy(end)]
    /\ UNCHANGED <<entry, waiting>>

Ends(a, end) == IF a = Check THEN CheckEnds(end) ELSE CallEnds(a, end)

\* The awaited line: of this request, of the method's type, of this protocol.  A
\* stream keeps its socket.
Answered(a) ==
    /\ step[a] = "reading"
    /\ IF a \in Streams
       THEN /\ step' = [step EXCEPT ![a] = "held"]
            /\ UNCHANGED <<entry, waiting, socket>>
       ELSE Ends(a, "succeeded")

\* No connection, a write error, the end of the socket, a line that is too long or
\* not the answer, an error response, another protocol.
Fails(a) ==
    /\ step[a] \in Exchanging
    /\ Ends(a, "failed")

-----------------------------------------------------------------------------
(* Deadlines, interrupts, scopes.                                           *)

\* Mutant of Abandons: nobody interrupts it.
Abandons_None(c) == FALSE

\* The caller was the last to await the check.
Abandons(c) == waiting = {c}

\* A call gives up its wait for the check.
LeavesCheck(c, end) ==
    /\ waiting' = waiting \ {c}
    /\ IF Abandons(c)
       THEN /\ entry' = "none"
            /\ step' = [step EXCEPT ![c] = end, ![Check] = "interrupted"]
            /\ socket' = [socket EXCEPT ![Check] = ClosedBy("interrupted")]
       ELSE /\ step' = [step EXCEPT ![c] = end]
            /\ UNCHANGED <<entry, socket>>

\* A call ends from outside, wherever it is.
CutOff(c, end) ==
    \/ step[c] = "checking" /\ LeavesCheck(c, end)
    \/ step[c] \in Exchanging /\ CallEnds(c, end)

\* Mutant of Deadline: it covers the wait for the check only.
Deadline_WaitOnly(c) == step[c] = "checking" /\ LeavesCheck(c, "timedOut")

\* The call's deadline: it covers the wait for the check and the exchange.
Deadline(c) == CutOff(c, "timedOut")

\* The check's deadline is the configured one, whatever its callers asked for.
CheckDeadline ==
    /\ step[Check] \in Exchanging
    /\ CheckEnds("timedOut")

Interrupt(c) == CutOff(c, "interrupted")

\* A held stream's socket is destroyed by its reader's end or by a write that is cut
\* off; its scope is still open.
StreamDies(c) ==
    /\ step[c] = "held"
    /\ socket[c] = "live"
    /\ socket' = [socket EXCEPT ![c] = "destroyed"]
    /\ UNCHANGED <<entry, waiting, step>>

\* The scope of a stream closes.
ReleaseStream(c) ==
    /\ step[c] = "held"
    /\ CallEnds(c, "released")

-----------------------------------------------------------------------------
Call(c) ==
    \/ Reject(c) \/ BeginPing(c) \/ JoinCheck(c) \/ StartCheck(c)
    \/ Deadline(c) \/ Interrupt(c) \/ StreamDies(c) \/ ReleaseStream(c)

Exchange(a) == Connected(a) \/ Written(a) \/ Answered(a) \/ Fails(a)

Next ==
    \/ \E c \in Calls : Call(c)
    \/ \E a \in Actors : Exchange(a)
    \/ CheckDeadline

Spec == Init /\ [][Next]_vars
=============================================================================
