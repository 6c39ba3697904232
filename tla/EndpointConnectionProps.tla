----------------------- MODULE EndpointConnectionProps -----------------------
(***************************************************************************)
(* The correctness properties of EndpointConnection: who waits for what,   *)
(* what a failure ends, in which order messages reach the handler, and the *)
(* fairness under which every call ends.                                   *)
(***************************************************************************)
EXTENDS EndpointConnection

\* The pending table is exact: it holds no call that has ended, so capacity is
\* never lost, and in an open connection every request that has no answer yet is
\* in it, so no answer goes astray (request, receive, fail).
TableExact ==
    /\ \A r \in pending : InFlight(r)
    /\ Open => \A r \in Requests :
          /\ InFlight(r) => (r \in pending <=> settled[r] = Undefined)
          /\ call[r] = "awaiting" => r \in pending

\* The holder of writeLock is the call whose frame is being written: frames never
\* interleave, and no outcome of a call keeps the lock (write).
LockExact == \A c \in Calls : lock = c <=> call[c] \in Writing

\* All responses being assembled together stay within the message limit, however
\* their chunks interleave, and none of them is made of more chunks than are counted
\* (receive).
BufferedBounded ==
    /\ Open => Assembled <= MaxBytes
    /\ \A r \in Requests : chunks[r] <= MaxChunks

\* Presentation messages reach the handler each once and in the order they were
\* read, also those that came before it was installed and while those were being
\* replayed (receive, installHandler, routeLock).
HandledInOrder ==
    Open => handled \o early \o (IF reader = "routing" THEN <<received>> ELSE <<>>)
              = [i \in 1 .. received |-> i]

\* fail ends all pending work: in a failed connection nobody waits for an answer.
FailureEndsPending == ~Open => \A r \in Requests : call[r] # "awaiting"

\* A call that ends with its frame begun, but not answered or sent, has failed the
\* connection: nothing is ever written after a frame that may be torn, and no
\* mutation whose outcome is unknown leaves a usable connection (write, request).
AmbiguityFails ==
    [][ \A c \in Calls :
          (call[c] \in Writing \cup {"awaiting"}
             /\ call'[c] \in End \ {"answered", "sent"}) => failure' # Undefined ]_vars

\* A deadline that ends an open connection is the failure it ends with.
DeadlineIsNamed ==
    [][ \A c \in Calls :
          (Open /\ InFlight(c) /\ call'[c] = "RequestTimeout")
             => failure' = "RequestTimeout" ]_vars

-----------------------------------------------------------------------------
(* What makes the invariants inductive.                                     *)

\* A request that was never made has not been settled; in an open connection a
\* request is settled by its answer only.
SettledInv ==
    /\ \A r \in Requests : call[r] = "idle" => settled[r] = Undefined
    /\ Open => \A r \in Requests : settled[r] \in {"answered", Undefined}

\* The types of the connection's core: its failure, lock, table and calls.
CoreTypes ==
    /\ failure \in Reason \cup {Undefined}
    /\ lock \in Calls \cup {Undefined}
    /\ pending \subseteq Requests
    /\ chunks \in [Requests -> 0 .. MaxChunks]
    /\ bytes \in [Requests -> Nat]
    /\ settled \in [Requests -> Reason \cup {"answered", Undefined}]
    /\ call \in [Calls -> Step \cup End]

CoreInv == CoreTypes /\ LockExact /\ TableExact /\ SettledInv

\* A reader behind routeLock holds the message it read last.
RoutingInv == reader = "routing" => received > 0

\* The types of its routing: its owner, reader, boot and messages.
RoutingTypes ==
    /\ owner \in {"hello", "welcome", "acquired", "installing", "open", "closed"}
    /\ reader \in {"reading", "routing", "stopped"}
    /\ welcomed \in BOOLEAN
    /\ bootId \in Boots \cup {Undefined}
    /\ early \in Seq(1 .. MaxMessages)
    /\ received \in 0 .. MaxMessages
    /\ handled \in Seq(1 .. MaxMessages)
    /\ RoutingInv

\* The connection invariant: inductive, and the basis of the theorems.
ConnectionInv == CoreInv /\ RoutingTypes

-----------------------------------------------------------------------------
(* Fairness: timers fire, and a fiber that can go on does.  The peer and the *)
(* socket owe nothing: no answer, welcome or write callback has to come.     *)

Fairness ==
    /\ WF_vars(AcquireFails("RequestTimeout"))
    /\ WF_vars(InstallHandler)
    /\ WF_vars(ReplayEarly)
    /\ WF_vars(HandlerInstalled)
    /\ \A c \in Calls : WF_vars(TakeLock(c)) /\ WF_vars(TakeTooLate(c))
                        /\ WF_vars(WriteDeadline(c))
    /\ \A r \in Requests : WF_vars(RequestDeadline(r))

FairSpec == Spec /\ Fairness

\* Whatever the peer and the socket do, every request ends and whoever has writeLock
\* gives it back.  A plain write that queues has no deadline of its own and no place
\* in a line: a newcomer may take the lock first.  Only newcomers without end, each
\* before it, keep it from ending (write, Semaphore.releaseUnsafe).
CallsEnd ==
    /\ \A r \in Requests : InFlight(r) ~> (call[r] \in End)
    /\ (lock # Undefined) ~> (lock = Undefined)
    /\ \A w \in Writes : []<>(call[w] # "queued") \/ []<>(lock # Undefined)

\* An acquisition ends: the connection is acquired or its scope closes.
AcquisitionEnds == (owner = "hello") ~> (owner \notin {"hello", "welcome"})
=============================================================================
