------------------------- MODULE EndpointConnection -------------------------
(***************************************************************************)
(* One generation-1 endpoint connection: acquireEndpointConnection of      *)
(* src/herdr-endpoint-transport.ts.  It owns the socket, the reader fiber, *)
(* the table of pending requests, the write lock, the queue of messages    *)
(* that arrive before a handler is installed, and the one function, fail,  *)
(* that ends all of them.                                                  *)
(*                                                                         *)
(* Actors: the owner, which acquires the connection, installs a handler    *)
(* and closes the scope; the reader; callers of request and of write, each *)
(* in a fiber of its own; the peer, which sends anything in any order; the *)
(* socket, whose write callbacks may come late, with an error, or never;   *)
(* timers.  A fiber that is woken runs inside the action that wakes it.    *)
(***************************************************************************)
EXTENDS Naturals, Sequences, FiniteSets, FiniteSetsExt

CONSTANTS
    Requests,       \* fibers that call request, one call after the other
    Writes,         \* fibers that call write for what expects no answer
    Boots,          \* boot ids the peer may announce
    MaxPending,     \* pending requests (32 in the code)
    MaxBytes,       \* bytes of all responses being assembled (maximumMessageBytes)
    MaxChunks,      \* chunks of one response (4096 in the code)
    EarlyCapacity,  \* messages kept for a handler to come (64 in the code)
    MaxMessages,    \* bound: presentation messages in one behaviour
    OwnerCloses,    \* whether the owner closes its scope on hearing of a failure
    Undefined       \* JavaScript's undefined

Calls == Requests \cup Writes

ASSUME CallsAssumption == Requests \cap Writes = {}
ASSUME LimitsAssumption ==
    /\ MaxPending \in Nat /\ MaxBytes \in Nat /\ MaxChunks \in Nat
    /\ EarlyCapacity \in Nat /\ MaxMessages \in Nat
ASSUME OwnerAssumption == OwnerCloses \in BOOLEAN

\* Why a connection or a call ended, by the class of its failure.
Reason == {"Closed", "InvalidMessage", "NegotiationError", "RequestTimeout",
           "TransportError"}

\* How a call ended.
End == Reason \cup {"answered", "sent", "interrupted", "refused"}

\* A call that takes writeLock at once is "writing"; one that had to queue for
\* it is then "writingLate": its request's deadline runs out before its write's.
Writing == {"writing", "writingLate"}
Step == {"idle", "queued", "awaiting"} \cup Writing

ASSUME UndefinedAssumption == Undefined \notin Calls \cup Boots \cup Reason \cup End

VARIABLES
    owner,      \* "hello" and "welcome" while acquiring, then "acquired",
                \* "installing" its handler, "open", "closed"
    failure,    \* closed and stopped: the first failure, Undefined while open
    reader,     \* "reading", "routing" a message behind routeLock, "stopped"
    welcomed,
    bootId,
    early,      \* earlyMessages
    received,   \* presentation messages read from the socket
    handled,    \* presentation messages given to the handler, in order
    lock,       \* the holder of writeLock
    pending,    \* requests in the pending table
    chunks,     \* chunks assembled for each request
    bytes,      \* and their bytes
    settled,    \* each pending request's Deferred
    call        \* where each call is, or how it ended

table == <<pending, chunks, bytes, settled>>
routing == <<early, received, handled>>
vars == <<owner, failure, reader, welcomed, bootId, routing, lock, table, call>>

TypeOK ==
    /\ owner \in {"hello", "welcome", "acquired", "installing", "open", "closed"}
    /\ failure \in Reason \cup {Undefined}
    /\ reader \in {"reading", "routing", "stopped"}
    /\ welcomed \in BOOLEAN
    /\ bootId \in Boots \cup {Undefined}
    /\ early \in Seq(1 .. MaxMessages)
    /\ received \in 0 .. MaxMessages
    /\ handled \in Seq(1 .. MaxMessages)
    /\ lock \in Calls \cup {Undefined}
    /\ pending \subseteq Requests
    /\ chunks \in [Requests -> 0 .. MaxChunks]
    /\ bytes \in [Requests -> Nat]
    /\ settled \in [Requests -> Reason \cup {"answered", Undefined}]
    /\ call \in [Calls -> Step \cup End]

\* The socket is connected, the reader runs and the hello is being written.
Init ==
    /\ owner = "hello"
    /\ failure = Undefined
    /\ reader = "reading"
    /\ welcomed = FALSE
    /\ bootId = Undefined
    /\ early = <<>>
    /\ received = 0
    /\ handled = <<>>
    /\ lock = Undefined
    /\ pending = {}
    /\ chunks = [r \in Requests |-> 0]
    /\ bytes = [r \in Requests |-> 0]
    /\ settled = [r \in Requests |-> Undefined]
    /\ call = [c \in Calls |-> "idle"]

Open == failure = Undefined
InFlight(c) == call[c] \in Step \ {"idle"}

-----------------------------------------------------------------------------
(* fail.                                                                    *)

\* fail, for a connection that is still open: it is marked closed and every
\* pending request's Deferred fails.
Fails(reason) ==
    IF Open
    THEN /\ failure' = reason
         /\ early' = <<>>
         /\ settled' = [r \in Requests |-> IF r \in pending THEN reason ELSE settled[r]]
    ELSE UNCHANGED <<failure, early, settled>>

\* The callers fail wakes: those whose Deferred was all they waited for.
Woken(reason) == [c \in Calls |->
    IF Open /\ c \in pending /\ call[c] = "awaiting" THEN reason ELSE call[c]]

PendingAfterFail == IF Open THEN {} ELSE pending

\* fail as the reader, the owner and the session's own code call it.
Fail(reason) ==
    /\ Fails(reason)
    /\ pending' = PendingAfterFail
    /\ call' = Woken(reason)
    /\ UNCHANGED <<chunks, bytes>>

\* fail in a fiber that may be interrupted.  The owner hears of the failure
\* inside it, closes its scope there and then, and its finalizers interrupt the
\* fiber before it comes to the pending requests; their own fail does nothing.
FailCutShort(reason) ==
    /\ OwnerCloses
    /\ Open
    /\ owner = "open"
    /\ failure' = reason
    /\ owner' = "closed"
    /\ reader' = "stopped"
    /\ UNCHANGED <<early, table, call>>

-----------------------------------------------------------------------------
(* The owner.                                                               *)

\* The hello's write completes; a welcome may have overtaken it.
HelloWritten ==
    /\ owner = "hello"
    /\ Open
    /\ owner' = IF welcomed THEN "acquired" ELSE "welcome"
    /\ UNCHANGED <<failure, reader, welcomed, bootId, routing, lock, table, call>>

\* The scope closes: acquisition failed, or its owner is done.
Closes(reason) ==
    /\ owner' = "closed"
    /\ reader' = "stopped"
    /\ Fail(reason)
    /\ UNCHANGED <<welcomed, bootId, received, handled, lock>>

\* Mutant of AcquireFails: the wait for the welcome has no deadline.
AcquireFails_HelloOnly(reason) ==
    /\ owner = "hello"
    /\ reason \in {"RequestTimeout", "TransportError"}
    /\ Closes(reason)

\* The hello's write or the wait for the welcome ends in a failure of its own.
AcquireFails(reason) ==
    /\ owner \in {"hello", "welcome"}
    /\ reason \in {"RequestTimeout", "TransportError"}
    /\ Closes(reason)

\* installHandler: from here on the handler gets every message.
InstallHandler ==
    /\ owner = "acquired"
    /\ Open
    /\ owner' = "installing"
    /\ UNCHANGED <<failure, reader, welcomed, bootId, routing, lock, table, call>>

\* The handler takes a message; a snapshot binds the connection to its boot.
Handle(message) ==
    /\ handled' = Append(handled, message)
    /\ \/ UNCHANGED bootId
       \/ Open /\ \E b \in Boots : bootId \in {Undefined, b} /\ bootId' = b

\* installHandler, holding routeLock, replays what came before it.
ReplayEarly ==
    /\ owner = "installing"
    /\ early # <<>>
    /\ early' = Tail(early)
    /\ Handle(Head(early))
    /\ UNCHANGED <<owner, failure, reader, welcomed, received, lock, table, call>>

HandlerInstalled ==
    /\ owner = "installing"
    /\ early = <<>>
    /\ owner' = "open"
    /\ UNCHANGED <<failure, reader, welcomed, bootId, routing, lock, table, call>>

\* The owner's scope closes, also when the handler refuses a replayed message.
Close ==
    /\ owner # "closed"
    /\ Closes("Closed")

\* The session calls fail itself: its health loop, surface.set.
SessionFails(reason) ==
    /\ owner = "open"
    /\ Open
    /\ reason \in {"InvalidMessage", "RequestTimeout"}
    /\ \/ Fail(reason) /\ UNCHANGED <<owner, reader>>
       \/ FailCutShort(reason)
    /\ UNCHANGED <<welcomed, bootId, received, handled, lock>>

-----------------------------------------------------------------------------
(* The reader.                                                              *)

\* An error ends the reader, which fails the connection with it.
ReaderFails(reason) ==
    /\ reader = "reading"
    /\ \/ /\ Fail(reason)
          /\ reader' = "stopped"
          /\ UNCHANGED owner
       \/ FailCutShort(reason)
    /\ UNCHANGED <<welcomed, bootId, received, handled, lock>>

\* What the reader refuses whatever the state: an undecodable or oversized
\* frame, too many early bytes, a response nobody waits for, of another boot or
\* of another id, a bad welcome, shutdown, a read error, the end of the stream.
ReceiveRefused(reason) == reason # "RequestTimeout" /\ ReaderFails(reason)

ReceiveWelcome ==
    /\ reader = "reading"
    /\ ~welcomed
    /\ welcomed' = TRUE
    /\ owner' = IF owner = "welcome" /\ Open THEN "acquired" ELSE owner
    /\ UNCHANGED <<failure, reader, bootId, routing, lock, table, call>>

\* The bytes of all responses being assembled.
Assembled == MapThenSumSet(LAMBDA r : bytes[r], pending)

\* Mutant of ChunkFits: the limit applies to each response by itself.
ChunkFits_EachAlone(r, size, final) ==
    bytes[r] + size <= MaxBytes /\ chunks[r] < MaxChunks /\ (size > 0 \/ final)

ChunkFits(r, size, final) ==
    /\ Assembled + size <= MaxBytes
    /\ chunks[r] < MaxChunks
    /\ size > 0 \/ final

\* A peer knows the ids it was sent.
Answerable(r) == r \in pending /\ call[r] \in Writing \cup {"awaiting"}

\* A chunk of a response; more are to come.
ReceiveChunk(r, size) ==
    /\ reader = "reading"
    /\ welcomed
    /\ Answerable(r)
    /\ ChunkFits(r, size, FALSE)
    /\ chunks' = [chunks EXCEPT ![r] = @ + 1]
    /\ bytes' = [bytes EXCEPT ![r] = @ + size]
    /\ UNCHANGED <<owner, failure, reader, welcomed, bootId, routing, lock,
                   pending, settled, call>>

\* The last chunk: the request leaves the table and its caller is woken, unless
\* its own write has not completed yet.
ReceiveAnswer(r, size) ==
    /\ reader = "reading"
    /\ welcomed
    /\ Answerable(r)
    /\ ChunkFits(r, size, TRUE)
    /\ chunks' = [chunks EXCEPT ![r] = @ + 1]
    /\ bytes' = [bytes EXCEPT ![r] = @ + size]
    /\ pending' = pending \ {r}
    /\ settled' = [settled EXCEPT ![r] = "answered"]
    /\ call' = [call EXCEPT ![r] = IF @ = "awaiting" THEN "answered" ELSE @]
    /\ UNCHANGED <<owner, failure, reader, welcomed, bootId, routing, lock>>

\* A response beyond the limits.
ReceiveOverflow(r, size, final) ==
    /\ welcomed
    /\ Answerable(r)
    /\ ~ChunkFits(r, size, final)
    /\ ReaderFails("InvalidMessage")

\* Mutant of Routes: the reader does not take routeLock.
Routes_Unlocked == TRUE

\* routeLock is free for the reader.
Routes == owner # "installing"

HandlerSet == owner \in {"installing", "open"}

\* A presentation message: to the handler, or kept for it, or behind routeLock.
ReceiveMessage ==
    /\ reader = "reading"
    /\ welcomed
    /\ received < MaxMessages
    /\ received' = received + 1
    /\ \/ /\ Routes
          /\ HandlerSet
          /\ Handle(received')
          /\ UNCHANGED <<early, reader>>
       \/ /\ ~HandlerSet
          /\ Len(early) < EarlyCapacity
          /\ early' = Append(early, received')
          /\ UNCHANGED <<handled, bootId, reader>>
       \/ /\ ~Routes
          /\ reader' = "routing"
          /\ UNCHANGED <<early, handled, bootId>>
    /\ UNCHANGED <<owner, failure, welcomed, lock, table, call>>

\* One message too many before the handler.
ReceiveEarlyOverflow ==
    /\ welcomed
    /\ ~HandlerSet
    /\ Len(early) = EarlyCapacity
    /\ ReaderFails("InvalidMessage")

\* The reader gets routeLock.
RouteResumes ==
    /\ reader = "routing"
    /\ Routes
    /\ reader' = "reading"
    /\ Handle(received)
    /\ UNCHANGED <<owner, failure, welcomed, early, received, lock, table, call>>

\* The destroyed socket gives the reader nothing more.
ReaderStops ==
    /\ reader = "reading"
    /\ ~Open
    /\ reader' = "stopped"
    /\ UNCHANGED <<owner, failure, welcomed, bootId, routing, lock, table, call>>

-----------------------------------------------------------------------------
(* request and write.                                                       *)

\* Mutant of MayRequest: a request does not wait for the boot to be known.
MayRequest_Unbound == Cardinality(pending) < MaxPending

\* request's own checks of a method that the welcome lists.
MayRequest == bootId # Undefined /\ Cardinality(pending) < MaxPending

\* Mutant of Refuse: a request enters the table before it is checked.
Refuse_Leaking(c, listed) ==
    /\ call[c] = "idle"
    /\ owner = "open" /\ Open
    /\ c \in Requests /\ (listed => ~MayRequest)
    /\ call' = [call EXCEPT ![c] = "refused"]
    /\ pending' = pending \cup {c}
    /\ UNCHANGED <<owner, failure, reader, welcomed, bootId, routing, lock, chunks,
                   bytes, settled>>

\* A call that is refused before it enters the table ends with no effect.  `listed`
\* is the welcome listing the request's method.
Refuse(c, listed) ==
    /\ call[c] = "idle"
    /\ owner \in {"open", "closed"}
    /\ \/ ~Open /\ call' = [call EXCEPT ![c] = "Closed"]
       \/ /\ Open /\ c \in Requests /\ (listed => ~MayRequest)
          /\ call' = [call EXCEPT ![c] = "refused"]
    /\ UNCHANGED <<owner, failure, reader, welcomed, bootId, routing, lock, table>>

\* A call begins: a request enters the table; the write takes the lock or queues.
Begin(c) ==
    /\ call[c] = "idle"
    /\ owner = "open"
    /\ Open
    /\ c \in Requests => MayRequest
    /\ pending' = pending \cup ({c} \cap Requests)
    /\ IF lock = Undefined
       THEN lock' = c /\ call' = [call EXCEPT ![c] = "writing"]
       ELSE call' = [call EXCEPT ![c] = "queued"] /\ UNCHANGED lock
    /\ UNCHANGED <<owner, failure, reader, welcomed, bootId, routing, chunks,
                   bytes, settled>>

\* writeLock is free and the next caller that queues for it goes on.
TakeLock(c) ==
    /\ call[c] = "queued"
    /\ lock = Undefined
    /\ Open
    /\ lock' = c
    /\ call' = [call EXCEPT ![c] = "writingLate"]
    /\ UNCHANGED <<owner, failure, reader, welcomed, bootId, routing, table>>

\* The write's callback: the frame is out.  A destroyed socket reports an error.
WriteCompletes(c) ==
    /\ call[c] \in Writing
    /\ Open
    /\ lock' = Undefined
    /\ call' = [call EXCEPT ![c] = IF c \in Writes THEN "sent"
                                   ELSE IF settled[c] = "answered" THEN "answered"
                                   ELSE "awaiting"]
    /\ UNCHANGED <<owner, failure, reader, welcomed, bootId, routing, table>>

\* Mutant of Released: the lock is not given back by a call that fails.
Released_Never(c) == lock

Released(c) == IF lock = c THEN Undefined ELSE lock

\* A call ends, its request leaves the table, and nobody else is concerned.
Leaves(c, end) ==
    /\ pending' = pending \ {c}
    /\ call' = [call EXCEPT ![c] = end]
    /\ UNCHANGED <<failure, early, settled>>

\* A call ends and fails the connection with `reason`, in a region that cannot
\* be interrupted.
Breaks(c, end, reason) ==
    /\ Fails(reason)
    /\ pending' = PendingAfterFail \ {c}
    /\ call' = [Woken(reason) EXCEPT ![c] = end]

\* What a call leaves alone as it ends.
others == <<owner, reader, welcomed, bootId, received, handled, chunks, bytes>>

\* The frame cannot be encoded, or is too large: known under the lock, before
\* anything is written.  The onExit of a request still fails the connection.
Unencodable(c) ==
    /\ Open
    /\ lock = Undefined
    /\ \/ call[c] = "queued"
       \/ call[c] = "idle" /\ owner = "open" /\ (c \in Requests => MayRequest)
    /\ IF c \in Requests THEN Breaks(c, "InvalidMessage", "InvalidMessage")
       ELSE Leaves(c, "InvalidMessage")
    /\ UNCHANGED <<others, lock>>

\* The lock comes free after the connection failed: ensureOpen.
TakeTooLate(c) ==
    /\ call[c] = "queued"
    /\ lock = Undefined
    /\ ~Open
    /\ Leaves(c, "Closed")
    /\ UNCHANGED <<others, lock>>

\* The write's callback reports an error, at the latest for a destroyed socket.
WriteFails(c) ==
    /\ call[c] \in Writing
    /\ Breaks(c, "TransportError", "TransportError")
    /\ lock' = Released(c)
    /\ UNCHANGED others

\* The write's own deadline.
WriteDeadline(c) ==
    /\ call[c] = "writing" \/ (call[c] = "writingLate" /\ c \in Writes)
    /\ Breaks(c, "RequestTimeout", "RequestTimeout")
    /\ lock' = Released(c)
    /\ UNCHANGED others

\* The request's deadline.  It interrupts what the request was doing, and an
\* interrupted write fails the connection itself, as "Closed", before the
\* deadline's error gets there.
RequestDeadline(r) ==
    /\ call[r] \in {"queued", "writingLate", "awaiting"}
    /\ Breaks(r, "RequestTimeout",
              IF call[r] = "writingLate" THEN "Closed" ELSE "RequestTimeout")
    /\ lock' = Released(r)
    /\ UNCHANGED others

\* Mutant of Interrupt: a caller that gives up just leaves.
Interrupt_Quietly(c) ==
    /\ InFlight(c)
    /\ Leaves(c, "interrupted")
    /\ lock' = Released(c)
    /\ UNCHANGED others

\* The caller is interrupted.  Only a write that has not got the lock is known
\* not to have been made.
Interrupt(c) ==
    /\ InFlight(c)
    /\ IF call[c] = "queued" /\ c \in Writes THEN Leaves(c, "interrupted")
       ELSE Breaks(c, "interrupted", "Closed")
    /\ lock' = Released(c)
    /\ UNCHANGED others

\* A fiber whose call succeeded goes on, to its next call: a request has an id and a
\* table entry of its own.
GoesOn(c) ==
    /\ call[c] \in {"answered", "sent"}
    /\ call' = [call EXCEPT ![c] = "idle"]
    /\ chunks' = [r \in Requests |-> IF r = c THEN 0 ELSE chunks[r]]
    /\ bytes' = [r \in Requests |-> IF r = c THEN 0 ELSE bytes[r]]
    /\ settled' = [r \in Requests |-> IF r = c THEN Undefined ELSE settled[r]]
    /\ UNCHANGED <<owner, failure, reader, welcomed, bootId, routing, lock, pending>>

-----------------------------------------------------------------------------
Sizes == 0 .. MaxBytes + 1

Owner ==
    \/ HelloWritten \/ InstallHandler \/ ReplayEarly \/ HandlerInstalled \/ Close
    \/ \E reason \in Reason : AcquireFails(reason) \/ SessionFails(reason)

Reader ==
    \/ ReceiveWelcome \/ ReceiveMessage \/ ReceiveEarlyOverflow
    \/ RouteResumes \/ ReaderStops
    \/ \E reason \in Reason : ReceiveRefused(reason)
    \/ \E r \in Requests, size \in Sizes :
          \/ ReceiveChunk(r, size) \/ ReceiveAnswer(r, size)
          \/ \E final \in BOOLEAN : ReceiveOverflow(r, size, final)

Caller(c) ==
    \/ \E listed \in BOOLEAN : Refuse(c, listed)
    \/ Begin(c) \/ TakeLock(c) \/ Unencodable(c) \/ TakeTooLate(c)
    \/ WriteCompletes(c) \/ WriteFails(c) \/ WriteDeadline(c) \/ Interrupt(c)
    \/ GoesOn(c)

Next ==
    \/ Owner
    \/ Reader
    \/ \E c \in Calls : Caller(c)
    \/ \E r \in Requests : RequestDeadline(r)

Spec == Init /\ [][Next]_vars
=============================================================================
