---------------------- MODULE EndpointConnectionProofs ----------------------
(***************************************************************************)
(* Theorems about EndpointConnection, for every set of calls and every     *)
(* limit.  The connection's core (failure, write lock, pending table,      *)
(* calls) and its routing (owner, reader, messages) meet only in fail, so  *)
(* each has an invariant and a step lemma of its own; ConnectionInv is     *)
(* their conjunction.  From it follows that every step of the connection   *)
(* is one of EndpointContract's.                                           *)
(***************************************************************************)
EXTENDS EndpointRefinement, DataTheorems

core == <<failure, lock, table, call>>

-----------------------------------------------------------------------------
(* What a call does to the core as it fails, breaks or leaves.             *)

\* What leaves the core alone keeps its invariant.
LEMMA CoreQuiet == ASSUME CoreInv, UNCHANGED core PROVE CoreInv'
  BY DEF CoreInv, CoreTypes, LockExact, TableExact, SettledInv, Open, InFlight, core,
         table

\* fail keeps the core invariant: who is woken leaves the table with it.
LEMMA CoreFail ==
    ASSUME CoreInv, NEW reason \in Reason, Fail(reason), UNCHANGED lock
    PROVE  CoreInv'
<1> USE CallsAssumption, UndefinedAssumption DEF CoreInv, Fail, Fails, Woken,
        PendingAfterFail, Open, InFlight, End, Reason, Step, Writing, Calls
<1>1. CoreTypes'
    BY DEF CoreTypes
<1>2. LockExact'
    BY DEF CoreTypes, LockExact
<1>3. TableExact'
    BY DEF CoreTypes, TableExact
<1>4. SettledInv'
    BY DEF CoreTypes, SettledInv, TableExact
<1> QED BY <1>1, <1>2, <1>3, <1>4

\* A fail that is cut short leaves the table and the calls as they are.
LEMMA CoreCut ==
    ASSUME CoreInv, failure' \in Reason, UNCHANGED <<lock, table, call>>
    PROVE  CoreInv'
<1>1. CoreTypes' /\ LockExact'
    BY DEF CoreInv, CoreTypes, LockExact, table
<1>2. TableExact' /\ SettledInv'
    BY UndefinedAssumption DEF CoreInv, TableExact, SettledInv, table, Open, InFlight
<1> QED BY <1>1, <1>2 DEF CoreInv

\* A call that ends with a failure of the connection keeps the core invariant.
LEMMA CoreBreaks ==
    ASSUME CoreInv, NEW c \in Calls, NEW end \in End, NEW reason \in Reason,
           Breaks(c, end, reason), lock' = Released(c), UNCHANGED <<chunks, bytes>>
    PROVE  CoreInv'
<1> USE CallsAssumption, UndefinedAssumption DEF CoreInv, Breaks, Fails, Woken,
        PendingAfterFail, Released, Open, InFlight, End, Reason, Step, Writing, Calls
<1>1. CoreTypes'
    BY DEF CoreTypes
<1>2. LockExact'
    BY DEF CoreTypes, LockExact
<1>3. TableExact'
    BY DEF CoreTypes, TableExact
<1>4. SettledInv'
    BY DEF CoreTypes, SettledInv, TableExact
<1> QED BY <1>1, <1>2, <1>3, <1>4

\* So does a call that ends alone.
LEMMA CoreLeaves ==
    ASSUME CoreInv, NEW c \in Calls, NEW end \in End,
           Leaves(c, end), lock' = Released(c), UNCHANGED <<chunks, bytes>>
    PROVE  CoreInv'
<1> USE CallsAssumption, UndefinedAssumption DEF CoreInv, Leaves, Released, Open,
        InFlight, End, Reason, Step, Writing, Calls
<1>1. CoreTypes'
    BY DEF CoreTypes
<1>2. LockExact'
    BY DEF CoreTypes, LockExact
<1>3. TableExact'
    BY DEF CoreTypes, TableExact
<1>4. SettledInv'
    BY DEF CoreTypes, SettledInv
<1> QED BY <1>1, <1>2, <1>3, <1>4

-----------------------------------------------------------------------------
(* Every step keeps the core invariant.                                     *)

LEMMA OwnerCore ==
    ASSUME CoreInv, Owner PROVE CoreInv'
<1>1. CASE UNCHANGED core
    BY <1>1, CoreQuiet
<1>2. ASSUME NEW reason \in Reason, Closes(reason) PROVE CoreInv'
    BY <1>2, CoreFail DEF Closes
<1>3. ASSUME NEW reason \in Reason, SessionFails(reason) PROVE CoreInv'
  <2>1. CASE Fail(reason)
    BY <2>1, <1>3, CoreFail DEF SessionFails
  <2>2. CASE FailCutShort(reason)
    BY <2>2, <1>3, CoreCut DEF SessionFails, FailCutShort
  <2> QED BY <1>3, <2>1, <2>2 DEF SessionFails
<1>4. Closes("Closed") => CoreInv'
    BY <1>2 DEF Reason
<1> QED
    BY <1>1, <1>2, <1>3, <1>4 DEF Owner, HelloWritten, InstallHandler, ReplayEarly,
       HandlerInstalled, Close, AcquireFails, core, table

LEMMA ReaderFailsCore ==
    ASSUME CoreInv, NEW reason \in Reason, ReaderFails(reason) PROVE CoreInv'
<1>1. CASE Fail(reason)
    BY <1>1, CoreFail DEF ReaderFails
<1>2. CASE FailCutShort(reason)
    BY <1>2, CoreCut DEF ReaderFails, FailCutShort
<1> QED BY <1>1, <1>2 DEF ReaderFails

\* A chunk that fits adds to its request; the last one takes it off the table.
LEMMA ChunkCore ==
    ASSUME CoreInv, NEW r \in Requests, NEW size \in Sizes,
           ReceiveChunk(r, size) \/ ReceiveAnswer(r, size)
    PROVE  CoreInv'
<1> USE LimitsAssumption DEF CoreInv, CoreTypes
<1>1. chunks[r] < MaxChunks /\ size \in Nat
    BY DEF ReceiveChunk, ReceiveAnswer, ChunkFits, Sizes
<1>2. chunks' \in [Requests -> 0 .. MaxChunks] /\ bytes' \in [Requests -> Nat]
  <2>1. /\ chunks' = [chunks EXCEPT ![r] = chunks[r] + 1]
        /\ bytes' = [bytes EXCEPT ![r] = bytes[r] + size]
    BY DEF ReceiveChunk, ReceiveAnswer
  <2>2. chunks[r] + 1 \in 0 .. MaxChunks /\ bytes[r] + size \in Nat
    BY <1>1
  <2> QED BY <2>1, <2>2
<1>3. CASE ReceiveChunk(r, size)
    BY <1>2, <1>3 DEF ReceiveChunk, LockExact, TableExact, SettledInv, Open, InFlight
<1>4. CASE ReceiveAnswer(r, size)
  <2> USE <1>4, CallsAssumption, UndefinedAssumption DEF ReceiveAnswer, Answerable,
          Writing, Step, End, Reason, Calls, Open, InFlight
  <2>1. CoreTypes'
    BY <1>2
  <2>2. LockExact'
    BY DEF LockExact
  <2>3. TableExact'
    BY DEF TableExact
  <2>4. SettledInv'
    BY DEF SettledInv
  <2> QED BY <2>1, <2>2, <2>3, <2>4
<1> QED BY <1>3, <1>4

LEMMA ReaderCore ==
    ASSUME CoreInv, Reader PROVE CoreInv'
<1>1. CASE UNCHANGED core
    BY <1>1, CoreQuiet
<1>2. ASSUME NEW reason \in Reason, ReaderFails(reason) PROVE CoreInv'
    BY <1>2, ReaderFailsCore
<1>3. ReaderFails("InvalidMessage") => CoreInv'
    BY <1>2 DEF Reason
<1>4. ASSUME NEW r \in Requests, NEW size \in Sizes,
             ReceiveChunk(r, size) \/ ReceiveAnswer(r, size)
      PROVE  CoreInv'
    BY <1>4, ChunkCore
<1> QED
    BY <1>1, <1>2, <1>3, <1>4 DEF Reader, ReceiveWelcome, ReceiveMessage, RouteResumes,
       ReaderStops, ReceiveEarlyOverflow, ReceiveRefused, ReceiveOverflow, core, table

\* The steps of a call that neither end it with a failure nor leave it alone.
LEMMA ProgressCore ==
    ASSUME CoreInv, NEW c \in Calls,
           \/ \E listed \in BOOLEAN : Refuse(c, listed)
           \/ Begin(c) \/ TakeLock(c) \/ WriteCompletes(c) \/ GoesOn(c)
    PROVE  CoreInv'
<1> USE CallsAssumption, UndefinedAssumption DEF CoreInv, Writing, Step, End, Reason,
        Calls, Open, InFlight, table
<1>1. CASE \E listed \in BOOLEAN : Refuse(c, listed)
    BY <1>1 DEF Refuse, CoreTypes, LockExact, TableExact, SettledInv
<1>2. CASE Begin(c)
  <2>1. CoreTypes'
    BY <1>2 DEF Begin, CoreTypes
  <2>2. LockExact'
    BY <1>2 DEF Begin, CoreTypes, LockExact
  <2>3. TableExact' /\ SettledInv'
    BY <1>2 DEF Begin, CoreTypes, TableExact, SettledInv
  <2> QED BY <2>1, <2>2, <2>3
<1>3. CASE TakeLock(c)
    BY <1>3 DEF TakeLock, CoreTypes, LockExact, TableExact, SettledInv
<1>4. CASE WriteCompletes(c)
  <2>1. CoreTypes'
    BY <1>4 DEF WriteCompletes, CoreTypes
  <2>2. LockExact'
    BY <1>4 DEF WriteCompletes, CoreTypes, LockExact
  <2>3. TableExact' /\ SettledInv'
    BY <1>4 DEF WriteCompletes, CoreTypes, TableExact, SettledInv
  <2> QED BY <2>1, <2>2, <2>3
<1>5. CASE GoesOn(c)
  <2>1. CoreTypes'
    <3>1. \A r \in Requests : (IF r = c THEN 0 ELSE chunks[r]) \in 0 .. MaxChunks
      BY LimitsAssumption DEF CoreTypes
    <3> QED BY <1>5, <3>1 DEF GoesOn, CoreTypes
  <2>2. LockExact'
    BY <1>5 DEF GoesOn, CoreTypes, LockExact
  <2>3. TableExact' /\ SettledInv'
    BY <1>5 DEF GoesOn, CoreTypes, TableExact, SettledInv
  <2> QED BY <2>1, <2>2, <2>3
<1> QED BY <1>1, <1>2, <1>3, <1>4, <1>5

LEMMA CallerCore ==
    ASSUME CoreInv, NEW c \in Calls,
           Caller(c) \/ (c \in Requests /\ RequestDeadline(c))
    PROVE  CoreInv'
<1> USE UndefinedAssumption DEF others, End, Reason
<1>1. CASE \/ \E listed \in BOOLEAN : Refuse(c, listed)
           \/ Begin(c) \/ TakeLock(c) \/ WriteCompletes(c) \/ GoesOn(c)
    BY <1>1, ProgressCore
<1>2. CASE Unencodable(c)
  <2>1. lock' = Released(c) /\ UNCHANGED <<chunks, bytes>>
    BY <1>2 DEF Unencodable, Released
  <2> QED BY <1>2, <2>1, CoreBreaks, CoreLeaves DEF Unencodable
<1>3. CASE TakeTooLate(c)
  <2>1. lock' = Released(c) /\ UNCHANGED <<chunks, bytes>>
    BY <1>3 DEF TakeTooLate, Released
  <2> QED BY <1>3, <2>1, CoreLeaves DEF TakeTooLate
<1>4. CASE WriteFails(c) \/ WriteDeadline(c)
    BY <1>4, CoreBreaks DEF WriteFails, WriteDeadline
<1>5. CASE RequestDeadline(c)
    BY <1>5, CoreBreaks DEF RequestDeadline
<1>6. CASE Interrupt(c)
    BY <1>6, CoreBreaks, CoreLeaves DEF Interrupt
<1> QED BY <1>1, <1>2, <1>3, <1>4, <1>5, <1>6 DEF Caller

LEMMA CoreStep == CoreInv /\ [Next]_vars => CoreInv'
<1> SUFFICES ASSUME CoreInv, [Next]_vars PROVE CoreInv'
    OBVIOUS
<1>1. CASE UNCHANGED vars
    BY <1>1, CoreQuiet DEF vars, core
<1>2. CASE Owner
    BY <1>2, OwnerCore
<1>3. CASE Reader
    BY <1>3, ReaderCore
<1>4. ASSUME NEW c \in Calls, Caller(c) PROVE CoreInv'
    BY <1>4, CallerCore
<1>5. ASSUME NEW r \in Requests, RequestDeadline(r) PROVE CoreInv'
    BY <1>5, CallerCore DEF Calls
<1> QED BY <1>1, <1>2, <1>3, <1>4, <1>5 DEF Next

LEMMA CoreInit == Init => CoreInv
  BY CallsAssumption, LimitsAssumption, UndefinedAssumption
     DEF Init, CoreInv, CoreTypes, LockExact, TableExact, SettledInv, Open, InFlight,
         Step, End, Writing, Calls

-----------------------------------------------------------------------------
(* Every step keeps the types of the routing.                               *)

\* Everything but messages, replay and the owner's own steps: at most the early
\* messages are dropped and the reader stops.
LEMMA FailRouting ==
    ASSUME RoutingTypes, early' \in {early, <<>>}, reader' \in {reader, "stopped"},
           owner' \in {owner, "closed"}, UNCHANGED <<welcomed, bootId, received, handled>>
    PROVE  RoutingTypes'
  BY EmptySeq DEF RoutingTypes, RoutingInv

LEMMA FailsEarly ==
    /\ \A reason : Fails(reason) => early' \in {early, <<>>}
    /\ \A reason : Fail(reason) => early' \in {early, <<>>}
<1>1. ASSUME NEW reason, Fails(reason) PROVE early' \in {early, <<>>}
    BY <1>1 DEF Fails
<1> QED BY <1>1 DEF Fail

LEMMA HandleTypes ==
    ASSUME RoutingTypes, NEW message \in 1 .. MaxMessages, Handle(message)
    PROVE  handled' \in Seq(1 .. MaxMessages) /\ bootId' \in Boots \cup {Undefined}
  BY DEF RoutingTypes, Handle

LEMMA OwnerRouting ==
    ASSUME RoutingTypes, Owner PROVE RoutingTypes'
<1>1. CASE HelloWritten \/ InstallHandler \/ HandlerInstalled
    BY <1>1 DEF HelloWritten, InstallHandler, HandlerInstalled, RoutingTypes, RoutingInv,
       routing
<1>2. CASE ReplayEarly
  <2>0. early \in Seq(1 .. MaxMessages) /\ early # <<>>
    BY <1>2 DEF ReplayEarly, RoutingTypes
  <2>1. Head(early) \in 1 .. MaxMessages /\ Tail(early) \in Seq(1 .. MaxMessages)
    BY <2>0, HeadTailProperties
  <2>2. Handle(Head(early))
    BY <1>2 DEF ReplayEarly
  <2>3. handled' \in Seq(1 .. MaxMessages) /\ bootId' \in Boots \cup {Undefined}
    BY <2>1, <2>2, HandleTypes
  <2> QED BY <1>2, <2>1, <2>3 DEF ReplayEarly, RoutingTypes, RoutingInv
<1>3. ASSUME NEW reason, Closes(reason) PROVE RoutingTypes'
    BY <1>3, FailsEarly, FailRouting DEF Closes
<1>4. ASSUME NEW reason, SessionFails(reason) PROVE RoutingTypes'
    BY <1>4, FailsEarly, FailRouting DEF SessionFails, FailCutShort
<1> QED BY <1>1, <1>2, <1>3, <1>4 DEF Owner, Close, AcquireFails

LEMMA ReaderRouting ==
    ASSUME RoutingTypes, Reader PROVE RoutingTypes'
<1> USE LimitsAssumption
<1>1. CASE ReceiveWelcome \/ ReaderStops
    BY <1>1 DEF ReceiveWelcome, ReaderStops, RoutingTypes, RoutingInv, routing
<1>2. CASE ReceiveMessage
  <2>1. received' \in 1 .. MaxMessages
    BY <1>2 DEF ReceiveMessage, RoutingTypes
  <2>2. CASE Handle(received') /\ UNCHANGED <<early, reader>>
    BY <1>2, <2>1, <2>2, HandleTypes DEF ReceiveMessage, RoutingTypes, RoutingInv
  <2>3. CASE early' = Append(early, received') /\ UNCHANGED <<handled, bootId, reader>>
    BY <1>2, <2>1, <2>3 DEF ReceiveMessage, RoutingTypes, RoutingInv
  <2>4. CASE reader' = "routing" /\ UNCHANGED <<early, handled, bootId>>
    BY <1>2, <2>1, <2>4 DEF ReceiveMessage, RoutingTypes, RoutingInv
  <2> QED BY <1>2, <2>2, <2>3, <2>4 DEF ReceiveMessage
<1>3. CASE RouteResumes
  <2>1. received \in 1 .. MaxMessages
    BY <1>3 DEF RouteResumes, RoutingTypes, RoutingInv
  <2> QED BY <1>3, <2>1, HandleTypes DEF RouteResumes, RoutingTypes, RoutingInv
<1>4. ASSUME NEW reason, ReaderFails(reason) PROVE RoutingTypes'
    BY <1>4, FailsEarly, FailRouting DEF ReaderFails, FailCutShort
<1>5. ASSUME NEW r \in Requests, NEW size \in Sizes,
             ReceiveChunk(r, size) \/ ReceiveAnswer(r, size)
      PROVE  RoutingTypes'
    BY <1>5 DEF ReceiveChunk, ReceiveAnswer, RoutingTypes, RoutingInv, routing
<1> QED
    BY <1>1, <1>2, <1>3, <1>4, <1>5 DEF Reader, ReceiveEarlyOverflow, ReceiveRefused,
       ReceiveOverflow

\* No step of a call touches the routing, but for the early messages its failure
\* drops.
LEMMA CallerRouting ==
    ASSUME RoutingTypes, NEW c \in Calls, Caller(c) \/ RequestDeadline(c)
    PROVE  RoutingTypes'
<1>1. CASE \/ \E listed \in BOOLEAN : Refuse(c, listed)
           \/ Begin(c) \/ TakeLock(c) \/ WriteCompletes(c) \/ GoesOn(c)
    BY <1>1, FailRouting DEF Refuse, Begin, TakeLock, WriteCompletes, GoesOn, routing
<1>2. CASE Unencodable(c) \/ TakeTooLate(c) \/ Interrupt(c)
    BY <1>2, FailsEarly, FailRouting DEF Unencodable, TakeTooLate, Interrupt, Leaves,
       Breaks, others
<1>3. CASE WriteFails(c) \/ WriteDeadline(c) \/ RequestDeadline(c)
    BY <1>3, FailsEarly, FailRouting DEF WriteFails, WriteDeadline, RequestDeadline,
       Breaks, others
<1> QED BY <1>1, <1>2, <1>3 DEF Caller

LEMMA RoutingStep == RoutingTypes /\ [Next]_vars => RoutingTypes'
<1> SUFFICES ASSUME RoutingTypes, [Next]_vars PROVE RoutingTypes'
    OBVIOUS
<1>1. CASE UNCHANGED vars
    BY <1>1, FailRouting DEF vars, routing
<1>2. ASSUME NEW c \in Calls, Caller(c) \/ RequestDeadline(c) PROVE RoutingTypes'
    BY <1>2, CallerRouting
<1> QED BY <1>1, <1>2, OwnerRouting, ReaderRouting DEF Next, Calls

-----------------------------------------------------------------------------
(* The theorems.                                                            *)

\* The connection invariant holds: types, the table and the lock together.
THEOREM ConnectionInvariant == Spec => []ConnectionInv
<1>1. Init => ConnectionInv
  <2>1. Init => RoutingTypes
    <3>1. <<>> \in Seq(1 .. MaxMessages)
      BY EmptySeq
    <3>2. 0 \in 0 .. MaxMessages
      BY LimitsAssumption
    <3> QED BY <3>1, <3>2 DEF Init, RoutingTypes, RoutingInv
  <2> QED BY <2>1, CoreInit DEF ConnectionInv
<1>2. ConnectionInv /\ [Next]_vars => ConnectionInv'
    BY CoreStep, RoutingStep DEF ConnectionInv
<1> QED BY <1>1, <1>2, PTL DEF Spec

\* Every reachable state of a connection is well typed.
THEOREM EndpointTypeCorrect == Spec => []TypeOK
<1>1. ConnectionInv => TypeOK
    BY DEF ConnectionInv, CoreInv, CoreTypes, RoutingTypes, TypeOK
<1> QED BY <1>1, ConnectionInvariant, PTL

\* writeLock is held exactly by the call whose frame is being written.
THEOREM LockIsExact == Spec => []LockExact
<1>1. ConnectionInv => LockExact
    BY DEF ConnectionInv, CoreInv
<1> QED BY <1>1, ConnectionInvariant, PTL

\* The pending table holds exactly the requests that still wait for an answer.
THEOREM TableIsExact == Spec => []TableExact
<1>1. ConnectionInv => TableExact
    BY DEF ConnectionInv, CoreInv
<1> QED BY <1>1, ConnectionInvariant, PTL

\* What one failing step of fail does to who waits: everybody who awaited an answer
\* was in the table, and is woken.
LEMMA FailWakes ==
    ASSUME CoreInv, Open, NEW reason \in Reason, NEW r \in Requests
    PROVE  Woken(reason)[r] # "awaiting"
  BY DEF CoreInv, CoreTypes, TableExact, Woken, Open, Calls, Reason

\* Where no owner closes its scope inside the wake-up of fail, nobody waits for an
\* answer in a failed connection.
LEMMA WaitersStep ==
    ASSUME ~OwnerCloses, CoreInv, FailureEndsPending, [Next]_vars
    PROVE  FailureEndsPending'
<1> SUFFICES ASSUME NEW r \in Requests, failure' # Undefined, call'[r] = "awaiting"
             PROVE  FALSE
    BY DEF FailureEndsPending, Open
<1>1. r \in Calls /\ (~Open => call[r] # "awaiting")
    BY DEF FailureEndsPending, Calls
<1>2. CASE UNCHANGED core
    BY <1>1, <1>2 DEF core, Open
<1>3. ASSUME NEW reason \in Reason, Fails(reason), call' = Woken(reason) PROVE FALSE
  <2>1. CASE Open
    BY <1>3, <2>1, FailWakes
  <2>2. CASE ~Open
    BY <1>1, <1>3, <2>2 DEF Woken, CoreInv, CoreTypes
  <2> QED BY <2>1, <2>2
<1>4. ASSUME NEW c \in Calls, NEW end \in End, NEW reason \in Reason,
             Breaks(c, end, reason)
      PROVE  FALSE
  <2>1. Woken(reason)[r] # "awaiting"
    BY <1>1, FailWakes DEF Woken, CoreInv, CoreTypes
  <2>2. call'[r] = IF r = c THEN end ELSE Woken(reason)[r]
    BY <1>1, <1>4 DEF Breaks, Woken
  <2> QED BY <2>1, <2>2 DEF End, Reason
<1>5. ASSUME NEW c \in Calls, NEW end \in End, Leaves(c, end) PROVE FALSE
    BY <1>1, <1>5 DEF Leaves, CoreInv, CoreTypes, End, Reason, Open
<1>6. ASSUME NEW c \in Calls, Caller(c) \/ RequestDeadline(c) PROVE FALSE
  <2> USE DEF End, Reason
  <2>1. CASE \/ \E listed \in BOOLEAN : Refuse(c, listed)
             \/ Begin(c) \/ TakeLock(c) \/ GoesOn(c)
    BY <1>1, <2>1 DEF Refuse, Begin, TakeLock, GoesOn, Open, CoreInv, CoreTypes
  <2>2. CASE WriteCompletes(c)
    BY <1>1, <2>2 DEF WriteCompletes, Open
  <2>3. CASE Unencodable(c) \/ TakeTooLate(c) \/ Interrupt(c)
    BY <1>4, <1>5, <2>3 DEF Unencodable, TakeTooLate, Interrupt
  <2>4. CASE WriteFails(c) \/ WriteDeadline(c) \/ RequestDeadline(c)
    BY <1>4, <2>4 DEF WriteFails, WriteDeadline, RequestDeadline
  <2> QED BY <1>6, <2>1, <2>2, <2>3, <2>4 DEF Caller
<1>7. CASE Owner
  <2>1. ASSUME NEW reason \in Reason, Closes(reason) \/ SessionFails(reason)
        PROVE  FALSE
    BY <1>3, <2>1 DEF Closes, SessionFails, FailCutShort, Fail
  <2> QED
    BY <1>2, <1>7, <2>1 DEF Owner, HelloWritten, InstallHandler, ReplayEarly,
       HandlerInstalled, Close, AcquireFails, Reason, core, table
<1>8. CASE Reader
  <2>1. ASSUME NEW reason \in Reason, ReaderFails(reason) PROVE FALSE
    BY <1>3, <2>1 DEF ReaderFails, FailCutShort, Fail
  <2>2. ASSUME NEW q \in Requests, NEW size \in Sizes,
               ReceiveChunk(q, size) \/ ReceiveAnswer(q, size)
        PROVE  FALSE
    BY <1>1, <2>2 DEF ReceiveChunk, ReceiveAnswer, Open, CoreInv, CoreTypes
  <2> QED
    BY <1>2, <1>8, <2>1, <2>2 DEF Reader, ReceiveWelcome, ReceiveMessage, RouteResumes,
       ReaderStops, ReceiveEarlyOverflow, ReceiveRefused, ReceiveOverflow, Reason,
       core, table
<1>9. CASE UNCHANGED vars
    BY <1>2, <1>9 DEF vars, core
<1> QED BY <1>6, <1>7, <1>8, <1>9 DEF Next, Calls

\* fail ends all pending work, provided that no owner closes its scope while fail
\* wakes it: without that condition the run endpoint_failure refutes it.
THEOREM FailureEndsAll ==
    ASSUME ~OwnerCloses PROVE Spec => []FailureEndsPending
<1>1. Init => FailureEndsPending
    BY DEF Init, FailureEndsPending, Open
<1>2. ConnectionInv /\ FailureEndsPending /\ [Next]_vars => FailureEndsPending'
    BY WaitersStep DEF ConnectionInv
<1> QED BY <1>1, <1>2, ConnectionInvariant, PTL DEF Spec

-----------------------------------------------------------------------------
(* Ambiguity.                                                               *)

Ambiguous(c) == /\ call[c] \in Writing \cup {"awaiting"}
                /\ call'[c] \in End \ {"answered", "sent"}

\* Whatever ends a call whose frame is begun, but not answered or sent, fails the
\* connection.
LEMMA AmbiguityStep ==
    ASSUME CoreInv, [Next]_vars, NEW c \in Calls, Ambiguous(c) PROVE failure' # Undefined
<1> SUFFICES ASSUME failure' = Undefined PROVE FALSE
    OBVIOUS
<1> USE UndefinedAssumption DEF Ambiguous, Writing, End, Reason, Open
<1>1. /\ call \in [Calls -> Step \cup End]
      /\ call[c] \in {"writing", "writingLate", "awaiting"}
      /\ call'[c] # call[c]
    BY DEF CoreInv, CoreTypes
<1>2. ASSUME NEW reason \in Reason, Fails(reason) PROVE FALSE
  <2>1. failure = Undefined => failure' = reason
    BY <1>2 DEF Fails
  <2>2. failure # Undefined => failure' = failure
    BY <1>2 DEF Fails
  <2> QED BY <2>1, <2>2
<1>3. ASSUME NEW d \in Calls, NEW end, Leaves(d, end), call[d] \in {"idle", "queued"}
      PROVE  FALSE
    BY <1>1, <1>3 DEF Leaves
<1>4. ASSUME NEW d \in Calls, Caller(d) \/ RequestDeadline(d) PROVE FALSE
  <2>1. CASE \/ \E listed \in BOOLEAN : Refuse(d, listed)
             \/ Begin(d) \/ TakeLock(d) \/ GoesOn(d)
    BY <1>1, <2>1 DEF Refuse, Begin, TakeLock, GoesOn
  <2>2. CASE WriteCompletes(d)
    BY <1>1, <2>2 DEF WriteCompletes
  <2>3. CASE Unencodable(d)
    BY <1>2, <1>3, <2>3 DEF Unencodable, Breaks
  <2>4. CASE TakeTooLate(d)
    BY <1>3, <2>4 DEF TakeTooLate
  <2>5. CASE WriteFails(d) \/ WriteDeadline(d) \/ RequestDeadline(d)
    BY <1>2, <2>5 DEF WriteFails, WriteDeadline, RequestDeadline, Breaks
  <2>6. CASE Interrupt(d)
    BY <1>2, <1>3, <2>6 DEF Interrupt, Breaks
  <2> QED BY <1>4, <2>1, <2>2, <2>3, <2>4, <2>5, <2>6 DEF Caller
<1>5. CASE call' = call
    BY <1>1, <1>5
<1>6. CASE Owner
  <2>1. ASSUME NEW reason \in Reason, Closes(reason) \/ SessionFails(reason)
        PROVE  FALSE
    BY <1>2, <1>5, <2>1 DEF Closes, SessionFails, FailCutShort, Fail, table
  <2> QED
    BY <1>5, <1>6, <2>1 DEF Owner, HelloWritten, InstallHandler, ReplayEarly,
       HandlerInstalled, Close, AcquireFails, table
<1>7. CASE Reader
  <2>1. ASSUME NEW reason \in Reason, ReaderFails(reason) PROVE FALSE
    BY <1>2, <1>5, <2>1 DEF ReaderFails, FailCutShort, Fail, table
  <2>2. ASSUME NEW r \in Requests, NEW size \in Sizes, ReceiveAnswer(r, size)
        PROVE  FALSE
    BY <1>1, <2>2 DEF ReceiveAnswer
  <2> QED
    BY <1>5, <1>7, <2>1, <2>2 DEF Reader, ReceiveWelcome, ReceiveMessage, RouteResumes,
       ReaderStops, ReceiveEarlyOverflow, ReceiveRefused, ReceiveOverflow, ReceiveChunk,
       table
<1> QED BY <1>4, <1>5, <1>6, <1>7 DEF Next, Calls, vars, table

\* No call leaves an open connection while it is unknown how much of its frame the
\* peer has, or what the peer did with it.
THEOREM AmbiguityEndsConnection == Spec => AmbiguityFails
<1>1. ConnectionInv /\ [Next]_vars =>
        [\A c \in Calls :
           (call[c] \in Writing \cup {"awaiting"}
              /\ call'[c] \in End \ {"answered", "sent"}) => failure' # Undefined]_vars
    BY AmbiguityStep DEF ConnectionInv, Ambiguous
<1> QED BY <1>1, ConnectionInvariant, PTL DEF Spec, AmbiguityFails

-----------------------------------------------------------------------------
(* Presentation messages keep their order.                                 *)

\* Messages read, but waiting behind routeLock.
Held == IF reader = "routing" THEN 1 ELSE 0

\* Where messages may wait: kept ones only before and during the replay, one
\* behind routeLock only from the replay on.
PlaceInv ==
    /\ owner = "closed" => ~Open
    /\ owner = "open" /\ Open => early = <<>>
    /\ reader = "routing" => owner \in {"installing", "open", "closed"}

\* HandledInOrder, message by message.
OrderInv ==
    Open =>
        /\ Len(handled) + Len(early) + Held = received
        /\ \A i \in 1 .. Len(handled) : handled[i] = i
        /\ \A i \in 1 .. Len(early) : early[i] = Len(handled) + i

RouteInv == RoutingTypes /\ PlaceInv /\ OrderInv

-----------------------------------------------------------------------------
(* Every step keeps the order.                                              *)

\* A step that leaves the messages alone, in a connection that stays as open.
LEMMA RouteQuiet ==
    ASSUME RouteInv, Open' => Open,
           UNCHANGED <<owner, reader, early, received, handled>>
    PROVE  PlaceInv' /\ OrderInv'
  BY DEF RouteInv, PlaceInv, OrderInv, Held

\* A step that fails the connection.
LEMMA RouteFails ==
    ASSUME RouteInv, ~Open', reader' \in {reader, "stopped"}, owner' \in {owner, "closed"}
    PROVE  PlaceInv' /\ OrderInv'
  BY DEF RouteInv, PlaceInv, OrderInv

LEMMA FailsCloses ==
    /\ \A reason \in Reason : Fails(reason) => ~Open'
    /\ \A reason \in Reason : Fail(reason) => ~Open'
    /\ \A reason \in Reason : FailCutShort(reason) => ~Open'
  BY UndefinedAssumption DEF Fails, Fail, FailCutShort, Open

LEMMA NatSequence ==
    \A seq \in Seq(1 .. MaxMessages) : seq \in Seq(Nat) /\ Len(seq) \in Nat
  <1>1. ASSUME NEW seq \in Seq(1 .. MaxMessages) PROVE seq \in Seq(Nat)
    <2>1. \A i \in 1 .. Len(seq) : seq[i] \in Nat
      BY ElementOfSeq, LimitsAssumption
    <2>2. QED
      BY <2>1, LenProperties, IsASeq
  <1>2. QED
    BY <1>1, LenProperties

\* The handler takes the message that follows those it has had.
LEMMA HandleNext ==
    ASSUME RouteInv, Open, Handle(Len(handled) + 1)
    PROVE  /\ Len(handled') = Len(handled) + 1
           /\ \A i \in 1 .. Len(handled') : handled'[i] = i
  <1>1. handled \in Seq(1 .. MaxMessages) /\ \A i \in 1 .. Len(handled) : handled[i] = i
    BY DEF RouteInv, RoutingTypes, OrderInv
  <1>2. handled \in Seq(Nat) /\ Len(handled) \in Nat
    BY <1>1, NatSequence
  <1>3. handled' = Append(handled, Len(handled) + 1)
    BY DEF Handle
  <1>4. QED
    BY <1>1, <1>2, <1>3

LEMMA OwnerOrder ==
    ASSUME RouteInv, Owner PROVE PlaceInv' /\ OrderInv'
  <1>1. CASE HelloWritten
    BY <1>1 DEF HelloWritten, routing, RouteInv, RoutingTypes, PlaceInv, OrderInv, Held, Open
  <1>2. CASE InstallHandler
    BY <1>2 DEF InstallHandler, routing, RouteInv, PlaceInv, OrderInv, Held, Open
  <1>3. CASE HandlerInstalled
    BY <1>3 DEF HandlerInstalled, routing, RouteInv, PlaceInv, OrderInv, Held, Open
  <1>4. CASE ReplayEarly
    <2>1. PlaceInv'
      BY <1>4 DEF ReplayEarly, RouteInv, PlaceInv, Open
    <2>2. ASSUME Open
          PROVE  /\ Len(handled') + Len(early') + Held' = received'
                 /\ \A i \in 1 .. Len(handled') : handled'[i] = i
                 /\ \A i \in 1 .. Len(early') : early'[i] = Len(handled') + i
      <3>1. /\ early \in Seq(1 .. MaxMessages) /\ early # <<>> /\ early' = Tail(early)
            /\ Held' = Held /\ received' = received
            /\ handled \in Seq(1 .. MaxMessages) /\ received \in Nat
        BY <1>4 DEF ReplayEarly, RouteInv, RoutingTypes, Held
      <3>2. /\ Len(handled) + Len(early) + Held = received
            /\ \A i \in 1 .. Len(early) : early[i] = Len(handled) + i
            /\ Held \in Nat
        BY <2>2 DEF RouteInv, OrderInv, Held
      <3>3. Len(early) >= 1 /\ Len(early) \in Nat /\ Len(handled) \in Nat
        BY <3>1
      <3>4. Head(early) = Len(handled) + 1
        BY <3>1, <3>2, <3>3
      <3>5. /\ Len(handled') = Len(handled) + 1
            /\ \A i \in 1 .. Len(handled') : handled'[i] = i
        BY <1>4, <2>2, <3>4, HandleNext DEF ReplayEarly
      <3>6. /\ Len(early') = Len(early) - 1
            /\ \A i \in 1 .. Len(early') : early'[i] = early[i + 1]
        BY <3>1, <3>3
      <3>7. \A i \in 1 .. Len(early') : early'[i] = Len(handled') + i
        <4>1. ASSUME NEW i \in 1 .. Len(early') PROVE early'[i] = Len(handled') + i
          <5>1. i + 1 \in 1 .. Len(early) /\ early'[i] = early[i + 1]
            BY <3>3, <3>6
          <5>2. early[i + 1] = Len(handled) + (i + 1)
            BY <3>2, <5>1
          <5>3. QED
            BY <3>3, <3>5, <5>1, <5>2
        <4>2. QED
          BY <4>1
      <3>8. Len(handled') + Len(early') + Held' = received'
        <4>1. Len(handled') + Len(early') = Len(handled) + Len(early)
          BY <3>3, <3>5, <3>6
        <4>2. Held' = Held /\ received' = received
          BY <3>1
        <4>3. QED
          BY <3>2, <4>1, <4>2
      <3>9. QED
        BY <3>5, <3>7, <3>8
    <2>3. Open' => Open
      BY <1>4 DEF ReplayEarly, Open
    <2>4. QED
      BY <2>1, <2>2, <2>3 DEF OrderInv
  <1>5. ASSUME NEW reason \in Reason, Closes(reason) PROVE PlaceInv' /\ OrderInv'
    BY <1>5, FailsCloses, RouteFails DEF Closes
  <1>6. ASSUME NEW reason \in Reason, SessionFails(reason) PROVE PlaceInv' /\ OrderInv'
    BY <1>6, FailsCloses, RouteFails DEF SessionFails, FailCutShort
  <1>7. "Closed" \in Reason
    BY DEF Reason
  <1>8. QED
    BY <1>1, <1>2, <1>3, <1>4, <1>5, <1>6, <1>7 DEF Owner, Close, AcquireFails

LEMMA ReaderOrder ==
    ASSUME RouteInv, Reader PROVE PlaceInv' /\ OrderInv'
  <1>1. CASE ReceiveWelcome
    BY <1>1 DEF ReceiveWelcome, routing, RouteInv, RoutingTypes, PlaceInv, OrderInv, Held,
       Open
  <1>2. CASE ReaderStops
    BY <1>2, RouteFails DEF ReaderStops, Open
  <1>3. ASSUME NEW r \in Requests, NEW size \in Sizes,
               ReceiveChunk(r, size) \/ ReceiveAnswer(r, size)
        PROVE  PlaceInv' /\ OrderInv'
    BY <1>3, RouteQuiet DEF ReceiveChunk, ReceiveAnswer, routing, Open
  <1>4. ASSUME NEW reason \in Reason, ReaderFails(reason) PROVE PlaceInv' /\ OrderInv'
    BY <1>4, FailsCloses, RouteFails DEF ReaderFails, FailCutShort
  <1>5. CASE ReceiveMessage \/ RouteResumes
    <2>1. PlaceInv'
      BY <1>5 DEF ReceiveMessage, RouteResumes, HandlerSet, Routes, RouteInv, RoutingTypes,
         PlaceInv, Open
    <2>2. SUFFICES ASSUME Open PROVE OrderInv'
      BY <1>5, <2>1 DEF ReceiveMessage, RouteResumes, OrderInv, Open
    <2>3. /\ early \in Seq(1 .. MaxMessages) /\ handled \in Seq(1 .. MaxMessages)
          /\ Len(early) \in Nat /\ Len(handled) \in Nat /\ received \in Nat
      BY DEF RouteInv, RoutingTypes
    <2>4. /\ Len(handled) + Len(early) + Held = received
          /\ \A i \in 1 .. Len(handled) : handled[i] = i
          /\ \A i \in 1 .. Len(early) : early[i] = Len(handled) + i
      BY <2>2 DEF RouteInv, OrderInv
    <2>5. CASE \/ /\ RouteResumes
                  /\ Handle(received) /\ early' = early
               \/ /\ ReceiveMessage /\ Routes /\ HandlerSet
                  /\ Handle(received') /\ UNCHANGED <<early, reader>>
      <3>1. early = <<>> /\ Len(early) = 0
        BY <2>2, <2>5 DEF RouteResumes, Routes, HandlerSet, RouteInv, RoutingTypes, PlaceInv
      <3>2. received' = Len(handled) + 1 /\ Handle(Len(handled) + 1) /\ Held' = 0
        BY <2>3, <2>4, <2>5, <3>1 DEF RouteResumes, ReceiveMessage, Held
      <3>3. early' = <<>> /\ Len(early') = 0
        BY <2>5, <3>1
      <3>4. /\ Len(handled') = Len(handled) + 1
            /\ \A i \in 1 .. Len(handled') : handled'[i] = i
        BY <2>2, <3>2, HandleNext
      <3>5. QED
        BY <2>3, <3>2, <3>3, <3>4 DEF OrderInv
    <2>6. CASE /\ ReceiveMessage /\ early' = Append(early, received')
               /\ UNCHANGED <<handled, bootId, reader>>
      <3>1. received' = received + 1 /\ Held = 0 /\ Held' = 0
        BY <2>6 DEF ReceiveMessage, Held
      <3>2. received + 1 = Len(handled) + (Len(early) + 1)
        BY <2>3, <2>4, <3>1
      <3>3. early \in Seq(Nat) /\ early' = Append(early, received + 1)
        BY <2>3, <2>6, <3>1, NatSequence
      <3>4. /\ Len(early') = Len(early) + 1
            /\ \A i \in 1 .. Len(early) : early'[i] = early[i]
            /\ early'[Len(early) + 1] = received + 1
        BY <2>3, <3>3
      <3>5. \A i \in 1 .. Len(early') : early'[i] = Len(handled) + i
        BY <2>3, <2>4, <3>2, <3>4
      <3>6. QED
        BY <2>3, <2>4, <2>6, <3>1, <3>4, <3>5 DEF OrderInv
    <2>7. CASE /\ ReceiveMessage /\ reader' = "routing"
               /\ UNCHANGED <<early, handled, bootId>>
      <3>1. received' = received + 1 /\ Held = 0 /\ Held' = 1
        BY <2>7 DEF ReceiveMessage, Held
      <3>2. QED
        BY <2>3, <2>4, <2>7, <3>1 DEF OrderInv
    <2>8. QED
      BY <1>5, <2>5, <2>6, <2>7 DEF ReceiveMessage, RouteResumes
  <1>6. "InvalidMessage" \in Reason
    BY DEF Reason
  <1>7. QED
    BY <1>1, <1>2, <1>3, <1>4, <1>5, <1>6
       DEF Reader, ReceiveRefused, ReceiveEarlyOverflow, ReceiveOverflow

LEMMA CallerOrder ==
    ASSUME RouteInv, NEW c \in Calls, Caller(c) \/ RequestDeadline(c)
    PROVE  PlaceInv' /\ OrderInv'
  <1>1. CASE \/ \E listed \in BOOLEAN : Refuse(c, listed)
             \/ Begin(c) \/ TakeLock(c) \/ WriteCompletes(c) \/ GoesOn(c)
    BY <1>1, RouteQuiet
       DEF Refuse, Begin, TakeLock, WriteCompletes, GoesOn, routing, Open
  <1>2. ASSUME UNCHANGED <<owner, reader, received, handled>>,
               \/ \E end : Leaves(c, end)
               \/ \E end : \E reason \in Reason : Breaks(c, end, reason)
        PROVE  PlaceInv' /\ OrderInv'
    <2>1. CASE \E end : Leaves(c, end)
      BY <1>2, <2>1, RouteQuiet DEF Leaves, Open
    <2>2. CASE \E end : \E reason \in Reason : Breaks(c, end, reason)
      BY <1>2, <2>2, FailsCloses, RouteFails DEF Breaks
    <2>3. QED
      BY <1>2, <2>1, <2>2
  <1>3. {"Closed", "InvalidMessage", "RequestTimeout", "TransportError"} \subseteq Reason
    BY DEF Reason
  <1>4. CASE Unencodable(c)
    BY <1>2, <1>3, <1>4 DEF Unencodable, others
  <1>5. CASE TakeTooLate(c)
    BY <1>2, <1>5 DEF TakeTooLate, others
  <1>6. CASE Interrupt(c)
    <2>0. UNCHANGED <<owner, reader, received, handled>>
      BY <1>6 DEF Interrupt, others
    <2>1. CASE Leaves(c, "interrupted")
      BY <1>2, <2>0, <2>1
    <2>2. CASE Breaks(c, "interrupted", "Closed")
      BY <1>2, <1>3, <2>0, <2>2
    <2>3. QED
      BY <1>6, <2>1, <2>2 DEF Interrupt
  <1>7. CASE WriteFails(c) \/ WriteDeadline(c) \/ RequestDeadline(c)
    BY <1>2, <1>3, <1>7 DEF WriteFails, WriteDeadline, RequestDeadline, others
  <1>8. QED
    BY <1>1, <1>4, <1>5, <1>6, <1>7 DEF Caller

LEMMA RouteStep == RouteInv /\ [Next]_vars => RouteInv'
  <1> SUFFICES ASSUME RouteInv, [Next]_vars PROVE PlaceInv' /\ OrderInv'
    BY RoutingStep DEF RouteInv
  <1>1. CASE UNCHANGED vars
    BY <1>1, RouteQuiet DEF vars, routing, Open
  <1>2. ASSUME NEW c \in Calls, Caller(c) \/ RequestDeadline(c)
        PROVE  PlaceInv' /\ OrderInv'
    BY <1>2, CallerOrder
  <1>3. QED
    BY <1>1, <1>2, OwnerOrder, ReaderOrder DEF Next, Calls

-----------------------------------------------------------------------------

\* The early messages, the replayed ones and the one behind routeLock continue what
\* the handler has had, without a gap or a repetition (receive, installHandler).
THEOREM MessagesInOrder == Spec => []HandledInOrder
  <1>1. Init => PlaceInv /\ OrderInv
    BY DEF Init, PlaceInv, OrderInv, Held
  <1>2. RouteInv => HandledInOrder
    <2> SUFFICES ASSUME RouteInv, Open
                 PROVE  handled \o early
                           \o (IF reader = "routing" THEN <<received>> ELSE <<>>)
                          = [i \in 1 .. received |-> i]
      BY DEF HandledInOrder
    <2> DEFINE held == IF reader = "routing" THEN <<received>> ELSE <<>>
               all == (handled \o early) \o held
    <2>1. /\ early \in Seq(1 .. MaxMessages) /\ handled \in Seq(1 .. MaxMessages)
          /\ Len(early) \in Nat /\ Len(handled) \in Nat /\ received \in Nat
      BY DEF RouteInv, RoutingTypes
    <2>2. /\ Len(handled) + Len(early) + Held = received
          /\ \A i \in 1 .. Len(handled) : handled[i] = i
          /\ \A i \in 1 .. Len(early) : early[i] = Len(handled) + i
      BY DEF RouteInv, OrderInv
    <2>3. held \in Seq(Nat) /\ Len(held) = Held /\ Held \in {0, 1}
          /\ (Held = 1 => held[1] = received)
      BY <2>1 DEF Held
    <2>4. early \in Seq(Nat) /\ handled \in Seq(Nat)
      BY <2>1, NatSequence
    <2>5. all \in Seq(Nat) /\ Len(all) = received
      BY <2>1, <2>2, <2>3, <2>4
    <2> HIDE DEF all
    <2>6. ASSUME NEW i \in 1 .. received PROVE all[i] = i
      <3>1. CASE i \in 1 .. Len(handled)
        BY <2>1, <2>2, <2>3, <2>4, <3>1 DEF all
      <3>2. CASE i > Len(handled) /\ i <= Len(handled) + Len(early)
        <4>1. all[i] = early[i - Len(handled)]
          BY <2>1, <2>2, <2>3, <2>4, <3>2 DEF all
        <4>2. i - Len(handled) \in 1 .. Len(early)
          BY <2>1, <3>2
        <4>3. QED
          BY <2>1, <2>2, <4>1, <4>2
      <3>3. CASE i > Len(handled) + Len(early)
        <4>1. i = Len(handled) + Len(early) + 1 /\ Held = 1 /\ i = received
          BY <2>1, <2>2, <2>3, <3>3
        <4>2. QED
          BY <2>1, <2>3, <2>4, <4>1 DEF all
      <3>4. i \in Nat /\ i >= 1
        BY <2>1
      <3>5. QED
        BY <2>1, <3>1, <3>2, <3>3, <3>4
    <2>7. all = [i \in 1 .. received |-> i]
      <3>1. [i \in 1 .. received |-> i] \in Seq(Nat)
        BY <2>1, IsASeq
      <3>2. Len([i \in 1 .. received |-> i]) = received
        BY <2>1
      <3>3. QED
        BY <2>1, <2>5, <2>6, <3>1, <3>2, SeqEqual
    <2>8. QED
      BY <2>7 DEF all
  <1>3. Spec => []RoutingTypes
    <2>1. ConnectionInv => RoutingTypes
      BY DEF ConnectionInv
    <2>2. QED
      BY <2>1, ConnectionInvariant, PTL
  <1>4. Init /\ RoutingTypes => RouteInv
    BY <1>1 DEF RouteInv
  <1>5. QED
    BY <1>2, <1>3, <1>4, RouteStep, PTL DEF Spec

-----------------------------------------------------------------------------
(* The responses being assembled stay within the message limit.             *)

\* BufferedBounded, with what makes it inductive: the table is finite, and a request
\* that enters it brings no bytes.
AssemblyInv ==
    /\ IsFiniteSet(pending)
    /\ \A r \in Requests : call[r] = "idle" => bytes[r] = 0
    /\ Open => Assembled <= MaxBytes

\* A step in which no call becomes idle again: all but those in which a fiber goes on
\* to its next.
CallsGoOn == \A c \in Calls : call'[c] = "idle" => call[c] = "idle"

LEMMA AssembledIsSum ==
    Assembled = SumOver(bytes, pending) /\ Assembled' = SumOver(bytes', pending')
<1>1. Assembled = SumOver(bytes, pending)
    BY DEF Assembled, SumOver
<1>2. Assembled' = SumOver(bytes', pending')
    BY DEF Assembled, SumOver, MapThenSumSet, MapThenFoldSet
<1> QED BY <1>1, <1>2

LEMMA AssembledType ==
    ASSUME CoreTypes, NEW S \in SUBSET pending, IsFiniteSet(pending)
    PROVE  IsFiniteSet(S) /\ SumOver(bytes, S) \in Nat
<1>1. IsFiniteSet(S)
    BY FS_Subset
<1>2. \A r \in S : bytes[r] \in Nat
    BY DEF CoreTypes
<1> QED BY <1>1, <1>2, SumType

\* A request that leaves the table takes its bytes with it.
LEMMA AssembledShrinks ==
    ASSUME CoreTypes, IsFiniteSet(pending), NEW c
    PROVE  SumOver(bytes, pending \ {c}) <= SumOver(bytes, pending)
<1>1. CASE c \notin pending
  <2>1. pending \ {c} = pending /\ SumOver(bytes, pending) \in Nat
    BY <1>1, AssembledType
  <2> QED BY <2>1
<1>2. CASE c \in pending
  <2>1. \A r \in pending : bytes[r] \in Nat
    BY DEF CoreTypes
  <2>2. SumOver(bytes, pending) = bytes[c] + SumOver(bytes, pending \ {c})
    BY <1>2, <2>1, SumRemove
  <2>3. SumOver(bytes, pending \ {c}) \in Nat
    BY AssembledType
  <2> QED BY <1>2, <2>1, <2>2, <2>3
<1> QED BY <1>1, <1>2

\* A step that brings no bytes and takes at most one request off the table.
LEMMA AssemblyLeaves ==
    ASSUME CoreTypes, AssemblyInv, NEW c, pending' = pending \/ pending' = pending \ {c},
           bytes' = bytes, Open' => Open, CallsGoOn
    PROVE  AssemblyInv'
<1> USE DEF AssemblyInv
<1>1. IsFiniteSet(pending')
    BY FS_Subset, FS_RemoveElement
<1>2. \A r \in Requests : call'[r] = "idle" => bytes'[r] = 0
    BY DEF CallsGoOn, Calls
<1>3. ASSUME Open' PROVE Assembled' <= MaxBytes
  <2>1. SumOver(bytes, pending) <= MaxBytes /\ SumOver(bytes, pending) \in Nat
    BY <1>3, AssembledIsSum, AssembledType
  <2>2. /\ SumOver(bytes, pending \ {c}) <= SumOver(bytes, pending)
        /\ SumOver(bytes, pending \ {c}) \in Nat
    BY AssembledShrinks, AssembledType
  <2>3. SumOver(bytes', pending') <= MaxBytes
    BY <2>1, <2>2, LimitsAssumption
  <2> QED BY <2>3, AssembledIsSum
<1> QED BY <1>1, <1>2, <1>3

\* A step that fails the connection, or comes after that.
LEMMA AssemblyFails ==
    ASSUME AssemblyInv, pending' \subseteq pending, bytes' = bytes, ~Open', CallsGoOn
    PROVE  AssemblyInv'
  BY FS_Subset DEF AssemblyInv, CallsGoOn, Calls

\* A chunk that fits.
LEMMA AssemblyChunk ==
    ASSUME CoreInv, AssemblyInv, NEW r \in Requests, NEW size \in Sizes,
           ReceiveChunk(r, size) \/ ReceiveAnswer(r, size)
    PROVE  AssemblyInv'
<1> USE DEF CoreInv, AssemblyInv
<1>1. /\ r \in pending /\ Assembled + size <= MaxBytes /\ size \in Nat
      /\ bytes' = [bytes EXCEPT ![r] = bytes[r] + size] /\ call[r] # "idle"
      /\ pending \subseteq Requests /\ bytes \in [Requests -> Nat]
      /\ failure' = failure
    BY LimitsAssumption
       DEF ReceiveChunk, ReceiveAnswer, ChunkFits, Answerable, Sizes, Writing, CoreTypes
<1>2. \A q \in Requests : call'[q] = "idle" => bytes'[q] = 0
    BY <1>1 DEF ReceiveChunk, ReceiveAnswer, CoreTypes, Calls
<1>3. SumOver(bytes', pending) = SumOver(bytes, pending) + size
  <2>1. /\ \A q \in pending : bytes[q] \in Nat /\ bytes'[q] \in Nat
        /\ \A q \in pending \ {r} : bytes[q] = bytes'[q]
        /\ bytes'[r] = bytes[r] + size
    BY <1>1
  <2>2. SumOver(bytes', pending) + bytes[r] = SumOver(bytes, pending) + bytes'[r]
    <3>1. IsFiniteSet(pending) /\ r \in pending
      BY <1>1
    <3> QED BY ONLY <2>1, <3>1, SumChange
  <2>3. SumOver(bytes', pending) \in Nat /\ SumOver(bytes, pending) \in Nat
    BY <2>1, SumType
  <2> QED BY <1>1, <2>1, <2>2, <2>3
<1>4. CASE pending' = pending
    BY <1>1, <1>2, <1>3, <1>4, AssembledIsSum DEF Open
<1>5. CASE pending' = pending \ {r}
  <2>1. \A q \in pending : bytes'[q] \in Nat
    BY <1>1
  <2>2. IsFiniteSet(pending') /\ SumOver(bytes', pending') \in Nat
    BY <1>5, <2>1, FS_RemoveElement, SumType
  <2>3. SumOver(bytes', pending) = bytes'[r] + SumOver(bytes', pending')
    BY <1>1, <1>5, <2>1, SumRemove
  <2>4. SumOver(bytes', pending') <= SumOver(bytes, pending) + size
    BY <1>1, <1>3, <2>1, <2>2, <2>3
  <2>5. SumOver(bytes, pending) \in Nat
    BY AssembledType
  <2>6. Assembled' <= MaxBytes
    BY <1>1, <2>2, <2>4, <2>5, AssembledIsSum, LimitsAssumption
  <2> QED BY <1>2, <2>2, <2>6
<1> QED BY <1>4, <1>5 DEF ReceiveChunk, ReceiveAnswer

\* A call begins: what it adds to the table has no bytes yet.
LEMMA AssemblyBegin ==
    ASSUME CoreInv, AssemblyInv, NEW c \in Calls, Begin(c)
    PROVE  AssemblyInv'
<1> USE DEF CoreInv, AssemblyInv
<1>1. /\ pending' = pending \cup ({c} \cap Requests) /\ bytes' = bytes
      /\ call[c] = "idle" /\ failure' = failure /\ CallsGoOn
    BY DEF Begin, CallsGoOn, CoreTypes
<1>2. CASE c \notin Requests
  <2>1. pending' = pending
    BY <1>1, <1>2
  <2> QED BY <1>1, <2>1, AssemblyLeaves DEF Open
<1>3. CASE c \in Requests
  <2>1. pending' = pending \cup {c}
    BY <1>1, <1>3
  <2>2. c \notin pending
    BY <1>1, <1>3 DEF TableExact, InFlight
  <2>3. IsFiniteSet(pending')
    BY <2>1, FS_AddElement
  <2>4. \A q \in pending' : bytes[q] \in Nat
    BY <1>3, <2>1 DEF CoreTypes
  <2>5. SumOver(bytes, pending') = bytes[c] + SumOver(bytes, pending' \ {c})
    BY <2>1, <2>3, <2>4, SumRemove
  <2>6. pending' \ {c} = pending /\ bytes[c] = 0
    BY <1>1, <1>3, <2>1, <2>2
  <2>7. SumOver(bytes, pending) \in Nat
    BY AssembledType
  <2>8. SumOver(bytes', pending') = SumOver(bytes, pending)
    BY <1>1, <2>5, <2>6, <2>7
  <2>9. \A q \in Requests : call'[q] = "idle" => bytes'[q] = 0
    BY <1>1 DEF CallsGoOn, Calls
  <2> QED BY <1>1, <2>3, <2>8, <2>9, AssembledIsSum DEF Open
<1> QED BY <1>2, <1>3

\* fail, as anyone calls it.
LEMMA AssemblyFail ==
    ASSUME AssemblyInv, CoreInv, NEW reason \in Reason,
           Fail(reason) \/ FailCutShort(reason)
    PROVE  AssemblyInv'
<1>1. ~Open'
    BY FailsCloses
<1>2. pending' \subseteq pending /\ bytes' = bytes
    BY DEF Fail, PendingAfterFail, FailCutShort, table
<1>3. CallsGoOn
    BY DEF Fail, Woken, FailCutShort, table, CallsGoOn, Reason, CoreInv, CoreTypes
<1> QED BY <1>1, <1>2, <1>3, AssemblyFails

\* The fiber of an answered request goes on: its request was in no table any more.
LEMMA AssemblyGoesOn ==
    ASSUME CoreInv, AssemblyInv, NEW c \in Calls, GoesOn(c)
    PROVE  AssemblyInv'
<1>1. /\ pending' = pending /\ failure' = failure /\ call[c] \in {"answered", "sent"}
      /\ bytes' = [r \in Requests |-> IF r = c THEN 0 ELSE bytes[r]]
      /\ call' = [call EXCEPT ![c] = "idle"]
    BY DEF GoesOn
<1>2. c \notin pending /\ pending \subseteq Requests
    BY <1>1 DEF CoreInv, CoreTypes, TableExact, InFlight, Step, Writing
<1>3. SumOver(bytes', pending) = SumOver(bytes, pending)
  <2>1. \A r \in pending : bytes[r] \in Nat /\ bytes'[r] = bytes[r]
    BY <1>1, <1>2 DEF CoreInv, CoreTypes
  <2>2. IsFiniteSet(pending)
    BY DEF AssemblyInv
  <2> QED BY <2>1, <2>2, SumSame
<1>4. \A r \in Requests : call'[r] = "idle" => bytes'[r] = 0
    BY <1>1 DEF AssemblyInv, CoreInv, CoreTypes, Calls
<1> QED BY <1>1, <1>3, <1>4, AssembledIsSum DEF AssemblyInv, Open

LEMMA AssemblyQuiet ==
    ASSUME CoreInv, AssemblyInv, UNCHANGED table, Open' => Open, CallsGoOn
    PROVE  AssemblyInv'
  BY AssemblyLeaves DEF CoreInv, table

LEMMA AssemblyOwner ==
    ASSUME CoreInv, AssemblyInv, Owner PROVE AssemblyInv'
<1>1. CASE UNCHANGED <<failure, table, call>>
    BY <1>1, AssemblyQuiet DEF CallsGoOn, Open
<1>2. ASSUME NEW reason \in Reason, Closes(reason) \/ SessionFails(reason)
      PROVE  AssemblyInv'
    BY <1>2, AssemblyFail DEF Closes, SessionFails
<1>3. Closes("Closed") => AssemblyInv'
    BY <1>2 DEF Reason
<1> QED
    BY <1>1, <1>2, <1>3 DEF Owner, HelloWritten, InstallHandler, ReplayEarly,
       HandlerInstalled, Close, AcquireFails

LEMMA AssemblyReader ==
    ASSUME CoreInv, AssemblyInv, Reader PROVE AssemblyInv'
<1>1. CASE UNCHANGED <<failure, table, call>>
    BY <1>1, AssemblyQuiet DEF CallsGoOn, Open
<1>2. ASSUME NEW reason \in Reason, ReaderFails(reason) PROVE AssemblyInv'
    BY <1>2, AssemblyFail DEF ReaderFails
<1>3. ReaderFails("InvalidMessage") => AssemblyInv'
    BY <1>2 DEF Reason
<1>4. ASSUME NEW r \in Requests, NEW size \in Sizes,
             ReceiveChunk(r, size) \/ ReceiveAnswer(r, size)
      PROVE  AssemblyInv'
    BY <1>4, AssemblyChunk
<1> QED
    BY <1>1, <1>2, <1>3, <1>4 DEF Reader, ReceiveWelcome, ReceiveMessage, RouteResumes,
       ReaderStops, ReceiveEarlyOverflow, ReceiveRefused, ReceiveOverflow

\* A call that ends, with the connection or alone.
LEMMA AssemblyEnds ==
    ASSUME CoreInv, AssemblyInv, NEW c \in Calls, NEW end \in End,
           \/ \E reason \in Reason : Breaks(c, end, reason)
           \/ Leaves(c, end),
           bytes' = bytes
    PROVE  AssemblyInv'
<1>1. CASE Leaves(c, end)
  <2>1. /\ pending' = pending \ {c} /\ (Open' => Open) /\ CallsGoOn
    BY <1>1 DEF Leaves, CallsGoOn, Open, End, Reason, CoreInv, CoreTypes
  <2> QED BY <2>1, AssemblyLeaves DEF CoreInv
<1>2. ASSUME NEW reason \in Reason, Breaks(c, end, reason) PROVE AssemblyInv'
  <2>1. ~Open'
    BY <1>2, FailsCloses DEF Breaks
  <2>2. pending' \subseteq pending
    BY <1>2 DEF Breaks, PendingAfterFail
  <2>3. CallsGoOn
    BY <1>2 DEF Breaks, Woken, CallsGoOn, End, Reason, CoreInv, CoreTypes
  <2> QED BY <2>1, <2>2, <2>3, AssemblyFails
<1> QED BY <1>1, <1>2

LEMMA AssemblyCaller ==
    ASSUME CoreInv, AssemblyInv, NEW c \in Calls,
           Caller(c) \/ (c \in Requests /\ RequestDeadline(c))
    PROVE  AssemblyInv'
<1> USE DEF others, End, Reason
<1>1. CASE \/ \E listed \in BOOLEAN : Refuse(c, listed)
           \/ TakeLock(c) \/ WriteCompletes(c)
  <2>1. UNCHANGED table /\ (Open' => Open)
    BY <1>1 DEF Refuse, TakeLock, WriteCompletes, Open
  <2>2. CallsGoOn
    BY <1>1 DEF Refuse, TakeLock, WriteCompletes, CallsGoOn, CoreInv, CoreTypes
  <2> QED BY <2>1, <2>2, AssemblyQuiet
<1>2. CASE Begin(c)
    BY <1>2, AssemblyBegin
<1>3. CASE Unencodable(c) \/ TakeTooLate(c)
    BY <1>3, AssemblyEnds DEF Unencodable, TakeTooLate
<1>4. CASE WriteFails(c) \/ WriteDeadline(c) \/ RequestDeadline(c)
    BY <1>4, AssemblyEnds DEF WriteFails, WriteDeadline, RequestDeadline
<1>5. CASE Interrupt(c)
    BY <1>5, AssemblyEnds DEF Interrupt
<1>6. CASE GoesOn(c)
    BY <1>6, AssemblyGoesOn
<1> QED BY <1>1, <1>2, <1>3, <1>4, <1>5, <1>6 DEF Caller

\* However the chunks of the responses interleave and whoever leaves the table, what
\* is being assembled stays within the message limit, and no response is made of more
\* chunks than are counted (receive).
THEOREM AssemblyBounded == Spec => []BufferedBounded
<1>1. Init => AssemblyInv
  <2> SUFFICES ASSUME Init PROVE AssemblyInv
    OBVIOUS
  <2>1. IsFiniteSet(pending) /\ \A r \in Requests : bytes[r] = 0
    BY FS_EmptySet DEF Init
  <2>2. Assembled = 0
    BY SumEmpty, AssembledIsSum DEF Init
  <2> QED BY <2>1, <2>2, LimitsAssumption DEF AssemblyInv
<1>2. CoreInv /\ AssemblyInv /\ [Next]_vars => AssemblyInv'
  <2> SUFFICES ASSUME CoreInv, AssemblyInv, [Next]_vars PROVE AssemblyInv'
    OBVIOUS
  <2>1. CASE UNCHANGED vars
    BY <2>1, AssemblyQuiet DEF vars, CallsGoOn, Open
  <2>2. CASE Next
    BY <2>2, AssemblyOwner, AssemblyReader, AssemblyCaller DEF Next, Calls
  <2> QED BY <2>1, <2>2
<1>3. CoreInv /\ AssemblyInv => BufferedBounded
    BY LimitsAssumption DEF CoreInv, CoreTypes, AssemblyInv, BufferedBounded
<1>4. ConnectionInv => CoreInv
    BY DEF ConnectionInv
<1> QED BY <1>1, <1>2, <1>3, <1>4, ConnectionInvariant, PTL DEF Spec

-----------------------------------------------------------------------------
(* The connection implements EndpointContract.                              *)

Asked == [r \in Requests |-> Asking(r)]
Keeps == [Contract!Next]_(Contract!vars)

\* A reader that goes on in a failed connection finds nobody to answer: only a
\* failure that is cut short leaves requests in the table, and it stops the reader.
NoneLate == ~Open /\ reader # "stopped" => pending = {}

-----------------------------------------------------------------------------
(* No answer comes late.                                                    *)

LEMMA NoneLateStep == NoneLate /\ [Next]_vars => NoneLate'
  <1> SUFFICES ASSUME NoneLate, [Next]_vars PROVE NoneLate'
    OBVIOUS
  <1>1. ASSUME Open' => Open, pending' \subseteq pending,
               reader' # "stopped" => reader # "stopped", UNCHANGED failure
        PROVE  NoneLate'
    BY <1>1 DEF NoneLate, Open
  <1>2. ASSUME NEW reason, Fails(reason), pending' \subseteq PendingAfterFail,
               reader' # "stopped" => reader # "stopped"
        PROVE  NoneLate'
    BY <1>2 DEF NoneLate, Open, Fails, PendingAfterFail
  <1>3. ASSUME NEW reason, FailCutShort(reason) PROVE NoneLate'
    BY <1>3 DEF NoneLate, FailCutShort
  <1>4. ASSUME NEW reason, Closes(reason) \/ ReaderFails(reason) \/ SessionFails(reason)
        PROVE  NoneLate'
    BY <1>2, <1>3, <1>4 DEF Closes, ReaderFails, SessionFails, Fail
  <1>5. CASE Owner
    <2>1. CASE HelloWritten \/ InstallHandler \/ ReplayEarly \/ HandlerInstalled
      BY <1>1, <2>1
         DEF HelloWritten, InstallHandler, ReplayEarly, HandlerInstalled, table, Open
    <2>2. QED
      BY <1>4, <1>5, <2>1 DEF Owner, Close, AcquireFails
  <1>6. CASE Reader
    <2>1. CASE ReceiveWelcome \/ ReceiveMessage \/ RouteResumes \/ ReaderStops
      BY <1>1, <2>1
         DEF ReceiveWelcome, ReceiveMessage, RouteResumes, ReaderStops, table, Open
    <2>2. ASSUME NEW r \in Requests, NEW size \in Sizes,
                 ReceiveChunk(r, size) \/ ReceiveAnswer(r, size)
          PROVE  NoneLate'
      BY <1>1, <2>2 DEF ReceiveChunk, ReceiveAnswer, Open
    <2>3. QED
      BY <1>4, <1>6, <2>1, <2>2
         DEF Reader, ReceiveRefused, ReceiveEarlyOverflow, ReceiveOverflow
  <1>7. ASSUME NEW c \in Calls, Caller(c) \/ RequestDeadline(c) PROVE NoneLate'
    <2>1. CASE \/ \E listed \in BOOLEAN : Refuse(c, listed)
               \/ TakeLock(c) \/ WriteCompletes(c) \/ GoesOn(c)
      BY <1>1, <2>1 DEF Refuse, TakeLock, WriteCompletes, GoesOn, table, Open
    <2>2. CASE Begin(c)
      BY <2>2 DEF Begin, NoneLate, Open
    <2>3. ASSUME UNCHANGED reader,
                 \/ \E end : Leaves(c, end)
                 \/ \E end : \E reason : Breaks(c, end, reason)
          PROVE  NoneLate'
      BY <1>1, <1>2, <2>3 DEF Leaves, Breaks, Open
    <2>4. CASE Unencodable(c)
      BY <2>3, <2>4 DEF Unencodable, others
    <2>5. CASE TakeTooLate(c)
      BY <2>3, <2>5 DEF TakeTooLate, others
    <2>6. CASE Interrupt(c)
      BY <2>3, <2>6 DEF Interrupt, others
    <2>7. CASE WriteFails(c) \/ WriteDeadline(c) \/ RequestDeadline(c)
      BY <2>3, <2>7 DEF WriteFails, WriteDeadline, RequestDeadline, others
    <2>8. QED
      BY <1>7, <2>1, <2>2, <2>4, <2>5, <2>6, <2>7 DEF Caller
  <1>8. CASE UNCHANGED vars
    BY <1>1, <1>8 DEF vars, table, Open
  <1>9. QED
    BY <1>5, <1>6, <1>7, <1>8 DEF Next, Calls

-----------------------------------------------------------------------------
(* One lemma per step of the contract.                                      *)

LEMMA StutterKeeps ==
    ASSUME UNCHANGED <<failure, bootId>>, reader' = "stopped" <=> reader = "stopped",
           \A r \in Requests : Asking(r)' = Asking(r)
    PROVE  Keeps
  BY DEF Keeps, Contract!vars

\* The connection fails, and some requests end with it.
LEMMA EndKeeps ==
    ASSUME Open, failure' \in Reason, reader' = "stopped" \/ reader' = reader,
           UNCHANGED bootId,
           \A r \in Requests : Asking(r)' \in {Asking(r), "none"}
    PROVE  Keeps
  <1>1. \E ended \in SUBSET Requests :
           Asked' = [r \in Requests |-> IF r \in ended THEN "none" ELSE Asked[r]]
    <2> DEFINE ended == {r \in Requests : Asking(r)' = "none"}
    <2>1. Asked' = [r \in Requests |-> IF r \in ended THEN "none" ELSE Asked[r]]
      BY DEF Asked
    <2>2. ended \in SUBSET Requests
      OBVIOUS
    <2> HIDE DEF ended
    <2>3. QED
      BY <2>1, <2>2
  <1>2. (reader' # "stopped") \in {reader # "stopped", FALSE}
    OBVIOUS
  <1>3. Contract!Fails(failure')
    BY <1>1, <1>2 DEF Contract!Fails, Contract!Open, Open, Asked
  <1>4. QED
    BY <1>3 DEF Keeps, Contract!Next

\* The reader of a failed connection stops.
LEMMA StopKeeps ==
    ASSUME ~Open, reader' = "stopped", UNCHANGED <<failure, bootId>>,
           \A r \in Requests : Asking(r)' = Asking(r)
    PROVE  Keeps
  <1>1. Contract!StopsReading
    BY DEF Contract!StopsReading, Contract!Open, Open
  <1>2. QED
    BY <1>1 DEF Keeps, Contract!Next

\* One request begins, is answered, or ends in a failed connection.
LEMMA RequestKeeps ==
    ASSUME NEW r \in Requests,
           UNCHANGED <<failure, bootId, reader>>,
           \A q \in Requests \ {r} : Asking(q)' = Asking(q),
           \/ Open /\ bootId # Undefined /\ Asking(r) = "none" /\ Asking(r)' = "waiting"
           \/ /\ Open /\ reader # "stopped"
              /\ Asking(r) = "waiting" /\ Asking(r)' = "answered"
           \/ Asking(r) = "answered" /\ Asking(r)' = "none"
           \/ ~Open /\ Asking(r)' = "none"
    PROVE  Keeps
  <1>1. Asked[r] = Asking(r) /\ Asked' = [Asked EXCEPT ![r] = Asking(r)']
    BY DEF Asked
  <1>2. CASE Open /\ bootId # Undefined /\ Asking(r) = "none" /\ Asking(r)' = "waiting"
    <2>1. Contract!Asks(r)
      BY <1>1, <1>2 DEF Contract!Asks, Contract!Open, Open, Asked
    <2>2. QED
      BY <2>1 DEF Keeps, Contract!Next
  <1>3. CASE /\ Open /\ reader # "stopped"
             /\ Asking(r) = "waiting" /\ Asking(r)' = "answered"
    <2>1. Contract!Answers(r)
      BY <1>1, <1>3 DEF Contract!Answers, Contract!Open, Open, Asked
    <2>2. QED
      BY <2>1 DEF Keeps, Contract!Next
  <1>4. CASE ~Open /\ Asking(r)' = "none"
    <2>1. Contract!Ends(r)
      BY <1>1, <1>4 DEF Contract!Ends, Contract!Open, Open, Asked
    <2>2. QED
      BY <2>1 DEF Keeps, Contract!Next
  <1>5. CASE Asking(r) = "answered" /\ Asking(r)' = "none"
    <2>1. CASE Open
      <3>1. Contract!Returns(r)
        BY <1>1, <1>5, <2>1 DEF Contract!Returns, Contract!Open, Open, Asked
      <3>2. QED
        BY <3>1 DEF Keeps, Contract!Next
    <2>2. QED
      BY <1>4, <1>5, <2>1
  <1>6. QED
    BY <1>2, <1>3, <1>4, <1>5

\* The handler binds the boot, or the message is not a snapshot.
LEMMA HandleKeeps ==
    ASSUME NEW message, Handle(message), UNCHANGED <<failure, table, call>>,
           reader' = "stopped" <=> reader = "stopped"
    PROVE  Keeps
  <1>1. \A r \in Requests : Asking(r)' = Asking(r)
    BY DEF table, Asking, InFlight
  <1>2. CASE UNCHANGED bootId
    BY <1>1, <1>2, StutterKeeps
  <1>3. CASE Open /\ bootId = Undefined /\ bootId' \in Boots
    <2>1. Contract!BindsBoot
      BY <1>1, <1>3 DEF Contract!BindsBoot, Contract!Open, Open
    <2>2. QED
      BY <2>1 DEF Keeps, Contract!Next
  <1>4. QED
    BY <1>2, <1>3 DEF Handle

-----------------------------------------------------------------------------
(* What fail does to the requests.                                          *)

\* A request that fail finds in the table loses its wait, or keeps waiting until its
\* own fiber goes on; one that was answered stays so.
LEMMA FailAsks ==
    ASSUME CoreInv, NEW reason \in Reason, Fails(reason),
           NEW r \in Requests, call'[r] = Woken(reason)[r]
    PROVE  Asking(r)' \in {Asking(r), "none"} /\ (~Open => Asking(r)' = Asking(r))
  <1> USE DEF Fails, Asking, Open, InFlight
  <1>0. call'[r] = IF Open /\ r \in pending /\ call[r] = "awaiting" THEN reason ELSE call[r]
    BY DEF Woken, Calls
  <1>1. CASE ~Open
    BY <1>0, <1>1
  <1>2. CASE Open /\ r \notin pending
    <2>1. settled'[r] = settled[r] /\ call'[r] = call[r]
      BY <1>0, <1>2
    <2>2. QED
      BY <1>2, <2>1
  <1>3. CASE Open /\ r \in pending
    <2>1. settled[r] = Undefined /\ settled'[r] = reason /\ InFlight(r)
      BY <1>3 DEF CoreInv, TableExact
    <2>2. Undefined # "answered" /\ reason # "answered" /\ call[r] # "answered"
      BY <2>1, UndefinedAssumption DEF End, Reason, Step, Writing
    <2>3. Asking(r) = "waiting"
      BY <2>1, <2>2
    <2>4. Asking(r)' \in {"waiting", "none"}
      BY <1>0, <2>1, <2>2
    <2>5. QED
      BY <1>3, <2>3, <2>4
  <1>4. QED
    BY <1>1, <1>2, <1>3

LEMMA FailKeeps ==
    ASSUME CoreInv, NEW reason \in Reason, Fail(reason),
           reader' = "stopped" \/ reader' = reader, UNCHANGED bootId
    PROVE  Keeps
  <1>1. \A r \in Requests :
           Asking(r)' \in {Asking(r), "none"} /\ (~Open => Asking(r)' = Asking(r))
    BY FailAsks DEF Fail
  <1>2. CASE Open
    BY <1>1, <1>2, EndKeeps DEF Fail, Fails
  <1>3. CASE ~Open
    BY <1>1, <1>3, StopKeeps, StutterKeeps DEF Fail, Fails
  <1>4. QED
    BY <1>2, <1>3

LEMMA CutShortKeeps ==
    ASSUME NEW reason \in Reason, FailCutShort(reason), UNCHANGED bootId
    PROVE  Keeps
  <1>1. \A r \in Requests : Asking(r)' = Asking(r)
    BY DEF FailCutShort, table, Asking, InFlight
  <1>2. QED
    BY <1>1, EndKeeps DEF FailCutShort

\* A call that ends with a failure of the connection.
LEMMA BreaksKeeps ==
    ASSUME CoreInv, NEW c \in Calls, NEW end \in End \ {"answered"}, NEW reason \in Reason,
           Breaks(c, end, reason), UNCHANGED <<reader, bootId>>
    PROVE  Keeps
  <1>1. \A r \in Requests \ {c} :
           Asking(r)' \in {Asking(r), "none"} /\ (~Open => Asking(r)' = Asking(r))
    <2>1. \A r \in Requests \ {c} : call'[r] = Woken(reason)[r]
      BY DEF Breaks, Woken, Calls
    <2>2. QED
      BY <2>1, FailAsks DEF Breaks
  <1>2. c \in Requests => Asking(c)' = "none"
    <2>1. call'[c] = end
      BY DEF Breaks, Woken
    <2>2. QED
      BY <2>1 DEF Asking, InFlight, Step, Writing, End, Reason
  <1>3. CASE Open
    BY <1>1, <1>2, <1>3, EndKeeps DEF Breaks, Fails
  <1>4. CASE ~Open
    <2>1. CASE c \in Requests
      BY <1>1, <1>2, <1>4, <2>1, RequestKeeps DEF Breaks, Fails
    <2>2. CASE c \notin Requests
      BY <1>1, <1>4, <2>2, StutterKeeps DEF Breaks, Fails
    <2>3. QED
      BY <2>1, <2>2
  <1>5. QED
    BY <1>3, <1>4

\* A call that ends alone: a write, or in a failed connection.
LEMMA LeavesKeeps ==
    ASSUME CoreInv, NEW c \in Calls, NEW end \in End \ {"answered"}, Leaves(c, end),
           c \in Writes \/ ~Open, UNCHANGED <<reader, bootId>>
    PROVE  Keeps
  <1>1. \A r \in Requests \ {c} : Asking(r)' = Asking(r)
    BY DEF Leaves, Asking, InFlight, CoreInv, CoreTypes, Calls
  <1>2. CASE c \in Requests
    <2>1. call'[c] = end
      BY DEF Leaves, CoreInv, CoreTypes
    <2>2. Asking(c)' = "none"
      BY <2>1 DEF Asking, InFlight, Step, Writing, End, Reason
    <2>3. ~Open
      BY <1>2, CallsAssumption
    <2>4. QED
      BY <1>1, <1>2, <2>2, <2>3, RequestKeeps DEF Leaves
  <1>3. CASE c \notin Requests
    BY <1>1, <1>3, StutterKeeps DEF Leaves
  <1>4. QED
    BY <1>2, <1>3

-----------------------------------------------------------------------------
(* The steps of the connection.                                             *)

LEMMA OwnerKeeps == ASSUME CoreInv, Owner PROVE Keeps
  <1>1. ASSUME UNCHANGED <<failure, bootId, reader, table, call>> PROVE Keeps
    BY <1>1, StutterKeeps DEF table, Asking, InFlight
  <1>2. CASE HelloWritten \/ InstallHandler \/ HandlerInstalled
    BY <1>1, <1>2 DEF HelloWritten, InstallHandler, HandlerInstalled
  <1>3. CASE ReplayEarly
    BY <1>3, HandleKeeps DEF ReplayEarly
  <1>4. ASSUME NEW reason \in Reason, Closes(reason) PROVE Keeps
    BY <1>4, FailKeeps DEF Closes
  <1>5. ASSUME NEW reason \in Reason, SessionFails(reason) PROVE Keeps
    BY <1>5, FailKeeps, CutShortKeeps DEF SessionFails
  <1>6. "Closed" \in Reason
    BY DEF Reason
  <1>7. QED
    BY <1>2, <1>3, <1>4, <1>5, <1>6 DEF Owner, Close, AcquireFails

LEMMA ReaderKeeps == ASSUME CoreInv, NoneLate, Reader PROVE Keeps
  <1>1. ASSUME UNCHANGED <<failure, bootId, table, call>>,
               reader' = "stopped" <=> reader = "stopped"
        PROVE  Keeps
    BY <1>1, StutterKeeps DEF table, Asking, InFlight
  <1>2. CASE ReceiveWelcome
    BY <1>1, <1>2 DEF ReceiveWelcome
  <1>3. CASE ReceiveMessage
    <2>1. CASE Handle(received') /\ UNCHANGED reader
      BY <1>3, <2>1, HandleKeeps DEF ReceiveMessage
    <2>2. CASE UNCHANGED bootId /\ reader' # "stopped"
      BY <1>1, <1>3, <2>2 DEF ReceiveMessage
    <2>3. QED
      BY <1>3, <2>1, <2>2 DEF ReceiveMessage
  <1>4. CASE RouteResumes
    BY <1>4, HandleKeeps DEF RouteResumes
  <1>5. CASE ReaderStops
    BY <1>5, StopKeeps DEF ReaderStops, table, Asking, InFlight
  <1>6. ASSUME NEW reason \in Reason, ReaderFails(reason) PROVE Keeps
    BY <1>6, FailKeeps, CutShortKeeps DEF ReaderFails
  <1>7. ASSUME NEW r \in Requests, NEW size \in Sizes, ReceiveChunk(r, size) PROVE Keeps
    BY <1>7, StutterKeeps DEF ReceiveChunk, Asking, InFlight
  <1>8. ASSUME NEW r \in Requests, NEW size \in Sizes, ReceiveAnswer(r, size) PROVE Keeps
    <2>1. /\ r \in pending /\ reader = "reading"
          /\ call[r] \in Writing \cup {"awaiting"}
          /\ UNCHANGED <<failure, bootId, reader>>
          /\ settled' = [settled EXCEPT ![r] = "answered"]
          /\ call' = [call EXCEPT ![r] = IF @ = "awaiting" THEN "answered" ELSE @]
      BY <1>8 DEF ReceiveAnswer, Answerable
    <2>2. Open
      BY <2>1 DEF NoneLate
    <2>3. settled[r] = Undefined
      BY <2>1, <2>2 DEF CoreInv, TableExact
    <2>4. Asking(r) = "waiting" /\ Asking(r)' = "answered"
      BY <2>1, <2>3, UndefinedAssumption
         DEF CoreInv, CoreTypes, Asking, InFlight, Step, Writing, End, Calls
    <2>5. \A q \in Requests \ {r} : Asking(q)' = Asking(q)
      BY <2>1 DEF CoreInv, CoreTypes, Asking, InFlight, Calls
    <2>6. QED
      BY <2>1, <2>2, <2>4, <2>5, RequestKeeps
  <1>9. "InvalidMessage" \in Reason
    BY DEF Reason
  <1>10. QED
    BY <1>2, <1>3, <1>4, <1>5, <1>6, <1>7, <1>8, <1>9
       DEF Reader, ReceiveRefused, ReceiveEarlyOverflow, ReceiveOverflow

LEMMA CallerKeeps ==
    ASSUME CoreInv, NEW c \in Calls, Caller(c) \/ RequestDeadline(c)
    PROVE  Keeps
  <1> USE CallsAssumption DEF others
  <1>1. {"Closed", "InvalidMessage", "RequestTimeout", "TransportError"} \subseteq Reason
    BY DEF Reason
  <1>2. Reason \cup {"interrupted"} \subseteq End \ {"answered"}
    BY DEF End, Reason
  <1>3. CASE \E listed \in BOOLEAN : Refuse(c, listed)
    <2>1. \A r \in Requests : Asking(r)' = Asking(r)
      BY <1>3 DEF Refuse, CoreInv, CoreTypes, SettledInv, table, Asking, InFlight, Step,
         Writing, Calls
    <2>2. QED
      BY <1>3, <2>1, StutterKeeps DEF Refuse
  <1>4. CASE Begin(c)
    <2>1. /\ Open /\ UNCHANGED <<failure, bootId, reader, settled>> /\ call[c] = "idle"
          /\ \/ call' = [call EXCEPT ![c] = "writing"]
             \/ call' = [call EXCEPT ![c] = "queued"]
      BY <1>4 DEF Begin
    <2>2. \A r \in Requests \ {c} : Asking(r)' = Asking(r)
      BY <2>1 DEF CoreInv, CoreTypes, Asking, InFlight, Calls
    <2>3. CASE c \in Requests
      <3>1. bootId # Undefined
        BY <1>4, <2>3 DEF Begin, MayRequest
      <3>2. settled[c] = Undefined
        BY <2>1, <2>3 DEF CoreInv, SettledInv
      <3>3. Asking(c) = "none" /\ Asking(c)' = "waiting"
        BY <2>1, <3>2, UndefinedAssumption
           DEF CoreInv, CoreTypes, Asking, InFlight, Step, Writing, End
      <3>4. QED
        BY <2>1, <2>2, <2>3, <3>1, <3>3, RequestKeeps
    <2>4. CASE c \notin Requests
      BY <2>1, <2>2, <2>4, StutterKeeps
    <2>5. QED
      BY <2>3, <2>4
  <1>5. CASE TakeLock(c)
    <2>1. \A r \in Requests : Asking(r)' = Asking(r)
      BY <1>5 DEF TakeLock, CoreInv, CoreTypes, table, Asking, InFlight, Step, Writing, Calls
    <2>2. QED
      BY <1>5, <2>1, StutterKeeps DEF TakeLock
  <1>6. CASE WriteCompletes(c)
    <2>1. \A r \in Requests : Asking(r)' = Asking(r)
      BY <1>6 DEF WriteCompletes, CoreInv, CoreTypes, table, Asking, InFlight, Step,
         Writing, Calls
    <2>2. QED
      BY <1>6, <2>1, StutterKeeps DEF WriteCompletes
  <1>7. CASE Unencodable(c)
    <2>1. CASE c \in Requests
      BY <1>1, <1>2, <1>7, <2>1, BreaksKeeps DEF Unencodable
    <2>2. CASE c \notin Requests
      BY <1>1, <1>2, <1>7, <2>2, LeavesKeeps DEF Unencodable, Calls
    <2>3. QED
      BY <2>1, <2>2
  <1>8. CASE TakeTooLate(c)
    BY <1>1, <1>2, <1>8, LeavesKeeps DEF TakeTooLate
  <1>9. CASE Interrupt(c)
    <2>1. CASE call[c] = "queued" /\ c \in Writes
      BY <1>2, <1>9, <2>1, LeavesKeeps DEF Interrupt
    <2>2. CASE ~(call[c] = "queued" /\ c \in Writes)
      BY <1>1, <1>2, <1>9, <2>2, BreaksKeeps DEF Interrupt
    <2>3. QED
      BY <2>1, <2>2
  <1>10. CASE WriteFails(c)
    BY <1>1, <1>2, <1>10, BreaksKeeps DEF WriteFails
  <1>11. CASE WriteDeadline(c)
    BY <1>1, <1>2, <1>11, BreaksKeeps DEF WriteDeadline
  <1>12. CASE RequestDeadline(c)
    BY <1>1, <1>2, <1>12, BreaksKeeps DEF RequestDeadline
  <1>13. CASE GoesOn(c)
    <2>1. /\ UNCHANGED <<failure, bootId, reader>> /\ call[c] \in {"answered", "sent"}
          /\ call' = [call EXCEPT ![c] = "idle"]
          /\ \A r \in Requests : settled'[r] = IF r = c THEN Undefined ELSE settled[r]
      BY <1>13 DEF GoesOn
    <2>2. \A r \in Requests \ {c} : Asking(r)' = Asking(r)
      BY <2>1 DEF CoreInv, CoreTypes, Asking, InFlight, Calls
    <2>3. Asking(c)' = "none" /\ Asking(c) = IF call[c] = "answered" THEN "answered" ELSE "none"
      BY <2>1 DEF CoreInv, CoreTypes, Asking, InFlight, Step, Writing
    <2>4. CASE c \in Requests /\ call[c] = "answered"
      BY <2>1, <2>2, <2>3, <2>4, RequestKeeps
    <2>5. CASE ~(c \in Requests /\ call[c] = "answered")
      BY <2>1, <2>2, <2>3, <2>5, StutterKeeps
    <2>6. QED
      BY <2>4, <2>5
  <1>14. QED
    BY <1>3, <1>4, <1>5, <1>6, <1>7, <1>8, <1>9, <1>10, <1>11, <1>12, <1>13 DEF Caller

-----------------------------------------------------------------------------

\* What the session relies on holds of the connection, whatever the peer, the socket
\* and the callers do (fail, bindBoot, request, receive).
THEOREM ConnectionImplementsContract == Spec => ImplementsEndpoint
  <1>1. Init => Contract!Init /\ NoneLate
    BY DEF Init, Contract!Init, NoneLate, Open, Asking, InFlight, Step, Writing, Calls
  <1>2. CoreInv /\ NoneLate /\ [Next]_vars => [Contract!Next]_(Contract!vars)
    <2> SUFFICES ASSUME CoreInv, NoneLate, [Next]_vars PROVE Keeps
      BY DEF Keeps
    <2>1. CASE UNCHANGED vars
      BY <2>1, StutterKeeps DEF vars, table, Asking, InFlight
    <2>2. QED
      BY <2>1, OwnerKeeps, ReaderKeeps, CallerKeeps DEF Next, Calls
  <1>3. ConnectionInv => CoreInv
    BY DEF ConnectionInv
  <1>4. QED
    BY <1>1, <1>2, <1>3, NoneLateStep, ConnectionInvariant, PTL
       DEF Spec, ImplementsEndpoint, Contract!Spec
=============================================================================
