------------------------- MODULE ApiTransportProofs -------------------------
(***************************************************************************)
(* Theorems about ApiTransport, for every set of pings, requests and       *)
(* streams.  The properties support each other: that a call on a socket    *)
(* was checked rests on a pending entry having waiters, and that on where  *)
(* every call is; so they are proved inductive together.                   *)
(***************************************************************************)
EXTENDS ApiTransportProps, TLAPS

-----------------------------------------------------------------------------
(* The check ends or is given up.                                           *)

\* However the check ends, those who awaited it go on with its outcome.
LEMMA CheckEndsKeeps ==
    ASSUME TransportInv, NEW end \in Failure \cup {"succeeded"},
           step[Check] \in Exchanging, CheckEnds(end)
    PROVE  TransportInv'
<1> USE ActorsAssumption DEF CheckEnds, ClosedBy, AfterCheck, Exchanging, Failure, Ended,
        Actors, Calls, TransportInv, TypeOK
<1>1. TypeOK'
    OBVIOUS
<1>2. CheckHasWaiter'
    BY DEF CheckHasWaiter
<1>3. CheckedBeforeSent'
    BY DEF CheckedBeforeSent, CheckHasWaiter, Checked
<1>4. SocketsOwned'
    BY DEF SocketsOwned, CheckHasWaiter
<1> QED BY <1>1, <1>2, <1>3, <1>4

\* A call that ends from outside takes the check with it only as its last waiter.
LEMMA CutOffKeeps ==
    ASSUME TransportInv, NEW c \in Calls, NEW end \in {"timedOut", "interrupted"},
           CutOff(c, end)
    PROVE  TransportInv'
<1> USE ActorsAssumption DEF CutOff, LeavesCheck, Abandons, CallEnds, ClosedBy,
        Exchanging, Failure, Ended, Actors, Calls, TransportInv, TypeOK
<1>1. TypeOK'
    OBVIOUS
<1>2. CheckHasWaiter'
    BY DEF CheckHasWaiter
<1>3. CheckedBeforeSent'
    BY DEF CheckedBeforeSent, CheckHasWaiter, Checked
<1>4. SocketsOwned'
    BY DEF SocketsOwned, CheckHasWaiter
<1> QED BY <1>1, <1>2, <1>3, <1>4

-----------------------------------------------------------------------------
(* The other steps.                                                         *)

\* A call's own exchange ends, or its stream is released.
LEMMA CallEndsKeeps ==
    ASSUME TransportInv, NEW c \in Calls, NEW end \in Ended,
           step[c] \in Exchanging \cup {"held"}, CallEnds(c, end)
    PROVE  TransportInv'
<1> USE ActorsAssumption DEF CallEnds, ClosedBy, Exchanging, Failure, Ended, Actors,
        Calls, TransportInv, TypeOK
<1>1. TypeOK'
    OBVIOUS
<1>2. CheckHasWaiter'
    BY DEF CheckHasWaiter
<1>3. CheckedBeforeSent'
    BY DEF CheckedBeforeSent, Checked
<1>4. SocketsOwned'
    BY DEF SocketsOwned
<1> QED BY <1>1, <1>2, <1>3, <1>4

LEMMA BeginKeeps ==
    ASSUME TransportInv, NEW c \in Calls,
           Reject(c) \/ BeginPing(c) \/ JoinCheck(c) \/ StartCheck(c)
    PROVE  TransportInv'
<1> USE ActorsAssumption DEF Reject, BeginPing, JoinCheck, StartCheck, Usable, UsesCheck,
        Exchanging, Failure, Ended, Actors, Calls, TransportInv, TypeOK
<1>1. TypeOK'
    OBVIOUS
<1>2. CheckHasWaiter'
    BY DEF CheckHasWaiter
<1>3. CheckedBeforeSent'
    BY DEF CheckedBeforeSent, Checked
<1>4. SocketsOwned'
    BY DEF SocketsOwned
<1> QED BY <1>1, <1>2, <1>3, <1>4

\* The exchange goes on, or the stream opens, or its socket dies.
LEMMA ProgressKeeps ==
    ASSUME TransportInv, NEW a \in Actors,
           \/ Connected(a) \/ Written(a) \/ StreamDies(a)
           \/ Answered(a) /\ a \in Streams
    PROVE  TransportInv'
<1> USE ActorsAssumption DEF Connected, Written, StreamDies, Answered, Exchanging,
        Failure, Ended, Actors, Calls, TransportInv, TypeOK
<1>1. TypeOK'
    OBVIOUS
<1>2. CheckHasWaiter'
    BY DEF CheckHasWaiter
<1>3. CheckedBeforeSent'
    BY DEF CheckedBeforeSent, Checked
<1>4. SocketsOwned'
    BY DEF SocketsOwned
<1> QED BY <1>1, <1>2, <1>3, <1>4

LEMMA TransportStep == TransportInv /\ [Next]_vars => TransportInv'
<1> SUFFICES ASSUME TransportInv, [Next]_vars PROVE TransportInv'
    OBVIOUS
<1>1. CASE UNCHANGED vars
    BY <1>1 DEF vars, TransportInv, TypeOK, CheckHasWaiter, CheckedBeforeSent,
       SocketsOwned
<1>2. ASSUME NEW c \in Calls, Call(c) PROVE TransportInv'
  <2>1. CASE Reject(c) \/ BeginPing(c) \/ JoinCheck(c) \/ StartCheck(c)
    BY <2>1, BeginKeeps
  <2>2. CASE Deadline(c) \/ Interrupt(c)
    BY <2>2, CutOffKeeps DEF Deadline, Interrupt
  <2>3. CASE StreamDies(c)
    BY <2>3, ProgressKeeps DEF Actors
  <2>4. CASE ReleaseStream(c)
    BY <2>4, CallEndsKeeps DEF ReleaseStream, Ended
  <2> QED BY <1>2, <2>1, <2>2, <2>3, <2>4 DEF Call
<1>3. ASSUME NEW a \in Actors, Exchange(a) PROVE TransportInv'
  <2>1. CASE Connected(a) \/ Written(a) \/ (Answered(a) /\ a \in Streams)
    BY <2>1, ProgressKeeps
  <2>2. CASE Fails(a) \/ (Answered(a) /\ a \notin Streams)
    <3>1. PICK end \in {"failed", "succeeded"} : step[a] \in Exchanging /\ Ends(a, end)
      BY <2>2 DEF Fails, Answered, Exchanging
    <3>2. CASE a = Check
      BY <3>1, <3>2, CheckEndsKeeps DEF Ends, Failure
    <3>3. CASE a # Check
      BY <3>1, <3>3, CallEndsKeeps DEF Ends, Ended, Failure, Actors
    <3> QED BY <3>2, <3>3
  <2> QED BY <1>3, <2>1, <2>2 DEF Exchange
<1>4. CASE CheckDeadline
    BY <1>4, CheckEndsKeeps DEF CheckDeadline, Failure
<1> QED BY <1>1, <1>2, <1>3, <1>4 DEF Next

-----------------------------------------------------------------------------
(* The theorems.                                                            *)

\* The transport invariant: types, the check and its waiters, and the sockets.
THEOREM TransportInvariant == Spec => []TransportInv
<1>1. Init => TransportInv
    BY ActorsAssumption DEF Init, TransportInv, TypeOK, CheckHasWaiter,
       CheckedBeforeSent, SocketsOwned, Exchanging, Checked, Actors, Calls
<1> QED BY <1>1, TransportStep, PTL DEF Spec

\* Every reachable state of the transport is well typed (all of its calls).
THEOREM TransportTypeCorrect == Spec => []TypeOK
  <1>1. TransportInv => TypeOK
    BY DEF TransportInv
  <1>2. QED
    BY <1>1, TransportInvariant, PTL

\* Only pings are sent to a server whose compatibility is not confirmed.
THEOREM SentAfterCheck == Spec => []CheckedBeforeSent
<1>1. TransportInv => CheckedBeforeSent
    BY DEF TransportInv
<1> QED BY <1>1, TransportInvariant, PTL

\* The check runs exactly as long as somebody awaits it.
THEOREM CheckIsShared == Spec => []CheckHasWaiter
<1>1. TransportInv => CheckHasWaiter
    BY DEF TransportInv
<1> QED BY <1>1, TransportInvariant, PTL

\* No socket outlives its call.
THEOREM SocketsClose == Spec => []SocketsOwned
<1>1. TransportInv => SocketsOwned
    BY DEF TransportInv
<1> QED BY <1>1, TransportInvariant, PTL

\* What a step does to the failure and the success of the check.
LEMMA FailureStep ==
    ASSUME TransportInv, [Next]_vars
    PROVE  /\ \A c \in Calls : (step[c] # "checkFailed" /\ step'[c] = "checkFailed")
                                => c \in waiting /\ step[Check] \in Exchanging
           /\ entry = "success" => entry' = "success"
<1> USE ActorsAssumption DEF TransportInv, TypeOK, Exchanging, Actors, Calls
<1>1. CASE UNCHANGED vars
    BY <1>1 DEF vars
<1>2. ASSUME NEW end \in Failure \cup {"succeeded"}, step[Check] \in Exchanging,
             CheckEnds(end)
      PROVE  /\ \A c \in Calls : (step[c] # "checkFailed" /\ step'[c] = "checkFailed")
                                  => c \in waiting /\ step[Check] \in Exchanging
             /\ entry # "success"
    BY <1>2 DEF CheckEnds, CheckHasWaiter
<1>3. ASSUME NEW c \in Calls, NEW end \in Ended \ {"checkFailed"}, CallEnds(c, end)
      PROVE  /\ \A d \in Calls : step'[d] = "checkFailed" => step[d] = "checkFailed"
             /\ entry' = entry
    BY <1>3 DEF CallEnds
<1>4. ASSUME NEW c \in Calls, Call(c)
      PROVE  /\ \A d \in Calls : step'[d] = "checkFailed" => step[d] = "checkFailed"
             /\ entry = "success" => entry' = "success"
  <2>1. CASE Reject(c) \/ BeginPing(c)
    BY <2>1 DEF Reject, BeginPing
  <2>2. CASE JoinCheck(c)
    BY <2>2 DEF JoinCheck, Usable
  <2>3. CASE StartCheck(c)
    BY <2>3 DEF StartCheck, Usable
  <2>4. ASSUME NEW end \in {"timedOut", "interrupted"}, step[c] = "checking",
               LeavesCheck(c, end)
        PROVE  /\ \A d \in Calls : step'[d] = "checkFailed" => step[d] = "checkFailed"
               /\ entry = "success" => entry' = "success"
    BY <2>4 DEF LeavesCheck, Abandons, CheckHasWaiter
  <2>5. CASE Deadline(c) \/ Interrupt(c)
    BY <1>3, <2>4, <2>5 DEF Deadline, Interrupt, CutOff, Ended, Failure
  <2>6. CASE StreamDies(c)
    BY <2>6 DEF StreamDies
  <2>7. CASE ReleaseStream(c)
    BY <1>3, <2>7 DEF ReleaseStream, Ended
  <2> QED BY <1>4, <2>1, <2>2, <2>3, <2>5, <2>6, <2>7 DEF Call
<1>5. ASSUME NEW a \in Actors, Exchange(a)
      PROVE  /\ \A c \in Calls : (step[c] # "checkFailed" /\ step'[c] = "checkFailed")
                                  => c \in waiting /\ step[Check] \in Exchanging
             /\ entry = "success" => entry' = "success"
  <2>1. CASE Connected(a) \/ Written(a) \/ (Answered(a) /\ a \in Streams)
    BY <2>1 DEF Connected, Written, Answered
  <2>2. CASE Fails(a) \/ (Answered(a) /\ a \notin Streams)
    <3>1. PICK end \in {"failed", "succeeded"} : step[a] \in Exchanging /\ Ends(a, end)
      BY <2>2 DEF Fails, Answered
    <3>2. CASE a = Check
      BY <1>2, <3>1, <3>2 DEF Ends, Failure
    <3>3. CASE a # Check
      BY <1>3, <3>1, <3>3 DEF Ends, Ended, Failure
    <3> QED BY <3>2, <3>3
  <2> QED BY <1>5, <2>1, <2>2 DEF Exchange
<1>6. CASE CheckDeadline
    BY <1>2, <1>6 DEF CheckDeadline, Failure
<1> QED BY <1>1, <1>4, <1>5, <1>6 DEF Next

\* A failed check concerns those who awaited it and nobody later; a success stays.
THEOREM FailureIsNotKept == Spec => FailureNotKept
<1>1. TransportInv /\ [Next]_vars =>
        [ /\ \A c \in Calls : (step[c] # "checkFailed" /\ step'[c] = "checkFailed")
                                 => c \in waiting /\ step[Check] \in Exchanging
          /\ entry = "success" => entry' = "success" ]_vars
    BY FailureStep
<1> QED BY <1>1, TransportInvariant, PTL DEF Spec, FailureNotKept
=============================================================================
