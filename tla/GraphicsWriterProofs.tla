------------------------ MODULE GraphicsWriterProofs ------------------------
(***************************************************************************)
(* Theorems about GraphicsWriter, for all callers and sequence numbers and *)
(* any number of made-up acknowledgements.  That an acknowledgement is the *)
(* caller's own is not inductive: it rests on what can be in the queue     *)
(* while somebody may still take from it (AckInv), and that on every frame *)
(* in doubt closing the writer (ScopeInv).                                 *)
(***************************************************************************)
EXTENDS GraphicsWriterProps, TLAPS

\* The types, with what they are made of.
LEMMA MessageTypes ==
    /\ \A m \in Message : m.tag \in {"Acknowledgement", "failed", "closed"}
    /\ \A reason \in Reason : FailureMessage(reason) \in Message
                                 /\ FailureMessage(reason).tag = reason
BY DEF Message, Acknowledgement, FailureMessage, Reason

-----------------------------------------------------------------------------
(* The queue grows.                                                         *)

\* Something is put at the end of the queue, nothing else about the calls changes.
LEMMA AcknowledgesKeeps ==
    ASSUME WriterInv, NEW c \in Files, Acknowledges(c)
    PROVE  WriterInv'
<1> DEFINE m == [tag |-> "Acknowledgement", of |-> c, sequence |-> sequence[c]]
<1> USE FramesAssumption DEF Acknowledges, WriterInv, calls
<1>1. m \in Message /\ c \in Frames
    BY DEF Message, Acknowledgement, TypeOK, Frames
<1>2. responses' \in Seq(Message) /\ responses' = Append(responses, m)
    BY <1>1 DEF TypeOK
<1>3. TypeOK'
    BY <1>2 DEF TypeOK
<1>4. ScopeInv' /\ CallInv' /\ PermitExact' /\ AcknowledgementIsOwn'
    BY DEF ScopeInv, CallInv, PermitExact, AcknowledgementIsOwn, InDoubt
<1>5. EndInv'
    BY <1>2 DEF EndInv, ScopeInv, TypeOK, Submitted
<1>6. AckInv'
  <2> SUFFICES ASSUME strays = 0, terminal = Nothing \/ Submitted # {}
               PROVE  AckInv'
      BY DEF AckInv, Submitted
  <2>1. /\ c \in Submitted
        /\ \A i \in DOMAIN responses : IsAck(i) => responses[i].of \in Submitted \cap acked
        /\ \A i, j \in DOMAIN responses :
              IsAck(i) /\ IsAck(j) /\ responses[i].of = responses[j].of => i = j
      BY DEF AckInv
  <2>2. DOMAIN responses' = 1 .. Len(responses) + 1 /\ DOMAIN responses = 1 .. Len(responses)
        /\ Len(responses) \in Nat
      BY <1>2 DEF TypeOK
  <2>3. \A i \in DOMAIN responses : responses'[i] = responses[i]
      BY <1>2, <2>2 DEF TypeOK
  <2>4. responses'[Len(responses) + 1] = m
      BY <1>2 DEF TypeOK
  <2>5. \A i \in DOMAIN responses : IsAck(i) => responses[i].of # c
      BY <2>1
  <2>6. \A i \in DOMAIN responses' : IsAck(i)' => responses'[i].of \in Submitted' \cap acked'
      BY <2>1, <2>2, <2>3, <2>4 DEF IsAck, Submitted
  <2>7. \A i, j \in DOMAIN responses' :
           IsAck(i)' /\ IsAck(j)' /\ responses'[i].of = responses'[j].of => i = j
      BY <2>1, <2>2, <2>3, <2>4, <2>5 DEF IsAck
  <2>8. \A d \in Files \ Submitted' : sequence'[d] # Nothing => d \in acked'
      BY DEF AckInv, Submitted
  <2> QED BY <2>6, <2>7, <2>8 DEF AckInv
<1> QED BY <1>3, <1>4, <1>5, <1>6

LEMMA MakesUpKeeps ==
    ASSUME WriterInv, NEW s \in SequenceNumbers, MakesUp(s)
    PROVE  WriterInv'
<1> DEFINE m == [tag |-> "Acknowledgement", of |-> Nothing, sequence |-> s]
<1> USE FramesAssumption DEF MakesUp, WriterInv, calls
<1>1. responses' \in Seq(Message) /\ responses' = Append(responses, m)
    BY DEF Message, Acknowledgement, TypeOK
<1>2. TypeOK' /\ strays' # 0
    BY <1>1 DEF TypeOK
<1>3. ScopeInv' /\ CallInv' /\ PermitExact' /\ AcknowledgementIsOwn'
    BY <1>2 DEF ScopeInv, CallInv, PermitExact, AcknowledgementIsOwn, InDoubt
<1>4. EndInv'
    BY DEF EndInv, ScopeInv, TypeOK, Submitted
<1>5. AckInv'
    BY <1>2 DEF AckInv
<1> QED BY <1>2, <1>3, <1>4, <1>5

\* The queue hears of an end: whoever holds the stream finds it there.
LEMMA HeardKeeps ==
    ASSUME TypeOK, AckInv, NEW reason \in Reason,
           responses' = Heard(responses, reason), terminal' = reason,
           UNCHANGED <<step, sequence, acked, strays>>
    PROVE  responses' \in Seq(Message) /\ EndInv' /\ AckInv'
<1> DEFINE m == FailureMessage(reason)
<1> USE FramesAssumption DEF TypeOK
<1>1. responses' = Append(responses, m) /\ m \in Message /\ m.tag = reason
    BY MessageTypes DEF Heard
<1>2. /\ responses' \in Seq(Message)
      /\ DOMAIN responses' = 1 .. Len(responses) + 1
      /\ DOMAIN responses = 1 .. Len(responses)
      /\ Len(responses) \in Nat
      /\ \A i \in DOMAIN responses : responses'[i] = responses[i]
      /\ responses'[Len(responses) + 1] = m
    BY <1>1
<1>3. EndInv'
    BY <1>1, <1>2 DEF EndInv
<1>4. AckInv'
  <2>1. m.tag # "Acknowledgement"
      BY <1>1 DEF Reason
  <2> SUFFICES ASSUME strays = 0, Submitted # {}
               PROVE  AckInv'
      BY DEF AckInv, Submitted, Reason, Result
  <2>2. \A i \in DOMAIN responses' : IsAck(i)' => i \in DOMAIN responses /\ IsAck(i)
      BY <1>2, <2>1 DEF IsAck
  <2> QED BY <1>2, <2>2 DEF AckInv, Submitted
<1> QED BY <1>2, <1>3, <1>4

LEMMA ReaderFinishesKeeps ==
    ASSUME WriterInv, NEW reason \in Reason, ReaderFinishes(reason)
    PROVE  WriterInv'
<1> USE FramesAssumption DEF ReaderFinishes, WriterInv, calls, peer
<1>1. responses' \in Seq(Message) /\ EndInv' /\ AckInv'
    BY HeardKeeps
<1>2. TypeOK'
    BY <1>1 DEF TypeOK
<1>3. ScopeInv'
    BY DEF ScopeInv, InDoubt, Reason, Result
<1>4. CallInv' /\ PermitExact' /\ AcknowledgementIsOwn'
    BY DEF CallInv, PermitExact, AcknowledgementIsOwn
<1> QED BY <1>1, <1>2, <1>3, <1>4

LEMMA OwnerClosesKeeps ==
    ASSUME WriterInv, OwnerCloses
    PROVE  WriterInv'
<1> USE FramesAssumption DEF OwnerCloses, WriterInv, calls, peer
<1>1. CASE scope = "open"
  <2> USE <1>1 DEF CloseScope
  <2>1. responses' \in Seq(Message) /\ EndInv' /\ AckInv'
      BY HeardKeeps DEF Reason
  <2>2. TypeOK'
      BY <2>1 DEF TypeOK, Reason
  <2>3. ScopeInv'
      BY DEF ScopeInv, InDoubt, Reason, Result, TypeOK
  <2>4. CallInv' /\ PermitExact' /\ AcknowledgementIsOwn'
      BY DEF CallInv, PermitExact, AcknowledgementIsOwn
  <2> QED BY <2>1, <2>2, <2>3, <2>4
<1>2. CASE scope # "open"
    BY <1>2 DEF TypeOK, ScopeInv, CallInv, PermitExact, EndInv, AckInv, IsAck, Submitted,
                AcknowledgementIsOwn, InDoubt
<1> QED BY <1>1, <1>2

LEMMA ScopeClosedKeeps ==
    ASSUME WriterInv, ScopeClosed
    PROVE  WriterInv'
<1> USE FramesAssumption DEF ScopeClosed, WriterInv, peer
<1>1. TypeOK' /\ Submitted' = Submitted
    BY DEF TypeOK, Submitted
<1>0. \A c \in Frames : step'[c] = IF step[c] = "closing" THEN "done" ELSE step[c]
    OBVIOUS
<1>2. ScopeInv'
    BY <1>0 DEF ScopeInv, InDoubt
<1>5. CallInv'
    BY <1>0 DEF CallInv, Frames
<1>3. PermitExact'
    BY DEF PermitExact, ScopeInv, TypeOK
<1>4. EndInv' /\ AckInv' /\ AcknowledgementIsOwn'
    BY <1>1 DEF EndInv, AckInv, IsAck, AcknowledgementIsOwn
<1> QED BY <1>1, <1>2, <1>3, <1>4, <1>5

-----------------------------------------------------------------------------
(* Calls.                                                                   *)

\* A call comes, or ends before it has a frame on the stream.
LEMMA OutsideKeeps ==
    ASSUME WriterInv, NEW c \in Frames,
           \/ Begin(c) \/ FindsClosed(c) \/ Rejects(c)
           \/ step[c] = "waiting" /\ Interrupt(c)
    PROVE  WriterInv'
<1> USE FramesAssumption DEF WriterInv
<1>1. /\ UNCHANGED <<owner, scope, reader, terminal, responses, free, sequence, got, acked, strays>>
      /\ \/ step[c] = "idle" /\ step' = [step EXCEPT ![c] = "waiting"] /\ UNCHANGED result
         \/ /\ step[c] = "waiting" /\ step' = [step EXCEPT ![c] = "done"]
            /\ \E end \in {"invalid", "interrupted"} \cup Reason :
                  result' = [result EXCEPT ![c] = end]
    BY DEF Begin, FindsClosed, Rejects, Interrupt, Deadline, Submitted, Permitted, Ends, TypeOK, peer
<1>2. PICK end \in Result \cup {Nothing}, to \in {"waiting", "done"} :
          /\ step[c] \in {"idle", "waiting"}
          /\ \A d \in Frames : step'[d] = IF d = c THEN to ELSE step[d]
          /\ \A d \in Frames : result'[d] = IF d = c THEN end ELSE result[d]
          /\ end # Nothing <=> to = "done"
          /\ end \notin {"doubtful", "acknowledged"}
    <2>1. CASE step[c] = "idle"
        BY <1>1, <2>1 DEF TypeOK, CallInv, Result
    <2>2. CASE step[c] = "waiting"
        BY <1>1, <2>2 DEF TypeOK, Result, Reason
    <2> QED BY <1>1, <2>1, <2>2
<1>3. TypeOK'
    BY <1>1 DEF TypeOK, Result, Reason
<1>4. Submitted' = Submitted
    BY <1>2 DEF Submitted
<1>5. ScopeInv'
    BY <1>1, <1>2 DEF ScopeInv, InDoubt
<1>6. CallInv'
    BY <1>1, <1>2 DEF CallInv, Frames
<1>7. PermitExact'
    BY <1>1, <1>2 DEF PermitExact
<1>8. EndInv' /\ AckInv'
    BY <1>1, <1>4 DEF EndInv, AckInv, IsAck
<1>9. AcknowledgementIsOwn'
    BY <1>1, <1>2 DEF AcknowledgementIsOwn, Frames
<1> QED BY <1>3, <1>5, <1>6, <1>7, <1>8, <1>9

\* A fiber goes on to its next call: it held nothing, and its frame awaits nothing.
LEMMA GoesOnKeeps ==
    ASSUME WriterInv, NEW c \in Frames, GoesOn(c)
    PROVE  WriterInv'
<1> USE FramesAssumption DEF WriterInv
<1>1. /\ c \in Plain /\ step[c] = "done"
      /\ \A d \in Frames : step'[d] = IF d = c THEN "idle" ELSE step[d]
      /\ \A d \in Frames : result'[d] = IF d = c THEN Nothing ELSE result[d]
      /\ UNCHANGED <<owner, scope, reader, terminal, responses, free, sequence, got, peer>>
    BY DEF GoesOn, TypeOK
<1>2. TypeOK'
    BY DEF GoesOn, TypeOK, peer
<1>3. Submitted' = Submitted
    BY <1>1 DEF Submitted
<1>4. ScopeInv' /\ PermitExact'
    BY <1>1 DEF ScopeInv, InDoubt, PermitExact, Result
<1>5. CallInv'
    BY <1>1 DEF CallInv, Frames
<1>6. EndInv' /\ AckInv'
    BY <1>1, <1>3 DEF EndInv, AckInv, IsAck, peer
<1>7. AcknowledgementIsOwn'
    BY <1>1 DEF AcknowledgementIsOwn, Frames, peer
<1> QED BY <1>2, <1>4, <1>5, <1>6, <1>7

\* A frame goes to a writer that is open, whose queue holds nothing that is left over.
LEMMA SubmitKeeps ==
    ASSUME WriterInv, NEW c \in Frames, Submit(c)
    PROVE  WriterInv'
<1> USE FramesAssumption DEF Submit, MaySubmit, Permitted, WriterInv, peer
<1>1. TypeOK'
    BY DEF TypeOK
<1>2. Submitted = {} /\ Submitted' = {c}
    BY DEF PermitExact, Submitted, TypeOK
<1>3. ScopeInv'
    BY DEF ScopeInv, TypeOK, InDoubt
<1>4. CallInv'
    BY DEF CallInv, TypeOK
<1>5. PermitExact'
    BY DEF PermitExact, TypeOK
<1>6. EndInv'
    BY DEF EndInv
<1>7. AckInv'
    BY <1>2 DEF AckInv, IsAck, TypeOK
<1>8. AcknowledgementIsOwn'
    BY DEF AcknowledgementIsOwn
<1> QED BY <1>1, <1>3, <1>4, <1>5, <1>6, <1>7, <1>8

\* A plain frame that ends with its write was never acknowledged.
LEMMA WrittenKeeps ==
    ASSUME WriterInv, NEW c \in Frames, Written(c)
    PROVE  WriterInv'
<1> USE FramesAssumption DEF Written, Ends, WriterInv, peer
<1>1. TypeOK'
    BY DEF TypeOK, Result, Reason
<1>2. Submitted = {c} /\ Submitted' = IF c \in Files THEN {c} ELSE {}
    BY DEF PermitExact, Submitted, TypeOK
<1>3. ScopeInv'
    BY DEF ScopeInv, TypeOK, InDoubt
<1>4. CallInv'
  <2>1. \A d \in Frames \ {c} : step'[d] = step[d] /\ result'[d] = result[d]
      BY DEF TypeOK
  <2>2. IF c \in Files THEN step'[c] = "awaiting" /\ result'[c] = result[c]
                       ELSE step'[c] = "done" /\ result'[c] = "written"
      BY DEF TypeOK
  <2> QED BY <2>1, <2>2 DEF CallInv, Result, Frames
<1>5. PermitExact'
    BY DEF PermitExact, TypeOK
<1>6. EndInv'
    BY <1>2 DEF EndInv
<1>7. AckInv'
    BY <1>2 DEF AckInv, IsAck, TypeOK
<1>8. AcknowledgementIsOwn'
    BY DEF AcknowledgementIsOwn, TypeOK, Frames
<1> QED BY <1>1, <1>3, <1>4, <1>5, <1>6, <1>7, <1>8

\* A frame ends without success: the writer is closed, so whatever is still in the queue
\* is nobody's.
LEMMA InvalidatesKeeps ==
    ASSUME WriterInv, NEW c \in Submitted, NEW end \in Reason \cup {"doubtful"},
           NEW queue \in Seq(Message), Invalidates(c, end, queue),
           UNCHANGED <<owner, sequence, got, peer>>
    PROVE  WriterInv'
<1> USE FramesAssumption DEF Invalidates, Closes, CloseScope, Ends, WriterInv, peer
<1>1. responses' \in Seq(Message)
    BY MessageTypes DEF Heard, Reason
<1>2. TypeOK'
    BY <1>1 DEF TypeOK, Result, Reason, Submitted
<1>3. Submitted' = {} /\ terminal' = "closed"
    BY DEF PermitExact, Submitted, TypeOK
<1>4. ScopeInv'
    BY DEF ScopeInv, TypeOK, InDoubt, Submitted, Reason, Result, PermitExact
<1>9. /\ \A d \in Frames \ {c} : step'[d] = step[d] /\ result'[d] = result[d]
      /\ step'[c] \in {"closing", "done"} /\ result'[c] = end
    BY DEF TypeOK, Submitted
<1>5. CallInv'
    BY <1>9 DEF CallInv, Result, Reason, Submitted, Frames
<1>6. PermitExact'
    BY DEF PermitExact, TypeOK, Submitted
<1>7. EndInv' /\ AckInv'
    BY <1>3 DEF EndInv, AckInv, Result, Reason
<1>8. AcknowledgementIsOwn'
    BY <1>9 DEF AcknowledgementIsOwn, Reason, Frames
<1> QED BY <1>2, <1>4, <1>5, <1>6, <1>7, <1>8

\* A call returns the head of the queue: the only acknowledgement there is, and its own.
LEMMA TakesKeeps ==
    ASSUME WriterInv, NEW c \in Frames, Takes(c)
    PROVE  WriterInv'
<1> DEFINE m == Head(responses)
<1> USE FramesAssumption DEF Takes, WriterInv, peer
<1>1. /\ c \in Submitted /\ c \in Files
      /\ m \in Message /\ m = responses[1] /\ 1 \in DOMAIN responses
      /\ Tail(responses) \in Seq(Message)
    BY DEF Submitted, CallInv, TypeOK
<1>2. CASE m.tag \in Reason \/ (m.tag = "Acknowledgement" /\ m.sequence # sequence[c])
    BY <1>1, <1>2, InvalidatesKeeps DEF Reason
<1>3. CASE m.tag = "Acknowledgement" /\ m.sequence = sequence[c]
  <2>1. /\ Ends(c, "acknowledged")
        /\ got' = [got EXCEPT ![c] = m.of]
        /\ responses' = Tail(responses)
        /\ UNCHANGED <<owner, scope, terminal, reader, sequence, acked, strays>>
      BY <1>1, <1>3 DEF Reason
  <2>2. m.of \in Frames \cup {Nothing}
      BY <1>1, <1>3 DEF Message, Acknowledgement, FailureMessage, Reason
  <2>3. TypeOK'
      BY <1>1, <2>1, <2>2 DEF TypeOK, Ends, Result
  <2>4. Submitted = {c} /\ Submitted' = {}
      BY <1>1, <2>1 DEF PermitExact, Submitted, TypeOK, Ends
  <2>5. strays = 0 => m.of = c
      BY <1>1, <1>3, <2>4 DEF AckInv, IsAck
  <2>6. ScopeInv' /\ CallInv' /\ PermitExact'
      BY <1>1, <2>1 DEF ScopeInv, CallInv, PermitExact, InDoubt, Ends, TypeOK, Result, Submitted
  <2>7. EndInv'
      BY <2>4 DEF EndInv
  <2>8. AcknowledgementIsOwn'
      BY <1>1, <2>1, <2>5 DEF AcknowledgementIsOwn, Ends, TypeOK
  <2>9. AckInv'
    <3> SUFFICES ASSUME strays = 0, terminal = Nothing
                 PROVE  AckInv'
        BY <2>1, <2>4 DEF AckInv
    <3>1. c \in acked
        BY <1>1, <1>3, <2>5 DEF AckInv, IsAck
    <3>2. \A i \in DOMAIN responses : IsAck(i) => i = 1
        BY <1>1, <1>3, <2>4, <2>5 DEF AckInv, IsAck
    <3>3. \A i \in DOMAIN responses' : i + 1 \in DOMAIN responses /\ i + 1 # 1
                                          /\ responses'[i] = responses[i + 1]
        BY <1>1, <2>1 DEF TypeOK
    <3>4. \A i \in DOMAIN responses' : ~IsAck(i)'
        BY <3>2, <3>3 DEF IsAck
    <3>5. \A d \in Files \ Submitted' : sequence'[d] # Nothing => d \in acked'
        BY <2>1, <2>4, <3>1 DEF AckInv
    <3> QED BY <3>4, <3>5 DEF AckInv
  <2> QED BY <2>3, <2>6, <2>7, <2>8, <2>9
<1> QED
  <2>1. m.tag \in Reason \cup {"Acknowledgement"}
      BY <1>1, MessageTypes DEF Reason
  <2> QED BY <1>2, <1>3, <2>1

-----------------------------------------------------------------------------
(* Theorems.                                                                *)

LEMMA WriterInit == Init => WriterInv
<1> SUFFICES ASSUME Init PROVE WriterInv
    OBVIOUS
<1> USE FramesAssumption DEF Init
<1>1. TypeOK
    BY DEF TypeOK
<1>2. DOMAIN responses = {} /\ Submitted = {} /\ ~InDoubt
    BY DEF Submitted, InDoubt, Result
<1>3. ScopeInv /\ CallInv /\ PermitExact
    BY <1>2 DEF ScopeInv, CallInv, PermitExact, Frames
<1>4. EndInv /\ AckInv /\ AcknowledgementIsOwn
    BY <1>2 DEF EndInv, AckInv, AcknowledgementIsOwn, Result, Frames
<1> QED BY <1>1, <1>3, <1>4 DEF WriterInv

LEMMA WriterStep == WriterInv /\ [Next]_vars => WriterInv'
<1> SUFFICES ASSUME WriterInv, [Next]_vars PROVE WriterInv'
    OBVIOUS
<1>1. ASSUME NEW c \in Frames, Call(c) PROVE WriterInv'
  <2>1. CASE Begin(c) \/ FindsClosed(c) \/ Rejects(c) \/ (step[c] = "waiting" /\ Interrupt(c))
      BY <2>1, OutsideKeeps
  <2>2. CASE Submit(c)
      BY <2>2, SubmitKeeps
  <2>3. CASE Written(c)
      BY <2>3, WrittenKeeps
  <2>4. CASE Takes(c)
      BY <2>4, TakesKeeps
  <2>5. CASE WriteFails(c) \/ Deadline(c) \/ (step[c] # "waiting" /\ Interrupt(c))
    <3>1. /\ c \in Submitted /\ responses \in Seq(Message)
          /\ Invalidates(c, "doubtful", responses)
          /\ UNCHANGED <<owner, sequence, got, peer>>
        BY <2>5 DEF WriteFails, Deadline, Interrupt, Submitted, WriterInv, TypeOK
    <3> QED BY <3>1, InvalidatesKeeps
  <2>6. CASE GoesOn(c)
      BY <2>6, GoesOnKeeps
  <2> QED BY <1>1, <2>1, <2>2, <2>3, <2>4, <2>5, <2>6 DEF Call
<1>2. ASSUME NEW c \in Files, Acknowledges(c) PROVE WriterInv'
    BY <1>2, AcknowledgesKeeps
<1>3. ASSUME NEW s \in SequenceNumbers, MakesUp(s) PROVE WriterInv'
    BY <1>3, MakesUpKeeps
<1>4. ASSUME NEW reason \in Reason, ReaderFinishes(reason) PROVE WriterInv'
    BY <1>4, ReaderFinishesKeeps
<1>5. CASE OwnerCloses
    BY <1>5, OwnerClosesKeeps
<1>6. CASE ScopeClosed
    BY <1>6, ScopeClosedKeeps
<1>7. CASE UNCHANGED vars
    BY <1>7 DEF vars, calls, peer, WriterInv, TypeOK, ScopeInv, CallInv, PermitExact, EndInv,
                AckInv, IsAck, AcknowledgementIsOwn, Submitted, InDoubt
<1> QED BY <1>1, <1>2, <1>3, <1>4, <1>5, <1>6, <1>7 DEF Next

\* The inductive invariant of a writer: its scope, its calls, its permit and its queue
\* (makePaneGraphicsWriter).
THEOREM WriterInvariant == Spec => []WriterInv
BY WriterInit, WriterStep, PTL DEF Spec

\* A writeFile never returns another frame's acknowledgement (closeOnWriteFailure).
THEOREM AcknowledgementsAreOwn == Spec => []AcknowledgementIsOwn
<1>1. WriterInv => AcknowledgementIsOwn
    BY DEF WriterInv
<1> QED BY <1>1, WriterInvariant, PTL

\* The permit is out exactly while a frame is on the stream or closes the writer
\* (withWriterPermit).
THEOREM PermitIsExact == Spec => []PermitExact
<1>1. WriterInv => PermitExact
    BY DEF WriterInv
<1> QED BY <1>1, WriterInvariant, PTL

\* The end of the reader is in the queue of whoever waits there (finishReader).
THEOREM EndsAreHeard == Spec => []EndIsHeard
<1>1. WriterInv => EndIsHeard
    BY DEF WriterInv, EndInv, EndIsHeard, Submitted, Frames
<1> QED BY <1>1, WriterInvariant, PTL

\* Nothing is put on the stream behind a frame in doubt (closeOnWriteFailure,
\* failIfClosed).
THEOREM NothingFollowsDoubt == Spec => NothingAfterDoubt
<1>1. WriterInv /\ [Next]_vars
        => [InDoubt => Submitted' \subseteq Submitted]_vars
  <2> SUFFICES ASSUME WriterInv, Next, InDoubt, NEW d \in Submitted', d \notin Submitted
               PROVE  FALSE
      OBVIOUS
  <2>1. terminal # Nothing
      BY FramesAssumption DEF WriterInv, ScopeInv, Result, Reason
  <2>2. d \in Frames /\ step'[d] \in {"writing", "awaiting"}
        /\ step[d] \notin {"writing", "awaiting"}
      BY DEF Submitted
  <2>3. step \in [Frames -> {"idle", "waiting", "writing", "awaiting", "closing", "done"}]
      BY DEF WriterInv, TypeOK
  <2>4. ASSUME NEW c \in Frames, Call(c) PROVE FALSE
      BY <2>1, <2>2, <2>3, <2>4
         DEF Call, Begin, FindsClosed, Rejects, Submit, MaySubmit, Permitted, Written, WriteFails,
             Takes, Deadline, Interrupt, GoesOn, Invalidates, Closes, Ends, calls
  <2>5. CASE \/ \E c \in Files : Acknowledges(c)
             \/ \E s \in SequenceNumbers : MakesUp(s)
             \/ \E reason \in Reason : ReaderFinishes(reason)
             \/ OwnerCloses \/ ScopeClosed
      BY <2>2, <2>3, <2>5 DEF Acknowledges, MakesUp, ReaderFinishes, OwnerCloses, ScopeClosed, calls
  <2> QED BY <2>4, <2>5 DEF Next
<1> QED BY <1>1, WriterInvariant, PTL DEF Spec, NothingAfterDoubt
=============================================================================
