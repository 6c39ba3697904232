---------------------------- MODULE GraphicsWriter ----------------------------
(***************************************************************************)
(* The pane graphics writer of src/pane-service.ts: callers write frames   *)
(* to one stream, one at a time under a permit; a file frame waits for an  *)
(* acknowledgement that the reader puts into a queue.  Whatever leaves a   *)
(* frame in doubt closes the writer.  The writer is open from the start.   *)
(*                                                                         *)
(* One action is what runs without suspension.  A frame is checked, built  *)
(* and handed to the socket in the action that takes the permit; closing   *)
(* the scope waits for the interrupted reader, hence ScopeClosed.          *)
(***************************************************************************)
EXTENDS Naturals, Sequences

CONSTANTS
    Plain,      \* fibers that call write, one call after the other
    Files,      \* calls of writeFile
    SequenceNumbers, \* of file frames: the callers choose them
    MaxStrays,  \* bound: acknowledgements that the peer makes up
    Nothing

Frames == Plain \cup Files

\* terminalFailure: what the reader met, or HerdrGraphicsStreamClosed.
Reason == {"failed", "closed"}

\* PaneGraphicsStreamMessage; "of" is the frame that the peer acknowledges with it.
Acknowledgement == [tag : {"Acknowledgement"}, of : Frames \cup {Nothing}, sequence : SequenceNumbers]
FailureMessage(reason) == [tag |-> reason, of |-> Nothing, sequence |-> Nothing]
Message == Acknowledgement \cup {FailureMessage(reason) : reason \in Reason}

\* How a call ends: "invalid" and "interrupted" before its frame was submitted,
\* "doubtful" after; "failed" and "closed" with the terminal failure.
Result == {"written", "acknowledged", "invalid", "interrupted", "doubtful"} \cup Reason

ASSUME FramesAssumption ==
    /\ Plain \cap Files = {}
    /\ Nothing \notin Frames \cup SequenceNumbers \cup Result
    /\ MaxStrays \in Nat

VARIABLES
    owner,      \* "open" until the scope that acquired the writer closes
    scope,      \* socketScope: "open", "closing" while the reader stops, "closed"
    reader,     \* "reading", "failed", "ended", "interrupted"
    terminal,   \* terminalFailure: Nothing or a Reason
    responses,  \* the queue
    free,       \* writerSemaphore has its permit
    step,       \* "idle", "waiting", "writing", "awaiting", "closing", "done"
    result,     \* how each call ended, Nothing before
    sequence,   \* the sequence number of each submitted file frame
    got,        \* the frame whose acknowledgement a call returned
    acked,      \* the peer: frames it has acknowledged
    strays      \* the peer: acknowledgements it made up

peer == <<acked, strays>>
calls == <<step, result, sequence, got>>
vars == <<owner, scope, reader, terminal, responses, free, calls, peer>>

Submitted == {c \in Frames : step[c] \in {"writing", "awaiting"}}

TypeOK ==
    /\ owner \in {"open", "closed"}
    /\ scope \in {"open", "closing", "closed"}
    /\ reader \in {"reading", "failed", "ended", "interrupted"}
    /\ terminal \in Reason \cup {Nothing}
    /\ responses \in Seq(Message)
    /\ free \in BOOLEAN
    /\ step \in [Frames -> {"idle", "waiting", "writing", "awaiting", "closing", "done"}]
    /\ result \in [Frames -> Result \cup {Nothing}]
    /\ sequence \in [Files -> SequenceNumbers \cup {Nothing}]
    /\ got \in [Files -> Frames \cup {Nothing}]
    /\ acked \subseteq Files
    /\ strays \in 0 .. MaxStrays

Init ==
    /\ owner = "open"
    /\ scope = "open"
    /\ reader = "reading"
    /\ terminal = Nothing
    /\ responses = <<>>
    /\ free = TRUE
    /\ step = [c \in Frames |-> "idle"]
    /\ result = [c \in Frames |-> Nothing]
    /\ sequence = [c \in Files |-> Nothing]
    /\ got = [c \in Files |-> Nothing]
    /\ acked = {}
    /\ strays = 0

-----------------------------------------------------------------------------
(* The reader.                                                              *)

\* Mutant of Heard: an end of the reader is recorded but not put into the queue.
Heard_RecordOnly(queue, reason) == queue

\* finishReader tells whoever takes from the queue.
Heard(queue, reason) == Append(queue, FailureMessage(reason))

\* The peer acknowledges a file frame that reached it, once.
Acknowledges(c) ==
    /\ reader = "reading"
    /\ sequence[c] # Nothing
    /\ c \notin acked
    /\ acked' = acked \cup {c}
    /\ responses' = Append(responses, [tag |-> "Acknowledgement", of |-> c,
                                       sequence |-> sequence[c]])
    /\ UNCHANGED <<owner, scope, reader, terminal, free, calls, strays>>

\* The peer acknowledges what it was not sent.
MakesUp(s) ==
    /\ reader = "reading"
    /\ strays < MaxStrays
    /\ strays' = strays + 1
    /\ responses' = Append(responses, [tag |-> "Acknowledgement", of |-> Nothing,
                                       sequence |-> s])
    /\ UNCHANGED <<owner, scope, reader, terminal, free, calls, acked>>

\* An error response, a line that does not decode, a read error ("failed"), or the
\* end of the stream ("closed").
ReaderFinishes(reason) ==
    /\ reader = "reading"
    /\ reader' = IF reason = "failed" THEN "failed" ELSE "ended"
    /\ terminal' = reason
    /\ responses' = Heard(responses, reason)
    /\ UNCHANGED <<owner, scope, free, calls, peer>>

-----------------------------------------------------------------------------
(* Closing.                                                                 *)

\* The scope's finalizers begin: terminalFailure is closed, whatever it was, the
\* queue hears of it, the reader is interrupted.
CloseScope(queue) ==
    /\ scope' = "closing"
    /\ terminal' = "closed"
    /\ responses' = Heard(queue, "closed")
    /\ reader' = IF reader = "reading" THEN "interrupted" ELSE reader

OwnerCloses ==
    /\ owner = "open"
    /\ owner' = "closed"
    /\ IF scope = "open" THEN CloseScope(responses)
       ELSE UNCHANGED <<scope, terminal, responses, reader>>
    /\ UNCHANGED <<free, calls, peer>>

\* The reader has stopped and the socket is destroyed: a call that closed the writer
\* ends and releases its permit.
ScopeClosed ==
    /\ scope = "closing"
    /\ scope' = "closed"
    /\ step' = [c \in Frames |-> IF step[c] = "closing" THEN "done" ELSE step[c]]
    /\ free' = (free \/ \E c \in Frames : step[c] = "closing")
    /\ UNCHANGED <<owner, reader, terminal, responses, result, sequence, got, peer>>

\* A call ends and its permit is released.
Ends(c, end) ==
    /\ step' = [step EXCEPT ![c] = "done"]
    /\ result' = [result EXCEPT ![c] = end]
    /\ free' = TRUE

\* Mutant of Closes: the permit is released before the scope closes.
Closes_PermitFirst(c, end, queue) ==
    IF scope = "open"
    THEN /\ CloseScope(queue)
         /\ step' = [step EXCEPT ![c] = "closing"]
         /\ result' = [result EXCEPT ![c] = end]
         /\ free' = TRUE
    ELSE /\ Ends(c, end)
         /\ terminal' = "closed"
         /\ responses' = queue
         /\ UNCHANGED <<scope, reader>>

\* closeOnWriteFailure: the scope closes before the permit is released.  A scope that
\* somebody else has closed is not waited for.
Closes(c, end, queue) ==
    IF scope = "open"
    THEN /\ CloseScope(queue)
         /\ step' = [step EXCEPT ![c] = "closing"]
         /\ result' = [result EXCEPT ![c] = end]
         /\ UNCHANGED free
    ELSE /\ Ends(c, end)
         /\ terminal' = "closed"
         /\ responses' = queue
         /\ UNCHANGED <<scope, reader>>

\* Mutant of Invalidates: the writer stays open.
Invalidates_Never(c, end, queue) ==
    /\ Ends(c, end)
    /\ responses' = queue
    /\ UNCHANGED <<scope, terminal, reader>>

\* A submitted frame ends without success.
Invalidates(c, end, queue) == Closes(c, end, queue)

-----------------------------------------------------------------------------
(* Callers: withWriterPermit, write, writeFile.                             *)

Begin(c) ==
    /\ step[c] = "idle"
    /\ step' = [step EXCEPT ![c] = "waiting"]
    /\ UNCHANGED <<owner, scope, reader, terminal, responses, free, result, sequence, got, peer>>

Permitted(c) ==
    /\ step[c] = "waiting"
    /\ free

\* failIfClosed.
FindsClosed(c) ==
    /\ Permitted(c)
    /\ terminal # Nothing
    /\ Ends(c, terminal)
    /\ UNCHANGED <<owner, scope, reader, terminal, responses, sequence, got, peer>>

\* The frame or the options do not decode: nothing is written, the writer stays open.
Rejects(c) ==
    /\ Permitted(c)
    /\ terminal = Nothing
    /\ Ends(c, "invalid")
    /\ UNCHANGED <<owner, scope, reader, terminal, responses, sequence, got, peer>>

\* Mutant of MaySubmit: failIfClosed is left out.
MaySubmit_Unchecked(c) == Permitted(c)

MaySubmit(c) == Permitted(c) /\ terminal = Nothing

\* The frame goes to the socket.
Submit(c) ==
    /\ MaySubmit(c)
    /\ free' = FALSE
    /\ step' = [step EXCEPT ![c] = "writing"]
    /\ IF c \in Files
       THEN \E s \in SequenceNumbers : sequence' = [sequence EXCEPT ![c] = s]
       ELSE UNCHANGED sequence
    /\ UNCHANGED <<owner, scope, reader, terminal, responses, result, got, peer>>

\* The socket's write callback.
Written(c) ==
    /\ step[c] = "writing"
    /\ IF c \in Files
       THEN step' = [step EXCEPT ![c] = "awaiting"] /\ UNCHANGED <<result, free>>
       ELSE Ends(c, "written")
    /\ UNCHANGED <<owner, scope, reader, terminal, responses, sequence, got, peer>>

WriteFails(c) ==
    /\ step[c] = "writing"
    /\ Invalidates(c, "doubtful", responses)
    /\ UNCHANGED <<owner, sequence, got, peer>>

\* The call takes a response: one of its frame, the end of the reader, or another's.
Takes(c) ==
    /\ step[c] = "awaiting"
    /\ responses # <<>>
    /\ LET response == Head(responses)
       IN \/ /\ response.tag = "Acknowledgement"
             /\ response.sequence = sequence[c]
             /\ Ends(c, "acknowledged")
             /\ got' = [got EXCEPT ![c] = response.of]
             /\ responses' = Tail(responses)
             /\ UNCHANGED <<scope, terminal, reader>>
          \/ /\ response.tag \in Reason
             /\ Invalidates(c, response.tag, Tail(responses))
             /\ UNCHANGED got
          \/ /\ response.tag = "Acknowledgement"
             /\ response.sequence # sequence[c]
             /\ Invalidates(c, "doubtful", Tail(responses))
             /\ UNCHANGED got
    /\ UNCHANGED <<owner, sequence, peer>>

\* Mutant of Deadline: only the write is covered.
Deadline_WriteOnly(c) ==
    /\ step[c] = "writing"
    /\ Invalidates(c, "doubtful", responses)
    /\ UNCHANGED <<owner, sequence, got, peer>>

\* writeStreamBytes: one deadline for the write and its acknowledgement.
Deadline(c) ==
    /\ c \in Submitted
    /\ Invalidates(c, "doubtful", responses)
    /\ UNCHANGED <<owner, sequence, got, peer>>

\* The caller is interrupted; closing cannot be.
Interrupt(c) ==
    \/ /\ step[c] = "waiting"
       /\ step' = [step EXCEPT ![c] = "done"]
       /\ result' = [result EXCEPT ![c] = "interrupted"]
       /\ UNCHANGED <<owner, scope, reader, terminal, responses, free, sequence, got, peer>>
    \/ Deadline(c)

\* A fiber whose plain frame was written, or did not decode, goes on to its next.
GoesOn(c) ==
    /\ c \in Plain
    /\ step[c] = "done"
    /\ result[c] \in {"written", "invalid"}
    /\ step' = [step EXCEPT ![c] = "idle"]
    /\ result' = [result EXCEPT ![c] = Nothing]
    /\ UNCHANGED <<owner, scope, reader, terminal, responses, free, sequence, got, peer>>

-----------------------------------------------------------------------------
Call(c) ==
    \/ Begin(c) \/ FindsClosed(c) \/ Rejects(c) \/ Submit(c) \/ Written(c)
    \/ WriteFails(c) \/ Takes(c) \/ Deadline(c) \/ Interrupt(c) \/ GoesOn(c)

Next ==
    \/ \E c \in Frames : Call(c)
    \/ \E c \in Files : Acknowledges(c)
    \/ \E s \in SequenceNumbers : MakesUp(s)
    \/ \E reason \in Reason : ReaderFinishes(reason)
    \/ OwnerCloses \/ ScopeClosed

Spec == Init /\ [][Next]_vars
=============================================================================
