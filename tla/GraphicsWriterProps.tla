------------------------- MODULE GraphicsWriterProps -------------------------
(***************************************************************************)
(* The correctness properties of GraphicsWriter: what is on the stream is  *)
(* never in doubt, and an acknowledgement means the frame it is returned   *)
(* for.                                                                    *)
(***************************************************************************)
EXTENDS GraphicsWriter

\* A frame was submitted and nobody knows what became of it.
InDoubt == \E c \in Frames : result[c] = "doubtful"

\* While the peer acknowledges each file frame at most once and nothing else, what a
\* writeFile returns acknowledges its own frame, even if callers repeat a sequence
\* number: an earlier frame's late reply is never taken for it (closeOnWriteFailure
\* before the permit is released, the correlation in acknowledgement).
AcknowledgementIsOwn ==
    strays = 0 => \A c \in Files : result[c] = "acknowledged" => got[c] = c

\* After a frame whose outcome is unknown nothing more is put on the stream
\* (closeOnWriteFailure, failIfClosed).
NothingAfterDoubt ==
    [][ InDoubt => Submitted' \subseteq Submitted ]_vars

\* The permit is out exactly while one call has a frame on the stream or closes the
\* writer for it; closing and its interrupts included (withWriterPermit).
PermitExact ==
    LET holds(c) == step[c] \in {"writing", "awaiting", "closing"}
    IN /\ free <=> \A c \in Frames : ~holds(c)
       /\ \A c, d \in Frames : holds(c) /\ holds(d) => c = d

\* A call that awaits an acknowledgement of a reader that has ended finds its end in
\* the queue: it does not sleep until its deadline (finishReader).
EndIsHeard ==
    terminal # Nothing /\ (\E c \in Files : step[c] = "awaiting")
        => \E i \in DOMAIN responses : responses[i].tag \in Reason

\* A server error that ended the reader reaches a later call while the owner keeps the
\* writer: no call ends with HerdrGraphicsStreamClosed before one has ended with the
\* error (terminalFailure).
ServerErrorRetained ==
    owner = "open" /\ reader = "failed" /\ (\E c \in Frames : result[c] = "closed")
        => \E c \in Frames : result[c] = "failed"

-----------------------------------------------------------------------------
(* What is inductive.                                                       *)

IsAck(i) == responses[i].tag = "Acknowledgement"

\* The reader reads into a writer that is open, and no writer is open in doubt.
ScopeInv ==
    /\ terminal = Nothing => reader = "reading"
    /\ reader = "reading" => terminal = Nothing
    /\ scope # "open" => terminal = "closed"
    /\ owner = "closed" => scope # "open"
    /\ (\E c \in Frames : step[c] = "closing") => scope = "closing"
    /\ InDoubt => scope # "open"

\* What belongs to a call agrees with where it is.
CallInv ==
    /\ \A c \in Frames : result[c] # Nothing <=> step[c] \in {"closing", "done"}
    /\ \A c \in Frames : step[c] = "awaiting" => c \in Files
    /\ \A c \in Files : step[c] \in {"idle", "waiting"} => sequence[c] = Nothing
    /\ \A c \in Files : step[c] \in {"writing", "awaiting"} => sequence[c] # Nothing

\* While anybody can still take it, an acknowledgement is of the frame on the stream,
\* is there once, and no earlier frame is left to be acknowledged.
AckInv ==
    strays = 0 /\ (terminal = Nothing \/ Submitted # {}) =>
        /\ \A i \in DOMAIN responses : IsAck(i) => responses[i].of \in Submitted \cap acked
        /\ \A i, j \in DOMAIN responses :
               IsAck(i) /\ IsAck(j) /\ responses[i].of = responses[j].of => i = j
        /\ \A c \in Files \ Submitted : sequence[c] # Nothing => c \in acked

EndInv ==
    terminal # Nothing /\ Submitted # {}
        => \E i \in DOMAIN responses : responses[i].tag \in Reason

WriterInv ==
    TypeOK /\ ScopeInv /\ CallInv /\ PermitExact /\ EndInv /\ AckInv /\ AcknowledgementIsOwn

-----------------------------------------------------------------------------
(* Fairness: deadlines pass, and fibers that can go on do; the peer, the     *)
(* socket and the owner owe nothing.                                         *)

Fairness ==
    /\ \A c \in Frames : WF_vars(Deadline(c)) /\ WF_vars(Rejects(c) \/ FindsClosed(c) \/ Submit(c))
    /\ WF_vars(ScopeClosed)

FairSpec == Spec /\ Fairness

\* A call that has the permit ends, by its own deadline, and gives the permit back.  A
\* call that waits for the permit has no deadline and no place in a line: a newcomer
\* may take the permit first.  Only newcomers without end, each before it, keep it
\* waiting (withWriterPermit, writeStreamBytes, Semaphore.releaseUnsafe).
CallsEnd ==
    /\ \A c \in Frames : step[c] \in {"writing", "awaiting", "closing"} ~> step[c] = "done"
    /\ \A c \in Frames : []<>(step[c] # "waiting") \/ []<>~free
=============================================================================
