-------------------------- MODULE EventStreamProps --------------------------
(***************************************************************************)
(* The correctness properties of EventStream: it is a ByteFeed of lines,   *)
(* and its consumer gets what the peer completes.                          *)
(***************************************************************************)
EXTENDS EventStream

\* The unterminated line stays within the limit, whatever the chunks.
TypeOK ==
    /\ written \in 0 .. MaxBytes
    /\ peer \in {"open", "ended", "errored"}
    /\ phase \in Stages \cup Decided \cup Cut
    /\ {socket, remainder, chunk} \subseteq Seq(Wire)
    /\ buffer \in Line /\ Len(buffer) <= MaxLine
    /\ results \in Seq(Result)
    /\ delivered \in Seq(Line)

-----------------------------------------------------------------------------
(* The lines of a byte sequence, defined on all of it at once.              *)

\* What the bytes begin with: a line longer than the limit is an error even while
\* its newline is missing, and an empty one only as the handshake.
DecodeLine(first, bytes) ==
    LET end == NewlineAt(bytes)
        length == IF end = 0 THEN Len(bytes) ELSE end - 1
        line == SubSeq(bytes, 1, length)
    IN IF length > MaxLine THEN [kind |-> "bad", reason |-> "oversized_frame"]
       ELSE IF end = 0 THEN [kind |-> "partial"]
       ELSE IF line \in (IF first THEN Handshakes ELSE Selected)
       THEN [kind |-> "record", length |-> end, yields |-> <<line>>]
       ELSE IF ~first /\ line \in {<<>>} \cup Unselected
       THEN [kind |-> "record", length |-> end, yields |-> <<>>]
       ELSE [kind |-> "bad", reason |-> "invalid"]

\* A stream may end behind a line; the handshake has to come.
LineAtEnd(first, bytes) == IF first \/ bytes # <<>> THEN "premature_close" ELSE "done"

\* The parser has met an error that the consumer has not come to yet.
ErrorQueued == results # <<>> /\ Last(results).tag = "failure"

\* The events among the queued results.
Queued ==
    LET ends == IF ErrorQueued THEN Len(results) - 1 ELSE Len(results)
    IN [i \in 1 .. ends |-> results[i].line]

\* How the stream ends, from the moment that is certain.
Outcome ==
    IF ErrorQueued THEN Last(results).reason
    ELSE IF phase \in Stages THEN "open"
    ELSE phase

Unparsed == IF Outcome = "open" THEN buffer \o chunk \o remainder \o socket ELSE <<>>

Feed == INSTANCE ByteFeed WITH
    Byte <- Wire,
    Decode <- DecodeLine,
    AtEnd <- LineAtEnd,
    pending <- Unparsed,
    yielded <- delivered \o Queued,
    outcome <- Outcome

\* However the socket cuts its bytes into chunks, around the handshake too, the
\* consumer gets the events of their lines, each once and in order; those in front
\* of a bad line before its error, also if one read brought both
\* (splitHerdrSocketLines, parseHerdrEventChunks, makeHerdrSocketByteStream).
ImplementsLineFeed == Feed!Spec

-----------------------------------------------------------------------------
(* Fairness: the reader's and the consumer's fibers go on, and the socket    *)
(* gives what it has.  The peer owes nothing.                                *)

Fairness == WF_vars(Reads) /\ WF_vars(Parses) /\ WF_vars(Takes)

FairSpec == Spec /\ Fairness

\* A line comes through without waiting for a byte of the next one, and the end of
\* the socket is noticed whenever it comes, also between the handshake's reader and
\* the stream's (the one-line loop, readableToPullUnsafe, HerdrEventStreamInput).
LinesArrive ==
    /\ (Outcome = "open" /\ Feed!First.kind # "partial")
          ~> (Outcome # "open" \/ Feed!First.kind = "partial")
    /\ (phase \in Stages /\ results # <<>>) ~> (phase \notin Stages \/ results = <<>>)
    /\ (phase \in Stages /\ peer # "open") ~> (phase \notin Stages)
=============================================================================
