----------------------------- MODULE EventStream -----------------------------
(***************************************************************************)
(* An events.subscribe stream from its socket to its consumer: openStream  *)
(* reads the handshake line, the bytes it read behind that line are handed *)
(* on, and decodeHerdrEventStream turns them and the socket's into events  *)
(* (src/herdr-socket-lines.ts, src/herdr-transport.ts,                     *)
(* src/event-service.ts).                                                  *)
(*                                                                         *)
(* A step is one turn of the loop over the lines of a chunk.  The chunk is *)
(* parsed in one go, so the consumer takes results only once it is used    *)
(* up, and the next chunk is read only once all results are taken.         *)
(* What a line decodes to is given by three sets of lines.                 *)
(***************************************************************************)
EXTENDS Naturals, Sequences, SequencesExt

CONSTANTS
    Byte,       \* bytes other than the newline
    Newline,
    Handshakes, \* lines that openStream accepts
    Selected,   \* lines that decode to an event of a selected type
    Unselected, \* lines that decode to another event
    MaxLine,    \* MAX_RESPONSE_LINE_BYTES, MAX_EVENT_LINE_BYTES (both 1 MiB)
    MaxBytes    \* bound: bytes the peer writes

Line == Seq(Byte)

ASSUME LinesAssumption ==
    /\ Newline \notin Byte
    /\ MaxLine \in Nat /\ MaxBytes \in Nat
    /\ Handshakes \cup Selected \cup Unselected \subseteq Line \ {<<>>}
    /\ Selected \cap Unselected = {}

VARIABLES
    written,    \* how many bytes the peer has written
    peer,       \* "open", "ended" its side, or the socket is "errored"
    socket,     \* bytes written and not yet read
    phase,      \* "handshake", "remainder", "socket", or how the stream ended
    remainder,  \* bytes read behind the handshake line
    chunk,      \* what is left of the chunk being parsed
    buffer,     \* the unterminated line: HerdrSocketLineBuffer
    results,    \* decodedEvents not yet taken by the consumer
    delivered   \* what was delivered: the handshake, then events

vars == <<written, peer, socket, phase, remainder, chunk, buffer, results, delivered>>

Stages == {"handshake", "remainder", "socket"}

\* Outcomes decided by the bytes, and the others.
Decided == {"oversized_frame", "invalid", "premature_close", "done"}
Cut == {"read", "timeout", "interrupted"}

Event(line) == [tag |-> "event", line |-> line]
Failure(reason) == [tag |-> "failure", reason |-> reason]
Result == {Event(line) : line \in Selected} \cup {Failure(reason) : reason \in Decided}

Wire == Byte \cup {Newline}

Init ==
    /\ written = 0
    /\ peer = "open"
    /\ socket = <<>>
    /\ phase = "handshake"
    /\ remainder = <<>>
    /\ chunk = <<>>
    /\ buffer = <<>>
    /\ results = <<>>
    /\ delivered = <<>>

reading == <<phase, remainder, chunk, buffer, results, delivered>>

-----------------------------------------------------------------------------
(* The peer and the socket.                                                 *)

\* A stream that has ended has destroyed its socket.
Arrives(b) ==
    /\ phase \in Stages
    /\ peer = "open"
    /\ written < MaxBytes
    /\ written' = written + 1
    /\ socket' = Append(socket, b)
    /\ UNCHANGED <<peer, reading>>

PeerEnds ==
    /\ peer = "open"
    /\ peer' = "ended"
    /\ UNCHANGED <<written, socket, reading>>

SocketErrs ==
    /\ peer # "errored"
    /\ peer' = "errored"
    /\ UNCHANGED <<written, socket, reading>>

-----------------------------------------------------------------------------
(* Reading.                                                                 *)

Rest(bytes, n) == SubSeq(bytes, n + 1, Len(bytes))

\* The parser has used up its chunk and the consumer has taken every result.
Pulls == phase \in Stages /\ chunk = <<>> /\ results = <<>>

\* The socket has some bytes for the reader, or all that came so far.
ReadSocket(n) ==
    /\ Pulls
    /\ phase # "remainder"
    /\ chunk' = SubSeq(socket, 1, n)
    /\ socket' = Rest(socket, n)
    /\ UNCHANGED <<written, peer, phase, remainder, buffer, results, delivered>>

\* makeHerdrSocketByteStream: the bytes behind the handshake line come first.
ReadRemainder(n) ==
    /\ Pulls
    /\ phase = "remainder"
    /\ chunk' = SubSeq(remainder, 1, n)
    /\ remainder' = Rest(remainder, n)
    /\ UNCHANGED <<written, peer, socket, phase, buffer, results, delivered>>

\* The stream ends; nothing is read any more, and no result that is left is taken.
StreamEnds(outcome) ==
    /\ phase' = outcome
    /\ chunk' = <<>>
    /\ buffer' = <<>>
    /\ remainder' = <<>>
    /\ socket' = <<>>

\* Mutant of StartSocket: an end that came before the socket is read is not noticed.
StartSocket_MissesEnd ==
    /\ Pulls
    /\ phase = "remainder"
    /\ remainder = <<>>
    /\ \/ /\ peer = "open"
          /\ phase' = "socket"
          /\ UNCHANGED <<socket, remainder, chunk, buffer>>
       \/ peer = "errored" /\ StreamEnds("read")
    /\ UNCHANGED <<written, peer, results, delivered>>

\* The remainder is used up: the socket is read, unless it has errored meanwhile.
StartSocket ==
    /\ Pulls
    /\ phase = "remainder"
    /\ remainder = <<>>
    /\ \/ /\ peer # "errored"
          /\ phase' = "socket"
          /\ UNCHANGED <<socket, remainder, chunk, buffer>>
       \/ peer = "errored" /\ StreamEnds("read")
    /\ UNCHANGED <<written, peer, results, delivered>>

\* The socket's error ends the stream, whether or not it had bytes left.
ReadFails ==
    /\ Pulls
    /\ phase # "remainder"
    /\ peer = "errored"
    /\ StreamEnds("read")
    /\ UNCHANGED <<written, peer, results, delivered>>

AtSocketEnd == Pulls /\ phase # "remainder" /\ peer = "ended" /\ socket = <<>>

\* openStream without a complete handshake line, even without a byte of one.
HandshakeMissing ==
    /\ AtSocketEnd
    /\ phase = "handshake"
    /\ StreamEnds("premature_close")
    /\ UNCHANGED <<written, peer, results, delivered>>

\* The "End" input: an unterminated line is a premature close.
End ==
    /\ AtSocketEnd
    /\ phase = "socket"
    /\ StreamEnds(IF buffer = <<>> THEN "done" ELSE "premature_close")
    /\ UNCHANGED <<written, peer, results, delivered>>

\* The deadline of openStream.
Deadline ==
    /\ phase = "handshake"
    /\ StreamEnds("timeout")
    /\ UNCHANGED <<written, peer, results, delivered>>

\* The consumer leaves and its scope closes.
Leaves ==
    /\ phase \in Stages
    /\ StreamEnds("interrupted")
    /\ UNCHANGED <<written, peer, results, delivered>>

-----------------------------------------------------------------------------
(* splitHerdrSocketLines with a limit of one line, and what its line is.    *)

NewlineAt(bytes) ==
    IF Contains(bytes, Newline)
    THEN CHOOSE i \in DOMAIN bytes : bytes[i] = Newline /\ \A j \in 1 .. i - 1 : bytes[j] # Newline
    ELSE 0

\* The bytes up to the newline or the end of the chunk.
Segment == IF NewlineAt(chunk) = 0 THEN chunk ELSE SubSeq(chunk, 1, NewlineAt(chunk) - 1)

\* Mutant of Fits: each chunk's share by itself.
Fits_EachChunk == Len(Segment) <= MaxLine

\* The limit, newline not counted, holds for the unterminated line as well.
Fits == Len(buffer) + Len(Segment) <= MaxLine

\* Mutant of Refused: the results of the same chunk are lost.
Refused_DropsPrefix(reason) ==
    /\ results' = <<Failure(reason)>>
    /\ chunk' = <<>>
    /\ buffer' = <<>>

\* A result that fails is the last one: parsing stops.
Refused(reason) ==
    /\ results' = Append(results, Failure(reason))
    /\ chunk' = <<>>
    /\ buffer' = <<>>

Parsing == phase \in Stages /\ chunk # <<>>

Oversized ==
    /\ Parsing
    /\ ~Fits
    /\ IF phase = "handshake"
       THEN StreamEnds("oversized_frame") /\ UNCHANGED results
       ELSE Refused("oversized_frame") /\ UNCHANGED <<socket, phase, remainder>>
    /\ UNCHANGED <<written, peer, delivered>>

\* No newline: the chunk is kept.
KeepsPartial ==
    /\ Parsing
    /\ NewlineAt(chunk) = 0
    /\ Fits
    /\ buffer' = buffer \o chunk
    /\ chunk' = <<>>
    /\ UNCHANGED <<written, peer, socket, phase, remainder, results, delivered>>

LineEnds == Parsing /\ NewlineAt(chunk) # 0 /\ Fits

CurrentLine == buffer \o Segment

\* What follows the line in its chunk.
Behind == Rest(chunk, NewlineAt(chunk))

\* readSocketLine has its line and openStream accepts it.
HandshakeAccepted ==
    /\ LineEnds
    /\ phase = "handshake"
    /\ CurrentLine \in Handshakes
    /\ delivered' = <<CurrentLine>>
    /\ phase' = "remainder"
    /\ remainder' = Behind
    /\ chunk' = <<>>
    /\ buffer' = <<>>
    /\ UNCHANGED <<written, peer, socket, results>>

\* Not JSON (an empty line is not), not a response, or not the expected one.
HandshakeRefused ==
    /\ LineEnds
    /\ phase = "handshake"
    /\ CurrentLine \notin Handshakes
    /\ StreamEnds("invalid")
    /\ UNCHANGED <<written, peer, results, delivered>>

Decoded(line) ==
    IF line \in Selected THEN results' = Append(results, Event(line)) ELSE UNCHANGED results

\* An event line, an empty line, which is skipped, or one of an unselected type.
EventLine ==
    /\ LineEnds
    /\ phase # "handshake"
    /\ CurrentLine \in {<<>>} \cup Selected \cup Unselected
    /\ Decoded(CurrentLine)
    /\ buffer' = <<>>
    /\ chunk' = Behind
    /\ UNCHANGED <<written, peer, socket, phase, remainder, delivered>>

BadLine ==
    /\ LineEnds
    /\ phase # "handshake"
    /\ CurrentLine \notin {<<>>} \cup Selected \cup Unselected
    /\ Refused("invalid")
    /\ UNCHANGED <<written, peer, socket, phase, remainder, delivered>>

-----------------------------------------------------------------------------
(* The consumer.                                                            *)

Takes ==
    /\ phase \in Stages
    /\ chunk = <<>>
    /\ results # <<>>
    /\ results' = Tail(results)
    /\ \/ /\ Head(results).tag = "event"
          /\ delivered' = Append(delivered, Head(results).line)
          /\ UNCHANGED <<socket, phase, remainder, chunk, buffer>>
       \/ /\ Head(results).tag = "failure"
          /\ StreamEnds(Head(results).reason)
          /\ UNCHANGED delivered
    /\ UNCHANGED <<written, peer>>

-----------------------------------------------------------------------------
Environment ==
    \/ \E b \in Wire : Arrives(b)
    \/ PeerEnds \/ SocketErrs \/ Deadline \/ Leaves

Reads ==
    \/ \E n \in 1 .. Len(socket) : ReadSocket(n)
    \/ \E n \in 1 .. Len(remainder) : ReadRemainder(n)
    \/ StartSocket \/ ReadFails \/ HandshakeMissing \/ End

Parses ==
    \/ Oversized \/ KeepsPartial \/ HandshakeAccepted \/ HandshakeRefused
    \/ EventLine \/ BadLine

Next == Environment \/ Reads \/ Parses \/ Takes

Spec == Init /\ [][Next]_vars
=============================================================================
