----------------------------- MODULE FrameReader -----------------------------
(***************************************************************************)
(* The length-prefixed frames of an endpoint connection: the loop over the *)
(* socket's chunks in acquireEndpointConnection                            *)
(* (src/herdr-endpoint-transport.ts), which fills one header buffer and    *)
(* one payload buffer at a time and hands each message to receive.         *)
(*                                                                         *)
(* A step is one part of a turn of that loop: bytes copied into the header *)
(* or into the payload.  Octets have Base values and the header HeaderSize *)
(* octets (256 and 4 in the code), the least significant first.            *)
(***************************************************************************)
EXTENDS Naturals, Sequences

CONSTANTS
    Base,
    HeaderSize,
    Messages,       \* payloads that decodeEndpointMessage accepts
    MaxPayload,     \* maximumMessageBytes
    MaxOctets       \* bound: octets the peer sends

Octet == 0 .. Base - 1

ASSUME FramesAssumption ==
    /\ Base \in Nat \ {0, 1} /\ HeaderSize \in Nat \ {0}
    /\ MaxPayload \in Nat /\ MaxOctets \in Nat
    /\ Messages \subseteq Seq(Octet)

VARIABLES
    sent,           \* how many octets the peer has sent
    remote,         \* "open", "ended" its side, or the socket is "destroyed"
    inbound,        \* octets sent and not yet read
    block,          \* what is left of the chunk being read
    header,         \* Buffer.alloc(4), used for every frame
    headerOffset,
    payload,        \* the payload's buffer, <<>> for undefined
    payloadOffset,
    status,         \* "reading", "routing" a message in receive, or how it ended
    received        \* the messages given to receive

buffers == <<header, headerOffset, payload, payloadOffset>>
frameVars == <<sent, remote, inbound, block, buffers, status, received>>

Live == {"reading", "routing"}

\* Outcomes that the octets do not decide: a read error or a destroyed socket, a
\* message that receive refuses, a scope that closes.
FrameCut == {"read", "refused", "interrupted"}
FrameDecided == {"oversized_frame", "invalid", "premature_close"}

FrameInit ==
    /\ sent = 0
    /\ remote = "open"
    /\ inbound = <<>>
    /\ block = <<>>
    /\ header = [i \in 1 .. HeaderSize |-> 0]
    /\ headerOffset = 0
    /\ payload = <<>>
    /\ payloadOffset = 0
    /\ status = "reading"
    /\ received = <<>>

-----------------------------------------------------------------------------
(* The peer and the socket.                                                 *)

Sends(octet) ==
    /\ status \in Live
    /\ remote = "open"
    /\ sent < MaxOctets
    /\ sent' = sent + 1
    /\ inbound' = Append(inbound, octet)
    /\ UNCHANGED <<remote, block, buffers, status, received>>

RemoteEnds ==
    /\ remote = "open"
    /\ remote' = "ended"
    /\ UNCHANGED <<sent, inbound, block, buffers, status, received>>

\* A read error, or another fiber's fail has destroyed the socket.
Destroyed ==
    /\ remote # "destroyed"
    /\ remote' = "destroyed"
    /\ UNCHANGED <<sent, inbound, block, buffers, status, received>>

-----------------------------------------------------------------------------
(* The reader.                                                              *)

After(octets, n) == SubSeq(octets, n + 1, Len(octets))

NextChunk(n) ==
    /\ status = "reading"
    /\ block = <<>>
    /\ block' = SubSeq(inbound, 1, n)
    /\ inbound' = After(inbound, n)
    /\ UNCHANGED <<sent, remote, buffers, status, received>>

ReaderEnds(outcome) ==
    /\ status' = outcome
    /\ block' = <<>>
    /\ inbound' = <<>>

\* The stream ends: wherever that is, it is a premature close.
StreamClosed ==
    /\ status = "reading"
    /\ block = <<>>
    /\ inbound = <<>>
    /\ remote = "ended"
    /\ ReaderEnds("premature_close")
    /\ UNCHANGED <<sent, remote, buffers, received>>

\* The socket gives nothing more.
StreamFails ==
    /\ status = "reading"
    /\ block = <<>>
    /\ remote = "destroyed"
    /\ ReaderEnds("read")
    /\ UNCHANGED <<sent, remote, buffers, received>>

ScopeCloses ==
    /\ status \in Live
    /\ ReaderEnds("interrupted")
    /\ UNCHANGED <<sent, remote, buffers, received>>

Smaller(m, n) == IF m < n THEN m ELSE n

\* buffer.set(chunk.subarray(..., count), offset).
Filled(buffer, offset, count) ==
    [i \in DOMAIN buffer |->
        IF offset < i /\ i <= offset + count THEN block[i - offset] ELSE buffer[i]]

\* readUInt32LE.
LengthIn(octets) ==
    LET value[i \in 0 .. HeaderSize] ==
            IF i = HeaderSize THEN 0 ELSE octets[i + 1] + Base * value[i + 1]
    IN value[0]

\* Octets of the chunk that go into the header.
HeaderCount == Smaller(HeaderSize - headerOffset, Len(block))
HeaderFilled == Filled(header, headerOffset, HeaderCount)

\* Mutants of HeaderComplete: a header that the chunk cuts in front of its last octet
\* counts as complete; a chunk is taken to bring whole headers.
HeaderComplete_OneShort == headerOffset + HeaderCount >= HeaderSize - 1

HeaderComplete == headerOffset + HeaderCount = HeaderSize

FillingHeader == status = "reading" /\ block # <<>> /\ payload = <<>>

\* The chunk ends within the header.
HeaderContinues ==
    /\ FillingHeader
    /\ ~HeaderComplete
    /\ header' = HeaderFilled
    /\ headerOffset' = headerOffset + HeaderCount
    /\ block' = After(block, HeaderCount)
    /\ UNCHANGED <<sent, remote, inbound, payload, payloadOffset, status, received>>

LengthFits(length) == length # 0 /\ length <= MaxPayload

\* The header is used for the next frame from its start.
HeaderRead ==
    /\ header' = HeaderFilled
    /\ headerOffset' = 0

HeaderEnds ==
    /\ FillingHeader
    /\ HeaderComplete
    /\ LengthFits(LengthIn(HeaderFilled))
    /\ HeaderRead
    /\ payload' = [i \in 1 .. LengthIn(HeaderFilled) |-> 0]
    /\ payloadOffset' = 0
    /\ block' = After(block, HeaderCount)
    /\ UNCHANGED <<sent, remote, inbound, status, received>>

HeaderRefused ==
    /\ FillingHeader
    /\ HeaderComplete
    /\ ~LengthFits(LengthIn(HeaderFilled))
    /\ ReaderEnds("oversized_frame")
    /\ UNCHANGED <<sent, remote, buffers, received>>

FillingPayload == status = "reading" /\ block # <<>> /\ payload # <<>>

PayloadCount == Smaller(Len(payload) - payloadOffset, Len(block))
PayloadFilled == Filled(payload, payloadOffset, PayloadCount)
PayloadComplete == payloadOffset + PayloadCount = Len(payload)

\* The chunk ends within the payload.
PayloadContinues ==
    /\ FillingPayload
    /\ ~PayloadComplete
    /\ payload' = PayloadFilled
    /\ payloadOffset' = payloadOffset + PayloadCount
    /\ block' = After(block, PayloadCount)
    /\ UNCHANGED <<sent, remote, inbound, header, headerOffset, status, received>>

\* The message goes to receive, which may wait for routeLock.
PayloadEnds ==
    /\ FillingPayload
    /\ PayloadComplete
    /\ PayloadFilled \in Messages
    /\ received' = Append(received, PayloadFilled)
    /\ status' = "routing"
    /\ payload' = <<>>
    /\ payloadOffset' = 0
    /\ block' = After(block, PayloadCount)
    /\ UNCHANGED <<sent, remote, inbound, header, headerOffset>>

PayloadRefused ==
    /\ FillingPayload
    /\ PayloadComplete
    /\ PayloadFilled \notin Messages
    /\ ReaderEnds("invalid")
    /\ UNCHANGED <<sent, remote, buffers, received>>

\* receive returns, and the loop goes on in the middle of its chunk.
Routed ==
    /\ status = "routing"
    /\ status' = "reading"
    /\ UNCHANGED <<sent, remote, inbound, block, buffers, received>>

Unroutable ==
    /\ status = "routing"
    /\ ReaderEnds("refused")
    /\ UNCHANGED <<sent, remote, buffers, received>>

-----------------------------------------------------------------------------
Outside ==
    \/ \E octet \in Octet : Sends(octet)
    \/ RemoteEnds \/ Destroyed \/ ScopeCloses

Reader ==
    \/ \E n \in 1 .. Len(inbound) : NextChunk(n)
    \/ StreamClosed \/ StreamFails
    \/ HeaderContinues \/ HeaderEnds \/ HeaderRefused
    \/ PayloadContinues \/ PayloadEnds \/ PayloadRefused

FrameNext == Outside \/ Reader \/ Routed \/ Unroutable

FrameSpec == FrameInit /\ [][FrameNext]_frameVars
=============================================================================
