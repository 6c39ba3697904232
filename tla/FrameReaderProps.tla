-------------------------- MODULE FrameReaderProps --------------------------
(***************************************************************************)
(* The correctness properties of FrameReader: it is a ByteFeed of frames.  *)
(***************************************************************************)
EXTENDS FrameReader

\* The offsets stay within their buffers, and only one of them is in use.
FrameTypeOK ==
    /\ sent \in 0 .. MaxOctets
    /\ remote \in {"open", "ended", "destroyed"}
    /\ {inbound, block} \subseteq Seq(Octet)
    /\ header \in [1 .. HeaderSize -> Octet]
    /\ headerOffset \in 0 .. HeaderSize - 1
    /\ payload \in Seq(Octet) /\ Len(payload) <= MaxPayload
    /\ payloadOffset \in Nat
    /\ payload = <<>> => payloadOffset = 0
    /\ payload # <<>> => payloadOffset < Len(payload) /\ headerOffset = 0
    /\ status \in Live \cup FrameCut \cup FrameDecided
    /\ received \in Seq(Messages)

-----------------------------------------------------------------------------
(* The frames of an octet sequence, defined on all of it at once.           *)

DecodeFrame(first, octets) ==
    LET length == LengthIn(octets)
        body == SubSeq(octets, HeaderSize + 1, HeaderSize + length)
    IN IF Len(octets) < HeaderSize THEN [kind |-> "partial"]
       ELSE IF ~(length \in 1 .. MaxPayload)
       THEN [kind |-> "bad", reason |-> "oversized_frame"]
       ELSE IF Len(octets) < HeaderSize + length THEN [kind |-> "partial"]
       ELSE IF body \in Messages
       THEN [kind |-> "record", length |-> HeaderSize + length, yields |-> <<body>>]
       ELSE [kind |-> "bad", reason |-> "invalid"]

FrameAtEnd(first, octets) == "premature_close"

\* The octets of the frame being read that have been copied.
Buffered ==
    IF payload = <<>> THEN SubSeq(header, 1, headerOffset)
    ELSE header \o SubSeq(payload, 1, payloadOffset)

FrameFeed == INSTANCE ByteFeed WITH
    Byte <- Octet,
    Decode <- DecodeFrame,
    AtEnd <- FrameAtEnd,
    Cut <- FrameCut,
    pending <- IF status \in Live THEN Buffered \o block \o inbound ELSE <<>>,
    yielded <- received,
    outcome <- IF status \in Live THEN "open" ELSE status

\* However the socket cuts the octets, within a header too, receive gets the
\* messages of their frames, each once and in order, and one that is suspended in
\* the middle of a chunk loses none of it (the reader's loop and its two offsets).
ImplementsFrameFeed == FrameFeed!Spec
=============================================================================
