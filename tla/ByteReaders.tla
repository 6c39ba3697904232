------------------------------ MODULE ByteReaders ------------------------------
(***************************************************************************)
(* What the client reads from a socket: EventStream, FrameReader and       *)
(* EndpointCodec.  A behaviour is one of the three.                        *)
(***************************************************************************)
EXTENDS EventStreamProps, FrameReaderProps, EndpointCodecProps

VARIABLE reader

ReadersInit ==
    /\ reader \in {"lines", "frames", "codec"}
    /\ Init /\ FrameInit
    /\ CodecInit
    /\ reader # "codec" => message = <<>>

ReadersNext ==
    \/ reader = "lines" /\ Next /\ UNCHANGED <<frameVars, codecVars, reader>>
    \/ reader = "frames" /\ FrameNext /\ UNCHANGED <<vars, codecVars, reader>>
    \/ reader = "codec" /\ CodecNext /\ UNCHANGED <<vars, frameVars, reader>>

Readers == ReadersInit /\ [][ReadersNext]_<<vars, frameVars, codecVars, reader>> /\ Fairness

\* Every buffer, offset and unterminated line stays within its limit.
ReadersTypeOK == TypeOK /\ FrameTypeOK /\ CodecTypeOK
=============================================================================
