---------------------------- MODULE MCByteReaders ----------------------------
(***************************************************************************)
(* ByteReaders for TLC.                                                    *)
(***************************************************************************)
EXTENDS ByteReaders

CONSTANTS a, b

MCHandshakes == {<<a>>}
MCSelected == {<<a>>, <<a, b>>}
MCUnselected == {<<b>>}
MCMessages == {<<0>>, <<1>>, <<1, 0>>}

-----------------------------------------------------------------------------
\* Widths of one, two and three octets of nine values: every limit of a number is
\* within reach.  The octet 2 begins the characters of two octets.
MCWidths == <<1, 2, 3>>
MCCharacters == {<<0>>, <<2, 7>>, <<2, 8>>}
MCReplacement == <<2, 7>>
MCBom == <<2, 8>>

\* Every text that fits into a foreign payload, or is made of two characters.
MCUtf8 ==
    {<<>>, <<0>>, <<0, 0>>, <<0, 0, 0>>, <<2, 7>>, <<2, 8>>,
     <<0, 2, 7>>, <<0, 2, 8>>, <<2, 7, 0>>, <<2, 8, 0>>,
     <<2, 7, 2, 7>>, <<2, 7, 2, 8>>, <<2, 8, 2, 7>>, <<2, 8, 2, 8>>}

\* Every kind of field, alone and inside the others.
MCServer ==
    (0 :> <<Text, Text>>)
    @@ (1 :> <<Optional(<<Uint>>), Bool>>)
    @@ (2 :> <<Array(<<Array(<<ByteField>>)>>)>>)
    @@ (3 :> <<Choice(<< <<U16>>, <<U32>>, <<I32>>, <<Uint64>>, <<Optional(<<Data>>)>> >>)>>)

MCFields ==
    {ByteField, Bool, Uint64, Uint, U16, U32, I32, Data, Text}
    \cup {Optional(<<Uint>>), Optional(<<Data>>)}
    \cup {Array(<<ByteField>>), Array(<<Array(<<ByteField>>)>>)}
    \cup {Head(MCServer[3])}

NumberPart(n) == [kind |-> "number", value |-> n]
OctetPart(n) == [kind |-> "octet", value |-> n]
TextPart(characters) == [kind |-> "text", characters |-> characters]

\* encodeEndpointControl, and optional numbers around every limit.
MCClient ==
    {<<NumberPart(0), TextPart(s), TextPart(t)>> :
        s, t \in UNION {[1 .. n -> MCCharacters \cup {Lone}] : n \in 0 .. 2}}
    \cup {<<NumberPart(1), OctetPart(0), OctetPart(1)>>}
    \cup {<<NumberPart(1), OctetPart(1), NumberPart(n), OctetPart(0)>> : n \in 0 .. MaxSafe}
=============================================================================
