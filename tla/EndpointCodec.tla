---------------------------- MODULE EndpointCodec ----------------------------
(***************************************************************************)
(* The bincode layout of endpoint messages: EndpointReader, which          *)
(* decodeEndpointMessage runs over a payload, and the encoders of the      *)
(* client's messages (src/herdr-endpoint-codecs.ts).                       *)
(*                                                                         *)
(* A layout is a sequence of fields, and a step reads one field; one that  *)
(* is made of others is replaced by the fields it turns out to consist of. *)
(* What is read is kept as one sequence of numbers: values, lengths and    *)
(* the octets of texts, counts, presence flags and choices; the names of   *)
(* properties are left out.  A text to be written is the sequence of its   *)
(* characters; one that is read is known by their octets.                  *)
(***************************************************************************)
EXTENDS Integers, Sequences, SequencesExt

CONSTANTS
    Radix,          \* 256
    Widths,         \* <<2, 4, 8>>: octets of a number behind each of its three tags
    MaxSafe,        \* Number.MAX_SAFE_INTEGER
    ManyElements,   \* 1_000_000
    MaxMessage,     \* MAX_FRAME_BYTES
    Characters,     \* the characters that UTF-8 has, each as its octets
    Bom,            \* of them U+FEFF, the byte order mark
    Replacement,    \* and U+FFFD
    Lone,           \* a surrogate without its pair: JavaScript's strings have those
    Utf8,           \* octet sequences that a fatal TextDecoder accepts
    Fields,         \* the fields of all layouts, those within others included
    Server,         \* the layout behind each message tag of the server
    Client,         \* messages that the client may encode: sequences of parts
    MaxForeign      \* bound: octets of a payload the client has not encoded

Digit == 0 .. Radix - 1

\* Radix ^ n.
Power[n \in Nat] == IF n = 0 THEN 1 ELSE Radix * Power[n - 1]

ASSUME CodecAssumption ==
    /\ Radix \in Nat /\ Radix > 6
    /\ Widths \in [1 .. 3 -> Nat \ {0}]
    /\ Widths[1] < Widths[2] /\ Widths[2] < Widths[3]
    /\ {MaxSafe, ManyElements, MaxMessage} \subseteq 0 .. Power[Widths[3]] - 1
    /\ MaxForeign \in Nat
    /\ Utf8 \subseteq Seq(Digit)

\* No character's octets begin another's.
ASSUME CharactersAssumption ==
    /\ Characters \subseteq Seq(Digit) \ {<<>>}
    /\ {Bom, Replacement} \subseteq Characters
    /\ Bom # Replacement
    /\ Lone \notin Characters
    /\ \A c, d \in Characters : IsPrefix(c, d) => c = d

VARIABLES
    message,    \* the payload being decoded
    intended,   \* the parts it was encoded from, <<>> for any other payload
    offset,     \* EndpointReader.offset
    unread,     \* the fields still to be read
    values,     \* what has been read
    verdict     \* "reading", "accepted", or why the payload is invalid

codecVars == <<message, intended, offset, unread, values, verdict>>

\* A number up to Single is its own octet; larger ones are behind one of three tags.
Single == Radix - 6
Most(tag) == Power[Widths[tag]] - 1

-----------------------------------------------------------------------------
(* Encoding.  A part is a single octet, a number or a text; an optional     *)
(* part is the octet 0, or the octet 1 and the part.                        *)

LittleEndian(n, width) == [i \in 1 .. width |-> (n \div Power[i - 1]) % Radix]

\* Mutant: 65536 is taken to fit the two octets of the first tag.
NeedsTag_OffByOne(n, tag) ==
    /\ n <= Most(tag) + 1
    /\ tag > 1 => n > Most(tag - 1) + 1

\* The tag with the fewest octets that hold n.
NeedsTag(n, tag) ==
    /\ n <= Most(tag)
    /\ tag > 1 => n > Most(tag - 1)

\* encodeUnsigned.
Unsigned(n) ==
    IF n <= Single THEN <<n>>
    ELSE LET tag == CHOOSE t \in 1 .. 3 : NeedsTag(n, t)
         IN <<Single + tag>> \o LittleEndian(n, Widths[tag])

\* Buffer.from(text, "utf8"): what UTF-8 does not have is replaced.
Written(characters) ==
    FlattenSeq([i \in DOMAIN characters |->
                   IF characters[i] = Lone THEN Replacement ELSE characters[i]])

\* Buffer.from([octet]) keeps the low octet; encodeUnsigned; encodeText.
Encoded(part) ==
    CASE part.kind = "octet" -> <<part.value % Radix>>
      [] part.kind = "number" -> Unsigned(part.value)
      [] part.kind = "text" -> LET octets == Written(part.characters)
                               IN Unsigned(Len(octets)) \o octets

Payload(parts) == FlattenSeq([i \in DOMAIN parts |-> Encoded(parts[i])])

-----------------------------------------------------------------------------
(* Fields, one kind for each way EndpointReader reads.                      *)

ByteField == [kind |-> "octet", below |-> Radix]
Bool == [kind |-> "octet", below |-> 2]
Uint64 == [kind |-> "number", tags |-> 3, maximum |-> Most(3)]
Uint == [kind |-> "number", tags |-> 3, maximum |-> MaxSafe]
U16 == [kind |-> "number", tags |-> 1, maximum |-> Most(1)]
U32 == [kind |-> "number", tags |-> 2, maximum |-> Most(2)]
I32 == [kind |-> "signed"]
Data == [kind |-> "data", text |-> FALSE]
Text == [kind |-> "data", text |-> TRUE]
Optional(fields) == [kind |-> "optional", fields |-> fields]
Array(fields) == [kind |-> "array", fields |-> fields]

\* One of a list, counted from 0, with the fields behind it.
Choice(layouts) ==
    [kind |-> "choice", of |-> [i \in 0 .. Len(layouts) - 1 |-> layouts[i + 1]],
     otherwise |-> "framing"]

\* The message itself, chosen by its tag.
Tagged == [kind |-> "choice", of |-> Server, otherwise |-> "unsupported_message"]

\* A field, with all that it contains; the elements of an array have at least one.
IsField(field) ==
    \/ field \in [kind : {"octet"}, below : 1 .. Radix]
    \/ /\ field \in [kind : {"number"}, tags : 1 .. 3, maximum : Nat]
       /\ field.maximum <= Most(field.tags)
    \/ field = I32
    \/ field \in [kind : {"data"}, text : BOOLEAN]
    \/ field \in [kind : {"optional"}, fields : Seq(Fields)]
    \/ field \in [kind : {"array"}, fields : Seq(Fields) \ {<<>>}]
    \/ /\ field.kind = "choice"
       /\ field.of \in [DOMAIN field.of -> Seq(Fields)]
       /\ field.otherwise = "framing"

ASSUME FieldsAssumption ==
    /\ \A field \in Fields : IsField(field)
    /\ Server \in [DOMAIN Server -> Seq(Fields)]

Repeated(fields, times) == FlattenSeq([i \in 1 .. times |-> fields])

-----------------------------------------------------------------------------
(* EndpointReader.                                                          *)

\* frameEndpointPayload refuses what is too long; a foreign payload is anything.
CodecInit ==
    /\ \/ /\ intended \in {parts \in Client : Len(Payload(parts)) <= MaxMessage}
          /\ message = Payload(intended)
       \/ /\ intended = <<>>
          /\ \E n \in 0 .. MaxForeign : message \in [1 .. n -> Digit]
    /\ offset = 0
    /\ unread = <<Tagged>>
    /\ values = <<>>
    /\ verdict = "reading"

Left == Len(message) - offset
First == message[offset + 1]

\* byte and bool.
HasOctet(below) == Left >= 1 /\ First < below

\* readUInt16LE, readUInt32LE and readBigUInt64LE.
FromLittleEndian(digits) ==
    LET value[i \in 0 .. Len(digits)] ==
            IF i = Len(digits) THEN 0 ELSE digits[i + 1] + Radix * value[i + 1]
    IN value[0]

\* uint64: the octets of the number at the offset, its tag included, and its value.
NumberSize == IF First <= Single THEN 1 ELSE 1 + Widths[First - Single]
Number ==
    IF First <= Single THEN First
    ELSE FromLittleEndian(SubSeq(message, offset + 2, offset + NumberSize))

HasNumber(tags, maximum) ==
    /\ Left >= 1
    /\ First <= Single + tags
    /\ NumberSize <= Left
    /\ Number <= maximum

Field == Head(unread)
Reading(kind) == verdict = "reading" /\ unread # <<>> /\ Field.kind = kind

\* So many octets are read; they yield numbers, and fields to read next.
TakesOctets(n, yields, fields) ==
    /\ offset' = offset + n
    /\ values' = values \o yields
    /\ unread' = fields \o Tail(unread)
    /\ UNCHANGED <<message, intended, verdict>>

HasByte == Reading("octet") /\ HasOctet(Field.below)
ReadByte == HasByte /\ TakesOctets(1, <<First>>, <<>>)

\* uint, u16, u32, and uint64 itself.
HasUnsigned == Reading("number") /\ HasNumber(Field.tags, Field.maximum)
ReadUnsigned == HasUnsigned /\ TakesOctets(NumberSize, <<Number>>, <<>>)

\* i32: even numbers are the naturals, odd ones the negative integers.
HasSigned == Reading("signed") /\ HasNumber(2, Most(2))
ReadSigned ==
    /\ HasSigned
    /\ LET signed == IF Number % 2 = 0 THEN Number \div 2 ELSE -((Number + 1) \div 2)
       IN TakesOctets(NumberSize, <<signed>>, <<>>)

\* What data and text return: the TextDecoder takes one byte order mark off the front.
Kept(field, octets) ==
    IF field.text /\ IsPrefix(Bom, octets)
    THEN SubSeq(octets, Len(Bom) + 1, Len(octets))
    ELSE octets
Counted(octets) == <<Len(octets)>> \o octets

\* data and text: a length, then the octets.
Contents == SubSeq(message, offset + NumberSize + 1, offset + NumberSize + Number)

HasData ==
    /\ Reading("data")
    /\ HasNumber(3, MaxMessage)
    /\ Number <= Left - NumberSize
    /\ Field.text => Contents \in Utf8
ReadData == HasData /\ TakesOctets(NumberSize + Number, Counted(Kept(Field, Contents)), <<>>)

HasOptional == Reading("optional") /\ HasOctet(2)
ReadOptional ==
    /\ HasOptional
    /\ TakesOctets(1, <<First>>, IF First = 1 THEN Field.fields ELSE <<>>)

\* The count is limited by what was left before it was read.
Elements == IF Left < ManyElements THEN Left ELSE ManyElements
HasArray == Reading("array") /\ HasNumber(3, Elements)
ReadArray ==
    /\ HasArray
    /\ TakesOctets(NumberSize, <<Number>>, Repeated(Field.fields, Number))

\* choice, and the fields that depend on it; the message's own tag.
HasTag == Reading("choice") /\ HasNumber(2, Most(2))
HasChoice == HasTag /\ Number \in DOMAIN Field.of
ReadChoice == HasChoice /\ TakesOctets(NumberSize, <<Number>>, Field.of[Number])

Concludes(outcome) ==
    /\ verdict' = outcome
    /\ UNCHANGED <<message, intended, offset, unread, values>>

NotChosen == HasTag /\ ~HasChoice /\ Concludes(Field.otherwise)

Readable ==
    \/ HasByte \/ HasUnsigned \/ HasSigned \/ HasData
    \/ HasOptional \/ HasArray \/ HasTag

\* Any read may throw: too few octets, a tag or a value that is too large, bad UTF-8.
FieldRefused ==
    /\ verdict = "reading"
    /\ unread # <<>>
    /\ ~Readable
    /\ Concludes("framing")

\* Mutant: octets behind the last field are not looked at.
Exhausted_Unchecked == TRUE

Exhausted == offset = Len(message)

\* finish.
Finish ==
    /\ verdict = "reading"
    /\ unread = <<>>
    /\ Concludes(IF Exhausted THEN "accepted" ELSE "framing")

CodecNext ==
    \/ ReadByte \/ ReadUnsigned \/ ReadSigned \/ ReadData
    \/ ReadOptional \/ ReadArray \/ ReadChoice
    \/ NotChosen \/ FieldRefused \/ Finish

CodecSpec == CodecInit /\ [][CodecNext]_codecVars
=============================================================================
