-------------------------- MODULE EndpointCodecProps --------------------------
(***************************************************************************)
(* The correctness properties of EndpointCodec, against the language of    *)
(* its layouts: which octets spell which values, defined field by field    *)
(* without an offset or a reader.                                          *)
(***************************************************************************)
EXTENDS EndpointCodec, FiniteSetsExt

\* The offset stays within the payload, and the reader never runs out of it before
\* its fields.
CodecTypeOK ==
    /\ message \in Seq(Digit)
    /\ intended = <<>> \/ intended \in Client
    /\ offset \in 0 .. Len(message)
    /\ values \in Seq(Int)
    /\ verdict \in {"reading", "accepted", "framing", "unsupported_message"}

-----------------------------------------------------------------------------
Spelling(octets, read) == [octets |-> octets, read |-> read]
Then(s, t) == Spelling(s.octets \o t.octets, s.read \o t.read)

Short(spellings, n) == {s \in spellings : Len(s.octets) <= n}

\* The value of digits, the least significant first.
Value(digits) == SumFunction([i \in DOMAIN digits |-> digits[i] * Power[i - 1]])

\* The spellings of the naturals up to a maximum; all but the shortest are redundant,
\* but accepted.
Numbers(tags, maximum) ==
    LET bare == {Spelling(<<d>>, <<d>>) : d \in 0 .. Single}
        behind(tag) == {Spelling(<<Single + tag>> \o digits, <<Value(digits)>>) :
                            digits \in [1 .. Widths[tag] -> Digit]}
    IN {s \in bare \cup UNION {behind(tag) : tag \in 1 .. tags} : s.read[1] <= maximum}

\* An integer z is spelled as 2z, a negative one as -2z - 1.
Zigzag(spelling) ==
    LET m == spelling.read[1]
        z == CHOOSE z \in -m .. m : m = IF z < 0 THEN -2 * z - 1 ELSE 2 * z
    IN Spelling(spelling.octets, <<z>>)

Octets(below) == {Spelling(<<d>>, <<d>>) : d \in 0 .. below - 1}

\* What a field itself may be spelled as, data only if shorter than n.
Tokens(field, n) ==
    CASE field.kind = "octet" -> Octets(field.below)
      [] field.kind = "number" -> Numbers(field.tags, field.maximum)
      [] field.kind = "signed" -> {Zigzag(s) : s \in Numbers(2, Most(2))}
      [] field.kind = "data" ->
            UNION {{Spelling(count.octets \o octets, Counted(Kept(field, octets))) :
                        octets \in {o \in [1 .. count.read[1] -> Digit] :
                                        field.text => o \in Utf8}} :
                    count \in {c \in Numbers(3, MaxMessage) : c.read[1] < n}}
      [] field.kind = "optional" -> Octets(2)
      [] field.kind = "array" -> Numbers(3, ManyElements)
      [] field.kind = "choice" ->
            {t \in Numbers(2, Most(2)) : t.read[1] \in DOMAIN field.of}

\* The fields that it then contains.
Within(field, read) ==
    CASE field.kind = "optional" -> IF read[1] = 1 THEN field.fields ELSE <<>>
      [] field.kind = "array" -> Repeated(field.fields, read[1])
      [] field.kind = "choice" -> field.of[read[1]]
      [] OTHER -> <<>>

\* What a sequence of fields may be spelled as in at most n octets: the first field
\* itself, what is within it, and the others.
Spellings[n \in Nat] ==
    [fields \in Seq(Fields \cup {Tagged}) |->
        IF fields = <<>> THEN {Spelling(<<>>, <<>>)}
        ELSE LET field == Head(fields)
                 first == Short(Tokens(field, n), n)
                 whole == UNION {{Then(token, s) :
                                    s \in Spellings[n - Len(token.octets)]
                                                   [Within(field, token.read)]} :
                                 token \in first}
             IN UNION {{Then(s, t) : t \in Spellings[n - Len(s.octets)][Tail(fields)]} :
                        s \in Short(whole, n)}]

Language == Spellings[MaxForeign][<<Tagged>>]
Words == {s.octets : s \in Language}

-----------------------------------------------------------------------------
\* decodeEndpointMessage accepts exactly the payloads that spell a message, and reads
\* what they spell: no prefix, no extension, no tag or value beyond its type, and no
\* list refused that its payload holds all of (the limit of array).
ReadsTheLanguage ==
    intended = <<>> =>
        /\ verdict = "accepted" => Spelling(message, values) \in Language
        /\ verdict \notin {"reading", "accepted"} => message \notin Words

-----------------------------------------------------------------------------
\* A text without the byte order mark in front of it.
Unmarked(characters) ==
    IF characters # <<>> /\ Head(characters) = Bom THEN Tail(characters) ELSE characters

\* What is left of a part once it has been encoded and read: a text loses a byte order
\* mark in front, and each of its lone surrogates has become a Replacement.
Meaning(part) ==
    CASE part.kind = "octet" -> <<part.value>>
      [] part.kind = "number" -> <<part.value>>
      [] part.kind = "text" -> Counted(Written(Unmarked(part.characters)))

\* The part is one that the field's type has.
Suits(part, field) ==
    \/ /\ part.kind = "octet"
       /\ \/ field.kind = "octet" /\ part.value \in 0 .. field.below - 1
          \/ field.kind = "optional" /\ part.value \in 0 .. 1
    \/ /\ part.kind = "number"
       /\ \/ field.kind = "number" /\ part.value \in 0 .. field.maximum
          \/ field.kind = "array" /\ part.value \in 0 .. ManyElements
          \/ /\ field.kind = "choice"
             /\ part.value \in 0 .. Most(2) /\ part.value \in DOMAIN field.of
    \/ /\ part.kind = "text" /\ field.kind = "data" /\ field.text
       /\ part.characters \in Seq(Characters \cup {Lone})
       /\ Len(Written(part.characters)) <= MaxMessage
       /\ Written(part.characters) \in Utf8

\* The parts follow a layout of the reader: each is of the type of the field that
\* those before it leave to be written.
Follows(parts) ==
    LET ahead[i \in 0 .. Len(parts)] ==
            IF i = 0 THEN <<Tagged>>
            ELSE Within(Head(ahead[i - 1]), Meaning(parts[i])) \o Tail(ahead[i - 1])
    IN /\ \A i \in 1 .. Len(parts) :
             ahead[i - 1] # <<>> /\ Suits(parts[i], Head(ahead[i - 1]))
       /\ ahead[Len(parts)] = <<>>

\* Client is what the reader has layouts for, such as the named control.
ASSUME ClientAssumption ==
    \A parts \in Client : parts \in Seq(Range(parts)) /\ Follows(parts)

\* A message that the client encodes is read back, at the ends of every width too: its
\* numbers as they were, its texts but for what UTF-8 and the TextDecoder take from
\* them, lone surrogates and a byte order mark in front (encodeUnsigned, encodeText,
\* encodeOptional, uint64, text).
WrittenIsRead ==
    intended # <<>> =>
        /\ verdict \in {"reading", "accepted"}
        /\ verdict = "accepted" =>
              values = FlattenSeq([i \in DOMAIN intended |-> Meaning(intended[i])])
=============================================================================
