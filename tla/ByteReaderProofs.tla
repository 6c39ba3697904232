--------------------------- MODULE ByteReaderProofs ---------------------------
(***************************************************************************)
(* FrameReader and EventStream implement ByteFeed, for every alphabet,     *)
(* every limit and every way the bytes are cut, and all three readers stay *)
(* within their limits.                                                    *)
(***************************************************************************)
EXTENDS ByteReaders, EndpointCodecProofs

-----------------------------------------------------------------------------
(* Octets and what the wire carries, put together.                          *)

LEMMA OctetsAssociate == \A p, q, r \in Seq(Octet) : (p \o q) \o r = p \o (q \o r)
  BY ONLY Associates

LEMMA WireAssociates == \A p, q, r \in Seq(Wire) : (p \o q) \o r = p \o (q \o r)
  BY ONLY Associates

-----------------------------------------------------------------------------
(* The length in a header.                                                  *)

IsValue(f, octets) ==
    f = [i \in 0 .. HeaderSize |->
            IF i = HeaderSize THEN 0 ELSE octets[i + 1] + Base * f[i + 1]]

LEMMA LengthIsValue ==
    ASSUME NEW octets
    PROVE  LengthIn(octets) = (CHOOSE f : IsValue(f, octets))[0]
  BY DEF LengthIn, IsValue

\* It is in the header's octets alone.
LEMMA LengthOfSame ==
    ASSUME NEW a, NEW b, \A i \in 1 .. HeaderSize : a[i] = b[i]
    PROVE  LengthIn(a) = LengthIn(b)
  <1>1. \A i \in 0 .. HeaderSize : i # HeaderSize => a[i + 1] = b[i + 1]
    BY FramesAssumption
  <1>2. \A f : IsValue(f, a) <=> IsValue(f, b)
    BY <1>1 DEF IsValue
  <1>3. QED
    BY <1>2, LengthIsValue

\* The recursion from the last octet down to the first is defined.
LEMMA LengthIsNumber ==
    ASSUME NEW octets, \A i \in 1 .. HeaderSize : octets[i] \in Octet
    PROVE  LengthIn(octets) \in Nat
  <1> DEFINE ReadsFrom(f, k) ==
                /\ f \in [k .. HeaderSize -> Nat]
                /\ \A i \in k .. HeaderSize :
                      f[i] = IF i = HeaderSize THEN 0 ELSE octets[i + 1] + Base * f[i + 1]
             G == {n \in Nat : n <= HeaderSize => \E f : ReadsFrom(f, HeaderSize - n)}
  <1>1. HeaderSize \in Nat /\ Base \in Nat
    BY FramesAssumption
  <1>2. 0 \in G
    <2> DEFINE f == [i \in HeaderSize .. HeaderSize |-> 0]
    <2>1. ReadsFrom(f, HeaderSize)
      BY <1>1
    <2>2. HeaderSize - 0 = HeaderSize
      BY <1>1
    <2> HIDE DEF ReadsFrom
    <2>3. QED
      BY <2>1, <2>2
  <1>3. ASSUME NEW n \in Nat, n \in G PROVE n + 1 \in G
    <2> SUFFICES ASSUME n + 1 <= HeaderSize PROVE \E f : ReadsFrom(f, HeaderSize - (n + 1))
      OBVIOUS
    <2> DEFINE k == HeaderSize - (n + 1)
    <2>1. k \in Nat /\ k + 1 = HeaderSize - n /\ k < HeaderSize /\ n <= HeaderSize
      BY <1>1
    <2> HIDE DEF k
    <2>2. PICK f : ReadsFrom(f, k + 1)
      BY <1>3, <2>1
    <2>3. octets[k + 1] \in Nat /\ f[k + 1] \in Nat
      BY <1>1, <2>1, <2>2, FramesAssumption DEF Octet
    <2>4. Base * f[k + 1] \in Nat
      BY <1>1, <2>3
    <2> DEFINE v == octets[k + 1] + Base * f[k + 1]
               g == [i \in k .. HeaderSize |-> IF i = k THEN v ELSE f[i]]
    <2>5. v \in Nat
      BY <2>3, <2>4
    <2> HIDE DEF v
    <2>6. /\ g \in [k .. HeaderSize -> Nat] /\ g[k] = v
          /\ \A i \in k + 1 .. HeaderSize : g[i] = f[i]
      BY <1>1, <2>1, <2>2, <2>5
    <2> HIDE DEF g
    <2>7. ASSUME NEW i \in k .. HeaderSize
          PROVE  g[i] = IF i = HeaderSize THEN 0 ELSE octets[i + 1] + Base * g[i + 1]
      <3>1. CASE i = k
        <4>1. g[i] = octets[k + 1] + Base * f[k + 1]
          BY <2>6, <3>1 DEF v
        <4>2. g[i + 1] = f[k + 1] /\ i # HeaderSize
          BY <1>1, <2>1, <2>6, <3>1
        <4>3. QED
          BY <3>1, <4>1, <4>2
      <3>2. CASE i # k
        <4>1. i \in k + 1 .. HeaderSize /\ g[i] = f[i]
          BY <1>1, <2>1, <2>6, <3>2
        <4>2. f[i] = IF i = HeaderSize THEN 0 ELSE octets[i + 1] + Base * f[i + 1]
          BY <2>2, <4>1
        <4>3. i # HeaderSize => g[i + 1] = f[i + 1]
          BY <1>1, <2>1, <2>6, <4>1
        <4>4. QED
          BY <4>1, <4>2, <4>3
      <3>3. QED
        BY <3>1, <3>2
    <2>8. ReadsFrom(g, k)
      BY <2>6, <2>7
    <2> HIDE DEF ReadsFrom
    <2>9. QED
      BY <2>8 DEF k
  <1>4. Nat \subseteq G
    <2> HIDE DEF G
    <2>1. QED
      BY <1>2, <1>3, NumberInduction
  <1>5. PICK f : ReadsFrom(f, 0)
    <2>1. HeaderSize \in G /\ HeaderSize - HeaderSize = 0
      BY <1>1, <1>4
    <2> HIDE DEF ReadsFrom
    <2>2. QED
      BY <1>1, <2>1
  <1>6. IsValue(f, octets)
    <2>1. f = [i \in 0 .. HeaderSize |-> f[i]]
      BY <1>5
    <2>2. QED
      BY <1>5, <2>1 DEF IsValue
  <1> DEFINE chosen == CHOOSE g : IsValue(g, octets)
  <1>7. IsValue(chosen, octets)
    BY <1>6
  <1> HIDE DEF chosen
  <1> DEFINE H == {n \in Nat : n <= HeaderSize => chosen[HeaderSize - n] \in Nat}
  <1>8. \A i \in 0 .. HeaderSize :
           chosen[i] = IF i = HeaderSize THEN 0 ELSE octets[i + 1] + Base * chosen[i + 1]
    BY <1>7 DEF IsValue
  <1>9. 0 \in H
    BY <1>1, <1>8
  <1>10. ASSUME NEW n \in Nat, n \in H PROVE n + 1 \in H
    <2> SUFFICES ASSUME n + 1 <= HeaderSize PROVE chosen[HeaderSize - (n + 1)] \in Nat
      OBVIOUS
    <2> DEFINE k == HeaderSize - (n + 1)
    <2>1. k \in 0 .. HeaderSize /\ k # HeaderSize /\ k + 1 = HeaderSize - n
          /\ n <= HeaderSize
      BY <1>1
    <2> HIDE DEF k
    <2>2. chosen[k + 1] \in Nat
      BY <1>10, <2>1
    <2>3. octets[k + 1] \in Nat
      BY <1>1, <2>1, FramesAssumption DEF Octet
    <2>4. Base * chosen[k + 1] \in Nat
      BY <1>1, <2>2
    <2>5. chosen[k] = octets[k + 1] + Base * chosen[k + 1]
      BY <1>8, <2>1
    <2>6. QED
      BY <2>3, <2>4, <2>5 DEF k
  <1>11. Nat \subseteq H
    <2> HIDE DEF H
    <2>1. QED
      BY <1>9, <1>10, NumberInduction
  <1>12. chosen[0] \in Nat
    <2>1. HeaderSize \in H /\ HeaderSize - HeaderSize = 0
      BY <1>1, <1>11
    <2>2. QED
      BY <1>1, <2>1
  <1>13. QED
    BY <1>12, LengthIsValue DEF chosen

-----------------------------------------------------------------------------
(* The frame reader's buffers.                                              *)

\* The payload has the length that the header says.
FrameInv == FrameTypeOK /\ (payload # <<>> => LengthIn(header) = Len(payload))

\* A buffer with the first octets of the chunk behind its own.
IsFilled(filled, target, start, count) ==
    /\ filled \in Seq(Octet)
    /\ Len(filled) = Len(target)
    /\ SubSeq(filled, 1, start + count) = SubSeq(target, 1, start) \o SubSeq(block, 1, count)

LEMMA FilledIs ==
    ASSUME NEW target \in Seq(Octet), NEW start \in Nat, NEW count \in Nat,
           start + count <= Len(target), count <= Len(block), block \in Seq(Octet)
    PROVE  IsFilled(Filled(target, start, count), target, start, count)
  <1> DEFINE filled == Filled(target, start, count)
  <1>1. /\ Len(target) \in Nat /\ DOMAIN target = 1 .. Len(target) /\ Len(block) \in Nat
        /\ \A i \in 1 .. Len(target) : target[i] \in Octet
        /\ \A i \in 1 .. Len(block) : block[i] \in Octet
    BY LenProperties, ElementOfSeq
  <1>2. filled = [i \in 1 .. Len(target) |->
                    IF start < i /\ i <= start + count THEN block[i - start] ELSE target[i]]
    BY <1>1 DEF Filled
  <1> HIDE DEF filled
  <1>3. \A i \in 1 .. Len(target) : filled[i] \in Octet
    BY <1>1, <1>2
  <1>4. filled \in Seq(Octet) /\ Len(filled) = Len(target)
    <2>1. filled \in [1 .. Len(target) -> Octet]
      BY <1>2, <1>3
    <2>2. filled \in Seq(Octet)
      BY <1>1, <2>1, SeqDef
    <2>3. DOMAIN filled = 1 .. Len(filled) /\ Len(filled) \in Nat
      BY <2>2, LenProperties
    <2>4. DOMAIN filled = 1 .. Len(target)
      BY <1>2
    <2>5. \A m, n \in Nat : 1 .. m = 1 .. n => m = n
      OBVIOUS
    <2>6. QED
      BY ONLY <1>1, <2>2, <2>3, <2>4, <2>5
  <1> DEFINE left == SubSeq(target, 1, start)
             right == SubSeq(block, 1, count)
             all == SubSeq(filled, 1, start + count)
  <1>5. /\ left \in Seq(Octet) /\ Len(left) = start /\ \A i \in 1 .. start : left[i] = target[i]
        /\ right \in Seq(Octet) /\ Len(right) = count /\ \A i \in 1 .. count : right[i] = block[i]
        /\ all \in Seq(Octet) /\ Len(all) = start + count
        /\ \A i \in 1 .. start + count : all[i] = filled[i]
    <2>1. start \in 0 .. Len(target) /\ count \in 0 .. Len(block)
          /\ start + count \in 0 .. Len(filled)
      BY <1>1, <1>4
    <2>2. QED
      BY <1>4, <2>1, Cuts
  <1> HIDE DEF left, right, all
  <1>6. /\ left \o right \in Seq(Octet) /\ Len(left \o right) = start + count
        /\ \A i \in 1 .. start + count :
              (left \o right)[i] = IF i <= start THEN left[i] ELSE right[i - start]
    <2>1. /\ left \o right \in Seq(Octet) /\ Len(left \o right) = Len(left) + Len(right)
          /\ \A i \in 1 .. Len(left) + Len(right) :
                (left \o right)[i] = IF i <= Len(left) THEN left[i] ELSE right[i - Len(left)]
      BY ONLY <1>5, ConcatProperties
    <2>2. QED
      BY ONLY <1>5, <2>1
  <1>7. \A i \in 1 .. start + count : (left \o right)[i] = all[i]
    <2> SUFFICES ASSUME NEW i \in 1 .. start + count PROVE (left \o right)[i] = all[i]
      OBVIOUS
    <2>1. all[i] = filled[i] /\ i \in 1 .. Len(target)
      BY <1>1, <1>5
    <2>2. CASE i <= start
      <3>1. filled[i] = target[i]
        BY <1>2, <2>1, <2>2
      <3>2. (left \o right)[i] = left[i] /\ left[i] = target[i]
        BY <1>5, <1>6, <2>2
      <3>3. QED
        BY <2>1, <3>1, <3>2
    <2>3. CASE start < i
      <3>1. filled[i] = block[i - start]
        BY <1>2, <2>1, <2>3
      <3>2. (left \o right)[i] = right[i - start] /\ right[i - start] = block[i - start]
        BY <1>5, <1>6, <2>3
      <3>3. QED
        BY <2>1, <3>1, <3>2
    <2>4. i <= start \/ start < i
      OBVIOUS
    <2>5. QED
      BY ONLY <2>2, <2>3, <2>4
  <1>8. all = left \o right
    <2> DEFINE joined == left \o right
    <2>1. joined \in Seq(Octet) /\ Len(joined) = Len(all)
      BY <1>5, <1>6
    <2>2. \A i \in 1 .. Len(all) : all[i] = joined[i]
      BY <1>5, <1>7
    <2> HIDE DEF joined
    <2>3. all = joined
      BY <1>5, <2>1, <2>2, SeqEqual
    <2>4. QED
      BY <2>3 DEF joined
  <1>9. QED
    BY <1>4, <1>8 DEF left, right, all, filled, IsFilled

LEMMA FrameTypes ==
    ASSUME FrameTypeOK
    PROVE  /\ header \in Seq(Octet) /\ Len(header) = HeaderSize /\ HeaderSize \in Nat \ {0}
           /\ payload \in Seq(Octet) /\ Len(payload) \in Nat /\ block \in Seq(Octet)
           /\ Len(block) \in Nat /\ inbound \in Seq(Octet) /\ Len(inbound) \in Nat
           /\ headerOffset \in 0 .. HeaderSize - 1 /\ payloadOffset \in Nat
           /\ MaxPayload \in Nat
           /\ block # <<>> => Len(block) > 0
           /\ payload # <<>> => payloadOffset < Len(payload) /\ headerOffset = 0
           /\ payload = <<>> => payloadOffset = 0
  <1>1. header \in Seq(Octet) /\ Len(header) = HeaderSize /\ HeaderSize \in Nat \ {0}
    <2>1. HeaderSize \in Nat \ {0} /\ header \in [1 .. HeaderSize -> Octet]
      BY FramesAssumption DEF FrameTypeOK
    <2>2. header \in Seq(Octet)
      BY <2>1, SeqDef
    <2>3. DOMAIN header = 1 .. Len(header) /\ Len(header) \in Nat
      BY <2>2, LenProperties
    <2>4. QED
      BY <2>1, <2>2, <2>3
  <1>2. /\ payload \in Seq(Octet) /\ block \in Seq(Octet) /\ inbound \in Seq(Octet)
    BY DEF FrameTypeOK
  <1>3. Len(payload) \in Nat /\ Len(block) \in Nat /\ Len(inbound) \in Nat
        /\ (block # <<>> => Len(block) > 0)
    BY <1>2, LenProperties, EmptySeq
  <1>4. QED
    BY <1>1, <1>2, <1>3, FramesAssumption DEF FrameTypeOK

\* All octets that are not yet part of a message.
Pending == Buffered \o block \o inbound

LEMMA PendingTypes ==
    ASSUME FrameTypeOK
    PROVE  /\ Buffered \in Seq(Octet) /\ Pending \in Seq(Octet)
           /\ Len(Buffered) = IF payload = <<>> THEN headerOffset ELSE HeaderSize + payloadOffset
  <1> DEFINE h == SubSeq(header, 1, headerOffset)
             p == SubSeq(payload, 1, payloadOffset)
  <1>1. h \in Seq(Octet) /\ Len(h) = headerOffset
    BY FrameTypes, Cuts
  <1>2. payload # <<>> => p \in Seq(Octet) /\ Len(p) = payloadOffset
    <2>1. payload # <<>> => payloadOffset \in 0 .. Len(payload)
      BY FrameTypes
    <2>2. QED
      BY <2>1, FrameTypes, Cuts
  <1> HIDE DEF h, p
  <1>3. payload # <<>> => header \o p \in Seq(Octet) /\ Len(header \o p) = HeaderSize + payloadOffset
    BY <1>2, FrameTypes, ConcatProperties
  <1>4. Buffered = IF payload = <<>> THEN h ELSE header \o p
    BY DEF Buffered, h, p
  <1>5. /\ Buffered \in Seq(Octet)
        /\ Len(Buffered) = IF payload = <<>> THEN headerOffset ELSE HeaderSize + payloadOffset
    BY <1>1, <1>3, <1>4
  <1>6. Pending \in Seq(Octet)
    BY <1>5, FrameTypes, ConcatProperties DEF Pending
  <1>7. QED
    BY <1>5, <1>6

\* What a turn of the loop copies into the header.
LEMMA HeaderFills ==
    ASSUME FrameTypeOK, FillingHeader
    PROVE  /\ HeaderCount \in Nat /\ headerOffset + HeaderCount <= HeaderSize
           /\ HeaderFilled \in Seq(Octet) /\ Len(HeaderFilled) = HeaderSize
           /\ HeaderFilled \in [1 .. HeaderSize -> Octet]
           /\ After(block, HeaderCount) \in Seq(Octet)
           /\ Pending = SubSeq(HeaderFilled, 1, headerOffset + HeaderCount)
                          \o After(block, HeaderCount) \o inbound
  <1>1. /\ header \in Seq(Octet) /\ Len(header) = HeaderSize /\ HeaderSize \in Nat
        /\ block \in Seq(Octet) /\ Len(block) \in Nat /\ inbound \in Seq(Octet)
        /\ headerOffset \in 0 .. HeaderSize - 1
    BY FrameTypes
  <1>2. /\ HeaderCount \in Nat /\ headerOffset + HeaderCount <= HeaderSize
        /\ HeaderCount <= Len(block)
    BY <1>1 DEF HeaderCount, Smaller
  <1> DEFINE count == HeaderCount
             filled == HeaderFilled
  <1>3. /\ filled \in Seq(Octet) /\ Len(filled) = HeaderSize
        /\ SubSeq(filled, 1, headerOffset + count)
             = SubSeq(header, 1, headerOffset) \o SubSeq(block, 1, count)
    <2>1. IsFilled(HeaderFilled, header, headerOffset, HeaderCount)
      BY <1>1, <1>2, FilledIs DEF HeaderFilled
    <2>2. QED
      BY <1>1, <2>1 DEF IsFilled
  <1>4. filled \in [1 .. HeaderSize -> Octet]
    BY <1>3, LenProperties
  <1>5. Buffered = SubSeq(header, 1, headerOffset)
    BY DEF FillingHeader, Buffered
  <1> HIDE DEF count, filled
  <1> DEFINE b == Buffered
  <1>6. b \in Seq(Octet)
    BY PendingTypes
  <1>7. count \in 0 .. Len(block)
    BY <1>1, <1>2 DEF count
  <1> HIDE DEF b
  <1> DEFINE taken == SubSeq(block, 1, count)
             left == SubSeq(block, count + 1, Len(block))
  <1>8. taken \in Seq(Octet) /\ left \in Seq(Octet)
    BY <1>1, <1>7, Cuts
  <1>9. taken \o left = block
    BY <1>1, <1>7, Cuts
  <1> HIDE DEF taken, left
  <1>10. (b \o taken) \o left = b \o (taken \o left)
    BY <1>6, <1>8, ConcatAssociative
  <1>11. b \o taken = SubSeq(filled, 1, headerOffset + count)
    BY <1>3, <1>5 DEF b, taken
  <1>12. Pending = SubSeq(filled, 1, headerOffset + count) \o left \o inbound
    BY <1>9, <1>10, <1>11 DEF b, Pending
  <1>13. left = After(block, count)
    BY DEF left, After
  <1>14. QED
    BY <1>2, <1>3, <1>4, <1>8, <1>12, <1>13 DEF count, filled

\* And into the payload.
LEMMA PayloadFills ==
    ASSUME FrameTypeOK, FillingPayload
    PROVE  /\ PayloadCount \in Nat /\ payloadOffset + PayloadCount <= Len(payload)
           /\ PayloadFilled \in Seq(Octet) /\ Len(PayloadFilled) = Len(payload)
           /\ After(block, PayloadCount) \in Seq(Octet)
           /\ Pending = (header \o SubSeq(PayloadFilled, 1, payloadOffset + PayloadCount))
                          \o After(block, PayloadCount) \o inbound
  <1>1. /\ header \in Seq(Octet) /\ payload \in Seq(Octet) /\ Len(payload) \in Nat
        /\ block \in Seq(Octet) /\ Len(block) \in Nat /\ inbound \in Seq(Octet)
        /\ payloadOffset \in Nat /\ payloadOffset < Len(payload)
    BY FrameTypes DEF FillingPayload
  <1>2. /\ PayloadCount \in Nat /\ payloadOffset + PayloadCount <= Len(payload)
        /\ PayloadCount <= Len(block)
    BY <1>1 DEF PayloadCount, Smaller
  <1> DEFINE count == PayloadCount
             filled == PayloadFilled
             p == SubSeq(payload, 1, payloadOffset)
             taken == SubSeq(block, 1, count)
             b == Buffered
  <1>3. /\ filled \in Seq(Octet) /\ Len(filled) = Len(payload)
        /\ SubSeq(filled, 1, payloadOffset + count) = p \o taken
    <2>1. IsFilled(PayloadFilled, payload, payloadOffset, PayloadCount)
      BY <1>1, <1>2, FilledIs DEF PayloadFilled
    <2>2. QED
      BY <1>1, <2>1 DEF IsFilled
  <1>4. b = header \o p
    BY DEF FillingPayload, Buffered
  <1> HIDE DEF count, filled
  <1>5. count \in 0 .. Len(block) /\ payloadOffset \in 0 .. Len(payload)
    BY <1>1, <1>2 DEF count
  <1>6. b \in Seq(Octet)
    BY PendingTypes
  <1>7. p \in Seq(Octet) /\ taken \in Seq(Octet)
    BY <1>1, <1>5, Cuts
  <1> DEFINE left == SubSeq(block, count + 1, Len(block))
  <1>8. left \in Seq(Octet) /\ left = After(block, count)
    BY <1>1, <1>5, Cuts DEF After
  <1>9. taken \o left = block
    BY <1>1, <1>5, Cuts
  <1> HIDE DEF b, p, taken, left
  <1>10. (b \o taken) \o left = b \o (taken \o left)
    BY <1>6, <1>7, <1>8, ConcatAssociative
  <1>11. (header \o p) \o taken = header \o (p \o taken)
    BY <1>1, <1>7, OctetsAssociate
  <1>12. b \o taken = header \o SubSeq(filled, 1, payloadOffset + count)
    BY <1>3, <1>4, <1>11
  <1>13. Pending = (header \o SubSeq(filled, 1, payloadOffset + count)) \o left \o inbound
    BY <1>10, <1>12, <1>9 DEF b, Pending
  <1>14. QED
    BY <1>2, <1>3, <1>8, <1>13 DEF count, filled

-----------------------------------------------------------------------------
(* The types.                                                               *)

\* The payload's buffer, once its length is known.
LEMMA PayloadBegins ==
    ASSUME FrameTypeOK, HeaderEnds
    PROVE  /\ LengthIn(HeaderFilled) \in 1 .. MaxPayload
           /\ payload' \in Seq(Octet) /\ Len(payload') = LengthIn(HeaderFilled)
           /\ payload' # <<>>
  <1> DEFINE length == LengthIn(HeaderFilled)
  <1>1. length \in Nat
    <2>1. HeaderFilled \in [1 .. HeaderSize -> Octet]
      BY HeaderFills DEF HeaderEnds
    <2>2. QED
      BY <2>1, LengthIsNumber
  <1>2. length \in 1 .. MaxPayload
    BY <1>1, FramesAssumption DEF HeaderEnds, LengthFits
  <1>3. payload' = [i \in 1 .. length |-> 0]
    BY DEF HeaderEnds
  <1> HIDE DEF length
  <1>4. payload' \in Seq(Octet)
    <2>1. 0 \in Octet
      BY FramesAssumption DEF Octet
    <2>2. payload' \in [1 .. length -> Octet]
      BY <1>3, <2>1
    <2>3. QED
      BY <1>1, <2>2, SeqDef
  <1>5. Len(payload') = length
    <2>1. DOMAIN payload' = 1 .. Len(payload') /\ Len(payload') \in Nat
      BY <1>4, LenProperties
    <2>2. DOMAIN payload' = 1 .. length
      BY <1>3
    <2>3. \A k, n \in Nat : 1 .. k = 1 .. n => k = n
      OBVIOUS
    <2>4. QED
      BY ONLY <1>1, <2>1, <2>2, <2>3
  <1>6. QED
    BY <1>2, <1>4, <1>5, EmptySeq DEF length

LEMMA FrameInitInv == FrameInit => FrameInv
  <1> SUFFICES ASSUME FrameInit PROVE FrameInv
    OBVIOUS
  <1>1. <<>> \in Seq(Octet) /\ <<>> \in Seq(Messages) /\ Len(<<>>) = 0
    BY EmptySeq
  <1>2. 0 \in Octet /\ 0 \in 0 .. HeaderSize - 1 /\ MaxPayload \in Nat /\ MaxOctets \in Nat
    BY FramesAssumption DEF Octet
  <1>3. header \in [1 .. HeaderSize -> Octet]
    BY <1>2 DEF FrameInit
  <1>4. QED
    BY <1>1, <1>2, <1>3 DEF FrameInit, FrameInv, FrameTypeOK, Live

LEMMA FrameInvStep == FrameInv /\ [FrameNext]_frameVars => FrameInv'
  <1> SUFFICES ASSUME FrameInv, [FrameNext]_frameVars PROVE FrameInv'
    OBVIOUS
  <1>0. FrameTypeOK
    BY DEF FrameInv
  \* A step that leaves the buffers alone.
  <1>1. ASSUME UNCHANGED buffers, sent' \in 0 .. MaxOctets,
               remote' \in {"open", "ended", "destroyed"},
               inbound' \in Seq(Octet), block' \in Seq(Octet),
               status' \in Live \cup FrameCut \cup FrameDecided, received' = received
        PROVE  FrameInv'
    BY <1>1 DEF FrameInv, FrameTypeOK, buffers
  <1>2. /\ <<>> \in Seq(Octet) /\ inbound \in Seq(Octet) /\ block \in Seq(Octet)
        /\ sent \in 0 .. MaxOctets /\ MaxOctets \in Nat
        /\ remote \in {"open", "ended", "destroyed"}
        /\ status \in Live \cup FrameCut \cup FrameDecided
    BY EmptySeq, FramesAssumption DEF FrameInv, FrameTypeOK
  <1>3. ASSUME NEW octet \in Octet, Sends(octet) PROVE FrameInv'
    <2>1. inbound' \in Seq(Octet) /\ sent' \in 0 .. MaxOctets
      BY <1>2, <1>3, AppendProperties DEF Sends
    <2>2. QED
      BY <1>1, <1>2, <1>3, <2>1 DEF Sends
  <1>4. CASE RemoteEnds \/ Destroyed
    BY <1>1, <1>2, <1>4 DEF RemoteEnds, Destroyed
  <1>5. CASE ScopeCloses \/ StreamClosed \/ StreamFails \/ HeaderRefused \/ PayloadRefused
             \/ Unroutable
    <2>1. /\ UNCHANGED <<sent, remote, buffers, received>> /\ inbound' = <<>> /\ block' = <<>>
          /\ status' \in FrameCut \cup FrameDecided
      BY <1>5 DEF ScopeCloses, StreamClosed, StreamFails, HeaderRefused, PayloadRefused,
                  Unroutable, ReaderEnds, FrameCut, FrameDecided
    <2>2. QED
      BY <1>1, <1>2, <2>1
  <1>6. ASSUME NEW n \in 1 .. Len(inbound), NextChunk(n) PROVE FrameInv'
    <2>1. n \in 0 .. Len(inbound)
      BY <1>2, LenProperties
    <2>2. block' \in Seq(Octet) /\ inbound' \in Seq(Octet)
      BY <1>2, <1>6, <2>1, Cuts DEF NextChunk, After
    <2>3. QED
      BY <1>1, <1>2, <1>6, <2>2 DEF NextChunk
  <1>7. CASE Routed
    BY <1>1, <1>2, <1>7 DEF Routed, Live
  <1>8. CASE HeaderContinues
    <2>1. /\ HeaderCount \in Nat /\ headerOffset + HeaderCount <= HeaderSize
          /\ HeaderFilled \in [1 .. HeaderSize -> Octet]
          /\ After(block, HeaderCount) \in Seq(Octet)
      BY <1>0, <1>8, HeaderFills DEF HeaderContinues
    <2>2. headerOffset + HeaderCount \in 0 .. HeaderSize - 1
      BY <1>0, <1>8, <2>1, FrameTypes DEF HeaderContinues, HeaderComplete
    <2>3. QED
      BY <1>8, <2>1, <2>2 DEF HeaderContinues, FillingHeader, FrameInv, FrameTypeOK
  <1>9. CASE HeaderEnds
    <2> DEFINE length == LengthIn(HeaderFilled)
    <2>1. /\ HeaderFilled \in [1 .. HeaderSize -> Octet]
          /\ After(block, HeaderCount) \in Seq(Octet)
      BY <1>0, <1>9, HeaderFills DEF HeaderEnds
    <2>2. length \in Nat
      BY <2>1, LengthIsNumber
    <2>3. length \in 1 .. MaxPayload
      BY <1>9, <2>2, FramesAssumption DEF HeaderEnds, LengthFits
    <2>4. /\ header' = HeaderFilled /\ headerOffset' = 0 /\ payloadOffset' = 0
          /\ payload' = [i \in 1 .. length |-> 0]
          /\ block' = After(block, HeaderCount) /\ UNCHANGED <<sent, remote, inbound, status, received>>
      BY <1>9 DEF HeaderEnds, HeaderRead
    <2> HIDE DEF length
    <2>5. payload' \in Seq(Octet) /\ Len(payload') = length /\ payload' # <<>>
      BY <1>0, <1>9, PayloadBegins DEF length
    <2>6. 0 \in 0 .. HeaderSize - 1
      BY FramesAssumption
    <2>7. FrameTypeOK'
      BY <1>2, <2>1, <2>3, <2>4, <2>5, <2>6, FramesAssumption DEF FrameInv, FrameTypeOK
    <2>8. QED
      BY <2>4, <2>5, <2>7 DEF FrameInv, length
  <1>10. CASE PayloadContinues
    <2>1. /\ PayloadCount \in Nat /\ payloadOffset + PayloadCount <= Len(payload)
          /\ PayloadFilled \in Seq(Octet) /\ Len(PayloadFilled) = Len(payload)
          /\ After(block, PayloadCount) \in Seq(Octet)
      BY <1>0, <1>10, PayloadFills DEF PayloadContinues
    <2>2. /\ payloadOffset \in Nat /\ Len(payload) \in Nat /\ payload # <<>>
          /\ payloadOffset + PayloadCount # Len(payload)
      BY <1>0, <1>10, FrameTypes DEF PayloadContinues, PayloadComplete, FillingPayload
    <2>3. /\ payload' \in Seq(Octet) /\ Len(payload') = Len(payload) /\ payload' # <<>>
          /\ payloadOffset' \in Nat /\ payloadOffset' < Len(payload')
          /\ block' \in Seq(Octet)
          /\ UNCHANGED <<sent, remote, inbound, header, headerOffset, status, received>>
      <3>1. payload' = PayloadFilled /\ payloadOffset' = payloadOffset + PayloadCount
            /\ block' = After(block, PayloadCount)
            /\ UNCHANGED <<sent, remote, inbound, header, headerOffset, status, received>>
        BY <1>10 DEF PayloadContinues
      <3>2. Len(payload) # 0
        BY <1>0, <2>2, FrameTypes
      <3>3. payload' # <<>>
        BY <2>1, <3>1, <3>2, EmptySeq
      <3>4. QED
        BY <2>1, <2>2, <3>1, <3>3
    <2>4. QED
      BY <2>2, <2>3 DEF FrameInv, FrameTypeOK
  <1>11. CASE PayloadEnds
    <2>1. After(block, PayloadCount) \in Seq(Octet)
      BY <1>0, <1>11, PayloadFills DEF PayloadEnds
    <2>2. received' \in Seq(Messages)
      BY <1>0, <1>11, AppendProperties DEF PayloadEnds, FrameTypeOK
    <2>3. QED
      BY <1>2, <1>11, <2>1, <2>2, EmptySeq, FramesAssumption
         DEF PayloadEnds, FrameInv, FrameTypeOK, Live
  <1>12. CASE UNCHANGED frameVars
    BY <1>12 DEF frameVars, buffers, FrameInv, FrameTypeOK
  <1>13. QED
    BY <1>3, <1>4, <1>5, <1>6, <1>7, <1>8, <1>9, <1>10, <1>11, <1>12
       DEF FrameNext, Outside, Reader

-----------------------------------------------------------------------------
(* The frame reader is a ByteFeed of frames.                                *)

FrameKeeps == [FrameFeed!Next]_(FrameFeed!vars)

\* The octets wait where they did, or nobody reads any more.
LEMMA FrameStutters ==
    ASSUME received' = received,
           \/ status \in Live /\ status' \in Live /\ Pending' = Pending
           \/ status \notin Live /\ status' = status
    PROVE  FrameKeeps
  BY DEF FrameKeeps, FrameFeed!vars, Pending

LEMMA FrameCuts ==
    ASSUME status \in Live, status' \in FrameCut, received' = received
    PROVE  FrameKeeps
  BY DEF FrameKeeps, FrameFeed!Next, FrameFeed!IsCut, FrameFeed!Over, FrameCut, Live

\* What the octets begin with, by the two parts of a frame.
LEMMA DecodesShort ==
    ASSUME NEW first, NEW octets, Len(octets) < HeaderSize
    PROVE  DecodeFrame(first, octets).kind = "partial"
  BY DEF DecodeFrame

LEMMA DecodesHeader ==
    ASSUME NEW first, NEW h \in Seq(Octet), NEW rest \in Seq(Octet), Len(h) = HeaderSize,
           LengthIn(h) \notin 1 .. MaxPayload
    PROVE  DecodeFrame(first, h \o rest) = [kind |-> "bad", reason |-> "oversized_frame"]
  <1> DEFINE octets == h \o rest
  <1>1. /\ Len(octets) = HeaderSize + Len(rest) /\ Len(rest) \in Nat /\ HeaderSize \in Nat
        /\ \A i \in 1 .. HeaderSize : octets[i] = h[i]
    <2>1. Len(rest) \in Nat /\ HeaderSize \in Nat
      BY FramesAssumption, LenProperties
    <2>2. /\ Len(octets) = Len(h) + Len(rest)
          /\ \A i \in 1 .. Len(h) + Len(rest) : octets[i] = IF i <= Len(h) THEN h[i] ELSE rest[i - Len(h)]
      BY ConcatProperties
    <2> HIDE DEF octets
    <2>3. QED
      BY <2>1, <2>2
  <1> HIDE DEF octets
  <1>2. LengthIn(octets) = LengthIn(h)
    BY <1>1, LengthOfSame
  <1>3. ~(Len(octets) < HeaderSize)
    BY <1>1
  <1>4. QED
    BY <1>2, <1>3 DEF DecodeFrame, octets

\* The header's length and too few octets behind it.
LEMMA DecodesPart ==
    ASSUME NEW first, NEW h \in Seq(Octet), NEW body \in Seq(Octet), Len(h) = HeaderSize,
           LengthIn(h) \in 1 .. MaxPayload, Len(body) < LengthIn(h)
    PROVE  DecodeFrame(first, h \o body).kind = "partial"
  <1> DEFINE frame == h \o body
  <1>1. HeaderSize \in Nat \ {0} /\ Len(body) \in Nat /\ LengthIn(h) \in Nat
    BY FramesAssumption, LenProperties
  <1>2. /\ Len(frame) = HeaderSize + Len(body)
        /\ \A i \in 1 .. HeaderSize : frame[i] = h[i]
    <2>1. /\ frame \in Seq(Octet) /\ Len(frame) = Len(h) + Len(body)
          /\ \A i \in 1 .. Len(h) + Len(body) :
                frame[i] = IF i <= Len(h) THEN h[i] ELSE body[i - Len(h)]
      BY ConcatProperties
    <2> HIDE DEF frame
    <2>2. QED
      BY <1>1, <2>1
  <1> HIDE DEF frame
  <1>3. LengthIn(frame) = LengthIn(h)
    BY <1>2, LengthOfSame
  <1>4. LengthIn(frame) \in 1 .. MaxPayload /\ ~(Len(frame) < HeaderSize)
        /\ Len(frame) < HeaderSize + LengthIn(frame)
    BY <1>1, <1>2, <1>3
  <1>5. QED
    BY <1>4 DEF DecodeFrame, frame

\* A complete frame, and whatever is behind it.
IsWhole(first, h, body, rest) ==
    /\ DecodeFrame(first, (h \o body) \o rest) =
          IF body \in Messages
          THEN [kind |-> "record", length |-> HeaderSize + LengthIn(h), yields |-> <<body>>]
          ELSE [kind |-> "bad", reason |-> "invalid"]
    /\ SubSeq((h \o body) \o rest, HeaderSize + LengthIn(h) + 1,
              Len((h \o body) \o rest)) = rest

LEMMA DecodesWhole ==
    ASSUME NEW first, NEW h \in Seq(Octet), NEW body \in Seq(Octet), Len(h) = HeaderSize,
           LengthIn(h) \in 1 .. MaxPayload, Len(body) = LengthIn(h),
           NEW rest \in Seq(Octet)
    PROVE  IsWhole(first, h, body, rest)
  <1> DEFINE frame == h \o body
             octets == frame \o rest
             length == LengthIn(h)
  <1>1. HeaderSize \in Nat \ {0} /\ length \in Nat \ {0} /\ Len(rest) \in Nat
    BY FramesAssumption, LenProperties
  <1>2. /\ frame \in Seq(Octet) /\ Len(frame) = HeaderSize + length
        /\ \A i \in 1 .. HeaderSize : frame[i] = h[i]
    <2>1. /\ frame \in Seq(Octet) /\ Len(frame) = Len(h) + Len(body)
          /\ \A i \in 1 .. Len(h) + Len(body) :
                frame[i] = IF i <= Len(h) THEN h[i] ELSE body[i - Len(h)]
      BY ConcatProperties
    <2> HIDE DEF frame
    <2>2. QED
      BY <1>1, <2>1
  <1>3. SubSeq(frame, HeaderSize + 1, Len(frame)) = body
    BY CutsAtJoint
  <1> HIDE DEF frame
  <1>4. /\ Len(octets) = HeaderSize + length + Len(rest)
        /\ \A i \in 1 .. HeaderSize + length : octets[i] = frame[i]
    <2>1. /\ Len(octets) = Len(frame) + Len(rest)
          /\ \A i \in 1 .. Len(frame) + Len(rest) :
                octets[i] = IF i <= Len(frame) THEN frame[i] ELSE rest[i - Len(frame)]
      BY <1>2, ConcatProperties
    <2> HIDE DEF octets
    <2>2. QED
      BY <1>1, <1>2, <2>1
  <1>5. SubSeq(octets, HeaderSize + length + 1, Len(octets)) = rest
    BY <1>2, CutsAtJoint
  <1>6. SubSeq(octets, HeaderSize + 1, HeaderSize + length) = body
    <2> DEFINE m == HeaderSize + 1
               n == HeaderSize + length
    <2>1. m \in 1 .. Len(frame) /\ n \in 1 .. Len(frame)
      BY <1>1, <1>2
    <2> HIDE DEF m, n
    <2>2. SubSeq(octets, m, n) = SubSeq(frame, m, n)
      BY <1>2, <2>1, SubSeqOfConcat1
    <2>3. QED
      BY <1>2, <1>3, <2>2 DEF m, n
  <1> HIDE DEF octets
  <1>7. LengthIn(octets) = length
    <2>1. \A i \in 1 .. HeaderSize : octets[i] = h[i]
      BY <1>1, <1>2, <1>4
    <2>2. QED
      BY <2>1, LengthOfSame
  <1>8. ~(Len(octets) < HeaderSize) /\ ~(Len(octets) < HeaderSize + length)
        /\ length \in 1 .. MaxPayload
    BY <1>1, <1>4
  <1> HIDE DEF length
  <1>9. DecodeFrame(first, octets) =
           IF body \in Messages
           THEN [kind |-> "record", length |-> HeaderSize + length, yields |-> <<body>>]
           ELSE [kind |-> "bad", reason |-> "invalid"]
    BY <1>6, <1>7, <1>8 DEF DecodeFrame
  <1>10. QED
    BY <1>5, <1>9 DEF octets, frame, length, IsWhole

LEMMA AppendsBehind ==
    ASSUME NEW S, NEW s \in Seq(S), NEW t \in Seq(S), NEW e \in S
    PROVE  s \o Append(t, e) = Append(s \o t, e)
  <1>1. s \o t \in Seq(S) /\ <<e>> \in Seq(S)
    BY ConcatProperties
  <1>2. Append(t, e) = t \o <<e>> /\ Append(s \o t, e) = (s \o t) \o <<e>>
    BY <1>1, AppendIsConcat
  <1>3. (s \o t) \o <<e>> = s \o (t \o <<e>>)
    <2> DEFINE u == <<e>>
    <2>1. u \in Seq(S)
      BY <1>1
    <2> HIDE DEF u
    <2>2. (s \o t) \o u = s \o (t \o u)
      BY <2>1, ConcatAssociative
    <2>3. QED
      BY <2>2 DEF u
  <1>4. QED
    BY <1>2, <1>3

LEMMA FrameSends ==
    ASSUME FrameTypeOK, NEW octet \in Octet, Sends(octet) PROVE FrameKeeps
  <1> DEFINE front == Buffered \o block
  <1>1. front \in Seq(Octet) /\ inbound \in Seq(Octet)
    BY PendingTypes, FrameTypes, ConcatProperties
  <1>2. front' = front /\ inbound' = Append(inbound, octet)
    BY DEF Sends, Buffered, buffers
  <1>3. front \o Append(inbound, octet) = Append(front \o inbound, octet)
    <2> HIDE DEF front
    <2>1. QED
      BY <1>1, AppendsBehind
  <1>4. Pending' = Append(Pending, octet)
    BY <1>2, <1>3 DEF Pending
  <1>5. FrameFeed!Arrives
    BY <1>4 DEF Sends, FrameFeed!Arrives, Pending
  <1>6. QED
    BY <1>5 DEF FrameKeeps, FrameFeed!Next

LEMMA FrameChunk ==
    ASSUME FrameTypeOK, NEW n \in 1 .. Len(inbound), NextChunk(n) PROVE FrameKeeps
  <1> DEFINE b == Buffered
             x == SubSeq(inbound, 1, n)
             y == SubSeq(inbound, n + 1, Len(inbound))
  <1>1. /\ block = <<>> /\ block' = x /\ inbound' = y /\ b' = b
        /\ UNCHANGED <<status, received>> /\ status \in Live
    BY DEF NextChunk, After, Buffered, buffers, Live
  <1>2. n \in 0 .. Len(inbound) /\ inbound \in Seq(Octet) /\ b \in Seq(Octet)
    BY FrameTypes, PendingTypes
  <1>3. x \in Seq(Octet) /\ y \in Seq(Octet)
    BY <1>2, Cuts
  <1>4. x \o y = inbound
    BY <1>2, Cuts
  <1>5. b \o <<>> = b
    BY <1>2, ConcatEmptySeq
  <1> HIDE DEF b, x, y
  <1>6. (b \o x) \o y = b \o (x \o y)
    BY <1>2, <1>3, OctetsAssociate
  <1>7. Pending' = Pending
    BY <1>1, <1>4, <1>5, <1>6 DEF Pending, b
  <1>8. QED
    BY <1>1, <1>7, FrameStutters

LEMMA FrameHeader ==
    ASSUME FrameTypeOK, HeaderContinues \/ HeaderEnds PROVE FrameKeeps
  <1>1. FillingHeader /\ status \in Live /\ UNCHANGED <<inbound, status, received>>
        /\ header' = HeaderFilled /\ block' = After(block, HeaderCount)
    BY DEF HeaderContinues, HeaderEnds, HeaderRead, FillingHeader, Live
  <1> DEFINE full == SubSeq(HeaderFilled, 1, headerOffset + HeaderCount)
  <1>2. /\ HeaderFilled \in Seq(Octet) /\ Len(HeaderFilled) = HeaderSize
        /\ Pending = full \o After(block, HeaderCount) \o inbound
    BY <1>1, HeaderFills
  <1>3. Buffered' = full
    <2>1. CASE HeaderContinues
      BY <2>1 DEF HeaderContinues, FillingHeader, Buffered
    <2>2. CASE HeaderEnds
      <3>1. payload' # <<>> /\ payloadOffset' = 0
        BY <2>2, PayloadBegins DEF HeaderEnds
      <3>2. SubSeq(payload', 1, 0) = <<>>
        BY SubSeqEmpty
      <3>3. HeaderFilled \o <<>> = HeaderFilled
        BY <1>2, ConcatEmptySeq
      <3>4. full = HeaderFilled
        BY <1>2, <2>2, SubSeqFull DEF HeaderEnds, HeaderComplete
      <3>5. QED
        BY <1>1, <3>1, <3>2, <3>3, <3>4 DEF Buffered
    <2>3. QED
      BY <2>1, <2>2
  <1> HIDE DEF full
  <1>4. Pending' = Pending
    BY <1>1, <1>2, <1>3 DEF Pending
  <1>5. QED
    BY <1>1, <1>4, FrameStutters

LEMMA FramePayload ==
    ASSUME FrameTypeOK, PayloadContinues PROVE FrameKeeps
  <1> DEFINE full == header \o SubSeq(PayloadFilled, 1, payloadOffset + PayloadCount)
  <1>1. /\ FillingPayload /\ UNCHANGED <<inbound, header, status, received>>
        /\ payload' = PayloadFilled /\ payloadOffset' = payloadOffset + PayloadCount
        /\ block' = After(block, PayloadCount) /\ status \in Live
    BY DEF PayloadContinues, FillingPayload, Live
  <1>2. /\ PayloadFilled \in Seq(Octet) /\ Len(PayloadFilled) = Len(payload)
        /\ Pending = full \o After(block, PayloadCount) \o inbound
    BY <1>1, PayloadFills
  <1>3. payload' # <<>>
    BY <1>1, <1>2, FrameTypes, EmptySeq DEF FillingPayload
  <1>4. Buffered' = full
    BY <1>1, <1>3 DEF Buffered
  <1> HIDE DEF full
  <1>5. Pending' = Pending
    BY <1>1, <1>2, <1>4 DEF Pending
  <1>6. QED
    BY <1>1, <1>5, FrameStutters

\* The socket may end in front of a frame, within its header or within its payload:
\* no record is complete then.
LEMMA FrameEnds ==
    ASSUME FrameInv, StreamClosed PROVE FrameKeeps
  <1>1. /\ block = <<>> /\ inbound = <<>> /\ status \in Live /\ status' = "premature_close"
        /\ received' = received
    BY DEF StreamClosed, ReaderEnds, Live
  <1>2. Buffered \in Seq(Octet) /\ FrameTypeOK
    BY PendingTypes DEF FrameInv
  <1>3. Pending = Buffered
    BY <1>1, <1>2, ConcatEmptySeq DEF Pending
  <1>4. DecodeFrame(received = <<>>, Buffered).kind = "partial"
    <2>1. CASE payload = <<>>
      <3>1. Len(Buffered) < HeaderSize
        BY <1>2, <2>1, PendingTypes, FrameTypes
      <3>2. QED
        BY <3>1, DecodesShort
    <2>2. CASE payload # <<>>
      <3> DEFINE body == SubSeq(payload, 1, payloadOffset)
      <3>1. /\ header \in Seq(Octet) /\ Len(header) = HeaderSize
            /\ payload \in Seq(Octet) /\ payloadOffset \in 0 .. Len(payload)
            /\ payloadOffset < Len(payload) /\ LengthIn(header) = Len(payload)
            /\ LengthIn(header) \in 1 .. MaxPayload
        BY <1>2, <2>2, FrameTypes DEF FrameInv, FrameTypeOK
      <3>2. body \in Seq(Octet) /\ Len(body) = payloadOffset
        BY <3>1, Cuts
      <3>3. Buffered = header \o body
        BY <2>2 DEF Buffered
      <3> HIDE DEF body
      <3>4. DecodeFrame(received = <<>>, header \o body).kind = "partial"
        BY <3>1, <3>2, DecodesPart
      <3>5. QED
        BY <3>3, <3>4
    <2>3. QED
      BY <2>1, <2>2
  <1>5. FrameFeed!Ends
    <2>1. FrameFeed!First.kind = "partial"
      BY <1>1, <1>3, <1>4 DEF FrameFeed!First, Pending
    <2>2. FrameAtEnd(received = <<>>, Pending) = "premature_close"
      BY DEF FrameAtEnd
    <2>3. QED
      BY <1>1, <2>1, <2>2 DEF FrameFeed!Ends, FrameFeed!Over, FrameAtEnd, Live
  <1>6. QED
    BY <1>5 DEF FrameKeeps, FrameFeed!Next

LEMMA FrameOversized ==
    ASSUME FrameTypeOK, HeaderRefused PROVE FrameKeeps
  <1>1. /\ FillingHeader /\ HeaderComplete /\ status \in Live /\ received' = received
        /\ status' = "oversized_frame" /\ ~LengthFits(LengthIn(HeaderFilled))
    BY DEF HeaderRefused, ReaderEnds, FillingHeader, Live
  <1> DEFINE rest == After(block, HeaderCount) \o inbound
  <1>2. /\ HeaderFilled \in Seq(Octet) /\ Len(HeaderFilled) = HeaderSize
        /\ After(block, HeaderCount) \in Seq(Octet)
        /\ Pending = SubSeq(HeaderFilled, 1, headerOffset + HeaderCount)
                       \o After(block, HeaderCount) \o inbound
    BY <1>1, HeaderFills
  <1>3. SubSeq(HeaderFilled, 1, headerOffset + HeaderCount) = HeaderFilled
    BY <1>1, <1>2, SubSeqFull DEF HeaderComplete
  <1>4. rest \in Seq(Octet) /\ Pending = HeaderFilled \o rest
    <2>1. inbound \in Seq(Octet)
      BY FrameTypes
    <2> DEFINE h == HeaderFilled
               left == After(block, HeaderCount)
    <2>2. h \in Seq(Octet) /\ left \in Seq(Octet)
      BY <1>2
    <2> HIDE DEF h, left
    <2>3. left \o inbound \in Seq(Octet)
      BY <2>1, <2>2, ConcatProperties
    <2>4. (h \o left) \o inbound = h \o (left \o inbound)
      BY <2>1, <2>2, ConcatAssociative
    <2>5. QED
      BY <1>2, <1>3, <2>3, <2>4 DEF h, left
  <1> HIDE DEF rest
  <1>5. LengthIn(HeaderFilled) \notin 1 .. MaxPayload
    BY <1>1, FramesAssumption DEF LengthFits
  <1>6. DecodeFrame(received = <<>>, Pending) = [kind |-> "bad", reason |-> "oversized_frame"]
    <2> DEFINE h == HeaderFilled
    <2>1. /\ h \in Seq(Octet) /\ rest \in Seq(Octet) /\ Len(h) = HeaderSize
          /\ LengthIn(h) \notin 1 .. MaxPayload
      BY <1>2, <1>4, <1>5
    <2> HIDE DEF h
    <2>2. DecodeFrame(received = <<>>, h \o rest) = [kind |-> "bad", reason |-> "oversized_frame"]
      BY <2>1, DecodesHeader
    <2>3. QED
      BY <1>4, <2>2 DEF h
  <1>7. FrameFeed!Refuses
    BY <1>1, <1>6 DEF FrameFeed!Refuses, FrameFeed!First, FrameFeed!Over, Pending, Live
  <1>8. QED
    BY <1>7 DEF FrameKeeps, FrameFeed!Next

\* A complete frame: a message for receive, or what decodeEndpointMessage refuses.
LEMMA FrameComplete ==
    ASSUME FrameInv, FillingPayload, PayloadComplete
    PROVE  LET rest == After(block, PayloadCount) \o inbound
               length == HeaderSize + Len(payload)
           IN  /\ rest \in Seq(Octet)
               /\ SubSeq(Pending, length + 1, Len(Pending)) = rest
               /\ DecodeFrame(received = <<>>, Pending) =
                     IF PayloadFilled \in Messages
                     THEN [kind |-> "record", length |-> length, yields |-> <<PayloadFilled>>]
                     ELSE [kind |-> "bad", reason |-> "invalid"]
  <1> DEFINE h == header
             body == PayloadFilled
             left == After(block, PayloadCount)
             rest == left \o inbound
  <1>1. /\ h \in Seq(Octet) /\ Len(h) = HeaderSize /\ inbound \in Seq(Octet)
        /\ LengthIn(h) = Len(payload) /\ LengthIn(h) \in 1 .. MaxPayload
    BY FrameTypes, EmptySeq DEF FrameInv, FrameTypeOK, FillingPayload
  <1>2. /\ body \in Seq(Octet) /\ Len(body) = Len(payload) /\ left \in Seq(Octet)
        /\ Pending = (h \o SubSeq(body, 1, payloadOffset + PayloadCount)) \o left \o inbound
    BY PayloadFills DEF FrameInv
  <1>3. SubSeq(body, 1, payloadOffset + PayloadCount) = body
    BY <1>2, SubSeqFull DEF PayloadComplete
  <1> HIDE DEF h, body, left
  <1> DEFINE frame == h \o body
  <1>4. frame \in Seq(Octet) /\ rest \in Seq(Octet)
    BY <1>1, <1>2, ConcatProperties
  <1>5. (frame \o left) \o inbound = frame \o rest
    <2>1. frame \in Seq(Octet) /\ left \in Seq(Octet) /\ inbound \in Seq(Octet)
      BY <1>1, <1>2, <1>4
    <2> HIDE DEF frame
    <2>2. QED
      BY <2>1, ConcatAssociative
  <1>6. Pending = (h \o body) \o rest
    BY <1>2, <1>3, <1>5
  <1> HIDE DEF rest
  <1>7. /\ DecodeFrame(received = <<>>, (h \o body) \o rest) =
              IF body \in Messages
              THEN [kind |-> "record", length |-> HeaderSize + LengthIn(h), yields |-> <<body>>]
              ELSE [kind |-> "bad", reason |-> "invalid"]
        /\ SubSeq((h \o body) \o rest, HeaderSize + LengthIn(h) + 1,
                  Len((h \o body) \o rest)) = rest
    <2>1. /\ h \in Seq(Octet) /\ body \in Seq(Octet) /\ rest \in Seq(Octet)
          /\ Len(h) = HeaderSize /\ LengthIn(h) \in 1 .. MaxPayload /\ Len(body) = LengthIn(h)
      BY <1>1, <1>2, <1>4
    <2>2. IsWhole(received = <<>>, h, body, rest)
      BY <2>1, DecodesWhole
    <2>3. QED
      BY <2>2 DEF IsWhole
  <1>8. QED
    BY <1>1, <1>4, <1>6, <1>7 DEF rest, left, body

LEMMA FrameYields ==
    ASSUME FrameInv, PayloadEnds PROVE FrameKeeps
  <1> DEFINE rest == After(block, PayloadCount) \o inbound
             length == HeaderSize + Len(payload)
  <1>1. /\ FillingPayload /\ PayloadComplete /\ PayloadFilled \in Messages
        /\ received' = Append(received, PayloadFilled) /\ status \in Live /\ status' \in Live
        /\ payload' = <<>> /\ block' = After(block, PayloadCount)
        /\ UNCHANGED <<inbound, header, headerOffset>>
    BY DEF PayloadEnds, FillingPayload, Live
  <1>2. /\ rest \in Seq(Octet) /\ SubSeq(Pending, length + 1, Len(Pending)) = rest
        /\ DecodeFrame(received = <<>>, Pending) =
              [kind |-> "record", length |-> length, yields |-> <<PayloadFilled>>]
    BY <1>1, FrameComplete
  <1>3. headerOffset' = 0
    BY <1>1, FrameTypes DEF FillingPayload, FrameInv
  <1>4. Buffered' = <<>>
    BY <1>1, <1>3, SubSeqEmpty DEF Buffered
  <1>5. Pending' = rest
    <2> DEFINE left == After(block, PayloadCount)
    <2>1. left \in Seq(Octet)
      BY <1>1, PayloadFills DEF FrameInv
    <2>2. Pending' = (<<>> \o left) \o inbound
      BY <1>1, <1>4 DEF Pending
    <2> HIDE DEF left
    <2>3. <<>> \o left = left
      BY <2>1, ConcatEmptySeq
    <2>4. QED
      BY <2>2, <2>3 DEF left
  <1>6. received' = received \o <<PayloadFilled>>
    BY <1>1, AppendIsConcat DEF FrameInv, FrameTypeOK
  <1> HIDE DEF rest, length
  <1>7. FrameFeed!Yields
    <2> DEFINE decoded == DecodeFrame(received = <<>>, Pending)
    <2>1. /\ decoded.kind = "record" /\ decoded.length = length
          /\ decoded.yields = <<PayloadFilled>>
      BY <1>2
    <2>2. FrameFeed!First = decoded
      BY <1>1 DEF FrameFeed!First, Pending
    <2> HIDE DEF decoded
    <2>3. QED
      BY <1>1, <1>2, <1>5, <1>6, <2>1, <2>2 DEF FrameFeed!Yields, Pending
  <1>8. QED
    BY <1>7 DEF FrameKeeps, FrameFeed!Next

LEMMA FrameInvalid ==
    ASSUME FrameInv, PayloadRefused PROVE FrameKeeps
  <1>1. /\ FillingPayload /\ PayloadComplete /\ PayloadFilled \notin Messages
        /\ received' = received /\ status \in Live /\ status' = "invalid"
    BY DEF PayloadRefused, ReaderEnds, FillingPayload, Live
  <1>2. DecodeFrame(received = <<>>, Pending) = [kind |-> "bad", reason |-> "invalid"]
    BY <1>1, FrameComplete
  <1>3. FrameFeed!Refuses
    BY <1>1, <1>2 DEF FrameFeed!Refuses, FrameFeed!First, FrameFeed!Over, Pending, Live
  <1>4. QED
    BY <1>3 DEF FrameKeeps, FrameFeed!Next

LEMMA FrameStep == FrameInv /\ [FrameNext]_frameVars => FrameKeeps
  <1> SUFFICES ASSUME FrameInv, [FrameNext]_frameVars PROVE FrameKeeps
    OBVIOUS
  <1>0. FrameTypeOK
    BY DEF FrameInv
  <1>1. ASSUME UNCHANGED <<inbound, block, buffers, status, received>> PROVE FrameKeeps
    BY <1>1, FrameStutters DEF buffers, Pending, Buffered
  <1>2. CASE RemoteEnds \/ Destroyed \/ UNCHANGED frameVars
    BY <1>1, <1>2 DEF RemoteEnds, Destroyed, frameVars
  <1>3. CASE ScopeCloses \/ StreamFails \/ Unroutable
    BY <1>3, FrameCuts DEF ScopeCloses, StreamFails, Unroutable, ReaderEnds, Live, FrameCut
  <1>4. CASE Routed
    <2>1. Pending' = Pending
      BY <1>4 DEF Routed, buffers, Pending, Buffered
    <2>2. QED
      BY <1>4, <2>1, FrameStutters DEF Routed, Live
  <1>5. ASSUME NEW octet \in Octet, Sends(octet) PROVE FrameKeeps
    BY <1>0, <1>5, FrameSends
  <1>6. ASSUME NEW n \in 1 .. Len(inbound), NextChunk(n) PROVE FrameKeeps
    BY <1>0, <1>6, FrameChunk
  <1>7. CASE HeaderContinues \/ HeaderEnds
    BY <1>0, <1>7, FrameHeader
  <1>8. CASE PayloadContinues
    BY <1>0, <1>8, FramePayload
  <1>9. CASE StreamClosed \/ HeaderRefused \/ PayloadEnds \/ PayloadRefused
    BY <1>0, <1>9, FrameEnds, FrameOversized, FrameYields, FrameInvalid
  <1>10. QED
    BY <1>2, <1>3, <1>4, <1>5, <1>6, <1>7, <1>8, <1>9 DEF FrameNext, Outside, Reader

LEMMA FrameBegins == FrameInit => FrameFeed!Init
  <1> SUFFICES ASSUME FrameInit PROVE FrameFeed!Init
    OBVIOUS
  <1>1. status \in Live /\ received = <<>> /\ block = <<>> /\ inbound = <<>>
    BY DEF FrameInit, Live
  <1>2. Buffered = <<>>
    BY SubSeqEmpty DEF FrameInit, Buffered
  <1>3. <<>> \o <<>> = <<>>
    BY EmptySeq, ConcatEmptySeq
  <1>4. QED
    BY <1>1, <1>2, <1>3 DEF FrameFeed!Init

\* The buffers are within their sizes, and the payload is as long as its header says.
THEOREM FrameInvariant == FrameSpec => []FrameInv
  BY FrameInitInv, FrameInvStep, PTL DEF FrameSpec

\* However the socket cuts the octets, receive gets the messages of their frames, each
\* once and in order (the reader's loop in acquireEndpointConnection).
THEOREM FramesAreFed == FrameSpec => ImplementsFrameFeed
  <1>1. FrameInv /\ [FrameNext]_frameVars => [FrameFeed!Next]_(FrameFeed!vars)
    BY FrameStep DEF FrameKeeps
  <1>2. QED
    BY <1>1, FrameBegins, FrameInvariant, PTL DEF FrameSpec, ImplementsFrameFeed, FrameFeed!Spec

-----------------------------------------------------------------------------
(* The lines of a byte sequence.                                            *)

LEMMA WireTypes ==
    /\ Line \subseteq Seq(Wire) /\ Newline \in Wire /\ Newline \notin Byte
    /\ <<Newline>> \in Seq(Wire) /\ Len(<<Newline>>) = 1 /\ <<Newline>>[1] = Newline
    /\ \A w \in Wire : w # Newline => w \in Byte
  <1>1. Line \subseteq Seq(Wire)
    BY SeqMonotonic DEF Line, Wire
  <1>2. QED
    BY <1>1, LinesAssumption DEF Wire

\* The least index of a newline.
IsNewlineAt(bytes, n) ==
    n \in 1 .. Len(bytes) /\ bytes[n] = Newline /\ \A j \in 1 .. n - 1 : bytes[j] # Newline

LEMMA NewlineExists ==
    ASSUME NEW bytes \in Seq(Wire), Contains(bytes, Newline)
    PROVE  \E n : IsNewlineAt(bytes, n)
  <1>1. Len(bytes) \in Nat
    BY LenProperties
  <1> DEFINE G == {m \in Nat : \A j \in 1 .. m : j <= Len(bytes) => bytes[j] # Newline}
  <1>2. SUFFICES ASSUME \A n : ~IsNewlineAt(bytes, n) PROVE FALSE
    OBVIOUS
  <1>3. 0 \in G
    OBVIOUS
  <1>4. \A m \in Nat : m \in G => m + 1 \in G
    <2> SUFFICES ASSUME NEW m \in Nat, m \in G, m + 1 <= Len(bytes)
                 PROVE  bytes[m + 1] # Newline
      OBVIOUS
    <2>1. \A j \in 1 .. (m + 1) - 1 : bytes[j] # Newline
      BY <1>1
    <2>2. m + 1 \in 1 .. Len(bytes)
      BY <1>1
    <2>3. QED
      BY <1>2, <2>1, <2>2 DEF IsNewlineAt
  <1>5. Nat \subseteq G
    <2> HIDE DEF G
    <2>1. QED
      BY <1>3, <1>4, NumberInduction
  <1>6. QED
    BY <1>1, <1>5 DEF Contains

LEMMA NewlineIs ==
    ASSUME NEW bytes \in Seq(Wire)
    PROVE  /\ NewlineAt(bytes) \in 0 .. Len(bytes)
           /\ NewlineAt(bytes) = 0 => \A i \in 1 .. Len(bytes) : bytes[i] # Newline
           /\ NewlineAt(bytes) # 0 => IsNewlineAt(bytes, NewlineAt(bytes))
  <1>1. Len(bytes) \in Nat /\ DOMAIN bytes = 1 .. Len(bytes)
    BY LenProperties
  <1>2. CASE Contains(bytes, Newline)
    <2> DEFINE n == NewlineAt(bytes)
    <2>1. n = CHOOSE i \in DOMAIN bytes :
                 bytes[i] = Newline /\ \A j \in 1 .. i - 1 : bytes[j] # Newline
      BY <1>2 DEF NewlineAt
    <2>2. \E i \in DOMAIN bytes : bytes[i] = Newline /\ \A j \in 1 .. i - 1 : bytes[j] # Newline
      BY <1>1, <1>2, NewlineExists DEF IsNewlineAt
    <2> HIDE DEF n
    <2>3. IsNewlineAt(bytes, n)
      BY <1>1, <2>1, <2>2 DEF IsNewlineAt
    <2>4. n # 0 /\ n \in 0 .. Len(bytes)
      BY <1>1, <2>3 DEF IsNewlineAt
    <2>5. QED
      BY <2>3, <2>4 DEF n
  <1>3. CASE ~Contains(bytes, Newline)
    BY <1>1, <1>3 DEF NewlineAt, Contains
  <1>4. QED
    BY <1>2, <1>3

LEMMA NewlineUnique ==
    ASSUME NEW bytes \in Seq(Wire), NEW n, IsNewlineAt(bytes, n)
    PROVE  NewlineAt(bytes) = n
  <1> DEFINE m == NewlineAt(bytes)
  <1>1. Len(bytes) \in Nat
    BY LenProperties
  <1>2. m \in 0 .. Len(bytes) /\ m # 0 /\ IsNewlineAt(bytes, m)
    BY NewlineIs DEF IsNewlineAt
  <1> HIDE DEF m
  <1>3. m = n
    BY <1>1, <1>2 DEF IsNewlineAt
  <1>4. QED
    BY <1>3 DEF m

\* A line has no newline, and the bytes in front of the first newline are a line.
LEMMA LineHasNone ==
    ASSUME NEW line \in Line
    PROVE  /\ line \in Seq(Wire) /\ Len(line) \in Nat
           /\ \A i \in 1 .. Len(line) : line[i] # Newline
  BY WireTypes, LenProperties, ElementOfSeq DEF Line

LEMMA LineOf ==
    ASSUME NEW bytes \in Seq(Wire), NEW n \in 0 .. Len(bytes),
           \A i \in 1 .. n : bytes[i] # Newline
    PROVE  SubSeq(bytes, 1, n) \in Line
  <1>1. \A i \in 1 .. n : bytes[i] \in Byte
    <2>1. \A i \in 1 .. n : bytes[i] \in Wire
      BY LenProperties, ElementOfSeq
    <2>2. QED
      BY <2>1, WireTypes
  <1>2. 1 \in Int /\ n \in Int
    BY LenProperties
  <1>3. SubSeq(bytes, 1, n) \in Seq(Byte)
    BY <1>1, <1>2, SubSeqProperties
  <1>4. QED
    BY <1>3 DEF Line

\* A line longer than the limit, complete or not.
LEMMA DecodesLong ==
    ASSUME NEW first, NEW line \in Line, NEW rest \in Seq(Wire), Len(line) > MaxLine
    PROVE  DecodeLine(first, line \o rest) = [kind |-> "bad", reason |-> "oversized_frame"]
  <1> DEFINE bytes == line \o rest
             end == NewlineAt(bytes)
  <1>1. /\ line \in Seq(Wire) /\ Len(line) \in Nat /\ Len(rest) \in Nat
        /\ \A i \in 1 .. Len(line) : line[i] # Newline
    BY LineHasNone, LenProperties
  <1>2. /\ bytes \in Seq(Wire) /\ Len(bytes) = Len(line) + Len(rest)
        /\ \A i \in 1 .. Len(line) : bytes[i] # Newline
    <2>1. /\ bytes \in Seq(Wire) /\ Len(bytes) = Len(line) + Len(rest)
          /\ \A i \in 1 .. Len(line) + Len(rest) :
                bytes[i] = IF i <= Len(line) THEN line[i] ELSE rest[i - Len(line)]
      BY <1>1, ConcatProperties
    <2> HIDE DEF bytes
    <2>2. QED
      BY <1>1, <2>1
  <1> HIDE DEF bytes
  <1>3. end \in 0 .. Len(bytes) /\ (end # 0 => bytes[end] = Newline)
    BY <1>2, NewlineIs DEF IsNewlineAt
  <1>4. MaxLine \in Nat
    BY LinesAssumption
  <1> HIDE DEF end
  <1>5. (IF end = 0 THEN Len(bytes) ELSE end - 1) > MaxLine
    BY <1>1, <1>2, <1>3, <1>4
  <1>6. QED
    BY <1>5 DEF DecodeLine, bytes, end

\* An unterminated line within the limit.
LEMMA DecodesPartial ==
    ASSUME NEW first, NEW line \in Line, Len(line) <= MaxLine
    PROVE  DecodeLine(first, line).kind = "partial"
  <1>1. line \in Seq(Wire) /\ Len(line) \in Nat /\ \A i \in 1 .. Len(line) : line[i] # Newline
    BY LineHasNone
  <1>2. NewlineAt(line) = 0
    BY <1>1, NewlineIs DEF IsNewlineAt
  <1>3. ~(Len(line) > MaxLine)
    BY <1>1, LinesAssumption
  <1>4. QED
    BY <1>2, <1>3 DEF DecodeLine

\* A line, its newline and whatever is behind it.
IsLine(first, line, rest) ==
    LET bytes == (line \o <<Newline>>) \o rest
        record(yields) == [kind |-> "record", length |-> Len(line) + 1, yields |-> yields]
    IN  /\ SubSeq(bytes, Len(line) + 1 + 1, Len(bytes)) = rest
        /\ DecodeLine(first, bytes) =
              IF line \in (IF first THEN Handshakes ELSE Selected) THEN record(<<line>>)
              ELSE IF ~first /\ line \in {<<>>} \cup Unselected THEN record(<<>>)
              ELSE [kind |-> "bad", reason |-> "invalid"]

LEMMA DecodesLine ==
    ASSUME NEW first, NEW line \in Line, Len(line) <= MaxLine, NEW rest \in Seq(Wire)
    PROVE  IsLine(first, line, rest)
  <1> DEFINE ended == line \o <<Newline>>
             bytes == ended \o rest
             end == Len(line) + 1
  <1>1. /\ line \in Seq(Wire) /\ Len(line) \in Nat /\ Len(rest) \in Nat
        /\ \A i \in 1 .. Len(line) : line[i] # Newline
        /\ MaxLine \in Nat
    BY LineHasNone, LenProperties, LinesAssumption
  <1>2. /\ ended \in Seq(Wire) /\ Len(ended) = end
        /\ ended[end] = Newline /\ \A i \in 1 .. Len(line) : ended[i] = line[i]
    <2>1. Append(line, Newline) = ended
      BY <1>1, WireTypes, AppendIsConcat
    <2>2. /\ Append(line, Newline) \in Seq(Wire) /\ Len(Append(line, Newline)) = Len(line) + 1
          /\ \A i \in 1 .. Len(line) : Append(line, Newline)[i] = line[i]
          /\ Append(line, Newline)[Len(line) + 1] = Newline
      BY <1>1, WireTypes, AppendProperties
    <2> HIDE DEF ended
    <2>3. QED
      BY <2>1, <2>2
  <1>3. SubSeq(ended, 1, Len(line)) = line
    BY <1>1, WireTypes, CutsAtJoint
  <1> HIDE DEF ended
  <1>4. /\ bytes \in Seq(Wire) /\ Len(bytes) = end + Len(rest)
        /\ \A i \in 1 .. end : bytes[i] = ended[i]
    <2>1. /\ bytes \in Seq(Wire) /\ Len(bytes) = Len(ended) + Len(rest)
          /\ \A i \in 1 .. Len(ended) + Len(rest) :
                bytes[i] = IF i <= Len(ended) THEN ended[i] ELSE rest[i - Len(ended)]
      BY <1>2, ConcatProperties
    <2> HIDE DEF bytes
    <2>2. QED
      BY <1>1, <1>2, <2>1
  <1>5. SubSeq(bytes, end + 1, Len(bytes)) = rest
    BY <1>2, CutsAtJoint
  <1>6. SubSeq(bytes, 1, Len(line)) = line
    <2>1. Len(line) = 0 => SubSeq(bytes, 1, Len(line)) = <<>> /\ line = <<>>
      BY <1>1, SubSeqEmpty, EmptySeq
    <2> DEFINE m == Len(line)
    <2>2. m # 0 => 1 \in 1 .. Len(ended) /\ m \in 1 .. Len(ended)
      BY <1>1, <1>2
    <2> HIDE DEF m
    <2>3. m # 0 => SubSeq(bytes, 1, m) = SubSeq(ended, 1, m)
      BY <1>2, <2>2, SubSeqOfConcat1
    <2>4. QED
      BY <1>3, <2>1, <2>3 DEF m
  <1> HIDE DEF bytes
  <1>7. IsNewlineAt(bytes, end)
    <2>1. end \in 1 .. Len(bytes) /\ bytes[end] = Newline
      BY <1>1, <1>2, <1>4
    <2>2. \A j \in 1 .. end - 1 : bytes[j] # Newline
      BY <1>1, <1>2, <1>4
    <2>3. QED
      BY <2>1, <2>2 DEF IsNewlineAt
  <1>8. NewlineAt(bytes) = end /\ end # 0 /\ end - 1 = Len(line) /\ ~(Len(line) > MaxLine)
    BY <1>1, <1>4, <1>7, NewlineUnique
  <1>9. DecodeLine(first, bytes) =
              IF line \in (IF first THEN Handshakes ELSE Selected)
              THEN [kind |-> "record", length |-> end, yields |-> <<line>>]
              ELSE IF ~first /\ line \in {<<>>} \cup Unselected
              THEN [kind |-> "record", length |-> end, yields |-> <<>>]
              ELSE [kind |-> "bad", reason |-> "invalid"]
    <2> HIDE DEF end
    <2>1. QED
      BY <1>6, <1>8 DEF DecodeLine
  <1>10. QED
    BY <1>5, <1>9 DEF IsLine, bytes, ended

-----------------------------------------------------------------------------
(* The stream's buffers and its queue.                                      *)

\* Only the last result is an error, and nothing is parsed behind it; the handshake is
\* delivered before any event, and its remainder is used up before the socket is read.
StreamInv ==
    /\ TypeOK
    /\ \A i \in 1 .. Len(results) - 1 : results[i].tag = "event"
    /\ ErrorQueued => chunk = <<>> /\ buffer = <<>>
    /\ phase = "handshake" => remainder = <<>> /\ results = <<>> /\ delivered = <<>>
    /\ phase \in {"remainder", "socket"} => delivered # <<>>
    /\ phase = "socket" => remainder = <<>>

LEMMA StreamTypes ==
    ASSUME TypeOK
    PROVE  /\ buffer \in Line /\ Len(buffer) <= MaxLine /\ Len(buffer) \in Nat
           /\ buffer \in Seq(Wire) /\ chunk \in Seq(Wire) /\ remainder \in Seq(Wire)
           /\ socket \in Seq(Wire) /\ results \in Seq(Result) /\ Len(results) \in Nat
           /\ delivered \in Seq(Line) /\ phase \in Stages \cup Decided \cup Cut
           /\ written \in 0 .. MaxBytes /\ MaxBytes \in Nat /\ MaxLine \in Nat
           /\ peer \in {"open", "ended", "errored"}
  <1>1. /\ buffer \in Line /\ Len(buffer) <= MaxLine /\ chunk \in Seq(Wire)
        /\ remainder \in Seq(Wire) /\ socket \in Seq(Wire) /\ results \in Seq(Result)
        /\ delivered \in Seq(Line) /\ phase \in Stages \cup Decided \cup Cut
        /\ written \in 0 .. MaxBytes /\ peer \in {"open", "ended", "errored"}
    BY DEF TypeOK
  <1>2. buffer \in Seq(Wire) /\ Len(buffer) \in Nat
    BY <1>1, LineHasNone
  <1>3. QED
    BY <1>1, <1>2, LenProperties, LinesAssumption

AreJoined(s, t, u, v) == ((s \o t) \o u) \o v = s \o (t \o (u \o v))

LEMMA Joined ==
    ASSUME NEW S, NEW s \in Seq(S), NEW t \in Seq(S), NEW u \in Seq(S), NEW v \in Seq(S)
    PROVE  AreJoined(s, t, u, v)
  <1> DEFINE l == s \o t
             r == u \o v
  <1>1. l \in Seq(S) /\ r \in Seq(S)
    BY ConcatProperties
  <1>2. \A p, q, w \in Seq(S) : (p \o q) \o w = p \o (q \o w)
    <2> TAKE p, q, w \in Seq(S)
    <2>1. QED
      BY ONLY p \in Seq(S), q \in Seq(S), w \in Seq(S), ConcatAssociative, SMTT(30)
  <1>3. (s \o t) \o r = s \o (t \o r)
    <2> HIDE DEF r
    <2>1. QED
      BY <1>1, <1>2, SMTT(30)
  <1>4. (l \o u) \o v = l \o (u \o v)
    <2> HIDE DEF l
    <2>1. QED
      BY <1>1, <1>2
  <1>5. QED
    BY <1>3, <1>4 DEF AreJoined

\* All bytes that are not yet part of a line.
Raw == buffer \o chunk \o remainder \o socket

LEMMA RawTypes ==
    ASSUME TypeOK
    PROVE  /\ remainder \o socket \in Seq(Wire)
           /\ Raw = buffer \o (chunk \o (remainder \o socket))
  <1>1. remainder \o socket \in Seq(Wire)
    BY StreamTypes, ConcatProperties
  <1>2. /\ buffer \in Seq(Wire) /\ chunk \in Seq(Wire) /\ remainder \in Seq(Wire)
        /\ socket \in Seq(Wire)
    BY StreamTypes
  <1>3. AreJoined(buffer, chunk, remainder, socket)
    BY <1>2, Joined
  <1>4. QED
    BY <1>1, <1>3 DEF Raw, AreJoined

\* What a turn of the loop looks at, and what it leaves.
LEMMA SegmentIs ==
    ASSUME TypeOK
    PROVE  /\ Segment \in Line /\ CurrentLine \in Line
           /\ Len(CurrentLine) = Len(buffer) + Len(Segment)
           /\ NewlineAt(chunk) = 0 => Segment = chunk
           /\ NewlineAt(chunk) # 0 =>
                 Behind \in Seq(Wire) /\ chunk = (Segment \o <<Newline>>) \o Behind
  <1> DEFINE n == NewlineAt(chunk)
  <1>1. /\ chunk \in Seq(Wire) /\ Len(chunk) \in Nat /\ n \in 0 .. Len(chunk)
        /\ n = 0 => \A i \in 1 .. Len(chunk) : chunk[i] # Newline
        /\ n # 0 => chunk[n] = Newline /\ \A j \in 1 .. n - 1 : chunk[j] # Newline
    BY StreamTypes, LenProperties, NewlineIs DEF IsNewlineAt
  <1>2. Segment = IF n = 0 THEN chunk ELSE SubSeq(chunk, 1, n - 1)
    BY DEF Segment
  <1>3. Behind = SubSeq(chunk, n + 1, Len(chunk))
    BY DEF Behind, Rest
  <1> HIDE DEF n
  <1>4. Segment \in Line
    <2>1. CASE n = 0
      <3>1. SubSeq(chunk, 1, Len(chunk)) \in Line
        BY <1>1, <2>1, LineOf
      <3>2. QED
        BY <1>1, <1>2, <2>1, <3>1, SubSeqFull
    <2>2. CASE n # 0
      <3> DEFINE k == n - 1
      <3>1. k \in 0 .. Len(chunk) /\ \A j \in 1 .. k : chunk[j] # Newline
        BY <1>1, <2>2
      <3> HIDE DEF k
      <3>2. SubSeq(chunk, 1, k) \in Line
        BY <1>1, <3>1, LineOf
      <3>3. QED
        BY <1>2, <2>2, <3>2 DEF k
    <2>3. QED
      BY <2>1, <2>2
  <1>5. CurrentLine \in Line /\ Len(CurrentLine) = Len(buffer) + Len(Segment)
    BY <1>4, StreamTypes, ConcatProperties DEF CurrentLine, Line
  <1>6. ASSUME n # 0 PROVE Behind \in Seq(Wire) /\ chunk = (Segment \o <<Newline>>) \o Behind
    <2>1. Behind \in Seq(Wire)
      BY <1>1, <1>3, Cuts
    <2>2. SubSeq(chunk, 1, n) \o Behind = chunk
      BY <1>1, <1>3, Cuts
    <2>3. SubSeq(chunk, 1, n) = SubSeq(chunk, 1, n - 1) \o <<chunk[n]>>
      <3>1. 1 \in 1 .. Len(chunk) /\ n \in 1 .. Len(chunk)
        BY <1>1, <1>6
      <3>2. QED
        BY <1>1, <3>1, SubSeqRecursiveSecond
    <2>4. QED
      BY <1>1, <1>2, <1>6, <2>1, <2>2, <2>3
  <1>7. QED
    BY <1>2, <1>4, <1>5, <1>6 DEF n

\* What is behind the line's newline.
Later == Behind \o (remainder \o socket)

LEMMA RawHasLine ==
    ASSUME TypeOK, NewlineAt(chunk) # 0
    PROVE  Later \in Seq(Wire) /\ Raw = (CurrentLine \o <<Newline>>) \o Later
  <1> DEFINE s == Segment
             nl == <<Newline>>
             r == remainder \o socket
             l == Behind
  <1>1. /\ buffer \in Seq(Wire) /\ s \in Seq(Wire) /\ nl \in Seq(Wire) /\ r \in Seq(Wire)
        /\ l \in Seq(Wire) /\ chunk = (s \o nl) \o l
        /\ Raw = buffer \o (chunk \o r)
    BY StreamTypes, SegmentIs, RawTypes, WireTypes
  <1> HIDE DEF s, nl, r, l
  <1> DEFINE later == l \o r
             sn == s \o nl
  <1>2. later \in Seq(Wire) /\ sn \in Seq(Wire)
    BY <1>1, ConcatProperties
  <1>3. (sn \o l) \o r = sn \o (l \o r)
    <2> HIDE DEF sn
    <2>1. QED
      BY ONLY <1>1, <1>2, WireAssociates, SMTT(30)
  <1>4. ((buffer \o s) \o nl) \o later = buffer \o (s \o (nl \o later))
    <2> HIDE DEF later
    <2>1. AreJoined(buffer, s, nl, later)
      BY <1>1, <1>2, Joined
    <2>2. QED
      BY <2>1 DEF AreJoined
  <1>5. (s \o nl) \o later = s \o (nl \o later)
    <2> HIDE DEF later
    <2>1. s \in Seq(Wire) /\ nl \in Seq(Wire) /\ later \in Seq(Wire)
      BY <1>1, <1>2
    <2>2. QED
      BY ONLY <2>1, ConcatAssociative
  <1>6. Raw = ((buffer \o s) \o nl) \o later
    <2> DEFINE a == sn \o l
               d == nl \o later
               c == (buffer \o s) \o nl
    <2>1. chunk = a /\ Raw = buffer \o (chunk \o r)
      BY <1>1
    <2>2. a \o r = sn \o later
      BY <1>3
    <2>3. Raw = buffer \o (sn \o later)
      <3> HIDE DEF a, later, sn
      <3>1. QED
        BY <2>1, <2>2
    <2>4. sn \o later = s \o d
      BY <1>5
    <2>5. c \o later = buffer \o (s \o d)
      BY <1>4
    <2> HIDE DEF later, sn, d, c
    <2>6. Raw = c \o later
      BY <2>3, <2>4, <2>5
    <2>7. QED
      BY <2>6 DEF c
  <1> HIDE DEF later
  <1>7. QED
    BY <1>2, <1>6 DEF later, Later, CurrentLine, s, nl, r, l

\* The line, complete or not, begins what was not parsed.
LEMMA RawHasPart ==
    ASSUME TypeOK PROVE \E rest \in Seq(Wire) : Raw = CurrentLine \o rest
  <1> DEFINE line == CurrentLine
             r == remainder \o socket
  <1>1. /\ line \in Seq(Wire) /\ r \in Seq(Wire)
    BY SegmentIs, LineHasNone, RawTypes
  <1>2. CASE NewlineAt(chunk) = 0
    <2>1. line = buffer \o chunk
      BY <1>2, SegmentIs DEF CurrentLine
    <2>2. buffer \in Seq(Wire) /\ chunk \in Seq(Wire) /\ Raw = buffer \o (chunk \o r)
      BY StreamTypes, RawTypes
    <2> HIDE DEF line, r
    <2>3. (buffer \o chunk) \o r = buffer \o (chunk \o r)
      BY ONLY <1>1, <2>2, WireAssociates
    <2>4. Raw = line \o r
      BY <2>1, <2>2, <2>3
    <2>5. QED
      BY <1>1, <2>4 DEF line
  <1>3. CASE NewlineAt(chunk) # 0
    <2> DEFINE l == Later
               nl == <<Newline>>
    <2>1. l \in Seq(Wire) /\ nl \in Seq(Wire) /\ Raw = (line \o nl) \o l
      BY <1>3, RawHasLine, WireTypes
    <2> HIDE DEF line, l, nl
    <2>2. (line \o nl) \o l = line \o (nl \o l)
      BY <1>1, <2>1, WireAssociates
    <2>3. nl \o l \in Seq(Wire)
      BY <2>1, ConcatProperties
    <2>4. QED
      BY <2>1, <2>2, <2>3 DEF line
  <1>4. QED
    BY <1>2, <1>3

-----------------------------------------------------------------------------
(* The queue of results.                                                    *)

FailedIn(queue) == queue # <<>> /\ Last(queue).tag = "failure"

EventsIn(queue) == IF FailedIn(queue) THEN Len(queue) - 1 ELSE Len(queue)

QueuedIn(queue) == [i \in 1 .. EventsIn(queue) |-> queue[i].line]

\* Nothing is queued behind an error.
IsQueue(queue) ==
    queue \in Seq(Result) /\ \A i \in 1 .. Len(queue) - 1 : queue[i].tag = "event"

LEMMA ResultIs ==
    /\ \A r \in Result : \/ r.tag = "event" /\ r.line \in Selected
                         \/ r.tag = "failure" /\ r.reason \in Decided
    /\ \A line \in Selected : /\ Event(line) \in Result /\ Event(line).tag = "event"
                              /\ Event(line).line = line
    /\ \A reason \in Decided : /\ Failure(reason) \in Result
                               /\ Failure(reason).tag = "failure"
                               /\ Failure(reason).reason = reason
  <1>1. \A line \in Selected : /\ Event(line) \in Result /\ Event(line).tag = "event"
                               /\ Event(line).line = line
    BY DEF Result, Event
  <1>2. \A reason \in Decided : /\ Failure(reason) \in Result
                                /\ Failure(reason).tag = "failure"
                                /\ Failure(reason).reason = reason
    BY DEF Result, Failure
  <1>3. ASSUME NEW r \in Result
        PROVE  \/ r.tag = "event" /\ r.line \in Selected
               \/ r.tag = "failure" /\ r.reason \in Decided
    <2>1. (\E line \in Selected : r = Event(line)) \/ \E reason \in Decided : r = Failure(reason)
      BY DEF Result
    <2>2. QED
      BY <1>1, <1>2, <2>1
  <1>4. QED
    BY <1>1, <1>2, <1>3

LEMMA HeadIs ==
    ASSUME NEW S, NEW s \in Seq(S), s # <<>>
    PROVE  Head(s) = s[1]
  <1>1. 1 \in 1 .. Len(s) /\ Len(s) \in 1 .. Len(s)
    BY EmptySeq
  <1>2. Head(SubSeq(s, 1, Len(s))) = s[1]
    BY <1>1, HeadTailOfSubSeq
  <1>3. QED
    BY <1>2, SubSeqFull

LEMMA QueueIs ==
    ASSUME NEW queue, IsQueue(queue)
    PROVE  /\ Len(queue) \in Nat /\ EventsIn(queue) \in 0 .. Len(queue)
           /\ \A i \in 1 .. EventsIn(queue) : queue[i].tag = "event" /\ queue[i].line \in Selected
           /\ FailedIn(queue) => Last(queue).reason \in Decided
           /\ QueuedIn(queue) \in Seq(Line) /\ Len(QueuedIn(queue)) = EventsIn(queue)
           /\ queue = <<>> => ~FailedIn(queue) /\ QueuedIn(queue) = <<>>
  <1>1. /\ queue \in Seq(Result) /\ Len(queue) \in Nat
        /\ \A i \in 1 .. Len(queue) - 1 : queue[i].tag = "event"
        /\ queue # <<>> => Len(queue) # 0
        /\ queue = <<>> => Len(queue) = 0
        /\ \A i \in 1 .. Len(queue) : queue[i] \in Result
    BY LenProperties, EmptySeq, ElementOfSeq DEF IsQueue
  <1>2. queue # <<>> => Len(queue) \in 1 .. Len(queue)
    BY <1>1
  <1>3. EventsIn(queue) \in 0 .. Len(queue)
    BY <1>1 DEF EventsIn, FailedIn
  <1>4. \A i \in 1 .. EventsIn(queue) : queue[i].tag = "event"
    <2> SUFFICES ASSUME NEW i \in 1 .. EventsIn(queue), i \notin 1 .. Len(queue) - 1
                 PROVE  queue[i].tag = "event"
      BY <1>1
    <2>1. i = Len(queue) /\ ~FailedIn(queue) /\ queue # <<>>
      BY <1>1, <1>3 DEF EventsIn
    <2>2. queue[i].tag # "failure" /\ queue[i] \in Result
      BY <1>1, <1>2, <2>1 DEF FailedIn, Last
    <2>3. QED
      BY <2>2, ResultIs
  <1>5. \A i \in 1 .. EventsIn(queue) : queue[i].line \in Selected
    <2> SUFFICES ASSUME NEW i \in 1 .. EventsIn(queue) PROVE queue[i].line \in Selected
      OBVIOUS
    <2>1. queue[i] \in Result /\ queue[i].tag = "event"
      BY <1>1, <1>3, <1>4
    <2>2. QED
      BY <2>1, ResultIs
  <1>6. FailedIn(queue) => Last(queue).reason \in Decided
    <2> SUFFICES ASSUME FailedIn(queue) PROVE Last(queue).reason \in Decided
      OBVIOUS
    <2>1. Last(queue) \in Result /\ Last(queue).tag = "failure"
      BY <1>1, <1>2 DEF FailedIn, Last
    <2>2. QED
      BY <2>1, ResultIs
  <1> DEFINE n == EventsIn(queue)
             lines == QueuedIn(queue)
  <1>7. lines = [i \in 1 .. n |-> queue[i].line] /\ n \in Nat
    BY <1>1, <1>3 DEF QueuedIn
  <1>8. Selected \subseteq Line
    BY LinesAssumption
  <1> HIDE DEF n, lines
  <1>9. lines \in [1 .. n -> Line]
    BY <1>5, <1>7, <1>8 DEF n
  <1>10. lines \in Seq(Line)
    BY <1>7, <1>9, SeqDef
  <1>11. Len(lines) = n
    <2>1. DOMAIN lines = 1 .. Len(lines) /\ Len(lines) \in Nat
      BY <1>10, LenProperties
    <2>2. DOMAIN lines = 1 .. n
      BY <1>7
    <2>3. \A k, m \in Nat : 1 .. k = 1 .. m => k = m
      OBVIOUS
    <2>4. QED
      BY ONLY <1>7, <2>1, <2>2, <2>3
  <1>12. queue = <<>> => ~FailedIn(queue) /\ lines = <<>>
    <2> SUFFICES ASSUME queue = <<>> PROVE ~FailedIn(queue) /\ lines = <<>>
      OBVIOUS
    <2>1. ~FailedIn(queue)
      BY DEF FailedIn
    <2>2. n = 0
      BY <1>1, <2>1 DEF EventsIn, n
    <2>3. QED
      BY <1>10, <1>11, <2>1, <2>2, EmptySeq
  <1>13. QED
    BY <1>1, <1>3, <1>4, <1>5, <1>6, <1>10, <1>11, <1>12 DEF n, lines

LEMMA QueuesEvent ==
    ASSUME NEW queue, IsQueue(queue), ~FailedIn(queue), NEW line \in Selected
    PROVE  LET longer == Append(queue, Event(line))
           IN  /\ IsQueue(longer) /\ ~FailedIn(longer)
               /\ QueuedIn(longer) = Append(QueuedIn(queue), line)
  <1> DEFINE e == Event(line)
             longer == Append(queue, e)
             before == QueuedIn(queue)
             after == QueuedIn(longer)
  <1>1. e \in Result /\ e.tag = "event" /\ e.line = line /\ line \in Line
    BY ResultIs, LinesAssumption
  <1> HIDE DEF e
  <1>2. /\ Len(queue) \in Nat /\ before \in Seq(Line) /\ Len(before) = Len(queue)
        /\ \A i \in 1 .. Len(queue) : queue[i].tag = "event"
        /\ \A i \in 1 .. Len(queue) : before[i] = queue[i].line
    BY QueueIs DEF EventsIn, QueuedIn
  <1>3. /\ longer \in Seq(Result) /\ longer # <<>> /\ Len(longer) = Len(queue) + 1
        /\ \A i \in 1 .. Len(queue) : longer[i] = queue[i]
        /\ longer[Len(queue) + 1] = e
    BY <1>1, AppendProperties DEF IsQueue
  <1> HIDE DEF longer
  <1>4. ~FailedIn(longer)
    BY <1>1, <1>3 DEF FailedIn, Last
  <1>5. IsQueue(longer)
    BY <1>2, <1>3 DEF IsQueue
  <1>6. /\ after \in Seq(Line) /\ Len(after) = Len(queue) + 1
        /\ \A i \in 1 .. Len(queue) + 1 : after[i] = longer[i].line
    BY <1>3, <1>4, <1>5, QueueIs DEF EventsIn, QueuedIn
  <1> HIDE DEF before, after
  <1> DEFINE all == Append(before, line)
  <1>7. /\ all \in Seq(Line) /\ Len(all) = Len(queue) + 1
        /\ \A i \in 1 .. Len(queue) : all[i] = before[i]
        /\ all[Len(queue) + 1] = line
    <2>1. /\ all \in Seq(Line) /\ Len(all) = Len(before) + 1
          /\ \A i \in 1 .. Len(before) : all[i] = before[i]
          /\ all[Len(before) + 1] = line
      BY <1>1, <1>2, AppendProperties
    <2> HIDE DEF all
    <2>2. QED
      BY <1>2, <2>1
  <1> HIDE DEF all
  <1>8. \A i \in 1 .. Len(after) : after[i] = all[i]
    BY <1>1, <1>2, <1>3, <1>6, <1>7
  <1>9. after = all
    BY <1>6, <1>7, <1>8, SeqEqual
  <1>10. QED
    BY <1>4, <1>5, <1>9 DEF after, all, before, longer, e

LEMMA QueuesFailure ==
    ASSUME NEW queue, IsQueue(queue), ~FailedIn(queue), NEW reason \in Decided
    PROVE  LET longer == Append(queue, Failure(reason))
           IN  /\ IsQueue(longer) /\ FailedIn(longer) /\ Last(longer).reason = reason
               /\ QueuedIn(longer) = QueuedIn(queue)
  <1> DEFINE e == Failure(reason)
             longer == Append(queue, e)
             before == QueuedIn(queue)
             after == QueuedIn(longer)
  <1>1. e \in Result /\ e.tag = "failure" /\ e.reason = reason
    BY ResultIs
  <1> HIDE DEF e
  <1>2. /\ Len(queue) \in Nat /\ before \in Seq(Line) /\ Len(before) = Len(queue)
        /\ \A i \in 1 .. Len(queue) : queue[i].tag = "event"
        /\ \A i \in 1 .. Len(queue) : before[i] = queue[i].line
    BY QueueIs DEF EventsIn, QueuedIn
  <1>3. /\ longer \in Seq(Result) /\ longer # <<>> /\ Len(longer) = Len(queue) + 1
        /\ \A i \in 1 .. Len(queue) : longer[i] = queue[i]
        /\ longer[Len(queue) + 1] = e
    BY <1>1, AppendProperties DEF IsQueue
  <1> HIDE DEF longer
  <1>4. FailedIn(longer) /\ Last(longer) = e
    BY <1>1, <1>3 DEF FailedIn, Last
  <1>5. IsQueue(longer)
    BY <1>2, <1>3 DEF IsQueue
  <1>6. /\ after \in Seq(Line) /\ Len(after) = Len(queue)
        /\ \A i \in 1 .. Len(queue) : after[i] = longer[i].line
    BY <1>2, <1>3, <1>4, <1>5, QueueIs DEF EventsIn, QueuedIn
  <1> HIDE DEF before, after
  <1>7. after = before
    BY <1>2, <1>3, <1>6, SeqEqual
  <1>8. QED
    BY <1>1, <1>4, <1>5, <1>7 DEF after, before, longer, e

LEMMA TakesEvent ==
    ASSUME NEW queue, IsQueue(queue), queue # <<>>, Head(queue).tag = "event"
    PROVE  /\ IsQueue(Tail(queue)) /\ FailedIn(Tail(queue)) = FailedIn(queue)
           /\ FailedIn(queue) => Last(Tail(queue)) = Last(queue)
           /\ Head(queue).line \in Line
           /\ QueuedIn(queue) = <<Head(queue).line>> \o QueuedIn(Tail(queue))
  <1> DEFINE e == queue[1]
             shorter == Tail(queue)
             before == QueuedIn(queue)
             after == QueuedIn(shorter)
  <1>1. /\ queue \in Seq(Result) /\ Len(queue) \in Nat \ {0}
        /\ \A i \in 1 .. Len(queue) - 1 : queue[i].tag = "event"
    BY LenProperties, EmptySeq DEF IsQueue
  <1>2. Head(queue) = e
    BY HeadIs DEF IsQueue
  <1>3. /\ e.tag = "event" /\ e \in Result /\ e.line \in Line
    <2>1. e \in Result
      BY <1>1, ElementOfSeq
    <2>2. QED
      BY <1>2, <2>1, ResultIs, LinesAssumption
  <1>4. /\ shorter \in Seq(Result) /\ Len(shorter) = Len(queue) - 1
        /\ \A i \in 1 .. Len(queue) - 1 : shorter[i] = queue[i + 1]
    BY <1>1, HeadTailProperties
  <1> HIDE DEF shorter
  <1>5. IsQueue(shorter)
    BY <1>1, <1>4 DEF IsQueue
  <1>6. CASE Len(queue) = 1
    <2>1. shorter = <<>>
      BY <1>4, <1>6, EmptySeq
    <2>2. ~FailedIn(queue) /\ ~FailedIn(shorter) /\ after = <<>>
      BY <1>3, <1>5, <1>6, <2>1, QueueIs DEF FailedIn, Last
    <2>3. before = [i \in 1 .. 1 |-> queue[i].line]
      BY <1>6, <2>2 DEF QueuedIn, EventsIn
    <2>4. before = <<e.line>>
      BY <2>3
    <2>5. <<e.line>> \o <<>> = <<e.line>>
      OBVIOUS
    <2>6. FailedIn(shorter) = FailedIn(queue) /\ before = <<e.line>> \o after
      BY <2>2, <2>4, <2>5 DEF FailedIn
    <2> HIDE DEF before, after
    <2>7. QED
      BY <1>2, <1>3, <1>5, <2>2, <2>6 DEF shorter, before, after
  <1>7. CASE Len(queue) # 1
    <2>1. shorter # <<>> /\ Last(shorter) = Last(queue)
      BY <1>1, <1>4, <1>7, EmptySeq DEF Last
    <2>2. FailedIn(shorter) = FailedIn(queue)
      BY <2>1 DEF FailedIn
    <2>3. /\ before \in Seq(Line) /\ Len(before) = EventsIn(queue)
          /\ after \in Seq(Line) /\ Len(after) = EventsIn(queue) - 1
          /\ EventsIn(queue) \in 1 .. Len(queue)
          /\ \A i \in 1 .. EventsIn(queue) : before[i] = queue[i].line
          /\ \A i \in 1 .. EventsIn(queue) - 1 : after[i] = shorter[i].line
      <3>1. EventsIn(shorter) = EventsIn(queue) - 1 /\ EventsIn(queue) \in 1 .. Len(queue)
        BY <1>1, <1>4, <1>7, <2>2 DEF EventsIn
      <3>2. before \in Seq(Line) /\ Len(before) = EventsIn(queue)
            /\ after \in Seq(Line) /\ Len(after) = EventsIn(shorter)
        BY <1>5, QueueIs
      <3>3. /\ \A i \in 1 .. EventsIn(queue) : before[i] = queue[i].line
            /\ \A i \in 1 .. EventsIn(shorter) : after[i] = shorter[i].line
        BY DEF QueuedIn
      <3>4. QED
        BY <3>1, <3>2, <3>3
    <2> DEFINE first == <<e.line>>
               n == EventsIn(queue)
               joined == first \o after
    <2>4. first \in Seq(Line) /\ Len(first) = 1 /\ first[1] = e.line
      BY <1>3
    <2>5. before[1] = e.line
      BY <2>3
    <2> HIDE DEF before, after, first, n
    <2>6. /\ joined \in Seq(Line) /\ Len(joined) = Len(first) + Len(after)
          /\ \A i \in 1 .. Len(first) + Len(after) :
                joined[i] = IF i <= Len(first) THEN first[i] ELSE after[i - Len(first)]
      BY <2>3, <2>4, ConcatProperties
    <2> HIDE DEF joined
    <2>7. n \in 1 .. Len(queue) /\ Len(before) = n /\ Len(joined) = n
      BY <1>1, <2>3, <2>4, <2>6 DEF n
    <2>8. \A i \in 1 .. n : joined[i] = before[i]
      <3> SUFFICES ASSUME NEW i \in 1 .. n PROVE joined[i] = before[i]
        OBVIOUS
      <3>1. joined[i] = IF i = 1 THEN first[1] ELSE after[i - 1]
        BY <1>1, <2>4, <2>6, <2>7
      <3>2. CASE i = 1
        BY <2>4, <2>5, <3>1, <3>2
      <3>3. CASE i # 1
        <4>1. i - 1 \in 1 .. n - 1 /\ i - 1 \in 1 .. Len(queue) - 1 /\ (i - 1) + 1 = i
          BY <1>1, <2>7, <3>3
        <4>2. after[i - 1] = queue[i].line
          BY <1>4, <2>3, <4>1 DEF n
        <4>3. QED
          BY <2>3, <3>1, <3>3, <4>2 DEF n
      <3>4. QED
        BY <3>2, <3>3
    <2>9. before = joined
      BY <2>3, <2>6, <2>7, <2>8, SeqEqual
    <2>10. before = <<e.line>> \o after
      BY <2>9 DEF first, joined
    <2>11. QED
      BY <1>2, <1>3, <1>5, <2>1, <2>2, <2>10 DEF before, after, shorter
  <1>8. QED
    BY <1>6, <1>7

LEMMA TakesFailure ==
    ASSUME NEW queue, IsQueue(queue), queue # <<>>, Head(queue).tag = "failure"
    PROVE  /\ FailedIn(queue) /\ Head(queue) = Last(queue) /\ Tail(queue) = <<>>
           /\ QueuedIn(queue) = <<>>
  <1>1. /\ queue \in Seq(Result) /\ Len(queue) \in Nat \ {0}
        /\ \A i \in 1 .. Len(queue) - 1 : queue[i].tag = "event"
    BY LenProperties, EmptySeq DEF IsQueue
  <1>2. Head(queue) = queue[1]
    BY HeadIs DEF IsQueue
  <1>3. Len(queue) = 1
    <2> SUFFICES ASSUME Len(queue) # 1 PROVE FALSE
      OBVIOUS
    <2>1. 1 \in 1 .. Len(queue) - 1
      <3>1. \A n \in Nat \ {0} : n # 1 => 1 \in 1 .. n - 1
        OBVIOUS
      <3>2. QED
        BY <1>1, <3>1
    <2>2. queue[1].tag = "event"
      BY <1>1, <2>1
    <2>3. queue[1].tag = "failure"
      BY <1>2
    <2>4. QED
      BY <2>2, <2>3
  <1>4. FailedIn(queue) /\ Head(queue) = Last(queue)
    BY <1>2, <1>3 DEF FailedIn, Last
  <1>5. Tail(queue) = <<>>
    <2>1. Tail(queue) \in Seq(Result) /\ Len(Tail(queue)) = 0
      BY <1>1, <1>3, HeadTailProperties
    <2>2. QED
      BY <2>1, EmptySeq
  <1>6. QueuedIn(queue) = <<>>
    <2>1. EventsIn(queue) = 0
      BY <1>3, <1>4 DEF EventsIn
    <2>2. QED
      BY <2>1, QueueIs, EmptySeq
  <1>7. QED
    BY <1>4, <1>5, <1>6

-----------------------------------------------------------------------------
(* The invariant.                                                           *)

Yielded == delivered \o Queued

LEMMA QueueFacts ==
    ASSUME StreamInv
    PROVE  /\ TypeOK /\ IsQueue(results)
           /\ ErrorQueued = FailedIn(results) /\ Queued = QueuedIn(results)
           /\ ErrorQueued => Last(results).reason \in Decided
           /\ delivered \in Seq(Line) /\ Queued \in Seq(Line) /\ Yielded \in Seq(Line)
           /\ results = <<>> => ~ErrorQueued /\ Queued = <<>>
           /\ chunk # <<>> => ~ErrorQueued
  <1>1. /\ TypeOK /\ IsQueue(results) /\ delivered \in Seq(Line)
        /\ chunk # <<>> => ~ErrorQueued
    BY DEF StreamInv, TypeOK, IsQueue
  <1>2. ErrorQueued = FailedIn(results)
    BY DEF ErrorQueued, FailedIn
  <1>3. Queued = QueuedIn(results)
    BY <1>2 DEF Queued, QueuedIn, EventsIn
  <1>4. Queued \in Seq(Line)
    BY <1>1, <1>3, QueueIs
  <1>5. Yielded \in Seq(Line)
    BY <1>1, <1>4, ConcatProperties DEF Yielded
  <1>6. results = <<>> => ~ErrorQueued /\ Queued = <<>>
    BY <1>1, <1>2, <1>3, QueueIs
  <1>7. ErrorQueued => Last(results).reason \in Decided
    BY <1>1, <1>2, QueueIs
  <1>8. QED
    BY <1>1, <1>2, <1>3, <1>4, <1>5, <1>6, <1>7

LEMMA StreamInitInv == Init => StreamInv
  <1> SUFFICES ASSUME Init PROVE StreamInv
    OBVIOUS
  <1>1. \A S : <<>> \in Seq(S)
    BY EmptySeq
  <1>2. Len(<<>>) = 0 /\ <<>> \in Line /\ MaxLine \in Nat /\ MaxBytes \in Nat
    BY <1>1, EmptySeq, LinesAssumption DEF Line
  <1>3. QED
    BY <1>1, <1>2 DEF Init, StreamInv, TypeOK, Stages, ErrorQueued

\* A step that leaves the queue alone, or after which nothing is queued behind an error.
LEMMA SameQueue ==
    ASSUME results' = results PROVE ErrorQueued' = ErrorQueued /\ Queued' = Queued
  BY DEF ErrorQueued, Queued

LEMMA EndsInv ==
    ASSUME StreamInv, NEW end \in Decided \cup Cut, StreamEnds(end),
           UNCHANGED <<written, peer, delivered>>, IsQueue(results')
    PROVE  StreamInv'
  <1>1. \A S : <<>> \in Seq(S)
    BY EmptySeq
  <1>2. Len(<<>>) = 0 /\ <<>> \in Line
    BY <1>1, EmptySeq DEF Line
  <1>3. phase' \notin Stages /\ phase' \in Decided \cup Cut
    BY DEF StreamEnds, Stages, Decided, Cut
  <1>4. /\ chunk' = <<>> /\ buffer' = <<>> /\ remainder' = <<>> /\ socket' = <<>>
    BY DEF StreamEnds
  <1>5. TypeOK'
    BY <1>1, <1>2, <1>3, <1>4, StreamTypes DEF StreamInv, TypeOK, IsQueue
  <1>6. QED
    BY <1>3, <1>4, <1>5 DEF StreamInv, IsQueue, Stages

\* One line of the parser: what is left of the chunk, and a longer queue.
LEMMA ParsesInv ==
    ASSUME StreamInv, phase \in {"remainder", "socket"}, IsQueue(results'),
           UNCHANGED <<written, peer, socket, phase, remainder, delivered>>,
           chunk' \in Seq(Wire), buffer' = <<>>, ErrorQueued' => chunk' = <<>>
    PROVE  StreamInv'
  <1>1. <<>> \in Line /\ Len(<<>>) = 0
    BY EmptySeq DEF Line
  <1>2. TypeOK'
    BY <1>1, StreamTypes DEF StreamInv, TypeOK, IsQueue
  <1>3. QED
    BY <1>2 DEF StreamInv, IsQueue

LEMMA RefusedInv ==
    ASSUME StreamInv, Parsing, phase # "handshake", NEW reason \in Decided, Refused(reason),
           UNCHANGED <<written, peer, socket, phase, remainder, delivered>>
    PROVE  /\ StreamInv' /\ ErrorQueued' /\ Last(results').reason = reason
           /\ Queued' = Queued /\ ~ErrorQueued
  <1>1. IsQueue(results) /\ ~FailedIn(results) /\ ~ErrorQueued
    BY QueueFacts DEF Parsing
  <1> DEFINE longer == Append(results, Failure(reason))
  <1>2. results' = longer /\ chunk' = <<>> /\ buffer' = <<>>
    BY DEF Refused
  <1>3. /\ IsQueue(longer) /\ FailedIn(longer) /\ Last(longer).reason = reason
        /\ QueuedIn(longer) = QueuedIn(results)
    BY <1>1, QueuesFailure
  <1> HIDE DEF longer
  <1>4. StreamInv'
    <2>1. phase \in {"remainder", "socket"} /\ chunk' \in Seq(Wire)
      BY <1>2, EmptySeq DEF Parsing, Stages
    <2>2. QED
      BY <1>2, <1>3, <2>1, ParsesInv
  <1>5. ErrorQueued' /\ Queued' = QueuedIn(longer)
    BY <1>2, <1>3 DEF ErrorQueued, FailedIn, Queued, QueuedIn, EventsIn
  <1>6. Queued = QueuedIn(results)
    BY QueueFacts
  <1>7. QED
    BY <1>1, <1>2, <1>3, <1>4, <1>5, <1>6

LEMMA EventLineInv ==
    ASSUME StreamInv, EventLine
    PROVE  /\ StreamInv' /\ ~ErrorQueued /\ ~ErrorQueued'
           /\ Queued' = IF CurrentLine \in Selected THEN Append(Queued, CurrentLine) ELSE Queued
  <1>1. IsQueue(results) /\ ~FailedIn(results) /\ ~ErrorQueued /\ Queued = QueuedIn(results)
    BY QueueFacts DEF EventLine, LineEnds, Parsing
  <1>2. /\ phase \in {"remainder", "socket"} /\ chunk' \in Seq(Wire) /\ buffer' = <<>>
        /\ UNCHANGED <<written, peer, socket, phase, remainder, delivered>>
    BY SegmentIs DEF EventLine, LineEnds, Parsing, Stages, StreamInv
  <1>3. /\ IsQueue(results') /\ ~FailedIn(results')
        /\ QueuedIn(results') =
              IF CurrentLine \in Selected THEN Append(Queued, CurrentLine) ELSE Queued
    <2>1. CASE CurrentLine \in Selected
      <3> DEFINE line == CurrentLine
                 longer == Append(results, Event(line))
      <3>1. results' = longer
        BY <2>1 DEF EventLine, Decoded
      <3>2. line \in Selected
        BY <2>1
      <3> HIDE DEF line
      <3>3. /\ IsQueue(longer) /\ ~FailedIn(longer)
            /\ QueuedIn(longer) = Append(QueuedIn(results), line)
        BY <1>1, <3>2, QueuesEvent
      <3> HIDE DEF longer
      <3>4. QED
        BY <1>1, <2>1, <3>1, <3>3 DEF line
    <2>2. CASE CurrentLine \notin Selected
      BY <1>1, <2>2 DEF EventLine, Decoded
    <2>3. QED
      BY <2>1, <2>2
  <1>4. ~ErrorQueued' /\ Queued' = QueuedIn(results')
    BY <1>3 DEF ErrorQueued, FailedIn, Queued, QueuedIn, EventsIn
  <1>5. StreamInv'
    BY <1>2, <1>3, <1>4, ParsesInv
  <1>6. QED
    BY <1>1, <1>3, <1>4, <1>5

LEMMA TakesInv ==
    ASSUME StreamInv, Takes PROVE StreamInv'
  <1>1. /\ IsQueue(results) /\ results # <<>> /\ chunk = <<>> /\ TypeOK
        /\ results' = Tail(results) /\ UNCHANGED <<written, peer>>
    BY QueueFacts DEF Takes
  <1>2. Head(results).tag \in {"event", "failure"}
    BY <1>1 DEF Takes
  <1>3. CASE Head(results).tag = "event"
    <2> DEFINE shorter == Tail(results)
    <2>1. /\ IsQueue(shorter) /\ FailedIn(shorter) = FailedIn(results)
          /\ Head(results).line \in Line
      BY <1>1, <1>3, TakesEvent
    <2> HIDE DEF shorter
    <2>2. /\ delivered' = Append(delivered, Head(results).line)
          /\ UNCHANGED <<socket, phase, remainder, chunk, buffer>>
      BY <1>3 DEF Takes
    <2>3. delivered' \in Seq(Line) /\ delivered' # <<>>
      BY <1>1, <2>1, <2>2, StreamTypes, AppendProperties
    <2>4. results' = shorter /\ ErrorQueued' = FailedIn(shorter)
      BY <1>1 DEF shorter, ErrorQueued, FailedIn
    <2>5. ErrorQueued' = ErrorQueued
      BY <2>1, <2>4, QueueFacts
    <2>6. TypeOK'
      BY <1>1, <2>1, <2>2, <2>3, <2>4, StreamTypes DEF TypeOK, IsQueue
    <2>7. phase # "handshake"
      BY <1>1 DEF StreamInv
    <2>8. QED
      BY <1>1, <2>1, <2>2, <2>3, <2>4, <2>5, <2>6, <2>7 DEF StreamInv, IsQueue
  <1>4. CASE Head(results).tag = "failure"
    <2> DEFINE end == Head(results).reason
    <2>1. StreamEnds(end) /\ UNCHANGED delivered
      BY <1>4 DEF Takes
    <2>2. end \in Decided /\ Tail(results) = <<>>
      <3>1. FailedIn(results) /\ Head(results) = Last(results) /\ Tail(results) = <<>>
        BY <1>1, <1>4, TakesFailure
      <3>2. QED
        BY <1>1, <3>1, QueueIs
    <2>3. IsQueue(results')
      BY <1>1, <2>2, EmptySeq DEF IsQueue
    <2> HIDE DEF end
    <2>4. QED
      BY <1>1, <2>1, <2>2, <2>3, EndsInv
  <1>5. QED
    BY <1>2, <1>3, <1>4

LEMMA StreamInvStep == StreamInv /\ [Next]_vars => StreamInv'
  <1> SUFFICES ASSUME StreamInv, [Next]_vars PROVE StreamInv'
    OBVIOUS
  <1>0. TypeOK /\ IsQueue(results)
    BY QueueFacts
  <1>1. ASSUME UNCHANGED reading, written' \in 0 .. MaxBytes, socket' \in Seq(Wire),
               peer' \in {"open", "ended", "errored"}
        PROVE  StreamInv'
    BY <1>1, SameQueue DEF reading, StreamInv, TypeOK
  <1>2. ASSUME NEW b \in Wire, Arrives(b) PROVE StreamInv'
    <2>1. socket' \in Seq(Wire) /\ written' \in 0 .. MaxBytes
      BY <1>0, <1>2, StreamTypes, AppendProperties DEF Arrives
    <2>2. QED
      BY <1>0, <1>1, <1>2, <2>1, StreamTypes DEF Arrives
  <1>3. CASE PeerEnds \/ SocketErrs
    BY <1>0, <1>1, <1>3, StreamTypes DEF PeerEnds, SocketErrs
  <1>4. ASSUME NEW end \in Decided \cup Cut, StreamEnds(end),
               UNCHANGED <<written, peer, delivered, results>>
        PROVE  StreamInv'
    BY <1>0, <1>4, EndsInv
  <1>5. CASE Deadline \/ Leaves \/ ReadFails \/ HandshakeMissing \/ HandshakeRefused
    BY <1>4, <1>5 DEF Deadline, Leaves, ReadFails, HandshakeMissing, HandshakeRefused,
                      Decided, Cut
  <1>6. CASE End
    <2> DEFINE end == IF buffer = <<>> THEN "done" ELSE "premature_close"
    <2>1. end \in Decided \cup Cut /\ StreamEnds(end) /\ UNCHANGED <<written, peer, delivered, results>>
      BY <1>6 DEF End, Decided
    <2> HIDE DEF end
    <2>2. QED
      BY <1>4, <2>1
  <1>7. ASSUME NEW n \in 1 .. Len(socket), ReadSocket(n) PROVE StreamInv'
    <2>1. n \in 0 .. Len(socket) /\ socket \in Seq(Wire)
      BY <1>0, StreamTypes, LenProperties
    <2>2. chunk' \in Seq(Wire) /\ socket' \in Seq(Wire)
      BY <1>7, <2>1, Cuts DEF ReadSocket, Rest
    <2>3. results = <<>> /\ UNCHANGED <<written, peer, phase, remainder, buffer, results, delivered>>
      BY <1>7 DEF ReadSocket, Pulls
    <2>4. ~ErrorQueued'
      BY <2>3 DEF ErrorQueued
    <2>5. QED
      BY <2>2, <2>3, <2>4 DEF StreamInv, TypeOK
  <1>8. ASSUME NEW n \in 1 .. Len(remainder), ReadRemainder(n) PROVE StreamInv'
    <2>1. n \in 0 .. Len(remainder) /\ remainder \in Seq(Wire)
      BY <1>0, StreamTypes, LenProperties
    <2>2. chunk' \in Seq(Wire) /\ remainder' \in Seq(Wire)
      BY <1>8, <2>1, Cuts DEF ReadRemainder, Rest
    <2>3. /\ results = <<>> /\ phase = "remainder"
          /\ UNCHANGED <<written, peer, socket, phase, buffer, results, delivered>>
      BY <1>8 DEF ReadRemainder, Pulls
    <2>4. ~ErrorQueued'
      BY <2>3 DEF ErrorQueued
    <2>5. QED
      BY <2>2, <2>3, <2>4 DEF StreamInv, TypeOK
  <1>9. CASE StartSocket
    <2>1. CASE peer = "errored"
      BY <1>4, <1>9, <2>1 DEF StartSocket, Cut
    <2>2. CASE peer # "errored"
      <3>1. /\ remainder = <<>> /\ results = <<>> /\ phase = "remainder" /\ phase' = "socket"
            /\ UNCHANGED <<written, peer, socket, remainder, chunk, buffer, results, delivered>>
        BY <1>9, <2>2 DEF StartSocket, Pulls
      <3>2. QED
        BY <3>1, SameQueue DEF StreamInv, TypeOK, Stages
    <2>3. QED
      BY <2>1, <2>2
  <1>10. CASE Oversized
    <2>1. CASE phase = "handshake"
      BY <1>4, <1>10, <2>1 DEF Oversized, Decided
    <2>2. CASE phase # "handshake"
      BY <1>10, <2>2, RefusedInv DEF Oversized, Decided
    <2>3. QED
      BY <2>1, <2>2
  <1>11. CASE BadLine
    BY <1>11, RefusedInv DEF BadLine, LineEnds, Decided
  <1>12. CASE EventLine
    BY <1>12, EventLineInv
  <1>13. CASE Takes
    BY <1>13, TakesInv
  <1>14. CASE KeepsPartial
    <2>1. /\ NewlineAt(chunk) = 0 /\ Fits /\ buffer' = buffer \o chunk /\ chunk' = <<>>
          /\ UNCHANGED <<written, peer, socket, phase, remainder, results, delivered>>
          /\ chunk # <<>>
      BY <1>14 DEF KeepsPartial, Parsing
    <2>2. buffer' = CurrentLine /\ CurrentLine \in Line
          /\ Len(CurrentLine) = Len(buffer) + Len(Segment)
      BY <1>0, <2>1, SegmentIs DEF CurrentLine
    <2>3. buffer' \in Line /\ Len(buffer') <= MaxLine
      BY <2>1, <2>2 DEF Fits
    <2>4. ~ErrorQueued'
      BY <2>1, SameQueue, QueueFacts
    <2>5. QED
      BY <2>1, <2>3, <2>4, EmptySeq DEF StreamInv, TypeOK
  <1>15. CASE HandshakeAccepted
    <2>1. /\ phase = "handshake" /\ delivered' = <<CurrentLine>> /\ phase' = "remainder"
          /\ remainder' = Behind /\ chunk' = <<>> /\ buffer' = <<>>
          /\ UNCHANGED <<written, peer, socket, results>> /\ results = <<>>
          /\ NewlineAt(chunk) # 0
      BY <1>15 DEF HandshakeAccepted, LineEnds, StreamInv
    <2>2. CurrentLine \in Line /\ Behind \in Seq(Wire)
      BY <1>0, <2>1, SegmentIs
    <2> DEFINE line == CurrentLine
    <2> HIDE DEF line
    <2>3. <<line>> \in Seq(Line) /\ <<line>> # <<>>
      BY <2>2 DEF line
    <2>4. <<>> \in Line /\ Len(<<>>) = 0
      BY EmptySeq DEF Line
    <2>5. ~ErrorQueued'
      BY <2>1 DEF ErrorQueued
    <2>6. QED
      BY <2>1, <2>2, <2>3, <2>4, <2>5, EmptySeq, LinesAssumption
         DEF StreamInv, TypeOK, Stages, line
  <1>16. CASE UNCHANGED vars
    BY <1>16, SameQueue DEF vars, StreamInv, TypeOK
  <1>17. QED
    BY <1>2, <1>3, <1>5, <1>6, <1>7, <1>8, <1>9, <1>10, <1>11, <1>12, <1>13, <1>14, <1>15,
       <1>16 DEF Next, Environment, Reads, Parses

-----------------------------------------------------------------------------
(* The stream is a ByteFeed of lines.                                       *)

StreamKeeps == [Feed!Next]_(Feed!vars)

\* The outcome is open until it is certain.
LEMMA OutcomeIs ==
    ASSUME StreamInv
    PROVE  /\ phase \in Stages /\ ~ErrorQueued => Outcome = "open" /\ Unparsed = Raw
           /\ phase \notin Stages \/ ErrorQueued => Outcome # "open" /\ Unparsed = <<>>
           /\ phase \notin Stages /\ ~ErrorQueued => Outcome = phase
  <1>1. "open" \notin Decided \cup Cut
    BY DEF Decided, Cut
  <1>2. /\ phase \in Stages /\ ~ErrorQueued => Outcome = "open"
        /\ ErrorQueued => Outcome # "open"
        /\ phase \notin Stages /\ ~ErrorQueued => Outcome = phase /\ Outcome # "open"
    BY <1>1, QueueFacts, StreamTypes DEF Outcome
  <1>3. QED
    BY <1>2 DEF Unparsed, Raw

\* The bytes wait where they did, what was yielded is what it was, and the end as well.
LEMMA StreamStutters ==
    ASSUME StreamInv, StreamInv', delivered' \o Queued' = Yielded, Outcome' = Outcome,
           Outcome = "open" => Raw' = Raw
    PROVE  StreamKeeps
  <1>1. Outcome = "open" <=> phase \in Stages /\ ~ErrorQueued
    BY OutcomeIs
  <1>2. Unparsed' = Unparsed
    BY DEF Unparsed, Raw
  <1>3. QED
    BY <1>2 DEF StreamKeeps, Feed!vars, Yielded

\* An end: it is the outcome, unless an error that is queued is already.
LEMMA StreamOver ==
    ASSUME StreamInv, StreamInv', NEW end \in Decided \cup Cut, phase \in Stages,
           StreamEnds(end), UNCHANGED <<delivered, results>>
    PROVE  /\ ErrorQueued => StreamKeeps
           /\ ~ErrorQueued => Outcome = "open" /\ Unparsed = Raw /\ Feed!Over(end)
  <1>1. ErrorQueued' = ErrorQueued /\ Queued' = Queued
    BY SameQueue
  <1>2. phase' = end /\ end \notin Stages /\ end # "open"
    BY DEF StreamEnds, Decided, Cut, Stages
  <1>3. ASSUME ErrorQueued PROVE StreamKeeps
    <2>1. Outcome' = Outcome
      BY <1>1, <1>3 DEF Outcome
    <2>2. Outcome # "open"
      BY <1>3, OutcomeIs
    <2>3. QED
      BY <1>1, <2>1, <2>2, StreamStutters DEF Yielded
  <1>4. ASSUME ~ErrorQueued PROVE Outcome = "open" /\ Unparsed = Raw /\ Feed!Over(end)
    <2>1. Outcome = "open" /\ Unparsed = Raw
      BY <1>4, OutcomeIs
    <2>2. Outcome' = end
      BY <1>1, <1>2, <1>4 DEF Outcome
    <2>3. Unparsed' = <<>>
      BY <1>2, <2>2 DEF Unparsed
    <2>4. QED
      BY <1>1, <2>1, <2>2, <2>3 DEF Feed!Over
  <1>5. QED
    BY <1>3, <1>4

LEMMA StreamCuts ==
    ASSUME StreamInv, StreamInv', NEW end \in Cut, phase \in Stages, StreamEnds(end),
           UNCHANGED <<delivered, results>>
    PROVE  StreamKeeps
  <1>1. end \in Decided \cup Cut
    OBVIOUS
  <1>2. ~ErrorQueued => Outcome = "open" /\ Feed!Over(end)
    BY <1>1, StreamOver
  <1>3. ~ErrorQueued => Feed!IsCut
    BY <1>2 DEF Feed!IsCut
  <1>4. QED
    BY <1>1, <1>3, StreamOver DEF StreamKeeps, Feed!Next

\* What a bad line is refused with.
LEMMA StreamRefuses ==
    ASSUME Outcome = "open", Unparsed = Raw, NEW reason, Feed!Over(reason),
           DecodeLine(Yielded = <<>>, Raw) = [kind |-> "bad", reason |-> reason]
    PROVE  StreamKeeps
  <1>1. Feed!First = [kind |-> "bad", reason |-> reason]
    BY DEF Feed!First, Yielded
  <1>2. Feed!First.kind = "bad" /\ Feed!First.reason = reason
    BY <1>1
  <1>3. Feed!Refuses
    BY <1>2 DEF Feed!Refuses
  <1>4. QED
    BY <1>3 DEF StreamKeeps, Feed!Next

\* The first record is the handshake.
LEMMA FirstIs ==
    ASSUME StreamInv, phase \in Stages PROVE (Yielded = <<>>) = (phase = "handshake")
  <1>1. phase = "handshake" => Yielded = <<>>
    <2> SUFFICES ASSUME phase = "handshake" PROVE Yielded = <<>>
      OBVIOUS
    <2>1. delivered = <<>> /\ Queued = <<>>
      BY QueueFacts DEF StreamInv
    <2>2. <<>> \o <<>> = <<>>
      BY EmptySeq, ConcatEmptySeq
    <2>3. QED
      BY <2>1, <2>2 DEF Yielded
  <1>2. phase # "handshake" => Yielded # <<>>
    <2> SUFFICES ASSUME phase # "handshake" PROVE Yielded # <<>>
      OBVIOUS
    <2>1. delivered # <<>>
      BY DEF StreamInv, Stages
    <2>2. delivered \in Seq(Line) /\ Queued \in Seq(Line)
      BY QueueFacts
    <2>3. QED
      BY <2>1, <2>2, ConcatEqualIffEmpty DEF Yielded
  <1>3. QED
    BY <1>1, <1>2

\* The buffers stay together when a piece moves from one to the next.
LEMMA EmptyBetween ==
    ASSUME TypeOK
    PROVE  /\ chunk = <<>> /\ remainder = <<>> => Raw = buffer \o socket
           /\ chunk = <<>> => Raw = buffer \o (remainder \o socket)
           /\ chunk = <<>> /\ remainder = <<>> /\ socket = <<>> => Raw = buffer
  <1>1. /\ buffer \in Seq(Wire) /\ remainder \in Seq(Wire) /\ socket \in Seq(Wire)
    BY StreamTypes
  <1> DEFINE r == remainder \o socket
  <1>2. r \in Seq(Wire) /\ Raw = buffer \o (chunk \o r)
    BY RawTypes
  <1>3. remainder = <<>> => r = socket
    BY <1>1, ConcatEmptySeq
  <1>4. <<>> \o r = r /\ buffer \o <<>> = buffer
    BY <1>1, <1>2, ConcatEmptySeq
  <1>5. chunk = <<>> => Raw = buffer \o r
    BY <1>2, <1>4
  <1> HIDE DEF r
  <1>6. QED
    BY <1>3, <1>4, <1>5 DEF r

LEMMA StreamArrives ==
    ASSUME StreamInv, StreamInv', NEW b \in Wire, Arrives(b) PROVE StreamKeeps
  <1>1. /\ phase \in Stages /\ socket' = Append(socket, b)
        /\ UNCHANGED <<phase, remainder, chunk, buffer, results, delivered>>
    BY DEF Arrives, reading
  <1>2. Queued' = Queued /\ ErrorQueued' = ErrorQueued /\ Outcome' = Outcome
    BY <1>1, SameQueue DEF Outcome
  <1>3. CASE ErrorQueued
    BY <1>1, <1>2, <1>3, OutcomeIs, StreamStutters DEF Yielded
  <1>4. CASE ~ErrorQueued
    <2> DEFINE front == buffer \o chunk \o remainder
    <2>1. front \in Seq(Wire) /\ socket \in Seq(Wire)
      BY StreamTypes, ConcatProperties DEF StreamInv
    <2>2. Raw = front \o socket /\ Raw' = front \o Append(socket, b)
      BY <1>1 DEF Raw
    <2> HIDE DEF front
    <2>3. front \o Append(socket, b) = Append(front \o socket, b)
      BY <2>1, AppendsBehind
    <2>4. Raw' = Append(Raw, b)
      BY <2>2, <2>3
    <2>5. Outcome = "open" /\ Unparsed = Raw
      BY <1>1, <1>4, OutcomeIs
    <2>6. Unparsed' = Raw'
      BY <1>2, <2>5 DEF Unparsed, Raw
    <2>7. Feed!Arrives
      BY <1>1, <1>2, <2>4, <2>5, <2>6 DEF Feed!Arrives
    <2>8. QED
      BY <2>7 DEF StreamKeeps, Feed!Next
  <1>5. QED
    BY <1>3, <1>4

\* A chunk, from the socket or from what came with the handshake.
LEMMA StreamReads ==
    ASSUME StreamInv, StreamInv', NEW n,
           \/ n \in 1 .. Len(socket) /\ ReadSocket(n)
           \/ n \in 1 .. Len(remainder) /\ ReadRemainder(n)
    PROVE  StreamKeeps
  <1>1. /\ chunk = <<>> /\ results = <<>> /\ UNCHANGED <<phase, buffer, results, delivered>>
        /\ phase \in Stages
    BY DEF ReadSocket, ReadRemainder, Pulls
  <1>2. /\ buffer \in Seq(Wire) /\ remainder \in Seq(Wire) /\ socket \in Seq(Wire)
        /\ TypeOK
    BY StreamTypes DEF StreamInv
  <1>3. Queued' = Queued /\ ErrorQueued' = ErrorQueued /\ Outcome' = Outcome
    BY <1>1, SameQueue DEF Outcome
  <1>4. CASE n \in 1 .. Len(socket) /\ ReadSocket(n)
    <2> DEFINE x == SubSeq(socket, 1, n)
               y == SubSeq(socket, n + 1, Len(socket))
    <2>1. n \in 0 .. Len(socket)
      BY <1>2, <1>4, LenProperties
    <2>2. x \in Seq(Wire) /\ y \in Seq(Wire)
      BY <1>2, <2>1, Cuts
    <2>3. x \o y = socket
      BY <1>2, <2>1, Cuts
    <2>4. chunk' = x /\ socket' = y /\ remainder = <<>> /\ remainder' = <<>>
      BY <1>4 DEF ReadSocket, Rest, StreamInv, Pulls, Stages
    <2>5. Raw = buffer \o socket
      BY <1>1, <1>2, <2>4, EmptyBetween
    <2> HIDE DEF x, y
    <2>6. Raw' = ((buffer \o x) \o <<>>) \o y
      BY <1>1, <2>4 DEF Raw
    <2>7. buffer \o x \in Seq(Wire)
      BY <1>2, <2>2, ConcatProperties
    <2>8. (buffer \o x) \o <<>> = buffer \o x
      BY <2>7, ConcatEmptySeq
    <2>9. (buffer \o x) \o y = buffer \o (x \o y)
      BY <1>2, <2>2, WireAssociates
    <2>10. Raw' = Raw
      BY <2>3, <2>5, <2>6, <2>8, <2>9
    <2>11. QED
      BY <1>1, <1>3, <2>10, StreamStutters DEF Yielded
  <1>5. CASE n \in 1 .. Len(remainder) /\ ReadRemainder(n)
    <2> DEFINE x == SubSeq(remainder, 1, n)
               y == SubSeq(remainder, n + 1, Len(remainder))
    <2>1. n \in 0 .. Len(remainder)
      BY <1>2, <1>5, LenProperties
    <2>2. x \in Seq(Wire) /\ y \in Seq(Wire)
      BY <1>2, <2>1, Cuts
    <2>3. x \o y = remainder
      BY <1>2, <2>1, Cuts
    <2>4. chunk' = x /\ remainder' = y /\ socket' = socket
      BY <1>5 DEF ReadRemainder, Rest
    <2>5. Raw = buffer \o (remainder \o socket)
      BY <1>1, <1>2, EmptyBetween
    <2> HIDE DEF x, y
    <2>6. Raw' = ((buffer \o x) \o y) \o socket
      BY <1>1, <2>4 DEF Raw
    <2>7. AreJoined(buffer, x, y, socket)
      BY <1>2, <2>2, Joined
    <2>8. (x \o y) \o socket = x \o (y \o socket)
      <3>1. x \in Seq(Wire) /\ y \in Seq(Wire) /\ socket \in Seq(Wire)
        BY <1>2, <2>2
      <3>2. QED
        BY ONLY <3>1, ConcatAssociative
    <2>9. Raw' = Raw
      BY <2>3, <2>5, <2>6, <2>7, <2>8 DEF AreJoined
    <2>10. QED
      BY <1>1, <1>3, <2>9, StreamStutters DEF Yielded
  <1>6. QED
    BY <1>4, <1>5

LEMMA StreamKeepsPartial ==
    ASSUME StreamInv, StreamInv', KeepsPartial PROVE StreamKeeps
  <1>1. /\ buffer' = buffer \o chunk /\ chunk' = <<>> /\ phase \in Stages
        /\ UNCHANGED <<socket, phase, remainder, results, delivered>>
    BY DEF KeepsPartial, Parsing
  <1>2. Queued' = Queued /\ Outcome' = Outcome
    BY <1>1, SameQueue DEF Outcome
  <1> DEFINE front == buffer \o chunk
  <1>3. front \in Seq(Wire)
    BY StreamTypes, ConcatProperties DEF StreamInv
  <1>4. Raw = (front \o remainder) \o socket /\ Raw' = ((front \o <<>>) \o remainder) \o socket
    BY <1>1 DEF Raw
  <1> HIDE DEF front
  <1>5. front \o <<>> = front
    BY <1>3, ConcatEmptySeq
  <1>6. Raw' = Raw
    BY <1>4, <1>5
  <1>7. QED
    BY <1>1, <1>2, <1>6, StreamStutters DEF Yielded

\* The socket's end, within a line or behind one.
LEMMA StreamAtEnd ==
    ASSUME StreamInv, StreamInv', HandshakeMissing \/ End PROVE StreamKeeps
  <1> DEFINE end == LineAtEnd(Yielded = <<>>, buffer)
  <1>1. /\ phase \in Stages /\ results = <<>> /\ chunk = <<>> /\ socket = <<>>
        /\ remainder = <<>> /\ UNCHANGED <<delivered, results>> /\ TypeOK
    BY DEF HandshakeMissing, End, AtSocketEnd, Pulls, StreamInv
  <1>2. (Yielded = <<>>) = (phase = "handshake")
    BY <1>1, FirstIs
  <1>3. StreamEnds(end) /\ end \in Decided \cup Cut
    <2>1. CASE HandshakeMissing
      BY <1>2, <2>1 DEF HandshakeMissing, LineAtEnd, Decided
    <2>2. CASE End
      BY <1>2, <2>2 DEF End, LineAtEnd, Decided
    <2>3. QED
      BY <2>1, <2>2
  <1>4. ~ErrorQueued
    BY <1>1, QueueFacts
  <1>5. Raw = buffer
    BY <1>1, EmptyBetween
  <1>6. DecodeLine(Yielded = <<>>, buffer).kind = "partial"
    BY <1>1, StreamTypes, DecodesPartial
  <1> HIDE DEF end
  <1>7. Outcome = "open" /\ Unparsed = buffer /\ Feed!Over(end)
    BY <1>1, <1>3, <1>4, <1>5, StreamOver
  <1>8. Feed!Ends
    <2>1. Feed!First.kind = "partial"
      BY <1>6, <1>7 DEF Feed!First, Yielded
    <2>2. QED
      BY <1>7, <2>1 DEF Feed!Ends, end, Yielded
  <1>9. QED
    BY <1>8 DEF StreamKeeps, Feed!Next

\* An error that is queued decides the outcome.
LEMMA QueuedIsOver ==
    ASSUME StreamInv, ~ErrorQueued, phase \in Stages, NEW reason \in Decided, ErrorQueued',
           Last(results').reason = reason, Queued' = Queued, delivered' = delivered
    PROVE  Outcome = "open" /\ Unparsed = Raw /\ Feed!Over(reason)
  <1>1. Outcome = "open" /\ Unparsed = Raw
    BY OutcomeIs
  <1>2. Outcome' = reason /\ reason # "open"
    BY DEF Outcome, Decided
  <1>3. Unparsed' = <<>>
    BY <1>2 DEF Unparsed
  <1>4. QED
    BY <1>1, <1>2, <1>3 DEF Feed!Over

LEMMA StreamOversized ==
    ASSUME StreamInv, StreamInv', Oversized PROVE StreamKeeps
  <1>1. /\ Parsing /\ phase \in Stages /\ ~Fits /\ TypeOK /\ ~ErrorQueued
        /\ delivered' = delivered
    BY QueueFacts DEF Oversized, Parsing, StreamInv
  <1>2. CurrentLine \in Line /\ Len(CurrentLine) > MaxLine
    <2>1. /\ CurrentLine \in Line /\ Len(CurrentLine) = Len(buffer) + Len(Segment)
          /\ Segment \in Line
      BY <1>1, SegmentIs
    <2>2. Len(buffer) \in Nat /\ Len(Segment) \in Nat /\ MaxLine \in Nat
      BY <1>1, <2>1, StreamTypes, LineHasNone
    <2>3. QED
      BY <1>1, <2>1, <2>2 DEF Fits
  <1>3. DecodeLine(Yielded = <<>>, Raw) = [kind |-> "bad", reason |-> "oversized_frame"]
    <2>1. PICK rest \in Seq(Wire) : Raw = CurrentLine \o rest
      BY <1>1, RawHasPart
    <2> DEFINE line == CurrentLine
    <2>2. line \in Line /\ Len(line) > MaxLine /\ Raw = line \o rest
      BY <1>2, <2>1
    <2> HIDE DEF line
    <2>3. DecodeLine(Yielded = <<>>, line \o rest) = [kind |-> "bad", reason |-> "oversized_frame"]
      BY <2>2, DecodesLong
    <2>4. QED
      BY <2>2, <2>3
  <1>4. Outcome = "open" /\ Unparsed = Raw /\ Feed!Over("oversized_frame")
    <2>1. CASE phase = "handshake"
      <3>1. StreamEnds("oversized_frame") /\ UNCHANGED <<delivered, results>>
        BY <1>1, <2>1 DEF Oversized
      <3>2. QED
        BY <1>1, <3>1, StreamOver DEF Decided
    <2>2. CASE phase # "handshake"
      <3>1. /\ Refused("oversized_frame") /\ "oversized_frame" \in Decided
            /\ UNCHANGED <<written, peer, socket, phase, remainder, delivered>>
        BY <2>2 DEF Oversized, Decided
      <3>2. /\ ErrorQueued' /\ Last(results').reason = "oversized_frame" /\ Queued' = Queued
        BY <1>1, <2>2, <3>1, RefusedInv
      <3>3. QED
        BY <1>1, <3>1, <3>2, QueuedIsOver
    <2>3. QED
      BY <2>1, <2>2
  <1>5. QED
    BY <1>3, <1>4, StreamRefuses

LEMMA LineDecodes ==
    ASSUME TypeOK, LineEnds
    PROVE  /\ Later \in Seq(Wire)
           /\ SubSeq(Raw, Len(CurrentLine) + 1 + 1, Len(Raw)) = Later
           /\ \A first :
                 DecodeLine(first, Raw) =
                    IF CurrentLine \in (IF first THEN Handshakes ELSE Selected)
                    THEN [kind |-> "record", length |-> Len(CurrentLine) + 1,
                          yields |-> <<CurrentLine>>]
                    ELSE IF ~first /\ CurrentLine \in {<<>>} \cup Unselected
                    THEN [kind |-> "record", length |-> Len(CurrentLine) + 1, yields |-> <<>>]
                    ELSE [kind |-> "bad", reason |-> "invalid"]
  <1> DEFINE line == CurrentLine
             later == Later
  <1>1. /\ later \in Seq(Wire) /\ line \in Line /\ Len(line) <= MaxLine
        /\ Raw = (line \o <<Newline>>) \o later
    BY SegmentIs, RawHasLine DEF LineEnds, Fits
  <1> HIDE DEF line, later
  <1>2. \A first : IsLine(first, line, later)
    BY <1>1, DecodesLine
  <1>3. QED
    BY <1>1, <1>2 DEF IsLine, line, later

LEMMA StreamHandshakeRefused ==
    ASSUME StreamInv, StreamInv', HandshakeRefused PROVE StreamKeeps
  <1>1. /\ LineEnds /\ phase = "handshake" /\ phase \in Stages /\ TypeOK /\ ~ErrorQueued
        /\ StreamEnds("invalid") /\ UNCHANGED <<delivered, results>>
    BY QueueFacts DEF HandshakeRefused, LineEnds, Parsing, StreamInv
  <1>2. Yielded = <<>>
    BY <1>1, FirstIs
  <1>3. DecodeLine(Yielded = <<>>, Raw) = [kind |-> "bad", reason |-> "invalid"]
    BY <1>1, <1>2, LineDecodes DEF HandshakeRefused
  <1>4. Outcome = "open" /\ Unparsed = Raw /\ Feed!Over("invalid")
    BY <1>1, StreamOver DEF Decided
  <1>5. QED
    BY <1>3, <1>4, StreamRefuses

LEMMA StreamBadLine ==
    ASSUME StreamInv, StreamInv', BadLine PROVE StreamKeeps
  <1>1. /\ LineEnds /\ Parsing /\ phase # "handshake" /\ phase \in Stages /\ TypeOK
        /\ ~ErrorQueued /\ Refused("invalid") /\ "invalid" \in Decided
        /\ UNCHANGED <<written, peer, socket, phase, remainder, delivered>>
    BY QueueFacts DEF BadLine, LineEnds, Parsing, StreamInv, Decided
  <1>2. Yielded # <<>>
    BY <1>1, FirstIs
  <1>3. DecodeLine(Yielded = <<>>, Raw) = [kind |-> "bad", reason |-> "invalid"]
    BY <1>1, <1>2, LineDecodes DEF BadLine
  <1>4. ErrorQueued' /\ Last(results').reason = "invalid" /\ Queued' = Queued
    BY <1>1, RefusedInv
  <1>5. Outcome = "open" /\ Unparsed = Raw /\ Feed!Over("invalid")
    BY <1>1, <1>4, QueuedIsOver
  <1>6. QED
    BY <1>3, <1>5, StreamRefuses

\* A record: what it yields is behind what was yielded, and its bytes are gone.
LEMMA StreamYields ==
    ASSUME StreamInv, StreamInv', LineEnds, ~ErrorQueued, ~ErrorQueued',
           phase \in Stages, phase' \in Stages, NEW yields,
           DecodeLine(Yielded = <<>>, Raw) =
              [kind |-> "record", length |-> Len(CurrentLine) + 1, yields |-> yields],
           Raw' = Later, delivered' \o Queued' = Yielded \o yields
    PROVE  StreamKeeps
  <1>1. Outcome = "open" /\ Unparsed = Raw
    BY OutcomeIs
  <1>2. Outcome' = "open"
    BY DEF Outcome
  <1>3. Unparsed' = Later
    BY <1>2 DEF Unparsed, Raw
  <1>4. SubSeq(Raw, Len(CurrentLine) + 1 + 1, Len(Raw)) = Later
    BY LineDecodes DEF StreamInv
  <1>5. /\ Feed!First.kind = "record" /\ Feed!First.length = Len(CurrentLine) + 1
        /\ Feed!First.yields = yields
    <2>1. Feed!First = DecodeLine(Yielded = <<>>, Raw)
      BY <1>1 DEF Feed!First, Yielded
    <2>2. QED
      BY <2>1
  <1>6. Feed!Yields
    BY <1>1, <1>2, <1>3, <1>4, <1>5 DEF Feed!Yields, Yielded
  <1>7. QED
    BY <1>6 DEF StreamKeeps, Feed!Next

LEMMA StreamAccepts ==
    ASSUME StreamInv, StreamInv', HandshakeAccepted PROVE StreamKeeps
  <1> DEFINE line == CurrentLine
  <1>1. /\ LineEnds /\ phase = "handshake" /\ phase \in Stages /\ TypeOK /\ line \in Handshakes
        /\ phase' \in Stages /\ delivered' = <<line>> /\ remainder' = Behind /\ chunk' = <<>>
        /\ buffer' = <<>> /\ UNCHANGED <<socket, results>> /\ remainder = <<>> /\ results = <<>>
        /\ NewlineAt(chunk) # 0
    BY DEF HandshakeAccepted, LineEnds, StreamInv, Stages
  <1>2. ~ErrorQueued /\ Queued = <<>> /\ ErrorQueued' = ErrorQueued /\ Queued' = Queued
    BY <1>1, QueueFacts, SameQueue
  <1>3. Yielded = <<>>
    BY <1>1, FirstIs
  <1>4. DecodeLine(Yielded = <<>>, Raw) =
           [kind |-> "record", length |-> Len(line) + 1, yields |-> <<line>>]
    BY <1>1, <1>3, LineDecodes
  <1>5. Raw' = Later
    <2>1. Behind \in Seq(Wire) /\ socket \in Seq(Wire)
      BY <1>1, SegmentIs, StreamTypes
    <2>2. <<>> \o socket = socket
      BY <2>1, ConcatEmptySeq
    <2>3. Later = Behind \o socket
      BY <1>1, <2>2 DEF Later
    <2> DEFINE behind == Behind
    <2>4. Raw' = ((<<>> \o <<>>) \o behind) \o socket
      BY <1>1 DEF Raw
    <2> HIDE DEF behind
    <2>5. <<>> \o <<>> = <<>>
      BY EmptySeq, ConcatEmptySeq
    <2>6. <<>> \o behind = behind
      BY <2>1, ConcatEmptySeq DEF behind
    <2>7. QED
      BY <2>3, <2>4, <2>5, <2>6 DEF behind
  <1>6. line \in Line
    BY <1>1, SegmentIs
  <1> HIDE DEF line
  <1>7. delivered' \o Queued' = Yielded \o <<line>>
    <2> DEFINE one == <<line>>
    <2>1. one \in Seq(Line)
      BY <1>6
    <2> HIDE DEF one
    <2>2. one \o <<>> = one /\ <<>> \o one = one
      BY <2>1, ConcatEmptySeq
    <2>3. QED
      BY <1>1, <1>2, <1>3, <2>2 DEF one
  <1>8. QED
    BY <1>1, <1>2, <1>4, <1>5, <1>7, StreamYields DEF line

LEMMA StreamEventLine ==
    ASSUME StreamInv, StreamInv', EventLine PROVE StreamKeeps
  <1> DEFINE line == CurrentLine
             yields == IF line \in Selected THEN <<line>> ELSE <<>>
  <1>1. /\ LineEnds /\ phase # "handshake" /\ phase \in Stages /\ TypeOK
        /\ line \in {<<>>} \cup Selected \cup Unselected
        /\ buffer' = <<>> /\ chunk' = Behind
        /\ UNCHANGED <<socket, phase, remainder, delivered>>
        /\ NewlineAt(chunk) # 0
    BY DEF EventLine, LineEnds, Parsing, StreamInv
  <1>2. /\ ~ErrorQueued /\ ~ErrorQueued'
        /\ Queued' = IF line \in Selected THEN Append(Queued, line) ELSE Queued
    BY EventLineInv
  <1>3. Yielded # <<>>
    BY <1>1, FirstIs
  <1>4. DecodeLine(Yielded = <<>>, Raw) =
           [kind |-> "record", length |-> Len(line) + 1, yields |-> yields]
    BY <1>1, <1>3, LineDecodes
  <1>5. Raw' = Later
    <2> DEFINE behind == Behind
    <2>1. behind \in Seq(Wire) /\ remainder \in Seq(Wire) /\ socket \in Seq(Wire)
      BY <1>1, SegmentIs, StreamTypes
    <2>2. Raw' = ((<<>> \o behind) \o remainder) \o socket
      BY <1>1 DEF Raw
    <2> HIDE DEF behind
    <2>3. <<>> \o behind = behind
      BY <2>1, ConcatEmptySeq
    <2>4. (behind \o remainder) \o socket = behind \o (remainder \o socket)
      BY ONLY <2>1, ConcatAssociative
    <2>5. QED
      BY <2>2, <2>3, <2>4 DEF Later, behind
  <1>6. line \in Line /\ delivered \in Seq(Line) /\ Queued \in Seq(Line) /\ Yielded \in Seq(Line)
    BY <1>1, SegmentIs, QueueFacts
  <1> HIDE DEF line
  <1>7. delivered' \o Queued' = Yielded \o yields
    <2>1. CASE line \in Selected
      <3> DEFINE queued == Queued
                 longer == Append(queued, line)
                 one == <<line>>
      <3>1. longer = queued \o one /\ one \in Seq(Line) /\ queued \in Seq(Line)
        BY <1>6, AppendIsConcat
      <3>2. delivered' \o Queued' = delivered \o longer
        BY <1>1, <1>2, <2>1
      <3>3. Yielded = delivered \o queued /\ yields = one
        BY <2>1 DEF Yielded
      <3> HIDE DEF queued, longer, one
      <3>4. (delivered \o queued) \o one = delivered \o (queued \o one)
        <4>1. delivered \in Seq(Line) /\ queued \in Seq(Line) /\ one \in Seq(Line)
          BY <1>6, <3>1
        <4>2. QED
          BY ONLY <4>1, ConcatAssociative
      <3>5. QED
        BY <3>1, <3>2, <3>3, <3>4
    <2>2. CASE line \notin Selected
      <3>1. delivered' \o Queued' = Yielded /\ yields = <<>>
        BY <1>1, <1>2, <2>2 DEF Yielded
      <3>2. Yielded \o <<>> = Yielded
        BY <1>6, ConcatEmptySeq
      <3>3. QED
        BY <3>1, <3>2
    <2>3. QED
      BY <2>1, <2>2
  <1> HIDE DEF yields
  <1>8. phase' \in Stages
    BY <1>1
  <1>9. QED
    BY <1>1, <1>2, <1>4, <1>5, <1>7, <1>8, StreamYields DEF line

LEMMA StreamTakes ==
    ASSUME StreamInv, StreamInv', Takes PROVE StreamKeeps
  <1>1. /\ IsQueue(results) /\ results # <<>> /\ TypeOK /\ results' = Tail(results)
        /\ ErrorQueued = FailedIn(results) /\ Queued = QueuedIn(results)
        /\ delivered \in Seq(Line)
    BY QueueFacts DEF Takes
  <1>2. Head(results).tag \in {"event", "failure"}
    BY DEF Takes
  <1>3. CASE Head(results).tag = "event"
    <2> DEFINE line == Head(results).line
               one == <<line>>
               later == QueuedIn(Tail(results))
    <2>1. /\ FailedIn(Tail(results)) = FailedIn(results) /\ IsQueue(Tail(results))
          /\ FailedIn(results) => Last(Tail(results)) = Last(results)
          /\ line \in Line /\ Queued = one \o later
      BY <1>1, <1>3, TakesEvent
    <2>2. later \in Seq(Line) /\ one \in Seq(Line)
      BY <2>1, QueueIs
    <2>3. /\ delivered' = Append(delivered, line)
          /\ UNCHANGED <<socket, phase, remainder, chunk, buffer>>
      BY <1>3 DEF Takes
    <2>4. Append(delivered, line) = delivered \o one
      BY <1>1, <2>1, AppendIsConcat
    <2>5. ErrorQueued' = FailedIn(Tail(results)) /\ Queued' = later
      BY <1>1 DEF ErrorQueued, FailedIn, Queued, QueuedIn, EventsIn
    <2> HIDE DEF one, later
    <2>6. (delivered \o one) \o later = delivered \o (one \o later)
      <3>1. delivered \in Seq(Line) /\ one \in Seq(Line) /\ later \in Seq(Line)
        BY <1>1, <2>2
      <3>2. QED
        BY ONLY <3>1, ConcatAssociative
    <2>7. delivered' \o Queued' = Yielded
      BY <2>1, <2>3, <2>4, <2>5, <2>6 DEF Yielded
    <2>8. Outcome' = Outcome
      BY <1>1, <2>1, <2>3, <2>5 DEF Outcome
    <2>9. Raw' = Raw
      BY <2>3 DEF Raw
    <2>10. QED
      BY <2>7, <2>8, <2>9, StreamStutters
  <1>4. CASE Head(results).tag = "failure"
    <2>1. /\ ErrorQueued /\ Head(results) = Last(results) /\ results' = <<>> /\ Queued = <<>>
      BY <1>1, <1>4, TakesFailure
    <2>2. phase' = Last(results).reason /\ Last(results).reason \in Decided
          /\ delivered' = delivered
      BY <1>4, <2>1, QueueFacts DEF Takes, StreamEnds
    <2>3. ~ErrorQueued'
      BY <2>1 DEF ErrorQueued
    <2>4. Queued' = Queued
      <3>1. IsQueue(results')
        BY <2>1, EmptySeq DEF IsQueue
      <3>2. Queued' = QueuedIn(results')
        BY DEF Queued, QueuedIn, EventsIn, ErrorQueued, FailedIn
      <3>3. QueuedIn(<<>>) = <<>>
        BY <2>1, <3>1, QueueIs
      <3>4. QED
        BY <2>1, <3>2, <3>3
    <2>5. Outcome = Last(results).reason /\ Outcome # "open"
      BY <2>1, OutcomeIs DEF Outcome
    <2>6. Outcome' = Outcome
      BY <2>2, <2>3, <2>5 DEF Outcome, Decided, Stages
    <2>7. QED
      BY <2>2, <2>4, <2>5, <2>6, StreamStutters DEF Yielded
  <1>5. QED
    BY <1>2, <1>3, <1>4

\* An end that the bytes do not decide, and the socket that is read from now on.
LEMMA StreamLeaves ==
    ASSUME StreamInv, StreamInv', Deadline \/ Leaves \/ ReadFails \/ StartSocket
    PROVE  StreamKeeps
  <1>1. ASSUME NEW end \in Cut, phase \in Stages, StreamEnds(end),
               UNCHANGED <<delivered, results>>
        PROVE  StreamKeeps
    BY <1>1, StreamCuts
  <1>2. CASE Deadline \/ Leaves \/ ReadFails
    BY <1>1, <1>2 DEF Deadline, Leaves, ReadFails, Pulls, Cut, Stages
  <1>3. CASE StartSocket
    <2>1. CASE peer = "errored"
      BY <1>1, <1>3, <2>1 DEF StartSocket, Pulls, Cut
    <2>2. CASE peer # "errored"
      <3>1. /\ phase \in Stages /\ phase' \in Stages
            /\ UNCHANGED <<socket, remainder, chunk, buffer, results, delivered>>
        BY <1>3, <2>2 DEF StartSocket, Pulls, Stages
      <3>2. ErrorQueued' = ErrorQueued /\ Queued' = Queued /\ Raw' = Raw
        BY <3>1, SameQueue DEF Raw
      <3>3. Outcome' = Outcome
        BY <3>1, <3>2 DEF Outcome
      <3>4. QED
        BY <3>1, <3>2, <3>3, StreamStutters DEF Yielded
    <2>3. QED
      BY <2>1, <2>2
  <1>4. QED
    BY <1>2, <1>3

LEMMA StreamStep == StreamInv /\ StreamInv' /\ [Next]_vars => StreamKeeps
  <1> SUFFICES ASSUME StreamInv, StreamInv', [Next]_vars PROVE StreamKeeps
    OBVIOUS
  <1>1. CASE PeerEnds \/ SocketErrs \/ UNCHANGED vars
    <2>1. UNCHANGED <<socket, reading>>
      BY <1>1 DEF PeerEnds, SocketErrs, vars, reading
    <2>2. Queued' = Queued /\ Outcome' = Outcome /\ Raw' = Raw /\ delivered' = delivered
      BY <2>1, SameQueue DEF reading, Outcome, Raw
    <2>3. QED
      BY <2>2, StreamStutters DEF Yielded
  <1>2. ASSUME NEW b \in Wire, Arrives(b) PROVE StreamKeeps
    BY <1>2, StreamArrives
  <1>3. CASE Deadline \/ Leaves \/ ReadFails \/ StartSocket
    BY <1>3, StreamLeaves
  <1>4. ASSUME NEW n, \/ n \in 1 .. Len(socket) /\ ReadSocket(n)
                      \/ n \in 1 .. Len(remainder) /\ ReadRemainder(n)
        PROVE  StreamKeeps
    BY <1>4, StreamReads
  <1>5. CASE HandshakeMissing \/ End
    BY <1>5, StreamAtEnd
  <1>6. CASE Oversized
    BY <1>6, StreamOversized
  <1>7. CASE KeepsPartial
    BY <1>7, StreamKeepsPartial
  <1>8. CASE HandshakeAccepted \/ HandshakeRefused
    BY <1>8, StreamAccepts, StreamHandshakeRefused
  <1>9. CASE EventLine \/ BadLine
    BY <1>9, StreamEventLine, StreamBadLine
  <1>10. CASE Takes
    BY <1>10, StreamTakes
  <1>11. QED
    BY <1>1, <1>2, <1>3, <1>4, <1>5, <1>6, <1>7, <1>8, <1>9, <1>10
       DEF Next, Environment, Reads, Parses

LEMMA StreamBegins == Init => Feed!Init
  <1> SUFFICES ASSUME Init PROVE Feed!Init
    OBVIOUS
  <1>1. <<>> \o <<>> = <<>>
    BY EmptySeq, ConcatEmptySeq
  <1>2. StreamInv /\ phase \in Stages /\ phase = "handshake"
    BY StreamInitInv DEF Init, Stages
  <1>3. Yielded = <<>>
    BY <1>2, FirstIs
  <1>4. ~ErrorQueued
    BY DEF Init, ErrorQueued
  <1>5. Outcome = "open" /\ Unparsed = Raw
    BY <1>2, <1>4, OutcomeIs
  <1>6. Raw = <<>>
    BY <1>1 DEF Init, Raw
  <1>7. QED
    BY <1>3, <1>5, <1>6 DEF Feed!Init, Yielded

\* Every buffer keeps within its limit, and nothing is queued behind an error.
THEOREM StreamInvariant == Spec => []StreamInv
  BY StreamInitInv, StreamInvStep, PTL DEF Spec

\* The unterminated line stays within the limit, whatever the chunks
\* (splitHerdrSocketLines).
THEOREM LinesAreBounded == Spec => []TypeOK
  <1>1. StreamInv => TypeOK
    BY DEF StreamInv
  <1>2. QED
    BY <1>1, StreamInvariant, PTL

\* However the socket cuts its bytes into chunks, around the handshake too, the consumer
\* gets the events of their lines, each once and in order, and an error behind them
\* (splitHerdrSocketLines, parseHerdrEventChunks, makeHerdrSocketByteStream).
THEOREM LinesAreFed == Spec => ImplementsLineFeed
  <1>1. StreamInv /\ StreamInv' /\ [Next]_vars => [Feed!Next]_(Feed!vars)
    BY StreamStep DEF StreamKeeps
  <1>2. QED
    BY <1>1, StreamBegins, StreamInvariant, PTL DEF Spec, ImplementsLineFeed, Feed!Spec

-----------------------------------------------------------------------------
(* The three readers together.                                              *)

\* A behaviour of the readers is a behaviour of each of them: the others stutter.
LEMMA ReadersAreEach == Readers => Spec /\ FrameSpec /\ CodecSpec
  <1>1. ReadersInit => Init /\ FrameInit /\ CodecInit
    BY DEF ReadersInit
  <1>2. [ReadersNext]_<<vars, frameVars, codecVars, reader>> =>
            [Next]_vars /\ [FrameNext]_frameVars /\ [CodecNext]_codecVars
    BY DEF ReadersNext
  <1>3. QED
    BY <1>1, <1>2, PTL DEF Readers, Spec, FrameSpec, CodecSpec

\* Every buffer, offset and unterminated line stays within its limit
\* (splitHerdrSocketLines, FrameReader, EndpointReader).
THEOREM ReadersStayInBounds == Readers => []ReadersTypeOK
  <1>1. FrameInv => FrameTypeOK
    BY DEF FrameInv
  <1>2. TypeOK /\ FrameTypeOK /\ CodecTypeOK => ReadersTypeOK
    BY DEF ReadersTypeOK
  <1>3. QED
    BY <1>1, <1>2, ReadersAreEach, LinesAreBounded, FrameInvariant, CodecTypeCorrect, PTL

\* Whatever the bytes and the chunks they arrive in, the readers yield the lines, the
\* frames and the values that the bytes stand for (parseHerdrEventChunks, FrameReader,
\* decodeEndpointMessage).
THEOREM ReadersYieldWhatWasSent ==
    Readers => /\ ImplementsLineFeed /\ ImplementsFrameFeed
               /\ []ReadsTheLanguage /\ []WrittenIsRead
  BY ReadersAreEach, LinesAreFed, FramesAreFed, DecodesTheLanguage, DecodesWhatWasEncoded, PTL
=============================================================================
