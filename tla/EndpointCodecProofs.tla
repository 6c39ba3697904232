-------------------------- MODULE EndpointCodecProofs --------------------------
(***************************************************************************)
(* EndpointReader accepts exactly the language of its layouts, and reads   *)
(* back what was encoded, for every radix, every widths of numbers and     *)
(* every set of layouts.                                                   *)
(***************************************************************************)
EXTENDS EndpointCodecProps, DataTheorems

-----------------------------------------------------------------------------
(* Powers of the radix.                                                     *)

LEMMA Radixes ==
    /\ Radix \in Nat /\ Radix > 6 /\ Single \in Nat /\ Single = Radix - 6
    /\ \A tag \in 1 .. 3 : Widths[tag] \in Nat \ {0}
  BY CodecAssumption DEF Single

LEMMA Scaled == ASSUME NEW n \in Nat PROVE Radix * n \in Nat
  BY Radixes

LEMMA Powers ==
    /\ Power[0] = 1
    /\ \A n \in Nat : Power[n] \in Nat /\ Power[n] > 0
    /\ \A n \in Nat : Power[n + 1] = Radix * Power[n]
  <1> DEFINE S == Nat
             Step(f) == [n \in Nat |-> IF n = 0 THEN 1 ELSE Radix * f[n - 1]]
             step == [f \in [Nat -> S] |-> Step(f)]
  <1>1. Radix \in Nat /\ Radix > 6
    BY Radixes
  <1>2. step \in [[Nat -> S] -> [Nat -> S]]
    <2>1. ASSUME NEW f \in [Nat -> S], NEW n \in Nat, n # 0 PROVE Radix * f[n - 1] \in Nat
      <3>1. f[n - 1] \in Nat
        BY <2>1
      <3>2. QED
        BY <1>1, <3>1
    <2>2. QED
      BY <2>1
  <1>3. ASSUME NEW f \in [Nat -> S], NEW g \in [Nat -> S], NEW n \in Nat,
               \A m \in Nat : m < n => f[m] = g[m]
        PROVE  step[f][n] = step[g][n]
    <2>1. n # 0 => f[n - 1] = g[n - 1]
      BY <1>3
    <2>2. QED
      BY <2>1
  <1>4. PICK f \in [Nat -> S] : f = step[f]
    <2> HIDE DEF step
    <2>1. QED
      BY <1>2, <1>3, NumberRecursion
  <1>5. f = Step(f)
    BY <1>4
  <1>6. Power = Step(Power)
    BY <1>5 DEF Power
  <1> DEFINE G == {n \in Nat : Power[n] \in Nat /\ Power[n] > 0}
  <1>7. Power[0] = 1 /\ \A n \in Nat : Power[n + 1] = Radix * Power[n]
    <2>1. \A n \in Nat : Power[n] = IF n = 0 THEN 1 ELSE Radix * Power[n - 1]
      BY <1>6
    <2>2. ASSUME NEW n \in Nat PROVE Power[n + 1] = Radix * Power[n]
      <3>1. n + 1 \in Nat /\ n + 1 # 0 /\ (n + 1) - 1 = n
        OBVIOUS
      <3>2. QED
        BY <2>1, <3>1
    <2>3. QED
      BY <2>1, <2>2
  <1>8. Nat \subseteq G
    <2>1. 0 \in G
      BY <1>7
    <2>2. ASSUME NEW n \in Nat, n \in G PROVE n + 1 \in G
      <3>1. Radix * Power[n] \in Nat /\ Radix * Power[n] > 0
        BY <1>1, <2>2
      <3>2. QED
        BY <1>7, <3>1
    <2> HIDE DEF G
    <2>3. QED
      BY <2>1, <2>2, NumberInduction
  <1>9. QED
    BY <1>7, <1>8

LEMMA PowerIsNumber == ASSUME NEW n \in Nat PROVE Power[n] \in Nat /\ Power[n] > 0
  BY Powers

\* A larger power is at least the radix times as large.
LEMMA PowersGrow ==
    ASSUME NEW m \in Nat, NEW n \in Nat, m < n
    PROVE  Power[m] < Power[n]
  <1> DEFINE G == {k \in Nat : k > m => Power[m] < Power[k]}
  <1>1. 0 \in G
    OBVIOUS
  <1>2. ASSUME NEW k \in Nat, k \in G PROVE k + 1 \in G
    <2>1. SUFFICES ASSUME k + 1 > m PROVE Power[m] < Power[k + 1]
      OBVIOUS
    <2>2. Power[m] <= Power[k]
      <3>1. Power[m] \in Nat /\ (k = m \/ k > m)
        BY <2>1, Powers
      <3>2. Power[k] \in Nat
        BY PowerIsNumber
      <3>3. QED
        BY <1>2, <3>1, <3>2
    <2>3. Power[k] < Power[k + 1]
      <3>1. Power[k] \in Nat /\ Power[k] > 0 /\ Power[k + 1] = Radix * Power[k]
        BY Powers
      <3>2. QED
        BY <3>1, Radixes
    <2>4. QED
      BY <2>2, <2>3, Powers
  <1>3. Nat \subseteq G
    <2> HIDE DEF G
    <2>1. QED
      BY <1>1, <1>2, NumberInduction
  <1>4. QED
    BY <1>3

LEMMA Mosts ==
    /\ \A tag \in 1 .. 3 : Most(tag) \in Nat /\ Most(tag) = Power[Widths[tag]] - 1
    /\ Single < Most(1) + 1 /\ Most(1) < Most(2) /\ Most(2) < Most(3)
  <1>1. \A tag \in 1 .. 3 : Most(tag) \in Nat /\ Most(tag) = Power[Widths[tag]] - 1
    <2> TAKE tag \in 1 .. 3
    <2>1. Widths[tag] \in Nat
      BY Radixes
    <2>2. Power[Widths[tag]] \in Nat /\ Power[Widths[tag]] > 0
      BY <2>1, Powers
    <2>3. QED
      BY <2>2 DEF Most
  <1>2. Single < Most(1) + 1
    <2>1. Power[1] = Radix
      <3>1. Power[0 + 1] = Radix * Power[0] /\ Power[0] = 1
        BY Powers
      <3>2. QED
        BY <3>1, Radixes
    <2>2. Widths[1] \in Nat /\ (Widths[1] = 1 \/ 1 < Widths[1])
      BY Radixes
    <2>3. Power[1] <= Power[Widths[1]]
      <3>1. CASE Widths[1] = 1
        BY <2>1, <3>1, Radixes
      <3>2. CASE 1 < Widths[1]
        <4>1. Power[1] < Power[Widths[1]]
          BY <2>2, <3>2, PowersGrow
        <4>2. Power[1] \in Nat /\ Power[Widths[1]] \in Nat
          BY <2>2, Powers
        <4>3. QED
          BY <4>1, <4>2
      <3>3. QED
        BY <2>2, <3>1, <3>2
    <2>4. QED
      BY <1>1, <2>1, <2>3, Radixes, Powers
  <1>3. ASSUME NEW s \in 1 .. 3, NEW t \in 1 .. 3, Widths[s] < Widths[t]
        PROVE  Most(s) < Most(t)
    <2>1. Power[Widths[s]] < Power[Widths[t]]
      BY <1>3, Radixes, PowersGrow
    <2>2. QED
      BY <1>1, <2>1, Powers, Radixes
  <1>4. Widths[1] < Widths[2] /\ Widths[2] < Widths[3]
    BY CodecAssumption
  <1>5. QED
    BY <1>1, <1>2, <1>3, <1>4

-----------------------------------------------------------------------------
(* Numbers of several octets.                                               *)

\* What FromLittleEndian computes on its way from the last digit to the first.
IsHorner(value, digits) ==
    value = [i \in 0 .. Len(digits) |->
                IF i = Len(digits) THEN 0 ELSE digits[i + 1] + Radix * value[i + 1]]

LEMMA HornerExists ==
    ASSUME NEW digits \in Seq(Digit)
    PROVE  \E value \in [0 .. Len(digits) -> Nat] : IsHorner(value, digits)
  <1> DEFINE S == Nat
             L == Len(digits)
             digit == [n \in Nat |-> IF n <= L /\ n > 0 THEN digits[L - n + 1] ELSE 0]
             Step(f) == [n \in Nat |-> IF n = 0 THEN 0 ELSE digit[n] + Radix * f[n - 1]]
             step == [f \in [Nat -> S] |-> Step(f)]
  <1>1. L \in Nat /\ \A i \in 1 .. L : digits[i] \in Nat
    BY LenProperties, ElementOfSeq, Radixes DEF Digit
  <1> HIDE DEF L
  <1>2. \A n \in Nat : digit[n] \in Nat
    <2> TAKE n \in Nat
    <2>1. n <= L /\ n > 0 => L - n + 1 \in 1 .. L
      BY <1>1
    <2>2. QED
      BY <1>1, <2>1
  <1> HIDE DEF digit
  <1>3. step \in [[Nat -> S] -> [Nat -> S]]
    <2>1. ASSUME NEW f \in [Nat -> S], NEW n \in Nat, n # 0
          PROVE  digit[n] + Radix * f[n - 1] \in Nat
      <3>1. f[n - 1] \in Nat
        BY <2>1
      <3>2. Radix * f[n - 1] \in Nat
        BY <3>1, Scaled
      <3>3. digit[n] \in Nat
        BY <1>2
      <3>4. \A i, j \in Nat : i + j \in Nat
        OBVIOUS
      <3>5. QED
        BY <3>2, <3>3, <3>4, Zenon
    <2>2. QED
      BY <2>1
  <1>4. ASSUME NEW f \in [Nat -> S], NEW g \in [Nat -> S], NEW n \in Nat,
               \A m \in Nat : m < n => f[m] = g[m]
        PROVE  step[f][n] = step[g][n]
    <2>1. n # 0 => f[n - 1] = g[n - 1]
      BY <1>4
    <2>2. QED
      BY <2>1
  <1>5. PICK f \in [Nat -> S] : f = step[f]
    <2> HIDE DEF step
    <2>1. QED
      BY <1>3, <1>4, NumberRecursion
  <1>6. f[0] = 0 /\ \A n \in Nat : n # 0 => f[n] = digit[n] + Radix * f[n - 1]
    BY <1>5
  <1> DEFINE value == [i \in 0 .. L |-> f[L - i]]
  <1>7. value \in [0 .. L -> Nat]
    BY <1>1, <1>5
  <1>8. ASSUME NEW i \in 0 .. L
        PROVE  value[i] = IF i = L THEN 0 ELSE digits[i + 1] + Radix * value[i + 1]
    <2>1. CASE i = L
      BY <1>1, <1>6, <2>1
    <2>2. CASE i # L
      <3>1. L - i \in Nat /\ L - i # 0 /\ (L - i) - 1 = L - (i + 1) /\ i + 1 \in 0 .. L
            /\ L - i <= L /\ L - (L - i) + 1 = i + 1
        BY <1>1, <2>2
      <3>2. digit[L - i] = digits[i + 1]
        BY <3>1 DEF digit
      <3>3. f[L - i] = digit[L - i] + Radix * f[L - (i + 1)]
        BY <1>6, <3>1
      <3>4. QED
        BY <2>2, <3>1, <3>2, <3>3
    <2>3. QED
      BY <2>1, <2>2
  <1>9. value = [i \in 0 .. L |-> IF i = L THEN 0 ELSE digits[i + 1] + Radix * value[i + 1]]
    BY <1>8
  <1> HIDE DEF value
  <1>10. QED
    BY <1>7, <1>9 DEF IsHorner, L

LEMMA Horner ==
    ASSUME NEW digits \in Seq(Digit)
    PROVE  \E value \in [0 .. Len(digits) -> Nat] :
              /\ FromLittleEndian(digits) = value[0]
              /\ value[Len(digits)] = 0
              /\ \A i \in 0 .. Len(digits) - 1 : value[i] = digits[i + 1] + Radix * value[i + 1]
  <1> DEFINE L == Len(digits)
             value == CHOOSE f : IsHorner(f, digits)
  <1>1. FromLittleEndian(digits) = value[0]
    BY DEF FromLittleEndian, IsHorner
  <1>2. PICK f \in [0 .. L -> Nat] : IsHorner(f, digits)
    BY HornerExists
  <1>3. IsHorner(value, digits)
    BY <1>2
  <1> HIDE DEF value
  <1>4. L \in Nat
    BY LenProperties
  <1>5. /\ value = [i \in 0 .. L |-> value[i]] /\ value[L] = 0
        /\ \A i \in 0 .. L - 1 : value[i] = digits[i + 1] + Radix * value[i + 1]
    BY <1>3, <1>4 DEF IsHorner
  <1>6. /\ f[L] = 0
        /\ \A i \in 0 .. L - 1 : f[i] = digits[i + 1] + Radix * f[i + 1]
    BY <1>2, <1>4 DEF IsHorner
  <1> DEFINE G == {n \in Nat : n <= L => value[L - n] = f[L - n]}
  <1> HIDE DEF L
  <1>7. 0 \in G
    BY <1>4, <1>5, <1>6
  <1>8. ASSUME NEW n \in Nat, n \in G PROVE n + 1 \in G
    <2>1. SUFFICES ASSUME n + 1 <= L PROVE value[L - (n + 1)] = f[L - (n + 1)]
      OBVIOUS
    <2>2. /\ L - (n + 1) \in 0 .. L - 1 /\ L - (n + 1) + 1 = L - n
          /\ value[L - n] = f[L - n]
      BY <1>4, <1>8, <2>1
    <2>3. QED
      BY <1>5, <1>6, <2>2
  <1>9. Nat \subseteq G
    <2> HIDE DEF G
    <2>1. QED
      BY <1>7, <1>8, NumberInduction
  <1>10. \A i \in 0 .. L : value[i] = f[i]
    <2> TAKE i \in 0 .. L
    <2> DEFINE k == L - i
    <2>1. k \in Nat /\ L - k = i /\ k <= L
      BY <1>4
    <2> HIDE DEF k
    <2>2. value[L - k] = f[L - k]
      BY <1>9, <2>1
    <2>3. QED
      BY <2>1, <2>2
  <1>11. value \in [0 .. L -> Nat]
    BY <1>2, <1>5, <1>10
  <1>12. QED
    BY <1>1, <1>5, <1>11 DEF L

\* The number that octets stand for is a natural.
LEMMA FromLittleEndianIsNumber ==
    ASSUME NEW digits \in Seq(Digit)
    PROVE  FromLittleEndian(digits) \in Nat
  <1>1. Len(digits) \in Nat
    BY LenProperties
  <1>2. QED
    BY <1>1, Horner

\* What is encoded in enough octets is decoded as itself.
LEMMA LittleEndianIsRead ==
    ASSUME NEW w \in Nat, NEW n \in Nat, n < Power[w]
    PROVE  /\ LittleEndian(n, w) \in Seq(Digit) /\ Len(LittleEndian(n, w)) = w
           /\ FromLittleEndian(LittleEndian(n, w)) = n
  <1> DEFINE digits == LittleEndian(n, w)
  <1>1. \A i \in Nat : n \div Power[i] \in Nat
    <2> TAKE i \in Nat
    <2>1. Power[i] \in Nat /\ Power[i] > 0
      BY Powers
    <2>2. QED
      BY <2>1
  <1>2. digits \in [1 .. w -> Digit] /\ \A i \in 1 .. w : digits[i] = (n \div Power[i - 1]) % Radix
    <2>1. ASSUME NEW i \in 1 .. w PROVE (n \div Power[i - 1]) % Radix \in Digit
      <3>1. n \div Power[i - 1] \in Nat
        BY <1>1
      <3>2. QED
        BY <3>1, Radixes DEF Digit
    <2>2. QED
      BY <2>1 DEF LittleEndian
  <1> HIDE DEF digits
  <1>3. digits \in Seq(Digit) /\ Len(digits) = w
    <2>1. digits \in Seq(Digit)
      BY <1>2, SeqDef
    <2>2. DOMAIN digits = 1 .. Len(digits) /\ Len(digits) \in Nat /\ DOMAIN digits = 1 .. w
      BY <1>2, <2>1, LenProperties
    <2>3. \A i, j \in Nat : 1 .. i = 1 .. j => i = j
      OBVIOUS
    <2>4. QED
      BY ONLY <2>1, <2>2, <2>3, w \in Nat
  <1>4. PICK value \in [0 .. w -> Nat] :
              /\ FromLittleEndian(digits) = value[0]
              /\ value[w] = 0
              /\ \A i \in 0 .. w - 1 : value[i] = digits[i + 1] + Radix * value[i + 1]
    BY <1>3, Horner
  <1> DEFINE G == {k \in Nat : k <= w => value[w - k] = n \div Power[w - k]}
  <1>5. 0 \in G
    <2>1. \A p \in Nat : n < p => n \div p = 0
      OBVIOUS
    <2>2. w - 0 = w /\ Power[w] \in Nat
      BY PowerIsNumber
    <2>3. QED
      BY <1>4, <2>1, <2>2
  <1>6. ASSUME NEW k \in Nat, k \in G PROVE k + 1 \in G
    <2>1. SUFFICES ASSUME k + 1 <= w PROVE value[w - (k + 1)] = n \div Power[w - (k + 1)]
      OBVIOUS
    <2> DEFINE i == w - (k + 1)
               p == Power[i]
               q == n \div p
    <2>2. i \in 0 .. w - 1 /\ i \in Nat /\ i + 1 = w - k /\ k <= w /\ i + 1 \in 1 .. w
          /\ (i + 1) - 1 = i
      BY <2>1
    <2> HIDE DEF i
    <2>3. value[i + 1] = n \div Power[i + 1] /\ value[i] = digits[i + 1] + Radix * value[i + 1]
      BY <1>4, <1>6, <2>2
    <2>4. digits[i + 1] = q % Radix
      BY <1>2, <2>2
    <2>5. p \in Nat /\ p > 0 /\ Power[i + 1] = Radix * p
      BY <2>2, Powers
    <2>6. q \in Nat
      BY <1>1, <2>2
    <2> HIDE DEF q
    <2>7. n \div Power[i + 1] = q \div Radix
      <3>1. \A r, s \in Nat : r > 0 /\ s > 0 => n \div (s * r) = (n \div r) \div s
        BY SMTT(60)
      <3> HIDE DEF p
      <3>2. n \div (Radix * p) = (n \div p) \div Radix
        BY <2>5, <3>1, Radixes
      <3>3. QED
        BY <2>5, <3>2 DEF q
    <2>8. (q % Radix) + Radix * (q \div Radix) = q
      BY <2>6, Radixes
    <2>9. value[i] = q
      BY <2>3, <2>4, <2>7, <2>8
    <2>10. QED
      BY <2>9 DEF i, q
  <1>7. w \in G
    <2>1. Nat \subseteq G
      <3> HIDE DEF G
      <3>1. QED
        BY <1>5, <1>6, NumberInduction
    <2>2. QED
      BY <2>1
  <1>8. value[0] = n \div Power[0]
    <2>1. w - w = 0
      OBVIOUS
    <2>2. QED
      BY <1>7, <2>1
  <1>9. n \div 1 = n
    OBVIOUS
  <1>10. QED
    BY <1>3, <1>4, <1>8, <1>9, Powers DEF digits

\* Decoding and the sum of the digits' worth agree.
LEMMA DecodedIsValue ==
    ASSUME NEW digits \in Seq(Digit)
    PROVE  Value(digits) = FromLittleEndian(digits)
  <1> DEFINE L == Len(digits)
             worth == [i \in DOMAIN digits |-> digits[i] * Power[i - 1]]
  <1>1. L \in Nat /\ DOMAIN digits = 1 .. L /\ \A i \in 1 .. L : digits[i] \in Nat
    BY LenProperties, ElementOfSeq, Radixes DEF Digit
  <1>2. Value(digits) = SumOver(worth, DOMAIN worth) /\ DOMAIN worth = 1 .. L
    BY <1>1 DEF Value, SumFunction, SumFunctionOnSet, FoldFunctionOnSet, SumOver, MapThenSumSet
  <1>3. \A i \in 1 .. L : worth[i] = digits[i] * Power[i - 1] /\ worth[i] \in Nat
    <2> TAKE i \in 1 .. L
    <2>1. i - 1 \in Nat
      BY <1>1
    <2>2. Power[i - 1] \in Nat /\ digits[i] \in Nat
      BY <1>1, <2>1, Powers
    <2>3. QED
      BY <1>1, <2>2
  <1> HIDE DEF worth, L
  <1>4. PICK value \in [0 .. L -> Nat] :
              /\ FromLittleEndian(digits) = value[0]
              /\ value[L] = 0
              /\ \A i \in 0 .. L - 1 : value[i] = digits[i + 1] + Radix * value[i + 1]
    BY Horner DEF L
  <1> DEFINE G == {k \in Nat : k <= L => value[0] = SumOver(worth, 1 .. k) + Power[k] * value[k]}
  <1>5. 0 \in G
    <2>1. 1 .. 0 = {}
      OBVIOUS
    <2>2. 0 \in 0 .. L
      BY <1>1
    <2>3. value[0] \in Nat
      BY <1>4, <2>2
    <2>4. SumOver(worth, 1 .. 0) = 0
      BY <2>1, SumEmpty
    <2>5. Power[0] * value[0] = value[0]
      BY <2>3, Powers
    <2>6. value[0] = SumOver(worth, 1 .. 0) + Power[0] * value[0]
      BY <2>3, <2>4, <2>5
    <2>7. QED
      BY <2>6
  <1>6. ASSUME NEW k \in Nat, k \in G PROVE k + 1 \in G
    <2>1. SUFFICES ASSUME k + 1 <= L
                   PROVE  value[0] = SumOver(worth, 1 .. k + 1) + Power[k + 1] * value[k + 1]
      OBVIOUS
    <2>2. k \in 0 .. L - 1 /\ k + 1 \in 0 .. L /\ k <= L /\ k + 1 \in 1 .. L /\ (k + 1) - 1 = k
      BY <1>1, <2>1
    <2>3. /\ value[k] = digits[k + 1] + Radix * value[k + 1]
          /\ value[k + 1] \in Nat /\ digits[k + 1] \in Nat
          /\ worth[k + 1] = digits[k + 1] * Power[k]
      BY <1>1, <1>3, <1>4, <2>2
    <2>4. SumOver(worth, 1 .. k + 1) = worth[k + 1] + SumOver(worth, 1 .. k)
          /\ SumOver(worth, 1 .. k) \in Nat
      <3>1. IsFiniteSet(1 .. k + 1) /\ IsFiniteSet(1 .. k)
        BY FS_Interval
      <3>2. k + 1 \in 1 .. k + 1 /\ (1 .. k + 1) \ {k + 1} = 1 .. k
            /\ 1 .. k + 1 \subseteq 1 .. L /\ 1 .. k \subseteq 1 .. L
        <4>1. k + 1 \in 1 .. k + 1 /\ (1 .. k + 1) \ {k + 1} = 1 .. k
          OBVIOUS
        <4>2. 1 .. k + 1 \subseteq 1 .. L
          BY <1>1, <2>1
        <4>3. QED
          BY <4>1, <4>2
      <3>3. SumOver(worth, 1 .. k) \in Nat
        BY <1>3, <3>1, <3>2, SumType
      <3>4. \A i \in 1 .. k + 1 : worth[i] \in Nat
        BY <1>3, <3>2
      <3>5. SumOver(worth, 1 .. k + 1) = worth[k + 1] + SumOver(worth, (1 .. k + 1) \ {k + 1})
        BY <3>1, <3>2, <3>4, SumRemove
      <3>6. QED
        BY <3>2, <3>3, <3>5
    <2>5. Power[k] \in Nat /\ Power[k + 1] = Radix * Power[k]
      BY Powers
    <2>6. value[0] = SumOver(worth, 1 .. k) + Power[k] * value[k]
      BY <1>6, <2>2
    <2>7. \A d, p, r, v \in Nat : p * (d + r * v) = d * p + (r * p) * v
      OBVIOUS
    <2>8. Power[k] * value[k] = worth[k + 1] + Power[k + 1] * value[k + 1]
      BY <2>3, <2>5, <2>7, Radixes
    <2>9. worth[k + 1] \in Nat /\ Power[k + 1] * value[k + 1] \in Nat
      <3>1. \A x, y \in Nat : x * y \in Nat
        OBVIOUS
      <3>2. k + 1 \in Nat
        OBVIOUS
      <3>3. Power[k + 1] \in Nat
        BY <3>2, Powers, Zenon
      <3>4. Power[k + 1] * value[k + 1] \in Nat
        BY <2>3, <3>1, <3>3, Zenon
      <3>5. QED
        BY <1>3, <2>2, <3>4, Zenon
    <2>10. QED
      BY <2>4, <2>6, <2>8, <2>9
  <1>7. L \in G
    <2>1. Nat \subseteq G
      <3> HIDE DEF G
      <3>1. QED
        BY <1>5, <1>6, NumberInduction
    <2>2. QED
      BY <1>1, <2>1
  <1>8. value[0] = SumOver(worth, 1 .. L)
    <2>1. value[L] = 0 /\ Power[L] \in Nat /\ SumOver(worth, 1 .. L) \in Nat
      <3>1. IsFiniteSet(1 .. L)
        BY <1>1, FS_Interval
      <3>2. QED
        BY <1>1, <1>3, <1>4, <3>1, Powers, SumType
    <2>2. QED
      BY <1>1, <1>7, <2>1
  <1>9. QED
    BY <1>2, <1>4, <1>8

-----------------------------------------------------------------------------
(* Spellings, one after the other.                                          *)

AllFields == Fields \cup {Tagged}
AllSpellings == [octets : Seq(Digit), read : Seq(Int)]
Nothing == Spelling(<<>>, <<>>)

LEMMA SpellingIs ==
    ASSUME NEW octets, NEW read
    PROVE  /\ Spelling(octets, read).octets = octets
           /\ Spelling(octets, read).read = read
           /\ Spelling(octets, read) \in AllSpellings <=> octets \in Seq(Digit) /\ read \in Seq(Int)
  BY DEF Spelling, AllSpellings

LEMMA SpellingOf ==
    ASSUME NEW s \in AllSpellings
    PROVE  /\ s.octets \in Seq(Digit) /\ s.read \in Seq(Int) /\ Len(s.octets) \in Nat
           /\ s = Spelling(s.octets, s.read)
  <1>1. s.octets \in Seq(Digit) /\ s.read \in Seq(Int) /\ s = Spelling(s.octets, s.read)
    BY DEF Spelling, AllSpellings
  <1>2. QED
    BY <1>1, LenProperties

LEMMA NothingIs ==
    /\ Nothing \in AllSpellings /\ Nothing.octets = <<>> /\ Nothing.read = <<>>
    /\ Len(Nothing.octets) = 0
  BY SpellingIs, EmptySeq DEF Nothing

LEMMA ThenIs ==
    ASSUME NEW s \in AllSpellings, NEW t \in AllSpellings
    PROVE  /\ Then(s, t) \in AllSpellings
           /\ Then(s, t).octets = s.octets \o t.octets
           /\ Then(s, t).read = s.read \o t.read
           /\ Len(Then(s, t).octets) = Len(s.octets) + Len(t.octets)
           /\ Len(Then(s, t).octets) \in Nat
  <1> DEFINE octets == s.octets \o t.octets
             read == s.read \o t.read
  <1>1. s.octets \in Seq(Digit) /\ s.read \in Seq(Int) /\ t.octets \in Seq(Digit) /\ t.read \in Seq(Int)
    BY SpellingOf
  <1>2. octets \in Seq(Digit) /\ Len(octets) = Len(s.octets) + Len(t.octets)
    BY <1>1, ConcatProperties
  <1>3. read \in Seq(Int)
    BY <1>1, ConcatProperties
  <1>4. Then(s, t) = Spelling(octets, read)
    BY DEF Then
  <1>5. Len(octets) \in Nat
    BY <1>2, LenProperties
  <1> HIDE DEF octets, read
  <1>6. /\ Then(s, t) \in AllSpellings /\ Then(s, t).octets = octets /\ Then(s, t).read = read
        /\ Len(octets) = Len(s.octets) + Len(t.octets)
    BY <1>2, <1>3, <1>4, SpellingIs
  <1>7. octets = s.octets \o t.octets /\ read = s.read \o t.read
    BY DEF octets, read
  <1>8. QED
    BY <1>5, <1>6, <1>7

LEMMA ThenAssociates ==
    ASSUME NEW s \in AllSpellings, NEW t \in AllSpellings, NEW u \in AllSpellings
    PROVE  Then(Then(s, t), u) = Then(s, Then(t, u))
  <1>1. /\ s.octets \in Seq(Digit) /\ t.octets \in Seq(Digit) /\ u.octets \in Seq(Digit)
        /\ s.read \in Seq(Int) /\ t.read \in Seq(Int) /\ u.read \in Seq(Int)
    BY SpellingOf
  <1>2. (s.octets \o t.octets) \o u.octets = s.octets \o (t.octets \o u.octets)
    <2>1. \A p, q, r \in Seq(Digit) : (p \o q) \o r = p \o (q \o r)
      BY ONLY AllAssociate
    <2>2. QED
      BY ONLY <1>1, <2>1
  <1>3. (s.read \o t.read) \o u.read = s.read \o (t.read \o u.read)
    <2>1. \A p, q, r \in Seq(Int) : (p \o q) \o r = p \o (q \o r)
      BY ONLY AllAssociate
    <2>2. QED
      BY ONLY <1>1, <2>1
  <1>4. Then(Then(s, t), u) = Spelling((s.octets \o t.octets) \o u.octets, (s.read \o t.read) \o u.read)
    BY ThenIs DEF Then
  <1>5. Then(s, Then(t, u)) = Spelling(s.octets \o (t.octets \o u.octets), s.read \o (t.read \o u.read))
    BY ThenIs DEF Then
  <1>6. QED
    BY <1>2, <1>3, <1>4, <1>5

LEMMA ThenNothing ==
    ASSUME NEW s \in AllSpellings
    PROVE  Then(s, Nothing) = s /\ Then(Nothing, s) = s
  <1>1. s.octets \in Seq(Digit) /\ s.read \in Seq(Int) /\ s = Spelling(s.octets, s.read)
    BY SpellingOf
  <1>2. s.octets \o <<>> = s.octets /\ <<>> \o s.octets = s.octets
    BY <1>1, ConcatEmptySeq
  <1>3. s.read \o <<>> = s.read /\ <<>> \o s.read = s.read
    BY <1>1, ConcatEmptySeq
  <1>4. QED
    BY <1>1, <1>2, <1>3, NothingIs DEF Then

LEMMA NothingIsShortest ==
    ASSUME NEW s \in AllSpellings, NEW t \in AllSpellings, Then(s, t).octets = <<>>
    PROVE  s.octets = <<>> /\ t.octets = <<>>
  <1>1. s.octets \in Seq(Digit) /\ t.octets \in Seq(Digit) /\ s.octets \o t.octets = <<>>
    BY SpellingOf, ThenIs
  <1>2. QED
    BY <1>1, ConcatEqualIffEmpty

-----------------------------------------------------------------------------
(* Fields, and what they contain.                                           *)

Kinds == {"octet", "number", "signed", "data", "optional", "array", "choice"}

LEMMA FieldIs ==
    ASSUME NEW field \in AllFields
    PROVE  /\ field.kind \in Kinds
           /\ field.kind = "octet" => field.below \in 1 .. Radix
           /\ field.kind = "number" => /\ field.tags \in 1 .. 3 /\ field.maximum \in Nat
                                       /\ field.maximum <= Most(field.tags)
           /\ field.kind = "data" => field.text \in BOOLEAN
           /\ field.kind = "optional" => field.fields \in Seq(Fields)
           /\ field.kind = "array" => field.fields \in Seq(Fields) /\ field.fields # <<>>
           /\ field.kind = "choice" => /\ field.of \in [DOMAIN field.of -> Seq(Fields)]
                                       /\ field.otherwise \in {"framing", "unsupported_message"}
  <1>1. CASE field \in Fields
    <2>1. IsField(field)
      BY <1>1, FieldsAssumption
    <2>2. QED
      BY <2>1 DEF IsField, I32, Kinds
  <1>2. CASE field = Tagged
    <2>1. field.kind = "choice" /\ field.of = Server /\ field.otherwise = "unsupported_message"
      BY <1>2 DEF Tagged
    <2>2. QED
      BY <2>1, FieldsAssumption DEF Kinds
  <1>3. QED
    BY <1>1, <1>2 DEF AllFields

LEMMA RepeatedIs ==
    ASSUME NEW S, NEW fields \in Seq(S), NEW times \in Nat
    PROVE  /\ Repeated(fields, times) \in Seq(S)
           /\ fields # <<>> => Len(Repeated(fields, times)) >= times
  <1> DEFINE copies == [i \in 1 .. times |-> fields]
  <1>1. copies \in Seq(Seq(S)) /\ Len(copies) = times /\ \A i \in 1 .. times : copies[i] = fields
    <2>1. copies \in [1 .. times -> Seq(S)]
      OBVIOUS
    <2>2. \A i \in 1 .. times : copies[i] = fields
      OBVIOUS
    <2> HIDE DEF copies
    <2>3. QED
      BY <2>1, <2>2, SequencesOf
  <1> HIDE DEF copies
  <1>2. PICK flat \in [Nat -> Seq(S)] :
              /\ flat[0] = <<>>
              /\ \A i \in 1 .. times : flat[i] = flat[i - 1] \o copies[i]
              /\ FlattenSeq(copies) = flat[times]
    BY <1>1, Flattens
  <1>3. Repeated(fields, times) = flat[times] /\ flat[times] \in Seq(S)
    BY <1>2 DEF Repeated, copies
  <1>4. ASSUME fields # <<>> PROVE Len(flat[times]) >= times
    <2> DEFINE G == {n \in Nat : n <= times => Len(flat[n]) >= n}
    <2>1. 0 \in G
      <3>1. Len(flat[0]) = 0
        BY <1>2, EmptySeq
      <3>2. QED
        BY <3>1
    <2>2. ASSUME NEW n \in Nat, n \in G PROVE n + 1 \in G
      <3>1. SUFFICES ASSUME n + 1 <= times PROVE Len(flat[n + 1]) >= n + 1
        OBVIOUS
      <3>2. n + 1 \in 1 .. times /\ (n + 1) - 1 = n /\ n <= times
        BY <3>1
      <3>3. flat[n + 1] = flat[n] \o fields /\ flat[n] \in Seq(S)
        BY <1>1, <1>2, <3>2
      <3>4. Len(flat[n + 1]) = Len(flat[n]) + Len(fields)
        BY <3>3, ConcatProperties
      <3>5. Len(fields) \in Nat \ {0} /\ Len(flat[n]) \in Nat
        BY <1>4, <3>3, EmptySeq, LenProperties
      <3>6. QED
        BY <2>2, <3>2, <3>4, <3>5
    <2>3. Nat \subseteq G
      <3> HIDE DEF G
      <3>1. QED
        BY <2>1, <2>2, NumberInduction
    <2>4. QED
      BY <2>3
  <1>5. QED
    BY <1>3, <1>4

-----------------------------------------------------------------------------
(* Numbers, and the other fields by themselves.                             *)

\* An octet, or digits behind the tag for so many.
IsBare(s) == \E d \in 0 .. Single : s = Spelling(<<d>>, <<d>>)
IsBehind(s, tag) ==
    \E digits \in Seq(Digit) :
        /\ Len(digits) = Widths[tag]
        /\ s = Spelling(<<Single + tag>> \o digits, <<FromLittleEndian(digits)>>)

LEMMA NumberIs ==
    ASSUME NEW tags \in 1 .. 3, NEW maximum, NEW s
    PROVE  s \in Numbers(tags, maximum)
              <=> /\ IsBare(s) \/ \E tag \in 1 .. tags : IsBehind(s, tag)
                  /\ s.read[1] <= maximum
  <1> DEFINE behind(tag) == {Spelling(<<Single + tag>> \o digits, <<Value(digits)>>) :
                                digits \in [1 .. Widths[tag] -> Digit]}
  <1>1. ASSUME NEW tag \in 1 .. tags PROVE s \in behind(tag) <=> IsBehind(s, tag)
    <2>1. Widths[tag] \in Nat
      BY Radixes
    <2>2. \A digits : digits \in [1 .. Widths[tag] -> Digit]
                         <=> digits \in Seq(Digit) /\ Len(digits) = Widths[tag]
      BY <2>1, SequencesOf
    <2>3. \A digits \in Seq(Digit) : Value(digits) = FromLittleEndian(digits)
      BY DecodedIsValue
    <2>4. QED
      BY <2>2, <2>3 DEF IsBehind
  <1>2. s \in {Spelling(<<d>>, <<d>>) : d \in 0 .. Single} <=> IsBare(s)
    BY DEF IsBare
  <1>3. s \in Numbers(tags, maximum)
           <=> /\ \/ s \in {Spelling(<<d>>, <<d>>) : d \in 0 .. Single}
                  \/ \E tag \in 1 .. tags : s \in behind(tag)
               /\ s.read[1] <= maximum
    BY DEF Numbers
  <1> HIDE DEF behind
  <1>4. QED
    BY <1>1, <1>2, <1>3

LEMMA OneDigit ==
    ASSUME NEW d \in Digit
    PROVE  /\ Spelling(<<d>>, <<d>>) \in AllSpellings
           /\ Len(<<d>>) = 1 /\ <<d>>[1] = d /\ <<d>> \in Seq(Digit) /\ d \in Nat
  <1>1. d \in Nat /\ d \in Int
    BY Radixes DEF Digit
  <1>2. <<d>> \in Seq(Digit) /\ <<d>> \in Seq(Int) /\ Len(<<d>>) = 1 /\ <<d>>[1] = d
    BY <1>1
  <1>3. QED
    BY <1>1, <1>2, SpellingIs

LEMMA BareIs ==
    ASSUME NEW d \in 0 .. Single
    PROVE  d \in Digit /\ Spelling(<<d>>, <<d>>) \in AllSpellings
  <1>1. d \in Digit
    BY Radixes DEF Digit
  <1>2. QED
    BY <1>1, OneDigit

LEMMA BehindIs ==
    ASSUME NEW tag \in 1 .. 3, NEW digits \in Seq(Digit), Len(digits) = Widths[tag]
    PROVE  /\ Single + tag \in Digit /\ Single + tag > Single
           /\ <<Single + tag>> \o digits \in Seq(Digit)
           /\ Len(<<Single + tag>> \o digits) = 1 + Widths[tag]
           /\ Spelling(<<Single + tag>> \o digits, <<FromLittleEndian(digits)>>) \in AllSpellings
  <1> DEFINE octets == <<Single + tag>> \o digits
             value == FromLittleEndian(digits)
  <1>1. Single + tag \in Digit /\ Single + tag > Single
    BY Radixes DEF Digit
  <1>2. <<Single + tag>> \in Seq(Digit) /\ Len(<<Single + tag>>) = 1
    BY <1>1
  <1>3. octets \in Seq(Digit) /\ Len(octets) = 1 + Widths[tag]
    BY <1>2, ConcatProperties
  <1>4. value \in Nat
    BY FromLittleEndianIsNumber
  <1> HIDE DEF octets, value
  <1>5. <<value>> \in Seq(Int)
    BY <1>4
  <1>6. QED
    BY <1>1, <1>3, <1>5, SpellingIs DEF octets, value

LEMMA NumberTypes ==
    ASSUME NEW tags \in 1 .. 3, NEW maximum, NEW s \in Numbers(tags, maximum)
    PROVE  /\ s \in AllSpellings /\ Len(s.octets) >= 1
           /\ s.read[1] \in Nat /\ s.read[1] <= maximum /\ s.read = <<s.read[1]>>
  <1>1. CASE IsBare(s)
    <2>1. PICK d \in 0 .. Single : s = Spelling(<<d>>, <<d>>)
      BY <1>1 DEF IsBare
    <2>2. d \in Digit /\ s.octets = <<d>> /\ s.read = <<d>>
      BY <2>1, BareIs, SpellingIs
    <2>3. s \in AllSpellings /\ Len(s.octets) = 1 /\ s.read[1] = d /\ d \in Nat
      BY <2>1, <2>2, OneDigit
    <2>4. QED
      BY <2>2, <2>3, NumberIs
  <1>2. CASE \E tag \in 1 .. tags : IsBehind(s, tag)
    <2>1. PICK tag \in 1 .. tags : IsBehind(s, tag)
      BY <1>2
    <2>2. PICK digits \in Seq(Digit) :
                /\ Len(digits) = Widths[tag]
                /\ s = Spelling(<<Single + tag>> \o digits, <<FromLittleEndian(digits)>>)
      BY <2>1 DEF IsBehind
    <2>3. tag \in 1 .. 3 /\ Widths[tag] \in Nat
      BY Radixes
    <2> DEFINE octets == <<Single + tag>> \o digits
               value == FromLittleEndian(digits)
    <2>10. Spelling(octets, <<value>>) \in AllSpellings /\ Len(octets) = 1 + Widths[tag]
      BY <2>2, <2>3, BehindIs
    <2>11. s = Spelling(octets, <<value>>) /\ value = FromLittleEndian(digits)
      BY <2>2
    <2> HIDE DEF octets, value
    <2>4. s \in AllSpellings /\ Len(s.octets) = 1 + Widths[tag]
          /\ s.read = <<FromLittleEndian(digits)>>
      BY <2>10, <2>11, SpellingIs
    <2>5. FromLittleEndian(digits) \in Nat
      BY FromLittleEndianIsNumber
    <2>6. s.read[1] \in Nat /\ s.read = <<s.read[1]>>
      BY <2>4, <2>5
    <2>7. QED
      BY <2>3, <2>4, <2>6, NumberIs
  <1>3. QED
    BY <1>1, <1>2, NumberIs

-----------------------------------------------------------------------------
(* Tokens: what a field itself may be spelled as.                           *)

Signed(m) == IF m % 2 = 0 THEN m \div 2 ELSE -((m + 1) \div 2)

LEMMA SignedIs ==
    ASSUME NEW m \in Nat
    PROVE  /\ Signed(m) \in -m .. m
           /\ \A z \in -m .. m : (m = IF z < 0 THEN -2 * z - 1 ELSE 2 * z) <=> z = Signed(m)
  <1>1. CASE m % 2 = 0
    <2>1. m = 2 * (m \div 2) /\ m \div 2 \in Nat
      BY <1>1
    <2>2. QED
      BY <1>1, <2>1 DEF Signed
  <1>2. CASE m % 2 # 0
    <2>1. m + 1 = 2 * ((m + 1) \div 2) /\ (m + 1) \div 2 \in Nat
      BY <1>2
    <2>2. QED
      BY <1>2, <2>1 DEF Signed
  <1>3. QED
    BY <1>1, <1>2

LEMMA ZigzagIs ==
    ASSUME NEW s, s.read[1] \in Nat
    PROVE  Zigzag(s) = Spelling(s.octets, <<Signed(s.read[1])>>)
  <1> DEFINE m == s.read[1]
             z == CHOOSE z \in -m .. m : m = IF z < 0 THEN -2 * z - 1 ELSE 2 * z
  <1>1. Zigzag(s) = Spelling(s.octets, <<z>>)
    BY DEF Zigzag
  <1>2. m \in Nat
    OBVIOUS
  <1> HIDE DEF m
  <1>3. z = Signed(m)
    BY <1>2, SignedIs
  <1>4. QED
    BY <1>1, <1>3 DEF m

\* A count, so many octets, and what is kept of them.
DataToken(field, count, contents) ==
    Spelling(count.octets \o contents, Counted(Kept(field, contents)))

IsData(field, s) ==
    \E count \in Numbers(3, MaxMessage), contents \in Seq(Digit) :
        /\ Len(contents) = count.read[1]
        /\ field.text => contents \in Utf8
        /\ s = DataToken(field, count, contents)

LEMMA KeptIs ==
    ASSUME NEW field, NEW contents \in Seq(Digit)
    PROVE  Kept(field, contents) \in Seq(Digit) /\ Counted(Kept(field, contents)) \in Seq(Int)
  <1> DEFINE kept == Kept(field, contents)
  <1>1. Bom \in Seq(Digit)
    BY CharactersAssumption
  <1>2. Len(Bom) \in Nat /\ Len(contents) \in Nat
    BY <1>1, LenProperties
  <1>3. IsPrefix(Bom, contents) => SubSeq(contents, Len(Bom) + 1, Len(contents)) \in Seq(Digit)
    <2>1. IsPrefix(Bom, contents) => Len(Bom) <= Len(contents)
      BY DEF IsPrefix
    <2>2. QED
      BY <1>2, <2>1, SubSeqProperties
  <1>4. kept \in Seq(Digit)
    BY <1>3 DEF Kept
  <1> HIDE DEF kept
  <1>5. Digit \subseteq Int
    BY Radixes DEF Digit
  <1>6. kept \in Seq(Int) /\ <<Len(kept)>> \in Seq(Int)
    <2>1. \A i \in 1 .. Len(kept) : kept[i] \in Int
      BY <1>4, <1>5, ElementOfSeq
    <2>2. kept \in [1 .. Len(kept) -> Int] /\ Len(kept) \in Nat
      BY <1>4, <2>1, LenProperties
    <2>3. kept \in Seq(Int)
      BY <2>2
    <2>4. QED
      BY <2>2, <2>3
  <1>7. Counted(kept) \in Seq(Int)
    BY <1>6, ConcatProperties DEF Counted
  <1>8. QED
    BY <1>4, <1>7 DEF kept

LEMMA DataTypes ==
    ASSUME NEW field, NEW count \in Numbers(3, MaxMessage), NEW contents \in Seq(Digit),
           Len(contents) = count.read[1]
    PROVE  /\ DataToken(field, count, contents) \in AllSpellings
           /\ count \in AllSpellings /\ Len(count.octets) \in Nat /\ Len(count.octets) >= 1
           /\ DataToken(field, count, contents).octets = count.octets \o contents
           /\ DataToken(field, count, contents).read = Counted(Kept(field, contents))
           /\ Len(DataToken(field, count, contents).octets)
                 = Len(count.octets) + count.read[1]
           /\ count.read[1] \in Nat
           /\ count.read[1] < Len(DataToken(field, count, contents).octets)
  <1> DEFINE read == Counted(Kept(field, contents))
             octets == count.octets \o contents
  <1>1. 3 \in 1 .. 3
    OBVIOUS
  <1>2. count \in AllSpellings /\ Len(count.octets) >= 1 /\ count.read[1] \in Nat
    BY <1>1, NumberTypes
  <1>3. count.octets \in Seq(Digit) /\ Len(count.octets) \in Nat
    BY <1>2, SpellingOf
  <1>4. octets \in Seq(Digit) /\ Len(octets) = Len(count.octets) + count.read[1]
    <2> DEFINE written == count.octets
    <2>1. written \in Seq(Digit) /\ contents \in Seq(Digit) /\ octets = written \o contents
      BY <1>3
    <2> HIDE DEF written, octets
    <2>2. octets \in Seq(Digit) /\ Len(octets) = Len(written) + Len(contents)
      BY ONLY <2>1, ConcatProperties
    <2>3. QED
      BY <2>2 DEF written
  <1>5. read \in Seq(Int)
    <2>1. \A o \in Seq(Digit) : Counted(Kept(field, o)) \in Seq(Int)
      BY ONLY KeptIs
    <2>2. QED
      BY <2>1
  <1>6. DataToken(field, count, contents) = Spelling(octets, read)
    BY DEF DataToken
  <1> HIDE DEF read, octets
  <1>7. /\ Spelling(octets, read) \in AllSpellings
        /\ Spelling(octets, read).octets = octets /\ Spelling(octets, read).read = read
    BY <1>4, <1>5, SpellingIs
  <1>8. count.read[1] < Len(octets)
    BY <1>2, <1>3, <1>4
  <1>9. QED
    BY <1>2, <1>3, <1>4, <1>6, <1>7, <1>8 DEF read, octets

LEMMA DataIs ==
    ASSUME NEW field, field.kind = "data", NEW n \in Nat, NEW s
    PROVE  s \in Tokens(field, n) /\ Len(s.octets) <= n <=> IsData(field, s) /\ Len(s.octets) <= n
  <1>1. s \in Tokens(field, n)
           <=> \E count \in {c \in Numbers(3, MaxMessage) : c.read[1] < n} :
               \E contents \in {o \in [1 .. count.read[1] -> Digit] : field.text => o \in Utf8} :
                  s = DataToken(field, count, contents)
    BY DEF Tokens, DataToken
  <1>2. ASSUME NEW count \in Numbers(3, MaxMessage), NEW contents
        PROVE  /\ count.read[1] \in Nat
               /\ contents \in [1 .. count.read[1] -> Digit]
                     <=> contents \in Seq(Digit) /\ Len(contents) = count.read[1]
    <2> DEFINE m == count.read[1]
    <2>1. m \in Nat
      <3>1. 3 \in 1 .. 3
        OBVIOUS
      <3>2. QED
        BY <3>1, NumberTypes
    <2> HIDE DEF m
    <2>2. contents \in [1 .. m -> Digit] <=> contents \in Seq(Digit) /\ Len(contents) = m
      BY <2>1, SequencesOf
    <2>3. QED
      BY <2>1, <2>2 DEF m
  <1>3. s \in Tokens(field, n)
           <=> \E count \in Numbers(3, MaxMessage), contents \in Seq(Digit) :
                  /\ Len(contents) = count.read[1] /\ count.read[1] < n
                  /\ field.text => contents \in Utf8
                  /\ s = DataToken(field, count, contents)
    BY <1>1, <1>2
  <1>4. ASSUME NEW count \in Numbers(3, MaxMessage), NEW contents \in Seq(Digit),
               Len(contents) = count.read[1], s = DataToken(field, count, contents),
               Len(s.octets) <= n
        PROVE  count.read[1] < n
    <2>1. /\ count.read[1] \in Nat /\ count.read[1] < Len(s.octets)
          /\ Len(s.octets) \in Nat
      BY <1>4, DataTypes, SpellingOf
    <2>2. QED
      BY <1>4, <2>1
  <1>5. QED
    BY <1>3, <1>4 DEF IsData

\* What a field itself may be spelled as, whatever its length.
IsToken(field, s) ==
    \/ field.kind = "octet" /\ s \in Octets(field.below)
    \/ field.kind = "number" /\ s \in Numbers(field.tags, field.maximum)
    \/ field.kind = "signed" /\ \E t \in Numbers(2, Most(2)) : s = Zigzag(t)
    \/ field.kind = "data" /\ IsData(field, s)
    \/ field.kind = "optional" /\ s \in Octets(2)
    \/ field.kind = "array" /\ s \in Numbers(3, ManyElements)
    \/ field.kind = "choice" /\ s \in Numbers(2, Most(2)) /\ s.read[1] \in DOMAIN field.of

LEMMA TokenIs ==
    ASSUME NEW field \in AllFields, NEW n \in Nat, NEW s
    PROVE  s \in Tokens(field, n) /\ Len(s.octets) <= n <=> IsToken(field, s) /\ Len(s.octets) <= n
  <1>1. field.kind \in Kinds
    BY FieldIs
  <1>2. CASE field.kind = "data"
    BY <1>2, DataIs DEF IsToken
  <1>3. CASE field.kind \in {"octet", "optional"}
    BY <1>3 DEF IsToken, Tokens
  <1>4. CASE field.kind \in {"number", "array"}
    BY <1>4 DEF IsToken, Tokens
  <1>5. CASE field.kind = "signed"
    BY <1>5 DEF IsToken, Tokens
  <1>6. CASE field.kind = "choice"
    BY <1>6 DEF IsToken, Tokens
  <1>7. QED
    BY <1>1, <1>2, <1>3, <1>4, <1>5, <1>6 DEF Kinds

LEMMA OctetTypes ==
    ASSUME NEW below \in 1 .. Radix, NEW s \in Octets(below)
    PROVE  /\ s \in AllSpellings /\ Len(s.octets) = 1
           /\ s.read[1] \in Digit /\ s.octets = <<s.read[1]>> /\ s.read = <<s.read[1]>>
           /\ s.read[1] < below
  <1>1. PICK d \in 0 .. below - 1 : s = Spelling(<<d>>, <<d>>)
    BY DEF Octets
  <1>2. d \in Digit /\ d < below
    BY Radixes DEF Digit
  <1>3. s \in AllSpellings /\ Len(<<d>>) = 1 /\ s.octets = <<d>> /\ s.read = <<d>>
    BY <1>1, <1>2, OneDigit, SpellingIs
  <1>4. QED
    BY <1>2, <1>3

LEMMA SignedIsInteger == ASSUME NEW m \in Nat PROVE Signed(m) \in Int
  BY SignedIs

LEMMA ZigzagTypes ==
    ASSUME NEW t \in Numbers(2, Most(2))
    PROVE  /\ Zigzag(t) \in AllSpellings /\ Zigzag(t).octets = t.octets
           /\ Zigzag(t).read = <<Signed(t.read[1])>> /\ Len(t.octets) >= 1
  <1> DEFINE octets == t.octets
             z == Signed(t.read[1])
             read == <<z>>
  <1>1. 2 \in 1 .. 3
    OBVIOUS
  <1>2. t \in AllSpellings /\ Len(t.octets) >= 1 /\ t.read[1] \in Nat
    BY <1>1, NumberTypes
  <1>3. octets \in Seq(Digit)
    BY <1>2, SpellingOf
  <1>4. z \in Int
    BY <1>2, SignedIsInteger
  <1>5. Zigzag(t) = Spelling(octets, read)
    BY <1>2, ZigzagIs
  <1> HIDE DEF octets, z
  <1>6. read \in Seq(Int)
    BY <1>4
  <1> HIDE DEF read
  <1>7. Zigzag(t) \in AllSpellings /\ Zigzag(t).octets = octets /\ Zigzag(t).read = read
    BY <1>3, <1>5, <1>6, SpellingIs
  <1>8. QED
    BY <1>2, <1>7 DEF octets, z, read

LEMMA TokenTypes ==
    ASSUME NEW field \in AllFields, NEW s, IsToken(field, s)
    PROVE  /\ s \in AllSpellings /\ Len(s.octets) \in Nat /\ Len(s.octets) >= 1
           /\ Within(field, s.read) \in Seq(AllFields)
  <1>1. /\ 2 \in 1 .. Radix /\ 1 \in 1 .. 3 /\ 2 \in 1 .. 3 /\ 3 \in 1 .. 3
        /\ <<>> \in Seq(Fields) /\ Seq(Fields) \subseteq Seq(AllFields)
    <2>1. Fields \subseteq AllFields
      BY DEF AllFields
    <2>2. QED
      BY <2>1, Radixes, EmptySeq, SeqMonotonic
  <1>2. SUFFICES /\ s \in AllSpellings /\ Len(s.octets) >= 1
                 /\ Within(field, s.read) \in Seq(Fields)
    BY <1>1, SpellingOf
  <1>3. CASE field.kind = "octet"
    <2>1. s \in Octets(field.below) /\ field.below \in 1 .. Radix
      BY <1>3, FieldIs DEF IsToken
    <2>2. s \in AllSpellings /\ Len(s.octets) = 1
      BY <2>1, OctetTypes
    <2>3. QED
      BY <1>1, <1>3, <2>2 DEF Within
  <1>4. CASE field.kind = "optional"
    <2>1. s \in Octets(2) /\ field.fields \in Seq(Fields)
      BY <1>4, FieldIs DEF IsToken
    <2>2. s \in AllSpellings /\ Len(s.octets) = 1
      BY <1>1, <2>1, OctetTypes
    <2>3. QED
      BY <1>1, <1>4, <2>1, <2>2 DEF Within
  <1>5. CASE field.kind = "number"
    <2>1. s \in Numbers(field.tags, field.maximum) /\ field.tags \in 1 .. 3
      BY <1>5, FieldIs DEF IsToken
    <2>2. s \in AllSpellings /\ Len(s.octets) >= 1
      BY <2>1, NumberTypes
    <2>3. QED
      BY <1>1, <1>5, <2>2 DEF Within
  <1>6. CASE field.kind = "signed"
    <2>1. PICK t \in Numbers(2, Most(2)) : s = Zigzag(t)
      BY <1>6 DEF IsToken
    <2>2. s \in AllSpellings /\ Len(s.octets) >= 1
      BY <2>1, ZigzagTypes
    <2>3. QED
      BY <1>1, <1>6, <2>2 DEF Within
  <1>7. CASE field.kind = "data"
    <2>1. PICK count \in Numbers(3, MaxMessage), contents \in Seq(Digit) :
             /\ Len(contents) = count.read[1]
             /\ s = DataToken(field, count, contents)
      BY <1>7 DEF IsToken, IsData
    <2>2. /\ s \in AllSpellings /\ Len(s.octets) = Len(count.octets) + count.read[1]
          /\ Len(count.octets) >= 1 /\ Len(count.octets) \in Nat /\ count.read[1] \in Nat
      BY <2>1, DataTypes
    <2>3. s \in AllSpellings /\ Len(s.octets) >= 1
      BY <2>2
    <2>4. QED
      BY <1>1, <1>7, <2>3 DEF Within
  <1>8. CASE field.kind = "array"
    <2>1. s \in Numbers(3, ManyElements) /\ field.fields \in Seq(Fields)
      BY <1>8, FieldIs DEF IsToken
    <2>2. s \in AllSpellings /\ Len(s.octets) >= 1 /\ s.read[1] \in Nat
      BY <1>1, <2>1, NumberTypes
    <2>3. Repeated(field.fields, s.read[1]) \in Seq(Fields)
      BY <2>1, <2>2, RepeatedIs
    <2>4. QED
      BY <1>8, <2>2, <2>3 DEF Within
  <1>9. CASE field.kind = "choice"
    <2>1. /\ s \in Numbers(2, Most(2)) /\ s.read[1] \in DOMAIN field.of
          /\ field.of \in [DOMAIN field.of -> Seq(Fields)]
      BY <1>9, FieldIs DEF IsToken
    <2>2. s \in AllSpellings /\ Len(s.octets) >= 1
      BY <1>1, <2>1, NumberTypes
    <2>3. QED
      BY <1>9, <2>1, <2>2 DEF Within
  <1>10. QED
    BY <1>3, <1>4, <1>5, <1>6, <1>7, <1>8, <1>9, FieldIs DEF Kinds

-----------------------------------------------------------------------------
(* The recursion that defines Spellings.                                    *)

Tables == [Seq(AllFields) -> SUBSET AllSpellings]

\* The first field itself, what is within it and the others, in at most n octets.
Unfolds(f, n, fields, token, inner, t) ==
    /\ IsToken(Head(fields), token) /\ Len(token.octets) <= n
    /\ inner \in f[n - Len(token.octets)][Within(Head(fields), token.read)]
    /\ Len(Then(token, inner).octets) <= n
    /\ t \in f[n - Len(Then(token, inner).octets)][Tail(fields)]

Unfolded(f, n, fields, s) ==
    \E token, inner, t :
        Unfolds(f, n, fields, token, inner, t) /\ s = Then(Then(token, inner), t)

Body(f, n, fields) ==
    IF fields = <<>> THEN {Spelling(<<>>, <<>>)}
    ELSE LET field == Head(fields)
             first == Short(Tokens(field, n), n)
             whole == UNION {{Then(token, s) :
                                s \in f[n - Len(token.octets)][Within(field, token.read)]} :
                             token \in first}
         IN UNION {{Then(s, t) : t \in f[n - Len(s.octets)][Tail(fields)]} :
                    s \in Short(whole, n)}

LEMMA BodyIs ==
    ASSUME NEW f, NEW n \in Nat, NEW fields \in Seq(AllFields), NEW s
    PROVE  s \in Body(f, n, fields)
              <=> \/ fields = <<>> /\ s = Nothing
                  \/ fields # <<>> /\ Unfolded(f, n, fields, s)
  <1>1. CASE fields = <<>>
    BY <1>1 DEF Body, Nothing
  <1>2. CASE fields # <<>>
    <2> DEFINE field == Head(fields)
               first == Short(Tokens(field, n), n)
               whole == UNION {{Then(token, u) :
                                  u \in f[n - Len(token.octets)][Within(field, token.read)]} :
                               token \in first}
    <2>1. s \in Body(f, n, fields)
             <=> \E u \in Short(whole, n) : \E t \in f[n - Len(u.octets)][Tail(fields)] :
                    s = Then(u, t)
      <3>1. Body(f, n, fields)
               = UNION {{Then(u, t) : t \in f[n - Len(u.octets)][Tail(fields)]} :
                          u \in Short(whole, n)}
        BY <1>2 DEF Body
      <3> HIDE DEF whole
      <3>2. QED
        BY <3>1
    <2>2. \A token : token \in first <=> IsToken(field, token) /\ Len(token.octets) <= n
      <3>1. field \in AllFields
        BY <1>2, HeadAndTail
      <3> HIDE DEF field
      <3>2. QED
        BY <3>1, TokenIs DEF Short
    <2>3. \A u : u \in Short(whole, n)
                    <=> /\ Len(u.octets) <= n
                        /\ \E token \in first :
                           \E inner \in f[n - Len(token.octets)][Within(field, token.read)] :
                              u = Then(token, inner)
      <3> HIDE DEF first
      <3>1. QED
        BY DEF Short
    <2>4. s \in Body(f, n, fields)
             <=> \E token \in first :
                 \E inner \in f[n - Len(token.octets)][Within(field, token.read)] :
                    /\ Len(Then(token, inner).octets) <= n
                    /\ \E t \in f[n - Len(Then(token, inner).octets)][Tail(fields)] :
                          s = Then(Then(token, inner), t)
      <3> HIDE DEF first, whole
      <3>1. QED
        BY <2>1, <2>3
    <2> HIDE DEF first, whole
    <2>5. QED
      BY <1>2, <2>2, <2>4 DEF Unfolded, Unfolds
  <1>3. QED
    BY <1>1, <1>2

LEMMA UnfoldsTypes ==
    ASSUME NEW f, NEW n \in Nat, \A m \in Nat : m < n => f[m] \in Tables,
           NEW fields \in Seq(AllFields), fields # <<>>, NEW token, NEW inner, NEW t, Unfolds(f, n, fields, token, inner, t)
    PROVE  /\ token \in AllSpellings /\ inner \in AllSpellings /\ t \in AllSpellings
           /\ Within(Head(fields), token.read) \in Seq(AllFields)
           /\ Tail(fields) \in Seq(AllFields)
           /\ Len(token.octets) \in Nat /\ Len(inner.octets) \in Nat /\ Len(t.octets) \in Nat
           /\ Len(token.octets) >= 1
           /\ Len(Then(token, inner).octets) = Len(token.octets) + Len(inner.octets)
           /\ n - Len(token.octets) \in Nat /\ n - Len(token.octets) < n
           /\ n - Len(Then(token, inner).octets) \in Nat
           /\ n - Len(Then(token, inner).octets) < n
           /\ Then(Then(token, inner), t) \in AllSpellings
           /\ Len(Then(Then(token, inner), t).octets)
                 = Len(token.octets) + Len(inner.octets) + Len(t.octets)
  <1>1. Head(fields) \in AllFields /\ Tail(fields) \in Seq(AllFields)
    BY HeadAndTail
  <1>2. /\ token \in AllSpellings /\ Len(token.octets) \in Nat /\ Len(token.octets) >= 1
        /\ Within(Head(fields), token.read) \in Seq(AllFields)
    BY <1>1, TokenTypes DEF Unfolds
  <1>3. n - Len(token.octets) \in Nat /\ n - Len(token.octets) < n
    BY <1>2 DEF Unfolds
  <1>4. inner \in AllSpellings /\ Len(inner.octets) \in Nat
    <2>1. f[n - Len(token.octets)] \in Tables
      BY <1>3
    <2>2. f[n - Len(token.octets)][Within(Head(fields), token.read)] \subseteq AllSpellings
      BY <1>2, <2>1 DEF Tables
    <2>3. inner \in AllSpellings
      BY <2>2 DEF Unfolds
    <2>4. QED
      BY <2>3, SpellingOf
  <1>5. /\ Then(token, inner) \in AllSpellings
        /\ Len(Then(token, inner).octets) = Len(token.octets) + Len(inner.octets)
    BY <1>2, <1>4, ThenIs
  <1>6. /\ n - Len(Then(token, inner).octets) \in Nat
        /\ n - Len(Then(token, inner).octets) < n
    <2>1. Len(Then(token, inner).octets) <= n
      BY DEF Unfolds
    <2> DEFINE i == Len(token.octets)
               j == Len(inner.octets)
               k == Len(Then(token, inner).octets)
    <2>2. i \in Nat /\ i >= 1 /\ j \in Nat /\ k = i + j /\ k <= n
      BY <1>2, <1>4, <1>5, <2>1
    <2> HIDE DEF i, j, k
    <2>3. n - k \in Nat /\ n - k < n
      BY <2>2
    <2>4. QED
      BY <2>3 DEF k
  <1>7. t \in AllSpellings /\ Len(t.octets) \in Nat
    <2>1. f[n - Len(Then(token, inner).octets)] \in Tables
      BY <1>6
    <2>2. f[n - Len(Then(token, inner).octets)][Tail(fields)] \subseteq AllSpellings
      BY <1>1, <2>1 DEF Tables
    <2>3. t \in AllSpellings
      BY <2>2 DEF Unfolds
    <2>4. QED
      BY <2>3, SpellingOf
  <1>8. /\ Then(Then(token, inner), t) \in AllSpellings
        /\ Len(Then(Then(token, inner), t).octets) = Len(Then(token, inner).octets) + Len(t.octets)
    BY <1>5, <1>7, ThenIs
  <1>9. QED
    BY <1>1, <1>2, <1>3, <1>4, <1>5, <1>6, <1>7, <1>8

LEMMA BodyTypes ==
    ASSUME NEW f, NEW n \in Nat, \A m \in Nat : m < n => f[m] \in Tables,
           NEW fields \in Seq(AllFields)
    PROVE  Body(f, n, fields) \subseteq AllSpellings
  <1>1. SUFFICES ASSUME NEW s \in Body(f, n, fields) PROVE s \in AllSpellings
    OBVIOUS
  <1>2. (fields = <<>> /\ s = Nothing) \/ (fields # <<>> /\ Unfolded(f, n, fields, s))
    BY <1>1, BodyIs
  <1>3. CASE fields = <<>> /\ s = Nothing
    BY <1>3, NothingIs
  <1>4. CASE fields # <<>> /\ Unfolded(f, n, fields, s)
    <2>1. PICK token, inner, t : /\ Unfolds(f, n, fields, token, inner, t)
                                 /\ s = Then(Then(token, inner), t)
      BY <1>4 DEF Unfolded
    <2>2. QED
      BY <1>4, <2>1, UnfoldsTypes
  <1>5. QED
    BY <1>2, <1>3, <1>4

\* Only the tables for fewer octets matter.
LEMMA BodySame ==
    ASSUME NEW f \in [Nat -> Tables], NEW g \in [Nat -> Tables], NEW n \in Nat,
           \A m \in Nat : m < n => f[m] = g[m], NEW fields \in Seq(AllFields)
    PROVE  Body(f, n, fields) \subseteq Body(g, n, fields)
  <1>1. SUFFICES ASSUME NEW s \in Body(f, n, fields) PROVE s \in Body(g, n, fields)
    OBVIOUS
  <1>2. (fields = <<>> /\ s = Nothing) \/ (fields # <<>> /\ Unfolded(f, n, fields, s))
    BY <1>1, BodyIs
  <1>3. CASE fields = <<>> /\ s = Nothing
    BY <1>3, BodyIs
  <1>4. CASE fields # <<>> /\ Unfolded(f, n, fields, s)
    <2>1. PICK token, inner, t : /\ Unfolds(f, n, fields, token, inner, t)
                                 /\ s = Then(Then(token, inner), t)
      BY <1>4 DEF Unfolded
    <2>2. /\ n - Len(token.octets) \in Nat /\ n - Len(token.octets) < n
          /\ n - Len(Then(token, inner).octets) \in Nat
          /\ n - Len(Then(token, inner).octets) < n
      BY <1>4, <2>1, UnfoldsTypes
    <2>3. /\ f[n - Len(token.octets)] = g[n - Len(token.octets)]
          /\ f[n - Len(Then(token, inner).octets)] = g[n - Len(Then(token, inner).octets)]
      BY <2>2
    <2>4. Unfolds(g, n, fields, token, inner, t)
      BY <2>1, <2>3 DEF Unfolds
    <2>5. Unfolded(g, n, fields, s)
      BY <2>1, <2>4 DEF Unfolded
    <2>6. QED
      BY <1>4, <2>5, BodyIs
  <1>5. QED
    BY <1>2, <1>3, <1>4

LEMMA SpellingsRecursion ==
    /\ Spellings \in [Nat -> Tables]
    /\ \A n \in Nat, fields \in Seq(AllFields) :
          Spellings[n][fields] = Body(Spellings, n, fields)
  <1> DEFINE Row(f, n) == [fields \in Seq(AllFields) |-> Body(f, n, fields)]
             Step(f) == [n \in Nat |-> Row(f, n)]
             step == [f \in [Nat -> Tables] |-> Step(f)]
  <1>1. ASSUME NEW f, NEW n \in Nat, \A m \in Nat : m < n => f[m] \in Tables
        PROVE  Row(f, n) \in Tables
    <2>1. \A fields \in Seq(AllFields) : Body(f, n, fields) \subseteq AllSpellings
      BY <1>1, BodyTypes
    <2>2. QED
      BY <2>1 DEF Tables
  <1>2. step \in [[Nat -> Tables] -> [Nat -> Tables]]
    <2>1. \A f \in [Nat -> Tables], n \in Nat : Row(f, n) \in Tables
      BY <1>1
    <2> HIDE DEF Row
    <2>2. QED
      BY <2>1
  <1>3. ASSUME NEW f \in [Nat -> Tables], NEW g \in [Nat -> Tables], NEW n \in Nat,
               \A m \in Nat : m < n => f[m] = g[m]
        PROVE  step[f][n] = step[g][n]
    <2>1. ASSUME NEW fields \in Seq(AllFields)
          PROVE  Body(f, n, fields) = Body(g, n, fields)
      <3>1. Body(f, n, fields) \subseteq Body(g, n, fields)
        BY <1>3, BodySame
      <3>2. Body(g, n, fields) \subseteq Body(f, n, fields)
        BY <1>3, BodySame
      <3>3. QED
        BY <3>1, <3>2
    <2>2. Row(f, n) = Row(g, n)
      BY <2>1
    <2> HIDE DEF Row
    <2>3. QED
      BY <2>2
  <1>4. Tables # {}
    <2>1. [fields \in Seq(AllFields) |-> {}] \in Tables
      BY DEF Tables
    <2>2. QED
      BY <2>1
  <1>5. PICK f \in [Nat -> Tables] : f = step[f]
    <2> HIDE DEF step
    <2>1. QED
      BY <1>2, <1>3, <1>4, NumberRecursion
  <1>6. f = Step(f)
    BY <1>5
  <1>7. Spellings = CHOOSE h : h = Step(h)
    BY DEF Spellings, Body, AllFields
  <1>8. Spellings = Step(Spellings)
    <2> HIDE DEF step, Step
    <2>1. QED
      BY <1>6, <1>7
  <1>9. \A n \in Nat : Spellings[n] = Row(Spellings, n)
    <2> HIDE DEF step, Row
    <2>1. QED
      BY <1>8
  <1>10. Spellings \in [Nat -> Tables]
    <2> DEFINE G == {n \in Nat : Spellings[n] \in Tables}
    <2>1. ASSUME NEW n \in Nat, \A m \in Nat : m < n => m \in G PROVE n \in G
      <3>1. \A m \in Nat : m < n => Spellings[m] \in Tables
        BY <2>1
      <3>2. Row(Spellings, n) \in Tables
        BY <1>1, <3>1
      <3> HIDE DEF Row
      <3>3. QED
        BY <1>9, <3>2
    <2>2. Nat \subseteq G
      <3> HIDE DEF G
      <3>1. QED
        BY <2>1, StrongInduction
    <2>3. \A n \in Nat : Spellings[n] \in Tables
      BY <2>2
    <2> HIDE DEF step, Row, G
    <2>4. Spellings = [n \in Nat |-> Spellings[n]]
      BY <1>8
    <2>5. QED
      BY <2>3, <2>4
  <1>11. ASSUME NEW n \in Nat, NEW fields \in Seq(AllFields)
         PROVE  Spellings[n][fields] = Body(Spellings, n, fields)
    BY <1>9
  <1>12. QED
    BY <1>10, <1>11

-----------------------------------------------------------------------------
(* What spells a sequence of fields, whatever its length.                   *)

Spells(s, fields) ==
    s \in AllSpellings /\ s \in Spellings[Len(s.octets)][fields]

\* A spelling belongs to the table of each length that it has room in.
LEMMA SpelledIn ==
    ASSUME NEW n \in Nat, NEW fields \in Seq(AllFields), NEW s
    PROVE  s \in Spellings[n][fields] <=> Spells(s, fields) /\ Len(s.octets) <= n
  <1> DEFINE Fits(m, gs, u) ==
                /\ u \in AllSpellings /\ Len(u.octets) \in Nat /\ Len(u.octets) <= m
                /\ \A k \in Nat : k >= Len(u.octets) => u \in Spellings[k][gs]
             G == {m \in Nat : \A gs \in Seq(AllFields) : \A u \in Spellings[m][gs] : Fits(m, gs, u)}
  <1>1. \A m \in Nat : Spellings[m] \in Tables
    BY SpellingsRecursion
  <1>2. ASSUME NEW m \in Nat, \A k \in Nat : k < m => k \in G,
               NEW gs \in Seq(AllFields), NEW u \in Spellings[m][gs]
        PROVE  Fits(m, gs, u)
    <2>1. u \in Body(Spellings, m, gs)
      BY <1>2, SpellingsRecursion
    <2>2. (gs = <<>> /\ u = Nothing) \/ (gs # <<>> /\ Unfolded(Spellings, m, gs, u))
      BY <2>1, BodyIs
    <2>3. CASE gs = <<>> /\ u = Nothing
      <3>1. \A k \in Nat : u \in Body(Spellings, k, gs)
        BY <2>3, BodyIs
      <3>2. \A k \in Nat : u \in Spellings[k][gs]
        BY <3>1, SpellingsRecursion
      <3>3. QED
        BY <2>3, <3>2, NothingIs
    <2>4. CASE gs # <<>> /\ Unfolded(Spellings, m, gs, u)
      <3>1. PICK token, inner, t : /\ Unfolds(Spellings, m, gs, token, inner, t)
                                   /\ u = Then(Then(token, inner), t)
        BY <2>4 DEF Unfolded
      <3>10. \A k \in Nat : k < m => Spellings[k] \in Tables
        BY <1>1
      <3>11. gs # <<>> /\ Unfolds(Spellings, m, gs, token, inner, t)
        BY <2>4, <3>1
      <3>12. /\ Within(Head(gs), token.read) \in Seq(AllFields) /\ Tail(gs) \in Seq(AllFields)
             /\ Len(token.octets) \in Nat /\ Len(inner.octets) \in Nat /\ Len(t.octets) \in Nat
             /\ Len(token.octets) >= 1
        BY ONLY m \in Nat, gs \in Seq(AllFields), <3>10, <3>11, UnfoldsTypes
      <3>13. /\ m - Len(token.octets) \in Nat /\ m - Len(token.octets) < m
             /\ m - Len(Then(token, inner).octets) \in Nat
             /\ m - Len(Then(token, inner).octets) < m
        BY ONLY m \in Nat, gs \in Seq(AllFields), <3>10, <3>11, UnfoldsTypes
      <3>18. token \in AllSpellings /\ inner \in AllSpellings /\ t \in AllSpellings
        BY ONLY m \in Nat, gs \in Seq(AllFields), <3>10, <3>11, UnfoldsTypes
      <3>14. /\ Then(token, inner) \in AllSpellings
             /\ Len(Then(token, inner).octets) = Len(token.octets) + Len(inner.octets)
        BY <3>18, ThenIs
      <3>15. /\ Then(Then(token, inner), t) \in AllSpellings
             /\ Len(Then(Then(token, inner), t).octets) = Len(Then(token, inner).octets) + Len(t.octets)
        BY <3>14, <3>18, ThenIs
      <3> DEFINE first == Then(token, inner)
                 within == Within(Head(gs), token.read)
                 a1 == Len(token.octets)
                 a2 == Len(inner.octets)
                 a3 == Len(t.octets)
      <3>2. /\ within \in Seq(AllFields) /\ Tail(gs) \in Seq(AllFields)
            /\ a1 \in Nat /\ a2 \in Nat /\ a3 \in Nat /\ a1 >= 1
            /\ Len(first.octets) = a1 + a2
            /\ m - a1 \in Nat /\ m - a1 < m
            /\ m - Len(first.octets) \in Nat /\ m - Len(first.octets) < m
            /\ u \in AllSpellings /\ Len(u.octets) = a1 + a2 + a3
        BY <3>1, <3>12, <3>13, <3>14, <3>15
      <3>3. /\ IsToken(Head(gs), token) /\ a1 <= m
            /\ inner \in Spellings[m - a1][within]
            /\ t \in Spellings[m - Len(first.octets)][Tail(gs)]
        BY <3>1 DEF Unfolds
      <3>4. Fits(m - a1, within, inner)
        <4> HIDE DEF a1, within, Fits
        <4>1. QED
          BY <1>2, <3>2, <3>3
      <3>5. Fits(m - Len(first.octets), Tail(gs), t)
        <4> HIDE DEF first, Fits
        <4>1. QED
          BY <1>2, <3>2, <3>3
      <3>6. /\ a2 <= m - a1 /\ \A k \in Nat : k >= a2 => inner \in Spellings[k][within]
            /\ a3 <= m - Len(first.octets)
            /\ \A k \in Nat : k >= a3 => t \in Spellings[k][Tail(gs)]
        BY <3>4, <3>5
      <3>7. ASSUME NEW k \in Nat, k >= Len(u.octets)
            PROVE  u \in Spellings[k][gs]
        <4> HIDE DEF first, within, a1, a2, a3
        <4>1. /\ k - a1 \in Nat /\ k - a1 >= a2 /\ a1 <= k
              /\ k - Len(first.octets) \in Nat /\ k - Len(first.octets) >= a3
              /\ Len(first.octets) <= k
          BY <3>2, <3>7
        <4>2. inner \in Spellings[k - a1][within] /\ t \in Spellings[k - Len(first.octets)][Tail(gs)]
          BY <3>6, <4>1
        <4>3. Unfolds(Spellings, k, gs, token, inner, t)
          BY <3>3, <4>1, <4>2 DEF Unfolds, first, within, a1
        <4>4. Unfolded(Spellings, k, gs, u)
          BY <3>1, <4>3 DEF Unfolded
        <4>5. u \in Body(Spellings, k, gs)
          BY <2>4, <4>4, BodyIs
        <4>6. QED
          BY <4>5, SpellingsRecursion
      <3>8. Len(u.octets) \in Nat /\ Len(u.octets) <= m
        <4> HIDE DEF first, within, a1, a2, a3
        <4>1. QED
          BY <3>2, <3>6
      <3>9. QED
        BY <3>2, <3>7, <3>8
    <2>5. QED
      BY <2>2, <2>3, <2>4
  <1>3. ASSUME NEW m \in Nat, \A k \in Nat : k < m => k \in G PROVE m \in G
    <2>1. \A gs \in Seq(AllFields) : \A u \in Spellings[m][gs] : Fits(m, gs, u)
      BY <1>2, <1>3
    <2>2. QED
      BY <2>1
  <1>4. Nat \subseteq G
    <2> HIDE DEF G
    <2>1. QED
      BY <1>3, StrongInduction
  <1>5. \A m \in Nat : \A u \in Spellings[m][fields] : Fits(m, fields, u)
    BY <1>4
  <1>6. ASSUME s \in Spellings[n][fields] PROVE Spells(s, fields) /\ Len(s.octets) <= n
    <2>1. Fits(n, fields, s)
      BY <1>5, <1>6
    <2>2. QED
      BY <2>1 DEF Spells
  <1>7. ASSUME Spells(s, fields), Len(s.octets) <= n PROVE s \in Spellings[n][fields]
    <2>1. Len(s.octets) \in Nat /\ s \in Spellings[Len(s.octets)][fields]
      BY <1>7, SpellingOf DEF Spells
    <2>2. Fits(Len(s.octets), fields, s)
      BY <1>5, <2>1
    <2>3. QED
      BY <1>7, <2>2
  <1>8. QED
    BY <1>6, <1>7

LEMMA SpellsNothing ==
    ASSUME NEW s
    PROVE  Spells(s, <<>>) <=> s = Nothing
  <1>1. <<>> \in Seq(AllFields)
    BY EmptySeq
  <1>2. ASSUME NEW n \in Nat PROVE s \in Spellings[n][<<>>] <=> s = Nothing
    <2>1. Spellings[n][<<>>] = Body(Spellings, n, <<>>)
      BY <1>1, SpellingsRecursion
    <2>2. QED
      BY <2>1 DEF Body, Nothing
  <1>3. QED
    BY <1>2, NothingIs, SpellingOf DEF Spells

\* The first field itself, what is within it and the others.
LEMMA SpellsFields ==
    ASSUME NEW fields \in Seq(AllFields), fields # <<>>, NEW s
    PROVE  Spells(s, fields)
              <=> \E token, inner, t \in AllSpellings :
                     /\ IsToken(Head(fields), token)
                     /\ Spells(inner, Within(Head(fields), token.read))
                     /\ Spells(t, Tail(fields))
                     /\ s = Then(Then(token, inner), t)
  <1>1. \A m \in Nat : Spellings[m] \in Tables
    BY SpellingsRecursion
  <1>2. Head(fields) \in AllFields /\ Tail(fields) \in Seq(AllFields)
    BY HeadAndTail
  <1>3. ASSUME Spells(s, fields)
        PROVE  \E token, inner, t \in AllSpellings :
                  /\ IsToken(Head(fields), token)
                  /\ Spells(inner, Within(Head(fields), token.read))
                  /\ Spells(t, Tail(fields))
                  /\ s = Then(Then(token, inner), t)
    <2> DEFINE n == Len(s.octets)
    <2>1. n \in Nat /\ s \in Spellings[n][fields]
      BY <1>3, SpellingOf DEF Spells
    <2> HIDE DEF n
    <2>2. s \in Body(Spellings, n, fields)
      BY <2>1, SpellingsRecursion
    <2>3. Unfolded(Spellings, n, fields, s)
      BY <2>1, <2>2, BodyIs
    <2>4. PICK token, inner, t : /\ Unfolds(Spellings, n, fields, token, inner, t)
                                 /\ s = Then(Then(token, inner), t)
      BY <2>3 DEF Unfolded
    <2>5. /\ token \in AllSpellings /\ inner \in AllSpellings /\ t \in AllSpellings
          /\ Within(Head(fields), token.read) \in Seq(AllFields)
          /\ n - Len(token.octets) \in Nat /\ n - Len(Then(token, inner).octets) \in Nat
      BY <1>1, <2>1, <2>4, UnfoldsTypes
    <2>6. Spells(inner, Within(Head(fields), token.read))
      BY <2>4, <2>5, SpelledIn DEF Unfolds
    <2>7. Spells(t, Tail(fields))
      BY <1>2, <2>4, <2>5, SpelledIn DEF Unfolds
    <2>8. QED
      BY <2>4, <2>5, <2>6, <2>7 DEF Unfolds
  <1>4. ASSUME NEW token \in AllSpellings, NEW inner \in AllSpellings, NEW t \in AllSpellings,
               IsToken(Head(fields), token),
               Spells(inner, Within(Head(fields), token.read)),
               Spells(t, Tail(fields)),
               s = Then(Then(token, inner), t)
        PROVE  Spells(s, fields)
    <2> DEFINE first == Then(token, inner)
               n == Len(s.octets)
               i == Len(token.octets)
               j == Len(inner.octets)
               k == Len(t.octets)
               m == Len(first.octets)
    <2>1. first \in AllSpellings /\ m = i + j
      BY <1>4, ThenIs
    <2>2. s \in AllSpellings /\ n = m + k
      <3> HIDE DEF first
      <3>1. s = Then(first, t)
        BY <1>4 DEF first
      <3>2. QED
        BY <1>4, <2>1, <3>1, ThenIs
    <2>3. i \in Nat /\ j \in Nat /\ k \in Nat
      BY <1>4, SpellingOf
    <2>4. Within(Head(fields), token.read) \in Seq(AllFields)
      BY <1>2, <1>4, TokenTypes
    <2> HIDE DEF n, i, j, k, m
    <2>5. n \in Nat /\ i <= n /\ n - i \in Nat /\ j <= n - i /\ m <= n /\ n - m \in Nat /\ k <= n - m
      BY <2>1, <2>2, <2>3
    <2>6. inner \in Spellings[n - i][Within(Head(fields), token.read)]
      BY <1>4, <2>4, <2>5, SpelledIn DEF j
    <2>7. t \in Spellings[n - m][Tail(fields)]
      BY <1>2, <1>4, <2>5, SpelledIn DEF k
    <2>8. Unfolds(Spellings, n, fields, token, inner, t)
      BY <1>4, <2>5, <2>6, <2>7 DEF Unfolds, i, m, first
    <2>9. Unfolded(Spellings, n, fields, s)
      BY <1>4, <2>8 DEF Unfolded
    <2>10. s \in Body(Spellings, n, fields)
      BY <2>5, <2>9, BodyIs
    <2>11. s \in Spellings[n][fields]
      BY <2>5, <2>10, SpellingsRecursion
    <2>12. QED
      BY <2>2, <2>11 DEF Spells, n
  <1>5. QED
    BY <1>3, <1>4

-----------------------------------------------------------------------------
(* Sequences of fields, one after the other.                                *)

Parted(s, fs, gs) ==
    \E t, u \in AllSpellings : Spells(t, fs) /\ Spells(u, gs) /\ s = Then(t, u)

\* What spells one sequence and the other spells the first, then the second.
LEMMA SpellsBoth ==
    ASSUME NEW fields \in Seq(AllFields), NEW others \in Seq(AllFields), NEW spelling
    PROVE  Spells(spelling, fields \o others) <=> Parted(spelling, fields, others)
  <1> DEFINE Both(fs) == \A s : Spells(s, fs \o others) <=> Parted(s, fs, others)
             G == {n \in Nat : \A fs \in Seq(AllFields) : Len(fs) = n => Both(fs)}
  <1>1. Both(<<>>)
    <2> TAKE s
    <2>1. <<>> \o others = others
      BY ConcatEmptySeq
    <2>2. ASSUME Spells(s, others) PROVE Parted(s, <<>>, others)
      <3>1. s \in AllSpellings
        BY <2>2 DEF Spells
      <3>2. s = Then(Nothing, s) /\ Nothing \in AllSpellings /\ Spells(Nothing, <<>>)
        BY <3>1, ThenNothing, NothingIs, SpellsNothing
      <3>3. QED
        BY <2>2, <3>1, <3>2 DEF Parted
    <2>3. ASSUME Parted(s, <<>>, others) PROVE Spells(s, others)
      <3>1. PICK t, u \in AllSpellings : Spells(t, <<>>) /\ Spells(u, others) /\ s = Then(t, u)
        BY <2>3 DEF Parted
      <3>2. t = Nothing
        BY <3>1, SpellsNothing
      <3>3. s = u
        BY <3>1, <3>2, ThenNothing
      <3>4. QED
        BY <3>1, <3>3
    <2>4. QED
      BY <2>1, <2>2, <2>3
  <1>2. ASSUME NEW n \in Nat, n \in G PROVE n + 1 \in G
    <2>1. SUFFICES ASSUME NEW fs \in Seq(AllFields), Len(fs) = n + 1 PROVE Both(fs)
      OBVIOUS
    <2>2. fs # <<>>
      BY <2>1, EmptySeq
    <2>3. Head(fs) \in AllFields /\ Tail(fs) \in Seq(AllFields) /\ Len(Tail(fs)) = n
      BY <2>1, <2>2, HeadAndTail
    <2>4. Both(Tail(fs))
      BY <1>2, <2>3
    <2>5. /\ fs \o others \in Seq(AllFields) /\ fs \o others # <<>>
          /\ Head(fs \o others) = Head(fs) /\ Tail(fs \o others) = Tail(fs) \o others
      BY <2>2, HeadOfBoth, ConcatProperties
    <2> HIDE DEF G
    <2>6. SUFFICES ASSUME NEW s PROVE Spells(s, fs \o others) <=> Parted(s, fs, others)
      OBVIOUS
    <2>7. ASSUME Spells(s, fs \o others) PROVE Parted(s, fs, others)
      <3>1. PICK token, inner, t \in AllSpellings :
                    /\ IsToken(Head(fs), token)
                    /\ Spells(inner, Within(Head(fs), token.read))
                    /\ Spells(t, Tail(fs) \o others)
                    /\ s = Then(Then(token, inner), t)
        <4> DEFINE whole == fs \o others
        <4>1. /\ whole \in Seq(AllFields) /\ whole # <<>> /\ Spells(s, whole)
              /\ Head(whole) = Head(fs) /\ Tail(whole) = Tail(fs) \o others
          BY <2>5, <2>7
        <4> HIDE DEF Both, whole
        <4>2. \E token, inner, t \in AllSpellings :
                    /\ IsToken(Head(whole), token)
                    /\ Spells(inner, Within(Head(whole), token.read))
                    /\ Spells(t, Tail(whole))
                    /\ s = Then(Then(token, inner), t)
          BY <4>1, SpellsFields
        <4>3. QED
          BY <4>1, <4>2
      <3>2. Parted(t, Tail(fs), others)
        BY <2>4, <3>1
      <3> HIDE DEF Both
      <3>3. PICK v, w \in AllSpellings : Spells(v, Tail(fs)) /\ Spells(w, others) /\ t = Then(v, w)
        BY <3>2 DEF Parted
      <3>4. Then(token, inner) \in AllSpellings
        BY ThenIs
      <3>5. Then(Then(token, inner), v) \in AllSpellings
        BY <3>4, ThenIs
      <3>6. Spells(Then(Then(token, inner), v), fs)
        BY <2>2, <3>1, <3>3, SpellsFields
      <3>7. s = Then(Then(Then(token, inner), v), w)
        BY <3>1, <3>3, <3>4, ThenAssociates
      <3>8. QED
        BY <3>3, <3>5, <3>6, <3>7 DEF Parted
    <2>8. ASSUME Parted(s, fs, others) PROVE Spells(s, fs \o others)
      <3>1. PICK u, w \in AllSpellings : Spells(u, fs) /\ Spells(w, others) /\ s = Then(u, w)
        BY <2>8 DEF Parted
      <3>2. PICK token, inner, v \in AllSpellings :
                    /\ IsToken(Head(fs), token)
                    /\ Spells(inner, Within(Head(fs), token.read))
                    /\ Spells(v, Tail(fs))
                    /\ u = Then(Then(token, inner), v)
        <4> HIDE DEF Both
        <4>1. QED
          BY <2>2, <3>1, SpellsFields
      <3>3. Then(token, inner) \in AllSpellings /\ Then(v, w) \in AllSpellings
        BY ThenIs
      <3>4. Parted(Then(v, w), Tail(fs), others)
        BY <3>1, <3>2 DEF Parted
      <3>5. Spells(Then(v, w), Tail(fs) \o others)
        BY <2>4, <3>4
      <3>6. s = Then(Then(token, inner), Then(v, w))
        BY <3>1, <3>2, <3>3, ThenAssociates
      <3> HIDE DEF Both
      <3>7. QED
        BY <2>5, <3>2, <3>3, <3>5, <3>6, SpellsFields
    <2>9. QED
      BY <2>7, <2>8
  <1>3. 0 \in G
    <2>1. \A fs \in Seq(AllFields) : Len(fs) = 0 => fs = <<>>
      BY EmptySeq
    <2> HIDE DEF Both
    <2>2. QED
      BY <1>1, <2>1
  <1>4. Nat \subseteq G
    <2> HIDE DEF G
    <2>1. QED
      BY <1>2, <1>3, NumberInduction
  <1>5. Len(fields) \in Nat
    BY LenProperties
  <1>6. QED
    BY <1>4, <1>5

\* The first field itself, and then what is within it before the others: what the
\* reader goes by.
LEMMA SpellsNext ==
    ASSUME NEW fields \in Seq(AllFields), fields # <<>>, NEW s
    PROVE  Spells(s, fields)
              <=> \E token, u \in AllSpellings :
                     /\ IsToken(Head(fields), token)
                     /\ Spells(u, Within(Head(fields), token.read) \o Tail(fields))
                     /\ s = Then(token, u)
  <1>1. Head(fields) \in AllFields /\ Tail(fields) \in Seq(AllFields)
    BY HeadAndTail
  <1>2. ASSUME Spells(s, fields)
        PROVE  \E token, u \in AllSpellings :
                     /\ IsToken(Head(fields), token)
                     /\ Spells(u, Within(Head(fields), token.read) \o Tail(fields))
                     /\ s = Then(token, u)
    <2>1. PICK token, inner, t \in AllSpellings :
                    /\ IsToken(Head(fields), token)
                    /\ Spells(inner, Within(Head(fields), token.read))
                    /\ Spells(t, Tail(fields))
                    /\ s = Then(Then(token, inner), t)
      BY <1>2, SpellsFields
    <2>2. Within(Head(fields), token.read) \in Seq(AllFields)
      BY <1>1, <2>1, TokenTypes
    <2>3. Parted(Then(inner, t), Within(Head(fields), token.read), Tail(fields))
      BY <2>1 DEF Parted
    <2>4. Spells(Then(inner, t), Within(Head(fields), token.read) \o Tail(fields))
      BY <1>1, <2>2, <2>3, SpellsBoth
    <2>5. s = Then(token, Then(inner, t)) /\ Then(inner, t) \in AllSpellings
      BY <2>1, ThenIs, ThenAssociates
    <2>6. QED
      BY <2>1, <2>4, <2>5
  <1>3. ASSUME NEW token \in AllSpellings, NEW u \in AllSpellings,
               IsToken(Head(fields), token),
               Spells(u, Within(Head(fields), token.read) \o Tail(fields)),
               s = Then(token, u)
        PROVE  Spells(s, fields)
    <2>1. Within(Head(fields), token.read) \in Seq(AllFields)
      BY <1>1, <1>3, TokenTypes
    <2>2. Parted(u, Within(Head(fields), token.read), Tail(fields))
      BY <1>1, <1>3, <2>1, SpellsBoth
    <2>3. PICK inner, t \in AllSpellings : /\ Spells(inner, Within(Head(fields), token.read))
                                           /\ Spells(t, Tail(fields)) /\ u = Then(inner, t)
      BY <2>2 DEF Parted
    <2>4. s = Then(Then(token, inner), t)
      BY <1>3, <2>3, ThenAssociates
    <2>5. QED
      BY <1>3, <2>3, <2>4, SpellsFields
  <1>4. QED
    BY <1>2, <1>3

\* A field takes an octet at least.
LEMMA SpellsLength ==
    ASSUME NEW fields \in Seq(AllFields), NEW spelling, Spells(spelling, fields)
    PROVE  Len(fields) <= Len(spelling.octets)
  <1> DEFINE Long(fs) == \A s : Spells(s, fs) => Len(fs) <= Len(s.octets)
             G == {n \in Nat : \A fs \in Seq(AllFields) : Len(fs) = n => Long(fs)}
  <1>1. 0 \in G
    <2>1. ASSUME NEW fs \in Seq(AllFields), Len(fs) = 0, NEW s, Spells(s, fs)
          PROVE  Len(fs) <= Len(s.octets)
      BY <2>1, SpellingOf DEF Spells
    <2>2. QED
      BY <2>1
  <1>2. ASSUME NEW n \in Nat, n \in G PROVE n + 1 \in G
    <2>1. SUFFICES ASSUME NEW fs \in Seq(AllFields), Len(fs) = n + 1, NEW s, Spells(s, fs)
                   PROVE  Len(fs) <= Len(s.octets)
      OBVIOUS
    <2>2. fs # <<>>
      BY <2>1, EmptySeq
    <2>3. Head(fs) \in AllFields /\ Tail(fs) \in Seq(AllFields) /\ Len(Tail(fs)) = n
      BY <2>1, <2>2, HeadAndTail
    <2>4. Long(Tail(fs))
      BY <1>2, <2>3
    <2>5. PICK token, inner, t \in AllSpellings :
                  /\ IsToken(Head(fs), token)
                  /\ Spells(inner, Within(Head(fs), token.read))
                  /\ Spells(t, Tail(fs))
                  /\ s = Then(Then(token, inner), t)
      <3> HIDE DEF G, Long
      <3>1. QED
        BY <2>1, <2>2, SpellsFields
    <2>6. n <= Len(t.octets)
      BY <2>3, <2>4, <2>5
    <2> HIDE DEF G, Long
    <2>7. Len(token.octets) >= 1 /\ Len(token.octets) \in Nat
      BY <2>3, <2>5, TokenTypes
    <2>8. /\ Then(token, inner) \in AllSpellings
          /\ Len(Then(token, inner).octets) = Len(token.octets) + Len(inner.octets)
      BY <2>5, ThenIs
    <2>9. Len(s.octets) = Len(Then(token, inner).octets) + Len(t.octets)
      BY <2>5, <2>8, ThenIs
    <2>10. Len(inner.octets) \in Nat /\ Len(t.octets) \in Nat
      BY <2>5, SpellingOf
    <2> DEFINE i == Len(token.octets)
               j == Len(inner.octets)
               k == Len(t.octets)
               m == Len(Then(token, inner).octets)
               l == Len(s.octets)
    <2>11. i >= 1 /\ i \in Nat /\ j \in Nat /\ k \in Nat /\ m = i + j /\ l = m + k /\ n <= k
      BY <2>6, <2>7, <2>8, <2>9, <2>10
    <2>12. n + 1 <= l
      <3> HIDE DEF i, j, k, m, l
      <3>1. QED
        BY <2>11
    <2>13. QED
      BY <2>1, <2>12
  <1>3. Nat \subseteq G
    <2> HIDE DEF G
    <2>1. QED
      BY <1>1, <1>2, NumberInduction
  <1>4. Len(fields) \in Nat
    BY LenProperties
  <1>5. QED
    BY <1>3, <1>4

-----------------------------------------------------------------------------
(* Pieces of the payload.                                                   *)

\* The octets behind the first i, up to the j-th.
Piece(i, j) == SubSeq(message, i + 1, j)
Unseen == Piece(offset, Len(message))

\* The payload has the octets behind its first i.
Occurs(i, octets) ==
    /\ i + Len(octets) <= Len(message)
    /\ \A k \in 1 .. Len(octets) : message[i + k] = octets[k]

LEMMA PieceIs ==
    ASSUME message \in Seq(Digit), NEW i \in Nat, NEW j \in Nat, i <= j, j <= Len(message)
    PROVE  /\ Piece(i, j) \in Seq(Digit) /\ Len(Piece(i, j)) = j - i
           /\ \A k \in 1 .. j - i : Piece(i, j)[k] = message[i + k]
           /\ Occurs(i, Piece(i, j))
  <1> DEFINE m == i + 1
             p == SubSeq(message, m, j)
  <1>1. Len(message) \in Nat /\ m \in Int /\ \A k \in m .. j : message[k] \in Digit
    BY LenProperties, ElementOfSeq
  <1>2. /\ p \in Seq(Digit)
        /\ Len(p) = IF m <= j THEN j - m + 1 ELSE 0
        /\ \A k \in 1 .. j - m + 1 : p[k] = message[m + k - 1]
    BY <1>1, SubSeqProperties
  <1>3. Len(p) = j - i
    BY <1>2
  <1>4. \A k \in 1 .. j - i : p[k] = message[i + k]
    BY <1>2
  <1>5. p = Piece(i, j)
    BY DEF Piece
  <1> HIDE DEF p
  <1>6. QED
    BY <1>1, <1>2, <1>3, <1>4, <1>5 DEF Occurs

LEMMA OccursIsPiece ==
    ASSUME message \in Seq(Digit), NEW i \in Nat, NEW octets \in Seq(Digit), Occurs(i, octets)
    PROVE  octets = Piece(i, i + Len(octets))
  <1> DEFINE j == i + Len(octets)
  <1>1. Len(octets) \in Nat /\ j \in Nat /\ i <= j /\ j <= Len(message) /\ j - i = Len(octets)
    BY LenProperties DEF Occurs
  <1>2. /\ Piece(i, j) \in Seq(Digit) /\ Len(Piece(i, j)) = Len(octets)
        /\ \A k \in 1 .. Len(octets) : Piece(i, j)[k] = message[i + k]
    <2> HIDE DEF j
    <2>1. QED
      BY <1>1, PieceIs
  <1>3. \A k \in 1 .. Len(octets) : Piece(i, j)[k] = octets[k]
    BY <1>2 DEF Occurs
  <1> HIDE DEF j
  <1>4. octets = Piece(i, j)
    BY <1>2, <1>3, SeqEqual
  <1>5. QED
    BY <1>4 DEF j

LEMMA OccursBoth ==
    ASSUME message \in Seq(Digit), NEW i \in Nat, NEW p \in Seq(Digit), NEW q \in Seq(Digit)
    PROVE  Occurs(i, p \o q) <=> Occurs(i, p) /\ Occurs(i + Len(p), q)
  <1> DEFINE r == p \o q
  <1>1. /\ Len(r) = Len(p) + Len(q) /\ Len(p) \in Nat /\ Len(q) \in Nat /\ Len(message) \in Nat
        /\ \A k \in 1 .. Len(p) + Len(q) : r[k] = IF k <= Len(p) THEN p[k] ELSE q[k - Len(p)]
    BY ConcatProperties, LenProperties
  <1> HIDE DEF r
  <1>2. ASSUME Occurs(i, r) PROVE Occurs(i, p) /\ Occurs(i + Len(p), q)
    <2>1. ASSUME NEW k \in 1 .. Len(p) PROVE message[i + k] = p[k]
      <3>1. k \in 1 .. Len(p) + Len(q) /\ k \in 1 .. Len(r)
        BY <1>1
      <3>2. QED
        BY <1>1, <1>2, <2>1, <3>1 DEF Occurs
    <2>2. ASSUME NEW k \in 1 .. Len(q) PROVE message[i + Len(p) + k] = q[k]
      <3>1. /\ Len(p) + k \in 1 .. Len(p) + Len(q) /\ Len(p) + k \in 1 .. Len(r)
            /\ i + (Len(p) + k) = i + Len(p) + k /\ ~ (Len(p) + k <= Len(p))
            /\ (Len(p) + k) - Len(p) = k
        BY <1>1
      <3>2. message[i + (Len(p) + k)] = r[Len(p) + k]
        BY <1>2, <3>1 DEF Occurs
      <3>3. r[Len(p) + k] = q[k]
        BY <1>1, <3>1
      <3>4. QED
        BY <3>1, <3>2, <3>3
    <2>3. i + Len(p) <= Len(message) /\ i + Len(p) + Len(q) <= Len(message)
      BY <1>1, <1>2 DEF Occurs
    <2>4. QED
      BY <2>1, <2>2, <2>3 DEF Occurs
  <1>3. ASSUME Occurs(i, p), Occurs(i + Len(p), q) PROVE Occurs(i, r)
    <2>1. i + Len(r) <= Len(message)
      BY <1>1, <1>3 DEF Occurs
    <2>2. ASSUME NEW k \in 1 .. Len(r) PROVE message[i + k] = r[k]
      <3>1. CASE k <= Len(p)
        <4>1. k \in 1 .. Len(p) /\ k \in 1 .. Len(p) + Len(q)
          BY <1>1, <3>1
        <4>2. QED
          BY <1>1, <1>3, <3>1, <4>1 DEF Occurs
      <3>2. CASE ~ (k <= Len(p))
        <4> DEFINE l == k - Len(p)
        <4>1. /\ l \in 1 .. Len(q) /\ i + Len(p) + l = i + k
              /\ k \in 1 .. Len(p) + Len(q)
          BY <1>1, <3>2
        <4>2. message[i + Len(p) + l] = q[l]
          <5> HIDE DEF l
          <5>1. QED
            BY <1>3, <4>1 DEF Occurs
        <4>3. r[k] = q[l]
          BY <1>1, <3>2, <4>1
        <4>4. QED
          BY <4>1, <4>2, <4>3
      <3>3. QED
        BY <3>1, <3>2
    <2>3. QED
      BY <2>1, <2>2 DEF Occurs
  <1>4. QED
    BY <1>2, <1>3 DEF r

\* What is left is a first part and the piece behind it.
LEMMA RestIsBoth ==
    ASSUME message \in Seq(Digit), NEW i \in Nat, i <= Len(message),
           NEW p \in Seq(Digit), NEW q \in Seq(Digit)
    PROVE  Piece(i, Len(message)) = p \o q
              <=> Occurs(i, p) /\ q = Piece(i + Len(p), Len(message))
  <1> DEFINE L == Len(message)
             rest == Piece(i, L)
             j == i + Len(p)
  <1>1. L \in Nat /\ Len(p) \in Nat /\ Len(q) \in Nat /\ j \in Nat
    BY LenProperties
  <1>2. rest \in Seq(Digit) /\ Len(rest) = L - i /\ Occurs(i, rest)
    <2>1. i <= L /\ L <= Len(message)
      BY <1>1
    <2>2. QED
      BY <1>1, <2>1, PieceIs
  <1>3. ASSUME rest = p \o q PROVE Occurs(i, p) /\ q = Piece(j, L)
    <2>1. Occurs(i, p) /\ Occurs(j, q)
      BY <1>2, <1>3, OccursBoth
    <2>2. Len(p) + Len(q) = L - i
      BY <1>2, <1>3, ConcatProperties
    <2>3. j + Len(q) = L
      BY <1>1, <2>2
    <2> HIDE DEF j, L
    <2>4. q = Piece(j, j + Len(q))
      BY <1>1, <2>1, OccursIsPiece
    <2>5. QED
      BY <2>1, <2>3, <2>4
  <1>4. ASSUME Occurs(i, p), q = Piece(j, L) PROVE rest = p \o q
    <2>1. j <= L /\ L <= Len(message)
      BY <1>1, <1>4 DEF Occurs
    <2>2. Len(q) = L - j /\ Occurs(j, q)
      <3> HIDE DEF j
      <3>1. QED
        BY <1>1, <1>4, <2>1, PieceIs
    <2>3. Occurs(i, p \o q)
      BY <1>4, <2>2, OccursBoth
    <2>4. p \o q \in Seq(Digit) /\ Len(p \o q) = Len(p) + Len(q)
      BY ConcatProperties
    <2>5. i + Len(p \o q) = L
      BY <1>1, <2>2, <2>4
    <2> DEFINE r == p \o q
    <2> HIDE DEF r, L
    <2>6. r = Piece(i, i + Len(r))
      BY <2>3, <2>4, OccursIsPiece DEF r
    <2>7. QED
      BY <2>5, <2>6 DEF r
  <1>5. QED
    BY <1>3, <1>4

-----------------------------------------------------------------------------
(* What the reader takes.                                                   *)

Taken(n, yields) == Spelling(Piece(offset, offset + n), yields)

LEMMA OctetsLeft ==
    ASSUME message \in Seq(Digit), offset \in 0 .. Len(message)
    PROVE  /\ Left \in Nat /\ offset \in Nat /\ Len(message) \in Nat /\ offset <= Len(message)
           /\ Left = Len(message) - offset
           /\ Left >= 1 => First \in Digit /\ First \in Nat /\ First = message[offset + 1]
  <1>1. Len(message) \in Nat
    BY LenProperties
  <1>2. ASSUME Left >= 1 PROVE First \in Digit /\ First \in Nat /\ First = message[offset + 1]
    <2>1. offset + 1 \in 1 .. Len(message)
      BY <1>1, <1>2 DEF Left
    <2>2. message[offset + 1] \in Digit
      BY <2>1, ElementOfSeq
    <2>3. QED
      BY <2>2, Radixes DEF First, Digit
  <1>3. QED
    BY <1>1, <1>2 DEF Left

LEMMA OneOctet ==
    ASSUME message \in Seq(Digit), offset \in 0 .. Len(message), NEW d
    PROVE  Occurs(offset, <<d>>) <=> Left >= 1 /\ First = d
  <1>1. Len(<<d>>) = 1 /\ <<d>>[1] = d
    OBVIOUS
  <1>2. Len(message) \in Nat /\ offset \in Nat
    BY LenProperties
  <1>3. offset + 1 <= Len(message) <=> Left >= 1
    BY <1>2 DEF Left
  <1> DEFINE octets == <<d>>
  <1>4. Len(octets) = 1 /\ octets[1] = d
    BY <1>1
  <1> HIDE DEF octets
  <1>5. Occurs(offset, octets) <=> offset + 1 <= Len(message) /\ message[offset + 1] = d
    <2>1. \A k \in 1 .. 1 : k = 1
      OBVIOUS
    <2>2. 1 \in 1 .. 1
      OBVIOUS
    <2>3. QED
      BY <1>4, <2>1, <2>2 DEF Occurs
  <1>6. QED
    BY <1>3, <1>5 DEF octets, First

LEMMA TakesOne ==
    ASSUME message \in Seq(Digit), offset \in 0 .. Len(message), Left >= 1
    PROVE  Piece(offset, offset + 1) = <<First>>
  <1>1. First \in Digit /\ offset \in Nat
    BY OctetsLeft
  <1>2. <<First>> \in Seq(Digit) /\ Len(<<First>>) = 1
    BY <1>1
  <1>3. Occurs(offset, <<First>>)
    BY OneOctet
  <1> DEFINE octets == <<First>>
  <1>4. octets \in Seq(Digit) /\ Len(octets) = 1 /\ Occurs(offset, octets)
    BY <1>2, <1>3
  <1> HIDE DEF octets
  <1>5. octets = Piece(offset, offset + 1)
    BY <1>1, <1>4, OccursIsPiece
  <1>6. QED
    BY <1>5 DEF octets

\* A number that is spelled at the offset is read.
LEMMA NumberIsRead ==
    ASSUME message \in Seq(Digit), offset \in 0 .. Len(message),
           NEW tags \in 1 .. 3, NEW maximum,
           NEW s \in Numbers(tags, maximum), Occurs(offset, s.octets)
    PROVE  HasNumber(tags, maximum) /\ s = Taken(NumberSize, <<Number>>)
  <1>1. s.read[1] <= maximum /\ (IsBare(s) \/ \E tag \in 1 .. tags : IsBehind(s, tag))
    BY NumberIs
  <1>2. Left \in Nat /\ offset \in Nat /\ Len(message) \in Nat /\ Left = Len(message) - offset
    BY OctetsLeft
  <1>3. CASE IsBare(s)
    <2>1. PICK d \in 0 .. Single : s = Spelling(<<d>>, <<d>>)
      BY <1>3 DEF IsBare
    <2>2. s.octets = <<d>> /\ s.read = <<d>>
      BY <2>1, SpellingIs
    <2>3. Left >= 1 /\ First = d
      BY <2>2, OneOctet
    <2>4. First <= Single /\ Single \in Nat /\ First \in Nat
      BY <2>3, Radixes
    <2>5. NumberSize = 1 /\ Number = d
      BY <2>3, <2>4 DEF NumberSize, Number
    <2>6. d <= maximum
      BY <1>1, <2>2
    <2>7. HasNumber(tags, maximum)
      BY <2>3, <2>4, <2>5, <2>6 DEF HasNumber
    <2>8. Piece(offset, offset + 1) = <<d>>
      BY <2>3, TakesOne
    <2>9. QED
      BY <2>1, <2>5, <2>7, <2>8 DEF Taken
  <1>4. CASE \E tag \in 1 .. tags : IsBehind(s, tag)
    <2>1. PICK tag \in 1 .. tags : IsBehind(s, tag)
      BY <1>4
    <2>2. PICK digits \in Seq(Digit) :
                /\ Len(digits) = Widths[tag]
                /\ s = Spelling(<<Single + tag>> \o digits, <<FromLittleEndian(digits)>>)
      BY <2>1 DEF IsBehind
    <2>3. tag \in 1 .. 3 /\ Widths[tag] \in Nat /\ Single \in Nat /\ tag \in Nat
      BY Radixes
    <2> DEFINE front == <<Single + tag>>
               octets == front \o digits
               value == FromLittleEndian(digits)
               read == <<value>>
    <2>4. front \in Seq(Digit) /\ Len(front) = 1 /\ octets \in Seq(Digit)
          /\ Len(octets) = 1 + Widths[tag]
      <3>1. Single + tag \in Digit
        BY <2>2, <2>3, BehindIs
      <3>2. QED
        BY <2>2, <2>3, <3>1, BehindIs
    <2>5. s = Spelling(octets, read) /\ read[1] = value
      BY <2>2
    <2>6. s.octets = octets /\ s.read = read
      <3> HIDE DEF octets, read
      <3>1. QED
        BY <2>5, SpellingIs
    <2>7. Occurs(offset, front) /\ Occurs(offset + 1, digits)
      <3>1. Occurs(offset, octets)
        BY <2>6
      <3> HIDE DEF front
      <3>2. QED
        BY <1>2, <2>4, <3>1, OccursBoth
    <2>8. Left >= 1 /\ First = Single + tag
      BY <2>7, OneOctet
    <2>9. ~ (First <= Single) /\ First - Single = tag /\ First <= Single + tags
      BY <2>3, <2>8
    <2>10. NumberSize = 1 + Widths[tag]
      BY <2>9 DEF NumberSize
    <2>11. offset + 1 + Len(digits) = offset + NumberSize /\ offset + 1 \in Nat
           /\ offset + 1 + Len(digits) <= Len(message)
      BY <1>2, <2>2, <2>3, <2>7, <2>10 DEF Occurs
    <2>12. digits = SubSeq(message, offset + 2, offset + NumberSize)
      <3>1. digits = Piece(offset + 1, offset + NumberSize)
        <4> DEFINE i == offset + 1
        <4>1. i \in Nat /\ i + Len(digits) = offset + NumberSize /\ Occurs(i, digits)
          BY <2>7, <2>11
        <4> HIDE DEF i
        <4>2. digits = Piece(i, i + Len(digits))
          BY <4>1, OccursIsPiece
        <4>3. QED
          BY <4>1, <4>2 DEF i
      <3>2. (offset + 1) + 1 = offset + 2
        BY <1>2
      <3>3. QED
        BY <3>1, <3>2 DEF Piece
    <2>13. Number = value
      BY <2>9, <2>12 DEF Number
    <2>14. NumberSize <= Left
      BY <1>2, <2>2, <2>3, <2>10, <2>11
    <2>15. Number <= maximum
      BY <1>1, <2>5, <2>6, <2>13
    <2>16. HasNumber(tags, maximum)
      BY <2>8, <2>9, <2>14, <2>15 DEF HasNumber
    <2>17. octets = Piece(offset, offset + NumberSize)
      <3>1. Occurs(offset, octets)
        BY <2>6
      <3> HIDE DEF octets
      <3>2. QED
        BY <1>2, <2>4, <2>10, <3>1, OccursIsPiece
    <2>18. s = Spelling(Piece(offset, offset + NumberSize), <<Number>>)
      <3> HIDE DEF octets
      <3>1. QED
        BY <2>5, <2>13, <2>17
    <2>19. QED
      BY <2>16, <2>18 DEF Taken
  <1>5. QED
    BY <1>1, <1>3, <1>4

\* A number that is read is spelled at the offset.
LEMMA NumberIsSpelled ==
    ASSUME message \in Seq(Digit), offset \in 0 .. Len(message),
           NEW tags \in 1 .. 3, NEW maximum, HasNumber(tags, maximum)
    PROVE  /\ Taken(NumberSize, <<Number>>) \in Numbers(tags, maximum)
           /\ NumberSize \in 1 .. Left /\ Number \in Nat /\ Number <= maximum
  <1>1. /\ Left >= 1 /\ First <= Single + tags /\ NumberSize <= Left /\ Number <= maximum
    BY DEF HasNumber
  <1>2. /\ Left \in Nat /\ offset \in Nat /\ Len(message) \in Nat /\ Left = Len(message) - offset
        /\ First \in Digit /\ First \in Nat /\ Single \in Nat
    BY <1>1, OctetsLeft, Radixes
  <1> DEFINE s == Taken(NumberSize, <<Number>>)
             read == <<Number>>
  <1>3. CASE First <= Single
    <2>1. NumberSize = 1 /\ Number = First
      BY <1>3 DEF NumberSize, Number
    <2>2. s = Spelling(<<First>>, <<First>>)
      BY <1>1, <2>1, TakesOne DEF Taken
    <2>3. IsBare(s)
      BY <1>2, <1>3, <2>2 DEF IsBare
    <2>4. s.read = <<First>>
      BY <2>2, SpellingIs
    <2>5. s.read[1] <= maximum
      BY <1>1, <2>1, <2>4
    <2> HIDE DEF s
    <2>6. s \in Numbers(tags, maximum)
      BY <2>3, <2>5, NumberIs
    <2>7. QED
      BY <1>1, <1>2, <2>1, <2>6 DEF s
  <1>4. CASE ~ (First <= Single)
    <2> DEFINE tag == First - Single
               digits == SubSeq(message, offset + 2, offset + NumberSize)
               front == <<Single + tag>>
               octets == front \o digits
    <2>1. tag \in 1 .. tags /\ tag \in 1 .. 3 /\ Single + tag = First
      BY <1>1, <1>2, <1>4
    <2>2. NumberSize = 1 + Widths[tag] /\ Number = FromLittleEndian(digits)
      BY <1>4 DEF NumberSize, Number
    <2>3. Widths[tag] \in Nat
      <3> HIDE DEF tag
      <3>1. QED
        BY <2>1, Radixes
    <2>4. NumberSize \in Nat /\ offset + 1 <= offset + NumberSize
          /\ offset + NumberSize <= Len(message) /\ offset + NumberSize \in Nat
          /\ offset + 1 \in Nat /\ (offset + 1) + 1 = offset + 2
          /\ (offset + NumberSize) - (offset + 1) = Widths[tag]
      <3> HIDE DEF tag
      <3>1. QED
        BY <1>1, <1>2, <2>2, <2>3
    <2>5. digits = Piece(offset + 1, offset + NumberSize)
      BY <2>4 DEF Piece
    <2>6. digits \in Seq(Digit) /\ Len(digits) = Widths[tag] /\ Occurs(offset + 1, digits)
      <3> DEFINE i == offset + 1
                 j == offset + NumberSize
      <3>1. i \in Nat /\ j \in Nat /\ i <= j /\ j <= Len(message) /\ j - i = Widths[tag]
        BY <2>4
      <3> HIDE DEF i, j, tag, digits
      <3>2. digits = Piece(i, j)
        BY <2>5 DEF i, j
      <3>3. digits \in Seq(Digit) /\ Len(digits) = Widths[tag] /\ Occurs(i, digits)
        BY <3>1, <3>2, PieceIs
      <3>4. QED
        BY <3>3 DEF i
    <2> HIDE DEF tag, digits
    <2>7. front \in Seq(Digit) /\ Len(front) = 1 /\ octets \in Seq(Digit)
          /\ Len(octets) = 1 + Widths[tag]
      <3>1. Single + tag \in Digit
        BY <2>1, <2>6, BehindIs
      <3>2. QED
        BY <2>1, <2>6, <3>1, BehindIs
    <2>8. Occurs(offset, front)
      BY <1>1, <2>1, OneOctet
    <2>9. Occurs(offset, octets)
      <3> HIDE DEF front
      <3>1. QED
        BY <1>2, <2>6, <2>7, <2>8, OccursBoth
    <2>10. octets = Piece(offset, offset + NumberSize)
      <3> HIDE DEF octets
      <3>1. QED
        BY <1>2, <2>2, <2>7, <2>9, OccursIsPiece
    <2>11. s = Spelling(octets, <<FromLittleEndian(digits)>>)
      BY <2>2, <2>10 DEF Taken
    <2>12. IsBehind(s, tag)
      BY <2>6, <2>11 DEF IsBehind
    <2>13. s.read = read
      BY SpellingIs DEF Taken
    <2>14. s.read[1] <= maximum
      BY <1>1, <2>13
    <2> HIDE DEF s
    <2>15. s \in Numbers(tags, maximum)
      BY <2>1, <2>12, <2>14, NumberIs
    <2>16. NumberSize \in 1 .. Left
      BY <1>1, <1>2, <2>2, <2>3
    <2>17. Number \in Nat
      BY <2>2, <2>6, FromLittleEndianIsNumber
    <2>18. QED
      BY <1>1, <2>15, <2>16, <2>17 DEF s
  <1>5. QED
    BY <1>3, <1>4

-----------------------------------------------------------------------------
(* A step of the reader.                                                    *)

\* The field at hand is spelled at the offset, in so many octets and no other way.
Found(n, yields) ==
    /\ IsToken(Field, Taken(n, yields))
    /\ \A token : IsToken(Field, token) /\ Occurs(offset, token.octets) => token = Taken(n, yields)

ReaderTypes ==
    /\ message \in Seq(Digit)
    /\ offset \in 0 .. Len(message)
    /\ values \in Seq(Int)
    /\ unread \in Seq(AllFields)

LEMMA RestIs ==
    ASSUME ReaderTypes
    PROVE  /\ Unseen \in Seq(Digit) /\ Len(Unseen) = Left /\ Left \in Nat /\ offset \in Nat
           /\ Len(message) \in Nat /\ Left = Len(message) - offset
  <1>1. message \in Seq(Digit) /\ offset \in 0 .. Len(message)
    BY DEF ReaderTypes
  <1>2. Left \in Nat /\ offset \in Nat /\ Len(message) \in Nat /\ offset <= Len(message)
        /\ Left = Len(message) - offset
    BY <1>1, OctetsLeft
  <1> DEFINE L == Len(message)
  <1>3. L \in Nat /\ offset <= L /\ L <= Len(message)
    BY <1>2
  <1> HIDE DEF L
  <1>4. Piece(offset, L) \in Seq(Digit) /\ Len(Piece(offset, L)) = L - offset
    BY <1>1, <1>2, <1>3, PieceIs
  <1>5. QED
    BY <1>2, <1>4 DEF Unseen, L

\* The first field at hand: a token at the offset, and what is behind it.
LEMMA RestSpelled ==
    ASSUME ReaderTypes, unread # <<>>, NEW v
    PROVE  Spells(Spelling(Unseen, v), unread)
              <=> \E token, u \in AllSpellings :
                     /\ IsToken(Field, token) /\ Occurs(offset, token.octets)
                     /\ Spells(u, Within(Field, token.read) \o Tail(unread))
                     /\ u.octets = Piece(offset + Len(token.octets), Len(message))
                     /\ v = token.read \o u.read
  <1>1. /\ message \in Seq(Digit) /\ offset \in Nat /\ offset <= Len(message)
        /\ unread \in Seq(AllFields)
    BY RestIs DEF ReaderTypes
  <1>2. ASSUME NEW token \in AllSpellings, NEW u \in AllSpellings
        PROVE  Spelling(Unseen, v) = Then(token, u)
                  <=> /\ Occurs(offset, token.octets)
                      /\ u.octets = Piece(offset + Len(token.octets), Len(message))
                      /\ v = token.read \o u.read
    <2>1. token.octets \in Seq(Digit) /\ u.octets \in Seq(Digit)
      BY SpellingOf
    <2>2. Spelling(Unseen, v) = Then(token, u)
             <=> Unseen = token.octets \o u.octets /\ v = token.read \o u.read
      <3>1. Spelling(Unseen, v).octets = Unseen /\ Spelling(Unseen, v).read = v
        BY SpellingIs
      <3>2. /\ Then(token, u).octets = token.octets \o u.octets
            /\ Then(token, u).read = token.read \o u.read
        BY ThenIs
      <3>3. Then(token, u) = Spelling(token.octets \o u.octets, token.read \o u.read)
        BY DEF Then
      <3>4. QED
        BY <3>1, <3>2, <3>3
    <2>3. Unseen = token.octets \o u.octets
             <=> /\ Occurs(offset, token.octets)
                 /\ u.octets = Piece(offset + Len(token.octets), Len(message))
      BY <1>1, <2>1, RestIsBoth DEF Unseen
    <2>4. QED
      BY <2>2, <2>3
  <1>3. Spells(Spelling(Unseen, v), unread)
           <=> \E token, u \in AllSpellings :
                  /\ IsToken(Head(unread), token)
                  /\ Spells(u, Within(Head(unread), token.read) \o Tail(unread))
                  /\ Spelling(Unseen, v) = Then(token, u)
    <2> DEFINE s == Spelling(Unseen, v)
    <2> HIDE DEF s
    <2>1. Spells(s, unread)
             <=> \E token, u \in AllSpellings :
                    /\ IsToken(Head(unread), token)
                    /\ Spells(u, Within(Head(unread), token.read) \o Tail(unread))
                    /\ s = Then(token, u)
      BY <1>1, SpellsNext
    <2>2. QED
      BY <2>1 DEF s
  <1>4. QED
    BY <1>2, <1>3 DEF Field

\* What is left spells what is unread exactly if the octets behind the field at hand
\* spell what will then be unread.
LEMMA Advances ==
    ASSUME ReaderTypes, unread # <<>>, NEW n \in 1 .. Left, NEW yields \in Seq(Int),
           Found(n, yields), NEW v
    PROVE  Spells(Spelling(Unseen, v), unread)
              <=> \E w : /\ v = yields \o w
                         /\ Spells(Spelling(Piece(offset + n, Len(message)), w),
                                   Within(Field, yields) \o Tail(unread))
  <1> DEFINE taken == Taken(n, yields)
             front == Piece(offset, offset + n)
             back == Piece(offset + n, Len(message))
             next == Within(Field, yields) \o Tail(unread)
  <1>1. /\ message \in Seq(Digit) /\ offset \in Nat /\ Left \in Nat /\ n \in Nat
        /\ Len(message) \in Nat /\ Left = Len(message) - offset
    BY RestIs DEF ReaderTypes
  <1>2. front \in Seq(Digit) /\ Len(front) = n /\ Occurs(offset, front)
    <2> DEFINE j == offset + n
    <2>1. j \in Nat /\ offset <= j /\ j <= Len(message) /\ j - offset = n
      BY <1>1
    <2> HIDE DEF j
    <2>2. Piece(offset, j) \in Seq(Digit) /\ Len(Piece(offset, j)) = n /\ Occurs(offset, Piece(offset, j))
      BY <1>1, <2>1, PieceIs
    <2>3. QED
      BY <2>2 DEF j
  <1> HIDE DEF front, back
  <1>3. taken = Spelling(front, yields)
    BY DEF Taken, front
  <1>4. /\ taken \in AllSpellings /\ taken.octets = front /\ taken.read = yields
        /\ Len(taken.octets) = n /\ Occurs(offset, taken.octets)
    BY <1>2, <1>3, SpellingIs
  <1> HIDE DEF taken, next
  <1>5. \A token : IsToken(Field, token) /\ Occurs(offset, token.octets) => token = taken
    BY DEF Found, taken
  <1>6. IsToken(Field, taken)
    BY DEF Found, taken
  <1>7. ASSUME Spells(Spelling(Unseen, v), unread)
        PROVE  \E w : v = yields \o w /\ Spells(Spelling(back, w), next)
    <2>1. PICK token, u \in AllSpellings :
                     /\ IsToken(Field, token) /\ Occurs(offset, token.octets)
                     /\ Spells(u, Within(Field, token.read) \o Tail(unread))
                     /\ u.octets = Piece(offset + Len(token.octets), Len(message))
                     /\ v = token.read \o u.read
      BY <1>7, RestSpelled
    <2>2. token = taken
      BY <1>5, <2>1
    <2>3. u.octets = back /\ v = yields \o u.read /\ Spells(u, next)
      BY <1>4, <2>1, <2>2 DEF back, next
    <2>4. u = Spelling(back, u.read)
      BY <2>3, SpellingOf
    <2>5. QED
      BY <2>3, <2>4
  <1>8. ASSUME NEW w, v = yields \o w, Spells(Spelling(back, w), next)
        PROVE  Spells(Spelling(Unseen, v), unread)
    <2> DEFINE u == Spelling(back, w)
    <2>1. u \in AllSpellings /\ u.octets = back /\ u.read = w
      BY <1>8, SpellingIs DEF Spells
    <2>2. Spells(u, next)
      BY <1>8
    <2> HIDE DEF u
    <2>3. /\ IsToken(Field, taken) /\ Occurs(offset, taken.octets)
          /\ Spells(u, Within(Field, taken.read) \o Tail(unread))
          /\ u.octets = Piece(offset + Len(taken.octets), Len(message))
          /\ v = taken.read \o u.read
      BY <1>4, <1>6, <1>8, <2>1, <2>2 DEF back, next
    <2>4. QED
      BY <1>4, <2>1, <2>3, RestSpelled
  <1>9. QED
    BY <1>7, <1>8 DEF back, next

-----------------------------------------------------------------------------
(* The inductive invariant: what the payload spells as a message is what    *)
(* has been read, followed by what the rest of it spells as the fields yet  *)
(* to be read; a payload that was refused spells no message.                *)

Legible ==
    \A r : Spells(Spelling(message, r), <<Tagged>>)
              <=> \E v : r = values \o v /\ Spells(Spelling(Unseen, v), unread)

Illegible == \A r : ~ Spells(Spelling(message, r), <<Tagged>>)

CodecInv ==
    /\ CodecTypeOK
    /\ unread \in Seq(AllFields)
    /\ verdict \in {"reading", "accepted"} => Legible
    /\ verdict = "accepted" => unread = <<>> /\ offset = Len(message)
    /\ verdict \in {"framing", "unsupported_message"} => Illegible
    /\ intended = <<>> => Len(message) <= MaxForeign

LEMMA CodecInvTypes == ASSUME CodecInv PROVE ReaderTypes
  BY DEF CodecInv, CodecTypeOK, ReaderTypes

LEMMA StepTakes ==
    ASSUME CodecInv, verdict = "reading", unread # <<>>,
           NEW n \in 1 .. Left, NEW yields \in Seq(Int), NEW fields,
           fields = Within(Field, yields), Found(n, yields), TakesOctets(n, yields, fields)
    PROVE  CodecInv'
  <1> DEFINE next == fields \o Tail(unread)
             back == Piece(offset + n, Len(message))
             L == Len(message)
  <1>1. ReaderTypes
    BY CodecInvTypes
  <1>2. /\ message' = message /\ intended' = intended /\ verdict' = "reading"
        /\ offset' = offset + n /\ values' = values \o yields /\ unread' = next
    BY DEF TakesOctets
  <1>3. /\ offset \in Nat /\ Left \in Nat /\ L \in Nat /\ Left = L - offset
        /\ message \in Seq(Digit) /\ values \in Seq(Int) /\ unread \in Seq(AllFields)
    BY <1>1, RestIs DEF ReaderTypes
  <1>4. offset' \in 0 .. Len(message')
    BY <1>2, <1>3
  <1>5. values' \in Seq(Int)
    BY <1>2, <1>3, ConcatProperties
  <1>6. unread' \in Seq(AllFields)
    <2>1. Head(unread) \in AllFields /\ Tail(unread) \in Seq(AllFields)
      BY <1>3, HeadAndTail
    <2>2. IsToken(Field, Taken(n, yields)) /\ Taken(n, yields).read = yields
      BY SpellingIs DEF Found, Taken
    <2>3. fields \in Seq(AllFields)
      BY <2>1, <2>2, TokenTypes DEF Field
    <2>4. QED
      BY <1>2, <2>1, <2>3, ConcatProperties
  <1>7. Legible'
    <2> DEFINE rest == Unseen'
    <2>1. rest = back
      BY <1>2 DEF Unseen, Piece
    <2>2. Legible
      BY DEF CodecInv
    <2>3. \A v : Spells(Spelling(Unseen, v), unread)
                    <=> \E w : v = yields \o w /\ Spells(Spelling(back, w), next)
      BY <1>1, Advances
    <2>4. \A w : Spells(Spelling(back, w), next) => w \in Seq(Int)
      BY SpellingIs DEF Spells
    <2>5. \A w \in Seq(Int) : (values \o yields) \o w = values \o (yields \o w)
      <3>1. \A p, q, w \in Seq(Int) : (p \o q) \o w = p \o (q \o w)
        BY ONLY Associates
      <3>2. QED
        BY <1>3, <3>1
    <2> HIDE DEF back, next, rest
    <2>6. ASSUME NEW r
          PROVE  Spells(Spelling(message, r), <<Tagged>>)
                    <=> \E w : r = (values \o yields) \o w /\ Spells(Spelling(back, w), next)
      <3>1. ASSUME Spells(Spelling(message, r), <<Tagged>>)
            PROVE  \E w : r = (values \o yields) \o w /\ Spells(Spelling(back, w), next)
        <4>1. PICK v : r = values \o v /\ Spells(Spelling(Unseen, v), unread)
          BY <2>2, <3>1 DEF Legible
        <4>2. PICK w : v = yields \o w /\ Spells(Spelling(back, w), next)
          BY <2>3, <4>1
        <4>3. w \in Seq(Int)
          BY <2>4, <4>2
        <4>4. r = (values \o yields) \o w
          BY <2>5, <4>1, <4>2, <4>3
        <4>5. QED
          BY <4>2, <4>4
      <3>2. ASSUME NEW w, r = (values \o yields) \o w, Spells(Spelling(back, w), next)
            PROVE  Spells(Spelling(message, r), <<Tagged>>)
        <4> DEFINE v == yields \o w
        <4>1. w \in Seq(Int)
          BY <2>4, <3>2
        <4>2. r = values \o v
          BY <2>5, <3>2, <4>1
        <4>3. Spells(Spelling(Unseen, v), unread)
          BY <2>3, <3>2
        <4> HIDE DEF v
        <4>4. QED
          BY <2>2, <4>2, <4>3 DEF Legible
      <3>3. QED
        BY <3>1, <3>2
    <2>7. Legible' <=> \A r : Spells(Spelling(message', r), <<Tagged>>)
                    <=> \E v : r = values' \o v /\ Spells(Spelling(rest, v), unread')
      BY DEF Legible, Spells, AllSpellings, rest
    <2>8. QED
      BY <1>2, <2>1, <2>6, <2>7
  <1>8. CodecTypeOK'
    BY <1>2, <1>3, <1>4, <1>5 DEF CodecInv, CodecTypeOK
  <1>9. intended' = <<>> => Len(message') <= MaxForeign
    BY <1>2 DEF CodecInv
  <1>10. QED
    BY <1>2, <1>6, <1>7, <1>8, <1>9 DEF CodecInv

\* A verdict is reached.
LEMMA StepConcludes ==
    ASSUME CodecInv, verdict = "reading", NEW outcome, Concludes(outcome),
           \/ outcome = "accepted" /\ unread = <<>> /\ offset = Len(message)
           \/ /\ outcome \in {"framing", "unsupported_message"}
              /\ \A v : ~ Spells(Spelling(Unseen, v), unread)
    PROVE  CodecInv'
  <1>1. /\ message' = message /\ intended' = intended /\ verdict' = outcome
        /\ offset' = offset /\ values' = values /\ unread' = unread
    BY DEF Concludes
  <1>2. Legible
    BY DEF CodecInv
  <1>3. Legible' <=> Legible
    BY <1>1 DEF Legible, Spells, AllSpellings, Unseen, Piece
  <1>4. Illegible' <=> Illegible
    BY <1>1 DEF Illegible, Spells, AllSpellings
  <1>5. CodecTypeOK'
    BY <1>1 DEF CodecInv, CodecTypeOK
  <1>6. ASSUME outcome \in {"framing", "unsupported_message"} PROVE Illegible
    <2>1. \A v : ~ Spells(Spelling(Unseen, v), unread)
      BY <1>6
    <2>2. QED
      BY <1>2, <2>1 DEF Legible, Illegible
  <1>7. QED
    BY <1>1, <1>2, <1>3, <1>4, <1>5, <1>6 DEF CodecInv

-----------------------------------------------------------------------------
(* Each kind of field.                                                      *)

ReadingField == CodecInv /\ verdict = "reading" /\ unread # <<>>

LEMMA FieldAtHand ==
    ASSUME ReadingField
    PROVE  /\ ReaderTypes /\ message \in Seq(Digit) /\ offset \in 0 .. Len(message)
           /\ Field \in AllFields /\ Left \in Nat
  <1>1. ReaderTypes /\ unread \in Seq(AllFields) /\ unread # <<>>
    BY CodecInvTypes DEF ReadingField, ReaderTypes
  <1>2. QED
    BY <1>1, HeadAndTail, RestIs DEF ReaderTypes, Field

LEMMA OctetIsFound ==
    ASSUME message \in Seq(Digit), offset \in 0 .. Len(message), NEW below \in 1 .. Radix
    PROVE  /\ HasOctet(below) => /\ 1 \in 1 .. Left /\ <<First>> \in Seq(Int)
                                 /\ Taken(1, <<First>>) \in Octets(below)
           /\ \A token \in Octets(below) :
                 Occurs(offset, token.octets) => HasOctet(below) /\ token = Taken(1, <<First>>)
  <1>1. Left \in Nat /\ (Left >= 1 => First \in Digit /\ First \in Nat) /\ below \in Nat
    BY OctetsLeft, Radixes
  <1>2. ASSUME HasOctet(below)
        PROVE  /\ 1 \in 1 .. Left /\ <<First>> \in Seq(Int)
               /\ Taken(1, <<First>>) \in Octets(below)
    <2>1. Left >= 1 /\ First < below
      BY <1>2 DEF HasOctet
    <2>2. First \in 0 .. below - 1
      BY <1>1, <2>1
    <2>3. Taken(1, <<First>>) = Spelling(<<First>>, <<First>>)
      BY <2>1, TakesOne DEF Taken
    <2>4. <<First>> \in Seq(Int)
      BY <2>2
    <2>5. QED
      BY <1>1, <2>1, <2>2, <2>3, <2>4 DEF Octets
  <1>3. ASSUME NEW token \in Octets(below), Occurs(offset, token.octets)
        PROVE  HasOctet(below) /\ token = Taken(1, <<First>>)
    <2>1. PICK d \in 0 .. below - 1 : token = Spelling(<<d>>, <<d>>)
      BY DEF Octets
    <2>2. token.octets = <<d>>
      BY <2>1, SpellingIs
    <2>3. Left >= 1 /\ First = d
      BY <1>3, <2>2, OneOctet
    <2>4. Piece(offset, offset + 1) = <<d>>
      BY <2>3, TakesOne
    <2>5. d < below
      BY <1>1
    <2>6. QED
      BY <2>1, <2>3, <2>4, <2>5 DEF HasOctet, Taken
  <1>4. QED
    BY <1>2, <1>3

LEMMA NumberIsFound ==
    ASSUME message \in Seq(Digit), offset \in 0 .. Len(message),
           NEW tags \in 1 .. 3, NEW maximum
    PROVE  /\ HasNumber(tags, maximum) =>
                 /\ NumberSize \in 1 .. Left /\ <<Number>> \in Seq(Int) /\ Number \in Nat
                 /\ Number <= maximum
                 /\ Taken(NumberSize, <<Number>>) \in Numbers(tags, maximum)
           /\ \A token \in Numbers(tags, maximum) :
                 Occurs(offset, token.octets) =>
                    HasNumber(tags, maximum) /\ token = Taken(NumberSize, <<Number>>)
  <1>1. ASSUME HasNumber(tags, maximum)
        PROVE  /\ NumberSize \in 1 .. Left /\ <<Number>> \in Seq(Int) /\ Number \in Nat
               /\ Number <= maximum
               /\ Taken(NumberSize, <<Number>>) \in Numbers(tags, maximum)
    <2>1. /\ NumberSize \in 1 .. Left /\ Number \in Nat /\ Number <= maximum
          /\ Taken(NumberSize, <<Number>>) \in Numbers(tags, maximum)
      BY <1>1, NumberIsSpelled
    <2>2. <<Number>> \in Seq(Int)
      BY <2>1
    <2>3. QED
      BY <2>1, <2>2
  <1>2. QED
    BY <1>1, NumberIsRead

LEMMA TakenIs ==
    ASSUME NEW n, NEW yields
    PROVE  Taken(n, yields).read = yields /\ Taken(n, yields).octets = Piece(offset, offset + n)
  BY SpellingIs DEF Taken

\* byte and bool; the presence flag of an optional field.
LEMMA StepByte ==
    ASSUME CodecInv, ReadByte
    PROVE  CodecInv'
  <1>1. /\ ReadingField /\ Field.kind = "octet" /\ HasOctet(Field.below)
        /\ TakesOctets(1, <<First>>, <<>>)
    BY DEF ReadByte, HasByte, Reading, ReadingField
  <1>2. Field.below \in 1 .. Radix
    BY <1>1, FieldAtHand, FieldIs
  <1>3. /\ 1 \in 1 .. Left /\ <<First>> \in Seq(Int)
        /\ Taken(1, <<First>>) \in Octets(Field.below)
        /\ \A token \in Octets(Field.below) :
                 Occurs(offset, token.octets) => token = Taken(1, <<First>>)
    BY <1>1, <1>2, FieldAtHand, OctetIsFound
  <1>4. Found(1, <<First>>)
    BY <1>1, <1>3 DEF Found, IsToken
  <1>5. <<>> = Within(Field, <<First>>)
    BY <1>1 DEF Within
  <1>6. QED
    BY <1>1, <1>3, <1>4, <1>5, StepTakes DEF ReadingField

LEMMA StepOptional ==
    ASSUME CodecInv, ReadOptional
    PROVE  CodecInv'
  <1> DEFINE fields == IF First = 1 THEN Field.fields ELSE <<>>
  <1>1. /\ ReadingField /\ Field.kind = "optional" /\ HasOctet(2)
        /\ TakesOctets(1, <<First>>, fields)
    BY DEF ReadOptional, HasOptional, Reading, ReadingField
  <1>2. 2 \in 1 .. Radix
    BY Radixes
  <1>3. /\ 1 \in 1 .. Left /\ <<First>> \in Seq(Int)
        /\ Taken(1, <<First>>) \in Octets(2)
        /\ \A token \in Octets(2) :
                 Occurs(offset, token.octets) => token = Taken(1, <<First>>)
    BY <1>1, <1>2, FieldAtHand, OctetIsFound
  <1>4. Found(1, <<First>>)
    BY <1>1, <1>3 DEF Found, IsToken
  <1>5. fields = Within(Field, <<First>>)
    BY <1>1 DEF Within
  <1> HIDE DEF fields
  <1>6. QED
    BY <1>1, <1>3, <1>4, <1>5, StepTakes DEF ReadingField

\* uint, u16, u32 and uint64.
LEMMA StepUnsigned ==
    ASSUME CodecInv, ReadUnsigned
    PROVE  CodecInv'
  <1>1. /\ ReadingField /\ Field.kind = "number" /\ HasNumber(Field.tags, Field.maximum)
        /\ TakesOctets(NumberSize, <<Number>>, <<>>)
    BY DEF ReadUnsigned, HasUnsigned, Reading, ReadingField
  <1>2. Field.tags \in 1 .. 3
    BY <1>1, FieldAtHand, FieldIs
  <1>3. /\ NumberSize \in 1 .. Left /\ <<Number>> \in Seq(Int)
        /\ Taken(NumberSize, <<Number>>) \in Numbers(Field.tags, Field.maximum)
        /\ \A token \in Numbers(Field.tags, Field.maximum) :
                 Occurs(offset, token.octets) => token = Taken(NumberSize, <<Number>>)
    BY <1>1, <1>2, FieldAtHand, NumberIsFound
  <1>4. Found(NumberSize, <<Number>>)
    BY <1>1, <1>3 DEF Found, IsToken
  <1>5. <<>> = Within(Field, <<Number>>)
    BY <1>1 DEF Within
  <1>6. QED
    BY <1>1, <1>3, <1>4, <1>5, StepTakes DEF ReadingField

\* i32.
LEMMA StepSigned ==
    ASSUME CodecInv, ReadSigned
    PROVE  CodecInv'
  <1>1. /\ ReadingField /\ Field.kind = "signed" /\ HasNumber(2, Most(2))
        /\ TakesOctets(NumberSize, <<Signed(Number)>>, <<>>)
    BY DEF ReadSigned, HasSigned, Reading, ReadingField, Signed
  <1>2. 2 \in 1 .. 3
    OBVIOUS
  <1>3. /\ NumberSize \in 1 .. Left /\ Number \in Nat
        /\ Taken(NumberSize, <<Number>>) \in Numbers(2, Most(2))
        /\ \A token \in Numbers(2, Most(2)) :
                 Occurs(offset, token.octets) => token = Taken(NumberSize, <<Number>>)
    BY <1>1, <1>2, FieldAtHand, NumberIsFound
  <1>4. <<Signed(Number)>> \in Seq(Int)
    <2>1. Signed(Number) \in Int
      BY <1>3, SignedIsInteger
    <2>2. QED
      BY <2>1
  <1>5. Zigzag(Taken(NumberSize, <<Number>>)) = Taken(NumberSize, <<Signed(Number)>>)
    <2> DEFINE t == Taken(NumberSize, <<Number>>)
    <2>1. t.read = <<Number>> /\ t.octets = Piece(offset, offset + NumberSize)
      BY TakenIs
    <2>2. t.read[1] = Number
      BY <2>1
    <2> HIDE DEF t
    <2>3. Zigzag(t) = Spelling(t.octets, <<Signed(Number)>>)
      BY <1>3, <2>2, ZigzagIs
    <2>4. QED
      BY <2>1, <2>3 DEF t, Taken
  <1>6. Found(NumberSize, <<Signed(Number)>>)
    <2>1. IsToken(Field, Taken(NumberSize, <<Signed(Number)>>))
      BY <1>1, <1>3, <1>5 DEF IsToken
    <2>2. ASSUME NEW token, IsToken(Field, token), Occurs(offset, token.octets)
          PROVE  token = Taken(NumberSize, <<Signed(Number)>>)
      <3>1. PICK t \in Numbers(2, Most(2)) : token = Zigzag(t)
        BY <1>1, <2>2 DEF IsToken
      <3>2. token.octets = t.octets
        BY <3>1, ZigzagTypes
      <3>3. t = Taken(NumberSize, <<Number>>)
        BY <1>3, <2>2, <3>2
      <3>4. QED
        BY <1>5, <3>1, <3>3
    <2>3. QED
      BY <2>1, <2>2 DEF Found
  <1>7. <<>> = Within(Field, <<Signed(Number)>>)
    BY <1>1 DEF Within
  <1>8. QED
    BY <1>1, <1>3, <1>4, <1>6, <1>7, StepTakes DEF ReadingField

\* choice, and the message itself.
LEMMA StepChoice ==
    ASSUME CodecInv, ReadChoice
    PROVE  CodecInv'
  <1>1. /\ ReadingField /\ Field.kind = "choice" /\ HasNumber(2, Most(2))
        /\ Number \in DOMAIN Field.of
        /\ TakesOctets(NumberSize, <<Number>>, Field.of[Number])
    BY DEF ReadChoice, HasChoice, HasTag, Reading, ReadingField
  <1>2. 2 \in 1 .. 3
    OBVIOUS
  <1>3. /\ NumberSize \in 1 .. Left /\ <<Number>> \in Seq(Int)
        /\ Taken(NumberSize, <<Number>>) \in Numbers(2, Most(2))
        /\ \A token \in Numbers(2, Most(2)) :
                 Occurs(offset, token.octets) => token = Taken(NumberSize, <<Number>>)
    BY <1>1, <1>2, FieldAtHand, NumberIsFound
  <1>4. Taken(NumberSize, <<Number>>).read[1] = Number
    <2>1. Taken(NumberSize, <<Number>>).read = <<Number>>
      BY TakenIs
    <2>2. QED
      BY <2>1
  <1>5. Found(NumberSize, <<Number>>)
    BY <1>1, <1>3, <1>4 DEF Found, IsToken
  <1>6. Field.of[Number] = Within(Field, <<Number>>)
    BY <1>1 DEF Within
  <1>7. QED
    BY <1>1, <1>3, <1>5, <1>6, StepTakes DEF ReadingField

\* array: its count, then its elements.
LEMMA StepArray ==
    ASSUME CodecInv, ReadArray
    PROVE  CodecInv'
  <1>1. /\ ReadingField /\ Field.kind = "array" /\ HasNumber(3, Elements)
        /\ TakesOctets(NumberSize, <<Number>>, Repeated(Field.fields, Number))
    BY DEF ReadArray, HasArray, Reading, ReadingField
  <1>2. 3 \in 1 .. 3
    OBVIOUS
  <1>3. Left \in Nat /\ ManyElements \in Nat
    BY <1>1, FieldAtHand, CodecAssumption
  <1>4. Elements <= ManyElements
    BY <1>3 DEF Elements
  <1>5. HasNumber(3, ManyElements)
    <2>1. Number \in Nat /\ Number <= Elements /\ Elements \in Nat
      BY <1>1, <1>2, <1>3, FieldAtHand, NumberIsFound DEF Elements
    <2>2. Number <= ManyElements
      BY <1>3, <1>4, <2>1
    <2>3. QED
      BY <1>1, <2>2 DEF HasNumber
  <1>6. /\ NumberSize \in 1 .. Left /\ <<Number>> \in Seq(Int)
        /\ Taken(NumberSize, <<Number>>) \in Numbers(3, ManyElements)
        /\ \A token \in Numbers(3, ManyElements) :
                 Occurs(offset, token.octets) => token = Taken(NumberSize, <<Number>>)
    BY <1>1, <1>2, <1>5, FieldAtHand, NumberIsFound
  <1>7. Found(NumberSize, <<Number>>)
    BY <1>1, <1>6 DEF Found, IsToken
  <1>8. Repeated(Field.fields, Number) = Within(Field, <<Number>>)
    BY <1>1 DEF Within
  <1>9. QED
    BY <1>1, <1>6, <1>7, <1>8, StepTakes DEF ReadingField

\* data and text.
LEMMA DataIsRead ==
    ASSUME ReadingField, Field.kind = "data",
           NEW token, IsToken(Field, token), Occurs(offset, token.octets)
    PROVE  HasData /\ token = Taken(NumberSize + Number, Counted(Kept(Field, Contents)))
  <1>1. PICK count \in Numbers(3, MaxMessage), contents \in Seq(Digit) :
             /\ Len(contents) = count.read[1]
             /\ Field.text => contents \in Utf8
             /\ token = DataToken(Field, count, contents)
    BY DEF IsToken, IsData
  <1>2. /\ count \in AllSpellings /\ Len(count.octets) \in Nat
        /\ token \in AllSpellings /\ token.octets = count.octets \o contents
        /\ token.read = Counted(Kept(Field, contents)) /\ count.read[1] \in Nat
    BY <1>1, DataTypes
  <1>3. /\ message \in Seq(Digit) /\ offset \in 0 .. Len(message) /\ offset \in Nat
        /\ Len(message) \in Nat /\ Left = Len(message) - offset /\ Left \in Nat
    BY FieldAtHand, RestIs
  <1>4. count.octets \in Seq(Digit)
    BY <1>2, SpellingOf
  <1>5. Occurs(offset, count.octets) /\ Occurs(offset + Len(count.octets), contents)
    <2>1. Occurs(offset, count.octets \o contents)
      BY <1>2
    <2>2. QED
      BY <1>1, <1>3, <1>4, <2>1, OccursBoth
  <1>6. 3 \in 1 .. 3
    OBVIOUS
  <1>7. HasNumber(3, MaxMessage) /\ count = Taken(NumberSize, <<Number>>)
    BY <1>3, <1>5, <1>6, NumberIsFound
  <1>8. NumberSize \in 1 .. Left /\ Number \in Nat
    BY <1>3, <1>6, <1>7, NumberIsFound
  <1>9. count.read = <<Number>> /\ count.octets = Piece(offset, offset + NumberSize)
    BY <1>7, TakenIs
  <1>10. Len(count.octets) = NumberSize
    <2> DEFINE j == offset + NumberSize
    <2>1. j \in Nat /\ offset <= j /\ j <= Len(message) /\ j - offset = NumberSize
      BY <1>3, <1>8
    <2> HIDE DEF j
    <2>2. Len(Piece(offset, j)) = NumberSize
      BY <1>3, <2>1, PieceIs
    <2>3. QED
      BY <1>9, <2>2 DEF j
  <1>11. Len(contents) = Number
    BY <1>1, <1>9
  <1> DEFINE i == offset + NumberSize
  <1>12. i \in Nat /\ Occurs(i, contents) /\ i + Number <= Len(message)
    BY <1>3, <1>5, <1>8, <1>10, <1>11 DEF Occurs
  <1>13. contents = Piece(i, i + Number)
    <2> HIDE DEF i
    <2>1. QED
      BY <1>3, <1>11, <1>12, OccursIsPiece
  <1>14. contents = Contents
    BY <1>13 DEF Contents, Piece
  <1>15. Number <= Left - NumberSize
    BY <1>3, <1>8, <1>12
  <1>16. HasData
    BY <1>1, <1>7, <1>14, <1>15 DEF HasData, Reading, ReadingField
  <1>17. token.read = Counted(Kept(Field, Contents))
    BY <1>2, <1>14
  <1>18. Len(token.octets) = NumberSize + Number /\ token.octets \in Seq(Digit)
    BY <1>2, <1>4, <1>10, <1>11, ConcatProperties
  <1>19. token.octets = Piece(offset, offset + (NumberSize + Number))
    BY <1>3, <1>18, OccursIsPiece
  <1>20. token = Spelling(token.octets, token.read)
    BY <1>2, SpellingOf
  <1>21. QED
    BY <1>16, <1>17, <1>19, <1>20 DEF Taken

LEMMA DataIsSpelled ==
    ASSUME ReadingField, Field.kind = "data", HasData
    PROVE  /\ NumberSize + Number \in 1 .. Left
           /\ Counted(Kept(Field, Contents)) \in Seq(Int)
           /\ IsToken(Field, Taken(NumberSize + Number, Counted(Kept(Field, Contents))))
  <1>1. /\ HasNumber(3, MaxMessage) /\ Number <= Left - NumberSize
        /\ Field.text => Contents \in Utf8
    BY DEF HasData
  <1>2. /\ message \in Seq(Digit) /\ offset \in 0 .. Len(message) /\ offset \in Nat
        /\ Len(message) \in Nat /\ Left = Len(message) - offset /\ Left \in Nat
    BY FieldAtHand, RestIs
  <1>3. 3 \in 1 .. 3
    OBVIOUS
  <1> DEFINE count == Taken(NumberSize, <<Number>>)
             i == offset + NumberSize
             j == i + Number
             front == Piece(offset, i)
  <1>4. /\ NumberSize \in 1 .. Left /\ Number \in Nat /\ <<Number>> \in Seq(Int)
        /\ count \in Numbers(3, MaxMessage)
    BY <1>1, <1>2, <1>3, NumberIsFound
  <1>5. /\ i \in Nat /\ j \in Nat /\ i <= j /\ j <= Len(message) /\ j - i = Number
        /\ offset <= i /\ i <= Len(message) /\ i - offset = NumberSize
        /\ NumberSize + Number \in 1 .. Left /\ offset + (NumberSize + Number) = j
    BY <1>1, <1>2, <1>4
  <1>6. count.read = <<Number>> /\ count.octets = front /\ count.read[1] = Number
    <2>1. count.read = <<Number>> /\ count.octets = front
      BY TakenIs
    <2>2. QED
      BY <2>1
  <1>7. Contents = Piece(i, j)
    BY DEF Contents, Piece
  <1> HIDE DEF count, i, j, front
  <1>8. Contents \in Seq(Digit) /\ Len(Contents) = Number /\ Occurs(i, Contents)
    BY <1>2, <1>5, <1>7, PieceIs
  <1>9. front \in Seq(Digit) /\ Len(front) = NumberSize /\ Occurs(offset, front)
    BY <1>2, <1>5, PieceIs DEF front
  <1>10. offset + Len(front) = i
    BY <1>9 DEF i
  <1>11. Occurs(offset, front \o Contents)
    BY <1>2, <1>8, <1>9, <1>10, OccursBoth
  <1> DEFINE both == front \o Contents
  <1>12. both \in Seq(Digit) /\ Len(both) = NumberSize + Number
    BY <1>8, <1>9, ConcatProperties
  <1>13. both = Piece(offset, offset + (NumberSize + Number))
    <2>1. Occurs(offset, both)
      BY <1>11
    <2> HIDE DEF both
    <2>2. both = Piece(offset, offset + Len(both))
      BY <1>2, <1>12, <2>1, OccursIsPiece
    <2>3. QED
      BY <1>12, <2>2
  <1> DEFINE token == DataToken(Field, count, Contents)
  <1>14. /\ token \in AllSpellings
         /\ token.octets = both
         /\ token.read = Counted(Kept(Field, Contents))
    BY <1>4, <1>6, <1>8, DataTypes
  <1>15. IsData(Field, token)
    BY <1>1, <1>4, <1>6, <1>8 DEF IsData
  <1> HIDE DEF token, both
  <1>16. token = Taken(NumberSize + Number, Counted(Kept(Field, Contents)))
    BY <1>13, <1>14, SpellingOf DEF Taken
  <1>17. IsToken(Field, token)
    BY <1>15 DEF IsToken
  <1>18. token.read \in Seq(Int)
    BY <1>14, SpellingOf
  <1>19. QED
    BY <1>5, <1>14, <1>16, <1>17, <1>18

LEMMA StepData ==
    ASSUME CodecInv, ReadData
    PROVE  CodecInv'
  <1> DEFINE n == NumberSize + Number
             yields == Counted(Kept(Field, Contents))
  <1>1. ReadingField /\ Field.kind = "data" /\ HasData /\ TakesOctets(n, yields, <<>>)
    BY DEF ReadData, HasData, Reading, ReadingField
  <1>2. n \in 1 .. Left /\ yields \in Seq(Int) /\ IsToken(Field, Taken(n, yields))
    BY <1>1, DataIsSpelled
  <1>3. \A token : IsToken(Field, token) /\ Occurs(offset, token.octets) => token = Taken(n, yields)
    BY <1>1, DataIsRead
  <1> HIDE DEF n, yields
  <1>4. Found(n, yields)
    BY <1>2, <1>3 DEF Found
  <1>5. <<>> = Within(Field, yields)
    BY <1>1 DEF Within
  <1>6. QED
    BY <1>1, <1>2, <1>4, <1>5, StepTakes DEF ReadingField

\* An array that the rest of the payload holds is within the limit of its count.
LEMMA ArrayIsRead ==
    ASSUME ReadingField, Field.kind = "array",
           NEW token, IsToken(Field, token), Occurs(offset, token.octets),
           NEW u, Spells(u, Within(Field, token.read) \o Tail(unread)),
           u.octets = Piece(offset + Len(token.octets), Len(message))
    PROVE  HasArray
  <1>1. /\ message \in Seq(Digit) /\ offset \in 0 .. Len(message) /\ offset \in Nat
        /\ Len(message) \in Nat /\ Left = Len(message) - offset /\ Left \in Nat
        /\ Field \in AllFields
    BY FieldAtHand, RestIs
  <1>2. 3 \in 1 .. 3 /\ ManyElements \in Nat
    BY CodecAssumption
  <1>3. token \in Numbers(3, ManyElements)
    BY DEF IsToken
  <1>4. HasNumber(3, ManyElements) /\ token = Taken(NumberSize, <<Number>>)
    BY <1>1, <1>2, <1>3, NumberIsFound
  <1>5. NumberSize \in 1 .. Left /\ Number \in Nat /\ Number <= ManyElements
    BY <1>1, <1>2, <1>4, NumberIsFound
  <1>6. token.read[1] = Number
    <2>1. token.read = <<Number>>
      BY <1>4, TakenIs
    <2>2. QED
      BY <2>1
  <1>7. Field.fields \in Seq(Fields) /\ Field.fields # <<>>
    BY <1>1, FieldIs
  <1> DEFINE inner == Repeated(Field.fields, Number)
             all == inner \o Tail(unread)
  <1>8. Within(Field, token.read) = inner
    BY <1>6 DEF Within
  <1>9. inner \in Seq(Fields) /\ Len(inner) >= Number
    BY <1>5, <1>7, RepeatedIs
  <1>10. inner \in Seq(AllFields) /\ Tail(unread) \in Seq(AllFields)
    <2>1. Fields \subseteq AllFields
      BY DEF AllFields
    <2>2. unread \in Seq(AllFields) /\ unread # <<>>
      BY DEF ReadingField, CodecInv
    <2>3. QED
      BY <1>9, <2>1, <2>2, SeqMonotonic, HeadAndTail
  <1> HIDE DEF inner
  <1>11. all \in Seq(AllFields) /\ Len(all) = Len(inner) + Len(Tail(unread))
         /\ Len(inner) \in Nat /\ Len(Tail(unread)) \in Nat
    BY <1>10, ConcatProperties, LenProperties
  <1>12. Spells(u, all)
    BY <1>8
  <1> HIDE DEF all
  <1>13. Len(all) <= Len(u.octets)
    BY <1>11, <1>12, SpellsLength
  <1>14. Len(u.octets) <= Left /\ Len(u.octets) \in Nat
    <2> DEFINE i == offset + Len(token.octets)
               L == Len(message)
    <2>1. Len(token.octets) \in Nat
      BY <1>1, TokenTypes
    <2>2. i \in Nat /\ i <= L /\ L \in Nat /\ L <= Len(message)
      BY <1>1, <2>1 DEF Occurs
    <2>3. L - i <= Left /\ L - i \in Nat
      BY <1>1, <2>1, <2>2
    <2> HIDE DEF i, L
    <2>4. Len(Piece(i, L)) = L - i
      BY <1>1, <2>2, PieceIs
    <2>5. u.octets = Piece(i, L)
      BY DEF i, L
    <2>6. QED
      BY <2>3, <2>4, <2>5
  <1>15. Number <= Left
    <2> DEFINE i == Len(inner)
               j == Len(Tail(unread))
               k == Len(all)
               l == Len(u.octets)
    <2>1. i \in Nat /\ j \in Nat /\ i >= Number /\ k = i + j /\ k <= l /\ l \in Nat /\ l <= Left
      BY <1>9, <1>11, <1>13, <1>14
    <2> HIDE DEF i, j, k, l
    <2>2. QED
      BY <1>1, <1>5, <2>1
  <1>16. Number <= Elements
    BY <1>5, <1>15 DEF Elements
  <1>17. HasNumber(3, Elements)
    BY <1>4, <1>16 DEF HasNumber
  <1>18. QED
    BY <1>17 DEF HasArray, Reading, ReadingField

\* Nothing that could be read is refused.
LEMMA StepRefused ==
    ASSUME CodecInv, FieldRefused
    PROVE  CodecInv'
  <1>1. ReadingField /\ ~ Readable /\ Concludes("framing")
    BY DEF FieldRefused, ReadingField
  <1>2. /\ message \in Seq(Digit) /\ offset \in 0 .. Len(message) /\ ReaderTypes
        /\ Field \in AllFields /\ unread # <<>>
    BY <1>1, FieldAtHand DEF ReadingField
  <1>3. ASSUME NEW v, Spells(Spelling(Unseen, v), unread) PROVE FALSE
    <2>1. PICK token, u \in AllSpellings :
                     /\ IsToken(Field, token) /\ Occurs(offset, token.octets)
                     /\ Spells(u, Within(Field, token.read) \o Tail(unread))
                     /\ u.octets = Piece(offset + Len(token.octets), Len(message))
                     /\ v = token.read \o u.read
      BY <1>2, <1>3, RestSpelled
    <2>2. /\ 1 \in 1 .. 3 /\ 2 \in 1 .. 3 /\ 3 \in 1 .. 3 /\ 2 \in 1 .. Radix
      BY Radixes
    <2>3. CASE Field.kind = "octet"
      <3>1. token \in Octets(Field.below) /\ Field.below \in 1 .. Radix
        BY <1>2, <2>1, <2>3, FieldIs DEF IsToken
      <3>2. HasOctet(Field.below)
        BY <1>2, <2>1, <3>1, OctetIsFound
      <3>3. QED
        BY <1>1, <2>3, <3>2 DEF Readable, HasByte, Reading, ReadingField
    <2>4. CASE Field.kind = "number"
      <3>1. token \in Numbers(Field.tags, Field.maximum) /\ Field.tags \in 1 .. 3
        BY <1>2, <2>1, <2>4, FieldIs DEF IsToken
      <3>2. HasNumber(Field.tags, Field.maximum)
        BY <1>2, <2>1, <3>1, NumberIsFound
      <3>3. QED
        BY <1>1, <2>4, <3>2 DEF Readable, HasUnsigned, Reading, ReadingField
    <2>5. CASE Field.kind = "signed"
      <3>1. PICK t \in Numbers(2, Most(2)) : token = Zigzag(t)
        BY <2>1, <2>5 DEF IsToken
      <3>2. token.octets = t.octets
        BY <3>1, ZigzagTypes
      <3>3. HasNumber(2, Most(2))
        BY <1>2, <2>1, <2>2, <3>2, NumberIsFound
      <3>4. QED
        BY <1>1, <2>5, <3>3 DEF Readable, HasSigned, Reading, ReadingField
    <2>6. CASE Field.kind = "data"
      <3>1. HasData
        BY <1>1, <2>1, <2>6, DataIsRead
      <3>2. QED
        BY <1>1, <3>1 DEF Readable
    <2>7. CASE Field.kind = "optional"
      <3>1. token \in Octets(2)
        BY <2>1, <2>7 DEF IsToken
      <3>2. HasOctet(2)
        BY <1>2, <2>1, <2>2, <3>1, OctetIsFound
      <3>3. QED
        BY <1>1, <2>7, <3>2 DEF Readable, HasOptional, Reading, ReadingField
    <2>8. CASE Field.kind = "array"
      <3>1. HasArray
        BY <1>1, <2>1, <2>8, ArrayIsRead
      <3>2. QED
        BY <1>1, <3>1 DEF Readable
    <2>9. CASE Field.kind = "choice"
      <3>1. token \in Numbers(2, Most(2))
        BY <2>1, <2>9 DEF IsToken
      <3>2. HasNumber(2, Most(2))
        BY <1>2, <2>1, <2>2, <3>1, NumberIsFound
      <3>3. QED
        BY <1>1, <2>9, <3>2 DEF Readable, HasTag, Reading, ReadingField
    <2>10. QED
      BY <1>2, <2>3, <2>4, <2>5, <2>6, <2>7, <2>8, <2>9, FieldIs DEF Kinds
  <1>4. QED
    BY <1>1, <1>3, StepConcludes DEF ReadingField

\* Nothing that is not among the choices is a message.
LEMMA StepNotChosen ==
    ASSUME CodecInv, NotChosen
    PROVE  CodecInv'
  <1>1. /\ ReadingField /\ Field.kind = "choice" /\ HasNumber(2, Most(2))
        /\ Number \notin DOMAIN Field.of /\ Concludes(Field.otherwise)
    BY DEF NotChosen, HasChoice, HasTag, Reading, ReadingField
  <1>2. /\ message \in Seq(Digit) /\ offset \in 0 .. Len(message) /\ ReaderTypes
        /\ Field \in AllFields /\ unread # <<>>
    BY <1>1, FieldAtHand DEF ReadingField
  <1>3. Field.otherwise \in {"framing", "unsupported_message"}
    BY <1>1, <1>2, FieldIs
  <1>4. ASSUME NEW v, Spells(Spelling(Unseen, v), unread) PROVE FALSE
    <2>1. PICK token, u \in AllSpellings :
                     /\ IsToken(Field, token) /\ Occurs(offset, token.octets)
                     /\ Spells(u, Within(Field, token.read) \o Tail(unread))
                     /\ u.octets = Piece(offset + Len(token.octets), Len(message))
                     /\ v = token.read \o u.read
      BY <1>2, <1>4, RestSpelled
    <2>2. token \in Numbers(2, Most(2)) /\ token.read[1] \in DOMAIN Field.of
      BY <1>1, <2>1 DEF IsToken
    <2>3. 2 \in 1 .. 3
      OBVIOUS
    <2>4. token = Taken(NumberSize, <<Number>>)
      BY <1>2, <2>1, <2>2, <2>3, NumberIsFound
    <2>5. token.read = <<Number>>
      BY <2>4, TakenIs
    <2>6. token.read[1] = Number
      BY <2>5
    <2>7. QED
      BY <1>1, <2>2, <2>6
  <1> DEFINE outcome == Field.otherwise
  <1>5. Concludes(outcome) /\ outcome \in {"framing", "unsupported_message"}
    BY <1>1, <1>3
  <1> HIDE DEF outcome
  <1>6. QED
    BY <1>1, <1>4, <1>5, StepConcludes DEF ReadingField

LEMMA StepFinish ==
    ASSUME CodecInv, Finish
    PROVE  CodecInv'
  <1>1. /\ verdict = "reading" /\ unread = <<>>
        /\ Concludes(IF Exhausted THEN "accepted" ELSE "framing")
    BY DEF Finish
  <1>2. CASE Exhausted
    <2>1. offset = Len(message) /\ Concludes("accepted")
      BY <1>1, <1>2 DEF Exhausted
    <2>2. QED
      BY <1>1, <2>1, StepConcludes
  <1>3. CASE ~ Exhausted
    <2>1. offset # Len(message) /\ Concludes("framing")
      BY <1>1, <1>3 DEF Exhausted
    <2>2. ReaderTypes
      BY CodecInvTypes
    <2>3. Len(Unseen) # 0
      BY <2>1, <2>2, RestIs
    <2>4. ASSUME NEW v, Spells(Spelling(Unseen, v), unread) PROVE FALSE
      <3>1. Spelling(Unseen, v) = Nothing
        BY <1>1, <2>4, SpellsNothing
      <3>2. Spelling(Unseen, v).octets = Unseen
        BY SpellingIs
      <3>3. Len(Unseen) = 0
        BY <3>1, <3>2, NothingIs
      <3>4. QED
        BY <2>3, <3>3
    <2>5. QED
      BY <1>1, <2>1, <2>4, StepConcludes
  <1>4. QED
    BY <1>2, <1>3

LEMMA CodecStutters ==
    ASSUME CodecInv, UNCHANGED codecVars
    PROVE  CodecInv'
  <1>1. /\ message' = message /\ intended' = intended /\ verdict' = verdict
        /\ offset' = offset /\ values' = values /\ unread' = unread
    BY DEF codecVars
  <1>2. Legible' <=> Legible
    BY <1>1 DEF Legible, Spells, AllSpellings, Unseen, Piece
  <1>3. Illegible' <=> Illegible
    BY <1>1 DEF Illegible, Spells, AllSpellings
  <1>4. CodecTypeOK'
    BY <1>1 DEF CodecInv, CodecTypeOK
  <1>5. QED
    BY <1>1, <1>2, <1>3, <1>4 DEF CodecInv

LEMMA CodecStep ==
    ASSUME CodecInv, [CodecNext]_codecVars
    PROVE  CodecInv'
  <1>1. CASE UNCHANGED codecVars
    BY <1>1, CodecStutters
  <1>2. CASE CodecNext
    <2>1. CASE ReadByte
      BY <2>1, StepByte
    <2>2. CASE ReadUnsigned
      BY <2>2, StepUnsigned
    <2>3. CASE ReadSigned
      BY <2>3, StepSigned
    <2>4. CASE ReadData
      BY <2>4, StepData
    <2>5. CASE ReadOptional
      BY <2>5, StepOptional
    <2>6. CASE ReadArray
      BY <2>6, StepArray
    <2>7. CASE ReadChoice
      BY <2>7, StepChoice
    <2>8. CASE NotChosen
      BY <2>8, StepNotChosen
    <2>9. CASE FieldRefused
      BY <2>9, StepRefused
    <2>10. CASE Finish
      BY <2>10, StepFinish
    <2>11. QED
      BY <1>2, <2>1, <2>2, <2>3, <2>4, <2>5, <2>6, <2>7, <2>8, <2>9, <2>10 DEF CodecNext
  <1>3. QED
    BY <1>1, <1>2

-----------------------------------------------------------------------------
(* What the client encodes is spelled.                                      *)

LEMMA Limits ==
    /\ ManyElements \in Nat /\ ManyElements <= Most(3)
    /\ MaxMessage \in Nat /\ MaxMessage <= Most(3)
  <1>1. Most(3) \in Nat /\ Most(3) = Power[Widths[3]] - 1
    BY Mosts
  <1>2. QED
    BY <1>1, CodecAssumption

\* What encodeUnsigned writes is one of the spellings that uint64 admits, and it stands
\* for the number that was written, at the ends of every width too.
THEOREM EncodedNumbersAreRead ==
    ASSUME NEW tags \in 1 .. 3, NEW maximum, NEW n \in Nat, n <= maximum, n <= Most(tags)
    PROVE  Spelling(Unsigned(n), <<n>>) \in Numbers(tags, maximum)
  <1> DEFINE s == Spelling(Unsigned(n), <<n>>)
  <1>1. s.octets = Unsigned(n) /\ s.read = <<n>>
    BY SpellingIs
  <1>2. s.read[1] = n
    BY <1>1
  <1>3. Single \in Nat
    BY Radixes
  <1>4. CASE n <= Single
    <2>1. s = Spelling(<<n>>, <<n>>)
      BY <1>4 DEF Unsigned
    <2>2. IsBare(s)
      BY <1>3, <1>4, <2>1 DEF IsBare
    <2> HIDE DEF s
    <2>3. s \in Numbers(tags, maximum)
      BY <1>2, <2>2, NumberIs
    <2>4. QED
      BY <2>3 DEF s
  <1>5. CASE ~ (n <= Single)
    <2> DEFINE tag == CHOOSE t \in 1 .. 3 : NeedsTag(n, t)
    <2>1. /\ Most(1) \in Nat /\ Most(2) \in Nat /\ Most(3) \in Nat
          /\ Most(1) < Most(2) /\ Most(2) < Most(3) /\ Most(tags) \in Nat
      BY Mosts
    <2>2. \E t \in 1 .. 3 : NeedsTag(n, t)
      <3>1. n <= Most(3)
        <4>1. tags = 1 \/ tags = 2 \/ tags = 3
          OBVIOUS
        <4>2. QED
          BY <2>1, <4>1
      <3>2. CASE n <= Most(1)
        BY <3>2 DEF NeedsTag
      <3>3. CASE n > Most(1) /\ n <= Most(2)
        <4>1. 2 - 1 = 1
          OBVIOUS
        <4>2. NeedsTag(n, 2)
          BY <3>3, <4>1 DEF NeedsTag
        <4>3. QED
          BY <4>2
      <3>4. CASE n > Most(2)
        <4>1. 3 - 1 = 2
          OBVIOUS
        <4>2. NeedsTag(n, 3)
          BY <3>1, <3>4, <4>1 DEF NeedsTag
        <4>3. QED
          BY <4>2
      <3>5. QED
        BY <2>1, <3>2, <3>3, <3>4
    <2>3. tag \in 1 .. 3 /\ NeedsTag(n, tag)
      BY <2>2
    <2>4. Unsigned(n) = <<Single + tag>> \o LittleEndian(n, Widths[tag])
      BY <1>5 DEF Unsigned
    <2> HIDE DEF tag
    <2>5. tag \in 1 .. tags
      <3>1. n <= Most(tag) /\ (tag > 1 => n > Most(tag - 1))
        BY <2>3 DEF NeedsTag
      <3>2. SUFFICES ASSUME tag > tags PROVE FALSE
        BY <2>3
      <3>3. (tag = 2 /\ tags = 1) \/ (tag = 3 /\ tags = 1) \/ (tag = 3 /\ tags = 2)
        BY <2>3, <3>2
      <3>4. tag > 1 /\ (tag - 1 = 1 \/ tag - 1 = 2)
        BY <3>3
      <3>5. CASE tag = 2 /\ tags = 1
        <4>1. tag - 1 = 1
          BY <3>5
        <4>2. QED
          BY <2>1, <3>1, <3>4, <3>5, <4>1
      <3>6. CASE tag = 3 /\ tags = 1
        <4>1. tag - 1 = 2
          BY <3>6
        <4>2. QED
          BY <2>1, <3>1, <3>4, <3>6, <4>1
      <3>7. CASE tag = 3 /\ tags = 2
        <4>1. tag - 1 = 2
          BY <3>7
        <4>2. QED
          BY <2>1, <3>1, <3>4, <3>7, <4>1
      <3>8. QED
        BY <3>3, <3>5, <3>6, <3>7
    <2>6. Widths[tag] \in Nat
      BY <2>3, Radixes
    <2> DEFINE w == Widths[tag]
               digits == LittleEndian(n, w)
    <2>7. n < Power[w]
      <3>1. n <= Most(tag) /\ Most(tag) = Power[w] - 1 /\ Most(tag) \in Nat
        BY <2>3, Mosts DEF NeedsTag
      <3>2. Power[w] \in Nat
        BY <2>6, PowerIsNumber
      <3> HIDE DEF w
      <3>3. QED
        BY <3>1, <3>2
    <2>8. digits \in Seq(Digit) /\ Len(digits) = w /\ FromLittleEndian(digits) = n
      <3> HIDE DEF w
      <3>1. w \in Nat
        BY <2>6 DEF w
      <3>2. QED
        BY <2>7, <3>1, LittleEndianIsRead
    <2>9. s = Spelling(<<Single + tag>> \o digits, <<n>>)
      BY <2>4
    <2>10. s = Spelling(<<Single + tag>> \o digits, <<FromLittleEndian(digits)>>)
      <3> HIDE DEF digits, s
      <3>1. QED
        BY <2>8, <2>9
    <2> HIDE DEF digits, s
    <2>11. IsBehind(s, tag)
      BY <2>8, <2>10 DEF IsBehind
    <2>12. s \in Numbers(tags, maximum)
      BY <1>2, <2>5, <2>11, NumberIs
    <2>13. QED
      BY <2>12 DEF s
  <1>6. QED
    BY <1>4, <1>5

Token(part) == Spelling(Encoded(part), Meaning(part))

\* What the characters of a text are written as, the first of them first.
LEMMA WrittenIs ==
    ASSUME NEW characters \in Seq(Characters \cup {Lone})
    PROVE  /\ Written(characters) \in Seq(Digit)
           /\ characters = <<>> => Written(characters) = <<>>
           /\ characters # <<>> =>
                 /\ Head(characters) \in Characters \cup {Lone}
                 /\ Tail(characters) \in Seq(Characters \cup {Lone})
                 /\ Written(characters)
                       = (IF Head(characters) = Lone THEN Replacement ELSE Head(characters))
                            \o Written(Tail(characters))
  <1> DEFINE all == Characters \cup {Lone}
             T == Seq(Digit)
             octets(c) == IF c = Lone THEN Replacement ELSE c
             L == Len(characters)
             mapped == [i \in DOMAIN characters |-> octets(characters[i])]
             rest == Tail(characters)
             left == [i \in DOMAIN rest |-> octets(rest[i])]
  <1>1. \A c \in all : octets(c) \in T
    BY CharactersAssumption
  <1>2. characters \in Seq(all) /\ L \in Nat /\ DOMAIN characters = 1 .. L
        /\ \A i \in 1 .. L : characters[i] \in all
    BY LenProperties, ElementOfSeq
  <1>3. Written(characters) = FlattenSeq(mapped) /\ Written(rest) = FlattenSeq(left)
    BY DEF Written
  <1> HIDE DEF all, T, octets, L
  <1>4. mapped \in Seq(T) /\ Len(mapped) = L /\ \A i \in 1 .. L : mapped[i] = octets(characters[i])
    BY <1>1, <1>2
  <1>5. FlattenSeq(mapped) \in T
    <2> HIDE DEF mapped
    <2>1. mapped \in Seq(Seq(Digit)) /\ Len(mapped) \in Nat
      BY <1>2, <1>4 DEF T
    <2>2. PICK flat \in [Nat -> Seq(Digit)] : FlattenSeq(mapped) = flat[Len(mapped)]
      BY <2>1, Flattens
    <2>3. QED
      BY <2>1, <2>2 DEF T
  <1>6. characters = <<>> => FlattenSeq(mapped) = <<>>
    <2> SUFFICES ASSUME characters = <<>> PROVE FlattenSeq(mapped) = <<>>
      OBVIOUS
    <2> HIDE DEF mapped
    <2>1. mapped \in Seq(Seq(Digit)) /\ Len(mapped) = 0
      BY <1>4 DEF T, L
    <2>2. PICK flat \in [Nat -> Seq(Digit)] : flat[0] = <<>> /\ FlattenSeq(mapped) = flat[Len(mapped)]
      BY <2>1, Flattens
    <2>3. QED
      BY <2>1, <2>2
  <1>7. ASSUME characters # <<>>
        PROVE  /\ Head(characters) \in all /\ rest \in Seq(all)
               /\ FlattenSeq(mapped) = octets(Head(characters)) \o FlattenSeq(left)
    <2>1. /\ Head(characters) \in all /\ rest \in Seq(all) /\ Len(rest) = L - 1 /\ L >= 1
          /\ characters[1] = Head(characters)
      BY <1>2, <1>7, HeadAndTail DEF L
    <2>2. \A i \in 1 .. L - 1 : rest[i] = characters[i + 1] /\ rest[i] \in all
      <3>1. \A i \in 1 .. Len(rest) : rest[i] = characters[i + 1]
        BY <1>2, <1>7, HeadTailProperties
      <3>2. \A i \in 1 .. L - 1 : i + 1 \in 1 .. L
        BY <1>2
      <3> HIDE DEF rest
      <3>3. QED
        BY <1>2, <2>1, <3>1, <3>2
    <2>3. DOMAIN rest = 1 .. L - 1
      <3> HIDE DEF rest
      <3>1. QED
        BY <2>1, LenProperties
    <2> HIDE DEF rest
    <2>4. left \in Seq(T) /\ Len(left) = L - 1 /\ \A i \in 1 .. L - 1 : left[i] = octets(rest[i])
      BY <1>1, <1>2, <2>1, <2>2, <2>3
    <2> HIDE DEF left, mapped
    <2>5. mapped # <<>>
      BY <1>4, <2>1
    <2>6. /\ Head(mapped) \in T /\ Tail(mapped) \in Seq(T) /\ Len(Tail(mapped)) = L - 1
          /\ Head(mapped) = mapped[1]
          /\ \A i \in 1 .. L - 1 : Tail(mapped)[i] = mapped[i + 1]
      <3>1. \A i \in 1 .. Len(Tail(mapped)) : Tail(mapped)[i] = mapped[i + 1]
        BY <1>4, <2>5, HeadTailProperties
      <3>2. Head(mapped) \in T /\ Tail(mapped) \in Seq(T) /\ Len(Tail(mapped)) = L - 1
        BY <1>4, <2>5, HeadAndTail
      <3>3. Head(mapped) = mapped[1]
        BY <1>4, <2>5
      <3>4. QED
        BY <3>1, <3>2, <3>3
    <2>7. Head(mapped) = octets(Head(characters))
      <3>1. 1 \in 1 .. L
        BY <1>2, <2>1
      <3>2. QED
        BY <1>4, <2>1, <2>6, <3>1
    <2>8. \A i \in 1 .. L - 1 : Tail(mapped)[i] = left[i]
      <3> TAKE i \in 1 .. L - 1
      <3>1. i + 1 \in 1 .. L
        BY <1>2
      <3>2. QED
        BY <1>4, <2>2, <2>4, <2>6, <3>1
    <2>9. Tail(mapped) = left
      <3> DEFINE tail == Tail(mapped)
      <3>1. /\ tail \in Seq(T) /\ Len(tail) = Len(left)
            /\ \A i \in 1 .. Len(tail) : tail[i] = left[i]
        BY <2>4, <2>6, <2>8
      <3> HIDE DEF tail
      <3>2. tail = left
        BY <2>4, <3>1, SeqEqual
      <3>3. QED
        BY <3>2 DEF tail
    <2>10. FlattenSeq(mapped) = Head(mapped) \o FlattenSeq(Tail(mapped))
      <3>1. mapped \in Seq(Seq(Digit))
        BY <1>4 DEF T
      <3>2. QED
        BY <2>5, <3>1, FlattensFirst
    <2>11. QED
      BY <2>1, <2>7, <2>9, <2>10
  <1> HIDE DEF mapped, left
  <1>8. QED
    BY <1>3, <1>5, <1>6, <1>7 DEF all, T, octets

\* Of two sequences that begin one, one begins the other.
LEMMA PrefixOfJoint ==
    ASSUME NEW S, NEW p \in Seq(S), NEW s \in Seq(S), NEW t \in Seq(S), IsPrefix(p, s \o t)
    PROVE  IsPrefix(p, s) \/ IsPrefix(s, p)
  <1> DEFINE u == s \o t
  <1>1. /\ Len(p) \in Nat /\ Len(s) \in Nat /\ Len(u) \in Nat /\ u \in Seq(S)
        /\ Len(s) <= Len(u)
        /\ \A i \in 1 .. Len(s) : u[i] = s[i]
    BY ConcatProperties, LenProperties
  <1>2. Len(p) <= Len(u) /\ SubSeq(p, 1, Len(p)) = SubSeq(u, 1, Len(p))
    BY DEF IsPrefix
  <1> HIDE DEF u
  <1>3. \A i \in 1 .. Len(p) : p[i] = u[i]
    <2>1. Len(p) \in 0 .. Len(p) /\ Len(p) \in 0 .. Len(u)
      BY <1>1, <1>2
    <2>2. \A i \in 1 .. Len(p) : SubSeq(p, 1, Len(p))[i] = p[i]
      BY <2>1, Cuts
    <2>3. \A i \in 1 .. Len(p) : SubSeq(u, 1, Len(p))[i] = u[i]
      BY <1>1, <2>1, Cuts
    <2>4. QED
      BY <1>2, <2>2, <2>3
  <1>4. ASSUME NEW a \in Seq(S), NEW b \in Seq(S), Len(a) <= Len(b),
               \A i \in 1 .. Len(a) : a[i] = b[i]
        PROVE  IsPrefix(a, b)
    <2> DEFINE n == Len(a)
               front == SubSeq(a, 1, n)
               other == SubSeq(b, 1, n)
    <2>1. n \in 0 .. Len(a) /\ n \in 0 .. Len(b)
      BY <1>4, LenProperties
    <2>2. front \in Seq(S) /\ Len(front) = n /\ \A i \in 1 .. n : front[i] = a[i]
      BY <2>1, Cuts
    <2>3. other \in Seq(S) /\ Len(other) = n /\ \A i \in 1 .. n : other[i] = b[i]
      BY <2>1, Cuts
    <2>4. front = other
      <3> HIDE DEF front, other
      <3>1. \A i \in 1 .. n : front[i] = other[i]
        BY <1>4, <2>2, <2>3
      <3>2. QED
        BY <2>2, <2>3, <3>1, SeqEqual
    <2>5. QED
      BY <1>4, <2>4 DEF IsPrefix
  <1>5. CASE Len(p) <= Len(s)
    <2>1. \A i \in 1 .. Len(p) : p[i] = s[i]
      BY <1>1, <1>3, <1>5
    <2>2. QED
      BY <1>4, <1>5, <2>1
  <1>6. CASE Len(s) <= Len(p)
    <2>1. \A i \in 1 .. Len(s) : s[i] = p[i]
      BY <1>1, <1>3, <1>6
    <2>2. QED
      BY <1>4, <1>6, <2>1
  <1>7. QED
    BY <1>1, <1>5, <1>6

\* What the TextDecoder leaves of a written text.
LEMMA KeptOfWritten ==
    ASSUME NEW characters \in Seq(Characters \cup {Lone}), NEW field, field.text
    PROVE  Kept(field, Written(characters)) = Written(Unmarked(characters))
  <1> DEFINE octets == Written(characters)
  <1>1. Bom \in Seq(Digit) /\ Bom # <<>> /\ Len(Bom) \in Nat /\ Len(Bom) > 0
    <2>1. Bom \in Seq(Digit) /\ Bom # <<>>
      BY CharactersAssumption
    <2>2. QED
      BY <2>1, HeadAndTail
  <1>2. octets \in Seq(Digit)
    BY WrittenIs
  <1>3. Kept(field, octets) = IF IsPrefix(Bom, octets)
                              THEN SubSeq(octets, Len(Bom) + 1, Len(octets)) ELSE octets
    BY DEF Kept
  <1>4. CASE characters = <<>>
    <2>1. octets = <<>> /\ Unmarked(characters) = characters
      BY <1>4, WrittenIs DEF Unmarked
    <2>2. ~ IsPrefix(Bom, <<>>)
      BY <1>1 DEF IsPrefix
    <2>3. QED
      BY <1>3, <2>1, <2>2
  <1>5. CASE characters # <<>>
    <2> DEFINE head == Head(characters)
               first == IF head = Lone THEN Replacement ELSE head
               rest == Written(Tail(characters))
    <2>1. head \in Characters \cup {Lone} /\ rest \in Seq(Digit) /\ octets = first \o rest
      BY <1>5, WrittenIs
    <2>2. first \in Characters /\ first \in Seq(Digit)
      BY <2>1, CharactersAssumption
    <2>3. first = Bom <=> head = Bom
      BY <2>1, CharactersAssumption
    <2>4. Unmarked(characters) = IF head = Bom THEN Tail(characters) ELSE characters
      BY <1>5 DEF Unmarked
    <2> HIDE DEF head, first, rest, octets
    <2>5. CASE head = Bom
      <3>1. octets = Bom \o rest
        BY <2>1, <2>3, <2>5
      <3>2. /\ SubSeq(octets, 1, Len(Bom)) = Bom
            /\ SubSeq(octets, Len(Bom) + 1, Len(octets)) = rest
        BY <1>1, <2>1, <3>1, CutsAtJoint
      <3>3. SubSeq(Bom, 1, Len(Bom)) = Bom
        <4>1. Bom \o <<>> = Bom /\ <<>> \in Seq(Digit)
          BY <1>1, ConcatEmptySeq
        <4>2. QED
          BY <1>1, <4>1, CutsAtJoint
      <3>4. Len(Bom) <= Len(octets)
        BY <1>1, <2>1, <3>1, ConcatProperties, LenProperties
      <3>5. IsPrefix(Bom, octets)
        BY <3>2, <3>3, <3>4 DEF IsPrefix
      <3>6. QED
        BY <1>3, <2>4, <2>5, <3>2, <3>5 DEF rest, octets
    <2>6. CASE head # Bom
      <3>1. ~ IsPrefix(Bom, octets)
        <4>1. IsPrefix(Bom, octets) => IsPrefix(Bom, first) \/ IsPrefix(first, Bom)
          BY <1>1, <2>1, <2>2, PrefixOfJoint
        <4>2. QED
          BY <2>2, <2>3, <2>6, <4>1, CharactersAssumption
      <3>2. QED
        BY <1>3, <2>4, <2>6, <3>1 DEF octets
    <2>7. QED
      BY <2>5, <2>6
  <1>6. QED
    BY <1>4, <1>5

\* A part is encoded as a token of the field that it suits.
LEMMA EncodedIsToken ==
    ASSUME NEW field \in AllFields, NEW part, Suits(part, field)
    PROVE  IsToken(field, Token(part))
  <1>1. CASE part.kind = "octet"
    <2> DEFINE d == part.value
    <2>1. Token(part) = Spelling(<<d % Radix>>, <<d>>)
      BY <1>1 DEF Token, Encoded, Meaning
    <2>2. \/ field.kind = "octet" /\ d \in 0 .. field.below - 1
          \/ field.kind = "optional" /\ d \in 0 .. 1
      BY <1>1 DEF Suits
    <2>3. field.kind = "octet" => field.below \in 1 .. Radix
      BY FieldIs
    <2>4. d \in Digit /\ d \in Nat
      BY <2>2, <2>3, Radixes DEF Digit
    <2>5. d % Radix = d
      BY <2>4, Radixes DEF Digit
    <2>6. Token(part) = Spelling(<<d>>, <<d>>)
      BY <2>1, <2>5
    <2> HIDE DEF d
    <2>7. CASE field.kind = "octet" /\ d \in 0 .. field.below - 1
      BY <2>6, <2>7 DEF IsToken, Octets
    <2>8. CASE field.kind = "optional" /\ d \in 0 .. 1
      <3>1. d \in 0 .. 2 - 1
        BY <2>8
      <3>2. QED
        BY <2>6, <2>8, <3>1 DEF IsToken, Octets
    <2>9. QED
      BY <2>2, <2>7, <2>8
  <1>2. CASE part.kind = "number"
    <2> DEFINE n == part.value
    <2>1. Token(part) = Spelling(Unsigned(n), <<n>>)
      BY <1>2 DEF Token, Encoded, Meaning
    <2>2. \/ field.kind = "number" /\ n \in 0 .. field.maximum
          \/ field.kind = "array" /\ n \in 0 .. ManyElements
          \/ field.kind = "choice" /\ n \in 0 .. Most(2) /\ n \in DOMAIN field.of
      BY <1>2 DEF Suits
    <2> HIDE DEF n
    <2>3. CASE field.kind = "number" /\ n \in 0 .. field.maximum
      <3>1. field.tags \in 1 .. 3 /\ field.maximum \in Nat /\ field.maximum <= Most(field.tags)
        BY <2>3, FieldIs
      <3>2. Most(field.tags) \in Nat
        BY <3>1, Mosts
      <3>3. n \in Nat /\ n <= field.maximum /\ n <= Most(field.tags)
        BY <2>3, <3>1, <3>2
      <3>4. Token(part) \in Numbers(field.tags, field.maximum)
        BY <2>1, <3>1, <3>3, EncodedNumbersAreRead
      <3>5. QED
        BY <2>3, <3>4 DEF IsToken
    <2>4. CASE field.kind = "array" /\ n \in 0 .. ManyElements
      <3>1. Most(3) \in Nat /\ 3 \in 1 .. 3
        BY Mosts
      <3>2. n \in Nat /\ n <= ManyElements /\ n <= Most(3)
        BY <2>4, <3>1, Limits
      <3>3. Token(part) \in Numbers(3, ManyElements)
        BY <2>1, <3>1, <3>2, EncodedNumbersAreRead
      <3>4. QED
        BY <2>4, <3>3 DEF IsToken
    <2>5. CASE field.kind = "choice" /\ n \in 0 .. Most(2) /\ n \in DOMAIN field.of
      <3>1. Most(2) \in Nat /\ 2 \in 1 .. 3
        BY Mosts
      <3>2. n \in Nat /\ n <= Most(2)
        BY <2>5, <3>1
      <3>3. Token(part) \in Numbers(2, Most(2))
        BY <2>1, <3>1, <3>2, EncodedNumbersAreRead
      <3>4. Token(part).read = <<n>>
        BY <2>1, SpellingIs
      <3>5. Token(part).read[1] = n
        BY <3>4
      <3>6. QED
        BY <2>5, <3>3, <3>5 DEF IsToken
    <2>6. QED
      BY <2>2, <2>3, <2>4, <2>5
  <1>3. CASE part.kind = "text"
    <2> DEFINE contents == Written(part.characters)
               n == Len(contents)
               count == Spelling(Unsigned(n), <<n>>)
    <2>1. /\ field.kind = "data" /\ field.text
          /\ part.characters \in Seq(Characters \cup {Lone})
          /\ n <= MaxMessage /\ contents \in Utf8
      BY <1>3 DEF Suits
    <2>2. Token(part) = Spelling(Unsigned(n) \o contents,
                                 Counted(Written(Unmarked(part.characters))))
      BY <1>3 DEF Token, Encoded, Meaning
    <2>3. contents \in Seq(Digit) /\ n \in Nat
      BY <2>1, WrittenIs, LenProperties
    <2>4. count.octets = Unsigned(n) /\ count.read = <<n>>
      BY SpellingIs
    <2>5. count.read[1] = n
      BY <2>4
    <2>6. count \in Numbers(3, MaxMessage)
      <3>1. Most(3) \in Nat /\ 3 \in 1 .. 3
        BY Mosts
      <3> HIDE DEF n
      <3>2. n <= Most(3)
        BY <2>1, <2>3, <3>1, Limits
      <3>3. QED
        BY <2>1, <2>3, <3>1, <3>2, EncodedNumbersAreRead
    <2>7. Written(Unmarked(part.characters)) = Kept(field, contents)
      BY <2>1, KeptOfWritten
    <2>8. Token(part) = DataToken(field, count, contents)
      BY <2>2, <2>4, <2>7 DEF DataToken
    <2> HIDE DEF count, contents
    <2>9. IsData(field, Token(part))
      BY <2>1, <2>3, <2>5, <2>6, <2>8 DEF IsData
    <2>10. QED
      BY <2>1, <2>9 DEF IsToken
  <1>4. QED
    BY <1>1, <1>2, <1>3 DEF Suits

\* What the recursion in Follows defines.
IsAhead(ahead, parts, n) ==
    ahead = [i \in 0 .. n |->
                IF i = 0 THEN <<Tagged>>
                ELSE Within(Head(ahead[i - 1]), Meaning(parts[i])) \o Tail(ahead[i - 1])]

LEMMA AheadExists ==
    ASSUME NEW parts, NEW n \in Nat
    PROVE  \E ahead : IsAhead(ahead, parts, n)
  <1> DEFINE G == {k \in Nat : \E f : IsAhead(f, parts, k)}
  <1>1. 0 \in G
    <2> DEFINE f == [i \in 0 .. 0 |-> <<Tagged>>]
    <2>1. IsAhead(f, parts, 0)
      BY DEF IsAhead
    <2>2. QED
      BY <2>1
  <1>2. ASSUME NEW k \in Nat, k \in G PROVE k + 1 \in G
    <2>1. PICK f : IsAhead(f, parts, k)
      BY <1>2
    <2> DEFINE after(i, fs) == Within(Head(fs), Meaning(parts[i])) \o Tail(fs)
               g == [i \in 0 .. k + 1 |-> IF i <= k THEN f[i] ELSE after(i, f[k])]
    <2> HIDE DEF after
    <2>2. f = [i \in 0 .. k |-> IF i = 0 THEN <<Tagged>> ELSE after(i, f[i - 1])]
      BY <2>1 DEF IsAhead, after
    <2>3. ASSUME NEW i \in 0 .. k + 1
          PROVE  g[i] = IF i = 0 THEN <<Tagged>> ELSE after(i, g[i - 1])
      <3>1. CASE i <= k
        <4>1. i \in 0 .. k /\ (i # 0 => i - 1 \in 0 .. k + 1 /\ i - 1 <= k)
          BY <3>1
        <4>2. g[i] = f[i] /\ (i # 0 => g[i - 1] = f[i - 1])
          BY <3>1, <4>1
        <4>3. f[i] = IF i = 0 THEN <<Tagged>> ELSE after(i, f[i - 1])
          BY <2>2, <4>1
        <4> HIDE DEF g
        <4>4. QED
          BY <4>2, <4>3
      <3>2. CASE ~ (i <= k)
        <4>1. i = k + 1 /\ i # 0 /\ i - 1 = k /\ k \in 0 .. k + 1 /\ k <= k
          BY <3>2
        <4>2. g[i] = after(i, f[k]) /\ g[k] = f[k]
          BY <3>2, <4>1
        <4> HIDE DEF g
        <4>3. QED
          BY <4>1, <4>2
      <3>3. QED
        BY <3>1, <3>2
    <2>4. g = [i \in 0 .. k + 1 |-> IF i = 0 THEN <<Tagged>> ELSE after(i, g[i - 1])]
      <3>1. g = [i \in 0 .. k + 1 |-> g[i]]
        OBVIOUS
      <3> HIDE DEF g
      <3>2. QED
        BY <2>3, <3>1
    <2> HIDE DEF g
    <2>5. IsAhead(g, parts, k + 1)
      BY <2>4 DEF IsAhead, after
    <2>6. QED
      BY <2>5
  <1>3. Nat \subseteq G
    <2> HIDE DEF G
    <2>1. QED
      BY <1>1, <1>2, NumberInduction
  <1>4. QED
    BY <1>3

\* The fields that are ahead of each part, and each part suits the first of them.
LEMMA FollowsIs ==
    ASSUME NEW parts, Len(parts) \in Nat, Follows(parts)
    PROVE  \E ahead :
              /\ ahead[0] = <<Tagged>> /\ ahead[Len(parts)] = <<>>
              /\ \A i \in 1 .. Len(parts) :
                    /\ ahead[i] = Within(Head(ahead[i - 1]), Meaning(parts[i])) \o Tail(ahead[i - 1])
                    /\ ahead[i - 1] # <<>> /\ Suits(parts[i], Head(ahead[i - 1]))
  <1> DEFINE L == Len(parts)
             ahead == CHOOSE f : IsAhead(f, parts, L)
  <1>1. /\ \A i \in 1 .. L : ahead[i - 1] # <<>> /\ Suits(parts[i], Head(ahead[i - 1]))
        /\ ahead[L] = <<>>
    BY DEF Follows, IsAhead
  <1>2. IsAhead(ahead, parts, L)
    BY AheadExists
  <1> HIDE DEF ahead
  <1>3. ahead[0] = <<Tagged>>
    BY <1>2 DEF IsAhead
  <1>4. ASSUME NEW i \in 1 .. L
        PROVE  ahead[i] = Within(Head(ahead[i - 1]), Meaning(parts[i])) \o Tail(ahead[i - 1])
    <2>1. i \in 0 .. L /\ i # 0
      OBVIOUS
    <2> HIDE DEF L
    <2>2. QED
      BY <1>2, <2>1 DEF IsAhead
  <1>5. QED
    BY <1>1, <1>3, <1>4

Said(parts) == FlattenSeq([i \in DOMAIN parts |-> Meaning(parts[i])])

\* A message of the client is spelled by its payload, as what it says.
LEMMA PayloadIsSpelled ==
    ASSUME NEW parts \in Client
    PROVE  /\ Payload(parts) \in Seq(Digit) /\ parts # <<>>
           /\ Spells(Spelling(Payload(parts), Said(parts)), <<Tagged>>)
  <1> DEFINE L == Len(parts)
             enc == [i \in DOMAIN parts |-> Encoded(parts[i])]
             say == [i \in DOMAIN parts |-> Meaning(parts[i])]
  <1>1. parts \in Seq(Range(parts)) /\ Follows(parts)
    BY ClientAssumption
  <1>2. L \in Nat /\ DOMAIN parts = 1 .. L
    BY <1>1, LenProperties
  <1>3. PICK ahead :
              /\ ahead[0] = <<Tagged>> /\ ahead[L] = <<>>
              /\ \A i \in 1 .. L :
                    /\ ahead[i] = Within(Head(ahead[i - 1]), Meaning(parts[i])) \o Tail(ahead[i - 1])
                    /\ ahead[i - 1] # <<>> /\ Suits(parts[i], Head(ahead[i - 1]))
    BY <1>1, <1>2, FollowsIs
  <1>4. L # 0 /\ parts # <<>>
    <2>1. <<Tagged>> # <<>>
      OBVIOUS
    <2>2. L # 0
      BY <1>3, <2>1
    <2>3. Len(<<>>) = 0
      OBVIOUS
    <2>4. QED
      BY <2>2, <2>3
  <1> HIDE DEF L
  <1>5. ASSUME NEW i \in 1 .. L, ahead[i - 1] \in Seq(AllFields)
        PROVE  /\ Token(parts[i]) \in AllSpellings
               /\ IsToken(Head(ahead[i - 1]), Token(parts[i]))
               /\ Token(parts[i]).octets = Encoded(parts[i])
               /\ Token(parts[i]).read = Meaning(parts[i])
               /\ ahead[i] = Within(Head(ahead[i - 1]), Token(parts[i]).read) \o Tail(ahead[i - 1])
               /\ ahead[i] \in Seq(AllFields)
    <2> DEFINE fields == ahead[i - 1]
               part == parts[i]
    <2>1. /\ fields \in Seq(AllFields) /\ fields # <<>> /\ Suits(part, Head(fields))
          /\ ahead[i] = Within(Head(fields), Meaning(part)) \o Tail(fields)
      BY <1>3, <1>5
    <2> HIDE DEF fields, part
    <2>2. Head(fields) \in AllFields /\ Tail(fields) \in Seq(AllFields)
      BY <2>1, HeadAndTail
    <2>3. IsToken(Head(fields), Token(part))
      BY <2>1, <2>2, EncodedIsToken
    <2>4. Token(part).octets = Encoded(part) /\ Token(part).read = Meaning(part)
      BY SpellingIs DEF Token
    <2>5. Token(part) \in AllSpellings /\ Within(Head(fields), Token(part).read) \in Seq(AllFields)
      BY <2>2, <2>3, TokenTypes
    <2>6. ahead[i] = Within(Head(fields), Token(part).read) \o Tail(fields)
      BY <2>1, <2>4
    <2>7. ahead[i] \in Seq(AllFields)
      BY <2>2, <2>5, <2>6, ConcatProperties
    <2>8. QED
      BY <2>3, <2>4, <2>5, <2>6, <2>7 DEF fields, part
  <1>6. \A i \in 0 .. L : ahead[i] \in Seq(AllFields)
    <2> DEFINE G == {i \in Nat : i <= L => ahead[i] \in Seq(AllFields)}
    <2>1. 0 \in G
      <3>1. Tagged \in AllFields
        BY DEF AllFields
      <3>2. <<Tagged>> \in Seq(AllFields)
        BY <3>1
      <3>3. QED
        BY <1>3, <3>2
    <2>2. ASSUME NEW i \in Nat, i \in G PROVE i + 1 \in G
      <3>1. SUFFICES ASSUME i + 1 <= L PROVE ahead[i + 1] \in Seq(AllFields)
        OBVIOUS
      <3> DEFINE j == i + 1
      <3>2. j \in 1 .. L /\ j - 1 = i /\ i <= L
        BY <1>2, <3>1
      <3>3. ahead[j - 1] \in Seq(AllFields)
        BY <2>2, <3>2
      <3> HIDE DEF j, G
      <3>4. ahead[j] \in Seq(AllFields)
        BY <1>5, <3>2, <3>3
      <3>5. QED
        BY <3>4 DEF j
    <2>3. Nat \subseteq G
      <3> HIDE DEF G
      <3>1. QED
        BY <2>1, <2>2, NumberInduction
    <2>4. QED
      BY <1>2, <2>3
  <1>7. ASSUME NEW i \in 1 .. L
        PROVE  /\ Token(parts[i]) \in AllSpellings
               /\ IsToken(Head(ahead[i - 1]), Token(parts[i]))
               /\ Token(parts[i]).octets = Encoded(parts[i])
               /\ Token(parts[i]).read = Meaning(parts[i])
               /\ ahead[i] = Within(Head(ahead[i - 1]), Token(parts[i]).read) \o Tail(ahead[i - 1])
               /\ ahead[i - 1] \in Seq(AllFields) /\ ahead[i - 1] # <<>>
    <2>1. i - 1 \in 0 .. L
      BY <1>2
    <2>2. ahead[i - 1] \in Seq(AllFields)
      BY <1>6, <2>1
    <2>3. QED
      BY <1>3, <1>5, <2>2
  <1>8. enc \in Seq(Seq(Digit)) /\ say \in Seq(Seq(Int)) /\ Len(enc) = L /\ Len(say) = L
        /\ \A i \in 1 .. L : enc[i] = Encoded(parts[i]) /\ say[i] = Meaning(parts[i])
    <2>1. \A i \in 1 .. L : Encoded(parts[i]) \in Seq(Digit) /\ Meaning(parts[i]) \in Seq(Int)
      <3> TAKE i \in 1 .. L
      <3> DEFINE token == Token(parts[i])
      <3>1. token \in AllSpellings /\ token.octets = Encoded(parts[i]) /\ token.read = Meaning(parts[i])
        BY <1>7
      <3> HIDE DEF token
      <3>2. QED
        BY <3>1, SpellingOf
    <2>2. enc \in [1 .. L -> Seq(Digit)] /\ say \in [1 .. L -> Seq(Int)]
      BY <1>2, <2>1
    <2>3. \A i \in 1 .. L : enc[i] = Encoded(parts[i]) /\ say[i] = Meaning(parts[i])
      BY <1>2
    <2> HIDE DEF enc, say
    <2>4. QED
      BY <1>2, <2>2, <2>3, SequencesOf
  <1>9. Payload(parts) = FlattenSeq(enc) /\ Said(parts) = FlattenSeq(say)
    BY DEF Payload, Said
  <1> HIDE DEF enc, say
  <1>10. PICK octets \in [Nat -> Seq(Digit)] :
              /\ octets[0] = <<>>
              /\ \A i \in 1 .. L : octets[i] = octets[i - 1] \o enc[i]
              /\ FlattenSeq(enc) = octets[L]
    <2>1. \E flat \in [Nat -> Seq(Digit)] :
              /\ flat[0] = <<>>
              /\ \A i \in 1 .. Len(enc) : flat[i] = flat[i - 1] \o enc[i]
              /\ FlattenSeq(enc) = flat[Len(enc)]
      BY <1>8, Flattens
    <2>2. QED
      BY <1>8, <2>1
  <1>11. PICK read \in [Nat -> Seq(Int)] :
              /\ read[0] = <<>>
              /\ \A i \in 1 .. L : read[i] = read[i - 1] \o say[i]
              /\ FlattenSeq(say) = read[L]
    <2>1. \E flat \in [Nat -> Seq(Int)] :
              /\ flat[0] = <<>>
              /\ \A i \in 1 .. Len(say) : flat[i] = flat[i - 1] \o say[i]
              /\ FlattenSeq(say) = flat[Len(say)]
      BY <1>8, Flattens
    <2>2. QED
      BY <1>8, <2>1
  <1> DEFINE before == [i \in Nat |-> Spelling(octets[i], read[i])]
             Completes(i) == \A u : Spells(u, ahead[i]) => Spells(Then(before[i], u), <<Tagged>>)
             G == {i \in Nat : i <= L => Completes(i)}
  <1>12. /\ before[0] = Nothing
         /\ \A i \in Nat : before[i] \in AllSpellings
         /\ \A i \in 1 .. L : before[i] = Then(before[i - 1], Token(parts[i]))
    <2>1. \A i \in Nat : octets[i] \in Seq(Digit) /\ read[i] \in Seq(Int)
      OBVIOUS
    <2>2. \A i \in Nat : before[i] \in AllSpellings /\ before[i].octets = octets[i]
                         /\ before[i].read = read[i]
      BY <2>1, SpellingIs
    <2>3. before[0] = Nothing
      BY <1>10, <1>11 DEF Nothing
    <2>4. \A i \in Nat : before[i] = Spelling(octets[i], read[i])
      OBVIOUS
    <2> HIDE DEF before
    <2>5. ASSUME NEW i \in 1 .. L PROVE before[i] = Then(before[i - 1], Token(parts[i]))
      <3>1. i \in Nat /\ i - 1 \in Nat
        BY <1>2
      <3>2. /\ octets[i] = octets[i - 1] \o Token(parts[i]).octets
            /\ read[i] = read[i - 1] \o Token(parts[i]).read
        BY <1>7, <1>8, <1>10, <1>11
      <3>3. QED
        BY <2>2, <2>4, <3>1, <3>2 DEF Then
    <2>6. QED
      BY <2>2, <2>3, <2>5
  <1> HIDE DEF before
  <1>13. 0 \in G
    <2>1. ASSUME NEW u, Spells(u, <<Tagged>>) PROVE Spells(Then(Nothing, u), <<Tagged>>)
      <3>1. u \in AllSpellings
        BY <2>1 DEF Spells
      <3>2. Then(Nothing, u) = u
        BY <3>1, ThenNothing
      <3>3. QED
        BY <2>1, <3>2
    <2>2. QED
      BY <1>3, <1>12, <2>1
  <1>14. ASSUME NEW i \in Nat, i \in G PROVE i + 1 \in G
    <2> DEFINE j == i + 1
    <2>11. SUFFICES ASSUME j <= L PROVE Completes(j)
      <3> HIDE DEF Completes
      <3>1. QED
        BY <1>14
    <2>2. j \in 1 .. L /\ j - 1 = i /\ i <= L
      BY <1>2, <2>11
    <2>3. \A v : Spells(v, ahead[i]) => Spells(Then(before[i], v), <<Tagged>>)
      BY <1>14, <2>2
    <2> HIDE DEF j, G
    <2>1. SUFFICES ASSUME NEW u, Spells(u, ahead[j])
                   PROVE  Spells(Then(before[j], u), <<Tagged>>)
      OBVIOUS
    <2> DEFINE token == Token(parts[j])
               fields == ahead[i]
    <2>4. /\ token \in AllSpellings /\ IsToken(Head(fields), token)
          /\ ahead[j] = Within(Head(fields), token.read) \o Tail(fields)
          /\ fields \in Seq(AllFields) /\ fields # <<>>
      BY <1>7, <2>2
    <2>5. before[j] = Then(before[i], token) /\ before[i] \in AllSpellings
      BY <1>12, <2>2
    <2> HIDE DEF token, fields
    <2>6. u \in AllSpellings /\ Spells(u, Within(Head(fields), token.read) \o Tail(fields))
      BY <2>1, <2>4 DEF Spells
    <2>7. Spells(Then(token, u), fields)
      BY <2>4, <2>6, SpellsNext
    <2>8. Spells(Then(before[i], Then(token, u)), <<Tagged>>)
      BY <2>3, <2>7 DEF fields
    <2>9. Then(before[j], u) = Then(before[i], Then(token, u))
      <3> DEFINE b == before[i]
      <3>1. b \in AllSpellings /\ before[j] = Then(b, token)
        BY <2>5
      <3> HIDE DEF b
      <3>2. Then(Then(b, token), u) = Then(b, Then(token, u))
        BY <2>4, <2>6, <3>1, ThenAssociates
      <3>3. QED
        BY <3>1, <3>2 DEF b
    <2>10. QED
      BY <2>8, <2>9
  <1>15. Nat \subseteq G
    <2> HIDE DEF G
    <2>1. QED
      BY <1>13, <1>14, NumberInduction
  <1>16. Spells(Then(before[L], Nothing), <<Tagged>>)
    <2>1. Spells(Nothing, <<>>)
      BY SpellsNothing
    <2>2. L \in G /\ L <= L
      <3> HIDE DEF G
      <3>1. QED
        BY <1>2, <1>15
    <2>3. Completes(L)
      <3> HIDE DEF Completes
      <3>1. QED
        BY <2>2
    <2>4. QED
      BY <1>3, <2>1, <2>3
  <1>17. before[L] = Spelling(Payload(parts), Said(parts)) /\ Then(before[L], Nothing) = before[L]
    BY <1>2, <1>9, <1>10, <1>11, <1>12, ThenNothing DEF before
  <1>18. Payload(parts) \in Seq(Digit)
    BY <1>2, <1>9, <1>10
  <1>19. QED
    BY <1>4, <1>16, <1>17, <1>18

-----------------------------------------------------------------------------
(* The theorems.                                                            *)

LEMMA CodecStart ==
    ASSUME CodecInit
    PROVE  CodecInv
  <1>1. offset = 0 /\ unread = <<Tagged>> /\ values = <<>> /\ verdict = "reading"
    BY DEF CodecInit
  <1>2. /\ message \in Seq(Digit) /\ intended \in Client \cup {<<>>}
        /\ intended = <<>> => Len(message) <= MaxForeign
    <2>1. CASE intended \in Client /\ message = Payload(intended)
      <3>1. Payload(intended) \in Seq(Digit) /\ intended # <<>>
        BY <2>1, PayloadIsSpelled
      <3>2. QED
        BY <2>1, <3>1
    <2>2. CASE intended = <<>> /\ \E n \in 0 .. MaxForeign : message \in [1 .. n -> Digit]
      <3>1. PICK n \in 0 .. MaxForeign : message \in [1 .. n -> Digit]
        BY <2>2
      <3>2. MaxForeign \in Nat
        BY CodecAssumption
      <3>3. n \in Nat /\ n <= MaxForeign
        BY <3>2
      <3>4. message \in Seq(Digit) /\ Len(message) = n
        BY <3>1, <3>3, SequencesOf
      <3>5. QED
        BY <2>2, <3>3, <3>4
    <2>3. QED
      BY <2>1, <2>2 DEF CodecInit
  <1>3. Len(message) \in Nat
    BY <1>2, LenProperties
  <1>4. CodecTypeOK
    <2>1. <<>> \in Seq(Int)
      BY EmptySeq
    <2>2. QED
      BY <1>1, <1>2, <1>3, <2>1 DEF CodecTypeOK
  <1>5. unread \in Seq(AllFields)
    <2>1. Tagged \in AllFields
      BY DEF AllFields
    <2>2. QED
      BY <1>1, <2>1
  <1>6. Unseen = message
    <2>1. Unseen = SubSeq(message, 1, Len(message))
      BY <1>1 DEF Unseen, Piece
    <2>2. QED
      BY <1>2, <2>1, SubSeqFull
  <1>7. Legible
    <2>1. ASSUME NEW r, Spells(Spelling(message, r), <<Tagged>>) PROVE r = <<>> \o r
      <3>1. r \in Seq(Int)
        BY <2>1, SpellingIs DEF Spells
      <3>2. QED
        BY <3>1, ConcatEmptySeq
    <2>2. QED
      BY <1>1, <1>6, <2>1 DEF Legible
  <1>8. QED
    BY <1>1, <1>2, <1>4, <1>5, <1>7 DEF CodecInv

\* Whatever the payload, what it spells as a message is what has been read followed by
\* what the rest of it spells (CodecInv, the inductive invariant of CodecSpec).
THEOREM PayloadStaysLegible == CodecSpec => []CodecInv
  <1>1. CodecInit => CodecInv
    BY CodecStart
  <1>2. CodecInv /\ [CodecNext]_codecVars => CodecInv'
    BY CodecStep
  <1>3. QED
    BY <1>1, <1>2, PTL DEF CodecSpec

\* EndpointReader's offset stays within the payload.
THEOREM CodecTypeCorrect == CodecSpec => []CodecTypeOK
  <1>1. CodecInv => CodecTypeOK
    BY DEF CodecInv
  <1>2. QED
    BY <1>1, PayloadStaysLegible, PTL

\* What is accepted is spelled by the payload.
LEMMA AcceptedIsSpelled ==
    ASSUME CodecInv, verdict = "accepted"
    PROVE  \A r : Spells(Spelling(message, r), <<Tagged>>) <=> r = values
  <1>1. Legible /\ unread = <<>> /\ offset = Len(message) /\ ReaderTypes
    BY CodecInvTypes DEF CodecInv
  <1>2. values \in Seq(Int) /\ values \o <<>> = values
    BY <1>1, ConcatEmptySeq DEF ReaderTypes
  <1>3. Unseen = <<>>
    <2>1. Unseen \in Seq(Digit) /\ Len(Unseen) = 0
      BY <1>1, RestIs
    <2>2. QED
      BY <2>1, EmptySeq
  <1>4. \A v : Spells(Spelling(Unseen, v), unread) <=> v = <<>>
    <2> TAKE v
    <2>1. Spells(Spelling(Unseen, v), unread) <=> Spelling(<<>>, v) = Nothing
      BY <1>1, <1>3, SpellsNothing
    <2>2. Spelling(<<>>, v) = Nothing <=> v = <<>>
      <3>1. Spelling(<<>>, v).read = v
        BY SpellingIs
      <3>2. QED
        BY <3>1, NothingIs DEF Nothing
    <2>3. QED
      BY <2>1, <2>2
  <1>5. ASSUME NEW r PROVE Spells(Spelling(message, r), <<Tagged>>) <=> r = values
    <2>1. Spells(Spelling(message, r), <<Tagged>>)
             <=> \E v : r = values \o v /\ Spells(Spelling(Unseen, v), unread)
      BY <1>1 DEF Legible
    <2>2. Spells(Spelling(message, r), <<Tagged>>) <=> \E v : r = values \o v /\ v = <<>>
      BY <1>4, <2>1
    <2>3. QED
      BY <1>2, <2>2
  <1>6. QED
    BY <1>5

LEMMA LanguageIs ==
    ASSUME NEW s
    PROVE  s \in Language <=> Spells(s, <<Tagged>>) /\ Len(s.octets) <= MaxForeign
  <1>1. MaxForeign \in Nat
    BY CodecAssumption
  <1>2. Tagged \in AllFields
    BY DEF AllFields
  <1>3. <<Tagged>> \in Seq(AllFields)
    BY <1>2
  <1>4. QED
    BY <1>1, <1>3, SpelledIn DEF Language

\* decodeEndpointMessage accepts exactly the payloads that spell a message, and reads
\* what they spell (EndpointReader's fields, array's limit, choice and finish).
THEOREM DecodesTheLanguage == CodecSpec => []ReadsTheLanguage
  <1>1. CodecInv => ReadsTheLanguage
    <2>1. SUFFICES ASSUME CodecInv, intended = <<>>
                   PROVE  /\ verdict = "accepted" => Spelling(message, values) \in Language
                          /\ verdict \notin {"reading", "accepted"} => message \notin Words
      BY DEF ReadsTheLanguage
    <2>2. Len(message) <= MaxForeign
      BY <2>1 DEF CodecInv
    <2>3. ASSUME verdict = "accepted" PROVE Spelling(message, values) \in Language
      <3>1. Spells(Spelling(message, values), <<Tagged>>)
        BY <2>1, <2>3, AcceptedIsSpelled
      <3>2. Spelling(message, values).octets = message
        BY SpellingIs
      <3>3. QED
        BY <2>2, <3>1, <3>2, LanguageIs
    <2>4. ASSUME verdict \notin {"reading", "accepted"}, message \in Words PROVE FALSE
      <3>1. PICK s \in Language : message = s.octets
        BY <2>4 DEF Words
      <3>2. Spells(s, <<Tagged>>)
        BY <3>1, LanguageIs
      <3>3. s = Spelling(message, s.read)
        BY <3>1, <3>2, SpellingOf DEF Spells
      <3>4. Illegible
        BY <2>1, <2>4 DEF CodecInv, CodecTypeOK
      <3>5. QED
        BY <3>2, <3>3, <3>4 DEF Illegible
    <2>5. QED
      BY <2>3, <2>4
  <1>2. QED
    BY <1>1, PayloadStaysLegible, PTL

\* The payload being decoded is the one that was encoded.
Delivered == intended # <<>> => intended \in Client /\ message = Payload(intended)

LEMMA PayloadIsDelivered == CodecSpec => []Delivered
  <1>1. CodecInit => Delivered
    BY DEF CodecInit, Delivered
  <1>2. Delivered /\ [CodecNext]_codecVars => Delivered'
    <2> SUFFICES ASSUME Delivered, [CodecNext]_codecVars PROVE Delivered'
      OBVIOUS
    <2>1. message' = message /\ intended' = intended
      BY DEF CodecNext, codecVars, ReadByte, ReadUnsigned, ReadSigned, ReadData, ReadOptional,
             ReadArray, ReadChoice, NotChosen, FieldRefused, Finish, TakesOctets, Concludes
    <2>2. QED
      BY <2>1 DEF Delivered
  <1>3. QED
    BY <1>1, <1>2, PTL DEF CodecSpec

\* A message that the client encodes is never refused, and is read as what it was
\* encoded from (encodeUnsigned, encodeText, encodeOptional, uint64).
THEOREM DecodesWhatWasEncoded == CodecSpec => []WrittenIsRead
  <1>1. CodecInv /\ Delivered => WrittenIsRead
    <2>1. SUFFICES ASSUME CodecInv, Delivered, intended # <<>>
                   PROVE  /\ verdict \in {"reading", "accepted"}
                          /\ verdict = "accepted" => values = Said(intended)
      BY DEF WrittenIsRead, Said
    <2>2. Spells(Spelling(message, Said(intended)), <<Tagged>>)
      BY <2>1, PayloadIsSpelled DEF Delivered
    <2>3. verdict \in {"reading", "accepted"}
      <3>1. ~ Illegible
        BY <2>2 DEF Illegible
      <3>2. QED
        BY <2>1, <3>1 DEF CodecInv, CodecTypeOK
    <2>4. ASSUME verdict = "accepted" PROVE values = Said(intended)
      BY <2>1, <2>2, <2>4, AcceptedIsSpelled
    <2>5. QED
      BY <2>3, <2>4
  <1>2. QED
    BY <1>1, PayloadStaysLegible, PayloadIsDelivered, PTL

=============================================================================
