----------------------------- MODULE DataTheorems -----------------------------
(***************************************************************************)
(* Induction and recursion over numbers, induction over finite sets, sums  *)
(* and sequences: what the proofs about the models' data rest on.          *)
(*                                                                         *)
(* The principles have a set where one would write a predicate, and a      *)
(* function where one would write an operator.                             *)
(***************************************************************************)
EXTENDS Integers, SequencesExt, FiniteSetTheorems, SequenceTheorems,
        WellFoundedInduction, TLAPS

\* Induction on the natural numbers, with a set in place of a predicate.
LEMMA NumberInduction ==
    ASSUME NEW G, 0 \in G, \A n \in Nat : n \in G => n + 1 \in G
    PROVE  Nat \subseteq G
  <1> DEFINE B == Nat \ G
             less == OpToRel(<, Nat)
  <1>1. \A m, n \in Nat : m < n => <<m, n>> \in less
    BY DEF OpToRel
  <1>2. IsWellFoundedOn(less, Nat)
    BY NatLessThanWellFounded
  <1> HIDE DEF less
  <1>3. SUFFICES ASSUME B # {} PROVE FALSE
    OBVIOUS
  <1>4. PICK n \in B : \A m \in B : ~ (<<m, n>> \in less)
    <2> HIDE DEF B
    <2>1. B \subseteq Nat
      BY DEF B
    <2>2. QED
      BY <1>2, <1>3, <2>1, WFMin
  <1>5. n \in Nat /\ n # 0 /\ n - 1 \in Nat /\ n - 1 < n
    BY <1>4
  <1>6. n - 1 \in G
    BY <1>1, <1>4, <1>5
  <1>7. QED
    BY <1>4, <1>5, <1>6

\* A recursion in which each value depends on the values before it has a solution.
LEMMA NumberRecursion ==
    ASSUME NEW S, NEW step \in [[Nat -> S] -> [Nat -> S]], S # {},
           \A f, g \in [Nat -> S], n \in Nat :
              (\A m \in Nat : m < n => f[m] = g[m]) => step[f][n] = step[g][n]
    PROVE  \E f \in [Nat -> S] : f = step[f]
  <1> DEFINE Solves(f, n) == f \in [Nat -> S] /\ \A m \in Nat : m < n => f[m] = step[f][m]
             G == {n \in Nat : \E f : Solves(f, n)}
             The(n) == CHOOSE f : Solves(f, n)
  <1>1. 0 \in G
    <2>1. PICK s \in S : TRUE
      OBVIOUS
    <2>2. Solves([n \in Nat |-> s], 0)
      OBVIOUS
    <2> HIDE DEF Solves
    <2>3. QED
      BY <2>2
  <1>2. ASSUME NEW n \in Nat, n \in G PROVE n + 1 \in G
    <2>1. PICK f : Solves(f, n)
      BY <1>2
    <2> DEFINE g == [f EXCEPT ![n] = step[f][n]]
    <2>2. f \in [Nat -> S] /\ step[f] \in [Nat -> S]
      BY <2>1
    <2>3. /\ g \in [Nat -> S] /\ g[n] = step[f][n]
          /\ \A m \in Nat : m < n => f[m] = g[m]
      BY <2>2
    <2> HIDE DEF g
    <2>4. ASSUME NEW m \in Nat, m < n + 1 PROVE g[m] = step[g][m]
      <3>1. step[f][m] = step[g][m]
        <4>1. \A k \in Nat : k < m => f[k] = g[k]
          BY <2>3, <2>4
        <4>2. QED
          BY <2>2, <2>3, <4>1
      <3>2. CASE m < n
        BY <2>1, <2>3, <3>1, <3>2
      <3>3. CASE m = n
        BY <2>3, <3>1, <3>3
      <3>4. QED
        BY <2>4, <3>2, <3>3
    <2>5. Solves(g, n + 1)
      BY <2>3, <2>4
    <2> HIDE DEF Solves
    <2>6. QED
      BY <2>5
  <1>3. \A n \in Nat : Solves(The(n), n)
    <2> HIDE DEF Solves
    <2>1. Nat \subseteq G
      <3> HIDE DEF G
      <3>1. QED
        BY <1>1, <1>2, NumberInduction
    <2>2. QED
      BY <2>1
  <1> HIDE DEF The
  <1>4. ASSUME NEW f, NEW g, NEW n \in Nat, Solves(f, n), Solves(g, n)
        PROVE  \A m \in Nat : m < n => f[m] = g[m]
    <2> DEFINE H == {m \in Nat : \A k \in Nat : k < m /\ k < n => f[k] = g[k]}
    <2>1. 0 \in H
      OBVIOUS
    <2>2. ASSUME NEW m \in Nat, m \in H PROVE m + 1 \in H
      <3> SUFFICES ASSUME m < n PROVE f[m] = g[m]
        BY <2>2
      <3>1. step[f][m] = step[g][m]
        <4>1. \A k \in Nat : k < m => f[k] = g[k]
          BY <2>2
        <4>2. QED
          BY <1>4, <4>1
      <3>2. QED
        BY <1>4, <3>1
    <2>3. Nat \subseteq H
      <3> HIDE DEF H
      <3>1. QED
        BY <2>1, <2>2, NumberInduction
    <2>4. QED
      BY <2>3
  <1> DEFINE F == [n \in Nat |-> The(n + 1)[n]]
  <1>5. F \in [Nat -> S]
    BY <1>3
  <1>6. ASSUME NEW n \in Nat PROVE F[n] = step[F][n]
    <2>1. Solves(The(n + 1), n + 1)
      BY <1>3
    <2>2. F[n] = The(n + 1)[n] /\ The(n + 1)[n] = step[The(n + 1)][n]
      BY <2>1
    <2>3. ASSUME NEW m \in Nat, m < n PROVE The(n + 1)[m] = F[m]
      <3>1. Solves(The(m + 1), m + 1) /\ Solves(The(n + 1), m + 1)
        BY <1>3, <2>1, <2>3
      <3> HIDE DEF Solves
      <3>2. The(n + 1)[m] = The(m + 1)[m]
        BY <1>4, <3>1
      <3>3. QED
        BY <3>2
    <2>4. step[The(n + 1)][n] = step[F][n]
      BY <1>5, <2>1, <2>3
    <2>5. QED
      BY <2>2, <2>4
  <1> HIDE DEF F
  <1>7. F = step[F]
    <2>1. step[F] \in [Nat -> S]
      BY <1>5
    <2>2. QED
      BY <1>5, <1>6, <2>1
  <1>8. QED
    BY <1>5, <1>7

\* Strong induction.
LEMMA StrongInduction ==
    ASSUME NEW G, \A n \in Nat : (\A m \in Nat : m < n => m \in G) => n \in G
    PROVE  Nat \subseteq G
  <1> DEFINE H == {n \in Nat : \A m \in Nat : m < n => m \in G}
  <1>1. 0 \in H
    OBVIOUS
  <1>2. \A n \in Nat : n \in H => n + 1 \in H
    <2> TAKE n \in Nat
    <2> HAVE n \in H
    <2>1. n \in G
      OBVIOUS
    <2>2. \A m \in Nat : m < n + 1 => m < n \/ m = n
      OBVIOUS
    <2>3. QED
      BY <2>1, <2>2
  <1>3. Nat \subseteq H
    <2> HIDE DEF H
    <2>1. QED
      BY <1>1, <1>2, NumberInduction
  <1>4. QED
    BY <1>3

-----------------------------------------------------------------------------
(* Sequences: their lengths, their heads and one after the other.           *)

\* The sequences of some length are the functions on its indices.
LEMMA SequencesOf ==
    ASSUME NEW S, NEW n \in Nat, NEW s
    PROVE  s \in [1 .. n -> S] <=> s \in Seq(S) /\ Len(s) = n
  <1>1. ASSUME s \in [1 .. n -> S] PROVE s \in Seq(S) /\ Len(s) = n
    <2>1. s \in Seq(S)
      BY <1>1, SeqDef
    <2>2. DOMAIN s = 1 .. Len(s) /\ Len(s) \in Nat /\ DOMAIN s = 1 .. n
      BY <1>1, <2>1, LenProperties
    <2>3. \A i, j \in Nat : 1 .. i = 1 .. j => i = j
      OBVIOUS
    <2>4. QED
      BY ONLY <2>1, <2>2, <2>3, n \in Nat
  <1>2. ASSUME s \in Seq(S), Len(s) = n PROVE s \in [1 .. n -> S]
    BY <1>2, LenProperties
  <1>3. QED
    BY <1>1, <1>2

LEMMA Associates ==
    ASSUME NEW S, NEW p \in Seq(S), NEW q \in Seq(S), NEW r \in Seq(S)
    PROVE  (p \o q) \o r = p \o (q \o r)
  BY ONLY p \in Seq(S), q \in Seq(S), r \in Seq(S), ConcatAssociative

\* The same, where p, q and r are not names.
LEMMA AllAssociate ==
    ASSUME NEW S
    PROVE  \A p, q, r \in Seq(S) : (p \o q) \o r = p \o (q \o r)
  <1> TAKE p, q, r \in Seq(S)
  <1>1. QED
    BY Associates

LEMMA HeadAndTail ==
    ASSUME NEW S, NEW s \in Seq(S), s # <<>>
    PROVE  Head(s) \in S /\ Tail(s) \in Seq(S) /\ s = <<Head(s)>> \o Tail(s)
           /\ Len(Tail(s)) = Len(s) - 1 /\ Len(s) \in Nat /\ Len(s) >= 1
  BY HeadTailProperties, LenProperties, EmptySeq

\* The head and the tail of one sequence and another.
LEMMA HeadOfBoth ==
    ASSUME NEW S, NEW p \in Seq(S), NEW q \in Seq(S), p # <<>>
    PROVE  p \o q # <<>> /\ Head(p \o q) = Head(p) /\ Tail(p \o q) = Tail(p) \o q
  <1>1. /\ p \o q \in Seq(S) /\ Len(p \o q) = Len(p) + Len(q)
        /\ \A i \in 1 .. Len(p) + Len(q) : (p \o q)[i] = IF i <= Len(p) THEN p[i] ELSE q[i - Len(p)]
    BY ConcatProperties
  <1>2. Len(p) \in Nat /\ Len(p) >= 1 /\ Len(q) \in Nat
    BY LenProperties, EmptySeq
  <1>3. p \o q # <<>>
    BY <1>1, <1>2, EmptySeq
  <1>4. /\ Tail(p) \in Seq(S) /\ Len(Tail(p)) = Len(p) - 1
        /\ \A i \in 1 .. Len(Tail(p)) : Tail(p)[i] = p[i + 1]
    BY HeadTailProperties
  <1> DEFINE r == p \o q
             tail == Tail(r)
             both == Tail(p) \o q
  <1>5. r \in Seq(S) /\ r # <<>>
    BY <1>1, <1>3
  <1>6. Head(r) = Head(p)
    <2>1. Head(r) = r[1] /\ Head(p) = p[1]
      OBVIOUS
    <2>2. r[1] = p[1]
      BY <1>1, <1>2
    <2>3. QED
      BY <2>1, <2>2
  <1>7. /\ both \in Seq(S) /\ Len(both) = Len(p) - 1 + Len(q)
        /\ \A i \in 1 .. Len(p) - 1 + Len(q) :
              both[i] = IF i <= Len(p) - 1 THEN Tail(p)[i] ELSE q[i - (Len(p) - 1)]
    BY <1>4, ConcatProperties
  <1>8. \A i \in 1 .. Len(p) + Len(q) : r[i] = IF i <= Len(p) THEN p[i] ELSE q[i - Len(p)]
    BY <1>1
  <1>9. Len(r) = Len(p) + Len(q)
    BY <1>1
  <1> HIDE DEF r, both
  <1>10. tail \in Seq(S) /\ Len(tail) = Len(r) - 1 /\ \A i \in 1 .. Len(tail) : tail[i] = r[i + 1]
    BY <1>5, HeadTailProperties
  <1> HIDE DEF tail
  <1>11. ASSUME NEW i \in 1 .. Len(tail) PROVE tail[i] = both[i]
    <2>1. i \in 1 .. Len(p) - 1 + Len(q) /\ i + 1 \in 1 .. Len(p) + Len(q)
      BY <1>2, <1>9, <1>10
    <2>2. CASE i <= Len(p) - 1
      <3>1. i + 1 <= Len(p) /\ i \in 1 .. Len(Tail(p))
        BY <1>2, <1>4, <2>1, <2>2
      <3>2. QED
        BY <1>4, <1>7, <1>8, <1>10, <2>1, <2>2, <3>1
    <2>3. CASE ~ (i <= Len(p) - 1)
      <3>1. ~ (i + 1 <= Len(p)) /\ i + 1 - Len(p) = i - (Len(p) - 1)
        BY <1>2, <2>1, <2>3
      <3>2. QED
        BY <1>7, <1>8, <1>10, <2>1, <2>3, <3>1
    <2>4. QED
      BY <2>2, <2>3
  <1>12. tail = both
    <2>1. Len(tail) = Len(both)
      BY <1>2, <1>7, <1>9, <1>10
    <2>2. QED
      BY <1>7, <1>10, <1>11, <2>1, SeqEqual
  <1>13. QED
    BY <1>3, <1>6, <1>12 DEF r, tail, both

-----------------------------------------------------------------------------
(* A sequence cut in two.                                                   *)

LEMMA Cuts ==
    ASSUME NEW S, NEW s \in Seq(S), NEW n \in 0 .. Len(s)
    PROVE  /\ SubSeq(s, 1, n) \in Seq(S) /\ Len(SubSeq(s, 1, n)) = n
           /\ \A i \in 1 .. n : SubSeq(s, 1, n)[i] = s[i]
           /\ SubSeq(s, n + 1, Len(s)) \in Seq(S)
           /\ Len(SubSeq(s, n + 1, Len(s))) = Len(s) - n
           /\ \A i \in 1 .. Len(s) - n : SubSeq(s, n + 1, Len(s))[i] = s[n + i]
           /\ SubSeq(s, 1, n) \o SubSeq(s, n + 1, Len(s)) = s
  <1>1. Len(s) \in Nat /\ \A i \in 1 .. Len(s) : s[i] \in S
    BY LenProperties, ElementOfSeq
  <1>2. /\ SubSeq(s, 1, n) \in Seq(S) /\ Len(SubSeq(s, 1, n)) = n
        /\ \A i \in 1 .. n : SubSeq(s, 1, n)[i] = s[i]
    <2>1. \A i \in 1 .. n : s[i] \in S
      BY <1>1
    <2>2. /\ SubSeq(s, 1, n) \in Seq(S)
          /\ Len(SubSeq(s, 1, n)) = IF 1 <= n THEN n - 1 + 1 ELSE 0
          /\ \A i \in 1 .. n - 1 + 1 : SubSeq(s, 1, n)[i] = s[1 + i - 1]
      BY <1>1, <2>1, SubSeqProperties
    <2>3. QED
      BY <1>1, <2>2
  <1>3. /\ SubSeq(s, n + 1, Len(s)) \in Seq(S)
        /\ Len(SubSeq(s, n + 1, Len(s))) = Len(s) - n
        /\ \A i \in 1 .. Len(s) - n : SubSeq(s, n + 1, Len(s))[i] = s[n + i]
    <2> DEFINE m == n + 1
    <2>1. m \in Int /\ \A i \in m .. Len(s) : s[i] \in S
      BY <1>1
    <2>2. /\ SubSeq(s, m, Len(s)) \in Seq(S)
          /\ Len(SubSeq(s, m, Len(s))) = IF m <= Len(s) THEN Len(s) - m + 1 ELSE 0
          /\ \A i \in 1 .. Len(s) - m + 1 : SubSeq(s, m, Len(s))[i] = s[m + i - 1]
      BY <1>1, <2>1, SubSeqProperties
    <2>3. QED
      BY <1>1, <2>2
  <1>4. SubSeq(s, 1, n) \o SubSeq(s, n + 1, Len(s)) = s
    <2>1. 1 \in 1 .. Len(s) + 1 /\ n \in 1 - 1 .. Len(s) /\ Len(s) \in n .. Len(s)
      BY <1>1
    <2>2. SubSeq(s, 1, n) \o SubSeq(s, n + 1, Len(s)) = SubSeq(s, 1, Len(s))
      BY <2>1, ConcatAdjacentSubSeq
    <2>3. QED
      BY <2>2, SubSeqFull
  <1>5. QED
    BY <1>2, <1>3, <1>4

\* What was put together is cut at the joint.
LEMMA CutsAtJoint ==
    ASSUME NEW S, NEW s \in Seq(S), NEW t \in Seq(S)
    PROVE  /\ SubSeq(s \o t, 1, Len(s)) = s
           /\ SubSeq(s \o t, Len(s) + 1, Len(s \o t)) = t
  <1> DEFINE u == s \o t
  <1>1. /\ u \in Seq(S) /\ Len(u) = Len(s) + Len(t) /\ Len(s) \in Nat /\ Len(t) \in Nat
        /\ \A i \in 1 .. Len(s) + Len(t) : u[i] = IF i <= Len(s) THEN s[i] ELSE t[i - Len(s)]
    BY ConcatProperties, LenProperties
  <1> HIDE DEF u
  <1>2. Len(s) \in 0 .. Len(u)
    BY <1>1
  <1> DEFINE left == SubSeq(u, 1, Len(s))
             right == SubSeq(u, Len(s) + 1, Len(u))
  <1>3. /\ left \in Seq(S) /\ Len(left) = Len(s) /\ \A i \in 1 .. Len(s) : left[i] = u[i]
        /\ right \in Seq(S) /\ Len(right) = Len(u) - Len(s)
        /\ \A i \in 1 .. Len(u) - Len(s) : right[i] = u[Len(s) + i]
    BY <1>1, <1>2, Cuts
  <1> HIDE DEF left, right
  <1>4. left = s
    BY <1>1, <1>3, SeqEqual
  <1>5. right = t
    <2>1. Len(right) = Len(t)
      BY <1>1, <1>3
    <2>2. ASSUME NEW i \in 1 .. Len(t) PROVE right[i] = t[i]
      <3>1. Len(s) + i \in 1 .. Len(s) + Len(t) /\ ~ (Len(s) + i <= Len(s))
            /\ (Len(s) + i) - Len(s) = i
        BY <1>1
      <3>2. right[i] = u[Len(s) + i]
        BY <1>1, <1>3, <2>1
      <3>3. QED
        BY <1>1, <3>1, <3>2
    <2>3. QED
      BY <1>1, <1>3, <2>1, <2>2, SeqEqual
  <1>6. QED
    BY <1>4, <1>5 DEF left, right, u

-----------------------------------------------------------------------------
(* FlattenSeq.                                                              *)

\* What its recursion defines.
IsFlat(f, seqs) ==
    f = [i \in 1 .. Len(seqs) |-> IF i = 1 THEN seqs[i] ELSE f[i - 1] \o seqs[i]]

\* One sequence after the other is appended.
LEMMA Flattens ==
    ASSUME NEW S, NEW seqs \in Seq(Seq(S))
    PROVE  \E flat \in [Nat -> Seq(S)] :
              /\ flat[0] = <<>>
              /\ \A i \in 1 .. Len(seqs) : flat[i] = flat[i - 1] \o seqs[i]
              /\ FlattenSeq(seqs) = flat[Len(seqs)]
  <1> DEFINE L == Len(seqs)
             T == Seq(S)
             item == [n \in Nat |-> IF n > 0 /\ n <= L THEN seqs[n] ELSE <<>>]
             Step(f) == [n \in Nat |-> IF n = 0 THEN <<>> ELSE f[n - 1] \o item[n]]
             step == [f \in [Nat -> T] |-> Step(f)]
  <1>1. L \in Nat /\ (\A i \in 1 .. L : seqs[i] \in Seq(S)) /\ <<>> \in Seq(S)
    BY LenProperties, ElementOfSeq, EmptySeq
  <1>2. \A n \in Nat : item[n] \in Seq(S)
    <2> TAKE n \in Nat
    <2>1. n > 0 /\ n <= L => n \in 1 .. L
      BY <1>1
    <2>2. QED
      BY <1>1, <2>1
  <1>3. \A i \in 1 .. L : item[i] = seqs[i] /\ i \in Nat
    BY <1>1
  <1> HIDE DEF item, L
  <1>4. step \in [[Nat -> T] -> [Nat -> T]]
    <2>1. ASSUME NEW f \in [Nat -> T], NEW n \in Nat, n # 0 PROVE f[n - 1] \o item[n] \in T
      <3>1. f[n - 1] \in Seq(S) /\ item[n] \in Seq(S)
        BY <1>2, <2>1
      <3>2. QED
        BY <3>1, ConcatProperties
    <2>2. QED
      BY <1>1, <2>1
  <1>5. ASSUME NEW f \in [Nat -> T], NEW g \in [Nat -> T], NEW n \in Nat,
               \A m \in Nat : m < n => f[m] = g[m]
        PROVE  step[f][n] = step[g][n]
    <2>1. n # 0 => f[n - 1] = g[n - 1]
      BY <1>5
    <2>2. QED
      BY <2>1
  <1>6. T # {}
    BY <1>1
  <1>7. PICK flat \in [Nat -> T] : flat = step[flat]
    <2> HIDE DEF step, T
    <2>1. QED
      BY <1>4, <1>5, <1>6, NumberRecursion
  <1>8. flat[0] = <<>> /\ \A n \in Nat : n # 0 => flat[n] = flat[n - 1] \o item[n]
    BY <1>7
  <1>9. \A i \in 1 .. L : flat[i] = flat[i - 1] \o seqs[i]
    <2> TAKE i \in 1 .. L
    <2>1. i # 0 /\ i \in Nat
      BY <1>1
    <2>2. QED
      BY <1>3, <1>8, <2>1
  <1>10. FlattenSeq(seqs) = flat[L]
    <2>1. CASE L = 0
      <3>1. seqs = <<>>
        BY <2>1, EmptySeq DEF L
      <3>2. QED
        BY <1>8, <2>1, <3>1 DEF FlattenSeq, L
    <2>2. CASE L # 0
      <3> DEFINE g == [i \in 1 .. L |-> flat[i]]
                 chosen == CHOOSE f : IsFlat(f, seqs)
      <3>1. \A i \in 1 .. L : g[i] = IF i = 1 THEN seqs[i] ELSE g[i - 1] \o seqs[i]
        <4> TAKE i \in 1 .. L
        <4>1. CASE i = 1
          <5>1. flat[i - 1] = <<>>
            <6>1. i - 1 = 0
              BY <4>1
            <6>2. QED
              BY <1>8, <6>1
          <5>2. flat[i] = <<>> \o seqs[i] /\ seqs[i] \in Seq(S)
            BY <1>1, <1>9, <5>1
          <5>3. <<>> \o seqs[i] = seqs[i]
            BY <5>2, ConcatEmptySeq
          <5>4. QED
            BY <4>1, <5>2, <5>3
        <4>2. CASE i # 1
          <5>1. i - 1 \in 1 .. L
            BY <1>1, <4>2
          <5>2. QED
            BY <1>9, <4>2, <5>1
        <4>3. QED
          BY <4>1, <4>2
      <3>2. IsFlat(g, seqs)
        <4>1. g = [i \in 1 .. L |-> IF i = 1 THEN seqs[i] ELSE g[i - 1] \o seqs[i]]
          BY <3>1
        <4> HIDE DEF g
        <4>2. QED
          BY <4>1 DEF IsFlat, L
      <3>3. IsFlat(chosen, seqs)
        <4> HIDE DEF g
        <4>1. QED
          BY <3>2
      <3>4. FlattenSeq(seqs) = chosen[L]
        BY <2>2 DEF FlattenSeq, IsFlat, L
      <3> HIDE DEF chosen
      <3>5. \A i \in 1 .. L : chosen[i] = IF i = 1 THEN seqs[i] ELSE chosen[i - 1] \o seqs[i]
        BY <3>3 DEF IsFlat, L
      <3> DEFINE G == {n \in Nat : n > 0 /\ n <= L => chosen[n] = g[n]}
      <3> HIDE DEF g
      <3>6. 0 \in G
        OBVIOUS
      <3>7. ASSUME NEW n \in Nat, n \in G PROVE n + 1 \in G
        <4>1. n + 1 \in Nat
          OBVIOUS
        <4> SUFFICES ASSUME n + 1 <= L PROVE chosen[n + 1] = g[n + 1]
          BY <4>1, Zenon
        <4>2. n + 1 \in 1 .. L /\ (n + 1) - 1 = n /\ (n = 0 \/ n > 0) /\ n <= L
          BY <1>1
        <4>3. CASE n = 0
          BY <3>1, <3>5, <4>2, <4>3
        <4>4. CASE n > 0
          <5>1. chosen[n] = g[n] /\ n + 1 # 1
            BY <3>7, <4>2, <4>4
          <5>2. QED
            BY <3>1, <3>5, <4>2, <5>1
        <4>5. QED
          BY <4>2, <4>3, <4>4
      <3>8. chosen[L] = g[L]
        <4>1. Nat \subseteq G
          <5> HIDE DEF G
          <5>1. QED
            BY <3>6, <3>7, NumberInduction
        <4>2. L \in G /\ L > 0
          BY <1>1, <2>2, <4>1
        <4>3. QED
          BY <4>2
      <3>9. g[L] = flat[L]
        <4>1. L \in 1 .. L
          BY <1>1, <2>2
        <4>2. QED
          BY <4>1 DEF g
      <3>10. QED
        BY <3>4, <3>8, <3>9
    <2>3. QED
      BY <2>1, <2>2
  <1>11. QED
    BY <1>7, <1>8, <1>9, <1>10 DEF L

\* The first sequence comes first.
LEMMA FlattensFirst ==
    ASSUME NEW S, NEW seqs \in Seq(Seq(S)), seqs # <<>>
    PROVE  /\ Head(seqs) \in Seq(S) /\ FlattenSeq(Tail(seqs)) \in Seq(S)
           /\ FlattenSeq(seqs) = Head(seqs) \o FlattenSeq(Tail(seqs))
  <1> DEFINE T == Seq(S)
             L == Len(seqs)
             rest == Tail(seqs)
             first == Head(seqs)
  <1>0. \A p, q, r \in Seq(S) : (p \o q) \o r = p \o (q \o r)
    BY ONLY AllAssociate
  <1>1. /\ first \in T /\ rest \in Seq(T) /\ Len(rest) = L - 1 /\ L \in Nat /\ L >= 1
        /\ (\A i \in 1 .. L - 1 : rest[i] = seqs[i + 1]) /\ seqs[1] = first
    <2>1. seqs \in Seq(T)
      OBVIOUS
    <2> HIDE DEF T
    <2>2. /\ first \in T /\ rest \in Seq(T) /\ Len(rest) = L - 1 /\ L \in Nat /\ L >= 1
      BY <2>1, HeadAndTail
    <2>3. \A i \in 1 .. Len(rest) : rest[i] = seqs[i + 1]
      BY <2>1, HeadTailProperties
    <2>4. QED
      BY <2>2, <2>3
  <1>2. PICK flat \in [Nat -> Seq(S)] :
              /\ flat[0] = <<>>
              /\ \A i \in 1 .. L : flat[i] = flat[i - 1] \o seqs[i]
              /\ FlattenSeq(seqs) = flat[L]
    BY Flattens
  <1>3. PICK tail \in [Nat -> Seq(S)] :
              /\ tail[0] = <<>>
              /\ \A i \in 1 .. Len(rest) : tail[i] = tail[i - 1] \o rest[i]
              /\ FlattenSeq(rest) = tail[Len(rest)]
    BY <1>1, Flattens
  <1> DEFINE G == {i \in Nat : i <= L - 1 => flat[i + 1] = first \o tail[i]}
  <1> HIDE DEF L, rest, first, T
  <1>4. 0 \in G
    <2>1. 1 \in 1 .. L /\ flat[1 - 1] = <<>>
      BY <1>1, <1>2
    <2>2. flat[1] = <<>> \o first
      BY <1>1, <1>2, <2>1
    <2>3. <<>> \o first = first /\ first \o <<>> = first
      BY <1>1, ConcatEmptySeq DEF T
    <2>4. flat[0 + 1] = first \o tail[0]
      BY <1>3, <2>2, <2>3
    <2>5. QED
      BY <2>4
  <1>5. ASSUME NEW i \in Nat, i \in G, i + 1 <= L - 1
        PROVE  flat[i + 1 + 1] = first \o tail[i + 1]
    <2> DEFINE j == i + 1
    <2>1. /\ j \in 1 .. L - 1 /\ j + 1 \in 1 .. L /\ j - 1 = i /\ (j + 1) - 1 = j /\ i <= L - 1
          /\ j \in Nat
      BY <1>1, <1>5
    <2>2. flat[j] = first \o tail[i]
      BY <1>5, <2>1
    <2> HIDE DEF j
    <2>3. flat[j + 1] = flat[j] \o seqs[j + 1] /\ tail[j] = tail[i] \o rest[j]
      BY <1>1, <1>2, <1>3, <2>1
    <2>4. seqs[j + 1] = rest[j] /\ rest[j] \in T
      BY <1>1, <2>1, ElementOfSeq
    <2>5. (first \o tail[i]) \o rest[j] = first \o (tail[i] \o rest[j])
      <3> DEFINE a == tail[i]
                 b == rest[j]
      <3>1. first \in Seq(S) /\ a \in Seq(S) /\ b \in Seq(S)
        BY <1>1, <1>3, <2>4 DEF T
      <3> HIDE DEF a, b
      <3>2. (first \o a) \o b = first \o (a \o b)
        BY ONLY <3>1, <1>0
      <3>3. QED
        BY <3>2 DEF a, b
    <2>6. flat[j + 1] = first \o tail[j]
      BY <2>2, <2>3, <2>4, <2>5
    <2>7. QED
      BY <2>6 DEF j
  <1>6. L - 1 \in G
    <2>1. ASSUME NEW i \in Nat, i \in G PROVE i + 1 \in G
      <3>1. i + 1 \in Nat
        OBVIOUS
      <3>2. i + 1 <= L - 1 => flat[i + 1 + 1] = first \o tail[i + 1]
        BY <1>5, <2>1
      <3>3. QED
        BY <3>1, <3>2
    <2>3. Nat \subseteq G
      <3> HIDE DEF G
      <3>1. QED
        BY <1>4, <2>1, NumberInduction
    <2>4. L - 1 \in Nat
      BY <1>1
    <2>5. QED
      BY <2>3, <2>4
  <1>7. flat[L] = first \o tail[L - 1]
    <2>1. L - 1 + 1 = L /\ L - 1 <= L - 1
      BY <1>1
    <2>2. flat[L - 1 + 1] = first \o tail[L - 1]
      BY <1>6, <2>1
    <2>3. QED
      BY <2>1, <2>2
  <1>8. tail[L - 1] \in Seq(S)
    BY <1>1, <1>3
  <1>9. QED
    BY <1>1, <1>2, <1>3, <1>7, <1>8 DEF L, rest, first, T

-----------------------------------------------------------------------------
(* Sums.                                                                    *)

\* The sum of a function over a finite set.
SumOver(f, S) == MapThenSumSet(LAMBDA x : f[x], S)

\* What the iteration of MapThenSumSet defines, one element after the other.
IsSum(g, f, S) ==
    g = [s \in SUBSET S |->
            IF s = {} THEN 0
            ELSE f[CHOOSE x \in s : TRUE] + g[s \ {CHOOSE x \in s : TRUE}]]

-----------------------------------------------------------------------------
(* Induction over the subsets of a finite set.                              *)

\* A set G that has every subset of S whose smaller subsets it has, has them all.
LEMMA SubsetInduction ==
    ASSUME NEW S, IsFiniteSet(S), NEW G,
           \A T \in SUBSET S : (\A U \in SUBSET T : U # T => U \in G) => T \in G
    PROVE  \A T \in SUBSET S : T \in G
<1> DEFINE B == (SUBSET S) \ G
<1>1. SUFFICES ASSUME B # {} PROVE FALSE
  OBVIOUS
<1>2. B \subseteq FiniteSubsetsOf(S)
  BY FS_Subset DEF FiniteSubsetsOf
<1>3. IsWellFoundedOn(StrictSubsetOrdering(S), FiniteSubsetsOf(S))
  BY FS_StrictSubsetOrderingWellFounded
<1> HIDE DEF B
<1>4. PICK T \in B : \A U \in B : ~ (<<U, T>> \in StrictSubsetOrdering(S))
  BY <1>1, <1>2, <1>3, WFMin
<1>5. T \in SUBSET S /\ T \notin G
  BY <1>4 DEF B
<1>6. ASSUME NEW U \in SUBSET T, U # T PROVE U \in G
  <2>1. U \in SUBSET S
    BY <1>5
  <2>2. <<U, T>> \in StrictSubsetOrdering(S)
    BY <1>5, <1>6, <2>1 DEF StrictSubsetOrdering
  <2>3. QED
    BY <1>4, <2>1, <2>2 DEF B
<1>7. QED
  BY <1>5, <1>6

-----------------------------------------------------------------------------
(* The iteration is defined, and it is one.                                 *)

LEMMA SumStep ==
    ASSUME NEW f, NEW S, NEW g, IsSum(g, f, S), NEW T \in SUBSET S
    PROVE  /\ T = {} => g[T] = 0
           /\ T # {} => \E x \in T : x = (CHOOSE y \in T : TRUE) /\ g[T] = f[x] + g[T \ {x}]
  BY DEF IsSum

LEMMA ChosenIsIn == ASSUME NEW T, T # {} PROVE (CHOOSE x \in T : TRUE) \in T
  OBVIOUS

\* Sums over a set and over a larger one agree where both are defined.
LEMMA SumUnique ==
    ASSUME NEW f, NEW S, NEW R, IsFiniteSet(R), R \subseteq S,
           NEW g, NEW h, IsSum(g, f, S), IsSum(h, f, R)
    PROVE  \A T \in SUBSET R : g[T] = h[T]
<1> DEFINE G == {T \in SUBSET R : g[T] = h[T]}
<1>1. ASSUME NEW T \in SUBSET R, \A U \in SUBSET T : U # T => U \in G
      PROVE  T \in G
  <2>1. CASE T = {}
    BY <2>1 DEF IsSum
  <2>2. CASE T # {}
    <3> DEFINE x == CHOOSE y \in T : TRUE
    <3>1. x \in T
      BY <2>2
    <3>2. g[T] = f[x] + g[T \ {x}] /\ h[T] = f[x] + h[T \ {x}]
      BY <2>2 DEF IsSum
    <3>3. T \ {x} \in G
      BY <1>1, <3>1
    <3>4. QED
      BY <3>2, <3>3
  <2>3. QED
    BY <2>1, <2>2
<1> HIDE DEF G
<1>2. \A T \in SUBSET R : T \in G
  BY <1>1, SubsetInduction
<1>3. QED
  BY <1>2 DEF G

LEMMA SumExists ==
    ASSUME NEW f, NEW S, IsFiniteSet(S)
    PROVE  \E g : IsSum(g, f, S)
<1> DEFINE G == {T \in SUBSET S : \E g : IsSum(g, f, T)}
           The(T) == CHOOSE g : IsSum(g, f, T)
           c(T) == CHOOSE x \in T : TRUE
<1>1. ASSUME NEW T \in SUBSET S, \A U \in SUBSET T : U # T => U \in G
      PROVE  T \in G
  <2> DEFINE h == [s \in SUBSET T |->
                     IF s = {} THEN 0 ELSE f[c(s)] + The(s \ {c(s)})[s \ {c(s)}]]
  <2>1. ASSUME NEW s \in SUBSET T, s # {}
        PROVE  s \ {c(s)} \in SUBSET T /\ s \ {c(s)} # T /\ IsFiniteSet(s \ {c(s)})
    <3>1. c(s) \in s
      BY <2>1
    <3>2. IsFiniteSet(s \ {c(s)})
      BY FS_Subset, s \ {c(s)} \in SUBSET S
    <3>3. QED
      BY <3>1, <3>2
  <2>2. ASSUME NEW U \in SUBSET T, U # T
        PROVE  h[U] = The(U)[U]
    <3>1. IsFiniteSet(U) /\ IsSum(The(U), f, U)
      <4>1. IsFiniteSet(U)
        BY FS_Subset, U \in SUBSET S
      <4>2. QED
        BY <1>1, <2>2, <4>1
    <3>2. CASE U = {}
      BY <3>1, <3>2 DEF IsSum
    <3>3. CASE U # {}
      <4> DEFINE V == U \ {c(U)}
      <4>1. V \in SUBSET T /\ V # T /\ IsFiniteSet(V) /\ V \subseteq U
        BY <2>1, <3>3
      <4>2. IsSum(The(V), f, V)
        BY <1>1, <4>1
      <4>3. The(U)[V] = The(V)[V]
        <5> HIDE DEF V, The
        <5>1. \A W \in SUBSET V : The(U)[W] = The(V)[W]
          BY <3>1, <4>1, <4>2, SumUnique
        <5>2. QED
          BY <5>1
      <4>4. The(U)[U] = f[c(U)] + The(U)[V]
        BY <3>1, <3>3 DEF IsSum
      <4>5. h[U] = f[c(U)] + The(V)[V]
        BY <3>3
      <4>6. QED
        BY <4>3, <4>4, <4>5
    <3>4. QED
      BY <3>2, <3>3
  <2>3. h = [s \in SUBSET T |-> IF s = {} THEN 0 ELSE f[c(s)] + h[s \ {c(s)}]]
    <3>1. ASSUME NEW s \in SUBSET T
          PROVE  h[s] = IF s = {} THEN 0 ELSE f[c(s)] + h[s \ {c(s)}]
      <4>1. CASE s = {}
        BY <4>1
      <4>2. CASE s # {}
        <5>1. h[s \ {c(s)}] = The(s \ {c(s)})[s \ {c(s)}]
          <6> HIDE DEF h, The, c
          <6>1. QED
            BY <2>1, <2>2, <4>2
        <5>2. QED
          BY <4>2, <5>1
      <4>3. QED
        BY <4>1, <4>2
    <3>2. h = [s \in SUBSET T |-> h[s]]
      OBVIOUS
    <3> HIDE DEF h
    <3>3. QED
      BY <3>1, <3>2
  <2>4. IsSum(h, f, T)
    BY <2>3 DEF IsSum
  <2>5. QED
    BY <2>4
<1> HIDE DEF G
<1>2. \A T \in SUBSET S : T \in G
  BY <1>1, SubsetInduction
<1>3. S \in SUBSET S
  OBVIOUS
<1>4. QED
  BY <1>2, <1>3 DEF G

LEMMA SumIsSum ==
    ASSUME NEW f, NEW S, IsFiniteSet(S)
    PROVE  \E g : IsSum(g, f, S) /\ SumOver(f, S) = g[S]
<1>1. SumOver(f, S) = (CHOOSE g : IsSum(g, f, S))[S]
  BY DEF SumOver, IsSum, MapThenSumSet, MapThenFoldSet
<1>2. \E g : IsSum(g, f, S)
  BY SumExists
<1>3. QED
  BY <1>1, <1>2

-----------------------------------------------------------------------------
(* What a sum is, by its elements in any order.                             *)

LEMMA SumEmpty == ASSUME NEW f PROVE SumOver(f, {}) = 0
<1>1. PICK g : IsSum(g, f, {}) /\ SumOver(f, {}) = g[{}]
  BY SumIsSum, FS_EmptySet
<1>2. QED
  BY <1>1 DEF IsSum

LEMMA SumType ==
    ASSUME NEW f, NEW S, IsFiniteSet(S), \A x \in S : f[x] \in Nat
    PROVE  SumOver(f, S) \in Nat
<1>1. PICK g : IsSum(g, f, S) /\ SumOver(f, S) = g[S]
  BY SumIsSum
<1> DEFINE G == {T \in SUBSET S : g[T] \in Nat}
<1>2. ASSUME NEW T \in SUBSET S, \A U \in SUBSET T : U # T => U \in G
      PROVE  T \in G
  <2>1. CASE T = {}
    BY <1>1, <2>1 DEF IsSum
  <2>2. CASE T # {}
    <3>1. PICK x \in T : g[T] = f[x] + g[T \ {x}]
      BY <1>1, <2>2, SumStep
    <3>2. T \ {x} \in G
      BY <1>2
    <3>3. QED
      BY <3>1, <3>2
  <2>3. QED
    BY <2>1, <2>2
<1> HIDE DEF G
<1>3. \A T \in SUBSET S : T \in G
  BY <1>2, SubsetInduction
<1>4. S \in SUBSET S
  OBVIOUS
<1>5. QED
  BY <1>1, <1>3, <1>4 DEF G

\* The iteration over S, stopped at a subset, is the sum over that subset.
LEMMA SumOfSubset ==
    ASSUME NEW f, NEW S, IsFiniteSet(S), NEW g, IsSum(g, f, S), NEW T \in SUBSET S
    PROVE  SumOver(f, T) = g[T]
<1>1. IsFiniteSet(T)
  BY FS_Subset
<1>2. PICK h : IsSum(h, f, T) /\ SumOver(f, T) = h[T]
  BY <1>1, SumIsSum
<1>3. \A U \in SUBSET T : g[U] = h[U]
  BY <1>1, <1>2, SumUnique
<1>4. QED
  BY <1>2, <1>3

\* Any element may be taken first.
LEMMA SumRemove ==
    ASSUME NEW f, NEW S, IsFiniteSet(S), \A x \in S : f[x] \in Nat, NEW y \in S
    PROVE  SumOver(f, S) = f[y] + SumOver(f, S \ {y})
<1>1. PICK g : IsSum(g, f, S)
  BY SumExists
<1> DEFINE G == {T \in SUBSET S : \A z \in T : g[T] = f[z] + g[T \ {z}]}
<1>2. \A T \in SUBSET S : g[T] \in Nat
  <2>1. ASSUME NEW T \in SUBSET S PROVE g[T] \in Nat
    <3>1. SumOver(f, T) = g[T]
      BY <1>1, SumOfSubset
    <3>2. SumOver(f, T) \in Nat
      BY FS_Subset, SumType
    <3>3. QED
      BY <3>1, <3>2
  <2>2. QED
    BY <2>1
<1>3. ASSUME NEW T \in SUBSET S, \A U \in SUBSET T : U # T => U \in G
      PROVE  T \in G
  <2>1. ASSUME NEW z \in T PROVE g[T] = f[z] + g[T \ {z}]
    <3>1. PICK x \in T : g[T] = f[x] + g[T \ {x}]
      BY <1>1, SumStep
    <3>2. CASE x = z
      BY <3>1, <3>2
    <3>3. CASE x # z
      <4> DEFINE R == T \ {x, z}
      <4>1. g[T \ {x}] = f[z] + g[R]
        <5>1. T \ {x} \in G /\ z \in T \ {x} /\ (T \ {x}) \ {z} = R
          BY <1>3, <3>3
        <5>2. QED
          BY <5>1
      <4>2. PICK w \in T \ {z} : g[T \ {z}] = f[w] + g[(T \ {z}) \ {w}]
        <5>1. T \ {z} \in SUBSET S /\ T \ {z} # {}
          BY <3>3
        <5>2. QED
          BY <1>1, <5>1, SumStep
      <4>3. g[T \ {z}] = f[x] + g[R]
        <5>1. T \ {z} \in G /\ x \in T \ {z} /\ (T \ {z}) \ {x} = R
          BY <1>3, <3>3
        <5>2. QED
          BY <5>1
      <4>4. R \in SUBSET S /\ x \in S /\ z \in S /\ T \ {x} \in SUBSET S
        OBVIOUS
      <4>5. f[x] \in Nat /\ f[z] \in Nat /\ g[R] \in Nat
        BY <1>2, <4>4
      <4> HIDE DEF R, G
      <4>6. QED
        BY <3>1, <4>1, <4>3, <4>5
    <3>4. QED
      BY <3>2, <3>3
  <2>2. QED
    BY <2>1
<1> HIDE DEF G
<1>4. \A T \in SUBSET S : T \in G
  BY <1>3, SubsetInduction
<1>5. g[S] = f[y] + g[S \ {y}]
  BY <1>4 DEF G
<1>6. SumOver(f, S) = g[S] /\ SumOver(f, S \ {y}) = g[S \ {y}]
  <2>1. S \in SUBSET S /\ S \ {y} \in SUBSET S
    OBVIOUS
  <2>2. QED
    BY <1>1, <2>1, SumOfSubset
<1>7. QED
  BY <1>5, <1>6

\* Functions that agree on a set have the same sum over it.
LEMMA SumSame ==
    ASSUME NEW f, NEW h, NEW S, IsFiniteSet(S), \A x \in S : f[x] = h[x]
    PROVE  SumOver(f, S) = SumOver(h, S)
<1>1. PICK g : IsSum(g, f, S) /\ SumOver(f, S) = g[S]
  BY SumIsSum
<1>2. IsSum(g, h, S)
  <2>1. \A s \in SUBSET S : s # {} => f[CHOOSE x \in s : TRUE] = h[CHOOSE x \in s : TRUE]
    BY ChosenIsIn
  <2>2. QED
    BY <1>1, <2>1 DEF IsSum
<1>3. S \in SUBSET S
  OBVIOUS
<1>4. SumOver(h, S) = g[S]
  BY <1>2, <1>3, SumOfSubset
<1>5. QED
  BY <1>1, <1>4

\* One value changed changes the sum by as much.
LEMMA SumChange ==
    ASSUME NEW f, NEW h, NEW S, IsFiniteSet(S), NEW y \in S,
           \A x \in S : f[x] \in Nat /\ h[x] \in Nat,
           \A x \in S \ {y} : f[x] = h[x]
    PROVE  SumOver(h, S) + f[y] = SumOver(f, S) + h[y]
<1>1. IsFiniteSet(S \ {y})
  BY FS_RemoveElement
<1>2. SumOver(f, S \ {y}) = SumOver(h, S \ {y})
  BY <1>1, SumSame
<1>3. SumOver(f, S) = f[y] + SumOver(f, S \ {y})
  BY SumRemove
<1>4. SumOver(h, S) = h[y] + SumOver(h, S \ {y})
  BY SumRemove
<1>5. SumOver(f, S \ {y}) \in Nat /\ f[y] \in Nat /\ h[y] \in Nat
  BY <1>1, SumType
<1>6. QED
  BY <1>2, <1>3, <1>4, <1>5

\* The sum over the image of a set under a map that keeps its elements apart.
LEMMA SumImage ==
    ASSUME NEW f, NEW m, NEW h, NEW S, IsFiniteSet(S),
           \A x, y \in S : m[x] = m[y] => x = y,
           \A x \in S : h[x] = f[m[x]] /\ h[x] \in Nat
    PROVE  /\ IsFiniteSet({m[x] : x \in S})
           /\ SumOver(f, {m[x] : x \in S}) = SumOver(h, S)
<1> DEFINE image(T) == {m[x] : x \in T}
           G == {T \in SUBSET S : IsFiniteSet(image(T)) /\ SumOver(f, image(T)) = SumOver(h, T)}
<1>1. ASSUME NEW T \in SUBSET S, \A U \in SUBSET T : U # T => U \in G
      PROVE  T \in G
  <2>1. CASE T = {}
    <3>1. image(T) = {}
      BY <2>1
    <3> HIDE DEF image
    <3>2. QED
      BY <2>1, <3>1, SumEmpty, FS_EmptySet
  <2>2. CASE T # {}
    <3>1. PICK x \in T : TRUE
      BY <2>2
    <3> DEFINE U == T \ {x}
    <3>2. U \in G
      BY <1>1
    <3>3. /\ image(T) = image(U) \cup {m[x]} /\ image(T) \ {m[x]} = image(U)
          /\ m[x] \in image(T) /\ \A y \in image(T) : f[y] \in Nat
      <4>1. image(T) = image(U) \cup {m[x]} /\ m[x] \in image(T)
        OBVIOUS
      <4>2. m[x] \notin image(U)
        OBVIOUS
      <4>3. \A y \in T : f[m[y]] \in Nat
        BY T \in SUBSET S
      <4>4. \A y \in image(T) : f[y] \in Nat
        BY <4>3
      <4> HIDE DEF image
      <4>5. QED
        BY <4>1, <4>2, <4>4
    <3>4. IsFiniteSet(T) /\ \A y \in T : h[y] \in Nat
      <4>1. IsFiniteSet(T)
        BY FS_Subset
      <4>2. QED
        BY <4>1
    <3> DEFINE big == image(T)
               small == image(U)
    <3>5. IsFiniteSet(small) /\ SumOver(f, small) = SumOver(h, U)
      BY <3>2
    <3>6. /\ big = small \cup {m[x]} /\ big \ {m[x]} = small
          /\ m[x] \in big /\ \A y \in big : f[y] \in Nat
      BY <3>3
    <3>7. SumOver(h, T) = h[x] + SumOver(h, U)
      BY <3>4, SumRemove
    <3>8. IsFiniteSet(big) /\ SumOver(f, big) = SumOver(h, T)
      <4> HIDE DEF big, small
      <4>1. IsFiniteSet(big)
        BY <3>5, <3>6, FS_AddElement
      <4>2. SumOver(f, big) = f[m[x]] + SumOver(f, small)
        BY ONLY <3>6, <4>1, SumRemove
      <4>3. h[x] = f[m[x]]
        OBVIOUS
      <4>4. QED
        BY <3>5, <3>7, <4>1, <4>2, <4>3
    <3>9. QED
      BY <3>8
  <2>3. QED
    BY <2>1, <2>2
<1> HIDE DEF G
<1>2. \A T \in SUBSET S : T \in G
  BY <1>1, SubsetInduction
<1>3. S \in SUBSET S
  OBVIOUS
<1>4. QED
  BY <1>2, <1>3 DEF G
=============================================================================
