-------------------------- MODULE BmpParser_proofs --------------------------
(***************************************************************************)
(* What BMPParser promises of every sequence of octets (BmpParserInputs).  *)
(***************************************************************************)
EXTENDS BmpParserInputs, SequenceTheorems, WellFoundedInduction, TLAPS

-----------------------------------------------------------------------------
\* Induction over the natural numbers and slices.

\* The theorem of the library takes an operator; the members of G are what holds.
LEMMA SetNatInduction ==
  ASSUME NEW G, 0 \in G, \A n \in Nat : n \in G => n + 1 \in G
  PROVE  Nat \subseteq G
<1> DEFINE Bad == Nat \ G
<1>1. SUFFICES ASSUME Bad # {} PROVE FALSE
  OBVIOUS
<1>2. PICK n \in Bad : \A m \in Bad : <<m, n>> \notin OpToRel(<, Nat)
  <2> HIDE DEF Bad
  <2>1. Bad \subseteq Nat
    BY DEF Bad
  <2>. QED
    BY <1>1, <2>1, NatLessThanWellFounded, WFMin
<1>3. n \in Nat /\ n # 0 /\ n - 1 \in Nat
  OBVIOUS
<1>4. n - 1 \in Bad
  BY <1>3
<1>5. <<n - 1, n>> \in OpToRel(<, Nat)
  BY <1>3 DEF OpToRel
<1>. QED
  BY <1>2, <1>4, <1>5

\* G holds from the end on, and where it holds of all that follows.
Backwards(end, G) ==
  /\ \A n \in Nat : n >= end => n \in G
  /\ \A n \in Nat : n < end /\ (\A k \in Nat : k > n => k \in G) => n \in G

\* Induction from the end backwards, for a loop whose offset only grows.
LEMMA OffsetInduction ==
  ASSUME NEW end \in Nat, NEW G, Backwards(end, G)
  PROVE  Nat \subseteq G
<1> DEFINE H == {k \in Nat : \A n \in Nat : n + k >= end => n \in G}
<1>0. /\ \A n \in Nat : n >= end => n \in G
      /\ \A n \in Nat : n < end /\ (\A k \in Nat : k > n => k \in G) => n \in G
  BY DEF Backwards
<1>1. 0 \in H
  BY <1>0
<1>2. ASSUME NEW k \in Nat, k \in H PROVE k + 1 \in H
  <2>1. ASSUME NEW n \in Nat, n + (k + 1) >= end PROVE n \in G
    <3>1. \A m \in Nat : m > n => m + k >= end
      BY <2>1
    <3>2. \A m \in Nat : m > n => m \in G
      BY <1>2, <3>1
    <3>. QED
      BY <1>0, <3>2
  <2>. QED
    BY <2>1
<1>3. end \in H
  <2> HIDE DEF H
  <2>. QED
    BY <1>1, <1>2, SetNatInduction
<1>. QED
  BY <1>3

\* A slice has the octets from one offset to the other.
LEMMA SliceProperties ==
  ASSUME NEW S, NEW d \in Seq(S), NEW a \in Nat, NEW b \in Nat
  PROVE  /\ Slice(d, a, b) \in Seq(S)
         /\ a <= b /\ b <= Len(d) =>
              /\ Len(Slice(d, a, b)) = b - a
              /\ \A i \in 1..(b - a) : Slice(d, a, b)[i] = d[a + i]
<1> DEFINE m == IF b < Len(d) THEN b ELSE Len(d)
<1>1. Len(d) \in Nat /\ m \in Nat /\ m <= Len(d) /\ a + 1 \in Int
  BY LenProperties
<1>2. \A i \in (a + 1)..m : d[i] \in S
  BY <1>1, ElementOfSeq
<1>3. Slice(d, a, b) = SubSeq(d, a + 1, m)
  BY DEF Slice
<1> HIDE DEF m
<1>4. /\ SubSeq(d, a + 1, m) \in Seq(S)
      /\ Len(SubSeq(d, a + 1, m)) = IF a + 1 <= m THEN m - (a + 1) + 1 ELSE 0
      /\ \A i \in 1 .. m - (a + 1) + 1 : SubSeq(d, a + 1, m)[i] = d[(a + 1) + i - 1]
  BY <1>1, <1>2, SubSeqProperties
<1>5. ASSUME a <= b, b <= Len(d)
      PROVE  /\ Len(Slice(d, a, b)) = b - a
             /\ \A i \in 1..(b - a) : Slice(d, a, b)[i] = d[a + i]
  <2>1. m = b
    BY <1>1, <1>5 DEF m
  <2>2. \A i \in 1..(b - a) : Slice(d, a, b)[i] = d[(a + 1) + i - 1]
    BY <1>3, <1>4, <2>1
  <2>3. \A i \in 1..(b - a) : (a + 1) + i - 1 = a + i
    OBVIOUS
  <2>4. Len(Slice(d, a, b)) = b - a
    BY <1>3, <1>4, <2>1, <1>5
  <2>. QED
    BY <2>2, <2>3, <2>4
<1>. QED
  BY <1>3, <1>4, <1>5

\* One sequence is a prefix of another if they agree as far as it goes.
LEMMA PrefixIff ==
  ASSUME NEW S, NEW s \in Seq(S), NEW t \in Seq(S)
  PROVE  IsPrefix(s, t) <=> Len(s) <= Len(t) /\ \A i \in 1..Len(s) : s[i] = t[i]
<1>1. Len(s) \in Nat /\ Len(t) \in Nat
  BY LenProperties
<1>2. SubSeq(s, 1, Len(s)) = s
  BY SubSeqFull
<1>3. ASSUME Len(s) <= Len(t)
      PROVE  /\ SubSeq(t, 1, Len(s)) \in Seq(S) /\ Len(SubSeq(t, 1, Len(s))) = Len(s)
             /\ \A i \in 1..Len(s) : SubSeq(t, 1, Len(s))[i] = t[i]
  <2>1. \A i \in 1..Len(s) : t[i] \in S
    BY <1>1, <1>3, ElementOfSeq
  <2>2. /\ SubSeq(t, 1, Len(s)) \in Seq(S)
        /\ Len(SubSeq(t, 1, Len(s))) = IF 1 <= Len(s) THEN Len(s) - 1 + 1 ELSE 0
        /\ \A i \in 1 .. Len(s) - 1 + 1 : SubSeq(t, 1, Len(s))[i] = t[1 + i - 1]
    BY <1>1, <2>1, SubSeqProperties
  <2>. QED
    BY <1>1, <2>2
<1>4. ASSUME Len(s) <= Len(t), \A i \in 1..Len(s) : s[i] = t[i]
      PROVE  SubSeq(t, 1, Len(s)) = s
  BY <1>3, <1>4, SeqEqual
<1>. QED
  BY <1>1, <1>2, <1>3, <1>4 DEF IsPrefix

-----------------------------------------------------------------------------
\* Numbers.

OctetRange == 0..255

\* What a number is the fixed point of.
NumberBody(octets, f, n) == IF n = 0 THEN 0 ELSE f[n - 1] * 256 + octets[n]

NumberFrom(octets) == CHOOSE f : f = [n \in 0..Len(octets) |-> NumberBody(octets, f, n)]

\* The recursion of Number is well defined.
LEMMA NumberEquation ==
  ASSUME NEW octets, Len(octets) \in Nat
  PROVE  /\ Number(octets) = NumberFrom(octets)[Len(octets)]
         /\ \A n \in 0..Len(octets) :
              NumberFrom(octets)[n] = NumberBody(octets, NumberFrom(octets), n)
<1> DEFINE D == 0..Len(octets)
           Upto(f, k) == \A n \in D : n <= k => f[n] = NumberBody(octets, f, n)
           G == {k \in Nat : \E f : Upto(f, k)}
<1>1. 0 \in G
  <2>1. Upto([n \in D |-> 0], 0)
    BY DEF NumberBody
  <2>. QED
    BY <2>1
<1>2. ASSUME NEW k \in Nat, k \in G PROVE k + 1 \in G
  <2>1. PICK f : Upto(f, k)
    BY <1>2
  <2> DEFINE g == [n \in D |-> NumberBody(octets, f, n)]
  <2>2. ASSUME NEW n \in D, n <= k + 1 PROVE g[n] = NumberBody(octets, g, n)
    <3>1. CASE n = 0
      BY <3>1 DEF NumberBody
    <3>2. CASE n # 0
      <4>1. n - 1 \in D /\ n - 1 <= k
        BY <2>2, <3>2
      <4>2. g[n - 1] = f[n - 1]
        BY <2>1, <4>1
      <4>3. g[n] = f[n - 1] * 256 + octets[n]
        BY <3>2 DEF NumberBody
      <4>. QED
        BY <3>2, <4>2, <4>3 DEF NumberBody
    <3>. QED
      BY <3>1, <3>2
  <2>3. Upto(g, k + 1)
    BY <2>2
  <2> HIDE DEF g, Upto
  <2>. QED
    BY <2>3
<1>3. PICK f : Upto(f, Len(octets))
  <2> HIDE DEF G
  <2>1. Len(octets) \in G
    BY <1>1, <1>2, SetNatInduction
  <2>. QED
    BY <2>1 DEF G
<1> DEFINE g == [n \in D |-> f[n]]
<1>4. ASSUME NEW n \in D PROVE g[n] = NumberBody(octets, g, n)
  <2>1. n # 0 => n - 1 \in D
    OBVIOUS
  <2>2. f[n] = NumberBody(octets, f, n)
    BY <1>3
  <2>. QED
    BY <2>1, <2>2 DEF NumberBody
<1>5. g = [n \in D |-> NumberBody(octets, g, n)]
  BY <1>4
<1>6. NumberFrom(octets) = [n \in D |-> NumberBody(octets, NumberFrom(octets), n)]
  BY <1>5 DEF NumberFrom
<1>7. Number(octets) = NumberFrom(octets)[Len(octets)]
  BY DEF Number, NumberFrom, NumberBody
<1>. QED
  BY <1>6, <1>7

\* A number of octets is a natural number.
LEMMA NumberType ==
  ASSUME NEW octets \in Seq(OctetRange) PROVE Number(octets) \in Nat
<1> DEFINE number == NumberFrom(octets)
           D == 0..Len(octets)
           H == {k \in Nat : k \in D => number[k] \in Nat}
<1>1. Len(octets) \in Nat /\ \A n \in 1..Len(octets) : octets[n] \in Nat
  <2>1. Len(octets) \in Nat /\ \A n \in 1..Len(octets) : octets[n] \in OctetRange
    BY LenProperties, ElementOfSeq
  <2>2. \A x \in OctetRange : x \in Nat
    BY DEF OctetRange
  <2>. QED
    BY <2>1, <2>2
<1>2. /\ Number(octets) = number[Len(octets)]
      /\ \A n \in D : number[n] = NumberBody(octets, number, n)
  BY <1>1, NumberEquation
<1> HIDE DEF number
<1>3. 0 \in H
  BY <1>1, <1>2 DEF NumberBody
<1>4. ASSUME NEW k \in Nat, k \in H PROVE k + 1 \in H
  <2>1. ASSUME k + 1 \in D PROVE number[k + 1] \in Nat
    <3>1. k \in D /\ number[k] \in Nat /\ octets[k + 1] \in Nat /\ (k + 1) - 1 = k /\ k + 1 # 0
      BY <1>1, <1>4, <2>1
    <3>2. number[k + 1] = number[(k + 1) - 1] * 256 + octets[k + 1]
      BY <1>2, <2>1, <3>1 DEF NumberBody
    <3>. QED
      BY <3>1, <3>2
  <2>. QED
    BY <2>1
<1>5. Len(octets) \in H
  <2> HIDE DEF H
  <2>. QED
    BY <1>1, <1>3, <1>4, SetNatInduction
<1>. QED
  BY <1>1, <1>2, <1>5

-----------------------------------------------------------------------------
\* The loop over prefixes.

\* The prefix at an offset and the offset behind it.
NextAt(d, o) == o + 1 + PrefixOctets(At(d, o))
PrefixAt(d, o) == [bits |-> At(d, o), octets |-> Slice(d, o + 1, NextAt(d, o))]

\* One round of the loop.
NlriBody(d, end, f, o) ==
  IF o >= end THEN {<<>>}
  ELSE IF o >= Len(d) THEN {}
  ELSE IF NextAt(d, o) > end THEN {<<>>}
  ELSE IF Len(PrefixAt(d, o).octets) > 4 THEN {}
  ELSE {<<PrefixAt(d, o)>> \o rest : rest \in f[NextAt(d, o)]}

NlriFrom(d, end) == CHOOSE f : f = [o \in Nat |-> NlriBody(d, end, f, o)]

\* The parse is the value of the recursive function.
LEMMA NlriIsFrom ==
  ASSUME NEW d, NEW o, NEW end PROVE Nlri(d, o, end) = NlriFrom(d, end)[o]
BY DEF Nlri, NlriFrom, NlriBody, NextAt, PrefixAt

\* The next prefix is further on.
LEMMA NextIsFurther ==
  ASSUME NEW d \in Seq(OctetRange), NEW o \in Nat, o < Len(d)
  PROVE  /\ At(d, o) \in 0..255 /\ PrefixOctets(At(d, o)) \in Nat
         /\ NextAt(d, o) \in Nat /\ NextAt(d, o) > o
         /\ 8 * PrefixOctets(At(d, o)) >= At(d, o) /\ 8 * PrefixOctets(At(d, o)) < At(d, o) + 8
<1>1. o + 1 \in 1..Len(d)
  BY LenProperties
<1>2. At(d, o) \in 0..255
  BY <1>1, ElementOfSeq DEF At, OctetRange
<1>3. \A b \in 0..255 : /\ (b + 7) \div 8 \in Nat
                        /\ 8 * ((b + 7) \div 8) >= b /\ 8 * ((b + 7) \div 8) < b + 8
  OBVIOUS
<1>4. /\ PrefixOctets(At(d, o)) \in Nat
      /\ 8 * PrefixOctets(At(d, o)) >= At(d, o) /\ 8 * PrefixOctets(At(d, o)) < At(d, o) + 8
  BY <1>2, <1>3 DEF PrefixOctets
<1>5. NextAt(d, o) \in Nat /\ NextAt(d, o) > o
  BY <1>4 DEF NextAt
<1>. QED
  BY <1>2, <1>4, <1>5

\* The loop is well defined: an offset is only ever followed by a greater one.
LEMMA NlriEquation ==
  ASSUME NEW d \in Seq(OctetRange), NEW end \in Nat, NEW o \in Nat
  PROVE  Nlri(d, o, end) = NlriBody(d, end, NlriFrom(d, end), o)
<1> DEFINE From(f, k) == \A n \in Nat : n + k >= end => f[n] = NlriBody(d, end, f, n)
           G == {k \in Nat : \E f : From(f, k)}
<1>0. ASSUME NEW f, NEW g, NEW n \in Nat,
             n < Len(d) /\ n < end => f[NextAt(d, n)] = g[NextAt(d, n)]
      PROVE  NlriBody(d, end, f, n) = NlriBody(d, end, g, n)
  <2>1. CASE f[NextAt(d, n)] = g[NextAt(d, n)]
    BY <2>1 DEF NlriBody
  <2>2. CASE ~(n < Len(d) /\ n < end)
    <3>1. n >= end \/ n >= Len(d)
      BY <2>2, LenProperties
    <3>. QED
      BY <3>1 DEF NlriBody
  <2>. QED
    BY <1>0, <2>1, <2>2
<1>1. 0 \in G
  <2>1. From([n \in Nat |-> {<<>>}], 0)
    BY DEF NlriBody
  <2>. QED
    BY <2>1
<1>2. ASSUME NEW k \in Nat, k \in G PROVE k + 1 \in G
  <2>1. PICK f : From(f, k)
    BY <1>2
  <2> DEFINE g == [n \in Nat |-> NlriBody(d, end, f, n)]
  <2>2. ASSUME NEW n \in Nat, n + (k + 1) >= end PROVE g[n] = NlriBody(d, end, g, n)
    <3>1. ASSUME n < Len(d) PROVE f[NextAt(d, n)] = g[NextAt(d, n)]
      <4>1. NextAt(d, n) \in Nat /\ NextAt(d, n) + k >= end
        BY <2>2, <3>1, NextIsFurther
      <4>. QED
        BY <2>1, <4>1
    <3>. QED
      BY <1>0, <3>1
  <2>3. From(g, k + 1)
    BY <2>2
  <2> HIDE DEF g, From
  <2>. QED
    BY <2>3
<1>3. PICK f : From(f, end)
  <2> HIDE DEF G
  <2>1. end \in G
    BY <1>1, <1>2, SetNatInduction
  <2>. QED
    BY <2>1 DEF G
<1> DEFINE g == [n \in Nat |-> f[n]]
<1>4. ASSUME NEW n \in Nat PROVE g[n] = NlriBody(d, end, g, n)
  <2>1. ASSUME n < Len(d) PROVE f[NextAt(d, n)] = g[NextAt(d, n)]
    BY <2>1, NextIsFurther
  <2>2. f[n] = NlriBody(d, end, f, n)
    BY <1>3
  <2>. QED
    BY <1>0, <2>1, <2>2
<1>5. g = [n \in Nat |-> NlriBody(d, end, g, n)]
  BY <1>4
<1>6. NlriFrom(d, end) = [n \in Nat |-> NlriBody(d, end, NlriFrom(d, end), n)]
  BY <1>5 DEF NlriFrom
<1>. QED
  BY <1>6, NlriIsFrom

-----------------------------------------------------------------------------
\* Flattened sequences.

FlatBody(ss, f, i) == IF i = 1 THEN ss[i] ELSE f[i - 1] \o ss[i]
Flat(ss) == CHOOSE f : f = [i \in 1..Len(ss) |-> FlatBody(ss, f, i)]

\* The recursion of FlattenSeq is well defined.
LEMMA FlatEquation ==
  ASSUME NEW S, NEW ss \in Seq(S)
  PROVE  Flat(ss) = [i \in 1..Len(ss) |-> FlatBody(ss, Flat(ss), i)]
<1> DEFINE D == 1..Len(ss)
           Upto(f, k) == \A n \in D : n <= k => f[n] = FlatBody(ss, f, n)
           G == {k \in Nat : \E f : Upto(f, k)}
<1>0. Len(ss) \in Nat
  BY LenProperties
<1>1. 0 \in G
  <2>1. Upto([n \in D |-> 0], 0)
    BY <1>0
  <2>. QED
    BY <2>1
<1>2. ASSUME NEW k \in Nat, k \in G PROVE k + 1 \in G
  <2>1. PICK f : Upto(f, k)
    BY <1>2
  <2> DEFINE g == [n \in D |-> FlatBody(ss, f, n)]
  <2>2. ASSUME NEW n \in D, n <= k + 1 PROVE g[n] = FlatBody(ss, g, n)
    <3>1. CASE n = 1
      BY <3>1 DEF FlatBody
    <3>2. CASE n # 1
      <4>1. n - 1 \in D /\ n - 1 <= k
        BY <1>0, <2>2, <3>2
      <4>2. g[n - 1] = f[n - 1]
        BY <2>1, <4>1
      <4>3. g[n] = f[n - 1] \o ss[n]
        BY <3>2 DEF FlatBody
      <4>. QED
        BY <3>2, <4>2, <4>3 DEF FlatBody
    <3>. QED
      BY <3>1, <3>2
  <2>3. Upto(g, k + 1)
    BY <2>2
  <2> HIDE DEF g, Upto
  <2>. QED
    BY <2>3
<1>3. PICK f : Upto(f, Len(ss))
  <2> HIDE DEF G
  <2>1. Len(ss) \in G
    BY <1>0, <1>1, <1>2, SetNatInduction
  <2>. QED
    BY <2>1 DEF G
<1> DEFINE g == [n \in D |-> f[n]]
<1>4. ASSUME NEW n \in D PROVE g[n] = FlatBody(ss, g, n)
  <2>1. n # 1 => n - 1 \in D
    BY <1>0
  <2>2. f[n] = FlatBody(ss, f, n)
    BY <1>0, <1>3
  <2>. QED
    BY <2>1, <2>2 DEF FlatBody
<1>5. g = [n \in D |-> FlatBody(ss, g, n)]
  BY <1>4
<1>. QED
  BY <1>5 DEF Flat

\* What is flattened is a sequence of what the parts are of.
LEMMA FlatType ==
  ASSUME NEW S, NEW ss \in Seq(Seq(S))
  PROVE  \A i \in 1..Len(ss) : Flat(ss)[i] \in Seq(S)
<1> DEFINE G == {k \in Nat : k \in 1..Len(ss) => Flat(ss)[k] \in Seq(S)}
<1>0. /\ Len(ss) \in Nat /\ \A i \in 1..Len(ss) : ss[i] \in Seq(S)
      /\ \A i \in 1..Len(ss) : Flat(ss)[i] = FlatBody(ss, Flat(ss), i)
  BY LenProperties, ElementOfSeq, FlatEquation
<1>1. 0 \in G
  OBVIOUS
<1>2. ASSUME NEW k \in Nat, k \in G PROVE k + 1 \in G
  <2>1. ASSUME k + 1 \in 1..Len(ss), k # 0 PROVE Flat(ss)[k + 1] \in Seq(S)
    <3>1. k \in 1..Len(ss) /\ Flat(ss)[k] \in Seq(S) /\ ss[k + 1] \in Seq(S)
      BY <1>0, <1>2, <2>1
    <3>2. Flat(ss)[k + 1] = Flat(ss)[k] \o ss[k + 1]
      <4>1. k + 1 # 1 /\ (k + 1) - 1 = k
        BY <2>1
      <4>2. Flat(ss)[k + 1] = FlatBody(ss, Flat(ss), k + 1)
        BY <1>0, <2>1
      <4>. QED
        BY <4>1, <4>2 DEF FlatBody
    <3>. QED
      BY <3>1, <3>2, ConcatProperties
  <2>2. ASSUME k + 1 \in 1..Len(ss), k = 0 PROVE Flat(ss)[k + 1] \in Seq(S)
    BY <1>0, <2>2 DEF FlatBody
  <2>. QED
    BY <2>1, <2>2
<1> HIDE DEF G
<1>3. Nat \subseteq G
  BY <1>1, <1>2, SetNatInduction
<1>. QED
  BY <1>0, <1>3 DEF G

\* FlattenSeq in terms of this recursion.
LEMMA FlattenValue ==
  ASSUME NEW S, NEW ss \in Seq(Seq(S))
  PROVE  /\ FlattenSeq(ss) \in Seq(S)
         /\ ss = <<>> => FlattenSeq(ss) = <<>>
         /\ ss # <<>> => Len(ss) \in 1..Len(ss) /\ FlattenSeq(ss) = Flat(ss)[Len(ss)]
<1>1. Len(ss) \in Nat /\ (ss # <<>> => Len(ss) # 0) /\ Len(<<>>) = 0
  BY LenProperties, EmptySeq
<1>2. FlattenSeq(ss) = IF Len(ss) = 0 THEN ss ELSE Flat(ss)[Len(ss)]
  BY DEF FlattenSeq, Flat, FlatBody
<1>3. <<>> \in Seq(S)
  BY EmptySeq
<1>. QED
  BY <1>1, <1>2, <1>3, FlatType

\* The first part stands first.
LEMMA FlattenCons ==
  ASSUME NEW S, NEW a \in Seq(S), NEW ss \in Seq(Seq(S))
  PROVE  FlattenSeq(<<a>> \o ss) = a \o FlattenSeq(ss)
<1> DEFINE tt == <<a>> \o ss
           G == {k \in Nat : k \in 1..Len(ss) => Flat(tt)[k + 1] = a \o Flat(ss)[k]}
<1>1. <<a>> \in Seq(Seq(S)) /\ Len(<<a>>) = 1 /\ <<a>>[1] = a
  OBVIOUS
<1>2. /\ tt \in Seq(Seq(S)) /\ Len(tt) = Len(ss) + 1 /\ Len(ss) \in Nat
      /\ \A i \in 1..(1 + Len(ss)) : tt[i] = IF i <= 1 THEN a ELSE ss[i - 1]
  BY <1>1, LenProperties, ConcatProperties
<1> HIDE DEF tt
<1>3. /\ \A i \in 1..Len(tt) : Flat(tt)[i] = FlatBody(tt, Flat(tt), i)
      /\ \A i \in 1..Len(ss) : Flat(ss)[i] = FlatBody(ss, Flat(ss), i)
  BY <1>2, FlatEquation
<1>4. Flat(tt)[1] = a
  <2>1. 1 \in 1..Len(tt) /\ tt[1] = a
    BY <1>2
  <2>2. Flat(tt)[1] = FlatBody(tt, Flat(tt), 1)
    BY <1>3, <2>1
  <2>. QED
    BY <2>1, <2>2 DEF FlatBody
<1>5. 0 \in G
  OBVIOUS
<1>6. ASSUME NEW k \in Nat, k \in G PROVE k + 1 \in G
  <2> SUFFICES ASSUME k + 1 \in 1..Len(ss) PROVE Flat(tt)[(k + 1) + 1] = a \o Flat(ss)[k + 1]
    OBVIOUS
  <2>1. /\ (k + 1) + 1 \in 1..Len(tt) /\ ((k + 1) + 1) - 1 = k + 1 /\ (k + 1) + 1 # 1
        /\ (k + 1) - 1 = k
    BY <1>2
  <2>2. tt[(k + 1) + 1] = ss[k + 1]
    BY <1>2, <2>1
  <2>3. Flat(tt)[(k + 1) + 1] = Flat(tt)[k + 1] \o ss[k + 1]
    BY <1>3, <2>1, <2>2 DEF FlatBody
  <2>4. CASE k = 0
    <3>1. Flat(ss)[k + 1] = ss[k + 1] /\ Flat(tt)[k + 1] = a
      BY <1>3, <1>4, <2>4 DEF FlatBody
    <3>. QED
      BY <2>3, <3>1
  <2>5. CASE k # 0
    <3>1. k \in 1..Len(ss) /\ Flat(tt)[k + 1] = a \o Flat(ss)[k]
      <4>1. k \in 1..Len(ss)
        BY <1>2, <2>1, <2>5
      <4>. QED
        BY <1>6, <4>1
    <3>2. Flat(ss)[k + 1] = Flat(ss)[k] \o ss[k + 1]
      <4>1. Flat(ss)[k + 1] = FlatBody(ss, Flat(ss), k + 1) /\ k + 1 # 1
        BY <1>3, <2>5
      <4>. QED
        BY <2>1, <4>1 DEF FlatBody
    <3>3. Flat(ss)[k] \in Seq(S) /\ ss[k + 1] \in Seq(S)
      BY <3>1, FlatType, ElementOfSeq
    <3>4. (a \o Flat(ss)[k]) \o ss[k + 1] = a \o (Flat(ss)[k] \o ss[k + 1])
      <4>1. \A u, v \in Seq(S) : (a \o u) \o v = a \o (u \o v)
        BY ConcatAssociative
      <4>. QED
        BY <3>3, <4>1
    <3>. QED
      BY <2>3, <3>1, <3>2, <3>4
  <2>. QED
    BY <2>4, <2>5
<1>7. Nat \subseteq G
  <2> HIDE DEF G
  <2>. QED
    BY <1>5, <1>6, SetNatInduction
<1>8. FlattenSeq(tt) = Flat(tt)[Len(ss) + 1]
  <2>1. tt # <<>>
    BY <1>2, EmptySeq
  <2>. QED
    BY <1>2, <2>1, FlattenValue
<1>9. CASE ss = <<>>
  <2>1. Len(ss) = 0 /\ FlattenSeq(ss) = <<>> /\ a \o <<>> = a
    BY <1>9, EmptySeq, FlattenValue, ConcatEmptySeq
  <2>. QED
    BY <1>4, <1>8, <2>1 DEF tt
<1>10. CASE ss # <<>>
  <2>1. Len(ss) \in 1..Len(ss) /\ FlattenSeq(ss) = Flat(ss)[Len(ss)]
    BY <1>10, FlattenValue
  <2>2. Flat(tt)[Len(ss) + 1] = a \o Flat(ss)[Len(ss)]
    BY <1>2, <1>7, <2>1
  <2>. QED
    BY <1>8, <2>1, <2>2 DEF tt
<1>. QED
  BY <1>9, <1>10

-----------------------------------------------------------------------------
\* Prefixes that were read.

PrefixRecord == [bits : OctetRange, octets : Seq(OctetRange)]

EncodedPrefix(p) == <<p.bits>> \o p.octets

\* The octets of one prefix.
LEMMA EncodedPrefixType ==
  ASSUME NEW p \in PrefixRecord
  PROVE  /\ EncodedPrefix(p) \in Seq(OctetRange)
         /\ Len(EncodedPrefix(p)) = 1 + Len(p.octets)
         /\ EncodedPrefix(p)[1] = p.bits
         /\ \A i \in 1..Len(p.octets) : EncodedPrefix(p)[i + 1] = p.octets[i]
<1>1. p.bits \in OctetRange /\ p.octets \in Seq(OctetRange)
  BY DEF PrefixRecord
<1>2. <<p.bits>> \in Seq(OctetRange) /\ Len(<<p.bits>>) = 1 /\ <<p.bits>>[1] = p.bits
  BY <1>1
<1>3. Len(p.octets) \in Nat
  BY <1>1, LenProperties
<1>4. /\ <<p.bits>> \o p.octets \in Seq(OctetRange)
      /\ Len(<<p.bits>> \o p.octets) = 1 + Len(p.octets)
      /\ \A i \in 1..(1 + Len(p.octets)) :
           (<<p.bits>> \o p.octets)[i] = IF i <= 1 THEN <<p.bits>>[i] ELSE p.octets[i - 1]
  BY <1>1, <1>2, ConcatProperties
<1>5. \A i \in 1..Len(p.octets) : /\ i + 1 \in 1..(1 + Len(p.octets))
                                  /\ ~(i + 1 <= 1) /\ (i + 1) - 1 = i
  BY <1>3
<1>6. 1 \in 1..(1 + Len(p.octets))
  BY <1>3
<1>. QED
  BY <1>2, <1>4, <1>5, <1>6 DEF EncodedPrefix

EncodedParts(w) == [i \in 1..Len(w) |-> EncodedPrefix(w[i])]

\* The octets of all.
LEMMA EncodedPartsType ==
  ASSUME NEW w \in Seq(PrefixRecord)
  PROVE  /\ EncodedParts(w) \in Seq(Seq(OctetRange)) /\ Len(EncodedParts(w)) = Len(w)
         /\ EncodedPrefixes(w) = FlattenSeq(EncodedParts(w))
         /\ EncodedPrefixes(w) \in Seq(OctetRange)
<1>1. Len(w) \in Nat /\ \A i \in 1..Len(w) : w[i] \in PrefixRecord
  BY LenProperties, ElementOfSeq
<1>2. \A i \in 1..Len(w) : EncodedPrefix(w[i]) \in Seq(OctetRange)
  BY <1>1, EncodedPrefixType
<1>3. EncodedParts(w) \in [1..Len(w) -> Seq(OctetRange)]
  BY <1>2 DEF EncodedParts
<1>4. EncodedParts(w) \in Seq(Seq(OctetRange)) /\ Len(EncodedParts(w)) = Len(w)
  BY <1>1, <1>3
<1>5. EncodedPrefixes(w) = FlattenSeq(EncodedParts(w))
  BY DEF EncodedPrefixes, EncodedParts, EncodedPrefix
<1>. QED
  BY <1>4, <1>5, FlattenValue

\* The empty list has none.
LEMMA EncodedEmpty == EncodedPrefixes(<<>>) = <<>>
<1>1. <<>> \in Seq(PrefixRecord) /\ Len(<<>>) = 0
  BY EmptySeq
<1>2. /\ EncodedParts(<<>>) \in Seq(Seq(OctetRange)) /\ Len(EncodedParts(<<>>)) = 0
      /\ EncodedPrefixes(<<>>) = FlattenSeq(EncodedParts(<<>>))
  BY <1>1, EncodedPartsType
<1>3. EncodedParts(<<>>) = <<>>
  BY <1>2, EmptySeq
<1>. QED
  BY <1>2, <1>3, FlattenValue

\* A list has those of its first prefix first.
LEMMA EncodedCons ==
  ASSUME NEW p \in PrefixRecord, NEW w \in Seq(PrefixRecord)
  PROVE  /\ <<p>> \o w \in Seq(PrefixRecord)
         /\ EncodedPrefixes(<<p>> \o w) = EncodedPrefix(p) \o EncodedPrefixes(w)
<1> DEFINE v == <<p>> \o w
<1>1. <<p>> \in Seq(PrefixRecord) /\ Len(<<p>>) = 1 /\ <<p>>[1] = p
  OBVIOUS
<1>2. /\ v \in Seq(PrefixRecord) /\ Len(v) = 1 + Len(w) /\ Len(w) \in Nat
      /\ \A i \in 1..(1 + Len(w)) : v[i] = IF i <= 1 THEN p ELSE w[i - 1]
  BY <1>1, LenProperties, ConcatProperties
<1> HIDE DEF v
<1> DEFINE e == EncodedPrefix(p)
<1>3. /\ e \in Seq(OctetRange)
      /\ EncodedParts(w) \in Seq(Seq(OctetRange)) /\ Len(EncodedParts(w)) = Len(w)
  BY EncodedPrefixType, EncodedPartsType
<1>4. EncodedParts(v) \in Seq(Seq(OctetRange)) /\ Len(EncodedParts(v)) = 1 + Len(w)
  BY <1>2, EncodedPartsType
<1> HIDE DEF e
<1>5. <<e>> \in Seq(Seq(OctetRange)) /\ Len(<<e>>) = 1 /\ <<e>>[1] = e
  BY <1>3
<1>6. /\ <<e>> \o EncodedParts(w) \in Seq(Seq(OctetRange))
      /\ Len(<<e>> \o EncodedParts(w)) = 1 + Len(w)
      /\ \A i \in 1..(1 + Len(w)) :
           (<<e>> \o EncodedParts(w))[i] = IF i <= 1 THEN e ELSE EncodedParts(w)[i - 1]
  BY <1>3, <1>5, ConcatProperties
<1>7. ASSUME NEW i \in 1..(1 + Len(w))
      PROVE  EncodedParts(v)[i] = (<<e>> \o EncodedParts(w))[i]
  <2>1. EncodedParts(v)[i] = EncodedPrefix(v[i])
    BY <1>2 DEF EncodedParts
  <2>2. CASE i <= 1
    BY <1>2, <1>6, <2>1, <2>2 DEF e
  <2>3. CASE ~(i <= 1)
    <3>1. i - 1 \in 1..Len(w)
      BY <1>2, <2>3
    <3>2. EncodedParts(w)[i - 1] = EncodedPrefix(w[i - 1])
      BY <3>1 DEF EncodedParts
    <3>. QED
      BY <1>2, <1>6, <2>1, <2>3, <3>2
  <2>. QED
    BY <2>2, <2>3
<1>8. EncodedParts(v) = <<e>> \o EncodedParts(w)
  BY <1>4, <1>6, <1>7, SeqEqual
<1>9. FlattenSeq(EncodedParts(v)) = e \o FlattenSeq(EncodedParts(w))
  BY <1>3, <1>8, FlattenCons
<1>. QED
  BY <1>2, <1>9, EncodedPartsType DEF v, e

-----------------------------------------------------------------------------
\* What the loop reports stands in the message.

\* The prefix at an offset, where it does not reach beyond the data.
LEMMA PrefixAtType ==
  ASSUME NEW d \in Seq(OctetRange), NEW o \in Nat, o < Len(d), NextAt(d, o) <= Len(d)
  PROVE  /\ PrefixAt(d, o) \in PrefixRecord
         /\ Len(PrefixAt(d, o).octets) = PrefixOctets(At(d, o))
         /\ EncodedPrefix(PrefixAt(d, o)) = Slice(d, o, NextAt(d, o))
<1> DEFINE n == NextAt(d, o)
           p == PrefixAt(d, o)
<1>1. /\ At(d, o) \in 0..255 /\ PrefixOctets(At(d, o)) \in Nat /\ n \in Nat /\ n > o
      /\ n = o + 1 + PrefixOctets(At(d, o)) /\ Len(d) \in Nat
  BY NextIsFurther, LenProperties DEF NextAt
<1>2. /\ p.octets = Slice(d, o + 1, n) /\ p.bits = At(d, o)
      /\ p = [bits |-> At(d, o), octets |-> Slice(d, o + 1, n)]
  BY DEF PrefixAt
<1> HIDE DEF n, p
<1>3. n <= Len(d) /\ o + 1 \in Nat /\ o + 1 <= n /\ n - (o + 1) = PrefixOctets(At(d, o))
  BY <1>1 DEF n
<1>4. n \in Nat /\ o <= n
  BY <1>1
<1>5. /\ Slice(d, o + 1, n) \in Seq(OctetRange)
      /\ Len(Slice(d, o + 1, n)) = n - (o + 1)
      /\ \A i \in 1..(n - (o + 1)) : Slice(d, o + 1, n)[i] = d[o + 1 + i]
  BY <1>4, <1>3, SliceProperties
<1>6. p \in PrefixRecord
  BY <1>1, <1>2, <1>5 DEF PrefixRecord, OctetRange
<1>7. /\ Slice(d, o, n) \in Seq(OctetRange)
      /\ Len(Slice(d, o, n)) = n - o
      /\ \A i \in 1..(n - o) : Slice(d, o, n)[i] = d[o + i]
  BY <1>4, <1>3, SliceProperties
<1>8. /\ EncodedPrefix(p) \in Seq(OctetRange)
      /\ Len(EncodedPrefix(p)) = n - o
      /\ EncodedPrefix(p)[1] = d[o + 1]
      /\ \A i \in 1..(n - (o + 1)) : EncodedPrefix(p)[i + 1] = d[o + 1 + i]
  <2>1. /\ EncodedPrefix(p) \in Seq(OctetRange)
        /\ Len(EncodedPrefix(p)) = 1 + (n - (o + 1)) /\ 1 + (n - (o + 1)) = n - o
    <3>1. Len(p.octets) = n - (o + 1)
      BY <1>2, <1>5
    <3>2. 1 + (n - (o + 1)) = n - o
      BY <1>4
    <3>. QED
      BY <1>6, <3>1, <3>2, EncodedPrefixType
  <2>2. p.bits = d[o + 1]
    BY <1>2 DEF At
  <2>. QED
    BY <1>2, <1>5, <1>6, <2>1, <2>2, EncodedPrefixType
<1>9. ASSUME NEW i \in 1..(n - o) PROVE EncodedPrefix(p)[i] = Slice(d, o, n)[i]
  <2>1. CASE i = 1
    BY <1>7, <1>8, <2>1
  <2>2. CASE i # 1
    <3>1. i - 1 \in 1..(n - (o + 1)) /\ (i - 1) + 1 = i /\ o + 1 + (i - 1) = o + i
      BY <1>1, <2>2
    <3>2. EncodedPrefix(p)[(i - 1) + 1] = d[o + 1 + (i - 1)]
      BY <1>8, <3>1
    <3>. QED
      BY <1>7, <3>1, <3>2
  <2>. QED
    BY <2>1, <2>2
<1>10. EncodedPrefix(p) = Slice(d, o, n)
  BY <1>7, <1>8, <1>9, SeqEqual
<1>. QED
  BY <1>2, <1>3, <1>5, <1>6, <1>10 DEF n, p

\* A slice is made of a slice and the slice behind it.
LEMMA SliceSplits ==
  ASSUME NEW S, NEW d \in Seq(S), NEW a \in Nat, NEW b \in Nat, NEW c \in Nat,
         a <= b, b <= c, c <= Len(d)
  PROVE  Slice(d, a, c) = Slice(d, a, b) \o Slice(d, b, c)
<1>0. Len(d) \in Nat /\ a <= c /\ b <= Len(d)
  BY LenProperties
<1>1. /\ Slice(d, a, b) \in Seq(S) /\ Len(Slice(d, a, b)) = b - a
      /\ \A i \in 1..(b - a) : Slice(d, a, b)[i] = d[a + i]
  BY <1>0, SliceProperties
<1>2. /\ Slice(d, b, c) \in Seq(S) /\ Len(Slice(d, b, c)) = c - b
      /\ \A i \in 1..(c - b) : Slice(d, b, c)[i] = d[b + i]
  BY <1>0, SliceProperties
<1>3. /\ Slice(d, a, c) \in Seq(S) /\ Len(Slice(d, a, c)) = c - a
      /\ \A i \in 1..(c - a) : Slice(d, a, c)[i] = d[a + i]
  BY <1>0, SliceProperties
<1> DEFINE u == Slice(d, a, b)
           v == Slice(d, b, c)
<1>4. /\ u \o v \in Seq(S) /\ Len(u \o v) = Len(u) + Len(v)
      /\ \A i \in 1..(Len(u) + Len(v)) :
           (u \o v)[i] = IF i <= Len(u) THEN u[i] ELSE v[i - Len(u)]
  BY <1>1, <1>2, ConcatProperties
<1> HIDE DEF u, v
<1>5. Len(u) = b - a /\ Len(v) = c - b /\ Len(u) + Len(v) = c - a
  BY <1>1, <1>2 DEF u, v
<1>6. ASSUME NEW i \in 1..(c - a) PROVE (u \o v)[i] = d[a + i]
  <2>1. CASE i <= b - a
    BY <1>1, <1>4, <1>5, <2>1 DEF u
  <2>2. CASE ~(i <= b - a)
    <3>1. i - (b - a) \in 1..(c - b) /\ b + (i - (b - a)) = a + i
      BY <2>2
    <3>. QED
      BY <1>2, <1>4, <1>5, <2>2, <3>1 DEF v
  <2>. QED
    BY <2>1, <2>2
<1>. QED
  BY <1>3, <1>4, <1>5, <1>6, SeqEqual DEF u, v

\* How to show that one sequence is a prefix of another.
LEMMA PrefixIntro ==
  ASSUME NEW S, NEW s \in Seq(S), NEW t \in Seq(S), Len(s) <= Len(t),
         \A i \in 1..Len(s) : s[i] = t[i]
  PROVE  IsPrefix(s, t)
BY PrefixIff

\* Prefixes with a common beginning.
LEMMA PrefixCons ==
  ASSUME NEW S, NEW u \in Seq(S), NEW v \in Seq(S), NEW t \in Seq(S), IsPrefix(v, t)
  PROVE  IsPrefix(u \o v, u \o t)
<1>1. Len(u) \in Nat /\ Len(v) \in Nat /\ Len(t) \in Nat
  BY LenProperties
<1>2. Len(v) <= Len(t) /\ \A i \in 1..Len(v) : v[i] = t[i]
  BY PrefixIff
<1>3. /\ u \o v \in Seq(S) /\ Len(u \o v) = Len(u) + Len(v)
      /\ \A i \in 1..(Len(u) + Len(v)) :
           (u \o v)[i] = IF i <= Len(u) THEN u[i] ELSE v[i - Len(u)]
  BY ConcatProperties
<1>4. /\ u \o t \in Seq(S) /\ Len(u \o t) = Len(u) + Len(t)
      /\ \A i \in 1..(Len(u) + Len(t)) :
           (u \o t)[i] = IF i <= Len(u) THEN u[i] ELSE t[i - Len(u)]
  BY ConcatProperties
<1>5. ASSUME NEW i \in 1..(Len(u) + Len(v)) PROVE (u \o v)[i] = (u \o t)[i]
  <2>1. i \in 1..(Len(u) + Len(t)) /\ (~(i <= Len(u)) => i - Len(u) \in 1..Len(v))
    BY <1>1, <1>2
  <2>. QED
    BY <1>2, <1>3, <1>4, <2>1
<1>. QED
  <2>1. Len(u \o v) <= Len(u \o t) /\ \A i \in 1..Len(u \o v) : (u \o v)[i] = (u \o t)[i]
    BY <1>1, <1>2, <1>3, <1>4, <1>5
  <2>. QED
    BY <1>3, <1>4, <2>1, PrefixIntro

\* The empty sequence is a prefix of any.
LEMMA PrefixEmpty == ASSUME NEW S, NEW t \in Seq(S) PROVE IsPrefix(<<>>, t)
<1>1. <<>> \in Seq(S) /\ Len(<<>>) = 0 /\ Len(t) \in Nat
  BY EmptySeq, LenProperties
<1>2. Len(<<>>) <= Len(t) /\ \A i \in 1..Len(<<>>) : <<>>[i] = t[i]
  BY <1>1
<1>. QED
  BY <1>1, <1>2, PrefixIntro

\* What a list says of the field it was read from.
Reported(d, o, end, w) ==
  /\ w \in Seq(PrefixRecord)
  /\ IsPrefix(EncodedPrefixes(w), Slice(d, o, end))
  /\ \A p \in ToSet(w) : WholePrefix(p)

\* The empty list says it of any field.
LEMMA EmptyReported ==
  ASSUME NEW d \in Seq(OctetRange), NEW o \in Nat, NEW end \in Nat
  PROVE  Reported(d, o, end, <<>>)
<1>1. <<>> \in Seq(PrefixRecord) /\ ToSet(<<>>) = {}
  BY EmptySeq DEF ToSet
<1>2. Slice(d, o, end) \in Seq(OctetRange)
  BY SliceProperties
<1>. QED
  BY <1>1, <1>2, EncodedEmpty, PrefixEmpty DEF Reported

\* One round of the loop.
LEMMA ConsReported ==
  ASSUME NEW d \in Seq(OctetRange), NEW o \in Nat, NEW end \in Nat, end <= Len(d), o < end,
         NextAt(d, o) <= end, ~(Len(PrefixAt(d, o).octets) > 4),
         NEW rest, Reported(d, NextAt(d, o), end, rest)
  PROVE  Reported(d, o, end, <<PrefixAt(d, o)>> \o rest)
<1> DEFINE n == NextAt(d, o)
           p == PrefixAt(d, o)
<1>1. /\ Len(d) \in Nat /\ o < Len(d) /\ n <= Len(d) /\ n \in Nat /\ n > o
      /\ At(d, o) \in 0..255 /\ PrefixOctets(At(d, o)) \in Nat
      /\ 8 * PrefixOctets(At(d, o)) >= At(d, o) /\ 8 * PrefixOctets(At(d, o)) < At(d, o) + 8
  BY NextIsFurther, LenProperties
<1>2. /\ p \in PrefixRecord /\ Len(p.octets) = PrefixOctets(At(d, o))
      /\ EncodedPrefix(p) = Slice(d, o, n)
  BY <1>1, PrefixAtType
<1>3. /\ rest \in Seq(PrefixRecord) /\ IsPrefix(EncodedPrefixes(rest), Slice(d, n, end))
      /\ \A q \in ToSet(rest) : WholePrefix(q)
  BY DEF Reported
<1>4. p.bits = At(d, o) /\ ~(Len(p.octets) > 4)
  BY DEF PrefixAt
<1>5. n <= end
  OBVIOUS
<1> HIDE DEF n, p
<1>6. WholePrefix(p)
  <2> DEFINE bits == At(d, o)
             size == PrefixOctets(At(d, o))
  <2>1. bits \in 0..255 /\ size \in Nat /\ 8 * size >= bits /\ 8 * size < bits + 8 /\ ~(size > 4)
    BY <1>1, <1>2, <1>4
  <2>2. p.bits = bits /\ Len(p.octets) = size
    BY <1>2, <1>4
  <2> HIDE DEF bits, size
  <2>3. bits <= 32
    BY <2>1
  <2>. QED
    BY <2>1, <2>2, <2>3 DEF WholePrefix
<1>7. /\ <<p>> \o rest \in Seq(PrefixRecord)
      /\ EncodedPrefixes(<<p>> \o rest) = Slice(d, o, n) \o EncodedPrefixes(rest)
  BY <1>2, <1>3, EncodedCons
<1>8. Slice(d, o, end) = Slice(d, o, n) \o Slice(d, n, end)
  BY <1>1, <1>5, SliceSplits
<1>9. /\ Slice(d, o, n) \in Seq(OctetRange) /\ Slice(d, n, end) \in Seq(OctetRange)
      /\ EncodedPrefixes(rest) \in Seq(OctetRange)
  BY <1>1, <1>3, SliceProperties, EncodedPartsType
<1>10. IsPrefix(EncodedPrefixes(<<p>> \o rest), Slice(d, o, end))
  BY <1>3, <1>7, <1>8, <1>9, PrefixCons
<1>11. ASSUME NEW q \in ToSet(<<p>> \o rest) PROVE WholePrefix(q)
  <2>1. /\ <<p>> \in Seq(PrefixRecord) /\ Len(<<p>>) = 1 /\ <<p>>[1] = p /\ Len(rest) \in Nat
    BY <1>2, <1>3, LenProperties
  <2>2. /\ Len(<<p>> \o rest) = 1 + Len(rest)
        /\ \A i \in 1..(1 + Len(rest)) :
             (<<p>> \o rest)[i] = IF i <= 1 THEN <<p>>[i] ELSE rest[i - 1]
    BY <1>3, <2>1, ConcatProperties
  <2>3. DOMAIN (<<p>> \o rest) = 1..(1 + Len(rest)) /\ DOMAIN rest = 1..Len(rest)
    BY <1>3, <1>7, <2>2, LenProperties
  <2>4. PICK i \in 1..(1 + Len(rest)) : q = (<<p>> \o rest)[i]
    BY <1>11, <2>3 DEF ToSet
  <2>5. CASE i <= 1
    <3>1. i = 1
      BY <2>5
    <3>. QED
      BY <1>6, <2>1, <2>2, <2>4, <3>1
  <2>6. CASE ~(i <= 1)
    <3>1. i - 1 \in 1..Len(rest)
      BY <2>1, <2>6
    <3>2. q = rest[i - 1]
      BY <2>2, <2>4, <2>6
    <3>3. q \in ToSet(rest)
      BY <2>3, <3>1, <3>2 DEF ToSet
    <3>. QED
      BY <1>3, <3>3
  <2>. QED
    BY <2>5, <2>6
<1>. QED
  BY <1>7, <1>10, <1>11 DEF Reported, p

\* Whatever the loop returns stands in its field, prefix after prefix.
LEMMA NlriReported ==
  ASSUME NEW d \in Seq(OctetRange), NEW end \in Nat, end <= Len(d), NEW o \in Nat
  PROVE  \A w \in Nlri(d, o, end) : Reported(d, o, end, w)
<1> DEFINE Good(n) == \A w \in Nlri(d, n, end) : Reported(d, n, end, w)
           G == {n \in Nat : Good(n)}
<1>1. ASSUME NEW n \in Nat, n >= end PROVE Good(n)
  <2>1. Nlri(d, n, end) = {<<>>}
    BY <1>1, NlriEquation DEF NlriBody
  <2>. QED
    BY <2>1, EmptyReported
<1>2. ASSUME NEW n \in Nat, n < end, NextAt(d, n) <= end => Good(NextAt(d, n)) PROVE Good(n)
  <2>0. Len(d) \in Nat /\ n < Len(d) /\ ~(n >= end) /\ ~(n >= Len(d)) /\ NextAt(d, n) \in Nat
    BY <1>2, LenProperties, NextIsFurther
  <2>1. Nlri(d, n, end) = NlriBody(d, end, NlriFrom(d, end), n)
    BY NlriEquation
  <2>2. CASE NextAt(d, n) > end
    <3>1. Nlri(d, n, end) = {<<>>}
      BY <2>0, <2>1, <2>2 DEF NlriBody
    <3>. QED
      BY <3>1, EmptyReported
  <2>3. CASE ~(NextAt(d, n) > end) /\ Len(PrefixAt(d, n).octets) > 4
    <3>1. Nlri(d, n, end) = {}
      BY <2>0, <2>1, <2>3 DEF NlriBody
    <3>. QED
      BY <3>1
  <2>4. CASE ~(NextAt(d, n) > end) /\ ~(Len(PrefixAt(d, n).octets) > 4)
    <3>1. Nlri(d, n, end) = {<<PrefixAt(d, n)>> \o rest : rest \in NlriFrom(d, end)[NextAt(d, n)]}
      BY <2>0, <2>1, <2>4 DEF NlriBody
    <3>2. NlriFrom(d, end)[NextAt(d, n)] = Nlri(d, NextAt(d, n), end)
      BY NlriIsFrom
    <3>3. NextAt(d, n) <= end
      BY <2>0, <2>4
    <3>4. ASSUME NEW rest \in Nlri(d, NextAt(d, n), end)
          PROVE  Reported(d, n, end, <<PrefixAt(d, n)>> \o rest)
      BY <1>2, <2>4, <3>3, <3>4, ConsReported
    <3>. QED
      BY <3>1, <3>2, <3>4
  <2>. QED
    BY <2>2, <2>3, <2>4
<1> HIDE DEF Good
<1>3. ASSUME NEW n \in Nat, n < end, \A k \in Nat : k > n => k \in G PROVE n \in G
  <2>1. NextAt(d, n) \in Nat /\ NextAt(d, n) > n
    BY <1>3, LenProperties, NextIsFurther
  <2>2. Good(NextAt(d, n))
    BY <1>3, <2>1
  <2>. QED
    BY <1>2, <1>3, <2>2
<1>4. Nat \subseteq G
  <2>1. \A n \in Nat : n >= end => n \in G
    BY <1>1
  <2>2. \A n \in Nat : n < end /\ (\A k \in Nat : k > n => k \in G) => n \in G
    BY <1>3
  <2> HIDE DEF G
  <2>3. Backwards(end, G)
    BY <2>1, <2>2 DEF Backwards
  <2>. QED
    BY <2>3, OffsetInduction
<1>. QED
  BY <1>4 DEF Good

\* A field has at most one list.
LEMMA NlriIsUnique ==
  ASSUME NEW d \in Seq(OctetRange), NEW end \in Nat, NEW o \in Nat
  PROVE  \A u, v \in Nlri(d, o, end) : u = v
<1> DEFINE Single(n) == \A u, v \in Nlri(d, n, end) : u = v
           G == {n \in Nat : Single(n)}
<1>0. Len(d) \in Nat
  BY LenProperties
<1>1. \A n \in Nat : Nlri(d, n, end) = NlriBody(d, end, NlriFrom(d, end), n)
  BY NlriEquation
<1>2. ASSUME NEW n \in Nat, n >= end PROVE Single(n)
  <2>1. Nlri(d, n, end) = {<<>>}
    BY <1>1, <1>2 DEF NlriBody
  <2>. QED
    BY <2>1
<1>3. ASSUME NEW n \in Nat, n < end, n < Len(d) => Single(NextAt(d, n)) PROVE Single(n)
  <2>0. ~(n >= end)
    BY <1>3
  <2>1. CASE n >= Len(d)
    <3>1. Nlri(d, n, end) = {}
      BY <1>1, <2>0, <2>1 DEF NlriBody
    <3>. QED
      BY <3>1
  <2>2. CASE ~(n >= Len(d))
    <3> DEFINE Long == {<<PrefixAt(d, n)>> \o rest : rest \in NlriFrom(d, end)[NextAt(d, n)]}
    <3>1. Nlri(d, n, end) = {<<>>} \/ Nlri(d, n, end) = {} \/ Nlri(d, n, end) = Long
      BY <1>1, <2>0, <2>2 DEF NlriBody
    <3>2. NlriFrom(d, end)[NextAt(d, n)] = Nlri(d, NextAt(d, n), end)
      BY NlriIsFrom
    <3>3. n < Len(d)
      BY <1>0, <2>2
    <3>4. \A u, v \in NlriFrom(d, end)[NextAt(d, n)] : u = v
      BY <1>3, <3>2, <3>3
    <3>5. \A u, v \in Long : u = v
      BY <3>4
    <3>. QED
      BY <3>1, <3>5
  <2>. QED
    BY <2>1, <2>2
<1> HIDE DEF Single
<1>4. ASSUME NEW n \in Nat, n < end, \A k \in Nat : k > n => k \in G PROVE n \in G
  <2>1. n < Len(d) => NextAt(d, n) \in Nat /\ NextAt(d, n) > n
    BY NextIsFurther
  <2>2. n < Len(d) => Single(NextAt(d, n))
    BY <1>4, <2>1
  <2>. QED
    BY <1>3, <1>4, <2>2
<1>5. Nat \subseteq G
  <2>1. \A n \in Nat : n >= end => n \in G
    BY <1>2
  <2>2. \A n \in Nat : n < end /\ (\A k \in Nat : k > n => k \in G) => n \in G
    BY <1>4
  <2> HIDE DEF G
  <2>3. Backwards(end, G)
    BY <2>1, <2>2 DEF Backwards
  <2>. QED
    BY <2>3, OffsetInduction
<1>. QED
  BY <1>5 DEF Single

-----------------------------------------------------------------------------
\* Messages.

\* The offsets of a route monitoring message d: where its attributes' length stands
\* and where its announced prefixes begin.
AttributesOf(d) == UpdateStart + 2 + Number(Slice(d, UpdateStart, UpdateStart + 2))
NlriOf(d) == AttributesOf(d) + 2 + Number(Slice(d, AttributesOf(d), AttributesOf(d) + 2))

\* Headers have lengths.
LEMMA Lengths ==
  /\ CommonHeaderLength \in Nat \ {0, 1} /\ PeerHeaderLength \in Nat \ {0}
  /\ BgpHeaderLength \in Nat \ {0} /\ UpdateStart \in Nat
BY LengthAssumption DEF LengthAssumption, UpdateStart

\* So have the fields.
LEMMA OffsetTypes ==
  ASSUME NEW d \in Seq(OctetRange)
  PROVE  /\ AttributesOf(d) \in Nat /\ UpdateStart + 2 <= AttributesOf(d)
         /\ NlriOf(d) \in Nat /\ AttributesOf(d) + 2 <= NlriOf(d)
<1>1. UpdateStart \in Nat /\ UpdateStart + 2 \in Nat
  BY Lengths
<1>2. Slice(d, UpdateStart, UpdateStart + 2) \in Seq(OctetRange)
  BY <1>1, SliceProperties
<1>3. AttributesOf(d) \in Nat /\ UpdateStart + 2 <= AttributesOf(d)
  BY <1>1, <1>2, NumberType DEF AttributesOf
<1>4. AttributesOf(d) + 2 \in Nat
  BY <1>3
<1>5. Slice(d, AttributesOf(d), AttributesOf(d) + 2) \in Seq(OctetRange)
  BY <1>3, <1>4, SliceProperties
<1>. QED
  BY <1>3, <1>5, NumberType DEF NlriOf

\* What a parse returns, of a route monitoring message and of any other.
LEMMA ParsedMessage ==
  ASSUME NEW d \in Seq(OctetRange), NEW m \in ParseMessage(d)
  PROVE  /\ CommonHeaderLength <= Len(d) /\ m.type = At(d, CommonHeaderLength - 1)
         /\ m.type # MSG_ROUTE_MONITORING => m.update = NoUpdate
         /\ m.type = MSG_ROUTE_MONITORING =>
              /\ UpdateStart + 2 <= Len(d) /\ AttributesOf(d) + 2 <= Len(d)
              /\ m.update.withdrawn \in Nlri(d, UpdateStart + 2, AttributesOf(d))
              /\ m.update.nlri \in Nlri(d, NlriOf(d), Len(d))
<1> DEFINE type == At(d, CommonHeaderLength - 1)
           offset == CommonHeaderLength +
                       (IF type \in PEER_HEADER_TYPES THEN PeerHeaderLength ELSE 0)
           updates == IF type = MSG_ROUTE_MONITORING THEN RouteMonitoring(d, offset) ELSE {NoUpdate}
<1>0. Len(d) \in Nat
  BY LenProperties
<1>1. /\ ~(Len(d) < CommonHeaderLength)
      /\ m \in {[type |-> type, peer |-> Slice(d, CommonHeaderLength, offset), update |-> u] :
                  u \in updates}
  BY DEF ParseMessage
<1>2. m.type = type /\ m.update \in updates
  BY <1>1
<1>3. CommonHeaderLength <= Len(d)
  BY <1>0, <1>1, Lengths
<1>4. ASSUME type = MSG_ROUTE_MONITORING
      PROVE  /\ UpdateStart + 2 <= Len(d) /\ AttributesOf(d) + 2 <= Len(d)
             /\ m.update.withdrawn \in Nlri(d, UpdateStart + 2, AttributesOf(d))
             /\ m.update.nlri \in Nlri(d, NlriOf(d), Len(d))
  <2>1. m.update \in RouteMonitoring(d, CommonHeaderLength + PeerHeaderLength)
    BY <1>2, <1>4 DEF MSG_ROUTE_MONITORING, PEER_HEADER_TYPES
  <2>2. m.update \in Update(d, UpdateStart)
    BY <2>1 DEF RouteMonitoring, UpdateStart
  <2>3. /\ ~(Len(d) < UpdateStart + 2) /\ ~(Len(d) < AttributesOf(d) + 2)
        /\ m.update \in {[withdrawn |-> w, attributes |-> a, nlri |-> n] :
                           w \in Nlri(d, UpdateStart + 2, AttributesOf(d)),
                           a \in PathAttributes(d, AttributesOf(d) + 2, NlriOf(d)),
                           n \in Nlri(d, NlriOf(d), Len(d))}
    BY <2>2 DEF Update, AttributesOf, NlriOf
  <2>4. UpdateStart + 2 <= Len(d) /\ AttributesOf(d) + 2 <= Len(d)
    BY <1>0, <2>3, Lengths, OffsetTypes
  <2>. QED
    BY <2>3, <2>4
<1>5. type # MSG_ROUTE_MONITORING => m.update = NoUpdate
  BY <1>2
<1>. QED
  BY <1>2, <1>3, <1>4, <1>5

-----------------------------------------------------------------------------
\* The theorems.

OctetsInv == data \in Seq(OctetRange)

\* An octet that arrives is one.
LEMMA OctetType == \A octet \in Octet : octet \in OctetRange
BY OctetAssumption DEF OctetAssumption, OctetRange

\* Where the BGP message says it ends.
LEMMA BgpEndType == ASSUME data \in Seq(OctetRange) PROVE BgpEnd \in Nat
<1>1. UpdateStart - 3 \in Nat /\ UpdateStart - 1 \in Nat
  BY Lengths, HeaderAssumption DEF HeaderAssumption, UpdateStart
<1>2. Slice(data, UpdateStart - 3, UpdateStart - 1) \in Seq(OctetRange)
  BY <1>1, SliceProperties
<1>3. Number(Slice(data, UpdateStart - 3, UpdateStart - 1)) \in Nat
  BY <1>2, NumberType
<1>. QED
  BY <1>3, Lengths DEF BgpEnd

\* A message is of octets.
THEOREM OctetsAreOctets == Spec => []OctetsInv
<1>1. Init => OctetsInv
  BY OctetAssumption DEF OctetAssumption, Init, OctetsInv, OctetRange
<1>2. OctetsInv /\ [Next]_vars => OctetsInv'
  <2> SUFFICES ASSUME OctetsInv, [Next]_vars PROVE OctetsInv'
    OBVIOUS
  <2>1. ASSUME NEW octet \in Octet, Arrives(octet) PROVE OctetsInv'
    <3>1. octet \in OctetRange
      BY OctetType
    <3>. QED
      BY <2>1, <3>1, AppendProperties DEF OctetsInv, Arrives
  <2>2. CASE UNCHANGED data
    BY <2>2 DEF OctetsInv
  <2>. QED
    BY <2>1, <2>2 DEF Next, vars, Withdraw, AddAttribute, AddSegment, Announce
<1>. QED
  BY <1>1, <1>2, PTL DEF Spec

\* Whatever octets a router sends, every prefix that is reported stands in its field,
\* if nothing follows the BGP message (_parse_nlri and _parse_bgp_update).
THEOREM InventsNothing == Spec => []NothingInvented
<1>1. OctetsInv => NothingInvented
  <2> SUFFICES ASSUME OctetsInv, NEW m \in ParseMessage(data),
                      m.type = MSG_ROUTE_MONITORING, Len(data) <= BgpEnd
               PROVE  /\ AttributesStart + 2 <= Len(data)
                      /\ IsPrefix(EncodedPrefixes(m.update.withdrawn), WithdrawnField)
                      /\ IsPrefix(EncodedPrefixes(m.update.nlri), NlriField)
                      /\ \A p \in ToSet(m.update.withdrawn) \cup ToSet(m.update.nlri) :
                           WholePrefix(p)
    BY DEF NothingInvented
  <2> DEFINE d == data
             a == AttributesOf(data)
             n == NlriOf(data)
  <2>1. d \in Seq(OctetRange) /\ Len(d) \in Nat
    BY LenProperties DEF OctetsInv
  <2>2. /\ a + 2 <= Len(d) /\ m.update.withdrawn \in Nlri(d, UpdateStart + 2, a)
        /\ m.update.nlri \in Nlri(d, n, Len(d))
    BY <2>1, ParsedMessage
  <2>3. a \in Nat /\ n \in Nat /\ UpdateStart + 2 \in Nat /\ a <= Len(d)
    BY <2>1, <2>2, Lengths, OffsetTypes
  <2>4. /\ AttributesStart = a /\ WithdrawnField = Slice(d, UpdateStart + 2, a)
        /\ NlriField = Slice(d, n, BgpEnd)
    BY DEF AttributesStart, WithdrawnLength, AttributesLength, WithdrawnField, NlriField,
           AttributesOf, NlriOf
  <2> HIDE DEF d, a, n
  <2>8. Slice(d, n, BgpEnd) = Slice(d, n, Len(d))
    <3>1. BgpEnd \in Nat
      BY <2>1, BgpEndType DEF d
    <3>2. (IF BgpEnd < Len(d) THEN BgpEnd ELSE Len(d)) = Len(d)
      BY <2>1, <3>1 DEF d
    <3>. QED
      BY <2>1, <3>2 DEF Slice
  <2>5. Reported(d, UpdateStart + 2, a, m.update.withdrawn)
    BY <2>1, <2>2, <2>3, NlriReported
  <2>6. Len(d) <= Len(d)
    BY <2>1
  <2>7. Reported(d, n, Len(d), m.update.nlri)
    BY <2>1, <2>2, <2>3, <2>6, NlriReported
  <2>. QED
    BY <2>2, <2>4, <2>5, <2>7, <2>8 DEF Reported, d
<1>. QED
  BY <1>1, OctetsAreOctets, PTL

-----------------------------------------------------------------------------
\* Truncated messages.

\* One more octet changes no slice before it.
LEMMA SliceOfMore ==
  ASSUME NEW S, NEW d \in Seq(S), NEW x \in S, NEW a \in Nat, NEW b \in Nat,
         a <= b, b <= Len(d)
  PROVE  Slice(Append(d, x), a, b) = Slice(d, a, b)
<1> DEFINE e == Append(d, x)
<1>1. /\ Len(d) \in Nat /\ e \in Seq(S) /\ Len(e) = Len(d) + 1
      /\ \A i \in 1..Len(d) : e[i] = d[i]
  BY LenProperties, AppendProperties
<1> HIDE DEF e
<1>2. b <= Len(e)
  BY <1>1
<1>3. /\ Slice(e, a, b) \in Seq(S) /\ Len(Slice(e, a, b)) = b - a
      /\ \A i \in 1..(b - a) : Slice(e, a, b)[i] = e[a + i]
  <2>1. e \in Seq(S)
    BY <1>1
  <2>. QED
    BY <1>2, <2>1, SliceProperties
<1>4. /\ Slice(d, a, b) \in Seq(S) /\ Len(Slice(d, a, b)) = b - a
      /\ \A i \in 1..(b - a) : Slice(d, a, b)[i] = d[a + i]
  BY SliceProperties
<1>5. \A i \in 1..(b - a) : a + i \in 1..Len(d)
  BY <1>1
<1>6. \A i \in 1..(b - a) : Slice(e, a, b)[i] = Slice(d, a, b)[i]
  BY <1>1, <1>3, <1>4, <1>5
<1>. QED
  BY <1>3, <1>4, <1>6, SeqEqual DEF e

\* Nor an octet before it, nor a prefix.
LEMMA PrefixOfMore ==
  ASSUME NEW d \in Seq(OctetRange), NEW x \in OctetRange, NEW o \in Nat, o < Len(d)
  PROVE  /\ At(Append(d, x), o) = At(d, o) /\ NextAt(Append(d, x), o) = NextAt(d, o)
         /\ NextAt(d, o) <= Len(d) => PrefixAt(Append(d, x), o) = PrefixAt(d, o)
<1>1. Len(d) \in Nat /\ \A i \in 1..Len(d) : Append(d, x)[i] = d[i]
  BY LenProperties, AppendProperties
<1>2. o + 1 \in 1..Len(d) /\ o + 1 \in Nat
  BY <1>1
<1>3. At(Append(d, x), o) = At(d, o)
  BY <1>1, <1>2 DEF At
<1>4. NextAt(Append(d, x), o) = NextAt(d, o)
  BY <1>3 DEF NextAt
<1>5. NextAt(d, o) \in Nat /\ o + 1 <= NextAt(d, o)
  BY NextIsFurther DEF NextAt
<1>6. ASSUME NextAt(d, o) <= Len(d) PROVE PrefixAt(Append(d, x), o) = PrefixAt(d, o)
  <2>1. Slice(Append(d, x), o + 1, NextAt(d, o)) = Slice(d, o + 1, NextAt(d, o))
    BY <1>2, <1>5, <1>6, SliceOfMore
  <2>. QED
    BY <1>3, <1>4, <2>1 DEF PrefixAt
<1>. QED
  BY <1>3, <1>4, <1>6

\* A field that is whole is read the same.
LEMMA NlriOfMore ==
  ASSUME NEW d \in Seq(OctetRange), NEW x \in OctetRange, NEW end \in Nat, end <= Len(d),
         NEW o \in Nat
  PROVE  Nlri(Append(d, x), o, end) = Nlri(d, o, end)
<1> DEFINE e == Append(d, x)
           Same(n) == Nlri(e, n, end) = Nlri(d, n, end)
           G == {n \in Nat : Same(n)}
<1>0. e \in Seq(OctetRange) /\ Len(e) = Len(d) + 1 /\ Len(d) \in Nat
  BY LenProperties, AppendProperties
<1>1. \A n \in Nat : /\ Nlri(e, n, end) = NlriBody(e, end, NlriFrom(e, end), n)
                     /\ Nlri(d, n, end) = NlriBody(d, end, NlriFrom(d, end), n)
  BY <1>0, NlriEquation
<1>2. \A n : /\ Nlri(e, n, end) = NlriFrom(e, end)[n]
             /\ Nlri(d, n, end) = NlriFrom(d, end)[n]
  BY NlriIsFrom
<1>3. ASSUME NEW n \in Nat, n >= end PROVE Same(n)
  BY <1>1, <1>3 DEF NlriBody
<1>4. ASSUME NEW n \in Nat, n < end, NextAt(d, n) <= end => Same(NextAt(d, n)) PROVE Same(n)
  <2>1. n < Len(d) /\ ~(n >= end) /\ ~(n >= Len(d)) /\ ~(n >= Len(e)) /\ NextAt(d, n) \in Nat
    BY <1>0, <1>4, NextIsFurther
  <2>2. /\ NextAt(e, n) = NextAt(d, n)
        /\ NextAt(d, n) <= Len(d) => PrefixAt(e, n) = PrefixAt(d, n)
    BY <2>1, PrefixOfMore
  <2>3. CASE NextAt(d, n) > end
    BY <1>1, <2>1, <2>2, <2>3 DEF NlriBody
  <2>4. CASE ~(NextAt(d, n) > end)
    <3>1. NextAt(d, n) <= end /\ NextAt(d, n) <= Len(d)
      BY <1>0, <2>1, <2>4
    <3>2. /\ PrefixAt(e, n) = PrefixAt(d, n)
          /\ NlriFrom(e, end)[NextAt(d, n)] = NlriFrom(d, end)[NextAt(d, n)]
      BY <1>2, <1>4, <2>2, <3>1
    <3>3. NlriBody(e, end, NlriFrom(e, end), n) = NlriBody(d, end, NlriFrom(d, end), n)
      BY <2>1, <2>2, <2>4, <3>2 DEF NlriBody
    <3>. QED
      BY <1>1, <3>3
  <2>. QED
    BY <2>3, <2>4
<1> HIDE DEF Same
<1>5. ASSUME NEW n \in Nat, n < end, \A k \in Nat : k > n => k \in G PROVE n \in G
  <2>1. NextAt(d, n) \in Nat /\ NextAt(d, n) > n
    BY <1>0, <1>5, NextIsFurther
  <2>2. Same(NextAt(d, n))
    BY <1>5, <2>1
  <2>. QED
    BY <1>4, <1>5, <2>2
<1>6. Nat \subseteq G
  <2>1. \A n \in Nat : n >= end => n \in G
    BY <1>3
  <2>2. \A n \in Nat : n < end /\ (\A k \in Nat : k > n => k \in G) => n \in G
    BY <1>5
  <2> HIDE DEF G
  <2>3. Backwards(end, G)
    BY <2>1, <2>2 DEF Backwards
  <2>. QED
    BY <2>3, OffsetInduction
<1>. QED
  BY <1>6 DEF Same

\* A list that lacks its end lacks only prefixes at the end.
LEMMA NlriCutShort ==
  ASSUME NEW d \in Seq(OctetRange), NEW x \in OctetRange, NEW o \in Nat
  PROVE  \A u \in Nlri(d, o, Len(d)), v \in Nlri(Append(d, x), o, Len(Append(d, x))) :
           u \in Seq(PrefixRecord) /\ v \in Seq(PrefixRecord) /\ IsPrefix(u, v)
<1> DEFINE e == Append(d, x)
           Short(n) == \A u \in Nlri(d, n, Len(d)), v \in Nlri(e, n, Len(e)) : IsPrefix(u, v)
           G == {n \in Nat : Short(n)}
<1>0. e \in Seq(OctetRange) /\ Len(e) = Len(d) + 1 /\ Len(d) \in Nat
  BY LenProperties, AppendProperties
<1> HIDE DEF e
<1>1. \A n \in Nat : /\ \A u \in Nlri(d, n, Len(d)) : u \in Seq(PrefixRecord)
                     /\ \A v \in Nlri(e, n, Len(e)) : v \in Seq(PrefixRecord)
  <2>1. Len(d) <= Len(d) /\ Len(e) <= Len(e) /\ Len(e) \in Nat
    BY <1>0
  <2>. QED
    BY <1>0, <2>1, NlriReported DEF Reported
<1>2. ASSUME NEW n \in Nat, Nlri(d, n, Len(d)) = {<<>>} PROVE Short(n)
  BY <1>1, <1>2, PrefixEmpty
<1>3. ASSUME NEW n \in Nat, n >= Len(d) PROVE Short(n)
  <2>1. Nlri(d, n, Len(d)) = {<<>>}
    BY <1>0, <1>3, NlriEquation DEF NlriBody
  <2>. QED
    BY <1>2, <2>1
<1>4. ASSUME NEW n \in Nat, n < Len(d), NextAt(d, n) <= Len(d) => Short(NextAt(d, n))
      PROVE  Short(n)
  <2>1. ~(n >= Len(d)) /\ ~(n >= Len(e)) /\ NextAt(d, n) \in Nat
    BY <1>0, <1>4, NextIsFurther
  <2>2. /\ NextAt(e, n) = NextAt(d, n)
        /\ NextAt(d, n) <= Len(d) => PrefixAt(e, n) = PrefixAt(d, n)
    BY <1>4, PrefixOfMore DEF e
  <2>3. /\ Nlri(d, n, Len(d)) = NlriBody(d, Len(d), NlriFrom(d, Len(d)), n)
        /\ Nlri(e, n, Len(e)) = NlriBody(e, Len(e), NlriFrom(e, Len(e)), n)
    BY <1>0, NlriEquation
  <2>4. CASE NextAt(d, n) > Len(d)
    <3>1. Nlri(d, n, Len(d)) = {<<>>}
      BY <2>1, <2>3, <2>4 DEF NlriBody
    <3>. QED
      BY <1>2, <3>1
  <2>5. CASE NextAt(d, n) <= Len(d)
    <3> DEFINE p == PrefixAt(d, n)
               next == NextAt(d, n)
    <3>1. ~(next > Len(d)) /\ ~(next > Len(e))
      BY <1>0, <2>1, <2>5
    <3>2. CASE Len(p.octets) > 4
      <4>1. Nlri(d, n, Len(d)) = {}
        BY <2>1, <2>3, <3>1, <3>2 DEF NlriBody
      <4>. QED
        BY <4>1
    <3>3. CASE ~(Len(p.octets) > 4)
      <4>1. Nlri(d, n, Len(d)) = {<<p>> \o rest : rest \in NlriFrom(d, Len(d))[next]}
        BY <2>1, <2>3, <3>1, <3>3 DEF NlriBody
      <4>2. PrefixAt(e, n) = p /\ NextAt(e, n) = next
        BY <2>2, <2>5
      <4>3. Nlri(e, n, Len(e)) = {<<p>> \o rest : rest \in NlriFrom(e, Len(e))[next]}
        BY <2>1, <2>3, <3>1, <3>3, <4>2 DEF NlriBody
      <4>4. /\ NlriFrom(d, Len(d))[next] = Nlri(d, next, Len(d))
            /\ NlriFrom(e, Len(e))[next] = Nlri(e, next, Len(e))
        BY NlriIsFrom
      <4>5. p \in PrefixRecord
        BY <1>4, <2>5, PrefixAtType
      <4>6. ASSUME NEW u \in Nlri(d, next, Len(d)), NEW v \in Nlri(e, next, Len(e))
            PROVE  IsPrefix(<<p>> \o u, <<p>> \o v)
        <5>1. IsPrefix(u, v)
          BY <1>4, <2>5, <4>6
        <5>2. u \in Seq(PrefixRecord) /\ v \in Seq(PrefixRecord)
          BY <1>1, <2>1, <4>6
        <5>3. <<p>> \in Seq(PrefixRecord)
          BY <4>5
        <5>. QED
          BY <5>1, <5>2, <5>3, PrefixCons
      <4>. QED
        BY <4>1, <4>3, <4>4, <4>6
    <3>. QED
      BY <3>2, <3>3
  <2>. QED
    BY <1>0, <2>1, <2>4, <2>5
<1> HIDE DEF Short
<1>5. ASSUME NEW n \in Nat, n < Len(d), \A k \in Nat : k > n => k \in G PROVE n \in G
  <2>1. NextAt(d, n) \in Nat /\ NextAt(d, n) > n
    BY <1>5, NextIsFurther
  <2>2. Short(NextAt(d, n))
    BY <1>5, <2>1
  <2>. QED
    BY <1>4, <1>5, <2>2
<1>6. Nat \subseteq G
  <2>1. \A n \in Nat : n >= Len(d) => n \in G
    BY <1>3
  <2>2. \A n \in Nat : n < Len(d) /\ (\A k \in Nat : k > n => k \in G) => n \in G
    BY <1>5
  <2> HIDE DEF G
  <2>3. Backwards(Len(d), G)
    BY <2>1, <2>2 DEF Backwards
  <2>. QED
    BY <1>0, <2>3, OffsetInduction
<1>7. Short(o)
  BY <1>6
<1>. QED
  BY <1>1, <1>7 DEF e, Short

\* A message that is accepted although its end is missing withdraws what the whole
\* one withdraws and announces no prefix that the whole one does not
\* (_parse_bgp_update).
THEOREM CutShortOnlyLoses == Spec => TruncationOnlyLoses
<1> DEFINE Loses == \A m \in ParseMessage(data), n \in ParseMessage(data') :
                      /\ m.update.withdrawn = n.update.withdrawn
                      /\ IsPrefix(m.update.nlri, n.update.nlri)
<1>1. OctetsInv /\ [Next]_vars => [Loses]_data
  <2> SUFFICES ASSUME OctetsInv, NEW octet \in Octet, Arrives(octet),
                      NEW m \in ParseMessage(data), NEW n \in ParseMessage(data')
               PROVE  /\ m.update.withdrawn = n.update.withdrawn
                      /\ IsPrefix(m.update.nlri, n.update.nlri)
    BY DEF Next, vars, Withdraw, AddAttribute, AddSegment, Announce
  <2> DEFINE d == data
             e == Append(data, octet)
  <2>1. octet \in OctetRange
    BY OctetType
  <2>2. /\ d \in Seq(OctetRange) /\ e \in Seq(OctetRange) /\ Len(d) \in Nat
        /\ Len(e) = Len(d) + 1
    BY <2>1, LenProperties, AppendProperties DEF OctetsInv
  <2>3. data' = e
    BY DEF Arrives
  <2>4. /\ CommonHeaderLength <= Len(d) /\ m.type = At(d, CommonHeaderLength - 1)
        /\ m.type # MSG_ROUTE_MONITORING => m.update = NoUpdate
        /\ m.type = MSG_ROUTE_MONITORING =>
             /\ UpdateStart + 2 <= Len(d) /\ AttributesOf(d) + 2 <= Len(d)
             /\ m.update.withdrawn \in Nlri(d, UpdateStart + 2, AttributesOf(d))
             /\ m.update.nlri \in Nlri(d, NlriOf(d), Len(d))
    BY <2>2, ParsedMessage
  <2>5. /\ n.type = At(e, CommonHeaderLength - 1)
        /\ n.type # MSG_ROUTE_MONITORING => n.update = NoUpdate
        /\ n.type = MSG_ROUTE_MONITORING =>
             /\ n.update.withdrawn \in Nlri(e, UpdateStart + 2, AttributesOf(e))
             /\ n.update.nlri \in Nlri(e, NlriOf(e), Len(e))
    BY <2>2, <2>3, ParsedMessage
  <2>6. n.type = m.type
    <3>1. CommonHeaderLength - 1 \in Nat /\ CommonHeaderLength - 1 < Len(d)
      BY <2>2, <2>4, Lengths
    <3>2. At(e, CommonHeaderLength - 1) = At(d, CommonHeaderLength - 1)
      BY <2>1, <2>2, <3>1, PrefixOfMore
    <3>. QED
      BY <2>4, <2>5, <3>2
  <2>7. CASE m.type # MSG_ROUTE_MONITORING
    <3>1. m.update = NoUpdate /\ n.update = NoUpdate
      BY <2>4, <2>5, <2>6, <2>7
    <3>2. IsPrefix(<<>>, <<>>)
      <4>1. <<>> \in Seq(OctetRange)
        BY EmptySeq
      <4>. QED
        BY <4>1, PrefixEmpty
    <3>. QED
      BY <3>1, <3>2 DEF NoUpdate
  <2>8. CASE m.type = MSG_ROUTE_MONITORING
    <3>1. /\ UpdateStart + 2 <= Len(d) /\ AttributesOf(d) + 2 <= Len(d)
          /\ m.update.withdrawn \in Nlri(d, UpdateStart + 2, AttributesOf(d))
          /\ m.update.nlri \in Nlri(d, NlriOf(d), Len(d))
          /\ n.update.withdrawn \in Nlri(e, UpdateStart + 2, AttributesOf(e))
          /\ n.update.nlri \in Nlri(e, NlriOf(e), Len(e))
      BY <2>4, <2>5, <2>6, <2>8
    <3>2. /\ UpdateStart \in Nat /\ UpdateStart + 2 \in Nat /\ UpdateStart <= UpdateStart + 2
          /\ AttributesOf(d) \in Nat /\ AttributesOf(d) + 2 \in Nat
          /\ AttributesOf(d) <= AttributesOf(d) + 2 /\ AttributesOf(d) <= Len(d)
          /\ NlriOf(d) \in Nat
      BY <2>2, <3>1, Lengths, OffsetTypes
    <3>3. AttributesOf(e) = AttributesOf(d)
      BY <2>1, <2>2, <3>1, <3>2, SliceOfMore DEF AttributesOf
    <3>4. NlriOf(e) = NlriOf(d)
      BY <2>1, <2>2, <3>1, <3>2, <3>3, SliceOfMore DEF NlriOf
    <3>5. Nlri(e, UpdateStart + 2, AttributesOf(d)) = Nlri(d, UpdateStart + 2, AttributesOf(d))
      BY <2>1, <2>2, <3>2, NlriOfMore
    <3>6. m.update.withdrawn = n.update.withdrawn
      BY <2>2, <3>1, <3>2, <3>3, <3>5, NlriIsUnique
    <3>7. IsPrefix(m.update.nlri, n.update.nlri)
      BY <2>1, <2>2, <3>1, <3>2, <3>4, NlriCutShort
    <3>. QED
      BY <3>6, <3>7
  <2>. QED
    BY <2>7, <2>8
<1>. QED
  BY <1>1, OctetsAreOctets, PTL DEF Spec, TruncationOnlyLoses

-----------------------------------------------------------------------------
\* Prefixes that were written.

\* Prefixes as the RFC has them: of IPv4, with the octets their length needs.
Written == {p \in PrefixRecord : p.bits <= 32 /\ Len(p.octets) = PrefixOctets(p.bits)}

\* The field from an offset to the end holds a prefix and the rest.
Holds(d, o, end, p, rest) ==
  o <= end /\ end <= Len(d) /\ Slice(d, o, end) = EncodedPrefix(p) \o rest

\* A written prefix that stands at an offset is the one that is read there, and
\* the rest of the field begins behind it.
LEMMA WrittenIsRead ==
  ASSUME NEW d \in Seq(OctetRange), NEW o \in Nat, NEW end \in Nat,
         NEW p \in Written, NEW rest \in Seq(OctetRange), Holds(d, o, end, p, rest)
  PROVE  /\ o < end /\ NextAt(d, o) <= end /\ PrefixAt(d, o) = p
         /\ Slice(d, NextAt(d, o), end) = rest
<1> DEFINE e == EncodedPrefix(p)
           n == NextAt(d, o)
<1>0. o <= end /\ end <= Len(d) /\ Slice(d, o, end) = e \o rest
  BY DEF Holds
<1>1. p \in PrefixRecord /\ p.bits \in OctetRange /\ p.octets \in Seq(OctetRange)
  BY DEF Written, PrefixRecord
<1>2. /\ Len(d) \in Nat /\ Len(p.octets) \in Nat /\ Len(rest) \in Nat
      /\ Len(p.octets) = PrefixOctets(p.bits)
  BY <1>1, LenProperties DEF Written
<1>3. /\ e \in Seq(OctetRange) /\ Len(e) = 1 + Len(p.octets) /\ e[1] = p.bits
      /\ \A i \in 1..Len(p.octets) : e[i + 1] = p.octets[i]
  BY <1>1, EncodedPrefixType
<1>4. /\ Slice(d, o, end) \in Seq(OctetRange) /\ Len(Slice(d, o, end)) = end - o
      /\ \A i \in 1..(end - o) : Slice(d, o, end)[i] = d[o + i]
  BY <1>0, SliceProperties
<1>5. Slice(d, o, end) = e \o rest
  BY <1>0
<1> HIDE DEF e
<1>6. /\ Len(e \o rest) = Len(e) + Len(rest)
      /\ \A i \in 1..(Len(e) + Len(rest)) :
           (e \o rest)[i] = IF i <= Len(e) THEN e[i] ELSE rest[i - Len(e)]
  <2>1. e \in Seq(OctetRange)
    BY <1>3
  <2>. QED
    BY <2>1, ConcatProperties
<1>7. end - o = Len(e) + Len(rest) /\ o < end
  <2>1. end - o = Len(e) + Len(rest)
    BY <1>4, <1>5, <1>6
  <2>2. Len(e) \in Nat /\ Len(e) > 0
    BY <1>2, <1>3
  <2>. QED
    BY <1>0, <1>2, <2>1, <2>2
<1>8. \A i \in 1..Len(e) : d[o + i] = e[i]
  <2>1. \A i \in 1..Len(e) : i \in 1..(end - o) /\ i \in 1..(Len(e) + Len(rest)) /\ i <= Len(e)
    BY <1>2, <1>3, <1>7
  <2>. QED
    BY <1>4, <1>5, <1>6, <2>1
<1>9. At(d, o) = p.bits
  <2>1. 1 \in 1..Len(e)
    BY <1>2, <1>3
  <2>. QED
    BY <1>3, <1>8, <2>1 DEF At
<1>10. n = o + Len(e) /\ n \in Nat /\ n <= end /\ o + 1 <= n
  <2>1. n = o + 1 + Len(p.octets)
    BY <1>2, <1>9 DEF NextAt
  <2> HIDE DEF n
  <2>2. Len(e) = 1 + Len(p.octets)
    BY <1>3
  <2>. QED
    <3> DEFINE k == Len(p.octets)
    <3>0. k \in Nat /\ n = o + 1 + k /\ Len(e) = 1 + k
      BY <1>0, <1>2, <2>1, <2>2
    <3> HIDE DEF k
    <3>1. n = o + Len(e) /\ o + 1 <= n /\ n \in Nat
      BY <3>0
    <3>2. n + Len(rest) = end
      BY <1>2, <1>7, <3>0, <3>1
    <3>3. n <= end
      BY <1>2, <3>1, <3>2
    <3>. QED
      BY <3>1, <3>3
<1> HIDE DEF n
<1>11. o + 1 \in Nat /\ n <= Len(d) /\ n - (o + 1) = Len(p.octets)
  BY <1>0, <1>2, <1>3, <1>10
<1>12. Slice(d, o + 1, n) = p.octets
  <2>1. /\ Slice(d, o + 1, n) \in Seq(OctetRange)
        /\ Len(Slice(d, o + 1, n)) = n - (o + 1)
        /\ \A i \in 1..(n - (o + 1)) : Slice(d, o + 1, n)[i] = d[o + 1 + i]
    <3>1. n \in Nat /\ o + 1 \in Nat /\ o + 1 <= n /\ n <= Len(d)
      BY <1>10, <1>11
    <3>. QED
      BY <3>1, SliceProperties
  <2>2. ASSUME NEW i \in 1..Len(p.octets) PROVE Slice(d, o + 1, n)[i] = p.octets[i]
    <3>1. i + 1 \in 1..Len(e) /\ o + 1 + i = o + (i + 1)
      BY <1>2, <1>3
    <3>2. d[o + (i + 1)] = e[i + 1]
      BY <1>8, <3>1
    <3>. QED
      BY <1>3, <1>11, <2>1, <3>1, <3>2
  <2>3. Len(Slice(d, o + 1, n)) = Len(p.octets)
    BY <1>11, <2>1
  <2>. QED
    BY <1>1, <2>1, <2>2, <2>3, SeqEqual
<1>13. PrefixAt(d, o) = p
  <2>1. PrefixAt(d, o) = [bits |-> p.bits, octets |-> p.octets]
    BY <1>9, <1>12 DEF PrefixAt, n
  <2>2. p = [bits |-> p.bits, octets |-> p.octets]
    BY <1>1 DEF PrefixRecord
  <2>. QED
    BY <2>1, <2>2
<1>14. Slice(d, n, end) = rest
  <2>1. /\ Slice(d, n, end) \in Seq(OctetRange) /\ Len(Slice(d, n, end)) = end - n
        /\ \A i \in 1..(end - n) : Slice(d, n, end)[i] = d[n + i]
    <3>1. n \in Nat /\ n <= end /\ end <= Len(d)
      BY <1>0, <1>10
    <3>. QED
      BY <3>1, SliceProperties
  <2>2. end - n = Len(rest) /\ Len(e) = 1 + Len(p.octets)
    <3>1. end - o = Len(e) + Len(rest) /\ n = o + Len(e)
      BY <1>7, <1>10
    <3>2. Len(e) = 1 + Len(p.octets) /\ Len(e) \in Nat /\ Len(rest) \in Nat
      BY <1>2, <1>3
    <3>. QED
      BY <3>1, <3>2
  <2>3. ASSUME NEW i \in 1..Len(rest) PROVE Slice(d, n, end)[i] = rest[i]
    <3>1. /\ Len(e) + i \in 1..(end - o) /\ Len(e) + i \in 1..(Len(e) + Len(rest))
          /\ ~(Len(e) + i <= Len(e)) /\ (Len(e) + i) - Len(e) = i
          /\ o + (Len(e) + i) = n + i
      <4>1. Len(e) \in Nat /\ Len(rest) \in Nat /\ i \in Nat /\ 1 <= i /\ i <= Len(rest)
        BY <1>2, <2>2
      <4>2. end - o = Len(e) + Len(rest) /\ n = o + Len(e)
        BY <1>7, <1>10
      <4>. QED
        BY <4>1, <4>2
    <3>2. d[o + (Len(e) + i)] = rest[(Len(e) + i) - Len(e)]
      BY <1>4, <1>5, <1>6, <3>1
    <3>. QED
      BY <2>1, <2>2, <3>1, <3>2
  <2>. QED
    BY <2>1, <2>2, <2>3, SeqEqual
<1>. QED
  BY <1>7, <1>10, <1>13, <1>14 DEF n

\* A list of prefixes that was written as the RFC says is read as it was, however
\* long it is and wherever in the message it stands (_parse_nlri): the loop skips
\* none, splits none and stops before none.
THEOREM PrefixesSurvive ==
  ASSUME NEW d \in Seq(OctetRange), NEW end \in Nat, end <= Len(d),
         NEW o \in Nat, o <= end,
         NEW w \in Seq(Written),
         Slice(d, o, end) = EncodedPrefixes(w)
  PROVE  Nlri(d, o, end) = {w}
<1> DEFINE Survives(n) == \A v \in Seq(Written) :
             n <= end /\ Slice(d, n, end) = EncodedPrefixes(v) => Nlri(d, n, end) = {v}
           G == {n \in Nat : Survives(n)}
<1>1. Len(d) \in Nat
  BY LenProperties
<1>2. \A n \in Nat : Nlri(d, n, end) = NlriBody(d, end, NlriFrom(d, end), n)
  BY NlriEquation
<1>3. ASSUME NEW v \in Seq(Written), v # <<>>
      PROVE  /\ v[1] \in Written /\ Tail(v) \in Seq(Written) /\ v = <<v[1]>> \o Tail(v)
             /\ Tail(v) \in Seq(PrefixRecord)
             /\ EncodedPrefixes(Tail(v)) \in Seq(OctetRange)
             /\ EncodedPrefixes(v) = EncodedPrefix(v[1]) \o EncodedPrefixes(Tail(v))
  <2>1. /\ v[1] \in Written /\ Tail(v) \in Seq(Written) /\ Len(v) \in Nat
        /\ Len(v) >= 1 /\ Len(Tail(v)) = Len(v) - 1
        /\ \A i \in 1..Len(Tail(v)) : Tail(v)[i] = v[i + 1]
    BY <1>3, HeadTailProperties, LenProperties, EmptySeq, ElementOfSeq
  <2>2. <<v[1]>> \in Seq(Written) /\ Len(<<v[1]>>) = 1 /\ <<v[1]>>[1] = v[1]
    BY <2>1
  <2>3. /\ <<v[1]>> \o Tail(v) \in Seq(Written)
        /\ Len(<<v[1]>> \o Tail(v)) = 1 + Len(Tail(v))
        /\ \A i \in 1..(1 + Len(Tail(v))) :
             (<<v[1]>> \o Tail(v))[i] = IF i <= 1 THEN <<v[1]>>[i] ELSE Tail(v)[i - 1]
    BY <2>1, <2>2, ConcatProperties
  <2>4. ASSUME NEW i \in 1..Len(v) PROVE (<<v[1]>> \o Tail(v))[i] = v[i]
    <3>1. CASE i = 1
      BY <2>1, <2>2, <2>3, <3>1
    <3>2. CASE i # 1
      <4>1. i - 1 \in 1..Len(Tail(v)) /\ (i - 1) + 1 = i
        BY <2>1, <3>2
      <4>2. Tail(v)[i - 1] = v[i]
        BY <2>1, <4>1
      <4>. QED
        BY <2>1, <2>3, <3>2, <4>2
    <3>. QED
      BY <3>1, <3>2
  <2>5. v = <<v[1]>> \o Tail(v)
    <3>1. Len(<<v[1]>> \o Tail(v)) = Len(v)
      BY <2>1, <2>3
    <3>. QED
      BY <2>3, <2>4, <3>1, SeqEqual
  <2>6. Tail(v) \in Seq(PrefixRecord) /\ v[1] \in PrefixRecord
    <3>1. \A i \in 1..Len(Tail(v)) : Tail(v)[i] \in PrefixRecord
      BY <2>1, ElementOfSeq DEF Written
    <3>. QED
      BY <2>1, <3>1 DEF Written
  <2>7. /\ EncodedPrefixes(<<v[1]>> \o Tail(v)) = EncodedPrefix(v[1]) \o EncodedPrefixes(Tail(v))
        /\ EncodedPrefixes(Tail(v)) \in Seq(OctetRange)
    BY <2>6, EncodedCons, EncodedPartsType
  <2>. QED
    BY <2>1, <2>5, <2>6, <2>7
<1>4. ASSUME NEW n \in Nat, n >= end PROVE Survives(n)
  <2> SUFFICES ASSUME NEW v \in Seq(Written), n <= end,
                      Slice(d, n, end) = EncodedPrefixes(v)
               PROVE  Nlri(d, n, end) = {v}
    OBVIOUS
  <2>1. v = <<>>
    <3> SUFFICES ASSUME v # <<>> PROVE FALSE
      OBVIOUS
    <3>1. /\ v[1] \in Written /\ EncodedPrefixes(Tail(v)) \in Seq(OctetRange)
          /\ Slice(d, n, end) = EncodedPrefix(v[1]) \o EncodedPrefixes(Tail(v))
      BY <1>3
    <3>2. Holds(d, n, end, v[1], EncodedPrefixes(Tail(v)))
      BY <3>1 DEF Holds
    <3>3. n < end
      BY <3>1, <3>2, WrittenIsRead
    <3>. QED
      BY <1>4, <3>3
  <2>2. Nlri(d, n, end) = {<<>>}
    BY <1>2, <1>4 DEF NlriBody
  <2>. QED
    BY <2>1, <2>2
<1>5. ASSUME NEW n \in Nat, n < end, NextAt(d, n) <= end => Survives(NextAt(d, n))
      PROVE  Survives(n)
  <2> SUFFICES ASSUME NEW v \in Seq(Written), Slice(d, n, end) = EncodedPrefixes(v)
               PROVE  Nlri(d, n, end) = {v}
    OBVIOUS
  <2>1. n <= end /\ n < Len(d) /\ ~(n >= end) /\ ~(n >= Len(d))
    BY <1>1, <1>5
  <2>2. v # <<>>
    <3> SUFFICES ASSUME v = <<>> PROVE FALSE
      OBVIOUS
    <3>1. Slice(d, n, end) = <<>>
      BY EncodedEmpty
    <3>2. Len(Slice(d, n, end)) = end - n
      BY <2>1, SliceProperties
    <3>. QED
      BY <2>1, <3>1, <3>2, EmptySeq
  <2>3. PICK p \in Written, t \in Seq(Written) :
                    /\ v = <<p>> \o t
                    /\ EncodedPrefixes(t) \in Seq(OctetRange)
                    /\ Slice(d, n, end) = EncodedPrefix(p) \o EncodedPrefixes(t)
    <3>1. /\ v[1] \in Written /\ Tail(v) \in Seq(Written)
          /\ v = <<v[1]>> \o Tail(v)
          /\ EncodedPrefixes(Tail(v)) \in Seq(OctetRange)
          /\ Slice(d, n, end) = EncodedPrefix(v[1]) \o EncodedPrefixes(Tail(v))
      BY <1>3, <2>2
    <3>. QED
      BY <3>1
  <2>4. /\ NextAt(d, n) <= end /\ PrefixAt(d, n) = p
        /\ Slice(d, NextAt(d, n), end) = EncodedPrefixes(t)
    <3>1. /\ EncodedPrefixes(t) \in Seq(OctetRange) /\ n <= end
          /\ Slice(d, n, end) = EncodedPrefix(p) \o EncodedPrefixes(t)
      BY <2>1, <2>3
    <3>2. Holds(d, n, end, p, EncodedPrefixes(t))
      BY <3>1 DEF Holds
    <3>. QED
      BY <3>1, <3>2, WrittenIsRead
  <2>5. NextAt(d, n) \in Nat
    BY <2>1, NextIsFurther
  <2>6. Nlri(d, NextAt(d, n), end) = {t}
    BY <1>5, <2>3, <2>4, <2>5
  <2>7. ~(NextAt(d, n) > end) /\ ~(Len(p.octets) > 4)
    <3>1. p.bits \in 0..32 /\ PrefixOctets(p.bits) = Len(p.octets)
      <4>1. /\ p.bits \in OctetRange /\ p.bits <= 32
            /\ Len(p.octets) = PrefixOctets(p.bits)
        BY <2>3 DEF Written, PrefixRecord
      <4>2. \A b \in OctetRange : b <= 32 => b \in 0..32
        BY DEF OctetRange
      <4>. QED
        BY <4>1, <4>2
    <3>2. \A b \in 0..32 : ~(PrefixOctets(b) > 4)
      BY DEF PrefixOctets
    <3>3. ~(Len(p.octets) > 4)
      BY <3>1, <3>2
    <3>4. ~(NextAt(d, n) > end)
      BY <2>4, <2>5
    <3>. QED
      BY <3>3, <3>4
  <2>8. Nlri(d, n, end) = {<<p>> \o rest : rest \in NlriFrom(d, end)[NextAt(d, n)]}
    <3>1. Nlri(d, n, end) = NlriBody(d, end, NlriFrom(d, end), n)
      BY <1>2
    <3>. QED
      BY <2>1, <2>4, <2>7, <3>1 DEF NlriBody
  <2>9. NlriFrom(d, end)[NextAt(d, n)] = {t}
    BY <2>6, NlriIsFrom
  <2>. QED
    BY <2>3, <2>8, <2>9
<1> HIDE DEF Survives
<1>6. ASSUME NEW n \in Nat, n < end, \A k \in Nat : k > n => k \in G PROVE n \in G
  <2>1. NextAt(d, n) \in Nat /\ NextAt(d, n) > n
    BY <1>1, <1>6, NextIsFurther
  <2>2. Survives(NextAt(d, n))
    BY <1>6, <2>1
  <2>. QED
    BY <1>5, <1>6, <2>2
<1>7. Nat \subseteq G
  <2>1. \A n \in Nat : n >= end => n \in G
    BY <1>4
  <2>2. \A n \in Nat : n < end /\ (\A k \in Nat : k > n => k \in G) => n \in G
    BY <1>6
  <2> HIDE DEF G
  <2>3. Backwards(end, G)
    BY <2>1, <2>2 DEF Backwards
  <2>. QED
    BY <2>3, OffsetInduction
<1>. QED
  BY <1>7 DEF Survives

-----------------------------------------------------------------------------
\* Numbers that were written.

\* What octets say, for the lengths that occur.
LEMMA NumberOfOctets ==
  ASSUME NEW o \in Seq(OctetRange)
  PROVE  /\ Len(o) = 1 => Number(o) = o[1]
         /\ Len(o) = 2 => Number(o) = o[1] * 256 + o[2]
         /\ Len(o) = 4 => Number(o) = ((o[1] * 256 + o[2]) * 256 + o[3]) * 256 + o[4]
<1> DEFINE number == NumberFrom(o)
<1>1. Len(o) \in Nat /\ \A i \in 1..Len(o) : o[i] \in Nat
  <2>1. Len(o) \in Nat /\ \A i \in 1..Len(o) : o[i] \in OctetRange
    BY LenProperties, ElementOfSeq
  <2>2. \A x \in OctetRange : x \in Nat
    BY DEF OctetRange
  <2>. QED
    BY <2>1, <2>2
<1>2. /\ Number(o) = number[Len(o)]
      /\ \A n \in 0..Len(o) : number[n] = NumberBody(o, number, n)
  BY <1>1, NumberEquation
<1> HIDE DEF number
<1>3. number[0] = 0
  BY <1>1, <1>2 DEF NumberBody
<1>4. \A n \in 1..Len(o) : number[n] = number[n - 1] * 256 + o[n]
  BY <1>1, <1>2 DEF NumberBody
<1>5. Len(o) >= 1 => o[1] \in Nat /\ number[1] = o[1]
  <2>1. Len(o) >= 1 => o[1] \in Nat /\ number[1] = number[0] * 256 + o[1]
    BY <1>1, <1>4
  <2>. QED
    BY <1>3, <2>1
<1>6. Len(o) >= 2 => o[2] \in Nat /\ number[2] = o[1] * 256 + o[2]
  <2>1. Len(o) >= 2 => o[2] \in Nat /\ number[2] = number[1] * 256 + o[2]
    BY <1>1, <1>4
  <2>. QED
    BY <1>1, <1>5, <2>1
<1>7. Len(o) >= 3 => o[3] \in Nat /\ number[3] = (o[1] * 256 + o[2]) * 256 + o[3]
  <2>1. Len(o) >= 3 => o[3] \in Nat /\ number[3] = number[2] * 256 + o[3]
    BY <1>1, <1>4
  <2>. QED
    BY <1>1, <1>6, <2>1
<1>8. Len(o) >= 4 => number[4] = ((o[1] * 256 + o[2]) * 256 + o[3]) * 256 + o[4]
  <2>1. Len(o) >= 4 => number[4] = number[3] * 256 + o[4]
    BY <1>1, <1>4
  <2>. QED
    BY <1>1, <1>7, <2>1
<1>9. ASSUME Len(o) = 1 PROVE Number(o) = o[1]
  BY <1>2, <1>5, <1>9
<1>10. ASSUME Len(o) = 2 PROVE Number(o) = o[1] * 256 + o[2]
  BY <1>2, <1>6, <1>10
<1>11. ASSUME Len(o) = 4 PROVE Number(o) = ((o[1] * 256 + o[2]) * 256 + o[3]) * 256 + o[4]
  BY <1>2, <1>8, <1>11
<1>. QED
  BY <1>9, <1>10, <1>11

\* The octets of a number are octets, and so many.
LEMMA OctetsType ==
  ASSUME NEW n \in Nat, NEW size \in {1, 2, 4}
  PROVE  Octets(n, size) \in Seq(OctetRange) /\ Len(Octets(n, size)) = size
<1>1. \A i \in 1..size : Place[size - i + 1] \in Nat \ {0}
  BY DEF Place
<1>2. \A i \in 1..size : (n \div Place[size - i + 1]) % 256 \in OctetRange
  BY <1>1 DEF OctetRange
<1>3. Octets(n, size) \in [1..size -> OctetRange]
  BY <1>2 DEF Octets
<1>4. size \in Nat
  OBVIOUS
<1>. QED
  BY <1>3, <1>4 DEF Octets

\* A number that fits its octets is what they say.
LEMMA NumberSurvives ==
  ASSUME NEW n \in Nat, NEW size \in {1, 2, 4},
         size = 1 => n < 256, size = 2 => n < 65536, size = 4 => IsFourOctets(n)
  PROVE  Number(Octets(n, size)) = n
<1> DEFINE o == Octets(n, size)
<1>0. n \in Nat /\ size \in {1, 2, 4}
  OBVIOUS
<1>1. o \in Seq(OctetRange) /\ Len(o) = size
  BY ONLY <1>0, OctetsType
<1>2. CASE size = 1
  <2>1. o[1] = (n \div 1) % 256
    BY <1>2 DEF Octets, Place
  <2>2. Number(o) = o[1]
    <3> HIDE DEF o
    <3>. QED
      BY <1>1, <1>2, NumberOfOctets
  <2> HIDE DEF o
  <2>3. Number(o) = n
    BY <1>2, <2>1, <2>2
  <2>. QED
    BY <2>3 DEF o
<1>3. CASE size = 2
  <2>1. o[1] = (n \div 256) % 256 /\ o[2] = (n \div 1) % 256
    BY <1>3 DEF Octets, Place
  <2>2. Number(o) = o[1] * 256 + o[2]
    <3> HIDE DEF o
    <3>. QED
      BY <1>1, <1>3, NumberOfOctets
  <2>3. n < 65536
    BY <1>3
  <2> HIDE DEF o
  <2>4. Number(o) = n
    BY <2>1, <2>2, <2>3
  <2>. QED
    BY <2>4 DEF o
<1>4. CASE size = 4
  <2>1. /\ o[1] = (n \div 16777216) % 256 /\ o[2] = (n \div 65536) % 256
        /\ o[3] = (n \div 256) % 256 /\ o[4] = (n \div 1) % 256
    BY <1>4 DEF Octets, Place
  <2>2. Number(o) = ((o[1] * 256 + o[2]) * 256 + o[3]) * 256 + o[4]
    <3> HIDE DEF o
    <3>. QED
      BY <1>1, <1>4, NumberOfOctets
  <2>3. n \div 16777216 < 256
    BY <1>4 DEF IsFourOctets
  <2> HIDE DEF o
  <2>4. Number(o) = n
    BY <2>1, <2>2, <2>3
  <2>. QED
    BY <2>4 DEF o
<1>. QED
  BY <1>2, <1>3, <1>4

-----------------------------------------------------------------------------
\* What stands where.

Within(d, a, b) == a \in Nat /\ b \in Nat /\ a <= b /\ b <= Len(d)

\* What a slice has, for offsets within the data.
LEMMA SliceIs ==
  ASSUME NEW S, NEW d \in Seq(S), NEW a, NEW b, Within(d, a, b)
  PROVE  /\ Slice(d, a, b) \in Seq(S) /\ Len(Slice(d, a, b)) = b - a
         /\ \A i \in 1..(b - a) : Slice(d, a, b)[i] = d[a + i]
BY SliceProperties DEF Within

\* A slice of a slice is a slice.
LEMMA SliceOfSlice ==
  ASSUME NEW S, NEW d \in Seq(S), NEW a \in Nat, NEW c \in Nat, a <= c, c <= Len(d),
         NEW x \in Nat, NEW y \in Nat, x <= y, a + y <= c
  PROVE  Slice(Slice(d, a, c), x, y) = Slice(d, a + x, a + y)
<1> DEFINE e == Slice(d, a, c)
           s == Slice(d, a + x, a + y)
           t == Slice(e, x, y)
<1>1. /\ e \in Seq(S) /\ Len(e) = c - a
      /\ \A i \in 1..(c - a) : e[i] = d[a + i]
  <2>1. Within(d, a, c)
    BY DEF Within
  <2>. QED
    BY ONLY <2>1, d \in Seq(S), SliceIs
<1> HIDE DEF e
<1>2. a + x \in Nat /\ a + y \in Nat /\ a + x <= a + y /\ a + y <= Len(d) /\ y <= c - a
      /\ (a + y) - (a + x) = y - x
  BY LenProperties
<1>3. /\ s \in Seq(S) /\ Len(s) = (a + y) - (a + x)
      /\ \A i \in 1..((a + y) - (a + x)) : s[i] = d[(a + x) + i]
  <2>1. Within(d, a + x, a + y)
    BY <1>2 DEF Within
  <2>. QED
    BY ONLY <2>1, d \in Seq(S), SliceIs
<1>4. y <= Len(e)
  BY <1>1, <1>2
<1>5. t \in Seq(S) /\ Len(t) = y - x /\ \A i \in 1..(y - x) : t[i] = e[x + i]
  <2>1. Within(e, x, y) /\ e \in Seq(S)
    BY <1>1, <1>4 DEF Within
  <2>. QED
    BY ONLY <2>1, SliceIs
<1> HIDE DEF s, t
<1>6. ASSUME NEW i \in 1..(y - x) PROVE t[i] = s[i]
  <2>1. x + i \in 1..(c - a) /\ a + (x + i) = (a + x) + i
    BY <1>2
  <2>2. t[i] = d[a + (x + i)]
    BY <1>1, <1>5, <2>1
  <2>3. s[i] = d[(a + x) + i]
    BY <1>2, <1>3
  <2>. QED
    BY <2>1, <2>2, <2>3
<1>7. Len(t) = Len(s) /\ \A i \in 1..Len(t) : t[i] = s[i]
  BY <1>2, <1>3, <1>5, <1>6
<1>8. t = s
  BY <1>3, <1>5, <1>7, SeqEqual
<1>. QED
  BY <1>8 DEF s, t, e

\* The slice of all.
LEMMA SliceOfAll == ASSUME NEW S, NEW d \in Seq(S) PROVE Slice(d, 0, Len(d)) = d
<1> DEFINE s == Slice(d, 0, Len(d))
<1>1. Len(d) \in Nat /\ 0 <= Len(d) /\ Len(d) - 0 = Len(d) /\ 0 \in Nat
  BY LenProperties
<1>2. s \in Seq(S) /\ Len(s) = Len(d) - 0 /\ \A i \in 1..(Len(d) - 0) : s[i] = d[0 + i]
  <2>1. Within(d, 0, Len(d))
    BY <1>1 DEF Within
  <2>. QED
    BY ONLY <2>1, d \in Seq(S), SliceIs
<1> HIDE DEF s
<1>3. Len(s) = Len(d) /\ \A i \in 1..Len(s) : s[i] = d[i]
  BY <1>1, <1>2
<1>4. s = d
  BY <1>2, <1>3, SeqEqual
<1>. QED
  BY <1>4 DEF s

\* Where one sequence follows another.
LEMMA SliceOfConcat ==
  ASSUME NEW S, NEW u \in Seq(S), NEW v \in Seq(S)
  PROVE  /\ u \o v \in Seq(S) /\ Len(u) \in Nat /\ Len(v) \in Nat
         /\ Len(u \o v) = Len(u) + Len(v)
         /\ Slice(u \o v, 0, Len(u)) = u
         /\ Slice(u \o v, Len(u), Len(u) + Len(v)) = v
<1> DEFINE n == Len(u)
           m == Len(v)
           w == u \o v
           s == Slice(w, 0, n)
           t == Slice(w, n, n + m)
<1>1. n \in Nat /\ m \in Nat
  BY LenProperties
<1>2. /\ w \in Seq(S) /\ Len(w) = n + m
      /\ \A i \in 1..(n + m) : w[i] = IF i <= n THEN u[i] ELSE v[i - n]
  BY ConcatProperties
<1> HIDE DEF w
<1>3. /\ 0 \in Nat /\ 0 <= n /\ n <= Len(w) /\ n + m \in Nat /\ n <= n + m /\ n + m <= Len(w)
      /\ n - 0 = n /\ (n + m) - n = m
  BY <1>1, <1>2
<1>4. s \in Seq(S) /\ Len(s) = n - 0 /\ \A i \in 1..(n - 0) : s[i] = w[0 + i]
  <2> HIDE DEF n
  <2>1. Within(w, 0, n) /\ w \in Seq(S)
    BY <1>1, <1>2, <1>3 DEF Within
  <2>. QED
    BY ONLY <2>1, SliceIs
<1>5. t \in Seq(S) /\ Len(t) = (n + m) - n /\ \A i \in 1..((n + m) - n) : t[i] = w[n + i]
  <2> HIDE DEF n, m
  <2>1. Within(w, n, n + m) /\ w \in Seq(S)
    BY <1>1, <1>2, <1>3 DEF Within
  <2>. QED
    BY ONLY <2>1, SliceIs
<1> HIDE DEF s, t
<1>6. \A i \in 1..n : s[i] = u[i]
  <2> HIDE DEF n, m
  <2>1. \A i \in 1..n : 0 + i = i /\ i \in 1..(n + m) /\ i <= n /\ i \in 1..(n - 0)
    BY <1>1
  <2>. QED
    BY <1>2, <1>4, <2>1
<1>7. \A i \in 1..m : t[i] = v[i]
  <2> HIDE DEF n, m
  <2>1. \A i \in 1..m : /\ n + i \in 1..(n + m) /\ ~(n + i <= n) /\ (n + i) - n = i
                        /\ i \in 1..((n + m) - n)
    BY <1>1
  <2>. QED
    BY <1>2, <1>5, <2>1
<1>8. s = u
  <2>1. Len(s) = Len(u)
    BY <1>3, <1>4
  <2>. QED
    BY <1>4, <1>6, <2>1, SeqEqual
<1>9. t = v
  <2>1. Len(t) = Len(v)
    BY <1>3, <1>5
  <2>. QED
    BY <1>5, <1>7, <2>1, SeqEqual
<1>. QED
  BY <1>1, <1>2, <1>8, <1>9 DEF s, t, w

\* The octets from an offset to another.
Stands(d, o, c, u) ==
  d \in Seq(OctetRange) /\ o \in Nat /\ c \in Nat /\ o <= c /\ c <= Len(d) /\ Slice(d, o, c) = u

\* What stands has its length and its first octets at the offset.
LEMMA StandsType ==
  ASSUME NEW d, NEW o, NEW c, NEW u, Stands(d, o, c, u)
  PROVE  /\ u \in Seq(OctetRange) /\ Len(u) \in Nat /\ c = o + Len(u)
         /\ \A i \in 1..Len(u) : d[o + i] = u[i]
<1>1. /\ d \in Seq(OctetRange) /\ o \in Nat /\ c \in Nat /\ o <= c /\ c <= Len(d)
      /\ Slice(d, o, c) = u
  BY DEF Stands
<1>2. u \in Seq(OctetRange) /\ Len(u) = c - o /\ \A i \in 1..(c - o) : u[i] = d[o + i]
  BY <1>1, SliceProperties
<1>3. c - o \in Nat /\ c = o + (c - o)
  BY <1>1
<1>. QED
  BY <1>2, <1>3

\* What stands in two parts, stands part by part.
LEMMA StandsSplit ==
  ASSUME NEW d, NEW o, NEW c, NEW u \in Seq(OctetRange), NEW v \in Seq(OctetRange),
         Stands(d, o, c, u \o v)
  PROVE  Stands(d, o, o + Len(u), u) /\ Stands(d, o + Len(u), c, v)
<1> DEFINE w == u \o v
           n == Len(u)
           m == Len(v)
<1>1. /\ d \in Seq(OctetRange) /\ o \in Nat /\ c \in Nat /\ o <= c /\ c <= Len(d)
      /\ Slice(d, o, c) = w
  BY DEF Stands
<1>2. Len(w) \in Nat /\ c = o + Len(w)
  <2> HIDE DEF w
  <2>1. Stands(d, o, c, w)
    BY DEF w
  <2>. QED
    BY <2>1, StandsType
<1>3. /\ n \in Nat /\ m \in Nat /\ Len(w) = n + m
      /\ Slice(w, 0, n) = u /\ Slice(w, n, n + m) = v
  BY SliceOfConcat
<1> HIDE DEF w, n, m
<1>4. /\ 0 \in Nat /\ n + m \in Nat /\ 0 <= n /\ n <= n + m /\ o + n \in Nat /\ o <= o + n
      /\ o + n <= c /\ o + n <= Len(d) /\ o + 0 = o /\ o + (n + m) = c /\ o + (n + m) <= c
  <2>1. Len(d) \in Nat
    BY <1>1, LenProperties
  <2>. QED
    BY <1>1, <1>2, <1>3, <2>1
<1>5. Slice(Slice(d, o, c), 0, n) = Slice(d, o + 0, o + n)
  BY <1>1, <1>3, <1>4, SliceOfSlice
<1>6. Slice(Slice(d, o, c), n, n + m) = Slice(d, o + n, o + (n + m))
  BY <1>1, <1>3, <1>4, SliceOfSlice
<1>7. Slice(d, o, o + n) = u
  BY <1>1, <1>3, <1>4, <1>5
<1>8. Slice(d, o + n, c) = v
  BY <1>1, <1>3, <1>4, <1>6
<1>. QED
  BY <1>1, <1>4, <1>7, <1>8 DEF Stands, n

\* A whole sequence stands from its beginning to its end.
LEMMA StandsWhole ==
  ASSUME NEW d \in Seq(OctetRange) PROVE Stands(d, 0, Len(d), d)
<1>1. Len(d) \in Nat /\ 0 \in Nat /\ 0 <= Len(d) /\ Len(d) <= Len(d)
  BY LenProperties
<1>. QED
  BY <1>1, SliceOfAll DEF Stands

-----------------------------------------------------------------------------
\* The loop over path attributes.

\* The offsets of an attribute's value.
Extended(d, o) == (At(d, o) \div 16) % 2 = 1
ValueStart(d, o) == o + (IF Extended(d, o) THEN 4 ELSE 3)
ValueEnd(d, o) == ValueStart(d, o) + Number(Slice(d, o + 2, ValueStart(d, o)))

\* What one attribute gives.
DecodedAt(d, o) == Decoded(At(d, o + 1), Slice(d, ValueStart(d, o), ValueEnd(d, o)))

\* One round of the loop.
AttributesBody(d, end, f, o) ==
  IF o + 2 > end THEN {{}}
  ELSE IF o + 2 > Len(d) THEN {}
  ELSE IF Extended(d, o) /\ ValueStart(d, o) > end THEN {{}}
  ELSE IF ValueStart(d, o) > Len(d) THEN {}
  ELSE {Overridden(DecodedAt(d, o), rest) : rest \in f[ValueEnd(d, o)]}

AttributesFrom(d, end) == CHOOSE f : f = [o \in Nat |-> AttributesBody(d, end, f, o)]

\* The parse is the value of the recursive function.
LEMMA PathAttributesIsFrom ==
  ASSUME NEW d, NEW o, NEW end PROVE PathAttributes(d, o, end) = AttributesFrom(d, end)[o]
BY DEF PathAttributes, AttributesFrom, AttributesBody, Extended, ValueStart, ValueEnd, DecodedAt

\* The next attribute is further on.
LEMMA ValueIsFurther ==
  ASSUME NEW d \in Seq(OctetRange), NEW o \in Nat
  PROVE  ValueEnd(d, o) \in Nat /\ ValueEnd(d, o) > o
<1>1. ValueStart(d, o) \in Nat /\ ValueStart(d, o) > o
  BY DEF ValueStart
<1>2. Slice(d, o + 2, ValueStart(d, o)) \in Seq(OctetRange)
  <2>1. o + 2 \in Nat
    OBVIOUS
  <2>. QED
    BY ONLY <1>1, <2>1, d \in Seq(OctetRange), SliceProperties
<1>3. Number(Slice(d, o + 2, ValueStart(d, o))) \in Nat
  BY ONLY <1>2, NumberType
<1>. QED
  BY <1>1, <1>3 DEF ValueEnd

\* The loop is well defined: an offset is only ever followed by a greater one.
LEMMA AttributesEquation ==
  ASSUME NEW d \in Seq(OctetRange), NEW end \in Nat, NEW o \in Nat
  PROVE  PathAttributes(d, o, end) = AttributesBody(d, end, AttributesFrom(d, end), o)
<1> DEFINE From(f, k) == \A n \in Nat : n + k >= end => f[n] = AttributesBody(d, end, f, n)
           G == {k \in Nat : \E f : From(f, k)}
<1>0. ASSUME NEW f, NEW g, NEW n \in Nat, n < end => f[ValueEnd(d, n)] = g[ValueEnd(d, n)]
      PROVE  AttributesBody(d, end, f, n) = AttributesBody(d, end, g, n)
  <2>1. CASE f[ValueEnd(d, n)] = g[ValueEnd(d, n)]
    BY <2>1 DEF AttributesBody
  <2>2. CASE ~(n < end)
    <3>1. n + 2 > end
      BY <2>2
    <3>. QED
      BY <3>1 DEF AttributesBody
  <2>. QED
    BY <1>0, <2>1, <2>2
<1>1. 0 \in G
  <2>1. ASSUME NEW n \in Nat, n + 0 >= end
        PROVE  AttributesBody(d, end, [m \in Nat |-> {{}}], n) = {{}}
    <3>1. n + 2 > end
      BY <2>1
    <3>. QED
      BY <3>1 DEF AttributesBody
  <2>2. From([n \in Nat |-> {{}}], 0)
    BY <2>1
  <2>. QED
    BY <2>2
<1>2. ASSUME NEW k \in Nat, k \in G PROVE k + 1 \in G
  <2>1. PICK f : From(f, k)
    BY <1>2
  <2> DEFINE g == [n \in Nat |-> AttributesBody(d, end, f, n)]
  <2>2. ASSUME NEW n \in Nat, n + (k + 1) >= end PROVE g[n] = AttributesBody(d, end, g, n)
    <3>1. f[ValueEnd(d, n)] = g[ValueEnd(d, n)]
      <4>1. ValueEnd(d, n) \in Nat /\ ValueEnd(d, n) + k >= end
        BY <2>2, ValueIsFurther
      <4>. QED
        BY <2>1, <4>1
    <3>. QED
      BY <1>0, <3>1
  <2>3. From(g, k + 1)
    BY <2>2
  <2> HIDE DEF g, From
  <2>. QED
    BY <2>3
<1>3. PICK f : From(f, end)
  <2> HIDE DEF G
  <2>1. end \in G
    BY <1>1, <1>2, SetNatInduction
  <2>. QED
    BY <2>1 DEF G
<1> DEFINE g == [n \in Nat |-> f[n]]
<1>4. ASSUME NEW n \in Nat PROVE g[n] = AttributesBody(d, end, g, n)
  <2>1. f[ValueEnd(d, n)] = g[ValueEnd(d, n)]
    BY ValueIsFurther
  <2>2. f[n] = AttributesBody(d, end, f, n)
    BY <1>3
  <2>. QED
    BY <1>0, <2>1, <2>2
<1>5. g = [n \in Nat |-> AttributesBody(d, end, g, n)]
  BY <1>4
<1>6. AttributesFrom(d, end) =
        [n \in Nat |-> AttributesBody(d, end, AttributesFrom(d, end), n)]
  BY <1>5 DEF AttributesFrom
<1>. QED
  BY <1>6, PathAttributesIsFrom

-----------------------------------------------------------------------------
\* The loop over segments.

SegmentSize(v, o) == AsnSize(Len(v) - (o + 2), At(v, o + 1))

\* The AS numbers of one segment.
AsnsAt(v, o) ==
  IF At(v, o) = AS_SEQUENCE
  THEN [i \in 1..At(v, o + 1) |->
          Number(Slice(v, o + 2 + (i - 1) * SegmentSize(v, o), o + 2 + i * SegmentSize(v, o)))]
  ELSE <<>>

SegmentEnd(v, o) == o + 2 + At(v, o + 1) * SegmentSize(v, o)

\* One round of the loop.
SegmentsBody(v, f, o) ==
  IF o + 2 > Len(v) THEN <<>>
  ELSE IF At(v, o + 1) = 0 THEN f[o + 2]
  ELSE IF SegmentSize(v, o) = 0 THEN <<>>
  ELSE AsnsAt(v, o) \o f[SegmentEnd(v, o)]

SegmentsFrom(v) == CHOOSE f : f = [o \in Nat |-> SegmentsBody(v, f, o)]

\* The parse is the value of the recursive function.
LEMMA AsPathIsFrom == ASSUME NEW v PROVE AsPath(v) = SegmentsFrom(v)[0]
BY DEF AsPath, SegmentsFrom, SegmentsBody, SegmentSize, AsnsAt, SegmentEnd

\* The next segment is further on.
LEMMA SegmentIsFurther ==
  ASSUME NEW v \in Seq(OctetRange), NEW o \in Nat, o + 2 <= Len(v)
  PROVE  SegmentEnd(v, o) \in Nat /\ SegmentEnd(v, o) > o
<1>1. At(v, o + 1) \in Nat
  <2>1. (o + 1) + 1 \in 1..Len(v)
    BY LenProperties
  <2>2. At(v, o + 1) \in OctetRange
    BY <2>1, ElementOfSeq DEF At
  <2>3. \A x \in OctetRange : x \in Nat
    BY DEF OctetRange
  <2>. QED
    BY <2>2, <2>3
<1>2. SegmentSize(v, o) \in {0, 2, 4}
  BY DEF SegmentSize, AsnSize
<1>3. At(v, o + 1) * SegmentSize(v, o) \in Nat
  <2> DEFINE n == At(v, o + 1)
  <2>1. n * 0 \in Nat /\ n * 2 \in Nat /\ n * 4 \in Nat
    BY <1>1
  <2>. QED
    BY <1>2, <2>1
<1>. QED
  BY <1>3 DEF SegmentEnd

\* The loop is well defined.
LEMMA SegmentsEquation ==
  ASSUME NEW v \in Seq(OctetRange), NEW o \in Nat
  PROVE  SegmentsFrom(v)[o] = SegmentsBody(v, SegmentsFrom(v), o)
<1> DEFINE end == Len(v)
           From(f, k) == \A n \in Nat : n + k >= end => f[n] = SegmentsBody(v, f, n)
           G == {k \in Nat : \E f : From(f, k)}
<1>a. end \in Nat
  BY LenProperties
<1>0. ASSUME NEW f, NEW g, NEW n \in Nat,
             n + 2 <= end => f[n + 2] = g[n + 2] /\ f[SegmentEnd(v, n)] = g[SegmentEnd(v, n)]
      PROVE  SegmentsBody(v, f, n) = SegmentsBody(v, g, n)
  <2>1. CASE n + 2 <= end
    <3>1. f[n + 2] = g[n + 2] /\ f[SegmentEnd(v, n)] = g[SegmentEnd(v, n)]
      BY <1>0, <2>1
    <3>. QED
      BY <3>1 DEF SegmentsBody
  <2>2. CASE ~(n + 2 <= end)
    <3>1. n + 2 > Len(v)
      BY <1>a, <2>2
    <3>. QED
      BY <3>1 DEF SegmentsBody
  <2>. QED
    BY <2>1, <2>2
<1>1. 0 \in G
  <2>1. ASSUME NEW n \in Nat, n + 0 >= end
        PROVE  SegmentsBody(v, [m \in Nat |-> <<>>], n) = <<>>
    <3>1. n + 2 > Len(v)
      BY <1>a, <2>1
    <3>. QED
      BY <3>1 DEF SegmentsBody
  <2>2. From([n \in Nat |-> <<>>], 0)
    BY <2>1
  <2>. QED
    BY <2>2
<1>2. ASSUME NEW k \in Nat, k \in G PROVE k + 1 \in G
  <2>1. PICK f : From(f, k)
    BY <1>2
  <2> DEFINE g == [n \in Nat |-> SegmentsBody(v, f, n)]
  <2>2. ASSUME NEW n \in Nat, n + (k + 1) >= end PROVE g[n] = SegmentsBody(v, g, n)
    <3>1. ASSUME n + 2 <= end
          PROVE  f[n + 2] = g[n + 2] /\ f[SegmentEnd(v, n)] = g[SegmentEnd(v, n)]
      <4>1. SegmentEnd(v, n) \in Nat /\ SegmentEnd(v, n) > n
        BY <3>1, SegmentIsFurther
      <4>2. SegmentEnd(v, n) + k >= end /\ n + 2 \in Nat /\ (n + 2) + k >= end
        BY <1>a, <2>2, <4>1
      <4>. QED
        BY <2>1, <4>1, <4>2
    <3>. QED
      BY <1>0, <3>1
  <2>3. From(g, k + 1)
    BY <2>2
  <2> HIDE DEF g, From
  <2>. QED
    BY <2>3
<1>3. PICK f : From(f, end)
  <2> HIDE DEF G
  <2>1. end \in G
    BY <1>a, <1>1, <1>2, SetNatInduction
  <2>. QED
    BY <2>1 DEF G
<1> DEFINE g == [n \in Nat |-> f[n]]
<1>4. ASSUME NEW n \in Nat PROVE g[n] = SegmentsBody(v, g, n)
  <2>1. ASSUME n + 2 <= end
        PROVE  f[n + 2] = g[n + 2] /\ f[SegmentEnd(v, n)] = g[SegmentEnd(v, n)]
    <3>1. SegmentEnd(v, n) \in Nat /\ n + 2 \in Nat
      BY <2>1, SegmentIsFurther
    <3>. QED
      BY <3>1
  <2>2. f[n] = SegmentsBody(v, f, n)
    BY <1>a, <1>3
  <2>. QED
    BY <1>0, <2>1, <2>2
<1>5. g = [n \in Nat |-> SegmentsBody(v, g, n)]
  BY <1>4
<1>6. SegmentsFrom(v) = [n \in Nat |-> SegmentsBody(v, SegmentsFrom(v), n)]
  BY <1>5 DEF SegmentsFrom
<1>. QED
  BY <1>6

-----------------------------------------------------------------------------
\* Parts that stand one after the other.

\* The parts behind the first k.
Rest(ss, k) == Slice(ss, k, Len(ss))

\* All of them, and none.
LEMMA RestEnds ==
  ASSUME NEW S, NEW ss \in Seq(Seq(S))
  PROVE  Rest(ss, 0) = ss /\ FlattenSeq(Rest(ss, Len(ss))) = <<>>
<1> DEFINE r == Rest(ss, Len(ss))
<1>1. Len(ss) \in Nat /\ Within(ss, Len(ss), Len(ss)) /\ Len(ss) - Len(ss) = 0
  BY LenProperties DEF Within
<1>2. r \in Seq(Seq(S)) /\ Len(r) = 0
  BY <1>1, SliceIs DEF Rest
<1>3. r = <<>>
  BY <1>2, EmptySeq
<1>4. FlattenSeq(r) = <<>>
  BY <1>2, <1>3, FlattenValue
<1>. QED
  BY <1>4, SliceOfAll DEF Rest

\* The next part and those behind it.
LEMMA RestCons ==
  ASSUME NEW S, NEW ss \in Seq(Seq(S)), NEW k \in Nat, k < Len(ss)
  PROVE  /\ ss[k + 1] \in Seq(S) /\ FlattenSeq(Rest(ss, k + 1)) \in Seq(S)
         /\ FlattenSeq(Rest(ss, k)) = ss[k + 1] \o FlattenSeq(Rest(ss, k + 1))
<1> DEFINE n == Len(ss)
           j == k + 1
           a == Slice(ss, k, j)
           r == Rest(ss, j)
           x == ss[j]
<1>1. /\ n \in Nat /\ j \in 1..n /\ Within(ss, k, j) /\ Within(ss, j, n) /\ j - k = 1
      /\ j \in Nat /\ k <= j /\ j <= n
  BY LenProperties DEF Within
<1>2. x \in Seq(S)
  BY <1>1, ElementOfSeq
<1>3. a \in Seq(Seq(S)) /\ Len(a) = 1 /\ a[1] = x
  <2>1. a \in Seq(Seq(S)) /\ Len(a) = j - k /\ \A i \in 1..(j - k) : a[i] = ss[k + i]
    <3> HIDE DEF j
    <3>. QED
      BY <1>1, SliceIs
  <2>. QED
    BY <1>1, <2>1
<1>4. r \in Seq(Seq(S))
  BY <1>1, SliceIs DEF Rest
<1> HIDE DEF a, x
<1>5. a = <<x>>
  <2>1. <<x>> \in Seq(Seq(S)) /\ Len(<<x>>) = 1 /\ <<x>>[1] = x
    BY <1>2
  <2>2. Len(a) = Len(<<x>>) /\ \A i \in 1..Len(a) : a[i] = <<x>>[i]
    BY <1>3, <2>1
  <2>. QED
    BY <1>3, <2>1, <2>2, SeqEqual
<1>6. Rest(ss, k) = a \o r
  <2> HIDE DEF j, n
  <2>1. Slice(ss, k, n) = Slice(ss, k, j) \o Slice(ss, j, n)
    <3>1. n <= Len(ss)
      BY <1>1 DEF n
    <3>. QED
      BY <1>1, <3>1, SliceSplits
  <2>. QED
    BY <2>1 DEF Rest, a, n
<1> HIDE DEF r
<1>7. FlattenSeq(<<x>> \o r) = x \o FlattenSeq(r)
  BY <1>2, <1>4, FlattenCons
<1>8. FlattenSeq(r) \in Seq(S)
  BY <1>4, FlattenValue
<1>. QED
  BY <1>2, <1>5, <1>6, <1>7, <1>8 DEF r, x

-----------------------------------------------------------------------------
\* Lists of numbers that were written.

Times(k, size) == k * size

\* Its steps.
LEMMA TimesSteps ==
  ASSUME NEW size \in {2, 4}, NEW k \in Nat
  PROVE  /\ Times(k, size) \in Nat /\ Times(k + 1, size) = Times(k, size) + size
         /\ Times(0, size) = 0 /\ (k + 1) - 1 = k
<1>1. /\ k * 2 \in Nat /\ (k + 1) * 2 = k * 2 + 2 /\ 0 * 2 = 0
      /\ k * 4 \in Nat /\ (k + 1) * 4 = k * 4 + 4 /\ 0 * 4 = 0
  OBVIOUS
<1>. QED
  BY <1>1 DEF Times

NumberParts(numbers, size) == [i \in 1..Len(numbers) |-> Octets(numbers[i], size)]

\* The parts of a list of numbers.
LEMMA NumberPartsType ==
  ASSUME NEW numbers \in Seq(Nat), NEW size \in {2, 4}
  PROVE  /\ NumberParts(numbers, size) \in Seq(Seq(OctetRange))
         /\ Len(NumberParts(numbers, size)) = Len(numbers)
         /\ \A i \in 1..Len(numbers) :
              NumberParts(numbers, size)[i] = Octets(numbers[i], size)
         /\ EncodedNumbers(numbers, size) = FlattenSeq(NumberParts(numbers, size))
         /\ EncodedNumbers(numbers, size) \in Seq(OctetRange)
<1>1. Len(numbers) \in Nat /\ \A i \in 1..Len(numbers) : numbers[i] \in Nat
  BY LenProperties, ElementOfSeq
<1>2. ASSUME NEW i \in 1..Len(numbers) PROVE Octets(numbers[i], size) \in Seq(OctetRange)
  <2>1. numbers[i] \in Nat /\ size \in {1, 2, 4}
    BY <1>1
  <2>. QED
    BY ONLY <2>1, OctetsType
<1>3. NumberParts(numbers, size) \in [1..Len(numbers) -> Seq(OctetRange)]
  BY <1>2 DEF NumberParts
<1>4. /\ NumberParts(numbers, size) \in Seq(Seq(OctetRange))
      /\ Len(NumberParts(numbers, size)) = Len(numbers)
  BY <1>1, <1>3
<1>5. EncodedNumbers(numbers, size) = FlattenSeq(NumberParts(numbers, size))
  BY DEF EncodedNumbers, NumberParts
<1>6. FlattenSeq(NumberParts(numbers, size)) \in Seq(OctetRange)
  BY <1>4, FlattenValue
<1>. QED
  BY <1>4, <1>5, <1>6 DEF NumberParts

\* Each number stands at its place.
LEMMA NumbersStand ==
  ASSUME NEW numbers \in Seq(Nat), NEW size \in {2, 4}, NEW d, NEW o, NEW c,
         Stands(d, o, c, EncodedNumbers(numbers, size))
  PROVE  /\ c = o + Times(Len(numbers), size)
         /\ \A i \in 1..Len(numbers) :
              Stands(d, o + Times(i - 1, size), o + Times(i, size), Octets(numbers[i], size))
<1> DEFINE parts == NumberParts(numbers, size)
           n == Len(numbers)
           Here(k) == Stands(d, o + Times(k, size), c, FlattenSeq(Rest(parts, k)))
           G == {k \in Nat : k <= n => Here(k)}
<1>1. /\ parts \in Seq(Seq(OctetRange)) /\ Len(parts) = n /\ n \in Nat
      /\ \A i \in 1..n : parts[i] = Octets(numbers[i], size)
      /\ EncodedNumbers(numbers, size) = FlattenSeq(parts)
  BY NumberPartsType, LenProperties
<1>2. o \in Nat /\ c \in Nat
  BY DEF Stands
<1> HIDE DEF parts
<1>3. ASSUME NEW k \in Nat, k < n, Here(k)
      PROVE  /\ Stands(d, o + Times(k, size), o + Times(k + 1, size), Octets(numbers[k + 1], size))
             /\ Here(k + 1)
  <2> DEFINE a == o + Times(k, size)
             x == Octets(numbers[k + 1], size)
             r == FlattenSeq(Rest(parts, k + 1))
  <2>1. k + 1 \in 1..n /\ k < Len(parts)
    BY <1>1, <1>3
  <2>2. parts[k + 1] = x
    BY <1>1, <2>1
  <2>3. x \in Seq(OctetRange) /\ Len(x) = size
    <3>1. numbers[k + 1] \in Nat
      BY <2>1, ElementOfSeq
    <3>2. size \in {1, 2, 4}
      OBVIOUS
    <3>. QED
      BY ONLY <3>1, <3>2, OctetsType
  <2>4. FlattenSeq(Rest(parts, k)) = x \o r /\ r \in Seq(OctetRange)
    BY <1>1, <2>1, <2>2, RestCons
  <2>5. Stands(d, a, c, x \o r)
    BY <1>3, <2>4
  <2> HIDE DEF a, x, r
  <2>6. Stands(d, a, a + Len(x), x) /\ Stands(d, a + Len(x), c, r)
    BY <2>3, <2>4, <2>5, StandsSplit
  <2>7. a + Len(x) = o + Times(k + 1, size)
    <3>1. Times(k, size) \in Nat /\ Times(k + 1, size) = Times(k, size) + size
      BY TimesSteps
    <3>. QED
      BY <1>2, <2>3, <3>1 DEF a
  <2>. QED
    BY <2>6, <2>7 DEF a, x, r
<1> HIDE DEF Here
<1>4. 0 \in G
  <2>1. Stands(d, o, c, FlattenSeq(parts)) /\ Rest(parts, 0) = parts
    BY <1>1, RestEnds
  <2>2. o + Times(0, size) = o
    <3>1. Times(0, size) = 0
      BY DEF Times
    <3>. QED
      BY <1>2, <3>1
  <2>3. Here(0)
    BY <2>1, <2>2 DEF Here
  <2>. QED
    BY <2>3
<1>5. ASSUME NEW k \in Nat, k \in G PROVE k + 1 \in G
  <2>1. ASSUME k + 1 <= n PROVE Here(k + 1)
    <3>1. k < n /\ k <= n
      BY <1>1, <2>1
    <3>2. Here(k)
      BY <1>5, <3>1
    <3>. QED
      BY <1>3, <3>1, <3>2
  <2>. QED
    BY <2>1
<1>6. Nat \subseteq G
  <2> HIDE DEF G
  <2>. QED
    BY <1>4, <1>5, SetNatInduction
<1>7. c = o + Times(n, size)
  <2>1. Here(n)
    BY <1>1, <1>6
  <2>2. Stands(d, o + Times(n, size), c, <<>>)
    <3>1. FlattenSeq(Rest(parts, n)) = <<>>
      BY <1>1, RestEnds
    <3>. QED
      BY <2>1, <3>1 DEF Here
  <2>3. c = o + Times(n, size) + Len(<<>>)
    BY ONLY <2>2, StandsType
  <2>4. Times(n, size) \in Nat /\ Len(<<>>) = 0
    BY <1>1, TimesSteps
  <2>. QED
    BY <1>2, <2>3, <2>4
<1>8. ASSUME NEW i \in 1..n
      PROVE  Stands(d, o + Times(i - 1, size), o + Times(i, size), Octets(numbers[i], size))
  <2>1. i - 1 \in Nat /\ i - 1 < n /\ i - 1 <= n /\ (i - 1) + 1 = i
    BY <1>1
  <2>2. Here(i - 1)
    BY <1>6, <2>1
  <2>3. /\ Stands(d, o + Times(i - 1, size), o + Times((i - 1) + 1, size),
                  Octets(numbers[(i - 1) + 1], size))
    BY <1>3, <2>1, <2>2
  <2>. QED
    BY <2>1, <2>3
<1>. QED
  BY <1>7, <1>8

AsnRange == {n \in Nat : IsFourOctets(n)}

\* AS numbers are numbers of four octets.
LEMMA AsnProperties == \A n \in AsnRange : n \in Nat /\ IsFourOctets(n)
BY DEF AsnRange

\* Each number is read as it was written.
LEMMA NumbersSurvive ==
  ASSUME NEW numbers \in Seq(AsnRange), NEW size \in {2, 4}, NumbersFit(numbers, size),
         NEW d, NEW o, NEW c,
         Stands(d, o, c, EncodedNumbers(numbers, size))
  PROVE  /\ c = o + Times(Len(numbers), size)
         /\ \A i \in 1..Len(numbers) :
              Number(Slice(d, o + Times(i - 1, size), o + Times(i, size))) = numbers[i]
<1>1. numbers \in Seq(Nat) /\ \A i \in 1..Len(numbers) : numbers[i] \in AsnRange
  <2>1. Len(numbers) \in Nat /\ \A i \in 1..Len(numbers) : numbers[i] \in AsnRange
    BY LenProperties, ElementOfSeq
  <2>2. \A i \in 1..Len(numbers) : numbers[i] \in Nat
    BY <2>1, AsnProperties
  <2>3. numbers \in Seq(Nat)
    BY <2>1, <2>2
  <2>. QED
    BY <2>1, <2>3
<1>2. /\ c = o + Times(Len(numbers), size)
      /\ \A i \in 1..Len(numbers) :
           Stands(d, o + Times(i - 1, size), o + Times(i, size), Octets(numbers[i], size))
  BY <1>1, NumbersStand
<1>3. ASSUME NEW n \in AsnRange, size = 4 \/ n < 65536 PROVE Number(Octets(n, size)) = n
  <2>1. /\ n \in Nat /\ size \in {1, 2, 4} /\ (size = 1 => n < 256) /\ (size = 2 => n < 65536)
        /\ (size = 4 => IsFourOctets(n))
    BY <1>3, AsnProperties
  <2>. QED
    BY ONLY <2>1, NumberSurvives
<1>4. ASSUME NEW i \in 1..Len(numbers)
      PROVE  Number(Slice(d, o + Times(i - 1, size), o + Times(i, size))) = numbers[i]
  <2>1. numbers[i] \in AsnRange /\ (size = 4 \/ numbers[i] < 65536)
    BY <1>1 DEF NumbersFit
  <2>2. Number(Octets(numbers[i], size)) = numbers[i]
    BY <1>3, <2>1
  <2>. QED
    BY <1>2, <2>2 DEF Stands
<1>. QED
  BY <1>2, <1>4

-----------------------------------------------------------------------------
\* AS paths that were written.

\* A segment has a type, and AS numbers that can be counted with an octet.
LEMMA SegmentType ==
  ASSUME NEW s \in Segment
  PROVE  /\ s.type \in OctetRange /\ s.asns \in Seq(AsnRange)
         /\ Len(s.asns) \in Nat /\ Len(s.asns) \in OctetRange
<1>1. s.type \in {1, AS_SEQUENCE} /\ s.asns \in UNION {[1..n -> Asns] : n \in 0..MaxAsns}
  BY DEF Segment
<1>2. PICK n \in 0..MaxAsns : s.asns \in [1..n -> Asns]
  BY <1>1
<1>3. \A x \in Asns : x \in AsnRange
  <2>1. \A x \in Asns : IsFourOctets(x)
    BY AsnAssumption DEF AsnAssumption
  <2>2. \A x : IsFourOctets(x) => x \in AsnRange
    BY DEF AsnRange, IsFourOctets
  <2>. QED
    BY <2>1, <2>2
<1>4. n \in Nat /\ n <= 255
  BY AsnAssumption DEF AsnAssumption
<1>5. s.asns \in [1..n -> AsnRange]
  BY <1>2, <1>3
<1>6. s.asns \in Seq(AsnRange) /\ Len(s.asns) = n
  BY <1>4, <1>5
<1>7. s.type \in OctetRange
  BY <1>1 DEF OctetRange, AS_SEQUENCE
<1>8. n \in OctetRange
  BY <1>4 DEF OctetRange
<1>. QED
  BY <1>4, <1>6, <1>7, <1>8

\* The octets of a segment.
LEMMA EncodedSegmentType ==
  ASSUME NEW s \in Segment, NEW size \in {2, 4}
  PROVE  /\ <<s.type, Len(s.asns)>> \in Seq(OctetRange) /\ Len(<<s.type, Len(s.asns)>>) = 2
         /\ EncodedNumbers(s.asns, size) \in Seq(OctetRange)
         /\ EncodedSegment(s, size) \in Seq(OctetRange)
<1>1. /\ s.type \in OctetRange /\ Len(s.asns) \in OctetRange /\ s.asns \in Seq(AsnRange)
      /\ Len(s.asns) \in Nat
  BY SegmentType
<1>2. s.asns \in Seq(Nat)
  <2>1. \A i \in 1..Len(s.asns) : s.asns[i] \in Nat
    BY <1>1, ElementOfSeq, AsnProperties
  <2>. QED
    BY <1>1, <2>1
<1>3. EncodedNumbers(s.asns, size) \in Seq(OctetRange)
  BY <1>2, NumberPartsType
<1> DEFINE h == <<s.type, Len(s.asns)>>
<1>4. h \in Seq(OctetRange) /\ Len(h) = 2
  BY <1>1
<1> HIDE DEF h
<1>5. h \o EncodedNumbers(s.asns, size) \in Seq(OctetRange)
  BY <1>3, <1>4, ConcatProperties
<1>. QED
  BY <1>3, <1>4, <1>5 DEF h, EncodedSegment

\* The AS numbers of a segment that count.
Counted(s) == IF s.type = AS_SEQUENCE THEN s.asns ELSE <<>>

\* Without more segments behind it, or with AS numbers of four octets, the size
\* that is guessed is the right one.
LEMMA SizeIsGuessed ==
  ASSUME NEW size \in {2, 4}, NEW n \in Nat, n # 0, NEW more \in Nat, size = 4 \/ more = 0
  PROVE  AsnSize(n * size + more, n) = size
<1>1. CASE size = 4
  BY <1>1 DEF AsnSize
<1>2. CASE size = 2 /\ more = 0
  BY <1>2 DEF AsnSize
<1>. QED
  BY <1>1, <1>2

\* One round of the loop leaves the rest and adds what counts.
SegmentRead(v, f, o, s, rest) ==
  \E n \in Nat :
    /\ Stands(v, n, Len(v), rest)
    /\ f[n] \in Seq(AsnRange) => SegmentsBody(v, f, o) = Counted(s) \o f[n]

\* One round of the loop reads the segment that stands at the offset.
LEMMA SegmentIsRead ==
  ASSUME NEW s \in Segment, NEW size \in {2, 4}, NEW v, NEW o, NEW rest \in Seq(OctetRange),
         Stands(v, o, Len(v), EncodedSegment(s, size) \o rest), size = 4 \/ rest = <<>>,
         NumbersFit(s.asns, size), NEW f
  PROVE  SegmentRead(v, f, o, s, rest)
<1> DEFINE e == EncodedSegment(s, size)
           h == <<s.type, Len(s.asns)>>
           b == EncodedNumbers(s.asns, size)
           n == o + Len(e)
           k == Len(s.asns)
<1>1. /\ s.type \in OctetRange /\ s.asns \in Seq(AsnRange) /\ k \in Nat
      /\ h \in Seq(OctetRange) /\ Len(h) = 2 /\ b \in Seq(OctetRange) /\ e \in Seq(OctetRange)
      /\ e = h \o b /\ h[1] = s.type /\ h[2] = k
  BY SegmentType, EncodedSegmentType DEF EncodedSegment
<1>2. Stands(v, o, Len(v), e \o rest) /\ v \in Seq(OctetRange) /\ o \in Nat /\ Len(v) \in Nat
  BY DEF Stands
<1> HIDE DEF e, h
<1>3. Stands(v, o, n, e) /\ Stands(v, n, Len(v), rest)
  BY <1>1, <1>2, StandsSplit
<1> HIDE DEF n
<1>4. Stands(v, o, o + 2, h) /\ Stands(v, o + 2, n, b)
  <2>1. Stands(v, o, n, h \o b)
    BY <1>1, <1>3
  <2>2. Stands(v, o, o + Len(h), h) /\ Stands(v, o + Len(h), n, b)
    BY ONLY <1>1, <2>1, StandsSplit
  <2>. QED
    BY <1>1, <2>2
<1>5. /\ n = (o + 2) + k * size
      /\ \A i \in 1..k : Number(Slice(v, (o + 2) + (i - 1) * size, (o + 2) + i * size)) = s.asns[i]
  <2>1. Stands(v, o + 2, n, EncodedNumbers(s.asns, size))
    BY <1>4
  <2>2. s.asns \in Seq(AsnRange)
    BY <1>1
  <2>3. /\ n = (o + 2) + Times(Len(s.asns), size)
        /\ \A i \in 1..Len(s.asns) :
             Number(Slice(v, (o + 2) + Times(i - 1, size), (o + 2) + Times(i, size)))
               = s.asns[i]
    BY ONLY <2>1, <2>2, size \in {2, 4}, NumbersFit(s.asns, size), NumbersSurvive
  <2>. QED
    BY <2>3 DEF Times
<1>6. At(v, o) = s.type /\ At(v, o + 1) = k
  <2>1. \A i \in 1..Len(h) : v[o + i] = h[i]
    BY <1>4, StandsType
  <2>2. v[o + 1] = h[1] /\ v[o + 2] = h[2] /\ (o + 1) + 1 = o + 2
    BY <1>1, <1>2, <2>1
  <2>. QED
    BY <1>1, <2>2 DEF At
<1>7. /\ n \in Nat /\ Len(rest) \in Nat /\ Len(v) = n + Len(rest)
      /\ o + 2 <= n /\ o + 2 <= Len(v) /\ ~(o + 2 > Len(v))
  <2>1. Len(rest) \in Nat /\ Len(v) = n + Len(rest)
    BY <1>3, StandsType
  <2>2. n \in Nat /\ o + 2 <= n
    BY <1>4 DEF Stands
  <2>. QED
    BY <1>2, <2>1, <2>2
<1>8. CASE k = 0
  <2>1. s.asns = <<>> /\ Counted(s) = <<>>
    BY <1>1, <1>8, EmptySeq DEF Counted
  <2>2. n = o + 2
    <3> DEFINE x == k * size
    <3>1. x = 0 /\ n = (o + 2) + x
      BY <1>5, <1>8
    <3> HIDE DEF x
    <3>. QED
      BY <1>2, <3>1
  <2>3. SegmentsBody(v, f, o) = f[o + 2]
    BY <1>6, <1>7, <1>8 DEF SegmentsBody
  <2>4. f[n] \in Seq(AsnRange) => <<>> \o f[n] = f[n]
    BY ConcatEmptySeq
  <2>. QED
    BY <1>3, <1>7, <2>1, <2>2, <2>3, <2>4 DEF SegmentRead
<1>9. CASE k # 0
  <2>1. SegmentSize(v, o) = size
    <3>1. Len(v) - (o + 2) = k * size + Len(rest)
      <4>1. k * size \in Nat
        <5>1. k * 2 \in Nat /\ k * 4 \in Nat
          BY <1>1
        <5>. QED
          BY <5>1
      <4> DEFINE x == k * size
      <4>2. x \in Nat /\ n = (o + 2) + x
        BY <1>5, <4>1
      <4> HIDE DEF x
      <4>3. Len(v) - (o + 2) = x + Len(rest)
        BY <1>2, <1>7, <4>2
      <4>. QED
        BY <4>3 DEF x
    <3>2. size = 4 \/ Len(rest) = 0
      BY EmptySeq
    <3>3. k \in Nat /\ k # 0 /\ Len(rest) \in Nat
      BY <1>1, <1>7, <1>9
    <3>4. AsnSize(k * size + Len(rest), k) = size
      BY ONLY <3>2, <3>3, size \in {2, 4}, SizeIsGuessed
    <3>. QED
      BY <1>6, <3>1, <3>4 DEF SegmentSize
  <2>2. SegmentEnd(v, o) = n
    BY <1>5, <1>6, <2>1 DEF SegmentEnd
  <2>3. AsnsAt(v, o) = Counted(s)
    <3>1. CASE s.type = AS_SEQUENCE
      <4> DEFINE a == [i \in 1..k |->
                         Number(Slice(v, (o + 2) + (i - 1) * size, (o + 2) + i * size))]
      <4>1. AsnsAt(v, o) = a
        BY <1>6, <2>1, <3>1 DEF AsnsAt
      <4>2. a = [i \in 1..k |-> s.asns[i]]
        BY <1>5
      <4>3. s.asns = [i \in 1..k |-> s.asns[i]]
        BY <1>1
      <4>. QED
        BY <3>1, <4>1, <4>2, <4>3 DEF Counted
    <3>2. CASE s.type # AS_SEQUENCE
      BY <1>6, <3>2 DEF AsnsAt, Counted
    <3>. QED
      BY <3>1, <3>2
  <2>4. SegmentSize(v, o) # 0
    BY <2>1
  <2>5. SegmentsBody(v, f, o) = Counted(s) \o f[n]
    BY <1>6, <1>7, <1>9, <2>2, <2>3, <2>4 DEF SegmentsBody
  <2>. QED
    BY <1>3, <1>7, <2>5 DEF SegmentRead
<1>. QED
  BY <1>8, <1>9

PathParts(size) == [i \in 1..Len(path) |-> EncodedSegment(path[i], size)]
CountedParts == [i \in 1..Len(path) |-> Counted(path[i])]

\* The parts of a path.
LEMMA PathPartsType ==
  ASSUME path \in Seq(Segment), NEW size \in {2, 4}
  PROVE  /\ PathParts(size) \in Seq(Seq(OctetRange)) /\ Len(PathParts(size)) = Len(path)
         /\ Len(path) \in Nat /\ \A i \in 1..Len(path) : path[i] \in Segment
         /\ EncodedPath(size) = FlattenSeq(PathParts(size))
         /\ EncodedPath(size) \in Seq(OctetRange)
         /\ CountedParts \in Seq(Seq(AsnRange)) /\ Len(CountedParts) = Len(path)
         /\ FlattenSeq(CountedParts) \in Seq(AsnRange)
<1>1. Len(path) \in Nat /\ \A i \in 1..Len(path) : path[i] \in Segment
  BY LenProperties, ElementOfSeq
<1>2. \A i \in 1..Len(path) : EncodedSegment(path[i], size) \in Seq(OctetRange)
  BY <1>1, EncodedSegmentType
<1>3. PathParts(size) \in [1..Len(path) -> Seq(OctetRange)]
  BY <1>2 DEF PathParts
<1>4. PathParts(size) \in Seq(Seq(OctetRange)) /\ Len(PathParts(size)) = Len(path)
  BY <1>1, <1>3
<1>5. EncodedPath(size) = FlattenSeq(PathParts(size))
  BY DEF EncodedPath, PathParts
<1>6. FlattenSeq(PathParts(size)) \in Seq(OctetRange)
  BY <1>4, FlattenValue
<1>7. \A s \in Segment : Counted(s) \in Seq(AsnRange)
  <2>1. <<>> \in Seq(AsnRange)
    BY EmptySeq
  <2>. QED
    BY <2>1, SegmentType DEF Counted
<1>8. CountedParts \in [1..Len(path) -> Seq(AsnRange)]
  BY <1>1, <1>7 DEF CountedParts
<1>9. CountedParts \in Seq(Seq(AsnRange)) /\ Len(CountedParts) = Len(path)
  BY <1>1, <1>8
<1>10. FlattenSeq(CountedParts) \in Seq(AsnRange)
  BY <1>9, FlattenValue
<1>. QED
  BY <1>1, <1>4, <1>5, <1>6, <1>9, <1>10

\* A path that was written is read as it was, with four octets for an AS number
\* however long it is, and with two if it has one segment (_parse_as_path).
LEMMA PathSurvives ==
  ASSUME path \in Seq(Segment), NEW size \in {2, 4}, size = 4 \/ Len(path) <= 1,
         \A i \in 1..Len(path) : NumbersFit(path[i].asns, size)
  PROVE  AsPath(EncodedPath(size)) = FlattenSeq(CountedParts)
<1> DEFINE v == EncodedPath(size)
           parts == PathParts(size)
           f == SegmentsFrom(v)
           n == Len(path)
           Left(k) == FlattenSeq(Rest(parts, k))
           Asked(k) == FlattenSeq(Rest(CountedParts, k))
           Good(k) == \A o \in Nat : Stands(v, o, Len(v), Left(k)) => f[o] = Asked(k)
           G == {j \in Nat : \A k \in Nat : k + j = n => Good(k)}
<1>1. /\ parts \in Seq(Seq(OctetRange)) /\ Len(parts) = n /\ n \in Nat
      /\ \A i \in 1..n : path[i] \in Segment
      /\ v = FlattenSeq(parts) /\ v \in Seq(OctetRange)
      /\ CountedParts \in Seq(Seq(AsnRange)) /\ Len(CountedParts) = n
  BY PathPartsType
<1>2. \A i \in 1..n : /\ parts[i] = EncodedSegment(path[i], size)
                      /\ CountedParts[i] = Counted(path[i])
  BY DEF PathParts, CountedParts
<1> HIDE DEF v, parts, f
<1>3. Left(n) = <<>> /\ Asked(n) = <<>>
  BY <1>1, RestEnds
<1>4. ASSUME NEW k \in Nat, k < n
      PROVE  /\ Left(k + 1) \in Seq(OctetRange) /\ Asked(k + 1) \in Seq(AsnRange)
             /\ path[k + 1] \in Segment
             /\ Left(k) = EncodedSegment(path[k + 1], size) \o Left(k + 1)
             /\ Asked(k) = Counted(path[k + 1]) \o Asked(k + 1)
  <2>1. k + 1 \in 1..n /\ k < Len(parts) /\ k < Len(CountedParts)
    BY <1>1, <1>4
  <2>2. Left(k + 1) \in Seq(OctetRange) /\ Left(k) = parts[k + 1] \o Left(k + 1)
    BY <1>1, <2>1, RestCons
  <2>3. Asked(k + 1) \in Seq(AsnRange) /\ Asked(k) = CountedParts[k + 1] \o Asked(k + 1)
    BY <1>1, <2>1, RestCons
  <2>. QED
    BY <1>1, <1>2, <2>1, <2>2, <2>3
<1>5. size = 4 \/ \A k \in Nat : k < n => Left(k + 1) = <<>>
  <2>1. ASSUME n <= 1, NEW k \in Nat, k < n PROVE k + 1 = n
    BY <1>1, <2>1
  <2>. QED
    BY <1>3, <2>1
<1>6. \A o \in Nat : f[o] = SegmentsBody(v, f, o)
  BY <1>1, SegmentsEquation DEF f
<1> HIDE DEF Left, Asked
<1>7. 0 \in G
  <2>1. Good(n)
    <3> SUFFICES ASSUME NEW o \in Nat, Stands(v, o, Len(v), Left(n)) PROVE f[o] = Asked(n)
      OBVIOUS
    <3>1. Len(v) = o + Len(<<>>)
      BY <1>3, StandsType
    <3>2. o + 2 > Len(v)
      BY <3>1, EmptySeq
    <3>. QED
      BY <1>3, <1>6, <3>2 DEF SegmentsBody
  <2>2. \A k \in Nat : k + 0 = n => k = n
    BY <1>1
  <2> HIDE DEF Good
  <2>. QED
    BY <2>1, <2>2
<1>8. ASSUME NEW k \in Nat, k < n, Good(k + 1) PROVE Good(k)
  <2> SUFFICES ASSUME NEW o \in Nat, Stands(v, o, Len(v), Left(k)) PROVE f[o] = Asked(k)
    OBVIOUS
  <2> DEFINE s == path[k + 1]
             rest == Left(k + 1)
  <2>1. /\ s \in Segment /\ rest \in Seq(OctetRange) /\ (size = 4 \/ rest = <<>>)
        /\ NumbersFit(s.asns, size)
    <3>1. k + 1 \in 1..n
      BY <1>1, <1>8
    <3>. QED
      BY <1>4, <1>5, <1>8, <3>1
  <2>2. Stands(v, o, Len(v), EncodedSegment(s, size) \o rest)
    BY <1>4, <1>8
  <2>3. PICK m \in Nat :
          /\ Stands(v, m, Len(v), rest)
          /\ f[m] \in Seq(AsnRange) => SegmentsBody(v, f, o) = Counted(s) \o f[m]
    <3> HIDE DEF s, rest
    <3>1. SegmentRead(v, f, o, s, rest)
      BY ONLY <2>1, <2>2, size \in {2, 4}, SegmentIsRead
    <3>. QED
      BY ONLY <3>1 DEF SegmentRead
  <2>4. f[m] = Asked(k + 1)
    BY <1>8, <2>3
  <2>. QED
    BY <1>4, <1>6, <1>8, <2>3, <2>4
<1> HIDE DEF Good
<1>9. ASSUME NEW j \in Nat, j \in G PROVE j + 1 \in G
  <2>1. ASSUME NEW k \in Nat, k + (j + 1) = n PROVE Good(k)
    <3>1. k + 1 \in Nat /\ (k + 1) + j = n /\ k < n
      BY <2>1
    <3>2. Good(k + 1)
      BY <1>9, <3>1
    <3>. QED
      BY <1>8, <3>1, <3>2
  <2>. QED
    BY <2>1
<1>10. Nat \subseteq G
  <2> HIDE DEF G
  <2>. QED
    BY <1>7, <1>9, SetNatInduction
<1>11. Good(0)
  <2>1. n \in G
    BY <1>1, <1>10
  <2>2. 0 + n = n /\ 0 \in Nat
    BY <1>1
  <2>. QED
    BY <2>1, <2>2
<1>12. Stands(v, 0, Len(v), Left(0)) /\ Asked(0) = FlattenSeq(CountedParts)
  <2>1. Rest(parts, 0) = parts /\ Rest(CountedParts, 0) = CountedParts
    BY <1>1, RestEnds
  <2>2. Stands(v, 0, Len(v), v)
    BY <1>1, StandsWhole
  <2>. QED
    BY <1>1, <2>1, <2>2 DEF Left, Asked
<1>13. f[0] = FlattenSeq(CountedParts)
  BY <1>11, <1>12 DEF Good
<1>. QED
  BY <1>13, AsPathIsFrom DEF f, v

-----------------------------------------------------------------------------
\* Attributes that were written.

\* What one attribute should give.
Reading(a) == IF a.name = "unknown" THEN {} ELSE {[name |-> a.name, value |-> a.value]}

\* A value as the RFC has it.
LEMMA AttributeType ==
  ASSUME NEW a \in AttributePool
  PROVE  /\ a.name \in AttributeName /\ a.value \in Seq(Nat) /\ Len(a.value) \in Nat
         /\ a.extended \in BOOLEAN /\ WellFormed(a.name, a.value)
<1>1. a \in [name : AttributeName, value : Seq(Nat), extended : BOOLEAN]
  BY AttributeAssumption DEF AttributeAssumption
<1>2. a.name \in AttributeName /\ a.value \in Seq(Nat) /\ a.extended \in BOOLEAN
  BY <1>1
<1>3. WellFormed(a.name, a.value)
  BY AttributeAssumption DEF AttributeAssumption
<1>4. Len(a.value) \in Nat
  BY <1>2, LenProperties
<1>. QED
  BY <1>2, <1>3, <1>4

\* What the RFCs have as a value, name by name.
LEMMA WellFormedIs ==
  ASSUME NEW n, NEW v, WellFormed(n, v)
  PROVE  /\ n = "origin" => Len(v) = 1 /\ v[1] \in 0..2
         /\ n = "next_hop" => Len(v) = 4 /\ v \in Seq(OctetRange)
         /\ n \in {"med", "local_pref"} => Len(v) = 1 /\ IsFourOctets(v[1])
         /\ n = "community" => Len(v) % 2 = 0 /\ \A i \in 1..Len(v) : v[i] < 65536
         /\ n = "unknown" => v \in Seq(OctetRange)
<1>1. ASSUME n = "origin" PROVE Len(v) = 1 /\ v[1] \in 0..2
  BY <1>1 DEF WellFormed
<1>2. ASSUME n = "next_hop" PROVE Len(v) = 4 /\ v \in Seq(OctetRange)
  BY <1>2 DEF WellFormed, OctetRange
<1>3. ASSUME n = "med" \/ n = "local_pref" PROVE Len(v) = 1 /\ IsFourOctets(v[1])
  BY <1>3 DEF WellFormed
<1>4. ASSUME n = "community"
      PROVE  Len(v) % 2 = 0 /\ \A i \in 1..Len(v) : v[i] < 65536
  BY <1>4 DEF WellFormed
<1>5. ASSUME n = "unknown" PROVE v \in Seq(OctetRange)
  BY <1>5 DEF WellFormed, OctetRange
<1>. QED
  BY <1>1, <1>2, <1>3, <1>4, <1>5

\* How it is written, name by name.
LEMMA EncodedValueIs ==
  ASSUME NEW a
  PROVE  /\ a.name \in {"med", "local_pref"} => EncodedValue(a) = Octets(a.value[1], 4)
         /\ a.name = "community" => EncodedValue(a) = EncodedNumbers(a.value, 2)
         /\ a.name \in {"origin", "next_hop", "unknown"} => EncodedValue(a) = a.value
BY DEF EncodedValue

\* The codes of the attributes.
LEMMA TypeCodes ==
  /\ TypeCode["origin"] = 1 /\ TypeCode["next_hop"] = 3 /\ TypeCode["med"] = 4
  /\ TypeCode["local_pref"] = 5 /\ TypeCode["community"] = 8 /\ TypeCode["unknown"] = 32
BY DEF TypeCode, ATTR_ORIGIN, ATTR_NEXT_HOP, ATTR_MED, ATTR_LOCAL_PREF, ATTR_COMMUNITY

\* A sequence of one.
LEMMA SeqOfOne ==
  ASSUME NEW S, NEW s \in Seq(S), Len(s) = 1 PROVE s[1] \in S /\ s = <<s[1]>>
<1>1. s[1] \in S
  BY ElementOfSeq
<1> DEFINE x == s[1]
           t == <<x>>
<1>2. t \in Seq(S) /\ Len(t) = 1 /\ t[1] = x
  BY <1>1
<1> HIDE DEF t
<1>3. Len(t) = Len(s) /\ \A i \in 1..Len(s) : s[i] = t[i]
  BY <1>2
<1>4. s = t
  BY <1>2, <1>3, SeqEqual
<1>. QED
  BY <1>1, <1>4 DEF t

\* A sequence of members of another set.
LEMMA SeqWithin ==
  ASSUME NEW S, NEW T, NEW s \in Seq(S), \A i \in 1..Len(s) : s[i] \in T
  PROVE  s \in Seq(T)
<1>1. Len(s) \in Nat /\ s = [i \in 1..Len(s) |-> s[i]]
  BY LenProperties
<1>. QED
  BY <1>1

Survives(a) ==
  /\ EncodedValue(a) \in Seq(OctetRange)
  /\ Decoded(TypeCode[a.name], EncodedValue(a)) = Reading(a)

\* An origin is read as it was written.
LEMMA OriginSurvives ==
  ASSUME NEW a \in AttributePool, a.name = "origin" PROVE Survives(a)
<1> DEFINE v == a.value
<1>1. v \in Seq(Nat) /\ Len(v) = 1 /\ v[1] \in 0..2 /\ EncodedValue(a) = v
  BY AttributeType, WellFormedIs, EncodedValueIs
<1>2. v[1] \in OctetRange
  BY <1>1 DEF OctetRange
<1>3. v \in Seq(OctetRange) /\ v = <<v[1]>>
  <2>1. v = <<v[1]>>
    BY <1>1, SeqOfOne
  <2>2. v \in Seq(OctetRange)
    <3>1. \A i \in 1..Len(v) : v[i] \in OctetRange
      BY <1>1, <1>2
    <3>2. v \in Seq(Nat)
      BY <1>1
    <3> HIDE DEF v
    <3>. QED
      BY ONLY <3>1, <3>2, SeqWithin
  <2>. QED
    BY <2>1, <2>2
<1>4. Decoded(1, v) = {[name |-> "origin", value |-> v]}
  <2> HIDE DEF v
  <2>1. Decoded(1, v) = {[name |-> "origin", value |-> <<v[1]>>]}
    BY <1>1 DEF Decoded, ATTR_ORIGIN, ATTR_AS_PATH, ATTR_NEXT_HOP, ATTR_MED, ATTR_LOCAL_PREF,
           ATTR_COMMUNITY
  <2>. QED
    BY <1>3, <2>1
<1>. QED
  BY <1>1, <1>3, <1>4, TypeCodes DEF Survives, Reading

\* A next hop is read as it was written.
LEMMA NextHopSurvives ==
  ASSUME NEW a \in AttributePool, a.name = "next_hop" PROVE Survives(a)
<1> DEFINE v == a.value
<1>1. v \in Seq(OctetRange) /\ Len(v) = 4 /\ EncodedValue(a) = v
  BY AttributeType, WellFormedIs, EncodedValueIs
<1>2. Slice(v, 0, 4) = v
  <2> HIDE DEF v
  <2>1. Slice(v, 0, Len(v)) = v
    BY <1>1, SliceOfAll
  <2>. QED
    BY <1>1, <2>1
<1>3. Decoded(3, v) = {[name |-> "next_hop", value |-> v]}
  <2> HIDE DEF v
  <2>. QED
    BY <1>1, <1>2 DEF Decoded, ATTR_ORIGIN, ATTR_AS_PATH, ATTR_NEXT_HOP, ATTR_MED, ATTR_LOCAL_PREF,
           ATTR_COMMUNITY
<1>. QED
  BY <1>1, <1>3, TypeCodes DEF Survives, Reading

\* An attribute of one number.
LEMMA NumberValue ==
  ASSUME NEW a \in AttributePool, a.name \in {"med", "local_pref"}
  PROVE  /\ EncodedValue(a) \in Seq(OctetRange) /\ Len(EncodedValue(a)) = 4
         /\ <<Number(Slice(EncodedValue(a), 0, 4))>> = a.value
<1> DEFINE n == a.value[1]
           v == Octets(n, 4)
<1>1. a.value \in Seq(Nat) /\ Len(a.value) = 1 /\ IsFourOctets(n) /\ EncodedValue(a) = v
  BY AttributeType, WellFormedIs, EncodedValueIs
<1>2. n \in Nat /\ a.value = <<n>>
  BY <1>1, SeqOfOne
<1> HIDE DEF n
<1>3. v \in Seq(OctetRange) /\ Len(v) = 4
  <2>1. 4 \in {1, 2, 4}
    OBVIOUS
  <2>. QED
    BY ONLY <1>2, <2>1, OctetsType
<1>4. Number(v) = n
  <2>1. 4 \in {1, 2, 4} /\ (4 = 1 => n < 256) /\ (4 = 2 => n < 65536) /\ (4 = 4 => IsFourOctets(n))
    BY <1>1
  <2>. QED
    BY ONLY <1>2, <2>1, NumberSurvives
<1>5. Slice(v, 0, 4) = v
  <2> HIDE DEF v
  <2>1. Slice(v, 0, Len(v)) = v
    BY <1>3, SliceOfAll
  <2>. QED
    BY <1>3, <2>1
<1>. QED
  BY <1>1, <1>2, <1>3, <1>4, <1>5

\* A metric is read as it was written.
LEMMA MedSurvives ==
  ASSUME NEW a \in AttributePool, a.name = "med" PROVE Survives(a)
<1> DEFINE v == EncodedValue(a)
<1>1. v \in Seq(OctetRange) /\ Len(v) = 4 /\ <<Number(Slice(v, 0, 4))>> = a.value
  BY NumberValue
<1>2. Decoded(4, v) = {[name |-> "med", value |-> a.value]}
  <2> HIDE DEF v
  <2>1. Decoded(4, v) = {[name |-> "med", value |-> <<Number(Slice(v, 0, 4))>>]}
    BY <1>1 DEF Decoded, ATTR_ORIGIN, ATTR_AS_PATH, ATTR_NEXT_HOP, ATTR_MED, ATTR_LOCAL_PREF,
           ATTR_COMMUNITY
  <2>. QED
    BY <1>1, <2>1
<1>. QED
  BY <1>1, <1>2, TypeCodes DEF Survives, Reading

\* A preference is read as it was written.
LEMMA LocalPrefSurvives ==
  ASSUME NEW a \in AttributePool, a.name = "local_pref" PROVE Survives(a)
<1> DEFINE v == EncodedValue(a)
<1>1. v \in Seq(OctetRange) /\ Len(v) = 4 /\ <<Number(Slice(v, 0, 4))>> = a.value
  BY NumberValue
<1>2. Decoded(5, v) = {[name |-> "local_pref", value |-> a.value]}
  <2> HIDE DEF v
  <2>1. Decoded(5, v) = {[name |-> "local_pref", value |-> <<Number(Slice(v, 0, 4))>>]}
    BY <1>1 DEF Decoded, ATTR_ORIGIN, ATTR_AS_PATH, ATTR_NEXT_HOP, ATTR_MED, ATTR_LOCAL_PREF,
           ATTR_COMMUNITY
  <2>. QED
    BY <1>1, <2>1
<1>. QED
  BY <1>1, <1>2, TypeCodes DEF Survives, Reading

\* Communities are read as they were written.
LEMMA CommunitySurvives ==
  ASSUME NEW a \in AttributePool, a.name = "community" PROVE Survives(a)
<1> DEFINE numbers == a.value
           n == Len(numbers)
           v == EncodedNumbers(numbers, 2)
<1>1. numbers \in Seq(Nat) /\ n \in Nat /\ WellFormed(a.name, numbers)
  BY AttributeType
<1>a. EncodedValue(a) = v
  BY EncodedValueIs
<1>b. n % 2 = 0 /\ \A i \in 1..n : numbers[i] < 65536
  <2> DEFINE x == a.name
  <2>1. WellFormed(x, numbers) /\ x = "community"
    BY <1>1
  <2> HIDE DEF x, numbers
  <2>. QED
    BY ONLY <2>1, WellFormedIs
<1>2. numbers \in Seq(AsnRange)
  <2> HIDE DEF numbers
  <2>1. \A i \in 1..n : numbers[i] \in AsnRange
    BY <1>1, <1>b, ElementOfSeq DEF AsnRange, IsFourOctets
  <2>2. numbers \in Seq(Nat)
    BY <1>1
  <2>. QED
    BY ONLY <2>1, <2>2, SeqWithin
<1>3. v \in Seq(OctetRange)
  BY <1>1, NumberPartsType
<1> HIDE DEF numbers
<1>4. /\ Len(v) = 0 + Times(n, 2)
      /\ \A i \in 1..n : Number(Slice(v, 0 + Times(i - 1, 2), 0 + Times(i, 2))) = numbers[i]
  <2>1. Stands(v, 0, Len(v), EncodedNumbers(numbers, 2))
    BY <1>3, StandsWhole
  <2>2. 2 \in {2, 4}
    OBVIOUS
  <2>3. NumbersFit(numbers, 2)
    BY <1>b DEF NumbersFit
  <2>. QED
    BY ONLY <1>2, <2>1, <2>2, <2>3, NumbersSurvive
<1>5. Communities(v) = numbers
  <2>1. 2 * (Len(v) \div 4) = n
    <3>1. Len(v) = n * 2
      BY <1>1, <1>4 DEF Times
    <3>2. \A m \in Nat : m % 2 = 0 => 2 * ((m * 2) \div 4) = m
      OBVIOUS
    <3>3. n \in Nat /\ n % 2 = 0
      BY <1>1, <1>b
    <3>4. 2 * ((n * 2) \div 4) = n
      BY ONLY <3>2, <3>3
    <3>. QED
      BY ONLY <3>1, <3>4
  <2>2. ASSUME NEW i \in 1..n PROVE Number(Slice(v, 2 * i - 2, 2 * i)) = numbers[i]
    <3>1. 0 + Times(i - 1, 2) = 2 * i - 2 /\ 0 + Times(i, 2) = 2 * i
      BY DEF Times
    <3>. QED
      BY <1>4, <3>1
  <2>3. Communities(v) = [i \in 1..n |-> numbers[i]]
    BY <2>1, <2>2 DEF Communities
  <2>4. numbers = [i \in 1..n |-> numbers[i]]
    BY <1>1
  <2>. QED
    BY <2>3, <2>4
<1>6. Decoded(8, v) = {[name |-> "community", value |-> numbers]}
  <2> HIDE DEF v
  <2>1. Decoded(8, v) = {[name |-> "community", value |-> Communities(v)]}
    BY DEF Decoded, ATTR_ORIGIN, ATTR_AS_PATH, ATTR_NEXT_HOP, ATTR_MED, ATTR_LOCAL_PREF,
           ATTR_COMMUNITY
  <2>. QED
    BY <1>5, <2>1
<1>. QED
  BY <1>a, <1>3, <1>6, TypeCodes DEF Survives, Reading, numbers

\* An attribute of another type is written and gives nothing.
LEMMA UnknownSurvives ==
  ASSUME NEW a \in AttributePool, a.name = "unknown" PROVE Survives(a)
<1> DEFINE v == a.value
<1>1. v \in Seq(OctetRange) /\ EncodedValue(a) = v
  BY AttributeType, WellFormedIs, EncodedValueIs
<1>2. Decoded(32, v) = {}
  <2> HIDE DEF v
  <2>. QED
    BY DEF Decoded, ATTR_ORIGIN, ATTR_AS_PATH, ATTR_NEXT_HOP, ATTR_MED, ATTR_LOCAL_PREF,
           ATTR_COMMUNITY
<1>. QED
  BY <1>1, <1>2, TypeCodes DEF Survives, Reading

\* The value of an attribute is read as it was written (_parse_path_attributes).
LEMMA ValueSurvives == ASSUME NEW a \in AttributePool PROVE Survives(a)
<1>1. a.name \in {"origin", "next_hop", "med", "local_pref", "community", "unknown"}
  BY AttributeType DEF AttributeName
<1>. QED
  BY <1>1, OriginSurvives, NextHopSurvives, MedSurvives, LocalPrefSurvives,
     CommunitySurvives, UnknownSurvives

-----------------------------------------------------------------------------
\* An attribute that was written.

LengthSize(extended) == IF extended THEN 2 ELSE 1

\* A header, a length and the value.
PartsOf(type, extended, value, h, l) ==
  /\ h \in Seq(OctetRange) /\ l \in Seq(OctetRange)
  /\ Attribute(type, extended, value) = (h \o l) \o value
  /\ h \o l \in Seq(OctetRange) /\ (h \o l) \o value \in Seq(OctetRange)
  /\ Len(h) = 2 /\ h[2] = type /\ ((h[1] \div 16) % 2 = 1 <=> extended)
  /\ Len(l) = LengthSize(extended) /\ Number(l) = Len(value)

\* A value that can be written has them.
LEMMA AttributeParts ==
  ASSUME NEW type \in OctetRange, NEW extended \in BOOLEAN, NEW value \in Seq(OctetRange),
         Len(value) < IF extended THEN 65536 ELSE 256
  PROVE  \E h, l : PartsOf(type, extended, value, h, l)
<1> DEFINE flag == IF extended THEN 80 ELSE 64
           h == <<flag, type>>
           k == Len(value)
           z == LengthSize(extended)
           l == Octets(k, z)
<1>1. flag \in OctetRange /\ ((flag \div 16) % 2 = 1 <=> extended)
  BY DEF OctetRange
<1> HIDE DEF flag
<1>2. h \in Seq(OctetRange) /\ Len(h) = 2 /\ h[1] = flag /\ h[2] = type
  BY <1>1
<1>3. k \in Nat /\ z \in {1, 2, 4}
  BY LenProperties DEF LengthSize
<1>4. (z = 1 => k < 256) /\ (z = 2 => k < 65536) /\ (z = 4 => IsFourOctets(k))
  <2> HIDE DEF k
  <2>1. CASE extended
    BY <2>1 DEF LengthSize, k
  <2>2. CASE ~extended
    BY <2>2 DEF LengthSize, k
  <2>. QED
    BY <2>1, <2>2
<1> HIDE DEF k, z
<1>5. l \in Seq(OctetRange) /\ Len(l) = z
  BY ONLY <1>3, OctetsType
<1>6. Number(l) = k
  BY ONLY <1>3, <1>4, NumberSurvives
<1>7. Attribute(type, extended, value) = (h \o l) \o value
  BY DEF Attribute, LengthSize, flag, k, z
<1> HIDE DEF h, l
<1>8. h \o l \in Seq(OctetRange)
  BY <1>2, <1>5, ConcatProperties
<1>9. (h \o l) \o value \in Seq(OctetRange)
  BY <1>8, ConcatProperties
<1>10. PartsOf(type, extended, value, h, l)
  BY <1>1, <1>2, <1>5, <1>6, <1>7, <1>8, <1>9 DEF PartsOf, k, z
<1>. QED
  BY <1>10

\* One round of the loop leaves the rest and adds what the value says.
AttributeRead(d, end, f, o, type, value, rest) ==
  /\ ValueEnd(d, o) \in Nat
  /\ Stands(d, ValueEnd(d, o), end, rest)
  /\ AttributesBody(d, end, f, o) =
       {Overridden(Decoded(type, value), r) : r \in f[ValueEnd(d, o)]}

\* One round of the loop reads the attribute that stands at the offset.
LEMMA AttributeIsRead ==
  ASSUME NEW type \in OctetRange, NEW extended \in BOOLEAN, NEW value \in Seq(OctetRange),
         Len(value) < IF extended THEN 65536 ELSE 256,
         NEW d, NEW o, NEW end, NEW rest \in Seq(OctetRange),
         Stands(d, o, end, Attribute(type, extended, value) \o rest),
         NEW f
  PROVE  AttributeRead(d, end, f, o, type, value, rest)
<1>0. PICK h, l : PartsOf(type, extended, value, h, l)
  BY AttributeParts
<1>1. /\ h \in Seq(OctetRange) /\ l \in Seq(OctetRange)
      /\ Attribute(type, extended, value) = (h \o l) \o value
      /\ h \o l \in Seq(OctetRange) /\ (h \o l) \o value \in Seq(OctetRange)
      /\ Len(h) = 2 /\ h[2] = type /\ ((h[1] \div 16) % 2 = 1 <=> extended)
      /\ Len(l) = LengthSize(extended) /\ Number(l) = Len(value)
  BY <1>0 DEF PartsOf
<1> DEFINE e == (h \o l) \o value
           n == o + Len(e)
           m == o + Len(h \o l)
<1>2. Stands(d, o, n, e) /\ Stands(d, n, end, rest)
  <2>1. Stands(d, o, end, e \o rest) /\ e \in Seq(OctetRange)
    BY <1>1
  <2> HIDE DEF e
  <2>. QED
    BY <2>1, StandsSplit
<1> HIDE DEF n
<1>3. Stands(d, o, m, h \o l) /\ Stands(d, m, n, value)
  <2> DEFINE g == h \o l
  <2>1. g \in Seq(OctetRange) /\ Stands(d, o, n, g \o value)
    BY <1>1, <1>2
  <2> HIDE DEF g
  <2>2. Stands(d, o, o + Len(g), g) /\ Stands(d, o + Len(g), n, value)
    BY ONLY <2>1, value \in Seq(OctetRange), StandsSplit
  <2>. QED
    BY <2>2 DEF g
<1> HIDE DEF m
<1>4. Stands(d, o, o + 2, h) /\ Stands(d, o + 2, m, l)
  <2>1. Stands(d, o, o + Len(h), h) /\ Stands(d, o + Len(h), m, l)
    BY ONLY <1>1, <1>3, StandsSplit
  <2>. QED
    BY <1>1, <2>1
<1>5. /\ o \in Nat /\ m \in Nat /\ n \in Nat /\ end \in Nat /\ Len(d) \in Nat
      /\ m <= n /\ n <= end /\ end <= Len(d) /\ o + 2 <= m
      /\ Slice(d, o + 2, m) = l /\ Slice(d, m, n) = value /\ d \in Seq(OctetRange)
  BY <1>2, <1>3, <1>4, LenProperties DEF Stands
<1>6. m = (o + 2) + LengthSize(extended) /\ n = m + Len(value) /\ Len(value) \in Nat
  <2>1. m = (o + 2) + Len(l)
    BY ONLY <1>4, StandsType
  <2>2. n = m + Len(value)
    BY ONLY <1>3, StandsType
  <2>. QED
    BY <1>1, <2>1, <2>2, LenProperties
<1>7. At(d, o) = h[1] /\ At(d, o + 1) = type
  <2>1. \A i \in 1..Len(h) : d[o + i] = h[i]
    BY <1>4, StandsType
  <2>2. d[o + 1] = h[1] /\ d[o + 2] = h[2] /\ (o + 1) + 1 = o + 2
    BY <1>1, <1>5, <2>1
  <2>. QED
    BY <1>1, <2>2 DEF At
<1>8. Extended(d, o) <=> extended
  BY <1>1, <1>7 DEF Extended
<1>9. ValueStart(d, o) = m
  <2>1. CASE extended
    BY <1>5, <1>6, <1>8, <2>1 DEF ValueStart, LengthSize
  <2>2. CASE ~extended
    BY <1>5, <1>6, <1>8, <2>2 DEF ValueStart, LengthSize
  <2>. QED
    BY <2>1, <2>2
<1>10. ValueEnd(d, o) = n
  BY <1>1, <1>5, <1>6, <1>9 DEF ValueEnd
<1>11. DecodedAt(d, o) = Decoded(type, value)
  BY <1>5, <1>7, <1>9, <1>10 DEF DecodedAt
<1>12. ~(o + 2 > end) /\ ~(o + 2 > Len(d)) /\ ~(m > end) /\ ~(m > Len(d))
  BY <1>5
<1>13. AttributesBody(d, end, f, o) = {Overridden(DecodedAt(d, o), r) : r \in f[ValueEnd(d, o)]}
  BY <1>9, <1>12 DEF AttributesBody
<1>. QED
  BY <1>2, <1>5, <1>10, <1>11, <1>13 DEF AttributeRead

-----------------------------------------------------------------------------
\* The later of two attributes of a name wins.

LastOfName(i) ==
  \A j \in (i + 1)..Len(attributes) : attributes[j].name # attributes[i].name
AttributeOf(i) == [name |-> attributes[i].name, value |-> attributes[i].value]

\* What the attributes behind the first k give.
Found(k) ==
  {AttributeOf(i) : i \in {j \in (k + 1)..Len(attributes) :
                             LastOfName(j) /\ attributes[j].name # "unknown"}}

\* Every name has a last attribute.
LEMMA LastExists ==
  ASSUME Len(attributes) \in Nat, NEW i \in Nat, i <= Len(attributes)
  PROVE  \E j \in i..Len(attributes) :
           attributes[j].name = attributes[i].name /\ LastOfName(j)
<1> DEFINE n == Len(attributes)
           Has(k) == \E j \in k..n : attributes[j].name = attributes[k].name /\ LastOfName(j)
           G == {m \in Nat : \A k \in Nat : k <= n /\ k + m >= n => Has(k)}
<1>0. n \in Nat
  OBVIOUS
<1>1. 0 \in G
  <2>1. ASSUME NEW k \in Nat, k <= n, k + 0 >= n PROVE Has(k)
    <3>1. k = n /\ n \in k..n /\ LastOfName(n)
      BY <1>0, <2>1 DEF LastOfName
    <3>. QED
      BY <3>1
  <2>. QED
    BY <2>1
<1>2. ASSUME NEW m \in Nat, m \in G PROVE m + 1 \in G
  <2>1. ASSUME NEW k \in Nat, k <= n, k + (m + 1) >= n PROVE Has(k)
    <3>1. CASE LastOfName(k)
      <4>1. k \in k..n
        BY <1>0, <2>1
      <4>. QED
        BY <3>1, <4>1
    <3>2. CASE ~LastOfName(k)
      <4>1. PICK j \in (k + 1)..n : attributes[j].name = attributes[k].name
        BY <3>2 DEF LastOfName
      <4>2. j \in Nat /\ j <= n /\ j + m >= n /\ k <= j
        BY <1>0, <2>1, <4>1
      <4>3. PICK x \in j..n : attributes[x].name = attributes[j].name /\ LastOfName(x)
        BY <1>2, <4>2
      <4>4. x \in k..n
        BY <1>0, <4>2
      <4>. QED
        BY <4>1, <4>3, <4>4
    <3>. QED
      BY <3>1, <3>2
  <2> HIDE DEF Has
  <2>. QED
    BY <2>1
<1>3. n \in G
  <2> HIDE DEF G
  <2>. QED
    BY <1>0, <1>1, <1>2, SetNatInduction
<1>4. i + n >= n
  BY <1>0
<1>. QED
  BY <1>3, <1>4

\* What one attribute gives, overridden by what those behind it give.
LEMMA FoundCons ==
  ASSUME Len(attributes) \in Nat, NEW k \in Nat, k < Len(attributes)
  PROVE  Overridden(Reading(attributes[k + 1]), Found(k + 1)) = Found(k)
<1> DEFINE n == Len(attributes)
           i == k + 1
           r == Reading(attributes[i])
           later == Found(i)
<1>1. n \in Nat /\ i \in Nat /\ i \in 1..n /\ i <= n
  OBVIOUS
<1>2. \A j : j \in (k + 1)..n <=> j = i \/ j \in (i + 1)..n
  BY <1>1
<1>3. r = IF attributes[i].name = "unknown" THEN {} ELSE {AttributeOf(i)}
  BY DEF Reading, AttributeOf
<1>4. \A j : AttributeOf(j).name = attributes[j].name
  BY DEF AttributeOf
<1> HIDE DEF i, n
<1>5. \A b \in later : \E j \in (i + 1)..n : b = AttributeOf(j)
  BY DEF Found, n
<1>6. CASE attributes[i].name = "unknown"
  <2>1. Found(k) = later
    BY <1>2, <1>6 DEF Found, n, i
  <2>2. r = {}
    BY <1>3, <1>6
  <2>. QED
    BY <2>1, <2>2 DEF Overridden, i
<1>7. CASE attributes[i].name # "unknown" /\ LastOfName(i)
  <2>1. \A b \in later : b.name # AttributeOf(i).name
    BY <1>4, <1>5, <1>7 DEF LastOfName, n
  <2>2. Found(k) = {AttributeOf(i)} \cup later
    BY <1>1, <1>2, <1>7 DEF Found, n, i
  <2>3. r = {AttributeOf(i)}
    BY <1>3, <1>7
  <2>. QED
    BY <2>1, <2>2, <2>3 DEF Overridden, i
<1>8. CASE attributes[i].name # "unknown" /\ ~LastOfName(i)
  <2>1. PICK j \in i..n : attributes[j].name = attributes[i].name /\ LastOfName(j)
    BY <1>1, LastExists DEF n
  <2>2. j \in (i + 1)..n
    <3>1. j # i
      BY <1>8, <2>1
    <3>. QED
      BY <1>1, <3>1
  <2>3. AttributeOf(j) \in later
    BY <1>8, <2>1, <2>2 DEF Found, n
  <2>4. Found(k) = later
    BY <1>1, <1>2, <1>8 DEF Found, n, i
  <2>5. \E b \in later : b.name = AttributeOf(i).name
    BY <1>4, <2>1, <2>3
  <2>6. r = {AttributeOf(i)}
    BY <1>3, <1>8
  <2>. QED
    BY <2>4, <2>5, <2>6 DEF Overridden, i
<1>. QED
  BY <1>6, <1>7, <1>8

-----------------------------------------------------------------------------
\* Lists of attributes that were written.

AttributesParts == [i \in 1..Len(attributes) |-> EncodedAttribute(attributes[i])]

\* The values have the lengths that can be written.
ValuesFit ==
  \A i \in 1..Len(attributes) :
    Len(EncodedValue(attributes[i])) < IF attributes[i].extended THEN 65536 ELSE 256

\* The octets of one attribute.
LEMMA AttributeEncoded ==
  ASSUME NEW type \in OctetRange, NEW extended \in BOOLEAN, NEW value \in Seq(OctetRange),
         Len(value) < IF extended THEN 65536 ELSE 256
  PROVE  Attribute(type, extended, value) \in Seq(OctetRange)
<1>1. PICK h, l : PartsOf(type, extended, value, h, l)
  BY AttributeParts
<1>. QED
  BY <1>1 DEF PartsOf

\* One attribute: its code, and whether its length has two octets.
LEMMA AttributeFacts ==
  ASSUME NEW a \in AttributePool
  PROVE  /\ TypeCode[a.name] \in OctetRange /\ a.extended \in BOOLEAN
         /\ EncodedValue(a) \in Seq(OctetRange)
         /\ Decoded(TypeCode[a.name], EncodedValue(a)) = Reading(a)
         /\ EncodedAttribute(a) = Attribute(TypeCode[a.name], a.extended, EncodedValue(a))
<1>1. a.name \in AttributeName /\ a.extended \in BOOLEAN
  BY AttributeType
<1>2. TypeCode[a.name] \in {1, 3, 4, 5, 8, 32}
  BY <1>1, TypeCodes DEF AttributeName
<1>3. TypeCode[a.name] \in OctetRange
  <2>1. \A n \in {1, 3, 4, 5, 8, 32} : n \in OctetRange
    BY DEF OctetRange
  <2>. QED
    BY <1>2, <2>1
<1>4. Survives(a)
  BY ValueSurvives
<1>. QED
  BY <1>1, <1>3, <1>4 DEF Survives, EncodedAttribute

\* The parts of a list of attributes.
LEMMA AttributesPartsType ==
  ASSUME attributes \in Seq(AttributePool), ValuesFit
  PROVE  /\ Len(attributes) \in Nat /\ \A i \in 1..Len(attributes) : attributes[i] \in AttributePool
         /\ AttributesParts \in Seq(Seq(OctetRange)) /\ Len(AttributesParts) = Len(attributes)
         /\ FlattenSeq(AttributesParts) \in Seq(OctetRange)
<1>1. Len(attributes) \in Nat /\ \A i \in 1..Len(attributes) : attributes[i] \in AttributePool
  BY LenProperties, ElementOfSeq
<1>2. ASSUME NEW i \in 1..Len(attributes)
      PROVE  EncodedAttribute(attributes[i]) \in Seq(OctetRange)
  <2> DEFINE a == attributes[i]
             t == TypeCode[a.name]
             x == a.extended
             v == EncodedValue(a)
  <2>1. a \in AttributePool
    BY <1>1
  <2>2. t \in OctetRange /\ x \in BOOLEAN /\ v \in Seq(OctetRange)
        /\ EncodedAttribute(a) = Attribute(t, x, v)
    BY <2>1, AttributeFacts
  <2>3. Len(v) < IF x THEN 65536 ELSE 256
    BY DEF ValuesFit
  <2> HIDE DEF t, x, v
  <2>4. Attribute(t, x, v) \in Seq(OctetRange)
    BY ONLY <2>2, <2>3, AttributeEncoded
  <2>. QED
    BY <2>2, <2>4
<1>3. AttributesParts \in [1..Len(attributes) -> Seq(OctetRange)]
  BY <1>2 DEF AttributesParts
<1>4. AttributesParts \in Seq(Seq(OctetRange)) /\ Len(AttributesParts) = Len(attributes)
  BY <1>1, <1>3
<1>5. FlattenSeq(AttributesParts) \in Seq(OctetRange)
  BY <1>4, FlattenValue
<1>. QED
  BY <1>1, <1>4, <1>5

\* Attributes that were written are read as they were, of two of a name the later
\* (_parse_path_attributes).
LEMMA AttributesSurvive ==
  ASSUME attributes \in Seq(AttributePool), ValuesFit,
         NEW d, NEW o, NEW end, Stands(d, o, end, FlattenSeq(AttributesParts))
  PROVE  PathAttributes(d, o, end) = {Found(0)}
<1> DEFINE parts == AttributesParts
           n == Len(attributes)
           f == AttributesFrom(d, end)
           Left(k) == FlattenSeq(Rest(parts, k))
           Good(k) == \A p \in Nat : Stands(d, p, end, Left(k)) => f[p] = {Found(k)}
           G == {j \in Nat : \A k \in Nat : k + j = n => Good(k)}
<1>1. /\ n \in Nat /\ \A i \in 1..n : attributes[i] \in AttributePool
      /\ parts \in Seq(Seq(OctetRange)) /\ Len(parts) = n
  BY AttributesPartsType
<1>2. \A i \in 1..n : parts[i] = EncodedAttribute(attributes[i])
  BY DEF AttributesParts
<1>3. d \in Seq(OctetRange) /\ end \in Nat /\ o \in Nat
  BY DEF Stands
<1>4. \A p \in Nat : f[p] = AttributesBody(d, end, f, p) /\ f[p] = PathAttributes(d, p, end)
  BY <1>3, AttributesEquation, PathAttributesIsFrom
<1> HIDE DEF parts, f
<1>5. Left(n) = <<>>
  BY <1>1, RestEnds
<1>6. ASSUME NEW k \in Nat, k < n
      PROVE  /\ Left(k + 1) \in Seq(OctetRange) /\ attributes[k + 1] \in AttributePool
             /\ Left(k) = EncodedAttribute(attributes[k + 1]) \o Left(k + 1)
             /\ k + 1 \in 1..n
  <2>1. k + 1 \in 1..n /\ k < Len(parts)
    BY <1>1, <1>6
  <2>2. Left(k + 1) \in Seq(OctetRange) /\ Left(k) = parts[k + 1] \o Left(k + 1)
    BY <1>1, <2>1, RestCons
  <2>. QED
    BY <1>1, <1>2, <2>1, <2>2
<1> HIDE DEF Left
<1>7. 0 \in G
  <2>1. Good(n)
    <3> SUFFICES ASSUME NEW p \in Nat, Stands(d, p, end, Left(n)) PROVE f[p] = {Found(n)}
      OBVIOUS
    <3>1. end = p + Len(<<>>)
      BY <1>5, StandsType
    <3>2. p + 2 > end
      BY <3>1, EmptySeq
    <3>3. f[p] = {{}}
      BY <1>4, <3>2 DEF AttributesBody
    <3>4. (n + 1)..n = {}
      BY <1>1
    <3>5. Found(n) = {}
      BY <3>4 DEF Found
    <3>. QED
      BY <3>3, <3>5
  <2>2. \A k \in Nat : k + 0 = n => k = n
    BY <1>1
  <2> HIDE DEF Good
  <2>. QED
    BY <2>1, <2>2
<1>8. ASSUME NEW k \in Nat, k < n, Good(k + 1) PROVE Good(k)
  <2> SUFFICES ASSUME NEW p \in Nat, Stands(d, p, end, Left(k)) PROVE f[p] = {Found(k)}
    OBVIOUS
  <2> DEFINE a == attributes[k + 1]
             t == TypeCode[a.name]
             x == a.extended
             v == EncodedValue(a)
             rest == Left(k + 1)
  <2>1. a \in AttributePool /\ rest \in Seq(OctetRange) /\ k + 1 \in 1..n
    BY <1>6, <1>8
  <2>2. /\ t \in OctetRange /\ x \in BOOLEAN /\ v \in Seq(OctetRange)
        /\ EncodedAttribute(a) = Attribute(t, x, v) /\ Decoded(t, v) = Reading(a)
    BY <2>1, AttributeFacts
  <2>3. Len(v) < IF x THEN 65536 ELSE 256
    BY <2>1 DEF ValuesFit
  <2>4. Stands(d, p, end, Attribute(t, x, v) \o rest)
    BY <1>6, <1>8, <2>2
  <2>5. AttributeRead(d, end, f, p, t, v, rest)
    <3> HIDE DEF t, x, v, rest
    <3>. QED
      BY ONLY <2>1, <2>2, <2>3, <2>4, AttributeIsRead
  <2>6. Overridden(Reading(a), Found(k + 1)) = Found(k)
    BY <1>1, <1>8, FoundCons
  <2> DEFINE m == ValueEnd(d, p)
  <2>7. /\ m \in Nat /\ Stands(d, m, end, rest)
        /\ AttributesBody(d, end, f, p) = {Overridden(Decoded(t, v), r) : r \in f[m]}
    BY <2>5 DEF AttributeRead
  <2> HIDE DEF m
  <2>8. f[m] = {Found(k + 1)}
    BY <1>8, <2>7
  <2>. QED
    BY <1>4, <2>2, <2>6, <2>7, <2>8
<1> HIDE DEF Good
<1>9. ASSUME NEW j \in Nat, j \in G PROVE j + 1 \in G
  <2>1. ASSUME NEW k \in Nat, k + (j + 1) = n PROVE Good(k)
    <3>1. k + 1 \in Nat /\ (k + 1) + j = n /\ k < n
      BY <2>1
    <3>2. Good(k + 1)
      BY <1>9, <3>1
    <3>. QED
      BY <1>8, <3>1, <3>2
  <2>. QED
    BY <2>1
<1>10. Nat \subseteq G
  <2> HIDE DEF G
  <2>. QED
    BY <1>7, <1>9, SetNatInduction
<1>11. Good(0)
  <2>1. n \in G
    BY <1>1, <1>10
  <2>2. 0 + n = n /\ 0 \in Nat
    BY <1>1
  <2>. QED
    BY <2>1, <2>2
<1>12. Stands(d, o, end, Left(0))
  <2>1. Rest(parts, 0) = parts
    BY <1>1, RestEnds
  <2>. QED
    BY <2>1 DEF Left, parts
<1>13. f[o] = {Found(0)}
  BY <1>3, <1>11, <1>12 DEF Good
<1>. QED
  BY <1>3, <1>4, <1>13

ExpectedAttributes ==
  {[name |-> "as_path", value |-> FlattenSeq(CountedParts)]} \cup Found(0)

\* The AS path stands before the other attributes.
LEMMA AllAttributesSurvive ==
  ASSUME attributes \in Seq(AttributePool), ValuesFit,
         path \in Seq(Segment), NEW size \in {2, 4}, size = 4 \/ Len(path) <= 1,
         Len(EncodedPath(size)) < 256, \A i \in 1..Len(path) : NumbersFit(path[i].asns, size),
         NEW d, NEW o, NEW end, Stands(d, o, end, EncodedAttributes(size))
  PROVE  PathAttributes(d, o, end) = {ExpectedAttributes}
<1> DEFINE v == EncodedPath(size)
           rest == FlattenSeq(AttributesParts)
           t == ATTR_AS_PATH
           f == AttributesFrom(d, end)
           m == ValueEnd(d, o)
           asns == FlattenSeq(CountedParts)
           r == {[name |-> "as_path", value |-> asns]}
<1>1. v \in Seq(OctetRange) /\ AsPath(v) = asns
  BY PathPartsType, PathSurvives
<1>2. rest \in Seq(OctetRange)
  BY AttributesPartsType
<1>3. t \in OctetRange /\ FALSE \in BOOLEAN
  BY DEF ATTR_AS_PATH, OctetRange
<1>4. Len(v) < IF FALSE THEN 65536 ELSE 256
  OBVIOUS
<1>5. Stands(d, o, end, Attribute(t, FALSE, v) \o rest)
  BY DEF EncodedAttributes, AttributesParts
<1>6. d \in Seq(OctetRange) /\ end \in Nat /\ o \in Nat
  BY <1>5 DEF Stands
<1>7. AttributeRead(d, end, f, o, t, v, rest)
  <2> DEFINE x == FALSE
  <2>1. /\ t \in OctetRange /\ x \in BOOLEAN /\ v \in Seq(OctetRange) /\ rest \in Seq(OctetRange)
        /\ Stands(d, o, end, Attribute(t, x, v) \o rest)
    BY <1>1, <1>2, <1>3, <1>5
  <2>2. Len(v) < IF x THEN 65536 ELSE 256
    BY <1>4
  <2> HIDE DEF t, v, rest, f, x
  <2>. QED
    BY ONLY <2>1, <2>2, AttributeIsRead
<1>8. /\ m \in Nat /\ Stands(d, m, end, rest)
      /\ AttributesBody(d, end, f, o) = {Overridden(Decoded(t, v), x) : x \in f[m]}
  BY <1>7 DEF AttributeRead
<1> HIDE DEF m
<1>9. f[m] = {Found(0)}
  <2>1. PathAttributes(d, m, end) = {Found(0)}
    BY <1>8, AttributesSurvive
  <2>. QED
    BY <2>1, PathAttributesIsFrom
<1>10. Decoded(t, v) = r
  <2> HIDE DEF v
  <2>1. Decoded(t, v) = {[name |-> "as_path", value |-> AsPath(v)]}
    BY DEF Decoded, ATTR_ORIGIN, ATTR_AS_PATH, ATTR_NEXT_HOP, ATTR_MED, ATTR_LOCAL_PREF,
           ATTR_COMMUNITY
  <2>. QED
    BY <1>1, <2>1
<1>11. Overridden(r, Found(0)) = ExpectedAttributes
  <2>1. \A b \in Found(0) : b.name # "as_path"
    <3>1. ASSUME NEW i \in 1..Len(attributes) PROVE attributes[i].name # "as_path"
      <4>1. attributes[i] \in AttributePool
        BY AttributesPartsType
      <4>2. attributes[i].name \in AttributeName
        BY <4>1, AttributeType
      <4>. QED
        BY <4>2 DEF AttributeName
    <3>2. \A b \in Found(0) : \E i \in 1..Len(attributes) : b.name = attributes[i].name
      BY DEF Found, AttributeOf
    <3>. QED
      BY <3>1, <3>2
  <2> HIDE DEF asns
  <2>. QED
    BY <2>1 DEF Overridden, ExpectedAttributes, asns
<1>12. PathAttributes(d, o, end) = AttributesBody(d, end, f, o)
  BY <1>6, AttributesEquation
<1> HIDE DEF r, v, t, f
<1>. QED
  BY <1>8, <1>9, <1>10, <1>11, <1>12

-----------------------------------------------------------------------------
\* Updates and messages that were written.

\* The pieces are of their pools.
PiecesInv ==
  /\ withdrawn \in Seq(PrefixPool) /\ nlri \in Seq(PrefixPool)
  /\ attributes \in Seq(AttributePool) /\ path \in Seq(Segment)

\* The prefixes of the pool are as the RFC has them.
LEMMA PoolIsWritten ==
  ASSUME NEW w \in Seq(PrefixPool)
  PROVE  w \in Seq(Written) /\ EncodedPrefixes(w) \in Seq(OctetRange)
<1>1. ASSUME NEW p \in PrefixPool PROVE p \in Written /\ p \in PrefixRecord
  <2>1. p \in [bits : 0..32, octets : Seq(0..255)] /\ Len(p.octets) = (p.bits + 7) \div 8
    BY PrefixAssumption DEF PrefixAssumption
  <2>2. p.bits \in 0..32 /\ p.octets \in Seq(OctetRange)
    BY <2>1 DEF OctetRange
  <2>3. p.bits \in OctetRange /\ p.bits <= 32
    <3>1. \A b \in 0..32 : b \in OctetRange /\ b <= 32
      BY DEF OctetRange
    <3>. QED
      BY <2>2, <3>1
  <2>4. p \in PrefixRecord
    BY <2>1, <2>2, <2>3 DEF PrefixRecord
  <2>5. Len(p.octets) = PrefixOctets(p.bits)
    BY <2>1 DEF PrefixOctets
  <2>. QED
    BY <2>3, <2>4, <2>5 DEF Written
<1>2. \A i \in 1..Len(w) : w[i] \in Written /\ w[i] \in PrefixRecord
  BY <1>1, ElementOfSeq
<1>3. w \in Seq(Written)
  BY ONLY <1>2, w \in Seq(PrefixPool), SeqWithin
<1>4. w \in Seq(PrefixRecord)
  BY ONLY <1>2, w \in Seq(PrefixPool), SeqWithin
<1>. QED
  BY <1>3, <1>4, EncodedPartsType

\* A length in two octets.
LEMMA LengthSurvives ==
  ASSUME NEW n \in Nat, n < 65536
  PROVE  Octets(n, 2) \in Seq(OctetRange) /\ Len(Octets(n, 2)) = 2 /\ Number(Octets(n, 2)) = n
<1> DEFINE z == 2
<1>1. n \in Nat /\ z \in {1, 2, 4}
  OBVIOUS
<1>a. (z = 1 => n < 256) /\ (z = 2 => n < 65536) /\ (z = 4 => IsFourOctets(n))
  OBVIOUS
<1> HIDE DEF z
<1>2. Octets(n, z) \in Seq(OctetRange) /\ Len(Octets(n, z)) = z
  BY ONLY <1>1, OctetsType
<1>3. Number(Octets(n, z)) = n
  BY ONLY <1>1, <1>a, NumberSurvives
<1>. QED
  BY <1>2, <1>3 DEF z

\* The length of something.
LEMMA LengthIsOctets ==
  ASSUME NEW w \in Seq(OctetRange), Len(w) < 65536
  PROVE  Octets(Len(w), 2) \in Seq(OctetRange)
<1> DEFINE n == Len(w)
<1>1. n \in Nat /\ n < 65536
  BY LenProperties
<1> HIDE DEF n
<1>2. Octets(n, 2) \in Seq(OctetRange)
  BY ONLY <1>1, LengthSurvives
<1>. QED
  BY <1>2 DEF n

\* The octets of the attributes.
LEMMA EncodedAttributesType ==
  ASSUME PiecesInv, NEW size \in {2, 4}, Fits(size)
  PROVE  EncodedAttributes(size) \in Seq(OctetRange)
<1> DEFINE a == EncodedAttributes(size)
           v == EncodedPath(size)
           t == ATTR_AS_PATH
           e == FALSE
           r == FlattenSeq(AttributesParts)
<1>1. v \in Seq(OctetRange) /\ t \in OctetRange /\ e \in BOOLEAN
  BY PathPartsType DEF PiecesInv, ATTR_AS_PATH, OctetRange
<1>2. Len(v) < IF e THEN 65536 ELSE 256
  BY DEF Fits
<1>3. r \in Seq(OctetRange)
  <2>1. ValuesFit
    BY DEF Fits, ValuesFit
  <2>. QED
    BY <2>1, AttributesPartsType DEF PiecesInv
<1>4. a = Attribute(t, e, v) \o r
  BY DEF EncodedAttributes, AttributesParts
<1> HIDE DEF v, t, e, r, a
<1>5. Attribute(t, e, v) \in Seq(OctetRange)
  BY ONLY <1>1, <1>2, AttributeEncoded
<1>6. a \in Seq(OctetRange)
  BY <1>3, <1>4, <1>5, ConcatProperties
<1>. QED
  BY <1>6 DEF a

\* Something, a length in two octets and as many octets, of which the length stands at b.
Field(d, o, c, u, w, b) ==
  /\ b \in Nat /\ Stands(d, o, b, u) /\ c = b + 2 + Len(w) /\ b + 2 <= Len(d)
  /\ Number(Slice(d, b, b + 2)) = Len(w) /\ Stands(d, b + 2, c, w)

\* Where such octets stand, the length is found.
LEMMA FieldStands ==
  ASSUME NEW d, NEW o, NEW c, NEW u \in Seq(OctetRange), NEW w \in Seq(OctetRange),
         Len(w) < 65536,
         Stands(d, o, c, (u \o Octets(Len(w), 2)) \o w)
  PROVE  \E b : Field(d, o, c, u, w, b)
<1> DEFINE l == Octets(Len(w), 2)
           g == u \o l
           m == o + Len(g)
           b == o + Len(u)
<1>1. l \in Seq(OctetRange) /\ Len(l) = 2 /\ Number(l) = Len(w)
  <2> DEFINE n == Len(w)
  <2>1. n \in Nat /\ n < 65536
    BY LenProperties
  <2> HIDE DEF n
  <2>2. Octets(n, 2) \in Seq(OctetRange) /\ Len(Octets(n, 2)) = 2 /\ Number(Octets(n, 2)) = n
    BY ONLY <2>1, LengthSurvives
  <2>. QED
    BY <2>2 DEF n
<1> HIDE DEF l
<1>2. g \in Seq(OctetRange) /\ Stands(d, o, c, g \o w)
  BY <1>1, ConcatProperties DEF l
<1>3. Stands(d, o, m, g) /\ Stands(d, m, c, w)
  <2> HIDE DEF g
  <2>. QED
    BY ONLY <1>2, w \in Seq(OctetRange), StandsSplit DEF m
<1> HIDE DEF m
<1>4. Stands(d, o, b, u) /\ Stands(d, b, m, l)
  BY <1>1, <1>3, StandsSplit
<1> HIDE DEF b
<1>5. m = b + 2 /\ c = m + Len(w)
  <2>1. m = b + Len(l)
    BY ONLY <1>4, StandsType
  <2>2. c = m + Len(w)
    BY ONLY <1>3, StandsType
  <2>. QED
    BY <1>1, <2>1, <2>2
<1>6. b \in Nat /\ m <= Len(d) /\ Slice(d, b, m) = l
  BY <1>4 DEF Stands
<1>7. Field(d, o, c, u, w, b)
  BY <1>1, <1>3, <1>4, <1>5, <1>6 DEF Field
<1>. QED
  BY <1>7

\* An update that was written is read as it was (_parse_bgp_update).
LEMMA UpdateSurvives ==
  ASSUME PiecesInv, NEW size \in {2, 4}, Fits(size), size = 4 \/ Len(path) <= 1,
         NEW d, NEW o, Stands(d, o, Len(d), EncodedUpdate(size))
  PROVE  Update(d, o) =
           {[withdrawn |-> withdrawn, attributes |-> ExpectedAttributes, nlri |-> nlri]}
<1> DEFINE w == EncodedPrefixes(withdrawn)
           a == EncodedAttributes(size)
           n == EncodedPrefixes(nlri)
           l == Octets(Len(w), 2)
           k == Octets(Len(a), 2)
           x == l \o w
           y == (x \o k) \o a
           end == o + Len(y)
<1>1. /\ w \in Seq(OctetRange) /\ n \in Seq(OctetRange)
      /\ withdrawn \in Seq(Written) /\ nlri \in Seq(Written)
  BY PoolIsWritten DEF PiecesInv
<1>2. /\ Len(w) < 65536 /\ Len(a) < 65536 /\ ValuesFit /\ Len(EncodedPath(size)) < 256
      /\ \A i \in 1..Len(path) : NumbersFit(path[i].asns, size)
  BY DEF Fits, ValuesFit
<1>3. a \in Seq(OctetRange)
  BY EncodedAttributesType
<1>4. Stands(d, o, Len(d), y \o n)
  BY DEF EncodedUpdate
<1> HIDE DEF w, a, n
<1>5. l \in Seq(OctetRange) /\ k \in Seq(OctetRange)
  BY <1>1, <1>2, <1>3, LengthIsOctets
<1>6. x \in Seq(OctetRange) /\ y \in Seq(OctetRange)
  <2> HIDE DEF l, k
  <2>1. x \in Seq(OctetRange)
    BY <1>1, <1>5, ConcatProperties
  <2> HIDE DEF x
  <2>2. x \o k \in Seq(OctetRange)
    BY <1>5, <2>1, ConcatProperties
  <2>3. y \in Seq(OctetRange)
    BY <1>3, <2>2, ConcatProperties
  <2>. QED
    BY <2>1, <2>3
<1>7. Stands(d, o, end, y) /\ Stands(d, end, Len(d), n)
  <2> HIDE DEF y
  <2>. QED
    BY ONLY <1>1, <1>4, <1>6, StandsSplit DEF end
<1> HIDE DEF end
<1>8. PICK b : Field(d, o, end, x, a, b)
  <2> HIDE DEF x
  <2>1. Stands(d, o, end, (x \o Octets(Len(a), 2)) \o a)
    BY <1>7
  <2>. QED
    BY ONLY <1>2, <1>3, <1>6, <2>1, FieldStands
<1>9. Field(d, o, b, <<>>, w, o)
  <2> DEFINE u == <<>>
  <2>1. u \in Seq(OctetRange) /\ u \o l = l
    BY <1>5, ConcatEmptySeq, EmptySeq
  <2>2. Stands(d, o, b, (u \o Octets(Len(w), 2)) \o w)
    BY <1>8, <2>1 DEF Field
  <2> HIDE DEF u
  <2>3. PICK c : Field(d, o, b, u, w, c)
    BY ONLY <1>1, <1>2, <2>1, <2>2, FieldStands
  <2>4. c = o + Len(u) /\ o \in Nat
    <3>1. Stands(d, o, c, u)
      BY <2>3 DEF Field
    <3>. QED
      BY ONLY <3>1, StandsType DEF Stands
  <2>5. c = o
    BY <2>4, EmptySeq DEF u
  <2>. QED
    BY <2>3, <2>5 DEF u
<1>10. /\ o \in Nat /\ b \in Nat /\ end \in Nat /\ Len(d) \in Nat /\ d \in Seq(OctetRange)
       /\ b = o + 2 + Len(w) /\ end = b + 2 + Len(a) /\ o + 2 <= Len(d) /\ b + 2 <= Len(d)
       /\ b <= Len(d) /\ end <= Len(d) /\ o + 2 \in Nat /\ b + 2 \in Nat
  <2>1. /\ o \in Nat /\ b \in Nat /\ b = o + 2 + Len(w) /\ end = b + 2 + Len(a)
        /\ o + 2 <= Len(d) /\ b + 2 <= Len(d)
    BY <1>8, <1>9 DEF Field
  <2>2. end \in Nat /\ Len(d) \in Nat /\ d \in Seq(OctetRange) /\ end <= Len(d)
    BY <1>7 DEF Stands
  <2>. QED
    BY <2>1, <2>2
<1>11. Nlri(d, o + 2, b) = {withdrawn}
  <2>1. Stands(d, o + 2, b, w)
    BY <1>9 DEF Field
  <2>2. o + 2 \in Nat /\ o + 2 <= b /\ Slice(d, o + 2, b) = EncodedPrefixes(withdrawn)
    BY <2>1 DEF Stands, w
  <2>. QED
    BY ONLY <1>1, <1>10, <2>2, PrefixesSurvive
<1>12. Nlri(d, end, Len(d)) = {nlri}
  <2> DEFINE q == Len(d)
  <2>1. /\ d \in Seq(OctetRange) /\ end \in Nat /\ q \in Nat /\ end <= q /\ q <= Len(d)
        /\ nlri \in Seq(Written) /\ Slice(d, end, q) = EncodedPrefixes(nlri)
    BY <1>1, <1>7, <1>10 DEF Stands, n
  <2> HIDE DEF q
  <2>2. Nlri(d, end, q) = {nlri}
    BY ONLY <2>1, PrefixesSurvive
  <2>. QED
    BY <2>2 DEF q
<1>13. PathAttributes(d, b + 2, end) = {ExpectedAttributes}
  <2>1. Stands(d, b + 2, end, EncodedAttributes(size))
    BY <1>8 DEF Field, a
  <2>2. attributes \in Seq(AttributePool) /\ path \in Seq(Segment)
    BY DEF PiecesInv
  <2>. QED
    BY <1>2, <2>1, <2>2, AllAttributesSurvive
<1>14. /\ o + 2 + Number(Slice(d, o, o + 2)) = b
       /\ b + 2 + Number(Slice(d, b, b + 2)) = end
  BY <1>8, <1>9 DEF Field
<1>15. ~(Len(d) < o + 2) /\ ~(Len(d) < b + 2)
  BY <1>10
<1>16. Update(d, o) = {[withdrawn |-> v, attributes |-> s, nlri |-> m] :
                         v \in {withdrawn}, s \in {ExpectedAttributes}, m \in {nlri}}
  BY <1>11, <1>12, <1>13, <1>14, <1>15 DEF Update
<1>. QED
  BY <1>16

\* The first and the last octet of what is put together.
LEMMA Joined ==
  ASSUME NEW s \in Seq(OctetRange), NEW t \in Seq(OctetRange)
  PROVE  /\ s \o t \in Seq(OctetRange) /\ Len(s \o t) = Len(s) + Len(t)
         /\ Len(s) >= 1 => (s \o t)[1] = s[1]
         /\ Len(t) = 1 => (s \o t)[Len(s) + 1] = t[1]
<1> DEFINE c == s \o t
<1>1. /\ c \in Seq(OctetRange) /\ Len(c) = Len(s) + Len(t)
      /\ \A i \in 1..(Len(s) + Len(t)) : c[i] = IF i <= Len(s) THEN s[i] ELSE t[i - Len(s)]
      /\ Len(s) \in Nat /\ Len(t) \in Nat
  BY ConcatProperties, LenProperties
<1> HIDE DEF c
<1>2. Len(s) >= 1 => c[1] = s[1]
  BY <1>1
<1>3. ASSUME Len(t) = 1 PROVE c[Len(s) + 1] = t[1]
  <2> DEFINE n == Len(s)
  <2>0. n \in Nat /\ n + 1 \in 1..(n + Len(t))
    BY <1>1, <1>3
  <2>2. \A i \in 1..(n + Len(t)) : c[i] = IF i <= n THEN s[i] ELSE t[i - n]
    BY <1>1
  <2> HIDE DEF n
  <2>1. ~(n + 1 <= n) /\ (n + 1) - n = 1
    BY <2>0
  <2>3. c[n + 1] = t[1]
    BY <2>0, <2>1, <2>2
  <2>. QED
    BY <2>3 DEF n
<1>. QED
  BY <1>1, <1>2, <1>3 DEF c

\* The octets before the update.
LEMMA HeaderTypes ==
  ASSUME NEW n \in Nat, NEW k \in Nat
  PROVE  /\ CommonHeader(n, MSG_ROUTE_MONITORING) \in Seq(OctetRange)
         /\ Len(CommonHeader(n, MSG_ROUTE_MONITORING)) = CommonHeaderLength
         /\ CommonHeader(n, MSG_ROUTE_MONITORING)[1] = BMP_VERSION
         /\ CommonHeader(n, MSG_ROUTE_MONITORING)[CommonHeaderLength] = MSG_ROUTE_MONITORING
         /\ PeerHeader \in Seq(OctetRange) /\ Len(PeerHeader) = PeerHeaderLength
         /\ BgpHeader(k) \in Seq(OctetRange) /\ Len(BgpHeader(k)) = BgpHeaderLength
         /\ BgpHeader(k)[BgpHeaderLength] = BGP_UPDATE
<1> DEFINE v == <<BMP_VERSION>>
           t == <<MSG_ROUTE_MONITORING>>
           u == <<BGP_UPDATE>>
           l == Octets(n, 4)
           j == Octets(k, 2)
           marker == [i \in 1..(BgpHeaderLength - 3) |-> 255]
<1>1. /\ CommonHeaderLength = 6 /\ PeerHeaderLength \in Nat /\ BgpHeaderLength \in Nat
      /\ BgpHeaderLength - 3 \in Nat
  BY Lengths, HeaderAssumption DEF HeaderAssumption
<1>2. /\ BMP_VERSION \in OctetRange /\ MSG_ROUTE_MONITORING \in OctetRange
      /\ BGP_UPDATE \in OctetRange /\ 255 \in OctetRange
      /\ \A i \in Nat : i % 256 \in OctetRange
  BY DEF OctetRange, BMP_VERSION, MSG_ROUTE_MONITORING, BGP_UPDATE
<1>3. /\ v \in Seq(OctetRange) /\ Len(v) = 1 /\ v[1] = BMP_VERSION
      /\ t \in Seq(OctetRange) /\ Len(t) = 1 /\ t[1] = MSG_ROUTE_MONITORING
      /\ u \in Seq(OctetRange) /\ Len(u) = 1 /\ u[1] = BGP_UPDATE
  BY <1>2
<1>4. /\ l \in Seq(OctetRange) /\ Len(l) = 4
      /\ j \in Seq(OctetRange) /\ Len(j) = 2
  BY OctetsType
<1>5. marker \in Seq(OctetRange) /\ Len(marker) = BgpHeaderLength - 3
  <2>1. marker \in [1..(BgpHeaderLength - 3) -> OctetRange]
    BY <1>2
  <2>. QED
    BY <1>1, <2>1
<1>6. PeerHeader \in Seq(OctetRange) /\ Len(PeerHeader) = PeerHeaderLength
  <2>1. PeerHeader \in [1..PeerHeaderLength -> OctetRange]
    BY <1>1, <1>2 DEF PeerHeader
  <2>. QED
    BY <1>1, <2>1
<1>7. /\ CommonHeader(n, MSG_ROUTE_MONITORING) = (v \o l) \o t
      /\ BgpHeader(k) = (marker \o j) \o u
  BY DEF CommonHeader, BgpHeader
<1> DEFINE x == v \o l
           y == marker \o j
<1> HIDE DEF v, t, u, l, j, marker
<1>8. x \in Seq(OctetRange) /\ Len(x) = 5 /\ x[1] = BMP_VERSION
  <2>1. v \in Seq(OctetRange) /\ l \in Seq(OctetRange)
    BY <1>3, <1>4
  <2>2. v \o l \in Seq(OctetRange) /\ Len(v \o l) = Len(v) + Len(l)
    BY ONLY <2>1, Joined
  <2>3. Len(v) >= 1 => (v \o l)[1] = v[1]
    BY ONLY <2>1, Joined
  <2>. QED
    BY <1>3, <1>4, <2>2, <2>3
<1>9. y \in Seq(OctetRange) /\ Len(y) = BgpHeaderLength - 1
  <2>1. marker \in Seq(OctetRange) /\ j \in Seq(OctetRange)
    BY <1>4, <1>5
  <2>2. marker \o j \in Seq(OctetRange) /\ Len(marker \o j) = Len(marker) + Len(j)
    BY ONLY <2>1, Joined
  <2>. QED
    BY <1>1, <1>4, <1>5, <2>2
<1> HIDE DEF x, y
<1>10. /\ x \o t \in Seq(OctetRange) /\ Len(x \o t) = 6
       /\ (x \o t)[1] = BMP_VERSION /\ (x \o t)[6] = MSG_ROUTE_MONITORING
  <2>1. x \in Seq(OctetRange) /\ t \in Seq(OctetRange)
    BY <1>3, <1>8
  <2>2. x \o t \in Seq(OctetRange) /\ Len(x \o t) = Len(x) + Len(t)
    BY ONLY <2>1, Joined
  <2>3. Len(x) >= 1 => (x \o t)[1] = x[1]
    BY ONLY <2>1, Joined
  <2>4. Len(t) = 1 => (x \o t)[Len(x) + 1] = t[1]
    BY ONLY <2>1, Joined
  <2>. QED
    BY <1>3, <1>8, <2>2, <2>3, <2>4
<1>11. /\ y \o u \in Seq(OctetRange) /\ Len(y \o u) = BgpHeaderLength
       /\ (y \o u)[BgpHeaderLength] = BGP_UPDATE
  <2>1. y \in Seq(OctetRange) /\ u \in Seq(OctetRange)
    BY <1>3, <1>9
  <2>2. y \o u \in Seq(OctetRange) /\ Len(y \o u) = Len(y) + Len(u)
    BY ONLY <2>1, Joined
  <2>3. Len(u) = 1 => (y \o u)[Len(y) + 1] = u[1]
    BY ONLY <2>1, Joined
  <2>4. Len(y) + 1 = BgpHeaderLength
    BY <1>1, <1>9
  <2>. QED
    BY <1>3, <2>2, <2>3, <2>4
<1>. QED
  BY <1>1, <1>6, <1>7, <1>10, <1>11 DEF x, y

\* The lengths the headers state.
LEMMA HeaderLengths ==
  ASSUME NEW size, EncodedUpdate(size) \in Seq(OctetRange)
  PROVE  BgpLength(size) \in Nat /\ BmpLength(size) \in Nat
<1>1. Len(EncodedUpdate(size)) \in Nat
  BY LenProperties
<1>. QED
  BY <1>1, Lengths DEF BgpLength, BmpLength

\* The headers stand before the update.
Headed(d, p, o, size) ==
  /\ Stands(d, 0, CommonHeaderLength, CommonHeader(BmpLength(size), MSG_ROUTE_MONITORING))
  /\ Stands(d, CommonHeaderLength, p, PeerHeader)
  /\ Stands(d, p, o, BgpHeader(BgpLength(size)))
  /\ Stands(d, o, Len(d), EncodedUpdate(size))
  /\ p = CommonHeaderLength + PeerHeaderLength /\ o = p + BgpHeaderLength

\* They do in a message that was written.
LEMMA MessageIsHeaded ==
  ASSUME NEW size \in {2, 4}, EncodedUpdate(size) \in Seq(OctetRange)
  PROVE  \E p, o : Headed(Message(size), p, o, size)
<1> DEFINE c == CommonHeader(BmpLength(size), MSG_ROUTE_MONITORING)
           h == PeerHeader
           b == BgpHeader(BgpLength(size))
           u == EncodedUpdate(size)
           x == c \o h
           y == x \o b
           d == Message(size)
<1>1. /\ c \in Seq(OctetRange) /\ Len(c) = CommonHeaderLength
      /\ h \in Seq(OctetRange) /\ Len(h) = PeerHeaderLength
      /\ b \in Seq(OctetRange) /\ Len(b) = BgpHeaderLength /\ u \in Seq(OctetRange)
  BY HeaderLengths, HeaderTypes
<1>2. d = y \o u
  BY DEF Message
<1> HIDE DEF c, h, b, u, d
<1>3. x \in Seq(OctetRange)
  BY <1>1, ConcatProperties
<1> HIDE DEF x
<1>4. y \in Seq(OctetRange)
  BY <1>1, <1>3, ConcatProperties
<1> HIDE DEF y
<1>5. y \o u \in Seq(OctetRange)
  BY <1>1, <1>4, ConcatProperties
<1>6. Stands(d, 0, Len(d), y \o u)
  BY <1>2, <1>5, StandsWhole
<1>7. Stands(d, 0, 0 + Len(y), y) /\ Stands(d, 0 + Len(y), Len(d), u)
  BY ONLY <1>1, <1>4, <1>6, StandsSplit
<1>8. Stands(d, 0, 0 + Len(x), x) /\ Stands(d, 0 + Len(x), 0 + Len(y), b)
  <2>1. Stands(d, 0, 0 + Len(y), x \o b)
    BY <1>7 DEF y
  <2>. QED
    BY ONLY <1>1, <1>3, <2>1, StandsSplit
<1>9. Stands(d, 0, 0 + Len(c), c) /\ Stands(d, 0 + Len(c), 0 + Len(x), h)
  <2>1. Stands(d, 0, 0 + Len(x), c \o h)
    BY <1>8 DEF x
  <2>. QED
    BY ONLY <1>1, <2>1, StandsSplit
<1>10. 0 + Len(x) = (0 + Len(c)) + Len(h) /\ 0 + Len(y) = (0 + Len(x)) + Len(b)
  BY ONLY <1>8, <1>9, StandsType
<1>11. 0 + Len(c) = CommonHeaderLength
  BY <1>1, Lengths
<1>12. /\ 0 + Len(x) = CommonHeaderLength + PeerHeaderLength
       /\ 0 + Len(y) = (0 + Len(x)) + BgpHeaderLength
  BY <1>1, <1>10, <1>11
<1>13. Headed(d, 0 + Len(x), 0 + Len(y), size)
  BY <1>7, <1>8, <1>9, <1>11, <1>12 DEF Headed, c, h, b, u
<1>. QED
  BY <1>13 DEF d

\* A route monitoring message is what its update says.
LEMMA HeadedIsParsed ==
  ASSUME NEW d, NEW p, NEW o, NEW size, Headed(d, p, o, size),
         EncodedUpdate(size) \in Seq(OctetRange)
  PROVE  ParseMessage(d) =
           {[type |-> MSG_ROUTE_MONITORING, peer |-> PeerHeader, update |-> u] :
              u \in Update(d, o)}
<1> DEFINE cl == CommonHeaderLength
           c == CommonHeader(BmpLength(size), MSG_ROUTE_MONITORING)
           b == BgpHeader(BgpLength(size))
<1>0. BgpLength(size) \in Nat /\ BmpLength(size) \in Nat
  BY HeaderLengths
<1>1. /\ Stands(d, 0, cl, c) /\ Stands(d, cl, p, PeerHeader) /\ Stands(d, p, o, b)
      /\ Stands(d, o, Len(d), EncodedUpdate(size))
      /\ p = cl + PeerHeaderLength /\ o = p + BgpHeaderLength
  BY DEF Headed
<1>2. /\ d \in Seq(OctetRange) /\ cl \in Nat /\ p \in Nat /\ o \in Nat /\ Len(d) \in Nat
      /\ cl <= p /\ p <= o /\ o <= Len(d) /\ Slice(d, cl, p) = PeerHeader
  BY <1>1 DEF Stands
<1>3. At(d, 0) = BMP_VERSION /\ At(d, cl - 1) = MSG_ROUTE_MONITORING
  <2>1. \A i \in 1..Len(c) : d[0 + i] = c[i]
    BY ONLY <1>1, StandsType
  <2>2. Len(c) = cl /\ c[1] = BMP_VERSION /\ c[cl] = MSG_ROUTE_MONITORING
    BY <1>0, HeaderTypes
  <2>3. 1 \in 1..cl /\ cl \in 1..cl /\ 0 + 1 = 1 /\ 0 + cl = cl /\ (cl - 1) + 1 = cl
    BY Lengths
  <2> HIDE DEF c
  <2>4. d[1] = BMP_VERSION /\ d[cl] = MSG_ROUTE_MONITORING
    BY <2>1, <2>2, <2>3
  <2>. QED
    BY <2>3, <2>4 DEF At
<1>4. At(d, p + BgpHeaderLength - 1) = BGP_UPDATE
  <2> DEFINE n == BgpHeaderLength
  <2>1. \A i \in 1..Len(b) : d[p + i] = b[i]
    BY ONLY <1>1, StandsType
  <2>2. Len(b) = n /\ b[n] = BGP_UPDATE
    BY <1>0, HeaderTypes
  <2> HIDE DEF b
  <2>3. n \in 1..n /\ (p + n - 1) + 1 = p + n
    BY <1>2, Lengths
  <2>4. d[p + n] = BGP_UPDATE
    BY <2>1, <2>2, <2>3
  <2>. QED
    BY <2>3, <2>4 DEF At
<1>5. RouteMonitoring(d, p) = Update(d, o)
  <2>1. ~(Len(d) < p + BgpHeaderLength)
    BY <1>1, <1>2
  <2>. QED
    BY <1>1, <1>4, <2>1 DEF RouteMonitoring
<1>6. ~(Len(d) < cl) /\ ~(Len(d) < p)
  BY <1>2
<1>7. MSG_ROUTE_MONITORING \in PEER_HEADER_TYPES
  BY DEF MSG_ROUTE_MONITORING, PEER_HEADER_TYPES
<1> HIDE DEF c
<1>8. CommonHeaderLength + (IF At(d, cl - 1) \in PEER_HEADER_TYPES THEN PeerHeaderLength ELSE 0) = p
  BY <1>1, <1>3, <1>7
<1>9. ParseMessage(d) =
        {[type |-> At(d, cl - 1), peer |-> Slice(d, cl, p), update |-> u] :
           u \in IF At(d, cl - 1) = MSG_ROUTE_MONITORING THEN RouteMonitoring(d, p)
                 ELSE {NoUpdate}}
  BY <1>3, <1>6, <1>8 DEF ParseMessage
<1>. QED
  BY <1>2, <1>3, <1>5, <1>9

\* The octets of an update.
LEMMA EncodedUpdateType ==
  ASSUME PiecesInv, NEW size \in {2, 4}, Fits(size)
  PROVE  EncodedUpdate(size) \in Seq(OctetRange)
<1> DEFINE w == EncodedPrefixes(withdrawn)
           a == EncodedAttributes(size)
           n == EncodedPrefixes(nlri)
           l == Octets(Len(w), 2)
           k == Octets(Len(a), 2)
<1>1. w \in Seq(OctetRange) /\ n \in Seq(OctetRange) /\ a \in Seq(OctetRange)
  BY PoolIsWritten, EncodedAttributesType DEF PiecesInv
<1>2. Len(w) < 65536 /\ Len(a) < 65536
  BY DEF Fits
<1> HIDE DEF w, a, n
<1>3. l \in Seq(OctetRange) /\ k \in Seq(OctetRange)
  BY <1>1, <1>2, LengthIsOctets
<1>4. EncodedUpdate(size) = (((l \o w) \o k) \o a) \o n
  BY DEF EncodedUpdate, w, a, n
<1> HIDE DEF l, k
<1>5. l \o w \in Seq(OctetRange)
  BY <1>1, <1>3, ConcatProperties
<1>6. (l \o w) \o k \in Seq(OctetRange)
  BY <1>3, <1>5, ConcatProperties
<1>7. ((l \o w) \o k) \o a \in Seq(OctetRange)
  BY <1>1, <1>6, ConcatProperties
<1>8. (((l \o w) \o k) \o a) \o n \in Seq(OctetRange)
  BY <1>1, <1>7, ConcatProperties
<1>. QED
  BY <1>4, <1>8

\* The pieces stay pieces.
THEOREM PiecesArePieces == Spec => []PiecesInv
<1>1. Init => PiecesInv
  <2>1. \A S : <<>> \in Seq(S)
    BY EmptySeq
  <2>. QED
    BY <2>1 DEF Init, PiecesInv
<1>2. ASSUME PiecesInv, [Next]_vars PROVE PiecesInv'
  <2>1. ASSUME NEW octet \in Octet, Arrives(octet) PROVE PiecesInv'
    BY <1>2, <2>1 DEF Arrives, PiecesInv, update
  <2>2. ASSUME NEW p \in PrefixPool, Withdraw(p) PROVE PiecesInv'
    BY <1>2, <2>2, AppendProperties DEF Withdraw, PiecesInv
  <2>3. ASSUME NEW a \in AttributePool, AddAttribute(a) PROVE PiecesInv'
    BY <1>2, <2>3, AppendProperties DEF AddAttribute, PiecesInv
  <2>4. ASSUME NEW s \in Segment, AddSegment(s) PROVE PiecesInv'
    BY <1>2, <2>4, AppendProperties DEF AddSegment, PiecesInv
  <2>5. ASSUME NEW p \in PrefixPool, Announce(p) PROVE PiecesInv'
    BY <1>2, <2>5, AppendProperties DEF Announce, PiecesInv
  <2>6. CASE UNCHANGED vars
    BY <1>2, <2>6 DEF vars, PiecesInv
  <2>. QED
    BY <1>2, <2>1, <2>2, <2>3, <2>4, <2>5, <2>6 DEF Next
<1>. QED
  BY <1>1, <1>2, PTL DEF Spec

\* What is found is what is expected.
LEMMA ExpectedIs ==
  Expected = [withdrawn |-> withdrawn, attributes |-> ExpectedAttributes, nlri |-> nlri]
<1>1. CountedParts = [i \in 1..Len(path) |->
                        IF path[i].type = AS_SEQUENCE THEN path[i].asns ELSE <<>>]
  BY DEF CountedParts, Counted
<1>2. Found(0) = {[name |-> attributes[i].name, value |-> attributes[i].value] :
          i \in {k \in 1..Len(attributes) :
                   /\ \A j \in (k + 1)..Len(attributes) : attributes[j].name # attributes[k].name
                   /\ attributes[k].name # "unknown"}}
  <2>1. 0 + 1 = 1
    OBVIOUS
  <2>. QED
    BY <2>1 DEF Found, AttributeOf, LastOfName
<1>. QED
  BY <1>1, <1>2 DEF Expected, ExpectedAttributes

\* Every update that can be written, whatever its prefixes, attributes and path,
\* is reported as it was written (parse_message): with AS numbers of four octets
\* always, with AS numbers of two if the path has no more than one segment.
THEOREM WrittenIsReported == Spec => []RoundTrip
<1>1. PiecesInv => RoundTrip
  <2> SUFFICES ASSUME PiecesInv, NEW size \in {2, 4}, Fits(size), size = 4 \/ Len(path) <= 1
               PROVE  ParseMessage(Message(size)) =
                        {[type |-> MSG_ROUTE_MONITORING, peer |-> PeerHeader,
                          update |-> Expected]}
    BY DEF RoundTrip
  <2> DEFINE d == Message(size)
  <2>1. PICK p, o : Headed(d, p, o, size)
    BY EncodedUpdateType, MessageIsHeaded
  <2> HIDE DEF d
  <2>2. ParseMessage(d) = {[type |-> MSG_ROUTE_MONITORING, peer |-> PeerHeader, update |-> u] :
                             u \in Update(d, o)}
    BY <2>1, EncodedUpdateType, HeadedIsParsed
  <2>3. Stands(d, o, Len(d), EncodedUpdate(size))
    BY <2>1 DEF Headed
  <2>4. Update(d, o) =
          {[withdrawn |-> withdrawn, attributes |-> ExpectedAttributes, nlri |-> nlri]}
    BY <2>3, UpdateSurvives
  <2>. QED
    BY <2>2, <2>4, ExpectedIs DEF d
<1>. QED
  BY <1>1, PiecesArePieces, PTL
=============================================================================
