----------------------------- MODULE TextsProofs -----------------------------
(***************************************************************************)
(* What Conversions and EnvDump compute, for texts and environments of any *)
(* length.                                                                 *)
(*                                                                         *)
(* FlattenSeq, on which both rest, is a recursive function: that there is  *)
(* one, and what it holds, follows from the well-foundedness of the        *)
(* natural numbers.                                                        *)
(***************************************************************************)
EXTENDS EnvDump, SequenceTheorems, WellFoundedInduction, TLAPS

-----------------------------------------------------------------------------
(* Naturals.                                                               *)

(* A set of numbers has a least one. *)
LEMMA LeastNat ==
  ASSUME NEW T \in SUBSET Nat, T # {}
  PROVE  \E m \in T : \A n \in T : m <= n
PROOF
<1>1. PICK m \in T : \A n \in T : ~(<<n, m>> \in OpToRel(<, Nat))
  BY NatLessThanWellFounded, WFMin
<1>2. \A n \in T : ~(n < m)
  BY <1>1 DEF OpToRel
<1> QED
  BY <1>2

(* A set that holds 0, and with a number below n the next one, holds all   *)
(* up to n.                                                                *)
LEMMA UpTo ==
  ASSUME NEW n \in Nat, NEW S, 0 \in S,
         \A i \in 0..(n - 1) : i \in S => i + 1 \in S
  PROVE  0..n \subseteq S
PROOF
<1> DEFINE T == {i \in 0..n : i \notin S}
<1> SUFFICES ASSUME T # {} PROVE FALSE
  OBVIOUS
<1>1. T \in SUBSET Nat
  OBVIOUS
<1>2. PICK m \in T : \A i \in T : m <= i
  <2> HIDE DEF T
  <2> QED
    BY <1>1, LeastNat
<1>3. m # 0 /\ m - 1 \in 0..(n - 1) /\ m - 1 \notin T
  BY <1>2
<1>4. m - 1 \in S
  BY <1>3
<1>5. (m - 1) + 1 \in S
  BY <1>3, <1>4
<1> QED
  BY <1>2, <1>5

-----------------------------------------------------------------------------
(* FlattenSeq.                                                             *)

(* Concatenation, under a name that stays folded: the provers lose their   *)
(* way when they see it under a quantifier.                                *)
Cat(s, t) == s \o t

(* The type of a concatenation, and the two cases with the empty text. *)
LEMMA CatType ==
  ASSUME NEW E, NEW s \in Seq(E), NEW t \in Seq(E)
  PROVE  Cat(s, t) \in Seq(E) /\ Cat(<<>>, t) = t /\ Cat(s, <<>>) = s
  BY ConcatProperties, ConcatEmptySeq DEF Cat

(* The texts that FlattenSeq( s ) makes of the beginnings of s. *)
Beginnings(E, s, f) ==
  /\ f \in [0..Len(s) -> Seq(E)]
  /\ f[0] = <<>>
  /\ \A i \in 0..(Len(s) - 1) : f[i + 1] = Cat(f[i], s[i + 1])

(* There are such texts. *)
LEMMA BeginningsExist ==
  ASSUME NEW E, NEW s \in Seq(Seq(E))
  PROVE  \E f : Beginnings(E, s, f)
PROOF
<1> DEFINE Upto(n, f) == /\ f \in [0..n -> Seq(E)]
                         /\ f[0] = <<>>
                         /\ \A i \in 0..(n - 1) : f[i + 1] = Cat(f[i], s[i + 1])
           S == {n \in 0..Len(s) : \E f : Upto(n, f)}
<1>1. Len(s) \in Nat /\ \A i \in 1..Len(s) : s[i] \in Seq(E)
  BY LenProperties, ElementOfSeq
<1>2. 0 \in S
  <2>1. Upto(0, [i \in 0..0 |-> <<>>])
    BY EmptySeq
  <2> HIDE DEF Upto
  <2> QED
    BY <1>1, <2>1
<1>3. ASSUME NEW n \in 0..(Len(s) - 1), n \in S
      PROVE  n + 1 \in S
  <2>1. PICK f : Upto(n, f)
    BY <1>3
  <2> DEFINE g == [i \in 0..(n + 1) |-> IF i = n + 1 THEN Cat(f[n], s[n + 1]) ELSE f[i]]
  <2>2. Cat(f[n], s[n + 1]) \in Seq(E)
    BY <1>1, <2>1, CatType
  <2>3. g \in [0..(n + 1) -> Seq(E)]
    <3>1. \A i \in 0..(n + 1) : i # n + 1 => i \in 0..n
      OBVIOUS
    <3>2. \A i \in 0..n : f[i] \in Seq(E)
      BY <2>1
    <3>3. \A i \in 0..(n + 1) :
            (IF i = n + 1 THEN Cat(f[n], s[n + 1]) ELSE f[i]) \in Seq(E)
      BY <2>2, <3>1, <3>2, Zenon
    <3> QED
      BY <3>3, Zenon
  <2>4. g[0] = <<>>
    BY <2>1
  <2>5. ASSUME NEW i \in 0..n
        PROVE  g[i + 1] = Cat(g[i], s[i + 1])
    <3>1. CASE i = n
      BY <3>1
    <3>2. CASE i # n
      <4>1. i \in 0..(n - 1)
        BY <3>2
      <4>2. f[i + 1] = Cat(f[i], s[i + 1])
        BY <2>1, <4>1
      <4> QED
        BY <4>1, <4>2
    <3> QED
      BY <3>1, <3>2
  <2>6. Upto(n + 1, g)
    <3> HIDE DEF g
    <3> QED
      BY <2>3, <2>4, <2>5
  <2>7. n + 1 \in 0..Len(s)
    BY <1>1
  <2> HIDE DEF g, Upto
  <2> QED
    BY <2>6, <2>7
<1>4. 0..Len(s) \subseteq S
  <2> HIDE DEF S
  <2> QED
    BY <1>1, <1>2, <1>3, UpTo
<1>5. Len(s) \in S
  <2> HIDE DEF S
  <2> QED
    BY <1>1, <1>4
<1> QED
  BY <1>5 DEF Beginnings

(* FlattenSeq( s ) is the last of them. *)
LEMMA FlattenIsLast ==
  ASSUME NEW E, NEW s \in Seq(Seq(E)), NEW f, Beginnings(E, s, f)
  PROVE  FlattenSeq(s) = f[Len(s)]
PROOF
<1>1. Len(s) \in Nat /\ \A i \in 1..Len(s) : s[i] \in Seq(E)
  BY LenProperties, ElementOfSeq
<1>2. CASE Len(s) = 0
  <2>1. s = <<>>
    BY <1>2, EmptySeq
  <2> QED
    BY <1>2, <2>1 DEF FlattenSeq, Beginnings
<1>3. CASE Len(s) # 0
  <2> DEFINE flatten == CHOOSE g : g = [i \in 1..Len(s) |->
                                          IF i = 1 THEN s[i] ELSE Cat(g[i - 1], s[i])]
             first == [i \in 1..Len(s) |-> f[i]]
  <2>1. f[1] = s[1]
    <3>1. f[0 + 1] = Cat(f[0], s[0 + 1])
      BY <1>1, <1>3 DEF Beginnings
    <3> QED
      BY <1>1, <1>3, <3>1, CatType DEF Beginnings
  <2>2. first = [i \in 1..Len(s) |-> IF i = 1 THEN s[i] ELSE Cat(first[i - 1], s[i])]
    <3>1. ASSUME NEW i \in 1..Len(s)
          PROVE  first[i] = IF i = 1 THEN s[i] ELSE Cat(first[i - 1], s[i])
      <4>1. CASE i = 1
        BY <2>1, <4>1
      <4>2. CASE i # 1
        <5>1. i - 1 \in 1..Len(s) /\ i - 1 \in 0..(Len(s) - 1)
          BY <1>1, <4>2
        <5>2. f[i] = Cat(f[i - 1], s[i])
          BY <5>1 DEF Beginnings
        <5> QED
          BY <4>2, <5>1, <5>2
      <4> QED
        BY <4>1, <4>2
    <3> QED
      BY <3>1
  <2>3. flatten = [i \in 1..Len(s) |-> IF i = 1 THEN s[i] ELSE Cat(flatten[i - 1], s[i])]
    <3> HIDE DEF first
    <3> QED
      BY <2>2
  <2>4. FlattenSeq(s) = flatten[Len(s)]
    BY <1>3 DEF FlattenSeq, Cat
  <2> HIDE DEF flatten
  <2> DEFINE S == {0} \cup {i \in 1..Len(s) : flatten[i] = f[i]}
  <2>5. ASSUME NEW i \in 0..(Len(s) - 1), i \in S
        PROVE  i + 1 \in S
    <3>1. i + 1 \in 1..Len(s)
      BY <1>1
    <3>2. CASE i = 0
      <4>1. flatten[1] = s[1]
        BY <2>3, <3>1, <3>2
      <4> QED
        BY <2>1, <3>1, <3>2, <4>1
    <3>3. CASE i # 0
      <4>1. ASSUME NEW j \in 1..Len(s), j # 1
            PROVE  flatten[j] = Cat(flatten[j - 1], s[j])
        BY <2>3, <4>1
      <4>2. flatten[i + 1] = Cat(flatten[i], s[i + 1])
        <5>1. i + 1 # 1 /\ (i + 1) - 1 = i
          BY <1>1, <3>3
        <5> QED
          BY <3>1, <4>1, <5>1
      <4>3. f[i + 1] = Cat(f[i], s[i + 1]) /\ flatten[i] = f[i]
        BY <2>5, <3>3 DEF Beginnings
      <4> QED
        BY <3>1, <4>1, <4>2, <4>3
    <3> QED
      BY <3>2, <3>3
  <2>6. 0..Len(s) \subseteq S
    <3>1. 0 \in S
      OBVIOUS
    <3> HIDE DEF S
    <3> QED
      BY <1>1, <2>5, <3>1, UpTo
  <2>7. Len(s) \in S
    <3>1. Len(s) \in 0..Len(s)
      BY <1>1
    <3> HIDE DEF S
    <3> QED
      BY <2>6, <3>1, Zenon
  <2>8. flatten[Len(s)] = f[Len(s)]
    BY <1>3, <2>7
  <2> QED
    BY <2>4, <2>8
<1> QED
  BY <1>2, <1>3

(* There is nothing in the text of no texts. *)
LEMMA FlattenEmpty == FlattenSeq(<<>>) = <<>>
  BY DEF FlattenSeq

(* What texts of one kind flatten to is a text of that kind. *)
LEMMA FlattenType ==
  ASSUME NEW E, NEW s \in Seq(Seq(E))
  PROVE  FlattenSeq(s) \in Seq(E)
PROOF
<1>1. PICK f : Beginnings(E, s, f)
  BY BeginningsExist
<1>2. f[Len(s)] \in Seq(E)
  BY <1>1, LenProperties DEF Beginnings
<1>3. FlattenSeq(s) = f[Len(s)]
  BY <1>1, FlattenIsLast
<1> QED
  BY <1>2, <1>3

(* One more text comes at the end. *)
LEMMA FlattenAppend ==
  ASSUME NEW E, NEW s \in Seq(Seq(E)), NEW x \in Seq(E)
  PROVE  FlattenSeq(Append(s, x)) = Cat(FlattenSeq(s), x)
PROOF
<1> DEFINE a == Append(s, x)
<1>1. /\ a \in Seq(Seq(E))
      /\ Len(s) \in Nat /\ Len(a) = Len(s) + 1
      /\ \A i \in 1..Len(s) : a[i] = s[i]
      /\ a[Len(s) + 1] = x
  BY AppendProperties, LenProperties
<1> HIDE DEF a
<1>2. PICK f : Beginnings(E, a, f)
  BY <1>1, BeginningsExist
<1> DEFINE g == [i \in 0..Len(s) |-> f[i]]
<1>3. Beginnings(E, s, g)
  <2>1. g \in [0..Len(s) -> Seq(E)] /\ g[0] = <<>>
    BY <1>1, <1>2 DEF Beginnings
  <2>2. ASSUME NEW i \in 0..(Len(s) - 1)
        PROVE  g[i + 1] = Cat(g[i], s[i + 1])
    <3>1. i + 1 \in 1..Len(s) /\ i \in 0..(Len(a) - 1)
      BY <1>1
    <3>2. f[i + 1] = Cat(f[i], a[i + 1])
      BY <1>2, <3>1 DEF Beginnings
    <3> QED
      BY <1>1, <3>1, <3>2
  <2> HIDE DEF g
  <2> QED
    BY <2>1, <2>2 DEF Beginnings
<1>4. FlattenSeq(a) = f[Len(s) + 1]
  BY <1>1, <1>2, FlattenIsLast
<1>5. FlattenSeq(s) = f[Len(s)]
  <2>1. FlattenSeq(s) = g[Len(s)]
    <3> HIDE DEF g
    <3> QED
      BY <1>3, FlattenIsLast
  <2> QED
    BY <1>1, <2>1
<1>6. f[Len(s) + 1] = Cat(f[Len(s)], a[Len(s) + 1])
  <2>1. Len(s) \in 0..(Len(a) - 1)
    BY <1>1
  <2> QED
    BY <1>2, <2>1 DEF Beginnings
<1> QED
  BY <1>1, <1>4, <1>5, <1>6 DEF a

-----------------------------------------------------------------------------
(* Texts.                                                                  *)

(* A set that holds the empty text, and with a text each one that is an    *)
(* element longer, holds all texts.                                        *)
LEMMA AllTexts ==
  ASSUME NEW E, NEW T, <<>> \in T,
         \A s \in Seq(E), e \in E : s \in T => Append(s, e) \in T
  PROVE  Seq(E) \subseteq T
PROOF
<1> SUFFICES ASSUME NEW s \in Seq(E) PROVE s \in T
  OBVIOUS
<1> DEFINE Upto(i) == SubSeq(s, 1, i)
           S == {i \in 0..Len(s) : Upto(i) \in T}
<1>1. Len(s) \in Nat
  BY LenProperties
<1>2. 0 \in S
  <2>1. Upto(0) = <<>>
    BY SubSeqEmpty
  <2> HIDE DEF Upto
  <2> QED
    BY <1>1, <2>1
<1>3. ASSUME NEW i \in 0..(Len(s) - 1), i \in S
      PROVE  i + 1 \in S
  <2>1. i + 1 \in 1..Len(s) /\ s[i + 1] \in E
    BY <1>1, ElementOfSeq
  <2>2. Upto(i) \in Seq(E)
    <3>1. \A j \in 1..i : s[j] \in E
      BY <1>1, ElementOfSeq
    <3> QED
      BY <1>1, <3>1, SubSeqProperties
  <2>3. Upto(i + 1) = Append(Upto(i), s[i + 1])
    <3>1. SubSeq(s, 1, i + 1) = SubSeq(s, 1, (i + 1) - 1) \o <<s[i + 1]>>
      BY <1>1, <2>1, SubSeqRecursiveSecond
    <3>2. (i + 1) - 1 = i
      BY <1>1
    <3>3. Append(SubSeq(s, 1, i), s[i + 1]) = SubSeq(s, 1, i) \o <<s[i + 1]>>
      BY <2>1, <2>2, AppendIsConcat
    <3> QED
      BY <3>1, <3>2, <3>3, Zenon
  <2>4. i + 1 \in 0..Len(s)
    BY <1>1
  <2> HIDE DEF Upto
  <2> QED
    BY <1>3, <2>1, <2>2, <2>3, <2>4
<1>4. 0..Len(s) \subseteq S
  <2> HIDE DEF S
  <2> QED
    BY <1>1, <1>2, <1>3, UpTo
<1>5. Upto(Len(s)) = s
  BY SubSeqFull
<1> HIDE DEF Upto
<1> QED
  BY <1>1, <1>4, <1>5

(* To append an element is to concatenate a text of one. *)
LEMMA AppendIsCat ==
  ASSUME NEW E, NEW s \in Seq(E), NEW e \in E
  PROVE  Append(s, e) = Cat(s, <<e>>)
  BY AppendIsConcat DEF Cat

(* Concatenation is associative ... *)
LEMMA CatAssoc ==
  ASSUME NEW E, NEW s \in Seq(E), NEW t \in Seq(E), NEW u \in Seq(E)
  PROVE  Cat(Cat(s, t), u) = Cat(s, Cat(t, u))
  BY ConcatAssociative DEF Cat

(* ... and appending to the second text appends to the whole. *)
LEMMA CatAppend ==
  ASSUME NEW E, NEW s \in Seq(E), NEW t \in Seq(E), NEW e \in E
  PROVE  Cat(s, Append(t, e)) = Append(Cat(s, t), e)
PROOF
<1>1. <<e>> \in Seq(E)
  OBVIOUS
<1>2. Cat(s, t) \in Seq(E)
  BY CatType
<1>3. ASSUME NEW z \in Seq(E) PROVE Append(z, e) = Cat(z, <<e>>)
  BY AppendIsCat
<1>4. ASSUME NEW z \in Seq(E) PROVE Cat(Cat(s, t), z) = Cat(s, Cat(t, z))
  BY CatAssoc
<1> QED
  BY <1>1, <1>2, <1>3, <1>4

(* Where an element of a concatenation comes from. *)
LEMMA CatElement ==
  ASSUME NEW E, NEW s \in Seq(E), NEW t \in Seq(E)
  PROVE  /\ Len(s) \in Nat /\ Len(t) \in Nat
         /\ Len(Cat(s, t)) = Len(s) + Len(t)
         /\ \A i \in 1..Len(s) : Cat(s, t)[i] = s[i]
         /\ \A i \in 1..Len(t) : Cat(s, t)[Len(s) + i] = t[i]
PROOF
<1>1. Len(s) \in Nat /\ Len(t) \in Nat
  BY LenProperties
<1>2. /\ Len(s \o t) = Len(s) + Len(t)
      /\ \A i \in 1 .. Len(s) + Len(t) : (s \o t)[i] =
                     IF i <= Len(s) THEN s[i] ELSE t[i - Len(s)]
  BY ConcatProperties
<1>3. ASSUME NEW i \in 1..Len(t)
      PROVE  (s \o t)[Len(s) + i] = t[i]
  <2>1. Len(s) + i \in 1..(Len(s) + Len(t)) /\ ~(Len(s) + i <= Len(s))
        /\ (Len(s) + i) - Len(s) = i
    BY <1>1
  <2> QED
    BY <1>2, <2>1
<1> QED
  BY <1>1, <1>2, <1>3 DEF Cat

-----------------------------------------------------------------------------
(* What a function makes of the elements of a text, one after the other:   *)
(* encoding, decoding and the environment's block are of this form.        *)

Each(f, s) == [i \in 1..Len(s) |-> f[s[i]]]

Spread(f, s) == FlattenSeq(Each(f, s))

(* Each maps a text over D to a text over the values of the function, *)
LEMMA EachType ==
  ASSUME NEW D, NEW E, NEW f \in [D -> E], NEW s \in Seq(D)
  PROVE  Each(f, s) \in Seq(E)
PROOF
<1>1. Len(s) \in Nat /\ \A i \in 1..Len(s) : s[i] \in D
  BY LenProperties, ElementOfSeq
<1>2. Each(f, s) \in [1..Len(s) -> E]
  BY <1>1 DEF Each
<1> QED
  BY <1>1, <1>2, SeqDef

(* as long as the first, element by element, *)
LEMMA EachElement ==
  ASSUME NEW D, NEW f, NEW s \in Seq(D)
  PROVE  /\ Len(s) \in Nat /\ Len(Each(f, s)) = Len(s)
         /\ \A i \in 1..Len(s) : Each(f, s)[i] = f[s[i]]
PROOF
<1>1. Len(s) \in Nat
  BY LenProperties
<1> QED
  BY <1>1 DEF Each

(* and an element more there is one more here. *)
LEMMA EachAppend ==
  ASSUME NEW D, NEW E, NEW f \in [D -> E], NEW s \in Seq(D), NEW e \in D
  PROVE  Each(f, Append(s, e)) = Append(Each(f, s), f[e])
PROOF
<1> DEFINE a == Append(s, e)
           b == Append(Each(f, s), f[e])
<1>1. /\ a \in Seq(D)
      /\ Len(s) \in Nat /\ Len(a) = Len(s) + 1
      /\ \A i \in 1..Len(s) : a[i] = s[i]
      /\ a[Len(s) + 1] = e
  BY AppendProperties, LenProperties
<1>2. /\ Each(f, s) \in Seq(E) /\ f[e] \in E
      /\ Len(Each(f, s)) = Len(s)
      /\ \A i \in 1..Len(s) : Each(f, s)[i] = f[s[i]]
  BY EachType, EachElement
<1>3. /\ b \in Seq(E)
      /\ Len(b) = Len(s) + 1
      /\ \A i \in 1..Len(s) : b[i] = Each(f, s)[i]
      /\ b[Len(s) + 1] = f[e]
  <2>1. ASSUME NEW u \in Seq(E), NEW x \in E
        PROVE  /\ Append(u, x) \in Seq(E)
               /\ Len(Append(u, x)) = Len(u) + 1
               /\ \A i \in 1..Len(u) : Append(u, x)[i] = u[i]
               /\ Append(u, x)[Len(u) + 1] = x
    BY AppendProperties
  <2> HIDE DEF a
  <2> QED
    BY <1>2, <2>1
<1> HIDE DEF a, b
<1>4. /\ Each(f, a) \in Seq(E)
      /\ Len(Each(f, a)) = Len(a)
      /\ \A i \in 1..Len(a) : Each(f, a)[i] = f[a[i]]
  BY <1>1, EachType, EachElement
<1>5. ASSUME NEW i \in 1..(Len(s) + 1)
      PROVE  Each(f, a)[i] = b[i]
  <2>1. CASE i = Len(s) + 1
    BY <1>1, <1>3, <1>4, <2>1
  <2>2. CASE i \in 1..Len(s)
    <3>1. b[i] = Each(f, s)[i] /\ Each(f, s)[i] = f[s[i]]
      BY <1>2, <1>3, <2>2
    <3>2. i \in 1..Len(a) /\ a[i] = s[i]
      BY <1>1, <2>2
    <3>3. Each(f, a)[i] = f[a[i]]
      BY <1>4, <3>2
    <3> QED
      BY <3>1, <3>2, <3>3
  <2> QED
    BY <1>1, <2>1, <2>2
<1>6. Each(f, a) = b
  BY <1>1, <1>3, <1>4, <1>5, SeqEqual
<1> QED
  BY <1>6 DEF a, b

(* Spread maps a text over D to a text over E, *)
LEMMA SpreadType ==
  ASSUME NEW D, NEW E, NEW f \in [D -> Seq(E)], NEW s \in Seq(D)
  PROVE  Spread(f, s) \in Seq(E)
  BY EachType, FlattenType DEF Spread

(* the empty text to the empty one, *)
LEMMA SpreadEmpty == ASSUME NEW f PROVE Spread(f, <<>>) = <<>>
PROOF
<1>1. Each(f, <<>>) = <<>>
  BY DEF Each
<1> QED
  BY <1>1, FlattenEmpty DEF Spread

(* and what the last element becomes stands last. *)
LEMMA SpreadAppend ==
  ASSUME NEW D, NEW E, NEW f \in [D -> Seq(E)], NEW s \in Seq(D), NEW e \in D
  PROVE  Spread(f, Append(s, e)) = Cat(Spread(f, s), f[e])
PROOF
<1>1. Each(f, s) \in Seq(Seq(E)) /\ f[e] \in Seq(E)
  BY EachType
<1>2. Each(f, Append(s, e)) = Append(Each(f, s), f[e])
  BY EachAppend
<1>3. FlattenSeq(Append(Each(f, s), f[e])) = Cat(FlattenSeq(Each(f, s)), f[e])
  BY <1>1, FlattenAppend
<1> QED
  BY <1>2, <1>3 DEF Spread

(* Two texts, one after the other. *)
LEMMA SpreadCat ==
  ASSUME NEW D, NEW E, NEW f \in [D -> Seq(E)], NEW s \in Seq(D), NEW t \in Seq(D)
  PROVE  Spread(f, Cat(s, t)) = Cat(Spread(f, s), Spread(f, t))
PROOF
<1> DEFINE T == {z \in Seq(D) : Spread(f, Cat(s, z)) = Cat(Spread(f, s), Spread(f, z))}
<1>1. Spread(f, s) \in Seq(E)
  BY SpreadType
<1>2. <<>> \in T
  <2>1. Cat(s, <<>>) = s /\ Cat(Spread(f, s), <<>>) = Spread(f, s)
    BY <1>1, CatType
  <2> QED
    BY <2>1, SpreadEmpty
<1>3. ASSUME NEW z \in Seq(D), NEW e \in D, z \in T
      PROVE  Append(z, e) \in T
  <2>1. Append(z, e) \in Seq(D) /\ Cat(s, z) \in Seq(D)
    BY AppendProperties, CatType
  <2>2. Spread(f, z) \in Seq(E) /\ f[e] \in Seq(E)
    BY SpreadType
  <2>3. Spread(f, Cat(s, Append(z, e))) = Cat(Spread(f, Cat(s, z)), f[e])
    <3>1. Cat(s, Append(z, e)) = Append(Cat(s, z), e)
      BY CatAppend
    <3>2. Spread(f, Append(Cat(s, z), e)) = Cat(Spread(f, Cat(s, z)), f[e])
      BY <2>1, SpreadAppend
    <3> QED
      BY <3>1, <3>2
  <2>4. Spread(f, Append(z, e)) = Cat(Spread(f, z), f[e])
    BY SpreadAppend
  <2>5. Cat(Cat(Spread(f, s), Spread(f, z)), f[e])
          = Cat(Spread(f, s), Cat(Spread(f, z), f[e]))
    BY <1>1, <2>2, CatAssoc
  <2> QED
    BY <1>3, <2>1, <2>3, <2>4, <2>5
<1>4. Seq(D) \subseteq T
  <2> HIDE DEF T
  <2> QED
    BY <1>2, <1>3, AllTexts
<1> QED
  BY <1>4

-----------------------------------------------------------------------------
(* Encode and Decode.                                                      *)

Byte == [char : Char, byte : 1..4]

(* The bytes of a character; the characters that a byte begins. *)
Spelling ==
  [c \in Char \cup {Nul} |->
     IF c = Nul THEN <<Nul>> ELSE [n \in 1..Bytes[c] |-> [char |-> c, byte |-> n]]]

Reading ==
  [b \in Byte \cup {Nul} |->
     IF b = Nul THEN <<Nul>> ELSE IF b.byte = 1 THEN <<b.char>> ELSE <<>>]

(* A character is spelled in bytes, of which Nul is none unless it is it. *)
LEMMA SpellingType ==
  /\ Spelling \in [Char \cup {Nul} -> Seq(Byte \cup {Nul})]
  /\ [c \in Char |-> Spelling[c]] \in [Char -> Seq(Byte)]
PROOF
<1>1. ASSUME NEW c \in Char
      PROVE  Spelling[c] \in Seq(Byte)
  <2>1. Bytes[c] \in 1..4 /\ c # Nul
    BY ConversionsAssumption
  <2>2. [n \in 1..Bytes[c] |-> [char |-> c, byte |-> n]] \in [1..Bytes[c] -> Byte]
    BY <2>1 DEF Byte
  <2> QED
    BY <2>1, <2>2, SeqDef DEF Spelling
<1>2. ASSUME NEW c \in Char
      PROVE  Spelling[c] \in Seq(Byte \cup {Nul})
  BY <1>1, SeqMonotonic
<1>3. Spelling[Nul] \in Seq(Byte \cup {Nul})
  BY DEF Spelling
<1>4. Spelling = [c \in Char \cup {Nul} |-> Spelling[c]]
  BY DEF Spelling
<1> HIDE DEF Spelling
<1> QED
  BY <1>1, <1>2, <1>3, <1>4

(* What a byte begins is a text of characters. *)
LEMMA ReadingType == Reading \in [Byte \cup {Nul} -> Seq(Char \cup {Nul})]
PROOF
<1>1. ASSUME NEW b \in Byte \cup {Nul}
      PROVE  Reading[b] \in Seq(Char \cup {Nul})
  <2>1. CASE b = Nul
    BY <2>1 DEF Reading
  <2>2. CASE b # Nul /\ b.byte = 1
    <3>1. b.char \in Char \cup {Nul} /\ Reading[b] = <<b.char>>
      BY <2>2 DEF Reading, Byte
    <3> QED
      BY <3>1
  <2>3. CASE b # Nul /\ b.byte # 1
    BY <2>3 DEF Reading
  <2> QED
    BY <2>1, <2>2, <2>3
<1>2. Reading = [b \in Byte \cup {Nul} |-> Reading[b]]
  BY DEF Reading
<1> HIDE DEF Reading
<1> QED
  BY <1>1, <1>2

(* Encode spells every character of a text. *)
LEMMA EncodeIsSpread ==
  ASSUME NEW s \in Seq(Char \cup {Nul})
  PROVE  Encode(s) = Spread(Spelling, s)
PROOF
<1>1. \A i \in 1..Len(s) : s[i] \in Char \cup {Nul}
  BY ElementOfSeq
<1>2. Each(Spelling, s) = [i \in 1..Len(s) |->
                             IF s[i] = Nul THEN <<Nul>>
                             ELSE [n \in 1..Bytes[s[i]] |-> [char |-> s[i], byte |-> n]]]
  BY <1>1 DEF Each, Spelling
<1> QED
  BY <1>2 DEF Encode, Spread

(* Decode reads every byte. *)
LEMMA DecodeIsSpread ==
  ASSUME NEW b \in Seq(Byte \cup {Nul})
  PROVE  Decode(b) = Spread(Reading, b)
PROOF
<1>1. \A i \in 1..Len(b) : b[i] \in Byte \cup {Nul}
  BY ElementOfSeq
<1>2. Each(Reading, b) = [i \in 1..Len(b) |->
                            IF b[i] = Nul THEN <<Nul>>
                            ELSE IF b[i].byte = 1 THEN <<b[i].char>> ELSE <<>>]
  BY <1>1 DEF Each, Reading
<1> QED
  BY <1>2 DEF Decode, Spread

(* Encode makes bytes of characters ... *)
LEMMA EncodeType ==
  ASSUME NEW s \in Seq(Char \cup {Nul})
  PROVE  Encode(s) \in Seq(Byte \cup {Nul})
  BY SpellingType, EncodeIsSpread, SpreadType

(* ... and Decode characters of bytes. *)
LEMMA DecodeType ==
  ASSUME NEW b \in Seq(Byte \cup {Nul})
  PROVE  Decode(b) \in Seq(Char \cup {Nul})
  BY ReadingType, DecodeIsSpread, SpreadType

(* The bytes of a text without Nul are without Nul. *)
LEMMA EncodePlain ==
  ASSUME NEW s \in Seq(Char)
  PROVE  Encode(s) \in Seq(Byte)
PROOF
<1> DEFINE f == [c \in Char |-> Spelling[c]]
<1>1. s \in Seq(Char \cup {Nul})
  BY SeqMonotonic
<1>2. Each(Spelling, s) = Each(f, s)
  <2>1. \A i \in 1..Len(s) : s[i] \in Char
    BY ElementOfSeq
  <2> QED
    BY <2>1 DEF Each
<1>3. Spread(f, s) \in Seq(Byte)
  <2>1. f \in [Char -> Seq(Byte)]
    BY SpellingType
  <2> HIDE DEF f
  <2> QED
    BY <2>1, SpreadType
<1> QED
  BY <1>1, <1>2, <1>3, EncodeIsSpread DEF Spread

(* The bytes of a character say which it is. *)
LEMMA ReadSpelling ==
  ASSUME NEW c \in Char \cup {Nul}
  PROVE  Decode(Spelling[c]) = <<c>>
PROOF
<1>1. Decode(Spelling[c]) = Spread(Reading, Spelling[c])
  BY SpellingType, DecodeIsSpread
<1>2. ASSUME NEW s \in Seq(Byte \cup {Nul}), NEW b \in Byte \cup {Nul}
      PROVE  Spread(Reading, Append(s, b)) = Cat(Spread(Reading, s), Reading[b])
  BY ReadingType, SpreadAppend
<1>3. Spread(Reading, <<>>) = <<>>
  BY SpreadEmpty
<1>4. Cat(<<>>, <<c>>) = <<c>> /\ Cat(<<c>>, <<>>) = <<c>>
  <2>1. <<c>> \in Seq({c})
    OBVIOUS
  <2> QED
    BY <2>1, CatType
<1>5. CASE c = Nul
  <2>1. Spelling[c] = Append(<<>>, Nul)
    BY <1>5 DEF Spelling
  <2>2. Spread(Reading, Append(<<>>, Nul)) = Cat(<<>>, Reading[Nul])
    BY <1>2, <1>3, EmptySeq
  <2>3. Reading[Nul] = <<c>>
    BY <1>5 DEF Reading
  <2> QED
    BY <1>1, <1>4, <2>1, <2>2, <2>3
<1>6. CASE c # Nul
  <2> DEFINE byte(n) == [char |-> c, byte |-> n]
             first(n) == [i \in 1..n |-> byte(i)]
  <2>1. c \in Char /\ Bytes[c] \in 1..4 /\ Spelling[c] = first(Bytes[c])
    BY <1>6, ConversionsAssumption DEF Spelling
  <2>2. first(0) = <<>>
    OBVIOUS
  <2>3. ASSUME NEW n \in 0..3
        PROVE  /\ byte(n + 1) \in Byte \cup {Nul}
               /\ Reading[byte(n + 1)] = IF n = 0 THEN <<c>> ELSE <<>>
    <3>1. byte(n + 1) \in Byte
      BY <2>1 DEF Byte
    <3>2. byte(n + 1) # Nul
      BY <3>1, ConversionsAssumption DEF Byte
    <3> QED
      BY <3>1, <3>2 DEF Reading
  <2>4. ASSUME NEW n \in 0..3
        PROVE  first(n) \in Seq(Byte \cup {Nul})
    <3>1. first(n) \in [1..n -> Byte \cup {Nul}]
      BY <2>1 DEF Byte
    <3> HIDE DEF first
    <3> QED
      BY <3>1, SeqDef
  <2>5. ASSUME NEW n \in 0..3
        PROVE  first(n + 1) = Append(first(n), byte(n + 1))
    OBVIOUS
  <2> HIDE DEF byte, first
  <2>6. ASSUME NEW n \in 0..3
        PROVE  Spread(Reading, first(n + 1))
                 = Cat(Spread(Reading, first(n)), Reading[byte(n + 1)])
    BY <1>2, <2>3, <2>4, <2>5
  <2>7. Spread(Reading, first(1)) = <<c>>
    <3>1. Spread(Reading, first(0 + 1)) = Cat(<<>>, <<c>>)
      BY <1>3, <2>2, <2>3, <2>6
    <3> QED
      BY <1>4, <3>1
  <2>8. ASSUME NEW n \in 1..3
        PROVE  Spread(Reading, first(n + 1)) = Cat(Spread(Reading, first(n)), <<>>)
    BY <2>3, <2>6
  <2>9. Spread(Reading, first(1 + 1)) = <<c>>
    BY <1>4, <2>7, <2>8
  <2>10. Spread(Reading, first(2 + 1)) = <<c>>
    BY <1>4, <2>8, <2>9
  <2>11. Spread(Reading, first(3 + 1)) = <<c>>
    BY <1>4, <2>8, <2>10
  <2> QED
    BY <1>1, <2>1, <2>7, <2>9, <2>10, <2>11
<1> QED
  BY <1>5, <1>6

(* The empty text has no bytes, *)
LEMMA EncodeEmpty == Encode(<<>>) = <<>>
  BY EmptySeq, EncodeIsSpread, SpreadEmpty

(* a character more adds its spelling, *)
LEMMA EncodeAppend ==
  ASSUME NEW s \in Seq(Char \cup {Nul}), NEW c \in Char \cup {Nul}
  PROVE  Encode(Append(s, c)) = Cat(Encode(s), Spelling[c])
PROOF
<1>1. Append(s, c) \in Seq(Char \cup {Nul})
  BY AppendProperties
<1>2. Spread(Spelling, Append(s, c)) = Cat(Spread(Spelling, s), Spelling[c])
  BY SpellingType, SpreadAppend
<1> QED
  BY <1>1, <1>2, EncodeIsSpread

(* and the bytes of two texts are one after the other. *)
LEMMA EncodeCat ==
  ASSUME NEW s \in Seq(Char \cup {Nul}), NEW t \in Seq(Char \cup {Nul})
  PROVE  Encode(Cat(s, t)) = Cat(Encode(s), Encode(t))
PROOF
<1>1. Cat(s, t) \in Seq(Char \cup {Nul})
  BY CatType
<1>2. Spread(Spelling, Cat(s, t)) = Cat(Spread(Spelling, s), Spread(Spelling, t))
  BY SpellingType, SpreadCat
<1> QED
  BY <1>1, <1>2, EncodeIsSpread

(* So are the characters of two texts of bytes. *)
LEMMA DecodeCat ==
  ASSUME NEW s \in Seq(Byte \cup {Nul}), NEW t \in Seq(Byte \cup {Nul})
  PROVE  Decode(Cat(s, t)) = Cat(Decode(s), Decode(t))
PROOF
<1>1. Cat(s, t) \in Seq(Byte \cup {Nul})
  BY CatType
<1>2. Spread(Reading, Cat(s, t)) = Cat(Spread(Reading, s), Spread(Reading, t))
  BY ReadingType, SpreadCat
<1> QED
  BY <1>1, <1>2, DecodeIsSpread

(* The bytes of a text decode to the text. *)
LEMMA DecodeEncode ==
  ASSUME NEW s \in Seq(Char \cup {Nul})
  PROVE  Decode(Encode(s)) = s
PROOF
<1> DEFINE T == {z \in Seq(Char \cup {Nul}) : Decode(Encode(z)) = z}
<1>1. <<>> \in T
  <2>1. Decode(<<>>) = <<>>
    BY EmptySeq, DecodeIsSpread, SpreadEmpty
  <2> QED
    BY <2>1, EncodeEmpty
<1>2. ASSUME NEW z \in Seq(Char \cup {Nul}), NEW c \in Char \cup {Nul}, z \in T
      PROVE  Append(z, c) \in T
  <2>1. Append(z, c) \in Seq(Char \cup {Nul})
    BY AppendProperties
  <2>2. Encode(z) \in Seq(Byte \cup {Nul}) /\ Spelling[c] \in Seq(Byte \cup {Nul})
    BY EncodeType, SpellingType
  <2>3. Decode(Cat(Encode(z), Spelling[c])) = Cat(Decode(Encode(z)), Decode(Spelling[c]))
    BY <2>2, DecodeCat
  <2>4. Decode(Encode(z)) = z /\ Decode(Spelling[c]) = <<c>>
    BY <1>2, ReadSpelling
  <2>5. Append(z, c) = Cat(z, <<c>>)
    BY AppendIsCat
  <2> QED
    BY <2>1, <2>3, <2>4, <2>5, EncodeAppend
<1>3. Seq(Char \cup {Nul}) \subseteq T
  <2> HIDE DEF T
  <2> QED
    BY <1>1, <1>2, AllTexts
<1> QED
  BY <1>3

(* A text has at least as many bytes as characters. *)
LEMMA EncodeLength ==
  ASSUME NEW s \in Seq(Char \cup {Nul})
  PROVE  Len(s) \in Nat /\ Len(Encode(s)) \in Nat /\ Len(s) <= Len(Encode(s))
PROOF
<1> DEFINE T == {z \in Seq(Char \cup {Nul}) : Len(z) <= Len(Encode(z))}
<1>1. <<>> \in T
  BY EncodeEmpty, EmptySeq
<1>2. ASSUME NEW z \in Seq(Char \cup {Nul}), NEW c \in Char \cup {Nul}, z \in T
      PROVE  Append(z, c) \in T
  <2>1. Append(z, c) \in Seq(Char \cup {Nul}) /\ Len(Append(z, c)) = Len(z) + 1
    BY AppendProperties
  <2>2. Encode(z) \in Seq(Byte \cup {Nul}) /\ Spelling[c] \in Seq(Byte \cup {Nul})
    BY EncodeType, SpellingType
  <2>3. /\ Len(Encode(z)) \in Nat /\ Len(Spelling[c]) \in Nat
        /\ Len(Cat(Encode(z), Spelling[c])) = Len(Encode(z)) + Len(Spelling[c])
    BY <2>2, CatElement
  <2>4. Len(Spelling[c]) >= 1
    <3>1. CASE c = Nul
      BY <3>1 DEF Spelling
    <3>2. CASE c # Nul
      <4>1. Bytes[c] \in Nat /\ Bytes[c] >= 1
        BY <3>2, ConversionsAssumption
      <4>2. Spelling[c] = [n \in 1..Bytes[c] |-> [char |-> c, byte |-> n]]
        BY <3>2 DEF Spelling
      <4> QED
        BY <4>1, <4>2
    <3> QED
      BY <3>1, <3>2
  <2>5. Len(z) \in Nat
    BY LenProperties
  <2> QED
    BY <1>2, <2>1, <2>3, <2>4, <2>5, EncodeAppend
<1>3. Seq(Char \cup {Nul}) \subseteq T
  <2> HIDE DEF T
  <2> QED
    BY <1>1, <1>2, AllTexts
<1> QED
  BY <1>3, EncodeType, LenProperties

-----------------------------------------------------------------------------
(* Where an element is found.                                              *)

(* The place of the first of them, *)
LEMMA FindFirst ==
  ASSUME NEW s, NEW c, NEW n \in Nat \ {0}, Len(s) \in Nat, n <= Len(s), s[n] = c,
         \A i \in 1..(n - 1) : s[i] # c
  PROVE  Find(s, c) = n
PROOF
<1> DEFINE I == {i \in 1..Len(s) : s[i] = c}
<1>1. n \in I /\ \A i \in I : n <= i
  OBVIOUS
<1>2. Find(s, c) = CHOOSE x \in I : \A y \in I : x =< y
  BY <1>1 DEF Find, SelectInSeq, Min
<1>3. \A x \in I : (\A y \in I : x =< y) => x = n
  BY <1>1
<1> HIDE DEF I
<1> QED
  BY <1>1, <1>2, <1>3, Zenon

(* and 0 if there is none. *)
LEMMA FindNone ==
  ASSUME NEW s, NEW c, \A i \in 1..Len(s) : s[i] # c
  PROVE  Find(s, c) = 0
  BY DEF Find, SelectInSeq

(* CString in the terms of Find. *)
LEMMA CStringIs == \A s : CString(s) = IF Find(s, Nul) = 0 THEN s
                                       ELSE SubSeq(s, 1, Find(s, Nul) - 1)
  BY DEF CString, Find

(* A text, found out by what ends it. *)
LEMMA FindEnd ==
  ASSUME NEW E, NEW c, c \notin E, NEW s \in Seq(E), NEW t \in Seq(E \cup {c})
  PROVE  /\ Find(Cat(s, Cat(<<c>>, t)), c) = Len(s) + 1
         /\ SubSeq(Cat(s, Cat(<<c>>, t)), 1, Len(s)) = s
PROOF
<1> DEFINE v == <<c>>
           u == Cat(s, Cat(v, t))
<1>1. s \in Seq(E \cup {c}) /\ v \in Seq(E \cup {c}) /\ Len(v) = 1 /\ v[1] = c
  BY SeqMonotonic
<1> HIDE DEF v
<1>2. Cat(v, t) \in Seq(E \cup {c})
  BY <1>1, CatType
<1> DEFINE F == E \cup {c}
<1> HIDE DEF F
<1>0. ASSUME NEW p \in Seq(F), NEW q \in Seq(F)
      PROVE  /\ Len(p) \in Nat /\ Len(q) \in Nat
             /\ Len(Cat(p, q)) = Len(p) + Len(q)
             /\ \A i \in 1..Len(p) : Cat(p, q)[i] = p[i]
             /\ \A i \in 1..Len(q) : Cat(p, q)[Len(p) + i] = q[i]
  BY CatElement
<1>3. /\ Len(s) \in Nat /\ Len(t) \in Nat
      /\ Len(u) = Len(s) + 1 + Len(t)
      /\ u[Len(s) + 1] = c
      /\ \A i \in 1..Len(s) : u[i] = s[i]
  <2> DEFINE w == Cat(v, t)
  <2>1. s \in Seq(F) /\ v \in Seq(F) /\ t \in Seq(F) /\ w \in Seq(F)
    BY <1>1, <1>2 DEF F
  <2>2. Len(t) \in Nat /\ Len(w) = 1 + Len(t) /\ w[1] = c
    <3>1. /\ Len(t) \in Nat
          /\ Len(w) = Len(v) + Len(t)
          /\ \A i \in 1..Len(v) : w[i] = v[i]
      BY <1>0, <2>1
    <3> HIDE DEF w
    <3> QED
      BY <1>1, <3>1
  <2> HIDE DEF w
  <2>3. /\ Len(s) \in Nat
        /\ Len(Cat(s, w)) = Len(s) + Len(w)
        /\ \A i \in 1..Len(s) : Cat(s, w)[i] = s[i]
        /\ \A i \in 1..Len(w) : Cat(s, w)[Len(s) + i] = w[i]
    BY <1>0, <2>1
  <2>4. Cat(s, w)[Len(s) + 1] = w[1]
    BY <2>1, <2>2, <2>3
  <2> QED
    BY <2>1, <2>2, <2>3, <2>4 DEF w
<1>4. \A i \in 1..Len(s) : s[i] \in E
  BY ElementOfSeq
<1>5. u \in Seq(E \cup {c})
  BY <1>1, <1>2, CatType
<1> HIDE DEF u
<1>6. Find(u, c) = Len(s) + 1
  BY <1>3, <1>4, FindFirst
<1>7. SubSeq(u, 1, Len(s)) = s
  <2>1. \A i \in 1..Len(s) : u[i] \in E
    BY <1>3, <1>4
  <2>2. /\ SubSeq(u, 1, Len(s)) \in Seq(E)
        /\ Len(SubSeq(u, 1, Len(s))) = Len(s)
        /\ \A i \in 1..Len(s) : SubSeq(u, 1, Len(s))[i] = s[i]
    BY <1>3, <2>1, SubSeqProperties
  <2> QED
    BY <2>2, SeqEqual
<1> QED
  BY <1>6, <1>7 DEF u, v

(* c_str() stops at the terminator, whatever lies behind it. *)
LEMMA CStringTerminated ==
  ASSUME NEW E, Nul \notin E, NEW s \in Seq(E), NEW t \in Seq(E \cup {Nul})
  PROVE  CString(s) = s /\ CString(Cat(s, Cat(<<Nul>>, t))) = s
PROOF
<1>1. Find(s, Nul) = 0
  BY ElementOfSeq, FindNone
<1>2. CString(s) = s
  BY <1>1, CStringIs
<1> DEFINE u == Cat(s, Cat(<<Nul>>, t))
<1>3. Find(u, Nul) = Len(s) + 1 /\ SubSeq(u, 1, Len(s)) = s
  BY FindEnd
<1> HIDE DEF u
<1>4. Len(s) \in Nat
  BY LenProperties
<1>5. Find(u, Nul) # 0 /\ Find(u, Nul) - 1 = Len(s)
  BY <1>3, <1>4
<1>6. CString(u) = SubSeq(u, 1, Len(s))
  BY <1>5, CStringIs
<1> QED
  BY <1>2, <1>3, <1>6 DEF u

(* c_str() leaves a text without Nul. *)
LEMMA CStringType ==
  ASSUME NEW E, NEW s \in Seq(E \cup {Nul})
  PROVE  CString(s) \in Seq(E)
PROOF
<1> DEFINE I == {i \in 1..Len(s) : s[i] = Nul}
<1>1. Len(s) \in Nat /\ \A i \in 1..Len(s) : s[i] \in E \cup {Nul}
  BY LenProperties, ElementOfSeq
<1>2. CASE I = {}
  <2>1. CString(s) = s
    BY <1>2, CStringIs, FindNone
  <2>2. s \in [1..Len(s) -> E]
    BY <1>1, <1>2, LenProperties
  <2> QED
    BY <1>1, <2>1, <2>2, SeqDef
<1>3. CASE I # {}
  <2>1. I \in SUBSET Nat
    BY <1>1
  <2>2. PICK n \in I : \A i \in I : n <= i
    <3> HIDE DEF I
    <3> QED
      BY <1>3, <2>1, LeastNat
  <2>3. Find(s, Nul) = n
    BY <1>1, <2>2, FindFirst
  <2>4. \A i \in 1..(n - 1) : s[i] \in E
    BY <1>1, <2>2
  <2>5. SubSeq(s, 1, n - 1) \in Seq(E)
    BY <1>1, <2>4, SubSeqProperties
  <2>6. CString(s) = SubSeq(s, 1, n - 1)
    BY <2>2, <2>3, CStringIs
  <2> QED
    BY <2>5, <2>6
<1> QED
  BY <1>2, <1>3

-----------------------------------------------------------------------------
(* Windows: wide text to ANSI and to the console.                          *)

(* A converter with room enough writes all of its text, and Nuls behind.   *)
LEMMA ConvertedFits ==
  ASSUME NEW E, NEW out \in Seq(E), NEW size \in Nat \ {0}, Len(out) <= size
  PROVE  /\ Converted(out, size).result = Len(out)
         /\ \E t \in Seq({Nul}) : Converted(out, size).buff = Cat(out, t)
PROOF
<1>1. Len(out) \in Nat
  BY LenProperties
<1> DEFINE t == [i \in 1..(size - Len(out)) |-> Nul]
<1>2. t \in Seq({Nul})
  <2>1. t \in [1..(size - Len(out)) -> {Nul}] /\ size - Len(out) \in Nat
    BY <1>1
  <2> HIDE DEF t
  <2> QED
    BY <2>1, SeqDef
<1>3. Converted(out, size) = [result |-> Len(out), buff |-> Cat(out, t)]
  BY <1>1 DEF Converted, Cat
<1> HIDE DEF t
<1> QED
  BY <1>2, <1>3

(* What a code page holds of a text is a text. *)
LEMMA HeldType ==
  ASSUME NEW codePage \in {ACP, OEMCP}, NEW s \in Seq(Char)
  PROVE  Held(codePage, s) \in Seq(Char)
PROOF
<1>1. Len(s) \in Nat /\ \A i \in 1..Len(s) : s[i] \in Char
  BY LenProperties, ElementOfSeq
<1>2. Held(codePage, s) \in [1..Len(s) -> Char]
  BY <1>1, ConversionsAssumption DEF Held
<1> QED
  BY <1>1, <1>2, SeqDef

(* The text that the system's converter is to write, its terminator with it. *)
LEMMA Narrowed ==
  ASSUME NEW codePage \in {ACP, OEMCP}, NEW in \in Seq(Char \cup {Nul}),
         NEW size \in Nat
  PROVE  LET s == Held(codePage, CString(in))
             res == fnCall(codePage, in, size)
         IN /\ s \in Seq(Char) /\ Len(Encode(s)) \in Nat
            /\ size = 0 => res.result = Len(Encode(s)) + 1
            /\ 0 < size /\ size <= Len(Encode(s)) => res.result = 0
            /\ Len(Encode(s)) < size =>
                 res.result # 0 /\ CString(res.buff) = Encode(s)
PROOF
<1> DEFINE s == Held(codePage, CString(in))
           e == Encode(s)
           nul == <<Nul>>
           out == Cat(e, nul)
<1>1. s \in Seq(Char)
  BY CStringType, HeldType
<1>2. e \in Seq(Byte)
  BY <1>1, EncodePlain
<1>3. nul \in Seq({Nul}) /\ nul \in Seq(Byte \cup {Nul}) /\ Len(nul) = 1
  OBVIOUS
<1>4. fnCall(codePage, in, size) = Converted(out, size)
  BY DEF fnCall, Cat
<1> HIDE DEF s, nul
<1>5. e \in Seq(Byte \cup {Nul})
  BY <1>2, SeqMonotonic
<1> HIDE DEF e
<1>6. /\ Len(e) \in Nat
      /\ out \in Seq(Byte \cup {Nul}) /\ Len(out) = Len(e) + 1
  <2>1. Len(e) \in Nat /\ Len(out) = Len(e) + Len(nul)
    BY <1>3, <1>5, CatElement
  <2> QED
    BY <1>3, <1>5, <2>1, CatType
<1> HIDE DEF out
<1>7. CASE size = 0
  BY <1>1, <1>4, <1>6, <1>7 DEF Converted, e, s
<1>8. CASE 0 < size /\ size <= Len(e)
  BY <1>1, <1>4, <1>6, <1>8 DEF Converted, e, s
<1>9. CASE Len(e) < size
  <2>1. PICK t \in Seq({Nul}) : /\ Converted(out, size).result = Len(e) + 1
                                /\ Converted(out, size).buff = Cat(out, t)
    <3>1. size # 0 /\ Len(out) <= size
      BY <1>6, <1>9
    <3>2. \E t \in Seq({Nul}) : /\ Converted(out, size).result = Len(out)
                                /\ Converted(out, size).buff = Cat(out, t)
      BY <1>6, <3>1, ConvertedFits
    <3> QED
      BY <1>6, <3>2, Zenon
  <2>2. t \in Seq(Byte \cup {Nul})
    <3>1. {Nul} \subseteq Byte \cup {Nul}
      OBVIOUS
    <3> QED
      BY <3>1, SeqMonotonic
  <2>3. Cat(out, t) = Cat(e, Cat(nul, t))
    BY <1>3, <1>5, <2>2, CatAssoc DEF out
  <2>4. CString(Cat(e, Cat(<<Nul>>, t))) = e
    <3>1. Nul \notin Byte
      BY ConversionsAssumption DEF Byte
    <3> QED
      BY <1>2, <2>2, <3>1, CStringTerminated
  <2>5. CString(Converted(out, size).buff) = e
    BY <2>1, <2>3, <2>4 DEF nul
  <2> QED
    BY <1>1, <1>4, <1>6, <1>9, <2>1, <2>5 DEF e, s
<1> QED
  BY <1>6, <1>7, <1>8, <1>9 DEF e, s

(* platform.cpp:37-84: the two calls of the converter never fail, and the  *)
(* bytes they leave are those of the text up to its first Nul.             *)
LEMMA Wide2AnsiiExact ==
  ASSUME NEW codePage \in {ACP, OEMCP}, NEW in \in Seq(Char \cup {Nul})
  PROVE  Wide2AnsiiHelper(codePage, in) = Encode(Held(codePage, CString(in)))
PROOF
<1> DEFINE e == Encode(Held(codePage, CString(in)))
<1>1. Len(in) \in Nat /\ (in # <<>> => Len(in) # 0)
  BY EmptySeq, LenProperties
<1>2. ASSUME NEW size \in Nat
      PROVE  LET res == fnCall(codePage, in, size)
             IN /\ Len(e) \in Nat
                /\ size = 0 => res.result = Len(e) + 1
                /\ 0 < size /\ size <= Len(e) => res.result = 0
                /\ Len(e) < size => res.result # 0 /\ CString(res.buff) = e
  BY Narrowed
<1>3. CASE in = <<>>
  <2>1. CString(<<>>) = <<>>
    BY FindNone, CStringIs
  <2>2. Held(codePage, <<>>) = <<>>
    BY DEF Held
  <2> QED
    BY <1>3, <2>1, <2>2, EncodeEmpty DEF Wide2AnsiiHelper
<1>4. CASE in # <<>>
  <2> HIDE DEF e
  <2> DEFINE call(size) == fnCall(codePage, in, size)
             first == call(Len(in) * 2)
             last  == IF first.result # 0 THEN first ELSE call(call(0).result)
  <2>0. Wide2AnsiiHelper(codePage, in) =
          IF last.result = 0 THEN Throws ELSE CString(last.buff)
    BY <1>4 DEF Wide2AnsiiHelper
  <2>1. Len(in) * 2 \in Nat /\ 0 < Len(in) * 2 /\ Len(e) \in Nat
    BY <1>1, <1>2, <1>4
  <2>2. call(0).result = Len(e) + 1
    BY <1>2
  <2>3. ASSUME Len(e) < Len(in) * 2
        PROVE  last.result # 0 /\ CString(last.buff) = e
    BY <1>2, <2>1, <2>3
  <2>4. ASSUME Len(in) * 2 <= Len(e)
        PROVE  last.result # 0 /\ CString(last.buff) = e
    <3>1. first.result = 0
      BY <1>2, <2>1, <2>4
    <3>2. last = call(Len(e) + 1)
      BY <2>2, <3>1
    <3>3. call(Len(e) + 1).result # 0 /\ CString(call(Len(e) + 1).buff) = e
      BY <1>2, <2>1
    <3> HIDE DEF call, last
    <3> QED
      BY <3>2, <3>3
  <2> HIDE DEF last
  <2>5. Wide2AnsiiHelper(codePage, in) = e
    BY <2>0, <2>1, <2>3, <2>4
  <2> QED
    BY <2>5 DEF e
<1> QED
  BY <1>3, <1>4

-----------------------------------------------------------------------------
(* There and back again.                                                   *)

(* platform.cpp:86-103: what ANSI text says becomes wide again. *)
LEMMA Ansii2WideBack ==
  ASSUME NEW s \in Seq(Char)
  PROVE  Ansii2WideHelper(Encode(s)) = s
PROOF
<1> DEFINE e == Encode(s)
           nul == <<Nul>>
           out == Cat(s, nul)
<1>1. s \in Seq(Char \cup {Nul}) /\ nul \in Seq({Nul})
      /\ nul \in Seq(Char \cup {Nul}) /\ Len(nul) = 1
  BY SeqMonotonic
<1>2. Len(s) \in Nat /\ Len(e) \in Nat /\ Len(s) <= Len(e)
  BY <1>1, EncodeLength
<1>3. e \in Seq(Byte) /\ Decode(e) = s
  BY <1>1, EncodePlain, DecodeEncode
<1>4. CString(e) = e
  <2>1. Nul \notin Byte /\ <<>> \in Seq(Byte \cup {Nul})
    BY ConversionsAssumption DEF Byte
  <2> QED
    BY <1>3, <2>1, CStringTerminated
<1> HIDE DEF nul
<1>5. out \in Seq(Char \cup {Nul}) /\ Len(out) = Len(s) + 1
  <2>1. Len(out) = Len(s) + Len(nul)
    BY <1>1, CatElement
  <2> QED
    BY <1>1, <2>1, CatType
<1>6. CASE e = <<>>
  <2>1. s = <<>>
    BY <1>2, <1>6, EmptySeq
  <2> QED
    BY <1>6, <2>1 DEF Ansii2WideHelper
<1>7. CASE e # <<>>
  <2> DEFINE res == Converted(out, Len(e) + 1)
  <2>1. Ansii2WideHelper(e) = IF res.result = 0 THEN Throws ELSE CString(res.buff)
    BY <1>3, <1>4, <1>7 DEF Ansii2WideHelper, Cat, nul
  <2> HIDE DEF out, e
  <2>2. PICK t \in Seq({Nul}) : res.result = Len(s) + 1 /\ res.buff = Cat(out, t)
    <3>1. Len(e) + 1 \in Nat \ {0} /\ Len(out) <= Len(e) + 1
      BY <1>2, <1>5
    <3>2. res.result = Len(out) /\ \E t \in Seq({Nul}) : res.buff = Cat(out, t)
      BY <1>5, <3>1, ConvertedFits
    <3> HIDE DEF res
    <3> QED
      BY <1>5, <3>2
  <2>3. t \in Seq(Char \cup {Nul})
    BY SeqMonotonic
  <2>4. Cat(out, t) = Cat(s, Cat(nul, t))
    BY <1>1, <2>3, CatAssoc DEF out
  <2>5. CString(Cat(s, Cat(<<Nul>>, t))) = s
    BY <2>3, ConversionsAssumption, CStringTerminated
  <2> HIDE DEF res
  <2>6. Ansii2WideHelper(e) = s
    BY <1>2, <2>1, <2>2, <2>4, <2>5 DEF nul
  <2> QED
    BY <2>6 DEF e
<1> QED
  BY <1>6, <1>7

(* Two calls of a converter, the first for the size, give all of its text. *)
LEMMA ConvertedTwice ==
  ASSUME NEW E, NEW out \in Seq(E)
  PROVE  /\ Converted(out, 0).result = Len(out)
         /\ out # <<>> => Len(out) # 0 /\ Converted(out, Len(out)).buff = out
PROOF
<1>1. Len(out) \in Nat /\ (out # <<>> => Len(out) # 0)
  BY EmptySeq, LenProperties
<1>2. [i \in 1..(Len(out) - Len(out)) |-> Nul] = <<>>
  BY <1>1
<1>3. out \o <<>> = out
  BY ConcatEmptySeq
<1>4. ASSUME out # <<>>
      PROVE  Converted(out, Len(out)).buff = out
  <2>1. Converted(out, Len(out)).buff
          = out \o [i \in 1..(Len(out) - Len(out)) |-> Nul]
    BY <1>1, <1>4 DEF Converted
  <2> QED
    BY <1>2, <1>3, <2>1
<1> QED
  BY <1>1, <1>4 DEF Converted

(* utf8.cpp: UTF-8 keeps the Nuls of a text. *)
LEMMA ToUtf8Exact ==
  ASSUME NEW s \in Seq(Char \cup {Nul})
  PROVE  toUtf8(s) = Encode(s)
PROOF
<1>1. Encode(s) \in Seq(Byte \cup {Nul})
  BY EncodeType
<1> DEFINE e == Encode(s)
<1>2. toUtf8(s) = IF Converted(e, 0).result = 0 THEN <<>>
                  ELSE Converted(e, Converted(e, 0).result).buff
  BY DEF toUtf8
<1>3. e = <<>> => Len(e) = 0
  BY EmptySeq
<1> HIDE DEF e
<1>4. toUtf8(s) = e
  BY <1>1, <1>2, <1>3, ConvertedTwice DEF e
<1> QED
  BY <1>4 DEF e

(* utf8.cpp: and so does the way back. *)
LEMMA FromUtf8Exact ==
  ASSUME NEW b \in Seq(Byte \cup {Nul})
  PROVE  fromUtf8(b) = Decode(b)
PROOF
<1>1. Decode(b) \in Seq(Char \cup {Nul})
  BY DecodeType
<1> DEFINE d == Decode(b)
<1>2. fromUtf8(b) = IF Converted(d, 0).result = 0 THEN <<>>
                    ELSE Converted(d, Converted(d, 0).result).buff
  BY DEF fromUtf8
<1>3. d = <<>> => Len(d) = 0
  BY EmptySeq
<1> HIDE DEF d
<1>4. fromUtf8(b) = d
  BY <1>1, <1>2, <1>3, ConvertedTwice DEF d
<1> QED
  BY <1>4 DEF d

(* mac/utf8.cpp:21-63: the buffer of a CFString has room for one Nul, and  *)
(* the string made of it is all but that.                                  *)
LEMMA CFStringExact ==
  ASSUME NEW E, NEW out \in Seq(E), NEW size \in {1, 4}
  PROVE  CFStringToSTLString(out, size) = out
PROOF
<1>1. Len(out) \in Nat /\ (out # <<>> => Len(out) # 0)
  BY EmptySeq, LenProperties
<1>2. (Len(out) * size) \div size + 1 = Len(out) + 1
  <2>1. CASE size = 1
    BY <1>1, <2>1
  <2>2. CASE size = 4
    BY <1>1, <2>2
  <2> QED
    BY <2>1, <2>2
<1>3. CASE out = <<>>
  BY <1>3 DEF CFStringToSTLString
<1>4. CASE out # <<>>
  <2> DEFINE pad == [i \in 1..1 |-> Nul]
             F == E \cup {Nul}
  <2>1. out \in Seq(F) /\ pad \in Seq(F)
    BY SeqMonotonic
  <2>2. CFStringToSTLString(out, size) = SubSeq(out \o pad, 1, Len(out))
    <3>1. (Len(out) + 1) - Len(out) = 1 /\ (Len(out) + 1) - 1 = Len(out)
      BY <1>1
    <3> QED
      BY <1>2, <1>4, <3>1 DEF CFStringToSTLString
  <2> HIDE DEF pad, F
  <2>3. SubSeq(out \o pad, 1, Len(out)) = SubSeq(out, 1, Len(out))
    BY <1>1, <1>4, <2>1, SubSeqOfConcat1
  <2> QED
    BY <2>2, <2>3, SubSeqFull
<1> QED
  BY <1>3, <1>4

(* mac/utf8.cpp: macOS writes the same bytes, and reads whole characters. *)
LEMMA Utf8MacExact ==
  /\ \A s \in Seq(Char \cup {Nul}) : toUtf8Mac(s) = Encode(s)
  /\ \A b \in Seq(Byte \cup {Nul}) :
       fromUtf8Mac(b) = IF WellFormed(b) THEN Decode(b) ELSE <<>>
PROOF
<1>1. ASSUME NEW s \in Seq(Char \cup {Nul})
      PROVE  toUtf8Mac(s) = Encode(s)
  BY EncodeType, CFStringExact DEF toUtf8Mac
<1>2. ASSUME NEW b \in Seq(Byte \cup {Nul})
      PROVE  fromUtf8Mac(b) = IF WellFormed(b) THEN Decode(b) ELSE <<>>
  BY DecodeType, CFStringExact DEF fromUtf8Mac, WideSize
<1> QED
  BY <1>1, <1>2

(* The bytes of a text are whole characters. *)
LEMMA EncodedIsWellFormed ==
  ASSUME NEW s \in Seq(Char \cup {Nul})
  PROVE  WellFormed(Encode(s))
  BY DecodeEncode DEF WellFormed

(* All of this for any text. *)
LEMMA InverseOfText ==
  ASSUME text \in Seq(Char \cup {Nul})
  PROVE  ConversionsInverse
PROOF
<1> DEFINE held == Held(ACP, CString(text))
<1>1. held \in Seq(Char) /\ held \in Seq(Char \cup {Nul})
  BY CStringType, HeldType, SeqMonotonic
<1>2. Wide2AnsiiHelper(ACP, text) = Encode(held)
  BY Wide2AnsiiExact
<1> HIDE DEF held
<1>3. Ansii2WideHelper(Encode(held)) = held
  BY <1>1, Ansii2WideBack
<1>4. Encode(text) \in Seq(Byte \cup {Nul}) /\ Decode(Encode(text)) = text
  BY EncodeType, DecodeEncode
<1>5. /\ toUtf8(text) = Encode(text) /\ fromUtf8(Encode(text)) = text
      /\ toUtf8Mac(text) = Encode(text) /\ fromUtf8Mac(Encode(text)) = text
  BY <1>4, ToUtf8Exact, FromUtf8Exact, Utf8MacExact, EncodedIsWellFormed
<1>6. ASSUME NEW target \in {"win", "mac"}
      PROVE  LET kept == IF target = "win" THEN Held(ACP, CString(text)) ELSE text
                 ansi == Wide2Ansii(target, text)
             IN /\ Ansii2Wide(target, ansi) = kept
                /\ Ansii2Console(target, ansi) = Wide2Console(target, kept)
                /\ Utf82Wide(target, Wide2Utf8(target, text)) = text
  <2>1. CASE target = "win"
    BY <1>2, <1>3, <1>5, <2>1
       DEF held, Wide2Ansii, Ansii2Wide, Ansii2Console, Wide2Console, Utf82Wide, Wide2Utf8
  <2>2. CASE target = "mac"
    BY <1>5, <2>2
       DEF Wide2Ansii, Ansii2Wide, Ansii2Console, Wide2Console, Utf82Wide, Wide2Utf8
  <2> QED
    BY <2>1, <2>2
<1>7. Wide2Utf8("mac", text) = Wide2Utf8("win", text)
  BY <1>5 DEF Wide2Utf8
<1>8. ASSUME NEW n \in 0..Len(Encode(text))
      PROVE  LET part == SubSeq(Encode(text), 1, n)
             IN Utf82Wide("mac", part) =
                  IF WellFormed(part) THEN Utf82Wide("win", part) ELSE <<>>
  <2> DEFINE part == SubSeq(Encode(text), 1, n)
  <2>1. part \in Seq(Byte \cup {Nul})
    <3>1. Len(Encode(text)) \in Nat
          /\ \A i \in 1..n : Encode(text)[i] \in Byte \cup {Nul}
      BY <1>4, LenProperties, ElementOfSeq
    <3> QED
      BY <3>1, SubSeqProperties
  <2> HIDE DEF part
  <2>2. Utf82Wide("mac", part) =
          IF WellFormed(part) THEN Utf82Wide("win", part) ELSE <<>>
    BY <2>1, FromUtf8Exact, Utf8MacExact DEF Utf82Wide
  <2> QED
    BY <2>2 DEF part
<1> QED
  BY <1>6, <1>7, <1>8 DEF ConversionsInverse

-----------------------------------------------------------------------------
(* Numbers.                                                                *)

(* Reduction modulo m of a number less than m, not negative ... *)
LEMMA ReducedNat == \A m \in Nat \ {0} : \A n \in 0..(m - 1) : n % m = n
  OBVIOUS

(* ... or negative. *)
LEMMA ReducedNegative ==
  \A m \in Nat \ {0} : \A n \in (1 - m)..(-1) : n % m = n + m
  OBVIOUS

(* num_traits.h:23-45: every number that a type has comes back. *)
LEMMA NumbersRoundTrip ==
  ASSUME number \in Int
  PROVE  NumberRoundTrip
PROOF
<1> DEFINE n == number
<1>1. ASSUME NEW T \in {"int", "long"}
      PROVE  /\ n \in Values(T) => get(T, n, Default) = n
             /\ n \notin Values(T) => get(T, n, Default) = Default
  <2>1. from(T, n) = IF n \in Values(T) THEN n ELSE Throws
    BY DEF from, StrToSigned
  <2>2. n # Throws
    BY ConversionsAssumption
  <2> QED
    BY <2>1, <2>2 DEF get
<1>2. ASSUME n \in Values("unsigned long")
      PROVE  get("unsigned long", n, Default) = n
  <2> DEFINE m == 2^LongBits
  <2>1. m \in Nat \ {0}
    BY WidthAssumption
  <2>2. n \in 0..(m - 1)
    BY <1>2 DEF Values, Width
  <2>3. from("unsigned long", n) = IF n < m /\ -n < m THEN n % m ELSE Throws
    BY DEF from, StrToUnsigned
  <2> HIDE DEF m
  <2>4. n % m = n
    BY <2>1, <2>2, ReducedNat, Zenon
  <2>5. from("unsigned long", n) = n
    <3>1. n < m /\ -n < m
      BY <2>1, <2>2
    <3> QED
      BY <2>3, <2>4, <3>1, Zenon
  <2> QED
    BY <2>5, ConversionsAssumption DEF get
<1>3. ASSUME n \in Values("long long")
      PROVE  get("long long", n, Default) = n
  <2> DEFINE h == 2^(LongLongBits - 1)
             m == 2^LongLongBits
             u == StrToUnsigned(LongLongBits, n)
  <2>1. h \in Nat \ {0} /\ m = 2 * h
    BY WidthAssumption
  <2>2. n \in -h..(h - 1)
    BY <1>3 DEF Values, Width
  <2>3. u = IF n < m /\ -n < m THEN n % m ELSE Throws
    BY DEF StrToUnsigned
  <2>4. from("long long", n) = IF u \in Int /\ u >= h THEN u - m ELSE u
    BY DEF from, ToLongLong
  <2> HIDE DEF h, m, u
  <2>5. m \in Nat \ {0} /\ u = n % m
    BY <2>1, <2>2, <2>3
  <2>6. ASSUME n \in 0..(m - 1)
        PROVE  from("long long", n) = n
    <3>1. u = n
      BY <2>5, <2>6, ReducedNat, Zenon
    <3>2. ~(n >= h)
      BY <2>1, <2>2
    <3> QED
      BY <2>4, <3>1, <3>2, Zenon
  <2>7. ASSUME n \in (1 - m)..(-1)
        PROVE  from("long long", n) = n
    <3>1. u = n + m
      BY <2>5, <2>7, ReducedNegative, Zenon
    <3>2. u \in Int /\ u >= h
      BY <2>1, <2>2, <3>1
    <3>3. u - m = n
      BY <2>1, <2>2, <3>1
    <3> QED
      BY <2>4, <3>2, <3>3, Zenon
  <2>8. n \in 0..(m - 1) \/ n \in (1 - m)..(-1)
    BY <2>1, <2>2
  <2>9. from("long long", n) = n
    BY <2>6, <2>7, <2>8
  <2> QED
    BY <2>9, ConversionsAssumption DEF get
<1> QED
  BY <1>1, <1>2, <1>3 DEF NumberRoundTrip, Types

-----------------------------------------------------------------------------
(* The inputs of the conversions: texts and numbers.                       *)

InputsType == text \in Seq(Char \cup {Nul}) /\ number \in Int

(* The inputs are texts and numbers. *)
LEMMA InputsInvariance == InputsSpec => []InputsType
PROOF
<1>1. InputsInit => InputsType
  <2>1. Limit \in Int
    BY ConversionsAssumption, WidthAssumption DEF Limit
  <2> QED
    BY <2>1 DEF InputsInit, InputsType
<1>2. ASSUME InputsType, [NextInput]_inputs
      PROVE  InputsType'
  <2>1. ASSUME NEW c \in Char \cup {Nul}, text' = Append(text, c)
        PROVE  text' \in Seq(Char \cup {Nul})
    BY <1>2, <2>1, AppendProperties DEF InputsType
  <2> QED
    BY <1>2, <2>1 DEF InputsType, NextInput, inputs
<1> QED
  BY <1>1, <1>2, PTL DEF InputsSpec

(* platform.cpp:37-84: whatever the text and the number of bytes its       *)
(* characters take, ANSI and console get all of it up to its first Nul,    *)
(* and the second call of the converter never fails.                       *)
THEOREM NarrowingIsExact == InputsSpec => []NarrowingExact
PROOF
<1>1. InputsType => NarrowingExact
  BY Wide2AnsiiExact DEF InputsType, NarrowingExact, Wide2Ansii, Wide2Console
<1> QED
  BY <1>1, InputsInvariance, PTL

(* platform.cpp:86-153, utf8.cpp, mac/utf8.cpp: every text comes back from *)
(* ANSI and from UTF-8 as it should, the two builds agree, and macOS makes *)
(* nothing of a text cut inside a character.                               *)
THEOREM ConversionsAreInverse == InputsSpec => []ConversionsInverse
PROOF
<1>1. InputsType => ConversionsInverse
  BY InverseOfText DEF InputsType
<1> QED
  BY <1>1, InputsInvariance, PTL

(* num_traits.h:23-45, sys_env.h:71-89: every value of every type comes    *)
(* back from the variable it was put into, at any widths.                  *)
THEOREM NumbersComeBack == InputsSpec => []NumberRoundTrip
PROOF
<1>1. InputsType => NumberRoundTrip
  BY NumbersRoundTrip DEF InputsType
<1> QED
  BY <1>1, InputsInvariance, PTL

-----------------------------------------------------------------------------
(* Texts taken apart.                                                      *)

(* What is left of a text behind its beginning. *)
LEMMA RestIs ==
  ASSUME NEW E, NEW s \in Seq(E), NEW t \in Seq(E)
  PROVE  SubSeq(Cat(s, t), Len(s) + 1, Len(Cat(s, t))) = t
PROOF
<1>1. Len(s) \in Nat /\ Len(t) \in Nat /\ Len(Cat(s, t)) = Len(s) + Len(t)
  BY CatElement
<1>2. CASE t = <<>>
  <2>1. Len(t) = 0
    BY <1>2, EmptySeq
  <2> QED
    BY <1>1, <1>2, <2>1, SubSeqEmpty
<1>3. CASE t # <<>>
  <2>1. Len(t) # 0
    BY <1>3, EmptySeq
  <2> DEFINE m == Len(s) + 1
             n == Len(s) + Len(t)
  <2>2. /\ m \in (Len(s) + 1)..(Len(s) + Len(t))
        /\ n \in (Len(s) + 1)..(Len(s) + Len(t))
        /\ m - Len(s) = 1 /\ n - Len(s) = Len(t)
    BY <1>1, <2>1
  <2> HIDE DEF m, n
  <2>3. SubSeq(s \o t, m, n) = SubSeq(t, m - Len(s), n - Len(s))
    BY <2>2, SubSeqOfConcat2
  <2>4. SubSeq(t, 1, Len(t)) = t
    BY SubSeqFull
  <2> QED
    BY <1>1, <2>2, <2>3, <2>4 DEF Cat, m, n
<1> QED
  BY <1>2, <1>3

(* A text that is not empty has a first element and others behind it. *)
LEMMA FirstAndRest ==
  ASSUME NEW E, NEW s \in Seq(E), s # <<>>
  PROVE  \E e \in E, t \in Seq(E) : s[1] = e /\ s = Cat(<<e>>, t)
PROOF
<1>1. Len(s) \in Nat \ {0} /\ 1 \in 1..Len(s)
  BY EmptySeq
<1>2. s[1] \in E /\ \A i \in 2..Len(s) : s[i] \in E
  BY <1>1, ElementOfSeq
<1>3. SubSeq(s, 2, Len(s)) \in Seq(E)
  BY <1>1, <1>2, SubSeqProperties
<1>4. SubSeq(s, 1, Len(s)) = <<s[1]>> \o SubSeq(s, 1 + 1, Len(s))
  BY <1>1, SubSeqRecursiveFirst
<1>5. s = Cat(<<s[1]>>, SubSeq(s, 2, Len(s)))
  BY <1>4, SubSeqFull DEF Cat
<1> QED
  BY <1>2, <1>3, <1>5

(* An element is not in a text, or the text has a part without it before   *)
(* the first of them.                                                      *)
Parted(E, c, s) ==
  \/ s \in Seq(E \ {c})
  \/ \E p \in Seq(E \ {c}), q \in Seq(E) : s = Cat(p, Cat(<<c>>, q))

(* One or the other is true of every text. *)
LEMMA UpToFirst ==
  ASSUME NEW E, NEW c \in E, NEW s \in Seq(E)
  PROVE  Parted(E, c, s)
PROOF
<1> DEFINE v == <<c>>
           D == E \ {c}
           T == {z \in Seq(E) : \/ z \in Seq(D)
                                \/ \E p \in Seq(D), q \in Seq(E) : z = Cat(p, Cat(v, q))}
<1>1. v \in Seq(E) /\ D \subseteq E
  OBVIOUS
<1>2. ASSUME NEW z \in Seq(E) PROVE Append(z, c) = Cat(z, v)
  BY AppendIsCat
<1>3. <<>> \in T
  OBVIOUS
<1>4. ASSUME NEW z \in Seq(E), NEW e \in E, z \in T
      PROVE  Append(z, e) \in T
  <2>1. Append(z, e) \in Seq(E)
    BY AppendProperties
  <2>2. CASE z \in Seq(D) /\ e # c
    <3>1. Append(z, e) \in Seq(D)
      BY <2>2, AppendProperties
    <3> QED
      BY <2>1, <3>1
  <2>3. CASE z \in Seq(D) /\ e = c
    <3> HIDE DEF v
    <3>1. Cat(v, <<>>) = v /\ <<>> \in Seq(E)
      BY <1>1, CatType, EmptySeq
    <3>2. Append(z, e) = Cat(z, Cat(v, <<>>))
      BY <1>2, <2>3, <3>1
    <3> QED
      BY <2>1, <2>3, <3>1, <3>2
  <2>4. CASE \E p \in Seq(D), q \in Seq(E) : z = Cat(p, Cat(v, q))
    <3> HIDE DEF v, D
    <3>1. PICK p \in Seq(D), q \in Seq(E) : z = Cat(p, Cat(v, q))
      BY <2>4
    <3>2. p \in Seq(E) /\ Cat(v, q) \in Seq(E) /\ Append(q, e) \in Seq(E)
      BY <1>1, SeqMonotonic, CatType, AppendProperties
    <3>3. Cat(p, Append(Cat(v, q), e)) = Append(Cat(p, Cat(v, q)), e)
      BY <3>2, CatAppend
    <3>4. Cat(v, Append(q, e)) = Append(Cat(v, q), e)
      BY <1>1, CatAppend
    <3>5. Append(z, e) = Cat(p, Cat(v, Append(q, e)))
      BY <3>1, <3>3, <3>4
    <3> QED
      BY <2>1, <3>2, <3>5
  <2> QED
    BY <1>4, <2>2, <2>3, <2>4
<1>5. Seq(E) \subseteq T
  <2> HIDE DEF T
  <2> QED
    BY <1>3, <1>4, AllTexts
<1> QED
  BY <1>5 DEF Parted

(* The parts of a text before an element and behind it. *)
LEMMA PartsOf ==
  ASSUME NEW E, NEW c \in E, NEW p \in Seq(E \ {c}), NEW q \in Seq(E)
  PROVE  LET s == Cat(p, Cat(<<c>>, q))
         IN /\ s \in Seq(E)
            /\ Find(s, c) = Len(p) + 1
            /\ EnvPair(s, Len(p) + 1) = [first |-> p, second |-> q]
PROOF
<1> DEFINE v == <<c>>
           s == Cat(p, Cat(v, q))
           D == E \ {c}
<1>1. v \in Seq(E) /\ Len(v) = 1 /\ D \subseteq E /\ D \cup {c} = E /\ c \notin D
  OBVIOUS
<1>2. Find(s, c) = Len(p) + 1 /\ SubSeq(s, 1, Len(p)) = p
  BY <1>1, FindEnd
<1> HIDE DEF v, D
<1>3. p \in Seq(E)
  BY <1>1, SeqMonotonic DEF D
<1>4. Cat(v, q) \in Seq(E) /\ Cat(p, v) \in Seq(E) /\ s \in Seq(E)
  BY <1>1, <1>3, CatType
<1>5. Len(p) \in Nat /\ Len(Cat(p, v)) = Len(p) + 1
  <2>1. Len(p) \in Nat /\ Len(Cat(p, v)) = Len(p) + Len(v)
    BY <1>1, <1>3, CatElement
  <2> QED
    BY <1>1, <2>1
<1>6. s = Cat(Cat(p, v), q)
  BY <1>1, <1>3, CatAssoc
<1>7. SubSeq(s, (Len(p) + 1) + 1, Len(s)) = q
  <2>1. SubSeq(Cat(Cat(p, v), q), Len(Cat(p, v)) + 1, Len(Cat(Cat(p, v), q))) = q
    BY <1>4, RestIs
  <2> QED
    BY <1>5, <1>6, <2>1
<1>8. EnvPair(s, Len(p) + 1) = [first |-> p, second |-> q]
  <2>1. (Len(p) + 1) - 1 = Len(p)
    BY <1>5
  <2> HIDE DEF s
  <2> QED
    BY <1>2, <1>7, <2>1 DEF EnvPair
<1> QED
  BY <1>2, <1>4, <1>8 DEF v

-----------------------------------------------------------------------------
(* What is listed of one text of the environment.                          *)

(* A pair of name and value, and the text that says it. *)
Pair == [first : Text, second : Text]
Said(p, q) == Cat(p, Cat(<<Eq>>, q))

(* The texts are those of at most MaxItemLength characters. *)
LEMMA TextIs == Text = {s \in Seq(EnvChar) : Len(s) <= MaxItemLength}
PROOF
<1>1. ASSUME NEW s \in Text
      PROVE  s \in Seq(EnvChar) /\ Len(s) <= MaxItemLength
  <2>1. PICK n \in 0..MaxItemLength : s \in [1..n -> EnvChar]
    BY DEF Text
  <2>2. n \in Nat /\ n <= MaxItemLength
    BY EnvDumpAssumption
  <2>3. s \in Seq(EnvChar)
    BY <2>1, <2>2, SeqDef
  <2>4. Len(s) = n
    BY <2>1, <2>2
  <2> QED
    BY <2>2, <2>3, <2>4
<1>2. ASSUME NEW s \in Seq(EnvChar), Len(s) <= MaxItemLength
      PROVE  s \in Text
  <2>1. Len(s) \in 0..MaxItemLength /\ s \in [1..Len(s) -> EnvChar]
    BY <1>2, LenProperties, EnvDumpAssumption
  <2> QED
    BY <2>1 DEF Text
<1> QED
  BY <1>1, <1>2

(* The parts of a text that says something are texts. *)
LEMMA SaidType ==
  ASSUME NEW p \in Seq(EnvChar \ {Eq}), NEW q \in Seq(EnvChar), Said(p, q) \in Text
  PROVE  [first |-> p, second |-> q] \in Pair
PROOF
<1> DEFINE v == <<Eq>>
<1>1. p \in Seq(EnvChar) /\ v \in Seq(EnvChar)
  <2>1. EnvChar \ {Eq} \subseteq EnvChar
    OBVIOUS
  <2> QED
    BY <2>1, SeqMonotonic, EnvDumpAssumption
<1>2. Len(v) = 1 /\ Said(p, q) = Cat(p, Cat(v, q))
  BY DEF Said
<1> HIDE DEF v
<1>3. Cat(v, q) \in Seq(EnvChar) /\ Len(q) \in Nat /\ Len(Cat(v, q)) = 1 + Len(q)
  <2>1. Len(q) \in Nat /\ Len(Cat(v, q)) = Len(v) + Len(q)
    BY <1>1, CatElement
  <2> QED
    BY <1>1, <1>2, <2>1, CatType
<1>4. Len(p) \in Nat /\ Len(Said(p, q)) = Len(p) + Len(Cat(v, q))
  BY <1>1, <1>2, <1>3, CatElement
<1>5. MaxItemLength \in Nat /\ Len(Said(p, q)) <= MaxItemLength
  BY TextIs, EnvDumpAssumption
<1>6. p \in Text /\ q \in Text
  BY <1>1, <1>3, <1>4, <1>5, TextIs
<1> QED
  BY <1>6 DEF Pair

(* A text says one pair or none. *)
LEMMA SaysOrNot ==
  ASSUME NEW item \in Text
  PROVE  \/ item \in Seq(EnvChar \ {Eq})
         \/ \E p \in Seq(EnvChar \ {Eq}), q \in Seq(EnvChar) : item = Said(p, q)
PROOF
<1>1. item \in Seq(EnvChar) /\ Eq \in EnvChar
  BY TextIs, EnvDumpAssumption
<1>2. Parted(EnvChar, Eq, item)
  BY <1>1, UpToFirst
<1> QED
  BY <1>2, Zenon DEF Parted, Said

(* Where '=' is in a text, and that a name cannot hold it. *)
LEMMA EqIn ==
  /\ \A s \in Seq(EnvChar \ {Eq}) : Find(s, Eq) = 0 /\ ~Contains(s, Eq)
  /\ \A p \in Seq(EnvChar \ {Eq}), q \in Seq(EnvChar) :
       /\ Find(Said(p, q), Eq) = Len(p) + 1
       /\ EnvPair(Said(p, q), Len(p) + 1) = [first |-> p, second |-> q]
PROOF
<1>1. ASSUME NEW s \in Seq(EnvChar \ {Eq})
      PROVE  Find(s, Eq) = 0 /\ ~Contains(s, Eq)
  <2>1. \A i \in 1..Len(s) : s[i] # Eq
    BY ElementOfSeq
  <2> QED
    BY <2>1, FindNone DEF Contains
<1>2. ASSUME NEW p \in Seq(EnvChar \ {Eq}), NEW q \in Seq(EnvChar)
      PROVE  /\ Find(Said(p, q), Eq) = Len(p) + 1
             /\ EnvPair(Said(p, q), Len(p) + 1) = [first |-> p, second |-> q]
  BY EnvDumpAssumption, PartsOf DEF Said
<1> QED
  BY <1>1, <1>2

(* sys_env_win.cpp:78-92: a text without '=' and one without a name are    *)
(* passed over; of another the pair it says is listed.                     *)
LEMMA SplitIs ==
  /\ \A s \in Seq(EnvChar \ {Eq}) : Split(s, 2) = <<>>
  /\ \A p \in Seq(EnvChar \ {Eq}), q \in Seq(EnvChar) :
       Split(Said(p, q), 2) = IF p = <<>> THEN <<>>
                              ELSE <<[first |-> p, second |-> q]>>
PROOF
<1>1. ASSUME NEW s \in Seq(EnvChar \ {Eq})
      PROVE  Split(s, 2) = <<>>
  BY EqIn DEF Split
<1>2. ASSUME NEW p \in Seq(EnvChar \ {Eq}), NEW q \in Seq(EnvChar)
      PROVE  Split(Said(p, q), 2) = IF p = <<>> THEN <<>>
                                    ELSE <<[first |-> p, second |-> q]>>
  <2> DEFINE item == Said(p, q)
             pair == [first |-> p, second |-> q]
  <2>1. Find(item, Eq) = Len(p) + 1 /\ EnvPair(item, Len(p) + 1) = pair
    BY EqIn
  <2>2. Split(item, 2) = IF Find(item, Eq) < 2 THEN <<>>
                         ELSE <<EnvPair(item, Find(item, Eq))>>
    BY DEF Split
  <2>3. Len(p) \in Nat /\ (p = <<>> <=> Len(p) = 0)
    BY EmptySeq, LenProperties
  <2> HIDE DEF item, pair
  <2>4. Split(item, 2) = IF p = <<>> THEN <<>> ELSE <<pair>>
    BY <2>1, <2>2, <2>3
  <2> QED
    BY <2>4 DEF item, pair
<1> QED
  BY <1>1, <1>2

(* The first byte of '=' is in no bytes of a text that holds none. *)
LEMMA EncodeWithout ==
  ASSUME NEW c \in Char, NEW s \in Seq(Char \ {c})
  PROVE  Encode(s) \in Seq(Byte \ {[char |-> c, byte |-> 1]})
PROOF
<1> DEFINE b == [char |-> c, byte |-> 1]
           D == Char \ {c}
           B == Byte \ {b}
           f == [x \in D |-> Spelling[x]]
<1>1. s \in Seq(Char \cup {Nul})
  <2>1. D \subseteq Char \cup {Nul}
    OBVIOUS
  <2> QED
    BY <2>1, SeqMonotonic
<1>2. f \in [D -> Seq(B)]
  <2>1. ASSUME NEW x \in D
        PROVE  Spelling[x] \in Seq(B)
    <3>1. x \in Char /\ x # c /\ x # Nul /\ Bytes[x] \in 1..4
      BY ConversionsAssumption
    <3>2. \A n \in 1..Bytes[x] : [char |-> x, byte |-> n] \in Byte
      BY <3>1 DEF Byte
    <3>3. \A n \in 1..Bytes[x] : [char |-> x, byte |-> n] # b
      BY <3>1
    <3> HIDE DEF b
    <3>4. [n \in 1..Bytes[x] |-> [char |-> x, byte |-> n]] \in [1..Bytes[x] -> B]
      BY <3>2, <3>3
    <3>5. Spelling[x] = [n \in 1..Bytes[x] |-> [char |-> x, byte |-> n]]
      BY <3>1 DEF Spelling
    <3> QED
      BY <3>1, <3>4, <3>5, SeqDef
  <2> HIDE DEF B, D
  <2> QED
    BY <2>1
<1>3. Each(Spelling, s) = Each(f, s)
  <2>1. \A i \in 1..Len(s) : s[i] \in D
    BY ElementOfSeq
  <2> QED
    BY <2>1 DEF Each
<1>4. Spread(f, s) \in Seq(B)
  <2> HIDE DEF f, B
  <2> QED
    BY <1>2, SpreadType
<1> QED
  BY <1>1, <1>3, <1>4, EncodeIsSpread DEF Spread

(* The bytes of a text that says a pair: those of the name, of '=' and of  *)
(* the value.                                                              *)
LEMMA EncodeSaid ==
  ASSUME NEW p \in Seq(EnvChar \ {Eq}), NEW q \in Seq(EnvChar)
  PROVE  LET b == [char |-> Eq, byte |-> 1]
         IN /\ b \in Byte \cup {Nul}
            /\ Encode(p) \in Seq((Byte \cup {Nul}) \ {b})
            /\ Encode(q) \in Seq(Byte \cup {Nul})
            /\ Encode(Said(p, q)) = Cat(Encode(p), Cat(<<b>>, Encode(q)))
            /\ fromUtf8Mac(Encode(p)) = p /\ fromUtf8Mac(Encode(q)) = q
PROOF
<1> DEFINE b == [char |-> Eq, byte |-> 1]
           v == <<Eq>>
           C == Char \cup {Nul}
<1>1. Eq \in Char /\ Eq # Nul /\ Bytes[Eq] = 1
  BY ConversionsAssumption, EnvDumpAssumption
<1>2. b \in Byte \cup {Nul}
  BY <1>1 DEF Byte
<1>3. p \in Seq(C) /\ q \in Seq(C) /\ p \in Seq(Char \ {Eq}) /\ v \in Seq(C)
  <2>1. /\ EnvChar \ {Eq} \subseteq Char \ {Eq} /\ EnvChar \ {Eq} \subseteq C
        /\ EnvChar \subseteq C
    BY EnvDumpAssumption
  <2>2. v \in Seq(C)
    BY <1>1
  <2> HIDE DEF v, C
  <2> QED
    BY <2>1, <2>2, SeqMonotonic
<1>4. Encode(p) \in Seq((Byte \cup {Nul}) \ {b})
  <2>1. Encode(p) \in Seq(Byte \ {b})
    BY <1>1, <1>3, EncodeWithout
  <2>2. Byte \ {b} \subseteq (Byte \cup {Nul}) \ {b}
    OBVIOUS
  <2> HIDE DEF b
  <2> QED
    BY <2>1, <2>2, SeqMonotonic
<1>5. Encode(v) = <<b>>
  <2>1. v = Append(<<>>, Eq) /\ <<>> \in Seq(C)
    OBVIOUS
  <2>2. Encode(Append(<<>>, Eq)) = Cat(Encode(<<>>), Spelling[Eq])
    BY <1>1, <2>1, EncodeAppend
  <2>3. Spelling[Eq] = <<b>>
    BY <1>1 DEF Spelling
  <2>4. Cat(<<>>, Spelling[Eq]) = Spelling[Eq]
    BY <1>1, SpellingType, CatType, EmptySeq
  <2> QED
    BY <2>1, <2>2, <2>3, <2>4, EncodeEmpty
<1> HIDE DEF v, b
<1>6. Encode(Said(p, q)) = Cat(Encode(p), Cat(Encode(v), Encode(q)))
  <2>1. Cat(v, q) \in Seq(C)
    BY <1>3, CatType
  <2>2. Encode(Cat(v, q)) = Cat(Encode(v), Encode(q))
    BY <1>3, EncodeCat
  <2>3. Encode(Cat(p, Cat(v, q))) = Cat(Encode(p), Encode(Cat(v, q)))
    BY <1>3, <2>1, EncodeCat
  <2> QED
    BY <2>2, <2>3 DEF Said, v
<1>7. ASSUME NEW s \in Seq(C)
      PROVE  Encode(s) \in Seq(Byte \cup {Nul}) /\ fromUtf8Mac(Encode(s)) = s
  BY EncodeType, DecodeEncode, EncodedIsWellFormed, Utf8MacExact
<1> QED
  BY <1>2, <1>3, <1>4, <1>5, <1>6, <1>7 DEF b

(* mac/sys_env_mac.cpp:49-56: whatever else holds '=', the pair is split   *)
(* at the first one, and both parts become wide again.                     *)
LEMMA SplitMacIs ==
  /\ \A s \in Seq(EnvChar \ {Eq}) : SplitMac(s) = <<>>
  /\ \A p \in Seq(EnvChar \ {Eq}), q \in Seq(EnvChar) :
       SplitMac(Said(p, q)) = <<[first |-> p, second |-> q]>>
PROOF
<1> DEFINE b == [char |-> Eq, byte |-> 1]
<1>1. ASSUME NEW item
      PROVE  SplitMac(item) =
               IF Find(Encode(item), b) = 0 THEN <<>>
               ELSE <<[first  |-> fromUtf8Mac(EnvPair(Encode(item), Find(Encode(item), b)).first),
                       second |-> fromUtf8Mac(EnvPair(Encode(item), Find(Encode(item), b)).second)]>>
  BY DEF SplitMac
<1>2. ASSUME NEW s \in Seq(EnvChar \ {Eq})
      PROVE  SplitMac(s) = <<>>
  <2>1. Eq \in Char /\ s \in Seq(Char \ {Eq})
    <3>1. EnvChar \ {Eq} \subseteq Char \ {Eq} /\ Eq \in Char
      BY EnvDumpAssumption
    <3> QED
      BY <3>1, SeqMonotonic
  <2>2. Encode(s) \in Seq(Byte \ {b})
    BY <2>1, EncodeWithout
  <2> HIDE DEF b
  <2>3. \A i \in 1..Len(Encode(s)) : Encode(s)[i] # b
    BY <2>2, ElementOfSeq
  <2>4. Find(Encode(s), b) = 0
    BY <2>3, FindNone
  <2> QED
    BY <1>1, <2>4
<1>3. ASSUME NEW p \in Seq(EnvChar \ {Eq}), NEW q \in Seq(EnvChar)
      PROVE  SplitMac(Said(p, q)) = <<[first |-> p, second |-> q]>>
  <2> DEFINE e == Encode(Said(p, q))
             B == Byte \cup {Nul}
  <2>1. /\ b \in B /\ Encode(p) \in Seq(B \ {b}) /\ Encode(q) \in Seq(B)
        /\ e = Cat(Encode(p), Cat(<<b>>, Encode(q)))
        /\ fromUtf8Mac(Encode(p)) = p /\ fromUtf8Mac(Encode(q)) = q
    BY EncodeSaid
  <2>2. SplitMac(Said(p, q)) =
          IF Find(e, b) = 0 THEN <<>>
          ELSE <<[first  |-> fromUtf8Mac(EnvPair(e, Find(e, b)).first),
                  second |-> fromUtf8Mac(EnvPair(e, Find(e, b)).second)]>>
    BY <1>1
  <2> HIDE DEF b, e, B
  <2>3. /\ Find(e, b) = Len(Encode(p)) + 1
        /\ EnvPair(e, Len(Encode(p)) + 1) = [first |-> Encode(p), second |-> Encode(q)]
    <3>1. ASSUME NEW x \in Seq(B \ {b}), NEW y \in Seq(B)
          PROVE  /\ Find(Cat(x, Cat(<<b>>, y)), b) = Len(x) + 1
                 /\ EnvPair(Cat(x, Cat(<<b>>, y)), Len(x) + 1)
                      = [first |-> x, second |-> y]
      BY <2>1, PartsOf
    <3> QED
      BY <2>1, <3>1
  <2>4. Len(Encode(p)) \in Nat
    BY <2>1, LenProperties
  <2>5. Find(e, b) # 0
    BY <2>3, <2>4
  <2> QED
    BY <2>1, <2>2, <2>3, <2>5
<1> QED
  BY <1>2, <1>3

(* What a text says, in the terms of these lemmas. *)
LEMMA MeaningIs ==
  ASSUME NEW item, NEW pair \in Meanings(item)
  PROVE  /\ pair.first \in Seq(EnvChar \ {Eq}) /\ pair.second \in Seq(EnvChar)
         /\ item = Said(pair.first, pair.second)
         /\ build = "win" => pair.first # <<>>
PROOF
<1> DEFINE v == <<Eq>>
           p == pair.first
           q == pair.second
<1>1. /\ p \in Text /\ q \in Text
      /\ item = Cat(Cat(p, v), q)
      /\ ~Contains(p, Eq)
      /\ build = "win" => p # <<>>
  BY DEF Meanings, Cat
<1>2. v \in Seq(EnvChar)
  BY EnvDumpAssumption
<1> HIDE DEF v, p, q
<1>3. p \in Seq(EnvChar) /\ q \in Seq(EnvChar)
  BY <1>1, TextIs
<1>4. item = Cat(p, Cat(v, q))
  BY <1>1, <1>2, <1>3, CatAssoc
<1>5. p \in Seq(EnvChar \ {Eq})
  <2>1. \A i \in 1..Len(p) : p[i] \in EnvChar /\ p[i] # Eq
    BY <1>1, <1>3, ElementOfSeq DEF Contains
  <2>2. Len(p) \in Nat /\ p \in [1..Len(p) -> EnvChar]
    BY <1>3, LenProperties
  <2>3. p \in [1..Len(p) -> EnvChar \ {Eq}]
    BY <2>1, <2>2
  <2> QED
    BY <2>2, <2>3, SeqDef
<1> QED
  BY <1>1, <1>3, <1>4, <1>5 DEF Said, v, p, q

(* A text that says a pair, unless Windows hides it, means that pair. *)
LEMMA SaidIsMeant ==
  ASSUME NEW p \in Seq(EnvChar \ {Eq}), NEW q \in Seq(EnvChar), Said(p, q) \in Text
  PROVE  IF build = "win" /\ p = <<>> THEN Meanings(Said(p, q)) = {}
         ELSE [first |-> p, second |-> q] \in Meanings(Said(p, q))
PROOF
<1>1. CASE build = "win" /\ p = <<>>
  <2>1. ASSUME NEW pair \in Meanings(Said(p, q))
        PROVE  FALSE
    <3>1. /\ pair.first \in Seq(EnvChar \ {Eq}) /\ pair.second \in Seq(EnvChar)
          /\ Said(p, q) = Said(pair.first, pair.second)
          /\ pair.first # <<>>
      BY <1>1, MeaningIs
    <3>2. Find(Said(p, q), Eq) = Len(p) + 1
      BY EqIn
    <3>3. Find(Said(p, q), Eq) = Len(pair.first) + 1
      BY <3>1, EqIn
    <3>4. Len(p) = 0 /\ Len(pair.first) \in Nat \ {0}
      BY <1>1, <3>1, EmptySeq
    <3> QED
      BY <3>2, <3>3, <3>4
  <2> QED
    BY <1>1, <2>1
<1>2. CASE ~(build = "win" /\ p = <<>>)
  <2> DEFINE v == <<Eq>>
             pair == [first |-> p, second |-> q]
  <2>1. pair \in Pair
    BY SaidType
  <2>2. v \in Seq(EnvChar) /\ p \in Seq(EnvChar)
    <3>1. EnvChar \ {Eq} \subseteq EnvChar
      OBVIOUS
    <3> QED
      BY <3>1, SeqMonotonic, EnvDumpAssumption
  <2>3. Said(p, q) = Cat(p, Cat(v, q))
    BY DEF Said
  <2> HIDE DEF v
  <2>4. Said(p, q) = Cat(Cat(p, v), q)
    BY <2>2, <2>3, CatAssoc
  <2>5. ~Contains(p, Eq)
    BY EqIn
  <2>6. pair \in Meanings(Said(p, q))
    BY <1>2, <2>1, <2>4, <2>5 DEF Meanings, Pair, Cat, v
  <2> QED
    BY <1>2, <2>6
<1> QED
  BY <1>1, <1>2

(* What the loop takes of a text on a platform, and what is to be listed.  *)
Splits(platform) ==
  [item \in Text |-> IF platform = "win" THEN Split(item, 2) ELSE SplitMac(item)]

Shown == [item \in Text |-> IF Meanings(item) = {} THEN <<>> ELSE <<item>>]

(* One text: the pair that it says is listed, or nothing is.               *)
LEMMA ItemListed ==
  ASSUME build \in {"win", "mac"}, NEW item \in Text
  PROVE  \/ Splits(build)[item] = <<>> /\ Shown[item] = <<>>
         \/ \E pair \in Pair : /\ Splits(build)[item] = <<pair>>
                               /\ Shown[item] = <<item>>
                               /\ pair \in Meanings(item)
PROOF
<1>1. CASE item \in Seq(EnvChar \ {Eq})
  <2>1. Split(item, 2) = <<>> /\ SplitMac(item) = <<>> /\ Find(item, Eq) = 0
    BY <1>1, SplitIs, SplitMacIs, EqIn
  <2>2. ASSUME NEW pair \in Meanings(item)
        PROVE  FALSE
    <3>1. /\ pair.first \in Seq(EnvChar \ {Eq}) /\ pair.second \in Seq(EnvChar)
          /\ item = Said(pair.first, pair.second)
      BY MeaningIs
    <3>2. Find(item, Eq) = Len(pair.first) + 1 /\ Len(pair.first) \in Nat
      BY <3>1, EqIn, LenProperties
    <3> QED
      BY <2>1, <3>2
  <2>3. Meanings(item) = {}
    BY <2>2
  <2> QED
    BY <2>1, <2>3 DEF Splits, Shown
<1>2. CASE item \notin Seq(EnvChar \ {Eq})
  <2>1. PICK p \in Seq(EnvChar \ {Eq}), q \in Seq(EnvChar) : item = Said(p, q)
    BY <1>2, SaysOrNot
  <2> DEFINE pair == [first |-> p, second |-> q]
  <2>2. /\ Split(item, 2) = IF p = <<>> THEN <<>> ELSE <<pair>>
        /\ SplitMac(item) = <<pair>>
    BY <2>1, SplitIs, SplitMacIs
  <2>3. /\ pair \in Pair
        /\ IF build = "win" /\ p = <<>> THEN Meanings(item) = {}
           ELSE pair \in Meanings(item)
    BY <2>1, SaidType, SaidIsMeant
  <2> HIDE DEF pair
  <2> QED
    BY <2>2, <2>3 DEF Splits, Shown
<1> QED
  BY <1>1, <1>2

(* The types of the two. *)
LEMMA ListedType ==
  ASSUME build \in {"win", "mac"}
  PROVE  Splits(build) \in [Text -> Seq(Pair)] /\ Shown \in [Text -> Seq(Text)]
PROOF
<1>1. ASSUME NEW item \in Text
      PROVE  Splits(build)[item] \in Seq(Pair) /\ Shown[item] \in Seq(Text)
  <2>1. CASE Splits(build)[item] = <<>> /\ Shown[item] = <<>>
    BY <2>1
  <2>2. CASE \E pair \in Pair : Splits(build)[item] = <<pair>> /\ Shown[item] = <<item>>
    BY <2>2
  <2> QED
    BY <2>1, <2>2, ItemListed
<1>2. /\ Splits(build) = [item \in Text |-> Splits(build)[item]]
      /\ Shown = [item \in Text |-> Shown[item]]
  BY DEF Splits, Shown
<1> HIDE DEF Splits, Shown
<1> QED
  BY <1>1, <1>2

(* Pairs that list texts: as many, and each of them what a text says. *)
Lists(pairs, items) ==
  /\ Len(pairs) = Len(items)
  /\ \A i \in 1..Len(items) : pairs[i] \in Meanings(items[i])

(* The texts of an environment, however many. *)
LEMMA AllListed ==
  ASSUME build \in {"win", "mac"}, NEW items \in Seq(Text)
  PROVE  Lists(Spread(Splits(build), items), Spread(Shown, items))
PROOF
<1> DEFINE f == Splits(build)
           g == Shown
           T == {z \in Seq(Text) : Lists(Spread(f, z), Spread(g, z))}
<1>1. f \in [Text -> Seq(Pair)] /\ g \in [Text -> Seq(Text)]
  BY ListedType
<1>2. ASSUME NEW x \in Text
      PROVE  \/ f[x] = <<>> /\ g[x] = <<>>
             \/ \E pair \in Pair : f[x] = <<pair>> /\ g[x] = <<x>> /\ pair \in Meanings(x)
  BY ItemListed
<1> HIDE DEF f, g
<1>3. <<>> \in T
  <2>1. Lists(<<>>, <<>>)
    BY DEF Lists
  <2> QED
    BY <2>1, SpreadEmpty, EmptySeq
<1>4. ASSUME NEW z \in Seq(Text), NEW x \in Text, z \in T
      PROVE  Append(z, x) \in T
  <2> DEFINE ps == Spread(f, z)
             is == Spread(g, z)
  <2>1. ps \in Seq(Pair) /\ is \in Seq(Text) /\ Append(z, x) \in Seq(Text)
    BY <1>1, SpreadType, AppendProperties
  <2>2. Spread(f, Append(z, x)) = Cat(ps, f[x]) /\ Spread(g, Append(z, x)) = Cat(is, g[x])
    <3> HIDE DEF T
    <3>1. Spread(f, Append(z, x)) = Cat(Spread(f, z), f[x])
      BY <1>1, SpreadAppend
    <3>2. Spread(g, Append(z, x)) = Cat(Spread(g, z), g[x])
      BY <1>1, SpreadAppend
    <3> QED
      BY <3>1, <3>2
  <2>3. Lists(ps, is)
    BY <1>4
  <2> HIDE DEF ps, is
  <2>4. CASE f[x] = <<>> /\ g[x] = <<>>
    <3>1. Cat(ps, f[x]) = ps /\ Cat(is, g[x]) = is
      BY <2>1, <2>4, CatType
    <3> QED
      BY <2>1, <2>2, <2>3, <3>1
  <2>5. CASE \E pair \in Pair : f[x] = <<pair>> /\ g[x] = <<x>> /\ pair \in Meanings(x)
    <3>1. PICK pair \in Pair : f[x] = <<pair>> /\ g[x] = <<x>> /\ pair \in Meanings(x)
      BY <2>5
    <3> DEFINE ps1 == Append(ps, pair)
               is1 == Append(is, x)
    <3>2. Cat(ps, f[x]) = ps1 /\ Cat(is, g[x]) = is1
      BY <2>1, <3>1, AppendIsCat
    <3>3. /\ Len(ps) \in Nat /\ Len(ps1) = Len(ps) + 1
          /\ \A i \in 1..Len(ps) : ps1[i] = ps[i]
          /\ ps1[Len(ps) + 1] = pair
      BY <2>1, AppendProperties, LenProperties
    <3>4. /\ Len(is) \in Nat /\ Len(is1) = Len(is) + 1
          /\ \A i \in 1..Len(is) : is1[i] = is[i]
          /\ is1[Len(is) + 1] = x
      BY <2>1, AppendProperties, LenProperties
    <3> HIDE DEF ps1, is1
    <3>5. ASSUME NEW i \in 1..Len(is1)
          PROVE  ps1[i] \in Meanings(is1[i])
      <4>1. CASE i = Len(is) + 1
        <5>1. ps1[i] = pair /\ is1[i] = x
          BY <2>3, <3>3, <3>4, <4>1 DEF Lists
        <5> QED
          BY <3>1, <5>1
      <4>2. CASE i \in 1..Len(is)
        <5>1. ps1[i] = ps[i] /\ is1[i] = is[i]
          BY <2>3, <3>3, <3>4, <4>2 DEF Lists
        <5>2. ps[i] \in Meanings(is[i])
          BY <2>3, <4>2 DEF Lists
        <5> QED
          BY <5>1, <5>2
      <4> QED
        BY <3>4, <4>1, <4>2
    <3>6. Lists(ps1, is1)
      BY <2>3, <3>3, <3>4, <3>5 DEF Lists
    <3> QED
      BY <2>1, <2>2, <3>2, <3>6
  <2> QED
    BY <1>2, <2>4, <2>5
<1>5. Seq(Text) \subseteq T
  <2> HIDE DEF T
  <2> QED
    BY <1>3, <1>4, AllTexts
<1> QED
  BY <1>5 DEF f, g

-----------------------------------------------------------------------------
(* The listing of the environment, step by step.                           *)

(* The texts of an environment, and the block that Windows makes of them.  *)
Full == Text \ {<<>>}

Closed == [item \in Text |-> Cat(item, <<Nul>>)]

BlockOf(items) == Cat(Spread(Closed, items), <<Nul>>)

(* Where the loop is when it has gone through some of the texts.           *)
Behind(platform, done) ==
  IF platform = "win" THEN Len(Spread(Closed, done)) + 1 ELSE Len(done) + 1

(* The loop has gone through the texts done, and listed what they say; the *)
(* others are to come.                                                     *)
Looped(done, rest) ==
  /\ before = Cat(done, rest)
  /\ current = Behind(build, done)
  /\ retVal = Spread(Splits(build), done)

(* Windows copies the environment; on macOS nobody may write to it.        *)
Intact == build = "win" \/ ~disturbed

DumpInv ==
  /\ build \in {"win", "mac"} /\ disturbed \in BOOLEAN
  /\ before \in Seq(Full)
  /\ pc = "start" => environ = before /\ current = 1 /\ retVal = <<>> /\ ~disturbed
  /\ build = "win" => envsW = IF pc = "loop" THEN BlockOf(before) ELSE <<>>
  /\ build = "mac" /\ ~disturbed => environ = before
  /\ pc = "loop" /\ Intact => \E done, rest \in Seq(Full) : Looped(done, rest)
  /\ pc = "returned" /\ Intact => retVal = Spread(Splits(build), before)

(* A full text is a text. *)
LEMMA FullIsText ==
  /\ Full \subseteq Text /\ \A items \in Seq(Full) : items \in Seq(Text)
  /\ Text \subseteq Seq(EnvChar)
PROOF
<1>1. Full \subseteq Text
  BY DEF Full
<1>2. Text \subseteq Seq(EnvChar)
  BY TextIs
<1> QED
  BY <1>1, <1>2, SeqMonotonic

(* The types of what Windows makes of the texts. *)
LEMMA BlockType ==
  /\ Nul \notin EnvChar /\ <<Nul>> \in Seq(EnvChar \cup {Nul})
  /\ Closed \in [Text -> Seq(EnvChar \cup {Nul})]
  /\ \A items \in Seq(Text) : /\ Spread(Closed, items) \in Seq(EnvChar \cup {Nul})
                              /\ BlockOf(items) \in Seq(EnvChar \cup {Nul})
                              /\ BlockOf(items) # <<>>
PROOF
<1> DEFINE C == EnvChar \cup {Nul}
           nul == <<Nul>>
<1>1. Nul \notin EnvChar
  BY ConversionsAssumption, EnvDumpAssumption
<1>2. nul \in Seq(C) /\ Len(nul) = 1
  OBVIOUS
<1>3. ASSUME NEW x \in Text
      PROVE  x \in Seq(C)
  <2>1. x \in Seq(EnvChar) /\ EnvChar \subseteq C
    BY FullIsText
  <2> HIDE DEF C
  <2> QED
    BY <2>1, SeqMonotonic
<1> HIDE DEF C, nul
<1>4. ASSUME NEW x \in Text
      PROVE  Cat(x, nul) \in Seq(C)
  BY <1>2, <1>3, CatType
<1>5. Closed \in [Text -> Seq(C)]
  BY <1>4 DEF Closed, nul
<1>6. ASSUME NEW items \in Seq(Text)
      PROVE  /\ Spread(Closed, items) \in Seq(C)
             /\ BlockOf(items) \in Seq(C)
             /\ BlockOf(items) # <<>>
  <2> DEFINE s == Spread(Closed, items)
  <2>1. s \in Seq(C)
    BY <1>5, SpreadType
  <2> HIDE DEF s
  <2>2. Cat(s, nul) \in Seq(C) /\ Len(s) \in Nat /\ Len(Cat(s, nul)) = Len(s) + 1
    <3>1. Len(s) \in Nat /\ Len(Cat(s, nul)) = Len(s) + Len(nul)
      BY <1>2, <2>1, CatElement
    <3> QED
      BY <1>2, <2>1, <3>1, CatType
  <2>3. Cat(s, nul) # <<>>
    BY <2>2, EmptySeq
  <2> QED
    BY <2>1, <2>2, <2>3 DEF BlockOf, s, nul
<1> QED
  BY <1>1, <1>2, <1>5, <1>6 DEF C, nul

(* The block of some texts and others behind them. *)
LEMMA ClosedCat ==
  ASSUME NEW s \in Seq(Text), NEW t \in Seq(Text)
  PROVE  Spread(Closed, Cat(s, t)) = Cat(Spread(Closed, s), Spread(Closed, t))
PROOF
<1>1. Closed \in [Text -> Seq(EnvChar \cup {Nul})]
  BY BlockType
<1> QED
  BY <1>1, SpreadCat

(* ::GetEnvironmentStringsW gives the block of the texts. *)
LEMMA BlockIs ==
  ASSUME environ \in Seq(Text)
  PROVE  Block = BlockOf(environ)
PROOF
<1>1. \A i \in 1..Len(environ) : environ[i] \in Text
  BY ElementOfSeq
<1>2. Each(Closed, environ) = [i \in 1..Len(environ) |-> environ[i] \o <<Nul>>]
  BY <1>1 DEF Each, Closed, Cat
<1> QED
  BY <1>2 DEF Block, BlockOf, Spread, Cat

(* A text of the environment ends at its Nul. *)
LEMMA TextEnds ==
  ASSUME NEW s \in Seq(EnvChar), NEW t \in Seq(EnvChar \cup {Nul})
  PROVE  /\ Find(Cat(s, Cat(<<Nul>>, t)), Nul) = Len(s) + 1
         /\ SubSeq(Cat(s, Cat(<<Nul>>, t)), 1, Len(s)) = s
PROOF
<1>1. Nul \notin EnvChar
  BY ConversionsAssumption, EnvDumpAssumption
<1> QED
  BY <1>1, FindEnd

(* The next of the texts to come has been gone through. *)
LEMMA NextDone ==
  ASSUME NEW D, NEW done \in Seq(D), NEW x \in D, NEW rest \in Seq(D)
  PROVE  /\ Append(done, x) \in Seq(D)
         /\ Cat(Append(done, x), rest) = Cat(done, Cat(<<x>>, rest))
PROOF
<1> DEFINE v == <<x>>
<1>1. v \in Seq(D) /\ Append(done, x) = Cat(done, v)
  BY AppendIsCat
<1> HIDE DEF v
<1>2. Cat(Cat(done, v), rest) = Cat(done, Cat(v, rest))
  BY <1>1, CatAssoc
<1> QED
  BY <1>1, <1>2, AppendProperties DEF v

(* What stands in the block behind the texts that are done. *)
LEMMA BlockRest ==
  ASSUME NEW done \in Seq(Text), NEW rest \in Seq(Text),
         envsW = BlockOf(Cat(done, rest)), current = Behind("win", done)
  PROVE  SubSeq(envsW, current, Len(envsW)) = BlockOf(rest)
PROOF
<1> DEFINE C == EnvChar \cup {Nul}
           nul == <<Nul>>
           d == Spread(Closed, done)
           r == Spread(Closed, rest)
<1>1. nul \in Seq(C) /\ d \in Seq(C) /\ r \in Seq(C) /\ BlockOf(rest) \in Seq(C)
  BY BlockType
<1>2. Spread(Closed, Cat(done, rest)) = Cat(d, r)
  BY ClosedCat
<1>3. BlockOf(rest) = Cat(r, nul) /\ envsW = Cat(Cat(d, r), nul)
  BY <1>2 DEF BlockOf
<1>4. current = Len(d) + 1
  BY DEF Behind
<1> HIDE DEF C, nul, d, r
<1>5. envsW = Cat(d, BlockOf(rest))
  BY <1>1, <1>3, CatAssoc
<1>6. SubSeq(Cat(d, BlockOf(rest)), Len(d) + 1, Len(Cat(d, BlockOf(rest)))) = BlockOf(rest)
  BY <1>1, RestIs
<1> QED
  BY <1>4, <1>5, <1>6

(* sys_env_win.cpp:76-95: the loop reads the texts as they were, and an    *)
(* empty one only behind the last.                                         *)
LEMMA ItemIs ==
  ASSUME NEW done \in Seq(Full), NEW rest \in Seq(Full),
         envsW = BlockOf(Cat(done, rest)), current = Behind("win", done)
  PROVE  \/ rest = <<>> /\ Item = <<>>
         \/ \E x \in Full, others \in Seq(Full) : rest = Cat(<<x>>, others) /\ Item = x
PROOF
<1> DEFINE C == EnvChar \cup {Nul}
           nul == <<Nul>>
           r == Spread(Closed, rest)
<1>1. done \in Seq(Text) /\ rest \in Seq(Text)
  BY FullIsText
<1>2. SubSeq(envsW, current, Len(envsW)) = Cat(r, nul)
  BY <1>1, BlockRest DEF BlockOf
<1>3. Item = SubSeq(Cat(r, nul), 1, Find(Cat(r, nul), Nul) - 1)
  BY <1>2 DEF Item
<1>4. nul \in Seq(C) /\ Closed \in [Text -> Seq(C)] /\ Nul \notin EnvChar
  BY BlockType
<1>5. CASE rest = <<>>
  <2>1. r = <<>> /\ Cat(<<>>, nul) = nul
    BY <1>4, <1>5, SpreadEmpty, CatType
  <2>2. nul[1] = Nul /\ Len(nul) = 1
    OBVIOUS
  <2> HIDE DEF nul, r
  <2>3. Find(nul, Nul) = 1
    BY <2>2, FindFirst
  <2>4. SubSeq(nul, 1, 0) = <<>>
    BY SubSeqEmpty
  <2>5. 1 - 1 = 0
    OBVIOUS
  <2> QED
    BY <1>3, <1>5, <2>1, <2>3, <2>4, <2>5
<1>6. CASE rest # <<>>
  <2>1. PICK x \in Full, others \in Seq(Full) : rest = Cat(<<x>>, others)
    <3>1. \E x \in Full, others \in Seq(Full) : rest[1] = x /\ rest = Cat(<<x>>, others)
      BY <1>6, FirstAndRest
    <3> QED
      BY <3>1
  <2> DEFINE v == <<x>>
             o == Spread(Closed, others)
             b == Cat(o, nul)
  <2>2. x \in Text /\ x \in Seq(EnvChar) /\ v \in Seq(Text) /\ others \in Seq(Text)
    BY FullIsText
  <2>3. x \in Seq(C)
    <3>1. EnvChar \subseteq C
      OBVIOUS
    <3> QED
      BY <2>2, <3>1, SeqMonotonic
  <2>4. Spread(Closed, v) = Cat(x, nul)
    <3>1. v = Append(<<>>, x) /\ <<>> \in Seq(Text)
      OBVIOUS
    <3>2. Spread(Closed, Append(<<>>, x)) = Cat(Spread(Closed, <<>>), Closed[x])
      <4> HIDE DEF C, nul, r, v, o, b
      <4>1. Closed \in [Text -> Seq(C)]
        BY <1>4
      <4> QED
        BY <2>2, <3>1, <4>1, SpreadAppend
    <3>3. Closed[x] = Cat(x, nul) /\ Closed[x] \in Seq(C)
      <4>1. Closed[x] = Cat(x, nul)
        BY <2>2, Zenon DEF Closed
      <4>2. Closed[x] \in Seq(C)
        <5> HIDE DEF C
        <5> QED
          BY <1>4, <2>2, Zenon
      <4> QED
        BY <4>1, <4>2, Zenon
    <3>4. Cat(<<>>, Closed[x]) = Closed[x]
      BY <3>3, CatType, EmptySeq
    <3> QED
      BY <3>1, <3>2, <3>3, <3>4, SpreadEmpty
  <2>5. o \in Seq(C) /\ Cat(x, nul) \in Seq(C)
    BY <1>4, <2>2, <2>3, SpreadType, CatType
  <2> HIDE DEF v, nul
  <2>6. r = Cat(Cat(x, nul), o)
    <3>1. Spread(Closed, Cat(v, others)) = Cat(Spread(Closed, v), o)
      BY <2>2, ClosedCat
    <3> QED
      BY <2>1, <2>4, <3>1 DEF v
  <2> HIDE DEF r, o, C
  <2>7. b \in Seq(C)
    BY <1>4, <2>5, CatType
  <2>8. Cat(r, nul) = Cat(x, Cat(nul, b))
    <3>1. Cat(Cat(Cat(x, nul), o), nul) = Cat(Cat(x, nul), b)
      BY <1>4, <2>5, CatAssoc
    <3>2. Cat(Cat(x, nul), b) = Cat(x, Cat(nul, b))
      BY <1>4, <2>3, <2>7, CatAssoc
    <3> QED
      BY <2>6, <3>1, <3>2
  <2> HIDE DEF b
  <2>9. /\ Find(Cat(x, Cat(nul, b)), Nul) = Len(x) + 1
        /\ SubSeq(Cat(x, Cat(nul, b)), 1, Len(x)) = x
    <3>1. b \in Seq(EnvChar \cup {Nul})
      BY <2>7 DEF C
    <3> QED
      BY <2>2, <3>1, TextEnds DEF nul
  <2>10. (Len(x) + 1) - 1 = Len(x)
    BY <2>2, LenProperties
  <2>11. Item = x
    BY <1>3, <2>8, <2>9, <2>10
  <2> QED
    BY <2>1, <2>11
<1> QED
  BY <1>5, <1>6

(* What the loop has listed when it has taken one more text. *)
LEMMA OneMore ==
  ASSUME build \in {"win", "mac"}, NEW done \in Seq(Full), NEW x \in Full
  PROVE  /\ Spread(Splits(build), Append(done, x))
              = Cat(Spread(Splits(build), done), Splits(build)[x])
         /\ Behind("win", Append(done, x)) = Behind("win", done) + Len(x) + 1
         /\ Behind("mac", Append(done, x)) = Behind("mac", done) + 1
PROOF
<1> DEFINE d == Spread(Closed, done)
           C == EnvChar \cup {Nul}
<1>1. done \in Seq(Text) /\ x \in Text /\ x \in Seq(EnvChar)
  BY FullIsText
<1>2. Spread(Splits(build), Append(done, x))
        = Cat(Spread(Splits(build), done), Splits(build)[x])
  <2> DEFINE f == Splits(build)
  <2>1. f \in [Text -> Seq(Pair)]
    BY ListedType
  <2> HIDE DEF f
  <2>2. Spread(f, Append(done, x)) = Cat(Spread(f, done), f[x])
    BY <1>1, <2>1, SpreadAppend
  <2> QED
    BY <2>2 DEF f
<1>3. Behind("mac", Append(done, x)) = Behind("mac", done) + 1
  <2>1. Len(Append(done, x)) = Len(done) + 1
    BY AppendProperties
  <2> QED
    BY <2>1 DEF Behind
<1>4. Behind("win", Append(done, x)) = Behind("win", done) + Len(x) + 1
  <2> DEFINE nul == <<Nul>>
  <2>1. Closed \in [Text -> Seq(C)] /\ nul \in Seq(C)
    BY BlockType
  <2>2. Spread(Closed, Append(done, x)) = Cat(d, Closed[x])
    BY <1>1, <2>1, SpreadAppend
  <2>3. Closed[x] = Cat(x, nul) /\ Closed[x] \in Seq(C) /\ Len(nul) = 1
    BY <1>1, <2>1 DEF Closed
  <2>4. d \in Seq(C)
    BY <1>1, <2>1, SpreadType
  <2>5. x \in Seq(C)
    <3>1. EnvChar \subseteq C
      OBVIOUS
    <3> QED
      BY <1>1, <3>1, SeqMonotonic
  <2> HIDE DEF d, nul, C
  <2>6. Len(x) \in Nat /\ Len(Cat(x, nul)) = Len(x) + Len(nul)
    BY <2>1, <2>5, CatElement
  <2>7. Len(d) \in Nat /\ Len(Cat(d, Closed[x])) = Len(d) + Len(Closed[x])
    BY <2>3, <2>4, CatElement
  <2>8. Behind("win", Append(done, x)) = Len(Cat(d, Closed[x])) + 1
    BY <2>2 DEF Behind
  <2>9. Behind("win", done) = Len(d) + 1
    BY DEF Behind, d
  <2>10. Len(Closed[x]) = Len(x) + 1
    BY <2>3, <2>6, Zenon
  <2>11. Behind("win", Append(done, x)) = (Len(d) + Len(Closed[x])) + 1
    BY <2>7, <2>8, Zenon
  <2>12. (Len(d) + (Len(x) + 1)) + 1 = ((Len(d) + 1) + Len(x)) + 1
    BY <2>6, <2>7
  <2> QED
    BY <2>9, <2>10, <2>11, <2>12, Zenon
<1> QED
  BY <1>2, <1>3, <1>4

(* Nothing is to come: all has been listed. *)
LEMMA NothingToCome ==
  ASSUME NEW done \in Seq(Full), Looped(done, <<>>)
  PROVE  retVal = Spread(Splits(build), before)
PROOF
<1>1. Cat(done, <<>>) = done
  BY CatType, EmptySeq
<1> QED
  BY <1>1 DEF Looped

(* Before the call nothing has been gone through. *)
LEMMA InitDump == DumpInit => DumpInv
PROOF
<1>1. ASSUME DumpInit
      PROVE  DumpInv
  <2>1. environ \in Seq(Full)
    <3>1. PICK n \in 0..MaxItems : environ \in [1..n -> Full]
      BY <1>1 DEF DumpInit, Full
    <3>2. n \in Nat
      BY EnvDumpAssumption
    <3> QED
      BY <3>1, <3>2, SeqDef
  <2> QED
    BY <1>1, <2>1 DEF DumpInit, DumpInv
<1> QED
  BY <1>1

(* sys_env_win.cpp:63-97, sys_env_mac.cpp:41-60: every step of the call,   *)
(* and of the thread that writes meanwhile, keeps the invariant.           *)
LEMMA StartKeeps == ASSUME DumpInv, Start PROVE DumpInv'
PROOF
<1>1. /\ pc = "start" /\ before' = environ /\ environ = before
      /\ UNCHANGED <<build, environ, current, retVal, disturbed>>
      /\ current = 1 /\ retVal = <<>> /\ ~disturbed
      /\ before \in Seq(Full) /\ build \in {"win", "mac"}
  BY DEF DumpInv, Start
<1>2. environ \in Seq(Text)
  BY <1>1, FullIsText
<1>3. Block = BlockOf(environ)
  BY <1>2, BlockIs
<1>4. CASE pc' = "loop" /\ envsW' = IF build = "win" THEN Block ELSE <<>>
  <2>1. Looped(<<>>, before)'
    <3>1. Cat(<<>>, before) = before
      BY <1>1, CatType, EmptySeq
    <3>2. /\ Spread(Closed, <<>>) = <<>> /\ Spread(Splits(build), <<>>) = <<>>
          /\ Len(<<>>) = 0
      BY SpreadEmpty, EmptySeq
    <3>3. current = Behind(build, <<>>)
      BY <1>1, <3>2 DEF Behind
    <3> QED
      BY <1>1, <3>1, <3>2, <3>3 DEF Looped
  <2>2. <<>> \in Seq(Full)
    BY EmptySeq
  <2>3. (\E done, rest \in Seq(Full) : Looped(done, rest))'
    BY <1>1, <2>1, <2>2
  <2>4. build = "win" => envsW' = BlockOf(before)
    BY <1>1, <1>3, <1>4
  <2> QED
    BY <1>1, <1>4, <2>3, <2>4 DEF DumpInv
<1>5. CASE build = "win" /\ pc' = "failed" /\ UNCHANGED envsW
  BY <1>1, <1>5 DEF DumpInv
<1> QED
  BY <1>4, <1>5 DEF Start

(* sys_env_win.cpp:76-95, one turn of the loop. *)
LEMMA LoopWinKeeps == ASSUME DumpInv, LoopWin PROVE DumpInv'
PROOF
<1>1. /\ pc = "loop" /\ build = "win" /\ Intact
      /\ UNCHANGED <<build, environ, before, disturbed>>
      /\ before \in Seq(Full)
      /\ envsW = BlockOf(before)
  BY DEF DumpInv, LoopWin, Intact
<1>2. PICK done \in Seq(Full), rest \in Seq(Full) : Looped(done, rest)
  BY <1>1 DEF DumpInv
<1>3. before = Cat(done, rest) /\ current = Behind("win", done)
      /\ retVal = Spread(Splits(build), done)
  BY <1>1, <1>2 DEF Looped
<1>4. \/ rest = <<>> /\ Item = <<>>
      \/ \E x \in Full, others \in Seq(Full) : rest = Cat(<<x>>, others) /\ Item = x
  BY <1>1, <1>3, ItemIs
<1>5. CASE rest = <<>> /\ Item = <<>>
  <2>1. Leave("returned") /\ UNCHANGED <<current, retVal>>
    BY <1>5 DEF LoopWin
  <2>2. pc' = "returned" /\ envsW' = <<>> /\ retVal' = retVal
    BY <1>1, <2>1 DEF Leave
  <2>3. retVal = Spread(Splits(build), before)
    BY <1>2, <1>5, NothingToCome
  <2> QED
    BY <1>1, <2>2, <2>3 DEF DumpInv, Intact
<1>6. CASE \E x \in Full, others \in Seq(Full) : rest = Cat(<<x>>, others) /\ Item = x
  <2>1. PICK x \in Full, others \in Seq(Full) : rest = Cat(<<x>>, others) /\ Item = x
    BY <1>6
  <2>2. x # <<>> /\ x \in Text
    BY DEF Full
  <2>3. /\ retVal' = Cat(retVal, Split(x, 2))
        /\ current' = current + Len(x) + 1
        /\ pc' = pc /\ envsW' = envsW
    BY <2>1, <2>2 DEF LoopWin, Cat
  <2>4. Append(done, x) \in Seq(Full) /\ Cat(Append(done, x), others) = before
    BY <1>3, <2>1, NextDone
  <2>5. Splits(build)[x] = Split(x, 2)
    BY <1>1, <2>2 DEF Splits
  <2>6. retVal' = Spread(Splits(build), Append(done, x))
    BY <1>1, <1>3, <2>3, <2>5, OneMore
  <2>7. current' = Behind(build, Append(done, x))
    BY <1>1, <1>3, <2>3, OneMore
  <2>8. Looped(Append(done, x), others)'
    BY <1>1, <2>4, <2>6, <2>7 DEF Looped
  <2>9. (\E d, r \in Seq(Full) : Looped(d, r))'
    BY <2>4, <2>8
  <2> QED
    BY <1>1, <2>3, <2>9 DEF DumpInv
<1> QED
  BY <1>4, <1>5, <1>6

(* sys_env_mac.cpp:47-57, one turn of the loop. *)
LEMMA LoopMacKeeps == ASSUME DumpInv, LoopMac PROVE DumpInv'
PROOF
<1>1. /\ pc = "loop" /\ build = "mac" /\ ~disturbed /\ Intact
      /\ UNCHANGED <<build, environ, before, disturbed>>
      /\ before \in Seq(Full) /\ environ = before
  BY DEF DumpInv, LoopMac, Intact
<1>2. PICK done \in Seq(Full), rest \in Seq(Full) : Looped(done, rest)
  BY <1>1 DEF DumpInv
<1>3. before = Cat(done, rest) /\ current = Len(done) + 1
      /\ retVal = Spread(Splits(build), done)
  BY <1>1, <1>2 DEF Looped, Behind
<1>4. /\ Len(done) \in Nat /\ Len(rest) \in Nat
      /\ Len(before) = Len(done) + Len(rest)
      /\ \A i \in 1..Len(rest) : before[Len(done) + i] = rest[i]
  BY <1>3, CatElement
<1>5. CASE rest = <<>>
  <2>1. Len(rest) = 0
    BY <1>5, EmptySeq
  <2>2. current > Len(environ)
    BY <1>1, <1>3, <1>4, <2>1
  <2>3. Leave("returned") /\ UNCHANGED <<current, retVal>>
    BY <2>2 DEF LoopMac
  <2>4. pc' = "returned" /\ retVal' = retVal
    BY <2>3 DEF Leave
  <2>5. retVal = Spread(Splits(build), before)
    BY <1>2, <1>5, NothingToCome
  <2> QED
    BY <1>1, <2>4, <2>5 DEF DumpInv, Intact
<1>6. CASE rest # <<>>
  <2>1. PICK x \in Full, others \in Seq(Full) : rest[1] = x /\ rest = Cat(<<x>>, others)
    BY <1>6, FirstAndRest
  <2>2. Len(rest) # 0
    BY <1>6, EmptySeq
  <2>3. ~(current > Len(environ)) /\ environ[current] = x
    <3>1. 1 \in 1..Len(rest) /\ rest[1] = x
      BY <1>4, <2>1, <2>2
    <3>2. before[Len(done) + 1] = x
      BY <1>4, <3>1
    <3>3. ~(current > Len(before))
      BY <1>3, <1>4, <2>2
    <3> QED
      BY <1>1, <1>3, <3>2, <3>3
  <2>4. /\ retVal' = Cat(retVal, SplitMac(x))
        /\ current' = current + 1
        /\ pc' = pc /\ envsW' = envsW
    BY <2>3 DEF LoopMac, Cat
  <2>5. Append(done, x) \in Seq(Full) /\ Cat(Append(done, x), others) = before
    BY <1>3, <2>1, NextDone
  <2>6. Splits(build)[x] = SplitMac(x)
    <3>1. x \in Text
      BY DEF Full
    <3> QED
      BY <1>1, <3>1 DEF Splits
  <2>7. retVal' = Spread(Splits(build), Append(done, x))
    BY <1>1, <1>3, <2>4, <2>6, OneMore
  <2>8. current' = Behind(build, Append(done, x))
    <3>1. Behind(build, done) = Len(done) + 1
      BY <1>1 DEF Behind
    <3> QED
      BY <1>1, <1>3, <2>4, <3>1, OneMore
  <2>9. Looped(Append(done, x), others)'
    BY <1>1, <2>5, <2>7, <2>8 DEF Looped
  <2>10. (\E d, r \in Seq(Full) : Looped(d, r))'
    BY <2>5, <2>9
  <2> QED
    BY <1>1, <2>4, <2>10 DEF DumpInv
<1> QED
  BY <1>5, <1>6

(* What ends the call early, and the other thread. *)
LEMMA OthersKeep ==
  ASSUME DumpInv, LoopStale \/ Throw \/ OtherPut \/ UNCHANGED dumpVars
  PROVE  DumpInv'
PROOF
<1>1. CASE LoopStale
  <2>1. /\ build = "mac" /\ disturbed /\ pc' # "start"
        /\ UNCHANGED <<build, environ, current, before, disturbed>>
    BY <1>1 DEF LoopStale
  <2> QED
    BY <2>1 DEF DumpInv, Intact
<1>2. CASE Throw
  <2>1. /\ pc' = "thrown" /\ (build = "win" => envsW' = <<>>)
        /\ UNCHANGED <<build, environ, current, before, disturbed>>
    BY <1>2 DEF Throw, Leave
  <2> QED
    BY <2>1 DEF DumpInv
<1>3. CASE OtherPut
  <2>1. /\ pc = "loop" /\ ~disturbed /\ disturbed'
        /\ UNCHANGED <<build, pc, envsW, current, retVal, before>>
    BY <1>3 DEF OtherPut
  <2>2. build = "win" => \E done, rest \in Seq(Full) : Looped(done, rest)
    BY <2>1 DEF DumpInv, Intact
  <2>3. ASSUME NEW done \in Seq(Full), NEW rest \in Seq(Full), Looped(done, rest)
        PROVE  Looped(done, rest)'
    BY <2>1, <2>3 DEF Looped
  <2>4. build = "win" => (\E done, rest \in Seq(Full) : Looped(done, rest))'
    BY <2>2, <2>3
  <2>5. disturbed' = TRUE
    BY <1>3 DEF OtherPut
  <2> QED
    BY <2>1, <2>4, <2>5 DEF DumpInv, Intact
<1>4. CASE UNCHANGED dumpVars
  <2>1. UNCHANGED <<build, environ, pc, envsW, current, retVal, before, disturbed>>
    BY <1>4 DEF dumpVars
  <2>2. ASSUME NEW done \in Seq(Full), NEW rest \in Seq(Full), Looped(done, rest)
        PROVE  Looped(done, rest)'
    BY <2>1, <2>2 DEF Looped
  <2>3. (\E done, rest \in Seq(Full) : Looped(done, rest)) =>
          (\E done, rest \in Seq(Full) : Looped(done, rest))'
    BY <2>2
  <2> QED
    BY <2>1, <2>3 DEF DumpInv, Intact
<1> QED
  BY <1>1, <1>2, <1>3, <1>4

(* The invariant of the listing. *)
LEMMA DumpInvariance == DumpSpec => []DumpInv
PROOF
<1>1. DumpInv /\ [DumpNext]_dumpVars => DumpInv'
  BY StartKeeps, LoopWinKeeps, LoopMacKeeps, OthersKeep DEF DumpNext
<1> QED
  BY <1>1, InitDump, PTL DEF DumpSpec

(* sys_env_win.cpp:63-97, sys_env_mac.cpp:41-60: allW lists every variable *)
(* there was, whatever their number and length, in order and whole; on     *)
(* Windows also while other threads write to the environment.              *)
THEOREM VariablesListed == DumpSpec => []EveryVariableListed
PROOF
<1>1. ASSUME DumpInv
      PROVE  EveryVariableListed
  <2> DEFINE listed == FlattenSeq([i \in 1..Len(before) |->
                         IF Meanings(before[i]) = {} THEN <<>> ELSE <<before[i]>>])
  <2>1. before \in Seq(Text) /\ build \in {"win", "mac"}
    BY <1>1, FullIsText DEF DumpInv
  <2>2. listed = Spread(Shown, before)
    <3>1. \A i \in 1..Len(before) : before[i] \in Text
      BY <2>1, ElementOfSeq
    <3>2. Each(Shown, before) = [i \in 1..Len(before) |->
            IF Meanings(before[i]) = {} THEN <<>> ELSE <<before[i]>>]
      BY <3>1 DEF Each, Shown
    <3> QED
      BY <3>2 DEF Spread
  <2> HIDE DEF listed
  <2>3. ASSUME pc = "returned", build = "win" \/ ~disturbed
        PROVE  /\ Len(retVal) = Len(listed)
               /\ \A i \in 1..Len(listed) : retVal[i] \in Meanings(listed[i])
    <3>1. retVal = Spread(Splits(build), before)
      BY <1>1, <2>3 DEF DumpInv, Intact
    <3>2. Lists(retVal, listed)
      BY <2>1, <2>2, <3>1, AllListed
    <3> QED
      BY <3>2 DEF Lists
  <2> QED
    BY <2>3 DEF EveryVariableListed, listed
<1> QED
  BY <1>1, DumpInvariance, PTL

(* func_raii.h:33-37, sys_env_win.cpp:72: however the call ends, the block *)
(* of the environment has been freed, and not before the loop has ended.   *)
THEOREM BlockIsFreed == DumpSpec => []BlockFreed
PROOF
<1>1. ASSUME DumpInv
      PROVE  BlockFreed
  <2>1. BlockOf(before) # <<>>
    BY <1>1, FullIsText, BlockType DEF DumpInv
  <2> QED
    BY <1>1, <2>1 DEF DumpInv, BlockFreed
<1> QED
  BY <1>1, DumpInvariance, PTL
=============================================================================
