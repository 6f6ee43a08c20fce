--------------------------- MODULE ObjectImageProofs ----------------------------
(***************************************************************************)
(* Proofs for ObjectImage, for any config of any type.  The number of      *)
(* items that desc-gen announces for a program, a protocol or an IO is the *)
(* number it writes, if optional bounds are there and no service is empty; *)
(* whatever a back end refuses of an object, it refuses for a cause that   *)
(* its handler knows; what the checks let through is sound; what the       *)
(* reports say of an object holds for its images; and these are made of    *)
(* items of its type's fields.                                             *)
(***************************************************************************)
EXTENDS ObjectImage, WellFoundedInduction, FiniteSetTheorems, SequenceTheorems, TLAPS

IsSequence(s) == s \in Seq({s[i] : i \in DOMAIN s})

-----------------------------------------------------------------------------
(* Sequences                                                                 *)

\* A sequence over any set is one over its own elements, and has a length.
LEMMA SequenceOverItself ==
  ASSUME NEW T, NEW s \in Seq(T)
  PROVE  IsSequence(s) /\ Len(s) \in Nat
<1>1. Len(s) \in Nat /\ DOMAIN s = 1..Len(s) /\ s \in [1..Len(s) -> T]
  BY LenProperties
<1>2. s \in [1..Len(s) -> {s[i] : i \in DOMAIN s}]
  BY <1>1
<1> QED
  BY <1>1, <1>2, SeqDef DEF IsSequence

\* The tail of a sequence is one, and so is a sequence with an element more.
LEMMA TailIsSequence ==
  ASSUME NEW s, IsSequence(s), s # << >>
  PROVE  /\ IsSequence(Tail(s))
         /\ Len(s) \in Nat /\ Len(s) = Len(Tail(s)) + 1 /\ Len(Tail(s)) \in Nat
         /\ Head(s) = s[1] /\ 1 \in DOMAIN s
         /\ \A i \in DOMAIN Tail(s) : i + 1 \in DOMAIN s /\ Tail(s)[i] = s[i + 1]
<1>1. PICK T : s \in Seq(T)
  BY DEF IsSequence
<1>2. Tail(s) \in Seq(T) /\ Len(Tail(s)) = Len(s) - 1
        /\ \A i \in 1..Len(Tail(s)) : Tail(s)[i] = s[i + 1]
  BY <1>1, HeadTailProperties
<1>3. Len(s) \in Nat /\ Len(s) # 0 /\ DOMAIN s = 1..Len(s)
  BY <1>1, LenProperties, EmptySeq
<1>4. IsSequence(Tail(s)) /\ Len(Tail(s)) \in Nat /\ DOMAIN Tail(s) = 1..Len(Tail(s))
  BY <1>2, SequenceOverItself, LenProperties
<1>5. Head(s) = s[1]
  BY <1>1
<1> QED
  BY <1>2, <1>3, <1>4, <1>5

LEMMA AppendIsSequence ==
  ASSUME NEW s, IsSequence(s), NEW e
  PROVE  /\ IsSequence(s \o <<e>>) /\ Len(s) \in Nat
         /\ Len(s \o <<e>>) = Len(s) + 1
<1>1. PICK T : s \in Seq(T)
  BY DEF IsSequence
<1> DEFINE S == T \cup {e}
<1>2. s \in Seq(S)
  BY <1>1, SeqMonotonic
<1>3. <<e>> \in Seq(S) /\ Len(<<e>>) = 1
  OBVIOUS
<1>4. s \o <<e>> \in Seq(S) /\ Len(s \o <<e>>) = Len(s) + Len(<<e>>)
  BY <1>2, <1>3, ConcatProperties
<1> QED
  BY <1>1, <1>3, <1>4, SequenceOverItself

\* A sequence has a length, and the empty one adds nothing to it.
LEMMA LengthOfSequence ==
  ASSUME NEW s, IsSequence(s)
  PROVE  Len(s) \in Nat /\ s \o << >> = s
<1>1. PICK T : s \in Seq(T)
  BY DEF IsSequence
<1> QED
  BY <1>1, LenProperties, ConcatEmptySeq

\* No element is a sequence, too (stats has no field of its own).
LEMMA EmptyIsSequence == IsSequence(<< >>) /\ Len(<< >>) = 0
<1>1. << >> \in Seq({}) /\ Len(<< >>) = 0
  BY EmptySeq
<1> QED
  BY <1>1, SequenceOverItself

\* Two sequences, one after the other, have the elements of both.
LEMMA BothRanges ==
  ASSUME NEW T, NEW s \in Seq(T), NEW t \in Seq(T)
  PROVE  s \o t \in Seq(T) /\ Range(s \o t) = Range(s) \cup Range(t)
<1> DEFINE r == s \o t
<1>1. /\ r \in Seq(T) /\ Len(r) = Len(s) + Len(t)
      /\ \A i \in 1..Len(s) : r[i] = s[i]
      /\ \A i \in 1..Len(t) : r[Len(s) + i] = t[i]
  BY ConcatProperties
<1> HIDE DEF r
<1>2. DOMAIN r = 1..(Len(s) + Len(t)) /\ DOMAIN s = 1..Len(s) /\ DOMAIN t = 1..Len(t)
        /\ Len(s) \in Nat /\ Len(t) \in Nat
  BY <1>1
<1>3. Range(r) \subseteq Range(s) \cup Range(t)
  <2> SUFFICES ASSUME NEW i \in DOMAIN r
               PROVE  r[i] \in Range(s) \cup Range(t)
    BY DEF Range
  <2>1. CASE i \in 1..Len(s)
    BY <1>1, <1>2, <2>1 DEF Range
  <2>2. CASE i \notin 1..Len(s)
    <3>1. i - Len(s) \in 1..Len(t) /\ i = Len(s) + (i - Len(s))
      BY <1>2, <2>2
    <3>2. r[i] = t[i - Len(s)]
      BY <1>1, <3>1
    <3> QED BY <1>2, <3>1, <3>2 DEF Range
  <2> QED BY <2>1, <2>2
<1>4. Range(s) \cup Range(t) \subseteq Range(r)
  <2>1. \A i \in 1..Len(s) : i \in DOMAIN r
    BY <1>2
  <2>2. \A i \in 1..Len(t) : Len(s) + i \in DOMAIN r
    BY <1>2
  <2> QED BY <1>1, <1>2, <2>1, <2>2 DEF Range
<1> QED BY <1>1, <1>3, <1>4 DEF r

\* One sequence after another has the elements of both.
LEMMA ConcatIsSequence ==
  ASSUME NEW s, IsSequence(s), NEW t, IsSequence(t)
  PROVE  IsSequence(s \o t) /\ Range(s \o t) = Range(s) \cup Range(t)
<1> DEFINE T == Range(s) \cup Range(t)
<1>1. s \in Seq(Range(s)) /\ t \in Seq(Range(t))
  BY DEF IsSequence, Range
<1>2. Range(s) \subseteq T /\ Range(t) \subseteq T
  OBVIOUS
<1>3. s \in Seq(T) /\ t \in Seq(T)
  BY <1>1, <1>2, SeqMonotonic
<1> HIDE DEF T
<1>4. s \o t \in Seq(T) /\ Range(s \o t) = Range(s) \cup Range(t)
  BY <1>3, BothRanges
<1> QED
  BY <1>4, SequenceOverItself

LEMMA LengthOfConcat ==
  ASSUME NEW s, IsSequence(s), NEW t, IsSequence(t)
  PROVE  Len(s \o t) = Len(s) + Len(t)
<1> DEFINE T == Range(s) \cup Range(t)
<1>1. s \in Seq(Range(s)) /\ t \in Seq(Range(t))
  BY DEF IsSequence, Range
<1>2. s \in Seq(T) /\ t \in Seq(T)
  BY <1>1, SeqMonotonic
<1> QED BY <1>2, ConcatProperties

\* A tuple is a sequence of its elements: of one, of two (most of the handlers with a
\* binding), of three (switch, the multiplexers, the filters) and of four (the thresholds
\* and buffer).
LEMMA SingletonIsSequence ==
  ASSUME NEW a
  PROVE  IsSequence(<<a>>) /\ Len(<<a>>) = 1 /\ Range(<<a>>) = {a}
<1>1. <<a>> \in Seq({a}) /\ Len(<<a>>) = 1
  OBVIOUS
<1>2. Range(<<a>>) = {a}
  BY DEF Range
<1> QED
  BY <1>1, <1>2, SequenceOverItself

LEMMA PairIsSequence ==
  ASSUME NEW a, NEW b
  PROVE  IsSequence(<<a, b>>) /\ Range(<<a, b>>) = {a, b}
<1>1. <<a, b>> \in Seq({a, b})
  OBVIOUS
<1>2. Range(<<a, b>>) = {a, b}
  BY DEF Range
<1> QED
  BY <1>1, <1>2, SequenceOverItself

LEMMA TripleIsSequence ==
  ASSUME NEW a, NEW b, NEW c
  PROVE  IsSequence(<<a, b, c>>) /\ Range(<<a, b, c>>) = {a, b, c}
<1>1. <<a, b, c>> \in Seq({a, b, c})
  OBVIOUS
<1>2. Range(<<a, b, c>>) = {a, b, c}
  BY DEF Range
<1> QED
  BY <1>1, <1>2, SequenceOverItself

LEMMA QuadrupleIsSequence ==
  ASSUME NEW a, NEW b, NEW c, NEW d
  PROVE  IsSequence(<<a, b, c, d>>) /\ Range(<<a, b, c, d>>) = {a, b, c, d}
<1>1. <<a, b, c, d>> \in Seq({a, b, c, d})
  OBVIOUS
<1>2. Range(<<a, b, c, d>>) = {a, b, c, d}
  BY DEF Range
<1> QED
  BY <1>1, <1>2, SequenceOverItself

-----------------------------------------------------------------------------
(* Recursive functions over sequences: each exists, by the least number for  *)
(* which it would not, and has its property, by the least one where it fails *)

LEMMA LeastNumber ==
  ASSUME NEW S \in SUBSET Nat, S # {}
  PROVE  \E m \in S : \A k \in S : m <= k
<1>1. IsWellFoundedOn(OpToRel(<, Nat), Nat)
  BY NatLessThanWellFounded
<1>2. PICK m \in S : \A k \in S : ~(<<k, m>> \in OpToRel(<, Nat))
  BY <1>1, WFMin
<1>3. \A k \in S : ~(k < m)
  BY <1>2 DEF OpToRel
<1> QED BY <1>3

FlattenStep(seqs, f, n) == IF n = 1 THEN seqs[n] ELSE f[n - 1] \o seqs[n]

LEMMA FlattenExists ==
  ASSUME NEW seqs, NEW n \in Nat
  PROVE  \E f : f = [k \in 1..n |-> FlattenStep(seqs, f, k)]
<1> DEFINE Fails == {m \in 0..n : ~\E f : f = [k \in 1..m |-> FlattenStep(seqs, f, k)]}
<1> SUFFICES ASSUME Fails # {}
             PROVE  FALSE
  OBVIOUS
<1>1. PICK m \in Fails : \A k \in Fails : m <= k
  <2>1. Fails \in SUBSET Nat
    OBVIOUS
  <2> QED BY <2>1, LeastNumber
<1>2. m # 0
  <2> DEFINE f == [k \in 1..0 |-> << >>]
  <2>1. f = [k \in 1..0 |-> FlattenStep(seqs, f, k)]
    OBVIOUS
  <2> QED BY <1>1, <2>1
<1>3. m \in Nat /\ m - 1 \in 0..n /\ ~(m <= m - 1)
  BY <1>1, <1>2
<1>4. PICK f : f = [k \in 1..(m - 1) |-> FlattenStep(seqs, f, k)]
  BY <1>1, <1>3
<1> DEFINE g == [k \in 1..m |-> FlattenStep(seqs, f, k)]
<1>5. \A k \in 1..(m - 1) : g[k] = f[k]
  BY <1>3, <1>4
<1>6. \A k \in 1..m : k # 1 => k - 1 \in 1..(m - 1)
  BY <1>3
<1>7. \A k \in 1..m : FlattenStep(seqs, f, k) = FlattenStep(seqs, g, k)
  <2> HIDE DEF g
  <2> QED BY <1>5, <1>6 DEF FlattenStep
<1>8. g = [k \in 1..m |-> FlattenStep(seqs, g, k)]
  BY <1>7
<1> HIDE DEF g
<1> QED BY <1>1, <1>8

\* A sequence of sequences gives one of all of their elements.
LEMMA FlattenRight ==
  ASSUME NEW T, NEW seqs \in Seq(Seq(T))
  PROVE  /\ FlattenSeq(seqs) \in Seq(T)
         /\ Range(FlattenSeq(seqs)) = UNION {Range(seqs[i]) : i \in DOMAIN seqs}
<1> DEFINE n == Len(seqs)
           h == CHOOSE f : f = [k \in 1..n |-> FlattenStep(seqs, f, k)]
           Upto(m) == UNION {Range(seqs[i]) : i \in 1..m}
           Right(m) == h[m] \in Seq(T) /\ Range(h[m]) = Upto(m)
<1>1. n \in Nat /\ DOMAIN seqs = 1..n /\ \A i \in 1..n : seqs[i] \in Seq(T)
  OBVIOUS
<1>2. CASE n = 0
  <2>1. FlattenSeq(seqs) = << >> /\ DOMAIN seqs = {}
    BY <1>1, <1>2 DEF FlattenSeq
  <2> QED BY <2>1 DEF Range
<1>3. CASE n # 0
  <2>1. FlattenSeq(seqs) = h[n]
    BY <1>3 DEF FlattenSeq, FlattenStep
  <2>2. h = [k \in 1..n |-> FlattenStep(seqs, h, k)]
    BY <1>1, FlattenExists
  <2> HIDE DEF h, n
  <2>3. \A k \in 1..n : h[k] = FlattenStep(seqs, h, k)
    BY <2>2
  <2> DEFINE Fails == {m \in 1..n : ~Right(m)}
  <2>4. Fails = {}
    <3> SUFFICES ASSUME Fails # {}
                 PROVE  FALSE
      OBVIOUS
    <3>1. PICK m \in Fails : \A k \in Fails : m <= k
      <4>1. Fails \in SUBSET Nat
        BY <1>1
      <4> QED BY <4>1, LeastNumber
    <3>2. m \in 1..n /\ seqs[m] \in Seq(T)
      BY <1>1
    <3>3. CASE m = 1
      <4>1. h[m] = seqs[m]
        BY <2>3, <3>2, <3>3 DEF FlattenStep
      <4>2. Upto(m) = Range(seqs[m])
        BY <3>3
      <4> QED BY <3>1, <3>2, <4>1, <4>2
    <3>4. CASE m # 1
      <4>1. m - 1 \in 1..n /\ ~(m <= m - 1)
        BY <1>1, <3>2, <3>4
      <4>2. Right(m - 1)
        BY <3>1, <4>1
      <4>3. h[m] = h[m - 1] \o seqs[m]
        BY <2>3, <3>2, <3>4 DEF FlattenStep
      <4> DEFINE s == h[m - 1]
                 t == seqs[m]
      <4>4. s \in Seq(T) /\ t \in Seq(T) /\ Range(s) = Upto(m - 1)
        BY <3>2, <4>2
      <4>5. Upto(m) = Upto(m - 1) \cup Range(t)
        <5>1. \A i : i \in 1..m <=> i \in 1..(m - 1) \/ i = m
          BY <1>1, <3>2, <3>4
        <5> QED BY <5>1
      <4> HIDE DEF s, t
      <4>6. s \o t \in Seq(T) /\ Range(s \o t) = Range(s) \cup Range(t)
        BY <4>4, BothRanges
      <4>7. Right(m)
        <5>1. h[m] = s \o t
          BY <4>3 DEF s, t
        <5> HIDE DEF Upto
        <5> QED BY <4>4, <4>5, <4>6, <5>1
      <4> QED BY <3>1, <4>7
    <3> QED BY <3>3, <3>4
  <2>5. Right(n)
    <3>1. n \in 1..n
      BY <1>1, <1>3
    <3> QED BY <2>4, <3>1
  <2> QED BY <1>1, <2>1, <2>5
<1> QED BY <1>2, <1>3

\* The same of sequences over whatever they hold.
LEMMA FlattenIsSequence ==
  ASSUME NEW seqs, IsSequence(seqs), \A i \in DOMAIN seqs : IsSequence(seqs[i])
  PROVE  /\ IsSequence(FlattenSeq(seqs))
         /\ Range(FlattenSeq(seqs)) = UNION {Range(seqs[i]) : i \in DOMAIN seqs}
<1> DEFINE T == UNION {Range(seqs[i]) : i \in DOMAIN seqs}
<1>1. \A i \in DOMAIN seqs : seqs[i] \in Seq(T)
  <2> SUFFICES ASSUME NEW i \in DOMAIN seqs
               PROVE  seqs[i] \in Seq(T)
    OBVIOUS
  <2>1. seqs[i] \in Seq(Range(seqs[i])) /\ Range(seqs[i]) \subseteq T
    BY DEF IsSequence, Range
  <2> QED BY <2>1, SeqMonotonic
<1>2. {seqs[i] : i \in DOMAIN seqs} \subseteq Seq(T)
  BY <1>1
<1>3. seqs \in Seq(Seq(T))
  BY <1>2, SeqMonotonic DEF IsSequence
<1> HIDE DEF T
<1>4. FlattenSeq(seqs) \in Seq(T)
  BY <1>3, FlattenRight
<1> QED BY <1>3, <1>4, FlattenRight, SequenceOverItself DEF T

\* A function on the positions of a sequence is one.
LEMMA MappedIsSequence ==
  ASSUME NEW s, IsSequence(s), NEW f, f = [i \in DOMAIN s |-> f[i]]
  PROVE  IsSequence(f) /\ Len(f) = Len(s)
<1>1. Len(s) \in Nat /\ DOMAIN s = 1..Len(s)
  BY LenProperties DEF IsSequence
<1>2. f \in [1..Len(s) -> {f[i] : i \in DOMAIN f}]
  BY <1>1
<1>3. IsSequence(f)
  BY <1>1, <1>2, SeqDef DEF IsSequence
<1> QED BY <1>1, <1>3, LenProperties DEF IsSequence

KnownStep(refs, ids, f, n) ==
  IF n = 0 THEN << >>
  ELSE IF refs[n] \in ids THEN Append(f[n - 1], refs[n]) ELSE f[n - 1]

LEMMA KnownExists ==
  ASSUME NEW refs, NEW ids, NEW n \in Nat
  PROVE  \E f : f = [k \in 0..n |-> KnownStep(refs, ids, f, k)]
<1> DEFINE Fails == {m \in 0..n : ~\E f : f = [k \in 0..m |-> KnownStep(refs, ids, f, k)]}
<1> SUFFICES ASSUME Fails # {}
             PROVE  FALSE
  OBVIOUS
<1>1. PICK m \in Fails : \A k \in Fails : m <= k
  <2>1. Fails \in SUBSET Nat
    OBVIOUS
  <2> QED BY <2>1, LeastNumber
<1>2. m # 0
  <2> DEFINE f == [k \in 0..0 |-> << >>]
  <2>1. f = [k \in 0..0 |-> KnownStep(refs, ids, f, k)]
    BY DEF KnownStep
  <2> QED BY <1>1, <2>1
<1>3. m \in Nat /\ m - 1 \in 0..n /\ ~(m <= m - 1)
  BY <1>1, <1>2
<1>4. PICK f : f = [k \in 0..(m - 1) |-> KnownStep(refs, ids, f, k)]
  BY <1>1, <1>3
<1> DEFINE g == [k \in 0..m |-> KnownStep(refs, ids, f, k)]
<1>5. \A k \in 0..(m - 1) : g[k] = f[k]
  BY <1>3, <1>4
<1>6. \A k \in 0..m : k # 0 => k - 1 \in 0..(m - 1)
  BY <1>3
<1>7. \A k \in 0..m : KnownStep(refs, ids, f, k) = KnownStep(refs, ids, g, k)
  <2> HIDE DEF g
  <2> QED BY <1>5, <1>6 DEF KnownStep
<1>8. g = [k \in 0..m |-> KnownStep(refs, ids, g, k)]
  BY <1>7
<1> HIDE DEF g
<1> QED BY <1>1, <1>8

\* What of the first n references is known, and how many they are.
KnownOf(refs, ids, n) == {i \in 1..n : refs[i] \in ids}
KnownIs(refs, ids, n, left) ==
  /\ left \in Seq(Range(refs) \cap ids)
  /\ Len(left) = Cardinality(KnownOf(refs, ids, n))
  /\ Range(left) = {refs[i] : i \in KnownOf(refs, ids, n)}

LEMMA KnownRight ==
  ASSUME NEW refs, IsSequence(refs), NEW ids
  PROVE  /\ IsSequence(Known(refs, ids))
         /\ Range(Known(refs, ids)) = Range(refs) \cap ids
         /\ Len(Known(refs, ids)) = Cardinality({i \in DOMAIN refs : refs[i] \in ids})
<1> DEFINE n == Len(refs)
           h == CHOOSE f : f = [k \in 0..n |-> KnownStep(refs, ids, f, k)]
           T == Range(refs) \cap ids
<1>1. n \in Nat /\ DOMAIN refs = 1..n
  BY LenProperties DEF IsSequence
<1>2. Known(refs, ids) = h[n]
  BY DEF Known, KnownStep
<1>3. h = [k \in 0..n |-> KnownStep(refs, ids, h, k)]
  BY <1>1, KnownExists
<1> HIDE DEF h, n
<1>4. \A k \in 0..n : h[k] = KnownStep(refs, ids, h, k)
  BY <1>3
<1> DEFINE Fails == {m \in 0..n : ~KnownIs(refs, ids, m, h[m])}
<1>5. Fails = {}
  <2> SUFFICES ASSUME Fails # {}
               PROVE  FALSE
    OBVIOUS
  <2>1. PICK m \in Fails : \A k \in Fails : m <= k
    <3>1. Fails \in SUBSET Nat
      BY <1>1
    <3> QED BY <3>1, LeastNumber
  <2>2. m # 0
    <3>1. h[0] = << >>
      BY <1>1, <1>4 DEF KnownStep
    <3>2. KnownOf(refs, ids, 0) = {}
      BY DEF KnownOf
    <3>3. Cardinality(KnownOf(refs, ids, 0)) = 0
      BY <3>2, FS_EmptySet, Zenon
    <3>4. << >> \in Seq(T) /\ Len(<< >>) = 0 /\ Range(<< >>) = {}
      BY EmptySeq DEF Range
    <3>5. KnownIs(refs, ids, 0, << >>)
      BY <3>2, <3>3, <3>4 DEF KnownIs
    <3> QED BY <2>1, <3>1, <3>5
  <2>3. m \in 1..n /\ m - 1 \in 0..n /\ m - 1 \in Nat /\ ~(m <= m - 1)
    BY <1>1, <2>1, <2>2
  <2> DEFINE left == h[m - 1]
             old == KnownOf(refs, ids, m - 1)
             new == KnownOf(refs, ids, m)
  <2>4. KnownIs(refs, ids, m - 1, left)
    BY <2>1, <2>3
  <2>5. h[m] = IF refs[m] \in ids THEN Append(left, refs[m]) ELSE left
    BY <1>4, <2>1, <2>2 DEF KnownStep
  <2> HIDE DEF left
  <2>6. \A i : i \in 1..m <=> i \in 1..(m - 1) \/ i = m
    BY <1>1, <2>3
  <2>7. m \notin old /\ IsFiniteSet(old)
    <3>1. 1 \in Int /\ m - 1 \in Int /\ m \notin 1..(m - 1)
      BY <2>3
    <3>2. IsFiniteSet(1..(m - 1))
      BY <3>1, FS_Interval
    <3>3. old \in SUBSET (1..(m - 1))
      BY DEF KnownOf
    <3> QED BY <3>1, <3>2, <3>3, FS_Subset
  <2>8. CASE refs[m] \notin ids
    <3>1. new = old
      BY <2>6, <2>8 DEF KnownOf
    <3>2. KnownIs(refs, ids, m, left)
      BY <2>4, <3>1 DEF KnownIs
    <3> QED BY <2>1, <2>5, <2>8, <3>2
  <2>9. CASE refs[m] \in ids
    <3>1. new = old \cup {m}
      BY <2>6, <2>9 DEF KnownOf
    <3> HIDE DEF old, new
    <3>2. Cardinality(new) = Cardinality(old) + 1
      BY <2>7, <3>1, FS_AddElement
    <3>3. refs[m] \in T
      BY <1>1, <2>3, <2>9 DEF Range
    <3> HIDE DEF T
    <3>4. left \in Seq(T) /\ Len(left) = Cardinality(old) /\ Range(left) = {refs[i] : i \in old}
      BY <2>4 DEF KnownIs, T, old
    <3> DEFINE one == <<refs[m]>>
               more == left \o one
    <3>5. one \in Seq(T) /\ Range(one) = {refs[m]} /\ Len(one) = 1
      BY <3>3 DEF Range
    <3>6. Append(left, refs[m]) = more
      BY <3>3, <3>4, AppendIsConcat
    <3> HIDE DEF one
    <3>7. more \in Seq(T) /\ Range(more) = Range(left) \cup {refs[m]}
      BY <3>4, <3>5, BothRanges
    <3>8. Len(more) = Len(left) + 1
      <4>1. left \in Seq(T) /\ one \in Seq(T)
        BY <3>4, <3>5
      <4>2. Len(left \o one) = Len(left) + Len(one)
        BY <4>1, ConcatProperties
      <4> QED BY <3>5, <4>2
    <3> HIDE DEF more
    <3>9. Range(more) = {refs[i] : i \in new}
      BY <3>1, <3>4, <3>7
    <3>10. KnownIs(refs, ids, m, more)
      BY <3>2, <3>4, <3>7, <3>8, <3>9 DEF KnownIs, T, new
    <3> QED BY <2>1, <2>5, <2>9, <3>6, <3>10
  <2> QED BY <2>8, <2>9
<1>6. KnownIs(refs, ids, n, Known(refs, ids))
  BY <1>1, <1>2, <1>5
<1>7. KnownOf(refs, ids, n) = {i \in DOMAIN refs : refs[i] \in ids}
  BY <1>1 DEF KnownOf
<1>8. {refs[i] : i \in KnownOf(refs, ids, n)} = Range(refs) \cap ids
  BY <1>7 DEF Range
<1>9. IsSequence(Known(refs, ids))
  BY <1>6, SequenceOverItself DEF KnownIs
<1> QED BY <1>6, <1>7, <1>8, <1>9 DEF KnownIs

-----------------------------------------------------------------------------
(* Sums                                                                      *)

\* What holds of 0, and of the next number with each, holds up to n.
LEMMA UpTo ==
  ASSUME NEW n \in Nat, NEW S, 0 \in S, \A m \in 0..(n - 1) : m \in S => m + 1 \in S
  PROVE  \A m \in 0..n : m \in S
<1> DEFINE Fails == {m \in 0..n : m \notin S}
<1> SUFFICES ASSUME Fails # {}
             PROVE  FALSE
  OBVIOUS
<1>1. PICK m \in Fails : \A k \in Fails : m <= k
  <2>1. Fails \in SUBSET Nat
    OBVIOUS
  <2> QED BY <2>1, LeastNumber
<1>2. m - 1 \in 0..(n - 1) /\ m - 1 \in 0..n /\ ~(m <= m - 1) /\ (m - 1) + 1 = m
  BY <1>1
<1>3. m - 1 \in S
  BY <1>1, <1>2
<1> QED BY <1>1, <1>2, <1>3

TotalStep(numbers, f, n) == IF n = 0 THEN 0 ELSE f[n - 1] + numbers[n]

LEMMA TotalExists ==
  ASSUME NEW numbers, NEW n \in Nat
  PROVE  \E f : f = [k \in 0..n |-> TotalStep(numbers, f, k)]
<1> DEFINE Exists(m) == \E f : f = [k \in 0..m |-> TotalStep(numbers, f, k)]
           S == {m \in 0..n : Exists(m)}
<1>1. Exists(0)
  <2> DEFINE f == [k \in 0..0 |-> 0]
  <2>1. f = [k \in 0..0 |-> TotalStep(numbers, f, k)]
    BY DEF TotalStep
  <2> QED BY <2>1
<1>2. ASSUME NEW m \in 0..(n - 1), Exists(m)
      PROVE  Exists(m + 1)
  <2>1. PICK f : f = [k \in 0..m |-> TotalStep(numbers, f, k)]
    BY <1>2
  <2> DEFINE g == [k \in 0..(m + 1) |-> TotalStep(numbers, f, k)]
  <2>2. \A k \in 0..m : g[k] = f[k]
    BY <2>1
  <2>3. \A k \in 0..(m + 1) : k # 0 => k - 1 \in 0..m
    OBVIOUS
  <2>4. \A k \in 0..(m + 1) : TotalStep(numbers, f, k) = TotalStep(numbers, g, k)
    <3> HIDE DEF g
    <3> QED BY <2>2, <2>3 DEF TotalStep
  <2>5. g = [k \in 0..(m + 1) |-> TotalStep(numbers, g, k)]
    BY <2>4
  <2> HIDE DEF g
  <2> QED BY <2>5
<1> HIDE DEF Exists
<1>3. 0 \in S /\ \A m \in 0..(n - 1) : m \in S => m + 1 \in S
  BY <1>1, <1>2
<1>4. n \in S
  <2> HIDE DEF S
  <2> QED BY <1>3, UpTo
<1> QED BY <1>4 DEF Exists

\* A sum is that of its first numbers and the last one.
LEMMA TotalUnfolds ==
  ASSUME NEW s, IsSequence(s)
  PROVE  \E h : /\ Total(s) = h[Len(s)] /\ h[0] = 0
                /\ \A k \in 0..(Len(s) - 1) : h[k + 1] = h[k] + s[k + 1]
<1> DEFINE n == Len(s)
           h == CHOOSE f : f = [k \in 0..n |-> TotalStep(s, f, k)]
<1>1. n \in Nat
  BY LengthOfSequence
<1>2. Total(s) = h[n]
  BY DEF Total, TotalStep
<1>3. h = [k \in 0..n |-> TotalStep(s, h, k)]
  BY <1>1, TotalExists
<1> HIDE DEF h, n
<1>4. \A k \in 0..n : h[k] = TotalStep(s, h, k)
  BY <1>3
<1>5. h[0] = 0
  BY <1>1, <1>4 DEF TotalStep
<1>6. ASSUME NEW k \in 0..(n - 1)
      PROVE  h[k + 1] = h[k] + s[k + 1]
  <2>1. k + 1 \in 0..n /\ k + 1 # 0 /\ (k + 1) - 1 = k
    BY <1>1
  <2> QED BY <1>4, <2>1 DEF TotalStep
<1> QED BY <1>2, <1>5, <1>6 DEF n

\* The sum of natural numbers is one.
LEMMA TotalIsNat ==
  ASSUME NEW s, IsSequence(s), \A i \in DOMAIN s : s[i] \in Nat
  PROVE  Total(s) \in Nat
<1>1. Len(s) \in Nat /\ DOMAIN s = 1..Len(s)
  BY LenProperties DEF IsSequence
<1>2. PICK h : /\ Total(s) = h[Len(s)] /\ h[0] = 0
               /\ \A k \in 0..(Len(s) - 1) : h[k + 1] = h[k] + s[k + 1]
  BY TotalUnfolds
<1> DEFINE S == {m \in 0..Len(s) : h[m] \in Nat}
<1>3. 0 \in S /\ \A m \in 0..(Len(s) - 1) : m \in S => m + 1 \in S
  <2>1. \A m \in 0..(Len(s) - 1) : m + 1 \in DOMAIN s
    BY <1>1
  <2> QED BY <1>1, <1>2, <2>1
<1>4. Len(s) \in S
  <2> HIDE DEF S
  <2>1. \A m \in 0..Len(s) : m \in S
    BY <1>1, <1>3, UpTo
  <2> QED BY <1>1, <2>1
<1> QED BY <1>2, <1>4

\* The first number can as well be added to the sum of the others.
LEMMA TotalOfTail ==
  ASSUME NEW s, IsSequence(s), s # << >>, \A i \in DOMAIN s : s[i] \in Nat
  PROVE  /\ Total(s) = s[1] + Total(Tail(s))
         /\ s[1] \in Nat /\ Total(Tail(s)) \in Nat
<1> DEFINE t == Tail(s)
<1>1. /\ IsSequence(t) /\ Len(s) \in Nat /\ Len(t) \in Nat /\ Len(s) = Len(t) + 1
      /\ 1 \in DOMAIN s /\ \A i \in DOMAIN t : i + 1 \in DOMAIN s /\ t[i] = s[i + 1]
      /\ DOMAIN t = 1..Len(t)
  BY TailIsSequence, LenProperties DEF IsSequence
<1> HIDE DEF t
<1>2. PICK h : /\ Total(s) = h[Len(s)] /\ h[0] = 0
               /\ \A k \in 0..(Len(s) - 1) : h[k + 1] = h[k] + s[k + 1]
  BY TotalUnfolds
<1>3. PICK g : /\ Total(t) = g[Len(t)] /\ g[0] = 0
               /\ \A k \in 0..(Len(t) - 1) : g[k + 1] = g[k] + t[k + 1]
  BY <1>1, TotalUnfolds
<1> DEFINE S == {m \in 0..Len(t) : g[m] \in Nat /\ h[m + 1] = s[1] + g[m]}
<1>4. s[1] \in Nat /\ \A i \in DOMAIN t : t[i] \in Nat
  BY <1>1
<1>5. 0 \in S
  <2>1. 0 \in 0..(Len(s) - 1) /\ 0 \in 0..Len(t)
    BY <1>1
  <2>2. h[0 + 1] = h[0] + s[0 + 1]
    BY <1>2, <2>1
  <2> QED BY <1>2, <1>3, <1>4, <2>1, <2>2
<1>6. ASSUME NEW m \in 0..(Len(t) - 1), m \in S
      PROVE  m + 1 \in S
  <2>1. /\ m + 1 \in 0..Len(t) /\ m + 1 \in DOMAIN t
        /\ m + 1 \in 0..(Len(s) - 1)
    BY <1>1
  <2>2. g[m + 1] = g[m] + t[m + 1] /\ t[m + 1] = s[(m + 1) + 1] /\ t[m + 1] \in Nat
    BY <1>1, <1>3, <1>4, <2>1
  <2>3. h[(m + 1) + 1] = h[m + 1] + s[(m + 1) + 1]
    BY <1>2, <2>1
  <2> QED BY <1>4, <1>6, <2>1, <2>2, <2>3
<1>7. Len(t) \in S
  <2> HIDE DEF S
  <2>1. \A m \in 0..Len(t) : m \in S
    BY <1>1, <1>5, <1>6, UpTo
  <2> QED BY <1>1, <2>1
<1> QED BY <1>1, <1>2, <1>3, <1>4, <1>7 DEF t

\* Where every number is 1 they are counted.
LEMMA TotalOfOnes ==
  ASSUME NEW s, IsSequence(s), \A i \in DOMAIN s : s[i] = 1
  PROVE  Total(s) = Len(s)
<1>1. Len(s) \in Nat /\ DOMAIN s = 1..Len(s)
  BY LenProperties DEF IsSequence
<1>2. PICK h : /\ Total(s) = h[Len(s)] /\ h[0] = 0
               /\ \A k \in 0..(Len(s) - 1) : h[k + 1] = h[k] + s[k + 1]
  BY TotalUnfolds
<1> DEFINE S == {m \in 0..Len(s) : h[m] = m}
<1>3. 0 \in S /\ \A m \in 0..(Len(s) - 1) : m \in S => m + 1 \in S
  <2>1. \A m \in 0..(Len(s) - 1) : m + 1 \in DOMAIN s
    BY <1>1
  <2> QED BY <1>1, <1>2, <2>1
<1>4. Len(s) \in S
  <2> HIDE DEF S
  <2>1. \A m \in 0..Len(s) : m \in S
    BY <1>1, <1>3, UpTo
  <2> QED BY <1>1, <2>1
<1> QED BY <1>2, <1>4

\* Of sequences with one element at most, there are as many elements as have one.
LEMMA FlattenOfSingles ==
  ASSUME NEW seqs, IsSequence(seqs),
         \A i \in DOMAIN seqs : seqs[i] = << >> \/ \E e : seqs[i] = <<e>>
  PROVE  /\ IsSequence(FlattenSeq(seqs))
         /\ Len(FlattenSeq(seqs)) = Cardinality({i \in DOMAIN seqs : seqs[i] # << >>})
<1> DEFINE n == Len(seqs)
           h == CHOOSE f : f = [k \in 1..n |-> FlattenStep(seqs, f, k)]
           Upto(m) == {i \in 1..m : seqs[i] # << >>}
           Right(m) == /\ IsSequence(h[m]) /\ IsFiniteSet(Upto(m))
                       /\ Len(h[m]) = Cardinality(Upto(m))
<1>1. n \in Nat /\ DOMAIN seqs = 1..n
  BY LenProperties DEF IsSequence
<1>2. CASE n = 0
  <2>1. FlattenSeq(seqs) = << >> /\ DOMAIN seqs = {}
    BY <1>1, <1>2 DEF FlattenSeq
  <2>2. {i \in DOMAIN seqs : seqs[i] # << >>} = {}
    BY <2>1
  <2> QED BY <2>1, <2>2, EmptyIsSequence, FS_EmptySet
<1>3. CASE n # 0
  <2>1. FlattenSeq(seqs) = h[n]
    BY <1>3 DEF FlattenSeq, FlattenStep
  <2>2. h = [k \in 1..n |-> FlattenStep(seqs, h, k)]
    BY <1>1, FlattenExists
  <2> HIDE DEF h, n
  <2>3. \A k \in 1..n : h[k] = FlattenStep(seqs, h, k)
    BY <2>2
  <2>4. \A i \in 1..n : IsSequence(seqs[i])
    BY <1>1, EmptyIsSequence, SingletonIsSequence
  <2> DEFINE S == {m \in 0..n : m = 0 \/ Right(m)}
  <2>5. ASSUME NEW m \in 0..(n - 1), m \in S
        PROVE  m + 1 \in S
    <3> DEFINE k == m + 1
               left == IF m = 0 THEN << >> ELSE h[m]
    <3>1. k \in 1..n /\ k \in 0..n /\ (k = 1 <=> m = 0) /\ k - 1 = m /\ m \in Nat
      BY <1>1
    <3>2. /\ IsSequence(left) /\ IsFiniteSet(Upto(m)) /\ Len(left) = Cardinality(Upto(m))
      <4>1. CASE m = 0
        <5>1. Upto(m) = {}
          BY <4>1
        <5> QED BY <4>1, <5>1, EmptyIsSequence, FS_EmptySet
      <4> QED BY <2>5, <4>1
    <3>3. h[k] = left \o seqs[k]
      <4>1. CASE m = 0
        <5>1. h[k] = seqs[k]
          BY <2>3, <3>1, <4>1 DEF FlattenStep
        <5>2. << >> \o seqs[k] = seqs[k]
          BY <2>4, <3>1, ConcatIsSequence, EmptyIsSequence
        <5> QED BY <4>1, <5>1, <5>2
      <4>2. CASE m # 0
        BY <2>3, <3>1, <4>2 DEF FlattenStep
      <4> QED BY <4>1, <4>2
    <3>4. \A i : i \in 1..k <=> i \in 1..m \/ i = k
      BY <3>1
    <3> HIDE DEF left
    <3>5. CASE seqs[k] = << >>
      <4>1. h[k] = left
        BY <3>2, <3>3, <3>5, LengthOfSequence
      <4>2. Upto(k) = Upto(m)
        BY <3>4, <3>5
      <4> QED BY <3>1, <3>2, <4>1, <4>2
    <3>6. CASE \E e : seqs[k] = <<e>>
      <4>1. PICK e : seqs[k] = <<e>>
        BY <3>6
      <4>2. IsSequence(h[k]) /\ Len(h[k]) = Len(left) + 1
        BY <3>2, <3>3, <4>1, AppendIsSequence
      <4>3. Upto(k) = Upto(m) \cup {k} /\ k \notin Upto(m)
        <5>1. <<e>> # << >> /\ k \notin 1..m
          BY <3>1, SingletonIsSequence, EmptyIsSequence
        <5> QED BY <3>4, <4>1, <5>1
      <4>4. IsFiniteSet(Upto(k)) /\ Cardinality(Upto(k)) = Cardinality(Upto(m)) + 1
        BY <3>2, <4>3, FS_AddElement
      <4> QED BY <3>1, <3>2, <4>2, <4>4
    <3> QED BY <1>1, <3>1, <3>5, <3>6
  <2>6. n \in S
    <3>1. 0 \in S
      BY <1>1
    <3> HIDE DEF S
    <3> QED BY <1>1, <2>5, <3>1, UpTo
  <2>7. Upto(n) = {i \in DOMAIN seqs : seqs[i] # << >>}
    BY <1>1
  <2> QED BY <1>3, <2>1, <2>6, <2>7
<1> QED BY <1>2, <1>3

-----------------------------------------------------------------------------
(* Handlers                                                                  *)

\* What the handler of a type of program names: one binding of sources to outputs, two
\* operands of expression and toggle, and names as they stand of gateway and sequencer;
\* but for six types, one of the fields writes the binding.
Operands(t, e) ==
  \/ t = "expression" /\ e.name = "op"
  \/ t = "toggle" /\ e.name = "values"
FieldOf(t, e) ==
  /\ e.shape = "pairs" => e = IoBind
  /\ (e.shape = "words" /\ e.fit = 2) => Operands(t, e)
  /\ e.shape \in {"names", "strictbinds"} => t \in {"gateway", "sequencer"}
  /\ e.shape = "strictbinds" => e.refs = 2 /\ e.defaults = <<0, 1>>
Binding == {"pairs", "list", "names", "binds", "strictbinds"}
HandlerOf(t, h) ==
  /\ IsSequence(h.fields) /\ IsSequence(h.encode)
  /\ \A e \in Range(h.fields) \cup Range(h.encode) : FieldOf(t, e)
  /\ \/ t \in {"stats", "adjust", "switch", "bitpack", "bitmerge", "ahrs"}
     \/ \E e \in Range(h.fields) : e.shape \in Binding

LEMMA HandlersNameFields ==
  ASSUME NEW t \in DOMAIN Handlers
  PROVE  HandlerOf(t, Handlers[t])
<1> USE DEF Handler, FieldOf, HandlerOf, Binding, Operands
<1> USE DEF Field, IoBind, Pair, Uint32, Words, Bound, Single, List, Chosen, Rows, Binds
<1>1. HandlerOf("stats", Stats)
  BY EmptyIsSequence, SingletonIsSequence DEF Stats, Range
<1>2. \A h \in {StatsAvg, StatsCount, StatsMax, StatsMin, StatsRms, StatsSum, Dummy, Latest, Redirect} :
        HandlerOf(t, h)
  BY SingletonIsSequence DEF StatsAvg, StatsCount, StatsMax, StatsMin, StatsRms, StatsSum, Dummy, Latest, Redirect
<1>3. HandlerOf("adjust", Adjust)
  BY SingletonIsSequence, PairIsSequence DEF Adjust
<1>4. HandlerOf("gateway", Gateway)
  BY SingletonIsSequence DEF Gateway
<1>5. \A h \in {MovingAvg, Sampling, Counter, BitSplit} : HandlerOf(t, h)
  BY PairIsSequence DEF MovingAvg, Sampling, Counter, BitSplit
<1>6. HandlerOf("expression", Expression) /\ HandlerOf("toggle", Toggle)
  BY PairIsSequence DEF Expression, Toggle
<1>7. \A h \in {OneToMany, ManyToOne, VecSplit, VecPack} : HandlerOf(t, h)
  BY PairIsSequence DEF OneToMany, ManyToOne, VecSplit, VecPack
<1>8. /\ HandlerOf("switch", Switch) /\ HandlerOf("bitpack", BitPack)
      /\ HandlerOf("bitmerge", BitMerge)
  BY PairIsSequence DEF Switch, BitPack, BitMerge
<1>9. \A h \in {IirFilter, Saturate, IoMux, IoDemux, Selector} : HandlerOf(t, h)
  BY TripleIsSequence DEF IirFilter, Saturate, IoMux, IoDemux, Selector
<1>10. HandlerOf("sequencer", Sequencer)
  BY TripleIsSequence DEF Sequencer
<1>11. HandlerOf(t, Threshold) /\ HandlerOf(t, ThresholdValue)
  BY QuadrupleIsSequence DEF Threshold, ThresholdValue
<1>12. HandlerOf(t, Buffer)
  BY QuadrupleIsSequence DEF Buffer
<1>13. HandlerOf("ahrs", Ahrs)
  BY PairIsSequence, TripleIsSequence, ConcatIsSequence DEF Ahrs
<1> HIDE DEF Handler, FieldOf, HandlerOf
<1> QED
  BY <1>1, <1>2, <1>3, <1>4, <1>5, <1>6, <1>7, <1>8, <1>9, <1>10, <1>11, <1>12, <1>13 DEF Handlers

\* Of the protocols with a config of its own shape, one field has bindings that must all
\* be known, the two of modbus have registers, and can has objects.
Grouped(t, e) ==
  /\ e.shape = "registers" => e = Registers /\ t \in {"modbus_rtu", "modbus_tcp"}
  /\ e.shape = "objects" => e = Objects /\ t = "can"
  /\ e.shape \in {"option", "bindings", "named", "unnamed", "objects", "registers"}
ProtocolOf(t, h) ==
  /\ IsSequence(h.fields) /\ IsSequence(h.encode)
  /\ \A e \in Range(h.encode) : e.shape = "bindings" => e = Standard
  /\ \A e \in Range(h.fields) : e.shape # "unnamed"
  /\ \A e \in Range(h.encode) \cup Range(h.fields) : Grouped(t, e)

LEMMA ProtocolsNameFields ==
  ASSUME NEW t \in DOMAIN Protocols
  PROVE  ProtocolOf(t, Protocols[t])
<1> USE DEF Alike, Differing, ProtocolOf, Grouped, Field, Option, Standard, IoBind2, Unnamed, Objects, Registers
<1>1. ProtocolOf(t, DummyProto)
  BY SingletonIsSequence DEF DummyProto
<1>2. ProtocolOf(t, Serial) /\ ProtocolOf(t, Ipc)
  BY TripleIsSequence DEF Serial, Ipc
<1>3. ProtocolOf(t, Udp)
  BY PairIsSequence DEF Udp
<1>4. ProtocolOf(t, Shell)
  BY PairIsSequence, TripleIsSequence DEF Shell
<1>5. ProtocolOf(t, NxscopeDummy)
  BY SingletonIsSequence, PairIsSequence DEF NxscopeDummy
<1>6. ProtocolOf(t, NxscopeSerial)
  BY SingletonIsSequence, PairIsSequence, ConcatIsSequence DEF NxscopeSerial
<1>7. ProtocolOf(t, NxscopeUdp)
  BY PairIsSequence, TripleIsSequence DEF NxscopeUdp
<1>8. ProtocolOf("can", Can)
  BY PairIsSequence, TripleIsSequence DEF Can
<1>9. ProtocolOf("modbus_rtu", ModbusRtu)
  BY TripleIsSequence DEF ModbusRtu
<1>10. ProtocolOf("modbus_tcp", ModbusTcp)
  BY PairIsSequence, TripleIsSequence DEF ModbusTcp
<1> HIDE DEF Alike, Differing, ProtocolOf, Grouped
<1> QED
  BY <1>1, <1>2, <1>3, <1>4, <1>5, <1>6, <1>7, <1>8, <1>9, <1>10 DEF Protocols

\* The fields of nimble and of wakaama, of which one has the servers and one the resources.
Services == {Option("gap_name"), Dis, Bas, Aios, Ess, Imds, Ots, Custom}
LwM2M(e) ==
  /\ e.shape \in {"option", "fallback", "servers", "devicebind", "resources"}
  /\ (e.shape = "servers" \/ e.name = "servers") => e = Servers
  /\ (e.shape = "resources" \/ e.name = "objects") => e = Resources

LEMMA OthersNameFields ==
  /\ IsSequence(Nimble.encode) /\ IsSequence(Nimble.fields)
  /\ Range(Nimble.fields) = Services
  /\ IsSequence(Wakaama.encode) /\ IsSequence(Wakaama.fields)
  /\ Resources \in Range(Wakaama.encode)
  /\ \A e \in Range(Wakaama.fields) \cup Range(Wakaama.encode) : LwM2M(e)
<1>1. IsSequence(Nimble.encode) /\ IsSequence(Nimble.fields) /\ Range(Nimble.fields) = Services
  <2> DEFINE gap == Option("gap_name")
             all == <<gap, Dis, Bas, Aios, Ess, Imds, Ots, Custom>>
  <2> HIDE DEF gap
  <2>1. all \in Seq({gap, Dis, Bas, Aios, Ess, Imds, Ots, Custom})
    OBVIOUS
  <2>2. Range(all) = {gap, Dis, Bas, Aios, Ess, Imds, Ots, Custom}
    <3>1. DOMAIN all = 1..8
      OBVIOUS
    <3> QED BY <3>1 DEF Range
  <2>3. Nimble.encode = all /\ Nimble.fields = all
    BY DEF Nimble, Alike, Differing, gap
  <2> HIDE DEF all
  <2> QED BY <2>1, <2>2, <2>3, SequenceOverItself DEF Services, gap
<1>2. /\ IsSequence(OneServer)
      /\ Range(OneServer) = {Fallback("server_host"), Fallback("server_port"), Fallback("lifetime")}
  BY TripleIsSequence DEF OneServer
<1>3. /\ IsSequence(Device)
      /\ \A e \in Range(Device) :
           e.shape \in {"option", "devicebind"} /\ e.name \notin {"servers", "objects"}
  <2> DEFINE T == {Device[i] : i \in 1..7}
  <2>1. Device \in Seq(T) /\ DOMAIN Device = 1..7
    BY DEF Device
  <2>2. \A i \in 1..7 :
          Device[i].shape \in {"option", "devicebind"} /\ Device[i].name \notin {"servers", "objects"}
    BY DEF Device, Option, DeviceBind, Field
  <2> QED BY <2>1, <2>2, SequenceOverItself DEF Range
<1>4. \A s, t : IsSequence(s) /\ IsSequence(t) => IsSequence(s \o t) /\ Range(s \o t) = Range(s) \cup Range(t)
  BY ConcatIsSequence
<1>5. IsSequence(<<Resources>>) /\ Range(<<Resources>>) = {Resources}
  BY SingletonIsSequence
<1>6. \A a, b, c : IsSequence(<<a, b, c>>) /\ Range(<<a, b, c>>) = {a, b, c}
  BY TripleIsSequence
<1> DEFINE first == <<Option("endpoint"), Option("local_port"), Option("queue_mode")>>
           middle == first \o OneServer \o Device
           last == <<Servers, Resources>>
           written == <<Option("endpoint"), Option("local_port"), Servers>> \o OneServer \o Device
<1>7. /\ IsSequence(middle)
      /\ Range(middle) = Range(first) \cup Range(OneServer) \cup Range(Device)
      /\ IsSequence(written)
      /\ Range(written) \subseteq Range(first) \cup {Servers} \cup Range(OneServer) \cup Range(Device)
  BY <1>2, <1>3, <1>4, <1>6
<1>8. IsSequence(last) /\ Range(last) = {Servers, Resources}
  BY PairIsSequence
<1>9. \A e \in Range(first) \cup Range(OneServer) : LwM2M(e)
  BY <1>2, <1>6 DEF LwM2M, Option, Fallback, Field
<1>10. \A e \in Range(Device) : LwM2M(e)
  BY <1>3 DEF LwM2M
<1>11. LwM2M(Servers) /\ LwM2M(Resources)
  BY DEF LwM2M, Servers, Resources, Field
<1>12. Wakaama.fields = middle \o last /\ Wakaama.encode = written \o <<Resources>>
  BY DEF Wakaama, Differing
<1> HIDE DEF first, middle, last, written
<1>13. /\ IsSequence(Wakaama.fields)
       /\ \A e \in Range(Wakaama.fields) : LwM2M(e)
  BY <1>4, <1>7, <1>8, <1>9, <1>10, <1>11, <1>12
<1>14. /\ IsSequence(Wakaama.encode) /\ Resources \in Range(Wakaama.encode)
       /\ \A e \in Range(Wakaama.encode) : LwM2M(e)
  BY <1>4, <1>5, <1>7, <1>9, <1>10, <1>11, <1>12
<1> QED BY <1>1, <1>13, <1>14

\* Of the IOs, two have an initial value and two targets, and both back ends write these.
IoFieldOf(t, e, h) ==
  /\ e.shape \in {"option", "notify", "limits", "scalars", "flag", "targets", "flags"}
  /\ e.shape = "notify" => e = Notify
  /\ e.shape = "limits" => e = Limits
  /\ e.shape = "scalars" => e = InitValue /\ t \in {"dummy", "dummy_notify"}
  /\ e.shape = "targets" => e = Targets
  /\ e.shape \in {"scalars", "targets"} => e \in Range(h.encode) /\ e \in Range(h.fields)
IoOf(t, h) ==
  /\ IsSequence(h.fields) /\ IsSequence(h.encode)
  /\ \A e \in Range(h.fields) \cup Range(h.encode) : IoFieldOf(t, e, h)

LEMMA IosNameFields ==
  ASSUME NEW t \in DOMAIN Ios
  PROVE  IoOf(t, Ios[t])
<1> DEFINE shared == {Option("device"), Notify, Limits}
<1> USE DEF Field, Option, Notify, Limits, InitValue, Flag, Targets, Allowed
<1>1. IsSequence(Shared) /\ Range(Shared) = shared
  BY TripleIsSequence DEF Shared
<1>2. ASSUME NEW more, IsSequence(more), \A e \in Range(more) : e.shape = "option"
      PROVE  IoOf(t, InBoth(more)) /\ IoOf(t, InText(more))
  <2>1. IsSequence(Shared \o more) /\ Range(Shared \o more) = shared \cup Range(more)
    BY <1>1, <1>2, ConcatIsSequence
  <2>2. \A e \in shared \cup Range(more) : \A h : IoFieldOf(t, e, h)
    BY <1>2 DEF IoFieldOf
  <2> HIDE DEF shared
  <2> QED BY <1>1, <2>1, <2>2 DEF IoOf, InBoth, InText, Alike, Differing
<1>3. \A a : IsSequence(<<Option(a)>>) /\ Range(<<Option(a)>>) = {Option(a)}
  BY SingletonIsSequence
<1>4. \A a, b : IsSequence(<<Option(a), Option(b)>>) /\ Range(<<Option(a), Option(b)>>) = {Option(a), Option(b)}
  BY PairIsSequence
<1>5. \A h \in {Leds, RgbLed, AdcStream, AdcSync, LteSignal, Encoder, EncoderIndex, Pot, Timestamp, Pwm} :
        IoOf(t, h)
  BY <1>2, <1>3 DEF Leds, RgbLed, AdcStream, AdcSync, LteSignal, Encoder, EncoderIndex, Pot,
     Timestamp, Pwm
<1>6. \A h \in {Sensor, SensorProducer, Fileio, PulseCount} : IoOf(t, h)
  BY <1>2, <1>4 DEF Sensor, SensorProducer, Fileio, PulseCount
<1>7. IoOf(t, InBoth(<< >>))
  BY <1>2, EmptyIsSequence DEF Range
<1>8. ASSUME NEW more, IsSequence(more), InitValue \in Range(more), t \in {"dummy", "dummy_notify"},
             \A e \in Range(more) : e = InitValue \/ e.shape \in {"option", "flag"}
      PROVE  IoOf(t, InBoth(more))
  <2>1. IsSequence(Shared \o more) /\ Range(Shared \o more) = shared \cup Range(more)
    BY <1>1, <1>8, ConcatIsSequence
  <2>2. \A e \in shared \cup Range(more) : \A h :
          (InitValue \in Range(h.encode) /\ InitValue \in Range(h.fields)) => IoFieldOf(t, e, h)
    BY <1>8 DEF IoFieldOf
  <2> HIDE DEF shared, InitValue
  <2> QED BY <1>8, <2>1, <2>2 DEF IoOf, InBoth, Alike, Differing
<1>9. t = "dummy" => IoOf(t, DummyIo)
  BY <1>8, PairIsSequence DEF DummyIo
<1>10. t = "dummy_notify" => IoOf(t, DummyNotify)
  BY <1>8, QuadrupleIsSequence DEF DummyNotify
<1>11. \A h \in {Control, Trigger} : IoOf(t, h)
  <2> DEFINE own == <<Targets, Allowed>>
  <2>1. IsSequence(own) /\ Range(own) = {Targets, Allowed}
    BY PairIsSequence
  <2>2. IsSequence(Shared \o own) /\ Range(Shared \o own) = shared \cup {Targets, Allowed}
    BY <1>1, <2>1, ConcatIsSequence
  <2>3. \A e \in shared \cup {Targets, Allowed} : \A h :
          (Targets \in Range(h.encode) /\ Targets \in Range(h.fields)) => IoFieldOf(t, e, h)
    BY DEF IoFieldOf
  <2> HIDE DEF shared, own, Targets
  <2>4. IoOf(t, Differing(Shared \o own, own))
    BY <2>1, <2>2, <2>3 DEF IoOf, Differing
  <2> QED BY <2>4 DEF Control, Trigger, own
<1> DEFINE own ==
      [leds |-> Leds, rgb_led |-> RgbLed, adc_stream |-> AdcStream, adc_sync |-> AdcSync,
       lte_signal |-> LteSignal, sensor |-> Sensor, sensor_producer |-> SensorProducer,
       encoder |-> Encoder, encoder_index |-> EncoderIndex, pot |-> Pot,
       timestamp |-> Timestamp, pwm |-> Pwm, fileio |-> Fileio, pulsecount |-> PulseCount,
       dummy |-> DummyIo, dummy_notify |-> DummyNotify, control |-> Control,
       trigger |-> Trigger]
<1> HIDE DEF Field, Option, Notify, Limits, InitValue, Flag, Targets, Allowed
<1>12. t \in DOMAIN own => IoOf(t, own[t])
  BY <1>5, <1>6, <1>9, <1>10, <1>11
<1>13. /\ t \in DOMAIN own => Ios[t] = own[t]
       /\ t \notin DOMAIN own => Ios[t] = InBoth(<< >>)
  BY DEF Ios
<1> QED
  BY <1>7, <1>12, <1>13

-----------------------------------------------------------------------------
(* Values of a config                                                        *)

\* A value that is not there has the shape of the others.
LEMMA ValueIsTable ==
  ASSUME NEW c, NEW key, Given(c, key) => Table(c[key])
  PROVE  Table(Value(c, key))
<1>1. Table(Absent)
  BY EmptySeq DEF Table, Absent, Range
<1> QED
  BY <1>1 DEF Value

\* Of a value of one-cell rows, the references are those the cells resolve to.
LEMMA ReferencesRight ==
  ASSUME NEW v, Table(v)
  PROVE  /\ IsSequence(References(v))
         /\ \A row \in Range(v.rows) :
              (Len(row) = 1 /\ row[1].how = "name") => row[1].of \in Range(References(v))
<1> DEFINE refs == [i \in DOMAIN v.rows |->
                      IF Len(v.rows[i]) = 1 THEN Resolve(v.rows[i][1]) ELSE << >>]
<1>1. IsSequence(v.rows)
  BY SequenceOverItself DEF Table
<1>2. IsSequence(refs)
  BY <1>1, MappedIsSequence
<1>3. \A c : IsSequence(Resolve(c))
  BY SingletonIsSequence, EmptyIsSequence DEF Resolve
<1>4. \A i \in DOMAIN refs : IsSequence(refs[i])
  BY <1>3, EmptyIsSequence
<1>5. IsSequence(References(v)) /\ Range(References(v)) = UNION {Range(refs[i]) : i \in DOMAIN refs}
  <2> HIDE DEF refs
  <2>1. IsSequence(FlattenSeq(refs)) /\ Range(FlattenSeq(refs)) = UNION {Range(refs[i]) : i \in DOMAIN refs}
    BY <1>2, <1>4, FlattenIsSequence
  <2> QED BY <2>1 DEF References, refs
<1>6. ASSUME NEW row \in Range(v.rows), Len(row) = 1, row[1].how = "name"
      PROVE  row[1].of \in Range(References(v))
  <2>1. PICK i \in DOMAIN v.rows : row = v.rows[i]
    BY DEF Range
  <2>2. refs[i] = <<row[1].of>> /\ i \in DOMAIN refs
    BY <1>6, <2>1 DEF Resolve
  <2>3. row[1].of \in Range(refs[i])
    BY <2>2, SingletonIsSequence
  <2> QED BY <1>5, <2>2, <2>3
<1> QED BY <1>5, <1>6

\* The sources and the outputs of a program, and those that are known.
LEMMA SidesAreSequences ==
  ASSUME NEW c, \A key \in DOMAIN c : Table(c[key])
  PROVE  IsSequence(Sources(c)) /\ IsSequence(Outputs(c)) /\ IsSequence(Inputs(c))
<1>1. \A key : Table(Value(c, key))
  BY ValueIsTable DEF Given
<1>2. \A key : IsSequence(References(Value(c, key)))
  BY <1>1, ReferencesRight
<1> QED BY <1>2 DEF Sources, Outputs, Inputs, Value

-----------------------------------------------------------------------------
(* Items                                                                     *)

\* There are n items.
AsCounted(items, n) == IsSequence(items) /\ Len(items) = n /\ n \in Nat

LEMMA OneOrNone ==
  /\ AsCounted(<< >>, 0)
  /\ \A item : AsCounted(<<item>>, 1)
BY EmptyIsSequence, SingletonIsSequence DEF AsCounted

\* No rows give no words.
LEMMA NoRowsNoWords ==
  ASSUME NEW seqs, seqs = [i \in DOMAIN << >> |-> seqs[i]]
  PROVE  FlattenSeq(seqs) = << >>
<1>1. Len(seqs) = 0
  BY EmptyIsSequence, MappedIsSequence
<1> QED BY <1>1 DEF FlattenSeq

\* An option is one word, where it is given.
LEMMA OptionItems ==
  ASSUME NEW f, f.shape = "option", NEW c, NEW ids
  PROVE  AsCounted(EncodeProtocolField(f, c, ids), IF Given(c, f.name) THEN 1 ELSE 0)
<1> DEFINE word == Numeral(Value(c, f.name), 1, 0)
<1> HIDE DEF word
<1>1. ProtocolWords(f, c, ids) = IF Given(c, f.name) THEN <<word>> ELSE << >>
  BY DEF ProtocolWords, word
<1>2. <<word>> # << >>
  BY SingletonIsSequence, EmptyIsSequence
<1> QED BY <1>1, <1>2, OneOrNone DEF EncodeProtocolField

\* One by one, the fields of each kind of entry give as many items as are counted for them:
\* every field of a program one, unless it is an absent bound.
LEMMA ProgramItemCounted ==
  ASSUME NEW f, NEW c, f.shape = "bound" => Given(c, f.name)
  PROVE  AsCounted(GenerateField(f, c), 1)
BY OneOrNone DEF GenerateField

LEMMA ProtocolItemsCounted ==
  ASSUME NEW t \in DOMAIN Protocols, NEW f \in Range(Protocols[t].fields),
         NEW c, \A key \in DOMAIN c : Table(c[key])
  PROVE  AsCounted(GenerateProtocolField(f, c), CountOf(f, c))
<1> DEFINE rows == Value(c, f.name).rows
<1>1. f.shape \in {"option", "bindings", "named", "objects", "registers"}
  BY ProtocolsNameFields DEF ProtocolOf, Grouped
<1>2. IsSequence(rows)
  BY ValueIsTable, SequenceOverItself DEF Table, Given
<1>3. CASE f.shape = "option"
  BY <1>3, OptionItems DEF GenerateProtocolField, CountOf
<1>4. CASE f.shape = "bindings"
  <2>1. ProtocolWords(f, c, Ref) = References(Value(c, f.name))
    BY <1>4 DEF ProtocolWords
  <2> QED BY <1>4, <2>1, OneOrNone DEF GenerateProtocolField, CountOf, EncodeProtocolField
<1>5. CASE f.shape = "named"
  <2>1. CASE Given(c, f.name)
    BY <1>5, <2>1, OneOrNone DEF GenerateProtocolField, CountOf
  <2>2. CASE ~Given(c, f.name)
    <3>1. Value(c, f.name).rows = << >>
      BY <2>2 DEF Value, Absent
    <3>2. NamedWords(f, Value(c, f.name), Ref) = << >>
      BY <3>1, NoRowsNoWords DEF NamedWords
    <3>3. ProtocolWords(f, c, Ref) = << >>
      BY <1>5, <3>2 DEF ProtocolWords
    <3> QED BY <1>5, <2>2, <3>3, OneOrNone DEF GenerateProtocolField, CountOf, EncodeProtocolField
  <2> QED BY <2>1, <2>2
<1>6. CASE f.shape = "objects"
  <2> DEFINE items == [i \in DOMAIN rows |->
                         Item(f.name, 3 + Len(PlainAll(Bindings(f, rows[i]))), ObjectWords(f, rows[i]))]
  <2>1. IsSequence(items) /\ Len(items) = Len(rows)
    BY <1>2, MappedIsSequence
  <2> QED BY <1>2, <1>6, <2>1, LengthOfSequence DEF GenerateProtocolField, CountOf, AsCounted
<1>7. CASE f.shape = "registers"
  <2>1. CASE rows # << >>
    BY <1>7, <2>1, OneOrNone DEF GenerateProtocolField, CountOf
  <2>2. CASE rows = << >>
    <3>1. ProtocolWords(f, c, Ref) = << >>
      BY <1>7, <2>2, NoRowsNoWords DEF ProtocolWords
    <3> QED BY <1>7, <2>2, <3>1, OneOrNone DEF GenerateProtocolField, CountOf, EncodeProtocolField
  <2> QED BY <2>1, <2>2
<1> QED BY <1>1, <1>3, <1>4, <1>5, <1>6, <1>7

LEMMA IoItemsCounted ==
  ASSUME NEW t \in DOMAIN Ios, NEW f \in Range(Ios[t].fields), NEW c, NEW d
  PROVE  AsCounted(GenerateIoField(f, c, d), IoCountOf(f, c))
<1>1. f.shape \in {"option", "notify", "limits", "scalars", "flag", "targets", "flags"}
  BY IosNameFields DEF IoOf, IoFieldOf
<1>2. CASE f.shape = "option"
  BY <1>2, OptionItems DEF GenerateIoField, IoItems, IoCountOf
<1>3. CASE f.shape = "notify"
  BY <1>3, OneOrNone DEF GenerateIoField, IoCountOf
<1>4. CASE f.shape = "limits"
  <2> DEFINE keys == LimitsGiven(c)
  <2>1. IsSequence(keys)
    BY KnownRight, TripleIsSequence, EmptyIsSequence DEF LimitsGiven
  <2>2. IsSequence(LimitItems(c, d)) /\ Len(LimitItems(c, d)) = Len(keys)
    BY <2>1, MappedIsSequence DEF LimitItems
  <2> QED BY <1>4, <2>1, <2>2, LengthOfSequence DEF GenerateIoField, IoItems, IoCountOf, AsCounted
<1>5. CASE f.shape = "scalars"
  BY <1>5, OneOrNone DEF GenerateIoField, IoItems, IoCountOf
<1>6. CASE f.shape = "flag"
  BY <1>6, OneOrNone DEF GenerateIoField, IoItems, IoCountOf
<1>7. CASE f.shape \in {"targets", "flags"}
  BY <1>7, OneOrNone DEF GenerateIoField, IoItems, IoCountOf
<1> QED BY <1>1, <1>2, <1>3, <1>4, <1>5, <1>6, <1>7

\* A server has words, whatever it leaves out.
LEMMA ServerHasWords ==
  ASSUME NEW server, NEW i
  PROVE  ServerWords(server, i) # << >>
<1> DEFINE rest == IF Extended(server)
                   THEN <<Magic, Flags(server), Setting(server, "holdoff", 0),
                          Setting(server, "bootstrap_timeout", 0), 1, 1,
                          Len(IF Given(server, "host") THEN <<server["host"].of>> ELSE << >>)>>
                        \o <<Setting(server, "psk_identity", 0), Setting(server, "psk_key", 0)>>
                        \o (IF Given(server, "host") THEN <<server["host"].of>> ELSE << >>)
                   ELSE IF Given(server, "host") THEN <<server["host"].of>> ELSE << >>
<1>1. \A a, b, x, d, e, g, h : IsSequence(<<a, b, x, d, e, g, h>>)
  <2> TAKE a, b, x, d, e, g, h
  <2>1. <<a, b, x, d, e, g, h>> \in Seq({a, b, x, d, e, g, h})
    OBVIOUS
  <2> QED BY <2>1, SequenceOverItself
<1>2. IsSequence(IF Given(server, "host") THEN <<server["host"].of>> ELSE << >>)
  BY EmptyIsSequence, SingletonIsSequence
<1>3. IsSequence(rest)
  BY <1>1, <1>2, PairIsSequence, ConcatIsSequence
<1> HIDE DEF rest
<1>4. \E a, b, x : ServerWords(server, i) = <<a, b, x>> \o rest
  BY DEF ServerWords, rest
<1>5. PICK a, b, x : ServerWords(server, i) = <<a, b, x>> \o rest
  BY <1>4
<1>6. a \in Range(<<a, b, x>> \o rest)
  BY <1>3, TripleIsSequence, ConcatIsSequence
<1>7. Range(<< >>) = {}
  BY DEF Range
<1> QED BY <1>5, <1>6, <1>7

\* Blocks are counted by those that have words.
LEMMA BlocksCounted ==
  ASSUME NEW f, NEW words, IsSequence(words)
  PROVE  /\ AsCounted(BlockItems(f, words), Len(BlockItems(f, words)))
         /\ (\A i \in DOMAIN words : words[i] # << >>) => Len(BlockItems(f, words)) = Len(words)
<1> DEFINE blocks == [i \in DOMAIN words |->
                        IF words[i] = << >> THEN << >> ELSE <<Item(f.name, Len(words[i]), words[i])>>]
<1>1. IsSequence(blocks)
  BY MappedIsSequence
<1>2. \A i \in DOMAIN blocks : blocks[i] = << >> \/ \E e : blocks[i] = <<e>>
  OBVIOUS
<1>3. \A i \in DOMAIN words : blocks[i] # << >> <=> words[i] # << >>
  BY SingletonIsSequence, EmptyIsSequence
<1>4. DOMAIN words = 1..Len(words) /\ Len(words) \in Nat /\ DOMAIN blocks = DOMAIN words
  BY LenProperties DEF IsSequence
<1>5. BlockItems(f, words) = FlattenSeq(blocks)
  BY DEF BlockItems
<1> HIDE DEF blocks
<1>6. /\ IsSequence(FlattenSeq(blocks))
      /\ Len(FlattenSeq(blocks)) = Cardinality({i \in DOMAIN blocks : blocks[i] # << >>})
  BY <1>1, <1>2, FlattenOfSingles
<1>7. ASSUME \A i \in DOMAIN words : words[i] # << >>
      PROVE  Len(BlockItems(f, words)) = Len(words)
  <2>1. {i \in DOMAIN blocks : blocks[i] # << >>} = 1..Len(words)
    BY <1>3, <1>4, <1>7
  <2>2. Cardinality(1..Len(words)) = Len(words)
    <3> DEFINE n == Len(words)
    <3>1. n \in Nat
      BY <1>4
    <3> HIDE DEF n
    <3>2. Cardinality(1..n) = IF 1 > n THEN 0 ELSE n - 1 + 1
      BY <3>1, FS_Interval
    <3> QED BY <3>1, <3>2 DEF n
  <2> QED BY <1>5, <1>6, <2>1, <2>2
<1> QED BY <1>5, <1>6, <1>7, LengthOfSequence DEF AsCounted

LEMMA WakaamaItemsCounted ==
  ASSUME NEW f \in Range(Wakaama.fields), NEW c,
         \A key \in DOMAIN c \ {"servers"} : Table(c[key]),
         "servers" \in DOMAIN c => IsSequence(c["servers"].rows)
  PROVE  AsCounted(GenerateWakaama(f, c), WakaamaCount(f, c))
<1> DEFINE rows == Value(c, f.name).rows
<1>1. LwM2M(f)
  BY OthersNameFields
<1>2. IsSequence(rows)
  <2>1. CASE f.name \in DOMAIN c
    BY <2>1, SequenceOverItself DEF Value, Given, Table
  <2>2. CASE f.name \notin DOMAIN c
    BY <2>2, EmptyIsSequence DEF Value, Given, Absent
  <2> QED BY <2>1, <2>2
<1>3. CASE f.shape = "option"
  BY <1>3, OneOrNone DEF GenerateWakaama, EncodeWakaama, OptionItem, WakaamaCount
<1>4. CASE f.shape = "fallback"
  BY <1>4, OneOrNone DEF GenerateWakaama, EncodeWakaama, OptionItem, WakaamaCount
<1>5. CASE f.shape = "servers"
  <2> DEFINE words == [i \in DOMAIN rows |-> ServerWords(rows[i], i)]
  <2>1. IsSequence(words) /\ Len(words) = Len(rows)
    BY <1>2, MappedIsSequence
  <2>2. \A i \in DOMAIN words : words[i] # << >>
    BY ServerHasWords
  <2>3. GenerateWakaama(f, c) = BlockItems(f, words)
    BY <1>5 DEF GenerateWakaama, EncodeWakaama
  <2>4. WakaamaCount(f, c) = Len(rows)
    BY <1>1, <1>5 DEF LwM2M, WakaamaCount, Servers, Field
  <2> HIDE DEF words
  <2> QED BY <2>1, <2>2, <2>3, <2>4, BlocksCounted DEF AsCounted
<1>6. CASE f.shape = "devicebind"
  <2>1. GenerateWakaama(f, c) = DeviceItem(f, c, Ref)
    BY <1>6 DEF GenerateWakaama, EncodeWakaama
  <2>2. WakaamaCount(f, c) = Len(DeviceItem(f, c, Ref))
    BY <1>6, <2>1 DEF WakaamaCount
  <2> QED BY <2>1, <2>2, OneOrNone DEF DeviceItem, AsCounted
<1>7. CASE f.shape = "resources"
  <2> DEFINE words == [i \in DOMAIN rows |-> TextResources(rows[i])]
  <2>1. IsSequence(words)
    BY <1>2, MappedIsSequence
  <2>2. GenerateWakaama(f, c) = BlockItems(f, words)
    BY <1>7 DEF GenerateWakaama
  <2>3. WakaamaCount(f, c) = Len(BlockItems(f, words))
    BY <1>7, <2>2 DEF WakaamaCount
  <2> HIDE DEF words
  <2> QED BY <2>1, <2>2, <2>3, BlocksCounted
<1> QED BY <1>1, <1>3, <1>4, <1>5, <1>6, <1>7 DEF LwM2M

\* A reference, however it is written, is one word or none, and a word can be repeated.
LEMMA WordsAreSequences ==
  ASSUME NEW f
  PROVE  /\ \A cell : IsSequence(Flexible(cell)) /\ IsSequence(Resolve(cell))
         /\ \A cell : IsSequence(TextRef(f, cell)) /\ IsSequence(TextKind(f, cell))
         /\ \A word : \A n \in Nat : IsSequence(Repeat(word, n))
<1>1. \A e : IsSequence(<<e>>)
  BY SingletonIsSequence
<1>2. IsSequence(<< >>)
  BY EmptyIsSequence
<1>3. \A cell : IsSequence(Resolve(cell))
  BY <1>1, <1>2 DEF Resolve
<1>4. \A cell : IsSequence(Flexible(cell))
  BY <1>1, <1>3 DEF Flexible
<1>5. \A cell : IsSequence(TextKind(f, cell))
  BY <1>1, <1>2 DEF TextKind
<1>6. ASSUME NEW word, NEW n \in Nat
      PROVE  IsSequence(Repeat(word, n))
  <2>1. Repeat(word, n) \in Seq({word})
    BY SeqDef DEF Repeat
  <2> QED BY <2>1, SequenceOverItself
<1> QED BY <1>3, <1>4, <1>5, <1>6 DEF TextRef

\* What an entry of aios, ess or imds is written as, and one of ots.
LEMMA EntriesAreSequences ==
  ASSUME NEW f \in {Aios, Ess, Imds, Ots}, NEW c, Table(Value(c, f.name))
  PROVE  /\ IsSequence(TextEntries(f, c))
         /\ \A i \in DOMAIN TextEntries(f, c) : IsSequence(TextEntries(f, c)[i])
<1> DEFINE rows == ServiceRows(f, c)
<1>1. IsSequence(rows)
  BY SequenceOverItself, EmptyIsSequence DEF ServiceRows, Table
<1>2. IsSequence(TextEntries(f, c))
  BY <1>1, MappedIsSequence DEF TextEntries
<1>3. \A s, t : IsSequence(s) /\ IsSequence(t) => IsSequence(s \o t)
  BY ConcatIsSequence
<1>4. IsSequence(f.defaults) /\ \A k \in DOMAIN f.defaults : f.defaults[k] \in Nat
  <2> DEFINE Right(s) == IsSequence(s) /\ \A k \in DOMAIN s : s[k] \in Nat
  <2>0. \A s \in Seq(Nat) : Right(s)
    BY SequenceOverItself
  <2>1. CASE f = Aios
    <3>1. f.defaults = <<4, 1, 1, 1, 2, 1>>
      BY <2>1 DEF Aios, Service, Field
    <3>2. <<4, 1, 1, 1, 2, 1>> \in Seq(Nat)
      OBVIOUS
    <3>3. Right(<<4, 1, 1, 1, 2, 1>>)
      BY <2>0, <3>2
    <3> QED BY <3>1, <3>3
  <2>2. CASE f = Ess
    <3>1. f.defaults = <<4, 2, 6, 1, 1>>
      BY <2>2 DEF Ess, Service, Field
    <3>2. <<4, 2, 6, 1, 1>> \in Seq(Nat)
      OBVIOUS
    <3>3. Right(<<4, 2, 6, 1, 1>>)
      BY <2>0, <3>2
    <3> QED BY <3>1, <3>3
  <2>3. CASE f = Imds
    BY <2>3, SingletonIsSequence DEF Imds, Service, Field
  <2>4. CASE f = Ots
    BY <2>4, EmptyIsSequence DEF Ots, Service, Field
  <2> QED BY <2>1, <2>2, <2>3, <2>4
<1>5. ASSUME NEW row
      PROVE  IsSequence(SensorWords(f, row, TextKind(f, row[1]), TextRef(f, row[2]), TextOrder(f), Ref))
  <2> DEFINE more == [i \in DOMAIN TextOrder(f) |-> Extension(f, row, TextOrder(f)[i], Ref)]
  <2>1. IsSequence(TextOrder(f)) /\ \A i \in DOMAIN TextOrder(f) : TextOrder(f)[i] \in DOMAIN f.defaults
    BY <1>4, MappedIsSequence DEF TextOrder
  <2>2. IsSequence(more)
    BY <2>1, MappedIsSequence
  <2>3. \A k \in DOMAIN f.defaults : IsSequence(Extension(f, row, k, Ref))
    BY <1>3, <1>4, WordsAreSequences, SingletonIsSequence, EmptyIsSequence DEF Extension
  <2>4. IsSequence(FlattenSeq(more))
    <3>1. \A i \in DOMAIN more : IsSequence(more[i])
      BY <2>1, <2>3
    <3> HIDE DEF more
    <3> QED BY <2>2, <3>1, FlattenIsSequence
  <2>5. IsSequence(<<Extensions(f, row)>>)
    BY SingletonIsSequence
  <2>6. IsSequence(TextKind(f, row[1]) \o TextRef(f, row[2]) \o <<Extensions(f, row)>> \o FlattenSeq(more))
    BY <1>3, <2>4, <2>5, WordsAreSequences
  <2> QED BY <2>6, EmptyIsSequence DEF SensorWords
<1>6. ASSUME NEW row
      PROVE  IsSequence(ObjectOfOts(row, TextRef(f, row[1])))
  <2>1. IsSequence(Repeat(Number(row[2], 0), 4))
    BY WordsAreSequences
  <2>2. IsSequence(<<Number(row[3], 0) + 16 * Number(row[4], 2)>>)
    BY SingletonIsSequence
  <2>3. IsSequence(<<Number(row[3], 0) + 16 * Number(row[4], 2)>> \o Repeat(Number(row[2], 0), 4)
                     \o TextRef(f, row[1]))
    BY <1>3, <2>1, <2>2, WordsAreSequences
  <2> QED BY <2>3, EmptyIsSequence DEF ObjectOfOts
<1>7. f.name \in Sensing \cup {"ots"}
  BY DEF Aios, Ess, Imds, Ots, Service, Field, Sensing
<1>8. \A i \in DOMAIN TextEntries(f, c) : IsSequence(TextEntries(f, c)[i])
  BY <1>5, <1>6, <1>7, EmptyIsSequence DEF TextEntries, Sensing
<1> QED BY <1>2, <1>8

\* A service with a list has words even where the list is empty.
LEMMA ListedHasWords ==
  ASSUME NEW f \in {Aios, Ess, Imds, Ots}, NEW c, Table(Value(c, f.name)), NEW flag
  PROVE  Listed(TextEntries(f, c), flag) # << >>
<1> DEFINE words == FlattenSeq(TextEntries(f, c))
<1>1. IsSequence(words)
  BY EntriesAreSequences, FlattenIsSequence
<1> HIDE DEF words
<1>2. PICK a, b, x : Listed(TextEntries(f, c), flag) = <<a, b, x>> \o words
  BY DEF Listed, words
<1>3. a \in Range(<<a, b, x>> \o words)
  BY <1>1, TripleIsSequence, ConcatIsSequence
<1>4. Range(<< >>) = {}
  BY DEF Range
<1> QED BY <1>2, <1>3, <1>4

LEMMA NimbleItemsCounted ==
  ASSUME NEW f \in Services, NEW c, \A key \in DOMAIN c : Table(c[key]),
         \A i \in DOMAIN Value(c, "custom").rows :
           Value(c, "custom").rows[i] # << >> => TextEntries(Custom, c)[i] # << >>
  PROVE  AsCounted(GenerateService(f, c), ServiceCount(f, c))
<1>1. \A key : Table(Value(c, key))
  BY ValueIsTable DEF Given
<1>2. CASE f = Option("gap_name")
  <2>1. f.name = "gap_name" /\ f.shape = "option"
    BY <1>2 DEF Option, Field
  <2> QED BY <2>1, OptionItems DEF GenerateService, EncodeService, ServiceCount
<1>3. CASE f = Dis
  <2>1. f.name = "dis"
    BY <1>3 DEF Dis, Service, Field
  <2> QED BY <2>1, OneOrNone DEF GenerateService, EncodeService, ServiceCount
<1>4. CASE f = Bas
  <2>1. f.name = "bas"
    BY <1>4 DEF Bas, Service, Field
  <2> QED BY <2>1, OneOrNone DEF GenerateService, ServiceCount
<1>5. CASE f \in {Aios, Ess, Imds, Ots}
  <2>1. f.name \notin {"gap_name", "dis", "bas", "custom"}
    BY <1>5 DEF Aios, Ess, Imds, Ots, Service, Field
  <2>2. CASE Given(c, f.name)
    <3>1. Listed(TextEntries(f, c), Aggregate(f, c)) # << >>
      BY <1>1, <1>5, ListedHasWords
    <3>2. \E item : GenerateService(f, c) = <<item>>
      BY <2>1, <2>2, <3>1 DEF GenerateService, ItemsOf
    <3> QED BY <2>1, <2>2, <3>2, OneOrNone DEF ServiceCount
  <2>3. CASE ~Given(c, f.name)
    BY <2>1, <2>3, OneOrNone DEF GenerateService, ServiceCount
  <2> QED BY <2>2, <2>3
<1>6. CASE f = Custom
  <2> DEFINE rows == Value(c, "custom").rows
             entries == TextEntries(f, c)
             items == [i \in DOMAIN entries |-> ItemsOf(f, entries[i])]
  <2>1. f.name = "custom"
    BY <1>6 DEF Custom, Service, Field
  <2>2. ServiceRows(f, c) = rows
    BY <2>1 DEF ServiceRows
  <2>3. IsSequence(rows)
    BY <1>1, SequenceOverItself DEF Table
  <2>4. DOMAIN entries = DOMAIN rows /\ IsSequence(entries)
    BY <2>2, <2>3, MappedIsSequence DEF TextEntries
  <2>5. \A i \in DOMAIN rows : rows[i] = << >> => entries[i] = << >>
    BY <2>2 DEF TextEntries
  <2>6. \A i \in DOMAIN rows : rows[i] # << >> => entries[i] # << >>
    BY <1>6
  <2> HIDE DEF entries, rows
  <2>7. IsSequence(items) /\ DOMAIN items = DOMAIN rows
    BY <2>4, MappedIsSequence
  <2>8. /\ \A i \in DOMAIN items : items[i] = << >> \/ \E e : items[i] = <<e>>
        /\ \A i \in DOMAIN items : items[i] # << >> <=> rows[i] # << >>
    BY <2>4, <2>5, <2>6, SingletonIsSequence, EmptyIsSequence DEF ItemsOf
  <2> HIDE DEF items
  <2>9. /\ IsSequence(FlattenSeq(items))
        /\ Len(FlattenSeq(items)) = Cardinality({i \in DOMAIN items : items[i] # << >>})
    BY <2>7, <2>8, FlattenOfSingles
  <2>10. {i \in DOMAIN items : items[i] # << >>} = {i \in DOMAIN rows : rows[i] # << >>}
    BY <2>7, <2>8
  <2>11. ServiceCount(f, c) = Cardinality({i \in DOMAIN rows : rows[i] # << >>})
    BY <2>1 DEF ServiceCount, rows
  <2>12. CASE Given(c, "custom")
    <3>1. GenerateService(f, c) = FlattenSeq(items)
      BY <2>1, <2>12 DEF GenerateService, items, entries
    <3> QED BY <2>9, <2>10, <2>11, <3>1, LengthOfSequence DEF AsCounted
  <2>13. CASE ~Given(c, "custom")
    <3>1. GenerateService(f, c) = << >>
      BY <2>1, <2>13 DEF GenerateService
    <3>2. rows = << >>
      BY <2>13 DEF rows, Value, Absent
    <3>3. {i \in DOMAIN rows : rows[i] # << >>} = {}
      BY <3>2
    <3> QED BY <2>11, <3>1, <3>3, OneOrNone, FS_EmptySet
  <2> QED BY <2>12, <2>13
<1> QED BY <1>2, <1>3, <1>4, <1>5, <1>6 DEF Services

-----------------------------------------------------------------------------
(* Registers                                                                 *)

\* The registers of a block are counted by a natural number.
LEMMA SpanRight ==
  ASSUME NEW type \in DOMAIN Space, NEW row, Number(row[2], 0) \in Int, NEW ios, IsSequence(row)
  PROVE  SpanOf(type, row, ios) \in Nat
<1> DEFINE cells == Bindings(Registers, row)
           resolved == [i \in DOMAIN cells |-> Resolve(cells[i])]
           refs == PlainAll(cells)
           widths == [i \in DOMAIN refs |-> WidthOf(type, Number(row[2], 0), refs[i], ios)]
<1>1. IsSequence(cells)
  <2>1. PICK T : row \in Seq(T)
    BY DEF IsSequence
  <2>2. Len(Registers.defaults) = 3 /\ Len(row) \in Nat
    BY <2>1 DEF Registers, Field
  <2>3. cells \in Seq(T)
    BY <2>1, <2>2, SubSeqProperties DEF Bindings
  <2> QED BY <2>3, SequenceOverItself
<1> HIDE DEF cells
<1>2. IsSequence(resolved)
  BY <1>1, MappedIsSequence
<1>3. \A i \in DOMAIN resolved : IsSequence(resolved[i])
  BY SingletonIsSequence, EmptyIsSequence DEF Resolve
<1> HIDE DEF resolved
<1>4. IsSequence(refs)
  BY <1>2, <1>3, FlattenIsSequence DEF PlainAll, resolved
<1> HIDE DEF refs
<1>5. IsSequence(widths)
  BY <1>4, MappedIsSequence
<1>6. \A i \in DOMAIN widths : widths[i] \in Nat
  BY ProtocolHandlersAssumption DEF WidthOf
<1> HIDE DEF widths
<1>7. Total(widths) \in Nat
  BY <1>5, <1>6, TotalIsNat
<1> QED BY <1>7 DEF SpanOf, widths, refs, cells

-----------------------------------------------------------------------------
(* Causes                                                                    *)

Refuses(f) ==
  OfKind(EncodeRaises(f, obj.config, known),
         OfProtocol(BindingUnknown(f, obj.config, known), FALSE,
                    EncodeWakaamaRaises(f, obj.config, known)),
         EncodeIoRaises(f, obj.config, dtype, known))
RefusesText(f) ==
  OfKind(GenerateRaises(f, obj.config),
         OfProtocol(BlockRaises(f, obj.config), ServiceRaises(f, obj.config), FALSE),
         GenerateIoRaises(f, obj.config, obj.dtype))
IoText(f) == GenerateIoField(f, obj.config, obj.dtype)

\* What a result of either back end tells of the object, once its pass is over.
Told ==
  /\ binResult # "pending" \/ textResult # "pending" => Accepts
  /\ binResult = "raised" => \E f \in Range(handler.encode) : Refuses(f)
  /\ binResult = "ok" => \A f \in Range(handler.encode) : ~Refuses(f)
  /\ textResult = "raised" => HeaderRaises \/ \E f \in Range(handler.fields) : RefusesText(f)
  /\ textResult = "ok" =>
       /\ ~HeaderRaises
       /\ \A f \in Range(handler.fields) : ~RefusesText(f)
       /\ obj.kind = "io" =>
            \A f \in Range(handler.fields) : Mentioned(IoText(f)) \subseteq defined

LEMMA ProgramHasCause ==
  ASSUME obj \in Program, Told
  PROVE  ProgramCause
<1>1. /\ IsProgram /\ obj.type \in DOMAIN Handlers /\ handler = Handlers[obj.type]
      /\ \A key \in DOMAIN config : Table(config[key])
  BY ProgramAssumption DEF IsProgram, handler, OfKind, config
<1>2. HandlerOf(obj.type, handler)
  BY <1>1, HandlersNameFields
<1>3. \A f : Refuses(f) <=> EncodeRaises(f, config, known)
  BY <1>1 DEF Refuses, OfKind, config
<1>4. \A f : RefusesText(f) <=> GenerateRaises(f, config)
  BY <1>1 DEF RefusesText, OfKind, config
<1>5. HeaderRaises <=> BindingRaises(obj.type, config)
  BY <1>1 DEF HeaderRaises, OfKind, config
<1>6. IsSequence(Sources(config)) /\ IsSequence(Outputs(config)) /\ IsSequence(Inputs(config))
  BY <1>1, SidesAreSequences
<1>7. ASSUME NEW f \in Range(handler.encode), EncodeRaises(f, config, known)
      PROVE  \/ /\ IoBind \in Range(handler.encode)
                /\ Cardinality({i \in DOMAIN Sources(config) : Sources(config)[i] \in known})
                     # Cardinality({i \in DOMAIN Outputs(config) : Outputs(config)[i] \in known})
             \/ obj.type = "expression" /\ Len(Value(config, "op").rows) = 1
             \/ obj.type = "toggle" /\ Len(Value(config, "values").rows) = 1
             \/ obj.type \in {"gateway", "sequencer"} /\
                  \E key \in DOMAIN config : \E row \in Range(config[key].rows) :
                    \E i \in DOMAIN row : row[i].how = "alias"
  <2> DEFINE value == Value(config, f.name)
             rows == IF value.list THEN value.rows ELSE << >>
  <2>1. FieldOf(obj.type, f)
    BY <1>2 DEF HandlerOf
  <2>2. CASE f.shape = "pairs" /\ Len(Known(Sources(config), known)) # Len(Known(Outputs(config), known))
    <3>1. f = IoBind
      BY <2>1, <2>2 DEF FieldOf
    <3>2. /\ Len(Known(Sources(config), known))
               = Cardinality({i \in DOMAIN Sources(config) : Sources(config)[i] \in known})
          /\ Len(Known(Outputs(config), known))
               = Cardinality({i \in DOMAIN Outputs(config) : Outputs(config)[i] \in known})
      BY <1>6, KnownRight
    <3> QED BY <1>7, <2>2, <3>1, <3>2
  <2>3. CASE TooShort(f, rows)
    <3>1. Operands(obj.type, f)
      BY <2>1, <2>3 DEF TooShort, FieldOf
    <3>2. Len(value.rows) = 1
      BY <2>3, EmptySeq DEF TooShort
    <3> QED BY <3>1, <3>2 DEF Operands
  <2>4. CASE LooksUpAlias(f, rows, known)
    <3>1. PICK row \in Range(rows) \ {<< >>} :
            \/ f.shape \in {"names", "strictbinds"} /\ row[1].how = "alias"
            \/ f.shape = "strictbinds" /\ row[2].how = "alias"
      BY <2>4 DEF LooksUpAlias
    <3>2. row \in Range(value.rows) /\ row # << >>
      BY <3>1 DEF Range
    <3>3. Given(config, f.name) /\ value = config[f.name]
      BY <3>2 DEF Value, Absent, Range
    <3>4. f.name \in DOMAIN config /\ row \in Range(config[f.name].rows)
      BY <3>2, <3>3 DEF Given
    <3>5. Row(row)
      BY <1>1, <3>4 DEF Table
    <3>6. row \in Seq(Range(row)) /\ Len(row) \in Nat /\ DOMAIN row = 1..Len(row) /\ Len(row) # 0
      BY <3>2, <3>5, LenProperties, EmptySeq DEF Row
    <3>7. 1 \in DOMAIN row
      BY <3>6
    <3>8. f.shape = "strictbinds" => 2 \in DOMAIN row
      <4> SUFFICES ASSUME f.shape = "strictbinds"
                   PROVE  2 \in DOMAIN row
        OBVIOUS
      <4>1. Len(row) = f.refs + Len(f.defaults)
        BY <1>1, <1>7, <3>2, ProgramAssumption DEF config
      <4>2. f.refs = 2 /\ Len(f.defaults) = 2
        BY <2>1 DEF FieldOf
      <4> QED BY <3>6, <4>1, <4>2
    <3>9. \E i \in DOMAIN row : row[i].how = "alias"
      BY <3>1, <3>7, <3>8
    <3>10. obj.type \in {"gateway", "sequencer"}
      BY <2>1, <3>1 DEF FieldOf
    <3> QED BY <3>4, <3>9, <3>10
  <2> QED BY <1>7, <2>2, <2>3, <2>4 DEF EncodeRaises
<1>8. ASSUME NEW f \in Range(handler.fields), GenerateRaises(f, config)
      PROVE  IoBind \in Range(handler.fields) /\ Len(Sources(config)) # Len(Outputs(config))
  BY <1>2, <1>8 DEF HandlerOf, FieldOf, GenerateRaises
<1>9. ASSUME BindingRaises(obj.type, config)
      PROVE  /\ obj.type \in {"stats", "adjust", "switch", "bitpack", "bitmerge", "ahrs"}
             /\ (Inputs(config) = << >>) # (Outputs(config) = << >>)
  <2>1. ~\E f \in Range(handler.fields) : f.shape \in Binding
    BY <1>1, <1>9 DEF BindingRaises, WritesBinding, HasCustomBinding, Range, Binding
  <2>2. obj.type \in {"stats", "adjust", "switch", "bitpack", "bitmerge", "ahrs"}
    BY <1>2, <2>1 DEF HandlerOf
  <2>3. << >> \o << >> = << >>
    BY ConcatEmptySeq, EmptySeq
  <2> QED BY <1>9, <2>2, <2>3 DEF BindingRaises, WritesBinding
<1> QED
  BY <1>3, <1>4, <1>5, <1>7, <1>8, <1>9 DEF Told, ProgramCause

\* Two ranges of registers that overlap share one.
LEMMA RangesMeet ==
  ASSUME NEW a \in Int, NEW b \in Int, NEW m \in Int, NEW n \in Int,
         a + m > a, b + n > b, b < a + m, a < b + n
  PROVE  {a + k : k \in 0..(m - 1)} \cap {b + k : k \in 0..(n - 1)} # {}
<1>1. CASE a <= b
  <2>1. b - a \in 0..(m - 1) /\ 0 \in 0..(n - 1) /\ b = a + (b - a) /\ b = b + 0
    BY <1>1
  <2> QED BY <2>1
<1>2. CASE b <= a
  <2>1. a - b \in 0..(n - 1) /\ 0 \in 0..(m - 1) /\ a = b + (a - b) /\ a = a + 0
    BY <1>2
  <2> QED BY <2>1
<1> QED BY <1>1, <1>2

\* A range that ends beyond the last register has one there, or starts there.
LEMMA RangeEnds ==
  ASSUME NEW a \in Int, NEW m \in Nat, NEW max \in Nat, a + m > max, a <= max
  PROVE  ~({a + k : k \in 0..(m - 1)} \subseteq 0..(max - 1))
<1>1. m - 1 \in 0..(m - 1) /\ a + (m - 1) \notin 0..(max - 1)
  OBVIOUS
<1> QED BY <1>1

\* What the checks know of a block of registers: it has a start, and if its type is one of
\* RTU, it takes up the registers from there to its end in the space of that type.
BlockOf(row) ==
  /\ Number(row[2], 0) \in Int /\ Start(row) \in Int
  /\ Checked(row) =>
       /\ SpaceOf(row) = BlockSpace(row) /\ SpaceOf(row) # "none"
       /\ SpanOf(CheckedType(row), row, Io \cap defined) \in Nat
       /\ RegistersIn(row) =
            {Start(row) + n : n \in 0..(SpanOf(CheckedType(row), row, Io \cap defined) - 1)}
LEMMA BlocksOfRtu ==
  ASSUME obj \in ProtocolEntry, obj.type = "modbus_rtu", Accepts
  PROVE  LET rows == Value(config, "registers").rows IN
         rows \in Seq(Range(rows)) /\ \A i \in DOMAIN rows : BlockOf(rows[i])
<1> DEFINE rows == Value(config, "registers").rows
           ios == Io \cap defined
<1>1. ~IsProgram /\ obj.kind = "protocol" /\ \A key \in DOMAIN config : Table(config[key])
  BY ProtocolAssumption DEF IsProgram, config
<1>2. << >> \notin Range(rows)
  BY <1>1 DEF Accepts, OfKind, OfProtocol, config, ValidProtocol
<1>3. Table(Value(config, "registers"))
  BY <1>1, ValueIsTable DEF Given
<1>4. ASSUME NEW i \in DOMAIN rows
      PROVE  BlockOf(rows[i])
  <2>1. rows[i] \in Range(rows) /\ Row(rows[i])
    BY <1>3 DEF Table, Range
  <2>2. rows[i] # << >> /\ Len(rows[i]) >= 3
    BY <1>2, <2>1, ProtocolAssumption DEF config
  <2>3. 2 \in DOMAIN rows[i] /\ 3 \in DOMAIN rows[i]
    BY <2>1, <2>2 DEF Row
  <2>4. \A k \in {2, 3} : Number(rows[i][k], 0) \in Int
    BY <2>1, <2>3 DEF Row, Number, Range
  <2>5. IsSequence(rows[i]) /\ Start(rows[i]) \in Int
    BY <2>1, <2>4, SequenceOverItself DEF Row, Start
  <2>6. ASSUME Checked(rows[i])
        PROVE  /\ CheckedType(rows[i]) = TextType(rows[i][1])
               /\ SpaceOf(rows[i]) = BlockSpace(rows[i]) /\ SpaceOf(rows[i]) # "none"
               /\ SpanOf(CheckedType(rows[i]), rows[i], ios) \in Nat
    <3>1. CheckedType(rows[i]) \in DOMAIN Space /\ CheckedType(rows[i]) # 0
      BY <2>6, ProtocolHandlersAssumption DEF Checked
    <3>2. CheckedType(rows[i]) = TextType(rows[i][1])
      BY <3>1 DEF CheckedType, TextType
    <3>3. SpaceOf(rows[i]) = BlockSpace(rows[i]) /\ SpaceOf(rows[i]) # "none"
      BY <3>1, <3>2, ProtocolHandlersAssumption DEF SpaceOf, BlockSpace
    <3>4. SpanOf(CheckedType(rows[i]), rows[i], ios) \in Nat
      BY <2>4, <2>5, <3>1, SpanRight
    <3> QED BY <3>2, <3>3, <3>4
  <2> QED BY <2>4, <2>5, <2>6 DEF BlockOf, RegistersIn
<1> QED BY <1>3, <1>4 DEF Table

LEMMA ProtocolHasCause ==
  ASSUME obj \in ProtocolEntry, obj.type \in DOMAIN Protocols, Told
  PROVE  ProtocolCause
<1> DEFINE rows == Value(config, "registers").rows
           ios == Io \cap defined
<1>1. /\ ~IsProgram /\ obj.kind = "protocol" /\ obj.type \notin {"nimble", "wakaama"}
      /\ handler = Protocols[obj.type]
      /\ \A key \in DOMAIN config \ {"servers"} : Table(config[key])
  BY ProtocolAssumption DEF IsProgram, handler, OfKind, OfProtocol, Protocols, config
<1>2. ProtocolOf(obj.type, handler)
  BY <1>1, ProtocolsNameFields
<1>3. \A f : Refuses(f) <=> BindingUnknown(f, config, known)
  BY <1>1 DEF Refuses, OfKind, OfProtocol, config
<1>4. \A f : RefusesText(f) <=> BlockRaises(f, config)
  BY <1>1 DEF RefusesText, OfKind, OfProtocol, config
<1>5. HeaderRaises <=> ContextRaises(obj.type, config, ios)
  BY <1>1 DEF HeaderRaises, OfKind, OfProtocol, config
<1>6. Accepts <=> ValidProtocol(obj.type, config)
  BY <1>1 DEF Accepts, OfKind, OfProtocol, config
<1>7. ASSUME NEW f \in Range(handler.encode), BindingUnknown(f, config, known)
      PROVE  /\ Standard \in Range(handler.encode)
             /\ ~(Range(References(Value(config, "bindings"))) \subseteq known)
  <2>1. f = Standard
    BY <1>2, <1>7 DEF ProtocolOf, BindingUnknown
  <2> QED BY <1>7, <2>1 DEF BindingUnknown, Standard, Field
<1>8. ASSUME NEW f \in Range(handler.fields), BlockRaises(f, config), Accepts
      PROVE  obj.type = "modbus_tcp" /\ << >> \in Range(rows)
  <2>1. f = Registers /\ obj.type \in {"modbus_rtu", "modbus_tcp"}
    BY <1>2, <1>8 DEF ProtocolOf, Grouped, BlockRaises
  <2>2. << >> \in Range(rows)
    BY <1>8, <2>1 DEF BlockRaises, Registers, Field
  <2> QED BY <1>6, <1>8, <2>1, <2>2 DEF ValidProtocol
<1>9. ASSUME ContextRaises(obj.type, config, ios), Accepts
      PROVE  /\ obj.type = "modbus_rtu"
             /\ \E i, j \in DOMAIN rows :
               \/ /\ i # j /\ SpaceOf(rows[i]) = SpaceOf(rows[j])
                  /\ RegistersIn(rows[i]) \cap RegistersIn(rows[j]) # {}
               \/ SpaceOf(rows[i]) = "seekable" /\
                    \/ Start(rows[i]) < 0 \/ Start(rows[i]) > MaxRegister
                    \/ Number(rows[i][2], 0) < 0
                    \/ ~(RegistersIn(rows[i]) \subseteq 0..(MaxRegister - 1))
  <2>1. obj.type = "modbus_rtu"
    BY <1>9 DEF ContextRaises
  <2>2. rows \in Seq(Range(rows)) /\ \A i \in DOMAIN rows : BlockOf(rows[i])
    BY <1>9, <2>1, BlocksOfRtu
  <2>3. ASSUME NEW i \in DOMAIN rows
        PROVE  Number(rows[i][2], 0) \in Int /\ Start(rows[i]) \in Int
    BY <2>2 DEF BlockOf
  <2>4. ASSUME NEW i \in DOMAIN rows, Checked(rows[i])
        PROVE  /\ SpaceOf(rows[i]) = BlockSpace(rows[i])
               /\ SpanOf(CheckedType(rows[i]), rows[i], ios) \in Nat
               /\ RegistersIn(rows[i])
                    = {Start(rows[i]) + n : n \in 0..(SpanOf(CheckedType(rows[i]), rows[i], ios) - 1)}
    BY <2>2, <2>4 DEF BlockOf
  <2>5. PICK j \in DOMAIN rows :
          /\ Checked(rows[j])
          /\ \/ OutOfFile(rows[j], ios)
             \/ \E i \in 1..(j - 1) : Checked(rows[i]) /\ Overlap(rows[i], rows[j], ios)
    BY <1>9 DEF ContextRaises
  <2> DEFINE span(i) == SpanOf(CheckedType(rows[i]), rows[i], ios)
  <2>6. CASE OutOfFile(rows[j], ios)
    <3>1. SpaceOf(rows[j]) = "seekable"
      BY <2>4, <2>5, <2>6 DEF OutOfFile
    <3>2. CASE Start(rows[j]) < 0 \/ Number(rows[j][2], 0) < 0 \/ Start(rows[j]) > MaxRegister
      BY <2>1, <3>1, <3>2
    <3>3. CASE Start(rows[j]) + span(j) > MaxRegister /\ ~(Start(rows[j]) > MaxRegister)
      <4>1. Start(rows[j]) \in Int /\ span(j) \in Nat /\ MaxRegister \in Nat
        BY <2>3, <2>4, <2>5, ProtocolHandlersAssumption
      <4>2. Start(rows[j]) <= MaxRegister
        BY <3>3, <4>1
      <4>3. ~({Start(rows[j]) + n : n \in 0..(span(j) - 1)} \subseteq 0..(MaxRegister - 1))
        BY <3>3, <4>1, <4>2, RangeEnds
      <4>4. ~(RegistersIn(rows[j]) \subseteq 0..(MaxRegister - 1))
        BY <2>4, <2>5, <4>3
      <4> QED BY <2>1, <3>1, <4>4
    <3> QED BY <2>6, <3>2, <3>3 DEF OutOfFile, End
  <2>7. CASE \E i \in 1..(j - 1) : Checked(rows[i]) /\ Overlap(rows[i], rows[j], ios)
    <3>1. PICK i \in 1..(j - 1) : Checked(rows[i]) /\ Overlap(rows[i], rows[j], ios)
      BY <2>7
    <3>2. i \in DOMAIN rows /\ i # j
      BY <2>2, <2>5, <3>1
    <3>3. SpaceOf(rows[i]) = SpaceOf(rows[j])
      BY <2>4, <2>5, <3>1, <3>2 DEF Overlap
    <3> DEFINE a == Start(rows[i])
               b == Start(rows[j])
    <3>4. a \in Int /\ b \in Int /\ span(i) \in Int /\ span(j) \in Int
      <4>1. span(i) \in Nat
        BY <2>4, <3>1, <3>2
      <4>2. span(j) \in Nat
        BY <2>4, <2>5
      <4> HIDE DEF span
      <4> QED BY <2>3, <3>2, <4>1, <4>2
    <3>5. a + span(i) > a /\ b + span(j) > b /\ b < a + span(i) /\ a < b + span(j)
      BY <3>1 DEF Overlap, End
    <3>6. {a + k : k \in 0..(span(i) - 1)} \cap {b + k : k \in 0..(span(j) - 1)} # {}
      <4> HIDE DEF a, b, span
      <4> QED BY <3>4, <3>5, RangesMeet
    <3>7. RegistersIn(rows[i]) \cap RegistersIn(rows[j]) # {}
      BY <2>4, <2>5, <3>1, <3>2, <3>6
    <3> QED BY <2>1, <3>2, <3>3, <3>7
  <2> QED BY <2>5, <2>6, <2>7
<1> QED
  BY <1>3, <1>4, <1>5, <1>7, <1>8, <1>9 DEF Told, ProtocolCause

LEMMA NimbleHasCause ==
  ASSUME obj \in ProtocolEntry, obj.type = "nimble", Told
  PROVE  NimbleCause
<1>1. ~IsProgram /\ obj.kind = "protocol"
  BY ProtocolAssumption DEF IsProgram
<1>2. \A f : ~Refuses(f)
  BY <1>1 DEF Refuses, OfKind, OfProtocol
<1>3. \A f : RefusesText(f) <=> ServiceRaises(f, config)
  BY <1>1 DEF RefusesText, OfKind, OfProtocol, config
<1>4. HeaderRaises <=> ServicesRaise(config)
  BY <1>1 DEF HeaderRaises, OfKind, OfProtocol, config
<1>5. ASSUME NEW f, ServiceRaises(f, config)
      PROVE  f.name \in DOMAIN config /\ f.name # "custom" /\ config[f.name].list
  BY <1>5 DEF ServiceRaises, NoMapping, Given, Value
<1>6. ServicesRaise(config) => "services" \in DOMAIN config
  BY DEF ServicesRaise, Given
<1> QED
  BY <1>2, <1>3, <1>4, <1>5, <1>6 DEF Told, NimbleCause

LEMMA WakaamaHasCause ==
  ASSUME obj \in ProtocolEntry, obj.type = "wakaama", Told
  PROVE  WakaamaCause
<1> DEFINE rows == Range(Value(config, "objects").rows)
<1>1. /\ ~IsProgram /\ obj.kind = "protocol" /\ handler = Wakaama
      /\ \A key \in DOMAIN config \ {"servers"} : Table(config[key])
  BY ProtocolAssumption DEF IsProgram, handler, OfKind, OfProtocol, config
<1>2. \A f : Refuses(f) <=> EncodeWakaamaRaises(f, config, known)
  BY <1>1 DEF Refuses, OfKind, OfProtocol, config
<1>3. \A f : ~RefusesText(f)
  BY <1>1 DEF RefusesText, OfKind, OfProtocol
<1>4. HeaderRaises <=> ResourcesRaise(config, known)
  BY <1>1 DEF HeaderRaises, OfKind, OfProtocol, config
<1>5. Accepts => ValidWakaama(config)
  BY <1>1 DEF Accepts, OfKind, OfProtocol, config
<1>6. Table(Value(config, "objects"))
  BY <1>1, ValueIsTable DEF Given
<1>7. ASSUME NEW row \in rows, EntryRaises(row, known), ~ResourcesRaise(config, known), Accepts
      PROVE  \E i \in DOMAIN row : row[i].how \in {"empty", "unknown"}
  <2>1. row # << >>
    BY <1>5, <1>7 DEF ValidWakaama, ValidEntry
  <2>2. row \in Seq(Range(row))
    BY <1>6 DEF Table, Row
  <2>3. Len(row) \in Nat /\ Len(row) # 0 /\ DOMAIN row = 1..Len(row)
    BY <2>1, <2>2, LenProperties, EmptySeq
  <2>4. CASE NoId(row[1])
    BY <2>3, <2>4 DEF NoId
  <2>5. CASE \E i \in ResourcesOf(row) : NoId(row[3 * i])
    <3>1. PICK i \in ResourcesOf(row) : NoId(row[3 * i])
      BY <2>5
    <3>2. i \in 1..((Len(row) - 2) \div 3)
      BY DEF ResourcesOf
    <3>3. i \in Nat /\ 3 * i \in 1..Len(row)
      BY <2>3, <3>2
    <3> QED BY <2>3, <3>1, <3>3 DEF NoId
  <2>6. \A i \in ResourcesOf(row) : Range(Resolve(row[3 * i + 2])) \subseteq known
    BY <1>7 DEF ResourcesRaise, ResourceRefused
  <2> QED BY <1>7, <2>4, <2>5, <2>6 DEF EntryRaises
<1>8. ASSUME ResourcesRaise(config, known), \A row \in rows : ~EntryRaises(row, known)
      PROVE  \E row \in rows : \E i \in ResourcesOf(row) : \E ref \in Range(Resolve(row[3 * i + 2])) :
               \/ /\ row[3 * i].how = "symbol" /\ row[3 * i].of \in DOMAIN ResourceDtypes
                  /\ DtypeBound(ref) \notin ResourceDtypes[row[3 * i].of]
               \/ row[3 * i + 1].how = "number" /\ DtypeBound(ref) # "uint8"
  <2>1. PICK row \in rows : \E i \in ResourcesOf(row) : \E ref \in Range(Resolve(row[3 * i + 2])) :
          ResourceRefused(row[3 * i], row[3 * i + 1], ref, known)
    BY <1>8 DEF ResourcesRaise
  <2>2. PICK i \in ResourcesOf(row) : \E ref \in Range(Resolve(row[3 * i + 2])) :
          ResourceRefused(row[3 * i], row[3 * i + 1], ref, known)
    BY <2>1
  <2>3. PICK ref \in Range(Resolve(row[3 * i + 2])) :
          ResourceRefused(row[3 * i], row[3 * i + 1], ref, known)
    BY <2>2
  <2>4. ref \in known
    BY <1>8 DEF EntryRaises
  <2> QED BY <2>3, <2>4 DEF ResourceRefused, Number
<1>9. Resources \in Range(handler.encode) /\ Resources.shape = "resources"
  BY <1>1, OthersNameFields DEF Resources, Field
<1>10. (binResult = "raised" /\ textResult = "ok") =>
         \E row \in rows : \E i \in DOMAIN row : row[i].how \in {"empty", "unknown"}
  BY <1>2, <1>4, <1>7 DEF Told, EncodeWakaamaRaises
<1>11. (binResult = "ok" /\ textResult = "raised") =>
         ResourcesRaise(config, known) /\ \A row \in rows : ~EntryRaises(row, known)
  BY <1>2, <1>3, <1>4, <1>9 DEF Told, EncodeWakaamaRaises
<1> QED
  BY <1>8, <1>10, <1>11 DEF WakaamaCause

\* A reference of a field the text holds is one of its words.
LEMMA TargetsAreWords ==
  ASSUME NEW c, NEW d, Value(c, "targets").rows # << >>
  PROVE  Mentioned(GenerateIoField(Targets, c, d))
           = Range(References(Value(c, "targets"))) \cap (Ref \cup {Undeclared})
<1> DEFINE item == ItemOf("targets", References(Value(c, "targets")))
<1>1. GenerateIoField(Targets, c, d) = <<item>>
  BY DEF GenerateIoField, IoItems, Targets, Field
<1>2. item.words = References(Value(c, "targets"))
  BY DEF ItemOf, Item
<1> HIDE DEF item
<1>3. DOMAIN <<item>> = {1} /\ <<item>>[1] = item
  OBVIOUS
<1> QED BY <1>1, <1>2, <1>3 DEF Mentioned

LEMMA IoHasCause ==
  ASSUME obj \in IoEntry, Told
  PROVE  IoCause
<1> DEFINE targets == Value(config, "targets")
<1>1. /\ ~IsProgram /\ obj.kind = "io" /\ obj.type \in DOMAIN Ios /\ handler = Ios[obj.type]
      /\ \A key \in DOMAIN config : Table(config[key])
  BY IoAssumption DEF IsProgram, handler, OfKind, config
<1>2. IoOf(obj.type, handler)
  BY <1>1, IosNameFields
<1>3. \A f : Refuses(f) <=> EncodeIoRaises(f, config, dtype, known)
  BY <1>1 DEF Refuses, OfKind, config
<1>4. \A f : RefusesText(f) <=> GenerateIoRaises(f, config, obj.dtype)
  BY <1>1 DEF RefusesText, OfKind, config
<1>5. ~HeaderRaises
  BY <1>1 DEF HeaderRaises, OfKind
<1>6. obj.type \in {"dummy", "dummy_notify"} => dtype = obj.dtype
  BY DEF dtype, BinaryDtype, VariantDtype
<1>7. ASSUME NEW f \in Range(handler.encode), EncodeIoRaises(f, config, dtype, known),
             textResult = "ok"
      PROVE  \/ LimitsGiven(config) # << >>
             \/ Given(config, "init_value") /\ obj.dtype \in {"b16", "ub16"}
             \/ (Range(References(targets)) \cap defined) \ known # {}
  <2>1. IoFieldOf(obj.type, f, handler)
    BY <1>2 DEF IoOf
  <2>2. CASE f.shape = "limits"
    <3>1. LimitValues(config) # {}
      BY <1>7, <2>2 DEF EncodeIoRaises
    <3> QED BY <3>1 DEF LimitValues, Range
  <2>3. CASE f.shape = "scalars"
    <3>1. f = InitValue /\ f \in Range(handler.fields) /\ dtype = obj.dtype
      BY <1>6, <2>1, <2>3 DEF IoFieldOf
    <3>2. f.name = "init_value"
      BY <3>1 DEF InitValue, Field
    <3>3. dtype \notin Scalar /\ Value(config, f.name).rows # << >>
      BY <1>7, <2>3 DEF EncodeIoRaises
    <3>4. Given(config, "init_value")
      BY <3>2, <3>3 DEF Value, Absent
    <3>5. obj.dtype \in Initial
      BY <1>4, <1>7, <2>3, <3>1, <3>2, <3>4 DEF Told, GenerateIoRaises
    <3> QED BY <3>1, <3>3, <3>4, <3>5 DEF Initial
  <2>4. CASE f.shape = "targets"
    <3>1. f = Targets /\ f \in Range(handler.fields)
      BY <2>1, <2>4 DEF IoFieldOf
    <3>2. f.name = "targets"
      BY <3>1 DEF Targets, Field
    <3>3. PICK row \in Range(targets.rows) : row[1].how # "name" \/ row[1].of \notin known
      BY <1>7, <2>4, <3>2 DEF EncodeIoRaises
    <3>4. row[1].how = "name" /\ row[1].of \notin known
      BY <1>4, <1>7, <2>4, <3>1, <3>2, <3>3 DEF Told, GenerateIoRaises
    <3>5. "targets" \in DOMAIN config /\ targets = config["targets"] /\ targets.rows # << >>
      BY <3>3 DEF Value, Absent, Range, Given
    <3>6. Len(row) = 1 /\ Row(row)
      BY <1>1, <3>3, <3>5, IoAssumption DEF config, Table
    <3>7. row[1].of \in Range(References(targets))
      BY <1>1, <3>4, <3>5, <3>6, ReferencesRight
    <3>8. row[1].of \in Ref
      <4>1. 1 \in DOMAIN row
        BY <3>6 DEF Row
      <4> QED BY <3>4, <3>6, <4>1 DEF Row, Range
    <3>9. Mentioned(IoText(f)) \subseteq defined
      BY <1>1, <1>7, <3>1 DEF Told
    <3>10. row[1].of \in Mentioned(IoText(f))
      BY <3>1, <3>5, <3>7, <3>8, TargetsAreWords DEF IoText, config
    <3> QED BY <3>4, <3>7, <3>9, <3>10
  <2> QED BY <1>7, <2>2, <2>3, <2>4 DEF EncodeIoRaises
<1>8. ASSUME NEW f \in Range(handler.fields), GenerateIoRaises(f, config, obj.dtype),
             binResult = "ok"
      PROVE  /\ Given(config, "init_value")
             /\ obj.dtype = "char" \/ config["init_value"].rows = << >>
  <2>1. IoFieldOf(obj.type, f, handler)
    BY <1>2 DEF IoOf
  <2>2. f \in Range(handler.encode) /\ ~EncodeIoRaises(f, config, dtype, known)
    BY <1>3, <1>8, <2>1 DEF IoFieldOf, GenerateIoRaises, Told
  <2>3. CASE f.shape = "scalars"
    <3>1. f = InitValue /\ dtype = obj.dtype
      BY <1>6, <2>1, <2>3 DEF IoFieldOf
    <3>2. f.name = "init_value"
      BY <3>1 DEF InitValue, Field
    <3>3. Given(config, "init_value") /\ obj.dtype \notin Initial
      BY <1>8, <2>3, <3>2 DEF GenerateIoRaises
    <3>4. obj.dtype \in Scalar \/ config["init_value"].rows = << >>
      BY <2>2, <2>3, <3>1, <3>2, <3>3 DEF EncodeIoRaises, Value
    <3> QED BY <3>3, <3>4 DEF Initial
  <2>4. CASE f.shape # "scalars"
    BY <1>8, <2>2, <2>4 DEF GenerateIoRaises, EncodeIoRaises
  <2> QED BY <2>3, <2>4
<1> QED
  BY <1>3, <1>4, <1>5, <1>7, <1>8 DEF Told, IoCause

-----------------------------------------------------------------------------
(* Passes                                                                    *)

\* While a pass lasts, the fields it has left are some of the handler's, and those it is
\* done with do not raise; what an IO's wrote is in the text.
BinaryPass ==
  /\ IsSequence(todo) /\ Range(todo) \subseteq Range(handler.encode)
  /\ \A f \in Range(handler.encode) \ Range(todo) : ~Refuses(f)
TextPass ==
  /\ IsSequence(todo) /\ Range(todo) \subseteq Range(handler.fields)
  /\ ~HeaderRaises
  /\ \A f \in Range(handler.fields) \ Range(todo) : ~RefusesText(f)
  /\ obj.kind = "io" =>
       /\ IsSequence(text)
       /\ \A f \in Range(handler.fields) \ Range(todo) : Range(IoText(f)) \subseteq Range(text)
Passing ==
  /\ obj \in Program \cup ProtocolEntry \cup IoEntry
  /\ phase \in {"decode", "binary"} => binResult = "pending"
  /\ phase # "done" => textResult = "pending"
  /\ phase \in {"binary", "text", "fields"} => Accepts
  /\ phase = "binary" => BinaryPass
  /\ phase = "fields" => TextPass
  /\ Told

\* Whatever the entry, its handler has both orders of its fields.
LEMMA HandlerHasOrders ==
  ASSUME obj \in Program \cup ProtocolEntry \cup IoEntry
  PROVE  IsSequence(handler.encode) /\ IsSequence(handler.fields)
<1>1. CASE obj \in Program
  <2>1. obj.type \in DOMAIN Handlers /\ handler = Handlers[obj.type]
    BY <1>1, ProgramAssumption DEF handler, OfKind, IsProgram
  <2> QED BY <2>1, HandlersNameFields DEF HandlerOf
<1>2. CASE obj \in ProtocolEntry
  <2>1. obj.kind = "protocol" /\ obj.type \in DOMAIN Protocols \cup {"nimble", "wakaama"}
    BY <1>2, ProtocolAssumption
  <2>2. handler = OfProtocol(Protocols[obj.type], Nimble, Wakaama)
    BY <2>1 DEF handler, OfKind, IsProgram
  <2>3. CASE obj.type \in {"nimble", "wakaama"}
    BY <2>2, <2>3, OthersNameFields DEF OfProtocol
  <2>4. CASE obj.type \notin {"nimble", "wakaama"}
    BY <2>1, <2>2, <2>4, ProtocolsNameFields DEF OfProtocol, ProtocolOf
  <2> QED BY <2>3, <2>4
<1>3. CASE obj \in IoEntry
  <2>1. obj.type \in DOMAIN Ios /\ handler = Ios[obj.type]
    BY <1>3, IoAssumption DEF handler, OfKind, IsProgram
  <2> QED BY <2>1, IosNameFields DEF IoOf
<1> QED BY <1>1, <1>2, <1>3

\* There is an item for each limit, and every field of an IO gives a sequence of items.
LEMMA LimitItemsAreSequence ==
  ASSUME NEW c, NEW d
  PROVE  IsSequence(LimitItems(c, d))
<1>1. IsSequence(<<1, 2, 3>>)
  BY TripleIsSequence
<1>2. \A among : IsSequence(Known(<<1, 2, 3>>, among))
  BY <1>1, KnownRight
<1>3. IsSequence(LimitsGiven(c))
  BY <1>2, EmptyIsSequence DEF LimitsGiven
<1> QED BY <1>3, MappedIsSequence DEF LimitItems

LEMMA IoTextIsSequence ==
  ASSUME NEW f
  PROVE  IsSequence(IoText(f))
<1> DEFINE c == obj.config
           d == obj.dtype
<1>1. \A item : IsSequence(<<item>>)
  BY SingletonIsSequence
<1>2. IsSequence(<< >>)
  BY EmptyIsSequence
<1>3. IsSequence(LimitItems(c, d))
  BY LimitItemsAreSequence
<1>4. IsSequence(EncodeProtocolField(f, c, Ref))
  BY <1>1, <1>2 DEF EncodeProtocolField
<1>5. IsSequence(IoItems(f, c, d))
  BY <1>1, <1>2, <1>3, <1>4 DEF IoItems
<1> QED BY <1>1, <1>2, <1>5 DEF IoText, GenerateIoField

\* An entry, and the names around it, decide what is refused: neither changes.
LEMMA InputKept ==
  ASSUME [Next]_vars
  PROVE  obj' = obj /\ defined' = defined
  BY DEF Next, Accept, Refuse, Encode, EncodingRaises, EncodingDone, GenerateHeader, Generate,
         GenerationRaises, Compile, input, vars

LEMMA InputDecides ==
  ASSUME obj' = obj, defined' = defined
  PROVE  /\ handler' = handler /\ Accepts' = Accepts /\ HeaderRaises' = HeaderRaises
         /\ \A f : /\ Refuses(f)' = Refuses(f)
                   /\ RefusesText(f)' = RefusesText(f)
                   /\ IoText(f)' = IoText(f)
<1>1. IsProgram' = IsProgram /\ known' = known /\ dtype' = dtype
  BY DEF IsProgram, known, dtype, OfKind
<1>2. handler' = handler
  BY <1>1 DEF handler, OfKind, OfProtocol
<1>3. Accepts' = Accepts
  BY <1>1 DEF Accepts, OfKind, OfProtocol
<1>4. HeaderRaises' = HeaderRaises
  BY <1>1 DEF HeaderRaises, OfKind, OfProtocol
<1>5. \A f : Refuses(f)' = Refuses(f)
  BY <1>1 DEF Refuses, OfKind, OfProtocol
<1>6. \A f : RefusesText(f)' = RefusesText(f) /\ IoText(f)' = IoText(f)
  BY <1>1 DEF RefusesText, IoText, OfKind, OfProtocol
<1> QED BY <1>2, <1>3, <1>4, <1>5, <1>6

\* What a step does with the head of what is left.
LEMMA HeadLeaves ==
  ASSUME IsSequence(todo), todo # << >>
  PROVE  /\ IsSequence(Tail(todo)) /\ field \in Range(todo)
         /\ Range(todo) = {field} \cup Range(Tail(todo))
<1>1. /\ IsSequence(Tail(todo)) /\ Len(todo) \in Nat /\ Len(todo) = Len(Tail(todo)) + 1
      /\ Len(Tail(todo)) \in Nat /\ field = todo[1] /\ 1 \in DOMAIN todo
      /\ \A i \in DOMAIN Tail(todo) : i + 1 \in DOMAIN todo /\ Tail(todo)[i] = todo[i + 1]
  BY TailIsSequence DEF field
<1>2. DOMAIN todo = 1..Len(todo) /\ DOMAIN Tail(todo) = 1..Len(Tail(todo))
  BY <1>1, LenProperties DEF IsSequence
<1>3. ASSUME NEW i \in DOMAIN todo
      PROVE  i = 1 \/ todo[i] \in Range(Tail(todo))
  <2>1. i # 1 => i - 1 \in DOMAIN Tail(todo) /\ i = (i - 1) + 1
    BY <1>1, <1>2
  <2>2. i # 1 => Tail(todo)[i - 1] = todo[i]
    BY <1>1, <2>1
  <2> QED BY <2>1, <2>2 DEF Range
<1>4. Range(Tail(todo)) \subseteq Range(todo)
  BY <1>1 DEF Range
<1>5. Range(todo) \subseteq {field} \cup Range(Tail(todo))
  BY <1>1, <1>3 DEF Range
<1>6. field \in Range(todo)
  BY <1>1 DEF Range
<1> QED BY <1>1, <1>4, <1>5, <1>6

\* At first nothing is told.
LEMMA PassingInit == Init => Passing
  BY DEF Init, Passing, Told

\* What was told stays true while no result changes.
LEMMA ToldKept ==
  ASSUME Told, [Next]_vars, binResult' = binResult, textResult' = textResult
  PROVE  Told'
<1>1. obj' = obj /\ defined' = defined
  BY InputKept
<1> HIDE DEF handler
<1>2. /\ handler' = handler /\ Accepts' = Accepts /\ HeaderRaises' = HeaderRaises
      /\ \A f : /\ Refuses(f)' = Refuses(f)
                /\ RefusesText(f)' = RefusesText(f)
                /\ IoText(f)' = IoText(f)
  BY <1>1, InputDecides
<1>3. \A f : (Mentioned(IoText(f)) \subseteq defined)' = (Mentioned(IoText(f)) \subseteq defined)
  BY <1>1, <1>2 DEF Mentioned
<1> QED
  BY <1>1, <1>2, <1>3 DEF Told

LEMMA StepKeepsPassing == Passing /\ [Next]_vars => Passing'
<1> SUFFICES ASSUME Passing, [Next]_vars
             PROVE  Passing'
  OBVIOUS
<1>1. obj' = obj /\ defined' = defined
  BY InputKept
<1>2. /\ handler' = handler /\ Accepts' = Accepts /\ HeaderRaises' = HeaderRaises
      /\ \A f : /\ Refuses(f)' = Refuses(f)
                /\ RefusesText(f)' = RefusesText(f)
                /\ IoText(f)' = IoText(f)
  BY <1>1, InputDecides
<1>3. obj \in Program \cup ProtocolEntry \cup IoEntry /\ Told
  BY DEF Passing
<1>4. IsSequence(handler.encode) /\ IsSequence(handler.fields)
  BY <1>3, HandlerHasOrders
<1>5. (binResult' = binResult /\ textResult' = textResult) => Told'
  BY <1>3, ToldKept
<1>6. CASE UNCHANGED vars
  <2>1. UNCHANGED <<phase, todo, binResult, text, textResult>>
    BY <1>6 DEF vars, binary, source
  <2>2. (phase = "binary" => BinaryPass') /\ (phase = "fields" => TextPass')
    BY <1>1, <1>2, <2>1 DEF Passing, BinaryPass, TextPass
  <2> QED BY <1>1, <1>2, <1>5, <2>1, <2>2 DEF Passing
<1>7. CASE Accept
  <2>1. /\ phase = "decode" /\ Accepts /\ phase' = "binary" /\ todo' = handler.encode
        /\ binResult' = binResult /\ textResult' = textResult
    BY <1>7 DEF Accept, binary, source
  <2>2. BinaryPass'
    BY <1>2, <1>4, <2>1 DEF BinaryPass
  <2> QED BY <1>1, <1>2, <1>5, <2>1, <2>2 DEF Passing
<1>8. CASE Refuse
  BY <1>1, <1>5, <1>8 DEF Refuse, Passing, binary, source
<1>9. CASE Encode
  <2>1. /\ phase = "binary" /\ todo # << >> /\ ~Refuses(field)
        /\ phase' = phase /\ todo' = Tail(todo)
        /\ binResult' = binResult /\ textResult' = textResult
    BY <1>9 DEF Encode, AtField, FieldRaises, Refuses, source
  <2>2. BinaryPass
    BY <2>1 DEF Passing
  <2>3. IsSequence(todo') /\ Range(todo) = {field} \cup Range(todo')
    BY <2>1, <2>2, HeadLeaves DEF BinaryPass
  <2>4. BinaryPass'
    BY <1>2, <2>1, <2>2, <2>3 DEF BinaryPass
  <2> QED BY <1>1, <1>2, <1>5, <2>1, <2>4 DEF Passing
<1>10. CASE EncodingRaises
  <2>1. /\ phase = "binary" /\ todo # << >> /\ Refuses(field)
        /\ phase' = "text" /\ binResult' = "raised" /\ textResult' = textResult
    BY <1>10 DEF EncodingRaises, AtField, FieldRaises, Refuses, source
  <2>2. BinaryPass /\ Accepts /\ textResult = "pending"
    BY <2>1 DEF Passing
  <2>3. field \in Range(handler.encode)
    BY <2>1, <2>2, HeadLeaves DEF BinaryPass
  <2>4. Told'
    BY <1>2, <2>1, <2>2, <2>3 DEF Told
  <2> QED BY <1>1, <1>2, <2>1, <2>2, <2>4 DEF Passing
<1>11. CASE EncodingDone
  <2>1. /\ phase = "binary" /\ todo = << >>
        /\ phase' = "text" /\ binResult' = "ok" /\ textResult' = textResult
    BY <1>11 DEF EncodingDone, source
  <2>2. BinaryPass /\ Accepts /\ textResult = "pending"
    BY <2>1 DEF Passing
  <2>3. \A f \in Range(handler.encode) : ~Refuses(f)
    BY <2>1, <2>2 DEF BinaryPass, Range
  <2>4. Told'
    BY <1>2, <2>1, <2>2, <2>3 DEF Told
  <2> QED BY <1>1, <1>2, <2>1, <2>2, <2>4 DEF Passing
<1>12. CASE GenerateHeader
  <2>1. /\ phase = "text" /\ ~HeaderRaises /\ phase' = "fields" /\ todo' = handler.fields
        /\ ~IsProgram => text' = << >>
        /\ binResult' = binResult /\ textResult' = textResult
    BY <1>12 DEF GenerateHeader, binary
  <2>2. obj.kind = "io" => IsSequence(text')
    BY <2>1, EmptyIsSequence DEF IsProgram
  <2>3. TextPass'
    BY <1>1, <1>2, <1>4, <2>1, <2>2 DEF TextPass
  <2> QED BY <1>1, <1>2, <1>5, <2>1, <2>3 DEF Passing
<1>13. CASE Generate
  <2>1. /\ phase = "fields" /\ todo # << >> /\ ~RefusesText(field)
        /\ phase' = phase /\ todo' = Tail(todo) /\ text' = text \o TextItems
        /\ binResult' = binResult /\ textResult' = textResult
    BY <1>13 DEF Generate, AtField, TextFieldRaises, RefusesText, binary
  <2>2. TextPass
    BY <2>1 DEF Passing
  <2>3. IsSequence(todo') /\ Range(todo) = {field} \cup Range(todo')
    BY <2>1, <2>2, HeadLeaves DEF TextPass
  <2>4. obj.kind = "io" =>
          /\ IsSequence(text')
          /\ Range(text') = Range(text) \cup Range(IoText(field))
    <3> SUFFICES ASSUME obj.kind = "io"
                 PROVE  /\ IsSequence(text')
                        /\ Range(text') = Range(text) \cup Range(IoText(field))
      OBVIOUS
    <3>1. TextItems = IoText(field)
      BY DEF TextItems, OfKind, IsProgram, IoText
    <3>2. IsSequence(IoText(field)) /\ IsSequence(text)
      BY <2>2, IoTextIsSequence DEF TextPass
    <3> QED BY <2>1, <3>1, <3>2, ConcatIsSequence
  <2>5. TextPass'
    BY <1>1, <1>2, <2>1, <2>2, <2>3, <2>4 DEF TextPass
  <2> QED BY <1>1, <1>2, <1>5, <2>1, <2>5 DEF Passing
<1>14. CASE GenerationRaises
  <2>1. /\ phase' = "done" /\ textResult' = "raised" /\ binResult' = binResult
        /\ \/ phase = "text" /\ HeaderRaises
           \/ phase = "fields" /\ todo # << >> /\ RefusesText(field)
    BY <1>14 DEF GenerationRaises, AtField, TextFieldRaises, RefusesText, binary
  <2>2. Accepts
    BY <2>1 DEF Passing
  <2>3. HeaderRaises \/ \E f \in Range(handler.fields) : RefusesText(f)
    BY <2>1, HeadLeaves DEF Passing, TextPass
  <2>4. Told'
    BY <1>2, <1>3, <2>1, <2>2, <2>3 DEF Told
  <2> QED BY <1>1, <2>1, <2>4 DEF Passing
<1>15. CASE Compile
  <2>1. /\ phase = "fields" /\ todo = << >> /\ phase' = "done" /\ binResult' = binResult
        /\ textResult' = (IF Mentioned(text) \subseteq defined THEN "ok" ELSE "rejected")
    BY <1>15 DEF Compile, binary
  <2>2. TextPass /\ Accepts
    BY <2>1 DEF Passing
  <2>3. \A f \in Range(handler.fields) : f \notin Range(todo)
    BY <2>1 DEF Range
  <2>4. ASSUME textResult' = "ok", obj.kind = "io", NEW f \in Range(handler.fields)
        PROVE  Mentioned(IoText(f)) \subseteq defined
    <3>1. Range(IoText(f)) \subseteq Range(text)
      BY <2>2, <2>3, <2>4 DEF TextPass
    <3>2. Mentioned(IoText(f)) \subseteq Mentioned(text)
      BY <3>1 DEF Mentioned, Range
    <3>3. Mentioned(text) \subseteq defined
      BY <2>1, <2>4
    <3> QED BY <3>2, <3>3
  <2>5. \A f : (Mentioned(IoText(f)) \subseteq defined)' = (Mentioned(IoText(f)) \subseteq defined)
    BY <1>1, <1>2 DEF Mentioned
  <2>6. Told'
    BY <1>1, <1>2, <1>3, <2>1, <2>2, <2>3, <2>4, <2>5 DEF Told, TextPass
  <2> QED BY <1>1, <2>1, <2>6 DEF Passing
<1> QED
  BY <1>6, <1>7, <1>8, <1>9, <1>10, <1>11, <1>12, <1>13, <1>14, <1>15 DEF Next

\* Every refusal of an object, of any types, configs and defined names, has a cause its
\* handler knows.
THEOREM RefusedForCause == Spec => []RaisesForCause
<1>1. Passing => RaisesForCause
  <2> SUFFICES ASSUME Passing
               PROVE  RaisesForCause
    OBVIOUS
  <2>1. Told /\ obj \in Program \cup ProtocolEntry \cup IoEntry
    BY DEF Passing
  <2>2. CASE obj \in Program
    <3>1. IsProgram
      BY <2>2, ProgramAssumption DEF IsProgram
    <3> QED BY <2>1, <2>2, <3>1, ProgramHasCause DEF RaisesForCause, OfKind
  <2>3. CASE obj \in ProtocolEntry
    <3>1. /\ ~IsProgram /\ obj.kind = "protocol"
          /\ obj.type \in DOMAIN Protocols \cup {"nimble", "wakaama"}
      BY <2>3, ProtocolAssumption DEF IsProgram
    <3>2. OfProtocol(ProtocolCause, NimbleCause, WakaamaCause)
      BY <2>1, <2>3, <3>1, ProtocolHasCause, NimbleHasCause, WakaamaHasCause DEF OfProtocol
    <3> QED BY <3>1, <3>2 DEF RaisesForCause, OfKind
  <2>4. CASE obj \in IoEntry
    <3>1. ~IsProgram /\ obj.kind = "io"
      BY <2>4, IoAssumption DEF IsProgram
    <3> QED BY <2>1, <2>4, <3>1, IoHasCause DEF RaisesForCause, OfKind
  <2> QED BY <2>1, <2>2, <2>3, <2>4
<1> QED
  BY <1>1, PassingInit, StepKeepsPassing, PTL DEF Spec

-----------------------------------------------------------------------------
(* Counts                                                                    *)

\* What a field of the entry gives to the text, and what is announced for it.
ItemsFor(f) ==
  OfKind(GenerateField(f, obj.config),
         OfProtocol(GenerateProtocolField(f, obj.config), GenerateService(f, obj.config),
                    GenerateWakaama(f, obj.config)),
         GenerateIoField(f, obj.config, obj.dtype))
CountFor(f) ==
  OfKind(1, OfProtocol(CountOf(f, obj.config), ServiceCount(f, obj.config),
                       WakaamaCount(f, obj.config)),
         IoCountOf(f, obj.config))
Counts(fields) == [i \in DOMAIN fields |-> CountFor(fields[i])]

\* While fields are emitted, those that are left will give the items announced for them.
Excused == BoundAbsent \/ ServiceEmpty
Counting ==
  /\ phase = "fields" =>
       Excused \/ (IsSequence(text) /\ announced = Len(text) + Total(Counts(todo)))
  /\ ItemsCounted

LEMMA EntryItemsCounted ==
  ASSUME obj \in Program \cup ProtocolEntry \cup IoEntry, ~Excused,
         NEW f \in Range(handler.fields)
  PROVE  AsCounted(ItemsFor(f), CountFor(f))
<1>1. CASE obj \in Program
  <2>1. IsProgram
    BY <1>1, ProgramAssumption DEF IsProgram
  <2>2. f.shape = "bound" => Given(obj.config, f.name)
    BY DEF Excused, BoundAbsent, Range, config
  <2> QED BY <2>1, <2>2, ProgramItemCounted DEF ItemsFor, CountFor, OfKind
<1>2. CASE obj \in ProtocolEntry
  <2>1. /\ ~IsProgram /\ obj.kind = "protocol"
        /\ obj.type \in DOMAIN Protocols \cup {"nimble", "wakaama"}
        /\ \A key \in DOMAIN obj.config \ {"servers"} : Table(obj.config[key])
    BY <1>2, ProtocolAssumption DEF IsProgram
  <2>2. handler = OfProtocol(Protocols[obj.type], Nimble, Wakaama)
    BY <2>1 DEF handler, OfKind
  <2>3. CASE obj.type = "nimble"
    <3>1. f \in Services
      BY <2>2, <2>3, OthersNameFields DEF OfProtocol
    <3>2. \A key \in DOMAIN obj.config : Table(obj.config[key])
      BY <1>2, <2>3, ProtocolAssumption
    <3>3. \A i \in DOMAIN Value(obj.config, "custom").rows :
            Value(obj.config, "custom").rows[i] # << >> => TextEntries(Custom, obj.config)[i] # << >>
      BY <2>3 DEF Excused, ServiceEmpty, config
    <3>4. AsCounted(GenerateService(f, obj.config), ServiceCount(f, obj.config))
      BY <3>1, <3>2, <3>3, NimbleItemsCounted
    <3> QED BY <2>1, <2>3, <3>4 DEF ItemsFor, CountFor, OfKind, OfProtocol
  <2>4. CASE obj.type = "wakaama"
    <3>1. f \in Range(Wakaama.fields)
      BY <2>2, <2>4 DEF OfProtocol
    <3>2. "servers" \in DOMAIN obj.config => IsSequence(obj.config["servers"].rows)
      BY <1>2, <2>4, ProtocolAssumption, SequenceOverItself
    <3>3. AsCounted(GenerateWakaama(f, obj.config), WakaamaCount(f, obj.config))
      BY <2>1, <3>1, <3>2, WakaamaItemsCounted
    <3> QED BY <2>1, <2>4, <3>3 DEF ItemsFor, CountFor, OfKind, OfProtocol
  <2>5. CASE obj.type \notin {"nimble", "wakaama"}
    <3>1. obj.type \in DOMAIN Protocols /\ f \in Range(Protocols[obj.type].fields)
      BY <2>1, <2>2, <2>5 DEF OfProtocol
    <3>2. \A key \in DOMAIN obj.config : Table(obj.config[key])
      BY <1>2, <2>5, ProtocolAssumption
    <3>3. AsCounted(GenerateProtocolField(f, obj.config), CountOf(f, obj.config))
      BY <3>1, <3>2, ProtocolItemsCounted
    <3> QED BY <2>1, <2>5, <3>3 DEF ItemsFor, CountFor, OfKind, OfProtocol
  <2> QED BY <2>3, <2>4, <2>5
<1>3. CASE obj \in IoEntry
  <2>1. ~IsProgram /\ obj.kind = "io" /\ obj.type \in DOMAIN Ios
    BY <1>3, IoAssumption DEF IsProgram
  <2>2. handler = Ios[obj.type]
    BY <2>1 DEF handler, OfKind
  <2>3. AsCounted(GenerateIoField(f, obj.config, obj.dtype), IoCountOf(f, obj.config))
    BY <2>1, <2>2, IoItemsCounted
  <2> QED BY <2>1, <2>3 DEF ItemsFor, CountFor, OfKind
<1> QED BY <1>1, <1>2, <1>3

\* The header announces the items of all fields, and a binding that is already written.
LEMMA HeaderAnnounces ==
  ASSUME obj \in Program \cup ProtocolEntry \cup IoEntry, GenerateHeader, ~Excused
  PROVE  IsSequence(text') /\ announced' = Len(text') + Total(Counts(handler.fields))
<1> DEFINE fields == handler.fields
           counts == Counts(fields)
<1>1. IsSequence(fields) /\ Len(fields) \in Nat /\ DOMAIN fields = 1..Len(fields)
  BY HandlerHasOrders, LenProperties DEF IsSequence
<1>2. IsSequence(counts) /\ Len(counts) = Len(fields)
  BY <1>1, MappedIsSequence DEF Counts
<1>3. \A i \in DOMAIN counts : counts[i] \in Nat
  BY EntryItemsCounted DEF Counts, Range, AsCounted
<1>4. Total(counts) \in Nat
  <2> HIDE DEF counts
  <2> QED BY <1>2, <1>3, TotalIsNat
<1>5. CASE obj \in Program
  <2>1. IsProgram /\ fields = Handlers[obj.type].fields
    BY <1>5, ProgramAssumption DEF IsProgram, handler, OfKind
  <2>2. \A i \in DOMAIN counts : counts[i] = 1
    BY <2>1 DEF Counts, CountFor, OfKind
  <2>3. Total(counts) = Len(fields)
    <3> HIDE DEF counts
    <3> QED BY <1>2, <2>2, TotalOfOnes
  <2>4. CASE WritesBinding(obj.type, obj.config)
    <3>1. announced' = Len(fields) + 1 /\ text' = <<StandardBinding(obj.type, obj.config)>>
      BY <2>1, <2>4 DEF GenerateHeader, Announced, OfKind
    <3> QED BY <1>1, <2>3, <3>1, SingletonIsSequence
  <2>5. CASE ~WritesBinding(obj.type, obj.config)
    <3>1. announced' = Len(fields) + 0 /\ text' = << >>
      BY <2>1, <2>5 DEF GenerateHeader, Announced, OfKind
    <3> QED BY <1>1, <2>3, <3>1, EmptyIsSequence
  <2> QED BY <2>4, <2>5
<1>6. CASE obj \notin Program
  <2>1. ~IsProgram
    BY <1>6, ProtocolAssumption, IoAssumption DEF IsProgram
  <2>2. text' = << >>
    BY <2>1 DEF GenerateHeader
  <2>3. announced' = Total(counts)
    <3>1. CASE obj.kind = "protocol" /\ obj.type = "nimble"
      <4>1. fields = Nimble.fields /\ announced' = NimbleAnnounced(obj.config)
        BY <2>1, <3>1 DEF GenerateHeader, handler, OfKind, OfProtocol
      <4>2. counts = [i \in DOMAIN fields |-> ServiceCount(fields[i], obj.config)]
        BY <2>1, <3>1 DEF Counts, CountFor, OfKind, OfProtocol
      <4> QED BY <4>1, <4>2 DEF NimbleAnnounced
    <3>2. CASE obj.kind = "protocol" /\ obj.type = "wakaama"
      <4>1. fields = Wakaama.fields /\ announced' = WakaamaAnnounced(obj.config)
        BY <2>1, <3>2 DEF GenerateHeader, handler, OfKind, OfProtocol
      <4>2. counts = [i \in DOMAIN fields |-> WakaamaCount(fields[i], obj.config)]
        BY <2>1, <3>2 DEF Counts, CountFor, OfKind, OfProtocol
      <4> QED BY <4>1, <4>2 DEF WakaamaAnnounced
    <3>3. CASE obj.kind = "protocol" /\ obj.type \notin {"nimble", "wakaama"}
      <4>1. fields = Protocols[obj.type].fields /\ announced' = ProtocolAnnounced(obj.type, obj.config)
        BY <2>1, <3>3 DEF GenerateHeader, handler, OfKind, OfProtocol
      <4>2. counts = [i \in DOMAIN fields |-> CountOf(fields[i], obj.config)]
        BY <2>1, <3>3 DEF Counts, CountFor, OfKind, OfProtocol
      <4> QED BY <4>1, <4>2 DEF ProtocolAnnounced
    <3>4. CASE obj.kind # "protocol"
      <4>1. fields = Ios[obj.type].fields /\ announced' = IoAnnounced(obj.type, obj.config)
        BY <2>1, <3>4 DEF GenerateHeader, handler, OfKind
      <4>2. counts = [i \in DOMAIN fields |-> IoCountOf(fields[i], obj.config)]
        BY <2>1, <3>4 DEF Counts, CountFor, OfKind
      <4> QED BY <4>1, <4>2 DEF IoAnnounced
    <3> QED BY <3>1, <3>2, <3>3, <3>4
  <2> HIDE DEF counts
  <2> QED BY <1>4, <2>2, <2>3, EmptyIsSequence DEF counts
<1> QED BY <1>5, <1>6

LEMMA CountingInit == Init => Counting
  BY DEF Init, Counting, ItemsCounted

\* A field that is emitted moves its count from what is left to what is there.
LEMMA StepKeepsCounting == Passing /\ Counting /\ [Next]_vars => Counting'
<1> SUFFICES ASSUME Passing, Counting, [Next]_vars
             PROVE  Counting'
  OBVIOUS
<1>1. obj' = obj
  BY InputKept
<1>2. IsProgram' = IsProgram /\ handler' = handler /\ Excused' = Excused
  BY <1>1 DEF IsProgram, handler, OfKind, OfProtocol, Excused, BoundAbsent, ServiceEmpty, config
<1>3. \A fields : Counts(fields)' = Counts(fields)
  BY <1>1, <1>2 DEF Counts, CountFor, OfKind, OfProtocol
<1>4. obj \in Program \cup ProtocolEntry \cup IoEntry /\ (textResult = "ok" => phase = "done")
  BY DEF Passing
<1> HIDE DEF handler
<1>5. CASE UNCHANGED vars
  BY <1>2, <1>3, <1>5 DEF vars, source, Counting, ItemsCounted, Excused
<1>6. CASE Accept \/ Refuse \/ Encode \/ EncodingRaises \/ EncodingDone
  <2>1. phase' # "fields" /\ textResult' = textResult /\ textResult # "ok"
    BY <1>4, <1>6 DEF Accept, Refuse, Encode, EncodingRaises, EncodingDone, AtField, source
  <2> QED BY <2>1 DEF Counting, ItemsCounted
<1>7. CASE GenerateHeader
  <2>1. todo' = handler.fields /\ textResult' # "ok"
    BY <1>4, <1>7 DEF GenerateHeader
  <2>2. Excused \/ (IsSequence(text') /\ announced' = Len(text') + Total(Counts(todo')))
    BY <1>4, <1>7, <2>1, HeaderAnnounces
  <2> QED BY <1>2, <1>3, <2>1, <2>2 DEF Counting, ItemsCounted
<1>8. CASE Generate
  <2>1. /\ phase = "fields" /\ todo # << >> /\ todo' = Tail(todo) /\ announced' = announced
        /\ text' = text \o ItemsFor(field) /\ textResult' # "ok"
    BY <1>4, <1>8 DEF Generate, AtField, ItemsFor, TextItems
  <2>2. IsSequence(todo) /\ Range(todo) \subseteq Range(handler.fields)
    BY <2>1 DEF Passing, TextPass
  <2>3. ASSUME ~Excused
        PROVE  IsSequence(text') /\ announced' = Len(text') + Total(Counts(todo'))
    <3> DEFINE counts == Counts(todo)
    <3>1. /\ IsSequence(Tail(todo)) /\ 1 \in DOMAIN todo /\ field = todo[1]
          /\ Len(todo) \in Nat /\ Len(Tail(todo)) \in Nat /\ Len(todo) = Len(Tail(todo)) + 1
          /\ \A i \in DOMAIN Tail(todo) : i + 1 \in DOMAIN todo /\ Tail(todo)[i] = todo[i + 1]
      BY <2>1, <2>2, TailIsSequence DEF field
    <3>2. IsSequence(counts) /\ Len(counts) = Len(todo) /\ DOMAIN counts = DOMAIN todo
      BY <2>2, MappedIsSequence DEF Counts
    <3>3. \A i \in DOMAIN todo : AsCounted(ItemsFor(todo[i]), counts[i])
      BY <1>4, <2>2, <2>3, EntryItemsCounted DEF Counts, Range
    <3>4. counts # << >> /\ \A i \in DOMAIN counts : counts[i] \in Nat
      BY <3>1, <3>2, <3>3, EmptyIsSequence DEF AsCounted
    <3>5. counts[1] = CountFor(field) /\ AsCounted(ItemsFor(field), counts[1])
      BY <3>1, <3>3 DEF Counts
    <3>6. Tail(counts) = Counts(Tail(todo))
      <4> HIDE DEF counts
      <4>1. /\ IsSequence(Tail(counts)) /\ Len(Tail(counts)) = Len(Tail(todo))
            /\ \A i \in DOMAIN Tail(counts) : Tail(counts)[i] = counts[i + 1]
        BY <3>1, <3>2, <3>4, TailIsSequence
      <4>2. /\ DOMAIN Tail(counts) = DOMAIN Tail(todo)
            /\ Tail(counts) = [i \in DOMAIN Tail(counts) |-> Tail(counts)[i]]
        BY <3>1, <4>1, LenProperties DEF IsSequence
      <4>3. \A i \in DOMAIN Tail(todo) : Tail(counts)[i] = CountFor(Tail(todo)[i])
        BY <3>1, <4>1, <4>2 DEF counts, Counts
      <4> QED BY <4>2, <4>3 DEF Counts
    <3> HIDE DEF counts
    <3>7. /\ Total(counts) = counts[1] + Total(Tail(counts))
          /\ counts[1] \in Nat /\ Total(Tail(counts)) \in Nat
      BY <3>2, <3>4, TotalOfTail
    <3>8. IsSequence(text) /\ announced = Len(text) + Total(counts)
      BY <2>1, <2>3 DEF Counting, counts
    <3>9. /\ IsSequence(text') /\ Len(text') = Len(text) + counts[1] /\ Len(text) \in Nat
      <4> DEFINE items == ItemsFor(field)
      <4>1. IsSequence(items) /\ Len(items) = counts[1] /\ text' = text \o items
        BY <2>1, <3>5 DEF AsCounted
      <4> HIDE DEF items
      <4> QED BY <3>8, <4>1, ConcatIsSequence, LengthOfConcat, LengthOfSequence
    <3>10. Counts(todo') = Tail(counts)
      BY <2>1, <3>6
    <3> DEFINE n == counts[1]
               left == Total(Tail(counts))
    <3>11. announced' = Len(text) + (n + left) /\ n \in Nat /\ left \in Nat
      BY <2>1, <3>7, <3>8
    <3>12. Len(text') = Len(text) + n /\ Len(text) \in Nat /\ Total(Counts(todo')) = left
      BY <3>9, <3>10
    <3> HIDE DEF n, left
    <3>13. announced' = Len(text') + left
      BY <3>11, <3>12
    <3> QED BY <3>9, <3>12, <3>13
  <2> QED BY <1>2, <1>3, <2>1, <2>3 DEF Counting, ItemsCounted
<1>9. CASE GenerationRaises
  BY <1>9 DEF GenerationRaises, Counting, ItemsCounted
<1>10. CASE Compile
  <2>1. phase = "fields" /\ todo = << >> /\ phase' = "done" /\ text' = text /\ announced' = announced
    BY <1>10 DEF Compile
  <2>2. Counts(todo) = << >>
    BY <2>1, EmptyIsSequence, MappedIsSequence DEF Counts
  <2>3. Total(<< >>) = 0
    BY EmptyIsSequence, TotalOfOnes
  <2>4. Excused \/ announced = Len(text)
    BY <2>1, <2>2, <2>3, LengthOfSequence DEF Counting
  <2> QED BY <1>2, <2>1, <2>4 DEF Counting, ItemsCounted, Excused
<1> QED
  BY <1>5, <1>6, <1>7, <1>8, <1>9, <1>10 DEF Next

\* For any types, configs and defined names, a compiled object has as many items as were
\* announced for it, unless a bound is absent or a service of nimble has nothing to write.
THEOREM ItemsAlwaysCounted == Spec => []ItemsCounted
<1>1. Passing /\ Counting => ItemsCounted
  BY DEF Counting
<1> QED
  BY <1>1, PassingInit, StepKeepsPassing, CountingInit, StepKeepsCounting, PTL DEF Spec

-----------------------------------------------------------------------------
(* Registers                                                                 *)

\* Two ranges of registers of which the one ends before the other have none in common.
LEMMA RangesApart ==
  ASSUME NEW a \in Int, NEW b \in Int, NEW m \in Nat, NEW n \in Nat,
         ~(a + m > a /\ b + n > b /\ b < a + m /\ a < b + n)
  PROVE  {a + k : k \in 0..(m - 1)} \cap {b + k : k \in 0..(n - 1)} = {}
<1> SUFFICES ASSUME NEW k \in 0..(m - 1), NEW l \in 0..(n - 1), a + k = b + l
             PROVE  FALSE
  OBVIOUS
<1> QED OBVIOUS

\* Blocks of RTU that desc-gen lets through have no register in common, and the seekable
\* ones lie within the register file.
LEMMA BlocksApart ==
  ASSUME obj \in ProtocolEntry, obj.type = "modbus_rtu", Told, textResult = "ok"
  PROVE  RegistersApart
<1> DEFINE rows == Value(config, "registers").rows
           ios == Io \cap defined
           span(i) == SpanOf(CheckedType(rows[i]), rows[i], ios)
<1>1. ~IsProgram /\ obj.kind = "protocol"
  BY ProtocolAssumption DEF IsProgram
<1>2. Accepts /\ ~ContextRaises(obj.type, config, ios)
  BY <1>1 DEF Told, HeaderRaises, OfKind, OfProtocol, config
<1>3. rows \in Seq(Range(rows)) /\ \A i \in DOMAIN rows : BlockOf(rows[i])
  BY <1>2, BlocksOfRtu
<1>4. DOMAIN rows \subseteq Nat
  BY <1>3
<1>5. ASSUME NEW i \in DOMAIN rows, NEW j \in DOMAIN rows,
             Checked(rows[i]), Checked(rows[j]), i < j
      PROVE  ~OutOfFile(rows[j], ios) /\ ~Overlap(rows[i], rows[j], ios)
  <2>1. i \in 1..(j - 1)
    BY <1>3, <1>5
  <2> QED BY <1>2, <1>5, <2>1 DEF ContextRaises
<1>6. ASSUME NEW i \in DOMAIN rows, Checked(rows[i])
      PROVE  ~OutOfFile(rows[i], ios)
  BY <1>2, <1>6 DEF ContextRaises
\* A block whose type is given is looked at if it has a space.
<1>7. ASSUME NEW i \in DOMAIN rows, rows[i][1].how # "missing"
      PROVE  Checked(rows[i]) \/ (RegistersIn(rows[i]) = {} /\ SpaceOf(rows[i]) = "none")
  BY <1>7, ProtocolHandlersAssumption
     DEF Checked, CheckedType, TextType, SpaceOf, RegistersIn
<1>8. ASSUME NEW i \in DOMAIN rows, NEW j \in DOMAIN rows,
             Checked(rows[i]), Checked(rows[j]), i < j, SpaceOf(rows[i]) = SpaceOf(rows[j])
      PROVE  RegistersIn(rows[i]) \cap RegistersIn(rows[j]) = {}
  <2> DEFINE a == Start(rows[i])
             b == Start(rows[j])
  <2>1. /\ a \in Int /\ b \in Int /\ span(i) \in Nat /\ span(j) \in Nat
        /\ RegistersIn(rows[i]) = {a + n : n \in 0..(span(i) - 1)}
        /\ RegistersIn(rows[j]) = {b + n : n \in 0..(span(j) - 1)}
        /\ BlockSpace(rows[i]) = BlockSpace(rows[j])
    BY <1>3, <1>8 DEF BlockOf
  <2>2. ~(a + span(i) > a /\ b + span(j) > b /\ b < a + span(i) /\ a < b + span(j))
    BY <1>5, <1>8, <2>1 DEF Overlap, End
  <2> HIDE DEF a, b, span
  <2> QED BY <2>1, <2>2, RangesApart
<1>9. ASSUME NEW i \in DOMAIN rows, Checked(rows[i]), SpaceOf(rows[i]) = "seekable"
      PROVE  RegistersIn(rows[i]) \subseteq 0..(MaxRegister - 1)
  <2> DEFINE a == Start(rows[i])
  <2>1. /\ a \in Int /\ span(i) \in Nat /\ BlockSpace(rows[i]) = "seekable"
        /\ RegistersIn(rows[i]) = {a + n : n \in 0..(span(i) - 1)}
    BY <1>3, <1>9 DEF BlockOf
  <2>2. ~(a < 0) /\ ~(a + span(i) > MaxRegister)
    BY <1>6, <1>9, <2>1 DEF OutOfFile, End
  <2>3. MaxRegister \in Nat
    BY ProtocolHandlersAssumption
  <2> HIDE DEF a, span
  <2> QED BY <2>1, <2>2, <2>3
<1>10. ASSUME NEW i \in DOMAIN rows, NEW j \in DOMAIN rows, i # j,
              rows[i][1].how # "missing", rows[j][1].how # "missing",
              SpaceOf(rows[i]) = SpaceOf(rows[j])
       PROVE  RegistersIn(rows[i]) \cap RegistersIn(rows[j]) = {}
  <2>1. CASE ~Checked(rows[i]) \/ ~Checked(rows[j])
    BY <1>7, <1>10, <2>1
  <2>2. CASE Checked(rows[i]) /\ Checked(rows[j])
    <3>1. i < j \/ j < i
      BY <1>4, <1>10
    <3> QED BY <1>8, <1>10, <2>2, <3>1
  <2> QED BY <2>1, <2>2
<1>11. ASSUME NEW i \in DOMAIN rows, rows[i][1].how # "missing", SpaceOf(rows[i]) = "seekable"
       PROVE  RegistersIn(rows[i]) \subseteq 0..(MaxRegister - 1)
  BY <1>7, <1>9, <1>11
<1> QED BY <1>10, <1>11 DEF RegistersApart

-----------------------------------------------------------------------------
(* What is in the images                                                     *)

\* What either back end makes of a field.
BinaryFor(f) ==
  OfKind(EncodeField(f, obj.config, known),
         OfProtocol(EncodeProtocolField(f, obj.config, known), EncodeService(f, obj.config, known),
                    EncodeWakaama(f, obj.config, known)),
         EncodeIoField(f, obj.config, dtype))

\* It is one item, or one for each entry.
LEMMA BlocksAreSequences ==
  ASSUME NEW f, NEW words, IsSequence(words)
  PROVE  IsSequence(BlockItems(f, words))
BY BlocksCounted DEF AsCounted

LEMMA ServiceIsSequence ==
  ASSUME NEW f, NEW words, IsSequence(words)
  PROVE  IsSequence(FlattenSeq([i \in DOMAIN words |-> ItemsOf(f, words[i])]))
<1> DEFINE items == [i \in DOMAIN words |-> ItemsOf(f, words[i])]
<1>1. IsSequence(items)
  BY MappedIsSequence
<1>2. \A i \in DOMAIN items : IsSequence(items[i])
  BY SingletonIsSequence, EmptyIsSequence DEF ItemsOf
<1> HIDE DEF items
<1>3. IsSequence(FlattenSeq(items))
  BY <1>1, <1>2, FlattenIsSequence
<1> QED BY <1>3 DEF items

LEMMA EntryShape ==
  ASSUME obj \in Program \cup ProtocolEntry \cup IoEntry
  PROVE  /\ \A key : key # "servers" => Table(Value(obj.config, key))
         /\ \A key : IsSequence(Value(obj.config, key).rows)
         /\ \A f : IsSequence(ServiceRows(f, obj.config))
<1>1. \A key \in DOMAIN obj.config \ {"servers"} : Table(obj.config[key])
  BY ProgramAssumption, ProtocolAssumption, IoAssumption
<1>2. \A key : key # "servers" => Table(Value(obj.config, key))
  BY <1>1, ValueIsTable DEF Given
<1>3. \A key \in DOMAIN obj.config : obj.config[key].rows \in Seq(Range(obj.config[key].rows))
  BY ProgramAssumption, ProtocolAssumption, IoAssumption DEF Table
<1>4. \A key : IsSequence(Value(obj.config, key).rows)
  BY <1>3, SequenceOverItself, EmptyIsSequence DEF Value, Given, Absent
<1> QED BY <1>2, <1>4, EmptyIsSequence DEF ServiceRows

LEMMA ItemsAreSequences ==
  ASSUME obj \in Program \cup ProtocolEntry \cup IoEntry, NEW f
  PROVE  IsSequence(BinaryFor(f)) /\ IsSequence(ItemsFor(f))
<1> DEFINE c == obj.config
           rows == Value(c, f.name).rows
<1>1. \A item : IsSequence(<<item>>)
  BY SingletonIsSequence
<1>2. IsSequence(<< >>)
  BY EmptyIsSequence
<1>3. IsSequence(rows) /\ IsSequence(ServiceRows(f, c))
  BY EntryShape
<1>4. IsSequence(EncodeField(f, c, known)) /\ IsSequence(GenerateField(f, c))
  BY <1>1, <1>2 DEF EncodeField, GenerateField
<1>5. \A ids : IsSequence(EncodeProtocolField(f, c, ids))
  BY <1>1, <1>2 DEF EncodeProtocolField
<1>6. IsSequence(GenerateProtocolField(f, c))
  <2>1. IsSequence([i \in DOMAIN rows |->
          Item(f.name, 3 + Len(PlainAll(Bindings(f, rows[i]))), ObjectWords(f, rows[i]))])
    BY <1>3, MappedIsSequence
  <2> QED BY <1>1, <1>5, <2>1 DEF GenerateProtocolField
<1>7. \A words : IsSequence(ItemsOf(f, words))
  BY <1>1, <1>2 DEF ItemsOf
<1>8. \A ids : IsSequence(EncodeService(f, c, ids))
  <2> SUFFICES ASSUME NEW ids
               PROVE  IsSequence(EncodeService(f, c, ids))
    OBVIOUS
  <2>1. IsSequence(BinaryEntries(f, c, ids))
    BY <1>3, MappedIsSequence DEF BinaryEntries
  <2> DEFINE all == FlattenSeq([i \in DOMAIN BinaryEntries(f, c, ids) |->
                                  ItemsOf(f, BinaryEntries(f, c, ids)[i])])
  <2>2. IsSequence(all)
    BY <2>1, ServiceIsSequence
  <2>3. EncodeService(f, c, ids) \in
          {EncodeProtocolField(f, c, ids), << >>, <<Item("dis", 0, << >>)>>,
           <<Item("bas", 1, <<ExtensionWord(c["bas"].rows[1][1], ids)>>)>>,
           ItemsOf(f, Listed(BinaryEntries(f, c, ids), Aggregate(f, c))),
           ItemsOf(f, Listed(BinaryEntries(f, c, ids), 0)), all}
    BY DEF EncodeService, all, Sensing
  <2> HIDE DEF all
  <2> QED BY <1>1, <1>2, <1>5, <1>7, <2>2, <2>3
<1>9. IsSequence(GenerateService(f, c))
  <2>1. IsSequence(TextEntries(f, c))
    BY <1>3, MappedIsSequence DEF TextEntries
  <2> DEFINE all == FlattenSeq([i \in DOMAIN TextEntries(f, c) |->
                                  ItemsOf(f, TextEntries(f, c)[i])])
  <2>2. IsSequence(all)
    BY <2>1, ServiceIsSequence
  <2>3. GenerateService(f, c) \in
          {EncodeService(f, c, Ref), << >>, <<Item("bas", 1, TextRef(f, c["bas"].rows[1][1]))>>,
           ItemsOf(f, Listed(TextEntries(f, c), Aggregate(f, c))), all}
    BY DEF GenerateService, all
  <2> HIDE DEF all
  <2> QED BY <1>1, <1>2, <1>7, <1>8, <2>2, <2>3
<1>10. \A ids : IsSequence(EncodeWakaama(f, c, ids))
  <2>1. /\ IsSequence([i \in DOMAIN rows |-> ServerWords(rows[i], i)])
        /\ IsSequence([i \in DOMAIN rows |-> BinaryResources(rows[i])])
    BY <1>3, MappedIsSequence
  <2>2. /\ IsSequence(BlockItems(f, [i \in DOMAIN rows |-> ServerWords(rows[i], i)]))
        /\ IsSequence(BlockItems(f, [i \in DOMAIN rows |-> BinaryResources(rows[i])]))
    BY <2>1, BlocksAreSequences
  <2> QED BY <1>1, <1>2, <2>2 DEF EncodeWakaama, OptionItem, DeviceItem
<1>11. IsSequence(GenerateWakaama(f, c))
  <2>1. IsSequence([i \in DOMAIN rows |-> TextResources(rows[i])])
    BY <1>3, MappedIsSequence
  <2> QED BY <1>10, <2>1, BlocksAreSequences DEF GenerateWakaama
<1>12. IsSequence(EncodeIoField(f, c, dtype))
  <2>1. IsSequence(LimitItems(c, dtype))
    BY LimitItemsAreSequence
  <2> QED BY <1>1, <1>2, <1>5, <2>1 DEF EncodeIoField, IoItems
<1>13. IsSequence(GenerateIoField(f, c, obj.dtype))
  BY IoTextIsSequence DEF IoText
<1> QED
  BY <1>4, <1>5, <1>6, <1>8, <1>9, <1>10, <1>11, <1>12, <1>13 DEF BinaryFor, ItemsFor, OfKind, OfProtocol

\* Every item is of a field, or the binding of the header; and what the text pass is done
\* with is there.
Header ==
  IF IsProgram /\ WritesBinding(obj.type, obj.config)
  THEN {StandardBinding(obj.type, obj.config)} ELSE {}
RaisesAt(f) ==
  OfKind(GenerateRaises(f, obj.config),
         OfProtocol(BlockRaises(f, obj.config), ServiceRaises(f, obj.config), FALSE),
         GenerateIoRaises(f, obj.config, obj.dtype))
Emitted == {f \in Range(handler.fields) : ~RaisesAt(f)}
Complete(fields) == Header \cup UNION {Range(ItemsFor(f)) : f \in fields} \subseteq Range(text)
Written ==
  /\ IsSequence(bin) /\ IsSequence(text) /\ defined \subseteq Ref
  /\ Range(bin) \subseteq UNION {Range(BinaryFor(f)) : f \in Range(handler.encode)}
  /\ Range(text) \subseteq Header \cup UNION {Range(ItemsFor(f)) : f \in Emitted}
  /\ phase = "fields" => Complete(Range(handler.fields) \ Range(todo))
  /\ textResult = "ok" => Complete(Range(handler.fields)) /\ Mentioned(text) \subseteq defined

LEMMA WrittenInit == Init => Written
<1>1. IsSequence(<< >>) /\ Range(<< >>) = {}
  BY EmptyIsSequence DEF Range
<1> QED BY <1>1 DEF Init, Written

LEMMA StepKeepsWritten == Passing /\ Written /\ [Next]_vars => Written'
<1> SUFFICES ASSUME Passing, Written, [Next]_vars
             PROVE  Written'
  OBVIOUS
<1>1. obj' = obj /\ defined' = defined
  BY InputKept
<1>2. handler' = handler /\ Header' = Header
  BY <1>1 DEF IsProgram, handler, OfKind, OfProtocol, Header
<1>3. \A f : BinaryFor(f)' = BinaryFor(f) /\ ItemsFor(f)' = ItemsFor(f) /\ RaisesAt(f)' = RaisesAt(f)
  <2>1. IsProgram' = IsProgram /\ known' = known /\ dtype' = dtype
    BY <1>1 DEF IsProgram, known, dtype, OfKind
  <2> QED BY <1>1, <2>1 DEF BinaryFor, ItemsFor, RaisesAt, OfKind, OfProtocol
<1>12. Emitted' = Emitted
  BY <1>2, <1>3 DEF Emitted
<1>4. obj \in Program \cup ProtocolEntry \cup IoEntry /\ (textResult = "ok" => phase = "done")
  BY DEF Passing
<1>5. \A f : IsSequence(BinaryFor(f)) /\ IsSequence(ItemsFor(f))
  BY <1>4, ItemsAreSequences
<1> HIDE DEF handler, Header
<1>6. CASE UNCHANGED vars
  <2>1. UNCHANGED <<phase, todo, bin, text, textResult>>
    BY <1>6 DEF vars, binary, source
  <2> QED BY <1>1, <1>2, <1>3, <1>12, <2>1 DEF Written, Complete, Mentioned
<1>7. CASE Accept \/ Refuse \/ EncodingRaises \/ EncodingDone \/ GenerationRaises
  <2>1. /\ bin' = bin /\ text' = text /\ phase' # "fields"
        /\ textResult' # "ok" \/ textResult' = textResult
    BY <1>7 DEF Accept, Refuse, EncodingRaises, EncodingDone, GenerationRaises, AtField, binary, source
  <2> QED BY <1>1, <1>2, <1>3, <1>12, <2>1 DEF Written, Complete, Mentioned
<1>8. CASE Encode
  <2>1. /\ phase = "binary" /\ phase' = phase /\ todo # << >>
        /\ bin' = bin \o BinaryFor(field) /\ text' = text /\ textResult' = textResult
    BY <1>8 DEF Encode, AtField, BinaryFor, BinaryItems, source
  <2>2. field \in Range(handler.encode)
    BY <2>1, HeadLeaves DEF Passing, BinaryPass
  <2>3. /\ IsSequence(bin \o BinaryFor(field))
        /\ Range(bin \o BinaryFor(field)) = Range(bin) \cup Range(BinaryFor(field))
    BY <1>5, ConcatIsSequence DEF Written
  <2>4. Range(bin') \subseteq UNION {Range(BinaryFor(f)) : f \in Range(handler.encode)}
    BY <2>1, <2>2, <2>3 DEF Written
  <2>5. textResult' # "ok"
    BY <1>4, <2>1
  <2> QED BY <1>1, <1>2, <1>3, <1>12, <2>1, <2>3, <2>4, <2>5 DEF Written, Complete, Mentioned
<1>9. CASE GenerateHeader
  <2>1. /\ bin' = bin /\ textResult' # "ok" /\ phase' = "fields" /\ todo' = handler.fields
        /\ text' = (IF IsProgram /\ WritesBinding(obj.type, obj.config)
                    THEN <<StandardBinding(obj.type, obj.config)>> ELSE << >>)
    BY <1>4, <1>9 DEF GenerateHeader, binary
  <2>2. IsSequence(text') /\ Range(text') = Header
    <3>1. Range(<< >>) = {}
      BY DEF Range
    <3> QED BY <2>1, <3>1, SingletonIsSequence, EmptyIsSequence DEF Header
  <2> QED BY <1>1, <1>2, <1>3, <1>12, <2>1, <2>2 DEF Written, Complete
<1>10. CASE Generate
  <2>1. /\ phase = "fields" /\ phase' = phase /\ todo # << >> /\ todo' = Tail(todo)
        /\ text' = text \o ItemsFor(field) /\ bin' = bin /\ textResult' # "ok"
    BY <1>4, <1>10 DEF Generate, AtField, ItemsFor, TextItems, binary
  <2>6. ~RaisesAt(field)
    BY <1>10 DEF Generate, RaisesAt, TextFieldRaises
  <2>2. field \in Range(handler.fields) /\ Range(todo) = {field} \cup Range(todo')
    BY <2>1, HeadLeaves DEF Passing, TextPass
  <2>3. IsSequence(text') /\ Range(text') = Range(text) \cup Range(ItemsFor(field))
    BY <1>5, <2>1, ConcatIsSequence DEF Written
  <2>4. Range(text') \subseteq Header \cup UNION {Range(ItemsFor(f)) : f \in Emitted}
    BY <2>2, <2>3, <2>6 DEF Written, Emitted
  <2>5. Header \cup UNION {Range(ItemsFor(f)) : f \in Range(handler.fields) \ Range(todo')}
          \subseteq Range(text')
    BY <2>1, <2>2, <2>3 DEF Written, Complete
  <2> QED BY <1>1, <1>2, <1>3, <1>12, <2>1, <2>3, <2>4, <2>5 DEF Written, Complete
<1>11. CASE Compile
  <2>1. /\ phase = "fields" /\ todo = << >> /\ phase' = "done" /\ text' = text /\ bin' = bin
        /\ textResult' = "ok" => Mentioned(text) \subseteq defined
    BY <1>11 DEF Compile, binary
  <2>2. Complete(Range(handler.fields))
    <3>1. Range(todo) = {}
      BY <2>1 DEF Range
    <3> QED BY <2>1, <3>1 DEF Written
  <2> QED BY <1>1, <1>2, <1>3, <1>12, <2>1, <2>2 DEF Written, Complete, Mentioned
<1> QED
  BY <1>6, <1>7, <1>8, <1>9, <1>10, <1>11 DEF Next

-----------------------------------------------------------------------------
(* Values that are moved                                                     *)

\* Programs that move values unchanged have, but for a control, one list and one single
\* reference.
Mover(h) ==
  /\ h.encode = h.fields /\ IsSequence(h.fields)
  /\ \A e \in Range(h.fields) : e.shape \in {"list", "single"} /\ e.fit = 0
  /\ \A e, g \in Range(h.fields) :
       (e.name # g.name /\ e.name # "control" /\ g.name # "control") => e.shape # g.shape
  /\ \E e \in Range(h.fields) : e.shape = "list"

LEMMA MoversHaveSides ==
  ASSUME NEW t \in DOMAIN Handlers, Handlers[t].check = "same"
  PROVE  Mover(Handlers[t])
<1> USE DEF Handler, Mover
<1> USE DEF Field, Single, List
<1>1. \A h \in {OneToMany, ManyToOne, VecSplit, VecPack} : Mover(h)
  BY PairIsSequence DEF OneToMany, ManyToOne, VecSplit, VecPack
<1>2. \A h \in {IoMux, IoDemux} : Mover(h)
  BY TripleIsSequence DEF IoMux, IoDemux
<1> HIDE DEF Mover, Field, Single, List
<1>3. \A h \in {Stats, StatsAvg, StatsCount, StatsMax, StatsMin, StatsRms, StatsSum, Dummy, Latest,
               Redirect, MovingAvg, Sampling, IirFilter, Threshold, ThresholdValue} : h.check # "same"
  BY DEF Stats, StatsAvg, StatsCount, StatsMax, StatsMin, StatsRms, StatsSum, Dummy, Latest,
         Redirect, MovingAvg, Sampling, IirFilter, Threshold, ThresholdValue
<1>4. \A h \in {Counter, Expression, Toggle, BitSplit, Saturate, Adjust, Selector, Switch, BitPack,
               BitMerge, Gateway, Sequencer, Buffer, Ahrs} : h.check # "same"
  BY DEF Counter, Expression, Toggle, BitSplit, Saturate, Adjust, Selector, Switch, BitPack,
         BitMerge, Gateway, Sequencer, Buffer, Ahrs
<1> HIDE DEF Handler
<1> QED BY <1>1, <1>2, <1>3, <1>4 DEF Handlers

\* The references of either of them.
Side(f) ==
  IF f.shape = "list" THEN Range(References(Value(config, f.name)))
  ELSE Range(PlainRef(config, f.name))

LEMMA SidesWritten ==
  ASSUME obj \in Program, NEW f, f.shape \in {"list", "single"}, f.fit = 0
  PROVE  /\ \A item \in Range(EncodeField(f, config, known)) :
              item.name = f.name /\ Range(item.words) \subseteq Side(f)
         /\ (f.shape = "single" => ~Value(config, f.name).list \/ ~Given(config, f.name)) =>
              \A item \in Range(GenerateField(f, config)) :
                item.name = f.name /\ Range(item.words) \subseteq Side(f) \cup {0}
<1> DEFINE value == Value(config, f.name)
           refs == IF f.shape = "list" THEN References(value) ELSE Plain(value)
<1>1. IsSequence(References(value)) /\ IsSequence(Plain(value)) /\ IsSequence(First(value))
  <2>1. Table(value)
    BY ProgramAssumption, ValueIsTable DEF Given, config
  <2>2. \A cell : IsSequence(Resolve(cell))
    BY SingletonIsSequence, EmptyIsSequence DEF Resolve
  <2> QED BY <2>1, <2>2, ReferencesRight, EmptyIsSequence DEF Plain, First
<1>2. \A e : Range(<<e>>) = {e}
  BY SingletonIsSequence
<1>3. Range(<< >>) = {}
  BY DEF Range
<1>4. \A ids : /\ Range(Known(References(value), ids)) \subseteq Range(References(value))
               /\ Range(Known(Plain(value), ids)) \subseteq Range(Plain(value))
               /\ Range(Known(First(value), ids)) \subseteq Range(First(value))
  BY <1>1, KnownRight
<1>5. ASSUME NEW item \in Range(EncodeField(f, config, known))
      PROVE  item.name = f.name /\ Range(item.words) \subseteq Side(f)
  <2>1. item = Item(f.name, Len(BinaryWords(f, config, known)), BinaryWords(f, config, known))
    BY <1>2, <1>3, <1>5 DEF EncodeField
  <2>2. BinaryWords(f, config, known) = WordsOf(f, config, known, BinaryReading(f, config))
    BY DEF BinaryWords
  <2>3. CASE f.shape = "list"
    BY <1>4, <2>1, <2>2, <2>3 DEF Item, WordsOf, Side
  <2>4. CASE f.shape = "single"
    BY <1>4, <2>1, <2>2, <2>4 DEF Item, WordsOf, Side, BinaryReading, PlainRef
  <2> QED BY <2>3, <2>4
<1>6. ASSUME NEW item \in Range(GenerateField(f, config)),
             f.shape = "single" => ~Value(config, f.name).list \/ ~Given(config, f.name)
      PROVE  item.name = f.name /\ Range(item.words) \subseteq Side(f) \cup {0}
  <2>1. item = Item(f.name, Len(TextWords(f, config)), TextWords(f, config))
    BY <1>2, <1>3, <1>6 DEF GenerateField
  <2>2. CASE f.shape = "list"
    <3>1. TextWords(f, config) = Known(References(value), Ref)
      BY <2>2 DEF TextWords, WordsOf
    <3> QED BY <1>4, <2>1, <2>2, <3>1 DEF Item, Side
  <2>3. CASE f.shape = "single"
    <3>1. Range(First(value)) \subseteq Range(Plain(value))
      <4>1. CASE ~value.list
        BY <4>1 DEF First
      <4>2. CASE ~Given(config, f.name)
        BY <1>3, <4>2 DEF Value, Absent, First
      <4> QED BY <1>6, <2>3, <4>1, <4>2
    <3>2. TextWords(f, config) \in {<<0>>, Known(First(value), Ref)}
      BY <2>3 DEF TextWords, WordsOf
    <3> QED BY <1>2, <1>4, <2>1, <2>3, <3>1, <3>2 DEF Item, Side, PlainRef
  <2> QED BY <2>2, <2>3
<1> QED BY <1>5, <1>6

\* Whatever is written of the sides has one dtype, if the check has passed.
LEMMA SidesAlike ==
  ASSUME obj \in Program, Handlers[obj.type].check = "same", Accepts, NEW items,
         \A item \in Range(items) : \E f \in Range(handler.fields) :
           item.name = f.name /\ Range(item.words) \subseteq Side(f) \cup {0}
  PROVE  MovesAlike(items)
<1>1. IsProgram /\ handler = Handlers[obj.type] /\ obj.type \in DOMAIN Handlers
  BY ProgramAssumption DEF IsProgram, handler, OfKind
<1>2. Mover(handler)
  BY <1>1, MoversHaveSides
<1>3. SameDtype(obj.type, config, Io \cap defined)
  BY <1>1 DEF Accepts, OfKind, Valid, config
<1>4. ASSUME NEW f \in Range(handler.fields), NEW g \in Range(handler.fields),
             f.name # g.name, f.name # "control", g.name # "control",
             NEW r \in Side(f) \cap Io \cap defined, NEW s \in Side(g) \cap Io \cap defined
      PROVE  DtypeOf[r] = DtypeOf[s]
  <2>1. f.shape # g.shape /\ {f.shape, g.shape} \subseteq {"list", "single"}
    BY <1>2, <1>4 DEF Mover
  <2>2. PICK i \in DOMAIN handler.fields, j \in DOMAIN handler.fields :
          f = handler.fields[i] /\ g = handler.fields[j]
    BY DEF Range
  <2>3. CASE f.shape = "list"
    <3>1. g.shape = "single"
      BY <2>1, <2>3
    <3>2. /\ r \in IosOf(References(Value(config, f.name)), Io \cap defined)
          /\ s \in IosOf(PlainRef(config, g.name), Io \cap defined)
      BY <2>3, <3>1 DEF Side, IosOf
    <3> QED BY <1>1, <1>3, <1>4, <2>2, <2>3, <3>1, <3>2 DEF SameDtype
  <2>4. CASE g.shape = "list"
    <3>1. f.shape = "single"
      BY <2>1, <2>4
    <3>2. /\ s \in IosOf(References(Value(config, g.name)), Io \cap defined)
          /\ r \in IosOf(PlainRef(config, f.name), Io \cap defined)
      BY <2>4, <3>1 DEF Side, IosOf
    <3>3. DtypeOf[s] = DtypeOf[r]
      BY <1>1, <1>3, <1>4, <2>2, <2>4, <3>1, <3>2 DEF SameDtype
    <3> QED BY <3>3
  <2> QED BY <2>1, <2>3, <2>4
<1>5. 0 \notin Io
  BY HandlersAssumption
<1>6. ASSUME NEW name, NEW r \in IosIn(items, name)
      PROVE  \E f \in Range(handler.fields) : f.name = name /\ r \in Side(f) \cap Io \cap defined
  <2>1. PICK i \in DOMAIN items : items[i].name = name /\ r \in Range(items[i].words)
    BY <1>6 DEF IosIn
  <2>2. r \in Io \cap defined
    BY <1>6 DEF IosIn
  <2>3. items[i] \in Range(items)
    BY DEF Range
  <2> QED BY <1>5, <2>1, <2>2, <2>3
<1> SUFFICES ASSUME NEW i \in DOMAIN items, NEW j \in DOMAIN items,
                    items[i].name # "control", items[j].name # "control",
                    NEW r \in IosIn(items, items[i].name), NEW s \in IosIn(items, items[j].name),
                    items[i].name # items[j].name
             PROVE  DtypeOf[r] = DtypeOf[s]
  BY DEF MovesAlike
<1>7. PICK f \in Range(handler.fields) : f.name = items[i].name /\ r \in Side(f) \cap Io \cap defined
  BY <1>6
<1>8. PICK g \in Range(handler.fields) : g.name = items[j].name /\ s \in Side(g) \cap Io \cap defined
  BY <1>6
<1> QED BY <1>4, <1>7, <1>8

LEMMA MovedRight ==
  ASSUME obj \in Program, Told, Written
  PROVE  MovedAlike
<1> SUFFICES ASSUME Handlers[obj.type].check = "same"
             PROVE  MovedAlike
  BY DEF MovedAlike
<1>1. IsProgram /\ handler = Handlers[obj.type] /\ obj.type \in DOMAIN Handlers
  BY ProgramAssumption DEF IsProgram, handler, OfKind
<1>2. Mover(handler)
  BY <1>1, MoversHaveSides
<1>3. ASSUME binResult = "ok"
      PROVE  MovesAlike(bin)
  <2>1. ASSUME NEW item \in Range(bin)
        PROVE  \E f \in Range(handler.fields) :
                 item.name = f.name /\ Range(item.words) \subseteq Side(f) \cup {0}
    <3>1. PICK f \in Range(handler.encode) : item \in Range(BinaryFor(f))
      BY DEF Written
    <3>2. f \in Range(handler.fields) /\ item \in Range(EncodeField(f, config, known))
      BY <1>1, <1>2, <3>1 DEF Mover, BinaryFor, OfKind, config
    <3> QED BY <1>2, <3>2, SidesWritten DEF Mover
  <2> QED BY <1>3, <2>1, SidesAlike DEF Told
<1>4. ASSUME textResult = "ok",
             \A f \in Range(handler.fields) :
               f.shape = "single" => ~Value(config, f.name).list \/ ~Given(config, f.name)
      PROVE  MovesAlike(text)
  <2>1. ~WritesBinding(obj.type, obj.config)
    <3>1. \E e \in Range(handler.fields) : e.shape = "list"
      BY <1>2 DEF Mover
    <3> QED BY <1>1, <3>1 DEF WritesBinding, HasCustomBinding, Range
  <2>2. ASSUME NEW item \in Range(text)
        PROVE  \E f \in Range(handler.fields) :
                 item.name = f.name /\ Range(item.words) \subseteq Side(f) \cup {0}
    <3>1. PICK f \in Range(handler.fields) : item \in Range(ItemsFor(f))
      BY <2>1 DEF Written, Header, Emitted
    <3>2. item \in Range(GenerateField(f, config))
      BY <1>1, <3>1 DEF ItemsFor, OfKind, config
    <3> QED BY <1>2, <1>4, <3>2, SidesWritten DEF Mover
  <2> QED BY <1>4, <2>2, SidesAlike DEF Told
<1> QED BY <1>3, <1>4 DEF MovedAlike

-----------------------------------------------------------------------------
(* Bits that are merged                                                      *)

\* Sequences of sequences are put behind one another.
LEMMA FlattenUnfolds ==
  ASSUME NEW seqs, IsSequence(seqs), \A i \in DOMAIN seqs : IsSequence(seqs[i])
  PROVE  \E g : /\ FlattenSeq(seqs) = g[Len(seqs)] /\ g[0] = << >>
                /\ \A k \in 0..(Len(seqs) - 1) : g[k + 1] = g[k] \o seqs[k + 1]
<1> DEFINE n == Len(seqs)
           h == CHOOSE f : f = [k \in 1..n |-> FlattenStep(seqs, f, k)]
           g == [k \in 0..n |-> IF k = 0 THEN << >> ELSE h[k]]
<1>1. n \in Nat /\ DOMAIN seqs = 1..n
  BY LenProperties DEF IsSequence
<1>2. FlattenSeq(seqs) = g[n]
  BY <1>1 DEF FlattenSeq, FlattenStep
<1>3. h = [k \in 1..n |-> FlattenStep(seqs, h, k)]
  BY <1>1, FlattenExists
<1> HIDE DEF h, n
<1>4. ASSUME NEW k \in 0..(n - 1)
      PROVE  g[k + 1] = g[k] \o seqs[k + 1]
  <2>1. k + 1 \in 1..n /\ k + 1 \in 0..n /\ k \in 0..n /\ (k + 1 = 1 <=> k = 0) /\ (k + 1) - 1 = k
          /\ k + 1 # 0
    BY <1>1
  <2>2. g[k + 1] = FlattenStep(seqs, h, k + 1)
    BY <1>3, <2>1
  <2>3. CASE k = 0
    <3>1. g[k] = << >> /\ g[k + 1] = seqs[k + 1]
      BY <2>1, <2>2, <2>3 DEF FlattenStep
    <3>2. IsSequence(seqs[k + 1])
      BY <1>1, <2>1
    <3>3. << >> \o seqs[k + 1] = seqs[k + 1]
      BY <3>2, ConcatEmptySeq DEF IsSequence
    <3> QED BY <3>1, <3>3
  <2>4. CASE k # 0
    BY <2>1, <2>2, <2>4 DEF FlattenStep
  <2> QED BY <2>3, <2>4
<1>5. g[0] = << >>
  BY <1>1
<1> HIDE DEF g
<1> QED BY <1>2, <1>4, <1>5 DEF n

\* If each gives three elements or none, triple i of the whole is that of sequence at[i].
Triples(flat, seqs, n, m) ==
  \E at : /\ IsSequence(flat) /\ Len(flat) = 3 * n
          /\ \A i \in 1..n : /\ at[i] \in 1..m /\ Len(seqs[at[i]]) = 3
                             /\ flat[3 * i - 1] = seqs[at[i]][2]
                             /\ flat[3 * i] = seqs[at[i]][3]
          /\ \A i, j \in 1..n : i < j => at[i] < at[j]

LEMMA FlattenOfTriples ==
  ASSUME NEW seqs, IsSequence(seqs),
         \A i \in DOMAIN seqs : IsSequence(seqs[i]) /\ Len(seqs[i]) \in {0, 3}
  PROVE  \E n \in Nat : Triples(FlattenSeq(seqs), seqs, n, Len(seqs))
<1>1. Len(seqs) \in Nat /\ DOMAIN seqs = 1..Len(seqs)
  BY LenProperties DEF IsSequence
<1>2. PICK g : /\ FlattenSeq(seqs) = g[Len(seqs)] /\ g[0] = << >>
               /\ \A k \in 0..(Len(seqs) - 1) : g[k + 1] = g[k] \o seqs[k + 1]
  BY FlattenUnfolds
<1> DEFINE S == {m \in 0..Len(seqs) : \E n \in Nat : Triples(g[m], seqs, n, m)}
<1>3. 0 \in S
  <2>1. Triples(<< >>, seqs, 0, 0)
    BY EmptyIsSequence DEF Triples
  <2> QED BY <1>1, <1>2, <2>1
<1>4. ASSUME NEW m \in 0..(Len(seqs) - 1), m \in S
      PROVE  m + 1 \in S
  <2>1. PICK n \in Nat : Triples(g[m], seqs, n, m)
    BY <1>4
  <2> DEFINE s == g[m]
             t == seqs[m + 1]
  <2>2. PICK at : /\ IsSequence(s) /\ Len(s) = 3 * n
                  /\ \A i \in 1..n : /\ at[i] \in 1..m /\ Len(seqs[at[i]]) = 3
                                     /\ s[3 * i - 1] = seqs[at[i]][2]
                                     /\ s[3 * i] = seqs[at[i]][3]
                  /\ \A i, j \in 1..n : i < j => at[i] < at[j]
    BY <2>1 DEF Triples
  <2>3. m \in Nat /\ m + 1 \in 1..Len(seqs) /\ m + 1 \in 0..Len(seqs)
          /\ \A i \in 1..m : i \in 1..(m + 1) /\ i < m + 1
    BY <1>1
  <2>4. IsSequence(t) /\ Len(t) \in {0, 3} /\ g[m + 1] = s \o t
    BY <1>1, <1>2, <2>3
  <2> HIDE DEF s, t
  <2>5. IsSequence(s \o t) /\ Len(s \o t) = Len(s) + Len(t)
    BY <2>2, <2>4, ConcatIsSequence, LengthOfConcat
  <2>6. /\ \A i \in 1..Len(s) : (s \o t)[i] = s[i]
        /\ \A i \in 1..Len(t) : (s \o t)[Len(s) + i] = t[i]
    <3> DEFINE T == Range(s) \cup Range(t)
    <3>1. s \in Seq(Range(s)) /\ t \in Seq(Range(t))
      BY <2>2, <2>4 DEF IsSequence, Range
    <3>2. s \in Seq(T) /\ t \in Seq(T)
      BY <3>1, SeqMonotonic
    <3> HIDE DEF T
    <3> QED BY <3>2, ConcatProperties
  <2>7. CASE Len(t) = 0
    <3>1. s \o t = s
      <4>1. t = << >>
        BY <2>4, <2>7, EmptySeq DEF IsSequence
      <4> QED BY <2>2, <4>1, LengthOfSequence
    <3>2. Triples(s \o t, seqs, n, m + 1)
      BY <2>2, <2>3, <3>1 DEF Triples
    <3> QED BY <2>3, <2>4, <3>2
  <2>8. CASE Len(t) = 3
    <3> DEFINE more == [i \in 1..(n + 1) |-> IF i = n + 1 THEN m + 1 ELSE at[i]]
    <3>1. Len(s \o t) = 3 * (n + 1)
      BY <2>2, <2>5, <2>8
    <3>2. ASSUME NEW i \in 1..(n + 1)
          PROVE  /\ more[i] \in 1..(m + 1) /\ Len(seqs[more[i]]) = 3
                 /\ (s \o t)[3 * i - 1] = seqs[more[i]][2]
                 /\ (s \o t)[3 * i] = seqs[more[i]][3]
      <4>1. CASE i = n + 1
        <5>1. more[i] = m + 1 /\ n + 1 \in 1..(n + 1)
          BY <4>1
        <5> HIDE DEF more
        <5>3. 3 * i - 1 = Len(s) + 2 /\ 3 * i = Len(s) + 3
          <6>1. Len(s) = 3 * n
            BY <2>2
          <6> QED BY <4>1, <6>1
        <5>2. (s \o t)[Len(s) + 2] = t[2] /\ (s \o t)[Len(s) + 3] = t[3]
          BY <2>6, <2>8
        <5> QED BY <2>3, <2>8, <5>1, <5>2, <5>3 DEF t
      <4>2. CASE i # n + 1
        <5>1. i \in 1..n /\ more[i] = at[i] /\ 3 * i - 1 \in 1..Len(s) /\ 3 * i \in 1..Len(s)
          BY <2>2, <4>2
        <5> HIDE DEF more
        <5> QED BY <2>2, <2>3, <2>6, <5>1
      <4> QED BY <4>1, <4>2
    <3>3. ASSUME NEW i \in 1..(n + 1), NEW j \in 1..(n + 1), i < j
          PROVE  more[i] < more[j]
      <4>1. i \in 1..n /\ more[i] = at[i]
        BY <3>3
      <4>2. CASE j = n + 1
        <5>1. more[j] = m + 1
          BY <4>2
        <5> HIDE DEF more
        <5> QED BY <2>2, <2>3, <4>1, <5>1
      <4>3. CASE j # n + 1
        <5>1. j \in 1..n /\ more[j] = at[j]
          BY <4>3
        <5> HIDE DEF more
        <5> QED BY <2>2, <3>3, <4>1, <5>1
      <4> QED BY <4>2, <4>3
    <3> HIDE DEF more
    <3>4. Triples(s \o t, seqs, n + 1, m + 1)
      BY <2>5, <3>1, <3>2, <3>3 DEF Triples
    <3>5. n + 1 \in Nat
      OBVIOUS
    <3> QED BY <2>3, <2>4, <3>4, <3>5
  <2> QED BY <2>4, <2>7, <2>8
<1>5. Len(seqs) \in S
  <2> HIDE DEF S
  <2>1. \A m \in 0..Len(seqs) : m \in S
    BY <1>1, <1>3, <1>4, UpTo
  <2> QED BY <1>1, <2>1
<1> QED BY <1>2, <1>5

CheckedStep(rows, width, f, n) ==
  IF n = 0 THEN [ok |-> TRUE, used |-> {}]
  ELSE IF rows[n] = << >> THEN f[n - 1] ELSE CheckField(f[n - 1], rows[n], width)

LEMMA CheckedExists ==
  ASSUME NEW rows, NEW width, NEW n \in Nat
  PROVE  \E f : f = [k \in 0..n |-> CheckedStep(rows, width, f, k)]
<1> DEFINE Exists(m) == \E f : f = [k \in 0..m |-> CheckedStep(rows, width, f, k)]
           S == {m \in 0..n : Exists(m)}
<1>1. Exists(0)
  <2> DEFINE f == [k \in 0..0 |-> [ok |-> TRUE, used |-> {}]]
  <2>1. f = [k \in 0..0 |-> CheckedStep(rows, width, f, k)]
    BY DEF CheckedStep
  <2> QED BY <2>1
<1>2. ASSUME NEW m \in 0..(n - 1), Exists(m)
      PROVE  Exists(m + 1)
  <2>1. PICK f : f = [k \in 0..m |-> CheckedStep(rows, width, f, k)]
    BY <1>2
  <2> DEFINE g == [k \in 0..(m + 1) |-> CheckedStep(rows, width, f, k)]
  <2>2. \A k \in 0..m : g[k] = f[k]
    BY <2>1
  <2>3. \A k \in 0..(m + 1) : k # 0 => k - 1 \in 0..m
    OBVIOUS
  <2>4. \A k \in 0..(m + 1) : CheckedStep(rows, width, f, k) = CheckedStep(rows, width, g, k)
    <3> HIDE DEF g
    <3> QED BY <2>2, <2>3 DEF CheckedStep
  <2>5. g = [k \in 0..(m + 1) |-> CheckedStep(rows, width, g, k)]
    BY <2>4
  <2> HIDE DEF g
  <2> QED BY <2>5
<1> HIDE DEF Exists
<1>3. 0 \in S /\ \A m \in 0..(n - 1) : m \in S => m + 1 \in S
  BY <1>1, <1>2
<1>4. n \in S
  <2> HIDE DEF S
  <2> QED BY <1>3, UpTo
<1> QED BY <1>4 DEF Exists

\* The bits of a row, and what the check has found of the rows up to n.
BitsTaken(row) ==
  LET shift == Number(row[2], 0)
      mask == Number(row[3], 0) IN
  {b \in 0..(2 * MaxWidth) : b >= shift /\ (mask \div 2^(b - shift)) % 2 = 1}
Apart(rows, width, checked, n) ==
  \E ok, used :
    /\ checked = [ok |-> ok, used |-> used]
    /\ ok => \A p \in 1..n : rows[p] # << >> =>
               /\ BitsTaken(rows[p]) \subseteq used
               /\ \A b \in BitsTaken(rows[p]) : ~(b >= width)
               /\ \A q \in 1..n : (rows[q] # << >> /\ p < q) =>
                    BitsTaken(rows[p]) \cap BitsTaken(rows[q]) = {}

LEMMA CheckKeepsApart ==
  ASSUME NEW rows, NEW width, NEW checked, NEW m \in Nat, rows[m + 1] # << >>,
         Apart(rows, width, checked, m)
  PROVE  Apart(rows, width, CheckField(checked, rows[m + 1], width), m + 1)
<1> DEFINE row == rows[m + 1]
           shift == Number(row[2], 0)
           mask == Number(row[3], 0)
           bits == {b \in 0..(2 * MaxWidth) : b >= shift /\ (mask \div 2^(b - shift)) % 2 = 1}
<1>1. bits = BitsTaken(row)
  BY DEF BitsTaken
<1>2. PICK ok, used :
    /\ checked = [ok |-> ok, used |-> used]
    /\ ok => \A p \in 1..m : rows[p] # << >> =>
               /\ BitsTaken(rows[p]) \subseteq used
               /\ \A b \in BitsTaken(rows[p]) : ~(b >= width)
               /\ \A q \in 1..m : (rows[q] # << >> /\ p < q) =>
                    BitsTaken(rows[p]) \cap BitsTaken(rows[q]) = {}
  BY DEF Apart
<1>3. \A p : p \in 1..(m + 1) <=> p \in 1..m \/ p = m + 1
  OBVIOUS
<1>4. CheckField(checked, row, width) =
        IF mask = 0 \/ shift >= width \/ \E b \in bits : b >= width
        THEN [checked EXCEPT !.ok = FALSE]
        ELSE [ok |-> checked.ok /\ checked.used \cap bits = {}, used |-> checked.used \cup bits]
  BY DEF CheckField
<1> HIDE DEF bits, mask, shift
<1>5. CASE mask = 0 \/ shift >= width \/ \E b \in bits : b >= width
  <2>1. CheckField(checked, row, width) = [ok |-> FALSE, used |-> used]
    BY <1>2, <1>4, <1>5
  <2> QED BY <2>1 DEF Apart
<1>6. CASE ~(mask = 0 \/ shift >= width \/ \E b \in bits : b >= width)
  <2> DEFINE good == ok /\ used \cap bits = {}
  <2>1. CheckField(checked, row, width) = [ok |-> good, used |-> used \cup bits]
    BY <1>2, <1>4, <1>6
  <2>2. ASSUME good, NEW p \in 1..(m + 1), rows[p] # << >>
        PROVE  /\ BitsTaken(rows[p]) \subseteq used \cup bits
               /\ \A b \in BitsTaken(rows[p]) : ~(b >= width)
               /\ \A q \in 1..(m + 1) : (rows[q] # << >> /\ p < q) =>
                    BitsTaken(rows[p]) \cap BitsTaken(rows[q]) = {}
    <3>1. CASE p = m + 1
      <4>1. \A q \in 1..(m + 1) : ~(p < q)
        BY <3>1
      <4> QED BY <1>1, <1>6, <3>1, <4>1
    <3>2. CASE p \in 1..m
      <4>1. BitsTaken(rows[p]) \subseteq used /\ \A b \in BitsTaken(rows[p]) : ~(b >= width)
        BY <1>2, <2>2, <3>2
      <4>2. BitsTaken(rows[p]) \cap bits = {}
        BY <2>2, <4>1
      <4> QED BY <1>1, <1>2, <1>3, <2>2, <3>2, <4>1, <4>2
    <3> QED BY <1>3, <3>1, <3>2
  <2> HIDE DEF good
  <2> QED BY <2>1, <2>2 DEF Apart
<1> QED BY <1>5, <1>6

LEMMA CheckedApart ==
  ASSUME NEW rows, IsSequence(rows), NEW width, FieldsChecked(rows, width).ok
  PROVE  \A p \in DOMAIN rows : rows[p] # << >> =>
           /\ \A b \in BitsTaken(rows[p]) : ~(b >= width)
           /\ \A q \in DOMAIN rows : (rows[q] # << >> /\ p < q) =>
                BitsTaken(rows[p]) \cap BitsTaken(rows[q]) = {}
<1> DEFINE n == Len(rows)
           h == CHOOSE f : f = [k \in 0..n |-> CheckedStep(rows, width, f, k)]
<1>1. n \in Nat /\ DOMAIN rows = 1..n
  BY LenProperties DEF IsSequence
<1>2. FieldsChecked(rows, width) = h[n]
  BY DEF FieldsChecked, CheckedStep
<1>3. h = [k \in 0..n |-> CheckedStep(rows, width, h, k)]
  BY <1>1, CheckedExists
<1> HIDE DEF h, n
<1>4. \A k \in 0..n : h[k] = CheckedStep(rows, width, h, k)
  BY <1>3
<1> DEFINE S == {m \in 0..n : Apart(rows, width, h[m], m)}
<1>5. 0 \in S
  <2>1. 0 \in 0..n /\ h[0] = [ok |-> TRUE, used |-> {}] /\ 1..0 = {}
    BY <1>1, <1>4 DEF CheckedStep
  <2> QED BY <2>1 DEF Apart
<1>6. ASSUME NEW m \in 0..(n - 1), m \in S
      PROVE  m + 1 \in S
  <2>1. m + 1 \in 0..n /\ m + 1 # 0 /\ (m + 1) - 1 = m /\ m \in Nat
    BY <1>1
  <2>2. h[m + 1] = IF rows[m + 1] = << >> THEN h[m] ELSE CheckField(h[m], rows[m + 1], width)
    BY <1>4, <2>1 DEF CheckedStep
  <2>3. CASE rows[m + 1] = << >>
    <3>1. \A p : p \in 1..(m + 1) <=> p \in 1..m \/ p = m + 1
      BY <2>1
    <3>2. Apart(rows, width, h[m], m)
      BY <1>6
    <3>3. Apart(rows, width, h[m], m + 1)
      BY <2>3, <3>1, <3>2 DEF Apart
    <3> QED BY <2>1, <2>2, <2>3, <3>3
  <2>4. CASE rows[m + 1] # << >>
    <3>1. Apart(rows, width, CheckField(h[m], rows[m + 1], width), m + 1)
      BY <1>6, <2>1, <2>4, CheckKeepsApart
    <3> QED BY <2>1, <2>2, <2>4, <3>1
  <2> QED BY <2>3, <2>4
<1>7. n \in S
  <2> HIDE DEF S
  <2>1. \A m \in 0..n : m \in S
    BY <1>1, <1>5, <1>6, UpTo
  <2> QED BY <1>1, <2>1
<1>8. Apart(rows, width, h[n], n) /\ h[n].ok
  BY <1>2, <1>7
<1> QED BY <1>1, <1>8 DEF Apart

\* The inputs in the image have the bits of their rows, each of its own.
LEMMA MergedRight ==
  ASSUME obj \in Program, Told, Written
  PROVE  MergedApart
<1> SUFFICES ASSUME obj.type = "bitmerge", binResult = "ok", NEW k \in DOMAIN bin, bin[k].name = "inputs"
             PROVE  LET n == Len(bin[k].words) \div 3 IN
                    /\ \A i, j \in 1..n : i # j => BitsOf(bin[k], i) \cap BitsOf(bin[k], j) = {}
                    /\ \A i \in 1..n : \A out \in IosIn(bin, "output") :
                         BitsOf(bin[k], i) \subseteq 0..(Width[DtypeOf[out]] - 1)
  BY DEF MergedApart
<1> DEFINE f == Rows("inputs", 1, <<0, 0>>)
           ios == Io \cap defined
           value == Value(config, "inputs")
           rows == value.rows
           seqs == [i \in DOMAIN rows |->
                      IF Usable(f, rows[i], known) THEN RowWords(f, rows[i], known) ELSE << >>]
           words == bin[k].words
           width == OutputWidth(config, ios)
<1>1. /\ IsProgram /\ handler = BitMerge /\ handler.encode = <<f, Single("output")>>
      /\ Handlers[obj.type].check = "bitmerge"
  BY ProgramAssumption DEF IsProgram, handler, OfKind, Handlers, BitMerge, Handler
<1>2. ValidMerge(config, ios)
  BY <1>1 DEF Told, Accepts, OfKind, Valid, config
<1>3. \A item \in Range(bin) : item \in Range(EncodeField(f, config, known))
                                \/ item \in Range(EncodeField(Single("output"), config, known))
  <2>1. Range(handler.encode) = {f, Single("output")}
    BY <1>1, PairIsSequence
  <2>2. \A g : BinaryFor(g) = EncodeField(g, config, known)
    BY <1>1 DEF BinaryFor, OfKind, config
  <2> QED BY <2>1, <2>2 DEF Written
<1>4. /\ f.name = "inputs" /\ f.shape = "rows" /\ f.refs = 1 /\ f.defaults = <<0, 0>> /\ f.fit = 0
      /\ Single("output").name = "output" /\ Single("output").shape = "single"
      /\ Single("output").fit = 0
  BY DEF Rows, Single, Field
<1> HIDE DEF f
<1>5. bin[k] = Item("inputs", Len(BinaryWords(f, config, known)), BinaryWords(f, config, known))
  <2>1. bin[k] \in Range(bin)
    BY DEF Range
  <2>2. \A item \in Range(EncodeField(Single("output"), config, known)) : item.name # "inputs"
    BY <1>4, SidesWritten
  <2>3. bin[k] \in Range(EncodeField(f, config, known))
    BY <1>3, <2>1, <2>2
  <2>4. Range(<< >>) = {} /\ \A e : Range(<<e>>) = {e}
    BY SingletonIsSequence DEF Range
  <2> QED BY <1>4, <2>3, <2>4 DEF EncodeField
<1>6. words = BinaryWords(f, config, known) /\ words = AllRows(f, value, known)
  BY <1>4, <1>5 DEF Item, BinaryWords, WordsOf
<1>7. IsSequence(rows) /\ rows \in Seq(Range(rows))
  <2>1. Table(value)
    BY ProgramAssumption, ValueIsTable DEF Given, config
  <2> QED BY <2>1, SequenceOverItself DEF Table
<1>8. CASE ~value.list
  <2>1. words = << >>
    BY <1>6, <1>8 DEF AllRows
  <2>2. 1..(Len(bin[k].words) \div 3) = {}
    <3>1. Len(bin[k].words) = 0
      BY <2>1
    <3> QED BY <3>1
  <2> QED BY <2>2
<1>9. CASE value.list
  <2>1. words = FlattenSeq(seqs)
    BY <1>6, <1>9 DEF AllRows
  <2>2. IsSequence(seqs) /\ DOMAIN seqs = DOMAIN rows
    BY <1>7, MappedIsSequence
  <2>3. \A i \in DOMAIN seqs : seqs[i] = IF rows[i] # << >> THEN RowWords(f, rows[i], known) ELSE << >>
    BY <1>4 DEF Usable
  <2>4. \A i \in DOMAIN rows :
          /\ IsSequence(RowWords(f, rows[i], known)) /\ Len(RowWords(f, rows[i], known)) = 3
          /\ RowWords(f, rows[i], known)[2] = Number(rows[i][2], 0)
          /\ RowWords(f, rows[i], known)[3] = Number(rows[i][3], 0)
    <3> SUFFICES ASSUME NEW i \in DOMAIN rows
                 PROVE  /\ IsSequence(RowWords(f, rows[i], known)) /\ Len(RowWords(f, rows[i], known)) = 3
                        /\ RowWords(f, rows[i], known)[2] = Number(rows[i][2], 0)
                        /\ RowWords(f, rows[i], known)[3] = Number(rows[i][3], 0)
      OBVIOUS
    <3> DEFINE w == RowWords(f, rows[i], known)
    <3>1. w = [m \in 1..3 |-> IF m <= 1 THEN Id(rows[i][m], known)
                              ELSE Number(rows[i][m], <<0, 0>>[m - 1])]
      BY <1>4 DEF RowWords
    <3>2. w[2] = Number(rows[i][2], 0) /\ w[3] = Number(rows[i][3], 0)
      BY <3>1
    <3> DEFINE T == {w[m] : m \in DOMAIN w}
    <3>3. DOMAIN w = 1..3 /\ w \in [1..3 -> T]
      BY <3>1
    <3>4. w \in Seq(T) /\ Len(w) = 3
      <4> HIDE DEF w, T
      <4>1. w \in Seq(T)
        <5>1. 3 \in Nat
          OBVIOUS
        <5> QED BY <3>3, <5>1, SeqDef
      <4>2. Len(w) \in Nat /\ DOMAIN w = 1..Len(w)
        BY <4>1, LenProperties
      <4>3. 1..Len(w) = 1..3
        BY <3>3, <4>2
      <4> QED BY <4>1, <4>2, <4>3
    <3> QED BY <3>2, <3>4 DEF IsSequence
  <2>5. \A i \in DOMAIN seqs : IsSequence(seqs[i]) /\ Len(seqs[i]) \in {0, 3}
                                 /\ (Len(seqs[i]) = 3 => rows[i] # << >>)
    BY <2>2, <2>3, <2>4, EmptyIsSequence
  <2> HIDE DEF seqs
  <2>6. PICK n \in Nat : Triples(words, seqs, n, Len(seqs))
    BY <2>1, <2>2, <2>5, FlattenOfTriples
  <2>7. PICK at : /\ Len(words) = 3 * n
                  /\ \A i \in 1..n : /\ at[i] \in 1..Len(seqs) /\ Len(seqs[at[i]]) = 3
                                     /\ words[3 * i - 1] = seqs[at[i]][2]
                                     /\ words[3 * i] = seqs[at[i]][3]
                  /\ \A i, j \in 1..n : i < j => at[i] < at[j]
    BY <2>6 DEF Triples
  <2>8. Len(words) \div 3 = n
    BY <2>7
  <2>9. \A i \in 1..n : at[i] \in DOMAIN rows /\ rows[at[i]] # << >>
                         /\ BitsOf(bin[k], i) = BitsTaken(rows[at[i]])
    <3> SUFFICES ASSUME NEW i \in 1..n
                 PROVE  at[i] \in DOMAIN rows /\ rows[at[i]] # << >>
                         /\ BitsOf(bin[k], i) = BitsTaken(rows[at[i]])
      OBVIOUS
    <3>1. at[i] \in DOMAIN seqs /\ rows[at[i]] # << >>
      <4>1. DOMAIN seqs = 1..Len(seqs)
        BY <2>2, LenProperties DEF IsSequence
      <4> QED BY <2>5, <2>7, <4>1
    <3>2. words[3 * i - 1] = Number(rows[at[i]][2], 0) /\ words[3 * i] = Number(rows[at[i]][3], 0)
      BY <2>2, <2>3, <2>4, <2>7, <3>1
    <3> QED BY <2>2, <3>1, <3>2 DEF BitsOf, BitsTaken
  <2>10. FieldsChecked(rows, width).ok
    BY <1>2 DEF ValidMerge
  <2>11. ASSUME NEW i \in 1..n, NEW j \in 1..n, i < j
         PROVE  BitsOf(bin[k], i) \cap BitsOf(bin[k], j) = {}
    <3>1. at[i] < at[j]
      BY <2>7, <2>11
    <3> QED BY <1>7, <2>9, <2>10, <3>1, CheckedApart
  <2>12. \A i, j \in 1..n : i # j => BitsOf(bin[k], i) \cap BitsOf(bin[k], j) = {}
    <3> SUFFICES ASSUME NEW i \in 1..n, NEW j \in 1..n, i # j
                 PROVE  BitsOf(bin[k], i) \cap BitsOf(bin[k], j) = {}
      OBVIOUS
    <3>1. i < j \/ j < i
      OBVIOUS
    <3> QED BY <2>11, <3>1
  <2>13. ASSUME NEW out \in IosIn(bin, "output")
         PROVE  width = Width[DtypeOf[out]] /\ width \in Nat
    <3>1. PICK i \in DOMAIN bin : bin[i].name = "output" /\ out \in Range(bin[i].words) \cap ios
      BY <2>13 DEF IosIn
    <3>2. bin[i] \in Range(bin)
      BY DEF Range
    <3>3. \A item \in Range(EncodeField(f, config, known)) : item.name = "inputs"
      <4>1. Range(<< >>) = {} /\ \A e : Range(<<e>>) = {e}
        BY SingletonIsSequence DEF Range
      <4> QED BY <1>4, <4>1 DEF EncodeField, Item
    <3>4. bin[i] \in Range(EncodeField(Single("output"), config, known))
      BY <1>3, <3>1, <3>2, <3>3
    <3>5. Range(bin[i].words) \subseteq Range(PlainRef(config, "output"))
      BY <1>4, <3>4, SidesWritten DEF Side
    <3>6. out \in IosOf(PlainRef(config, "output"), ios)
      BY <3>1, <3>5 DEF IosOf
    <3>7. DtypeOf[out] \in DOMAIN Width
      BY <1>2, <3>6 DEF ValidMerge
    <3>8. PlainRef(config, "output") = <<out>>
      <4>1. Range(<< >>) = {} /\ \A e : Range(<<e>>) = {e}
        BY SingletonIsSequence DEF Range
      <4> QED BY <3>6, <4>1 DEF PlainRef, Plain, Resolve, IosOf
    <3>9. <<out>> # << >> /\ <<out>>[1] = out /\ out \in ios
      BY <3>6, SingletonIsSequence, EmptyIsSequence DEF IosOf
    <3> QED BY <3>7, <3>8, <3>9, HandlersAssumption DEF OutputWidth
  <2>14. ASSUME NEW i \in 1..n, NEW out \in IosIn(bin, "output")
         PROVE  BitsOf(bin[k], i) \subseteq 0..(Width[DtypeOf[out]] - 1)
    <3>1. width = Width[DtypeOf[out]] /\ width \in Nat
      BY <2>13
    <3>2. \A b \in BitsOf(bin[k], i) : ~(b >= width) /\ b \in Nat
      <4>1. \A b \in BitsOf(bin[k], i) : ~(b >= width)
        BY <1>7, <2>9, <2>10, CheckedApart
      <4>2. BitsOf(bin[k], i) \subseteq Nat
        BY HandlersAssumption DEF BitsOf
      <4> QED BY <4>1, <4>2
    <3> HIDE DEF width
    <3> QED BY <3>1, <3>2
  <2> QED BY <2>8, <2>12, <2>14
<1> QED BY <1>8, <1>9

-----------------------------------------------------------------------------
(* Resources                                                                 *)

\* What two numbers are packed into gives the lower one back.
LEMMA LowOfPair ==
  ASSUME NEW h \in Int, NEW d \in Nat, d # 0, NEW low \in 0..(d - 1)
  PROVE  (h * d + low) % d = low
<1> DEFINE x == h * d + low
           q == x \div d
           r == x % d
<1>1. h * d \in Int /\ x \in Int
  OBVIOUS
<1>2. q \in Int /\ r \in 0..(d - 1) /\ x = d * q + r
  <2> HIDE DEF x
  <2> QED BY <1>1
<1>3. d * q \in Int
  BY <1>2
<1>4. ASSUME h < q
      PROVE  FALSE
  <2>1. h + 1 <= q
    BY <1>2, <1>4
  <2>2. d * (h + 1) <= d * q
    <3> HIDE DEF q
    <3>1. q - (h + 1) \in Nat
      BY <1>2, <2>1
    <3>2. d * (q - (h + 1)) \in Nat
      <4>1. \A n \in Nat : d * n \in Nat
        OBVIOUS
      <4> QED BY <3>1, <4>1
    <3>3. d * (q - (h + 1)) = d * q - d * (h + 1)
      BY <1>2
    <3> QED BY <1>2, <3>2, <3>3
  <2>3. d * (h + 1) = h * d + d
    OBVIOUS
  <2> QED BY <1>1, <1>2, <1>3, <2>2, <2>3 DEF x
<1>5. ASSUME q < h
      PROVE  FALSE
  <2>1. q + 1 <= h
    BY <1>2, <1>5
  <2>2. d * (q + 1) <= d * h
    <3> HIDE DEF q
    <3>1. h - (q + 1) \in Nat
      BY <1>2, <2>1
    <3>2. d * (h - (q + 1)) \in Nat
      <4>1. \A n \in Nat : d * n \in Nat
        OBVIOUS
      <4> QED BY <3>1, <4>1
    <3>3. d * (h - (q + 1)) = d * h - d * (q + 1)
      BY <1>2
    <3>4. d * (q + 1) \in Int /\ d * h \in Int
      BY <1>2
    <3> QED BY <3>2, <3>3, <3>4
  <2>3. d * (q + 1) = d * q + d /\ d * h = h * d
    <3> HIDE DEF q
    <3> QED BY <1>2
  <2> QED BY <1>1, <1>2, <1>3, <2>2, <2>3 DEF x
<1>6. q = h
  BY <1>2, <1>4, <1>5
<1> QED
  <2>1. d * q = h * d
    BY <1>6
  <2> QED BY <1>1, <1>2, <1>3, <2>1 DEF x

\* A block has the words of one of what it is made of.
LEMMA BlockHasWords ==
  ASSUME NEW f, NEW words, IsSequence(words), NEW item \in Range(BlockItems(f, words))
  PROVE  \E i \in DOMAIN words : item = Item(f.name, Len(words[i]), words[i])
<1> DEFINE blocks == [i \in DOMAIN words |->
                        IF words[i] = << >> THEN << >> ELSE <<Item(f.name, Len(words[i]), words[i])>>]
<1>1. IsSequence(blocks)
  BY MappedIsSequence
<1>2. \A i \in DOMAIN blocks : IsSequence(blocks[i])
  BY SingletonIsSequence, EmptyIsSequence
<1>3. \A i \in DOMAIN blocks : Range(blocks[i]) \subseteq {Item(f.name, Len(words[i]), words[i])}
  BY SingletonIsSequence DEF Range
<1>4. BlockItems(f, words) = FlattenSeq(blocks) /\ DOMAIN blocks = DOMAIN words
  BY DEF BlockItems
<1> HIDE DEF blocks
<1>5. Range(FlattenSeq(blocks)) = UNION {Range(blocks[i]) : i \in DOMAIN blocks}
  BY <1>1, <1>2, FlattenIsSequence
<1> QED BY <1>3, <1>4, <1>5

\* Items of wakaama have the names of their fields.
LEMMA WakaamaItemsNamed ==
  ASSUME NEW f, NEW c, IsSequence(Value(c, f.name).rows), NEW item \in Range(GenerateWakaama(f, c))
  PROVE  /\ item.name = f.name
         /\ f.shape = "resources" =>
              \E i \in DOMAIN Value(c, f.name).rows :
                item.words = TextResources(Value(c, f.name).rows[i])
<1> DEFINE rows == Value(c, f.name).rows
           texts == [i \in DOMAIN rows |-> TextResources(rows[i])]
           servers == [i \in DOMAIN rows |-> ServerWords(rows[i], i)]
           binaries == [i \in DOMAIN rows |-> BinaryResources(rows[i])]
<1>1. IsSequence(texts) /\ IsSequence(servers) /\ IsSequence(binaries)
  BY MappedIsSequence
<1>2. Range(<< >>) = {} /\ \A e : Range(<<e>>) = {e}
  BY SingletonIsSequence DEF Range
<1>3. CASE f.shape = "resources"
  <2>1. GenerateWakaama(f, c) = BlockItems(f, texts)
    BY <1>3 DEF GenerateWakaama
  <2>2. PICK i \in DOMAIN texts : item = Item(f.name, Len(texts[i]), texts[i])
    <3> HIDE DEF texts
    <3> QED BY <1>1, <2>1, BlockHasWords
  <2> QED BY <2>2 DEF Item
<1>4. CASE f.shape # "resources"
  <2>1. item \in Range(EncodeWakaama(f, c, Ref))
    BY <1>4 DEF GenerateWakaama
  <2>2. EncodeWakaama(f, c, Ref) \in {OptionItem(f, c), << >>, BlockItems(f, servers),
          DeviceItem(f, c, Ref), BlockItems(f, binaries)}
    BY DEF EncodeWakaama
  <2>3. ASSUME NEW words, IsSequence(words), item \in Range(BlockItems(f, words))
        PROVE  item.name = f.name
    BY <2>3, BlockHasWords DEF Item
  <2>4. \A it \in Range(OptionItem(f, c)) \cup Range(DeviceItem(f, c, Ref)) : it.name = f.name
    BY <1>2 DEF OptionItem, DeviceItem, Item
  <2> HIDE DEF texts, servers, binaries
  <2> QED BY <1>1, <1>2, <1>4, <2>1, <2>2, <2>3, <2>4
<1> QED BY <1>3, <1>4

LEMMA PairAndOne ==
  ASSUME NEW a, NEW b, NEW c
  PROVE  <<a, b>> \o <<c>> = <<a, b, c>>
<1> DEFINE T == {a, b, c}
           s == <<a, b>> \o <<c>>
<1>1. <<a, b>> \in Seq(T) /\ <<c>> \in Seq(T) /\ <<a, b, c>> \in Seq(T)
  OBVIOUS
<1>2. /\ s \in Seq(T) /\ Len(s) = 3
      /\ s[1] = a /\ s[2] = b /\ s[3] = c
  BY <1>1, ConcatProperties
<1> HIDE DEF s
<1>3. \A i \in 1..3 : s[i] = <<a, b, c>>[i]
  BY <1>2
<1> QED BY <1>1, <1>2, <1>3, SeqEqual DEF s

\* A resource that is written with a symbol had to pass its rule; the number of any other is
\* that of the config.
LEMMA ResourceRight ==
  ASSUME NEW row \in Range(Value(config, "objects").rows), row \in Seq(Range(row)),
         Row(row), ValidEntry(row), ~ResourcesRaise(config, known),
         \A cell \in Range(row) : cell.how = "symbol" => cell.of \in 0..Uint16Max,
         \A p \in ResourcesOf(row) :
           row[3 * p].how \in {"number", "symbol", "unknown", "empty", "missing", "scalar"},
         NEW p \in ResourcesOf(row), NEW ref, Resolve(row[3 * p + 2]) = <<ref>>,
         NEW pair, pair = TextPair(Number(row[3 * p + 1], 1), TextId(row[3 * p])),
         pair # Undeclared,
         pair % (Uint16Max + 1) \in DOMAIN ResourceDtypes, ref \in Io,
         ~NumberGiven(pair % (Uint16Max + 1))
  PROVE  DtypeOf[ref] \in ResourceDtypes[pair % (Uint16Max + 1)]
<1> DEFINE resource == row[3 * p]
           high == Number(row[3 * p + 1], 1)
           low == TextId(resource)
           n == pair % (Uint16Max + 1)
<1>1. Uint16Max \in Nat
  BY WakaamaAssumption
<1>2. p \in Nat /\ p # 0 /\ 3 * p \in DOMAIN row /\ 3 * p + 1 \in DOMAIN row
  <2>1. Len(row) \in Nat /\ DOMAIN row = 1..Len(row)
    BY LenProperties
  <2>2. p \in 1..((Len(row) - 2) \div 3)
    BY DEF ResourcesOf
  <2>3. 3 * p + 2 <= Len(row)
    BY <2>1, <2>2
  <2> QED BY <2>1, <2>2, <2>3
<1>3. resource \in Range(row) /\ row[3 * p + 1] \in Range(row)
  BY <1>2 DEF Range
<1>4. /\ resource.how \in {"number", "symbol", "unknown", "empty", "missing"}
      /\ resource.how \in {"number", "empty"} => resource.of \in 0..Uint16Max
      /\ row[3 * p + 1].how \in {"number", "missing"}
  BY DEF ValidEntry, IdInRange
<1>5. high \in Int
  BY <1>3, <1>4 DEF Number, Row
<1>6. low # Undeclared /\ pair = Pair16(high, low)
  BY DEF TextPair
<1>7. resource.how # "unknown" /\ low \in 0..Uint16Max
        /\ low = IF resource.how = "missing" THEN 0 ELSE resource.of
  BY <1>1, <1>3, <1>4, <1>6 DEF TextId
<1>8. n = low
  <2> HIDE DEF high, low
  <2> DEFINE d == Uint16Max + 1
  <2>1. d \in Nat /\ d # 0 /\ low \in 0..(d - 1)
    BY <1>1, <1>7
  <2>2. pair = high * d + low
    BY <1>6 DEF Pair16
  <2> HIDE DEF d
  <2>3. (high * d + low) % d = low
    BY <1>5, <2>1, LowOfPair
  <2> QED BY <2>2, <2>3 DEF d
<1>9. resource.how = "symbol"
  <2>1. BinaryId(resource) = low
    BY <1>7 DEF BinaryId
  <2> QED BY <1>8, <2>1 DEF NumberGiven
<1>10. resource.of = n
  BY <1>7, <1>8, <1>9
<1>11. ref \in Range(Resolve(row[3 * p + 2]))
  BY SingletonIsSequence
<1>12. ~ResourceRefused(resource, row[3 * p + 1], ref, known)
  BY <1>11 DEF ResourcesRaise
<1> QED BY <1>9, <1>10, <1>12 DEF ResourceRefused, DtypeBound

LEMMA ResourcesRight ==
  ASSUME obj \in ProtocolEntry, Told, Written
  PROVE  ResourcesTyped
<1> SUFFICES ASSUME obj.type = "wakaama", textResult = "ok",
                    NEW item \in Range(text), item.name = "objects",
                    NEW i \in 1..(Len(item.words) \div 3),
                    item.words[3 * i - 1] % (Uint16Max + 1) \in DOMAIN ResourceDtypes,
                    item.words[3 * i] \in Io,
                    ~NumberGiven(item.words[3 * i - 1] % (Uint16Max + 1))
             PROVE  DtypeOf[item.words[3 * i]] \in ResourceDtypes[item.words[3 * i - 1] % (Uint16Max + 1)]
  BY DEF ResourcesTyped
<1> DEFINE rows == Value(config, "objects").rows
<1>2. obj.kind = "protocol" /\ ~IsProgram /\ handler = Wakaama
  <2>1. obj.kind = "protocol" /\ ~IsProgram
    BY ProtocolAssumption DEF IsProgram
  <2> QED BY <2>1 DEF handler, OfKind, OfProtocol
<1>3. ValidWakaama(config) /\ ~ResourcesRaise(config, known)
  BY <1>2 DEF Told, Accepts, HeaderRaises, OfKind, OfProtocol, config
<1>4. PICK row \in Range(rows) : item.words = TextResources(row)
  <2>1. PICK f \in Range(Wakaama.fields) : item \in Range(ItemsFor(f))
    BY <1>2 DEF Written, Header, Emitted
  <2>2. ItemsFor(f) = GenerateWakaama(f, config)
    BY <1>2 DEF ItemsFor, OfKind, OfProtocol, config
  <2>3. IsSequence(Value(config, f.name).rows)
    BY EntryShape DEF config
  <2>4. f.name = "objects"
    BY <2>1, <2>2, <2>3, WakaamaItemsNamed
  <2>5. f = Resources
    BY <2>4, OthersNameFields DEF LwM2M
  <2>6. f.shape = "resources"
    BY <2>5 DEF Resources, Field
  <2>7. PICK k \in DOMAIN rows : item.words = TextResources(rows[k])
    BY <2>1, <2>2, <2>3, <2>4, <2>6, WakaamaItemsNamed
  <2> QED BY <2>7 DEF Range
<1>5. Row(row) /\ row \in Seq(Range(row))
  <2>1. Table(Value(config, "objects"))
    BY EntryShape DEF config
  <2> QED BY <2>1 DEF Table, Row
<1>6. ValidEntry(row)
  BY <1>3 DEF ValidWakaama
<1>7. /\ \A cell \in Range(row) : cell.how = "symbol" => cell.of \in 0..Uint16Max
      /\ \A p \in ResourcesOf(row) :
           row[3 * p].how \in {"number", "symbol", "unknown", "empty", "missing", "scalar"}
  BY ProtocolAssumption DEF config
<1> DEFINE pair(p) == TextPair(Number(row[3 * p + 1], 1), TextId(row[3 * p]))
           io(p) == Resolve(row[3 * p + 2])
           first == TextPair(Number(row[2], 0), TextId(row[1]))
           seqs == [p \in ResourcesOf(row) |->
                      IF io(p) = << >> THEN << >> ELSE <<first, pair(p)>> \o io(p)]
<1>8. TextResources(row) = FlattenSeq(seqs)
  BY DEF TextResources
<1>9. IsSequence(seqs)
  <2> DEFINE T == {seqs[p] : p \in DOMAIN seqs}
             m == (Len(row) - 2) \div 3
  <2>1. DOMAIN seqs = 1..m /\ seqs \in [1..m -> T]
    BY DEF ResourcesOf
  <2>2. m \in Int /\ (m \in Nat \/ 1..m = 1..0)
    <3>1. Len(row) \in Nat
      BY <1>5, LenProperties
    <3>2. m \in Int
      BY <3>1
    <3> HIDE DEF m
    <3> QED BY <3>2
  <2>3. seqs \in Seq(T)
    <3> HIDE DEF seqs, T, m
    <3>1. \E k \in Nat : seqs \in [1..k -> T]
      BY <2>1, <2>2
    <3> QED BY <3>1, SeqDef
  <2> QED BY <2>3 DEF IsSequence
<1>10. ASSUME NEW p \in DOMAIN seqs
       PROVE  \/ seqs[p] = << >>
              \/ \E ref : io(p) = <<ref>> /\ seqs[p] = <<first, pair(p), ref>>
  <2>1. io(p) = << >> \/ \E ref : io(p) = <<ref>>
    BY DEF Resolve
  <2>2. CASE io(p) = << >>
    BY <2>2
  <2>3. CASE io(p) # << >>
    <3>1. PICK ref : io(p) = <<ref>>
      BY <2>1, <2>3
    <3>2. seqs[p] = <<first, pair(p)>> \o <<ref>>
      BY <2>3, <3>1
    <3>3. \A a, b : <<a, b>> \o <<ref>> = <<a, b, ref>>
      BY PairAndOne
    <3> HIDE DEF first, pair, io, seqs
    <3> QED BY <3>1, <3>2, <3>3
  <2> QED BY <2>2, <2>3
<1> HIDE DEF first, seqs
<1>11. \A p \in DOMAIN seqs : IsSequence(seqs[p]) /\ Len(seqs[p]) \in {0, 3}
  <2>1. \A a, b, c : IsSequence(<<a, b, c>>) /\ Len(<<a, b, c>>) = 3
    BY TripleIsSequence
  <2> QED BY <1>10, <2>1, EmptyIsSequence
<1>12. PICK k \in Nat : Triples(item.words, seqs, k, Len(seqs))
  BY <1>4, <1>8, <1>9, <1>11, FlattenOfTriples
<1>13. PICK at : /\ IsSequence(item.words) /\ Len(item.words) = 3 * k
                 /\ \A j \in 1..k : /\ at[j] \in 1..Len(seqs) /\ Len(seqs[at[j]]) = 3
                                    /\ item.words[3 * j - 1] = seqs[at[j]][2]
                                    /\ item.words[3 * j] = seqs[at[j]][3]
  BY <1>12 DEF Triples
<1>14. i \in 1..k
  BY <1>13
<1> DEFINE p == at[i]
<1>15. p \in DOMAIN seqs /\ p \in ResourcesOf(row)
  <2>1. p \in DOMAIN seqs
    BY <1>9, <1>13, <1>14, LenProperties DEF IsSequence
  <2> QED BY <2>1 DEF seqs
<1>16. PICK ref : io(p) = <<ref>> /\ item.words[3 * i - 1] = pair(p) /\ item.words[3 * i] = ref
  <2>1. seqs[p] # << >>
    BY <1>13, <1>14, EmptyIsSequence
  <2>2. PICK ref : io(p) = <<ref>> /\ seqs[p] = <<first, pair(p), ref>>
    BY <1>10, <1>15, <2>1
  <2>3. seqs[p][2] = pair(p) /\ seqs[p][3] = ref
    <3> HIDE DEF pair, io
    <3> QED BY <2>2
  <2> QED BY <1>13, <1>14, <2>2, <2>3
<1>17. pair(p) # Undeclared
  <2>1. 3 * i - 1 \in DOMAIN item.words
    BY <1>13, <1>14, LenProperties DEF IsSequence
  <2>2. item.words[3 * i - 1] \in Range(item.words)
    BY <2>1 DEF Range
  <2>3. PICK j \in DOMAIN text : text[j] = item
    BY DEF Range
  <2>4. Undeclared \notin Mentioned(text)
    BY WakaamaAssumption DEF Written
  <2> QED BY <1>16, <2>2, <2>3, <2>4 DEF Mentioned
<1> HIDE DEF p
<1> QED BY <1>3, <1>5, <1>6, <1>7, <1>15, <1>16, <1>17, ResourceRight

LEMMA AcceptedRight ==
  ASSUME Passing, Written
  PROVE  AcceptedIsSound
<1>1. obj \in Program \cup ProtocolEntry \cup IoEntry /\ Told
  BY DEF Passing
<1>2. IsProgram => obj \in Program
  BY <1>1, ProtocolAssumption, IoAssumption DEF IsProgram
<1>3. MovedAlike
  BY <1>1, <1>2, MovedRight DEF MovedAlike
<1>4. obj.kind = "protocol" => obj \in ProtocolEntry
  BY <1>1, ProgramAssumption, IoAssumption
<1>7. RegistersApart
  BY <1>1, <1>4, BlocksApart DEF RegistersApart
<1>5. MergedApart
  BY <1>1, <1>2, MergedRight DEF MergedApart
<1>6. ResourcesTyped
  BY <1>1, <1>4, ResourcesRight DEF ResourcesTyped
<1> QED BY <1>3, <1>5, <1>6, <1>7 DEF AcceptedIsSound

\* For any types, configs and defined names, what both back ends accept is sound: values
\* that are moved have one dtype, register blocks and merged inputs do not meet, and
\* resources have a dtype their name allows.
THEOREM AcceptedStaysSound == Spec => []AcceptedIsSound
<1>1. Passing /\ Written => AcceptedIsSound
  BY AcceptedRight
<1> QED
  BY <1>1, PassingInit, StepKeepsPassing, WrittenInit, StepKeepsWritten, PTL DEF Spec
-----------------------------------------------------------------------------
(* Targets whose shape a program owns                                        *)

\* References are names of objects, and all of them are known among these.
LEMMA CellsRefer ==
  ASSUME NEW cells, Row(cells), NEW i \in DOMAIN cells
  PROVE  Range(Resolve(cells[i])) \subseteq Ref
<1>1. cells[i] \in Range(cells)
  BY DEF Range
<1>2. Range(<< >>) = {} /\ \A e : Range(<<e>>) = {e}
  BY SingletonIsSequence DEF Range
<1> QED BY <1>1, <1>2 DEF Row, Resolve

LEMMA ReferencesRefer ==
  ASSUME NEW v, Table(v)
  PROVE  IsSequence(References(v)) /\ Range(References(v)) \subseteq Ref
<1> DEFINE refs == [i \in DOMAIN v.rows |->
                      IF Len(v.rows[i]) = 1 THEN Resolve(v.rows[i][1]) ELSE << >>]
<1>1. IsSequence(v.rows)
  BY SequenceOverItself DEF Table
<1>2. IsSequence(refs)
  BY <1>1, MappedIsSequence
<1>3. \A c : IsSequence(Resolve(c))
  BY SingletonIsSequence, EmptyIsSequence DEF Resolve
<1>4. \A i \in DOMAIN refs : IsSequence(refs[i])
  BY <1>3, EmptyIsSequence
<1>5. ASSUME NEW i \in DOMAIN refs
      PROVE  Range(refs[i]) \subseteq Ref
  <2>1. v.rows[i] \in Range(v.rows)
    BY DEF Range
  <2>2. Row(v.rows[i])
    BY <2>1 DEF Table
  <2>3. CASE Len(v.rows[i]) = 1
    <3>1. 1 \in DOMAIN v.rows[i]
      BY <2>2, <2>3, LenProperties DEF Row
    <3> QED BY <2>2, <2>3, <3>1, CellsRefer
  <2>4. CASE Len(v.rows[i]) # 1
    <3>1. Range(<< >>) = {}
      BY DEF Range
    <3> QED BY <2>4, <3>1
  <2> QED BY <2>3, <2>4
<1>6. References(v) = FlattenSeq(refs)
  BY DEF References
<1> HIDE DEF refs
<1>7. IsSequence(FlattenSeq(refs)) /\ Range(FlattenSeq(refs)) = UNION {Range(refs[i]) : i \in DOMAIN refs}
  BY <1>2, <1>4, FlattenIsSequence
<1> QED BY <1>5, <1>6, <1>7

LEMMA KnownInFull ==
  ASSUME NEW refs, IsSequence(refs), NEW ids, Range(refs) \subseteq ids
  PROVE  /\ IsSequence(Known(refs, ids)) /\ Range(Known(refs, ids)) = Range(refs)
         /\ Len(Known(refs, ids)) = Len(refs)
<1> DEFINE n == Len(refs)
<1>1. n \in Nat /\ DOMAIN refs = 1..n
  BY LenProperties DEF IsSequence
<1>2. {i \in DOMAIN refs : refs[i] \in ids} = 1..n
  BY <1>1 DEF Range
<1>3. Cardinality(1..n) = n
  <2> HIDE DEF n
  <2>1. Cardinality(1..n) = IF 1 > n THEN 0 ELSE n - 1 + 1
    BY <1>1, FS_Interval
  <2> QED BY <1>1, <2>1
<1> QED BY <1>2, <1>3, KnownRight

\* A binding has both of its sides.
LEMMA InterleavedReaches ==
  ASSUME NEW s, IsSequence(s), NEW t, IsSequence(t), Len(s) = Len(t)
  PROVE  Range(s) \cup Range(t) \subseteq Range(Interleaved(s, t))
<1> DEFINE zip == Zip(s, t)
<1>1. Len(s) \in Nat /\ DOMAIN s = 1..Len(s) /\ DOMAIN t = 1..Len(s)
  BY LenProperties DEF IsSequence
<1>2. zip = [i \in DOMAIN s |-> <<s[i], t[i]>>]
  BY <1>1 DEF Zip
<1>3. IsSequence(zip) /\ \A i \in DOMAIN zip : IsSequence(zip[i]) /\ Range(zip[i]) = {s[i], t[i]}
  <2>1. IsSequence([i \in DOMAIN s |-> <<s[i], t[i]>>])
    BY MappedIsSequence
  <2> HIDE DEF zip
  <2> QED BY <1>2, <2>1, PairIsSequence
<1>4. DOMAIN zip = DOMAIN s
  BY <1>2
<1> HIDE DEF zip
<1>5. Range(FlattenSeq(zip)) = UNION {Range(zip[i]) : i \in DOMAIN zip}
  BY <1>3, FlattenIsSequence
<1>6. \A i \in DOMAIN s : s[i] \in Range(FlattenSeq(zip)) /\ t[i] \in Range(FlattenSeq(zip))
  BY <1>3, <1>4, <1>5
<1> QED BY <1>1, <1>6 DEF Interleaved, zip, Range

\* The text of a program has every field, and the binding where it writes one.
LEMMA FieldsReached ==
  ASSUME IsProgram, Written, textResult = "ok"
  PROVE  /\ \A f \in Range(handler.fields) :
              f.shape # "bound" => Range(TextWords(f, config)) \cap Ref \subseteq Mentioned(text)
         /\ WritesBinding(obj.type, config) =>
              Range(StandardBinding(obj.type, config).words) \cap Ref \subseteq Mentioned(text)
<1>1. \A item \in Range(text) : Range(item.words) \cap Ref \subseteq Mentioned(text)
  <2> SUFFICES ASSUME NEW item \in Range(text)
               PROVE  Range(item.words) \cap Ref \subseteq Mentioned(text)
    OBVIOUS
  <2>1. PICK i \in DOMAIN text : text[i] = item
    BY DEF Range
  <2> QED BY <2>1 DEF Mentioned
<1>2. Header \subseteq Range(text)
        /\ \A f \in Range(handler.fields) : Range(ItemsFor(f)) \subseteq Range(text)
  BY DEF Written, Complete
<1>3. ASSUME NEW f \in Range(handler.fields), f.shape # "bound"
      PROVE  Range(TextWords(f, config)) \cap Ref \subseteq Mentioned(text)
  <2> DEFINE item == Item(f.name, Len(TextWords(f, config)), TextWords(f, config))
  <2>1. ItemsFor(f) = <<item>>
    BY <1>3 DEF ItemsFor, OfKind, GenerateField, config
  <2>2. item \in Range(text)
    BY <1>2, <2>1, SingletonIsSequence
  <2>3. item.words = TextWords(f, config)
    BY DEF Item
  <2> HIDE DEF item
  <2> QED BY <1>1, <2>2, <2>3
<1>4. ASSUME WritesBinding(obj.type, config)
      PROVE  Range(StandardBinding(obj.type, config).words) \cap Ref \subseteq Mentioned(text)
  <2>1. StandardBinding(obj.type, config) \in Range(text)
    BY <1>2, <1>4 DEF Header, config
  <2> QED BY <1>1, <2>1
<1> QED BY <1>3, <1>4

\* How a handler writes what it owns.
Lists(f, key) == f.name = key /\ f.shape \in {"list", "names"}
Singles(f, key) == f.name = key /\ f.shape \in {"single", "chosen"}
Aims(f, key) == f.name = key /\ f.shape = "target"
OwnerOf(h) ==
  \A key \in h.owns :
    \/ key = "outputs" /\ IoBind \in Range(h.fields)
    \/ key \in {"outputs", "targets"} /\ \E f \in Range(h.fields) : Lists(f, key)
    \/ key \in {"output", "target"} /\ \E f \in Range(h.fields) : Singles(f, key) \/ Aims(f, key)
OwnerOfAll(h) == h.owns = {"outputs"} /\ ~HasCustomBinding(h.fields)
OwnerOfBinds(h, owns, shape, n) ==
  /\ h.owns = owns /\ h.fields[1] \in Range(h.fields)
  /\ h.fields[1].name = "iobind" /\ h.fields[1].shape = shape /\ h.fields[1].refs = n

LEMMA HandlersOwn ==
  ASSUME NEW t \in DOMAIN Handlers
  PROVE  LET h == Handlers[t] IN
         CASE t = "gateway" -> OwnerOfBinds(h, {"io1", "io2"}, "strictbinds", 2)
           [] t = "buffer" -> OwnerOfBinds(h, {"out", "sel", "stat"}, "binds", 4)
           [] t \in {"stats", "adjust"} -> OwnerOfAll(h)
           [] OTHER -> OwnerOf(h)
<1> USE DEF Handler, OwnerOf, Lists, Singles, Aims
<1> USE DEF Field, Single, List, Chosen, Rows
<1>1. \A h \in {StatsAvg, StatsCount, StatsMax, StatsMin, StatsRms, StatsSum, Dummy, Latest, Redirect} :
        OwnerOf(h)
  BY SingletonIsSequence DEF StatsAvg, StatsCount, StatsMax, StatsMin, StatsRms, StatsSum, Dummy, Latest, Redirect
<1>2. \A h \in {MovingAvg, Sampling, Counter, BitSplit, Expression, Toggle} : OwnerOf(h)
  BY PairIsSequence DEF MovingAvg, Sampling, Counter, BitSplit, Expression, Toggle
<1>3. \A h \in {IirFilter, Saturate, IoMux, IoDemux, Selector, Sequencer} : OwnerOf(h)
  BY TripleIsSequence DEF IirFilter, Saturate, IoMux, IoDemux, Selector, Sequencer
<1>4. \A h \in {Threshold, ThresholdValue} : OwnerOf(h)
  BY QuadrupleIsSequence DEF Threshold, ThresholdValue
<1>5. \A h \in {OneToMany, ManyToOne, VecSplit, VecPack, Switch, BitPack, BitMerge} : OwnerOf(h)
  BY PairIsSequence DEF OneToMany, ManyToOne, VecSplit, VecPack, Switch, BitPack, BitMerge
<1>6. OwnerOf(Ahrs)
  <2>1. IsSequence(Ahrs.fields) /\ Single("output") \in Range(Ahrs.fields) /\ Ahrs.owns = {"output"}
    BY PairIsSequence, TripleIsSequence, ConcatIsSequence DEF Ahrs
  <2> QED BY <2>1
<1>7. OwnerOfAll(Stats) /\ OwnerOfAll(Adjust)
  BY DEF OwnerOfAll, HasCustomBinding, Stats, Adjust
<1>8. OwnerOfBinds(Gateway, {"io1", "io2"}, "strictbinds", 2)
  BY SingletonIsSequence DEF OwnerOfBinds, Gateway
<1>9. OwnerOfBinds(Buffer, {"out", "sel", "stat"}, "binds", 4)
  BY QuadrupleIsSequence DEF OwnerOfBinds, Buffer, Binds
<1> HIDE DEF Handler, OwnerOf, Lists, Singles, Aims, Field, Single, List, Chosen, Rows
<1>10. CASE t \in {"gateway", "buffer", "stats", "adjust"}
  BY <1>7, <1>8, <1>9, <1>10 DEF Handlers
<1>11. CASE t \notin {"gateway", "buffer", "stats", "adjust"}
  <2>1. OwnerOf(Handlers[t])
    BY <1>1, <1>2, <1>3, <1>4, <1>5, <1>6, <1>11 DEF Handlers
  <2> QED BY <1>11, <2>1
<1> QED BY <1>10, <1>11

\* The two readings of a single reference are of it, and the text has the first.
LEMMA SinglesReached ==
  ASSUME obj \in Program, IsProgram, Written, textResult = "ok",
         NEW key, NEW f \in Range(handler.fields), Singles(f, key) \/ Aims(f, key)
  PROVE  Range(First(Value(config, key))) \cup Range(Plain(Value(config, key))) \subseteq Mentioned(text)
<1> DEFINE value == Value(config, key)
           rows == value.rows
<1>1. Table(value) /\ IsSequence(rows)
  <2>1. Table(value)
    BY ProgramAssumption, ValueIsTable DEF Given, config
  <2> QED BY <2>1, SequenceOverItself DEF Table
<1>2. ~value.list => Len(rows) = 1 /\ rows[1] # << >>
  BY ProgramAssumption DEF Value, Given, Absent, config
<1>3. Range(<< >>) = {} /\ \A e : Range(<<e>>) = {e}
  BY SingletonIsSequence DEF Range
<1>4. ASSUME rows # << >>, rows[1] # << >>
      PROVE  /\ rows[1] \in Range(rows) /\ Range(Resolve(rows[1][1])) \subseteq Ref
  <2>1. 1 \in DOMAIN rows
    BY <1>1, <1>4, TailIsSequence
  <2>2. rows[1] \in Range(rows)
    BY <2>1 DEF Range
  <2>3. Row(rows[1]) /\ IsSequence(rows[1])
    <3>1. Row(rows[1])
      BY <1>1, <2>2 DEF Table
    <3> QED BY <3>1, SequenceOverItself DEF Row
  <2>4. 1 \in DOMAIN rows[1]
    BY <1>4, <2>3, TailIsSequence
  <2> QED BY <2>2, <2>3, <2>4, CellsRefer
\* What there is of it is what the first cell refers to.
<1>5. ASSUME NEW r \in Range(First(value)) \cup Range(Plain(value))
      PROVE  /\ rows # << >> /\ rows[1] # << >> /\ r \in Ref
             /\ Resolve(rows[1][1]) = <<r>> /\ First(value) = <<r>>
  <2>1. First(value) = Resolve(rows[1][1]) /\ rows # << >> /\ rows[1] # << >>
    <3>1. CASE ~value.list
      <4>1. rows # << >>
        BY <1>2, <3>1, EmptyIsSequence
      <4> QED BY <1>2, <3>1, <4>1 DEF First, Plain
    <3>2. CASE value.list
      <4>1. r \in Range(First(value))
        BY <1>3, <1>5, <3>2 DEF Plain
      <4>2. rows # << >> /\ Len(rows[1]) = 1 /\ First(value) = Resolve(rows[1][1])
        BY <1>3, <3>2, <4>1 DEF First
      <4> QED BY <4>2, EmptyIsSequence
    <3> QED BY <3>1, <3>2
  <2>2. r \in Range(Resolve(rows[1][1]))
    <3>1. CASE value.list
      BY <1>3, <1>5, <2>1, <3>1 DEF Plain
    <3>2. CASE ~value.list
      BY <1>5, <2>1, <3>2 DEF Plain
    <3> QED BY <3>1, <3>2
  <2>3. Resolve(rows[1][1]) = <<r>>
    BY <1>3, <2>2 DEF Resolve
  <2> QED BY <1>4, <2>1, <2>2, <2>3
<1>6. CASE Singles(f, key)
  <2>1. ASSUME NEW r \in Range(First(value)) \cup Range(Plain(value))
        PROVE  r \in Mentioned(text)
    <3>1. Range(Known(First(value), Ref)) = {r}
      <4>1. IsSequence(First(value)) /\ Range(First(value)) = {r} /\ r \in Ref
        BY <1>5, <2>1, SingletonIsSequence
      <4> QED BY <4>1, KnownInFull
    <3>2. Known(First(value), Ref) # << >>
      BY <1>3, <3>1
    <3>3. TextWords(f, config) = Known(First(value), Ref)
      BY <1>6, <3>2 DEF TextWords, WordsOf, Singles
    <3> QED BY <1>5, <1>6, <2>1, <3>1, <3>3, FieldsReached DEF Singles
  <2> QED BY <2>1
<1>7. CASE Aims(f, key)
  <2>1. ASSUME NEW r \in Range(First(value)) \cup Range(Plain(value))
        PROVE  r \in Mentioned(text)
    <3>1. Id(rows[1][1], Ref) = r
      <4>1. IsSequence(<<r>>) /\ Range(<<r>>) = {r} /\ Len(<<r>>) = 1 /\ r \in Ref
        BY <1>5, <2>1, SingletonIsSequence
      <4> DEFINE left == Known(<<r>>, Ref)
      <4>2. IsSequence(left) /\ Range(left) = {r} /\ Len(left) = 1
        BY <4>1, KnownInFull
      <4>3. left # << >> /\ left[1] = r
        <5> HIDE DEF left
        <5>1. 1 \in DOMAIN left
          BY <4>2, LenProperties DEF IsSequence
        <5> QED BY <1>3, <4>2, <5>1 DEF Range
      <4> QED BY <1>5, <2>1, <4>3 DEF Id
    <3>2. TextWords(f, config) = <<r, Numeral(value, 2, 1), Numeral(value, 3, 0)>>
      BY <1>5, <1>7, <2>1, <3>1 DEF TextWords, WordsOf, Aims
    <3>3. r \in Range(TextWords(f, config))
      BY <3>2, TripleIsSequence
    <3> QED BY <1>5, <1>7, <2>1, <3>3, FieldsReached DEF Aims
  <2> QED BY <2>1
<1> QED BY <1>6, <1>7

\* The outputs are in a field, or in the binding the generator writes.
LEMMA OutputsReached ==
  ASSUME obj \in Program, IsProgram, Told, Written, textResult = "ok",
         \/ IoBind \in Range(handler.fields)
         \/ /\ obj.type \in {"stats", "adjust"} /\ ~HasCustomBinding(handler.fields)
            /\ handler = Handlers[obj.type]
  PROVE  Range(Outputs(config)) \subseteq Mentioned(text)
<1> DEFINE in == Inputs(config)
           out == Outputs(config)
<1>1. /\ IsSequence(out) /\ Range(out) \subseteq Ref
      /\ IsSequence(Sources(config)) /\ Range(Sources(config)) \subseteq Ref
      /\ IsSequence(in) /\ Range(in) \subseteq Ref
  <2>1. \A key : Table(Value(config, key))
    BY ProgramAssumption, ValueIsTable DEF Given, config
  <2>2. \A key : /\ IsSequence(References(Value(config, key)))
                 /\ Range(References(Value(config, key))) \subseteq Ref
    BY <2>1, ReferencesRefer
  <2>3. Sources(config) \in {References(Value(config, "sources")), References(Value(config, "inputs"))}
    BY DEF Sources, Inputs, Value
  <2> QED BY <2>2, <2>3 DEF Inputs, Outputs
<1>2. CASE IoBind \in Range(handler.fields)
  <2>1. IoBind.shape = "pairs"
    BY DEF IoBind, Field
  <2>2. Len(Sources(config)) = Len(out)
    BY <1>2, <2>1 DEF Told, RefusesText, OfKind, GenerateRaises, config
  <2>3. TextWords(IoBind, config) = Interleaved(Known(Sources(config), Ref), Known(out, Ref))
    BY <2>1 DEF TextWords, WordsOf
  <2>4. Range(out) \subseteq Range(TextWords(IoBind, config))
    <3> DEFINE s == Known(Sources(config), Ref)
               t == Known(out, Ref)
    <3>1. IsSequence(s) /\ IsSequence(t) /\ Len(s) = Len(t) /\ Range(t) = Range(out)
      BY <1>1, <2>2, KnownInFull
    <3> HIDE DEF s, t
    <3> QED BY <2>3, <3>1, InterleavedReaches DEF s, t
  <2> QED BY <1>1, <1>2, <2>1, <2>4, FieldsReached
<1>3. CASE /\ obj.type \in {"stats", "adjust"} /\ ~HasCustomBinding(handler.fields)
           /\ handler = Handlers[obj.type]
  <2> SUFFICES ASSUME NEW j \in DOMAIN out
               PROVE  out[j] \in Mentioned(text)
    BY DEF Range
  <2>1. j \in Nat /\ j # 0 /\ j <= Len(out) /\ Len(out) \in Nat /\ Len(in) \in Nat
    BY <1>1, LenProperties DEF IsSequence
  <2>2. out[j] \in Ref
    BY <1>1 DEF Range
  <2>3. WritesBinding(obj.type, config)
    <3>1. in \o out # << >>
      <4>1. Range(in \o out) = Range(in) \cup Range(out)
        BY <1>1, ConcatIsSequence
      <4> QED BY <4>1 DEF Range
    <3> QED BY <1>3, <3>1 DEF WritesBinding
  <2>4. out[j] \in Range(StandardBinding(obj.type, config).words)
    <3>1. CASE obj.type = "adjust"
      <4>1. Len(out) = 1
        <5>1. Handlers[obj.type].check = "adjust"
          BY <3>1 DEF Handlers, Adjust, Handler
        <5> QED BY <5>1 DEF Told, Accepts, OfKind, Valid, config
      <4>2. j = 1
        BY <2>1, <4>1
      <4>3. StandardBinding(obj.type, config).words = <<in[1], out[1]>>
        BY <3>1 DEF StandardBinding, Item
      <4> QED BY <4>2, <4>3, PairIsSequence
    <3>2. CASE obj.type # "adjust"
      <4> DEFINE n == IF Len(in) > Len(out) THEN Len(in) ELSE Len(out)
                 words == [i \in 1..(2 * n) |-> IF i % 2 = 1 THEN Padding(in, (i + 1) \div 2)
                                                ELSE Padding(out, i \div 2)]
      <4>1. StandardBinding(obj.type, config).words = words
        BY <3>2 DEF StandardBinding, Item
      <4>2. 2 * j \in 1..(2 * n) /\ (2 * j) % 2 = 0 /\ (2 * j) \div 2 = j
        BY <2>1
      <4>3. words[2 * j] = Padding(out, j)
        BY <4>2
      <4>4. Padding(out, j) = out[j]
        BY DEF Padding
      <4> QED BY <4>1, <4>2, <4>3, <4>4 DEF Range
    <3> QED BY <3>1, <3>2
  <2> QED BY <2>2, <2>3, <2>4, FieldsReached
<1> QED BY <1>2, <1>3

LEMMA ListsReached ==
  ASSUME obj \in Program, IsProgram, Written, textResult = "ok",
         NEW key, NEW f \in Range(handler.fields), Lists(f, key)
  PROVE  Range(References(Value(config, key))) \subseteq Mentioned(text)
<1> DEFINE refs == References(Value(config, key))
<1>1. IsSequence(refs) /\ Range(refs) \subseteq Ref
  BY ProgramAssumption, ValueIsTable, ReferencesRefer DEF Given, config
<1>2. TextWords(f, config) = Known(refs, Ref)
  BY DEF TextWords, WordsOf, Lists
<1>3. Range(TextWords(f, config)) = Range(refs)
  <2> HIDE DEF refs
  <2> QED BY <1>1, <1>2, KnownInFull
<1> QED BY <1>1, <1>3, FieldsReached DEF Lists

\* Of bindings, every one whose ends are all there.
LEMMA BindsReached ==
  ASSUME obj \in Program, IsProgram, Written, textResult = "ok",
         NEW f \in Range(handler.fields), f.shape \in {"binds", "strictbinds"},
         f.refs \in Nat,
         NEW row \in Range(Value(config, f.name).rows), Value(config, f.name).list,
         row # << >>, WholeRow(f, row), Len(row) = f.refs + Len(f.defaults), Len(f.defaults) \in Nat,
         NEW i \in 1..f.refs
  PROVE  Range(Resolve(row[i])) \subseteq Mentioned(text)
<1> DEFINE value == Value(config, f.name)
           rows == value.rows
           seqs == [k \in DOMAIN rows |->
                      IF Usable(f, rows[k], Ref) THEN RowWords(f, rows[k], Ref) ELSE << >>]
<1>1. Table(value) /\ IsSequence(rows)
  <2>1. Table(value)
    BY ProgramAssumption, ValueIsTable DEF Given, config
  <2> QED BY <2>1, SequenceOverItself DEF Table
<1>2. Row(row) /\ DOMAIN row = 1..Len(row)
  <2>1. Row(row)
    BY <1>1 DEF Table
  <2> QED BY <2>1, LenProperties DEF Row
<1>3. ASSUME NEW k \in 1..f.refs
      PROVE  \E r \in Ref : Resolve(row[k]) = <<r>> /\ Id(row[k], Ref) = r /\ r # 0
  <2>1. k \in DOMAIN row
    BY <1>2
  <2>2. Range(Resolve(row[k])) \subseteq Ref /\ Resolve(row[k]) # << >>
    BY <1>2, <2>1, CellsRefer DEF WholeRow
  <2>3. PICK r : Resolve(row[k]) = <<r>>
    BY <2>2 DEF Resolve
  <2>4. r \in Ref /\ IsSequence(<<r>>) /\ Range(<<r>>) = {r} /\ Len(<<r>>) = 1
    BY <2>2, <2>3, SingletonIsSequence
  <2>5. r # 0
    BY <2>4, HandlersAssumption
  <2> DEFINE left == Known(<<r>>, Ref)
  <2>6. IsSequence(left) /\ Range(left) = {r} /\ Len(left) = 1
    BY <2>4, KnownInFull
  <2>7. left # << >> /\ left[1] = r
    <3> HIDE DEF left
    <3>1. 1 \in DOMAIN left
      BY <2>6, LenProperties DEF IsSequence
    <3>2. Range(<< >>) = {}
      BY DEF Range
    <3> QED BY <2>6, <3>1, <3>2 DEF Range
  <2> QED BY <2>3, <2>4, <2>5, <2>7 DEF Id
<1>4. PICK p \in DOMAIN rows : rows[p] = row
  BY DEF Range
<1>5. seqs[p] = RowWords(f, row, Ref)
  <2>1. Usable(f, row, Ref)
    BY <1>3 DEF Usable
  <2> QED BY <1>4, <2>1
<1>6. PICK r \in Ref : Resolve(row[i]) = <<r>> /\ Id(row[i], Ref) = r
  BY <1>3
<1>7. r \in Range(RowWords(f, row, Ref))
  <2>1. i \in 1..(f.refs + Len(f.defaults)) /\ i <= f.refs
    OBVIOUS
  <2>2. i \in DOMAIN RowWords(f, row, Ref) /\ RowWords(f, row, Ref)[i] = r
    BY <1>6, <2>1 DEF RowWords
  <2> QED BY <2>2 DEF Range
<1>8. TextWords(f, config) = FlattenSeq(seqs)
  BY DEF TextWords, WordsOf, AllRows
<1>9. IsSequence(seqs) /\ DOMAIN seqs = DOMAIN rows
  BY <1>1, MappedIsSequence
<1>10. \A k \in DOMAIN seqs : IsSequence(seqs[k])
  <2> SUFFICES ASSUME NEW k \in DOMAIN seqs
               PROVE  IsSequence(seqs[k])
    OBVIOUS
  <2> DEFINE w == RowWords(f, rows[k], Ref)
             m == f.refs + Len(f.defaults)
             T == {w[a] : a \in DOMAIN w}
  <2>1. seqs[k] = w \/ seqs[k] = << >>
    OBVIOUS
  <2>2. m \in Nat /\ w \in [1..m -> T]
    <3>1. DOMAIN w = 1..m /\ w = [a \in 1..m |-> w[a]]
      BY DEF RowWords
    <3> HIDE DEF w, m
    <3>2. w \in [1..m -> T]
      BY <3>1
    <3> QED BY <3>2 DEF m
  <2>3. w \in Seq(T)
    <3> HIDE DEF w, m, T
    <3> QED BY <2>2, SeqDef
  <2>4. IsSequence(w)
    BY <2>3 DEF IsSequence
  <2> HIDE DEF w
  <2> QED BY <2>1, <2>4, EmptyIsSequence
<1> HIDE DEF seqs
<1>11. Range(FlattenSeq(seqs)) = UNION {Range(seqs[k]) : k \in DOMAIN seqs}
  BY <1>9, <1>10, FlattenIsSequence
<1>12. r \in Range(TextWords(f, config))
  BY <1>4, <1>5, <1>7, <1>8, <1>9, <1>11
<1>13. Range(TextWords(f, config)) \cap Ref \subseteq Mentioned(text)
  BY FieldsReached
<1> QED BY <1>6, <1>12, <1>13, SingletonIsSequence

\* What a program owns is in the text, if it is whole.
LEMMA OwnedWritten ==
  ASSUME obj \in Program, Told, Written, textResult = "ok", ~Incomplete
  PROVE  Owned(obj.type, config) \subseteq Mentioned(text)
<1> DEFINE t == obj.type
           h == Handlers[t]
           binds == Value(config, "iobind")
           Column(key) == IF t = "gateway" THEN (IF key = "io1" THEN 1 ELSE 2)
                          ELSE CASE key = "out" -> 2 [] key = "sel" -> 3 [] OTHER -> 4
           Ends(key) == UNION {IF row = << >> THEN {} ELSE Range(Resolve(row[Column(key)])) :
                               row \in (IF binds.list THEN Range(binds.rows) ELSE {})}
<1>1. IsProgram /\ handler = h /\ t \in DOMAIN Handlers
  BY ProgramAssumption DEF IsProgram, handler, OfKind
<1>2. CASE t \in {"gateway", "buffer"}
  <2> DEFINE f == h.fields[1]
  <2>1. Owned(t, config) = UNION {Ends(key) : key \in h.owns}
    BY <1>2 DEF Owned
  <2>2. /\ f \in Range(h.fields) /\ f.name = "iobind" /\ f.shape \in {"binds", "strictbinds"}
        /\ f.refs \in Nat /\ Len(f.defaults) \in Nat
        /\ \A key \in h.owns : Column(key) \in 1..f.refs
        /\ f \in Range(h.encode)
    <3>1. CASE t = "gateway"
      <4>1. OwnerOfBinds(h, {"io1", "io2"}, "strictbinds", 2)
        BY <1>1, <3>1, HandlersOwn
      <4>2. f.defaults = <<0, 1>> /\ h.encode = h.fields
        BY <3>1 DEF Handlers, Gateway, Handler, Field
      <4> QED BY <3>1, <4>1, <4>2 DEF OwnerOfBinds
    <3>2. CASE t = "buffer"
      <4>1. OwnerOfBinds(h, {"out", "sel", "stat"}, "binds", 4)
        BY <1>1, <3>2, HandlersOwn
      <4>2. f.defaults = << >> /\ h.encode = h.fields
        BY <3>2 DEF Handlers, Buffer, Handler, Binds, Field
      <4> QED BY <3>2, <4>1, <4>2 DEF OwnerOfBinds
    <3> QED BY <1>2, <3>1, <3>2
  <2> HIDE DEF f
  <2>3. ASSUME NEW key \in h.owns, NEW row \in Range(binds.rows), binds.list, row # << >>
        PROVE  Range(Resolve(row[Column(key)])) \subseteq Mentioned(text)
    <3>1. WholeRow(f, row)
      BY <1>1, <1>2, <2>3 DEF Incomplete, f
    <3>2. Len(row) = f.refs + Len(f.defaults)
      BY <2>2, <2>3, ProgramAssumption DEF config
    <3> DEFINE i == Column(key)
    <3>3. i \in 1..f.refs
      BY <2>2, <2>3
    <3> HIDE DEF i
    <3>4. Range(Resolve(row[i])) \subseteq Mentioned(text)
      BY <1>1, <2>2, <2>3, <3>1, <3>2, <3>3, BindsReached
    <3> QED BY <3>4 DEF i
  <2>4. \A key \in h.owns : Ends(key) \subseteq Mentioned(text)
    BY <2>3
  <2> HIDE DEF Ends
  <2> QED BY <2>1, <2>4
<1>3. CASE t \notin {"gateway", "buffer"}
  <2>1. ASSUME NEW r \in Owned(t, config)
        PROVE  \E key \in h.owns :
                 IF key \in {"outputs", "targets"} THEN r \in Range(References(Value(config, key)))
                 ELSE r \in Range(First(Value(config, key))) \cup Range(Plain(Value(config, key)))
    BY <1>3, <2>1 DEF Owned
  <2>2. ASSUME NEW key \in h.owns
        PROVE  /\ key \in {"outputs", "targets"} =>
                    Range(References(Value(config, key))) \subseteq Mentioned(text)
               /\ key \notin {"outputs", "targets"} =>
                    Range(First(Value(config, key))) \cup Range(Plain(Value(config, key)))
                      \subseteq Mentioned(text)
    <3>1. CASE t \in {"stats", "adjust"}
      <4>1. OwnerOfAll(h)
        BY <1>1, <3>1, HandlersOwn
      <4>2. key = "outputs" /\ ~HasCustomBinding(handler.fields)
        BY <1>1, <2>2, <4>1 DEF OwnerOfAll
      <4>3. Range(Outputs(config)) \subseteq Mentioned(text)
        BY <1>1, <3>1, <4>2, OutputsReached
      <4> QED BY <4>2, <4>3 DEF Outputs
    <3>2. CASE t \notin {"stats", "adjust"}
      <4>1. OwnerOf(h)
        BY <1>1, <1>3, <3>2, HandlersOwn
      <4>2. CASE key = "outputs" /\ IoBind \in Range(h.fields)
        BY <1>1, <4>2, OutputsReached DEF Outputs
      <4>3. CASE key \in {"outputs", "targets"} /\ \E f \in Range(h.fields) : Lists(f, key)
        BY <1>1, <4>3, ListsReached
      <4>4. CASE key \in {"output", "target"} /\ \E f \in Range(h.fields) : Singles(f, key) \/ Aims(f, key)
        BY <1>1, <4>4, SinglesReached
      <4> QED BY <2>2, <4>1, <4>2, <4>3, <4>4 DEF OwnerOf
    <3> QED BY <3>1, <3>2
  <2> QED BY <2>1, <2>2
<1> QED BY <1>2, <1>3

LEMMA OwnedRight ==
  ASSUME obj \in Program, Told, Written
  PROVE  OwnedReached
<1> SUFFICES ASSUME textResult = "ok", ~Incomplete
             PROVE  /\ Owned(obj.type, config) \subseteq Mentioned(text)
                    /\ (binResult = "ok" /\ Range(bin) = Range(text)) =>
                         Owned(obj.type, config) \subseteq Mentioned(bin)
  BY DEF OwnedReached
<1>1. Owned(obj.type, config) \subseteq Mentioned(text)
  BY OwnedWritten
<1>2. ASSUME Range(bin) = Range(text)
      PROVE  Mentioned(text) \subseteq Mentioned(bin)
  <2> SUFFICES ASSUME NEW i \in DOMAIN text, NEW r \in Range(text[i].words) \cap (Ref \cup {Undeclared})
               PROVE  r \in Mentioned(bin)
    BY DEF Mentioned
  <2>1. text[i] \in Range(bin)
    BY <1>2 DEF Range
  <2>2. PICK j \in DOMAIN bin : bin[j] = text[i]
    BY <2>1 DEF Range
  <2> QED BY <2>2 DEF Mentioned
<1> QED BY <1>1, <1>2

-----------------------------------------------------------------------------
(* What reports show                                                         *)

\* A sequence of numbers and of references among these.
Only(words, refs) == IsSequence(words) /\ Range(words) \subseteq Int \cup refs

LEMMA OnlyJoined ==
  ASSUME NEW refs
  PROVE  /\ Only(<< >>, refs)
         /\ \A e \in Int \cup refs : Only(<<e>>, refs)
         /\ \A s, t : Only(s, refs) /\ Only(t, refs) => Only(s \o t, refs)
         /\ \A e \in Int \cup refs : \A n \in Nat : Only(Repeat(e, n), refs)
<1>1. Range(<< >>) = {}
  BY DEF Range
<1>2. ASSUME NEW s, NEW t, Only(s, refs), Only(t, refs)
      PROVE  Only(s \o t, refs)
  <2>1. IsSequence(s \o t) /\ Range(s \o t) = Range(s) \cup Range(t)
    BY <1>2, ConcatIsSequence DEF Only
  <2> QED BY <1>2, <2>1 DEF Only
<1>3. ASSUME NEW e \in Int \cup refs, NEW n \in Nat
      PROVE  Only(Repeat(e, n), refs)
  <2>1. IsSequence(Repeat(e, n))
    BY WordsAreSequences
  <2>2. Range(Repeat(e, n)) \subseteq {e}
    BY DEF Repeat, Range
  <2> QED BY <2>1, <2>2 DEF Only
<1> QED BY <1>1, <1>2, <1>3, SingletonIsSequence, EmptyIsSequence DEF Only

LEMMA OnlyFlat ==
  ASSUME NEW refs, NEW seqs, IsSequence(seqs), \A i \in DOMAIN seqs : Only(seqs[i], refs)
  PROVE  Only(FlattenSeq(seqs), refs)
<1>1. /\ IsSequence(FlattenSeq(seqs))
      /\ Range(FlattenSeq(seqs)) = UNION {Range(seqs[i]) : i \in DOMAIN seqs}
  BY FlattenIsSequence DEF Only
<1> QED BY <1>1 DEF Only

\* A reading of names only has nothing more.
LEMMA PlainIsFlexible ==
  ASSUME NEW cell
  PROVE  Range(Resolve(cell)) \subseteq Range(Flexible(cell))
<1>1. Range(<< >>) = {}
  BY DEF Range
<1>2. cell.how \in {"name", "alias"} => Resolve(cell) = Flexible(cell)
  BY DEF Resolve, Flexible
<1>3. cell.how \notin {"name", "alias"} => Resolve(cell) = << >>
  BY DEF Resolve
<1> QED BY <1>1, <1>2, <1>3

\* What is read of a cell, and what the word of an extension is.
LEMMA OnlyFlexible ==
  ASSUME NEW refs, NEW cell, Range(Flexible(cell)) \subseteq refs
  PROVE  /\ Only(Flexible(cell), refs) /\ Only(Resolve(cell), refs)
         /\ \A f : Only(TextRef(f, cell), refs)
         /\ \A ids : Only(BinaryRef(cell, ids), refs)
         /\ (cell.how = "number" => cell.of \in Int) =>
              \A ids : ExtensionWord(cell, ids) \in Int \cup refs
<1>1. IsSequence(Flexible(cell)) /\ IsSequence(Resolve(cell))
  BY WordsAreSequences
<1>2. Range(Resolve(cell)) \subseteq refs
  BY PlainIsFlexible
<1>3. ASSUME NEW ids
      PROVE  Only(BinaryRef(cell, ids), refs)
  BY <1>1, KnownRight DEF BinaryRef, Only
<1>4. ASSUME cell.how = "number" => cell.of \in Int, NEW ids
      PROVE  ExtensionWord(cell, ids) \in Int \cup refs
  <2> DEFINE ref == BinaryRef(cell, ids)
  <2>1. Only(ref, refs)
    BY <1>3
  <2> HIDE DEF ref
  <2>2. ref # << >> => ref[1] \in Int \cup refs
    <3>1. ref # << >> => 1 \in DOMAIN ref
      BY <2>1, TailIsSequence DEF Only
    <3> QED BY <2>1, <3>1 DEF Only, Range
  <2> QED BY <1>4, <2>2 DEF ExtensionWord, ref
<1> QED BY <1>1, <1>2, <1>3, <1>4 DEF Only, TextRef

\* The orders of the extensions.
LEMMA OrdersOfExtensions ==
  ASSUME NEW f \in {Aios, Ess, Imds}, NEW order \in {BinaryOrder(f), TextOrder(f)}
  PROVE  /\ IsSequence(f.defaults) /\ \A k \in DOMAIN f.defaults : f.defaults[k] \in Nat
         /\ IsSequence(order) /\ Range(order) \subseteq DOMAIN f.defaults
         /\ DOMAIN f.defaults \subseteq Nat \ {0} /\ IsFiniteSet(DOMAIN f.defaults)
<1>1. IsSequence(f.defaults) /\ \A k \in DOMAIN f.defaults : f.defaults[k] \in Nat
  <2> DEFINE Right(s) == IsSequence(s) /\ \A k \in DOMAIN s : s[k] \in Nat
  <2>0. \A s \in Seq(Nat) : Right(s)
    BY SequenceOverItself
  <2>1. f.defaults \in {<<4, 1, 1, 1, 2, 1>>, <<4, 2, 6, 1, 1>>, <<4>>}
    BY DEF Aios, Ess, Imds, Service, Field
  <2>2. {<<4, 1, 1, 1, 2, 1>>, <<4, 2, 6, 1, 1>>, <<4>>} \subseteq Seq(Nat)
    OBVIOUS
  <2>3. Right(f.defaults)
    BY <2>0, <2>1, <2>2
  <2> QED BY <2>3
<1>2. Len(f.defaults) \in Nat /\ DOMAIN f.defaults = 1..Len(f.defaults)
  BY <1>1, LenProperties DEF IsSequence
<1>3. IsFiniteSet(1..Len(f.defaults))
  BY <1>2, FS_Interval
<1>4. ASSUME order = TextOrder(f)
      PROVE  IsSequence(order) /\ Range(order) \subseteq DOMAIN f.defaults
  <2>1. order = [k \in DOMAIN f.defaults |-> k]
    BY <1>4 DEF TextOrder
  <2>2. IsSequence(order)
    BY <1>1, <2>1, MappedIsSequence
  <2> QED BY <2>1, <2>2 DEF Range
<1>5. ASSUME order = BinaryOrder(f), f.name = "aios"
      PROVE  IsSequence(order) /\ Range(order) \subseteq DOMAIN f.defaults
  <2>1. order = <<1, 3, 4, 2, 5, 6>>
    BY <1>5 DEF BinaryOrder
  <2>2. f.defaults = <<4, 1, 1, 1, 2, 1>>
    BY <1>5 DEF Aios, Ess, Imds, Service, Field
  <2>3. DOMAIN f.defaults = 1..6
    BY <2>2
  <2>4. order \in Seq(1..6)
    BY <2>1
  <2>5. DOMAIN order = 1..6 /\ \A i \in 1..6 : order[i] \in 1..6
    BY <2>1
  <2> QED BY <2>3, <2>4, <2>5, SequenceOverItself DEF Range
<1>6. f.name # "aios" => BinaryOrder(f) = TextOrder(f)
  BY DEF BinaryOrder, TextOrder
<1> QED BY <1>1, <1>2, <1>3, <1>4, <1>5, <1>6

\* A measurement has what it is, its IO and its extensions, and these are metadata.
LEMMA OnlySensor ==
  ASSUME NEW f \in {Aios, Ess, Imds}, NEW row, Row(row), Len(row) = 2 + Len(f.defaults),
         NEW refs, \A k \in 1..(Len(row) - 2) : Range(Flexible(row[2 + k])) \subseteq refs,
         NEW kind, Only(kind, refs), NEW ref, kind # << >> => Only(ref, refs),
         NEW order \in {BinaryOrder(f), TextOrder(f)}, NEW ids
  PROVE  Only(SensorWords(f, row, kind, ref, order, ids), refs)
<1> DEFINE more == [i \in DOMAIN order |-> Extension(f, row, order[i], ids)]
<1>1. /\ IsSequence(f.defaults) /\ \A k \in DOMAIN f.defaults : f.defaults[k] \in Nat
      /\ IsSequence(order) /\ Range(order) \subseteq DOMAIN f.defaults
      /\ DOMAIN f.defaults \subseteq Nat \ {0} /\ IsFiniteSet(DOMAIN f.defaults)
  BY OrdersOfExtensions
<1>2. Len(f.defaults) \in Nat /\ DOMAIN f.defaults = 1..Len(f.defaults) /\ DOMAIN row = 1..Len(row)
  BY <1>1, LenProperties DEF IsSequence, Row
<1>3. ASSUME NEW k \in DOMAIN f.defaults
      PROVE  Only(Extension(f, row, k, ids), refs)
  <2> DEFINE cell == row[2 + k]
             n == f.defaults[k]
             word == ExtensionWord(cell, ids)
  <2>1. 2 + k \in DOMAIN row /\ k \in 1..(Len(row) - 2) /\ k \in Int /\ n \in Nat
    BY <1>1, <1>2
  <2>2. cell \in Range(row)
    BY <2>1 DEF Range
  <2>3. Range(Flexible(cell)) \subseteq refs /\ (cell.how = "number" => cell.of \in Int)
    BY <2>1, <2>2 DEF Row
  <2> HIDE DEF cell
  <2>4. word \in Int \cup refs
    BY <2>3, OnlyFlexible
  <2> HIDE DEF word, n
  <2>5. Only(Repeat(word, n), refs) /\ Only(<< >>, refs)
    BY <2>1, <2>4, OnlyJoined
  <2>6. Only(<<k + 256 * n>>, refs)
    <3>1. k + 256 * n \in Int
      BY <2>1
    <3> QED BY <3>1, OnlyJoined
  <2>7. Only(<<k + 256 * n>> \o Repeat(word, n), refs)
    BY <2>5, <2>6, OnlyJoined
  <2> QED BY <2>5, <2>7 DEF Extension, cell, word, n
<1>4. Only(FlattenSeq(more), refs)
  <2>1. IsSequence(more) /\ DOMAIN more = DOMAIN order
    BY <1>1, MappedIsSequence
  <2>2. \A i \in DOMAIN more : Only(more[i], refs)
    <3>1. \A i \in DOMAIN order : order[i] \in DOMAIN f.defaults
      BY <1>1 DEF Range
    <3> QED BY <1>3, <3>1
  <2> HIDE DEF more
  <2> QED BY <2>1, <2>2, OnlyFlat
<1>5. Only(<<Extensions(f, row)>>, refs)
  <2>1. IsFiniteSet({k \in DOMAIN f.defaults : Present(row[2 + k])})
    BY <1>1, FS_Subset
  <2>2. Extensions(f, row) \in Int
    BY <2>1, FS_CardinalityType DEF Extensions
  <2> QED BY <2>2, OnlyJoined
<1>6. CASE kind = << >> \/ ref = << >>
  BY <1>6, OnlyJoined DEF SensorWords
<1>7. CASE kind # << >> /\ ref # << >>
  <2>1. SensorWords(f, row, kind, ref, order, ids) = kind \o ref \o <<Extensions(f, row)>> \o FlattenSeq(more)
    BY <1>7 DEF SensorWords
  <2> HIDE DEF more
  <2>2. Only(kind \o ref, refs)
    BY <1>7, OnlyJoined
  <2>3. Only((kind \o ref) \o <<Extensions(f, row)>>, refs)
    BY <1>5, <2>2, OnlyJoined
  <2>4. Only(((kind \o ref) \o <<Extensions(f, row)>>) \o FlattenSeq(more), refs)
    BY <1>4, <2>3, OnlyJoined
  <2> QED BY <2>1, <2>4
<1> QED BY <1>6, <1>7

\* What a back end may show of a nimble: what reports show, metadata, and the rest.
Shown(how) == NimbleBindings(config) \cup Metadata \cup Unlisted(how)
Entered == {Aios, Ess, Imds, Ots, Custom}

LEMMA ServicesNamed ==
  /\ Bas.name = "bas" /\ Aios.name = "aios" /\ Ess.name = "ess" /\ Imds.name = "imds"
  /\ Ots.name = "ots" /\ Custom.name = "custom" /\ Dis.name = "dis"
BY DEF Bas, Aios, Ess, Imds, Ots, Custom, Dis, Service, Field

LEMMA RowsOfServices ==
  ASSUME obj \in ProtocolEntry, obj.type = "nimble", NEW f \in Entered \cup {Bas},
         NEW row \in Range(ServiceRows(f, config)), row # << >>
  PROVE  /\ Row(row) /\ DOMAIN row = 1..Len(row) /\ Len(row) \in Nat \ {0}
         /\ ReportedOf(f, row) \subseteq NimbleBindings(config)
         /\ f \in {Aios, Ess, Imds} =>
              /\ Len(row) = 2 + Len(f.defaults)
              /\ \A k \in 1..(Len(row) - 2) : Range(Flexible(row[2 + k])) \subseteq Metadata
         /\ f = Ots => Len(row) = 4
<1>1. \A key : Table(Value(config, key))
  BY ProtocolAssumption, ValueIsTable DEF Given, config
<1>2. row \in Range(Value(config, f.name).rows)
  <2>1. Range(<< >>) = {}
    BY DEF Range
  <2> QED BY <2>1 DEF ServiceRows
<1>3. Row(row)
  BY <1>1, <1>2 DEF Table
<1>4. DOMAIN row = 1..Len(row) /\ Len(row) \in Nat \ {0}
  <2>1. IsSequence(row)
    BY <1>3, SequenceOverItself DEF Row
  <2>2. 1 \in DOMAIN row /\ Len(row) \in Nat /\ DOMAIN row = 1..Len(row)
    BY <2>1, TailIsSequence, LenProperties DEF IsSequence
  <2> QED BY <2>2
<1>5. ReportedOf(f, row) \subseteq NimbleBindings(config)
  BY DEF NimbleBindings, Entered
<1>6. f \in {Aios, Ess, Imds} => Len(row) = 2 + Len(f.defaults)
  <2>1. f \in {Aios, Ess, Imds} => f # Ots /\ f \in {Aios, Ess, Imds, Ots}
    BY ServicesNamed
  <2> QED BY <2>1, ProtocolAssumption DEF config
<1>7. f = Ots => Len(row) = 4
  BY ProtocolAssumption DEF config
<1>8. ASSUME f \in {Aios, Ess, Imds}
      PROVE  \A k \in 1..(Len(row) - 2) : Range(Flexible(row[2 + k])) \subseteq Metadata
  <2>1. f.name \in Sensing
    BY <1>8, ServicesNamed DEF Sensing
  <2> QED BY <1>2, <2>1 DEF Metadata
<1> QED BY <1>3, <1>4, <1>5, <1>6, <1>7, <1>8

\* The number of a cell, and of a value.
LEMMA NumbersAreInt ==
  ASSUME NEW d \in Int
  PROVE  /\ \A row : Row(row) => \A i \in DOMAIN row : Number(row[i], d) \in Int
         /\ \A v : Table(v) /\ << >> \notin Range(v.rows) => Numeral(v, 1, d) \in Int
<1>1. ASSUME NEW row, Row(row), NEW i \in DOMAIN row
      PROVE  Number(row[i], d) \in Int
  <2>1. row[i] \in Range(row)
    BY DEF Range
  <2> QED BY <1>1, <2>1 DEF Row, Number
<1>2. ASSUME NEW v, Table(v), << >> \notin Range(v.rows)
      PROVE  Numeral(v, 1, d) \in Int
  <2>1. CASE 1 \in DOMAIN v.rows
    <3>1. v.rows[1] \in Range(v.rows)
      BY <2>1 DEF Range
    <3>2. Row(v.rows[1]) /\ v.rows[1] # << >>
      BY <1>2, <3>1 DEF Table
    <3>3. 1 \in DOMAIN v.rows[1]
      BY <3>2, SequenceOverItself, TailIsSequence DEF Row
    <3> QED BY <1>1, <2>1, <3>2, <3>3 DEF Numeral
  <2>2. CASE 1 \notin DOMAIN v.rows
    BY <2>2 DEF Numeral
  <2> QED BY <2>1, <2>2
<1> QED BY <1>1, <1>2

\* A measurement: the text shows a group of aios that has a type, the binary one with a key of
\* the header.
LEMMA SensorShown ==
  ASSUME obj \in ProtocolEntry, obj.type = "nimble", NEW f \in {Aios, Ess, Imds},
         NEW row \in Range(ServiceRows(f, config)), row # << >>
  PROVE  /\ Only(SensorWords(f, row, TextKind(f, row[1]), TextRef(f, row[2]), TextOrder(f), Ref),
                 Shown("type"))
         /\ \A ids : Only(SensorWords(f, row, BinaryKind(f, row[1]), BinaryRef(row[2], ids),
                                      BinaryOrder(f), ids), Shown("key"))
<1>1. /\ Row(row) /\ Len(row) = 2 + Len(f.defaults) /\ DOMAIN row = 1..Len(row)
      /\ ReportedOf(f, row) \subseteq NimbleBindings(config)
      /\ \A k \in 1..(Len(row) - 2) : Range(Flexible(row[2 + k])) \subseteq Metadata
  BY RowsOfServices DEF Entered
<1>2. \A how : /\ NimbleBindings(config) \subseteq Shown(how) /\ Metadata \subseteq Shown(how)
               /\ Unlisted(how) \subseteq Shown(how)
  BY DEF Shown
<1>3. \A t \in DOMAIN Tokens(f) : Tokens(f)[t] \in Int
  BY NimbleAssumption DEF Tokens
<1>4. ASSUME NEW kind, NEW how, kind = << >> \/ \E e \in Int : kind = <<e>>
      PROVE  Only(kind, Shown(how))
  <2>1. Only(<< >>, Shown(how)) /\ \A e \in Int \cup Shown(how) : Only(<<e>>, Shown(how))
    BY OnlyJoined
  <2> QED BY <1>4, <2>1
<1>5. Only(BinaryKind(f, row[1]), Shown("key"))
  <2>1. BinaryKind(f, row[1]) = << >> \/ \E e \in Int : BinaryKind(f, row[1]) = <<e>>
    BY <1>3 DEF BinaryKind
  <2> QED BY <1>4, <2>1
<1>6. Only(TextKind(f, row[1]), Shown("type"))
  <2>0. SUFFICES TextKind(f, row[1]) = << >> \/ \E e \in Int : TextKind(f, row[1]) = <<e>>
    BY <1>4
  <2>1. CASE f.name = "aios"
    <3>1. f = Aios
      BY <2>1, ServicesNamed
    <3>2. Tokens(f) = AiosToken
      BY <2>1 DEF Tokens
    <3>3. row[1].how = "type" => row[1].of \in DOMAIN AiosToken
      BY <3>1, ProtocolAssumption DEF config
    <3>4. row[1].of \in DOMAIN GroupField => GroupField[row[1].of] \in DOMAIN AiosToken
      BY NimbleAssumption DEF GroupField
    <3> QED BY <1>3, <2>1, <3>2, <3>3, <3>4 DEF TextKind
  <2>2. CASE f.name # "aios"
    <3> DEFINE named == {t \in DOMAIN Tokens(f) : SensorName(t) = row[1].of}
    <3>1. named # {} => Tokens(f)[CHOOSE t \in named : TRUE] \in Int
      BY <1>3
    <3> QED BY <2>2, <3>1 DEF TextKind
  <2> QED BY <2>1, <2>2
<1>7. ASSUME TextKind(f, row[1]) # << >>
      PROVE  Range(Flexible(row[2])) \subseteq Shown("type")
  <2>1. CASE f = Aios
    <3>1. f.name = "aios"
      BY <2>1, ServicesNamed
    <3>2. row[1].how = "type" \/ (row[1].how = "key" /\ row[1].of \in DOMAIN GroupField)
      BY <1>7, <3>1 DEF TextKind
    <3>3. CASE row[1].how = "type"
      <4>1. Range(Flexible(row[2])) \subseteq Unlisted("type")
        BY <2>1, <3>3 DEF Unlisted
      <4> QED BY <1>2, <4>1
    <3>4. CASE row[1].how = "key" /\ row[1].of \in DOMAIN GroupField
      <4>1. ReportedOf(f, row) = Range(Flexible(row[2]))
        BY <3>1, <3>4 DEF ReportedOf
      <4> QED BY <1>1, <1>2, <4>1
    <3> QED BY <3>2, <3>3, <3>4
  <2>2. CASE f \in {Ess, Imds}
    <3>1. ReportedOf(f, row) = Range(Flexible(row[2]))
      BY <2>2, ServicesNamed DEF ReportedOf
    <3> QED BY <1>1, <1>2, <3>1
  <2> QED BY <2>1, <2>2
<1>8. ASSUME BinaryKind(f, row[1]) # << >>
      PROVE  Range(Flexible(row[2])) \subseteq Shown("key")
  <2>1. CASE f = Aios
    <3>1. f.name = "aios" /\ row[1].how = "key"
      BY <1>8, <2>1, ServicesNamed DEF BinaryKind
    <3>2. CASE row[1].of \notin DOMAIN GroupField
      <4>1. Range(Flexible(row[2])) \subseteq Unlisted("key")
        BY <2>1, <3>1, <3>2 DEF Unlisted
      <4> QED BY <1>2, <4>1
    <3>3. CASE row[1].of \in DOMAIN GroupField
      <4>1. ReportedOf(f, row) = Range(Flexible(row[2]))
        BY <3>1, <3>3 DEF ReportedOf
      <4> QED BY <1>1, <1>2, <4>1
    <3> QED BY <3>2, <3>3
  <2>2. CASE f \in {Ess, Imds}
    <3>1. ReportedOf(f, row) = Range(Flexible(row[2]))
      BY <2>2, ServicesNamed DEF ReportedOf
    <3> QED BY <1>1, <1>2, <3>1
  <2> QED BY <2>1, <2>2
<1>9. \A how : \A k \in 1..(Len(row) - 2) : Range(Flexible(row[2 + k])) \subseteq Shown(how)
  BY <1>1, <1>2
<1>10. TextKind(f, row[1]) # << >> => Only(TextRef(f, row[2]), Shown("type"))
  BY <1>7, OnlyFlexible
<1>11. \A ids : BinaryKind(f, row[1]) # << >> => Only(BinaryRef(row[2], ids), Shown("key"))
  BY <1>8, OnlyFlexible
<1> HIDE DEF Shown
<1>12. ASSUME NEW ids
       PROVE  Only(SensorWords(f, row, BinaryKind(f, row[1]), BinaryRef(row[2], ids),
                               BinaryOrder(f), ids), Shown("key"))
  BY <1>1, <1>5, <1>9, <1>11, OnlySensor
<1>13. Only(SensorWords(f, row, TextKind(f, row[1]), TextRef(f, row[2]), TextOrder(f), Ref),
            Shown("type"))
  BY <1>1, <1>6, <1>9, <1>10, OnlySensor
<1> QED BY <1>12, <1>13

\* An object of ots, and a custom service.
LEMMA OtsShown ==
  ASSUME obj \in ProtocolEntry, obj.type = "nimble",
         NEW row \in Range(ServiceRows(Ots, config)), row # << >>, NEW how
  PROVE  /\ Only(ObjectOfOts(row, TextRef(Ots, row[1])), Shown(how))
         /\ \A ids : Only(ObjectOfOts(row, BinaryRef(row[1], ids)), Shown(how))
<1> DEFINE refs == Shown(how)
<1>1. /\ Row(row) /\ Len(row) = 4 /\ DOMAIN row = 1..Len(row)
      /\ ReportedOf(Ots, row) \subseteq NimbleBindings(config)
  BY RowsOfServices DEF Entered
<1>2. ReportedOf(Ots, row) = Range(Flexible(row[1]))
  BY ServicesNamed DEF ReportedOf
<1>3. Range(Flexible(row[1])) \subseteq refs
  BY <1>1, <1>2 DEF Shown
<1> HIDE DEF refs
<1>4. ASSUME NEW ref, Only(ref, refs)
      PROVE  Only(ObjectOfOts(row, ref), refs)
  <2> DEFINE a == Number(row[3], 0) + 16 * Number(row[4], 2)
             b == Number(row[2], 0)
  <2>1. a \in Int /\ b \in Int
    <3>1. \A i \in 1..4 : Number(row[i], 0) \in Int /\ Number(row[i], 2) \in Int
      BY <1>1, NumbersAreInt
    <3> QED BY <3>1
  <2>2. ObjectOfOts(row, ref) = IF ref = << >> THEN << >> ELSE <<a>> \o Repeat(b, 4) \o ref
    BY DEF ObjectOfOts
  <2> HIDE DEF a, b
  <2>3. Only(<<a>>, refs) /\ Only(Repeat(b, 4), refs) /\ Only(<< >>, refs)
    BY <2>1, OnlyJoined
  <2>4. Only(<<a>> \o Repeat(b, 4), refs)
    BY <2>3, OnlyJoined
  <2>5. Only((<<a>> \o Repeat(b, 4)) \o ref, refs)
    BY <1>4, <2>4, OnlyJoined
  <2> QED BY <2>2, <2>3, <2>5
<1> QED BY <1>3, <1>4, OnlyFlexible DEF refs

LEMMA CustomShown ==
  ASSUME obj \in ProtocolEntry, obj.type = "nimble",
         NEW row \in Range(ServiceRows(Custom, config)), row # << >>, NEW how
  PROVE  /\ Only(CustomWords(row, [c \in CharacteristicsOf(row) |-> TextRef(Custom, row[3 * c - 1])]),
                 Shown(how))
         /\ \A ids : Only(CustomWords(row, [c \in CharacteristicsOf(row) |-> BinaryRef(row[3 * c - 1], ids)]),
                          Shown(how))
<1> DEFINE refs == Shown(how)
           n == (Len(row) - 1) \div 3
<1>1. /\ Row(row) /\ DOMAIN row = 1..Len(row) /\ Len(row) \in Nat \ {0}
      /\ ReportedOf(Custom, row) \subseteq NimbleBindings(config)
  BY RowsOfServices DEF Entered
<1>2. ReportedOf(Custom, row) = UNION {Range(Flexible(row[3 * c - 1])) : c \in CharacteristicsOf(row)}
  BY ServicesNamed DEF ReportedOf
<1>3. \A c \in CharacteristicsOf(row) : Range(Flexible(row[3 * c - 1])) \subseteq refs
  BY <1>1, <1>2 DEF Shown
<1>4. row \in Range(Value(config, "custom").rows)
  BY ServicesNamed DEF ServiceRows
<1>5. \A i \in DOMAIN row : i % 3 # 2 => row[i].of \in Int
  BY <1>4, ProtocolAssumption DEF config
<1>6. n \in Nat /\ CharacteristicsOf(row) = 1..n
      /\ \A c \in 1..n : /\ 3 * c \in DOMAIN row /\ (3 * c) % 3 # 2
                         /\ 3 * c + 1 \in DOMAIN row
  BY <1>1 DEF CharacteristicsOf
<1> HIDE DEF refs, n
<1>7. ASSUME NEW ref, ref = [c \in CharacteristicsOf(row) |-> ref[c]],
             \A c \in CharacteristicsOf(row) : Only(ref[c], refs)
      PROVE  Only(CustomWords(row, ref), refs)
  <2> DEFINE seqs == [i \in DOMAIN ref |-> Characteristic(row, i, ref[i])]
             chars == FlattenSeq(seqs)
  <2>1. DOMAIN seqs = 1..n /\ seqs = [i \in 1..n |-> seqs[i]]
    BY <1>6, <1>7
  <2>2. IsSequence(seqs)
    <3> HIDE DEF seqs
    <3>1. seqs \in [1..n -> {seqs[i] : i \in 1..n}]
      BY <2>1
    <3>2. seqs \in Seq({seqs[i] : i \in 1..n})
      BY <1>6, <3>1, SeqDef
    <3> QED BY <3>2, SequenceOverItself
  <2>3. ASSUME NEW c \in 1..n
        PROVE  Only(seqs[c], refs)
    <3> DEFINE a == Number(row[3 * c + 1], 0)
               b == row[3 * c].of
    <3>1. a \in Int /\ b \in Int
      BY <1>1, <1>5, <1>6, NumbersAreInt
    <3>2. seqs[c] = IF ref[c] = << >> \/ row[3 * c].how = "missing" THEN << >>
                    ELSE <<a>> \o Repeat(b, 4) \o ref[c]
      BY <1>6, <1>7 DEF Characteristic
    <3> HIDE DEF a, b, seqs
    <3>3. Only(<<a>>, refs) /\ Only(Repeat(b, 4), refs) /\ Only(<< >>, refs) /\ Only(ref[c], refs)
      BY <1>6, <1>7, <3>1, OnlyJoined
    <3>4. Only(<<a>> \o Repeat(b, 4), refs)
      BY <3>3, OnlyJoined
    <3>5. Only((<<a>> \o Repeat(b, 4)) \o ref[c], refs)
      BY <3>3, <3>4, OnlyJoined
    <3> QED BY <3>2, <3>3, <3>5
  <2>4. Only(chars, refs) /\ Len(chars) \in Nat
    <3> HIDE DEF seqs
    <3>1. Only(chars, refs)
      BY <2>1, <2>2, <2>3, OnlyFlat
    <3> QED BY <3>1, SequenceOverItself DEF Only, IsSequence
  <2>5. CustomWords(row, ref) =
          IF row[1].how = "missing" \/ chars = << >> THEN << >>
          ELSE <<Len(chars) \div 6, 0, 0>> \o Repeat(row[1].of, 4) \o chars
    BY DEF CustomWords
  <2> HIDE DEF chars
  <2>6. Only(<<Len(chars) \div 6, 0, 0>>, refs)
    <3>1. Len(chars) \div 6 \in Int
      BY <2>4
    <3> QED BY <3>1, TripleIsSequence DEF Only
  <2>7. row[1].of \in Int
    <3>1. 1 \in DOMAIN row /\ 1 % 3 # 2
      BY <1>1
    <3> QED BY <1>5, <3>1
  <2>8. Only(Repeat(row[1].of, 4), refs) /\ Only(<< >>, refs)
    BY <2>7, OnlyJoined
  <2>9. Only(<<Len(chars) \div 6, 0, 0>> \o Repeat(row[1].of, 4), refs)
    BY <2>6, <2>8, OnlyJoined
  <2>10. Only((<<Len(chars) \div 6, 0, 0>> \o Repeat(row[1].of, 4)) \o chars, refs)
    BY <2>4, <2>9, OnlyJoined
  <2> QED BY <2>5, <2>8, <2>10
<1>8. Only(CustomWords(row, [c \in CharacteristicsOf(row) |-> TextRef(Custom, row[3 * c - 1])]), refs)
  <2> DEFINE ref == [c \in CharacteristicsOf(row) |-> TextRef(Custom, row[3 * c - 1])]
  <2>1. \A c \in CharacteristicsOf(row) : Only(ref[c], refs)
    BY <1>3, OnlyFlexible
  <2>2. ref = [c \in CharacteristicsOf(row) |-> ref[c]]
    OBVIOUS
  <2> HIDE DEF ref
  <2>3. Only(CustomWords(row, ref), refs)
    BY <1>7, <2>1, <2>2
  <2> QED BY <2>3 DEF ref
<1>9. ASSUME NEW ids
      PROVE  Only(CustomWords(row, [c \in CharacteristicsOf(row) |-> BinaryRef(row[3 * c - 1], ids)]), refs)
  <2> DEFINE ref == [c \in CharacteristicsOf(row) |-> BinaryRef(row[3 * c - 1], ids)]
  <2>1. \A c \in CharacteristicsOf(row) : Only(ref[c], refs)
    BY <1>3, OnlyFlexible
  <2>2. ref = [c \in CharacteristicsOf(row) |-> ref[c]]
    OBVIOUS
  <2> HIDE DEF ref
  <2>3. Only(CustomWords(row, ref), refs)
    BY <1>7, <2>1, <2>2
  <2> QED BY <2>3 DEF ref
<1> QED BY <1>8, <1>9 DEF refs

\* Each entry of each service.
LEMMA EntriesShown ==
  ASSUME obj \in ProtocolEntry, obj.type = "nimble", NEW f \in Entered
  PROVE  /\ IsSequence(TextEntries(f, config)) /\ \A ids : IsSequence(BinaryEntries(f, config, ids))
         /\ \A i \in DOMAIN TextEntries(f, config) : Only(TextEntries(f, config)[i], Shown("type"))
         /\ \A ids : \A i \in DOMAIN BinaryEntries(f, config, ids) :
              Only(BinaryEntries(f, config, ids)[i], Shown("key"))
<1> DEFINE rows == ServiceRows(f, config)
<1>1. IsSequence(rows)
  BY EntryShape DEF config
<1>2. IsSequence(TextEntries(f, config)) /\ \A ids : IsSequence(BinaryEntries(f, config, ids))
  BY <1>1, MappedIsSequence DEF TextEntries, BinaryEntries
<1>3. \A how : Only(<< >>, Shown(how))
  BY OnlyJoined
<1>4. ASSUME NEW i \in DOMAIN rows
      PROVE  /\ Only(TextEntries(f, config)[i], Shown("type"))
             /\ \A ids : Only(BinaryEntries(f, config, ids)[i], Shown("key"))
  <2>1. rows[i] \in Range(rows)
    BY DEF Range
  <2>2. CASE rows[i] = << >>
    BY <1>3, <2>2 DEF TextEntries, BinaryEntries
  <2>3. CASE rows[i] # << >> /\ f \in {Aios, Ess, Imds}
    <3>1. f.name \in Sensing /\ f.name # "ots"
      BY <2>3, ServicesNamed DEF Sensing
    <3>2. TextEntries(f, config)[i] =
            SensorWords(f, rows[i], TextKind(f, rows[i][1]), TextRef(f, rows[i][2]), TextOrder(f), Ref)
      BY <2>3, <3>1 DEF TextEntries
    <3>3. \A ids : BinaryEntries(f, config, ids)[i] =
            SensorWords(f, rows[i], BinaryKind(f, rows[i][1]), BinaryRef(rows[i][2], ids),
                        BinaryOrder(f), ids)
      BY <2>3, <3>1 DEF BinaryEntries
    <3> QED BY <2>1, <2>3, <3>2, <3>3, SensorShown
  <2>4. CASE rows[i] # << >> /\ f = Ots
    <3>1. f.name = "ots" /\ f.name \notin Sensing
      BY <2>4, ServicesNamed DEF Sensing
    <3> QED BY <2>1, <2>4, <3>1, OtsShown DEF TextEntries, BinaryEntries
  <2>5. CASE rows[i] # << >> /\ f = Custom
    <3>1. f.name # "ots" /\ f.name \notin Sensing
      BY <2>5, ServicesNamed DEF Sensing
    <3> QED BY <2>1, <2>5, <3>1, CustomShown DEF TextEntries, BinaryEntries
  <2> QED BY <2>2, <2>3, <2>4, <2>5 DEF Entered
<1>5. DOMAIN TextEntries(f, config) = DOMAIN rows /\ \A ids : DOMAIN BinaryEntries(f, config, ids) = DOMAIN rows
  BY DEF TextEntries, BinaryEntries
<1> QED BY <1>2, <1>4, <1>5

\* Each item of each service, and what it lists.
LEMMA ItemsShown ==
  ASSUME NEW refs, NEW f, NEW words, Only(words, refs)
  PROVE  /\ \A item \in Range(ItemsOf(f, words)) : Only(item.words, refs)
         /\ IsSequence(ItemsOf(f, words))
<1>1. Range(<< >>) = {} /\ IsSequence(<< >>)
  BY EmptyIsSequence DEF Range
<1> DEFINE item == Item(f.name, Len(words), words)
<1>2. item.words = words
  BY DEF Item
<1>3. ItemsOf(f, words) = IF words = << >> THEN << >> ELSE <<item>>
  BY DEF ItemsOf
<1> HIDE DEF item
<1> QED BY <1>1, <1>2, <1>3, SingletonIsSequence

LEMMA ListShown ==
  ASSUME NEW refs, NEW entries, IsSequence(entries), \A i \in DOMAIN entries : Only(entries[i], refs),
         NEW flag \in Int
  PROVE  Only(Listed(entries, flag), refs)
<1> DEFINE n == Cardinality({i \in DOMAIN entries : entries[i] # << >>})
<1>1. n \in Int
  <2>1. Len(entries) \in Nat /\ DOMAIN entries = 1..Len(entries)
    BY LenProperties DEF IsSequence
  <2>2. IsFiniteSet(1..Len(entries))
    BY <2>1, FS_Interval
  <2>3. IsFiniteSet({i \in DOMAIN entries : entries[i] # << >>})
    BY <2>1, <2>2, FS_Subset
  <2> QED BY <2>3, FS_CardinalityType
<1>2. Listed(entries, flag) = <<n, flag, 0>> \o FlattenSeq(entries)
  BY DEF Listed
<1> HIDE DEF n
<1>3. Only(<<n, flag, 0>>, refs)
  BY <1>1, TripleIsSequence DEF Only
<1>4. Only(FlattenSeq(entries), refs)
  BY OnlyFlat
<1>5. Only(<<n, flag, 0>> \o FlattenSeq(entries), refs)
  BY <1>3, <1>4, OnlyJoined
<1> QED BY <1>2, <1>5

LEMMA AllItemsShown ==
  ASSUME NEW refs, NEW f, NEW entries, IsSequence(entries),
         \A i \in DOMAIN entries : Only(entries[i], refs)
  PROVE  \A item \in Range(FlattenSeq([i \in DOMAIN entries |-> ItemsOf(f, entries[i])])) :
           Only(item.words, refs)
<1> DEFINE items == [i \in DOMAIN entries |-> ItemsOf(f, entries[i])]
<1>1. IsSequence(items) /\ DOMAIN items = DOMAIN entries
  BY MappedIsSequence
<1>2. \A i \in DOMAIN items : /\ IsSequence(items[i])
                              /\ \A item \in Range(items[i]) : Only(item.words, refs)
  BY <1>1, ItemsShown
<1> HIDE DEF items
<1>3. Range(FlattenSeq(items)) = UNION {Range(items[i]) : i \in DOMAIN items}
  BY <1>1, <1>2, FlattenIsSequence
<1>4. \A item \in Range(FlattenSeq(items)) : Only(item.words, refs)
  BY <1>2, <1>3
<1> QED BY <1>4 DEF items

\* The services without entries: the name, the one that is empty, and the battery.
LEMMA PlainServicesShown ==
  ASSUME obj \in ProtocolEntry, obj.type = "nimble", NEW f \in {Option("gap_name"), Dis}, NEW refs, NEW ids
  PROVE  \A item \in Range(EncodeService(f, config, ids)) : Only(item.words, refs)
<1>1. Range(<< >>) = {}
  BY DEF Range
<1>2. CASE f = Dis
  <2> DEFINE item == Item("dis", 0, << >>)
  <2>1. f.name = "dis"
    BY <1>2, ServicesNamed
  <2>2. EncodeService(f, config, ids) = IF Given(config, "dis") THEN <<item>> ELSE << >>
    BY <2>1 DEF EncodeService
  <2>3. item.words = << >>
    BY DEF Item
  <2> HIDE DEF item
  <2> QED BY <1>1, <2>2, <2>3, SingletonIsSequence, OnlyJoined
<1>3. CASE f = Option("gap_name")
  <2> DEFINE words == ProtocolWords(f, config, ids)
             item == Item(f.name, Len(words), words)
             number == Numeral(Value(config, "gap_name"), 1, 0)
  <2>1. f.name = "gap_name" /\ f.shape = "option"
    BY <1>3 DEF Option, Field
  <2>2. words = IF Given(config, "gap_name") THEN <<number>> ELSE << >>
    BY <2>1 DEF ProtocolWords
  <2>3. number \in Int
    <3>1. Table(Value(config, "gap_name"))
      BY ProtocolAssumption, ValueIsTable DEF Given, config
    <3>2. << >> \notin Range(Value(config, "gap_name").rows)
      <4>1. Given(config, "gap_name") => << >> \notin Range(config["gap_name"].rows)
        BY ProtocolAssumption DEF Given, config
      <4> QED BY <1>1, <4>1 DEF Value, Absent
    <3> QED BY <3>1, <3>2, NumbersAreInt
  <2> HIDE DEF number
  <2>4. Only(words, refs)
    <3>1. Only(<<number>>, refs) /\ Only(<< >>, refs)
      BY <2>3, OnlyJoined
    <3> QED BY <2>2, <3>1
  <2>5. EncodeService(f, config, ids) = IF words = << >> THEN << >> ELSE <<item>>
    BY <2>1 DEF EncodeService, EncodeProtocolField
  <2>6. item.words = words
    BY DEF Item
  <2> HIDE DEF item, words
  <2> QED BY <1>1, <2>4, <2>5, <2>6, SingletonIsSequence
<1> QED BY <1>2, <1>3

LEMMA BatteryShown ==
  ASSUME obj \in ProtocolEntry, obj.type = "nimble", NEW how, ~NoMapping(Bas, config)
  PROVE  /\ \A ids : \A item \in Range(EncodeService(Bas, config, ids)) : Only(item.words, Shown(how))
         /\ \A item \in Range(GenerateService(Bas, config)) : Only(item.words, Shown(how))
<1> DEFINE cell == config["bas"].rows[1][1]
<1>0. Bas.name = "bas" /\ Range(<< >>) = {}
  BY ServicesNamed DEF Range
<1>1. CASE ~Given(config, "bas")
  BY <1>0, <1>1 DEF EncodeService, GenerateService, Sensing
<1>2. CASE Given(config, "bas")
  <2>1. ~config["bas"].list /\ Len(config["bas"].rows) = 1 /\ Len(config["bas"].rows[1]) = 1
    BY <1>0, <1>2, ProtocolAssumption DEF NoMapping, Value, Given, config
  <2>2. Table(config["bas"])
    BY <1>2, ProtocolAssumption DEF Given, config
  <2>3. config["bas"].rows[1] \in Range(config["bas"].rows)
    <3>1. 1 \in DOMAIN config["bas"].rows
      BY <2>1, <2>2, LenProperties DEF Table
    <3> QED BY <3>1 DEF Range
  <2>4. Row(config["bas"].rows[1])
    BY <2>2, <2>3 DEF Table
  <2>5. config["bas"].rows[1] # << >> /\ cell \in Range(config["bas"].rows[1])
    <3>1. 1 \in DOMAIN config["bas"].rows[1]
      BY <2>1, <2>4, LenProperties DEF Row
    <3> QED BY <2>1, <3>1, EmptyIsSequence DEF Range
  <2>6. cell.how = "number" => cell.of \in Int
    BY <2>4, <2>5 DEF Row
  <2>7. Range(Flexible(cell)) \subseteq Shown(how)
    <3>1. config["bas"].rows[1] \in Range(ServiceRows(Bas, config))
      BY <1>0, <1>2, <2>1, <2>3 DEF ServiceRows, NoMapping, Value
    <3>2. ReportedOf(Bas, config["bas"].rows[1]) \subseteq NimbleBindings(config)
      BY <3>1 DEF NimbleBindings
    <3>3. ReportedOf(Bas, config["bas"].rows[1]) = Range(Flexible(cell))
      BY <1>0, <2>5 DEF ReportedOf
    <3> QED BY <3>2, <3>3 DEF Shown
  <2> HIDE DEF cell
  <2>8. ASSUME NEW ids
        PROVE  \A item \in Range(EncodeService(Bas, config, ids)) : Only(item.words, Shown(how))
    <3> DEFINE word == ExtensionWord(cell, ids)
               item == Item("bas", 1, <<word>>)
    <3>1. EncodeService(Bas, config, ids) = <<item>>
      BY <1>0, <1>2, <2>1 DEF EncodeService, NoMapping, Value, Sensing, cell
    <3>2. word \in Int \cup Shown(how)
      BY <2>6, <2>7, OnlyFlexible
    <3>3. item.words = <<word>>
      BY DEF Item
    <3> HIDE DEF item, word
    <3>4. Only(<<word>>, Shown(how))
      BY <3>2, OnlyJoined
    <3> QED BY <3>1, <3>3, <3>4, SingletonIsSequence
  <2>9. \A item \in Range(GenerateService(Bas, config)) : Only(item.words, Shown(how))
    <3> DEFINE words == TextRef(Bas, cell)
               item == Item("bas", 1, words)
    <3>1. GenerateService(Bas, config) = <<item>>
      BY <1>0, <1>2 DEF GenerateService, cell
    <3>2. Only(words, Shown(how))
      BY <2>7, OnlyFlexible
    <3>3. item.words = words
      BY DEF Item
    <3> HIDE DEF item, words
    <3> QED BY <3>1, <3>2, <3>3, SingletonIsSequence
  <2> QED BY <2>8, <2>9
<1> QED BY <1>1, <1>2

\* The images of a nimble refer to what reports show, and to what these leave out.
LEMMA ServicesShown ==
  ASSUME obj \in ProtocolEntry, obj.type = "nimble", NEW f \in Services
  PROVE  /\ \A ids : \A item \in Range(EncodeService(f, config, ids)) : Only(item.words, Shown("key"))
         /\ ~ServiceRaises(f, config) =>
              \A item \in Range(GenerateService(f, config)) : Only(item.words, Shown("type"))
<1>0. Range(<< >>) = {}
  BY DEF Range
<1>1. CASE f \in {Option("gap_name"), Dis}
  <2>1. f.name \in {"gap_name", "dis"}
    BY <1>1 DEF Option, Dis, Service, Field
  <2>2. GenerateService(f, config) = EncodeService(f, config, Ref)
    BY <2>1 DEF GenerateService
  <2> QED BY <1>1, <2>2, PlainServicesShown
<1>2. CASE f = Bas
  <2>1. NoMapping(f, config) => ServiceRaises(f, config) /\ \A ids : EncodeService(f, config, ids) = << >>
    BY <1>2, ServicesNamed DEF ServiceRaises, EncodeService
  <2> QED BY <1>0, <1>2, <2>1, BatteryShown
<1>3. CASE f \in Entered
  <2> DEFINE texts == TextEntries(f, config)
             bins(ids) == BinaryEntries(f, config, ids)
             flag == Aggregate(f, config)
  <2>1. /\ IsSequence(texts) /\ \A ids : IsSequence(bins(ids))
        /\ \A i \in DOMAIN texts : Only(texts[i], Shown("type"))
        /\ \A ids : \A i \in DOMAIN bins(ids) : Only(bins(ids)[i], Shown("key"))
    BY <1>3, EntriesShown
  <2>2. flag \in Int
    <3>1. Table(Value(config, "aggregate"))
      BY ProtocolAssumption, ValueIsTable DEF Given, config
    <3>2. << >> \notin Range(Value(config, "aggregate").rows)
      <4>1. Given(config, "aggregate") => << >> \notin Range(config["aggregate"].rows)
        BY ProtocolAssumption DEF Given, config
      <4> QED BY <1>0, <4>1 DEF Value, Absent
    <3> QED BY <3>1, <3>2, NumbersAreInt DEF Aggregate
  <2>3. f.name \notin {"gap_name", "dis", "bas"}
    BY <1>3, ServicesNamed DEF Entered
  <2> HIDE DEF flag
  <2>4. \A ids : \A item \in Range(EncodeService(f, config, ids)) : Only(item.words, Shown("key"))
    <3> SUFFICES ASSUME NEW ids
                 PROVE  \A item \in Range(EncodeService(f, config, ids)) : Only(item.words, Shown("key"))
      OBVIOUS
    <3> DEFINE entries == bins(ids)
    <3>1. IsSequence(entries) /\ \A i \in DOMAIN entries : Only(entries[i], Shown("key"))
      BY <2>1
    <3>2. EncodeService(f, config, ids) \in
            {<< >>, ItemsOf(f, Listed(entries, flag)), ItemsOf(f, Listed(entries, 0)),
             FlattenSeq([i \in DOMAIN entries |-> ItemsOf(f, entries[i])])}
      BY <2>3 DEF EncodeService, flag
    <3> HIDE DEF entries
    <3>3. Only(Listed(entries, flag), Shown("key")) /\ Only(Listed(entries, 0), Shown("key"))
      BY <2>2, <3>1, ListShown
    <3>4. /\ \A item \in Range(ItemsOf(f, Listed(entries, flag))) : Only(item.words, Shown("key"))
          /\ \A item \in Range(ItemsOf(f, Listed(entries, 0))) : Only(item.words, Shown("key"))
      BY <3>3, ItemsShown
    <3>5. \A item \in Range(FlattenSeq([i \in DOMAIN entries |-> ItemsOf(f, entries[i])])) :
            Only(item.words, Shown("key"))
      BY <3>1, AllItemsShown
    <3> QED BY <1>0, <3>2, <3>4, <3>5
  <2>5. \A item \in Range(GenerateService(f, config)) : Only(item.words, Shown("type"))
    <3>1. GenerateService(f, config) \in
            {<< >>, ItemsOf(f, Listed(texts, flag)),
             FlattenSeq([i \in DOMAIN texts |-> ItemsOf(f, texts[i])])}
      BY <2>3 DEF GenerateService, flag
    <3> HIDE DEF texts
    <3>2. Only(Listed(texts, flag), Shown("type"))
      BY <2>1, <2>2, ListShown
    <3>3. \A item \in Range(ItemsOf(f, Listed(texts, flag))) : Only(item.words, Shown("type"))
      BY <3>2, ItemsShown
    <3>4. \A item \in Range(FlattenSeq([i \in DOMAIN texts |-> ItemsOf(f, texts[i])])) :
            Only(item.words, Shown("type"))
      BY <2>1, AllItemsShown
    <3> QED BY <1>0, <3>1, <3>3, <3>4
  <2> QED BY <2>4, <2>5
<1> QED BY <1>1, <1>2, <1>3 DEF Services, Entered

LEMMA AllocatedShown ==
  ASSUME NEW f \in {Bas, Aios, Ess, Imds}, NEW row
  PROVE  AllocatedOf(f, row) \subseteq ReportedOf(f, row)
<1>1. \A cell : Range(Resolve(cell)) \subseteq Range(Flexible(cell))
  BY PlainIsFlexible
<1> QED BY <1>1, ServicesNamed DEF AllocatedOf, ReportedOf

LEMMA ReportedRight ==
  ASSUME obj \in ProtocolEntry, obj.kind = "protocol", obj.type = "nimble", Written
  PROVE  ReportedIsBound
<1>1. Ref \cap Int = {} /\ Undeclared \notin Int
  BY HandlersAssumption, WakaamaAssumption
<1>2. handler = Nimble /\ Range(handler.fields) = Services /\ Range(handler.encode) = Services
  <2>1. handler = Nimble
    BY DEF handler, OfKind, OfProtocol, IsProgram
  <2>2. Nimble.encode = Nimble.fields
    BY DEF Nimble, Alike, Differing
  <2> QED BY <2>1, <2>2, OthersNameFields
<1>3. ASSUME NEW item \in Range(text)
      PROVE  Range(item.words) \subseteq Int \cup Shown("type")
  <2>1. PICK f \in Emitted : item \in Range(ItemsFor(f))
    BY DEF Written, Header, IsProgram
  <2>2. f \in Services /\ ~ServiceRaises(f, config)
    BY <1>2, <2>1 DEF Emitted, RaisesAt, OfKind, OfProtocol, IsProgram, config
  <2>3. item \in Range(GenerateService(f, config))
    BY <2>1 DEF ItemsFor, OfKind, OfProtocol, IsProgram, config
  <2> QED BY <2>2, <2>3, ServicesShown DEF Only
<1>4. ASSUME NEW item \in Range(bin)
      PROVE  Range(item.words) \subseteq Int \cup Shown("key")
  <2>1. PICK f \in Services : item \in Range(BinaryFor(f))
    BY <1>2 DEF Written
  <2>2. item \in Range(EncodeService(f, config, known))
    BY <2>1 DEF BinaryFor, OfKind, OfProtocol, IsProgram, config
  <2> QED BY <2>2, ServicesShown DEF Only
<1>5. Mentioned(text) \subseteq Shown("type") /\ Mentioned(bin) \subseteq Shown("key")
  <2>1. \A i \in DOMAIN text : Range(text[i].words) \subseteq Int \cup Shown("type")
    BY <1>3 DEF Range
  <2>2. \A i \in DOMAIN bin : Range(bin[i].words) \subseteq Int \cup Shown("key")
    BY <1>4 DEF Range
  <2> QED BY <1>1, <2>1, <2>2 DEF Mentioned
<1>6. NimbleAllocated(config) \subseteq NimbleBindings(config)
  BY AllocatedShown DEF NimbleAllocated, NimbleBindings
<1> QED BY <1>5, <1>6 DEF ReportedIsBound, Shown

LEMMA ClaimsRight ==
  ASSUME Passing, Written
  PROVE  ClaimsHold
<1>1. obj \in Program \cup ProtocolEntry \cup IoEntry /\ Told
  BY DEF Passing
<1>2. OwnedReached
  <2>1. IsProgram => obj \in Program
    BY <1>1, ProtocolAssumption, IoAssumption DEF IsProgram
  <2> QED BY <1>1, <2>1, OwnedRight DEF OwnedReached
<1>3. ReportedIsBound
  <2>1. obj.kind = "protocol" => obj \in ProtocolEntry
    BY <1>1, ProgramAssumption, IoAssumption
  <2> QED BY <2>1, ReportedRight DEF ReportedIsBound
<1> QED BY <1>2, <1>3 DEF ClaimsHold

\* For any types, configs and defined names, what a program owns is in its images, and what
\* these of a nimble bind is what reports show, but for what they say to leave out.
THEOREM ClaimsAlwaysHold == Spec => []ClaimsHold
<1>1. Passing /\ Written => ClaimsHold
  BY ClaimsRight
<1> QED
  BY <1>1, PassingInit, StepKeepsPassing, WrittenInit, StepKeepsWritten, PTL DEF Spec

-----------------------------------------------------------------------------
(* Types                                                                     *)

\* A field of a program has a default for each number it is read as.
Defaults(s) == IsSequence(s) /\ \A i \in DOMAIN s : s[i] \in Int
Formed(e) ==
  /\ e.refs \in Nat /\ e.fit \in Nat /\ Defaults(e.defaults)
  /\ \/ e.shape \in {"word", "bound", "defaulted"} /\ e.defaults # << >>
     \/ e.shape \in {"pairs", "pair", "single", "chosen", "list", "names", "rows", "binds",
                     "strictbinds", "words", "target", "params"}

LEMMA DefaultsFormed ==
  /\ Defaults(<< >>) /\ Defaults(<<0>>) /\ Defaults(<<1>>)
  /\ Defaults(<<0, 0>>) /\ Defaults(<<0, 1>>) /\ Defaults(<<1, 0>>)
  /\ <<0>> # << >> /\ <<1>> # << >>
<1>1. << >> \in Seq(Int) /\ <<0>> \in Seq(Int) /\ <<1>> \in Seq(Int)
  OBVIOUS
<1>2. <<0, 0>> \in Seq(Int) /\ <<0, 1>> \in Seq(Int) /\ <<1, 0>> \in Seq(Int)
  OBVIOUS
<1>3. \A s \in Seq(Int) : Defaults(s)
  BY SequenceOverItself DEF Defaults
<1> QED BY <1>1, <1>2, <1>3, SingletonIsSequence, EmptyIsSequence

LEMMA FieldsFormed ==
  ASSUME NEW name
  PROVE  /\ Formed(Uint32(name)) /\ Formed(Single(name)) /\ Formed(List(name)) /\ Formed(Bound(name))
         /\ Formed(Chosen(name)) /\ \A fit \in Nat : Formed(Words(name, fit))
         /\ Formed(Rows(name, 1, <<0>>)) /\ Formed(Rows(name, 1, <<1>>)) /\ Formed(Rows(name, 1, <<0, 0>>))
         /\ Formed(Rows(name, 0, <<0, 0>>)) /\ Formed(Binds(name, 4, << >>))
         /\ Formed(Field(name, "params", 0, <<0, 1>>, 0)) /\ Formed(Field(name, "target", 1, <<1, 0>>, 0))
         /\ Formed(Field(name, "defaulted", 0, <<1>>, 0))
         /\ Formed(Field(name, "strictbinds", 2, <<0, 1>>, 0)) /\ Formed(Field(name, "names", 1, << >>, 0))
<1>1. <<0, 0>> # << >> /\ <<0, 1>> # << >> /\ <<1, 0>> # << >>
  OBVIOUS
<1>2. /\ Formed(Uint32(name)) /\ Formed(Bound(name)) /\ \A fit \in Nat : Formed(Words(name, fit))
  BY DefaultsFormed DEF Uint32, Bound, Words, Formed, Field
<1>3. Formed(Single(name)) /\ Formed(List(name)) /\ Formed(Chosen(name))
  BY DefaultsFormed DEF Single, List, Chosen, Formed, Field
<1>4. /\ Formed(Rows(name, 1, <<0>>)) /\ Formed(Rows(name, 1, <<1>>)) /\ Formed(Rows(name, 1, <<0, 0>>))
      /\ Formed(Rows(name, 0, <<0, 0>>)) /\ Formed(Binds(name, 4, << >>))
  BY <1>1, DefaultsFormed DEF Rows, Binds, Formed, Field
<1>5. /\ Formed(Field(name, "params", 0, <<0, 1>>, 0)) /\ Formed(Field(name, "target", 1, <<1, 0>>, 0))
      /\ Formed(Field(name, "defaulted", 0, <<1>>, 0))
      /\ Formed(Field(name, "strictbinds", 2, <<0, 1>>, 0)) /\ Formed(Field(name, "names", 1, << >>, 0))
  BY <1>1, DefaultsFormed DEF Formed, Field
<1> QED BY <1>2, <1>3, <1>4, <1>5

FormedIn(h) ==
  /\ \A e \in Range(h.fields) \cup Range(h.encode) : Formed(e)
  /\ Range(h.fields) \subseteq Range(h.encode)

\* The text of a program has no field that its binary has not.
LEMMA HandlersFormed ==
  ASSUME NEW t \in DOMAIN Handlers
  PROVE  FormedIn(Handlers[t])
<1>1. Formed(IoBind) /\ Formed(Pair)
  BY DefaultsFormed DEF Formed, Field, IoBind, Pair
<1> USE DEF Handler, FormedIn
<1>2. Range(<< >>) = {}
  BY DEF Range
<1>3. FormedIn(Stats)
  BY <1>1, <1>2, SingletonIsSequence DEF Stats
<1>4. \A h \in {StatsAvg, StatsCount, StatsMax, StatsMin, StatsRms, StatsSum, Dummy, Latest, Redirect} : FormedIn(h)
  BY <1>1, SingletonIsSequence DEF StatsAvg, StatsCount, StatsMax, StatsMin, StatsRms, StatsSum, Dummy, Latest, Redirect
<1>5. FormedIn(Adjust)
  BY <1>1, FieldsFormed, SingletonIsSequence, PairIsSequence DEF Adjust
<1>6. FormedIn(Gateway)
  BY FieldsFormed, SingletonIsSequence DEF Gateway
<1>7. \A h \in {MovingAvg, Sampling, Counter, BitSplit, Expression, Toggle} : FormedIn(h)
  <2>1. \A e : Formed(e) => FormedIn(Handler(<<IoBind, e>>, "none", {"outputs"}))
    BY <1>1, PairIsSequence
  <2>2. \A e : Formed(e) => FormedIn(Handler(<<IoBind, e>>, "bitsplit", {"outputs"}))
    BY <1>1, PairIsSequence
  <2>3. /\ Formed(Uint32("window")) /\ Formed(Uint32("interval")) /\ Formed(Words("params", 4))
        /\ Formed(Words("op", 2)) /\ Formed(Words("values", 2)) /\ Formed(Words("bits", 0))
    BY FieldsFormed
  <2> HIDE DEF Handler, FormedIn
  <2> QED BY <2>1, <2>2, <2>3 DEF MovingAvg, Sampling, Counter, BitSplit, Expression, Toggle
<1>8. \A h \in {OneToMany, ManyToOne, VecSplit, VecPack} : FormedIn(h)
  BY FieldsFormed, PairIsSequence DEF OneToMany, ManyToOne, VecSplit, VecPack
<1>9. \A h \in {Switch, BitPack, BitMerge} : FormedIn(h)
  BY FieldsFormed, PairIsSequence DEF Switch, BitPack, BitMerge
<1>10. \A h \in {IirFilter, Saturate} : FormedIn(h)
  BY <1>1, FieldsFormed, TripleIsSequence DEF IirFilter, Saturate
<1>11. \A h \in {IoMux, IoDemux, Selector} : FormedIn(h)
  BY FieldsFormed, TripleIsSequence DEF IoMux, IoDemux, Selector
<1>12. FormedIn(Sequencer)
  BY FieldsFormed, TripleIsSequence DEF Sequencer
<1>13. \A h \in {Threshold, ThresholdValue} : FormedIn(h)
  BY <1>1, FieldsFormed, QuadrupleIsSequence DEF Threshold, ThresholdValue
<1>14. FormedIn(Buffer)
  BY FieldsFormed, QuadrupleIsSequence DEF Buffer
<1>15. FormedIn(Ahrs)
  <2> DEFINE params == Field("params", "defaulted", 0, <<1>>, 0)
             all == {Single("accel"), Single("gyro"), Single("mag"), Single("output"), params}
  <2>1. \A e \in all : Formed(e)
    BY FieldsFormed
  <2>2. ASSUME NEW a, NEW b, NEW c, NEW d, NEW e
        PROVE  Range(<<a, b>> \o <<c, d, e>>) = {a, b, c, d, e}
    <3>1. IsSequence(<<a, b>>) /\ Range(<<a, b>>) = {a, b}
      BY PairIsSequence
    <3>2. IsSequence(<<c, d, e>>) /\ Range(<<c, d, e>>) = {c, d, e}
      BY TripleIsSequence
    <3>3. Range(<<a, b>> \o <<c, d, e>>) = Range(<<a, b>>) \cup Range(<<c, d, e>>)
      BY <3>1, <3>2, ConcatIsSequence
    <3> QED BY <3>1, <3>2, <3>3
  <2>3. Range(Ahrs.fields) = all /\ Range(Ahrs.encode) = all
    BY <2>2 DEF Ahrs
  <2> HIDE DEF all
  <2> QED BY <2>1, <2>3
<1> HIDE DEF Handler, FormedIn
<1> QED
  BY <1>3, <1>4, <1>5, <1>6, <1>7, <1>8, <1>9, <1>10, <1>11, <1>12, <1>13, <1>14, <1>15 DEF Handlers

\* What a C++ array may name: an object of the descriptor, or a symbol that is not declared.
Mentionable == Ref \cup {Undeclared}
Items(names) == [name : names, size : Nat, words : Seq(Mentionable \cup Int)]

LEMMA ItemMade ==
  ASSUME NEW name, NEW words, Only(words, Mentionable)
  PROVE  /\ Len(words) \in Nat
         /\ \A size \in Nat : Item(name, size, words) \in Items({name})
         /\ \A size \in Nat : Range(<<Item(name, size, words)>>) \subseteq Items({name})
         /\ Range(<< >>) \subseteq Items({name})
<1>1. words \in Seq(Mentionable \cup Int) /\ Len(words) \in Nat
  <2>1. words \in Seq(Range(words))
    BY DEF Only, IsSequence, Range
  <2>2. Range(words) \subseteq Mentionable \cup Int
    BY DEF Only
  <2>3. \A S, T : S \subseteq T => Seq(S) \subseteq Seq(T)
    OBVIOUS
  <2> HIDE DEF Only
  <2> QED BY <2>1, <2>2, <2>3, LenProperties
<1>2. \A size \in Nat : Item(name, size, words) \in Items({name})
  BY <1>1 DEF Item, Items
<1>3. Range(<< >>) = {}
  BY DEF Range
<1> QED BY <1>1, <1>2, <1>3, SingletonIsSequence

\* The words of a function over the first numbers, and of what refers.
LEMMA OnlyListed ==
  ASSUME NEW n \in Nat, NEW f, f = [i \in 1..n |-> f[i]], NEW refs,
         \A i \in 1..n : f[i] \in Int \cup refs
  PROVE  Only(f, refs)
<1>1. f \in Seq({f[i] : i \in 1..n}) /\ DOMAIN f = 1..n
  OBVIOUS
<1>2. IsSequence(f)
  BY <1>1 DEF IsSequence
<1> QED BY <1>1, <1>2 DEF Only, Range

LEMMA OnlyMentioned ==
  ASSUME NEW refs, IsSequence(refs), Range(refs) \subseteq Ref
  PROVE  /\ Only(refs, Mentionable)
         /\ \A ids : Only(Known(refs, ids), Mentionable)
         /\ \A ids : IsSequence(Known(refs, ids)) /\ Range(Known(refs, ids)) \subseteq Ref
         /\ refs # << >> => refs[1] \in Ref
<1>1. \A ids : IsSequence(Known(refs, ids)) /\ Range(Known(refs, ids)) \subseteq Ref
  BY KnownRight
<1>2. refs # << >> => refs[1] \in Ref
  <2>1. refs # << >> => 1 \in DOMAIN refs
    BY TailIsSequence
  <2> QED BY <2>1 DEF Range
<1> QED BY <1>1, <1>2 DEF Only, Mentionable

LEMMA CellMentions ==
  ASSUME NEW row, Row(row), NEW i \in DOMAIN row
  PROVE  /\ IsSequence(Resolve(row[i])) /\ Range(Resolve(row[i])) \subseteq Ref
         /\ IsSequence(Flexible(row[i])) /\ Range(Flexible(row[i])) \subseteq Ref
         /\ \A ids : Id(row[i], ids) \in Int \cup Mentionable
<1>1. row[i] \in Range(row)
  BY DEF Range
<1>2. IsSequence(Resolve(row[i])) /\ IsSequence(Flexible(row[i]))
  BY WordsAreSequences
<1>3. Range(Resolve(row[i])) \subseteq Ref
  BY CellsRefer
<1>4. Range(Flexible(row[i])) \subseteq Ref
  BY <1>1, <1>3, SingletonIsSequence DEF Flexible, Row
<1>5. ASSUME NEW ids
      PROVE  Id(row[i], ids) \in Int \cup Mentionable
  <2>1. IsSequence(Known(Resolve(row[i]), ids)) /\ Range(Known(Resolve(row[i]), ids)) \subseteq Ref
    BY <1>2, <1>3, KnownRight
  <2>2. Known(Resolve(row[i]), ids) # << >> => Known(Resolve(row[i]), ids)[1] \in Ref
    BY <2>1, OnlyMentioned
  <2> QED BY <2>2 DEF Id, Mentionable
<1> QED BY <1>2, <1>3, <1>4, <1>5

\* A row that is not empty has a first cell.
LEMMA FirstCell ==
  ASSUME NEW v, Table(v), NEW i \in DOMAIN v.rows
  PROVE  /\ Row(v.rows[i]) /\ v.rows[i] \in Range(v.rows)
         /\ DOMAIN v.rows[i] = 1..Len(v.rows[i]) /\ Len(v.rows[i]) \in Nat
         /\ v.rows[i] # << >> => 1 \in DOMAIN v.rows[i]
<1>1. v.rows[i] \in Range(v.rows)
  BY DEF Range
<1>2. Row(v.rows[i])
  BY <1>1 DEF Table
<1>3. IsSequence(v.rows[i])
  BY <1>2, SequenceOverItself DEF Row
<1>4. DOMAIN v.rows[i] = 1..Len(v.rows[i]) /\ Len(v.rows[i]) \in Nat
  BY <1>3, LenProperties DEF IsSequence
<1> QED BY <1>1, <1>2, <1>3, <1>4, TailIsSequence

\* A field of one reference names an object, or none.
LEMMA ReadingsRefer ==
  ASSUME NEW v, Table(v), ~v.list => Len(v.rows) = 1 /\ v.rows[1] # << >>
  PROVE  \A r \in {Plain(v), First(v), FirstNamed(v)} : IsSequence(r) /\ Range(r) \subseteq Ref
<1>1. IsSequence(<< >>) /\ Range(<< >>) \subseteq Ref
  BY EmptyIsSequence DEF Range
<1>2. IsSequence(v.rows)
  BY SequenceOverItself DEF Table
<1>3. DOMAIN v.rows = 1..Len(v.rows) /\ Len(v.rows) \in Nat
  BY <1>2, LenProperties DEF IsSequence
<1>4. (1 \in DOMAIN v.rows /\ v.rows[1] # << >>) =>
        IsSequence(Resolve(v.rows[1][1])) /\ Range(Resolve(v.rows[1][1])) \subseteq Ref
  BY FirstCell, CellMentions
<1>5. IsSequence(Plain(v)) /\ Range(Plain(v)) \subseteq Ref
  BY <1>1, <1>3, <1>4 DEF Plain
<1>6. ASSUME v.list, v.rows # << >>, Len(v.rows[1]) = 1
      PROVE  IsSequence(Resolve(v.rows[1][1])) /\ Range(Resolve(v.rows[1][1])) \subseteq Ref
  <2>1. 1 \in DOMAIN v.rows
    BY <1>2, <1>6, TailIsSequence
  <2>2. \A cells : Len(cells) = 1 => cells # << >>
    OBVIOUS
  <2>3. v.rows[1] # << >>
    BY <1>6, <2>2
  <2> QED BY <1>4, <2>1, <2>3
<1>7. IsSequence(First(v)) /\ Range(First(v)) \subseteq Ref
  BY <1>1, <1>5, <1>6 DEF First
<1> QED BY <1>1, <1>5, <1>7 DEF FirstNamed

\* A number of a row that has one.
LEMMA NumeralsAreInt ==
  ASSUME NEW v, Table(v), << >> \notin Range(v.rows), NEW n, NEW d \in Int
  PROVE  Numeral(v, n, d) \in Int
<1>1. (n \in DOMAIN v.rows /\ v.rows[n][1].how = "number") => v.rows[n][1].of \in Int
  <2> SUFFICES ASSUME n \in DOMAIN v.rows, v.rows[n][1].how = "number"
               PROVE  v.rows[n][1].of \in Int
    OBVIOUS
  <2>1. Row(v.rows[n]) /\ 1 \in DOMAIN v.rows[n]
    BY FirstCell
  <2>2. Number(v.rows[n][1], d) \in Int
    BY <2>1, NumbersAreInt
  <2> QED BY <2>2 DEF Number
<1> QED BY <1>1 DEF Numeral, Number

\* Both sides of a binding.
LEMMA InterleavedMentions ==
  ASSUME NEW s, IsSequence(s), Range(s) \subseteq Ref, NEW t, IsSequence(t), Range(t) \subseteq Ref
  PROVE  Only(Interleaved(s, t), Mentionable)
<1> DEFINE m == IF Len(s) <= Len(t) THEN Len(s) ELSE Len(t)
           zip == [i \in 1..m |-> <<s[i], t[i]>>]
<1>1. /\ DOMAIN s = 1..Len(s) /\ Len(s) \in Nat
      /\ DOMAIN t = 1..Len(t) /\ Len(t) \in Nat
  BY LenProperties DEF IsSequence
<1>2. Zip(s, t) = zip
  BY DEF Zip
<1>3. IsSequence(zip) /\ DOMAIN zip = 1..m
  <2>1. m \in Nat
    BY <1>1
  <2> HIDE DEF m
  <2>2. zip \in Seq({zip[i] : i \in 1..m}) /\ DOMAIN zip = 1..m
    BY <2>1
  <2> HIDE DEF zip
  <2> QED BY <2>2 DEF IsSequence
<1>4. ASSUME NEW i \in DOMAIN zip
      PROVE  Only(zip[i], Mentionable)
  <2>1. i \in DOMAIN s /\ i \in DOMAIN t
    BY <1>1, <1>3
  <2>2. zip[i] = <<s[i], t[i]>>
    BY <1>3
  <2>3. s[i] \in Ref /\ t[i] \in Ref
    BY <2>1 DEF Range
  <2> HIDE DEF zip
  <2> QED BY <2>2, <2>3, PairIsSequence DEF Only, Mentionable
<1> HIDE DEF zip
<1> QED BY <1>2, <1>3, <1>4, OnlyFlat DEF Interleaved

\* A field of a program and its value: the rows of those that want some have them.
Fitting(f, v) ==
  /\ Formed(f) /\ Table(v)
  /\ ~v.list => Len(v.rows) = 1 /\ v.rows[1] # << >>
  /\ f.shape \in {"rows", "binds", "strictbinds"} =>
       \A row \in Range(v.rows) : row = << >> \/ Len(row) = f.refs + Len(f.defaults)
  /\ f.shape \in {"word", "bound", "target", "defaulted"} => << >> \notin Range(v.rows)
  /\ f.shape = "words" => \A row \in Range(v.rows) : Len(row) = 1 /\ row[1].how = "number"
  /\ f.shape = "params" => v.list \/ Len(v.rows[1]) = Len(f.defaults)

LEMMA ProgramFields ==
  ASSUME obj \in Program
  PROVE  /\ IsProgram /\ obj.type \in DOMAIN Handlers /\ handler = Handlers[obj.type]
         /\ Range(handler.fields) \subseteq Range(handler.encode)
         /\ \A key \in DOMAIN config : Table(config[key])
         /\ \A f \in Range(handler.encode) : Fitting(f, Value(config, f.name))
<1>1. IsProgram /\ obj.type \in DOMAIN Handlers
  BY ProgramAssumption DEF IsProgram
<1>2. handler = Handlers[obj.type]
  BY <1>1 DEF handler, OfKind
<1>3. FormedIn(handler)
  BY <1>1, <1>2, HandlersFormed
<1>4. \A key \in DOMAIN config : Table(config[key])
  BY ProgramAssumption DEF config
<1>5. ASSUME NEW f \in Range(handler.encode)
      PROVE  Fitting(f, Value(config, f.name))
  <2> DEFINE v == Value(config, f.name)
  <2>1. Formed(f)
    BY <1>3 DEF FormedIn
  <2>2. Table(v)
    BY <1>4, ValueIsTable DEF Given
  <2>3. ~v.list => Len(v.rows) = 1 /\ v.rows[1] # << >>
    BY ProgramAssumption DEF config, Value, Given, Absent
  <2>4. f \in Range(Handlers[obj.type].encode)
    BY <1>2
  <2>5. f.shape \in {"rows", "binds", "strictbinds"} =>
           \A row \in Range(v.rows) : row = << >> \/ Len(row) = f.refs + Len(f.defaults)
    BY <2>4, ProgramAssumption DEF config
  <2>6. f.shape \in {"word", "bound", "target", "defaulted"} => << >> \notin Range(v.rows)
    BY <2>4, ProgramAssumption DEF config
  <2>7. f.shape = "words" => \A row \in Range(v.rows) : Len(row) = 1 /\ row[1].how = "number"
    BY <2>4, ProgramAssumption DEF config
  <2>8. f.shape = "params" => v.list \/ Len(v.rows[1]) = Len(f.defaults)
    BY <2>4, ProgramAssumption DEF config
  <2> QED BY <2>1, <2>2, <2>3, <2>5, <2>6, <2>7, <2>8 DEF Fitting
<1> QED BY <1>1, <1>2, <1>3, <1>4, <1>5 DEF FormedIn

\* The rows of a field, whatever is known.
LEMMA RowsMention ==
  ASSUME NEW f, NEW v, Fitting(f, v), f.shape \in {"rows", "binds", "strictbinds"}, NEW ids
  PROVE  Only(AllRows(f, v, ids), Mentionable)
<1> DEFINE words(i) == IF Usable(f, v.rows[i], ids) THEN RowWords(f, v.rows[i], ids) ELSE << >>
           all == [i \in DOMAIN v.rows |-> words(i)]
<1>1. Only(<< >>, Mentionable)
  BY OnlyJoined
<1>2. f.refs \in Nat /\ Len(f.defaults) \in Nat /\ DOMAIN f.defaults = 1..Len(f.defaults)
      /\ \A i \in DOMAIN f.defaults : f.defaults[i] \in Int
  BY LengthOfSequence, LenProperties DEF Fitting, Formed, Defaults, IsSequence
<1>3. ASSUME NEW i \in DOMAIN v.rows, v.rows[i] # << >>
      PROVE  Only(RowWords(f, v.rows[i], ids), Mentionable)
  <2> DEFINE row == v.rows[i]
             n == f.refs + Len(f.defaults)
  <2>1. Row(row) /\ row \in Range(v.rows) /\ DOMAIN row = 1..Len(row)
    BY FirstCell DEF Fitting
  <2>2. Len(row) = n
    BY <1>3, <2>1 DEF Fitting
  <2>3. n \in Nat
    BY <1>2
  <2>4. \A k \in 1..n : RowWords(f, row, ids)[k] \in Int \cup Mentionable
    <3> SUFFICES ASSUME NEW k \in 1..n
                 PROVE  RowWords(f, row, ids)[k] \in Int \cup Mentionable
      OBVIOUS
    <3>1. k \in DOMAIN row
      BY <2>1, <2>2
    <3>2. CASE k <= f.refs
      <4>1. Id(row[k], ids) \in Int \cup Mentionable
        BY <2>1, <3>1, CellMentions
      <4> QED BY <3>2, <4>1 DEF RowWords
    <3>3. CASE ~(k <= f.refs)
      <4>1. k - f.refs \in DOMAIN f.defaults
        BY <1>2, <3>3
      <4>2. f.defaults[k - f.refs] \in Int
        BY <1>2, <4>1
      <4>3. Number(row[k], f.defaults[k - f.refs]) \in Int
        BY <2>1, <3>1, <4>2, NumbersAreInt
      <4> QED BY <3>3, <4>3 DEF RowWords
    <3> QED BY <3>2, <3>3
  <2>5. RowWords(f, row, ids) = [k \in 1..n |-> RowWords(f, row, ids)[k]]
    BY DEF RowWords
  <2> HIDE DEF n, row
  <2>6. Only(RowWords(f, row, ids), Mentionable)
    BY <2>3, <2>4, <2>5, OnlyListed
  <2> QED BY <2>6 DEF row
<1>4. IsSequence(all)
  <2>1. IsSequence(v.rows)
    BY SequenceOverItself DEF Fitting, Table
  <2> HIDE DEF words
  <2> QED BY <2>1, MappedIsSequence
<1>5. \A i \in DOMAIN all : Only(all[i], Mentionable)
  BY <1>1, <1>3 DEF Usable
<1>6. AllRows(f, v, ids) = IF v.list THEN FlattenSeq(all) ELSE << >>
  BY DEF AllRows
<1> HIDE DEF all
<1> QED BY <1>1, <1>4, <1>5, <1>6, OnlyFlat

\* The words of a field of a program.
LEMMA ProgramWordsMention ==
  ASSUME obj \in Program, NEW f \in Range(handler.encode), NEW ids,
         NEW reading, IsSequence(reading), Range(reading) \subseteq Ref
  PROVE  Only(WordsOf(f, config, ids, reading), Mentionable)
<1> DEFINE v == Value(config, f.name)
<1>1. Fitting(f, v) /\ \A key \in DOMAIN config : Table(config[key])
  BY ProgramFields
<1>2. \A key : Table(Value(config, key))
  BY <1>1, ValueIsTable DEF Given
<1>3. \A key : IsSequence(References(Value(config, key))) /\ Range(References(Value(config, key))) \subseteq Ref
  BY <1>2, ReferencesRefer
<1>4. /\ IsSequence(Inputs(config)) /\ Range(Inputs(config)) \subseteq Ref
      /\ IsSequence(Outputs(config)) /\ Range(Outputs(config)) \subseteq Ref
  BY <1>3 DEF Inputs, Outputs
<1>5. IsSequence(Sources(config)) /\ Range(Sources(config)) \subseteq Ref
  BY <1>1, <1>4, ReferencesRefer DEF Sources, Given
<1>6. Formed(f) /\ Table(v) /\ IsSequence(v.rows)
  BY <1>1, SequenceOverItself DEF Fitting, Table
<1>7. DOMAIN v.rows = 1..Len(v.rows) /\ Len(v.rows) \in Nat
  BY <1>6, LenProperties DEF IsSequence
<1> HIDE DEF v
<1>8. CASE f.shape = "pairs"
  <2>1. ASSUME NEW s, IsSequence(s), Range(s) \subseteq Ref
        PROVE  IsSequence(Known(s, ids)) /\ Range(Known(s, ids)) \subseteq Ref
    BY <2>1, OnlyMentioned
  <2>2. Only(Interleaved(Known(Sources(config), ids), Known(Outputs(config), ids)), Mentionable)
    BY <1>4, <1>5, <2>1, InterleavedMentions
  <2> QED BY <1>8, <2>2 DEF WordsOf
<1>9. CASE f.shape = "pair"
  <2>1. (Inputs(config) # << >> /\ Outputs(config) # << >>) =>
          Inputs(config)[1] \in Ref /\ Outputs(config)[1] \in Ref
    BY <1>4, OnlyMentioned
  <2>2. ASSUME NEW a \in Ref, NEW b \in Ref
        PROVE  Only(<<a, b>>, Mentionable)
    BY PairIsSequence DEF Only, Mentionable
  <2> QED BY <1>9, <2>1, <2>2, OnlyJoined DEF WordsOf
<1>10. CASE f.shape \in {"single", "chosen"}
  BY <1>10, OnlyMentioned DEF WordsOf
<1>11. CASE f.shape \in {"list", "names"}
  BY <1>3, <1>11, OnlyMentioned DEF WordsOf
<1>12. CASE f.shape \in {"rows", "binds", "strictbinds"}
  BY <1>1, <1>12, RowsMention DEF WordsOf, v
<1>13. CASE f.shape = "words"
  <2> DEFINE words == [i \in 1..Len(v.rows) |-> v.rows[i][1].of]
  <2>1. WordsOf(f, config, ids, reading) = words
    BY <1>7, <1>13 DEF WordsOf, v
  <2>2. \A i \in 1..Len(v.rows) : words[i] \in Int
    <3> SUFFICES ASSUME NEW i \in 1..Len(v.rows)
                 PROVE  v.rows[i][1].of \in Int
      OBVIOUS
    <3>1. Row(v.rows[i]) /\ v.rows[i] \in Range(v.rows) /\ DOMAIN v.rows[i] = 1..Len(v.rows[i])
      BY <1>6, <1>7, FirstCell
    <3>2. v.rows[i][1].how = "number" /\ 1 \in DOMAIN v.rows[i]
      BY <1>1, <1>13, <3>1 DEF Fitting, v
    <3>3. Number(v.rows[i][1], 0) \in Int
      BY <3>1, <3>2, NumbersAreInt
    <3> QED BY <3>2, <3>3 DEF Number
  <2> HIDE DEF words
  <2>3. words = [i \in 1..Len(v.rows) |-> words[i]]
    BY DEF words
  <2> QED BY <1>7, <2>1, <2>2, <2>3, OnlyListed
<1>14. CASE f.shape = "target"
  <2> DEFINE first == IF v.rows = << >> THEN 0 ELSE Id(v.rows[1][1], ids)
  <2>1. << >> \notin Range(v.rows)
    BY <1>1, <1>14 DEF Fitting, v
  <2>2. first \in Int \cup Mentionable
    <3>1. v.rows # << >> => 1 \in DOMAIN v.rows
      BY <1>6, TailIsSequence
    <3>2. v.rows # << >> => Row(v.rows[1]) /\ 1 \in DOMAIN v.rows[1]
      BY <1>6, <2>1, <3>1, FirstCell
    <3>3. v.rows # << >> => Id(v.rows[1][1], ids) \in Int \cup Mentionable
      BY <3>2, CellMentions
    <3> QED BY <3>3
  <2>3. Numeral(v, 2, 1) \in Int /\ Numeral(v, 3, 0) \in Int
    BY <1>6, <2>1, NumeralsAreInt
  <2>4. WordsOf(f, config, ids, reading) = <<first, Numeral(v, 2, 1), Numeral(v, 3, 0)>>
    BY <1>14 DEF WordsOf, v
  <2> HIDE DEF first
  <2> QED BY <2>2, <2>3, <2>4, TripleIsSequence DEF Only
<1>15. CASE f.shape = "params"
  <2> DEFINE n == Len(f.defaults)
             words == [i \in 1..n |->
                         IF v.list THEN f.defaults[i] ELSE Number(v.rows[1][i], f.defaults[i])]
  <2>1. n \in Nat /\ DOMAIN f.defaults = 1..n /\ \A i \in 1..n : f.defaults[i] \in Int
    BY <1>6, LengthOfSequence, LenProperties DEF Formed, Defaults, IsSequence
  <2>2. WordsOf(f, config, ids, reading) = words
    BY <1>15, <2>1 DEF WordsOf, v
  <2>3. ASSUME NEW i \in 1..n, ~v.list
        PROVE  Number(v.rows[1][i], f.defaults[i]) \in Int
    <3>1. 1 \in DOMAIN v.rows /\ Len(v.rows[1]) = n
      BY <1>1, <1>7, <1>15, <2>3 DEF Fitting, v
    <3>2. Row(v.rows[1]) /\ i \in DOMAIN v.rows[1]
      BY <1>6, <3>1, FirstCell
    <3> QED BY <2>1, <3>2, NumbersAreInt
  <2>4. \A i \in 1..n : words[i] \in Int
    BY <2>1, <2>3
  <2>5. words = [i \in 1..n |-> words[i]]
    OBVIOUS
  <2> HIDE DEF words
  <2> QED BY <2>1, <2>2, <2>4, <2>5, OnlyListed
<1>16. CASE f.shape \in {"word", "bound", "defaulted"}
  <2>1. f.defaults # << >> /\ << >> \notin Range(v.rows)
    BY <1>1, <1>16 DEF Fitting, Formed, v
  <2>2. f.defaults[1] \in Int
    <3>1. 1 \in DOMAIN f.defaults
      BY <1>6, <2>1, TailIsSequence DEF Formed, Defaults
    <3> QED BY <1>6, <3>1 DEF Formed, Defaults
  <2>3. Numeral(v, 1, f.defaults[1]) \in Int
    BY <1>6, <2>1, <2>2, NumeralsAreInt
  <2>4. WordsOf(f, config, ids, reading) = <<Numeral(v, 1, f.defaults[1])>>
    BY <1>16 DEF WordsOf, v
  <2>5. \A e \in Int \cup Mentionable : Only(<<e>>, Mentionable)
    BY OnlyJoined
  <2> QED BY <2>3, <2>4, <2>5
<1> QED BY <1>6, <1>8, <1>9, <1>10, <1>11, <1>12, <1>13, <1>14, <1>15, <1>16 DEF Formed

\* The items of a field of a program, and the binding of the header.
LEMMA ProgramItemsMade ==
  ASSUME obj \in Program, NEW f \in Range(handler.encode)
  PROVE  /\ Range(EncodeField(f, config, known)) \subseteq Items({f.name})
         /\ Range(GenerateField(f, config)) \subseteq Items({f.name})
<1>1. Fitting(f, Value(config, f.name))
  BY ProgramFields
<1>2. \A r \in {BinaryReading(f, config), First(Value(config, f.name))} :
        IsSequence(r) /\ Range(r) \subseteq Ref
  BY <1>1, ReadingsRefer DEF Fitting, BinaryReading
<1>3. Only(BinaryWords(f, config, known), Mentionable)
  <2> DEFINE words == WordsOf(f, config, known, BinaryReading(f, config))
  <2>1. Only(words, Mentionable)
    BY <1>2, ProgramWordsMention
  <2> HIDE DEF words
  <2>2. f.fit \in Nat
    BY <1>1 DEF Fitting, Formed
  <2>3. \A i \in 1..f.fit : Padded(words, f.fit)[i] \in Int \cup Mentionable
    BY <2>1 DEF Padded, Only, Range
  <2>4. Padded(words, f.fit) = [i \in 1..f.fit |-> Padded(words, f.fit)[i]]
    BY DEF Padded
  <2>5. Only(Padded(words, f.fit), Mentionable)
    BY <2>2, <2>3, <2>4, OnlyListed
  <2> QED BY <2>1, <2>5 DEF BinaryWords, words
<1>4. Only(TextWords(f, config), Mentionable)
  <2>1. Only(WordsOf(f, config, Ref, First(Value(config, f.name))), Mentionable)
    BY <1>2, ProgramWordsMention
  <2>2. Only(<<0>>, Mentionable)
    BY OnlyJoined
  <2> QED BY <2>1, <2>2 DEF TextWords
<1> QED BY <1>3, <1>4, ItemMade DEF EncodeField, GenerateField

LEMMA HeaderMade ==
  ASSUME obj \in Program, ~HeaderRaises
  PROVE  Header \subseteq Items({"iobind"})
<1> DEFINE in == Inputs(config)
           out == Outputs(config)
<1> SUFFICES ASSUME WritesBinding(obj.type, config)
             PROVE  StandardBinding(obj.type, config) \in Items({"iobind"})
  BY DEF Header, config
<1>1. IsProgram /\ \A key \in DOMAIN config : Table(config[key])
  BY ProgramFields
<1>2. /\ IsSequence(in) /\ Range(in) \subseteq Ref
      /\ IsSequence(out) /\ Range(out) \subseteq Ref
  BY <1>1, ValueIsTable, ReferencesRefer DEF Inputs, Outputs, Given
<1>3. in # << >> /\ out # << >>
  BY <1>1 DEF HeaderRaises, OfKind, BindingRaises, config
<1>4. in[1] \in Ref /\ out[1] \in Ref /\ Len(in) \in Nat /\ Len(out) \in Nat
  BY <1>2, <1>3, OnlyMentioned, LengthOfSequence
<1> HIDE DEF in, out
<1>5. CASE obj.type = "adjust"
  <2>1. Only(<<in[1], out[1]>>, Mentionable)
    BY <1>4, PairIsSequence DEF Only, Mentionable
  <2>2. StandardBinding(obj.type, config) = Item("iobind", 2, <<in[1], out[1]>>)
    BY <1>5 DEF StandardBinding, in, out
  <2> QED BY <2>1, <2>2, ItemMade
<1>6. CASE obj.type # "adjust"
  <2> DEFINE n == IF Len(in) > Len(out) THEN Len(in) ELSE Len(out)
             words == [i \in 1..(2 * n) |-> IF i % 2 = 1 THEN Padding(in, (i + 1) \div 2)
                                            ELSE Padding(out, i \div 2)]
  <2>1. n \in Nat /\ 2 * n \in Nat
    BY <1>4
  <2>2. \A i : Padding(in, i) \in Ref /\ Padding(out, i) \in Ref
    BY <1>2, <1>4 DEF Padding, Range
  <2>3. \A i \in 1..(2 * n) : words[i] \in Int \cup Mentionable
    BY <2>2 DEF Mentionable
  <2>4. words = [i \in 1..(2 * n) |-> words[i]]
    OBVIOUS
  <2>5. StandardBinding(obj.type, config) = Item("iobind", Len(in) + Len(out), words)
    BY <1>6 DEF StandardBinding, in, out
  <2> HIDE DEF words
  <2>6. Only(words, Mentionable)
    <3> HIDE DEF n
    <3> QED BY <2>1, <2>3, <2>4, OnlyListed
  <2>7. Len(in) + Len(out) \in Nat
    BY <1>4
  <2> QED BY <2>5, <2>6, <2>7, ItemMade
<1> QED BY <1>5, <1>6

-----------------------------------------------------------------------------
(* Types of the protocols' items                                             *)

\* References read from several cells, and those that follow the parameters of a group.
LEMMA AllMention ==
  ASSUME NEW cells, Row(cells)
  PROVE  /\ IsSequence(PlainAll(cells)) /\ Range(PlainAll(cells)) \subseteq Ref
         /\ IsSequence(FlexibleAll(cells)) /\ Range(FlexibleAll(cells)) \subseteq Ref
<1> DEFINE plain == [i \in DOMAIN cells |-> Resolve(cells[i])]
           flexible == [i \in DOMAIN cells |-> Flexible(cells[i])]
<1>1. IsSequence(cells)
  BY SequenceOverItself DEF Row
<1>2. IsSequence(plain) /\ IsSequence(flexible)
  BY <1>1, MappedIsSequence
<1>3. \A i \in DOMAIN plain : IsSequence(plain[i]) /\ Range(plain[i]) \subseteq Ref
  BY CellMentions
<1>4. \A i \in DOMAIN flexible : IsSequence(flexible[i]) /\ Range(flexible[i]) \subseteq Ref
  BY CellMentions
<1> HIDE DEF plain, flexible
<1>5. IsSequence(FlattenSeq(plain)) /\ Range(FlattenSeq(plain)) \subseteq Ref
  <2>1. /\ IsSequence(FlattenSeq(plain))
        /\ Range(FlattenSeq(plain)) = UNION {Range(plain[i]) : i \in DOMAIN plain}
    BY <1>2, <1>3, FlattenIsSequence
  <2> QED BY <1>3, <2>1
<1>6. IsSequence(FlattenSeq(flexible)) /\ Range(FlattenSeq(flexible)) \subseteq Ref
  <2>1. /\ IsSequence(FlattenSeq(flexible))
        /\ Range(FlattenSeq(flexible)) = UNION {Range(flexible[i]) : i \in DOMAIN flexible}
    BY <1>2, <1>4, FlattenIsSequence
  <2> QED BY <1>4, <2>1
<1> QED BY <1>5, <1>6 DEF PlainAll, FlexibleAll, plain, flexible

LEMMA BindingsAreCells ==
  ASSUME NEW f, Len(f.defaults) \in Nat, NEW row, Row(row)
  PROVE  Row(Bindings(f, row))
<1> DEFINE cells == Bindings(f, row)
<1>1. row \in Seq(Range(row)) /\ Len(row) \in Nat
  BY SequenceOverItself DEF Row
<1>2. cells \in Seq(Range(row))
  BY <1>1, SubSeqProperties DEF Bindings
<1> HIDE DEF cells
<1>3. IsSequence(cells)
  BY <1>2, SequenceOverItself
<1>4. cells \in Seq(Range(cells))
  BY <1>3 DEF IsSequence, Range
<1>5. Range(cells) \subseteq Range(row)
  BY <1>2, <1>3, LenProperties DEF IsSequence, Range
<1>6. \A c \in Range(cells) : /\ c.how \in {"name", "alias", "io"} => c.of \in Ref
                              /\ c.how \in {"number", "capitals"} => c.of \in Int
  BY <1>5 DEF Row
<1> QED BY <1>4, <1>6 DEF Row, cells

\* The words of a group, as each of the three writes them.
Params(f, row) == [i \in DOMAIN f.defaults |-> Number(row[i], f.defaults[i])]
LEMMA GroupsMention ==
  ASSUME NEW f \in {Objects, Registers}, NEW row, Row(row), Len(row) >= Len(f.defaults)
  PROVE  /\ \A ids : Only(GroupWords(f, row, ids), Mentionable)
         /\ f = Objects => Only(ObjectWords(f, row), Mentionable)
         /\ f = Registers => Only(BlockWords(f, row), Mentionable)
         /\ Len(PlainAll(Bindings(f, row))) \in Nat
<1> DEFINE n == Len(f.defaults)
<1>1. /\ n \in {2, 3} /\ f.defaults = [i \in 1..n |-> f.defaults[i]]
      /\ \A i \in 1..n : f.defaults[i] \in Int
      /\ f = Registers => n = 3
  BY ProtocolHandlersAssumption DEF Objects, Registers, Field
<1>2. DOMAIN row = 1..Len(row) /\ Len(row) \in Nat
  BY SequenceOverItself, LenProperties DEF Row, IsSequence
<1>3. Row(Bindings(f, row))
  BY <1>1, BindingsAreCells
<1>4. \A i \in 1..n : \A d \in Int : Number(row[i], d) \in Int
  BY <1>1, <1>2, NumbersAreInt
<1>11. /\ \A d \in Int : Number(row[1], d) \in Int /\ Number(row[2], d) \in Int
       /\ f = Registers => Number(row[3], 0) \in Int
  <2>1. n \in Nat /\ n >= 2 /\ (f = Registers => n = 3)
    <3>1. Len(Objects.defaults) = 2 /\ Len(Registers.defaults) = 3
      BY DEF Objects, Registers, Field
    <3> QED BY <3>1
  <2> HIDE DEF n
  <2>2. 1 \in 1..n /\ 2 \in 1..n /\ (f = Registers => 3 \in 1..n)
    BY <2>1
  <2>3. \A d \in Int : Number(row[1], d) \in Int /\ Number(row[2], d) \in Int
    BY <1>4, <2>2
  <2>4. f = Registers => Number(row[3], 0) \in Int
    <3>1. 0 \in Int
      OBVIOUS
    <3> QED BY <1>4, <2>2, <3>1
  <2> QED BY <2>3, <2>4
<1>5. /\ IsSequence(PlainAll(Bindings(f, row))) /\ Range(PlainAll(Bindings(f, row))) \subseteq Ref
      /\ IsSequence(FlexibleAll(Bindings(f, row))) /\ Range(FlexibleAll(Bindings(f, row))) \subseteq Ref
  BY <1>3, AllMention
<1>6. /\ \A e \in Int \cup Mentionable : Only(<<e>>, Mentionable)
      /\ \A s, t : Only(s, Mentionable) /\ Only(t, Mentionable) => Only(s \o t, Mentionable)
      /\ Only(<< >>, Mentionable)
  BY OnlyJoined
<1>7. ASSUME NEW ids
      PROVE  Only(GroupWords(f, row, ids), Mentionable)
  <2> DEFINE refs == Known(FlexibleAll(Bindings(f, row)), ids)
  <2>1. IsSequence(refs) /\ Only(refs, Mentionable)
    BY <1>5, OnlyMentioned
  <2>2. Len(refs) \in Nat
    BY <2>1, LengthOfSequence
  <2>3. Only(Params(f, row), Mentionable)
    <3>1. Params(f, row) = [i \in 1..n |-> Params(f, row)[i]]
      BY <1>1 DEF Params
    <3>2. \A i \in 1..n : Params(f, row)[i] \in Int \cup Mentionable
      BY <1>1, <1>4 DEF Params
    <3>3. n \in Nat
      BY <1>1
    <3> QED BY <3>1, <3>2, <3>3, OnlyListed
  <2>4. GroupWords(f, row, ids) = Params(f, row) \o <<Len(refs)>> \o refs
    BY DEF GroupWords, Params
  <2> HIDE DEF refs
  <2>5. Only(<<Len(refs)>>, Mentionable)
    BY <1>6, <2>2
  <2> QED BY <1>6, <2>1, <2>3, <2>4, <2>5
<1> DEFINE plain == PlainAll(Bindings(f, row))
<1>8. Only(plain, Mentionable) /\ Len(plain) \in Nat /\ Only(<<Len(plain)>>, Mentionable)
  <2>1. Only(plain, Mentionable) /\ Len(plain) \in Nat
    BY <1>5, OnlyMentioned, LengthOfSequence
  <2> QED BY <1>6, <2>1
<1>9. Only(ObjectWords(f, row), Mentionable)
  <2> DEFINE Param(i) == IF row[i].how = "missing" THEN << >> ELSE <<Number(row[i], PushType)>>
  <2>1. PushType \in Int
    BY ProtocolHandlersAssumption
  <2>2. Only(Param(1), Mentionable) /\ Only(Param(2), Mentionable)
    BY <1>6, <1>11, <2>1
  <2>3. ObjectWords(f, row) = Param(1) \o Param(2) \o <<Len(plain)>> \o plain
    BY DEF ObjectWords
  <2> HIDE DEF Param, plain
  <2> QED BY <1>6, <1>8, <2>2, <2>3
<1>10. f = Registers => Only(BlockWords(f, row), Mentionable)
  <2> SUFFICES ASSUME f = Registers
               PROVE  Only(BlockWords(f, row), Mentionable)
    OBVIOUS
  <2>1. row[1] \in Range(row)
    BY <1>1, <1>2 DEF Range
  <2>2. TextType(row[1]) \in Int
    BY <2>1, ProtocolHandlersAssumption DEF TextType, Row
  <2>3. Number(row[2], 0) \in Int /\ Number(row[3], 0) \in Int
    BY <1>11
  <2>4. Only(<<TextType(row[1]), Number(row[2], 0), Number(row[3], 0), Len(plain)>>, Mentionable)
    BY <1>8, <2>2, <2>3, QuadrupleIsSequence DEF Only
  <2>5. BlockWords(f, row)
          = <<TextType(row[1]), Number(row[2], 0), Number(row[3], 0), Len(plain)>> \o plain
    BY DEF BlockWords
  <2> HIDE DEF plain
  <2> QED BY <1>6, <1>8, <2>4, <2>5
<1> QED BY <1>7, <1>8, <1>9, <1>10

\* The items of a field of a protocol whose config is flat.
LEMMA ProtocolItemsMade ==
  ASSUME obj \in ProtocolEntry, obj.type \in DOMAIN Protocols, Accepts,
         NEW f \in Range(handler.encode) \cup Range(handler.fields)
  PROVE  /\ \A ids : Range(EncodeProtocolField(f, config, ids)) \subseteq Items({f.name})
         /\ ~BlockRaises(f, config) =>
              Range(GenerateProtocolField(f, config)) \subseteq Items({f.name})
         /\ CountOf(f, config) \in Nat
<1> DEFINE v == Value(config, f.name)
           rows == v.rows
<1>1. /\ ~IsProgram /\ obj.kind = "protocol" /\ handler = Protocols[obj.type]
      /\ obj.type \notin {"nimble", "wakaama"}
  <2>1. obj.kind = "protocol"
    BY ProtocolAssumption
  <2>2. obj.type \notin {"nimble", "wakaama"}
    BY DEF Protocols
  <2> QED BY <2>1, <2>2 DEF IsProgram, handler, OfKind, OfProtocol
<1>2. Grouped(obj.type, f)
  BY <1>1, ProtocolsNameFields DEF ProtocolOf
<1>3. Table(v)
  <2>1. f.name # "servers" => Table(v)
    BY EntryShape DEF config
  <2>2. \A key \in DOMAIN config : Table(config[key])
    BY <1>1, ProtocolAssumption DEF config
  <2> QED BY <2>2, ValueIsTable DEF Given
<1>4. IsSequence(rows) /\ DOMAIN rows = 1..Len(rows) /\ Len(rows) \in Nat
  BY <1>3, SequenceOverItself, LenProperties DEF Table, IsSequence
<1>5. /\ f.shape = "option" => << >> \notin Range(rows)
      /\ \A row \in Range(rows) : f.shape \in {"named", "objects"} => row = << >> \/ Len(row) >= 2
  BY <1>1, ProtocolAssumption DEF config
<1>6. f.shape = "registers" => \A row \in Range(rows) : row = << >> \/ Len(row) >= 3
  <2>1. f.shape = "registers" => f.name = "registers" /\ obj.type \in {"modbus_rtu", "modbus_tcp"}
    BY <1>2 DEF Grouped, Registers, Field
  <2> QED BY <2>1, ProtocolAssumption DEF config
<1>7. f.shape = "objects" => << >> \notin Range(rows)
  <2>1. f.shape = "objects" => f.name = "objects" /\ obj.type = "can"
    BY <1>2 DEF Grouped, Objects, Field
  <2>2. ValidProtocol(obj.type, obj.config)
    BY <1>1 DEF Accepts, OfKind, OfProtocol
  <2> QED BY <2>1, <2>2 DEF ValidProtocol, config
<1>8. ASSUME f.shape \in {"objects", "registers"}, NEW i \in DOMAIN rows, rows[i] # << >>
      PROVE  /\ \A ids : Only(GroupWords(f, rows[i], ids), Mentionable)
             /\ f.shape = "objects" => Only(ObjectWords(f, rows[i]), Mentionable)
             /\ f.shape = "registers" => Only(BlockWords(f, rows[i]), Mentionable)
             /\ Len(PlainAll(Bindings(f, rows[i]))) \in Nat
  <2>1. Row(rows[i]) /\ rows[i] \in Range(rows)
    BY <1>3, FirstCell
  <2>2. CASE f.shape = "objects"
    <3>1. f = Objects
      BY <1>2, <2>2 DEF Grouped
    <3>2. Len(f.defaults) = 2
      BY <3>1 DEF Objects, Field
    <3>3. Len(rows[i]) >= Len(f.defaults)
      BY <1>5, <1>8, <2>1, <2>2, <3>2
    <3> QED BY <2>1, <2>2, <3>1, <3>3, GroupsMention
  <2>3. CASE f.shape = "registers"
    <3>1. f = Registers
      BY <1>2, <2>3 DEF Grouped
    <3>2. Len(f.defaults) = 3
      BY <3>1 DEF Registers, Field
    <3>3. Len(rows[i]) >= Len(f.defaults)
      BY <1>6, <1>8, <2>1, <2>3, <3>2
    <3> QED BY <2>1, <2>3, <3>1, <3>3, GroupsMention
  <2> QED BY <1>8, <2>2, <2>3
<1> HIDE DEF v
<1>9. ASSUME NEW ids, f.shape = "named"
      PROVE  Only(NamedWords(f, v, ids), Mentionable)
  <2> DEFINE ref(i) == IF rows[i] = << >> THEN << >> ELSE Known(Flexible(rows[i][1]), ids)
             words(i) == IF ref(i) = << >> THEN << >> ELSE <<ref(i)[1], Number(rows[i][2], 0)>>
             all == [i \in DOMAIN rows |-> words(i)]
  <2>1. IsSequence(all)
    <3> HIDE DEF words
    <3> QED BY <1>4, MappedIsSequence
  <2>2. ASSUME NEW i \in DOMAIN rows
        PROVE  Only(words(i), Mentionable)
    <3>1. CASE rows[i] = << >>
      <4>1. ref(i) = << >>
        BY <3>1
      <4> QED BY <4>1, OnlyJoined
    <3>2. CASE rows[i] # << >>
      <4>1. Row(rows[i]) /\ rows[i] \in Range(rows) /\ DOMAIN rows[i] = 1..Len(rows[i]) /\ 1 \in DOMAIN rows[i]
        BY <1>3, <3>2, FirstCell
      <4>2. Len(rows[i]) >= 2 /\ Len(rows[i]) \in Nat
        BY <1>3, <1>5, <1>9, <3>2, <4>1, FirstCell
      <4>3. 2 \in DOMAIN rows[i]
        BY <4>1, <4>2
      <4>4. Number(rows[i][2], 0) \in Int
        BY <4>1, <4>3, NumbersAreInt
      <4>5. IsSequence(ref(i)) /\ Range(ref(i)) \subseteq Ref
        <5>1. IsSequence(Flexible(rows[i][1])) /\ Range(Flexible(rows[i][1])) \subseteq Ref
          BY <4>1, CellMentions
        <5> QED BY <3>2, <5>1, OnlyMentioned
      <4> HIDE DEF ref
      <4>6. ref(i) # << >> => ref(i)[1] \in Ref
        BY <4>5, OnlyMentioned
      <4>7. ref(i) # << >> => Only(<<ref(i)[1], Number(rows[i][2], 0)>>, Mentionable)
        BY <4>4, <4>6, PairIsSequence DEF Only, Mentionable
      <4> QED BY <4>7, OnlyJoined
    <3> QED BY <3>1, <3>2
  <2>3. \A i \in DOMAIN all : Only(all[i], Mentionable)
    <3> HIDE DEF words
    <3> QED BY <2>2
  <2>4. NamedWords(f, v, ids) = FlattenSeq(all)
    BY DEF NamedWords
  <2> HIDE DEF all
  <2> QED BY <2>1, <2>3, <2>4, OnlyFlat
<1>10. ASSUME NEW ids
       PROVE  Only(ProtocolWords(f, config, ids), Mentionable)
  <2>1. CASE f.shape = "option"
    <3>1. Numeral(v, 1, 0) \in Int
      BY <1>3, <1>5, <2>1, NumeralsAreInt
    <3>2. Only(<<Numeral(v, 1, 0)>>, Mentionable) /\ Only(<< >>, Mentionable)
      BY <3>1, OnlyJoined
    <3> QED BY <2>1, <3>2 DEF ProtocolWords, v
  <2>2. CASE f.shape = "bindings"
    <3>1. Only(References(v), Mentionable)
      BY <1>3, ReferencesRefer, OnlyMentioned
    <3> QED BY <2>2, <3>1 DEF ProtocolWords, v
  <2>3. CASE f.shape = "named"
    BY <1>9, <2>3 DEF ProtocolWords, v
  <2>4. CASE f.shape = "unnamed"
    <3> DEFINE refs == [i \in DOMAIN rows |->
                          IF Len(rows[i]) = 1 THEN Flexible(rows[i][1]) ELSE << >>]
    <3>1. IsSequence(refs)
      BY <1>4, MappedIsSequence
    <3>2. ASSUME NEW i \in DOMAIN rows, Len(rows[i]) = 1
          PROVE  IsSequence(Flexible(rows[i][1])) /\ Range(Flexible(rows[i][1])) \subseteq Ref
      <4>1. Row(rows[i]) /\ DOMAIN rows[i] = 1..Len(rows[i])
        BY <1>3, FirstCell
      <4>2. 1 \in DOMAIN rows[i]
        BY <3>2, <4>1
      <4> QED BY <4>1, <4>2, CellMentions
    <3>3. IsSequence(<< >>) /\ Range(<< >>) \subseteq Ref
      BY EmptyIsSequence DEF Range
    <3>4. \A i \in DOMAIN refs : IsSequence(refs[i]) /\ Range(refs[i]) \subseteq Ref
      BY <3>2, <3>3
    <3>5. FlexibleRefs(v) = FlattenSeq(refs)
      BY DEF FlexibleRefs
    <3> HIDE DEF refs
    <3>6. /\ IsSequence(FlattenSeq(refs))
          /\ Range(FlattenSeq(refs)) = UNION {Range(refs[i]) : i \in DOMAIN refs}
      BY <3>1, <3>4, FlattenIsSequence
    <3>7. IsSequence(FlexibleRefs(v)) /\ Range(FlexibleRefs(v)) \subseteq Ref
      BY <3>4, <3>5, <3>6
    <3>8. Only(Known(FlexibleRefs(v), ids), Mentionable)
      BY <3>7, OnlyMentioned
    <3> QED BY <2>4, <3>8 DEF ProtocolWords, v
  <2>5. CASE f.shape \in {"objects", "registers"}
    <3> DEFINE words == [i \in DOMAIN rows |->
                           IF rows[i] = << >> THEN << >> ELSE GroupWords(f, rows[i], ids)]
    <3>1. IsSequence(words)
      BY <1>4, MappedIsSequence
    <3>2. Only(<< >>, Mentionable)
      BY OnlyJoined
    <3>3. \A i \in DOMAIN words : Only(words[i], Mentionable)
      BY <1>8, <2>5, <3>2
    <3>4. ProtocolWords(f, config, ids) = FlattenSeq(words)
      BY <2>5 DEF ProtocolWords, v
    <3> HIDE DEF words
    <3> QED BY <3>1, <3>3, <3>4, OnlyFlat
  <2> QED BY <1>2, <2>1, <2>2, <2>3, <2>4, <2>5 DEF Grouped
<1>11. \A ids : Range(EncodeProtocolField(f, config, ids)) \subseteq Items({f.name})
  BY <1>10, ItemMade DEF EncodeProtocolField
<1>12. ASSUME ~BlockRaises(f, config)
       PROVE  Range(GenerateProtocolField(f, config)) \subseteq Items({f.name})
  <2>1. CASE f.shape = "objects"
    <3> DEFINE items == [i \in DOMAIN rows |->
                 Item(f.name, 3 + Len(PlainAll(Bindings(f, rows[i]))), ObjectWords(f, rows[i]))]
    <3>1. ASSUME NEW i \in DOMAIN rows
          PROVE  items[i] \in Items({f.name})
      <4>1. rows[i] # << >>
        BY <1>7, <2>1 DEF Range
      <4>2. Only(ObjectWords(f, rows[i]), Mentionable) /\ 3 + Len(PlainAll(Bindings(f, rows[i]))) \in Nat
        BY <1>8, <2>1, <4>1
      <4>3. items[i] = Item(f.name, 3 + Len(PlainAll(Bindings(f, rows[i]))), ObjectWords(f, rows[i]))
        OBVIOUS
      <4> HIDE DEF items
      <4> QED BY <4>2, <4>3, ItemMade
    <3>2. GenerateProtocolField(f, config) = items /\ DOMAIN items = DOMAIN rows
      BY <2>1 DEF GenerateProtocolField, v
    <3> HIDE DEF items
    <3> QED BY <3>1, <3>2 DEF Range
  <2>2. CASE f.shape = "registers" /\ rows # << >>
    <3> DEFINE blocks == [i \in DOMAIN rows |-> BlockWords(f, rows[i])]
    <3>1. << >> \notin Range(rows)
      BY <1>12, <2>2 DEF BlockRaises, v
    <3>2. \A i \in DOMAIN rows : Only(BlockWords(f, rows[i]), Mentionable)
      BY <1>8, <2>2, <3>1 DEF Range
    <3>3. IsSequence(blocks)
      BY <1>4, MappedIsSequence
    <3>4. \A i \in DOMAIN blocks : Only(blocks[i], Mentionable)
      BY <3>2
    <3>5. GenerateProtocolField(f, config) = <<Item(f.name, Len(FlattenSeq(blocks)), FlattenSeq(blocks))>>
      BY <2>2 DEF GenerateProtocolField, v
    <3> HIDE DEF blocks
    <3>6. Only(FlattenSeq(blocks), Mentionable)
      BY <3>3, <3>4, OnlyFlat
    <3> QED BY <3>5, <3>6, ItemMade
  <2>3. CASE f.shape = "named" /\ Given(config, f.name)
    <3>1. GenerateProtocolField(f, config) = <<Item(f.name, Len(NamedWords(f, v, Ref)), NamedWords(f, v, Ref))>>
      BY <2>3 DEF GenerateProtocolField, v
    <3> QED BY <1>9, <2>3, <3>1, ItemMade
  <2>4. CASE /\ f.shape # "objects" /\ ~(f.shape = "registers" /\ rows # << >>)
             /\ ~(f.shape = "named" /\ Given(config, f.name))
    <3>1. GenerateProtocolField(f, config) = EncodeProtocolField(f, config, Ref)
      BY <2>4 DEF GenerateProtocolField, v
    <3> QED BY <1>11, <3>1
  <2> QED BY <2>1, <2>2, <2>3, <2>4
<1>13. CountOf(f, config) \in Nat
  BY <1>4 DEF CountOf, v
<1> QED BY <1>11, <1>12, <1>13

-----------------------------------------------------------------------------
(* Types of nimble's items                                                   *)

\* All that is shown of a nimble is an object.
LEMMA CellRefers ==
  ASSUME NEW row, Row(row), NEW i \in DOMAIN row
  PROVE  Range(Flexible(row[i])) \subseteq Ref /\ Range(Resolve(row[i])) \subseteq Ref
BY CellMentions

LEMMA PlacesInRow ==
  ASSUME NEW n \in Nat \ {0}
  PROVE  /\ 1 \in 1..n
         /\ \A d \in Nat : n = 2 + d => 2 \in 1..n
         /\ \A c \in 1..((n - 1) \div 3) : 3 * c - 1 \in 1..n
OBVIOUS

LEMMA ReportedRefers ==
  ASSUME obj \in ProtocolEntry, obj.type = "nimble", NEW f \in Entered \cup {Bas},
         NEW row \in Range(ServiceRows(f, config))
  PROVE  ReportedOf(f, row) \subseteq Ref
<1> SUFFICES ASSUME row # << >>
             PROVE  ReportedOf(f, row) \subseteq Ref
  BY DEF ReportedOf
<1>1. /\ Row(row) /\ DOMAIN row = 1..Len(row) /\ Len(row) \in Nat \ {0}
      /\ f \in {Aios, Ess, Imds} => Len(row) = 2 + Len(f.defaults)
  BY RowsOfServices
<1>2. \A i \in 1..Len(row) : Range(Flexible(row[i])) \subseteq Ref
  BY <1>1, CellRefers
<1>3. CASE f \in {Bas, Ots}
  <2>1. 1 \in 1..Len(row)
    BY <1>1, PlacesInRow
  <2>2. ReportedOf(f, row) = Range(Flexible(row[1]))
    BY <1>3, ServicesNamed DEF ReportedOf
  <2> QED BY <1>2, <2>1, <2>2
<1>4. CASE f \in {Aios, Ess, Imds}
  <2>1. Len(f.defaults) \in Nat
    BY <1>4, OrdersOfExtensions, LengthOfSequence
  <2>2. 2 \in 1..Len(row)
    BY <1>1, <1>4, <2>1, PlacesInRow
  <2>3. ReportedOf(f, row) \subseteq Range(Flexible(row[2]))
    BY <1>4, ServicesNamed DEF ReportedOf
  <2> QED BY <1>2, <2>2, <2>3
<1>5. CASE f = Custom
  <2>1. \A c \in CharacteristicsOf(row) : 3 * c - 1 \in 1..Len(row)
    BY <1>1, PlacesInRow DEF CharacteristicsOf
  <2>2. ReportedOf(f, row) = UNION {Range(Flexible(row[3 * c - 1])) : c \in CharacteristicsOf(row)}
    BY <1>5, ServicesNamed DEF ReportedOf
  <2> QED BY <1>2, <2>1, <2>2
<1> QED BY <1>3, <1>4, <1>5 DEF Entered

LEMMA ShownRefers ==
  ASSUME obj \in ProtocolEntry, obj.type = "nimble", NEW how
  PROVE  Shown(how) \subseteq Ref
<1>1. NimbleBindings(config) \subseteq Ref
  BY ReportedRefers DEF NimbleBindings, Entered
<1>2. Metadata \subseteq Ref
  <2> SUFFICES ASSUME NEW key \in Sensing, NEW row \in Range(Value(config, key).rows),
                      NEW k \in 1..(Len(row) - 2)
               PROVE  Range(Flexible(row[2 + k])) \subseteq Ref
    BY DEF Metadata
  <2>1. Table(Value(config, key))
    BY ProtocolAssumption, ValueIsTable DEF Given, config
  <2>2. Row(row)
    BY <2>1 DEF Table
  <2>3. DOMAIN row = 1..Len(row) /\ Len(row) \in Nat
    BY <2>2, SequenceOverItself, LenProperties DEF Row, IsSequence
  <2>4. 2 + k \in DOMAIN row
    BY <2>3
  <2> QED BY <2>2, <2>4, CellRefers
<1>3. Unlisted(how) \subseteq Ref
  <2> SUFFICES ASSUME NEW row \in Range(ServiceRows(Aios, config)), row # << >>
               PROVE  Range(Flexible(row[2])) \subseteq Ref
    <3>1. \A r \in Unlisted(how) : \E row \in Range(ServiceRows(Aios, config)) :
            row # << >> /\ r \in Range(Flexible(row[2]))
      BY DEF Unlisted
    <3> QED BY <3>1
  <2>1. Row(row) /\ DOMAIN row = 1..Len(row) /\ Len(row) = 2 + Len(Aios.defaults)
    BY RowsOfServices DEF Entered
  <2>2. Len(Aios.defaults) \in Nat
    BY OrdersOfExtensions, LengthOfSequence
  <2>3. 2 \in DOMAIN row
    BY <2>1, <2>2
  <2> QED BY <2>1, <2>3, CellRefers
<1> QED BY <1>1, <1>2, <1>3 DEF Shown

\* Its items are named for the service, and as long as they say but for two that are fixed.
Named(item, name) ==
  item = Item(name, item.size, item.words) /\ item.size \in {0, 1, Len(item.words)}
LEMMA ItemNamed ==
  ASSUME NEW name, NEW words, NEW size \in {0, 1, Len(words)}
  PROVE  \A item \in Range(<<Item(name, size, words)>>) \cup Range(<< >>) : Named(item, name)
<1> DEFINE item == Item(name, size, words)
<1>1. item.words = words /\ item.size = size
  BY DEF Item
<1>2. Named(item, name)
  BY <1>1 DEF Named
<1> HIDE DEF item
<1>3. Range(<<item>>) = {item} /\ Range(<< >>) = {}
  BY SingletonIsSequence DEF Range
<1> QED BY <1>2, <1>3 DEF item

LEMMA ServiceItemsNamed ==
  ASSUME obj \in ProtocolEntry, NEW f \in Services
  PROVE  /\ \A ids : \A item \in Range(EncodeService(f, config, ids)) : Named(item, f.name)
         /\ \A item \in Range(GenerateService(f, config)) : Named(item, f.name)
<1>1. Range(<< >>) = {}
  BY DEF Range
<1>2. ASSUME NEW words
      PROVE  \A item \in Range(ItemsOf(f, words)) : Named(item, f.name)
  <2>1. \A item \in Range(<<Item(f.name, Len(words), words)>>) : Named(item, f.name)
    BY ItemNamed
  <2> QED BY <1>1, <2>1 DEF ItemsOf
<1>3. ASSUME NEW entries, IsSequence(entries)
      PROVE  \A item \in Range(FlattenSeq([i \in DOMAIN entries |-> ItemsOf(f, entries[i])])) :
               Named(item, f.name)
  <2> DEFINE items == [i \in DOMAIN entries |-> ItemsOf(f, entries[i])]
  <2>1. IsSequence(items)
    BY <1>3, MappedIsSequence
  <2>2. \A i \in DOMAIN items : IsSequence(items[i])
    BY SingletonIsSequence, EmptyIsSequence DEF ItemsOf
  <2>3. \A i \in DOMAIN items : \A item \in Range(items[i]) : Named(item, f.name)
    BY <1>2
  <2> HIDE DEF items
  <2>4. Range(FlattenSeq(items)) = UNION {Range(items[i]) : i \in DOMAIN items}
    BY <2>1, <2>2, FlattenIsSequence
  <2>5. \A item \in Range(FlattenSeq(items)) : Named(item, f.name)
    BY <2>3, <2>4
  <2> QED BY <2>5 DEF items
<1>4. \A g : IsSequence(ServiceRows(g, config))
  BY EntryShape DEF config
<1>5. /\ \A ids : IsSequence(BinaryEntries(f, config, ids))
      /\ IsSequence(TextEntries(f, config))
  BY <1>4, MappedIsSequence DEF BinaryEntries, TextEntries
<1>6. ASSUME NEW ids
      PROVE  \A item \in Range(EncodeService(f, config, ids)) : Named(item, f.name)
  <2> DEFINE battery == ExtensionWord(config["bas"].rows[1][1], ids)
             entries == BinaryEntries(f, config, ids)
  <2>1. CASE f.name = "gap_name"
    <3>1. EncodeService(f, config, ids) = EncodeProtocolField(f, config, ids)
      BY <2>1 DEF EncodeService
    <3> QED BY <1>1, <3>1, ItemNamed DEF EncodeProtocolField
  <2>2. CASE f.name = "dis"
    <3>1. \A item \in Range(<<Item("dis", 0, << >>)>>) : Named(item, "dis")
      BY ItemNamed
    <3> QED BY <1>1, <2>2, <3>1 DEF EncodeService
  <2>3. CASE f.name = "bas"
    <3>1. \A item \in Range(<<Item("bas", 1, <<battery>>)>>) : Named(item, "bas")
      BY ItemNamed
    <3>2. EncodeService(f, config, ids) \in {<< >>, <<Item("bas", 1, <<battery>>)>>}
      BY <2>3 DEF EncodeService, Sensing
    <3> HIDE DEF battery
    <3> QED BY <1>1, <2>3, <3>1, <3>2
  <2>4. CASE f.name \notin {"gap_name", "dis", "bas"}
    <3> DEFINE all == FlattenSeq([i \in DOMAIN entries |-> ItemsOf(f, entries[i])])
    <3>1. EncodeService(f, config, ids) \in
            {<< >>, ItemsOf(f, Listed(entries, Aggregate(f, config))),
             ItemsOf(f, Listed(entries, 0)), all}
      BY <2>4 DEF EncodeService
    <3>2. \A item \in Range(all) : Named(item, f.name)
      BY <1>3, <1>5
    <3> HIDE DEF all, entries
    <3> QED BY <1>1, <1>2, <3>1, <3>2
  <2> QED BY <2>1, <2>2, <2>3, <2>4
<1>7. \A item \in Range(GenerateService(f, config)) : Named(item, f.name)
  <2> DEFINE battery == TextRef(f, config["bas"].rows[1][1])
             entries == TextEntries(f, config)
             all == FlattenSeq([i \in DOMAIN entries |-> ItemsOf(f, entries[i])])
  <2>1. CASE f.name = "bas"
    <3>1. \A item \in Range(<<Item("bas", 1, battery)>>) : Named(item, "bas")
      BY ItemNamed
    <3>2. GenerateService(f, config) \in {<< >>, <<Item("bas", 1, battery)>>}
      BY <2>1 DEF GenerateService
    <3> HIDE DEF battery
    <3> QED BY <1>1, <2>1, <3>1, <3>2
  <2>2. CASE f.name # "bas"
    <3>1. GenerateService(f, config) \in
            {EncodeService(f, config, Ref), << >>, ItemsOf(f, Listed(entries, Aggregate(f, config))), all}
      BY <2>2 DEF GenerateService
    <3>2. \A item \in Range(all) : Named(item, f.name)
      BY <1>3, <1>5
    <3> HIDE DEF all, entries
    <3> QED BY <1>1, <1>2, <1>6, <3>1, <3>2
  <2> QED BY <2>1, <2>2
<1> QED BY <1>6, <1>7

LEMMA NimbleItemsMade ==
  ASSUME obj \in ProtocolEntry, obj.type = "nimble", NEW f \in Services
  PROVE  /\ \A ids : Range(EncodeService(f, config, ids)) \subseteq Items({f.name})
         /\ ~ServiceRaises(f, config) => Range(GenerateService(f, config)) \subseteq Items({f.name})
         /\ ServiceCount(f, config) \in Nat
<1>1. ASSUME NEW item, NEW how, Named(item, f.name), Only(item.words, Shown(how))
      PROVE  item \in Items({f.name})
  <2>1. Only(item.words, Mentionable)
    BY <1>1, ShownRefers DEF Only, Mentionable
  <2>2. item.size \in Nat
    BY <1>1, <2>1, ItemMade DEF Named
  <2>3. Item(f.name, item.size, item.words) \in Items({f.name})
    BY <2>1, <2>2, ItemMade
  <2> QED BY <1>1, <2>3 DEF Named
<1>2. \A ids : Range(EncodeService(f, config, ids)) \subseteq Items({f.name})
  BY <1>1, ServicesShown, ServiceItemsNamed
<1>3. ~ServiceRaises(f, config) => Range(GenerateService(f, config)) \subseteq Items({f.name})
  BY <1>1, ServicesShown, ServiceItemsNamed
<1>4. ServiceCount(f, config) \in Nat
  <2> DEFINE rows == Value(config, "custom").rows
  <2>1. Len(rows) \in Nat /\ DOMAIN rows = 1..Len(rows)
    BY EntryShape, LenProperties DEF IsSequence, config
  <2>2. IsFiniteSet({i \in DOMAIN rows : rows[i] # << >>})
    BY <2>1, FS_Interval, FS_Subset
  <2> QED BY <2>2, FS_CardinalityType DEF ServiceCount
<1> QED BY <1>2, <1>3, <1>4

-----------------------------------------------------------------------------
(* Types of the IOs' items                                                   *)

LEMMA TotalIsInt ==
  ASSUME NEW s, IsSequence(s), \A i \in DOMAIN s : s[i] \in Int
  PROVE  Total(s) \in Int
<1>1. Len(s) \in Nat /\ DOMAIN s = 1..Len(s)
  BY LenProperties DEF IsSequence
<1>2. PICK h : /\ Total(s) = h[Len(s)] /\ h[0] = 0
               /\ \A k \in 0..(Len(s) - 1) : h[k + 1] = h[k] + s[k + 1]
  BY TotalUnfolds
<1> DEFINE S == {m \in 0..Len(s) : h[m] \in Int}
<1>3. 0 \in S /\ \A m \in 0..(Len(s) - 1) : m \in S => m + 1 \in S
  <2>1. \A m \in 0..(Len(s) - 1) : m + 1 \in DOMAIN s
    BY <1>1
  <2> QED BY <1>1, <1>2, <2>1
<1>4. Len(s) \in S
  <2> HIDE DEF S
  <2>1. \A m \in 0..Len(s) : m \in S
    BY <1>1, <1>3, UpTo
  <2> QED BY <1>1, <2>1
<1> QED BY <1>2, <1>4

\* Values of a dtype are numbers, and so are those of a row.
LEMMA ScalarsMention ==
  ASSUME NEW cells, IsSequence(cells), \A i \in DOMAIN cells : cells[i].of \in Int, NEW d
  PROVE  Only(RowWordsOf(cells, d), Mentionable)
<1> DEFINE words == [i \in DOMAIN cells |-> ScalarWords(cells[i].of, d)]
<1>1. IsSequence(words)
  BY MappedIsSequence
<1>2. ASSUME NEW n \in Int
      PROVE  Only(ScalarWords(n, d), Mentionable)
  <2>1. Pattern(n) \in Int
    BY DEF Pattern
  <2>2. ASSUME NEW a \in Int
        PROVE  Only(<<a>>, Mentionable)
    BY SingletonIsSequence DEF Only
  <2>3. ASSUME NEW a \in Int, NEW b \in Int
        PROVE  Only(<<a, b>>, Mentionable)
    BY PairIsSequence DEF Only
  <2>4. 0 \in Int
    OBVIOUS
  <2>5. ScalarWords(n, d) \in {<<Pattern(n)>>, <<0, Pattern(n)>>, <<n, 0>>, <<n>>}
    BY DEF ScalarWords
  <2> QED BY <2>1, <2>2, <2>3, <2>4, <2>5
<1>3. \A i \in DOMAIN words : Only(words[i], Mentionable)
  BY <1>2
<1> HIDE DEF words
<1>4. Only(FlattenSeq(words), Mentionable)
  BY <1>1, <1>3, OnlyFlat
<1> QED BY <1>4 DEF RowWordsOf, words

\* A field of an IO, and its value.
LEMMA IoFields ==
  ASSUME obj \in IoEntry
  PROVE  /\ ~IsProgram /\ obj.kind = "io" /\ handler = Ios[obj.type] /\ obj.type \in DOMAIN Ios
         /\ \A key : Table(Value(config, key))
         /\ \A f \in Range(handler.encode) \cup Range(handler.fields) :
              /\ IoFieldOf(obj.type, f, handler)
              /\ \A row \in Range(Value(config, f.name).rows) :
                   /\ f.shape \in {"option", "flag"} => row # << >>
                   /\ f.shape = "scalars" => Len(row) = 1 /\ row[1].how = "number"
                   /\ f.shape = "limits" => \A cell \in Range(row) : cell.how \in {"number", "missing"}
                   /\ f.shape = "flags" /\ row[1].how = "number" => row[1].of \in Nat
<1>1. obj.kind = "io" /\ obj.type \in DOMAIN Ios
  BY IoAssumption
<1>2. ~IsProgram /\ handler = Ios[obj.type]
  BY <1>1 DEF IsProgram, handler, OfKind
<1>3. \A key : Table(Value(config, key))
  <2>1. \A key \in DOMAIN config : Table(config[key])
    BY IoAssumption DEF config
  <2> QED BY <2>1, ValueIsTable DEF Given
<1>4. \A f \in Range(handler.encode) \cup Range(handler.fields) : IoFieldOf(obj.type, f, handler)
  BY <1>1, <1>2, IosNameFields DEF IoOf
<1>5. \A f \in Range(handler.encode) \cup Range(handler.fields) :
        \A row \in Range(Value(config, f.name).rows) :
          /\ f.shape \in {"option", "flag"} => row # << >>
          /\ f.shape = "scalars" => Len(row) = 1 /\ row[1].how = "number"
          /\ f.shape = "limits" => \A cell \in Range(row) : cell.how \in {"number", "missing"}
          /\ f.shape = "flags" /\ row[1].how = "number" => row[1].of \in Nat
  BY <1>2, IoAssumption DEF config
<1> QED BY <1>1, <1>2, <1>3, <1>4, <1>5

\* The limits that are given are numbers, and there is an item for each.
LEMMA LimitsMade ==
  ASSUME obj \in IoEntry, Limits \in Range(handler.encode) \cup Range(handler.fields), NEW d
  PROVE  Range(LimitItems(config, d)) \subseteq Items(Range(LimitKeys))
<1> DEFINE keys == LimitsGiven(config)
           rows == config["limits"].rows
           whole == {i \in 1..3 : \A c \in Range(rows[i]) : c.how # "missing"}
<1>1. Limits.name = "limits" /\ Limits.shape = "limits"
  BY DEF Limits, Field
<1>2. Range(<< >>) = {} /\ DOMAIN << >> = {}
  BY DEF Range
<1> SUFFICES ASSUME Mapping(config, "limits")
             PROVE  Range(LimitItems(config, d)) \subseteq Items(Range(LimitKeys))
  <2>1. ~Mapping(config, "limits") => keys = << >>
    BY DEF LimitsGiven
  <2>2. keys = << >> => Range(LimitItems(config, d)) = {}
    BY DEF LimitItems, Range
  <2> QED BY <2>1, <2>2
<1>3. Value(config, "limits").rows = rows /\ Table(Value(config, "limits")) /\ Len(rows) = 3
  BY IoFields, IoAssumption DEF Mapping, Value, config
<1>4. DOMAIN rows = 1..3
  <2>1. IsSequence(rows)
    BY <1>3, SequenceOverItself DEF Table
  <2> QED BY <1>3, <2>1, LenProperties DEF IsSequence
<1>5. keys = Known(<<1, 2, 3>>, whole)
  BY DEF LimitsGiven
<1> HIDE DEF whole
<1>6. Range(keys) \subseteq whole
  <2>1. IsSequence(<<1, 2, 3>>)
    BY TripleIsSequence
  <2>2. Range(Known(<<1, 2, 3>>, whole)) = Range(<<1, 2, 3>>) \cap whole
    BY <2>1, KnownRight
  <2>3. Range(keys) = Range(<<1, 2, 3>>) \cap whole
    BY <1>5, <2>2
  <2> HIDE DEF keys
  <2> QED BY <2>3
<1> HIDE DEF keys
<1>7. ASSUME NEW k \in whole
      PROVE  ItemOf(LimitKeys[k], RowWordsOf(rows[k], d)) \in Items(Range(LimitKeys))
  <2>1. k \in 1..3 /\ \A c \in Range(rows[k]) : c.how # "missing"
    BY DEF whole
  <2>2. Row(rows[k]) /\ rows[k] \in Range(rows) /\ IsSequence(rows[k])
    BY <1>3, <1>4, <2>1, FirstCell, SequenceOverItself DEF Row
  <2>3. \A c \in Range(rows[k]) : c.how = "number"
    BY <1>1, <1>3, <2>1, <2>2, IoFields
  <2>4. \A i \in DOMAIN rows[k] : rows[k][i].of \in Int
    BY <2>2, <2>3 DEF Row, Range
  <2>5. Only(RowWordsOf(rows[k], d), Mentionable)
    BY <2>2, <2>4, ScalarsMention
  <2>6. LimitKeys[k] \in Range(LimitKeys)
    BY <2>1 DEF LimitKeys, Range
  <2>7. ItemOf(LimitKeys[k], RowWordsOf(rows[k], d)) \in Items({LimitKeys[k]})
    BY <2>5, ItemMade DEF ItemOf
  <2> QED BY <2>6, <2>7 DEF Items
<1>8. LimitItems(config, d) = [i \in DOMAIN keys |-> ItemOf(LimitKeys[keys[i]], RowWordsOf(rows[keys[i]], d))]
  BY DEF LimitItems, keys
<1> HIDE DEF rows
<1> QED BY <1>6, <1>7, <1>8 DEF Range

LEMMA MaskIsInt ==
  ASSUME NEW v, IsSequence(v.rows), \A row \in Range(v.rows) : row[1].how = "number" => row[1].of \in Nat
  PROVE  Mask(v) \in Int
<1> DEFINE bits == [i \in DOMAIN v.rows |->
                      LET cell == v.rows[i][1] IN
                      IF cell.how = "number" /\ \A j \in 1..(i - 1) : ~Sets(v.rows[j][1], cell.of)
                      THEN 2^cell.of ELSE 0]
<1>1. IsSequence(bits)
  BY MappedIsSequence
<1>2. \A n \in Nat : 2^n \in Int
  OBVIOUS
<1>3. ASSUME NEW i \in DOMAIN bits
      PROVE  bits[i] \in Int
  <2>1. v.rows[i][1].how = "number" => v.rows[i][1].of \in Nat
    BY DEF Range
  <2>2. v.rows[i][1].how = "number" => 2^(v.rows[i][1].of) \in Int
    BY <1>2, <2>1
  <2>3. bits[i] \in {2^(v.rows[i][1].of), 0}
    OBVIOUS
  <2>4. v.rows[i][1].how # "number" => bits[i] = 0
    OBVIOUS
  <2> HIDE DEF bits
  <2> QED BY <2>2, <2>3, <2>4
<1>4. Mask(v) = Total(bits)
  BY DEF Mask
<1> HIDE DEF bits
<1> QED BY <1>1, <1>3, <1>4, TotalIsInt

\* The items of a field of an IO, in either dtype.
IoNames(f) == {f.name} \cup Range(LimitKeys)
LEMMA IoItemsMade ==
  ASSUME obj \in IoEntry, NEW f \in Range(handler.encode) \cup Range(handler.fields), NEW d
  PROVE  /\ Range(EncodeIoField(f, config, d)) \subseteq Items(IoNames(f))
         /\ Range(GenerateIoField(f, config, d)) \subseteq Items(IoNames(f))
         /\ IoCountOf(f, config) \in Nat
<1> DEFINE v == Value(config, f.name)
           rows == v.rows
<1>1. Table(v) /\ IoFieldOf(obj.type, f, handler)
  BY IoFields
<1>2. /\ f.shape \in {"option", "flag"} => << >> \notin Range(rows)
      /\ \A row \in Range(rows) :
           /\ f.shape = "scalars" => Len(row) = 1 /\ row[1].how = "number"
           /\ f.shape = "flags" /\ row[1].how = "number" => row[1].of \in Nat
  BY IoFields
<1>3. IsSequence(rows) /\ DOMAIN rows = 1..Len(rows) /\ Len(rows) \in Nat
  BY <1>1, SequenceOverItself, LenProperties DEF Table, IsSequence
<1>4. Items({f.name}) \subseteq Items(IoNames(f)) /\ Items(Range(LimitKeys)) \subseteq Items(IoNames(f))
  BY DEF Items, IoNames
<1>5. ASSUME NEW words, Only(words, Mentionable)
      PROVE  Range(<<ItemOf(f.name, words)>>) \subseteq Items(IoNames(f))
  BY <1>4, <1>5, ItemMade DEF ItemOf
<1>6. Range(<< >>) = {}
  BY DEF Range
<1>7. \A e \in Int : Only(<<e>>, Mentionable)
  BY OnlyJoined
<1> HIDE DEF v
<1>8. Given(config, f.name) => config[f.name] = v
  BY DEF v, Value
<1>9. Range(IoItems(f, config, d)) \subseteq Items(IoNames(f))
  <2>1. CASE f.shape = "limits"
    <3>1. Limits \in Range(handler.encode) \cup Range(handler.fields)
      BY <1>1, <2>1 DEF IoFieldOf
    <3>2. IoItems(f, config, d) = LimitItems(config, d)
      BY <2>1 DEF IoItems
    <3> QED BY <1>4, <3>1, <3>2, LimitsMade
  <2>2. CASE f.shape = "scalars"
    <3> DEFINE cells == [i \in DOMAIN rows |-> rows[i][1]]
    <3>1. IsSequence(cells)
      BY <1>3, MappedIsSequence
    <3>2. ASSUME NEW i \in DOMAIN rows
          PROVE  rows[i][1].of \in Int
      <4>1. Row(rows[i]) /\ rows[i] \in Range(rows) /\ DOMAIN rows[i] = 1..Len(rows[i])
        BY <1>1, FirstCell
      <4>2. rows[i][1].how = "number" /\ 1 \in DOMAIN rows[i]
        BY <1>2, <2>2, <4>1
      <4>3. Number(rows[i][1], 0) \in Int
        BY <4>1, <4>2, NumbersAreInt
      <4> QED BY <4>2, <4>3 DEF Number
    <3>3. \A i \in DOMAIN cells : cells[i].of \in Int
      BY <3>2
    <3>4. ScalarsOf(v, d) = RowWordsOf(cells, d)
      BY DEF ScalarsOf
    <3> HIDE DEF cells
    <3>5. Only(ScalarsOf(v, d), Mentionable)
      BY <3>1, <3>3, <3>4, ScalarsMention
    <3>6. IoItems(f, config, d) \in {<< >>, <<ItemOf(f.name, ScalarsOf(v, d))>>}
      BY <2>2 DEF IoItems, v
    <3> QED BY <1>5, <1>6, <3>5, <3>6
  <2>3. CASE f.shape = "targets"
    <3>1. Only(References(v), Mentionable)
      BY <1>1, ReferencesRefer, OnlyMentioned
    <3>2. IoItems(f, config, d) \in {<< >>, <<ItemOf(f.name, References(v))>>}
      BY <2>3 DEF IoItems, v
    <3> QED BY <1>5, <1>6, <3>1, <3>2
  <2>4. CASE f.shape = "flags"
    <3>1. Only(<<Mask(v)>>, Mentionable)
      BY <1>2, <1>3, <1>7, <2>4, MaskIsInt
    <3>2. IoItems(f, config, d) \in {<< >>, <<ItemOf(f.name, <<Mask(v)>>)>>}
      BY <2>4 DEF IoItems, v
    <3> QED BY <1>5, <1>6, <3>1, <3>2
  <2>5. CASE f.shape = "option"
    <3>1. Numeral(v, 1, 0) \in Int
      BY <1>1, <1>2, <2>5, NumeralsAreInt
    <3>2. Only(<<Numeral(v, 1, 0)>>, Mentionable)
      BY <1>7, <3>1
    <3>3. ProtocolWords(f, config, Ref) \in {<< >>, <<Numeral(v, 1, 0)>>}
      BY <2>5 DEF ProtocolWords, v
    <3>4. IoItems(f, config, d) = EncodeProtocolField(f, config, Ref)
      BY <2>5 DEF IoItems
    <3>5. IoItems(f, config, d) \in {<< >>, <<ItemOf(f.name, <<Numeral(v, 1, 0)>>)>>}
      BY <3>3, <3>4 DEF EncodeProtocolField, ItemOf
    <3> QED BY <1>5, <1>6, <3>2, <3>5
  <2>6. CASE f.shape \in {"notify", "flag"}
    <3>1. IoItems(f, config, d) = << >>
      BY <2>6 DEF IoItems
    <3> QED BY <1>6, <3>1
  <2> QED BY <1>1, <2>1, <2>2, <2>3, <2>4, <2>5, <2>6 DEF IoFieldOf
<1>10. ASSUME f.shape = "notify"
       PROVE  Only(NotifyWords(f, config), Mentionable)
  <2> DEFINE row == IF Mapping(config, f.name) THEN config[f.name].rows[1] ELSE << >>
  <2>1. f = Notify
    BY <1>1, <1>10 DEF IoFieldOf
  <2>2. f.name = "notify" /\ f.defaults[1] \in Int /\ f.defaults[2] \in Int /\ f.defaults[3] \in Int
    BY <2>1 DEF Notify, Field
  <2>3. Mapping(config, f.name) => Row(row)
    <3> SUFFICES ASSUME Mapping(config, f.name)
                 PROVE  Row(rows[1])
      BY <1>8 DEF Mapping
    <3>1. Len(rows) = 1
      BY <1>8, <2>2, IoAssumption DEF Mapping, config
    <3>2. 1 \in DOMAIN rows
      BY <1>3, <3>1
    <3> QED BY <1>1, <3>2, FirstCell
  <2>4. \A i \in 1..3 : i \in DOMAIN row => Number(row[i], f.defaults[i]) \in Int
    <3>1. \A i \in 1..3 : f.defaults[i] \in Int
      BY <2>2
    <3>2. ~Mapping(config, f.name) => DOMAIN row = {}
      OBVIOUS
    <3> HIDE DEF row
    <3> QED BY <2>3, <3>1, <3>2, NumbersAreInt
  <2>5. NotifyWords(f, config) =
          [i \in 1..3 |-> IF i \in DOMAIN row THEN Number(row[i], f.defaults[i]) ELSE f.defaults[i]]
    BY DEF NotifyWords
  <2> HIDE DEF row
  <2>6. \A i \in 1..3 : NotifyWords(f, config)[i] \in Int \cup Mentionable
    BY <2>2, <2>4, <2>5
  <2>7. NotifyWords(f, config) = [i \in 1..3 |-> NotifyWords(f, config)[i]]
    BY <2>5
  <2> QED BY <2>6, <2>7, OnlyListed
<1>11. (f.shape = "flag" /\ Given(config, f.name)) => Numeral(config[f.name], 1, 0) \in Int
  BY <1>1, <1>2, <1>8, NumeralsAreInt
<1>12. Range(EncodeIoField(f, config, d)) \subseteq Items(IoNames(f))
  <2>1. CASE f.shape = "notify"
    <3>1. EncodeIoField(f, config, d) \in {<< >>, <<ItemOf(f.name, NotifyWords(f, config))>>}
      BY <2>1 DEF EncodeIoField
    <3> QED BY <1>5, <1>6, <1>10, <2>1, <3>1
  <2>2. CASE f.shape = "flag" /\ Given(config, f.name)
    <3> DEFINE bit == IF Numeral(config[f.name], 1, 0) = 0 THEN 0 ELSE 1
    <3>1. EncodeIoField(f, config, d) = <<ItemOf(f.name, <<bit>>)>>
      BY <2>2 DEF EncodeIoField
    <3>2. bit \in Int
      OBVIOUS
    <3> HIDE DEF bit
    <3> QED BY <1>5, <1>7, <3>1, <3>2
  <2>3. CASE f.shape # "notify" /\ ~(f.shape = "flag" /\ Given(config, f.name))
    <3>1. EncodeIoField(f, config, d) = IoItems(f, config, d)
      BY <2>3 DEF EncodeIoField
    <3> QED BY <1>9, <3>1
  <2> QED BY <2>1, <2>2, <2>3
<1>13. Range(GenerateIoField(f, config, d)) \subseteq Items(IoNames(f))
  <2>1. CASE f.shape = "notify"
    <3>1. GenerateIoField(f, config, d) \in {<< >>, <<ItemOf(f.name, NotifyWords(f, config))>>}
      BY <2>1 DEF GenerateIoField
    <3> QED BY <1>5, <1>6, <1>10, <2>1, <3>1
  <2>2. CASE f.shape = "flag" /\ Given(config, f.name)
    <3>1. GenerateIoField(f, config, d) = <<ItemOf(f.name, <<Numeral(config[f.name], 1, 0)>>)>>
      BY <2>2 DEF GenerateIoField
    <3> QED BY <1>5, <1>7, <1>11, <2>2, <3>1
  <2>3. CASE f.shape # "notify" /\ ~(f.shape = "flag" /\ Given(config, f.name))
    <3>1. GenerateIoField(f, config, d) = IoItems(f, config, d)
      BY <2>3 DEF GenerateIoField
    <3> QED BY <1>9, <3>1
  <2> QED BY <2>1, <2>2, <2>3
<1>14. IoCountOf(f, config) \in Nat
  <2>1. IsSequence(LimitsGiven(config))
    <3>1. IsSequence(<<1, 2, 3>>)
      BY TripleIsSequence
    <3> QED BY <3>1, KnownRight, EmptyIsSequence DEF LimitsGiven
  <2>2. Len(LimitsGiven(config)) \in Nat
    BY <2>1, LengthOfSequence
  <2> QED BY <2>2 DEF IoCountOf
<1> QED BY <1>12, <1>13, <1>14

-----------------------------------------------------------------------------
(* Types of wakaama's items                                                  *)

\* What the descriptor may hold, and what the check has seen of it.
LEMMA WakaamaFields ==
  ASSUME obj \in ProtocolEntry, obj.type = "wakaama", Accepts
  PROVE  /\ handler = Wakaama /\ ValidWakaama(config)
         /\ Table(Value(config, "objects")) /\ IsSequence(Value(config, "servers").rows)
         /\ \A key \in DOMAIN config \ {"servers"} : Table(config[key])
         /\ \A key \in DOMAIN config \ {"servers", "objects"} :
              config[key].rows # << >> /\ << >> \notin Range(config[key].rows)
<1>1. obj.kind = "protocol" /\ ~IsProgram
  BY ProtocolAssumption DEF IsProgram
<1>2. handler = Wakaama
  BY <1>1 DEF handler, OfKind, OfProtocol
<1>3. ValidWakaama(config)
  BY <1>1 DEF Accepts, OfKind, OfProtocol, config
<1>4. \A key \in DOMAIN config :
        IF key = "servers" THEN config[key].rows \in Seq(Range(config[key].rows)) ELSE Table(config[key])
  BY ProtocolAssumption DEF config
<1>5. \A key \in DOMAIN config \ {"servers", "objects"} :
        config[key].rows # << >> /\ << >> \notin Range(config[key].rows)
  BY ProtocolAssumption DEF config
<1>6. Table(Value(config, "objects"))
  BY <1>4, ValueIsTable DEF Value, Given
<1>7. IsSequence(Value(config, "servers").rows)
  BY <1>4, SequenceOverItself, EmptyIsSequence DEF Value, Given, Absent
<1> QED BY <1>2, <1>3, <1>4, <1>5, <1>6, <1>7

\* Every setting of a server that was checked is a number.
LEMMA ServerMentions ==
  ASSUME obj \in ProtocolEntry, obj.type = "wakaama", Accepts,
         NEW server \in Range(Value(config, "servers").rows), NEW n \in Int
  PROVE  Only(ServerWords(server, n), Mentionable)
<1> DEFINE host == IF Given(server, "host") THEN <<server["host"].of>> ELSE << >>
           port == IF Given(server, "port") THEN server["port"].of ELSE server["server_port"].of
           first == <<Pair16(Setting(server, "security_instance", n - 1),
                             Setting(server, "server_instance", n - 1)),
                      Pair16(Setting(server, "short_server_id", 0), port),
                      Setting(server, "lifetime", 0)>>
           more == <<Setting(server, "psk_identity", 0), Setting(server, "psk_key", 0)>>
           head == <<Magic, Flags(server), Setting(server, "holdoff", 0),
                     Setting(server, "bootstrap_timeout", 0), 1, 1, Len(host)>>
<1>1. \A key \in DOMAIN server : server[key].how = "number" => server[key].of \in Int
  BY ProtocolAssumption DEF config
<1>2. ValidServer(server)
  BY WakaamaFields DEF ValidWakaama
<1>3. Uint16Max \in Nat
  BY WakaamaAssumption
<1>4. ASSUME NEW key, NEW default \in Int
      PROVE  Setting(server, key, default) \in Int
  BY <1>1 DEF Setting, Given, Number
<1>5. \A high, low \in Int : Pair16(high, low) \in Int
  BY <1>3 DEF Pair16
<1>6. port \in Int
  <2>1. {"port", "server_port"} \cap DOMAIN server # {}
    BY <1>2 DEF ValidServer
  <2>2. \A key \in {"port", "server_port"} \cap DOMAIN server : server[key].of \in Int
    BY <1>2, <1>3 DEF ValidServer, Short, InRange
  <2> QED BY <2>1, <2>2 DEF Given
<1>7. host \in Seq(Int) /\ Len(host) \in Int
  <2>1. Given(server, "host") => server["host"].of \in Int
    BY <1>1, <1>2 DEF ValidServer, Given
  <2> QED BY <2>1
<1>8. Flags(server) \in Int
  <2>1. 2^16 \in Int
    OBVIOUS
  <2>2. Setting(server, "security_mode", 3) \in Int
    BY <1>4
  <2>3. \A m, b, p \in Int : 256 * m + b + p \in Int
    OBVIOUS
  <2> QED BY <2>1, <2>2, <2>3 DEF Flags
<1> HIDE DEF host, port
<1>9. first \in Seq(Int) /\ more \in Seq(Int) /\ << >> \in Seq(Int)
  <2>1. n - 1 \in Int
    OBVIOUS
  <2>2. /\ Pair16(Setting(server, "security_instance", n - 1),
                  Setting(server, "server_instance", n - 1)) \in Int
        /\ Pair16(Setting(server, "short_server_id", 0), port) \in Int
    BY <1>4, <1>5, <1>6, <2>1
  <2>3. /\ Setting(server, "lifetime", 0) \in Int
        /\ Setting(server, "psk_identity", 0) \in Int /\ Setting(server, "psk_key", 0) \in Int
    BY <1>4
  <2> QED BY <2>2, <2>3
<1>10. head \in Seq(Int)
  <2>1. Setting(server, "holdoff", 0) \in Int /\ Setting(server, "bootstrap_timeout", 0) \in Int
    BY <1>4
  <2>2. Magic \in Int
    BY DEF Magic
  <2> QED BY <1>7, <1>8, <2>1, <2>2
<1>11. ServerWords(server, n) = first \o (IF Extended(server) THEN head \o more \o host ELSE host)
  BY DEF ServerWords, host, port
<1> HIDE DEF first, more, head
<1>12. ServerWords(server, n) \in Seq(Int)
  BY <1>7, <1>9, <1>10, <1>11
<1> QED BY <1>12, SequenceOverItself DEF Only, Range, Mentionable

\* The ids of an entry that was checked are numbers, as are those the compiler declares.
LEMMA EntryNumbers ==
  ASSUME obj \in ProtocolEntry, obj.type = "wakaama", Accepts,
         NEW row \in Range(Value(config, "objects").rows), NEW i \in ResourcesOf(row)
  PROVE  /\ {1, 2, 3 * i, 3 * i + 1, 3 * i + 2} \subseteq DOMAIN row
         /\ \A id \in {row[1], row[3 * i]} :
              /\ ~NoId(id) => BinaryId(id) \in Int
              /\ TextId(id) \in Int \cup {Undeclared}
         /\ Number(row[2], 0) \in Int /\ Number(row[3 * i + 1], 1) \in Int
<1>1. Row(row) /\ ValidEntry(row)
  BY WakaamaFields DEF Table, ValidWakaama
<1>2. IsSequence(row)
  BY <1>1, SequenceOverItself DEF Row
<1>3. Len(row) \in Nat /\ DOMAIN row = 1..Len(row)
  BY <1>2, LenProperties DEF IsSequence
<1>4. {1, 2, 3 * i, 3 * i + 1, 3 * i + 2} \subseteq DOMAIN row
  <2>1. \A k \in Nat : \A j \in 1..((k - 2) \div 3) :
          {1, 2, 3 * j, 3 * j + 1, 3 * j + 2} \subseteq 1..k
    OBVIOUS
  <2> QED BY <1>3, <2>1 DEF ResourcesOf
<1>5. Number(row[2], 0) \in Int /\ Number(row[3 * i + 1], 1) \in Int
  BY <1>1, <1>4, NumbersAreInt
<1>6. /\ row # << >> /\ 0..Uint16Max \subseteq Int
      /\ \A cell \in Range(row) : cell.how = "symbol" => cell.of \in Int
  BY <1>1, ProtocolAssumption, WakaamaAssumption DEF ValidEntry, config
<1>7. \A id \in {row[1], row[3 * i]} :
        /\ id \in Range(row)
        /\ id.how \in {"number", "symbol", "unknown", "empty", "missing"}
        /\ id.how \in {"number", "empty"} => id.of \in Int
  <2>1. row[1] \in Range(row) /\ row[3 * i] \in Range(row)
    BY <1>4 DEF Range
  <2>2. row[1].how \in {"number", "symbol", "unknown", "empty", "missing"}
    BY <1>6, ProtocolAssumption DEF config
  <2>3. row[3 * i].how \in {"number", "symbol", "unknown", "empty", "missing", "scalar"}
    BY ProtocolAssumption DEF config
  <2>4. row[3 * i].how # "scalar"
    BY <1>1 DEF ValidEntry
  <2>5. IdInRange(row[1], Uint16Max) /\ IdInRange(row[3 * i], Uint16Max)
    BY <1>1 DEF ValidEntry
  <2> QED BY <1>6, <2>1, <2>2, <2>3, <2>4, <2>5 DEF IdInRange
<1>8. ASSUME NEW id \in {row[1], row[3 * i]}
      PROVE  /\ ~NoId(id) => BinaryId(id) \in Int
             /\ TextId(id) \in Int \cup {Undeclared}
  BY <1>6, <1>7 DEF NoId, BinaryId, TextId
<1> QED BY <1>4, <1>5, <1>8

\* The words of an entry's resources in both back ends.
LEMMA ResourcesMention ==
  ASSUME obj \in ProtocolEntry, obj.type = "wakaama", Accepts,
         NEW row \in Range(Value(config, "objects").rows)
  PROVE  /\ \A ids : ~EntryRaises(row, ids) => Only(BinaryResources(row), Mentionable)
         /\ Only(TextResources(row), Mentionable)
<1> DEFINE io(i) == Resolve(row[3 * i + 2])
           binaryWords(i) == <<Pair16(Number(row[2], 0), BinaryId(row[1])),
                               Pair16(Number(row[3 * i + 1], 1), BinaryId(row[3 * i]))>>
           textWords(i) == <<TextPair(Number(row[2], 0), TextId(row[1])),
                             TextPair(Number(row[3 * i + 1], 1), TextId(row[3 * i]))>>
           binarySeqs == [i \in ResourcesOf(row) |-> IF io(i) = << >> THEN << >> ELSE binaryWords(i) \o io(i)]
           textSeqs == [i \in ResourcesOf(row) |-> IF io(i) = << >> THEN << >> ELSE textWords(i) \o io(i)]
<1>1. Row(row)
  BY WakaamaFields DEF Table
<1>2. \A high, low \in Int : Pair16(high, low) \in Int
  BY WakaamaAssumption DEF Pair16
<1>3. \A high \in Int : \A low \in Int \cup {Undeclared} : TextPair(high, low) \in Int \cup Mentionable
  BY <1>2 DEF TextPair, Mentionable
<1>4. Only(<< >>, Mentionable) /\ \A s, t : Only(s, Mentionable) /\ Only(t, Mentionable) => Only(s \o t, Mentionable)
  BY OnlyJoined
<1>5. ASSUME NEW i \in ResourcesOf(row)
      PROVE  Only(io(i), Mentionable)
  <2>1. 3 * i + 2 \in DOMAIN row
    BY EntryNumbers
  <2> QED BY <1>1, <2>1, CellMentions DEF Only, Mentionable
<1>6. ASSUME NEW a \in Int \cup Mentionable, NEW b \in Int \cup Mentionable
      PROVE  Only(<<a, b>>, Mentionable)
  BY PairIsSequence DEF Only
<1>7. IsSequence(binarySeqs) /\ IsSequence(textSeqs) /\ DOMAIN binarySeqs = ResourcesOf(row) /\ DOMAIN textSeqs = ResourcesOf(row)
  <2>1. Len(row) \in Nat
    BY <1>1, SequenceOverItself DEF Row
  <2>2. \E k \in Nat : ResourcesOf(row) = 1..k
    <3>1. \A k \in Nat : LET m == (k - 2) \div 3 IN m \in Nat \/ 1..m = 1..0
      OBVIOUS
    <3> QED BY <2>1, <3>1 DEF ResourcesOf
  <2>3. ASSUME NEW k \in Nat, NEW g, g = [i \in 1..k |-> g[i]]
        PROVE  IsSequence(g) /\ DOMAIN g = 1..k
    <3>1. g \in Seq({g[i] : i \in 1..k}) /\ DOMAIN g = 1..k
      BY <2>3
    <3> QED BY <3>1 DEF IsSequence
  <2> QED BY <2>2, <2>3
<1>8. ASSUME NEW ids, ~EntryRaises(row, ids)
      PROVE  Only(BinaryResources(row), Mentionable)
  <2>1. ASSUME NEW i \in ResourcesOf(row)
        PROVE  Only(binarySeqs[i], Mentionable)
    <3>1. ~NoId(row[1]) /\ ~NoId(row[3 * i])
      BY <1>8, <2>1 DEF EntryRaises
    <3>2. /\ BinaryId(row[1]) \in Int /\ BinaryId(row[3 * i]) \in Int
          /\ Number(row[2], 0) \in Int /\ Number(row[3 * i + 1], 1) \in Int
      BY <3>1, EntryNumbers
    <3>3. Only(binaryWords(i), Mentionable)
      BY <1>2, <1>6, <3>2
    <3>4. binarySeqs[i] = IF io(i) = << >> THEN << >> ELSE binaryWords(i) \o io(i)
      OBVIOUS
    <3> HIDE DEF binarySeqs, binaryWords, io
    <3> QED BY <1>4, <1>5, <3>3, <3>4
  <2>2. BinaryResources(row) = FlattenSeq(binarySeqs)
    BY DEF BinaryResources
  <2> HIDE DEF binarySeqs
  <2> QED BY <1>7, <2>1, <2>2, OnlyFlat
<1>9. Only(TextResources(row), Mentionable)
  <2>1. ASSUME NEW i \in ResourcesOf(row)
        PROVE  Only(textSeqs[i], Mentionable)
    <3>1. /\ TextId(row[1]) \in Int \cup {Undeclared} /\ TextId(row[3 * i]) \in Int \cup {Undeclared}
          /\ Number(row[2], 0) \in Int /\ Number(row[3 * i + 1], 1) \in Int
      BY EntryNumbers
    <3>2. Only(textWords(i), Mentionable)
      BY <1>3, <1>6, <3>1
    <3>3. textSeqs[i] = IF io(i) = << >> THEN << >> ELSE textWords(i) \o io(i)
      OBVIOUS
    <3> HIDE DEF textSeqs, textWords, io
    <3> QED BY <1>4, <1>5, <3>2, <3>3
  <2>2. TextResources(row) = FlattenSeq(textSeqs)
    BY DEF TextResources
  <2> HIDE DEF textSeqs
  <2> QED BY <1>7, <2>1, <2>2, OnlyFlat
<1> QED BY <1>8, <1>9

LEMMA BlocksMention ==
  ASSUME NEW f, NEW words, IsSequence(words), \A i \in DOMAIN words : Only(words[i], Mentionable)
  PROVE  Range(BlockItems(f, words)) \subseteq Items({f.name})
<1> DEFINE block(i) == IF words[i] = << >> THEN << >>
                       ELSE <<Item(f.name, Len(words[i]), words[i])>>
           blocks == [i \in DOMAIN words |-> block(i)]
<1>1. IsSequence(blocks) /\ DOMAIN blocks = DOMAIN words
  BY MappedIsSequence
<1>2. ASSUME NEW i \in DOMAIN words
      PROVE  IsSequence(block(i)) /\ Range(block(i)) \subseteq Items({f.name})
  BY ItemMade, SingletonIsSequence, EmptyIsSequence
<1>3. \A i \in DOMAIN blocks : blocks[i] = block(i)
  OBVIOUS
<1>4. BlockItems(f, words) = FlattenSeq(blocks)
  BY DEF BlockItems
<1> HIDE DEF blocks, block
<1>5. Range(FlattenSeq(blocks)) = UNION {Range(blocks[i]) : i \in DOMAIN blocks}
  BY <1>1, <1>2, <1>3, FlattenIsSequence
<1>6. \A i \in DOMAIN blocks : Range(blocks[i]) \subseteq Items({f.name})
  BY <1>1, <1>2, <1>3
<1>7. Range(FlattenSeq(blocks)) \subseteq Items({f.name})
  BY <1>5, <1>6
<1> QED BY <1>4, <1>7

\* The items of a field of wakaama, in both back ends.
LEMMA WakaamaItemsMade ==
  ASSUME obj \in ProtocolEntry, obj.type = "wakaama", Accepts,
         NEW f \in Range(handler.encode) \cup Range(handler.fields)
  PROVE  /\ \A ids : ~EncodeWakaamaRaises(f, config, ids) =>
                Range(EncodeWakaama(f, config, ids)) \subseteq Items({f.name})
         /\ Range(GenerateWakaama(f, config)) \subseteq Items({f.name})
         /\ f \in Range(handler.fields) => WakaamaCount(f, config) \in Nat
<1> DEFINE v == Value(config, f.name)
           rows == v.rows
<1>1. handler = Wakaama /\ LwM2M(f)
  BY WakaamaFields, OthersNameFields
<1>2. /\ f.shape \in {"option", "fallback", "servers", "devicebind", "resources"}
      /\ f.shape = "servers" => f.name = "servers"
      /\ f.shape = "resources" => f.name = "objects"
      /\ f.shape \notin {"servers", "resources"} => f.name \notin {"servers", "objects"}
  BY <1>1 DEF LwM2M, Servers, Resources, Field
<1>3. ASSUME Given(config, f.name), f.shape \notin {"servers", "resources"}
      PROVE  /\ Table(config[f.name]) /\ << >> \notin Range(config[f.name].rows)
             /\ config[f.name].rows # << >>
  BY <1>2, <1>3, WakaamaFields DEF Given
<1>4. \A e \in Int \cup Mentionable : Range(<<Item(f.name, 1, <<e>>)>>) \subseteq Items({f.name})
  <2>1. \A e \in Int \cup Mentionable : Only(<<e>>, Mentionable)
    BY OnlyJoined
  <2> QED BY <2>1, ItemMade
<1>5. Range(<< >>) \subseteq Items({f.name})
  BY DEF Range
<1>6. ASSUME f.shape \in {"option", "fallback"}
      PROVE  Range(OptionItem(f, config)) \subseteq Items({f.name})
  <2>1. Given(config, f.name) => Numeral(config[f.name], 1, 0) \in Int
    BY <1>3, <1>6, NumeralsAreInt
  <2> QED BY <1>4, <1>5, <2>1 DEF OptionItem
<1>7. ASSUME f.shape = "devicebind", NEW ids
      PROVE  Range(DeviceItem(f, config, ids)) \subseteq Items({f.name})
  <2>1. ASSUME Given(config, f.name)
        PROVE  Id(v.rows[1][1], ids) \in Int \cup Mentionable
    <3>1. v = config[f.name]
      BY <2>1 DEF Value
    <3>2. Table(v) /\ 1 \in DOMAIN v.rows /\ v.rows[1] # << >>
      <4>1. IsSequence(v.rows)
        BY <1>3, <1>7, <2>1, <3>1, SequenceOverItself DEF Table
      <4>2. 1 \in DOMAIN v.rows
        BY <1>3, <1>7, <2>1, <3>1, <4>1, TailIsSequence
      <4>3. v.rows[1] \in Range(v.rows)
        BY <4>2 DEF Range
      <4> QED BY <1>3, <1>7, <2>1, <3>1, <4>2, <4>3
    <3> HIDE DEF v
    <3> QED BY <3>2, FirstCell, CellMentions
  <2> QED BY <1>4, <1>5, <2>1 DEF DeviceItem
<1>8. ASSUME f.shape = "servers"
      PROVE  Range(BlockItems(f, [i \in DOMAIN rows |-> ServerWords(rows[i], i)])) \subseteq Items({f.name})
  <2> DEFINE words == [i \in DOMAIN rows |-> ServerWords(rows[i], i)]
  <2>1. IsSequence(rows) /\ rows = Value(config, "servers").rows
    BY <1>2, <1>8, WakaamaFields
  <2>2. IsSequence(words)
    BY <2>1, MappedIsSequence
  <2>3. ASSUME NEW i \in DOMAIN rows
        PROVE  Only(ServerWords(rows[i], i), Mentionable)
    <3>1. rows[i] \in Range(Value(config, "servers").rows)
      BY <2>1 DEF Range
    <3>2. i \in Int
      BY <2>1, LenProperties DEF IsSequence
    <3> HIDE DEF rows
    <3> QED BY <3>1, <3>2, ServerMentions
  <2>4. \A i \in DOMAIN words : Only(words[i], Mentionable)
    BY <2>3
  <2> HIDE DEF words
  <2> QED BY <2>2, <2>4, BlocksMention DEF words
<1>9. ASSUME f.shape = "resources"
      PROVE  /\ IsSequence(rows)
             /\ \A i \in DOMAIN rows : rows[i] \in Range(Value(config, "objects").rows)
             /\ rows = Value(config, "objects").rows
  <2>1. rows = Value(config, "objects").rows
    BY <1>2, <1>9
  <2> QED BY <2>1, WakaamaFields, SequenceOverItself DEF Table, Range
<1>10. ASSUME f.shape = "resources", NEW ids, ~EncodeWakaamaRaises(f, config, ids)
       PROVE  Range(BlockItems(f, [i \in DOMAIN rows |-> BinaryResources(rows[i])])) \subseteq Items({f.name})
  <2> DEFINE words == [i \in DOMAIN rows |-> BinaryResources(rows[i])]
  <2>1. IsSequence(words)
    BY <1>9, <1>10, MappedIsSequence
  <2>2. \A i \in DOMAIN rows : ~EntryRaises(rows[i], ids)
    BY <1>9, <1>10 DEF EncodeWakaamaRaises
  <2>3. \A i \in DOMAIN words : Only(words[i], Mentionable)
    BY <1>9, <1>10, <2>2, ResourcesMention
  <2> HIDE DEF words
  <2> QED BY <2>1, <2>3, BlocksMention DEF words
<1>11. ASSUME f.shape = "resources"
       PROVE  Range(BlockItems(f, [i \in DOMAIN rows |-> TextResources(rows[i])])) \subseteq Items({f.name})
  <2> DEFINE words == [i \in DOMAIN rows |-> TextResources(rows[i])]
  <2>1. IsSequence(words)
    BY <1>9, <1>11, MappedIsSequence
  <2>2. \A i \in DOMAIN words : Only(words[i], Mentionable)
    BY <1>9, <1>11, ResourcesMention
  <2> HIDE DEF words
  <2> QED BY <2>1, <2>2, BlocksMention DEF words
<1>12. ASSUME NEW ids, ~EncodeWakaamaRaises(f, config, ids)
       PROVE  Range(EncodeWakaama(f, config, ids)) \subseteq Items({f.name})
  <2>1. CASE f.shape \in {"option", "fallback"}
    BY <1>5, <1>6, <2>1 DEF EncodeWakaama
  <2>2. CASE f.shape = "servers"
    BY <1>8, <2>2 DEF EncodeWakaama
  <2>3. CASE f.shape = "devicebind"
    BY <1>7, <2>3 DEF EncodeWakaama
  <2>4. CASE f.shape = "resources"
    BY <1>10, <1>12, <2>4 DEF EncodeWakaama
  <2> QED BY <1>2, <2>1, <2>2, <2>3, <2>4
<1>13. Range(GenerateWakaama(f, config)) \subseteq Items({f.name})
  <2>1. CASE f.shape = "resources"
    BY <1>11, <2>1 DEF GenerateWakaama
  <2>2. CASE f.shape # "resources"
    <3>1. ~EncodeWakaamaRaises(f, config, Ref)
      BY <2>2 DEF EncodeWakaamaRaises
    <3>2. GenerateWakaama(f, config) = EncodeWakaama(f, config, Ref)
      BY <2>2 DEF GenerateWakaama
    <3> QED BY <1>12, <3>1, <3>2
  <2> QED BY <2>1, <2>2
<1>14. ASSUME f \in Range(handler.fields)
       PROVE  WakaamaCount(f, config) \in Nat
  <2>1. AsCounted(GenerateWakaama(f, config), WakaamaCount(f, config))
    <3>1. "servers" \in DOMAIN config => IsSequence(config["servers"].rows)
      BY WakaamaFields DEF Value, Given
    <3> QED BY <1>1, <1>14, <3>1, WakaamaFields, WakaamaItemsCounted
  <2> QED BY <2>1, LenProperties DEF AsCounted, IsSequence
<1> QED BY <1>12, <1>13, <1>14

-----------------------------------------------------------------------------
(* Types of the images                                                       *)

LEMMA EntryTyped ==
  ASSUME obj \in Program \cup ProtocolEntry \cup IoEntry
  PROVE  /\ obj.kind \in {"program", "protocol", "io"}
         /\ obj.type \in
              OfKind(DOMAIN Handlers, DOMAIN Protocols \cup {"nimble", "wakaama"}, DOMAIN Ios)
<1>1. CASE obj \in Program
  BY <1>1, ProgramAssumption DEF OfKind, IsProgram
<1>2. CASE obj \in ProtocolEntry
  BY <1>2, ProtocolAssumption DEF OfKind, IsProgram
<1>3. CASE obj \in IoEntry
  BY <1>3, IoAssumption DEF OfKind, IsProgram
<1> QED BY <1>1, <1>2, <1>3

\* Whatever is named after a field, a limit or the header's binding has the type of an item.
LEMMA NamesTyped ==
  /\ \A f \in Range(handler.encode) \cup Range(handler.fields) :
       Items({f.name}) \subseteq ItemType /\ Items(IoNames(f)) \subseteq ItemType
  /\ Items({"iobind"}) \subseteq ItemType
<1> HIDE DEF handler
<1> DEFINE names == {f.name : f \in Range(handler.encode) \cup Range(handler.fields)}
                      \cup Range(LimitKeys) \cup {"iobind"}
<1>1. ItemType = Items(names)
  BY DEF ItemType, Items, Mentionable
<1>2. \A S \in SUBSET names : Items(S) \subseteq Items(names)
  <2> HIDE DEF names
  <2> QED BY DEF Items
<1>3. {"iobind"} \subseteq names
  OBVIOUS
<1>4. ASSUME NEW f \in Range(handler.encode) \cup Range(handler.fields)
      PROVE  {f.name} \subseteq names /\ IoNames(f) \subseteq names
  BY DEF IoNames
<1> HIDE DEF names
<1> QED BY <1>1, <1>2, <1>3, <1>4

\* What a field that does not raise gives to either image, and what it announces.
LEMMA FieldTyped ==
  ASSUME obj \in Program \cup ProtocolEntry \cup IoEntry, Accepts,
         NEW f \in Range(handler.encode) \cup Range(handler.fields)
  PROVE  /\ f \in Range(handler.encode) /\ ~Refuses(f) => Range(BinaryFor(f)) \subseteq ItemType
         /\ f \in Range(handler.fields) /\ ~RaisesAt(f) => Range(ItemsFor(f)) \subseteq ItemType
         /\ f \in Range(handler.fields) => CountFor(f) \in Nat
<1>1. Items({f.name}) \subseteq ItemType /\ Items(IoNames(f)) \subseteq ItemType
  BY NamesTyped
<1>2. CASE obj \in Program
  <2>1. IsProgram /\ Range(handler.fields) \subseteq Range(handler.encode)
    BY <1>2, ProgramFields
  <2>2. f \in Range(handler.encode)
    BY <2>1
  <2>3. /\ Range(EncodeField(f, config, known)) \subseteq Items({f.name})
        /\ Range(GenerateField(f, config)) \subseteq Items({f.name})
    BY <1>2, <2>2, ProgramItemsMade
  <2>4. /\ BinaryFor(f) = EncodeField(f, config, known)
        /\ ItemsFor(f) = GenerateField(f, config) /\ CountFor(f) = 1
    BY <2>1 DEF BinaryFor, ItemsFor, CountFor, OfKind, config
  <2> QED BY <1>1, <2>3, <2>4
<1>3. CASE obj \in IoEntry
  <2>1. ~IsProgram /\ obj.kind # "protocol"
    BY <1>3, IoAssumption DEF IsProgram
  <2>2. /\ BinaryFor(f) = EncodeIoField(f, config, dtype)
        /\ ItemsFor(f) = GenerateIoField(f, config, obj.dtype)
        /\ CountFor(f) = IoCountOf(f, config)
    BY <2>1 DEF BinaryFor, ItemsFor, CountFor, OfKind, config
  <2> QED BY <1>1, <1>3, <2>2, IoItemsMade
<1>4. ASSUME obj \in ProtocolEntry
      PROVE  ~IsProgram /\ obj.kind = "protocol" /\ obj.type \in DOMAIN Protocols \cup {"nimble", "wakaama"}
  BY <1>4, ProtocolAssumption DEF IsProgram
<1>5. CASE obj \in ProtocolEntry /\ obj.type = "nimble"
  <2>1. handler = Nimble
    BY <1>4, <1>5 DEF handler, OfKind, OfProtocol
  <2>2. Nimble.encode = Nimble.fields
    BY DEF Nimble, Alike, Differing
  <2>3. f \in Services
    BY <2>1, <2>2, OthersNameFields
  <2>4. /\ BinaryFor(f) = EncodeService(f, config, known)
        /\ ItemsFor(f) = GenerateService(f, config) /\ CountFor(f) = ServiceCount(f, config)
        /\ RaisesAt(f) = ServiceRaises(f, config)
    BY <1>4, <1>5 DEF BinaryFor, ItemsFor, CountFor, RaisesAt, OfKind, OfProtocol, config
  <2> QED BY <1>1, <1>5, <2>3, <2>4, NimbleItemsMade
<1>6. CASE obj \in ProtocolEntry /\ obj.type = "wakaama"
  <2>1. /\ BinaryFor(f) = EncodeWakaama(f, config, known)
        /\ ItemsFor(f) = GenerateWakaama(f, config) /\ CountFor(f) = WakaamaCount(f, config)
        /\ Refuses(f) = EncodeWakaamaRaises(f, config, known)
    BY <1>4, <1>6 DEF BinaryFor, ItemsFor, CountFor, Refuses, OfKind, OfProtocol, config
  <2> QED BY <1>1, <1>6, <2>1, WakaamaItemsMade
<1>7. CASE obj \in ProtocolEntry /\ obj.type \notin {"nimble", "wakaama"}
  <2>1. obj.type \in DOMAIN Protocols
    BY <1>4, <1>7
  <2>2. /\ BinaryFor(f) = EncodeProtocolField(f, config, known)
        /\ ItemsFor(f) = GenerateProtocolField(f, config) /\ CountFor(f) = CountOf(f, config)
        /\ RaisesAt(f) = BlockRaises(f, config)
    BY <1>4, <1>7 DEF BinaryFor, ItemsFor, CountFor, RaisesAt, OfKind, OfProtocol, config
  <2> QED BY <1>1, <1>7, <2>1, <2>2, ProtocolItemsMade
<1> QED BY <1>2, <1>3, <1>5, <1>6, <1>7

\* What the header announces is a number, whatever the config leaves out.
LEMMA HeaderTyped ==
  ASSUME obj \in Program \cup ProtocolEntry \cup IoEntry, Accepts, GenerateHeader
  PROVE  announced' \in Nat
<1> DEFINE fields == handler.fields
           counts == Counts(fields)
<1>1. IsSequence(fields) /\ Len(fields) \in Nat /\ DOMAIN fields = 1..Len(fields)
  BY HandlerHasOrders, LenProperties DEF IsSequence
<1>2. IsSequence(counts)
  BY <1>1, MappedIsSequence DEF Counts
<1>3. \A i \in DOMAIN counts : counts[i] \in Nat
  BY FieldTyped DEF Counts, Range
<1>4. Total(counts) \in Nat
  <2> HIDE DEF counts
  <2> QED BY <1>2, <1>3, TotalIsNat
<1>5. CASE obj \in Program
  <2>1. IsProgram /\ fields = Handlers[obj.type].fields
    BY <1>5, ProgramAssumption DEF IsProgram, handler, OfKind
  <2>2. announced' \in {Len(fields) + 1, Len(fields) + 0}
    BY <2>1 DEF GenerateHeader, Announced, OfKind
  <2> HIDE DEF fields
  <2> QED BY <1>1, <2>2
<1>6. CASE obj \notin Program
  <2>1. ~IsProgram
    BY <1>6, ProtocolAssumption, IoAssumption DEF IsProgram
  <2>2. announced' = Total(counts)
    <3>1. CASE obj.kind = "protocol" /\ obj.type = "nimble"
      <4>1. fields = Nimble.fields /\ announced' = NimbleAnnounced(obj.config)
        BY <2>1, <3>1 DEF GenerateHeader, handler, OfKind, OfProtocol
      <4>2. counts = [i \in DOMAIN fields |-> ServiceCount(fields[i], obj.config)]
        BY <2>1, <3>1 DEF Counts, CountFor, OfKind, OfProtocol
      <4> QED BY <4>1, <4>2 DEF NimbleAnnounced
    <3>2. CASE obj.kind = "protocol" /\ obj.type = "wakaama"
      <4>1. fields = Wakaama.fields /\ announced' = WakaamaAnnounced(obj.config)
        BY <2>1, <3>2 DEF GenerateHeader, handler, OfKind, OfProtocol
      <4>2. counts = [i \in DOMAIN fields |-> WakaamaCount(fields[i], obj.config)]
        BY <2>1, <3>2 DEF Counts, CountFor, OfKind, OfProtocol
      <4> QED BY <4>1, <4>2 DEF WakaamaAnnounced
    <3>3. CASE obj.kind = "protocol" /\ obj.type \notin {"nimble", "wakaama"}
      <4>1. fields = Protocols[obj.type].fields /\ announced' = ProtocolAnnounced(obj.type, obj.config)
        BY <2>1, <3>3 DEF GenerateHeader, handler, OfKind, OfProtocol
      <4>2. counts = [i \in DOMAIN fields |-> CountOf(fields[i], obj.config)]
        BY <2>1, <3>3 DEF Counts, CountFor, OfKind, OfProtocol
      <4> QED BY <4>1, <4>2 DEF ProtocolAnnounced
    <3>4. CASE obj.kind # "protocol"
      <4>1. fields = Ios[obj.type].fields /\ announced' = IoAnnounced(obj.type, obj.config)
        BY <2>1, <3>4 DEF GenerateHeader, handler, OfKind
      <4>2. counts = [i \in DOMAIN fields |-> IoCountOf(fields[i], obj.config)]
        BY <2>1, <3>4 DEF Counts, CountFor, OfKind
      <4> QED BY <4>1, <4>2 DEF IoAnnounced
    <3> QED BY <3>1, <3>2, <3>3, <3>4
  <2> HIDE DEF counts
  <2> QED BY <1>4, <2>2
<1> QED BY <1>5, <1>6

\* Types, and what a pass has left is a sequence.
Typed == TypeOK /\ IsSequence(todo)

LEMMA ItemsJoined ==
  ASSUME NEW s \in Seq(ItemType), NEW t, IsSequence(t), Range(t) \subseteq ItemType
  PROVE  s \o t \in Seq(ItemType)
<1> HIDE DEF ItemType
<1>1. t \in Seq(Range(t))
  BY DEF IsSequence, Range
<1>2. \A S, T : S \subseteq T => Seq(S) \subseteq Seq(T)
  OBVIOUS
<1>3. t \in Seq(ItemType)
  BY <1>1, <1>2
<1> QED BY <1>3, BothRanges

LEMMA TypedInit == Init => Typed
<1> SUFFICES ASSUME Init
             PROVE  Typed
  OBVIOUS
<1>1. obj \in Program \cup ProtocolEntry \cup IoEntry
  BY DEF Init
<1>2. IsSequence(handler.encode) /\ Len(handler.encode) \in Nat
  BY <1>1, HandlerHasOrders, LenProperties DEF IsSequence
<1>3. IsSequence(todo) /\ Len(todo) = 0
  BY EmptyIsSequence DEF Init
<1> HIDE DEF handler, ItemType
<1>4. \E fields \in {handler.encode, handler.fields} : Len(todo) <= Len(fields)
  BY <1>2, <1>3
<1>5. << >> \in Seq(ItemType)
  OBVIOUS
<1> QED BY <1>1, <1>3, <1>4, <1>5, EntryTyped DEF Init, Typed, TypeOK

LEMMA StepKeepsTyped == Passing /\ Typed /\ [Next]_vars => Typed'
<1> SUFFICES ASSUME Passing, Typed, [Next]_vars
             PROVE  Typed'
  OBVIOUS
<1>1. obj' = obj /\ defined' = defined
  BY InputKept
<1>2. handler' = handler /\ ItemType' = ItemType
  <2>1. handler' = handler
    BY <1>1, InputDecides
  <2> HIDE DEF handler
  <2> QED BY <2>1 DEF ItemType
<1>3. obj \in Program \cup ProtocolEntry \cup IoEntry
  BY DEF Passing
<1>4. /\ IsSequence(handler.encode) /\ IsSequence(handler.fields)
      /\ Len(handler.encode) \in Nat /\ Len(handler.fields) \in Nat
  BY <1>3, HandlerHasOrders, LenProperties DEF IsSequence
<1>5. \A f : IsSequence(BinaryFor(f)) /\ IsSequence(ItemsFor(f))
  BY <1>3, ItemsAreSequences
<1> DEFINE Few(s) == IsSequence(s) /\ \E fields \in {handler.encode, handler.fields} : Len(s) <= Len(fields)
<1>6. Few(todo) /\ Few(<< >>) /\ Few(handler.encode) /\ Few(handler.fields)
  BY <1>4, EmptyIsSequence DEF Typed, TypeOK
<1>7. todo # << >> => Few(Tail(todo))
  BY <1>4, <1>6, TailIsSequence
<1> HIDE DEF handler, ItemType
<1>8. SUFFICES /\ phase' \in {"decode", "binary", "text", "fields", "done"}
               /\ Few(todo') /\ announced' \in Nat
               /\ bin' \in Seq(ItemType) /\ text' \in Seq(ItemType)
               /\ binResult' \in {"pending", "ok", "raised"}
               /\ textResult' \in {"pending", "ok", "raised", "rejected"}
  <2>1. /\ obj'.kind \in {"program", "protocol", "io"} /\ defined' \subseteq Ref
        /\ (obj.type \in
              OfKind(DOMAIN Handlers, DOMAIN Protocols \cup {"nimble", "wakaama"}, DOMAIN Ios))'
    BY <1>1, <1>3, EntryTyped DEF Typed, TypeOK, OfKind, IsProgram
  <2> QED BY <1>2, <1>8, <2>1 DEF Typed, TypeOK
<1>9. CASE UNCHANGED vars
  BY <1>6, <1>9 DEF vars, binary, source, Typed, TypeOK
<1>10. CASE Accept \/ Refuse \/ EncodingRaises \/ EncodingDone \/ GenerationRaises \/ Compile
  <2>1. bin' = bin /\ text' = text /\ announced' = announced /\ Few(todo')
    BY <1>6, <1>10 DEF Accept, Refuse, EncodingRaises, EncodingDone, GenerationRaises, Compile,
                       binary, source
  <2>2. /\ phase' \in {"binary", "text", "done"}
        /\ binResult' \in {binResult, "ok", "raised"}
        /\ textResult' \in {textResult, "ok", "raised", "rejected"}
    BY <1>10 DEF Accept, Refuse, EncodingRaises, EncodingDone, GenerationRaises, Compile,
                 binary, source
  <2> QED BY <2>1, <2>2 DEF Typed, TypeOK
<1>11. CASE Encode
  <2>1. /\ phase = "binary" /\ phase' = phase /\ todo # << >> /\ todo' = Tail(todo)
        /\ bin' = bin \o BinaryFor(field) /\ ~Refuses(field)
        /\ UNCHANGED <<text, announced, binResult, textResult>>
    BY <1>11 DEF Encode, AtField, BinaryFor, BinaryItems, Refuses, FieldRaises, source
  <2>2. field \in Range(handler.encode) /\ Accepts
    BY <2>1, HeadLeaves DEF Passing, BinaryPass
  <2>3. Range(BinaryFor(field)) \subseteq ItemType
    BY <1>3, <2>1, <2>2, FieldTyped
  <2>4. bin' \in Seq(ItemType)
    BY <1>5, <2>1, <2>3, ItemsJoined DEF Typed, TypeOK
  <2> QED BY <1>7, <2>1, <2>4 DEF Typed, TypeOK
<1>12. CASE GenerateHeader
  <2>1. Accepts /\ ~HeaderRaises
    BY <1>12 DEF GenerateHeader, Passing
  <2>2. Header \subseteq ItemType
    <3>1. IsProgram => obj \in Program
      BY <1>3, ProtocolAssumption, IoAssumption DEF IsProgram
    <3>2. obj \in Program => Header \subseteq Items({"iobind"})
      BY <2>1, HeaderMade
    <3>3. Items({"iobind"}) \subseteq ItemType
      BY NamesTyped
    <3> QED BY <3>1, <3>2, <3>3 DEF Header
  <2>3. text' \in {<< >>} \cup {<<item>> : item \in Header}
    BY <1>12 DEF GenerateHeader, Header
  <2>4. text' \in Seq(ItemType)
    <3>1. << >> \in Seq(ItemType) /\ \A item \in ItemType : <<item>> \in Seq(ItemType)
      OBVIOUS
    <3> QED BY <2>2, <2>3, <3>1
  <2>5. announced' \in Nat
    BY <1>3, <1>12, <2>1, HeaderTyped
  <2>6. /\ phase' = "fields" /\ todo' = handler.fields
        /\ UNCHANGED <<bin, binResult, textResult>>
    BY <1>12 DEF GenerateHeader, binary
  <2> QED BY <1>6, <2>4, <2>5, <2>6 DEF Typed, TypeOK
<1>13. CASE Generate
  <2>1. /\ phase = "fields" /\ phase' = phase /\ todo # << >> /\ todo' = Tail(todo)
        /\ text' = text \o ItemsFor(field) /\ ~RaisesAt(field)
        /\ UNCHANGED <<bin, announced, binResult, textResult>>
    BY <1>13 DEF Generate, AtField, ItemsFor, TextItems, RaisesAt, TextFieldRaises, binary
  <2>2. field \in Range(handler.fields) /\ Accepts
    BY <2>1, HeadLeaves DEF Passing, TextPass
  <2>3. Range(ItemsFor(field)) \subseteq ItemType
    BY <1>3, <2>1, <2>2, FieldTyped
  <2>4. text' \in Seq(ItemType)
    BY <1>5, <2>1, <2>3, ItemsJoined DEF Typed, TypeOK
  <2> QED BY <1>7, <2>1, <2>4 DEF Typed, TypeOK
<1> QED BY <1>9, <1>10, <1>11, <1>12, <1>13 DEF Next

\* For any types, configs and defined names, every item of either image has a name of its
\* type's handler, and nothing but numbers, objects of the descriptor and symbols the
\* compiler refuses; what is announced is a number.
THEOREM TypeCorrect == Spec => []TypeOK
<1>1. Typed => TypeOK
  BY DEF Typed
<1> QED
  BY <1>1, PassingInit, StepKeepsPassing, TypedInit, StepKeepsTyped, PTL DEF Spec
=============================================================================
