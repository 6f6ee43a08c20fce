------------------------- MODULE DescriptorImageProofs -------------------------
(***************************************************************************)
(* The binary can be walked and holds what the descriptor refers to, is    *)
(* refused only for a cause, and agrees with the generated source where    *)
(* both back ends treat an entry alike: proofs for DescriptorImage.        *)
(***************************************************************************)
EXTENDS DescriptorImage, WellFoundedInduction, FiniteSetTheorems, SequenceTheorems, TLAPS

\* What decode_objects hands to the back ends.
Decoded ==
  /\ spec \in Seq(Entry) /\ meta \in Metadata
  /\ \A k \in DOMAIN spec : spec[k].kind = "config" => Len(spec[k].refs) = 1
  /\ \A j, k \in DOMAIN spec : j < k => Rank(spec[j]) <= Rank(spec[k])

-----------------------------------------------------------------------------
(* Numbers, names and positions                                              *)

LEMMA LeastNumber ==
  ASSUME NEW S \in SUBSET Nat, S # {}
  PROVE  \E m \in S : \A k \in S : m <= k
<1>1. IsWellFoundedOn(OpToRel(<, Nat), Nat)
  BY NatLessThanWellFounded
<1>2. PICK m \in S : \A k \in S : ~(<<k, m>> \in OpToRel(<, Nat))
  BY <1>1, WFMin
<1>3. ASSUME NEW k \in S, k < m
      PROVE  <<k, m>> \in OpToRel(<, Nat)
  BY <1>2, <1>3 DEF OpToRel
<1>4. \A k \in S : ~(k < m)
  BY <1>2, <1>3
<1> QED BY <1>4

LEMMA MaxIsGreatest ==
  ASSUME NEW S \in SUBSET Nat, S # {}, NEW b \in Nat, \A k \in S : k <= b
  PROVE  Max(S) \in S /\ \A k \in S : k <= Max(S)
<1> DEFINE over == {c \in Nat : \A k \in S : k <= c}
<1>1. PICK m \in over : \A c \in over : m <= c
  <2>1. over \in SUBSET Nat /\ over # {}
    OBVIOUS
  <2> QED BY <2>1, LeastNumber
<1>2. m \in S
  <2> SUFFICES ASSUME m \notin S
               PROVE  FALSE
    OBVIOUS
  <2>1. \A k \in S : k \in Nat /\ k < m
    BY <1>1
  <2>2. m # 0
    <3>1. PICK k \in S : TRUE
      OBVIOUS
    <3>2. k \in Nat /\ k < m /\ m \in Nat
      BY <1>1, <2>1
    <3> QED BY ONLY <3>2
  <2>3. m - 1 \in over
    BY <1>1, <2>1, <2>2
  <2> QED BY <1>1, <2>3
<1>3. \A k \in S : m >= k
  BY <1>1
<1>4. Max(S) \in S /\ \A k \in S : Max(S) >= k
  BY <1>2, <1>3 DEF Max
<1> QED BY <1>4

LEMMA SpecTyped ==
  ASSUME Decoded
  PROVE  /\ Len(spec) \in Nat /\ DOMAIN spec = 1..Len(spec)
         /\ \A k \in DOMAIN spec : spec[k] \in Entry
         /\ \A n : Positions(n) \in SUBSET Nat /\ \A k \in Positions(n) : k <= Len(spec)
<1>1. Len(spec) \in Nat /\ DOMAIN spec = 1..Len(spec)
  BY DEF Decoded
<1> QED BY <1>1 DEF Decoded, Positions

\* The last entry of a name is one of its name.
LEMMA LastFound ==
  ASSUME Decoded, NEW n \in Defined
  PROVE  /\ Last(n) \in DOMAIN spec /\ spec[Last(n)].id = n
         /\ \A k \in Positions(n) : k <= Last(n)
<1>1. Positions(n) # {}
  BY DEF Defined, Positions
<1>2. Last(n) \in Positions(n) /\ \A k \in Positions(n) : k <= Last(n)
  BY <1>1, SpecTyped, MaxIsGreatest DEF Last
<1> QED BY <1>2 DEF Positions

LEMMA DefinedNames ==
  ASSUME Decoded
  PROVE  Defined \subseteq Name /\ \A k \in DOMAIN spec : spec[k].id \in Defined
  BY SpecTyped DEF Defined, Entry

\* What a table of names must say when the entries before p have been serialized.
KnownFor(table, p) ==
  /\ table \in [Name -> 0..Len(spec)]
  /\ \A n \in Name :
       /\ table[n] # 0 => table[n] \in Positions(n)
       /\ table[n] # 0 <=> \E k \in Positions(n) : k < p \/ spec[k].kind = "program"

LEMMA ProgramsKnown ==
  ASSUME Decoded
  PROVE  KnownFor(Preregister, 1)
<1> SUFFICES ASSUME NEW n \in Name
             PROVE  /\ Preregister[n] \in 0..Len(spec)
                    /\ Preregister[n] # 0 => Preregister[n] \in Positions(n)
                    /\ Preregister[n] # 0
                         <=> \E k \in Positions(n) : k < 1 \/ spec[k].kind = "program"
  BY DEF KnownFor, Preregister
<1> DEFINE programs == {k \in Positions(n) : spec[k].kind = "program"}
           found == {0} \cup programs
<1>1. Positions(n) \in SUBSET (1..Len(spec)) /\ Len(spec) \in Nat
  BY SpecTyped DEF Positions
<1>2. found \in SUBSET Nat /\ found # {} /\ \A k \in found : k <= Len(spec)
  BY <1>1
<1>3. Max(found) \in found /\ \A k \in found : k <= Max(found)
  BY <1>1, <1>2, MaxIsGreatest
<1>4. Preregister[n] = Max(found)
  BY DEF Preregister
<1> HIDE DEF found
<1>5. Max(found) # 0 <=> programs # {}
  <2>1. CASE programs = {}
    BY <1>3, <2>1 DEF found
  <2>2. CASE programs # {}
    <3>1. PICK k \in programs : TRUE
      BY <2>2
    <3>2. k \in Nat /\ k # 0 /\ k <= Max(found)
      BY <1>1, <1>3, <3>1 DEF found
    <3> QED BY <2>2, <3>2
  <2> QED BY <2>1, <2>2
<1>6. Max(found) \in 0..Len(spec) /\ (Max(found) # 0 => Max(found) \in Positions(n))
  BY <1>1, <1>3 DEF found
<1>7. programs # {} <=> \E k \in Positions(n) : k < 1 \/ spec[k].kind = "program"
  BY <1>1
<1> QED BY <1>4, <1>5, <1>6, <1>7

LEMMA NamesKnown ==
  ASSUME Decoded, pos \in DOMAIN spec, KnownFor(known, pos)
  PROVE  KnownFor(Names, pos + 1)
<1>1. pos \in 1..Len(spec) /\ Len(spec) \in Nat /\ entry.id \in Name /\ pos \in Positions(entry.id)
  BY SpecTyped DEF entry, Entry, Positions
<1>2. Names \in [Name -> 0..Len(spec)]
        /\ \A n \in Name : Names[n] = IF n = entry.id THEN pos ELSE known[n]
  BY <1>1 DEF KnownFor, Names
<1>3. ASSUME NEW n \in Name
      PROVE  /\ Names[n] # 0 => Names[n] \in Positions(n)
             /\ Names[n] # 0 <=> \E k \in Positions(n) : k < pos + 1 \/ spec[k].kind = "program"
  <2>1. CASE n = entry.id
    BY <1>1, <1>2, <2>1
  <2>2. CASE n # entry.id
    <3>1. pos \notin Positions(n)
      BY <2>2 DEF Positions, entry
    <3>2. \A k \in Positions(n) : k \in Nat /\ (k < pos + 1 <=> k < pos)
      BY <1>1, <3>1, SpecTyped
    <3> QED BY <1>2, <2>2, <3>2 DEF KnownFor
  <2> QED BY <2>1, <2>2
<1> QED BY <1>2, <1>3 DEF KnownFor

-----------------------------------------------------------------------------
(* The words of references                                                   *)

\* One step of the walk that leaves out zeros.
KeptStep(words, f, n) ==
  IF n = 0 THEN << >>
  ELSE IF words[n] = 0 THEN f[n - 1] ELSE Append(f[n - 1], words[n])

NonZero(words, n) == {i \in 1..n : words[i] # 0}

\* What the first n words leave.
KeptRight(words, n, left) ==
  /\ left \in Seq({words[i] : i \in DOMAIN words} \ {0})
  /\ Len(left) = Cardinality(NonZero(words, n))
  /\ NonZero(words, n) = 1..n => Len(left) = n /\ \A i \in 1..n : left[i] = words[i]

\* A table of what is left exists for any length.
LEMMA KeptExists ==
  ASSUME NEW words, NEW n \in Nat
  PROVE  \E f : f = [k \in 0..n |-> KeptStep(words, f, k)]
<1> DEFINE Fails == {m \in 0..n : ~\E f : f = [k \in 0..m |-> KeptStep(words, f, k)]}
<1> SUFFICES ASSUME Fails # {}
             PROVE  FALSE
  OBVIOUS
<1>1. PICK m \in Fails : \A k \in Fails : m <= k
  <2>1. Fails \in SUBSET Nat
    OBVIOUS
  <2> QED BY <2>1, LeastNumber
<1>2. m # 0
  <2> DEFINE f == [k \in 0..0 |-> << >>]
  <2>1. f = [k \in 0..0 |-> KeptStep(words, f, k)]
    BY DEF KeptStep
  <2> QED BY <1>1, <2>1
<1>3. m \in Nat /\ m - 1 \in 0..n /\ m - 1 \in Nat /\ ~(m <= m - 1)
  BY <1>1, <1>2
<1>4. PICK f : f = [k \in 0..(m - 1) |-> KeptStep(words, f, k)]
  BY <1>1, <1>3
<1> DEFINE g == [k \in 0..m |-> KeptStep(words, f, k)]
<1>5. \A k \in 0..(m - 1) : g[k] = f[k]
  BY <1>3, <1>4
<1>6. \A k \in 0..m : k # 0 => k - 1 \in 0..(m - 1)
  BY <1>3
<1>7. \A k \in 0..m : KeptStep(words, f, k) = KeptStep(words, g, k)
  <2> HIDE DEF g
  <2> QED BY <1>5, <1>6 DEF KeptStep
<1>8. g = [k \in 0..m |-> KeptStep(words, g, k)]
  BY <1>7
<1> HIDE DEF g
<1> QED BY <1>1, <1>8

\* Leaving out zeros keeps all others, in order.
LEMMA KeptInOrder ==
  ASSUME NEW words \in Seq(Nat)
  PROVE  KeptRight(words, Len(words), Kept(words))
<1> DEFINE n == Len(words)
           h == CHOOSE f : f = [k \in 0..n |-> KeptStep(words, f, k)]
<1>1. n \in Nat /\ DOMAIN words = 1..n /\ \A i \in 1..n : words[i] \in Nat
  OBVIOUS
<1>2. Kept(words) = h[n]
  BY DEF Kept, KeptStep
<1>3. h = [k \in 0..n |-> KeptStep(words, h, k)]
  BY <1>1, KeptExists
<1> HIDE DEF h, n
<1>4. \A k \in 0..n : h[k] = KeptStep(words, h, k)
  BY <1>3
<1> DEFINE Fails == {m \in 0..n : ~KeptRight(words, m, h[m])}
<1> SUFFICES ASSUME Fails # {}
             PROVE  FALSE
  BY <1>1, <1>2 DEF n
<1>5. PICK m \in Fails : \A k \in Fails : m <= k
  <2>1. Fails \in SUBSET Nat
    BY <1>1
  <2> QED BY <2>1, LeastNumber
<1>6. m # 0
  <2>1. h[0] = << >>
    BY <1>1, <1>4 DEF KeptStep
  <2>2. NonZero(words, 0) = {} /\ \A i \in 1..0 : FALSE
    BY DEF NonZero
  <2>3. Cardinality(NonZero(words, 0)) = 0
    BY <2>2, FS_EmptySet, Zenon
  <2>4. << >> \in Seq({words[i] : i \in DOMAIN words} \ {0}) /\ Len(<< >>) = 0
    BY EmptySeq
  <2>5. KeptRight(words, 0, << >>)
    BY <2>2, <2>3, <2>4 DEF KeptRight
  <2> QED BY <1>5, <2>1, <2>5
<1>7. m \in 1..n /\ m - 1 \in 0..n /\ m - 1 \in Nat /\ ~(m <= m - 1)
  BY <1>1, <1>5, <1>6
<1> DEFINE left == h[m - 1]
           T == {words[i] : i \in DOMAIN words} \ {0}
<1>8. KeptRight(words, m - 1, left)
  BY <1>5, <1>7
<1>9. h[m] = IF words[m] = 0 THEN left ELSE Append(left, words[m])
  BY <1>4, <1>5, <1>6 DEF KeptStep
<1> HIDE DEF left
<1>10. \A i : i \in 1..m <=> i \in 1..(m - 1) \/ i = m
  BY <1>1, <1>7
<1>11. left \in Seq(T) /\ m \notin NonZero(words, m - 1) /\ IsFiniteSet(NonZero(words, m - 1))
  <2>1. IsFiniteSet(1..(m - 1))
    BY <1>7, FS_Interval
  <2>2. NonZero(words, m - 1) \in SUBSET (1..(m - 1))
    BY DEF NonZero
  <2>3. m \notin 1..(m - 1)
    BY <1>7
  <2> QED BY <1>8, <2>1, <2>2, <2>3, FS_Subset DEF KeptRight
<1>12. CASE words[m] = 0
  <2>1. NonZero(words, m) = NonZero(words, m - 1)
    BY <1>10, <1>12 DEF NonZero
  <2>2. NonZero(words, m) # 1..m
    BY <1>10, <1>12 DEF NonZero
  <2>3. KeptRight(words, m, left)
    BY <1>8, <2>1, <2>2 DEF KeptRight
  <2> QED BY <1>5, <1>9, <1>12, <2>3
<1>13. CASE words[m] # 0
  <2>1. NonZero(words, m) = NonZero(words, m - 1) \cup {m}
    BY <1>10, <1>13 DEF NonZero
  <2>2. Cardinality(NonZero(words, m)) = Cardinality(NonZero(words, m - 1)) + 1
    BY <1>11, <2>1, FS_AddElement
  <2>3. words[m] \in T
    BY <1>1, <1>7, <1>13
  <2> DEFINE more == Append(left, words[m])
  <2>4. /\ more \in Seq(T) /\ Len(more) = Len(left) + 1
        /\ \A i \in 1..Len(left) : more[i] = left[i]
        /\ more[Len(left) + 1] = words[m]
    BY <1>11, <2>3, AppendProperties
  <2> HIDE DEF more
  <2>5. ASSUME NonZero(words, m) = 1..m
        PROVE  Len(more) = m /\ \A i \in 1..m : more[i] = words[i]
    <3>1. NonZero(words, m - 1) = 1..(m - 1)
      BY <1>10, <1>11, <2>1, <2>5 DEF NonZero
    <3>2. Len(left) = m - 1 /\ \A i \in 1..(m - 1) : left[i] = words[i]
      BY <1>8, <3>1 DEF KeptRight
    <3>3. Len(more) = m /\ more[m] = words[m]
      BY <1>7, <2>4, <3>2
    <3> QED BY <1>10, <2>4, <3>2, <3>3
  <2>6. KeptRight(words, m, more)
    BY <1>8, <2>2, <2>4, <2>5 DEF KeptRight
  <2> QED BY <1>5, <1>9, <1>13, <2>6 DEF more
<1> QED BY <1>12, <1>13

\* Each reference has the word of an entry of its name.
Resolves(words, refs) ==
  /\ words \in Seq(DOMAIN spec) /\ Len(words) = Len(refs)
  /\ \A i \in DOMAIN refs : words[i] \in Positions(refs[i])

\* Words of known names are those of entries; those of unknown names are left out, and
\* where there are none every reference has its word.
LEMMA WordsResolve ==
  ASSUME Decoded, KnownFor(Names, pos + 1), NEW refs \in Seq(Name)
  PROVE  /\ FlexWords(refs) \in Seq(DOMAIN spec)
         /\ Len(FlexWords(refs)) = Cardinality({i \in DOMAIN refs : Names[refs[i]] # 0})
         /\ StrictRefs(refs) => Resolves(FlexWords(refs), refs)
<1> DEFINE words == Words(refs)
           n == Len(refs)
<1>1. n \in Nat /\ DOMAIN refs = 1..n /\ \A i \in 1..n : refs[i] \in Name
  OBVIOUS
<1>2. Len(spec) \in Nat /\ DOMAIN spec = 1..Len(spec)
  BY SpecTyped
<1>3. words = [i \in 1..n |-> Names[refs[i]]]
  BY <1>1 DEF Words
<1>4. \A i \in 1..n : words[i] = Names[refs[i]] /\ words[i] \in 0..Len(spec)
  BY <1>1, <1>3 DEF KnownFor
<1>5. words \in [1..n -> Nat]
  BY <1>2, <1>3, <1>4
<1>6. words \in Seq(Nat) /\ Len(words) = n /\ DOMAIN words = 1..n
  <2>1. words \in Seq(Nat)
    BY <1>1, <1>5, SeqDef
  <2>2. DOMAIN words = 1..n
    BY <1>3
  <2> QED BY <1>1, <2>1, <2>2, LenProperties
<1> HIDE DEF words
<1>7. KeptRight(words, n, FlexWords(refs))
  BY <1>6, KeptInOrder DEF FlexWords, words
<1>8. {words[i] : i \in DOMAIN words} \ {0} \subseteq DOMAIN spec
  BY <1>2, <1>4, <1>6
<1>9. FlexWords(refs) \in Seq(DOMAIN spec)
  BY <1>7, <1>8, SeqMonotonic DEF KeptRight
<1>10. NonZero(words, n) = {i \in DOMAIN refs : Names[refs[i]] # 0}
  BY <1>1, <1>4 DEF NonZero
<1>11. ASSUME StrictRefs(refs)
       PROVE  Resolves(FlexWords(refs), refs)
  <2>1. NonZero(words, n) = 1..n
    BY <1>1, <1>4, <1>11 DEF NonZero, StrictRefs, Unresolved
  <2>2. Len(FlexWords(refs)) = n /\ \A i \in 1..n : FlexWords(refs)[i] = words[i]
    BY <1>7, <2>1 DEF KeptRight
  <2>3. \A i \in 1..n : words[i] \in Positions(refs[i])
    BY <1>1, <1>4, <2>1 DEF NonZero, KnownFor
  <2> QED BY <1>1, <1>9, <2>2, <2>3 DEF Resolves
<1> QED BY <1>7, <1>9, <1>10, <1>11 DEF KeptRight

-----------------------------------------------------------------------------
(* Items                                                                     *)

Items(word) == [cfg : Cfg, rw : BOOLEAN, words : Seq(word)]

LEMMA ItemTyped ==
  ASSUME NEW T, NEW cfg \in Cfg, NEW rw \in BOOLEAN, NEW words \in Seq(T)
  PROVE  Item(cfg, rw, words) \in Items(T)
  BY DEF Item, Items

LEMMA OneTyped ==
  ASSUME NEW S, NEW x \in S
  PROVE  <<x>> \in Seq(S)
  OBVIOUS

LEMMA TwoTyped ==
  ASSUME NEW S, NEW x \in S, NEW y \in S
  PROVE  <<x, y>> \in Seq(S)
  OBVIOUS

\* Something or nothing.
LEMMA AtMostOne ==
  ASSUME NEW S, NEW x \in S, NEW present \in BOOLEAN
  PROVE  LET s == IF present THEN <<x>> ELSE << >> IN
         /\ s \in Seq(S) /\ Len(s) = (IF present THEN 1 ELSE 0)
         /\ \A i \in 1..Len(s) : s[i] = x
<1>1. <<x>> \in Seq(S) /\ Len(<<x>>) = 1 /\ <<x>>[1] = x
  OBVIOUS
<1>2. << >> \in Seq(S) /\ Len(<< >>) = 0
  BY EmptySeq
<1>3. \A i : ~(i \in 1..0) /\ (i \in 1..1 => i = 1)
  OBVIOUS
<1> QED BY <1>1, <1>2, <1>3

\* An element of two sequences in a row is one of either.
LEMMA EitherPart ==
  ASSUME NEW S, NEW a \in Seq(S), NEW b \in Seq(S)
  PROVE  /\ a \o b \in Seq(S) /\ Len(a \o b) = Len(a) + Len(b) /\ Len(a \o b) \in Nat
         /\ \A i \in 1..Len(a \o b) : \/ \E k \in 1..Len(a) : (a \o b)[i] = a[k]
                                     \/ \E k \in 1..Len(b) : (a \o b)[i] = b[k]
<1>1. /\ a \o b \in Seq(S) /\ Len(a \o b) = Len(a) + Len(b)
      /\ \A i \in 1..(Len(a) + Len(b)) :
           (a \o b)[i] = IF i <= Len(a) THEN a[i] ELSE b[i - Len(a)]
  BY ConcatProperties
<1>2. Len(a) \in Nat /\ Len(b) \in Nat
  BY LenProperties
<1>3. \A i \in 1..(Len(a) + Len(b)) :
        (i <= Len(a) /\ i \in 1..Len(a)) \/ (~(i <= Len(a)) /\ i - Len(a) \in 1..Len(b))
  BY <1>2
<1> QED BY <1>1, <1>2, <1>3

\* A program's bounds are items of their own, only one of which can be writable.
LEMMA BoundsTyped ==
  ASSUME NEW T, NEW bounds, NEW rw \in BOOLEAN
  PROVE  /\ BoundItems(bounds, rw) \in Seq(Items(T))
         /\ Len(BoundItems(bounds, rw)) \in Nat
         /\ bounds = Bound => Len(BoundItems(bounds, rw)) = 2
         /\ \A i \in 1..Len(BoundItems(bounds, rw)) :
              LET item == BoundItems(bounds, rw)[i] IN
              item.cfg \in Bound /\ (item.rw => rw) /\ item.words = << >>
<1> DEFINE least == Item("min", rw, << >>)
           most  == Item("max", FALSE, << >>)
           low == IF "min" \in bounds THEN <<least>> ELSE << >>
           high == IF "max" \in bounds THEN <<most>> ELSE << >>
<1>1. least \in Items(T) /\ most \in Items(T)
  BY EmptySeq DEF Item, Items, Cfg
<1>2. \A x \in {least, most} : x.cfg \in Bound /\ (x.rw => rw) /\ x.words = << >>
  BY DEF Item, Bound
<1> HIDE DEF least, most
<1>3. /\ low \in Seq(Items(T)) /\ Len(low) = (IF "min" \in bounds THEN 1 ELSE 0)
      /\ \A i \in 1..Len(low) : low[i] = least
  BY <1>1, AtMostOne
<1>4. /\ high \in Seq(Items(T)) /\ Len(high) = (IF "max" \in bounds THEN 1 ELSE 0)
      /\ \A i \in 1..Len(high) : high[i] = most
  BY <1>1, AtMostOne
<1>5. BoundItems(bounds, rw) = low \o high
  BY DEF BoundItems, least, most
<1> HIDE DEF low, high
<1>6. /\ low \o high \in Seq(Items(T)) /\ Len(low \o high) = Len(low) + Len(high)
      /\ Len(low \o high) \in Nat
      /\ \A i \in 1..Len(low \o high) : (low \o high)[i] \in {least, most}
  <2>1. low \in Seq(Items(T)) /\ high \in Seq(Items(T))
    BY <1>3, <1>4
  <2>2. /\ low \o high \in Seq(Items(T)) /\ Len(low \o high) = Len(low) + Len(high)
        /\ Len(low \o high) \in Nat
        /\ \A i \in 1..Len(low \o high) : \/ \E k \in 1..Len(low) : (low \o high)[i] = low[k]
                                          \/ \E k \in 1..Len(high) : (low \o high)[i] = high[k]
    BY ONLY <2>1, EitherPart
  <2> QED BY <1>3, <1>4, <2>2
<1>7. bounds = Bound => Len(low \o high) = 2
  BY <1>3, <1>4, <1>6 DEF Bound
<1> QED BY <1>2, <1>5, <1>6, <1>7

\* An item before others.
LEMMA OneBefore ==
  ASSUME NEW S, NEW x \in S, NEW b \in Seq(S)
  PROVE  /\ <<x>> \o b \in Seq(S) /\ Len(<<x>> \o b) = 1 + Len(b)
         /\ (<<x>> \o b)[1] = x
         /\ \A i \in 2..(1 + Len(b)) : (<<x>> \o b)[i] = b[i - 1]
<1> DEFINE a == <<x>>
<1>1. a \in Seq(S) /\ Len(a) = 1 /\ a[1] = x /\ Len(b) \in Nat
  OBVIOUS
<1> HIDE DEF a
<1>2. /\ a \o b \in Seq(S) /\ Len(a \o b) = Len(a) + Len(b)
      /\ \A i \in 1..(Len(a) + Len(b)) :
           (a \o b)[i] = IF i <= Len(a) THEN a[i] ELSE b[i - Len(a)]
  BY <1>1, ConcatProperties
<1>3. \A i \in 1..(1 + Len(b)) : (a \o b)[i] = IF i <= 1 THEN a[i] ELSE b[i - 1]
  BY <1>1, <1>2
<1>4. 1 \in 1..(1 + Len(b)) /\ \A i \in 2..(1 + Len(b)) : i \in 1..(1 + Len(b)) /\ ~(i <= 1)
  BY <1>1
<1>5. /\ a \o b \in Seq(S) /\ Len(a \o b) = 1 + Len(b) /\ (a \o b)[1] = x
      /\ \A i \in 2..(1 + Len(b)) : (a \o b)[i] = b[i - 1]
  BY <1>1, <1>2, <1>3, <1>4
<1> QED BY <1>5 DEF a

\* Sources and outputs alternate.
LEMMA Alternate ==
  ASSUME NEW T, NEW s \in Seq(T), NEW o \in Seq(T), Len(s) = Len(o)
  PROVE  /\ Interleave(s, o) \in Seq(T) /\ Len(Interleave(s, o)) = 2 * Len(s)
         /\ \A i \in 1..(2 * Len(s)) :
              /\ Interleave(s, o)[i] = IF i % 2 = 1 THEN s[(i + 1) \div 2] ELSE o[i \div 2]
              /\ IF i % 2 = 1 THEN (i + 1) \div 2 \in 1..Len(s) ELSE i \div 2 \in 1..Len(o)
<1> DEFINE n == Len(s)
           both == [i \in 1..(2 * n) |-> IF i % 2 = 1 THEN s[(i + 1) \div 2] ELSE o[i \div 2]]
<1>1. n \in Nat /\ 2 * n \in Nat /\ Len(o) = n
  OBVIOUS
<1>2. \A i \in 1..n : s[i] \in T /\ o[i] \in T
  BY <1>1
<1> HIDE DEF n
<1>3. ASSUME NEW i \in 1..(2 * n)
      PROVE  IF i % 2 = 1 THEN (i + 1) \div 2 \in 1..n ELSE i \div 2 \in 1..n
  BY <1>1, SMTT(30)
<1>4. both \in [1..(2 * n) -> T]
  BY <1>2, <1>3
<1>5. Interleave(s, o) = both
  BY DEF Interleave, n
<1>6. both \in Seq(T) /\ DOMAIN both = 1..(2 * n)
  BY <1>1, <1>4, SeqDef
<1>7. Len(both) = 2 * n
  <2> HIDE DEF both
  <2> QED BY <1>1, <1>6, LenProperties
<1> QED BY <1>1, <1>3, <1>5, <1>6, <1>7 DEF n

-----------------------------------------------------------------------------
(* What each back end makes of one entry                                     *)

Named == {"control", "protocol"}
Binding(e) == IF e.kind = "control" THEN "AllocObj" ELSE "IOBind"

\* Every reference has an entry of its name that is no later than programs are.
Early(refs) == \A i \in DOMAIN refs : \E k \in Positions(refs[i]) : Rank(spec[k]) <= 2

\* The pairs of a program: as many sources as outputs, and where all are Early, all.
Pairs(s, o, e) ==
  /\ s \in Seq(DOMAIN spec) /\ o \in Seq(DOMAIN spec) /\ Len(s) = Len(o)
  /\ Early(e.refs) => Resolves(s, e.refs)
  /\ Early(e.outs) => Resolves(o, e.outs)

PairItems(s, o) ==
  IF s = << >> THEN << >> ELSE <<Item("IOBind", FALSE, Interleave(s, o))>>

\* What desc-bin writes for an entry.
Serializes(items, e) ==
  \/ e.kind = "io" /\ e.path = "handler" /\ items = <<Item("Own", e.id \in Grants, << >>)>>
  \/ e.kind = "io" /\ e.path # "handler" /\ items = << >>
  \/ e.kind \in Named /\ e.refs = << >> /\ items = << >>
  \/ e.kind \in Named /\ e.refs # << >>
       /\ \E w : Resolves(w, e.refs) /\ items = <<Item(Binding(e), FALSE, w)>>
  \/ e.kind = "config" /\ items = << >>
  \/ e.kind = "config"
       /\ \E w \in DOMAIN spec :
            items = <<Item("Alloc", e.refs[1] \in Grants, <<FieldWord>>),
                      Item("Cfg", FALSE, <<w>>)>>
  \/ e.kind = "program"
       /\ \E s, o : Pairs(s, o, e) /\ items = PairItems(s, o) \o BoundItems(e.bounds, FALSE)

\* What desc-gen writes for an entry, and the number it announces; n is its name.
Generates(count, items, e, n) ==
  \/ e.kind = "io" /\ count = 1 /\ items = <<Item("Own", n \in HelperGrants, << >>)>>
  \/ e.kind \in Named /\ e.refs = << >> /\ count = 0 /\ items = << >>
  \/ e.kind \in Named /\ e.refs # << >> /\ count = 1
       /\ items = <<Item(Binding(e), FALSE, e.refs)>>
  \/ e.kind = "config" /\ count = 0 /\ items = << >>
  \/ e.kind = "config" /\ count = 2
       /\ items = <<Item("Cfg", e.refs[1] \in HelperGrants, <<Field>>),
                    Item("Alloc", FALSE, <<e.refs[1]>>)>>
  \/ e.kind = "program" /\ count = 1 + Cardinality(Bound) /\ Len(e.refs) = Len(e.outs)
       /\ items = <<Item("IOBind", FALSE, Interleave(e.refs, e.outs))>>
                    \o BoundItems(e.bounds, n \in Grants)
  \/ e.kind = "system" /\ count = 0 /\ items = << >>

\* Nothing of this changes with the passes.
LEMMA MeansTheSame ==
  ASSUME UNCHANGED spec
  PROVE  /\ \A items, e : Serializes(items, e)' <=> Serializes(items, e)
         /\ \A count, items, e, n : Generates(count, items, e, n)' <=> Generates(count, items, e, n)
<1>1. Defined' = Defined /\ \A n : Positions(n)' = Positions(n)
  BY DEF Defined, Positions
<1>2. \A n : Last(n)' = Last(n)
  BY <1>1 DEF Last
<1>3. \A n, kinds : Is(n, kinds)' = Is(n, kinds)
  BY <1>1, <1>2 DEF Is
<1>4. Grants' = Grants
  BY <1>1, <1>2, <1>3 DEF Grants
<1>5. HelperGrants' = HelperGrants
  BY <1>2, <1>4 DEF HelperGrants
<1>6. /\ \A refs : Early(refs)' <=> Early(refs)
      /\ \A words, refs : Resolves(words, refs)' <=> Resolves(words, refs)
  BY <1>1 DEF Early, Resolves
<1>7. \A s, o, e : Pairs(s, o, e)' <=> Pairs(s, o, e)
  BY <1>6 DEF Pairs
<1>8. ASSUME NEW items, NEW e
      PROVE  Serializes(items, e)' <=> Serializes(items, e)
  BY <1>4, <1>6, <1>7, Zenon DEF Serializes
<1>9. \A count, items, e, n : Generates(count, items, e, n)' <=> Generates(count, items, e, n)
  BY <1>4, <1>5 DEF Generates
<1> QED BY <1>8, <1>9

LEMMA SerializedTyped ==
  ASSUME Decoded, NEW m \in DOMAIN spec, NEW items, Serializes(items, spec[m])
  PROVE  items \in Seq(Items(Nat))
<1> DEFINE e == spec[m]
<1>1. e \in Entry /\ DOMAIN spec \subseteq Nat /\ Len(spec) \in Nat
  BY SpecTyped
<1>2. << >> \in Seq(Items(Nat)) /\ << >> \in Seq(Nat)
  BY EmptySeq
<1> HIDE DEF e
<1>3. CASE e.kind = "io" /\ items = <<Item("Own", e.id \in Grants, << >>)>>
  <2> DEFINE item == Item("Own", e.id \in Grants, << >>)
  <2>1. item \in Items(Nat)
    BY <1>2 DEF Item, Items, Cfg
  <2>2. items = <<item>>
    BY <1>3
  <2> HIDE DEF item
  <2> QED BY ONLY <2>1, <2>2, OneTyped
<1>4. CASE \E w : Resolves(w, e.refs) /\ items = <<Item(Binding(e), FALSE, w)>>
  <2>1. PICK w : Resolves(w, e.refs) /\ items = <<Item(Binding(e), FALSE, w)>>
    BY <1>4
  <2>2. w \in Seq(Nat)
    BY <1>1, <2>1, SeqMonotonic DEF Resolves
  <2> DEFINE item == Item(Binding(e), FALSE, w)
  <2>3. item \in Items(Nat)
    BY <2>2 DEF Item, Items, Cfg, Binding
  <2>4. items = <<item>>
    BY <2>1
  <2> HIDE DEF item
  <2> QED BY ONLY <2>3, <2>4, OneTyped
<1>5. CASE \E w \in DOMAIN spec :
             items = <<Item("Alloc", e.refs[1] \in Grants, <<FieldWord>>),
                       Item("Cfg", FALSE, <<w>>)>>
  <2>1. PICK w \in DOMAIN spec : items = <<Item("Alloc", e.refs[1] \in Grants, <<FieldWord>>),
                                           Item("Cfg", FALSE, <<w>>)>>
    BY <1>5
  <2>2. <<w>> \in Seq(Nat) /\ <<FieldWord>> \in Seq(Nat)
    BY <1>1, <2>1 DEF FieldWord
  <2> DEFINE field == Item("Alloc", e.refs[1] \in Grants, <<FieldWord>>)
             target == Item("Cfg", FALSE, <<w>>)
  <2>3. field \in Items(Nat) /\ target \in Items(Nat)
    BY <2>2 DEF Item, Items, Cfg
  <2>4. items = <<field, target>>
    BY <2>1
  <2> HIDE DEF field, target
  <2> QED BY ONLY <2>3, <2>4, TwoTyped
<1>6. CASE \E s, o : Pairs(s, o, e) /\ items = PairItems(s, o) \o BoundItems(e.bounds, FALSE)
  <2>1. PICK s, o : Pairs(s, o, e) /\ items = PairItems(s, o) \o BoundItems(e.bounds, FALSE)
    BY <1>6
  <2>2. s \in Seq(Nat) /\ o \in Seq(Nat) /\ Len(s) = Len(o)
    BY <1>1, <2>1, SeqMonotonic DEF Pairs
  <2>3. Interleave(s, o) \in Seq(Nat)
    BY <2>2, Alternate
  <2> DEFINE item == Item("IOBind", FALSE, Interleave(s, o))
  <2>4. item \in Items(Nat)
    BY <2>3 DEF Item, Items, Cfg
  <2>5. PairItems(s, o) \in Seq(Items(Nat))
    <3>1. PairItems(s, o) = IF s = << >> THEN << >> ELSE <<item>>
      BY DEF PairItems
    <3> HIDE DEF item
    <3>2. <<item>> \in Seq(Items(Nat))
      BY ONLY <2>4, OneTyped
    <3> QED BY <1>2, <3>1, <3>2
  <2>6. BoundItems(e.bounds, FALSE) \in Seq(Items(Nat))
    BY BoundsTyped
  <2> QED BY <2>1, <2>5, <2>6, ConcatProperties
<1> QED BY <1>2, <1>3, <1>4, <1>5, <1>6 DEF Serializes, e

\* The words of generated text name objects or the config field.
LEMMA GeneratedTyped ==
  ASSUME Decoded, NEW m \in DOMAIN spec, NEW n, NEW count, NEW items,
         Generates(count, items, spec[m], n)
  PROVE  count \in Nat /\ items \in Seq(Items(Name \cup {Field}))
<1> DEFINE e == spec[m]
           W == Name \cup {Field}
<1>1. e \in Entry /\ e.refs \in Seq(Name) /\ e.outs \in Seq(Name)
  BY SpecTyped DEF Entry
<1>2. << >> \in Seq(Items(W)) /\ << >> \in Seq(W)
  BY EmptySeq
<1>3. e.refs \in Seq(W) /\ e.outs \in Seq(W)
  BY <1>1, SeqMonotonic
<1>4. Cardinality(Bound) = 2
  <2>1. Bound = {"min"} \cup {"max"} /\ "max" \notin {"min"}
    BY DEF Bound
  <2>2. IsFiniteSet({"min"}) /\ Cardinality({"min"}) = 1
    BY FS_Singleton
  <2> QED BY <2>1, <2>2, FS_AddElement
<1>5. e.kind = "config" => e.refs[1] \in W
  BY <1>1 DEF Decoded
<1> HIDE DEF e, W
<1>6. CASE count = 1 /\ items = <<Item("Own", n \in HelperGrants, << >>)>>
  <2> DEFINE item == Item("Own", n \in HelperGrants, << >>)
  <2>1. item \in Items(W)
    BY <1>2 DEF Item, Items, Cfg
  <2>2. items = <<item>>
    BY <1>6
  <2> HIDE DEF item
  <2>3. items \in Seq(Items(W))
    BY ONLY <2>1, <2>2, OneTyped
  <2> QED BY <1>6, <2>3 DEF W
<1>7. CASE count = 1 /\ items = <<Item(Binding(e), FALSE, e.refs)>>
  <2> DEFINE item == Item(Binding(e), FALSE, e.refs)
  <2>1. item \in Items(W)
    BY <1>3 DEF Item, Items, Cfg, Binding
  <2>2. items = <<item>>
    BY <1>7
  <2> HIDE DEF item
  <2>3. items \in Seq(Items(W))
    BY ONLY <2>1, <2>2, OneTyped
  <2> QED BY <1>7, <2>3 DEF W
<1>8. CASE /\ e.kind = "config" /\ count = 2
           /\ items = <<Item("Cfg", e.refs[1] \in HelperGrants, <<Field>>),
                        Item("Alloc", FALSE, <<e.refs[1]>>)>>
  <2>1. <<Field>> \in Seq(W) /\ <<e.refs[1]>> \in Seq(W)
    BY <1>5, <1>8 DEF W
  <2> DEFINE field == Item("Cfg", e.refs[1] \in HelperGrants, <<Field>>)
             target == Item("Alloc", FALSE, <<e.refs[1]>>)
  <2>2. field \in Items(W) /\ target \in Items(W)
    BY <2>1 DEF Item, Items, Cfg
  <2>3. items = <<field, target>>
    BY <1>8
  <2> HIDE DEF field, target
  <2>4. items \in Seq(Items(W))
    BY ONLY <2>2, <2>3, TwoTyped
  <2> QED BY <1>8, <2>4 DEF W
<1>9. CASE /\ count = 1 + Cardinality(Bound) /\ Len(e.refs) = Len(e.outs)
           /\ items = <<Item("IOBind", FALSE, Interleave(e.refs, e.outs))>>
                        \o BoundItems(e.bounds, n \in Grants)
  <2>1. Interleave(e.refs, e.outs) \in Seq(W)
    BY <1>3, <1>9, Alternate
  <2> DEFINE item == Item("IOBind", FALSE, Interleave(e.refs, e.outs))
             granted == n \in Grants
  <2>2. item \in Items(W)
    BY <2>1 DEF Item, Items, Cfg
  <2>3. items = <<item>> \o BoundItems(e.bounds, granted) /\ granted \in BOOLEAN
    BY <1>9
  <2> HIDE DEF item, granted
  <2>4. BoundItems(e.bounds, granted) \in Seq(Items(W))
    BY <2>3, BoundsTyped
  <2>5. items \in Seq(Items(W))
    BY ONLY <2>2, <2>3, <2>4, OneBefore
  <2>6. count \in Nat
    BY <1>4, <1>9
  <2> QED BY <2>5, <2>6 DEF W
<1>10. (count = 0 /\ items = << >>) => (count \in Nat /\ items \in Seq(Items(W)))
  BY <1>2
<1> QED BY <1>6, <1>7, <1>8, <1>9, <1>10 DEF Generates, e, W

-----------------------------------------------------------------------------
(* The passes *)

MetadataObject(of) == Obj(of, 1, <<Item("Metadata", FALSE, << >>)>>)

\* The binary holds the metadata, if it has any, and the first n entries, each with the
\* number of its items.
BinExtra == IF meta = "version" THEN 1 ELSE 0
BinRight(n) ==
  /\ Len(bin) = BinExtra + n
  /\ \A k \in DOMAIN bin : bin[k].count = Len(bin[k].items)
  /\ meta = "version" => bin[1] = MetadataObject(0)
  /\ \A k \in 1..n : /\ bin[BinExtra + k].of = k
                     /\ Serializes(bin[BinExtra + k].items, spec[k])

\* The text has the same, by the last entry of each name.
TextExtra == IF meta \in {"version", "null"} THEN 1 ELSE 0
TextRight(n) ==
  /\ Len(text) = TextExtra + n
  /\ meta \in {"version", "null"} => text[1] = MetadataObject(Field)
  /\ \A k \in 1..n :
       LET o == text[TextExtra + k] IN
       /\ o.of = spec[k].id
       /\ Generates(o.count, o.items, spec[Last(spec[k].id)], spec[k].id)

TextCount == Cardinality(Defined) + (IF meta = "none" THEN 0 ELSE 1)

BinInv ==
  /\ binCount = Len(bin)
  /\ bin = << >> \/ \E n \in 0..Len(spec) : BinRight(n)
  /\ phase = "binary" =>
       /\ binResult = "pending" /\ pos <= Len(spec) + 1
       /\ pos = 0 => bin = << >>
       /\ pos # 0 => BinRight(pos - 1) /\ KnownFor(known, pos)
  /\ binResult = "ok" => BinRight(Len(spec))
  /\ RaisesForCause

TextInv ==
  /\ phase = "binary" => text = << >>
  /\ phase = "cpp" =>
       /\ pos <= Len(spec) + 1
       /\ pos = 0 => text = << >>
       /\ pos # 0 => TextRight(pos - 1) /\ cppCount = TextCount
  /\ phase = "compile" => TextRight(Len(spec)) /\ cppCount = TextCount
  /\ phase # "done" => cppResult = "pending"
  /\ cppResult # "ok" => cpp = << >>
  /\ cppResult = "ok" =>
       /\ TextRight(Len(spec)) /\ cppCount = TextCount
       /\ \A k \in DOMAIN text : Mentioned(text[k]) \subseteq Defined \cup {Field}
       /\ cpp = [k \in DOMAIN text |-> Compiled(text[k])]

ImageInv == Decoded /\ TypeOK /\ BinInv /\ TextInv

LEMMA StillRight ==
  ASSUME UNCHANGED input
  PROVE  /\ UNCHANGED bin => \A n : BinRight(n)' <=> BinRight(n)
         /\ UNCHANGED text => \A n : TextRight(n)' <=> TextRight(n)
         /\ Decoded => Decoded' /\ TextCount' = TextCount
         /\ (RaisesForCause /\ UNCHANGED binResult) => RaisesForCause'
<1>1. /\ UNCHANGED spec /\ UNCHANGED meta
      /\ Defined' = Defined /\ \A n : Positions(n)' = Positions(n)
  BY DEF input, Defined, Positions
<1>2. \A n : Last(n)' = Last(n)
  BY <1>1 DEF Last
<1>3. UNCHANGED bin => \A n : BinRight(n)' <=> BinRight(n)
  BY <1>1, MeansTheSame DEF BinRight, BinExtra
<1>4. UNCHANGED text => \A n : TextRight(n)' <=> TextRight(n)
  BY <1>1, <1>2, MeansTheSame DEF TextRight, TextExtra
<1>5. (Decoded => Decoded') /\ TextCount' = TextCount
  BY <1>1 DEF Decoded, TextCount
<1>6. (RaisesForCause /\ UNCHANGED binResult) => RaisesForCause'
  <2>1. \A k, refs : Resolvable(k, refs)' = Resolvable(k, refs)
    BY <1>1 DEF Resolvable, InOrder
  <2> QED BY <1>1, <2>1 DEF RaisesForCause
<1> QED BY <1>1, <1>3, <1>4, <1>5, <1>6

LEMMA ObjectTyped ==
  ASSUME NEW T, NEW of \in T, NEW count \in Nat, NEW items \in Seq(Items(T))
  PROVE  Obj(of, count, items) \in Object(T, T)
  BY DEF Obj, Object, Items

LEMMA MetadataTyped ==
  ASSUME NEW T, NEW of \in T
  PROVE  /\ <<MetadataObject(of)>> \in Seq(Object(T, T))
         /\ MetadataObject(of).count = Len(MetadataObject(of).items)
<1> DEFINE item == Item("Metadata", FALSE, << >>)
<1>1. item \in Items(T)
  BY EmptySeq DEF Item, Items, Cfg
<1>2. MetadataObject(of) = Obj(of, 1, <<item>>)
  BY DEF MetadataObject
<1> HIDE DEF item
<1>3. <<item>> \in Seq(Items(T)) /\ Len(<<item>>) = 1
  BY <1>1
<1>4. MetadataObject(of) \in Object(T, T)
  BY <1>2, <1>3, ObjectTyped
<1>5. <<MetadataObject(of)>> \in Seq(Object(T, T))
  BY <1>4, OneTyped
<1> QED BY <1>2, <1>3, <1>5 DEF Obj

-----------------------------------------------------------------------------
(* The binary *)

\* An object more at the end.
LEMMA SerializedOne ==
  ASSUME ImageInv, phase = "binary", pos \in DOMAIN spec, NEW items,
         Serialized(items), Serializes(items, entry)
  PROVE  /\ BinRight(pos - 1)' /\ pos' = pos + 1
         /\ bin' \in Seq(Object(Nat, Nat)) /\ Len(bin') = Len(bin) + 1
<1> DEFINE x == Obj(pos, Len(items), items)
           N == Len(spec)
<1>1. N \in Nat /\ pos \in 1..N /\ pos - 1 \in Nat /\ BinExtra \in Nat
  BY SpecTyped DEF ImageInv, BinExtra
<1>2. UNCHANGED input /\ bin' = Append(bin, x) /\ pos' = pos + 1
  BY DEF Serialized
<1>3. BinRight(pos - 1) /\ bin \in Seq(Object(Nat, Nat))
  BY <1>1 DEF ImageInv, BinInv, TypeOK
<1>4. items \in Seq(Items(Nat))
  BY SerializedTyped DEF ImageInv, entry
<1>5. x \in Object(Nat, Nat) /\ x.of = pos /\ x.items = items /\ x.count = Len(items)
  <2>1. Len(items) \in Nat
    BY <1>4
  <2>2. x \in Object(Nat, Nat)
    BY <1>1, <1>4, <2>1 DEF Obj, Object, Items
  <2> QED BY <2>2 DEF Obj
<1> HIDE DEF x, N
<1>6. /\ bin' \in Seq(Object(Nat, Nat)) /\ Len(bin') = Len(bin) + 1
      /\ \A k \in 1..Len(bin) : bin'[k] = bin[k]
      /\ bin'[Len(bin) + 1] = x
  BY <1>2, <1>3, <1>5, AppendProperties
<1>7. Len(bin) = BinExtra + pos - 1 /\ Len(bin) \in Nat
  BY <1>1, <1>3 DEF BinRight
<1>8. DOMAIN bin = 1..Len(bin) /\ DOMAIN bin' = 1..(Len(bin) + 1)
  BY <1>3, <1>6
<1>9. \A k \in DOMAIN bin' : bin'[k].count = Len(bin'[k].items)
  <2>1. \A k \in 1..(Len(bin) + 1) : k \in 1..Len(bin) \/ k = Len(bin) + 1
    BY <1>7
  <2> QED BY <1>3, <1>5, <1>6, <1>8, <2>1 DEF BinRight
<1>10. meta = "version" => bin'[1] = MetadataObject(0)
  <2>1. meta = "version" => 1 \in 1..Len(bin)
    BY <1>1, <1>7 DEF BinExtra
  <2> QED BY <1>3, <1>6, <2>1 DEF BinRight
<1>11. ASSUME NEW k \in 1..pos
       PROVE  bin'[BinExtra + k].of = k /\ Serializes(bin'[BinExtra + k].items, spec[k])
  <2>1. CASE k = pos
    <3>1. BinExtra + k = Len(bin) + 1
      BY <1>1, <1>7, <2>1
    <3> QED BY <1>5, <1>6, <2>1, <3>1 DEF entry
  <2>2. CASE k # pos
    <3>1. k \in 1..(pos - 1) /\ BinExtra + k \in 1..Len(bin)
      BY <1>1, <1>7, <2>2
    <3> QED BY <1>3, <1>6, <3>1 DEF BinRight
  <2> QED BY <2>1, <2>2
<1>12. spec' = spec /\ meta' = meta /\ BinExtra' = BinExtra
  BY <1>2 DEF input, BinExtra
<1>13. (\A k \in 1..(pos - 1) : /\ bin[BinExtra + k].of = k
                              /\ Serializes(bin[BinExtra + k].items, spec[k]))'
  <2>1. pos' - 1 = pos
    BY <1>1, <1>2
  <2>2. \A e, i : Serializes(i, e)' <=> Serializes(i, e)
    BY <1>12, MeansTheSame
  <2> QED BY <1>11, <1>12, <2>1, <2>2
<1>14. Len(bin') = BinExtra + (pos' - 1)
  BY <1>1, <1>2, <1>6, <1>7
<1> QED BY <1>2, <1>6, <1>9, <1>10, <1>12, <1>13, <1>14 DEF BinRight

LEMMA NamesRight ==
  ASSUME ImageInv, AtEntry("binary")
  PROVE  /\ pos \in DOMAIN spec /\ phase = "binary" /\ entry \in Entry /\ entry = spec[pos]
         /\ KnownFor(Names, pos + 1)
<1>1. pos \in DOMAIN spec /\ phase = "binary" /\ pos # 0
  BY SpecTyped DEF AtEntry, ImageInv
<1> QED BY <1>1, NamesKnown, SpecTyped DEF ImageInv, BinInv, entry

LEMMA SerializedKeeps ==
  ASSUME ImageInv, AtEntry("binary"), NEW items, Serialized(items), Serializes(items, entry)
  PROVE  ImageInv'
<1>1. phase = "binary" /\ pos \in DOMAIN spec /\ pos \in 1..Len(spec) /\ Len(spec) \in Nat
  BY NamesRight, SpecTyped DEF ImageInv
<1>2. /\ UNCHANGED input /\ UNCHANGED spec /\ UNCHANGED meta
      /\ phase' = phase /\ binResult' = binResult /\ UNCHANGED source
      /\ cpp' = cpp /\ cppResult' = cppResult
      /\ binCount' = binCount + 1 /\ known' = Names
  BY DEF Serialized, input
<1>3. /\ BinRight(pos - 1)' /\ pos' = pos + 1
      /\ bin' \in Seq(Object(Nat, Nat)) /\ Len(bin') = Len(bin) + 1
  BY <1>1, SerializedOne
<1>4. Decoded'
  BY <1>2, StillRight DEF ImageInv
<1>5. KnownFor(known, pos)' /\ known' \in [Name -> 0..Len(spec')]
  <2>1. KnownFor(Names, pos + 1)
    BY NamesRight
  <2>2. \A n : Positions(n)' = Positions(n)
    BY <1>2 DEF Positions
  <2> QED BY <1>2, <1>3, <2>1, <2>2 DEF KnownFor
<1>6. TypeOK'
  BY <1>1, <1>2, <1>3, <1>5 DEF ImageInv, TypeOK, source
<1>7. BinInv'
  <2>1. binResult = "pending" /\ binCount = Len(bin)
    BY <1>1 DEF ImageInv, BinInv
  <2>2. RaisesForCause'
    BY <1>2, <2>1 DEF RaisesForCause
  <2>3. pos' # 0 /\ pos' <= Len(spec') + 1 /\ (pos - 1)' \in 0..Len(spec')
    BY <1>1, <1>2, <1>3
  <2>4. (\E n \in 0..Len(spec) : BinRight(n))'
    BY <1>3, <2>3
  <2> QED BY <1>2, <1>3, <1>5, <2>1, <2>2, <2>3, <2>4 DEF BinInv
<1>8. TextInv'
  BY <1>1, <1>2 DEF ImageInv, TextInv, source
<1> QED BY <1>4, <1>6, <1>7, <1>8 DEF ImageInv

LEMMA SerializeIoKeeps ==
  ASSUME ImageInv, SerializeIo
  PROVE  ImageInv'
<1> DEFINE items == IF entry.path = "handler" THEN <<Item("Own", entry.id \in Grants, << >>)>>
                    ELSE << >>
<1>1. AtEntry("binary") /\ Serialized(items) /\ entry.kind = "io"
  BY DEF SerializeIo
<1>2. Serializes(items, entry)
  BY <1>1 DEF Serializes
<1> HIDE DEF items
<1> QED BY <1>1, <1>2, SerializedKeeps

LEMMA SerializeNamedKeeps ==
  ASSUME ImageInv, SerializeNamed
  PROVE  ImageInv'
<1> DEFINE items == IF entry.refs = << >> THEN << >>
                    ELSE <<Item(Binding(entry), FALSE, FlexWords(entry.refs))>>
<1>1. AtEntry("binary") /\ entry.kind \in Named /\ StrictRefs(entry.refs) /\ Serialized(items)
  BY DEF SerializeNamed, Named, Binding
<1>2. entry.refs \in Seq(Name)
  BY <1>1, NamesRight DEF Entry
<1>3. Resolves(FlexWords(entry.refs), entry.refs)
  BY <1>1, <1>2, NamesRight, WordsResolve DEF ImageInv
<1>4. Serializes(items, entry)
  BY <1>1, <1>3 DEF Serializes
<1> HIDE DEF items
<1> QED BY <1>1, <1>4, SerializedKeeps

LEMMA SerializeConfigKeeps ==
  ASSUME ImageInv, SerializeConfig
  PROVE  ImageInv'
<1> DEFINE target == entry.refs[1]
           items == IF Names[target] # 0 /\ entry.inline /\ Is(target, {"io"})
                    THEN <<Item("Alloc", target \in Grants, <<FieldWord>>),
                           Item("Cfg", FALSE, <<Names[target]>>)>>
                    ELSE << >>
<1>1. AtEntry("binary") /\ entry.kind = "config" /\ Serialized(items)
  BY DEF SerializeConfig
<1>2. Len(entry.refs) = 1 /\ entry.refs \in Seq(Name)
  BY <1>1, NamesRight DEF Entry, ImageInv, Decoded
<1>3. target \in Name
  BY <1>2
<1>4. Names[target] # 0 => Names[target] \in DOMAIN spec
  BY <1>1, <1>3, NamesRight DEF KnownFor, Positions
<1>5. Serializes(items, entry)
  BY <1>1, <1>4 DEF Serializes
<1> HIDE DEF items
<1> QED BY <1>1, <1>5, SerializedKeeps

\* What a program refers to among IOs, other programs and itself is known by then.
LEMMA EarlyKnown ==
  ASSUME ImageInv, AtEntry("binary"), entry.kind = "program", NEW refs \in Seq(Name), Early(refs)
  PROVE  StrictRefs(refs)
<1> SUFFICES ASSUME NEW i \in DOMAIN refs
             PROVE  Names[refs[i]] # 0
  BY DEF StrictRefs, Unresolved
<1>1. PICK k \in Positions(refs[i]) : Rank(spec[k]) <= 2
  BY DEF Early
<1>2. k \in DOMAIN spec /\ k \in Nat /\ pos \in Nat /\ pos \in DOMAIN spec /\ Rank(spec[pos]) = 2
  BY NamesRight, SpecTyped DEF Positions, ImageInv, Rank
<1>3. Rank(spec[k]) \in {1, 2} /\ (Rank(spec[k]) = 2 => spec[k].kind = "program")
  BY <1>1 DEF Rank
<1>4. k < pos + 1 \/ spec[k].kind = "program"
  <2>1. CASE Rank(spec[k]) = 1
    <3>1. ~(pos < k)
      BY <1>2, <2>1 DEF ImageInv, Decoded
    <3> QED BY <1>2, <3>1
  <2> QED BY <1>3, <2>1
<1>5. refs[i] \in Name
  OBVIOUS
<1> QED BY <1>1, <1>4, <1>5, NamesRight DEF KnownFor

LEMMA SerializeProgramKeeps ==
  ASSUME ImageInv, SerializeProgram
  PROVE  ImageInv'
<1> DEFINE items == PairItems(SourceWords, OutputWords) \o BoundItems(entry.bounds, FALSE)
<1>1. /\ AtEntry("binary") /\ entry.kind = "program" /\ Len(SourceWords) = Len(OutputWords)
      /\ Serialized(items)
  BY DEF SerializeProgram, PairItems
<1>2. entry.refs \in Seq(Name) /\ entry.outs \in Seq(Name)
  BY <1>1, NamesRight DEF Entry
<1>3. /\ SourceWords \in Seq(DOMAIN spec)
      /\ Early(entry.refs) => Resolves(SourceWords, entry.refs)
  BY <1>1, <1>2, NamesRight, WordsResolve, EarlyKnown DEF ImageInv, SourceWords
<1>4. /\ OutputWords \in Seq(DOMAIN spec)
      /\ Early(entry.outs) => Resolves(OutputWords, entry.outs)
  BY <1>1, <1>2, NamesRight, WordsResolve, EarlyKnown DEF ImageInv, OutputWords
<1>5. Pairs(SourceWords, OutputWords, entry)
  BY <1>1, <1>3, <1>4 DEF Pairs
<1>6. Serializes(items, entry)
  BY <1>1, <1>5 DEF Serializes
<1> HIDE DEF items
<1> QED BY <1>1, <1>6, SerializedKeeps

LEMMA MetadataKeeps ==
  ASSUME ImageInv, SerializeMetadata
  PROVE  ImageInv'
<1>1. /\ phase = "binary" /\ pos = 0 /\ pos' = 1 /\ phase' = phase
      /\ UNCHANGED input /\ UNCHANGED spec /\ UNCHANGED meta
      /\ binResult' = binResult /\ UNCHANGED source
      /\ cpp' = cpp /\ cppResult' = cppResult
      /\ known' = Preregister
  BY DEF SerializeMetadata, input
<1>2. /\ bin' = IF meta = "version" THEN <<MetadataObject(0)>> ELSE << >>
      /\ binCount' = IF meta = "version" THEN 1 ELSE 0
  BY DEF SerializeMetadata, MetadataObject, MetadataEmitted
<1>3. Decoded' /\ Len(spec) \in Nat
  BY <1>1, StillRight, SpecTyped DEF ImageInv
<1>4. KnownFor(known, pos)' /\ known' \in [Name -> 0..Len(spec')]
  <2>1. KnownFor(Preregister, 1)
    BY ProgramsKnown DEF ImageInv
  <2>2. \A n : Positions(n)' = Positions(n)
    BY <1>1 DEF Positions
  <2> QED BY <1>1, <2>1, <2>2 DEF KnownFor
<1>5. /\ bin' \in Seq(Object(Nat, Nat)) /\ binCount' = Len(bin') /\ binCount' \in Nat
      /\ Len(bin') = BinExtra /\ (meta = "version" => bin'[1] = MetadataObject(0))
      /\ \A k \in DOMAIN bin' : bin'[k].count = Len(bin'[k].items)
  <2>1. CASE meta = "version"
    <3>1. bin' = <<MetadataObject(0)>> /\ <<MetadataObject(0)>> \in Seq(Object(Nat, Nat))
      BY <1>2, <2>1, MetadataTyped
    <3>2. /\ Len(bin') = 1 /\ bin'[1] = MetadataObject(0)
          /\ \A k \in DOMAIN bin' : bin'[k] = MetadataObject(0)
      BY <3>1
    <3>3. MetadataObject(0).count = Len(MetadataObject(0).items)
      BY MetadataTyped
    <3> QED BY <1>2, <2>1, <3>1, <3>2, <3>3 DEF BinExtra
  <2>2. CASE meta # "version"
    BY <1>2, <2>2, EmptySeq DEF BinExtra
  <2> QED BY <2>1, <2>2
<1>6. BinRight(pos - 1)'
  <2>1. pos' - 1 = 0 /\ \A k \in 1..0 : FALSE
    BY <1>1
  <2>2. BinExtra' = BinExtra /\ BinExtra + 0 = BinExtra
    BY <1>1 DEF BinExtra
  <2> QED BY <1>1, <1>5, <2>1, <2>2 DEF BinRight
<1>7. TypeOK'
  BY <1>1, <1>4, <1>5 DEF ImageInv, TypeOK, source
<1>8. BinInv'
  <2>1. binResult = "pending"
    BY <1>1 DEF ImageInv, BinInv
  <2>2. RaisesForCause'
    BY <1>1, <2>1 DEF RaisesForCause
  <2>3. (\E n \in 0..Len(spec) : BinRight(n))'
    BY <1>1, <1>3, <1>6
  <2> QED BY <1>1, <1>3, <1>4, <1>5, <1>6, <2>1, <2>2, <2>3 DEF BinInv
<1>9. TextInv'
  BY <1>1 DEF ImageInv, TextInv, source
<1> QED BY <1>3, <1>7, <1>8, <1>9 DEF ImageInv

\* Words are left out just for the names that nothing before the entry and no program has.
LEMMA LeftOut ==
  ASSUME ImageInv, AtEntry("binary"), NEW refs \in Seq(Name)
  PROVE  {i \in DOMAIN refs : Names[refs[i]] # 0} = Resolvable(pos, refs)
<1>1. \A n \in Name : Names[n] # 0 <=> InOrder(pos, n)
  <2>1. \A n : \A k \in Positions(n) : k < pos + 1 <=> k <= pos
    BY NamesRight, SpecTyped DEF ImageInv, Positions
  <2> QED BY <2>1, NamesRight DEF KnownFor, InOrder
<1>2. \A i \in DOMAIN refs : refs[i] \in Name
  OBVIOUS
<1> QED BY <1>1, <1>2 DEF Resolvable

\* A pass of the binary that ends, one way or the other.
LEMMA BinaryEnded ==
  ASSUME ImageInv, phase = "binary", UNCHANGED <<input, known, bin, binCount, source, cpp, cppResult>>,
         phase' = "cpp", pos' = 0, binResult' \in {"raised", "ok"},
         binResult' = "ok" => BinRight(Len(spec)), RaisesForCause'
  PROVE  ImageInv'
<1>1. /\ UNCHANGED input /\ UNCHANGED spec /\ UNCHANGED meta /\ UNCHANGED bin
      /\ UNCHANGED known /\ UNCHANGED binCount /\ UNCHANGED text /\ UNCHANGED cppCount
      /\ UNCHANGED cpp /\ UNCHANGED cppResult
  BY DEF input, source
<1>2. Decoded' /\ \A n : BinRight(n)' <=> BinRight(n)
  BY <1>1, StillRight DEF ImageInv
<1>3. TypeOK'
  BY <1>1 DEF ImageInv, TypeOK
<1>4. BinInv'
  BY <1>1, <1>2 DEF ImageInv, BinInv
<1>5. TextInv'
  BY <1>1 DEF ImageInv, TextInv
<1> QED BY <1>2, <1>3, <1>4, <1>5 DEF ImageInv

LEMMA SerializeRaisesKeeps ==
  ASSUME ImageInv, SerializeRaises
  PROVE  ImageInv'
<1>1. AtEntry("binary") /\ spec' = spec /\ binResult' = "raised"
  BY DEF SerializeRaises, input
<1>2. pos \in DOMAIN spec /\ entry \in Entry /\ entry = spec[pos] /\ entry.refs \in Seq(Name)
      /\ entry.outs \in Seq(Name)
  BY <1>1, NamesRight DEF Entry
<1>3. \/ entry.kind = "system"
      \/ entry.kind \in Named /\ Resolvable(pos, entry.refs) # DOMAIN entry.refs
      \/ entry.kind = "program" /\ Cardinality(Resolvable(pos, entry.refs))
                                     # Cardinality(Resolvable(pos, entry.outs))
  <2>1. CASE entry.kind = "system"
    BY <2>1
  <2>2. CASE entry.kind \in Named /\ ~StrictRefs(entry.refs)
    <3>1. {i \in DOMAIN entry.refs : Names[entry.refs[i]] # 0} # DOMAIN entry.refs
      BY <2>2 DEF StrictRefs, Unresolved
    <3> QED BY <1>1, <1>2, <2>2, <3>1, LeftOut
  <2>3. CASE entry.kind = "program" /\ Len(SourceWords) # Len(OutputWords)
    <3>1. KnownFor(Names, pos + 1) /\ Decoded
      BY <1>1, NamesRight DEF ImageInv
    <3>2. Len(SourceWords) = Cardinality(Resolvable(pos, entry.refs))
      BY <1>1, <1>2, <3>1, LeftOut, WordsResolve DEF SourceWords
    <3>3. Len(OutputWords) = Cardinality(Resolvable(pos, entry.outs))
      BY <1>1, <1>2, <3>1, LeftOut, WordsResolve DEF OutputWords
    <3> QED BY <2>3, <3>2, <3>3
  <2> QED BY <2>1, <2>2, <2>3 DEF SerializeRaises, Named
<1>4. RaisesForCause'
  <2>1. \A k, refs : Resolvable(k, refs)' = Resolvable(k, refs)
    BY <1>1 DEF Resolvable, InOrder, Positions
  <2> QED BY <1>1, <1>2, <1>3, <2>1 DEF RaisesForCause, Named
<1> QED BY <1>1, <1>4, BinaryEnded DEF SerializeRaises, AtEntry

LEMMA SerializeDoneKeeps ==
  ASSUME ImageInv, SerializeDone
  PROVE  ImageInv'
<1>1. phase = "binary" /\ pos > Len(spec) /\ pos <= Len(spec) + 1 /\ pos \in Nat /\ Len(spec) \in Nat
  BY SpecTyped DEF SerializeDone, ImageInv, BinInv, TypeOK
<1>2. pos - 1 = Len(spec) /\ pos # 0
  BY <1>1
<1>3. BinRight(Len(spec))
  BY <1>1, <1>2 DEF ImageInv, BinInv
<1>4. RaisesForCause'
  BY DEF SerializeDone, RaisesForCause
<1> QED BY <1>1, <1>3, <1>4, BinaryEnded DEF SerializeDone

-----------------------------------------------------------------------------
(* The text *)

LEMMA EmittedRight ==
  ASSUME ImageInv, AtEntry("cpp")
  PROVE  /\ pos \in DOMAIN spec /\ phase = "cpp" /\ entry.id \in Defined /\ entry.id \in Name
         /\ Last(entry.id) \in DOMAIN spec /\ emitted = spec[Last(entry.id)]
         /\ emitted \in Entry
<1>1. pos \in DOMAIN spec /\ phase = "cpp" /\ entry.id \in Defined /\ entry.id \in Name
  BY DefinedNames DEF AtEntry, ImageInv, entry
<1>2. Last(entry.id) \in DOMAIN spec
  BY <1>1, LastFound DEF ImageInv
<1> QED BY <1>1, <1>2, SpecTyped DEF ImageInv, emitted

LEMMA GeneratedKeeps ==
  ASSUME ImageInv, AtEntry("cpp"), NEW count, NEW items, Generated(count, items),
         Generates(count, items, emitted, entry.id)
  PROVE  ImageInv'
<1> DEFINE x == Obj(entry.id, count, items)
           W == Name \cup {Field}
<1>1. Len(spec) \in Nat /\ pos \in 1..Len(spec) /\ pos - 1 \in Nat /\ phase = "cpp" /\ TextExtra \in Nat
  BY EmittedRight, SpecTyped DEF ImageInv, TextExtra
<1>2. /\ UNCHANGED input /\ UNCHANGED spec /\ UNCHANGED meta /\ phase' = phase
      /\ UNCHANGED known /\ UNCHANGED bin /\ UNCHANGED binCount /\ UNCHANGED binResult
      /\ UNCHANGED cppCount /\ UNCHANGED cpp /\ UNCHANGED cppResult
      /\ text' = Append(text, x) /\ pos' = pos + 1
  BY DEF Generated, input, binary
<1>3. TextRight(pos - 1) /\ cppCount = TextCount /\ cppResult = "pending" /\ text \in Seq(Object(W, W))
  BY <1>1 DEF ImageInv, TextInv, TypeOK
<1>4. count \in Nat /\ items \in Seq(Items(W))
  BY EmittedRight, GeneratedTyped DEF ImageInv
<1>5. x \in Object(W, W) /\ x.of = entry.id /\ x.count = count /\ x.items = items
  BY <1>4, EmittedRight DEF Obj, Object, Items
<1> HIDE DEF x, W
<1>6. /\ text' \in Seq(Object(W, W)) /\ Len(text') = Len(text) + 1
      /\ \A k \in 1..Len(text) : text'[k] = text[k]
      /\ text'[Len(text) + 1] = x
  BY <1>2, <1>3, <1>5, AppendProperties
<1>7. Len(text) = TextExtra + pos - 1 /\ Len(text) \in Nat
  BY <1>1, <1>3 DEF TextRight
<1>8. meta \in {"version", "null"} => text'[1] = MetadataObject(Field)
  <2>1. meta \in {"version", "null"} => 1 \in 1..Len(text)
    BY <1>1, <1>7 DEF TextExtra
  <2> QED BY <1>3, <1>6, <2>1 DEF TextRight
<1> DEFINE Made(o, k) == /\ o.of = spec[k].id
                         /\ Generates(o.count, o.items, spec[Last(spec[k].id)], spec[k].id)
<1>9. ASSUME NEW k \in 1..pos
      PROVE  Made(text'[TextExtra + k], k)
  <2>1. CASE k = pos
    <3>1. TextExtra + k = Len(text) + 1
      BY <1>1, <1>7, <2>1
    <3>2. Made(x, pos)
      BY <1>5 DEF entry, emitted
    <3> QED BY <1>6, <2>1, <3>1, <3>2
  <2>2. CASE k # pos
    <3>1. k \in 1..(pos - 1) /\ TextExtra + k \in 1..Len(text)
      BY <1>1, <1>7, <2>2
    <3> QED BY <1>3, <1>6, <3>1 DEF TextRight
  <2> QED BY <2>1, <2>2
<1>10. TextRight(pos - 1)'
  <2>1. pos' - 1 = pos /\ TextExtra' = TextExtra /\ \A n : Last(n)' = Last(n)
    BY <1>1, <1>2 DEF TextExtra, Last, Positions
  <2>2. \A c, i, e, n : Generates(c, i, e, n)' <=> Generates(c, i, e, n)
    BY <1>2, MeansTheSame
  <2>3. (\A k \in 1..(pos - 1) : Made(text[TextExtra + k], k))'
    BY <1>2, <1>9, <2>1, <2>2
  <2>4. Len(text') = TextExtra + (pos' - 1)
    BY <1>1, <1>2, <1>6, <1>7
  <2> QED BY <1>2, <1>8, <2>1, <2>3, <2>4 DEF TextRight
<1>11. Decoded' /\ TextCount' = TextCount /\ (\A n : BinRight(n)' <=> BinRight(n)) /\ RaisesForCause'
  BY <1>2, StillRight DEF ImageInv, BinInv
<1>12. TypeOK'
  BY <1>1, <1>2, <1>6 DEF ImageInv, TypeOK, W
<1>13. BinInv'
  BY <1>1, <1>2, <1>11 DEF ImageInv, BinInv
<1>14. TextInv'
  <2>1. pos' # 0 /\ pos' <= Len(spec') + 1
    BY <1>1, <1>2
  <2>2. cpp = << >>
    BY <1>3 DEF ImageInv, TextInv
  <2> QED BY <1>1, <1>2, <1>3, <1>10, <1>11, <2>1, <2>2 DEF TextInv
<1> QED BY <1>11, <1>12, <1>13, <1>14 DEF ImageInv

LEMMA GenerateEachKeeps ==
  ASSUME ImageInv, GenerateIo \/ GenerateNamed \/ GenerateConfig \/ GenerateProgram \/ GenerateSystem
  PROVE  ImageInv'
<1>1. AtEntry("cpp")
  BY DEF GenerateIo, GenerateNamed, GenerateConfig, GenerateProgram, GenerateSystem
<1>2. ASSUME GenerateIo
      PROVE  \E count, items : Generated(count, items) /\ Generates(count, items, emitted, entry.id)
  BY <1>2 DEF GenerateIo, Generates
<1>3. ASSUME GenerateNamed
      PROVE  \E count, items : Generated(count, items) /\ Generates(count, items, emitted, entry.id)
  BY <1>3 DEF GenerateNamed, Generates, Named, Binding
<1>4. ASSUME GenerateConfig
      PROVE  \E count, items : Generated(count, items) /\ Generates(count, items, emitted, entry.id)
  BY <1>4 DEF GenerateConfig, Generates
<1>5. ASSUME GenerateProgram
      PROVE  \E count, items : Generated(count, items) /\ Generates(count, items, emitted, entry.id)
  BY <1>5 DEF GenerateProgram, Generates
<1>6. ASSUME GenerateSystem
      PROVE  \E count, items : Generated(count, items) /\ Generates(count, items, emitted, entry.id)
  BY <1>6 DEF GenerateSystem, Generates
<1>7. PICK count, items : Generated(count, items) /\ Generates(count, items, emitted, entry.id)
  BY <1>2, <1>3, <1>4, <1>5, <1>6
<1> QED BY <1>1, <1>7, GeneratedKeeps

LEMMA GenerateHeaderKeeps ==
  ASSUME ImageInv, GenerateHeader
  PROVE  ImageInv'
<1> DEFINE W == Name \cup {Field}
<1>1. /\ phase = "cpp" /\ pos = 0 /\ pos' = 1 /\ phase' = phase /\ UNCHANGED input
      /\ UNCHANGED spec /\ UNCHANGED meta
      /\ UNCHANGED known /\ UNCHANGED bin /\ UNCHANGED binCount /\ UNCHANGED binResult
      /\ UNCHANGED cpp /\ UNCHANGED cppResult
  BY DEF GenerateHeader, input, binary
<1>2. /\ text' = IF meta \in {"version", "null"} THEN <<MetadataObject(Field)>> ELSE << >>
      /\ cppCount' = TextCount
  BY DEF GenerateHeader, MetadataObject, TextCount
<1>3. /\ text' \in Seq(Object(W, W)) /\ Len(text') = TextExtra
      /\ meta \in {"version", "null"} => text'[1] = MetadataObject(Field)
  <2>1. CASE meta \in {"version", "null"}
    <3>1. text' = <<MetadataObject(Field)>> /\ <<MetadataObject(Field)>> \in Seq(Object(W, W))
      BY <1>2, <2>1, MetadataTyped
    <3>2. Len(text') = 1 /\ text'[1] = MetadataObject(Field)
      BY <3>1
    <3> QED BY <2>1, <3>1, <3>2 DEF TextExtra
  <2>2. CASE meta \notin {"version", "null"}
    BY <1>2, <2>2, EmptySeq DEF TextExtra
  <2> QED BY <2>1, <2>2
<1> HIDE DEF W
<1>4. TextRight(pos - 1)'
  <2>1. pos' - 1 = 0 /\ \A k \in 1..0 : FALSE
    BY <1>1
  <2>2. TextExtra' = TextExtra /\ TextExtra + 0 = TextExtra
    BY <1>1 DEF TextExtra
  <2> QED BY <1>1, <1>3, <2>1, <2>2 DEF TextRight
<1>5. /\ Decoded' /\ TextCount' = TextCount /\ (\A n : BinRight(n)' <=> BinRight(n)) /\ RaisesForCause'
  BY <1>1, StillRight DEF ImageInv, BinInv
<1>6. cppCount' \in Nat
  <2>1. IsFiniteSet(Defined)
    <3>1. IsFiniteSet(1..Len(spec)) /\ DOMAIN spec = 1..Len(spec)
      BY SpecTyped, FS_Interval DEF ImageInv
    <3>2. [k \in DOMAIN spec |-> spec[k].id] \in Surjection(DOMAIN spec, Defined)
      BY DEF Surjection, Defined
    <3> QED BY <3>1, <3>2, FS_Surjection
  <2>2. Cardinality(Defined) \in Nat
    BY <2>1, FS_CardinalityType
  <2> QED BY <1>2, <2>2 DEF TextCount
<1>7. TypeOK'
  BY <1>1, <1>3, <1>6 DEF ImageInv, TypeOK, W
<1>8. BinInv'
  BY <1>1, <1>5 DEF ImageInv, BinInv
<1>9. TextInv'
  <2>1. Len(spec) \in Nat
    BY SpecTyped DEF ImageInv
  <2>2. pos' # 0 /\ pos' <= Len(spec') + 1
    BY <1>1, <2>1
  <2> QED BY <1>1, <1>2, <1>4, <1>5, <2>2 DEF ImageInv, TextInv
<1> QED BY <1>5, <1>7, <1>8, <1>9 DEF ImageInv

LEMMA GenerateEndsKeeps ==
  ASSUME ImageInv, GenerateRaises \/ GenerateDone
  PROVE  ImageInv'
<1>1. /\ phase = "cpp" /\ UNCHANGED input /\ UNCHANGED spec /\ UNCHANGED meta /\ pos' = pos
      /\ UNCHANGED known /\ UNCHANGED bin /\ UNCHANGED binCount /\ UNCHANGED binResult
      /\ UNCHANGED text /\ UNCHANGED cppCount /\ UNCHANGED cpp
      /\ \/ phase' = "done" /\ cppResult' = "raised"
         \/ phase' = "compile" /\ UNCHANGED cppResult /\ pos > Len(spec)
  BY DEF GenerateRaises, GenerateDone, AtEntry, input, binary, source
<1>2. /\ Decoded' /\ TextCount' = TextCount /\ RaisesForCause'
      /\ \A n : (BinRight(n)' <=> BinRight(n)) /\ (TextRight(n)' <=> TextRight(n))
  BY <1>1, StillRight DEF ImageInv, BinInv
<1>3. TypeOK'
  BY <1>1 DEF ImageInv, TypeOK
<1>4. BinInv'
  BY <1>1, <1>2 DEF ImageInv, BinInv
<1>5. TextInv'
  <2>1. cpp = << >> /\ cppResult = "pending" /\ pos \in Nat /\ Len(spec) \in Nat
    BY <1>1, SpecTyped DEF ImageInv, TextInv, TypeOK
  <2>2. pos > Len(spec) => TextRight(Len(spec)) /\ cppCount = TextCount
    <3>1. pos > Len(spec) => pos # 0 /\ pos - 1 = Len(spec)
      BY <1>1, <2>1 DEF ImageInv, TextInv
    <3> QED BY <1>1, <3>1 DEF ImageInv, TextInv
  <2> QED BY <1>1, <1>2, <2>1, <2>2 DEF TextInv
<1> QED BY <1>2, <1>3, <1>4, <1>5 DEF ImageInv

\* A name of an object or the config field has a value for the compiler.
LEMMA MeaningTyped ==
  ASSUME Decoded, NEW n \in Defined \cup {Field}
  PROVE  Meaning(n) \in Nat
  BY LastFound, SpecTyped DEF Meaning, FieldWord

\* The compiled object has the items of the text, with words for names.
LEMMA CompiledItems ==
  ASSUME NEW T, NEW o \in Object(T, T)
  PROVE  LET c == Compiled(o) IN
         /\ c.of = Meaning(o.of) /\ c.count = o.count
         /\ DOMAIN c.items = DOMAIN o.items /\ DOMAIN o.items = 1..Len(o.items)
         /\ Len(o.items) \in Nat
         /\ \A i \in DOMAIN o.items :
              /\ o.items[i] \in Items(T)
              /\ c.items[i] = [cfg |-> o.items[i].cfg, rw |-> o.items[i].rw,
                               words |-> [j \in DOMAIN o.items[i].words |->
                                            Meaning(o.items[i].words[j])]]
<1>1. o.items \in Seq(Items(T))
  BY DEF Object, Items
<1>2. DOMAIN o.items = 1..Len(o.items) /\ Len(o.items) \in Nat
  BY <1>1
<1>3. \A i \in DOMAIN o.items : o.items[i] \in Items(T)
  BY <1>1, <1>2
<1>4. /\ Compiled(o).of = Meaning(o.of) /\ Compiled(o).count = o.count
      /\ DOMAIN Compiled(o).items = DOMAIN o.items
  BY DEF Compiled
<1>5. ASSUME NEW i \in DOMAIN o.items
      PROVE  Compiled(o).items[i]
               = [cfg |-> o.items[i].cfg, rw |-> o.items[i].rw,
                  words |-> [j \in DOMAIN o.items[i].words |-> Meaning(o.items[i].words[j])]]
  <2> DEFINE item == o.items[i]
             words == [j \in DOMAIN item.words |-> Meaning(item.words[j])]
  <2>1. Compiled(o).items[i] = [item EXCEPT !.words = words]
    BY DEF Compiled
  <2>2. item = [cfg |-> item.cfg, rw |-> item.rw, words |-> item.words]
    BY <1>3 DEF Items
  <2> HIDE DEF item, words
  <2>3. [item EXCEPT !.words = words] = [cfg |-> item.cfg, rw |-> item.rw, words |-> words]
    BY <2>2
  <2> QED BY <2>1, <2>3 DEF item, words
<1> QED BY <1>2, <1>3, <1>4, <1>5

LEMMA CompiledTyped ==
  ASSUME Decoded, NEW o \in Object(Name \cup {Field}, Name \cup {Field}),
         o.of \in Defined \cup {Field}, Mentioned(o) \subseteq Defined \cup {Field}
  PROVE  Compiled(o) \in Object(Nat, Nat)
<1> DEFINE c == Compiled(o)
           W == Name \cup {Field}
<1>1. /\ c.of = Meaning(o.of) /\ c.count = o.count
      /\ DOMAIN c.items = 1..Len(o.items) /\ DOMAIN o.items = 1..Len(o.items)
      /\ Len(o.items) \in Nat
      /\ \A i \in DOMAIN o.items :
           /\ o.items[i] \in Items(W)
           /\ c.items[i] = [cfg |-> o.items[i].cfg, rw |-> o.items[i].rw,
                            words |-> [j \in DOMAIN o.items[i].words |->
                                         Meaning(o.items[i].words[j])]]
  BY CompiledItems
<1>2. c = [of |-> c.of, count |-> c.count, items |-> c.items]
  BY DEF Compiled
<1>3. c.of \in Nat /\ c.count \in Nat
  BY <1>1, MeaningTyped DEF Object
<1>4. ASSUME NEW i \in 1..Len(o.items)
      PROVE  c.items[i] \in Items(Nat)
  <2> DEFINE item == o.items[i]
             words == [j \in DOMAIN item.words |-> Meaning(item.words[j])]
  <2>1. item \in Items(W) /\ c.items[i] = [cfg |-> item.cfg, rw |-> item.rw, words |-> words]
    BY <1>1
  <2>2. item.cfg \in Cfg /\ item.rw \in BOOLEAN /\ item.words \in Seq(W)
    BY <2>1 DEF Items
  <2>3. DOMAIN item.words = 1..Len(item.words) /\ Len(item.words) \in Nat
    BY <2>2
  <2>4. \A j \in DOMAIN item.words : item.words[j] \in Defined \cup {Field}
    BY <1>1 DEF Mentioned
  <2>5. words \in [1..Len(item.words) -> Nat]
    BY <2>3, <2>4, MeaningTyped
  <2>6. words \in Seq(Nat)
    BY <2>3, <2>5, SeqDef
  <2> QED BY <2>1, <2>2, <2>6 DEF Items
<1>5. c.items \in Seq(Items(Nat))
  <2>1. c.items = [i \in 1..Len(o.items) |-> c.items[i]]
    BY <1>1 DEF Compiled
  <2>2. c.items \in [1..Len(o.items) -> Items(Nat)]
    BY <1>4, <2>1
  <2> QED BY <1>1, <2>2, SeqDef
<1> HIDE DEF c
<1>6. c \in Object(Nat, Nat)
  BY <1>2, <1>3, <1>5 DEF Object, Items
<1> QED BY <1>6 DEF c

\* Every object of a whole text is one of a defined name or the metadata.
LEMMA TextNamed ==
  ASSUME Decoded, TypeOK, TextRight(Len(spec)), NEW k \in DOMAIN text
  PROVE  text[k].of \in Defined \cup {Field}
<1>1. Len(spec) \in Nat /\ DOMAIN spec = 1..Len(spec) /\ DOMAIN text = 1..Len(text) /\ Len(text) \in Nat
  BY SpecTyped DEF TypeOK
<1>2. CASE meta \in {"version", "null"} /\ k = 1
  <2>1. MetadataObject(Field).of = Field
    BY DEF MetadataObject, Obj
  <2> QED BY <1>2, <2>1 DEF TextRight
<1>3. CASE ~(meta \in {"version", "null"} /\ k = 1)
  <2>1. k - TextExtra \in 1..Len(spec) /\ TextExtra + (k - TextExtra) = k
    BY <1>1, <1>3 DEF TextRight, TextExtra
  <2>2. text[k].of = spec[k - TextExtra].id
    BY <2>1 DEF TextRight
  <2> QED BY <1>1, <2>1, <2>2, DefinedNames
<1> QED BY <1>2, <1>3

LEMMA CompileKeeps ==
  ASSUME ImageInv, Compile
  PROVE  ImageInv'
<1> DEFINE W == Name \cup {Field}
           resolved == \A k \in DOMAIN text : Mentioned(text[k]) \subseteq Defined \cup {Field}
<1>1. /\ phase = "compile" /\ phase' = "done" /\ UNCHANGED input /\ UNCHANGED spec /\ UNCHANGED meta
      /\ pos' = pos /\ UNCHANGED known /\ UNCHANGED bin /\ UNCHANGED binCount /\ UNCHANGED binResult
      /\ UNCHANGED text /\ UNCHANGED cppCount
  BY DEF Compile, input, binary, source
<1>2. \/ resolved /\ cpp' = [k \in DOMAIN text |-> Compiled(text[k])] /\ cppResult' = "ok"
      \/ cpp' = cpp /\ cppResult' = "rejected"
  BY DEF Compile
<1>3. /\ Decoded' /\ TextCount' = TextCount /\ RaisesForCause'
      /\ \A n : (BinRight(n)' <=> BinRight(n)) /\ (TextRight(n)' <=> TextRight(n))
  BY <1>1, StillRight DEF ImageInv, BinInv
<1>4. TextRight(Len(spec)) /\ cppCount = TextCount /\ cppResult = "pending" /\ cpp = << >>
  BY <1>1 DEF ImageInv, TextInv
<1>5. cpp' \in Seq(Object(Nat, Nat))
  <2>1. CASE resolved /\ cpp' = [k \in DOMAIN text |-> Compiled(text[k])]
    <3>1. text \in Seq(Object(W, W)) /\ DOMAIN text = 1..Len(text) /\ Len(text) \in Nat
      BY DEF ImageInv, TypeOK
    <3>2. ASSUME NEW k \in DOMAIN text
          PROVE  Compiled(text[k]) \in Object(Nat, Nat)
      <4>1. text[k] \in Object(W, W)
        BY <3>1
      <4>2. text[k].of \in Defined \cup {Field}
        BY <1>4, TextNamed DEF ImageInv
      <4> QED BY <2>1, <4>1, <4>2, CompiledTyped DEF ImageInv
    <3>3. cpp' \in [1..Len(text) -> Object(Nat, Nat)]
      BY <2>1, <3>1, <3>2
    <3> QED BY <3>1, <3>3, SeqDef
  <2>2. CASE cpp' = cpp
    BY <1>4, <2>2, EmptySeq
  <2> QED BY <1>2, <2>1, <2>2
<1>6. TypeOK'
  BY <1>1, <1>2, <1>5 DEF ImageInv, TypeOK
<1>7. BinInv'
  BY <1>1, <1>3 DEF ImageInv, BinInv
<1>8. /\ Defined' = Defined /\ \A n : Meaning(n)' = Meaning(n)
      /\ \A o : Mentioned(o)' = Mentioned(o) /\ Compiled(o)' = Compiled(o)
  <2>1. Defined' = Defined /\ \A n : Meaning(n)' = Meaning(n)
    BY <1>1 DEF Defined, Meaning, Last, Positions
  <2> QED BY <2>1 DEF Mentioned, Compiled
<1>9. TextInv'
  BY <1>1, <1>2, <1>3, <1>4, <1>8 DEF TextInv
<1> QED BY <1>3, <1>6, <1>7, <1>9 DEF ImageInv

-----------------------------------------------------------------------------
(* The invariant holds *)

LEMMA ImageInvInit == Init => ImageInv
<1> SUFFICES ASSUME Init
             PROVE  ImageInv
  OBVIOUS
<1>1. spec \in Specs /\ meta \in Metadata
  BY DEF Init
<1>2. PICK n \in 0..MaxEntries : spec \in [1..n -> EntryChoice]
  BY <1>1 DEF Specs
<1>3. n \in Nat /\ spec \in Seq(Entry) /\ DOMAIN spec = 1..n
  <2>1. n \in Nat /\ spec \in [1..n -> Entry]
    BY <1>2, DescriptorAssumption
  <2> QED BY <2>1, SeqDef
<1>4. Decoded
  <2>1. \A k \in DOMAIN spec : spec[k].kind = "config" => Len(spec[k].refs) = 1
    BY <1>2, <1>3, DescriptorAssumption
  <2>2. \A j, k \in DOMAIN spec : j < k => Rank(spec[j]) <= Rank(spec[k])
    BY <1>1 DEF Specs
  <2> QED BY <1>1, <1>3, <2>1, <2>2 DEF Decoded
<1>5. TypeOK
  <2>1. 0 \in 0..Len(spec)
    BY <1>3
  <2> QED BY <1>1, <1>3, <2>1, EmptySeq DEF Init, TypeOK
<1>6. BinInv
  <2>1. 0 <= Len(spec) + 1 /\ Len(<< >>) = 0
    BY <1>3
  <2> QED BY <2>1 DEF Init, BinInv, RaisesForCause
<1>7. TextInv
  BY DEF Init, TextInv
<1> QED BY <1>4, <1>5, <1>6, <1>7 DEF ImageInv

LEMMA ImageInvStep == ImageInv /\ [Next]_vars => ImageInv'
<1> SUFFICES ASSUME ImageInv, [Next]_vars
             PROVE  ImageInv'
  OBVIOUS
<1>1. CASE UNCHANGED vars
  <2>1. /\ UNCHANGED input /\ UNCHANGED spec /\ UNCHANGED meta /\ phase' = phase /\ pos' = pos
        /\ UNCHANGED known /\ UNCHANGED bin /\ UNCHANGED binCount /\ UNCHANGED binResult
        /\ UNCHANGED text /\ UNCHANGED cppCount /\ UNCHANGED cpp /\ UNCHANGED cppResult
    BY <1>1 DEF vars, input, binary, source
  <2>2. /\ Decoded' /\ TextCount' = TextCount /\ RaisesForCause'
        /\ \A n : (BinRight(n)' <=> BinRight(n)) /\ (TextRight(n)' <=> TextRight(n))
    BY <2>1, StillRight DEF ImageInv, BinInv
  <2>3. TypeOK'
    BY <2>1 DEF ImageInv, TypeOK
  <2>4. BinInv'
    <3>1. \A p : KnownFor(known, p)' <=> KnownFor(known, p)
      BY <2>1 DEF KnownFor, Positions
    <3> QED BY <2>1, <2>2, <3>1 DEF ImageInv, BinInv
  <2>5. Defined' = Defined /\ \A o : Mentioned(o)' = Mentioned(o) /\ Compiled(o)' = Compiled(o)
    BY <2>1 DEF Defined, Mentioned, Compiled, Meaning, Last, Positions
  <2>6. TextInv'
    BY <2>1, <2>2, <2>5 DEF ImageInv, TextInv
  <2> QED BY <2>2, <2>3, <2>4, <2>6 DEF ImageInv
<1>2. CASE Serialize
  BY <1>2, MetadataKeeps, SerializeIoKeeps, SerializeNamedKeeps, SerializeConfigKeeps,
     SerializeProgramKeeps, SerializeRaisesKeeps, SerializeDoneKeeps DEF Serialize
<1>3. CASE Generate
  BY <1>3, GenerateHeaderKeeps, GenerateEachKeeps, GenerateEndsKeeps DEF Generate
<1>4. CASE Compile
  BY <1>4, CompileKeeps
<1> QED BY <1>1, <1>2, <1>3, <1>4 DEF Next

LEMMA ImageInvAlways == Spec => []ImageInv
  BY ImageInvInit, ImageInvStep, PTL DEF Spec

\* Every variable has its type: the words of the binary and of the compiled array are
\* positions of entries or the config field, whatever the references are.
THEOREM TypeCorrect == Spec => []TypeOK
<1>1. ImageInv => TypeOK
  BY DEF ImageInv
<1> QED BY <1>1, ImageInvAlways, PTL

\* A binary is refused only for a system object, a reference that points ahead to what is
\* no program, or a program whose sources and outputs do not match.
THEOREM RefusedForCause == Spec => []RaisesForCause
<1>1. ImageInv => RaisesForCause
  BY DEF ImageInv, BinInv
<1> QED BY <1>1, ImageInvAlways, PTL

-----------------------------------------------------------------------------
(* The binary holds what the descriptor refers to *)

\* An object of the binary is the metadata or made of the entry it names.
LEMMA BinaryObject ==
  ASSUME ImageInv, NEW n \in 0..Len(spec), BinRight(n), NEW k \in DOMAIN bin
  PROVE  \/ meta = "version" /\ k = 1 /\ bin[k] = MetadataObject(0)
         \/ /\ k - BinExtra \in DOMAIN spec /\ bin[k].of = k - BinExtra
            /\ Serializes(bin[k].items, spec[bin[k].of])
<1>1. /\ Len(spec) \in Nat /\ DOMAIN spec = 1..Len(spec)
      /\ DOMAIN bin = 1..Len(bin) /\ Len(bin) \in Nat /\ Len(bin) = BinExtra + n
  BY SpecTyped DEF ImageInv, TypeOK, BinRight
<1>2. CASE meta = "version" /\ k = 1
  BY <1>2 DEF BinRight
<1>3. CASE ~(meta = "version" /\ k = 1)
  <2>1. k - BinExtra \in 1..n /\ BinExtra + (k - BinExtra) = k
    BY <1>1, <1>3 DEF BinExtra
  <2>2. bin[k].of = k - BinExtra /\ Serializes(bin[k].items, spec[k - BinExtra])
    BY <2>1 DEF BinRight
  <2>3. k - BinExtra \in DOMAIN spec
    BY <1>1, <2>1
  <2> QED BY <2>2, <2>3
<1> QED BY <1>2, <1>3

LEMMA NamesBack ==
  ASSUME NEW words, NEW refs \in Seq(Name), Resolves(words, refs)
  PROVE  NamesOf(words) = refs
<1>1. /\ DOMAIN words = 1..Len(refs) /\ DOMAIN refs = 1..Len(refs)
      /\ refs = [i \in 1..Len(refs) |-> refs[i]]
  BY DEF Resolves
<1>2. \A i \in 1..Len(refs) : spec[words[i]].id = refs[i]
  BY <1>1 DEF Resolves, Positions
<1> QED BY <1>1, <1>2 DEF NamesOf

\* The words of the only item of a kind.
LEMMA WordsOfOne ==
  ASSUME NEW o, NEW cfg, NEW words, o.items = <<Item(cfg, FALSE, words)>>
  PROVE  ItemWords(o, cfg) = {words}
<1>1. DOMAIN o.items = {1} /\ o.items[1].cfg = cfg /\ o.items[1].words = words
  BY DEF Item
<1> QED BY <1>1 DEF ItemWords

\* Bounds have no reference.
LEMMA WordsOfPairs ==
  ASSUME NEW T, NEW words \in Seq(T), NEW bounds, NEW o,
         o.items = <<Item("IOBind", FALSE, words)>> \o BoundItems(bounds, FALSE)
  PROVE  ItemWords(o, "IOBind") = {words}
<1> DEFINE item == Item("IOBind", FALSE, words)
           b == BoundItems(bounds, FALSE)
<1>1. item \in Items(T) /\ item.cfg = "IOBind" /\ item.words = words
  BY DEF Item, Items, Cfg
<1>2. b \in Seq(Items(T)) /\ Len(b) \in Nat /\ \A i \in 1..Len(b) : b[i].cfg # "IOBind"
  BY BoundsTyped DEF Bound
<1> DEFINE all == o.items
<1>3. all = <<item>> \o b
  OBVIOUS
<1> HIDE DEF item, b, all
<1>4. /\ all \in Seq(Items(T)) /\ Len(all) = 1 + Len(b) /\ all[1] = item
      /\ \A i \in 2..(1 + Len(b)) : all[i] = b[i - 1]
  <2>1. item \in Items(T) /\ b \in Seq(Items(T))
    BY ONLY <1>1, <1>2
  <2>2. /\ <<item>> \o b \in Seq(Items(T)) /\ Len(<<item>> \o b) = 1 + Len(b)
        /\ (<<item>> \o b)[1] = item
        /\ \A i \in 2..(1 + Len(b)) : (<<item>> \o b)[i] = b[i - 1]
    BY ONLY <2>1, OneBefore
  <2> QED BY ONLY <1>3, <2>2
<1>5. DOMAIN all = 1..(1 + Len(b)) /\ 1 \in DOMAIN all
  BY ONLY <1>2, <1>4
<1>6. \A i \in DOMAIN all : i = 1 \/ (i \in 2..(1 + Len(b)) /\ i - 1 \in 1..Len(b))
  BY ONLY <1>2, <1>5
<1>7. {j \in DOMAIN all : all[j].cfg = "IOBind"} = {1}
  BY ONLY <1>1, <1>2, <1>4, <1>5, <1>6
<1>8. {all[i].words : i \in {j \in DOMAIN all : all[j].cfg = "IOBind"}} = {words}
  BY ONLY <1>1, <1>4, <1>7
<1> QED BY ONLY <1>8 DEF ItemWords, all

LEMMA InvKeepsReferences == ImageInv => ReferencesKept
<1> SUFFICES ASSUME ImageInv, binResult = "ok", NEW k \in DOMAIN bin, bin[k].of # 0
             PROVE  LET e == spec[bin[k].of] IN
        /\ e.kind = "control" /\ e.refs # << >> =>
             {NamesOf(w) : w \in ItemWords(bin[k], "AllocObj")} = {e.refs}
        /\ e.kind = "protocol" /\ e.refs # << >> =>
             {NamesOf(w) : w \in ItemWords(bin[k], "IOBind")} = {e.refs}
        /\ /\ e.kind = "program" /\ e.refs # << >>
           /\ \A s \in {e.refs, e.outs} : \A i \in DOMAIN s :
                \E j \in Positions(s[i]) : Rank(spec[j]) <= 2
           => {NamesOf(w) : w \in ItemWords(bin[k], "IOBind")}
                = {[i \in 1..(2 * Len(e.refs)) |->
                      IF i % 2 = 1 THEN e.refs[(i + 1) \div 2] ELSE e.outs[i \div 2]]}
  BY DEF ReferencesKept
<1> DEFINE e == spec[bin[k].of]
           o == bin[k]
<1>1. Len(spec) \in Nat /\ BinRight(Len(spec))
  BY SpecTyped DEF ImageInv, BinInv
<1>2. MetadataObject(0).of = 0
  BY DEF MetadataObject, Obj
<1>3. bin[k].of \in DOMAIN spec /\ Serializes(o.items, e)
  <2>1. Len(spec) \in 0..Len(spec)
    BY <1>1
  <2> QED BY <1>1, <1>2, <2>1, BinaryObject
<1>4. e \in Entry /\ e.refs \in Seq(Name) /\ e.outs \in Seq(Name)
  BY <1>3, SpecTyped DEF ImageInv, Entry
<1> HIDE DEF e, o
<1>5. ASSUME e.kind \in Named, e.refs # << >>
      PROVE  {NamesOf(w) : w \in ItemWords(o, Binding(e))} = {e.refs}
  <2>1. PICK w : Resolves(w, e.refs) /\ o.items = <<Item(Binding(e), FALSE, w)>>
    BY <1>3, <1>5 DEF Serializes, Named
  <2>2. ItemWords(o, Binding(e)) = {w}
    BY <2>1, WordsOfOne
  <2>3. NamesOf(w) = e.refs
    BY <1>4, <2>1, NamesBack
  <2> QED BY <2>2, <2>3
<1>6. ASSUME e.kind = "program", e.refs # << >>, Early(e.refs), Early(e.outs)
      PROVE  {NamesOf(w) : w \in ItemWords(o, "IOBind")}
               = {[i \in 1..(2 * Len(e.refs)) |->
                     IF i % 2 = 1 THEN e.refs[(i + 1) \div 2] ELSE e.outs[i \div 2]]}
  <2>1. PICK s, t : Pairs(s, t, e) /\ o.items = PairItems(s, t) \o BoundItems(e.bounds, FALSE)
    BY <1>3, <1>6 DEF Serializes, Named
  <2>2. /\ s \in Seq(DOMAIN spec) /\ t \in Seq(DOMAIN spec) /\ Len(s) = Len(t)
        /\ Resolves(s, e.refs) /\ Resolves(t, e.outs)
    BY <1>6, <2>1 DEF Pairs
  <2>3. Len(s) = Len(e.refs) /\ Len(t) = Len(e.outs) /\ Len(e.refs) \in Nat
    <3>1. Len(e.refs) \in Nat
      BY <1>4, LenProperties
    <3> QED BY ONLY <2>2, <3>1 DEF Resolves
  <2>4. s # << >>
    BY <1>4, <1>6, <2>2, <2>3
  <2> DEFINE w == Interleave(s, t)
  <2>5. /\ w \in Seq(DOMAIN spec) /\ Len(w) = 2 * Len(s)
        /\ \A i \in 1..(2 * Len(s)) :
             /\ w[i] = IF i % 2 = 1 THEN s[(i + 1) \div 2] ELSE t[i \div 2]
             /\ IF i % 2 = 1 THEN (i + 1) \div 2 \in 1..Len(s) ELSE i \div 2 \in 1..Len(t)
    BY <2>2, Alternate
  <2>6. o.items = <<Item("IOBind", FALSE, w)>> \o BoundItems(e.bounds, FALSE)
    BY <2>1, <2>4 DEF PairItems
  <2> HIDE DEF w
  <2>7. ItemWords(o, "IOBind") = {w}
    BY <2>5, <2>6, WordsOfPairs
  <2>8. /\ \A i \in 1..Len(s) : spec[s[i]].id = e.refs[i]
        /\ \A i \in 1..Len(t) : spec[t[i]].id = e.outs[i]
    <3>1. DOMAIN e.refs = 1..Len(s) /\ DOMAIN e.outs = 1..Len(t)
      BY <1>4, <2>3
    <3> QED BY <2>2, <3>1 DEF Resolves, Positions
  <2>9. DOMAIN w = 1..(2 * Len(e.refs))
    BY <2>3, <2>5
  <2>10. \A i \in 1..(2 * Len(e.refs)) :
           spec[w[i]].id = IF i % 2 = 1 THEN e.refs[(i + 1) \div 2] ELSE e.outs[i \div 2]
    <3> TAKE i \in 1..(2 * Len(e.refs))
    <3>1. CASE i % 2 = 1
      BY <2>3, <2>5, <2>8, <3>1
    <3>2. CASE i % 2 # 1
      BY <2>3, <2>5, <2>8, <3>2
    <3> QED BY <3>1, <3>2
  <2> DEFINE named == [i \in 1..(2 * Len(e.refs)) |->
                         IF i % 2 = 1 THEN e.refs[(i + 1) \div 2] ELSE e.outs[i \div 2]]
  <2>11. NamesOf(w) = named
    BY <2>9, <2>10 DEF NamesOf
  <2> HIDE DEF named
  <2>12. {NamesOf(v) : v \in ItemWords(o, "IOBind")} = {named}
    BY <2>7, <2>11
  <2> QED BY ONLY <2>12 DEF named
<1>7. e.kind = "control" => e.kind \in Named /\ Binding(e) = "AllocObj"
  BY DEF Named, Binding
<1>8. e.kind = "protocol" => e.kind \in Named /\ Binding(e) = "IOBind"
  BY DEF Named, Binding
<1>9. (\A s \in {e.refs, e.outs} : \A i \in DOMAIN s :
          \E j \in Positions(s[i]) : Rank(spec[j]) <= 2) => Early(e.refs) /\ Early(e.outs)
  BY DEF Early
<1> QED BY <1>5, <1>6, <1>7, <1>8, <1>9 DEF e, o

\* A binary that was written can be walked by its counts, and holds every target, binding
\* and pair of references that the descriptor names, in order and to the entry meant:
\* whatever the descriptor, and however a name was known.
THEOREM WrittenWhole == Spec => []BinaryWhole
<1>1. ImageInv => CountsRight
  <2> SUFFICES ASSUME ImageInv, binResult = "ok"
               PROVE  binCount = Len(bin) /\ \A k \in DOMAIN bin : bin[k].count = Len(bin[k].items)
    BY DEF CountsRight
  <2> QED BY DEF ImageInv, BinInv, BinRight
<1>2. ImageInv => BinaryWhole
  BY <1>1, InvKeepsReferences DEF BinaryWhole
<1> QED BY <1>2, ImageInvAlways, PTL

-----------------------------------------------------------------------------
(* Write bits *)

\* Some writable config IO is for the entry or, if it is a config IO, for its target.
Asked(e) ==
  \E j \in DOMAIN spec :
    /\ spec[j].kind = "config" /\ spec[j].rw
    /\ spec[j].refs[1] \in {e.id} \cup (IF e.kind = "config" THEN Range(e.refs) ELSE {})

LEMMA GrantAsked ==
  ASSUME Decoded, NEW n \in Grants
  PROVE  \E j \in DOMAIN spec : spec[j].kind = "config" /\ spec[j].rw /\ spec[j].refs[1] = n
<1>1. PICK m \in Defined : LET e == spec[Last(m)] IN e.kind = "config" /\ e.rw /\ e.refs[1] = n
  BY DEF Grants
<1> QED BY <1>1, LastFound

LEMMA RwOfItem ==
  ASSUME NEW cfg, NEW rw \in BOOLEAN, NEW words
  PROVE  Item(cfg, rw, words).rw <=> rw
  BY DEF Item

LEMMA EitherOfTwo ==
  ASSUME NEW x, NEW y, NEW i \in DOMAIN <<x, y>>
  PROVE  <<x, y>>[i] = x \/ <<x, y>>[i] = y
<1>1. i = 1 \/ i = 2
  OBVIOUS
<1> QED BY <1>1

LEMMA PairItemsTyped ==
  ASSUME Decoded, NEW s, NEW o, NEW e, Pairs(s, o, e)
  PROVE  /\ PairItems(s, o) \in Seq(Items(Nat))
         /\ \A i \in 1..Len(PairItems(s, o)) : ~PairItems(s, o)[i].rw
<1> DEFINE item == Item("IOBind", FALSE, Interleave(s, o))
<1>1. s \in Seq(Nat) /\ o \in Seq(Nat) /\ Len(s) = Len(o)
  <2>1. DOMAIN spec \subseteq Nat
    BY SpecTyped
  <2> QED BY <2>1, SeqMonotonic DEF Pairs
<1>2. Interleave(s, o) \in Seq(Nat)
  BY <1>1, Alternate
<1>3. item \in Items(Nat) /\ ~item.rw
  BY <1>2 DEF Item, Items, Cfg
<1>4. PairItems(s, o) = IF s = << >> THEN << >> ELSE <<item>>
  BY DEF PairItems
<1> HIDE DEF item
<1>5. <<item>> \in Seq(Items(Nat)) /\ Len(<<item>>) = 1 /\ <<item>>[1] = item
  BY <1>3
<1>6. << >> \in Seq(Items(Nat)) /\ Len(<< >>) = 0 /\ \A i : i \notin 1..0
  BY EmptySeq
<1>7. \A i \in 1..1 : <<item>>[i] = item
  BY <1>5
<1> QED BY <1>3, <1>4, <1>5, <1>6, <1>7

LEMMA SerializedGrants ==
  ASSUME Decoded, NEW m \in DOMAIN spec, NEW items, Serializes(items, spec[m]),
         NEW i \in DOMAIN items, items[i].rw
  PROVE  Asked(spec[m])
<1> DEFINE e == spec[m]
<1>1. /\ e.kind = "config" => e.refs[1] \in Range(e.refs)
      /\ e \in Entry
  <2>1. e \in Entry /\ e.refs \in Seq(Name)
    BY SpecTyped DEF Entry
  <2>2. e.kind = "config" => 1 \in DOMAIN e.refs
    BY <2>1 DEF Decoded
  <2> QED BY <2>1, <2>2 DEF Range
<1> HIDE DEF e
<1>2. CASE e.kind = "io" /\ items = <<Item("Own", e.id \in Grants, << >>)>>
  <2> DEFINE g == e.id \in Grants
  <2>1. items = <<Item("Own", g, << >>)>> /\ g \in BOOLEAN
    BY <1>2
  <2> HIDE DEF g
  <2>2. items[i] = Item("Own", g, << >>)
    BY <2>1
  <2>3. g
    BY <2>1, <2>2, RwOfItem
  <2> QED BY <2>3, GrantAsked DEF Asked, e, g
<1>3. CASE \E w : Resolves(w, e.refs) /\ items = <<Item(Binding(e), FALSE, w)>>
  BY <1>3 DEF Item
<1>4. CASE /\ e.kind = "config"
           /\ \E w \in DOMAIN spec :
                items = <<Item("Alloc", e.refs[1] \in Grants, <<FieldWord>>),
                          Item("Cfg", FALSE, <<w>>)>>
  <2> DEFINE g == e.refs[1] \in Grants
  <2>1. PICK w \in DOMAIN spec :
          items = <<Item("Alloc", g, <<FieldWord>>), Item("Cfg", FALSE, <<w>>)>>
    BY <1>4
  <2>2. g \in BOOLEAN
    OBVIOUS
  <2> HIDE DEF g
  <2>3. items[i] = Item("Alloc", g, <<FieldWord>>) \/ items[i] = Item("Cfg", FALSE, <<w>>)
    BY <2>1, EitherOfTwo, Zenon
  <2>4. g
    BY <2>2, <2>3, RwOfItem
  <2> QED BY <1>1, <1>4, <2>4, GrantAsked DEF Asked, e, g
<1>5. CASE \E s, o : Pairs(s, o, e) /\ items = PairItems(s, o) \o BoundItems(e.bounds, FALSE)
  <2>1. PICK s, o : Pairs(s, o, e) /\ items = PairItems(s, o) \o BoundItems(e.bounds, FALSE)
    BY <1>5
  <2> DEFINE a == PairItems(s, o)
             b == BoundItems(e.bounds, FALSE)
  <2>2. a \in Seq(Items(Nat)) /\ \A k \in 1..Len(a) : ~a[k].rw
    BY <2>1, PairItemsTyped
  <2>3. b \in Seq(Items(Nat)) /\ \A k \in 1..Len(b) : ~b[k].rw
    BY BoundsTyped
  <2>4. items = a \o b
    BY <2>1
  <2> HIDE DEF a, b
  <2>5. /\ items \in Seq(Items(Nat)) /\ Len(items) \in Nat
        /\ \A k \in 1..Len(items) : \/ \E j \in 1..Len(a) : items[k] = a[j]
                                    \/ \E j \in 1..Len(b) : items[k] = b[j]
    <3>1. a \in Seq(Items(Nat)) /\ b \in Seq(Items(Nat))
      BY <2>2, <2>3
    <3> QED BY ONLY <3>1, <2>4, EitherPart
  <2>6. i \in 1..Len(items)
    BY <2>5
  <2> QED BY <2>2, <2>3, <2>5, <2>6
<1>6. CASE items = << >>
  BY <1>6
<1> QED BY <1>2, <1>3, <1>4, <1>5, <1>6 DEF Serializes, e

LEMMA GeneratedGrants ==
  ASSUME Decoded, NEW m \in DOMAIN spec, NEW count, NEW items,
         Generates(count, items, spec[m], spec[m].id), NEW i \in DOMAIN items, items[i].rw
  PROVE  Asked(spec[m])
<1> DEFINE e == spec[m]
<1>1. /\ e.kind = "config" => e.refs[1] \in Range(e.refs)
      /\ e \in Entry /\ e.refs \in Seq(Name) /\ e.outs \in Seq(Name)
  <2>1. e \in Entry /\ e.refs \in Seq(Name) /\ e.outs \in Seq(Name)
    BY SpecTyped DEF Entry
  <2>2. e.kind = "config" => 1 \in DOMAIN e.refs
    BY <2>1 DEF Decoded
  <2> QED BY <2>1, <2>2 DEF Range
<1> HIDE DEF e
<1>2. CASE items = <<Item("Own", e.id \in HelperGrants, << >>)>>
  <2> DEFINE g == e.id \in HelperGrants
  <2>1. items = <<Item("Own", g, << >>)>> /\ g \in BOOLEAN
    BY <1>2
  <2> HIDE DEF g
  <2>2. items[i] = Item("Own", g, << >>)
    BY <2>1
  <2>3. g
    BY <2>1, <2>2, RwOfItem
  <2> QED BY <2>3, GrantAsked DEF HelperGrants, Asked, e, g
<1>3. CASE items = <<Item(Binding(e), FALSE, e.refs)>>
  BY <1>3 DEF Item
<1>4. CASE /\ e.kind = "config"
           /\ items = <<Item("Cfg", e.refs[1] \in HelperGrants, <<Field>>),
                        Item("Alloc", FALSE, <<e.refs[1]>>)>>
  <2> DEFINE g == e.refs[1] \in HelperGrants
  <2>1. /\ items = <<Item("Cfg", g, <<Field>>), Item("Alloc", FALSE, <<e.refs[1]>>)>>
        /\ g \in BOOLEAN
    BY <1>4
  <2> HIDE DEF g
  <2>2. items[i] = Item("Cfg", g, <<Field>>) \/ items[i] = Item("Alloc", FALSE, <<e.refs[1]>>)
    BY <2>1, EitherOfTwo, Zenon
  <2>3. g
    BY <2>1, <2>2, RwOfItem
  <2> QED BY <1>1, <1>4, <2>3, GrantAsked DEF HelperGrants, Asked, e, g
<1>5. CASE /\ Len(e.refs) = Len(e.outs)
           /\ items = <<Item("IOBind", FALSE, Interleave(e.refs, e.outs))>>
                        \o BoundItems(e.bounds, e.id \in Grants)
  <2> DEFINE granted == e.id \in Grants
             item == Item("IOBind", FALSE, Interleave(e.refs, e.outs))
             b == BoundItems(e.bounds, granted)
  <2>1. item \in Items(Name) /\ ~item.rw
    <3>1. Interleave(e.refs, e.outs) \in Seq(Name)
      BY <1>1, <1>5, Alternate
    <3> QED BY <3>1 DEF Item, Items, Cfg
  <2>2. granted \in BOOLEAN /\ items = <<item>> \o b
    BY <1>5
  <2> HIDE DEF item
  <2>3. b \in Seq(Items(Name)) /\ Len(b) \in Nat /\ \A k \in 1..Len(b) : b[k].rw => granted
    <3> HIDE DEF granted
    <3> QED BY <2>2, BoundsTyped
  <2> HIDE DEF b
  <2>4. /\ items \in Seq(Items(Name)) /\ Len(items) = 1 + Len(b) /\ items[1] = item
        /\ \A k \in 2..(1 + Len(b)) : items[k] = b[k - 1]
    <3>1. item \in Items(Name) /\ b \in Seq(Items(Name)) /\ items = <<item>> \o b
      BY <2>1, <2>2, <2>3
    <3> QED BY ONLY <3>1, OneBefore
  <2>5. i = 1 \/ (i \in 2..(1 + Len(b)) /\ i - 1 \in 1..Len(b))
    <3>1. i \in 1..(1 + Len(b))
      BY <2>4
    <3> QED BY <2>3, <3>1
  <2>6. granted
    BY <2>1, <2>3, <2>4, <2>5
  <2> QED BY <2>6, GrantAsked DEF Asked, e
<1>6. CASE items = << >>
  BY <1>6
<1> QED BY <1>2, <1>3, <1>4, <1>5, <1>6 DEF Generates, e

\* An object of a whole text is the metadata or made of the last entry of its name.
LEMMA TextObject ==
  ASSUME ImageInv, TextRight(Len(spec)), NEW k \in DOMAIN text
  PROVE  \/ meta \in {"version", "null"} /\ k = 1 /\ text[k] = MetadataObject(Field)
         \/ LET id == spec[k - TextExtra].id IN
            /\ k - TextExtra \in DOMAIN spec /\ text[k].of = id
            /\ id \in Defined /\ id \in Name /\ id # Field
            /\ Generates(text[k].count, text[k].items, spec[Last(id)], id)
<1>1. /\ Len(spec) \in Nat /\ DOMAIN spec = 1..Len(spec)
      /\ DOMAIN text = 1..Len(text) /\ Len(text) \in Nat /\ Len(text) = TextExtra + Len(spec)
  BY SpecTyped DEF ImageInv, TypeOK, TextRight
<1>2. CASE meta \in {"version", "null"} /\ k = 1
  BY <1>2 DEF TextRight
<1>3. CASE ~(meta \in {"version", "null"} /\ k = 1)
  <2>1. k - TextExtra \in 1..Len(spec) /\ TextExtra + (k - TextExtra) = k
    BY <1>1, <1>3 DEF TextExtra
  <2> DEFINE id == spec[k - TextExtra].id
  <2>2. text[k].of = id /\ Generates(text[k].count, text[k].items, spec[Last(id)], id)
    BY <2>1 DEF TextRight
  <2>3. k - TextExtra \in DOMAIN spec /\ id \in Defined /\ id \in Name /\ id # Field
    BY <1>1, <2>1, DefinedNames, DescriptorAssumption DEF ImageInv
  <2> QED BY <2>2, <2>3
<1> QED BY <1>2, <1>3

LEMMA MetadataReadOnly ==
  ASSUME NEW of, NEW i \in DOMAIN MetadataObject(of).items
  PROVE  ~MetadataObject(of).items[i].rw
  BY DEF MetadataObject, Obj, Item

LEMMA InvGrants == ImageInv => WritableIsGranted
<1> SUFFICES ASSUME ImageInv
             PROVE  WritableIsGranted
  OBVIOUS
<1>1. ASSUME NEW k \in DOMAIN bin, NEW i \in DOMAIN bin[k].items, bin[k].items[i].rw
      PROVE  Asked(spec[bin[k].of])
  <2>1. bin # << >>
    OBVIOUS
  <2>2. PICK n \in 0..Len(spec) : BinRight(n)
    BY <2>1 DEF ImageInv, BinInv
  <2>3. CASE bin[k] = MetadataObject(0)
    BY <1>1, <2>3, MetadataReadOnly
  <2>4. CASE bin[k].of \in DOMAIN spec /\ Serializes(bin[k].items, spec[bin[k].of])
    BY <1>1, <2>4, SerializedGrants DEF ImageInv
  <2> QED BY <2>2, <2>3, <2>4, BinaryObject
<1>2. ASSUME NEW k \in DOMAIN cpp, NEW i \in DOMAIN cpp[k].items, cpp[k].items[i].rw
      PROVE  Asked(spec[cpp[k].of])
  <2> DEFINE W == Name \cup {Field}
             o == text[k]
  <2>1. cppResult = "ok" /\ TextRight(Len(spec)) /\ cpp = [j \in DOMAIN text |-> Compiled(text[j])]
    <3>1. cpp # << >>
      OBVIOUS
    <3> QED BY <3>1 DEF ImageInv, TextInv
  <2>2. k \in DOMAIN text /\ cpp[k] = Compiled(o) /\ o \in Object(W, W)
    BY <2>1 DEF ImageInv, TypeOK
  <2> HIDE DEF o
  <2>3. /\ cpp[k].of = Meaning(o.of) /\ i \in DOMAIN o.items
        /\ cpp[k].items[i].rw = o.items[i].rw
    <3> DEFINE c == Compiled(o)
    <3>1. /\ c.of = Meaning(o.of) /\ DOMAIN c.items = DOMAIN o.items
          /\ \A j \in DOMAIN o.items :
               c.items[j] = [cfg |-> o.items[j].cfg, rw |-> o.items[j].rw,
                             words |-> [l \in DOMAIN o.items[j].words |->
                                          Meaning(o.items[j].words[l])]]
      BY <2>2, CompiledItems
    <3> HIDE DEF c
    <3>2. i \in DOMAIN o.items /\ cpp[k] = c
      BY <2>2, <3>1 DEF c
    <3>3. c.items[i] = [cfg |-> o.items[i].cfg, rw |-> o.items[i].rw,
                        words |-> [l \in DOMAIN o.items[i].words |->
                                     Meaning(o.items[i].words[l])]]
      BY <3>1, <3>2
    <3>4. c.items[i].rw = o.items[i].rw
      BY ONLY <3>3
    <3> QED BY <3>1, <3>2, <3>4, Zenon
  <2>4. CASE o = MetadataObject(Field)
    BY <1>2, <2>3, <2>4, MetadataReadOnly
  <2>5. CASE \E id \in Defined : /\ o.of = id /\ id # Field
                                 /\ Generates(o.count, o.items, spec[Last(id)], id)
    <3>1. PICK id \in Defined : /\ o.of = id /\ id # Field
                                /\ Generates(o.count, o.items, spec[Last(id)], id)
      BY <2>5
    <3>2. Last(id) \in DOMAIN spec /\ spec[Last(id)].id = id /\ cpp[k].of = Last(id)
      BY <2>3, <3>1, LastFound DEF ImageInv, Meaning
    <3> QED BY <1>2, <2>3, <3>1, <3>2, GeneratedGrants DEF ImageInv
  <2> QED BY <2>1, <2>2, <2>4, <2>5, TextObject DEF o
<1> QED BY <1>1, <1>2 DEF WritableIsGranted, Asked

\* A write bit appears in the binary, and in the array the compiler makes, only where a
\* writable config IO of the descriptor asks for it: also when an entry of that name was
\* replaced, or the binary is refused half way.
THEOREM WriteBitsGranted == Spec => []WritableIsGranted
  BY InvGrants, ImageInvAlways, PTL

-----------------------------------------------------------------------------
(* The two images of one descriptor *)

\* With as many names as entries, every name has one entry, which is its meaning.
LEMMA NamesApart ==
  ASSUME Decoded, UniqueNames, NEW n \in Name, NEW k \in Positions(n)
  PROVE  Meaning(n) = k /\ Last(n) = k
<1> DEFINE ids == [j \in DOMAIN spec |-> spec[j].id]
<1>1. Len(spec) \in Nat /\ DOMAIN spec = 1..Len(spec)
  BY SpecTyped
<1>2. IsFiniteSet(DOMAIN spec) /\ Cardinality(DOMAIN spec) = Len(spec)
  <2>1. 1 \in Int /\ Len(spec) \in Int /\ (1 > Len(spec) => Len(spec) = 0)
    BY <1>1
  <2>2. IsFiniteSet(1..Len(spec)) /\ Cardinality(1..Len(spec)) = Len(spec)
    BY <1>1, <2>1, FS_Interval
  <2> QED BY <1>1, <2>2
<1>3. ids \in Surjection(DOMAIN spec, Defined)
  BY DEF Surjection, Defined
<1>4. ids \in Injection(DOMAIN spec, Defined)
  BY <1>2, <1>3, FS_Surjection DEF UniqueNames
<1>5. \A i, j \in DOMAIN spec : spec[i].id = spec[j].id => i = j
  BY <1>4 DEF Injection, IsInjective
<1>6. k \in DOMAIN spec /\ spec[k].id = n /\ n \in Defined
  BY DEF Positions, Defined
<1>7. Last(n) = k
  BY <1>5, <1>6, LastFound
<1> QED BY <1>7, DescriptorAssumption DEF Meaning

\* What two sequences of items must share for the compiled one to be the other.
Matches(a, b) ==
  /\ Len(a) = Len(b)
  /\ \A i \in 1..Len(b) :
       /\ a[i].cfg = b[i].cfg /\ a[i].rw = b[i].rw /\ Len(a[i].words) = Len(b[i].words)
       /\ \A j \in DOMAIN b[i].words : a[i].words[j] = Meaning(b[i].words[j])

LEMMA MatchingObjects ==
  ASSUME Decoded, NEW T, NEW o \in Object(Nat, Nat), NEW p \in Object(T, T),
         o.of = Meaning(p.of), o.count = p.count, Matches(o.items, p.items)
  PROVE  o = Compiled(p)
<1> DEFINE c == Compiled(p)
<1>1. /\ c.of = Meaning(p.of) /\ c.count = p.count
      /\ DOMAIN c.items = DOMAIN p.items /\ DOMAIN p.items = 1..Len(p.items)
      /\ Len(p.items) \in Nat
      /\ \A i \in DOMAIN p.items :
           /\ p.items[i] \in Items(T)
           /\ c.items[i] = [cfg |-> p.items[i].cfg, rw |-> p.items[i].rw,
                            words |-> [j \in DOMAIN p.items[i].words |->
                                         Meaning(p.items[i].words[j])]]
  BY CompiledItems
<1>2. /\ o = [of |-> o.of, count |-> o.count, items |-> o.items]
      /\ o.items \in Seq(Items(Nat))
  BY DEF Object, Items
<1>3. DOMAIN o.items = 1..Len(p.items) /\ \A i \in 1..Len(p.items) : o.items[i] \in Items(Nat)
  BY <1>2 DEF Matches
<1>4. ASSUME NEW i \in 1..Len(p.items)
      PROVE  o.items[i] = c.items[i]
  <2> DEFINE x == o.items[i]
             y == p.items[i]
             w == [j \in DOMAIN y.words |-> Meaning(y.words[j])]
  <2>1. x \in Items(Nat) /\ y \in Items(T) /\ c.items[i] = [cfg |-> y.cfg, rw |-> y.rw, words |-> w]
    BY <1>1, <1>3
  <2>2. /\ x.cfg = y.cfg /\ x.rw = y.rw /\ Len(x.words) = Len(y.words)
        /\ \A j \in DOMAIN y.words : x.words[j] = Meaning(y.words[j])
    BY DEF Matches
  <2> HIDE DEF x, y
  <2>3. x.words \in Seq(Nat) /\ y.words \in Seq(T) /\ x = [cfg |-> x.cfg, rw |-> x.rw, words |-> x.words]
    BY <2>1 DEF Items
  <2>4. DOMAIN x.words = DOMAIN y.words
    BY <2>2, <2>3
  <2>5. x.words = w
    <3>1. x.words = [j \in DOMAIN x.words |-> x.words[j]]
      BY <2>3
    <3> QED BY <2>2, <2>4, <3>1
  <2> HIDE DEF w
  <2>6. x = [cfg |-> y.cfg, rw |-> y.rw, words |-> w]
    BY ONLY <2>2, <2>3, <2>5
  <2> QED BY <2>1, <2>6 DEF x
<1>5. o.items = c.items
  <2>1. c.items = [i \in DOMAIN p.items |-> c.items[i]]
    BY DEF Compiled
  <2>2. o.items = [i \in 1..Len(p.items) |-> o.items[i]]
    BY <1>2, <1>3
  <2> QED BY <1>1, <1>4, <2>1, <2>2
<1>6. c = [of |-> c.of, count |-> c.count, items |-> c.items]
  BY DEF Compiled
<1> HIDE DEF c
<1>7. o = c
  BY ONLY <1>1, <1>2, <1>5, <1>6, o.of = Meaning(p.of), o.count = p.count
<1> QED BY <1>7 DEF c

\* References resolved by either are to the same entries.
LEMMA SameReferences ==
  ASSUME Decoded, UniqueNames, NEW refs \in Seq(Name), NEW words, Resolves(words, refs)
  PROVE  Len(words) = Len(refs) /\ \A i \in DOMAIN refs : words[i] = Meaning(refs[i])
<1>1. \A i \in DOMAIN refs : refs[i] \in Name /\ words[i] \in Positions(refs[i])
  BY DEF Resolves
<1> QED BY <1>1, NamesApart DEF Resolves

LEMMA TwoBounds == Cardinality(Bound) = 2
<1>1. Bound = {"min"} \cup {"max"} /\ "max" \notin {"min"}
  BY DEF Bound
<1>2. IsFiniteSet({"min"}) /\ Cardinality({"min"}) = 1
  BY FS_Singleton
<1> QED BY <1>1, <1>2, FS_AddElement

\* One item on both sides.
LEMMA OneMatches ==
  ASSUME NEW T, NEW S, NEW cfg, NEW rw, NEW v \in Seq(T), NEW w \in Seq(S), Len(v) = Len(w),
         \A j \in DOMAIN w : v[j] = Meaning(w[j])
  PROVE  /\ Matches(<<Item(cfg, rw, v)>>, <<Item(cfg, rw, w)>>)
         /\ Len(<<Item(cfg, rw, w)>>) = 1
<1> DEFINE x == Item(cfg, rw, v)
           y == Item(cfg, rw, w)
<1>1. x.cfg = y.cfg /\ x.rw = y.rw /\ x.words = v /\ y.words = w
  BY DEF Item
<1> HIDE DEF x, y
<1>2. Len(<<x>>) = 1 /\ Len(<<y>>) = 1 /\ <<x>>[1] = x /\ <<y>>[1] = y
  OBVIOUS
<1>3. \A i \in 1..1 : i = 1
  OBVIOUS
<1>4. Matches(<<x>>, <<y>>)
  BY <1>1, <1>2, <1>3 DEF Matches
<1> QED BY <1>2, <1>4 DEF x, y

\* The pairs of a program, and its bounds behind them.
LEMMA PairsMatch ==
  ASSUME Decoded, UniqueNames, NEW e \in Entry, e.kind = "program", Alike(e),
         NEW s, NEW t, Pairs(s, t, e), Len(e.refs) = Len(e.outs)
  PROVE  LET a == PairItems(s, t) \o BoundItems(e.bounds, FALSE)
             b == <<Item("IOBind", FALSE, Interleave(e.refs, e.outs))>>
                    \o BoundItems(e.bounds, e.id \in Grants) IN
         Len(b) = 1 + Cardinality(Bound) /\ Matches(a, b)
<1> DEFINE v == Interleave(s, t)
           w == Interleave(e.refs, e.outs)
           x == Item("IOBind", FALSE, v)
           y == Item("IOBind", FALSE, w)
           d == BoundItems(Bound, FALSE)
<1>1. /\ e.bounds = Bound /\ e.id \notin Grants /\ e.refs # << >>
      /\ e.refs \in Seq(Name) /\ e.outs \in Seq(Name)
  BY DEF Alike, Entry
<1>2. ASSUME NEW refs \in {e.refs, e.outs}
      PROVE  Early(refs)
  <2> SUFFICES ASSUME NEW i \in DOMAIN refs
               PROVE  \E k \in Positions(refs[i]) : Rank(spec[k]) <= 2
    BY DEF Early
  <2>1. Is(refs[i], {"io", "control", "config", "program"})
    BY DEF Alike
  <2>2. Last(refs[i]) \in Positions(refs[i])
    BY <2>1, LastFound DEF Is, Positions
  <2>3. Rank(spec[Last(refs[i])]) <= 2
    BY <2>1 DEF Is, Rank
  <2> QED BY <2>2, <2>3
<1>3. Resolves(s, e.refs) /\ Resolves(t, e.outs)
  BY <1>2 DEF Pairs
<1>4. /\ Len(s) = Len(e.refs) /\ \A i \in DOMAIN e.refs : s[i] = Meaning(e.refs[i])
      /\ Len(t) = Len(e.outs) /\ \A i \in DOMAIN e.outs : t[i] = Meaning(e.outs[i])
  BY <1>1, <1>3, SameReferences
<1>5. s \in Seq(Nat) /\ t \in Seq(Nat) /\ Len(s) = Len(t) /\ s # << >>
  <2>1. DOMAIN spec \subseteq Nat
    BY SpecTyped
  <2>2. s \in Seq(Nat) /\ t \in Seq(Nat)
    BY <2>1, <1>3, SeqMonotonic DEF Resolves
  <2>3. Len(e.refs) # 0
    BY <1>1, EmptySeq
  <2>4. Len(<< >>) = 0
    OBVIOUS
  <2> QED BY <1>4, <2>2, <2>3, <2>4
<1>6. /\ v \in Seq(Nat) /\ Len(v) = 2 * Len(s)
      /\ \A i \in 1..(2 * Len(s)) :
           /\ v[i] = IF i % 2 = 1 THEN s[(i + 1) \div 2] ELSE t[i \div 2]
           /\ IF i % 2 = 1 THEN (i + 1) \div 2 \in 1..Len(s) ELSE i \div 2 \in 1..Len(t)
  BY <1>5, Alternate
<1>7. /\ w \in Seq(Name) /\ Len(w) = 2 * Len(e.refs)
      /\ \A i \in 1..(2 * Len(e.refs)) :
           /\ w[i] = IF i % 2 = 1 THEN e.refs[(i + 1) \div 2] ELSE e.outs[i \div 2]
           /\ IF i % 2 = 1 THEN (i + 1) \div 2 \in 1..Len(e.refs)
                           ELSE i \div 2 \in 1..Len(e.outs)
  BY <1>1, Alternate
<1> HIDE DEF v, w
<1>8. Len(v) = Len(w) /\ \A i \in DOMAIN w : v[i] = Meaning(w[i])
  <2>1. DOMAIN w = 1..(2 * Len(e.refs)) /\ DOMAIN e.refs = 1..Len(e.refs)
          /\ DOMAIN e.outs = 1..Len(e.outs)
    BY <1>1, <1>7
  <2>2. ASSUME NEW i \in 1..(2 * Len(e.refs))
        PROVE  v[i] = Meaning(w[i])
    <3>1. CASE i % 2 = 1
      BY <1>4, <1>6, <1>7, <2>1, <3>1
    <3>2. CASE i % 2 # 1
      BY <1>4, <1>6, <1>7, <2>1, <3>2
    <3> QED BY <3>1, <3>2
  <2> QED BY <1>4, <1>6, <1>7, <2>1, <2>2
<1>9. /\ x \in Items(Nat) /\ y \in Items(Name) /\ x.cfg = y.cfg /\ x.rw = y.rw
      /\ x.words = v /\ y.words = w
  BY <1>6, <1>7 DEF Item, Items, Cfg
<1>10. /\ d \in Seq(Items(Nat)) /\ d \in Seq(Items(Name)) /\ Len(d) = 2
       /\ \A i \in 1..Len(d) : d[i].words = << >>
  BY BoundsTyped
<1> DEFINE a == <<x>> \o d
           b == <<y>> \o d
<1>11. PairItems(s, t) \o BoundItems(e.bounds, FALSE) = a
  BY <1>1, <1>5 DEF PairItems, v
<1>12. <<Item("IOBind", FALSE, Interleave(e.refs, e.outs))>>
         \o BoundItems(e.bounds, e.id \in Grants) = b
  <2>1. (e.id \in Grants) = FALSE
    BY <1>1
  <2> QED BY <1>1, <2>1 DEF w
<1> HIDE DEF x, y, d
<1>13. Len(a) = 1 + Len(d) /\ a[1] = x /\ \A i \in 2..(1 + Len(d)) : a[i] = d[i - 1]
  <2>1. x \in Items(Nat) /\ d \in Seq(Items(Nat))
    BY <1>9, <1>10
  <2> QED BY ONLY <2>1, OneBefore
<1>14. Len(b) = 1 + Len(d) /\ b[1] = y /\ \A i \in 2..(1 + Len(d)) : b[i] = d[i - 1]
  <2>1. y \in Items(Name) /\ d \in Seq(Items(Name))
    BY <1>9, <1>10
  <2> QED BY ONLY <2>1, OneBefore
<1> HIDE DEF a, b
<1>15. Len(b) = 1 + Cardinality(Bound)
  BY <1>10, <1>14, TwoBounds
<1>16. Matches(a, b)
  <2> SUFFICES ASSUME NEW i \in 1..(1 + Len(d))
               PROVE  /\ a[i].cfg = b[i].cfg /\ a[i].rw = b[i].rw
                      /\ Len(a[i].words) = Len(b[i].words)
                      /\ \A j \in DOMAIN b[i].words : a[i].words[j] = Meaning(b[i].words[j])
    BY <1>13, <1>14 DEF Matches
  <2>1. CASE i = 1
    BY <1>8, <1>9, <1>13, <1>14, <2>1
  <2>2. CASE i # 1
    <3>1. i \in 2..(1 + Len(d)) /\ i - 1 \in 1..Len(d)
      BY <1>10, <2>2
    <3>2. a[i] = d[i - 1] /\ b[i] = d[i - 1] /\ d[i - 1].words = << >>
      BY <1>10, <1>13, <1>14, <3>1
    <3>3. DOMAIN << >> = {}
      OBVIOUS
    <3> QED BY <3>2, <3>3
  <2> QED BY <2>1, <2>2
<1> QED BY <1>11, <1>12, <1>15, <1>16

\* Entry by entry, what the back ends treat alike has as many items as announced, and the
\* same ones.
LEMMA EntriesMatch ==
  ASSUME Decoded, UniqueNames, NEW m \in DOMAIN spec, Alike(spec[m]),
         NEW a, Serializes(a, spec[m]),
         NEW count, NEW b, Generates(count, b, spec[m], spec[m].id)
  PROVE  Len(a) = count /\ Matches(a, b)
<1> DEFINE e == spec[m]
<1>1. e \in Entry /\ e.refs \in Seq(Name) /\ e.kind # "config"
  BY SpecTyped DEF Entry, Alike
<1>2. e.kind = "io" => e.path = "handler" /\ (e.id \in HelperGrants <=> e.id \in Grants)
  <2>1. e.id \in Name /\ m \in Positions(e.id)
    BY <1>1 DEF Entry, Positions
  <2>2. Last(e.id) = m
    BY <2>1, NamesApart
  <2> QED BY <2>2 DEF Alike, HelperGrants
<1> HIDE DEF e
<1>3. CASE e.kind = "io"
  <2> DEFINE g == e.id \in Grants
  <2>1. a = <<Item("Own", g, << >>)>> /\ b = <<Item("Own", g, << >>)>> /\ count = 1
    <3>1. e.path = "handler" /\ g = (e.id \in HelperGrants)
      BY <1>3, <1>2
    <3> QED BY <1>3, <3>1 DEF Serializes, Generates, Named, e
  <2> HIDE DEF g
  <2>2. << >> \in Seq(Nat) /\ \A j \in DOMAIN << >> : << >>[j] = Meaning(<< >>[j])
    BY EmptySeq
  <2>3. Matches(a, b) /\ Len(b) = 1
    BY <2>1, <2>2, OneMatches
  <2> QED BY <2>1, <2>3
<1>4. CASE e.kind \in Named /\ e.refs = << >>
  <2>1. a = << >> /\ b = << >> /\ count = 0
    BY <1>4 DEF Serializes, Generates, Named, e
  <2>2. Len(<< >>) = 0 /\ \A i \in 1..0 : FALSE
    OBVIOUS
  <2> QED BY <2>1, <2>2 DEF Matches
<1>5. CASE e.kind \in Named /\ e.refs # << >>
  <2>1. PICK w : Resolves(w, e.refs) /\ a = <<Item(Binding(e), FALSE, w)>>
    BY <1>5 DEF Serializes, Named, e
  <2>2. b = <<Item(Binding(e), FALSE, e.refs)>> /\ count = 1
    BY <1>5 DEF Generates, Named, e
  <2>3. Len(w) = Len(e.refs) /\ \A i \in DOMAIN e.refs : w[i] = Meaning(e.refs[i])
    BY <1>1, <2>1, SameReferences
  <2>4. w \in Seq(DOMAIN spec)
    BY <2>1 DEF Resolves
  <2>5. Matches(a, b) /\ Len(b) = 1
    BY <1>1, <2>1, <2>2, <2>3, <2>4, OneMatches
  <2> QED BY <2>2, <2>5 DEF Matches
<1>6. CASE e.kind = "program"
  <2>1. PICK s, t : Pairs(s, t, e) /\ a = PairItems(s, t) \o BoundItems(e.bounds, FALSE)
    BY <1>6 DEF Serializes, Named, e
  <2>2. /\ count = 1 + Cardinality(Bound) /\ Len(e.refs) = Len(e.outs)
        /\ b = <<Item("IOBind", FALSE, Interleave(e.refs, e.outs))>>
                  \o BoundItems(e.bounds, e.id \in Grants)
    BY <1>6 DEF Generates, Named, e
  <2>3. Len(b) = 1 + Cardinality(Bound) /\ Matches(a, b)
    BY <1>1, <1>6, <2>1, <2>2, PairsMatch DEF e
  <2> QED BY <2>2, <2>3 DEF Matches
<1>7. e.kind # "system"
  BY DEF Serializes, Named, e
<1> QED BY <1>1, <1>3, <1>4, <1>5, <1>6, <1>7 DEF Entry, Kind, Named

LEMMA MetadataMatches ==
  ASSUME Decoded
  PROVE  MetadataObject(0) = Compiled(MetadataObject(Field))
<1> DEFINE W == Name \cup {Field}
           o == MetadataObject(0)
           p == MetadataObject(Field)
           item == Item("Metadata", FALSE, << >>)
<1>1. o \in Object(Nat, Nat) /\ p \in Object(W, W)
  <2>1. <<o>> \in Seq(Object(Nat, Nat)) /\ <<p>> \in Seq(Object(W, W))
    BY MetadataTyped
  <2> HIDE DEF o, p
  <2> QED BY <2>1
<1>2. o.items = <<item>> /\ p.items = <<item>> /\ o.of = 0 /\ p.of = Field /\ o.count = p.count
  BY DEF MetadataObject, Obj
<1>3. Matches(<<item>>, <<item>>)
  <2>1. << >> \in Seq(Nat) /\ \A j \in DOMAIN << >> : << >>[j] = Meaning(<< >>[j])
    BY EmptySeq
  <2> QED BY <2>1, OneMatches
<1>4. Meaning(Field) = 0
  BY DEF Meaning, FieldWord
<1> HIDE DEF o, p, item
<1>5. o = Compiled(p)
  BY <1>1, <1>2, <1>3, <1>4, MatchingObjects
<1> QED BY <1>5 DEF o, p

LEMMA InvAgrees == ImageInv => AlikeAgree
<1> SUFFICES ASSUME ImageInv, binResult = "ok", cppResult = "ok", UniqueNames,
                    meta \in {"none", "version"}
             PROVE  /\ binCount = cppCount /\ Len(bin) = Len(cpp)
                    /\ \A k \in DOMAIN bin :
                         (bin[k].of # 0 => Alike(spec[bin[k].of])) => bin[k] = cpp[k]
  BY DEF AlikeAgree
<1> DEFINE N == Len(spec)
           W == Name \cup {Field}
<1>1. /\ Decoded /\ N \in Nat /\ N \in 0..N /\ DOMAIN spec = 1..N
      /\ BinRight(N) /\ binCount = Len(bin) /\ bin \in Seq(Object(Nat, Nat))
      /\ TextRight(N) /\ cppCount = TextCount /\ text \in Seq(Object(W, W))
      /\ cpp = [k \in DOMAIN text |-> Compiled(text[k])] /\ cpp \in Seq(Object(Nat, Nat))
  BY SpecTyped DEF ImageInv, BinInv, TextInv, TypeOK
<1>2. TextExtra = BinExtra /\ BinExtra \in Nat
  BY DEF TextExtra, BinExtra
<1>3. Len(bin) = BinExtra + N /\ Len(text) = BinExtra + N
  BY <1>1, <1>2 DEF BinRight, TextRight
<1>4. DOMAIN bin = DOMAIN text /\ Len(bin) = Len(cpp)
  <2>1. DOMAIN bin = 1..Len(bin) /\ DOMAIN text = 1..Len(text)
    BY <1>1
  <2>2. DOMAIN cpp = 1..Len(bin)
    BY <1>1, <1>3, <2>1
  <2>3. Len(bin) \in Nat
    BY <1>1
  <2> QED BY <1>1, <1>3, <2>1, <2>2, <2>3, LenProperties
<1>5. binCount = cppCount
  BY <1>1, <1>3 DEF TextCount, UniqueNames, BinExtra
<1>6. ASSUME NEW k \in DOMAIN bin, bin[k].of # 0 => Alike(spec[bin[k].of])
      PROVE  bin[k] = cpp[k]
  <2>1. k \in DOMAIN text /\ cpp[k] = Compiled(text[k]) /\ text[k] \in Object(W, W)
          /\ bin[k] \in Object(Nat, Nat)
    BY <1>1, <1>4
  <2>2. CASE meta = "version" /\ k = 1
    <3>1. bin[k] = MetadataObject(0) /\ text[k] = MetadataObject(Field)
      BY <1>1, <2>2 DEF BinRight, TextRight
    <3> QED BY <1>1, <2>1, <3>1, MetadataMatches
  <2>3. CASE ~(meta = "version" /\ k = 1)
    <3> DEFINE m == k - BinExtra
               e == spec[m]
    <3>1. m \in DOMAIN spec /\ bin[k].of = m /\ Serializes(bin[k].items, e)
      BY <1>1, <2>3, BinaryObject
    <3>2. /\ text[k].of = e.id /\ e.id \in Name
          /\ Generates(text[k].count, text[k].items, spec[Last(e.id)], e.id)
      BY <1>1, <1>2, <2>1, <2>3, TextObject
    <3>3. Last(e.id) = m /\ Meaning(e.id) = m
      BY <1>1, <3>1, <3>2, NamesApart DEF Positions
    <3>4. Alike(e)
      BY <1>1, <1>6, <3>1
    <3> HIDE DEF m
    <3>5. Len(bin[k].items) = text[k].count /\ Matches(bin[k].items, text[k].items)
      BY <1>1, <3>1, <3>2, <3>3, <3>4, EntriesMatch
    <3>6. bin[k].count = Len(bin[k].items)
      BY <1>1 DEF BinRight
    <3>7. bin[k].of = Meaning(text[k].of) /\ bin[k].count = text[k].count
      BY <3>1, <3>2, <3>3, <3>5, <3>6
    <3>8. bin[k] = Compiled(text[k])
      BY <1>1, <2>1, <3>5, <3>7, MatchingObjects
    <3> QED BY <2>1, <3>8
  <2> QED BY <2>2, <2>3
<1> QED BY <1>4, <1>5, <1>6

\* The two back ends agree where they treat an entry alike: of a descriptor with distinct
\* names, with no metadata or a version, both arrays have the same number of objects, and
\* the same object for each such entry, although one resolves names to numbers while it
\* passes through the entries and the other leaves that to the compiler.
THEOREM BackEndsAgreeAlike == Spec => []AlikeAgree
  BY InvAgrees, ImageInvAlways, PTL

=============================================================================
