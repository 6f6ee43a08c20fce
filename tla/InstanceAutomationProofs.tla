----------------------- MODULE InstanceAutomationProofs -----------------------
(***************************************************************************)
(* What the numbering walk guarantees for every spec, whatever its lists,  *)
(* types and lengths: proofs for InstanceAutomation.                       *)
(***************************************************************************)
EXTENDS InstanceAutomation, TLAPS

\* Writing one entry of a list leaves a list of the same length.
LEMMA UpdateEntry ==
  ASSUME NEW S, NEW q \in Seq(S), NEW i \in 1..Len(q), NEW v \in S
  PROVE  /\ [q EXCEPT ![i] = v] \in Seq(S)
         /\ Len([q EXCEPT ![i] = v]) = Len(q)
  OBVIOUS

\* The lists of an initial spec are sequences of entries.
LEMMA SpecsAreLists == Specs \subseteq [Section -> Seq(Item)]
<1>1. Lists \subseteq Seq(Item)
  <2>1. SUFFICES ASSUME NEW n \in UNION {0..MaxItems[s] : s \in Section},
                        NEW q \in [1..n -> ItemChoice]
                 PROVE  q \in Seq(Item)
    BY DEF Lists
  <2>2. n \in Nat
    BY InputAssumption
  <2>3. q \in [1..n -> Item]
    BY InputAssumption
  <2>4. QED BY <2>2, <2>3
<1>2. QED BY <1>1 DEF Specs

\* The walk is always at a list of the spec, and the entry under it is well typed.
LEMMA HereTyped ==
  ASSUME TypeOK
  PROVE  /\ sec \in Section
         /\ spec[sec] \in Seq(Item)
         /\ pos <= Len(spec[sec]) => item \in Item /\ pos \in 1..Len(spec[sec])
BY DEF TypeOK, sec, item, Section


-----------------------------------------------------------------------------
(* The inductive invariant.  The run's properties speak of finished entries; *)
(* the walk keeps them because of what its counters know half-way.           *)

\* Filling never resizes a list nor touches what the user wrote.
SameShape ==
  \A s \in Section :
    /\ Len(spec[s]) = Len(given[s])
    /\ \A i \in 1..Len(spec[s]) :
         /\ spec[s][i].type = given[s][i].type
         /\ given[s][i].instance # Missing => spec[s][i].instance = given[s][i].instance

\* An entry is filled exactly when the walk has passed it.
FilledWhenPassed ==
  \A s \in Section : \A i \in 1..Len(spec[s]) :
    Automatic(s, i) => IF Numbered(s, i) THEN spec[s][i].instance \in Nat
                                         ELSE spec[s][i].instance = Missing

\* The counters exceed every readable instance passed in the current list ...
CounterAhead ==
  pc = "number" =>
    \A i \in 1..Len(spec[sec]) :
      i < pos /\ Readable(spec[sec][i]) => next[spec[sec][i].type] > spec[sec][i].instance

\* ... by one at most.
CounterTight ==
  pc = "number" =>
    \A t \in Type : next[t] # 0 =>
      \E i \in 1..Len(spec[sec]) :
        /\ i < pos
        /\ spec[sec][i].type = t
        /\ Readable(spec[sec][i])
        /\ spec[sec][i].instance = next[t] - 1

NumberInv == TypeOK /\ SameShape /\ FilledWhenPassed /\ CounterAhead /\ CounterTight
               /\ AutomaticIsFresh /\ AutomaticIsLeast

\* Decoded objects mirror entries, in list order, behind the decoder's position.
ObjectsMirror ==
  \A a \in 1..Len(objects) :
    LET o == objects[a] IN
      /\ pc # "number"
      /\ o.pos \in 1..Len(spec[o.sec])
      /\ o.type = spec[o.sec][o.pos].type
      /\ o.instance = spec[o.sec][o.pos].instance
      /\ \E k \in 1..Len(SectionOrder) :
           o.sec = SectionOrder[k] /\ (k < cur \/ (k = cur /\ o.pos < pos))

ObjectsInOrder ==
  \A a, b \in 1..Len(objects) :
    a < b /\ objects[a].sec = objects[b].sec => objects[a].pos < objects[b].pos

IInv == NumberInv /\ ObjectsMirror /\ ObjectsInOrder

-----------------------------------------------------------------------------
(* The initial states *)

\* The invariant holds of every initial state.
LEMMA InvInit == Init => IInv
<1> SUFFICES ASSUME Init PROVE IInv
  OBVIOUS
<1>1. 1 \in 1..Len(SectionOrder) /\ sec \in Section
  BY SectionsAssumption DEF Init, sec, Section
<1>2. TypeOK
  BY <1>1, SpecsAreLists DEF Init, TypeOK
<1>3. \A s \in Section : \A i \in 1..Len(spec[s]) : ~Numbered(s, i)
  BY SectionsAssumption, <1>2 DEF Init, Numbered, TypeOK
<1>4. SameShape /\ FilledWhenPassed
  BY <1>3 DEF Init, SameShape, FilledWhenPassed, Automatic
<1>5. CounterAhead /\ CounterTight
  BY <1>1, <1>2 DEF Init, CounterAhead, CounterTight, TypeOK
<1>6. AutomaticIsFresh /\ AutomaticIsLeast
  BY <1>3 DEF AutomaticIsFresh, AutomaticIsLeast
<1>7. ObjectsMirror /\ ObjectsInOrder
  BY DEF Init, ObjectsMirror, ObjectsInOrder
<1>8. QED BY <1>2, <1>4, <1>5, <1>6, <1>7 DEF IInv, NumberInv

-----------------------------------------------------------------------------
(* The walk *)

\* The walk and the decoder stand at an entry of a list of the spec.
LEMMA Here ==
  ASSUME TypeOK, pos <= Len(spec[sec])
  PROVE  /\ sec \in Section
         /\ pos \in 1..Len(spec[sec])
         /\ item \in Item
BY HereTyped

\* Passing an entry makes that entry, and no other, a numbered one.
LEMMA PassingNumbers ==
  ASSUME TypeOK, AtItem("number"), pos' = pos + 1, UNCHANGED <<cur, pc>>,
         NEW s \in Section, NEW i \in 1..Len(spec[s]),
         Len(spec'[s]) = Len(spec[s])
  PROVE  Numbered(s, i)' <=> Numbered(s, i) \/ (s = sec /\ i = pos)
BY SectionsAssumption DEF TypeOK, AtItem, Numbered, sec, Section

\* In the list being walked the numbered entries are those before pos.
LEMMA NumberedHere ==
  ASSUME TypeOK, pc = "number", NEW i \in 1..Len(spec[sec])
  PROVE  Numbered(sec, i) <=> i < pos
BY SectionsAssumption DEF TypeOK, Numbered, sec, Section

\* Passing an entry that was not automatic, with counters that take its readable
\* instance in and stay tight, keeps the invariant.
LEMMA PassKeeps ==
  ASSUME NumberInv, AtItem("number"), pos' = pos + 1, UNCHANGED <<cur, pc, spec, given>>,
         ~Automatic(sec, pos), TypeOK',
         \A t \in Type : next'[t] >= next[t],
         Readable(item) => next'[item.type] > item.instance,
         \A t \in Type : next'[t] = next[t]
                          \/ (item.type = t /\ Readable(item) /\ item.instance = next'[t] - 1)
  PROVE  NumberInv'
<1> USE DEF NumberInv
<1>1. /\ sec \in Section /\ pos \in 1..Len(spec[sec]) /\ item \in Item
      /\ sec' = sec
  BY Here DEF AtItem, sec
<1>2. \A s \in Section : \A i \in 1..Len(spec[s]) :
        Numbered(s, i)' <=> Numbered(s, i) \/ (s = sec /\ i = pos)
  BY PassingNumbers
<1>3. SameShape'
  BY DEF SameShape
<1>4. FilledWhenPassed'
  BY <1>1, <1>2 DEF FilledWhenPassed, Automatic
<1>5. CounterAhead'
  <2>1. SUFFICES ASSUME NEW i \in 1..Len(spec[sec]), i < pos + 1, Readable(spec[sec][i])
                 PROVE  next'[spec[sec][i].type] > spec[sec][i].instance
    BY <1>1 DEF CounterAhead, AtItem, Readable
  <2>2. spec[sec][i] \in Item /\ spec[sec][i].type \in Type /\ spec[sec][i].instance \in Int
    <3>1. spec[sec][i] \in Item
      BY <1>1, <2>1 DEF TypeOK
    <3>2. QED BY <2>1, <3>1 DEF Readable, Item
  <2>3. CASE i = pos
    <3>1. spec[sec][i] = item
      BY <2>3 DEF item
    <3>2. QED BY <2>1, <3>1
  <2>4. CASE i < pos
    <3>1. next[spec[sec][i].type] > spec[sec][i].instance
      BY <2>1, <2>4 DEF CounterAhead, AtItem
    <3>2. next'[spec[sec][i].type] >= next[spec[sec][i].type]
      BY <2>2
    <3>3. next[spec[sec][i].type] \in Nat /\ next'[spec[sec][i].type] \in Nat
      BY <2>2 DEF TypeOK
    <3>4. QED BY <2>2, <3>1, <3>2, <3>3
  <2>5. QED BY <1>1, <2>1, <2>3, <2>4 DEF TypeOK
<1>6. CounterTight'
  <2>1. SUFFICES ASSUME NEW t \in Type, next'[t] # 0
                 PROVE  \E i \in 1..Len(spec[sec]) :
                          /\ i < pos + 1
                          /\ spec[sec][i].type = t
                          /\ Readable(spec[sec][i])
                          /\ spec[sec][i].instance = next'[t] - 1
    BY <1>1 DEF CounterTight, Readable
  <2>2. CASE next'[t] = next[t]
    <3>1. PICK i \in 1..Len(spec[sec]) :
            /\ i < pos
            /\ spec[sec][i].type = t
            /\ Readable(spec[sec][i])
            /\ spec[sec][i].instance = next[t] - 1
      BY <2>1, <2>2 DEF CounterTight, AtItem
    <3>2. i < pos + 1
      BY <1>1, <3>1 DEF TypeOK
    <3>3. QED BY <2>2, <3>1, <3>2
  <2>3. CASE item.type = t /\ Readable(item) /\ item.instance = next'[t] - 1
    BY <1>1, <2>3 DEF item
  <2>4. QED BY <2>2, <2>3
<1>7. AutomaticIsFresh'
  BY <1>1, <1>2 DEF AutomaticIsFresh, Automatic, SameType, Readable
<1>8. AutomaticIsLeast'
  BY <1>1, <1>2 DEF AutomaticIsLeast, Automatic, SameType, Readable
<1>9. QED BY <1>3, <1>4, <1>5, <1>6, <1>7, <1>8

\* Passing an untyped entry keeps what the walk has established.
LEMMA SkipUntypedKeeps == NumberInv /\ SkipUntyped => NumberInv'
<1> SUFFICES ASSUME NumberInv, SkipUntyped PROVE NumberInv'
  OBVIOUS
<1>1. TypeOK /\ TypeOK' /\ pos \in 1..Len(spec[sec]) /\ sec \in Section
  BY Here DEF NumberInv, SkipUntyped, AtItem, TypeOK
<1>2. ~Automatic(sec, pos) /\ ~Readable(item)
  BY <1>1 DEF NumberInv, SkipUntyped, SameShape, Automatic, Readable, item
<1>3. \A t \in Type : next'[t] = next[t] /\ next[t] \in Nat
  BY <1>1 DEF SkipUntyped, TypeOK
<1>4. QED BY <1>1, <1>2, <1>3, PassKeeps DEF SkipUntyped

\* So does passing an entry whose instance int() refuses.
LEMMA IgnoreUnreadableKeeps == NumberInv /\ IgnoreUnreadable => NumberInv'
<1> SUFFICES ASSUME NumberInv, IgnoreUnreadable PROVE NumberInv'
  OBVIOUS
<1>1. TypeOK /\ TypeOK' /\ pos \in 1..Len(spec[sec]) /\ sec \in Section
  BY Here DEF NumberInv, IgnoreUnreadable, AtItem, TypeOK
<1>2. ~Numbered(sec, pos)
  BY <1>1, NumberedHere DEF IgnoreUnreadable, AtItem, TypeOK
<1>3. ~Automatic(sec, pos) /\ ~Readable(item)
  BY <1>1, <1>2, SentinelAssumption
     DEF NumberInv, IgnoreUnreadable, FilledWhenPassed, Readable, item
<1>4. \A t \in Type : next'[t] = next[t] /\ next[t] \in Nat
  BY <1>1 DEF IgnoreUnreadable, TypeOK
<1>5. QED BY <1>1, <1>3, <1>4, PassKeeps DEF IgnoreUnreadable

\* So does reserving an explicit value.
LEMMA KeepExplicitKeeps == NumberInv /\ KeepExplicit => NumberInv'
<1> SUFFICES ASSUME NumberInv, KeepExplicit PROVE NumberInv'
  OBVIOUS
<1>1. TypeOK /\ pos \in 1..Len(spec[sec]) /\ sec \in Section /\ item \in Item
  BY Here DEF NumberInv, KeepExplicit, AtItem
<1>2. ~Numbered(sec, pos)
  BY <1>1, NumberedHere DEF KeepExplicit, AtItem, TypeOK
<1>3. ~Automatic(sec, pos)
  BY <1>1, <1>2, SentinelAssumption DEF NumberInv, KeepExplicit, FilledWhenPassed, Readable, item
<1>4. item.type \in Type /\ item.instance \in Int
  BY <1>1 DEF KeepExplicit, Readable, Item
<1>5. Reserve(item.type, item.instance) \in Nat
  BY <1>1, <1>4 DEF Reserve, Larger, TypeOK
<1>6. TypeOK'
  BY <1>1, <1>4, <1>5 DEF KeepExplicit, TypeOK
<1>7. /\ \A t \in Type : next'[t] >= next[t]
      /\ next'[item.type] > item.instance
      /\ \A t \in Type : next'[t] = next[t]
                          \/ (item.type = t /\ Readable(item) /\ item.instance = next'[t] - 1)
  <2>1. next' = [next EXCEPT ![item.type] = Reserve(item.type, item.instance)] /\ Readable(item)
    BY DEF KeepExplicit
  <2>2. next \in [Type -> Nat]
    BY <1>1 DEF TypeOK
  <2>3. /\ Reserve(item.type, item.instance) >= next[item.type]
        /\ Reserve(item.type, item.instance) > item.instance
        /\ Reserve(item.type, item.instance) = next[item.type]
           \/ item.instance = Reserve(item.type, item.instance) - 1
    BY <1>4, <2>2 DEF Reserve, Larger
  <2>4. ASSUME NEW t \in Type
        PROVE  /\ next'[t] >= next[t]
               /\ next'[t] = next[t]
                  \/ (item.type = t /\ item.instance = next'[t] - 1)
    BY <1>4, <2>1, <2>2, <2>3
  <2>5. next'[item.type] = Reserve(item.type, item.instance)
    BY <1>4, <2>1, <2>2
  <2>6. QED BY <2>1, <2>3, <2>4, <2>5
<1>8. QED BY <1>1, <1>3, <1>6, <1>7, PassKeeps DEF KeepExplicit

\* So does handing out a number: it is fresh because the counter is ahead of every
\* instance seen, and least because the counter is tight.
LEMMA FillMissingKeeps == NumberInv /\ FillMissing => NumberInv'
<1> SUFFICES ASSUME NumberInv, FillMissing PROVE NumberInv'
  OBVIOUS
<1> DEFINE n == next[item.type]
           filled == [item EXCEPT !.instance = n]
<1>1. /\ TypeOK /\ pc = "number" /\ pc' = "number" /\ cur' = cur /\ pos' = pos + 1
      /\ sec \in Section /\ pos \in 1..Len(spec[sec]) /\ item \in Item /\ sec' = sec
      /\ spec[sec] \in Seq(Item)
  BY Here DEF NumberInv, FillMissing, AtItem, sec, TypeOK
<1>2. item.type \in Type /\ n \in Nat
  BY <1>1 DEF FillMissing, Item, TypeOK
<1>3. filled \in Item
  BY <1>1, <1>2 DEF Item
<1>4. spec' = [spec EXCEPT ![sec] = [spec[sec] EXCEPT ![pos] = filled]]
  BY DEF FillMissing, NextFree, item
<1>5. /\ spec' \in [Section -> Seq(Item)]
      /\ \A s \in Section : Len(spec'[s]) = Len(spec[s])
  <2>1. /\ [spec[sec] EXCEPT ![pos] = filled] \in Seq(Item)
        /\ Len([spec[sec] EXCEPT ![pos] = filled]) = Len(spec[sec])
    BY <1>1, <1>3, UpdateEntry
  <2>2. QED BY <1>1, <1>4, <2>1 DEF TypeOK
<1>6. /\ \A s \in Section : \A i \in 1..Len(spec[s]) :
           s # sec \/ i # pos => spec'[s][i] = spec[s][i]
      /\ spec'[sec][pos] = filled
  BY <1>1, <1>4 DEF TypeOK
<1>7. filled.type = item.type /\ filled.instance = n /\ filled.flaw = item.flaw
  BY <1>1 DEF Item
<1>8. next' = [next EXCEPT ![item.type] = n + 1]
  BY DEF FillMissing, NextFree
<1>9. /\ next' \in [Type -> Nat]
      /\ next'[item.type] = n + 1
      /\ \A t \in Type : t # item.type => next'[t] = next[t]
      /\ \A t \in Type : next'[t] >= next[t]
  BY <1>1, <1>2, <1>8 DEF TypeOK
<1>10. TypeOK'
  BY <1>1, <1>5, <1>9 DEF FillMissing, TypeOK
<1>11. \A s \in Section : \A i \in 1..Len(spec[s]) :
         Numbered(s, i)' <=> Numbered(s, i) \/ (s = sec /\ i = pos)
  BY <1>1, <1>5, PassingNumbers DEF FillMissing
<1>12. given' = given /\ given[sec][pos].instance = Missing /\ given[sec][pos].type = item.type
  <2>1. item.instance = Missing
    BY DEF FillMissing
  <2>2. QED BY <1>1, <2>1 DEF NumberInv, SameShape, FillMissing, item
<1>13. SameShape'
  <2>1. ASSUME NEW s \in Section, NEW i \in 1..Len(spec[s])
        PROVE  /\ spec'[s][i].type = given[s][i].type
               /\ given[s][i].instance # Missing => spec'[s][i].instance = given[s][i].instance
    <3>1. CASE s = sec /\ i = pos
      <4>1. spec'[s][i] = filled
        BY <1>6, <3>1
      <4>2. QED BY <1>7, <1>12, <3>1, <4>1
    <3>2. CASE s # sec \/ i # pos
      <4>1. spec'[s][i] = spec[s][i]
        BY <1>6, <2>1, <3>2
      <4>2. QED BY <2>1, <4>1 DEF NumberInv, SameShape
    <3>3. QED BY <3>1, <3>2
  <2>2. QED BY <1>5, <1>12, <2>1 DEF NumberInv, SameShape
<1>14. FilledWhenPassed'
  <2>1. SUFFICES ASSUME NEW s \in Section, NEW i \in 1..Len(spec[s]), Automatic(s, i)
                 PROVE  IF Numbered(s, i)' THEN spec'[s][i].instance \in Nat
                                           ELSE spec'[s][i].instance = Missing
    BY <1>5, <1>12 DEF FilledWhenPassed, Automatic
  <2>2. CASE s = sec /\ i = pos
    BY <1>2, <1>6, <1>7, <1>11, <2>1, <2>2
  <2>3. CASE ~(s = sec /\ i = pos)
    BY <1>6, <1>11, <2>1, <2>3 DEF NumberInv, FilledWhenPassed
  <2>4. QED BY <2>2, <2>3
<1>15. CounterAhead'
  <2>1. SUFFICES ASSUME NEW i \in 1..Len(spec[sec]), i < pos + 1, Readable(spec'[sec][i])
                 PROVE  next'[spec'[sec][i].type] > spec'[sec][i].instance
    BY <1>1, <1>5 DEF CounterAhead, Readable
  <2>2. CASE i = pos
    <3>1. spec'[sec][i] = filled
      BY <1>6, <2>2
    <3>2. next'[item.type] > n
      BY <1>2, <1>9
    <3>3. QED BY <1>7, <3>1, <3>2
  <2>3. CASE i < pos
    <3>1. spec'[sec][i] = spec[sec][i] /\ spec[sec][i] \in Item
      <4>1. i # pos
        BY <1>1, <2>3 DEF TypeOK
      <4>2. QED BY <1>1, <1>6, <4>1
    <3>2. spec[sec][i].type \in Type /\ spec[sec][i].instance \in Int
      BY <2>1, <3>1 DEF Readable, Item
    <3>3. next[spec[sec][i].type] > spec[sec][i].instance
      BY <1>1, <2>1, <2>3, <3>1 DEF NumberInv, CounterAhead
    <3>4. next'[spec[sec][i].type] >= next[spec[sec][i].type]
      BY <1>9, <3>2
    <3>5. next[spec[sec][i].type] \in Nat /\ next'[spec[sec][i].type] \in Nat
      BY <1>1, <1>9, <3>2 DEF TypeOK
    <3>6. QED BY <3>1, <3>2, <3>3, <3>4, <3>5
  <2>4. QED BY <1>1, <2>1, <2>2, <2>3 DEF TypeOK
<1>16. CounterTight'
  <2>1. SUFFICES ASSUME NEW t \in Type, next'[t] # 0
                 PROVE  \E i \in 1..Len(spec[sec]) :
                          /\ i < pos + 1
                          /\ spec'[sec][i].type = t
                          /\ Readable(spec'[sec][i])
                          /\ spec'[sec][i].instance = next'[t] - 1
    BY <1>1, <1>5 DEF CounterTight, Readable
  <2>2. CASE t = item.type
    <3>1. Readable(filled)
      BY <1>2, <1>7, SentinelAssumption DEF Readable
    <3>2. spec'[sec][pos] = filled /\ pos < pos + 1 /\ n = next'[t] - 1
      BY <1>1, <1>2, <1>6, <1>9, <2>2
    <3>3. QED BY <1>1, <1>7, <2>2, <3>1, <3>2
  <2>3. CASE t # item.type
    <3>1. PICK i \in 1..Len(spec[sec]) :
            /\ i < pos
            /\ spec[sec][i].type = t
            /\ Readable(spec[sec][i])
            /\ spec[sec][i].instance = next[t] - 1
      BY <1>1, <1>9, <2>1, <2>3 DEF NumberInv, CounterTight
    <3>2. spec'[sec][i] = spec[sec][i] /\ i < pos + 1
      <4>1. i # pos /\ i < pos + 1
        BY <1>1, <3>1 DEF TypeOK
      <4>2. QED BY <1>1, <1>6, <4>1
    <3>3. QED BY <1>9, <2>3, <3>1, <3>2
  <2>4. QED BY <2>2, <2>3
<1>17. AutomaticIsFresh'
  <2>1. SUFFICES ASSUME NEW s \in Section, NEW j \in 1..Len(spec[s]), NEW i \in 1..(j - 1),
                        Numbered(s, j)', Automatic(s, j),
                        spec'[s][i].type = spec'[s][j].type, Readable(spec'[s][i])
                 PROVE  spec'[s][j].instance > spec'[s][i].instance
    BY <1>5, <1>12 DEF AutomaticIsFresh, Automatic, SameType, Readable
  <2>2. CASE s = sec /\ j = pos
    <3>1. i \in 1..Len(spec[sec]) /\ i < pos /\ spec'[sec][i] = spec[sec][i]
      BY <1>1, <1>6, <2>2
    <3>2. spec[sec][i].type = item.type
      BY <1>6, <1>7, <2>1, <2>2, <3>1
    <3>3. n > spec[sec][i].instance
      BY <1>1, <2>1, <2>2, <3>1, <3>2 DEF NumberInv, CounterAhead
    <3>4. QED BY <1>6, <1>7, <2>2, <3>1, <3>3
  <2>3. CASE ~(s = sec /\ j = pos)
    <3>1. Numbered(s, j)
      BY <1>11, <2>1, <2>3
    <3>2. ~(s = sec /\ i = pos)
      <4>1. CASE s = sec
        <5>1. j < pos
          BY <1>1, <3>1, <4>1, NumberedHere
        <5>2. QED BY <1>1, <4>1, <5>1
      <4>2. QED BY <4>1
    <3>3. i \in 1..Len(spec[s]) /\ spec'[s][i] = spec[s][i] /\ spec'[s][j] = spec[s][j]
      BY <1>6, <2>3, <3>2
    <3>4. QED BY <2>1, <3>1, <3>3 DEF NumberInv, AutomaticIsFresh, SameType
  <2>4. QED BY <2>2, <2>3
<1>18. AutomaticIsLeast'
  <2>1. SUFFICES ASSUME NEW s \in Section, NEW j \in 1..Len(spec[s]),
                        Numbered(s, j)', Automatic(s, j), spec'[s][j].instance # 0
                 PROVE  \E i \in 1..(j - 1) :
                          /\ spec'[s][i].type = spec'[s][j].type
                          /\ Readable(spec'[s][i])
                          /\ spec'[s][j].instance = spec'[s][i].instance + 1
    BY <1>5, <1>12 DEF AutomaticIsLeast, Automatic, SameType, Readable
  <2>2. CASE s = sec /\ j = pos
    <3>1. n # 0
      BY <1>6, <1>7, <2>1, <2>2
    <3>2. PICK i \in 1..Len(spec[sec]) :
            /\ i < pos
            /\ spec[sec][i].type = item.type
            /\ Readable(spec[sec][i])
            /\ spec[sec][i].instance = n - 1
      BY <1>1, <1>2, <3>1 DEF NumberInv, CounterTight
    <3>3. i \in 1..(j - 1) /\ spec'[sec][i] = spec[sec][i]
      BY <1>1, <1>6, <2>2, <3>2
    <3>4. spec'[sec][i].instance + 1 = n
      BY <1>2, <3>2, <3>3
    <3>5. QED BY <1>6, <1>7, <2>2, <3>2, <3>3, <3>4
  <2>3. CASE ~(s = sec /\ j = pos)
    <3>1. Numbered(s, j) /\ spec'[s][j] = spec[s][j]
      BY <1>6, <1>11, <2>1, <2>3
    <3>2. PICK i \in 1..(j - 1) :
            SameType(s, i, j) /\ Readable(spec[s][i])
              /\ spec[s][j].instance = spec[s][i].instance + 1
      BY <2>1, <3>1 DEF NumberInv, AutomaticIsLeast
    <3>3. ~(s = sec /\ i = pos)
      <4>1. CASE s = sec
        <5>1. j < pos
          BY <1>1, <3>1, <4>1, NumberedHere
        <5>2. QED BY <1>1, <4>1, <5>1
      <4>2. QED BY <4>1
    <3>4. spec'[s][i] = spec[s][i]
      BY <1>6, <3>3
    <3>5. QED BY <3>1, <3>2, <3>4 DEF SameType
  <2>4. QED BY <2>2, <2>3
<1>19. QED BY <1>10, <1>13, <1>14, <1>15, <1>16, <1>17, <1>18 DEF NumberInv

\* So does going on to the next list with fresh counters.
LEMMA NextListKeeps == NumberInv /\ NextList => NumberInv'
<1> SUFFICES ASSUME NumberInv, NextList PROVE NumberInv'
  OBVIOUS
<1>1. TypeOK /\ TypeOK'
  BY SectionsAssumption DEF NumberInv, NextList, TypeOK
<1>2. ASSUME NEW s \in Section, NEW i \in 1..Len(spec[s])
      PROVE  Numbered(s, i)' <=> Numbered(s, i)
  <2>1. PICK k \in 1..Len(SectionOrder) : s = SectionOrder[k]
    BY DEF Section
  <2>2. CASE cur < Len(SectionOrder)
    BY <1>1, <2>1, <2>2, SectionsAssumption DEF NextList, Numbered, TypeOK, sec
  <2>3. CASE ~(cur < Len(SectionOrder))
    <3>1. cur = Len(SectionOrder) /\ pc' = "decode"
      BY <1>1, <2>3 DEF NextList, TypeOK
    <3>2. Numbered(s, i)
      <4>1. k < cur \/ k = cur
        BY <3>1, <2>1
      <4>2. k = cur => i < pos
        BY <1>1, <2>1, <3>1 DEF NextList, TypeOK, sec
      <4>3. QED BY <2>1, <4>1, <4>2 DEF Numbered
    <3>3. QED BY <3>1, <3>2 DEF NextList, Numbered
  <2>4. QED BY <2>2, <2>3
<1>3. SameShape' /\ FilledWhenPassed'
  BY <1>2 DEF NumberInv, NextList, SameShape, FilledWhenPassed, Automatic
<1>4. CounterAhead'
  <2>1. pos' = 1
    BY DEF NextList
  <2>2. QED BY <2>1 DEF CounterAhead
<1>5. CounterTight'
  BY DEF NextList, CounterTight
<1>6. AutomaticIsFresh' /\ AutomaticIsLeast'
  BY <1>2 DEF NumberInv, NextList, AutomaticIsFresh, AutomaticIsLeast, Automatic,
              SameType, Readable
<1>7. QED BY <1>1, <1>3, <1>4, <1>5, <1>6 DEF NumberInv

\* Once the walk is over nothing it established can change.
LEMMA AfterWalkKeeps ==
  ASSUME NumberInv, TypeOK', pc # "number", pc' # "number", UNCHANGED <<given, spec>>
  PROVE  NumberInv'
<1>1. SameShape' /\ FilledWhenPassed'
  BY DEF NumberInv, SameShape, FilledWhenPassed, Automatic, Numbered
<1>2. CounterAhead' /\ CounterTight'
  BY DEF CounterAhead, CounterTight
<1>3. AutomaticIsFresh' /\ AutomaticIsLeast'
  BY DEF NumberInv, AutomaticIsFresh, AutomaticIsLeast, Automatic, SameType, Readable, Numbered
<1>4. QED BY <1>1, <1>2, <1>3 DEF NumberInv

-----------------------------------------------------------------------------
(* The decoders *)

\* Each list has one place in the order of the walk.
LEMMA OnePlace ==
  ASSUME NEW j \in 1..Len(SectionOrder), NEW k \in 1..Len(SectionOrder),
         SectionOrder[j] = SectionOrder[k]
  PROVE  j = k
BY SectionsAssumption

\* An entry that decodes has a type and, the walk being over, a natural instance.
LEMMA DecodedEntry ==
  ASSUME IInv, DecodeObject
  PROVE  /\ sec \in Section /\ pos \in 1..Len(spec[sec])
         /\ item.type \in Type
         /\ item.instance \in Nat
<1>1. TypeOK /\ sec \in Section /\ pos \in 1..Len(spec[sec]) /\ item \in Item
  BY Here DEF IInv, NumberInv, DecodeObject, AtItem
<1>2. item.type \in Type /\ item.instance # Unreadable /\ ~(item.instance < 0)
  BY <1>1 DEF DecodeObject, Verdict, Refused, Crashes, Item
<1>3. item.instance # Missing
  <2>1. Numbered(sec, pos)
    BY <1>1 DEF DecodeObject, AtItem, Numbered
  <2>2. CASE Automatic(sec, pos)
    BY <1>1, <2>1, <2>2, SentinelAssumption
       DEF IInv, NumberInv, FilledWhenPassed, item
  <2>3. CASE ~Automatic(sec, pos)
    <3>1. given[sec][pos].instance # Missing
      BY <1>1, <1>2, <2>3, SentinelAssumption
         DEF Automatic, IInv, NumberInv, SameShape, item
    <3>2. QED BY <1>1, <3>1 DEF IInv, NumberInv, SameShape, item
  <2>4. QED BY <2>2, <2>3
<1>4. QED BY <1>1, <1>2, <1>3 DEF Item

\* A decoded object mirrors the entry it comes from and stands after the others.
LEMMA DecodeObjectKeeps == IInv /\ DecodeObject => IInv'
<1> SUFFICES ASSUME IInv, DecodeObject PROVE IInv'
  OBVIOUS
<1> DEFINE o == [sec |-> sec, pos |-> pos, type |-> item.type, instance |-> item.instance]
<1>1. /\ TypeOK /\ sec \in Section /\ pos \in 1..Len(spec[sec])
      /\ item.type \in Type /\ item.instance \in Nat
      /\ pc = "decode" /\ pc' = "decode" /\ cur' = cur /\ sec' = sec /\ pos' = pos + 1
      /\ spec' = spec /\ objects' = Append(objects, o)
  BY DecodedEntry DEF IInv, NumberInv, DecodeObject, AtItem, sec
<1>2. o \in Object
  BY <1>1 DEF Object
<1>3. objects' \in Seq(Object) /\ Len(objects') = Len(objects) + 1
      /\ objects'[Len(objects) + 1] = o
      /\ \A a \in 1..Len(objects) : objects'[a] = objects[a] /\ objects[a] \in Object
  BY <1>1, <1>2 DEF TypeOK
<1>4. TypeOK'
  BY <1>1, <1>3 DEF TypeOK, DecodeObject
<1>5. NumberInv'
  BY <1>1, <1>4, AfterWalkKeeps DEF IInv, DecodeObject
<1>6. ObjectsMirror'
  <2>1. SUFFICES ASSUME NEW a \in 1..Len(objects')
                 PROVE  /\ objects'[a].pos \in 1..Len(spec[objects'[a].sec])
                        /\ objects'[a].type = spec[objects'[a].sec][objects'[a].pos].type
                        /\ objects'[a].instance = spec[objects'[a].sec][objects'[a].pos].instance
                        /\ \E k \in 1..Len(SectionOrder) :
                             /\ objects'[a].sec = SectionOrder[k]
                             /\ k < cur \/ (k = cur /\ objects'[a].pos < pos + 1)
    BY <1>1 DEF ObjectsMirror
  <2>2. CASE a = Len(objects) + 1
    <3>1. objects'[a] = o
      BY <1>3, <2>2
    <3>2. cur \in 1..Len(SectionOrder) /\ sec = SectionOrder[cur] /\ pos < pos + 1
      BY <1>1 DEF TypeOK, sec
    <3>3. QED BY <1>1, <3>1, <3>2 DEF item
  <2>3. CASE a # Len(objects) + 1
    <3>1. a \in 1..Len(objects)
      BY <1>1, <1>3, <2>1, <2>3 DEF TypeOK
    <3>2. objects'[a] = objects[a] /\ objects[a].pos \in Nat
      BY <1>3, <3>1 DEF Object
    <3>3. PICK k \in 1..Len(SectionOrder) :
            objects[a].sec = SectionOrder[k] /\ (k < cur \/ (k = cur /\ objects[a].pos < pos))
      BY <3>1 DEF IInv, ObjectsMirror
    <3>4. k < cur \/ (k = cur /\ objects[a].pos < pos + 1)
      BY <1>1, <3>2, <3>3 DEF TypeOK
    <3>5. /\ objects[a].pos \in 1..Len(spec[objects[a].sec])
          /\ objects[a].type = spec[objects[a].sec][objects[a].pos].type
          /\ objects[a].instance = spec[objects[a].sec][objects[a].pos].instance
      BY <3>1 DEF IInv, ObjectsMirror
    <3>6. QED BY <3>2, <3>3, <3>4, <3>5
  <2>4. QED BY <2>2, <2>3
<1>7. ObjectsInOrder'
  <2>1. SUFFICES ASSUME NEW a \in 1..Len(objects'), NEW b \in 1..Len(objects'), a < b,
                        objects'[a].sec = objects'[b].sec
                 PROVE  objects'[a].pos < objects'[b].pos
    BY DEF ObjectsInOrder
  <2>2. a \in 1..Len(objects) /\ objects'[a] = objects[a]
    BY <1>1, <1>3, <2>1 DEF TypeOK
  <2>3. CASE b = Len(objects) + 1
    <3>1. objects'[b].sec = sec /\ objects'[b].pos = pos
      BY <1>3, <2>3
    <3>2. PICK k \in 1..Len(SectionOrder) :
            objects[a].sec = SectionOrder[k] /\ (k < cur \/ (k = cur /\ objects[a].pos < pos))
      BY <2>2 DEF IInv, ObjectsMirror
    <3>3. k = cur
      BY <1>1, <2>1, <2>2, <3>1, <3>2, OnePlace DEF TypeOK, sec
    <3>4. objects[a].pos < pos
      BY <1>1, <3>2, <3>3 DEF TypeOK
    <3>5. QED BY <2>2, <3>1, <3>4
  <2>4. CASE b # Len(objects) + 1
    <3>1. b \in 1..Len(objects) /\ objects'[b] = objects[b]
      BY <1>1, <1>3, <2>1, <2>4 DEF TypeOK
    <3>2. QED BY <2>1, <2>2, <3>1 DEF IInv, ObjectsInOrder
  <2>5. QED BY <2>3, <2>4
<1>8. QED BY <1>5, <1>6, <1>7 DEF IInv

\* Moving the decoder forward, or stopping it, keeps what it decoded.
LEMMA MoveKeeps ==
  ASSUME IInv, TypeOK', pc = "decode", pc' # "number", UNCHANGED <<given, spec, objects>>,
         \/ cur' = cur + 1
         \/ cur' = cur /\ pos' \in {pos, pos + 1}
  PROVE  IInv'
<1>1. TypeOK /\ NumberInv'
  BY AfterWalkKeeps DEF IInv, NumberInv
<1>2. ObjectsInOrder'
  BY DEF IInv, ObjectsInOrder
<1>3. ASSUME NEW a \in 1..Len(objects), NEW k \in 1..Len(SectionOrder),
             k < cur \/ (k = cur /\ objects[a].pos < pos)
      PROVE  k < cur' \/ (k = cur' /\ objects[a].pos < pos')
  <2>1. objects[a].pos \in Nat /\ pos \in Nat /\ cur \in Nat /\ k \in Nat
    <3>1. objects \in Seq(Object) /\ objects[a] \in Object
      BY <1>1 DEF TypeOK
    <3>2. objects[a].pos \in Nat
      BY <3>1 DEF Object
    <3>3. pos \in Nat /\ cur \in 1..Len(SectionOrder) /\ Len(SectionOrder) \in Nat
      BY <1>1, SectionsAssumption DEF TypeOK
    <3>4. QED BY <3>2, <3>3
  <2>2. QED BY <1>3, <2>1
<1>4. ObjectsMirror'
  BY <1>3 DEF IInv, ObjectsMirror
<1>5. QED BY <1>1, <1>2, <1>4 DEF IInv

\* Every step of the decoder keeps the invariant.
LEMMA DecodeKeeps == IInv /\ Decode => IInv'
<1> SUFFICES ASSUME IInv, Decode PROVE IInv'
  OBVIOUS
<1>1. TypeOK
  BY DEF IInv, NumberInv
<1>2. CASE DecodeObject
  BY <1>2, DecodeObjectKeeps
<1>3. CASE ClientSkips
  <2>1. TypeOK'
    BY <1>1, <1>3 DEF ClientSkips, TypeOK
  <2>2. QED BY <1>3, <2>1, MoveKeeps DEF ClientSkips, AtItem
<1>4. CASE DecodeFails
  <2>1. TypeOK'
    BY <1>1, <1>4 DEF DecodeFails, TypeOK
  <2>2. QED BY <1>4, <2>1, MoveKeeps DEF DecodeFails, AtItem
<1>5. CASE DecodeNextList
  <2>1. TypeOK'
    BY <1>1, <1>5 DEF DecodeNextList, TypeOK
  <2>2. pc' # "number" /\ (cur' = cur + 1 \/ (cur' = cur /\ pos' = pos))
    BY <1>5 DEF DecodeNextList
  <2>3. QED BY <1>5, <2>1, <2>2, MoveKeeps DEF DecodeNextList
<1>6. QED BY <1>2, <1>3, <1>4, <1>5 DEF Decode

-----------------------------------------------------------------------------
(* The invariant and what follows from it *)

\* Every step keeps the invariant.
LEMMA InvStep == IInv /\ [Next]_vars => IInv'
<1> SUFFICES ASSUME IInv, [Next]_vars PROVE IInv'
  OBVIOUS
<1>1. CASE Number
  <2>1. NumberInv'
    BY <1>1, SkipUntypedKeeps, FillMissingKeeps, KeepExplicitKeeps,
       IgnoreUnreadableKeeps, NextListKeeps DEF IInv, Number
  <2>2. pc = "number" /\ objects' = objects
    BY <1>1 DEF Number, SkipUntyped, FillMissing, KeepExplicit, IgnoreUnreadable,
                NextList, AtItem
  <2>3. objects = << >>
    <3>1. Len(objects) \in Nat /\ objects \in Seq(Object)
      BY DEF IInv, NumberInv, TypeOK
    <3>2. ~(1 \in 1..Len(objects))
      BY <2>2 DEF IInv, ObjectsMirror
    <3>3. QED BY <3>1, <3>2
  <2>4. ObjectsMirror' /\ ObjectsInOrder'
    BY <2>2, <2>3 DEF ObjectsMirror, ObjectsInOrder
  <2>5. QED BY <2>1, <2>4 DEF IInv
<1>2. CASE Decode
  BY <1>2, DecodeKeeps
<1>3. CASE UNCHANGED vars
  BY <1>3 DEF vars, IInv, NumberInv, TypeOK, SameShape, FilledWhenPassed, CounterAhead,
              CounterTight, AutomaticIsFresh, AutomaticIsLeast, ObjectsMirror,
              ObjectsInOrder, Numbered, Automatic, SameType, Readable, sec
<1>4. QED BY <1>1, <1>2, <1>3 DEF Next

\* A clash of two decoded objects is of the user's making: it follows from the
\* freshness of the numbers the walk hands out.
LEMMA InvNoClash == IInv => ClashIsExplicit
<1> SUFFICES ASSUME IInv, NEW a \in 1..Len(objects), NEW b \in 1..Len(objects), a < b,
                    objects[a].sec = objects[b].sec, objects[a].type = objects[b].type,
                    objects[a].instance = objects[b].instance,
                    Automatic(objects[b].sec, objects[b].pos)
             PROVE  FALSE
  BY DEF ClashIsExplicit
<1> DEFINE s == objects[a].sec
           i == objects[a].pos
           j == objects[b].pos
<1>1. objects[a] \in Object /\ objects[b] \in Object
  BY DEF IInv, NumberInv, TypeOK
<1>2. s \in Section /\ i \in Nat \ {0} /\ j \in Nat \ {0} /\ i < j
      /\ objects[a].type \in Type /\ objects[a].instance \in Nat
  BY <1>1 DEF Object, IInv, ObjectsInOrder
<1>3. /\ pc # "number" /\ i \in 1..Len(spec[s]) /\ j \in 1..Len(spec[s])
      /\ spec[s][i].type = objects[a].type /\ spec[s][i].instance = objects[a].instance
      /\ spec[s][j].type = objects[a].type /\ spec[s][j].instance = objects[a].instance
  BY DEF IInv, ObjectsMirror
<1>4. Numbered(s, j) /\ SameType(s, i, j) /\ Readable(spec[s][i]) /\ i \in 1..(j - 1)
  BY <1>2, <1>3, SentinelAssumption DEF Numbered, SameType, Readable
<1>5. spec[s][j].instance > spec[s][i].instance
  BY <1>2, <1>3, <1>4 DEF IInv, NumberInv, AutomaticIsFresh
<1>6. QED BY <1>2, <1>3, <1>5

\* The variables keep their types, for every spec.
THEOREM TypeCorrect == Spec => []TypeOK
<1>1. IInv => TypeOK
  BY DEF IInv, NumberInv
<1>2. QED BY <1>1, InvInit, InvStep, PTL DEF Spec

\* Numbers handed out by the walk are the next ones: larger than every instance
\* of the type before them, and without holes.
THEOREM Numbering == Spec => []AutomaticIsNext
<1>1. IInv => AutomaticIsNext
  BY DEF IInv, NumberInv, AutomaticIsNext
<1>2. QED BY <1>1, InvInit, InvStep, PTL DEF Spec

\* Decoded objects of one type clash only where the user numbered the later one.
THEOREM NoAutomaticClash == Spec => []ClashIsExplicit
BY InvNoClash, InvInit, InvStep, PTL DEF Spec

\* No step rewrites an instance the user gave.
THEOREM ExplicitValuesKept == Spec => ExplicitKept
<1> DEFINE Kept == \A s \in Section : \A i \in 1..Len(spec[s]) :
                     spec'[s][i] # spec[s][i] =>
                       /\ spec[s][i].instance = Missing
                       /\ spec'[s][i] = [spec[s][i] EXCEPT !.instance = spec'[s][i].instance]
<1>1. ASSUME IInv, FillMissing PROVE Kept
  <2> DEFINE filled == [item EXCEPT !.instance = next[item.type]]
  <2>1. /\ TypeOK /\ sec \in Section /\ pos \in 1..Len(spec[sec]) /\ item \in Item
        /\ item.instance = Missing /\ item = spec[sec][pos]
    BY <1>1, Here DEF IInv, NumberInv, FillMissing, AtItem, item
  <2>2. spec' = [spec EXCEPT ![sec] = [spec[sec] EXCEPT ![pos] = filled]]
    BY <1>1 DEF FillMissing, NextFree, item
  <2>3. /\ \A s \in Section : \A i \in 1..Len(spec[s]) :
             s # sec \/ i # pos => spec'[s][i] = spec[s][i]
        /\ spec'[sec][pos] = filled
    BY <2>1, <2>2 DEF TypeOK
  <2>4. filled = [item EXCEPT !.instance = filled.instance]
    BY <2>1 DEF Item
  <2>5. QED BY <2>1, <2>3, <2>4
<1>2. ASSUME IInv, [Next]_vars PROVE Kept \/ UNCHANGED spec
  BY <1>1, <1>2 DEF Next, Number, Decode, SkipUntyped, KeepExplicit, IgnoreUnreadable,
     NextList, DecodeObject, ClientSkips, DecodeFails, DecodeNextList, vars
<1>3. IInv /\ [Next]_vars => [Kept]_spec
  BY <1>2
<1>4. QED BY <1>3, InvInit, InvStep, PTL DEF Spec, ExplicitKept
=============================================================================
