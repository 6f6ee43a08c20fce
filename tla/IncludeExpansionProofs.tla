------------------------ MODULE IncludeExpansionProofs ------------------------
(***************************************************************************)
(* Include expansion for any files: the depth of loads, which cycles are   *)
(* refused, and that every entry of every inclusion ends up in the result  *)
(* once and in order.                                                      *)
(***************************************************************************)
EXTENDS IncludeExpansion, WellFoundedInduction, FiniteSetTheorems, SequenceTheorems, TLAPS

-----------------------------------------------------------------------------
(* Types of what replacing produces *)

LEMMA Joined ==
  ASSUME NEW S, NEW s \in Seq(S), NEW t \in Seq(S)
  PROVE  /\ s \o t \in Seq(S) /\ Len(s \o t) = Len(s) + Len(t)
         /\ \A n \in 1..Len(s) : (s \o t)[n] = s[n] /\ n \in 1..Len(s \o t)
         /\ \A n \in 1..Len(t) :
              (s \o t)[Len(s) + n] = t[n] /\ Len(s) + n \in 1..Len(s \o t)
         /\ \A n \in 1..Len(s \o t) :
              n \in 1..Len(s) \/ \E m \in 1..Len(t) : n = Len(s) + m
<1>1. Len(s) \in Nat /\ Len(t) \in Nat /\ Len(s \o t) = Len(s) + Len(t)
  OBVIOUS
<1>2. ASSUME NEW n \in 1..Len(s \o t), n \notin 1..Len(s)
      PROVE  \E m \in 1..Len(t) : n = Len(s) + m
  <2>1. n - Len(s) \in 1..Len(t) /\ n = Len(s) + (n - Len(s))
    BY <1>1, <1>2
  <2> QED BY <2>1
<1> QED BY <1>1, <1>2

LEMMA SubTyped ==
  ASSUME NEW K, NEW map, Binding(map, K), NEW t \in Text
  PROVE  Sub(map, t) \in Text
  BY DEF Sub, Binding

\* Replacing changes references and nothing else.
LEMMA SubRefsTyped ==
  ASSUME NEW K, NEW map, Binding(map, K), NEW objs \in Seq(Object)
  PROVE  /\ SubRefs(map, objs) \in Seq(Object)
         /\ Len(SubRefs(map, objs)) = Len(objs)
         /\ \A n \in 1..Len(objs) : SubRefs(map, objs)[n].from = objs[n].from
<1> DEFINE R(n) == [r \in 1..Len(objs[n].refs) |-> Sub(map, objs[n].refs[r])]
<1>1. ASSUME NEW n \in 1..Len(objs)
      PROVE  /\ [objs[n] EXCEPT !.refs = R(n)] \in Object
             /\ [objs[n] EXCEPT !.refs = R(n)].from = objs[n].from
  <2>1. objs[n] \in Object
    OBVIOUS
  <2>2. objs[n].refs \in Seq(Text)
    BY <2>1 DEF Object
  <2>3. \A r \in 1..Len(objs[n].refs) : Sub(map, objs[n].refs[r]) \in Text
    BY <2>2, SubTyped
  <2>4. R(n) \in Seq(Text)
    BY <2>2, <2>3
  <2> HIDE DEF R
  <2> QED BY <2>1, <2>4 DEF Object
<1>2. SubRefs(map, objs) = [n \in 1..Len(objs) |-> [objs[n] EXCEPT !.refs = R(n)]]
  BY DEF SubRefs
<1> HIDE DEF R
<1> DEFINE S == SubRefs(map, objs)
<1>3. /\ S = [n \in 1..Len(objs) |-> S[n]]
      /\ \A n \in 1..Len(objs) : S[n] = [objs[n] EXCEPT !.refs = R(n)]
  BY <1>2
<1>4. \A n \in 1..Len(objs) : S[n] \in Object /\ S[n].from = objs[n].from
  BY <1>1, <1>3
<1> HIDE DEF S
<1>5. S \in Seq(Object) /\ Len(S) = Len(objs)
  BY <1>3, <1>4
<1> QED BY <1>4, <1>5 DEF S

LEMMA OverTyped ==
  ASSUME NEW K, NEW f, NEW g, Binding(f, K), Binding(g, K)
  PROVE  Binding(Over(f, g), K)
  BY DEF Binding, Over

LEMMA TextTyped ==
  /\ \A n \in Name : Id(n) \in Text /\ In(n) \in Text
  /\ \A i, o \in Name : Out(i, o) \in Text
  BY DEF Text, Id, In, Out, Name

-----------------------------------------------------------------------------
(* The load in progress and its file *)

LEMMA ProjectTyped == TypeOK => Project(project)
  BY IncludeAssumption DEF TypeOK

LEMMA FrameParts ==
  ASSUME NEW f, Frame(f)
  PROVE  /\ f.file \in DOMAIN project /\ f.path \in Seq(Nat) /\ f.objs \in Seq(Object)
         /\ f.k \in 0..Len(project[f.file].includes) /\ Binding(f.outs, Text)
  BY DEF Frame

LEMMA DescriptorParts ==
  ASSUME TypeOK, NEW f \in DOMAIN project
  PROVE  /\ f \in File
         /\ Len(project[f].includes) \in Nat
         /\ \A n \in 1..Len(project[f].includes) :
              /\ Include(project[f].includes[n])
              /\ project[f].includes[n] \in ToSet(project[f].includes)
         /\ \A i \in ToSet(project[f].includes) :
              \E n \in 1..Len(project[f].includes) : project[f].includes[n] = i
         /\ \A x \in project[f].inputs : x \in Name
         /\ Binding(project[f].outputs, Name)
         /\ project[f].objs \in Seq(Entry)
<1>1. Descriptor(project[f]) /\ f \in File
  BY ProjectTyped DEF Project
<1> DEFINE incs == project[f].includes
<1>2. incs \in Seq(ToSet(incs)) /\ \A i \in ToSet(incs) : Include(i)
  BY <1>1 DEF Descriptor
<1>3. Len(incs) \in Nat /\ \A n \in 1..Len(incs) : incs[n] \in ToSet(incs)
  BY <1>2
<1>4. \A i \in ToSet(incs) : \E n \in 1..Len(incs) : incs[n] = i
  BY <1>2 DEF ToSet
<1> QED BY <1>1, <1>2, <1>3, <1>4 DEF Descriptor

LEMMA TopTyped ==
  ASSUME TypeOK
  PROVE  /\ Len(stack) \in Nat \ {0} /\ Len(stack) \in 1..Len(stack)
         /\ Frame(Top) /\ Top.file \in DOMAIN project
  BY DEF TypeOK, Top, Frame

LEMMA BoundTyped ==
  ASSUME TypeOK, NEW i, Include(i)
  PROVE  Binding(Bound(i), Name)
<1>1. Binding(Top.outs, Text)
  BY TopTyped, FrameParts
<1>2. \A x \in DOMAIN i.inputs : i.inputs[x] \in Text /\ x \in Name
  BY DEF Include, Binding
<1>3. \A x \in DOMAIN i.inputs : Sub(Top.outs, i.inputs[x]) \in Text
  BY <1>1, <1>2, SubTyped
<1> QED BY <1>2, <1>3 DEF Bound, Binding

-----------------------------------------------------------------------------
(* The end of a file *)

\* Expansion adds the objects of the file to what its includes brought.
LEMMA ExpandedTyped ==
  ASSUME TypeOK
  PROVE  /\ Expanded \in Seq(Object)
         /\ Len(Top.objs) \in Nat /\ Len(Content.objs) \in Nat
         /\ Len(Expanded) = Len(Top.objs) + Len(Content.objs)
         /\ \A n \in 1..Len(Top.objs) : Expanded[n].from = Top.objs[n].from
         /\ \A n \in 1..Len(Content.objs) :
              Expanded[Len(Top.objs) + n].from = <<Top.path, n>>
<1>1. Top.objs \in Seq(Object) /\ Top.path \in Seq(Nat) /\ Binding(Top.outs, Text)
  BY TopTyped, FrameParts
<1>2. Content.objs \in Seq(Entry)
  BY TopTyped, DescriptorParts DEF Content
<1>3. \A n \in 1..Len(Content.objs) :
        [id |-> Content.objs[n].id, refs |-> Content.objs[n].refs, from |-> <<Top.path, n>>]
          \in Object
  <2> TAKE n \in 1..Len(Content.objs)
  <2>1. Content.objs[n] \in Entry /\ n \in Nat
    BY <1>2, ElementOfSeq
  <2> QED BY <1>1, <2>1 DEF Entry, Object
<1>4. /\ Own \in Seq(Object) /\ Len(Own) = Len(Content.objs)
      /\ \A n \in 1..Len(Content.objs) : Own[n].from = <<Top.path, n>>
  BY <1>2, <1>3 DEF Own
<1> DEFINE objs == Top.objs \o Own
<1>5. objs \in Seq(Object) /\ Len(objs) = Len(Top.objs) + Len(Content.objs)
  <2>1. Top.objs \in Seq(Object) /\ Own \in Seq(Object)
    BY <1>1, <1>4
  <2>2. objs \in Seq(Object) /\ Len(objs) = Len(Top.objs) + Len(Own)
    BY ONLY <2>1, Joined
  <2> QED BY <2>2, <1>4
<1>6. /\ Expanded \in Seq(Object) /\ Len(Expanded) = Len(objs)
      /\ \A n \in 1..Len(objs) : Expanded[n].from = objs[n].from
  BY <1>1, <1>5, SubRefsTyped DEF Expanded
<1>7. Len(Top.objs) \in Nat /\ Len(Content.objs) \in Nat
  BY <1>1, <1>2
<1>8. \A n \in 1..Len(Top.objs) : objs[n] = Top.objs[n] /\ n \in 1..Len(objs)
  BY <1>1, <1>4, <1>5, <1>7, Joined
<1>9. \A n \in 1..Len(Content.objs) :
        objs[Len(Top.objs) + n] = Own[n] /\ Len(Top.objs) + n \in 1..Len(objs)
  BY <1>1, <1>4, <1>5, <1>7, Joined
<1> HIDE DEF objs
<1> QED BY <1>4, <1>5, <1>6, <1>7, <1>8, <1>9

LEMMA OutputsTyped == TypeOK => Binding(Outputs, Name)
<1> SUFFICES ASSUME TypeOK
             PROVE  Binding(Outputs, Name)
  OBVIOUS
<1>1. Binding(Top.outs, Text) /\ Binding(Content.outputs, Name)
  BY TopTyped, FrameParts, DescriptorParts DEF Content
<1>2. \A o \in DOMAIN Content.outputs : Sub(Top.outs, Content.outputs[o]) \in Text
  BY <1>1, SubTyped DEF Binding
<1> QED BY <1>1, <1>2 DEF Outputs, Binding

-----------------------------------------------------------------------------
(* An instance of a block *)

\* The include that brought the block is one of the file.
Instantiating == TypeOK /\ outcome = "instantiating" /\ Top.k > 0

LEMMA IncludedTyped ==
  ASSUME Instantiating
  PROVE  /\ Top.k \in 1..Len(Content.includes)
         /\ Include(Included) /\ Block(block)
         /\ Included.id \in Name /\ Binding(Bound(Included), Name)
<1>1. Top.k \in 1..Len(Content.includes)
  BY TopTyped, FrameParts, DescriptorParts DEF Instantiating, Content
<1>2. Include(Included)
  BY <1>1, TopTyped, DescriptorParts DEF Instantiating, Included, Content
<1>3. Block(block)
  BY DEF Instantiating, TypeOK
<1> QED BY <1>1, <1>2, <1>3, BoundTyped DEF Instantiating, Include

LEMMA InputMapTyped == Instantiating => Binding(InputMap, Text)
<1> SUFFICES ASSUME Instantiating
             PROVE  Binding(InputMap, Text)
  OBVIOUS
<1> DEFINE given == Bound(Included)
<1>1. Binding(given, Name)
  BY IncludedTyped
<1>2. \A t \in {In(x) : x \in DOMAIN given} : t \in Text /\ t.name \in DOMAIN given
  BY <1>1, TextTyped DEF Binding, In
<1>3. InputMap = [t \in {In(x) : x \in DOMAIN given} |-> given[t.name]]
  BY DEF InputMap
<1> HIDE DEF given
<1> QED BY <1>1, <1>2, <1>3 DEF Binding

LEMMA BindTyped ==
  ASSUME Instantiating
  PROVE  /\ Bind \in Seq(Object) /\ Len(Bind) = Len(block.objs)
         /\ \A n \in 1..Len(block.objs) : Bind[n].from = block.objs[n].from
         /\ Ids \subseteq Name
         /\ Binding(Resolved, Name)
<1>1. block.objs \in Seq(Object) /\ Binding(block.outputs, Name)
  BY IncludedTyped DEF Block
<1>2. Ids \subseteq Name
  <2> SUFFICES ASSUME NEW n \in 1..Len(block.objs)
               PROVE  block.objs[n].id \in Name
    BY DEF Ids
  <2>1. block.objs[n] \in Object
    BY <1>1, ElementOfSeq
  <2> QED BY <2>1 DEF Object
<1>3. \A o \in DOMAIN block.outputs : Sub(InputMap, block.outputs[o]) \in Text
  BY <1>1, InputMapTyped, SubTyped DEF Binding
<1>4. Binding(Resolved, Name)
  BY <1>1, <1>3 DEF Resolved, Binding
<1> QED BY <1>1, <1>2, <1>4, InputMapTyped, SubRefsTyped DEF Bind

LEMMA PublicTyped ==
  ASSUME Instantiating, NEW n \in Name
  PROVE  Public(n) \in Name
<1>1. Exporting(n) \subseteq Name
  BY BindTyped DEF Exporting, Binding
<1>2. Included.id \o n \in Name
  BY IncludedTyped DEF Name
<1> QED BY <1>1, <1>2 DEF Public

\* An instance has the objects of the block, in order, under other names.
LEMMA RenamedTyped ==
  ASSUME Instantiating
  PROVE  /\ Renamed \in Seq(Object) /\ Len(Renamed) = Len(block.objs)
         /\ \A n \in 1..Len(block.objs) : Renamed[n].from = block.objs[n].from
<1>1. \A t \in {Id(n) : n \in Ids} : t \in Text /\ Id(Public(t.name)) \in Text
  BY BindTyped, PublicTyped, TextTyped DEF Id
<1>2. Binding(IdMap, Text)
  BY <1>1 DEF IdMap, Binding
<1> DEFINE objs == SubRefs(IdMap, Bind)
<1>3. /\ objs \in Seq(Object) /\ Len(objs) = Len(block.objs)
      /\ \A n \in 1..Len(block.objs) : objs[n].from = block.objs[n].from
  BY <1>2, BindTyped, SubRefsTyped
<1>4. Renamed = [n \in 1..Len(objs) |-> [objs[n] EXCEPT !.id = Public(objs[n].id)]]
  BY DEF Renamed
<1> HIDE DEF objs
<1>5. \A n \in 1..Len(objs) :
        /\ [objs[n] EXCEPT !.id = Public(objs[n].id)] \in Object
        /\ [objs[n] EXCEPT !.id = Public(objs[n].id)].from = objs[n].from
  <2> TAKE n \in 1..Len(objs)
  <2>1. objs[n] \in Object
    BY <1>3
  <2>2. Public(objs[n].id) \in Name
    BY <2>1, PublicTyped DEF Object
  <2> QED BY <2>1, <2>2 DEF Object
<1>6. /\ Renamed = [n \in 1..Len(objs) |-> Renamed[n]]
      /\ \A n \in 1..Len(objs) : Renamed[n] \in Object /\ Renamed[n].from = objs[n].from
  BY <1>4, <1>5
<1>7. Len(objs) \in Nat
  BY <1>3
<1>8. Renamed \in Seq(Object) /\ Len(Renamed) = Len(objs)
  BY <1>6, <1>7
<1> QED BY <1>3, <1>6, <1>8

LEMMA ExportsTyped == Instantiating => Binding(Exports, Text)
<1> SUFFICES ASSUME Instantiating
             PROVE  Binding(Exports, Text)
  OBVIOUS
<1> DEFINE Keys == {Out(Included.id, o) : o \in DOMAIN Resolved}
<1>1. Binding(Resolved, Name) /\ Included.id \in Name
  BY BindTyped, IncludedTyped
<1>2. \A t \in Keys : t \in Text /\ t.name \in DOMAIN Resolved /\ t.name \in Name
  BY <1>1, TextTyped DEF Binding, Out
<1>3. \A t \in Keys : Resolved[t.name] \in Text /\ Id(t.name) \in Text
  BY <1>1, <1>2, TextTyped DEF Binding
<1> HIDE DEF Keys
<1>4. Exports = [t \in Keys |->
        IF \E n \in Ids : Resolved[t.name] = Id(n) THEN Id(t.name) ELSE Resolved[t.name]]
  BY DEF Exports, Keys
<1> QED BY <1>2, <1>3, <1>4 DEF Binding

-----------------------------------------------------------------------------
(* What a step does to the stack *)

LEMMA OwnElements ==
  ASSUME NEW S, NEW s \in Seq(S)
  PROVE  s \in Seq(ToSet(s))
  BY DEF ToSet

LEMMA FrameUpdated ==
  ASSUME NEW f, Frame(f), NEW n, NEW objs, NEW outs
  PROVE  /\ [f EXCEPT !.k = n] =
              [file |-> f.file, path |-> f.path, k |-> n, objs |-> f.objs, outs |-> f.outs]
         /\ [f EXCEPT !.objs = objs, !.outs = outs] =
              [file |-> f.file, path |-> f.path, k |-> f.k, objs |-> objs, outs |-> outs]
<1> DEFINE g(a, b, c, d, e) == [file |-> a, path |-> b, k |-> c, objs |-> d, outs |-> e]
<1>1. PICK a, b, c, d, e : f = g(a, b, c, d, e)
  BY DEF Frame
<1>2. f.file = a /\ f.path = b /\ f.k = c /\ f.objs = d /\ f.outs = e
  BY <1>1
<1>3. [f EXCEPT !.k = n] = g(a, b, n, d, e)
  BY ONLY <1>1
<1>4. [f EXCEPT !.objs = objs, !.outs = outs] = g(a, b, c, objs, outs)
  <2> DEFINE half == [f EXCEPT !.objs = objs]
  <2>1. half = g(a, b, c, objs, e)
    BY ONLY <1>1
  <2>2. [f EXCEPT !.objs = objs, !.outs = outs] = [half EXCEPT !.outs = outs]
    OBVIOUS
  <2> HIDE DEF half
  <2>3. [half EXCEPT !.outs = outs] = g(a, b, c, objs, outs)
    BY ONLY <2>1
  <2> QED BY <2>2, <2>3
<1> QED BY <1>2, <1>3, <1>4

LEMMA EnterStack ==
  ASSUME TypeOK, EnterInclude
  PROVE  /\ stack' \in Seq(ToSet(stack')) /\ Len(stack') = Len(stack) + 1
         /\ \A j \in 1..(Len(stack) - 1) : stack'[j] = stack[j]
         /\ stack'[Len(stack)] = [Top EXCEPT !.k = Top.k + 1]
         /\ stack'[Len(stack) + 1] = NewFrame(Coming.file, Append(Top.path, Top.k + 1))
<1> DEFINE L == Len(stack)
           top == [Top EXCEPT !.k = Top.k + 1]
           new == NewFrame(Coming.file, Append(Top.path, Top.k + 1))
           S == ToSet(stack) \cup {top, new}
           s == [stack EXCEPT ![L] = top]
<1>1. stack \in Seq(S) /\ L \in Nat \ {0} /\ top \in S /\ new \in S
  BY DEF TypeOK
<1>2. stack' = Append(s, new)
  BY DEF EnterInclude, Top
<1> HIDE DEF top, new, S
<1>3. /\ s \in Seq(S) /\ Len(s) = L /\ s[L] = top
      /\ \A j \in 1..(L - 1) : s[j] = stack[j] /\ j \in 1..L
  BY <1>1
<1> HIDE DEF s
<1>4. /\ stack' \in Seq(S) /\ Len(stack') = L + 1 /\ stack'[L + 1] = new
      /\ \A j \in 1..L : stack'[j] = s[j]
  BY <1>1, <1>2, <1>3, AppendProperties
<1>5. L \in 1..L
  BY <1>1
<1> QED BY <1>3, <1>4, <1>5, OwnElements DEF top, new

LEMMA FinishStack ==
  ASSUME TypeOK, FinishBlock
  PROVE  /\ stack' \in Seq(ToSet(stack')) /\ Len(stack') = Len(stack) - 1 /\ Len(stack) > 1
         /\ \A j \in 1..(Len(stack) - 1) : stack'[j] = stack[j]
<1>1. stack \in Seq(ToSet(stack)) /\ stack # << >> /\ Len(stack) > 1
  BY DEF TypeOK, FinishBlock
<1>2. stack' = SubSeq(stack, 1, Len(stack) - 1)
  BY DEF FinishBlock, Front
<1>3. /\ stack' \in Seq(ToSet(stack)) /\ Len(stack') = Len(stack) - 1
      /\ \A j \in 1..(Len(stack) - 1) : stack'[j] = stack[j]
  BY <1>1, <1>2
<1> QED BY <1>1, <1>3, OwnElements

LEMMA InstantiateStack ==
  ASSUME TypeOK, Instantiate
  PROVE  /\ stack' \in Seq(ToSet(stack')) /\ Len(stack') = Len(stack)
         /\ \A j \in 1..(Len(stack) - 1) : stack'[j] = stack[j]
         /\ stack'[Len(stack)] =
              [Top EXCEPT !.objs = Top.objs \o Renamed, !.outs = Over(Exports, Top.outs)]
<1> DEFINE top == [Top EXCEPT !.objs = Top.objs \o Renamed, !.outs = Over(Exports, Top.outs)]
           S == ToSet(stack) \cup {top}
<1>1. stack \in Seq(S) /\ Len(stack) \in Nat \ {0} /\ top \in S
  BY DEF TypeOK
<1>2. stack' = [stack EXCEPT ![Len(stack)] = top]
  BY DEF Instantiate
<1> HIDE DEF top, S
<1>3. /\ stack' \in Seq(S) /\ Len(stack') = Len(stack) /\ stack'[Len(stack)] = top
      /\ \A j \in 1..(Len(stack) - 1) : stack'[j] = stack[j]
  BY <1>1, <1>2
<1> QED BY <1>3, OwnElements DEF top

-----------------------------------------------------------------------------
(* Types and the way the loads in progress lead *)

\* Every load was entered by the include its caller is at; the path of a load has these
\* includes. A block that waits was brought by one.
Route ==
  /\ stack[1].file = Root
  /\ \A j \in 1..Len(stack) : stack[j].path = [h \in 1..(j - 1) |-> stack[h].k]
  /\ \A j \in 1..(Len(stack) - 1) :
       /\ stack[j].k > 0
       /\ stack[j + 1].file = project[stack[j].file].includes[stack[j].k].file
  /\ outcome = "instantiating" => Top.k > 0

Routed == TypeOK /\ Route

LEMMA RoutedInit == Init => Routed
<1> SUFFICES ASSUME Init
             PROVE  Routed
  OBVIOUS
<1>1. Project(project)
  BY IncludeAssumption DEF Init
<1>2. Root \in DOMAIN project /\ Len(project[Root].includes) \in Nat
  BY <1>1 DEF Project, Descriptor
<1> DEFINE f == NewFrame(Root, << >>)
<1>3. /\ f = [file |-> Root, path |-> << >>, k |-> 0, objs |-> << >>, outs |-> << >>]
  BY DEF NewFrame
<1> HIDE DEF f
<1>4. Binding(f.outs, Text)
  BY <1>3 DEF Binding
<1>5. Frame(f)
  BY <1>2, <1>3, <1>4 DEF Frame
<1>6. stack = <<f>> /\ Len(stack) = 1 /\ stack[1] = f /\ stack \in Seq(ToSet(stack))
  <2>1. stack = <<f>>
    BY DEF Init, f
  <2>2. stack \in Seq({f}) /\ Len(stack) = 1 /\ stack[1] = f
    BY <2>1
  <2> QED BY <2>1, <2>2, OwnElements
<1>7. TypeOK
  BY <1>5, <1>6 DEF Init, TypeOK
<1>8. Route
  BY <1>3, <1>6 DEF Init, Route
<1> QED BY <1>7, <1>8 DEF Routed

LEMMA PathLength ==
  ASSUME Routed, NEW j \in 1..Len(stack)
  PROVE  /\ stack[j].path \in Seq(Nat) /\ Len(stack[j].path) = j - 1
         /\ \A h \in 1..(j - 1) : stack[j].path[h] = stack[h].k
<1>1. stack[j].path \in Seq(Nat) /\ j \in Nat
  BY FrameParts DEF Routed, TypeOK
<1>2. stack[j].path = [h \in 1..(j - 1) |-> stack[h].k]
  BY DEF Routed, Route
<1> QED BY <1>1, <1>2

LEMMA ComingTyped ==
  ASSUME TypeOK, AtInclude, ~Refused(Coming)
  PROVE  /\ Top.k \in Nat /\ Top.k + 1 \in 1..Len(Content.includes)
         /\ Coming = Content.includes[Top.k + 1]
         /\ Coming.file \in DOMAIN project
<1>1. Top.k \in 0..Len(Content.includes) /\ Len(Content.includes) \in Nat
  BY TopTyped, FrameParts, DescriptorParts DEF Content
<1> QED BY <1>1 DEF AtInclude, Refused, Coming

LEMMA EnterTyped ==
  ASSUME Routed, EnterInclude
  PROVE  TypeOK'
<1> DEFINE L == Len(stack)
           new == NewFrame(Coming.file, Append(Top.path, Top.k + 1))
<1> USE DEF Routed
<1>1. UNCHANGED <<project, block, outcome, result>>
  BY DEF EnterInclude
<1>2. /\ Coming.file \in DOMAIN project /\ ~OnStack(Coming.file)
      /\ Top.k \in Nat /\ Top.k + 1 \in 0..Len(Content.includes)
  BY ComingTyped DEF EnterInclude
<1>3. L \in Nat \ {0} /\ Top = stack[L] /\ Frame(Top) /\ Top.path \in Seq(Nat)
  BY TopTyped, FrameParts DEF Top
<1>4. /\ new = [file |-> Coming.file, path |-> Append(Top.path, Top.k + 1), k |-> 0,
               objs |-> << >>, outs |-> << >>]
      /\ Append(Top.path, Top.k + 1) \in Seq(Nat)
  BY <1>2, <1>3 DEF NewFrame
<1> HIDE DEF new
<1>5. Len(project[Coming.file].includes) \in Nat
  BY <1>2, DescriptorParts
<1>6. Binding(new.outs, Text)
  BY <1>4 DEF Binding
<1>7. Frame(new)
  BY <1>2, <1>4, <1>5, <1>6 DEF Frame
<1> DEFINE top == [Top EXCEPT !.k = Top.k + 1]
<1>8. Frame(top) /\ top.file = Top.file
  <2>1. top = [file |-> Top.file, path |-> Top.path, k |-> Top.k + 1,
               objs |-> Top.objs, outs |-> Top.outs]
    BY <1>3, FrameUpdated
  <2> HIDE DEF top
  <2> QED BY <1>2, <1>3, <2>1 DEF Frame, Content
<1>9. /\ stack' \in Seq(ToSet(stack')) /\ Len(stack') = L + 1
      /\ \A j \in 1..(L - 1) : stack'[j] = stack[j]
      /\ stack'[L] = top /\ stack'[L + 1] = new
  BY EnterStack DEF new
<1> HIDE DEF top
<1>10. ASSUME NEW j \in 1..(L + 1)
       PROVE  /\ Frame(stack'[j])
              /\ j <= L => stack'[j].file = stack[j].file
              /\ j > L => stack'[j].file = Coming.file
  <2>1. CASE j \in 1..(L - 1)
    BY <1>3, <1>9, <2>1 DEF TypeOK
  <2>2. CASE j = L
    BY <1>3, <1>8, <1>9, <2>2
  <2>3. CASE j = L + 1
    BY <1>3, <1>4, <1>7, <1>9, <2>3
  <2> QED BY <1>3, <2>1, <2>2, <2>3
<1>11. \A j \in 1..Len(stack') : Frame(stack[j])'
  BY <1>1, <1>9, <1>10 DEF Frame
<1>12. \A j, k \in 1..Len(stack') : stack'[j].file = stack'[k].file => j = k
  <2>1. \A j, k \in 1..L : stack[j].file = stack[k].file => j = k
    BY DEF TypeOK
  <2>2. \A j \in 1..L : stack[j].file # Coming.file
    BY <1>2 DEF OnStack
  <2> QED BY <1>3, <1>9, <1>10, <2>1, <2>2
<1>13. stack' # << >>
  BY <1>3, <1>9
<1>14. (outcome = "instantiating" => Block(block))'
  BY <1>1 DEF TypeOK, Block
<1> QED BY <1>1, <1>9, <1>11, <1>12, <1>13, <1>14 DEF TypeOK

LEMMA EnterRoute ==
  ASSUME Routed, EnterInclude
  PROVE  Route'
<1> DEFINE L == Len(stack)
<1> USE DEF Routed
<1>1. UNCHANGED project /\ outcome' = "expanding"
  BY DEF EnterInclude, AtInclude
<1>2. /\ Top.k \in Nat /\ Top.k + 1 \in 1..Len(Content.includes)
      /\ Coming = Content.includes[Top.k + 1]
  BY ComingTyped DEF EnterInclude
<1>3. L \in Nat \ {0} /\ L \in 1..L /\ Top = stack[L] /\ Frame(Top)
  BY TopTyped DEF Top
<1>4. Top.path \in Seq(Nat) /\ Len(Top.path) = L - 1
  BY <1>3, PathLength
<1>5. /\ Len(stack') = L + 1
      /\ \A j \in 1..(L - 1) : stack'[j] = stack[j]
      /\ stack'[L] = [Top EXCEPT !.k = Top.k + 1]
      /\ stack'[L + 1] = NewFrame(Coming.file, Append(Top.path, Top.k + 1))
  BY EnterStack
<1>6. /\ \A j \in 1..L : stack'[j].file = stack[j].file /\ stack'[j].path = stack[j].path
      /\ stack'[L].k = Top.k + 1
      /\ stack'[L + 1].file = Coming.file
      /\ stack'[L + 1].path = Append(Top.path, Top.k + 1)
  <2> DEFINE top == [Top EXCEPT !.k = Top.k + 1]
             new == NewFrame(Coming.file, Append(Top.path, Top.k + 1))
  <2>1. top = [file |-> Top.file, path |-> Top.path, k |-> Top.k + 1,
               objs |-> Top.objs, outs |-> Top.outs]
    BY <1>3, FrameUpdated
  <2>2. new.file = Coming.file /\ new.path = Append(Top.path, Top.k + 1)
    BY DEF NewFrame
  <2>3. stack'[L] = top /\ stack'[L + 1] = new
    BY <1>5
  <2> HIDE DEF top, new
  <2>4. stack'[L].k = Top.k + 1 /\ stack'[L].file = stack[L].file
        /\ stack'[L].path = stack[L].path
    BY <1>3, <2>1, <2>3
  <2>5. \A j \in 1..L : j = L \/ j \in 1..(L - 1)
    BY <1>3
  <2> QED BY <1>5, <2>2, <2>3, <2>4, <2>5
<1>7. ASSUME NEW j \in 1..(L + 1)
      PROVE  stack'[j].path = [h \in 1..(j - 1) |-> stack'[h].k]
  <2>1. CASE j \in 1..L
    <3>1. stack[j].path = [h \in 1..(j - 1) |-> stack[h].k]
      BY <2>1 DEF Route
    <3>2. \A h \in 1..(j - 1) : stack'[h] = stack[h]
      BY <1>3, <1>5, <2>1
    <3> QED BY <1>6, <2>1, <3>1, <3>2
  <2>2. CASE j = L + 1
    <3>1. \A h \in 1..(L - 1) : Top.path[h] = stack'[h].k
      BY <1>3, <1>5, PathLength
    <3> DEFINE q == Append(Top.path, Top.k + 1)
    <3>2. q \in Seq(Nat) /\ Len(q) = L /\ q[L] = Top.k + 1
          /\ \A h \in 1..(L - 1) : q[h] = Top.path[h]
      BY <1>2, <1>3, <1>4
    <3> HIDE DEF q
    <3>3. \A h \in 1..L : h = L \/ h \in 1..(L - 1)
      BY <1>3
    <3>4. \A h \in 1..L : q[h] = stack'[h].k
      BY <1>6, <3>1, <3>2, <3>3
    <3>5. q = [h \in 1..L |-> stack'[h].k]
      BY <3>2, <3>4
    <3>6. stack'[j].path = q /\ j - 1 = L
      BY <1>3, <1>6, <2>2 DEF q
    <3> QED BY <3>5, <3>6
  <2> QED BY <1>3, <2>1, <2>2
<1>8. ASSUME NEW j \in 1..L
      PROVE  /\ stack'[j].k > 0
             /\ stack'[j + 1].file = project[stack'[j].file].includes[stack'[j].k].file
  <2>1. CASE j \in 1..(L - 1)
    <3>1. stack'[j] = stack[j] /\ j + 1 \in 1..L
      BY <1>3, <1>5, <2>1
    <3>2. /\ stack[j].k > 0
          /\ stack[j + 1].file = project[stack[j].file].includes[stack[j].k].file
      BY <2>1 DEF Route
    <3> QED BY <1>6, <3>1, <3>2
  <2>2. CASE j = L
    BY <1>2, <1>3, <1>6, <2>2 DEF Content
  <2> QED BY <1>3, <2>1, <2>2
<1>9. stack'[1].file = Root
  BY <1>3, <1>6 DEF Route
<1> QED BY <1>1, <1>3, <1>5, <1>7, <1>8, <1>9 DEF Route

LEMMA FinishKeeps ==
  ASSUME Routed, FinishBlock
  PROVE  Routed'
<1> DEFINE L == Len(stack)
<1> USE DEF Routed
<1>1. UNCHANGED <<project, result>> /\ outcome' = "instantiating"
  BY DEF FinishBlock
<1>2. /\ stack' \in Seq(ToSet(stack')) /\ Len(stack') = L - 1 /\ L \in Nat /\ L > 1
      /\ \A j \in 1..(L - 1) : stack'[j] = stack[j]
  BY FinishStack, TopTyped
<1>3. block' = [inputs |-> Content.inputs, outputs |-> Outputs, objs |-> Expanded]
  BY DEF FinishBlock
<1>4. \A x \in Content.inputs : x \in Name
  BY TopTyped, DescriptorParts DEF Content
<1>5. Block(block')
  BY <1>3, <1>4, OutputsTyped, ExpandedTyped DEF Block
<1>6. \A j \in 1..(L - 1) : Frame(stack[j])'
  BY <1>1, <1>2 DEF TypeOK, Frame
<1>7. \A j, k \in 1..(L - 1) : stack'[j].file = stack'[k].file => j = k
  BY <1>2 DEF TypeOK
<1>8. stack' # << >>
  BY <1>2
<1>9. TypeOK'
  BY <1>1, <1>2, <1>5, <1>6, <1>7, <1>8 DEF TypeOK, Block
<1>10. \A j \in 1..(L - 1) :
         stack'[j].path = [h \in 1..(j - 1) |-> stack'[h].k]
  <2> TAKE j \in 1..(L - 1)
  <2>1. stack[j].path = [h \in 1..(j - 1) |-> stack[h].k]
    BY <1>2 DEF Route
  <2>2. \A h \in 1..(j - 1) : stack'[h] = stack[h]
    BY <1>2
  <2> QED BY <1>2, <2>1, <2>2
<1>11. \A j \in 1..(L - 2) :
        /\ stack'[j].k > 0
        /\ stack'[j + 1].file = project[stack'[j].file].includes[stack'[j].k].file
  <2> TAKE j \in 1..(L - 2)
  <2>1. stack'[j] = stack[j] /\ stack'[j + 1] = stack[j + 1] /\ j \in 1..(L - 1)
    BY <1>2
  <2> QED BY <2>1 DEF Route
<1>12. stack'[1] = stack[1] /\ stack'[L - 1] = stack[L - 1] /\ L - 1 \in 1..(L - 1)
  BY <1>2
<1>13. Top'.k > 0
  BY <1>2, <1>12 DEF Route, Top
<1>14. Route'
  BY <1>1, <1>2, <1>10, <1>11, <1>12, <1>13 DEF Route
<1> QED BY <1>9, <1>14

LEMMA InstantiateKeeps ==
  ASSUME Routed, Instantiate
  PROVE  Routed'
<1> DEFINE L == Len(stack)
           top == [Top EXCEPT !.objs = Top.objs \o Renamed, !.outs = Over(Exports, Top.outs)]
<1> USE DEF Routed
<1>1. UNCHANGED <<project, result>> /\ outcome' = "expanding" /\ outcome = "instantiating"
  BY DEF Instantiate
<1>2. /\ stack' \in Seq(ToSet(stack')) /\ Len(stack') = L /\ stack'[L] = top
      /\ \A j \in 1..(L - 1) : stack'[j] = stack[j]
  BY InstantiateStack
<1>3. L \in Nat \ {0} /\ L \in 1..L /\ Top = stack[L] /\ Frame(Top)
  BY TopTyped DEF Top
<1>4. Instantiating
  BY <1>1 DEF Instantiating, Route
<1>5. top = [file |-> Top.file, path |-> Top.path, k |-> Top.k,
             objs |-> Top.objs \o Renamed, outs |-> Over(Exports, Top.outs)]
  BY <1>3, FrameUpdated
<1>6. Top.objs \o Renamed \in Seq(Object)
  BY <1>3, <1>4, FrameParts, RenamedTyped, Joined
<1>7. Binding(Over(Exports, Top.outs), Text)
  BY <1>3, <1>4, FrameParts, ExportsTyped, OverTyped
<1> HIDE DEF top
<1>8. Frame(top) /\ top.file = Top.file /\ top.path = Top.path /\ top.k = Top.k
  BY <1>3, <1>5, <1>6, <1>7 DEF Frame
<1>9. ASSUME NEW j \in 1..L
      PROVE  /\ Frame(stack'[j]) /\ stack'[j].file = stack[j].file
             /\ stack'[j].path = stack[j].path /\ stack'[j].k = stack[j].k
  <2>1. j = L \/ j \in 1..(L - 1)
    BY <1>3
  <2> QED BY <1>2, <1>3, <1>8, <2>1 DEF TypeOK
<1>10. \A j \in 1..L : Frame(stack[j])'
  BY <1>1, <1>9 DEF Frame
<1>11. stack' # << >>
  BY <1>2, <1>3
<1>12. TypeOK'
  BY <1>1, <1>2, <1>9, <1>10, <1>11 DEF TypeOK
<1>13. \A j \in 1..L : stack'[j].path = [h \in 1..(j - 1) |-> stack'[h].k]
  <2> TAKE j \in 1..L
  <2>1. stack[j].path = [h \in 1..(j - 1) |-> stack[h].k]
    BY DEF Route
  <2>2. \A h \in 1..(j - 1) : stack'[h].k = stack[h].k
    BY <1>3, <1>9
  <2> QED BY <1>9, <2>1, <2>2
<1>14. \A j \in 1..(L - 1) :
        /\ stack'[j].k > 0
        /\ stack'[j + 1].file = project[stack'[j].file].includes[stack'[j].k].file
  <2> TAKE j \in 1..(L - 1)
  <2>1. j \in 1..L /\ j + 1 \in 1..L
    BY <1>3
  <2> QED BY <1>9, <2>1 DEF Route
<1>15. Route'
  BY <1>1, <1>2, <1>3, <1>9, <1>13, <1>14 DEF Route
<1> QED BY <1>12, <1>15

LEMMA RoutedStep == Routed /\ [Next]_vars => Routed'
<1> SUFFICES ASSUME Routed, [Next]_vars
             PROVE  Routed'
  OBVIOUS
<1>1. CASE UNCHANGED vars
  BY <1>1 DEF vars, Routed, TypeOK, Route, Frame, Block, Top
<1>2. CASE EnterInclude
  BY <1>2, EnterTyped, EnterRoute DEF Routed
<1>3. CASE FinishBlock
  BY <1>3, FinishKeeps
<1>4. CASE Instantiate
  BY <1>4, InstantiateKeeps
<1>5. ASSUME NEW why \in {"cycle", "raised"}, Raise(why)
      PROVE  Routed'
  BY <1>5 DEF Raise, Routed, TypeOK, Route, Frame, Block, Top
<1>6. CASE IncludeRefused \/ CycleDetected \/ FinishFails \/ BlockRejected
  BY <1>5, <1>6 DEF IncludeRefused, CycleDetected, FinishFails, BlockRejected
<1>7. CASE FinishRoot
  <2>1. UNCHANGED <<project, stack, block>> /\ outcome' = "done" /\ result' = Expanded
    BY <1>7 DEF FinishRoot
  <2>2. Expanded \in Seq(Object)
    BY ExpandedTyped DEF Routed
  <2> QED BY <2>1, <2>2 DEF Routed, TypeOK, Route, Frame, Block, Top
<1> QED BY <1>1, <1>2, <1>3, <1>4, <1>6, <1>7 DEF Next

LEMMA RoutedAlways == Spec => []Routed
<1>1. Init => Routed
  BY RoutedInit
<1>2. Routed /\ [Next]_vars => Routed'
  BY RoutedStep
<1> QED BY <1>1, <1>2, PTL DEF Spec

\* Whatever files include each other, all variables keep their types, and no file is
\* loaded while it is being loaded (_load_yaml_with_vars_recursive).
THEOREM TypeCorrect == Spec => []TypeOK
<1>1. Routed => TypeOK
  BY DEF Routed
<1> QED BY <1>1, RoutedAlways, PTL

\* Loads nest no deeper than there are files, so that the recursion needs no bound: that
\* of the model never binds (_load_yaml_with_vars_recursive).
LEMMA DepthBounded == TypeOK => Len(stack) <= Cardinality(File)
<1> SUFFICES ASSUME TypeOK
             PROVE  Len(stack) <= Cardinality(File)
  OBVIOUS
<1> DEFINE f == [j \in 1..Len(stack) |-> stack[j].file]
<1>1. \A j \in 1..Len(stack) : stack[j].file \in File
  BY DescriptorParts DEF TypeOK, Frame
<1>2. f \in Injection(1..Len(stack), File)
  BY <1>1 DEF TypeOK, Injection, IsInjective
<1> HIDE DEF f
<1>3. Len(stack) \in Nat
  BY TopTyped
<1>4. Cardinality(1..Len(stack)) <= Cardinality(File)
  BY <1>2, FS_Injection, IncludeAssumption
<1>5. Cardinality(1..Len(stack)) = Len(stack)
  BY <1>3, FS_Interval
<1> QED BY <1>4, <1>5

THEOREM NestingBounded == Spec => [](Len(stack) < MaxDepth)
<1>1. TypeOK => Len(stack) < MaxDepth
  BY DepthBounded, TopTyped, IncludeAssumption, FS_CardinalityType
<1> QED BY <1>1, TypeCorrect, PTL

-----------------------------------------------------------------------------
(* The frames of the stack, field by field *)

LEMMA FrameFields ==
  ASSUME TypeOK, NEW j \in 1..Len(stack)
  PROVE  /\ stack[j].file \in DOMAIN project /\ stack[j].objs \in Seq(Object)
         /\ stack[j].k \in Nat /\ Len(project[stack[j].file].includes) \in Nat
         /\ stack[j].k <= Len(project[stack[j].file].includes)
<1>1. Frame(stack[j])
  BY DEF TypeOK
<1>2. /\ stack[j].file \in DOMAIN project /\ stack[j].objs \in Seq(Object)
      /\ stack[j].k \in 0..Len(project[stack[j].file].includes)
  BY <1>1, FrameParts
<1>3. Len(project[stack[j].file].includes) \in Nat
  BY <1>2, DescriptorParts
<1> QED BY <1>2, <1>3

LEMMA EnterFields ==
  ASSUME TypeOK, EnterInclude
  PROVE  /\ Len(stack) \in Nat \ {0} /\ Len(stack') = Len(stack) + 1
         /\ \A j \in 1..(Len(stack) - 1) : stack'[j] = stack[j]
         /\ LET old == stack'[Len(stack)] IN
              /\ old.file = Top.file /\ old.path = Top.path
              /\ old.k = Top.k + 1 /\ old.objs = Top.objs
         /\ LET new == stack'[Len(stack) + 1] IN
              /\ new.file = Coming.file /\ new.path = Append(Top.path, Top.k + 1)
              /\ new.k = 0 /\ new.objs = << >>
<1> DEFINE top == [Top EXCEPT !.k = Top.k + 1]
           new == NewFrame(Coming.file, Append(Top.path, Top.k + 1))
<1>1. top = [file |-> Top.file, path |-> Top.path, k |-> Top.k + 1,
             objs |-> Top.objs, outs |-> Top.outs]
  BY TopTyped, FrameUpdated
<1>2. /\ Len(stack') = Len(stack) + 1 /\ stack'[Len(stack)] = top
      /\ \A j \in 1..(Len(stack) - 1) : stack'[j] = stack[j]
      /\ stack'[Len(stack) + 1] = new
  BY EnterStack
<1>3. /\ new.file = Coming.file /\ new.path = Append(Top.path, Top.k + 1)
      /\ new.k = 0 /\ new.objs = << >>
  BY DEF NewFrame
<1> HIDE DEF top, new
<1> QED BY <1>1, <1>2, <1>3, TopTyped

LEMMA InstantiateFields ==
  ASSUME TypeOK, Instantiate
  PROVE  /\ Len(stack) \in Nat \ {0} /\ Len(stack') = Len(stack)
         /\ \A j \in 1..(Len(stack) - 1) : stack'[j] = stack[j]
         /\ LET new == stack'[Len(stack)] IN
              /\ new.file = Top.file /\ new.path = Top.path
              /\ new.k = Top.k /\ new.objs = Top.objs \o Renamed
<1> DEFINE top == [Top EXCEPT !.objs = Top.objs \o Renamed, !.outs = Over(Exports, Top.outs)]
<1>1. top = [file |-> Top.file, path |-> Top.path, k |-> Top.k,
             objs |-> Top.objs \o Renamed, outs |-> Over(Exports, Top.outs)]
  BY TopTyped, FrameUpdated
<1>2. /\ Len(stack') = Len(stack) /\ stack'[Len(stack)] = top
      /\ \A j \in 1..(Len(stack) - 1) : stack'[j] = stack[j]
  BY InstantiateStack
<1> HIDE DEF top
<1> QED BY <1>1, <1>2, TopTyped

-----------------------------------------------------------------------------
(* Cycles *)

\* The files of the stack include each other, down to one that is included again.
LEMMA CycleFound ==
  ASSUME Routed, CycleDetected
  PROVE  Endless(Root)
<1> DEFINE L == Len(stack)
           T == {stack[j].file : j \in 1..L}
<1> USE DEF Routed
<1>1. Coming = Content.includes[Top.k + 1] /\ Top.k + 1 \in 1..Len(Content.includes)
  BY ComingTyped DEF CycleDetected
<1>2. PICK back \in 1..L : stack[back].file = Coming.file
  BY DEF CycleDetected, OnStack
<1>3. L \in Nat \ {0} /\ T \subseteq DOMAIN project /\ Root \in T
  <2>1. L \in Nat \ {0} /\ 1 \in 1..L /\ stack[1].file = Root
    BY TopTyped DEF Route
  <2> QED BY <2>1, FrameFields
<1>4. ASSUME NEW j \in 1..L
      PROVE  \E i \in ToSet(project[stack[j].file].includes) : i.file \in T
  <2>1. stack[j].file \in DOMAIN project
    BY DEF TypeOK, Frame
  <2>2. CASE j = L
    <3>1. Coming \in ToSet(project[stack[j].file].includes)
      BY <1>1, <2>1, <2>2, DescriptorParts DEF Content, Top
    <3> QED BY <1>2, <3>1
  <2>3. CASE j \in 1..(L - 1)
    <3> DEFINE i == project[stack[j].file].includes[stack[j].k]
    <3>1. stack[j].k > 0 /\ stack[j + 1].file = i.file /\ j + 1 \in 1..L
      BY <1>3, <2>3 DEF Route
    <3>2. stack[j].k \in 1..Len(project[stack[j].file].includes)
      BY <3>1, FrameFields
    <3>3. i \in ToSet(project[stack[j].file].includes)
      BY <2>1, <3>2, DescriptorParts
    <3> HIDE DEF i
    <3> QED BY <3>1, <3>3
  <2> QED BY <1>3, <2>2, <2>3
<1> HIDE DEF L
<1>5. \A f \in T : \E i \in ToSet(project[f].includes) : i.file \in T
  BY <1>4
<1> HIDE DEF T
<1> QED BY <1>3, <1>5 DEF Endless

\* A file is on no cycle and leads to none if that holds of all it includes.
LEMMA IncludesEnd ==
  ASSUME TypeOK, NEW f \in DOMAIN project,
         \A n \in 1..Len(project[f].includes) : ~Endless(project[f].includes[n].file)
  PROVE  ~Endless(f)
<1> SUFFICES ASSUME NEW T \in SUBSET DOMAIN project, f \in T,
                    \A g \in T : \E i \in ToSet(project[g].includes) : i.file \in T
             PROVE  FALSE
  BY DEF Endless
<1>1. PICK i \in ToSet(project[f].includes) : i.file \in T
  OBVIOUS
<1>2. Endless(i.file)
  BY <1>1 DEF Endless
<1>3. PICK n \in 1..Len(project[f].includes) : project[f].includes[n] = i
  BY DescriptorParts
<1> QED BY <1>2, <1>3

\* What has been expanded is on no cycle.
EndedBefore(j) == IF j = Len(stack) THEN stack[j].k ELSE stack[j].k - 1
Settled ==
  \A j \in 1..Len(stack) : \A n \in 1..EndedBefore(j) :
    ~Endless(project[stack[j].file].includes[n].file)

CycleInv == Routed /\ Settled /\ CyclesRefused

LEMMA TopEnds ==
  ASSUME Routed, Settled, AtEnd
  PROVE  ~Endless(Top.file)
<1>1. Top = stack[Len(stack)] /\ Len(stack) \in 1..Len(stack) /\ Top.file \in DOMAIN project
  BY TopTyped DEF Top, Routed
<1>2. Top.k = Len(project[Top.file].includes)
  BY DEF AtEnd, Content
<1> QED BY <1>1, <1>2, IncludesEnd DEF Settled, EndedBefore, Routed

LEMMA SettledEnter ==
  ASSUME Routed, Settled, EnterInclude
  PROVE  Settled'
<1> DEFINE L == Len(stack)
<1>1. UNCHANGED project
  BY DEF EnterInclude
<1>2. /\ L \in Nat \ {0} /\ Len(stack') = L + 1
      /\ \A j \in 1..(L - 1) : stack'[j] = stack[j]
      /\ stack'[L].k = Top.k + 1 /\ stack'[L].file = Top.file
      /\ stack'[L + 1].k = 0
  BY EnterFields DEF Routed
<1>3. Top.k \in Nat /\ Top = stack[L]
  BY ComingTyped DEF EnterInclude, Routed, Top
<1>4. ASSUME NEW j \in 1..(L + 1), NEW n \in 1..EndedBefore(j)'
      PROVE  ~Endless(project[stack'[j].file].includes[n].file)
  <2>1. CASE j \in 1..(L - 1)
    BY <1>2, <2>1 DEF Settled, EndedBefore
  <2>2. CASE j = L
    <3>1. EndedBefore(j)' = Top.k /\ EndedBefore(j) = Top.k /\ j \in 1..L
      BY <1>2, <1>3, <2>2 DEF EndedBefore
    <3> QED BY <1>2, <1>3, <2>2, <3>1 DEF Settled
  <2>3. CASE j = L + 1
    BY <1>2, <2>3 DEF EndedBefore
  <2> QED BY <1>2, <2>1, <2>2, <2>3
<1> QED BY <1>1, <1>2, <1>4 DEF Settled, Endless

LEMMA SettledFinish ==
  ASSUME Routed, Settled, FinishBlock
  PROVE  Settled'
<1> DEFINE L == Len(stack)
<1>1. UNCHANGED project /\ AtEnd
  BY DEF FinishBlock
<1>2. /\ L \in Nat /\ L > 1 /\ Len(stack') = L - 1
      /\ \A j \in 1..(L - 1) : stack'[j] = stack[j]
  BY FinishStack, TopTyped DEF Routed
<1>3. /\ stack[L].file = project[stack[L - 1].file].includes[stack[L - 1].k].file
      /\ stack[L - 1].k \in Nat \ {0}
  <2>1. L - 1 \in 1..(L - 1) /\ L - 1 \in 1..L /\ L - 1 + 1 = L
    BY <1>2
  <2>2. stack[L - 1].k \in Nat
    BY <2>1 DEF Routed, TypeOK, Frame
  <2> QED BY <2>1, <2>2 DEF Routed, Route
<1>4. ASSUME NEW j \in 1..(L - 1), NEW n \in 1..EndedBefore(j)'
      PROVE  ~Endless(project[stack[j].file].includes[n].file)
  <2>1. CASE j = L - 1 /\ n = stack[j].k
    BY <1>1, <1>3, <2>1, TopEnds DEF Top
  <2>2. CASE n \in 1..EndedBefore(j)
    BY <1>2, <2>2 DEF Settled
  <2>3. stack'[j] = stack[j]
    BY <1>2
  <2>4. CASE j # L - 1
    BY <1>2, <2>2, <2>3, <2>4 DEF EndedBefore
  <2>5. CASE j = L - 1
    BY <1>2, <1>3, <2>1, <2>2, <2>3, <2>5 DEF EndedBefore
  <2> QED BY <2>4, <2>5
<1> QED BY <1>1, <1>2, <1>4 DEF Settled, Endless

LEMMA SettledInstantiate ==
  ASSUME Routed, Settled, Instantiate
  PROVE  Settled'
<1> DEFINE L == Len(stack)
<1>1. UNCHANGED project
  BY DEF Instantiate
<1>2. /\ L \in Nat /\ Len(stack') = L /\ L \in 1..L
      /\ \A j \in 1..(L - 1) : stack'[j] = stack[j]
      /\ stack'[L].k = stack[L].k /\ stack'[L].file = stack[L].file
  BY InstantiateFields DEF Routed, Top
<1>3. \A j \in 1..L : stack'[j].k = stack[j].k /\ stack'[j].file = stack[j].file
  BY <1>2
<1> QED BY <1>1, <1>2, <1>3 DEF Settled, Endless, EndedBefore

LEMMA CycleInvStep == CycleInv /\ [Next]_vars => CycleInv'
<1> SUFFICES ASSUME CycleInv, [Next]_vars
             PROVE  Settled' /\ CyclesRefused'
  BY RoutedStep DEF CycleInv
<1> USE DEF CycleInv
<1>1. CASE UNCHANGED vars
  BY <1>1 DEF vars, Settled, EndedBefore, Endless, CyclesRefused
<1>2. CASE EnterInclude
  BY <1>2, SettledEnter DEF CyclesRefused, EnterInclude, AtInclude
<1>3. CASE FinishBlock
  BY <1>3, SettledFinish DEF CyclesRefused, FinishBlock
<1>4. CASE Instantiate
  BY <1>4, SettledInstantiate DEF CyclesRefused, Instantiate
<1>5. ASSUME NEW why, Raise(why)
      PROVE  Settled'
  BY <1>5 DEF Raise, Settled, EndedBefore, Endless
<1>6. CASE IncludeRefused \/ FinishFails \/ BlockRejected
  BY <1>5, <1>6 DEF IncludeRefused, FinishFails, BlockRejected, Raise, CyclesRefused
<1>7. CASE CycleDetected
  <2>1. Raise("cycle") /\ Endless(Root)
    BY <1>7, CycleFound DEF CycleDetected
  <2>2. CyclesRefused'
    BY <2>1 DEF Raise, CyclesRefused, Endless
  <2> QED BY <1>5, <2>1, <2>2
<1>8. CASE FinishRoot
  <2>1. UNCHANGED <<project, stack>> /\ outcome' = "done" /\ AtEnd /\ Len(stack) = 1
    BY <1>8 DEF FinishRoot
  <2>2. Top.file = Root
    BY <2>1 DEF Top, Routed, Route
  <2>3. ~Endless(Root)
    BY <2>1, <2>2, TopEnds
  <2> QED BY <2>1, <2>3 DEF Settled, EndedBefore, Endless, CyclesRefused
<1> QED BY <1>1, <1>2, <1>3, <1>4, <1>6, <1>7, <1>8 DEF Next

LEMMA CycleInvInit == Init => CycleInv
<1> SUFFICES ASSUME Init
             PROVE  Settled /\ CyclesRefused
  BY RoutedInit DEF CycleInv
<1>1. Len(stack) = 1 /\ stack[1].k = 0
  BY DEF Init, NewFrame
<1> QED BY <1>1 DEF Init, Settled, EndedBefore, CyclesRefused

-----------------------------------------------------------------------------
(* Objects that make up a part of the tree of inclusions *)

\* The entries there are in all inclusions.
Entries == {x \in Seq(Nat) \X Nat : x \in Contents(x[1])}

\* objs are the entries beneath path by the includes at the places is, in order.
Within(q, path, is) == Below(q, path) /\ q[Len(path) + 1] \in is
Ordered(objs) == \A n, m \in 1..Len(objs) : n < m => Precedes(objs[n].from, objs[m].from)
Covers(entries, objs, path, is) ==
  /\ \A n \in 1..Len(objs) : objs[n].from \in entries /\ Within(objs[n].from[1], path, is)
  /\ \A x \in entries : Within(x[1], path, is) => \E n \in 1..Len(objs) : objs[n].from = x
  /\ Ordered(objs)

LEMMA CoversNothing ==
  ASSUME NEW entries, NEW path
  PROVE  Covers(entries, << >>, path, 1..0)
  BY DEF Covers, Within, Ordered

LEMMA CoversSame ==
  ASSUME NEW entries, NEW path, NEW is, NEW a, NEW b, Len(b) = Len(a),
         \A n \in 1..Len(a) : b[n].from = a[n].from, Covers(entries, a, path, is)
  PROVE  Covers(entries, b, path, is)
  BY DEF Covers, Ordered

LEMMA OrderedJoined ==
  ASSUME NEW a \in Seq(Object), NEW b \in Seq(Object), Ordered(a), Ordered(b),
         \A n \in 1..Len(a), m \in 1..Len(b) : Precedes(a[n].from, b[m].from)
  PROVE  Ordered(a \o b)
<1> DEFINE s == a \o b
<1>1. /\ \A n \in 1..Len(a) : s[n] = a[n]
      /\ \A n \in 1..Len(b) : s[Len(a) + n] = b[n]
      /\ \A n \in 1..Len(s) : n \in 1..Len(a) \/ \E m \in 1..Len(b) : n = Len(a) + m
      /\ Len(a) \in Nat /\ Len(b) \in Nat
  BY Joined
<1> HIDE DEF s
<1>2. ASSUME NEW n \in 1..Len(s), NEW m \in 1..Len(s), n < m
      PROVE  Precedes(s[n].from, s[m].from)
  <2>1. CASE n \in 1..Len(a) /\ m \in 1..Len(a)
    BY <1>1, <1>2, <2>1 DEF Ordered
  <2>2. CASE n \in 1..Len(a) /\ m \notin 1..Len(a)
    BY <1>1, <2>2
  <2>3. CASE n \notin 1..Len(a)
    <3>1. PICK i \in 1..Len(b) : n = Len(a) + i
      BY <1>1, <2>3
    <3>2. m \notin 1..Len(a)
      BY <1>1, <1>2, <3>1
    <3>3. PICK j \in 1..Len(b) : m = Len(a) + j
      BY <1>1, <3>2
    <3>4. i < j
      BY <1>1, <1>2, <3>1, <3>3
    <3> QED BY <1>1, <3>1, <3>3, <3>4 DEF Ordered
  <2> QED BY <2>1, <2>2, <2>3
<1> QED BY <1>2 DEF Ordered, s

\* What the next include brings comes after what the ones before it brought.
LEMMA CoversMore ==
  ASSUME NEW entries \in SUBSET (Seq(Nat) \X Nat), NEW path \in Seq(Nat), NEW k \in Nat \ {0},
         NEW a \in Seq(Object), NEW b \in Seq(Object),
         Covers(entries, a, path, 1..(k - 1)), Covers(entries, b, path, {k})
  PROVE  Covers(entries, a \o b, path, 1..k)
<1> DEFINE s == a \o b
<1>1. /\ \A n \in 1..Len(a) : s[n] = a[n] /\ n \in 1..Len(s)
      /\ \A n \in 1..Len(b) : s[Len(a) + n] = b[n] /\ Len(a) + n \in 1..Len(s)
      /\ \A n \in 1..Len(s) : n \in 1..Len(a) \/ \E m \in 1..Len(b) : n = Len(a) + m
  BY Joined
<1>2. ASSUME NEW n \in 1..Len(a), NEW m \in 1..Len(b)
      PROVE  Precedes(a[n].from, b[m].from)
  <2> DEFINE p == a[n].from[1]
             q == b[m].from[1]
             j == Len(path) + 1
  <2>1. p \in Seq(Nat) /\ q \in Seq(Nat)
    BY DEF Covers
  <2>2. /\ Below(p, path) /\ p[j] \in 1..(k - 1) /\ Below(q, path) /\ q[j] = k
    BY DEF Covers, Within
  <2> HIDE DEF p, q
  <2>3. Len(path) \in Nat /\ Len(p) \in Nat /\ Len(q) \in Nat
    BY <2>1
  <2>4. /\ Len(p) > Len(path) /\ Len(q) > Len(path)
        /\ \A h \in 1..Len(path) : p[h] = path[h] /\ q[h] = path[h]
    BY <2>2 DEF Below
  <2>5. /\ j \in 1..Len(p) /\ j <= Len(q) /\ p[j] < q[j]
        /\ \A h \in 1..(j - 1) : p[h] = q[h]
    BY <2>2, <2>3, <2>4
  <2> HIDE DEF j
  <2> QED BY <2>5 DEF Precedes, p, q
<1>3. Ordered(s)
  BY <1>2, OrderedJoined DEF Covers
<1> HIDE DEF s
<1>4. \A q \in Seq(Nat) : Within(q, path, 1..k) <=>
        Within(q, path, 1..(k - 1)) \/ Within(q, path, {k})
  BY DEF Within
<1>5. ASSUME NEW n \in 1..Len(s)
      PROVE  s[n].from \in entries /\ Within(s[n].from[1], path, 1..k)
  <2>1. CASE n \in 1..Len(a)
    <3>1. s[n] = a[n] /\ a[n].from \in entries /\ Within(a[n].from[1], path, 1..(k - 1))
      BY <1>1, <2>1 DEF Covers
    <3>2. a[n].from[1] \in Seq(Nat)
      BY <3>1
    <3> QED BY <1>4, <3>1, <3>2
  <2>2. CASE \E m \in 1..Len(b) : n = Len(a) + m
    <3>1. PICK m \in 1..Len(b) : n = Len(a) + m
      BY <2>2
    <3>2. s[n] = b[m] /\ b[m].from \in entries /\ Within(b[m].from[1], path, {k})
      BY <1>1, <3>1 DEF Covers
    <3>3. b[m].from[1] \in Seq(Nat)
      BY <3>2
    <3> QED BY <1>4, <3>2, <3>3
  <2> QED BY <1>1, <2>1, <2>2
<1>6. ASSUME NEW x \in entries, Within(x[1], path, 1..k)
      PROVE  \E n \in 1..Len(s) : s[n].from = x
  <2>1. CASE Within(x[1], path, 1..(k - 1))
    <3>1. PICK n \in 1..Len(a) : a[n].from = x
      BY <2>1 DEF Covers
    <3> QED BY <1>1, <3>1
  <2>2. CASE Within(x[1], path, {k})
    <3>1. PICK n \in 1..Len(b) : b[n].from = x
      BY <2>2 DEF Covers
    <3> QED BY <1>1, <3>1
  <2> QED BY <1>4, <1>6, <2>1, <2>2
<1> QED BY <1>3, <1>5, <1>6 DEF Covers, s

-----------------------------------------------------------------------------
(* The files that the includes of a path lead through *)

\* The loads in progress are such files.
LEMMA StackWalk ==
  ASSUME Routed, NEW j \in 1..Len(stack)
  PROVE  [h \in 0..(j - 1) |-> stack[h + 1].file] \in Walks(stack[j].path)
<1> DEFINE w == [h \in 0..(j - 1) |-> stack[h + 1].file]
           path == stack[j].path
<1>1. Len(stack) \in Nat \ {0} /\ j \in Nat
  BY TopTyped DEF Routed
<1>2. Len(path) = j - 1 /\ \A h \in 1..(j - 1) : path[h] = stack[h].k
  BY PathLength
<1>3. \A h \in 0..(j - 1) : stack[h + 1].file \in DOMAIN project
  BY <1>1, FrameFields DEF Routed
<1>4. w \in [0..Len(path) -> DOMAIN project] /\ w[0] = Root
  BY <1>1, <1>2, <1>3 DEF Routed, Route
<1>5. ASSUME NEW h \in 1..Len(path)
      PROVE  /\ path[h] \in 1..Len(project[w[h - 1]].includes)
             /\ w[h] = project[w[h - 1]].includes[path[h]].file
  <2>1. h \in 1..Len(stack) /\ h \in 1..(Len(stack) - 1) /\ h \in 1..(j - 1)
    BY <1>1, <1>2
  <2>2. w[h - 1] = stack[h].file /\ w[h] = stack[h + 1].file
    BY <2>1
  <2>3. stack[h].k > 0 /\ stack[h + 1].file = project[stack[h].file].includes[stack[h].k].file
    BY <2>1 DEF Routed, Route
  <2>4. stack[h].k \in 1..Len(project[stack[h].file].includes)
    BY <2>1, <2>3, FrameFields DEF Routed
  <2> QED BY <1>2, <2>1, <2>2, <2>3, <2>4
<1> HIDE DEF w, path
<1> QED BY <1>4, <1>5 DEF Walks, Along, w, path

LEMMA LeastNumber ==
  ASSUME NEW S \in SUBSET Nat, S # {}
  PROVE  \E m \in S : \A k \in S : m <= k
<1>1. IsWellFoundedOn(OpToRel(<, Nat), Nat)
  BY NatLessThanWellFounded
<1>2. PICK m \in S : \A k \in S : ~(<<k, m>> \in OpToRel(<, Nat))
  BY <1>1, WFMin
<1>3. ASSUME NEW k \in S, k < m
      PROVE  <<k, m>> \in OpToRel(<, Nat)
  BY <1>2, <1>3 DEF OpToRel
<1>4. \A k \in S : ~(k < m)
  BY <1>2, <1>3
<1> QED BY <1>4

\* No others lie on a path that begins like that of a load in progress.
LEMMA WalkUnique ==
  ASSUME Routed, NEW j \in 1..Len(stack), NEW q \in Seq(Nat), NEW w \in Walks(q),
         Len(q) >= j - 1, \A h \in 1..(j - 1) : q[h] = stack[h].k
  PROVE  w[j - 1] = stack[j].file
<1> DEFINE S == {h \in 0..(j - 1) : w[h] # stack[h + 1].file}
<1>1. Len(stack) \in Nat \ {0} /\ j \in Nat /\ Len(q) \in Nat
  BY TopTyped DEF Routed
<1>2. CASE S = {}
  <2>1. j - 1 \in 0..(j - 1) /\ j - 1 + 1 = j
    BY <1>1
  <2> QED BY <1>2, <2>1
<1>3. CASE S # {}
  <2>1. PICK m \in S : \A k \in S : m <= k
    <3>1. S \in SUBSET Nat
      BY <1>1
    <3> HIDE DEF S
    <3> QED BY <1>3, <3>1, LeastNumber
  <2>2. m # 0
    <3>1. w[0] = Root /\ stack[1].file = Root
      BY DEF Walks, Along, Routed, Route
    <3> QED BY <2>1, <3>1
  <2>3. m \in 1..(j - 1) /\ m \in 1..Len(q) /\ m \in 1..(Len(stack) - 1)
    BY <1>1, <2>1, <2>2
  <2>4. w[m - 1] = stack[m].file
    <3>1. m - 1 \notin S /\ m - 1 \in 0..(j - 1) /\ m - 1 + 1 = m
      BY <2>1, <2>3
    <3> QED BY <3>1
  <2>5. w[m] = project[w[m - 1]].includes[q[m]].file
    BY <2>3 DEF Walks, Along
  <2>6. stack[m + 1].file = project[stack[m].file].includes[stack[m].k].file /\ q[m] = stack[m].k
    BY <2>3 DEF Routed, Route
  <2> QED BY <2>1, <2>4, <2>5, <2>6
<1> QED BY <1>2, <1>3

LEMMA EntryParts ==
  ASSUME NEW x \in Entries
  PROVE  /\ x = <<x[1], x[2]>> /\ x[1] \in Seq(Nat)
         /\ \E w \in Walks(x[1]) : x[2] \in 1..Len(project[w[Len(x[1])]].objs)
<1>1. x \in Seq(Nat) \X Nat /\ x \in Contents(x[1])
  BY DEF Entries
<1>2. PICK n \in UNION {1..Len(project[w[Len(x[1])]].objs) : w \in Walks(x[1])} : x = <<x[1], n>>
  BY <1>1 DEF Contents
<1> QED BY <1>1, <1>2

LEMMA EntryMade ==
  ASSUME NEW path \in Seq(Nat), NEW w \in Walks(path),
         NEW n \in 1..Len(project[w[Len(path)]].objs)
  PROVE  <<path, n>> \in Entries
<1>1. <<path, n>> \in Contents(path)
  BY DEF Contents
<1> QED BY <1>1 DEF Entries

\* The entries at and beneath the load that ends.
LEMMA EntriesAtEnd ==
  ASSUME Routed, AtEnd
  PROVE  /\ \A n \in 1..Len(Content.objs) : <<Top.path, n>> \in Entries
         /\ \A x \in Entries : x[1] = Top.path => x[2] \in 1..Len(Content.objs)
         /\ \A x \in Entries : Below(x[1], Top.path) => Within(x[1], Top.path, 1..Top.k)
<1> DEFINE L == Len(stack)
<1>1. L \in Nat \ {0} /\ L \in 1..L /\ Top = stack[L]
  BY TopTyped DEF Routed, Top
<1>2. /\ Top.path \in Seq(Nat) /\ Len(Top.path) = L - 1
      /\ \A h \in 1..(L - 1) : Top.path[h] = stack[h].k
  BY <1>1, PathLength
<1>3. \A n \in 1..Len(Content.objs) : <<Top.path, n>> \in Entries
  <2> DEFINE w == [h \in 0..(L - 1) |-> stack[h + 1].file]
  <2>1. w \in Walks(Top.path)
    BY <1>1, StackWalk
  <2>2. w[Len(Top.path)] = Top.file
    BY <1>1, <1>2
  <2> HIDE DEF w
  <2> QED BY <1>2, <2>1, <2>2, EntryMade DEF Content
<1>4. ASSUME NEW x \in Entries, x[1] = Top.path
      PROVE  x[2] \in 1..Len(Content.objs)
  <2>1. PICK w \in Walks(x[1]) : x[2] \in 1..Len(project[w[Len(x[1])]].objs)
    BY EntryParts
  <2>2. w[L - 1] = Top.file
    BY <1>1, <1>2, <1>4, WalkUnique
  <2> QED BY <1>2, <1>4, <2>1, <2>2 DEF Content
<1>5. ASSUME NEW x \in Entries, Below(x[1], Top.path)
      PROVE  Within(x[1], Top.path, 1..Top.k)
  <2> DEFINE q == x[1]
  <2>1. PICK w \in Walks(q) : TRUE
    BY EntryParts
  <2>2. q \in Seq(Nat) /\ Len(q) > L - 1 /\ \A h \in 1..(L - 1) : q[h] = stack[h].k
    BY <1>2, <1>5, EntryParts DEF Below
  <2> HIDE DEF q
  <2>3. Len(q) \in Nat /\ L \in 1..Len(q) /\ Len(q) >= L - 1
    BY <1>1, <2>2
  <2>4. w[L - 1] = Top.file
    BY <1>1, <2>2, <2>3, WalkUnique
  <2>5. q[L] \in 1..Len(project[w[L - 1]].includes)
    BY <2>1, <2>3 DEF Walks, Along
  <2>6. q[L] \in 1..Top.k
    BY <2>4, <2>5 DEF AtEnd, Content
  <2>7. L = Len(Top.path) + 1
    BY <1>1, <1>2
  <2> QED BY <1>5, <2>6, <2>7 DEF Within, q
<1> QED BY <1>3, <1>4, <1>5

\* A file that ends has the entries of its includes and then its own.
LEMMA EndCovers ==
  ASSUME Routed, AtEnd, Covers(Entries, Top.objs, Top.path, 1..Top.k)
  PROVE  /\ \A n \in 1..Len(Expanded) :
              /\ Expanded[n].from \in Entries
              /\ Expanded[n].from[1] = Top.path \/ Below(Expanded[n].from[1], Top.path)
         /\ \A x \in Entries : x[1] = Top.path \/ Below(x[1], Top.path) =>
              \E n \in 1..Len(Expanded) : Expanded[n].from = x
         /\ Ordered(Expanded)
<1> DEFINE a == Top.objs
           c == Len(Content.objs)
<1>1. /\ Expanded \in Seq(Object) /\ Len(a) \in Nat /\ c \in Nat
      /\ Len(Expanded) = Len(a) + c
      /\ \A n \in 1..Len(a) : Expanded[n].from = a[n].from
      /\ \A n \in 1..c : Expanded[Len(a) + n].from = <<Top.path, n>>
  BY ExpandedTyped DEF Routed
<1>2. \A n \in 1..Len(a) : a[n].from \in Entries /\ Below(a[n].from[1], Top.path)
  BY DEF Covers, Within
<1> HIDE DEF a, c
<1>3. \A n \in 1..Len(Expanded) : n \in 1..Len(a) \/ \E m \in 1..c : n = Len(a) + m
  <2> TAKE n \in 1..Len(Expanded)
  <2>1. n \notin 1..Len(a) => n - Len(a) \in 1..c /\ n = Len(a) + (n - Len(a))
    BY <1>1
  <2> QED BY <2>1
<1>4. \A n \in 1..Len(a) : n \in 1..Len(Expanded)
  BY <1>1
<1>5. \A n \in 1..c : Len(a) + n \in 1..Len(Expanded)
  BY <1>1
<1>6. ASSUME NEW n \in 1..Len(Expanded)
      PROVE  /\ Expanded[n].from \in Entries
             /\ Expanded[n].from[1] = Top.path \/ Below(Expanded[n].from[1], Top.path)
  <2>1. CASE n \in 1..Len(a)
    BY <1>1, <1>2, <2>1
  <2>2. CASE \E m \in 1..c : n = Len(a) + m
    <3>1. PICK m \in 1..c : n = Len(a) + m
      BY <2>2
    <3>2. Expanded[n].from = <<Top.path, m>> /\ <<Top.path, m>> \in Entries
      BY <1>1, <3>1, EntriesAtEnd DEF c
    <3> QED BY <3>2
  <2> QED BY <1>3, <2>1, <2>2
<1>7. ASSUME NEW x \in Entries, x[1] = Top.path \/ Below(x[1], Top.path)
      PROVE  \E n \in 1..Len(Expanded) : Expanded[n].from = x
  <2>1. CASE x[1] = Top.path
    <3>1. x = <<Top.path, x[2]>> /\ x[2] \in 1..c
      BY <2>1, EntriesAtEnd, EntryParts DEF c
    <3> QED BY <1>1, <1>5, <3>1
  <2>2. CASE Below(x[1], Top.path)
    <3>1. Within(x[1], Top.path, 1..Top.k)
      BY <2>2, EntriesAtEnd
    <3>2. PICK n \in 1..Len(a) : a[n].from = x
      BY <3>1 DEF Covers, a
    <3> QED BY <1>1, <1>4, <3>2
  <2> QED BY <1>7, <2>1, <2>2
<1>8. ASSUME NEW n \in 1..Len(Expanded), NEW m \in 1..Len(Expanded), n < m
      PROVE  Precedes(Expanded[n].from, Expanded[m].from)
  <2>1. CASE n \in 1..Len(a) /\ m \in 1..Len(a)
    BY <1>1, <1>8, <2>1 DEF Covers, Ordered, a
  <2>2. CASE n \in 1..Len(a) /\ m \notin 1..Len(a)
    <3>1. PICK i \in 1..c : m = Len(a) + i
      BY <1>3, <2>2
    <3>2. Expanded[m].from = <<Top.path, i>> /\ Below(Expanded[n].from[1], Top.path)
      BY <1>1, <1>2, <2>2, <3>1
    <3> QED BY <3>2 DEF Precedes
  <2>3. CASE n \notin 1..Len(a)
    <3>1. PICK i \in 1..c : n = Len(a) + i
      BY <1>3, <2>3
    <3>2. m \notin 1..Len(a)
      BY <1>1, <1>8, <3>1
    <3>3. PICK l \in 1..c : m = Len(a) + l
      BY <1>3, <3>2
    <3>4. i < l
      BY <1>1, <1>8, <3>1, <3>3
    <3>5. Expanded[n].from = <<Top.path, i>> /\ Expanded[m].from = <<Top.path, l>>
      BY <1>1, <3>1, <3>3
    <3> QED BY <3>4, <3>5 DEF Precedes
  <2> QED BY <2>1, <2>2, <2>3
<1> QED BY <1>6, <1>7, <1>8 DEF Ordered

-----------------------------------------------------------------------------
(* Paths without a cycle *)

\* A path as long as there are files meets one twice, and so a cycle.
LEMMA LongPathsCycle ==
  ASSUME TypeOK, ~Endless(Root), NEW q \in Seq(Nat), NEW w \in Walks(q)
  PROVE  Len(q) < Cardinality(DOMAIN project)
<1> DEFINE D == DOMAIN project
           n == Len(q)
<1>1. IsFiniteSet(D) /\ Cardinality(D) \in Nat /\ n \in Nat
  <2>1. D \subseteq File
    BY DescriptorParts
  <2> QED BY <2>1, IncludeAssumption, FS_Subset, FS_CardinalityType
<1>2. /\ w \in [0..n -> D] /\ w[0] = Root
      /\ \A h \in 1..n : /\ q[h] \in 1..Len(project[w[h - 1]].includes)
                         /\ w[h] = project[w[h - 1]].includes[q[h]].file
  BY DEF Walks, Along
<1> HIDE DEF D, n
<1> SUFFICES ASSUME Cardinality(D) <= n
             PROVE  FALSE
  BY <1>1 DEF D, n
<1>3. IsFiniteSet(0..n) /\ Cardinality(0..n) = n + 1
  BY <1>1, FS_Interval
<1>4. \E x, y \in 0..n : x # y /\ w[x] = w[y]
  <2>1. Cardinality(D) < Cardinality(0..n)
    BY <1>1, <1>3
  <2>2. w \in [0..n -> D]
    BY <1>2
  <2> QED BY ONLY <1>1, <1>3, <2>1, <2>2, FS_PigeonHole
<1>5. PICK a \in 0..n, b \in 0..n : a < b /\ w[a] = w[b]
  BY <1>1, <1>4
<1> DEFINE T == {w[h] : h \in 0..b}
<1>6. T \subseteq D /\ Root \in T
  BY <1>1, <1>2, <1>5
<1>7. ASSUME NEW h \in 0..(b - 1)
      PROVE  \E i \in ToSet(project[w[h]].includes) : i.file \in T
  <2>1. h + 1 \in 1..n /\ h + 1 \in 0..b /\ h + 1 - 1 = h /\ h \in 0..n
    BY <1>1, <1>5
  <2>2. q[h + 1] \in 1..Len(project[w[h]].includes)
        /\ w[h + 1] = project[w[h]].includes[q[h + 1]].file
    BY <1>2, <2>1
  <2>3. w[h] \in DOMAIN project
    BY <1>2, <2>1 DEF D
  <2> DEFINE i == project[w[h]].includes[q[h + 1]]
  <2>4. i \in ToSet(project[w[h]].includes)
    BY <2>2, <2>3, DescriptorParts
  <2>5. i.file \in T
    BY <2>1, <2>2
  <2> HIDE DEF i, T
  <2> QED BY <2>4, <2>5
<1>8. ASSUME NEW h \in 0..b
      PROVE  \E i \in ToSet(project[w[h]].includes) : i.file \in T
  <2>1. CASE h \in 0..(b - 1)
    BY <1>7, <2>1
  <2>2. CASE h = b
    <3>1. a \in 0..(b - 1)
      BY <1>1, <1>5
    <3> HIDE DEF T
    <3> QED BY <1>5, <1>7, <2>2, <3>1
  <2> QED BY <1>1, <1>5, <2>1, <2>2
<1>9. \A f \in T : \E i \in ToSet(project[f].includes) : i.file \in T
  <2> SUFFICES ASSUME NEW h \in 0..b
               PROVE  \E i \in ToSet(project[w[h]].includes) : i.file \in T
    OBVIOUS
  <2> QED BY <1>8
<1> HIDE DEF T
<1> QED BY <1>6, <1>9 DEF Endless, D

\* So the paths of the property are all there are.
LEMMA PathsSuffice ==
  ASSUME TypeOK, ~Endless(Root)
  PROVE  UNION {Contents(path) : path \in Paths} = Entries
<1> DEFINE places == UNION {1..Len(project[f].includes) : f \in DOMAIN project}
           c == Cardinality(DOMAIN project)
<1>1. c \in Nat
  <2>1. DOMAIN project \subseteq File
    BY DescriptorParts
  <2> QED BY <2>1, IncludeAssumption, FS_Subset, FS_CardinalityType
<1>2. Paths = UNION {[1..n -> places] : n \in 0..(c - 1)}
  BY DEF Paths
<1>3. places \subseteq Nat
  OBVIOUS
<1>4. ASSUME NEW f \in DOMAIN project, NEW n \in 1..Len(project[f].includes)
      PROVE  n \in places
  OBVIOUS
<1> HIDE DEF places, c
<1>5. ASSUME NEW path \in Paths, NEW x \in Contents(path)
      PROVE  x \in Entries
  <2>1. path \in Seq(Nat)
    <3>1. PICK n \in 0..(c - 1) : path \in [1..n -> places]
      BY <1>2
    <3>2. n \in Nat
      BY <1>1
    <3>3. path \in [1..n -> Nat]
      BY ONLY <1>3, <3>1
    <3> QED BY ONLY <3>2, <3>3
  <2>2. PICK m \in UNION {1..Len(project[w[Len(path)]].objs) : w \in Walks(path)} : x = <<path, m>>
    BY DEF Contents
  <2> QED BY <2>1, <2>2, EntryMade
<1>6. ASSUME NEW x \in Entries
      PROVE  x[1] \in Paths /\ x \in Contents(x[1])
  <2> DEFINE q == x[1]
  <2>1. PICK w \in Walks(q) : TRUE
    BY EntryParts
  <2>2. q \in Seq(Nat)
    BY EntryParts
  <2> HIDE DEF q
  <2>3. Len(q) \in 0..(c - 1)
    BY <1>1, <2>1, <2>2, LongPathsCycle DEF c
  <2>4. \A h \in 1..Len(q) : q[h] \in places
    <3> TAKE h \in 1..Len(q)
    <3>0. h - 1 \in 0..Len(q)
      BY <2>2
    <3>1. w[h - 1] \in DOMAIN project /\ q[h] \in 1..Len(project[w[h - 1]].includes)
      BY <3>0 DEF Walks, Along
    <3> QED BY <1>4, <3>1
  <2>5. q \in [1..Len(q) -> places]
    BY <2>2, <2>4
  <2>6. q \in Paths
    BY <1>2, <2>3, <2>5
  <2> QED BY <2>6 DEF Entries, q
<1> QED BY <1>5, <1>6

-----------------------------------------------------------------------------
(* Nothing is lost on the way *)

\* How many includes of the load j have brought what is beneath them.
Brought(j) ==
  IF j = Len(stack) /\ outcome # "instantiating" THEN stack[j].k ELSE stack[j].k - 1

\* Every load holds just that, and a block all that its include leads to.
Gathered ==
  outcome \in {"expanding", "instantiating"} =>
    /\ \A j \in 1..Len(stack) :
         Covers(Entries, stack[j].objs, stack[j].path, 1..Brought(j))
    /\ outcome = "instantiating" => Covers(Entries, block.objs, Top.path, {Top.k})

LEMMA EntriesKept == project' = project => Entries' = Entries
  BY DEF Entries, Contents, Walks, Along

LEMMA GatheredEnter ==
  ASSUME Routed, Gathered, EnterInclude
  PROVE  Gathered'
<1> DEFINE L == Len(stack)
<1>1. UNCHANGED <<project, outcome>> /\ outcome = "expanding"
  BY DEF EnterInclude, AtInclude
<1>2. /\ L \in Nat \ {0} /\ Len(stack') = L + 1
      /\ \A j \in 1..(L - 1) : stack'[j] = stack[j]
      /\ stack'[L].path = Top.path /\ stack'[L].k = Top.k + 1 /\ stack'[L].objs = Top.objs
      /\ stack'[L + 1].k = 0 /\ stack'[L + 1].objs = << >>
  BY EnterFields DEF Routed
<1>3. Top.k \in Nat /\ Top = stack[L] /\ L \in 1..L
  BY <1>2, ComingTyped DEF EnterInclude, Routed, Top
<1>4. ASSUME NEW j \in 1..(L + 1)
      PROVE  Covers(Entries, stack'[j].objs, stack'[j].path, 1..Brought(j)')
  <2>1. CASE j \in 1..(L - 1)
    <3>1. Brought(j)' = Brought(j) /\ j \in 1..L
      BY <1>2, <2>1 DEF Brought
    <3> QED BY <1>1, <1>2, <2>1, <3>1 DEF Gathered
  <2>2. CASE j = L
    <3>1. Brought(j) = Top.k
      BY <1>1, <1>3, <2>2 DEF Brought
    <3>2. j # Len(stack') /\ stack'[j].k - 1 = Top.k
      BY <1>2, <1>3, <2>2
    <3>3. Brought(j)' = Top.k
      BY <3>2 DEF Brought
    <3> QED BY <1>1, <1>2, <1>3, <2>2, <3>1, <3>3 DEF Gathered
  <2>3. CASE j = L + 1
    <3>1. Brought(j)' = 0
      BY <1>1, <1>2, <2>3 DEF Brought
    <3> QED BY <1>2, <2>3, <3>1, CoversNothing
  <2> QED BY <1>2, <2>1, <2>2, <2>3
<1>5. Entries' = Entries
  BY <1>1, EntriesKept
<1> QED BY <1>1, <1>2, <1>4, <1>5 DEF Gathered

\* What an include leads to is the file it enters and all that is beneath.
LEMMA GatheredFinish ==
  ASSUME Routed, Gathered, FinishBlock
  PROVE  Gathered'
<1> DEFINE L == Len(stack)
           under == stack[L - 1]
<1>1. /\ project' = project /\ outcome' = "instantiating" /\ AtEnd /\ outcome = "expanding"
      /\ block'.objs = Expanded
  BY DEF FinishBlock, AtEnd
<1>2. /\ L \in Nat /\ L > 1 /\ Len(stack') = L - 1
      /\ \A j \in 1..(L - 1) : stack'[j] = stack[j]
  BY FinishStack, TopTyped DEF Routed
<1>3. L - 1 \in 1..L /\ L \in 1..L /\ L - 1 \in 1..(L - 1) /\ L - 1 # L
  BY <1>2
<1>4. Top = stack[L] /\ Top' = under
  BY <1>2, <1>3 DEF Top
<1>5. \A j \in 1..(L - 1) : Brought(j)' = Brought(j) /\ j \in 1..L
  BY <1>1, <1>2 DEF Brought
<1>6. \A j \in 1..(L - 1) : Covers(Entries, stack[j].objs, stack[j].path, 1..Brought(j))
  BY <1>1, <1>5 DEF Gathered
<1>7. /\ under.path \in Seq(Nat) /\ Len(under.path) = L - 2 /\ under.k \in Nat
      /\ \A h \in 1..(L - 2) : under.path[h] = stack[h].k
  <2>1. (L - 1) - 1 = L - 2
    BY <1>2
  <2>2. /\ under.path \in Seq(Nat) /\ Len(under.path) = (L - 1) - 1
        /\ \A h \in 1..((L - 1) - 1) : under.path[h] = stack[h].k
    BY <1>3, PathLength
  <2>3. under.k \in Nat
    BY <1>3, FrameFields DEF Routed
  <2> QED BY <2>1, <2>2, <2>3
<1>8. /\ Top.path \in Seq(Nat) /\ Len(Top.path) = L - 1 /\ Top.path[L - 1] = under.k
      /\ \A h \in 1..(L - 2) : Top.path[h] = under.path[h]
  <2>1. /\ Top.path \in Seq(Nat) /\ Len(Top.path) = L - 1
        /\ \A h \in 1..(L - 1) : Top.path[h] = stack[h].k
    BY <1>3, <1>4, PathLength
  <2> QED BY <1>2, <1>3, <1>7, <2>1
<1> HIDE DEF under
<1>9. ASSUME NEW q \in Seq(Nat)
      PROVE  Within(q, under.path, {under.k}) <=> q = Top.path \/ Below(q, Top.path)
  <2>0. Len(q) \in Nat /\ q = [h \in 1..Len(q) |-> q[h]]
        /\ Top.path = [h \in 1..(L - 1) |-> Top.path[h]]
    <3>1. \A p \in Seq(Nat) : Len(p) \in Nat /\ p = [h \in 1..Len(p) |-> p[h]]
      OBVIOUS
    <3>2. Top.path = [h \in 1..Len(Top.path) |-> Top.path[h]]
      BY <1>8, <3>1
    <3>3. Len(Top.path) = L - 1
      BY <1>8
    <3> QED BY <3>1, <3>2, <3>3
  <2>1. Within(q, under.path, {under.k}) <=>
          Len(q) >= L - 1 /\ \A h \in 1..(L - 1) : q[h] = Top.path[h]
    <3>1. \A h \in 1..(L - 1) : h = L - 1 \/ h \in 1..(L - 2)
      BY <1>2
    <3>2. L - 2 + 1 = L - 1 /\ (Len(q) > L - 2 <=> Len(q) >= L - 1)
      BY <1>2, <2>0
    <3>3. Within(q, under.path, {under.k}) <=>
            /\ Len(q) > L - 2 /\ \A h \in 1..(L - 2) : q[h] = Top.path[h]
            /\ q[L - 1] = Top.path[L - 1]
      BY <1>7, <1>8, <3>2 DEF Within, Below
    <3>4. \A h \in 1..(L - 2) : h \in 1..(L - 1)
      BY <1>2
    <3> HIDE DEF L
    <3> QED BY <1>3, <3>1, <3>2, <3>3, <3>4
  <2>2. Len(q) = L - 1 /\ (\A h \in 1..(L - 1) : q[h] = Top.path[h]) => q = Top.path
    BY <2>0
  <2>3. q = Top.path => Len(q) = L - 1
    BY <1>8
  <2> QED BY <1>2, <1>8, <2>0, <2>1, <2>2, <2>3 DEF Below
<1>10. Covers(Entries, Top.objs, Top.path, 1..Top.k)
  BY <1>1, <1>3, <1>4 DEF Gathered, Brought
<1>11. Covers(Entries, Expanded, under.path, {under.k})
  <2>1. \A x \in Entries : x[1] \in Seq(Nat)
    BY EntryParts
  <2> QED BY <1>1, <1>9, <1>10, <2>1, EndCovers DEF Covers
<1>12. Entries' = Entries
  BY <1>1, EntriesKept
<1>13. \A j \in 1..Len(stack') : Covers(Entries', stack'[j].objs, stack'[j].path, 1..Brought(j)')
  BY <1>2, <1>5, <1>6, <1>12
<1>14. Covers(Entries', block'.objs, Top'.path, {Top'.k})
  BY <1>1, <1>4, <1>11, <1>12
<1> QED BY <1>13, <1>14 DEF Gathered

LEMMA GatheredInstantiate ==
  ASSUME Routed, Gathered, Instantiate
  PROVE  Gathered'
<1> DEFINE L == Len(stack)
<1>1. project' = project /\ outcome' = "expanding" /\ outcome = "instantiating"
  BY DEF Instantiate
<1>2. /\ L \in Nat \ {0} /\ Len(stack') = L
      /\ \A j \in 1..(L - 1) : stack'[j] = stack[j]
      /\ stack'[L].path = Top.path /\ stack'[L].k = Top.k
      /\ stack'[L].objs = Top.objs \o Renamed
  BY InstantiateFields DEF Routed
<1>3. L \in 1..L /\ Top = stack[L]
  BY <1>2 DEF Top
<1>4. Instantiating
  BY <1>1 DEF Instantiating, Routed, Route
<1>5. /\ Top.k \in Nat \ {0} /\ Top.path \in Seq(Nat) /\ Top.objs \in Seq(Object)
  <2>1. TypeOK /\ Top.k > 0
    BY <1>4 DEF Instantiating
  <2>2. Frame(Top) /\ Top.file \in DOMAIN project
    BY <2>1, TopTyped
  <2>3. /\ Top.path \in Seq(Nat) /\ Top.objs \in Seq(Object)
        /\ Top.k \in 0..Len(project[Top.file].includes)
    BY <2>2, FrameParts
  <2>4. Len(project[Top.file].includes) \in Nat
    BY <2>1, <2>2, DescriptorParts
  <2> QED BY ONLY <2>1, <2>3, <2>4
<1>6. Covers(Entries, Renamed, Top.path, {Top.k}) /\ Renamed \in Seq(Object)
  BY <1>1, <1>4, RenamedTyped, CoversSame DEF Gathered
<1>7. Covers(Entries, Top.objs, Top.path, 1..(Top.k - 1))
  <2>1. Brought(L) = Top.k - 1
    BY <1>1, <1>3 DEF Brought
  <2> QED BY <1>1, <1>3, <2>1 DEF Gathered
<1>8. Covers(Entries, Top.objs \o Renamed, Top.path, 1..Top.k)
  <2>1. Entries \in SUBSET (Seq(Nat) \X Nat)
    BY DEF Entries
  <2> QED BY <1>5, <1>6, <1>7, <2>1, CoversMore
<1>9. ASSUME NEW j \in 1..L
      PROVE  Covers(Entries, stack'[j].objs, stack'[j].path, 1..Brought(j)')
  <2>1. CASE j \in 1..(L - 1)
    <3>1. Brought(j)' = Brought(j)
      BY <1>2, <2>1 DEF Brought
    <3> QED BY <1>1, <1>2, <2>1, <3>1 DEF Gathered
  <2>2. CASE j = L
    <3>1. Brought(j)' = Top.k
      BY <1>1, <1>2, <2>2 DEF Brought
    <3> QED BY <1>2, <1>8, <2>2, <3>1
  <2> QED BY <1>2, <2>1, <2>2
<1>10. Entries' = Entries
  BY <1>1, EntriesKept
<1> QED BY <1>1, <1>2, <1>9, <1>10 DEF Gathered

LEMMA RootIsWhole ==
  ASSUME CycleInv, Gathered, FinishRoot
  PROVE  ResultIsWhole'
<1> USE DEF CycleInv, Routed
<1>1. /\ project' = project /\ AtEnd /\ outcome = "expanding" /\ Len(stack) = 1
      /\ outcome' = "done" /\ result' = Expanded
  BY DEF FinishRoot, AtEnd
<1>2. Top = stack[1] /\ Top.path = << >>
  <2>1. stack[1].path \in Seq(Nat) /\ Len(stack[1].path) = 0
    BY <1>1, PathLength
  <2> QED BY <1>1, <2>1 DEF Top
<1>3. ~Endless(Root)
  BY <1>1, <1>2, TopEnds DEF Route
<1>4. CyclesRefused'
  BY <1>1, <1>3 DEF CyclesRefused, Endless
<1>5. Covers(Entries, Top.objs, Top.path, 1..Top.k)
  BY <1>1, <1>2 DEF Gathered, Brought
<1>6. \A q \in Seq(Nat) : q = << >> \/ Below(q, << >>)
  BY DEF Below
<1>7. \A x \in Entries : x[1] = Top.path \/ Below(x[1], Top.path)
  BY <1>2, <1>6, EntryParts
<1>8. /\ \A n \in 1..Len(Expanded) : Expanded[n].from \in Entries
      /\ \A x \in Entries : \E n \in 1..Len(Expanded) : Expanded[n].from = x
      /\ Ordered(Expanded)
  BY <1>1, <1>5, <1>7, EndCovers
<1>9. ToSet(Expanded) = {Expanded[n] : n \in 1..Len(Expanded)}
  <2>1. Expanded \in Seq(Object)
    BY ExpandedTyped
  <2>2. DOMAIN Expanded = 1..Len(Expanded)
    BY ONLY <2>1
  <2> QED BY <2>2 DEF ToSet
<1>10. {x.from : x \in ToSet(Expanded)} = Entries
  BY <1>8, <1>9
<1>11. {x.from : x \in ToSet(Expanded)} = UNION {Contents(path) : path \in Paths}
  BY <1>3, <1>10, PathsSuffice
<1>12. {x.from : x \in ToSet(result')} = UNION {Contents(path) : path \in Paths}'
  <2>1. (UNION {Contents(path) : path \in Paths})' = UNION {Contents(path) : path \in Paths}
    BY <1>1 DEF Paths, Contents, Walks, Along
  <2>2. result' = Expanded
    BY <1>1
  <2> QED BY ONLY <1>11, <2>1, <2>2
<1>13. \A n, m \in 1..Len(result') : n < m => Precedes(result'[n].from, result'[m].from)
  BY <1>1, <1>8 DEF Ordered
<1> QED BY <1>1, <1>4, <1>12, <1>13 DEF ResultIsWhole

LEMMA StaysWhole ==
  ASSUME ResultIsWhole, CyclesRefused', UNCHANGED <<project, result>>,
         outcome' = "done" => outcome = "done"
  PROVE  ResultIsWhole'
<1>1. (UNION {Contents(path) : path \in Paths})' = UNION {Contents(path) : path \in Paths}
  BY DEF Paths, Contents, Walks, Along
<1> QED BY <1>1 DEF ResultIsWhole

WholeInv == CycleInv /\ Gathered /\ ResultIsWhole

LEMMA WholeInvStep == WholeInv /\ [Next]_vars => WholeInv'
<1> SUFFICES ASSUME WholeInv, [Next]_vars
             PROVE  Gathered' /\ ResultIsWhole'
  BY CycleInvStep DEF WholeInv
<1> USE DEF WholeInv
<1>1. CyclesRefused'
  BY CycleInvStep DEF CycleInv
<1>2. Routed
  BY DEF CycleInv
<1>3. CASE UNCHANGED vars
  <2>1. Gathered'
    BY <1>3, EntriesKept DEF vars, Gathered, Brought, Top
  <2> QED BY <1>1, <1>3, <2>1, StaysWhole DEF vars
<1>4. CASE EnterInclude
  BY <1>1, <1>2, <1>4, GatheredEnter, StaysWhole DEF EnterInclude
<1>5. CASE FinishBlock
  BY <1>1, <1>2, <1>5, GatheredFinish, StaysWhole DEF FinishBlock
<1>6. CASE Instantiate
  BY <1>1, <1>2, <1>6, GatheredInstantiate, StaysWhole DEF Instantiate
<1>7. ASSUME NEW why \in {"cycle", "raised"}, Raise(why)
      PROVE  Gathered' /\ ResultIsWhole'
  BY <1>1, <1>7, StaysWhole DEF Raise, Gathered
<1>8. CASE IncludeRefused \/ CycleDetected \/ FinishFails \/ BlockRejected
  BY <1>7, <1>8 DEF IncludeRefused, CycleDetected, FinishFails, BlockRejected
<1>9. CASE FinishRoot
  BY <1>9, RootIsWhole DEF Gathered, FinishRoot
<1> QED BY <1>3, <1>4, <1>5, <1>6, <1>8, <1>9 DEF Next

\* Whatever files include each other, and however often: expansion refuses as a cycle
\* only what leads to one and expands nothing that does, and its result has every entry
\* of every inclusion once, after those it includes (_expand_single_descriptor_includes).
THEOREM NothingLost == Spec => []ResultIsWhole
<1>1. Init => WholeInv
  <2> SUFFICES ASSUME Init
               PROVE  Gathered /\ ResultIsWhole
    BY CycleInvInit DEF WholeInv
  <2>1. /\ Len(stack) = 1 /\ stack[1].objs = << >> /\ stack[1].k = 0 /\ outcome = "expanding"
    BY DEF Init, NewFrame
  <2>2. Gathered
    BY <2>1, CoversNothing DEF Gathered, Brought
  <2>3. ResultIsWhole
    BY <2>1, CycleInvInit DEF CycleInv, ResultIsWhole
  <2> QED BY <2>2, <2>3
<1>2. WholeInv /\ [Next]_vars => WholeInv'
  BY WholeInvStep
<1>3. WholeInv => ResultIsWhole
  BY DEF WholeInv
<1> QED BY <1>1, <1>2, <1>3, PTL DEF Spec

=============================================================================
