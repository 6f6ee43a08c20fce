--------------------------- MODULE IncludeExpansion ---------------------------
(***************************************************************************)
(* Expansion of the includes of a descriptor (descriptor/support/vars.py): *)
(* a file includes blocks, which are files that may include blocks again.  *)
(* A block is expanded first, then its inputs are bound, its objects       *)
(* renamed, and its outputs offered to the file that includes it.          *)
(*                                                                         *)
(* The code renames by replacing strings.  A string that matters is a      *)
(* Text here: the id of an object, the token @INPUTS.x or the token        *)
(* @include.output.  An id is a sequence of atoms, so that joining two     *)
(* with "__" is concatenation and two ids can collide as in the code.  The *)
(* three sections of a descriptor are treated alike and are one list; the  *)
(* data of its entries other than id and references is left out.           *)
(***************************************************************************)
EXTENDS Integers, Sequences, SequencesExt, FiniteSets

CONSTANTS
  File, Root,  \* the files, and the one that is loaded
  Atom,        \* what ids are made of
  BadId,       \* ids that _INCLUDE_ID_PATTERN does not match
  Projects,    \* what the files may hold
  MaxDepth,    \* bound on nested loads, more than there are files
  None

Name == Seq(Atom)
Text == [kind : {"id", "in", "out"}, inc : Name, name : Name]
Id(n)     == [kind |-> "id", inc |-> << >>, name |-> n]
In(x)     == [kind |-> "in", inc |-> << >>, name |-> x]    \* @INPUTS.x
Out(i, o) == [kind |-> "out", inc |-> i, name |-> o]       \* @i.o

Entry  == [id : Name, refs : Seq(Text)]
\* from: the includes that lead to the entry, each by its place, and its own place.
Object == [id : Name, refs : Seq(Text), from : Seq(Nat) \X Nat]

\* f gives some of the keys a text: inputs, outputs, replacements.
Binding(f, Key) ==
  /\ f = [x \in DOMAIN f |-> f[x]]
  /\ DOMAIN f \subseteq Key
  /\ \A x \in DOMAIN f : f[x] \in Text
Include(i) ==
  /\ i = [id |-> i.id, file |-> i.file, inputs |-> i.inputs]
  /\ i.id \in Name /\ i.file \in File /\ Binding(i.inputs, Name)
Descriptor(d) ==
  /\ d = [includes |-> d.includes, inputs |-> d.inputs, outputs |-> d.outputs, objs |-> d.objs]
  /\ d.includes \in Seq(ToSet(d.includes)) /\ \A i \in ToSet(d.includes) : Include(i)
  /\ \A x \in d.inputs : x \in Name
  /\ Binding(d.outputs, Name) /\ d.objs \in Seq(Entry)

\* A file that is absent or cannot be loaded is in no project's domain.
Project(p) ==
  /\ p = [f \in DOMAIN p |-> p[f]] /\ Root \in DOMAIN p /\ DOMAIN p \subseteq File
  /\ \A f \in DOMAIN p : Descriptor(p[f])

ASSUME IncludeAssumption ==
  /\ Root \in File /\ BadId \subseteq Name
  /\ \A p \in Projects : Project(p)
  /\ MaxDepth \in Nat /\ IsFiniteSet(File) /\ Cardinality(File) < MaxDepth

VARIABLES
  project,  \* the files
  stack,    \* the loads in progress, innermost last
  block,    \* a block just expanded, while it is instantiated, or None
  outcome,  \* "expanding", "instantiating", "done", "cycle" or "raised"
  result    \* the objects of the expanded descriptor

vars == <<project, stack, block, outcome, result>>

\* k: the includes entered; objs: what they brought; outs: output_refs.
Frame(f) ==
  /\ f = [file |-> f.file, path |-> f.path, k |-> f.k, objs |-> f.objs, outs |-> f.outs]
  /\ f.file \in DOMAIN project /\ f.path \in Seq(Nat)
  /\ f.k \in 0..Len(project[f.file].includes)
  /\ f.objs \in Seq(Object) /\ Binding(f.outs, Text)
Block(b) ==
  /\ b = [inputs |-> b.inputs, outputs |-> b.outputs, objs |-> b.objs]
  /\ \A x \in b.inputs : x \in Name
  /\ Binding(b.outputs, Name) /\ b.objs \in Seq(Object)
NewFrame(file, path) ==
  [file |-> file, path |-> path, k |-> 0, objs |-> << >>, outs |-> << >>]

Init ==
  /\ project \in Projects
  /\ stack = <<NewFrame(Root, << >>)>>
  /\ block = None /\ outcome = "expanding" /\ result = << >>

Top     == stack[Len(stack)]
Content == project[Top.file]
Raise(why) == outcome' = why /\ UNCHANGED <<project, stack, block, result>>

\* _substitute_exact_strings, on one string and on the references of objects.
Sub(map, t) == IF t \in DOMAIN map THEN map[t] ELSE t
SubRefs(map, objs) ==
  [n \in 1..Len(objs) |-> [objs[n] EXCEPT
     !.refs = [r \in 1..Len(objs[n].refs) |-> Sub(map, objs[n].refs[r])]]]

\* dict.update: f, and g where f has nothing.
Over(f, g) == [x \in DOMAIN f \cup DOMAIN g |-> IF x \in DOMAIN f THEN f[x] ELSE g[x]]

RefsOf(objs) == UNION {ToSet(objs[n].refs) : n \in 1..Len(objs)}
Duplicate(objs) == \E n, m \in 1..Len(objs) : n # m /\ objs[n].id = objs[m].id

-----------------------------------------------------------------------------
(* Entering an include *)

AtInclude == outcome = "expanding" /\ Top.k < Len(Content.includes)
Coming == Content.includes[Top.k + 1]
Bound(include) ==
  [x \in DOMAIN include.inputs |-> Sub(Top.outs, include.inputs[x])]

Refused(include) ==
  \/ include.file \notin DOMAIN project
  \/ \E j \in 1..Top.k : Content.includes[j].id = include.id
  \/ \E x \in DOMAIN include.inputs : Bound(include)[x].kind = "out"

\* Mutant: nothing is on the stack.
OnStackNever(file) == FALSE
OnStack(file) == \E j \in 1..Len(stack) : stack[j].file = file

EnterInclude ==
  /\ AtInclude /\ ~Refused(Coming) /\ ~OnStack(Coming.file)
  /\ Len(stack) < MaxDepth
  /\ stack' = Append([stack EXCEPT ![Len(stack)].k = Top.k + 1],
                     NewFrame(Coming.file, Append(Top.path, Top.k + 1)))
  /\ UNCHANGED <<project, block, outcome, result>>

IncludeRefused == AtInclude /\ Refused(Coming) /\ Raise("raised")

CycleDetected == AtInclude /\ ~Refused(Coming) /\ OnStack(Coming.file) /\ Raise("cycle")

-----------------------------------------------------------------------------
(* The end of a file *)

AtEnd == outcome = "expanding" /\ Top.k = Len(Content.includes)

Own == [n \in 1..Len(Content.objs) |->
          [id |-> Content.objs[n].id, refs |-> Content.objs[n].refs, from |-> <<Top.path, n>>]]
Expanded == SubRefs(Top.outs, Top.objs \o Own)
Outputs  == [o \in DOMAIN Content.outputs |-> Sub(Top.outs, Content.outputs[o])]

\* Only a file with includes is searched for tokens that are left.
Unsound ==
  \/ /\ Content.includes # << >>
     /\ \/ \E t \in RefsOf(Expanded) : t.kind = "out"
        \/ \E o \in DOMAIN Outputs : Outputs[o].kind = "out"
  \/ Duplicate(Expanded)

FinishBlock ==
  /\ AtEnd /\ ~Unsound /\ Len(stack) > 1
  /\ block' = [inputs |-> Content.inputs, outputs |-> Outputs, objs |-> Expanded]
  /\ stack' = Front(stack)
  /\ outcome' = "instantiating"
  /\ UNCHANGED <<project, result>>

FinishRoot ==
  /\ AtEnd /\ ~Unsound /\ Len(stack) = 1
  /\ result' = Expanded
  /\ outcome' = "done"
  /\ UNCHANGED <<project, stack, block>>

FinishFails == AtEnd /\ Unsound /\ Raise("raised")

-----------------------------------------------------------------------------
(* _instantiate_include_block *)

Included == Content.includes[Top.k]
InputMap == LET given == Bound(Included) IN
  [t \in {In(x) : x \in DOMAIN given} |-> given[t.name]]
Bind     == SubRefs(InputMap, block.objs)
Ids      == {block.objs[n].id : n \in 1..Len(block.objs)}
Resolved == [o \in DOMAIN block.outputs |-> Sub(InputMap, block.outputs[o])]

\* The outputs that export the object n, and its name in the including file.
\* Mutant: an exported object is namespaced as any other.
Exporting(n) == {o \in DOMAIN Resolved : Resolved[o] = Id(n)}
PublicNever(n) == Included.id \o n
Public(n) == IF Exporting(n) # {} THEN CHOOSE o \in Exporting(n) : TRUE
             ELSE Included.id \o n
IdMap == [t \in {Id(n) : n \in Ids} |-> Id(Public(t.name))]
Renamed == LET objs == SubRefs(IdMap, Bind) IN
  [n \in 1..Len(objs) |-> [objs[n] EXCEPT !.id = Public(objs[n].id)]]
Exports == [t \in {Out(Included.id, o) : o \in DOMAIN Resolved} |->
  IF \E n \in Ids : Resolved[t.name] = Id(n) THEN Id(t.name) ELSE Resolved[t.name]]

Rejected ==
  \/ Included.id \in BadId
  \/ DOMAIN Included.inputs # block.inputs
  \/ \E t \in RefsOf(Bind) : t.kind # "id"
  \/ \E o \in DOMAIN Resolved : Resolved[o].kind = "out"
  \/ \E n \in Ids : Cardinality(Exporting(n)) > 1
  \/ Duplicate(Renamed)

\* Mutant: what earlier includes brought is lost.
InstantiateAlone ==
  /\ outcome = "instantiating" /\ ~Rejected
  /\ stack' = [stack EXCEPT ![Len(stack)] =
                 [Top EXCEPT !.objs = Renamed, !.outs = Over(Exports, Top.outs)]]
  /\ block' = None /\ outcome' = "expanding"
  /\ UNCHANGED <<project, result>>
Instantiate ==
  /\ outcome = "instantiating" /\ ~Rejected
  /\ stack' = [stack EXCEPT ![Len(stack)] =
                 [Top EXCEPT !.objs = Top.objs \o Renamed, !.outs = Over(Exports, Top.outs)]]
  /\ block' = None /\ outcome' = "expanding"
  /\ UNCHANGED <<project, result>>

BlockRejected == outcome = "instantiating" /\ Rejected /\ Raise("raised")

Next ==
  \/ EnterInclude \/ IncludeRefused \/ CycleDetected
  \/ FinishBlock \/ FinishRoot \/ FinishFails
  \/ Instantiate \/ BlockRejected

\* Expansion is one call; it goes on until it returns or raises.
Spec == Init /\ [][Next]_vars /\ WF_vars(Next)

-----------------------------------------------------------------------------
(* Properties; IncludeScopes says what a reference should reach. *)

\* Every variable has its type, and no file is loaded inside itself.
TypeOK ==
  /\ project \in Projects
  /\ stack \in Seq(ToSet(stack)) /\ stack # << >>
  /\ \A j \in 1..Len(stack) : Frame(stack[j])
  /\ \A j, k \in 1..Len(stack) : stack[j].file = stack[k].file => j = k
  /\ outcome = "instantiating" => Block(block)
  /\ outcome \in {"expanding", "instantiating", "done", "cycle", "raised"}
  /\ result \in Seq(Object)

\* The file lies on a cycle of includes, or includes lead from it to one.
Endless(file) ==
  \E T \in SUBSET DOMAIN project :
    /\ file \in T
    /\ \A f \in T : \E i \in ToSet(project[f].includes) : i.file \in T

\* Includes are refused as a cycle only if they lead to one, and no such file is
\* ever expanded, wherever in it the cycle is.
CyclesRefused ==
  /\ outcome = "cycle" => Endless(Root)
  /\ outcome = "done" => ~Endless(Root)

\* The files that the includes of a path lead through.
Along(walk, path) ==
  /\ walk[0] = Root
  /\ \A j \in 1..Len(path) :
       /\ path[j] \in 1..Len(project[walk[j - 1]].includes)
       /\ walk[j] = project[walk[j - 1]].includes[path[j]].file
Walks(path) == {w \in [0..Len(path) -> DOMAIN project] : Along(w, path)}
Contents(path) == {<<path, n>> : n \in UNION {1..Len(project[w[Len(path)]].objs) : w \in Walks(path)}}

\* What an include brings comes before the objects of the file that includes it, and
\* otherwise all is in the order in which it is written.
Below(p, q) == Len(p) > Len(q) /\ \A h \in 1..Len(q) : p[h] = q[h]
Precedes(x, y) ==
  \/ x[1] = y[1] /\ x[2] < y[2]
  \/ Below(x[1], y[1])
  \/ \E j \in 1..Len(x[1]) :
       /\ j <= Len(y[1]) /\ x[1][j] < y[1][j]
       /\ \A h \in 1..(j - 1) : x[1][h] = y[1][h]

\* Without a cycle no path is as long as there are files.
Paths == LET places == UNION {1..Len(project[f].includes) : f \in DOMAIN project} IN
  UNION {[1..n -> places] : n \in 0..(Cardinality(DOMAIN project) - 1)}

\* An expansion that is done has met no cycle and holds every entry of every inclusion
\* of a file once, nothing else, and in order, whatever was renamed on the way.
ResultIsWhole ==
  /\ CyclesRefused
  /\ outcome = "done" =>
       /\ {x.from : x \in ToSet(result)} = UNION {Contents(path) : path \in Paths}
       /\ \A n, m \in 1..Len(result) : n < m => Precedes(result[n].from, result[m].from)

\* Expansion ends, whatever includes what.
ExpansionEnds == <>(outcome \in {"done", "cycle", "raised"})
=============================================================================
