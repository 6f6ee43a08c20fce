----------------------------- MODULE IncludeScopes -----------------------------
(***************************************************************************)
(* What the references of a descriptor mean, said without renaming: every  *)
(* inclusion of a file is a scope, given by the includes that lead to it,  *)
(* each by its place.  A reference is looked up in the scope where it is written, then    *)
(* outwards; @INPUTS.x is what the including scope gives for x, and        *)
(* @i.o what the scope of include i exports as o.  Expansion has to agree. *)
(***************************************************************************)
EXTENDS IncludeExpansion

RECURSIVE FileAt(_), Visible(_), Inside(_, _), Escape(_, _), Meaning(_, _)

\* The include that leads to a scope, and its file.
EntryAt(path) == project[FileAt(Front(path))].includes[Last(path)]
FileAt(path) == IF path = << >> THEN Root ELSE EntryAt(path).file
At(path) == project[FileAt(path)]
Scopes(path) == {Append(path, i) : i \in 1..Len(At(path).includes)}
Named(path, id) == {p \in Scopes(path) : EntryAt(p).id = id}

\* The objects a scope can name: its own, and those of its includes, by an output
\* that exports them or under the id of the include.
Visible(path) ==
  {[name |-> At(path).objs[n].id, from |-> <<path, n>>] : n \in 1..Len(At(path).objs)}
  \cup UNION {{[from |-> v.from,
               name |-> LET outs == {o \in DOMAIN At(p).outputs :
                                       Inside(p, At(p).outputs[o]) = v.from} IN
                        IF outs # {} THEN CHOOSE o \in outs : TRUE ELSE EntryAt(p).id \o v.name]
               : v \in Visible(p)} : p \in Scopes(path)}

\* The object of the scope, or of its includes, that a text reaches, or None.
Inside(path, t) ==
  CASE t.kind = "id" ->
         IF \E v \in Visible(path) : v.name = t.name
         THEN (CHOOSE v \in Visible(path) : v.name = t.name).from ELSE None
    [] t.kind = "in" -> None
    [] t.kind = "out" ->
         LET ps == {p \in Named(path, t.inc) : t.name \in DOMAIN At(p).outputs}
             p  == CHOOSE q \in ps : TRUE
         IN IF ps = {} THEN None
            ELSE IF Inside(p, At(p).outputs[t.name]) # None
                 THEN Inside(p, At(p).outputs[t.name])
                 ELSE Inside(path, Escape(p, At(p).outputs[t.name]))

\* What a text that reaches nothing inside a scope stands for outside it.
Escape(path, t) ==
  CASE t.kind = "id" -> t
    [] t.kind = "in" -> EntryAt(path).inputs[t.name]
    [] t.kind = "out" ->
         LET p == CHOOSE q \in Named(path, t.inc) : TRUE
         IN Escape(path, Escape(p, At(p).outputs[t.name]))

Meaning(path, t) ==
  IF Inside(path, t) # None THEN Inside(path, t)
  ELSE IF path = << >> THEN None
  ELSE Meaning(Front(path), Escape(path, t))

-----------------------------------------------------------------------------
(* Properties *)

\* The references of object x that are written so that Written holds reach, in the
\* result, exactly the object they mean where they are written.
Reaches(x, Written(_)) ==
  LET path == x.from[1]
      refs == At(path).objs[x.from[2]].refs
  IN \A r \in 1..Len(refs) :
       Written(refs[r]) =>
         {y.from : y \in {z \in ToSet(result) : Id(z.id) = x.refs[r]}}
           = {Meaning(path, refs[r])} \ {None}

\* Replacing strings block by block amounts to scoping: no object is confused with
\* another, whatever is nested, exported, passed on or free.
ReferencesReach == outcome = "done" => \A x \in ToSet(result) : Reaches(x, LAMBDA t : TRUE)

\* An input of a block binds an object of the including descriptor, as the test
\* test_include_block_inputs_bind_outer_objects has it.
InputsBindOuter ==
  outcome = "done" => \A x \in ToSet(result) : Reaches(x, LAMBDA t : t.kind = "in")
=============================================================================
