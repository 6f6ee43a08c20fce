-------------------------- MODULE InstanceAutomation --------------------------
(***************************************************************************)
(* How a descriptor's objects get their instance numbers, and how the      *)
(* numbered entries become objects (descriptor/definitions/objects.py,     *)
(* descriptor/client.py).                                                  *)
(*                                                                         *)
(* prepare_spec_instances walks the four lists of a spec, each with a      *)
(* fresh dictionary of counters, and writes the missing "instance" keys in *)
(* place.  decode_objects (the two generators) then builds every object    *)
(* and raises at the first bad entry; load_client_descriptor (the runtime  *)
(* tools) skips bad entries and never looks at the system list.  Both read *)
(* the numbers the walk wrote, so a device image and the client that talks *)
(* to it agree exactly when the walk does.                                 *)
(*                                                                         *)
(* An entry is abstracted to its type, its instance value and one flaw     *)
(* that stands for the other reasons from_spec has to refuse it.           *)
(***************************************************************************)
EXTENDS Integers, Sequences

CONSTANTS
  SectionOrder,   \* the lists of a spec, in the order they are walked
  ClientSections, \* those load_client_descriptor decodes
  TaggedSections, \* those whose tag errors the client surfaces (ios)
  Type,           \* values of the "type" key
  NoType,         \* the key is absent or empty
  Missing,        \* no "instance" key
  Unreadable,     \* an "instance" int() refuses
  ItemChoice,     \* the entries a spec may hold
  MaxItems        \* bound on the entries of each list

Section == {SectionOrder[k] : k \in 1..Len(SectionOrder)}
Flaw    == {"none", "noid", "tags", "invalid"}
Item    == [type     : Type \cup {NoType},
            instance : Int \cup {Missing, Unreadable},
            flaw     : Flaw]
Reader  == {"generator", "client"}
Object  == [sec : Section, pos : Nat \ {0}, type : Type, instance : Nat]

ASSUME SectionsAssumption ==
  /\ SectionOrder \in Seq(STRING)
  /\ Len(SectionOrder) > 0
  /\ \A j, k \in 1..Len(SectionOrder) : SectionOrder[j] = SectionOrder[k] => j = k

ASSUME SentinelAssumption ==
  /\ NoType \notin Type
  /\ Missing \notin Int
  /\ Unreadable \notin Int
  /\ Missing # Unreadable

ASSUME InputAssumption ==
  /\ ItemChoice \subseteq Item
  /\ MaxItems \in [Section -> Nat]

VARIABLES
  given,   \* the spec as loaded (history: never written)
  spec,    \* the spec in memory, instances filled in place
  reader,  \* who decodes it
  pc,      \* "number", "decode", "done", "failed"
  cur,     \* index of the list being walked
  pos,     \* next entry of that list
  next,    \* the counters: one past the highest instance seen, by type
  objects  \* decoded so far

vars == <<given, spec, reader, pc, cur, pos, next, objects>>

sec  == SectionOrder[cur]
item == spec[sec][pos]

Readable(x) == x.type # NoType /\ x.instance \in Int
Larger(a, b) == IF a > b THEN a ELSE b

Lists == UNION {[1..n -> ItemChoice] : n \in UNION {0..MaxItems[s] : s \in Section}}
Specs == {d \in [Section -> Lists] : \A s \in Section : Len(d[s]) <= MaxItems[s]}

Init ==
  /\ given \in Specs
  /\ spec = given
  /\ reader \in Reader
  /\ pc = "number"
  /\ cur = 1
  /\ pos = 1
  /\ next = [t \in Type |-> 0]
  /\ objects = << >>

-----------------------------------------------------------------------------
(* _automate_instances, one loop iteration per action *)

AtItem(phase) == pc = phase /\ cur <= Len(SectionOrder) /\ pos <= Len(spec[sec])

\* Mutants: the counter starts at one; it is not advanced past an explicit value,
\* or is overwritten by it.
NextFreeFromOne(t) == next[t] + 1
ReserveNothing(t, provided) == next[t]
ReserveLast(t, provided) == provided + 1

\* The next free instance of the entry's type: instances.get(item_type, 0).
NextFree(t) == next[t]

\* The counter after an explicit value.
Reserve(t, provided) == Larger(next[t], provided + 1)

FillFalsy ==
  /\ AtItem("number")
  /\ item.type # NoType
  /\ item.instance \in {Missing, 0}
  /\ spec' = [spec EXCEPT ![sec][pos].instance = NextFree(item.type)]
  /\ next' = [next EXCEPT ![item.type] = NextFree(item.type) + 1]
  /\ pos' = pos + 1
  /\ UNCHANGED <<given, reader, pc, cur, objects>>

SkipUntyped ==
  /\ AtItem("number")
  /\ item.type = NoType
  /\ pos' = pos + 1
  /\ UNCHANGED <<given, spec, reader, pc, cur, next, objects>>

FillMissing ==
  /\ AtItem("number")
  /\ item.type # NoType
  /\ item.instance = Missing
  /\ spec' = [spec EXCEPT ![sec][pos].instance = NextFree(item.type)]
  /\ next' = [next EXCEPT ![item.type] = NextFree(item.type) + 1]
  /\ pos' = pos + 1
  /\ UNCHANGED <<given, reader, pc, cur, objects>>

KeepExplicit ==
  /\ AtItem("number")
  /\ Readable(item)
  /\ next' = [next EXCEPT ![item.type] = Reserve(item.type, item.instance)]
  /\ pos' = pos + 1
  /\ UNCHANGED <<given, spec, reader, pc, cur, objects>>

IgnoreUnreadable ==
  /\ AtItem("number")
  /\ item.type # NoType
  /\ item.instance = Unreadable
  /\ pos' = pos + 1
  /\ UNCHANGED <<given, spec, reader, pc, cur, next, objects>>

\* prepare_spec_instances calls the walk again with a fresh dictionary.
NextList ==
  /\ pc = "number"
  /\ cur <= Len(SectionOrder)
  /\ pos > Len(spec[sec])
  /\ next' = [t \in Type |-> 0]
  /\ pos' = 1
  /\ IF cur < Len(SectionOrder)
     THEN cur' = cur + 1 /\ pc' = pc
     ELSE cur' = 1 /\ pc' = "decode"
  /\ UNCHANGED <<given, spec, reader, objects>>

-----------------------------------------------------------------------------
(* decode_objects(strict=True) and load_client_descriptor *)

\* from_spec, in the order of its checks.
Refused(x) == x.flaw = "noid" \/ x.type = NoType
Crashes(x) == ~Refused(x) /\ x.instance = Unreadable
Verdict(x) ==
  IF Refused(x) THEN "refused"
  ELSE IF Crashes(x) THEN "crash"
  ELSE IF x.flaw = "tags" THEN "tags"
  ELSE IF x.flaw = "invalid" \/ x.instance < 0 THEN "refused"
  ELSE "object"

Decodes(s) == reader = "generator" \/ s \in ClientSections

DecodeObject ==
  /\ AtItem("decode")
  /\ Decodes(sec)
  /\ Verdict(item) = "object"
  /\ objects' = Append(objects, [sec |-> sec, pos |-> pos, type |-> item.type,
                                 instance |-> item.instance])
  /\ pos' = pos + 1
  /\ UNCHANGED <<given, spec, reader, pc, cur, next>>

\* The client logs nothing and goes on with the next entry.
ClientSkips ==
  /\ AtItem("decode")
  /\ reader = "client"
  /\ \/ ~Decodes(sec)
     \/ Verdict(item) = "refused"
     \/ Verdict(item) = "tags" /\ sec \notin TaggedSections
  /\ pos' = pos + 1
  /\ UNCHANGED <<given, spec, reader, pc, cur, next, objects>>

DecodeFails ==
  /\ AtItem("decode")
  /\ Decodes(sec)
  /\ \/ Verdict(item) = "crash"
     \/ Verdict(item) = "tags" /\ sec \in TaggedSections
     \/ reader = "generator" /\ Verdict(item) # "object"
  /\ pc' = "failed"
  /\ UNCHANGED <<given, spec, reader, cur, pos, next, objects>>

\* After the last list the generators also validate references between objects,
\* whose outcome the entries here do not determine.
DecodeNextList ==
  /\ pc = "decode"
  /\ cur <= Len(SectionOrder)
  /\ pos > Len(spec[sec])
  /\ IF cur < Len(SectionOrder)
     THEN cur' = cur + 1 /\ pos' = 1 /\ pc' = pc
     ELSE /\ UNCHANGED <<cur, pos>>
          /\ pc' \in IF reader = "generator" THEN {"done", "failed"} ELSE {"done"}
  /\ UNCHANGED <<given, spec, reader, next, objects>>

Number == SkipUntyped \/ FillMissing \/ KeepExplicit \/ IgnoreUnreadable \/ NextList
Decode == DecodeObject \/ ClientSkips \/ DecodeFails \/ DecodeNextList
Next   == Number \/ Decode

Spec == Init /\ [][Next]_vars

-----------------------------------------------------------------------------
(* Properties *)

\* The entries the walk has already visited.
Numbered(s, i) ==
  /\ i \in 1..Len(spec[s])
  /\ \/ pc # "number"
     \/ \E k \in 1..Len(SectionOrder) :
          s = SectionOrder[k] /\ (k < cur \/ (k = cur /\ i < pos))

Automatic(s, i) == given[s][i].type # NoType /\ given[s][i].instance = Missing

SameType(s, i, j) == spec[s][i].type = spec[s][j].type

\* Every variable has its type.
TypeOK ==
  /\ given \in [Section -> Seq(Item)]
  /\ spec \in [Section -> Seq(Item)]
  /\ reader \in Reader
  /\ pc \in {"number", "decode", "done", "failed"}
  /\ cur \in 1..Len(SectionOrder)
  /\ pos \in Nat \ {0}
  /\ next \in [Type -> Nat]
  /\ objects \in Seq(Object)

\* A number the walk hands out is larger than every readable instance of its
\* type that stands before it in the list, explicit or automatic.
AutomaticIsFresh ==
  \A s \in Section : \A j \in 1..Len(spec[s]) : \A i \in 1..(j - 1) :
    (Numbered(s, j) /\ Automatic(s, j) /\ SameType(s, i, j) /\ Readable(spec[s][i]))
      => spec[s][j].instance > spec[s][i].instance

\* Nor does it run ahead: it is 0 or the successor of an instance of its type
\* before it.
AutomaticIsLeast ==
  \A s \in Section : \A j \in 1..Len(spec[s]) :
    (Numbered(s, j) /\ Automatic(s, j) /\ spec[s][j].instance # 0) =>
      \E i \in 1..(j - 1) :
        SameType(s, i, j) /\ Readable(spec[s][i])
          /\ spec[s][j].instance = spec[s][i].instance + 1

\* A number the walk hands out is exactly the next one: the counter dictionary
\* neither lags behind what it has seen, whatever mix of explicit, unreadable
\* and missing values that was, nor leaves holes.
AutomaticIsNext == AutomaticIsFresh /\ AutomaticIsLeast

\* Two decoded objects of one list and type share an instance (and then an
\* object id) only if the user wrote the later one's number.
ClashIsExplicit ==
  \A a, b \in 1..Len(objects) :
    (/\ a < b
     /\ objects[a].sec = objects[b].sec
     /\ objects[a].type = objects[b].type
     /\ objects[a].instance = objects[b].instance)
      => ~Automatic(objects[b].sec, objects[b].pos)

\* A step rewrites no instance the user gave and nothing but missing instances.
ExplicitKept ==
  [][\A s \in Section : \A i \in 1..Len(spec[s]) :
       spec'[s][i] # spec[s][i] =>
         /\ spec[s][i].instance = Missing
         /\ spec'[s][i] = [spec[s][i] EXCEPT !.instance = spec'[s][i].instance]]_spec
=============================================================================
