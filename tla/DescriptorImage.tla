---------------------------- MODULE DescriptorImage ----------------------------
(***************************************************************************)
(* The two back ends that turn a decoded descriptor into the word array a  *)
(* device boots from: descriptor/encoding/ writes it as bytes (desc-bin),  *)
(* descriptor/generation/ as C++ source (desc-gen) whose macros the        *)
(* firmware's compiler resolves.  They share decode_objects, modelled in   *)
(* InstanceAutomation, and nothing else, yet a device must not be able to  *)
(* tell which of them made its image.                                      *)
(*                                                                         *)
(* An image is its object count and its objects in order: an announced     *)
(* number of items, and the items.  A word that refers to an object is the *)
(* position of the entry it was made from, so that two entries of one name *)
(* differ; FieldWord is the id of the config field a config IO points to.  *)
(* Each kind of entry is one handler with the references the others share: *)
(* "io" is a dummy IO, leds or adc_stream and its one field, "control" a   *)
(* control IO and its targets, "config" a config IO and its target,        *)
(* "program" a saturate program with its sources (refs), outputs and       *)
(* optional bounds, "protocol" one with standard bindings, "system" an     *)
(* object without config fields.  Values that are not references are left  *)
(* out.                                                                    *)
(***************************************************************************)
EXTENDS Naturals, Sequences, FiniteSets, Functions, FiniteSetsExt

CONSTANTS
  Name,        \* ids an entry may have or refer to
  Field,       \* in C++ text, the helper call that gives a config field's id
  EntryChoice, \* the entries a descriptor may hold
  MaxEntries   \* bound on their number

Kind == {"io", "control", "config", "program", "protocol", "system"}
Bound == {"min", "max"}

\* What the handler of an IO leaves the writing of its field to: itself (dummy), "standard
\* path" (leds), "the generic encoder" (adc_stream).
Path == {"handler", "standard", "generic"}

\* inline: objid_ref repeats the target's entry (a YAML alias), not only its name.
Entry == [kind   : Kind,
          id     : Name,
          refs   : Seq(Name),
          outs   : Seq(Name),
          rw     : BOOLEAN,
          inline : BOOLEAN,
          bounds : SUBSET Bound,
          path   : Path]

\* What the metadata block holds: nothing, keys nobody knows, an empty user_string,
\* or a version.
Metadata == {"none", "unknown", "null", "version"}

ASSUME DescriptorAssumption ==
  /\ Field \notin Name
  /\ EntryChoice \subseteq Entry
  /\ MaxEntries \in Nat
  /\ \A e \in EntryChoice : e.kind = "config" => Len(e.refs) = 1

VARIABLES
  spec,      \* the decoded entries (never written)
  meta,      \* the metadata block (never written)
  phase,     \* "binary", "cpp", "compile", "done"
  pos,       \* the next entry of the pass
  known,     \* obj_ids: the entry each name stands for so far, 0 for none
  bin,       \* the objects of the binary
  binCount,  \* object_count
  binResult, \* "pending", "ok", "raised"
  text,      \* the objects of the C++ array, referring by name
  cppCount,  \* the count in its header
  cpp,       \* the array as compiled
  cppResult  \* "pending", "ok", "raised", "rejected" (by the compiler)

input  == <<spec, meta>>
binary == <<known, bin, binCount, binResult>>
source == <<text, cppCount>>
vars == <<input, phase, pos, binary, source, cpp, cppResult>>

FieldWord == 0
Cfg == {"Metadata", "Own", "AllocObj", "Alloc", "Cfg", "IOBind", "min", "max"}
Object(of, word) ==
  [of    : of,
   count : Nat,
   items : Seq([cfg : Cfg, rw : BOOLEAN, words : Seq(word)])]

\* decode_objects reads the four lists in this order.
Rank(e) ==
  IF e.kind = "program" THEN 2 ELSE IF e.kind = "protocol" THEN 3
  ELSE IF e.kind = "system" THEN 4 ELSE 1

Specs ==
  {s \in UNION {[1..n -> EntryChoice] : n \in 0..MaxEntries} :
     \A j, k \in DOMAIN s : j < k => Rank(s[j]) <= Rank(s[k])}

Defined == {spec[k].id : k \in DOMAIN spec}
Positions(n) == {k \in DOMAIN spec : spec[k].id = n}

\* The objects dictionary: a later entry replaces an earlier one of its name.
Last(n) == Max(Positions(n))
Is(n, kinds) == n \in Defined /\ spec[Last(n)].kind \in kinds

Init ==
  /\ spec \in Specs /\ meta \in Metadata
  /\ phase = "binary" /\ pos = 0
  /\ known = [n \in Name |-> 0]
  /\ bin = << >> /\ binCount = 0 /\ binResult = "pending"
  /\ text = << >> /\ cppCount = 0
  /\ cpp = << >> /\ cppResult = "pending"

-----------------------------------------------------------------------------
(* What both passes work out from the whole descriptor                       *)

\* Mutant: any config IO grants, writable or not.
GrantsAny ==
  {n \in Name : Is(n, {"io", "program"}) /\
     \E m \in Defined : spec[Last(m)].kind = "config" /\ spec[Last(m)].refs[1] = n}

\* build_config_rw_grants: the objects a writable config IO makes writable.
Grants ==
  {n \in Name : Is(n, {"io", "program"}) /\
     \E m \in Defined :
       LET e == spec[Last(m)] IN e.kind = "config" /\ e.rw /\ e.refs[1] = n}

\* The C++ helper of a leds' field has no parameter for the write bit.
HelperGrants == {n \in Grants : spec[Last(n)].path # "standard"}

Item(cfg, rw, words) == [cfg |-> cfg, rw |-> rw, words |-> words]
Obj(of, count, items) == [of |-> of, count |-> count, items |-> items]

BoundItems(bounds, rw) ==
  (IF "min" \in bounds THEN <<Item("min", rw, << >>)>> ELSE << >>)
    \o (IF "max" \in bounds THEN <<Item("max", FALSE, << >>)>> ELSE << >>)

\* Mutant: output first.
InterleaveSwapped(s, o) ==
  [i \in 1..(2 * Len(s)) |-> IF i % 2 = 1 THEN o[(i + 1) \div 2] ELSE s[i \div 2]]
Interleave(s, o) ==
  [i \in 1..(2 * Len(s)) |-> IF i % 2 = 1 THEN s[(i + 1) \div 2] ELSE o[i \div 2]]

-----------------------------------------------------------------------------
(* desc-bin: _serialize_descriptor_spec and the encode_binary it calls       *)

\* Mutant: names of programs are not known in advance.
PreregisterNothing == [n \in Name |-> 0]

MetadataEmitted == meta = "version"

\* _pre_register_program_ids: the last program of a name wins.
Preregister ==
  [n \in Name |-> Max({0} \cup {k \in Positions(n) : spec[k].kind = "program"})]

SerializeMetadata ==
  /\ phase = "binary" /\ pos = 0
  /\ bin' = IF meta = "version" THEN <<Obj(0, 1, <<Item("Metadata", FALSE, << >>)>>)>>
            ELSE << >>
  /\ binCount' = IF MetadataEmitted THEN 1 ELSE 0
  /\ known' = Preregister
  /\ pos' = 1
  /\ UNCHANGED <<input, phase, binResult, source, cpp, cppResult>>

AtEntry(p) == phase = p /\ pos \in DOMAIN spec
entry == spec[pos]

\* Mutant: a name stands for the entry after it.
NamesAhead == [known EXCEPT ![entry.id] = pos + 1]

\* An object's own name is known before its items are encoded.
Names == [known EXCEPT ![entry.id] = pos]
Words(refs) == [i \in DOMAIN refs |-> Names[refs[i]]]
Unresolved(refs) == \E i \in DOMAIN refs : Names[refs[i]] = 0

\* Mutant: a list with an unknown name is shortened instead of refused.
LenientRefs(refs) == TRUE

\* named_refs_to_objid_words raises KeyError for a name not seen yet.
StrictRefs(refs) == ~Unresolved(refs)

\* What is left of words that may be 0.
Kept(words) ==
  LET kept[n \in 0..Len(words)] ==
        IF n = 0 THEN << >>
        ELSE IF words[n] = 0 THEN kept[n - 1] ELSE Append(kept[n - 1], words[n])
  IN kept[Len(words)]

\* Other encoders leave such names out.
FlexWords(refs) == Kept(Words(refs))

Serialized(items) ==
  /\ bin' = Append(bin, Obj(pos, Len(items), items))
  /\ binCount' = binCount + 1
  /\ known' = Names
  /\ pos' = pos + 1
  /\ UNCHANGED <<input, phase, binResult, source, cpp, cppResult>>

\* _serialize_io_object has the field of an IO from its encode_binary or not at all.
SerializeIo ==
  /\ AtEntry("binary") /\ entry.kind = "io"
  /\ Serialized(IF entry.path = "handler" THEN <<Item("Own", entry.id \in Grants, << >>)>>
                ELSE << >>)

\* Control targets and protocol bindings: one item, absent when the list is empty.
SerializeNamed ==
  /\ AtEntry("binary") /\ entry.kind \in {"control", "protocol"}
  /\ StrictRefs(entry.refs)
  /\ Serialized(IF entry.refs = << >> THEN << >>
                ELSE <<Item(IF entry.kind = "control" THEN "AllocObj" ELSE "IOBind",
                            FALSE, FlexWords(entry.refs))>>)

\* io_config.encode_binary: nothing unless the target is known and written inline, as
\* an IO with a config field.  The write bit is the one in the field's id.
SerializeConfig ==
  /\ AtEntry("binary") /\ entry.kind = "config"
  /\ LET target == entry.refs[1] IN
     Serialized(IF Names[target] # 0 /\ entry.inline /\ Is(target, {"io"})
                THEN <<Item("Alloc", target \in Grants, <<FieldWord>>),
                       Item("Cfg", FALSE, <<Names[target]>>)>>
                ELSE << >>)

SourceWords == FlexWords(entry.refs)
OutputWords == FlexWords(entry.outs)

\* append_standard_iobind, then the bounds, never writable here.
SerializeProgram ==
  /\ AtEntry("binary") /\ entry.kind = "program"
  /\ Len(SourceWords) = Len(OutputWords)
  /\ Serialized((IF SourceWords = << >> THEN << >>
                 ELSE <<Item("IOBind", FALSE, Interleave(SourceWords, OutputWords))>>)
                  \o BoundItems(entry.bounds, FALSE))

SerializeRaises ==
  /\ AtEntry("binary")
  /\ \/ entry.kind = "system"
     \/ entry.kind \in {"control", "protocol"} /\ ~StrictRefs(entry.refs)
     \/ entry.kind = "program" /\ Len(SourceWords) # Len(OutputWords)
  /\ binResult' = "raised"
  /\ phase' = "cpp" /\ pos' = 0
  /\ UNCHANGED <<input, known, bin, binCount, source, cpp, cppResult>>

SerializeDone ==
  /\ phase = "binary" /\ pos > Len(spec)
  /\ binResult' = "ok"
  /\ phase' = "cpp" /\ pos' = 0
  /\ UNCHANGED <<input, known, bin, binCount, source, cpp, cppResult>>

-----------------------------------------------------------------------------
(* desc-gen: generate_descriptor_array_named and the emitters it calls       *)

GenerateHeader ==
  /\ phase = "cpp" /\ pos = 0
  /\ cppCount' = Cardinality(Defined) + (IF meta = "none" THEN 0 ELSE 1)
  /\ text' = IF meta \in {"version", "null"}
             THEN <<Obj(Field, 1, <<Item("Metadata", FALSE, << >>)>>)>> ELSE << >>
  /\ pos' = 1
  /\ UNCHANGED <<input, phase, binary, cpp, cppResult>>

\* object_order lists every entry, self.objects only the last of each name.
emitted == spec[Last(entry.id)]

Generated(count, items) ==
  /\ text' = Append(text, Obj(entry.id, count, items))
  /\ pos' = pos + 1
  /\ UNCHANGED <<input, phase, binary, cppCount, cpp, cppResult>>

GenerateIo ==
  /\ AtEntry("cpp") /\ emitted.kind = "io"
  /\ Generated(1, <<Item("Own", entry.id \in HelperGrants, << >>)>>)

GenerateNamed ==
  /\ AtEntry("cpp") /\ emitted.kind \in {"control", "protocol"}
  /\ IF emitted.refs = << >> THEN Generated(0, << >>)
     ELSE Generated(1, <<Item(IF emitted.kind = "control" THEN "AllocObj" ELSE "IOBind",
                              FALSE, emitted.refs)>>)

\* io_config.generate_cpp looks the target up among all objects.
GenerateConfig ==
  /\ AtEntry("cpp") /\ emitted.kind = "config"
  /\ LET target == emitted.refs[1] IN
     IF Is(target, {"io", "program"})
     THEN Generated(2, <<Item("Cfg", target \in HelperGrants, <<Field>>),
                         Item("Alloc", FALSE, <<target>>)>>)
     ELSE Generated(0, << >>)

\* The announced number is that of the schema's fields: the binding and two bounds.
GenerateProgram ==
  /\ AtEntry("cpp") /\ emitted.kind = "program"
  /\ Len(emitted.refs) = Len(emitted.outs)
  /\ Generated(1 + Cardinality(Bound),
               <<Item("IOBind", FALSE, Interleave(emitted.refs, emitted.outs))>>
                 \o BoundItems(emitted.bounds, entry.id \in Grants))

GenerateSystem ==
  /\ AtEntry("cpp") /\ emitted.kind = "system"
  /\ Generated(0, << >>)

GenerateRaises ==
  /\ AtEntry("cpp")
  /\ emitted.kind = "program" /\ Len(emitted.refs) # Len(emitted.outs)
  /\ cppResult' = "raised"
  /\ phase' = "done"
  /\ UNCHANGED <<input, pos, binary, source, cpp>>

GenerateDone ==
  /\ phase = "cpp" /\ pos > Len(spec)
  /\ phase' = "compile"
  /\ UNCHANGED <<input, pos, binary, source, cpp, cppResult>>

\* generate_defines gives every name of object_order a macro, from its last entry; the
\* compiler refuses any other name (external).
Mentioned(o) == UNION {{o.items[i].words[j] : j \in DOMAIN o.items[i].words} :
                       i \in DOMAIN o.items}
Meaning(n) == IF n = Field THEN FieldWord ELSE Last(n)
Compiled(o) ==
  [of |-> Meaning(o.of), count |-> o.count,
   items |-> [i \in DOMAIN o.items |->
     [o.items[i] EXCEPT !.words = [j \in DOMAIN @ |-> Meaning(@[j])]]]]

Compile ==
  /\ phase = "compile"
  /\ IF \A k \in DOMAIN text : Mentioned(text[k]) \subseteq Defined \cup {Field}
     THEN cpp' = [k \in DOMAIN text |-> Compiled(text[k])] /\ cppResult' = "ok"
     ELSE cpp' = cpp /\ cppResult' = "rejected"
  /\ phase' = "done"
  /\ UNCHANGED <<input, pos, binary, source>>

Serialize == SerializeMetadata \/ SerializeIo \/ SerializeNamed \/ SerializeConfig
             \/ SerializeProgram \/ SerializeRaises \/ SerializeDone
Generate  == GenerateHeader \/ GenerateIo \/ GenerateNamed \/ GenerateConfig
             \/ GenerateProgram \/ GenerateSystem \/ GenerateRaises \/ GenerateDone

Next == Serialize \/ Generate \/ Compile

Spec == Init /\ [][Next]_vars

-----------------------------------------------------------------------------
(* Properties *)

\* Every variable has its type.
TypeOK ==
  /\ spec \in Seq(Entry) /\ meta \in Metadata
  /\ phase \in {"binary", "cpp", "compile", "done"}
  /\ pos \in Nat
  /\ known \in [Name -> 0..Len(spec)]
  /\ bin \in Seq(Object(Nat, Nat))
  /\ binCount \in Nat /\ binResult \in {"pending", "ok", "raised"}
  /\ text \in Seq(Object(Name \cup {Field}, Name \cup {Field}))
  /\ cppCount \in Nat
  /\ cpp \in Seq(Object(Nat, Nat))
  /\ cppResult \in {"pending", "ok", "raised", "rejected"}

\* A binary's two kinds of counts are those of what follows them: the device walks
\* the array by them.
CountsRight ==
  binResult = "ok" =>
    /\ binCount = Len(bin)
    /\ \A k \in DOMAIN bin : bin[k].count = Len(bin[k].items)

ItemWords(o, cfg) == {o.items[i].words : i \in {j \in DOMAIN o.items : o.items[j].cfg = cfg}}
NamesOf(words) == [i \in DOMAIN words |-> spec[words[i]].id]

\* A binary that was written holds every target of a control IO and every binding of
\* a protocol, in order, and the pairs of a program whose references all name IOs or
\* programs: none is dropped, shifted or resolved to another name.
ReferencesKept ==
  binResult = "ok" =>
    \A k \in DOMAIN bin :
      bin[k].of # 0 =>
        LET e == spec[bin[k].of] IN
        /\ e.kind = "control" /\ e.refs # << >> =>
             {NamesOf(w) : w \in ItemWords(bin[k], "AllocObj")} = {e.refs}
        /\ e.kind = "protocol" /\ e.refs # << >> =>
             {NamesOf(w) : w \in ItemWords(bin[k], "IOBind")} = {e.refs}
        /\ /\ e.kind = "program" /\ e.refs # << >>
           /\ \A s \in {e.refs, e.outs} : \A i \in DOMAIN s :
                \E j \in Positions(s[i]) : Rank(spec[j]) <= 2
           => {NamesOf(w) : w \in ItemWords(bin[k], "IOBind")}
                = {[i \in 1..(2 * Len(e.refs)) |->
                      IF i % 2 = 1 THEN e.refs[(i + 1) \div 2] ELSE e.outs[i \div 2]]}

\* A binary that was written can be walked by its counts, and what the walk finds is what
\* the descriptor refers to.
BinaryWhole == CountsRight /\ ReferencesKept

\* An entry may refer to itself, to earlier entries and to any program.
InOrder(k, n) == \E j \in Positions(n) : j <= k \/ spec[j].kind = "program"
Resolvable(k, refs) == {i \in DOMAIN refs : InOrder(k, refs[i])}

\* The binary is refused only for a system object, a reference that points ahead to
\* what is not a program, or a program whose sources and outputs do not match.
RaisesForCause ==
  binResult = "raised" =>
    \E k \in DOMAIN spec :
      \/ spec[k].kind = "system"
      \/ spec[k].kind \in {"control", "protocol"}
           /\ Resolvable(k, spec[k].refs) # DOMAIN spec[k].refs
      \/ spec[k].kind = "program"
           /\ Cardinality(Resolvable(k, spec[k].refs))
                # Cardinality(Resolvable(k, spec[k].outs))

\* A write bit appears, in either image, only where a writable config IO asks for it.
WritableIsGranted ==
  \A image \in {bin, cpp} : \A k \in DOMAIN image : \A i \in DOMAIN image[k].items :
    image[k].items[i].rw =>
      LET e == spec[image[k].of] IN
      \E j \in DOMAIN spec :
        /\ spec[j].kind = "config" /\ spec[j].rw
        /\ spec[j].refs[1] \in {e.id} \cup (IF e.kind = "config" THEN Range(e.refs) ELSE {})

UniqueNames == Cardinality(Defined) = Len(spec)

\* The entries both back ends treat alike: no config IO, no IO whose handler leaves its
\* field to another path, and of programs those with both bounds, no grant, and some
\* references, all to IOs or programs.
Alike(e) ==
  /\ e.kind # "config"
  /\ e.kind = "io" => e.path = "handler"
  /\ e.kind = "program" =>
       /\ e.bounds = Bound /\ e.id \notin Grants /\ e.refs # << >>
       /\ \A s \in {e.refs, e.outs} : \A i \in DOMAIN s :
            Is(s[i], {"io", "control", "config", "program"})

\* Of a descriptor with distinct names and no metadata but a version, both images have
\* the same number of objects, and every object the back ends treat alike is the same
\* in both, each reference to the same object.
AlikeAgree ==
  (/\ binResult = "ok" /\ cppResult = "ok"
   /\ UniqueNames /\ meta \in {"none", "version"})
    => /\ binCount = cppCount /\ Len(bin) = Len(cpp)
       /\ \A k \in DOMAIN bin :
            (bin[k].of # 0 => Alike(spec[bin[k].of])) => bin[k] = cpp[k]

References(o) == {<<o.items[i].cfg, o.items[i].words>> : i \in DOMAIN o.items}
Offered(e) == IF e.kind = "protocol" THEN {Last(n) : n \in Range(e.refs)} ELSE {}

\* What a protocol offers is the same object in both images, item by item and reference
\* by reference, as the code says of each item a binary lacks: a config IO's references
\* ("Object IDs are resolved in descriptor order, matching generator behavior",
\* binary_serializer.py), the init_val of leds ("handled by standard path", io_leds.py)
\* and the batch_size of adc_stream ("Defer to the generic encoder", io_adc_stream.py).
BackEndsAgree ==
  (/\ binResult = "ok" /\ cppResult = "ok"
   /\ UniqueNames /\ meta \in {"none", "version"})
    => \A e \in Range(spec) : \A k \in DOMAIN bin :
         bin[k].of \in Offered(e) => References(bin[k]) = References(cpp[k])
=============================================================================
