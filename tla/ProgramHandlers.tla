---------------------------- MODULE ProgramHandlers ----------------------------
(***************************************************************************)
(* The program handlers, descriptor/handlers/prog_*.py.  A handler names   *)
(* the fields of its type's config block and says how each becomes an item *)
(* of the image: encode_binary writes words, config_fields and the         *)
(* emitters of _prog_config_cpp.py write C++.  It also checks the objects  *)
(* a program refers to, and names the targets whose shape it owns.         *)
(*                                                                         *)
(* A config is a partial function from keys to values.  A value is either  *)
(* scalar or a list of rows; a row is a tuple of cells, or << >> for an    *)
(* element of a list that is not of the kind the field wants.  A field of  *)
(* several references holds a list, where it is there at all.  A cell      *)
(* refers to an object by name, repeats its entry (a YAML alias), holds a  *)
(* number, or is missing.  A word is a number or the object it refers to,  *)
(* 0 for none: names are distinct here (DescriptorImage treats             *)
(* duplicates) and a scalar of any dtype is one word.  Write bits are      *)
(* DescriptorImage's too.                                                  *)
(***************************************************************************)
EXTENDS Integers, Sequences, FiniteSets, SequencesExt, FiniteSetsExt

CONSTANTS
  Ref,      \* objects a config may refer to
  Protocol, \* those that are protocols, which have no id when programs are encoded
  DtypeOf,  \* the dtype of each of them that is an IO
  Batched,  \* the IOs that declare a notify batch greater than one
  Bitwise,  \* _BITWISE_IO_DTYPES
  Width,    \* _DTYPE_BITS: element width, for the dtypes bitmerge accepts
  MaxWidth, \* _FIELD_BITS, the width taken for an output that is not known
  Span      \* _DTYPE_RANGE: the least and greatest value, for saturate's dtypes

Io == DOMAIN DtypeOf
Dtype == Bitwise \cup DOMAIN Width \cup DOMAIN Span \cup {DtypeOf[r] : r \in Io}

ASSUME HandlersAssumption ==
  /\ Ref \cap Int = {}
  /\ Io \subseteq Ref /\ Batched \subseteq Io /\ Protocol \subseteq Ref \ Io
  /\ MaxWidth \in Nat
  /\ \A d \in DOMAIN Width : Width[d] \in Nat
  /\ \A d \in DOMAIN Span : Span[d] \in Int \X Int

-----------------------------------------------------------------------------
(* References                                                                *)

Cell(how, of) == [how |-> how, of |-> of]

\* resolve_reference and resolve_id: a name, or the id of a repeated entry.
Resolve(cell) == IF cell.how \in {"name", "alias"} THEN <<cell.of>> ELSE << >>
Number(cell, default) == IF cell.how = "number" THEN cell.of ELSE default

\* A row of cells, of which those that refer to an object name one, and a value of rows.
Row(cells) ==
  /\ cells \in Seq(Range(cells))
  /\ \A c \in Range(cells) : /\ c.how \in {"name", "alias", "io"} => c.of \in Ref
                             /\ c.how \in {"number", "capitals"} => c.of \in Int
Table(value) ==
  /\ value.rows \in Seq(Range(value.rows))
  /\ \A cells \in Range(value.rows) : Row(cells)

Absent == [list |-> TRUE, rows |-> << >>]
Given(config, key) == key \in DOMAIN config
Value(config, key) == IF Given(config, key) THEN config[key] ELSE Absent

\* resolve_references and resolve_ids, of a list: what does not resolve is dropped.
References(value) ==
  FlattenSeq([i \in DOMAIN value.rows |->
    IF Len(value.rows[i]) = 1 THEN Resolve(value.rows[i][1]) ELSE << >>])

\* Three readings of a field that holds one reference: a list holds none; a list
\* stands for its first element; and the same, but an alias outside a list does not count.
Plain(value) == IF value.list THEN << >> ELSE Resolve(value.rows[1][1])
First(value) ==
  IF ~value.list THEN Plain(value)
  ELSE IF value.rows = << >> \/ Len(value.rows[1]) # 1 THEN << >>
  ELSE Resolve(value.rows[1][1])
FirstNamed(value) ==
  IF ~value.list /\ value.rows[1][1].how = "alias" THEN << >> ELSE First(value)

Inputs(config) == References(Value(config, "inputs"))
Outputs(config) == References(Value(config, "outputs"))
Sources(config) ==
  IF Given(config, "sources") THEN References(config["sources"]) ELSE Inputs(config)

\* The references that are known, in order.
Known(refs, known) ==
  LET kept[n \in 0..Len(refs)] ==
        IF n = 0 THEN << >>
        ELSE IF refs[n] \in known THEN Append(kept[n - 1], refs[n]) ELSE kept[n - 1]
  IN kept[Len(refs)]

Id(cell, known) ==
  LET r == Known(Resolve(cell), known) IN IF r = << >> THEN 0 ELSE r[1]

-----------------------------------------------------------------------------
(* Fields and handlers                                                       *)

\* A row of a field has first refs references and then one number per default; fit
\* limits the number of words.
Field(name, shape, refs, defaults, fit) ==
  [name |-> name, shape |-> shape, refs |-> refs, defaults |-> defaults, fit |-> fit]

IoBind == Field("iobind", "pairs", 0, << >>, 0)
Pair == Field("iobind", "pair", 0, << >>, 0)
Uint32(name) == Field(name, "word", 0, <<0>>, 0)
Single(name) == Field(name, "single", 1, << >>, 0)
List(name) == Field(name, "list", 1, << >>, 0)
Words(name, fit) == Field(name, "words", 0, <<0>>, fit)
Rows(name, refs, defaults) == Field(name, "rows", refs, defaults, 0)
Binds(name, refs, defaults) == Field(name, "binds", refs, defaults, 0)
Bound(name) == Field(name, "bound", 0, <<0>>, 0)

\* fields is the order of the C++ text, encode that of the binary.
Handler(fields, check, owns) ==
  [fields |-> fields, encode |-> fields, check |-> check, owns |-> owns]

Stats == [Handler(<< >>, "none", {"outputs"}) EXCEPT !.encode = <<IoBind>>]
StatsAvg == Handler(<<IoBind>>, "none", {"outputs"})
StatsCount == Handler(<<IoBind>>, "none", {"outputs"})
StatsMax == Handler(<<IoBind>>, "none", {"outputs"})
StatsMin == Handler(<<IoBind>>, "none", {"outputs"})
StatsRms == Handler(<<IoBind>>, "none", {"outputs"})
StatsSum == Handler(<<IoBind>>, "none", {"outputs"})
Dummy == Handler(<<IoBind>>, "none", {"outputs"})
Latest == Handler(<<IoBind>>, "none", {"outputs"})
Redirect == Handler(<<IoBind>>, "none", {"outputs"})
MovingAvg == Handler(<<IoBind, Uint32("window")>>, "none", {"outputs"})
Sampling == Handler(<<IoBind, Uint32("interval")>>, "none", {"outputs"})
IirFilter ==
  Handler(<<IoBind, Uint32("alpha_num"), Uint32("alpha_den")>>, "none", {"outputs"})
Threshold ==
  Handler(<<IoBind, Uint32("mode"), Uint32("low"), Uint32("high")>>, "none", {"outputs"})
ThresholdValue ==
  Handler(<<IoBind, Uint32("mode"), Uint32("low"), Uint32("high")>>, "none", {"outputs"})
Counter == Handler(<<IoBind, Words("params", 4)>>, "none", {"outputs"})
Expression == Handler(<<IoBind, Words("op", 2)>>, "none", {"outputs"})
Toggle == Handler(<<IoBind, Words("values", 2)>>, "none", {"outputs"})
BitSplit == Handler(<<IoBind, Words("bits", 0)>>, "bitsplit", {"outputs"})
Saturate == Handler(<<IoBind, Bound("min"), Bound("max")>>, "saturate", {"outputs"})

\* The parameters of adjust are its offset and its scale.
Adjust ==
  LET params == Field("params", "params", 0, <<0, 1>>, 0) IN
  [Handler(<<params>>, "adjust", {"outputs"}) EXCEPT !.encode = <<Pair, params>>]

OneToMany == Handler(<<Single("input"), List("outputs")>>, "same", {"outputs"})
ManyToOne == Handler(<<List("inputs"), Single("output")>>, "same", {"output"})
VecSplit == Handler(<<Single("source"), List("outputs")>>, "same", {"outputs"})
VecPack == Handler(<<List("inputs"), Single("output")>>, "same", {"output"})
IoMux ==
  Handler(<<Single("control"), List("inputs"), Single("output")>>, "same", {"output"})
IoDemux ==
  Handler(<<Single("control"), Single("input"), List("outputs")>>, "same", {"outputs"})

\* Selector reads its two single references in a way of its own.
Chosen(name) == Field(name, "chosen", 1, << >>, 0)
Selector == Handler(<<Chosen("control"), List("data"), Chosen("target")>>, "none", {"target"})

\* A target of switch is a list: the object, and the commands for on and for off.
Switch ==
  Handler(<<Rows("inputs", 1, <<1>>), Field("target", "target", 1, <<1, 0>>, 0)>>,
          "none", {"target"})
BitPack == Handler(<<Rows("inputs", 1, <<0>>), Single("output")>>, "bitpack", {"output"})
BitMerge ==
  Handler(<<Rows("inputs", 1, <<0, 0>>), Single("output")>>, "bitmerge", {"output"})

\* The words of gateway and sequencer look names up as they stand: an alias raises.
Gateway ==
  Handler(<<Field("iobind", "strictbinds", 2, <<0, 1>>, 0)>>, "none", {"io1", "io2"})
Sequencer ==
  Handler(<<Field("targets", "names", 1, << >>, 0), Rows("states", 0, <<0, 0>>),
            Uint32("start_index")>>, "none", {"targets"})

Buffer ==
  Handler(<<Binds("iobind", 4, << >>), Uint32("depth"), Uint32("flags"),
            Field("chunk_size", "defaulted", 0, <<1>>, 0)>>, "none", {"out", "sel", "stat"})

\* One word stands for the four parameters, which both back ends write alike.
Ahrs ==
  LET ids == <<Single("accel"), Single("gyro")>>
      params == Field("params", "defaulted", 0, <<1>>, 0) IN
  [Handler(ids \o <<Single("mag"), Single("output"), params>>, "ahrs", {"output"})
     EXCEPT !.encode = ids \o <<Single("output"), Single("mag"), params>>]

\* PROG_HANDLER_REGISTRY.
Handlers ==
  [stats |-> Stats, statsavg |-> StatsAvg, statscount |-> StatsCount,
   statsmax |-> StatsMax, statsmin |-> StatsMin, statsrms |-> StatsRms,
   statssum |-> StatsSum, dummy |-> Dummy, latest |-> Latest, redirect |-> Redirect,
   movingavg |-> MovingAvg, sampling |-> Sampling, iirfilter |-> IirFilter,
   threshold |-> Threshold, thresholdvalue |-> ThresholdValue, counter |-> Counter,
   expression |-> Expression, toggle |-> Toggle, bitsplit |-> BitSplit,
   saturate |-> Saturate, adjust |-> Adjust, onetomany |-> OneToMany,
   manytoone |-> ManyToOne, vecsplit |-> VecSplit, vecpack |-> VecPack,
   iomux |-> IoMux, iodemux |-> IoDemux, selector |-> Selector, switch |-> Switch,
   bitpack |-> BitPack, bitmerge |-> BitMerge, gateway |-> Gateway,
   sequencer |-> Sequencer, buffer |-> Buffer, ahrs |-> Ahrs]

-----------------------------------------------------------------------------
(* Items.  A field's words are made the same way by both back ends, from the *)
(* names each can resolve: the binary those of obj_ids, the text all.        *)

Item(name, size, words) == [name |-> name, size |-> size, words |-> words]

\* Both sides of a binding, source first.
Interleaved(sources, outputs) == FlattenSeq(Zip(sources, outputs))

RowWords(f, row, known) ==
  [i \in 1..(f.refs + Len(f.defaults)) |->
     IF i <= f.refs THEN Id(row[i], known) ELSE Number(row[i], f.defaults[i - f.refs])]

\* A row that is not a dictionary gives no words, nor, in a binding, one with a
\* reference that does not resolve.
Usable(f, row, known) ==
  /\ row # << >>
  /\ f.shape \in {"binds", "strictbinds"} => \A i \in 1..f.refs : Id(row[i], known) # 0
AllRows(f, value, known) ==
  IF value.list
  THEN FlattenSeq([i \in DOMAIN value.rows |->
         IF Usable(f, value.rows[i], known) THEN RowWords(f, value.rows[i], known) ELSE << >>])
  ELSE << >>

\* Row i of a value, or its default.
Numeral(value, i, default) ==
  IF i \in DOMAIN value.rows THEN Number(value.rows[i][1], default) ELSE default

\* Mutant: counter keeps its parameters after the fourth.
PaddedOnly(words, n) == words \o [i \in 1..(n - Len(words)) |-> 0]

\* What there is too much of is cut off.
Padded(words, n) == [i \in 1..n |-> IF i \in DOMAIN words THEN words[i] ELSE 0]

WordsOf(f, config, known, reading) ==
  LET value == Value(config, f.name) IN
  CASE f.shape = "pairs" -> Interleaved(Known(Sources(config), known), Known(Outputs(config), known))
    [] f.shape = "pair" ->
         IF Inputs(config) # << >> /\ Outputs(config) # << >>
              /\ {Inputs(config)[1], Outputs(config)[1]} \subseteq known
         THEN <<Inputs(config)[1], Outputs(config)[1]>> ELSE << >>
    [] f.shape \in {"single", "chosen"} -> Known(reading, known)
    [] f.shape \in {"list", "names"} -> Known(References(value), known)
    [] f.shape \in {"rows", "binds", "strictbinds"} -> AllRows(f, value, known)
    [] f.shape = "words" -> [i \in DOMAIN value.rows |-> value.rows[i][1].of]
    [] f.shape = "target" ->
         <<IF value.rows = << >> THEN 0 ELSE Id(value.rows[1][1], known),
           Numeral(value, 2, 1), Numeral(value, 3, 0)>>
    [] f.shape = "params" ->
         [i \in DOMAIN f.defaults |->
            IF value.list THEN f.defaults[i] ELSE Number(value.rows[1][i], f.defaults[i])]
    [] OTHER -> <<Numeral(value, 1, f.defaults[1])>>

\* What encode_binary does with one field.
BinaryReading(f, config) ==
  LET value == Value(config, f.name) IN
  IF f.shape = "chosen" THEN FirstNamed(value) ELSE Plain(value)

BinaryWords(f, config, known) ==
  LET words == WordsOf(f, config, known, BinaryReading(f, config)) IN
  IF f.fit = 0 \/ words = << >> THEN words ELSE Padded(words, f.fit)

\* An optional field that is not there, and a list left without words, give no item.
Omitted(f, config, known) ==
  CASE f.shape \in {"word", "bound"} -> ~Given(config, f.name)
    [] f.shape = "target" -> Value(config, f.name).rows = << >>
    [] f.shape = "params" -> Given(config, f.name) /\ config[f.name].list
    [] f.shape = "defaulted" -> FALSE
    [] OTHER -> BinaryWords(f, config, known) = << >>

EncodeField(f, config, known) ==
  IF Omitted(f, config, known) THEN << >>
  ELSE LET words == BinaryWords(f, config, known) IN <<Item(f.name, Len(words), words)>>

\* Mutant: counter, too, wants all of its parameters.
TooShortForFour(f, rows) == f.shape = "words" /\ Len(rows) \in 1..(f.fit - 1)

\* One operand of two is an IndexError.
TooShort(f, rows) == f.shape = "words" /\ f.fit = 2 /\ Len(rows) = 1

\* A dictionary cannot be looked up in obj_ids (TypeError), which gateway does for io2
\* only when io1 is known.
LooksUpAlias(f, rows, known) ==
  \E row \in Range(rows) \ {<< >>} :
    \/ f.shape \in {"names", "strictbinds"} /\ row[1].how = "alias"
    \/ f.shape = "strictbinds" /\ Id(row[1], known) # 0 /\ row[2].how = "alias"

\* Of sources and outputs, as many must be known.
EncodeRaises(f, config, known) ==
  LET value == Value(config, f.name)
      rows == IF value.list THEN value.rows ELSE << >> IN
  \/ f.shape = "pairs" /\ Len(Known(Sources(config), known)) # Len(Known(Outputs(config), known))
  \/ TooShort(f, rows)
  \/ LooksUpAlias(f, rows, known)

\* Mutant: a reference that is written as a list is not read.
TextWordsPlain(f, config) ==
  LET value == Value(config, f.name)
      words == WordsOf(f, config, Ref, Plain(value)) IN
  IF f.shape \in {"single", "chosen"} /\ words = << >> THEN <<0>> ELSE words

\* What the emitter of one field does: it always writes the item, but for a bound.
TextWords(f, config) ==
  LET value == Value(config, f.name)
      words == WordsOf(f, config, Ref, First(value)) IN
  IF f.shape \in {"single", "chosen"} /\ words = << >> THEN <<0>> ELSE words

GenerateField(f, config) ==
  IF f.shape = "bound" /\ ~Given(config, f.name) THEN << >>
  ELSE LET words == TextWords(f, config) IN <<Item(f.name, Len(words), words)>>

GenerateRaises(f, config) == f.shape = "pairs" /\ Len(Sources(config)) # Len(Outputs(config))

\* generate_prog_config writes a binding itself unless a field does, for a program with
\* inputs or outputs; adjust's own binding is of the first two.
HasCustomBinding(fields) ==
  \E i \in DOMAIN fields : fields[i].shape \in {"pairs", "list", "names", "binds", "strictbinds"}
WritesBinding(type, config) ==
  ~HasCustomBinding(Handlers[type].fields) /\ (Inputs(config) \o Outputs(config)) # << >>

\* The first of each side fills up the shorter one; a side without any is an IndexError.
BindingRaises(type, config) ==
  WritesBinding(type, config) /\ (Inputs(config) = << >> \/ Outputs(config) = << >>)
Padding(s, i) == IF i \in DOMAIN s THEN s[i] ELSE s[1]
StandardBinding(type, config) ==
  LET in == Inputs(config)
      out == Outputs(config)
      n == IF Len(in) > Len(out) THEN Len(in) ELSE Len(out) IN
  IF type = "adjust" THEN Item("iobind", 2, <<in[1], out[1]>>)
  ELSE Item("iobind", Len(in) + Len(out),
            [i \in 1..(2 * n) |-> IF i % 2 = 1 THEN Padding(in, (i + 1) \div 2)
                                  ELSE Padding(out, i \div 2)])

\* Mutant: the announced number leaves the binding out.
FieldsOnly(type, config) == Len(Handlers[type].fields)

\* Mutant: the binding is taken for one of the fields, which stats has none of.
FieldsWithBinding(type, config) ==
  Len(Handlers[type].fields) - (IF WritesBinding(type, config) THEN 0 ELSE 1)

Announced(type, config) ==
  Len(Handlers[type].fields) + (IF WritesBinding(type, config) THEN 1 ELSE 0)

\* output_shape_owned_virt_targets.  Four handlers take a list for one target.
Owned(type, config) ==
  LET handler == Handlers[type]
      Column(key) == IF type = "gateway" THEN (IF key = "io1" THEN 1 ELSE 2)
                     ELSE CASE key = "out" -> 2 [] key = "sel" -> 3 [] OTHER -> 4
      binds == Value(config, "iobind") IN
  UNION {IF type \in {"gateway", "buffer"}
         THEN UNION {IF row = << >> THEN {} ELSE Range(Resolve(row[Column(key)])) :
                     row \in (IF binds.list THEN Range(binds.rows) ELSE {})}
         ELSE IF key \in {"outputs", "targets"} THEN Range(References(Value(config, key)))
         ELSE IF type \in {"manytoone", "iomux", "selector", "switch"}
         THEN Range(First(Value(config, key)))
         ELSE Range(Plain(Value(config, key))) : key \in handler.owns}

-----------------------------------------------------------------------------
(* Checks of decode_objects: validate_object and validate_object_refs        *)

\* ios are the IOs the descriptor defines; nothing is known of other references.
IosOf(refs, ios) == Range(refs) \cap ios
PlainRef(config, key) == Plain(Value(config, key))
FirstCells(config, key) ==
  LET rows == Value(config, key).rows IN
  FlattenSeq([i \in DOMAIN rows |-> IF rows[i] = << >> THEN << >> ELSE Resolve(rows[i][1])])
RowIos(config, key, ios) == IosOf(FirstCells(config, key), ios)

\* A moved value keeps its dtype: the list against the single reference on the other side.
SameDtype(type, config, ios) ==
  \A i, j \in DOMAIN Handlers[type].fields :
    LET list == Handlers[type].fields[i]
        single == Handlers[type].fields[j] IN
    (list.shape = "list" /\ single.shape = "single" /\ single.name # "control") =>
      \A r \in IosOf(References(Value(config, list.name)), ios) :
        \A s \in IosOf(PlainRef(config, single.name), ios) : DtypeOf[r] = DtypeOf[s]

BitwiseOnly(refs) == \A r \in refs : DtypeOf[r] \in Bitwise

\* Mutant: only the field before is compared.
CheckFieldForgetful(sofar, row, width) ==
  LET shift == Number(row[2], 0)
      mask == Number(row[3], 0)
      field == {b \in 0..(2 * MaxWidth) : b >= shift /\ (mask \div 2^(b - shift)) % 2 = 1} IN
  IF mask = 0 \/ shift >= width \/ \E b \in field : b >= width
  THEN [sofar EXCEPT !.ok = FALSE]
  ELSE [ok |-> sofar.ok /\ sofar.used \cap field = {}, used |-> field]

\* _validate_field: an input's bits must not be empty, must fit the output and must not
\* overlap those of the inputs before it that fit.
CheckField(sofar, row, width) ==
  LET shift == Number(row[2], 0)
      mask == Number(row[3], 0)
      field == {b \in 0..(2 * MaxWidth) : b >= shift /\ (mask \div 2^(b - shift)) % 2 = 1} IN
  IF mask = 0 \/ shift >= width \/ \E b \in field : b >= width
  THEN [sofar EXCEPT !.ok = FALSE]
  ELSE [ok |-> sofar.ok /\ sofar.used \cap field = {}, used |-> sofar.used \cup field]

OutputWidth(config, ios) ==
  LET out == PlainRef(config, "output") IN
  IF out # << >> /\ out[1] \in ios /\ DtypeOf[out[1]] \in DOMAIN Width
  THEN Width[DtypeOf[out[1]]] ELSE MaxWidth

\* An input that is no mapping is passed over.
FieldsChecked(rows, width) ==
  LET checked[n \in 0..Len(rows)] ==
        IF n = 0 THEN [ok |-> TRUE, used |-> {}]
        ELSE IF rows[n] = << >> THEN checked[n - 1]
        ELSE CheckField(checked[n - 1], rows[n], width)
  IN checked[Len(rows)]

ValidMerge(config, ios) ==
  LET inputs == RowIos(config, "inputs", ios)
      batched == Known(FirstCells(config, "inputs"), Batched \cap ios)
      checked == FieldsChecked(Value(config, "inputs").rows, OutputWidth(config, ios)) IN
  /\ checked.ok
  /\ Len(batched) <= 1
  /\ \A r \in inputs : DtypeOf[r] \in DOMAIN Width
  /\ \A out \in IosOf(PlainRef(config, "output"), ios) :
       /\ DtypeOf[out] \in DOMAIN Width
       /\ Len(batched) = 1 =>
            /\ DtypeOf[batched[1]] \in DOMAIN Width
            /\ Width[DtypeOf[batched[1]]] = Width[DtypeOf[out]]

\* saturate: some bound, each within the range of the program's dtype and of every known
\* output's; sources of the program's dtype; fixed point only with fixed point.
BoundKeys(config) == {"min", "max"} \cap DOMAIN config
BoundOf(config, key) == config[key].rows[1][1].of
Within(config, d) ==
  \A key \in BoundKeys(config) : Span[d][1] <= BoundOf(config, key) /\ BoundOf(config, key) <= Span[d][2]

ValidSaturate(config, dtype, ios) ==
  /\ BoundKeys(config) # {}
  /\ dtype \in DOMAIN Span
  /\ Within(config, dtype)
  /\ BoundKeys(config) = {"min", "max"} => BoundOf(config, "min") <= BoundOf(config, "max")
  /\ LET pairs == Zip(Sources(config), Outputs(config)) IN
     \A i \in DOMAIN pairs :
       LET src == pairs[i][1]
           out == pairs[i][2] IN
       /\ \A r \in {src, out} \cap ios : DtypeOf[r] \in DOMAIN Span
       /\ src \in ios => DtypeOf[src] = dtype
       /\ {src, out} \subseteq ios => ((DtypeOf[src] = "b16") <=> (DtypeOf[out] = "b16"))
       /\ out \in ios => Within(config, DtypeOf[out])

Valid(type, config, dtype, ios) ==
  LET check == Handlers[type].check IN
  CASE check = "same" -> SameDtype(type, config, ios)
    [] check = "bitpack" -> BitwiseOnly(RowIos(config, "inputs", ios) \cup IosOf(PlainRef(config, "output"), ios))
    [] check = "bitsplit" -> BitwiseOnly(IosOf(Sources(config), ios) \cup IosOf(Outputs(config), ios))
    [] check = "bitmerge" -> ValidMerge(config, ios)
    [] check = "saturate" -> ValidSaturate(config, dtype, ios)
    [] check = "adjust" -> Len(Inputs(config)) = 1 /\ Len(Outputs(config)) = 1
    [] check = "ahrs" ->
         /\ \A key \in {"accel", "gyro", "output"} : PlainRef(config, key) # << >>
         /\ \A key \in {"accel", "gyro", "mag", "output"} :
              \A r \in IosOf(PlainRef(config, key), ios) : DtypeOf[r] = "float"
    [] OTHER -> TRUE
=============================================================================
