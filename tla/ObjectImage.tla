----------------------------- MODULE ObjectImage ------------------------------
(***************************************************************************)
(* One program, protocol or IO of a descriptor on its way into both        *)
(* images: decode_objects checks it, serialize_prog_object,                *)
(* serialize_proto_object or _serialize_io_object writes its items for     *)
(* desc-bin, field by field, generate_prog_config, generate_proto_config   *)
(* or generate_io_config its C++ text for desc-gen, and the firmware's     *)
(* compiler resolves the names of the text.  What each handler does with a *)
(* field is in ProgramHandlers, ProtocolHandlers and IoHandlers, and in    *)
(* NimbleHandlers and WakaamaHandlers for these two protocols;             *)
(* DescriptorImage has the order of objects, ids and counts of a whole     *)
(* descriptor.                                                             *)
(***************************************************************************)
EXTENDS IoHandlers, NimbleHandlers, WakaamaHandlers

CONSTANTS
  Program,       \* the programs a descriptor may hold: a type, a config and a dtype
  ProtocolEntry, \* the protocols: a type and a config
  IoEntry        \* the IOs: a type, a config, a dtype, a variant and the IOs before it

ASSUME ProgramAssumption ==
  \A p \in Program :
    /\ p.kind = "program" /\ p.type \in DOMAIN Handlers
    /\ \A key \in DOMAIN p.config : Table(p.config[key])
    /\ \A key \in DOMAIN p.config \cap {"inputs", "sources", "outputs", "data", "targets"} :
         p.config[key].list
    /\ \A key \in DOMAIN p.config : ~p.config[key].list =>
         Len(p.config[key].rows) = 1 /\ p.config[key].rows[1] # << >>
    /\ \A f \in Range(Handlers[p.type].encode) :
         f.shape \in {"rows", "binds", "strictbinds"} =>
           \A row \in Range(Value(p.config, f.name).rows) :
             row = << >> \/ Len(row) = f.refs + Len(f.defaults)
    /\ \A f \in Range(Handlers[p.type].encode) :
         LET value == Value(p.config, f.name) IN
         /\ f.shape \in {"word", "bound", "target", "defaulted"} => << >> \notin Range(value.rows)
         /\ f.shape = "words" => \A row \in Range(value.rows) : Len(row) = 1 /\ row[1].how = "number"
         /\ f.shape = "params" => value.list \/ Len(value.rows[1]) = Len(f.defaults)

ASSUME ProtocolAssumption ==
  \A p \in ProtocolEntry :
    /\ p.kind = "protocol" /\ p.type \in DOMAIN Protocols \cup {"nimble", "wakaama"}
    /\ \A key \in DOMAIN p.config :
         IF p.type = "wakaama" /\ key = "servers"
         THEN p.config[key].rows \in Seq(Range(p.config[key].rows)) ELSE Table(p.config[key])
    /\ p.type \in DOMAIN Protocols => \A key \in DOMAIN p.config \cap {"bindings", "iobind2", "objects", "registers"} :
         p.config[key].list
    /\ (p.type = "nimble" /\ "bas" \in DOMAIN p.config /\ ~p.config["bas"].list) =>
         Len(p.config["bas"].rows) = 1 /\ Len(p.config["bas"].rows[1]) = 1
    /\ p.type = "nimble" =>
         \A f \in {Aios, Ess, Imds, Ots} : \A row \in Range(ServiceRows(f, p.config)) :
           row = << >> \/ Len(row) = (IF f = Ots THEN 4 ELSE 2 + Len(f.defaults))
    /\ p.type = "nimble" =>
         \A row \in Range(Value(p.config, "custom").rows) : \A i \in DOMAIN row :
           i % 3 # 2 => row[i].how \notin {"name", "alias", "io"} /\ row[i].of \in Int
    /\ p.type = "nimble" =>
         /\ \A key \in DOMAIN p.config \cap {"gap_name", "aggregate"} : << >> \notin Range(p.config[key].rows)
         /\ \A row \in Range(ServiceRows(Aios, p.config)) :
              row # << >> /\ row[1].how = "type" => row[1].of \in DOMAIN AiosToken
    /\ p.type = "wakaama" =>
         \A row \in Range(Value(p.config, "objects").rows) :
           /\ \A cell \in Range(row) : cell.how = "symbol" => cell.of \in 0..Uint16Max
           /\ \A i \in ResourcesOf(row) :
                row[3 * i].how \in {"number", "symbol", "unknown", "empty", "missing", "scalar"}
    /\ p.type \in {"modbus_rtu", "modbus_tcp"} =>
         \A row \in Range(Value(p.config, "registers").rows) : row = << >> \/ Len(row) >= 3
    /\ p.type \in DOMAIN Protocols =>
         \A f \in Range(Protocols[p.type].encode) \cup Range(Protocols[p.type].fields) :
           \A row \in Range(Value(p.config, f.name).rows) :
             /\ f.shape = "option" => row # << >>
             /\ f.shape \in {"named", "objects"} => row = << >> \/ Len(row) >= 2
    /\ p.type = "wakaama" =>
         /\ \A key \in DOMAIN p.config \ {"servers", "objects"} :
              p.config[key].rows # << >> /\ << >> \notin Range(p.config[key].rows)
         /\ \A server \in Range(Value(p.config, "servers").rows) : \A key \in DOMAIN server :
              server[key].how = "number" => server[key].of \in Int
         /\ \A row \in Range(Value(p.config, "objects").rows) \ {<< >>} :
              row[1].how \in {"number", "symbol", "unknown", "empty", "missing"}

ASSUME IoAssumption ==
  \A p \in IoEntry :
    /\ p.kind = "io" /\ p.type \in DOMAIN Ios /\ p.before \subseteq Io
    /\ \A key \in DOMAIN p.config : Table(p.config[key])
    /\ \A key \in DOMAIN p.config \cap {"targets", "allowed"} :
         p.config[key].list /\ \A row \in Range(p.config[key].rows) : Len(row) = 1
    /\ \A f \in Range(Ios[p.type].encode) \cup Range(Ios[p.type].fields) :
         \A row \in Range(Value(p.config, f.name).rows) :
           /\ f.shape \in {"option", "flag"} => row # << >>
           /\ f.shape = "scalars" => Len(row) = 1 /\ row[1].how = "number"
           /\ f.shape = "limits" => \A cell \in Range(row) : cell.how \in {"number", "missing"}
           /\ f.shape = "flags" /\ row[1].how = "number" => row[1].of \in Nat
    /\ Mapping(p.config, "notify") => Len(p.config["notify"].rows) = 1
    /\ Mapping(p.config, "limits") => Len(p.config["limits"].rows) = 3

VARIABLES
  obj,        \* the entry (never written)
  defined,    \* names of the whole descriptor (never written)
  phase,      \* "decode", "binary", "text" (its header), "fields", "done"
  todo,       \* the fields the pass has left
  bin,        \* the items of the binary
  binResult,  \* "pending", "ok", "raised"
  text,       \* the items of the C++ array
  announced,  \* the number of items in front of them
  textResult  \* "pending", "ok", "raised", "rejected" (by the compiler)

input == <<obj, defined>>
binary == <<bin, binResult>>
source == <<text, announced, textResult>>
vars == <<input, phase, todo, binary, source>>

AtField(p) == phase = p /\ todo # << >>
field == Head(todo)

\* The three registries.
IsProgram == obj.kind = "program"
OfKind(program, protocol, io) ==
  IF IsProgram THEN program ELSE IF obj.kind = "protocol" THEN protocol ELSE io
OfProtocol(flat, nimble, wakaama) ==
  IF obj.type = "nimble" THEN nimble ELSE IF obj.type = "wakaama" THEN wakaama ELSE flat
handler ==
  OfKind(Handlers[obj.type], OfProtocol(Protocols[obj.type], Nimble, Wakaama), Ios[obj.type])

\* obj_ids when the object is encoded: programs have their ids registered first, and IOs
\* stand before programs and these before protocols.
known ==
  LET before == Ref \ Protocol IN
  defined \cap OfKind(before, before, (before \ Io) \cup obj.before)
dtype == BinaryDtype(obj.type, obj.dtype, obj.variant)

Accepts ==
  OfKind(Valid(obj.type, obj.config, obj.dtype, Io \cap defined),
         OfProtocol(ValidProtocol(obj.type, obj.config), ValidNimble(obj.config),
                    ValidWakaama(obj.config)), TRUE)

FieldRaises ==
  OfKind(EncodeRaises(field, obj.config, known),
         OfProtocol(BindingUnknown(field, obj.config, known), FALSE,
                    EncodeWakaamaRaises(field, obj.config, known)),
         EncodeIoRaises(field, obj.config, dtype, known))
BinaryItems ==
  OfKind(EncodeField(field, obj.config, known),
         OfProtocol(EncodeProtocolField(field, obj.config, known),
                    EncodeService(field, obj.config, known),
                    EncodeWakaama(field, obj.config, known)),
         EncodeIoField(field, obj.config, dtype))

TextFieldRaises ==
  OfKind(GenerateRaises(field, obj.config),
         OfProtocol(BlockRaises(field, obj.config), ServiceRaises(field, obj.config), FALSE),
         GenerateIoRaises(field, obj.config, obj.dtype))
TextItems ==
  OfKind(GenerateField(field, obj.config),
         OfProtocol(GenerateProtocolField(field, obj.config), GenerateService(field, obj.config),
                    GenerateWakaama(field, obj.config)),
         GenerateIoField(field, obj.config, obj.dtype))

\* Before any field: a program's own binding, or parse_spec, which sees the whole descriptor.
HeaderRaises ==
  OfKind(BindingRaises(obj.type, obj.config),
         OfProtocol(ContextRaises(obj.type, obj.config, Io \cap defined),
                    ServicesRaise(obj.config), ResourcesRaise(obj.config, known)), FALSE)

Init ==
  /\ obj \in Program \cup ProtocolEntry \cup IoEntry
  /\ defined \in SUBSET Ref
  /\ phase = "decode" /\ todo = << >>
  /\ bin = << >> /\ binResult = "pending"
  /\ text = << >> /\ announced = 0 /\ textResult = "pending"

-----------------------------------------------------------------------------
(* decode_objects: both back ends refuse what it refuses                     *)

Accept ==
  /\ phase = "decode"
  /\ Accepts
  /\ phase' = "binary" /\ todo' = handler.encode
  /\ UNCHANGED <<input, binary, source>>

Refuse ==
  /\ phase = "decode"
  /\ ~Accepts
  /\ phase' = "done"
  /\ UNCHANGED <<input, todo, binary, source>>

-----------------------------------------------------------------------------
(* desc-bin                                                                  *)

Encode ==
  /\ AtField("binary")
  /\ ~FieldRaises
  /\ bin' = bin \o BinaryItems
  /\ todo' = Tail(todo)
  /\ UNCHANGED <<input, phase, binResult, source>>

EncodingRaises ==
  /\ AtField("binary")
  /\ FieldRaises
  /\ binResult' = "raised"
  /\ phase' = "text" /\ todo' = << >>
  /\ UNCHANGED <<input, bin, source>>

EncodingDone ==
  /\ phase = "binary" /\ todo = << >>
  /\ binResult' = "ok"
  /\ phase' = "text"
  /\ UNCHANGED <<input, todo, bin, source>>

-----------------------------------------------------------------------------
(* desc-gen                                                                  *)

GenerateHeader ==
  /\ phase = "text"
  /\ ~HeaderRaises
  /\ announced' =
       OfKind(Announced(obj.type, obj.config),
              OfProtocol(ProtocolAnnounced(obj.type, obj.config), NimbleAnnounced(obj.config),
                         WakaamaAnnounced(obj.config)),
              IoAnnounced(obj.type, obj.config))
  /\ text' = IF IsProgram /\ WritesBinding(obj.type, obj.config)
             THEN <<StandardBinding(obj.type, obj.config)>> ELSE << >>
  /\ phase' = "fields" /\ todo' = handler.fields
  /\ UNCHANGED <<input, binary, textResult>>

Generate ==
  /\ AtField("fields")
  /\ ~TextFieldRaises
  /\ text' = text \o TextItems
  /\ todo' = Tail(todo)
  /\ UNCHANGED <<input, phase, binary, announced, textResult>>

GenerationRaises ==
  /\ \/ phase = "text" /\ HeaderRaises
     \/ AtField("fields") /\ TextFieldRaises
  /\ textResult' = "raised"
  /\ phase' = "done"
  /\ UNCHANGED <<input, todo, binary, text, announced>>

\* The compiler refuses a name without a macro (external).
Mentioned(items) ==
  (UNION {Range(items[i].words) : i \in DOMAIN items}) \cap (Ref \cup {Undeclared})

Compile ==
  /\ phase = "fields" /\ todo = << >>
  /\ textResult' = IF Mentioned(text) \subseteq defined THEN "ok" ELSE "rejected"
  /\ phase' = "done"
  /\ UNCHANGED <<input, todo, binary, text, announced>>

Next ==
  \/ Accept \/ Refuse
  \/ Encode \/ EncodingRaises \/ EncodingDone
  \/ GenerateHeader \/ Generate \/ GenerationRaises \/ Compile

Spec == Init /\ [][Next]_vars

-----------------------------------------------------------------------------
(* Properties *)

\* An item is of a field of the handler, a limit, or the binding the header writes.
ItemType ==
  [name : {f.name : f \in Range(handler.encode) \cup Range(handler.fields)}
            \cup Range(LimitKeys) \cup {"iobind"},
   size : Nat, words : Seq(Ref \cup {Undeclared} \cup Int)]

\* Every variable has its type.
TypeOK ==
  /\ obj.kind \in {"program", "protocol", "io"}
  /\ obj.type \in
       OfKind(DOMAIN Handlers, DOMAIN Protocols \cup {"nimble", "wakaama"}, DOMAIN Ios)
  /\ defined \subseteq Ref
  /\ phase \in {"decode", "binary", "text", "fields", "done"}
  /\ \E fields \in {handler.encode, handler.fields} : Len(todo) <= Len(fields)
  /\ bin \in Seq(ItemType) /\ text \in Seq(ItemType)
  /\ announced \in Nat
  /\ binResult \in {"pending", "ok", "raised"}
  /\ textResult \in {"pending", "ok", "raised", "rejected"}

config == obj.config
BoundAbsent ==
  \E i \in DOMAIN handler.fields :
    LET f == handler.fields[i] IN f.shape = "bound" /\ ~Given(config, f.name)

\* A custom service of nimble of which no characteristic is written.
ServiceEmpty ==
  /\ obj.type = "nimble"
  /\ \E i \in DOMAIN Value(config, "custom").rows :
       Value(config, "custom").rows[i] # << >> /\ TextEntries(Custom, config)[i] = << >>

\* The C++ array holds as many items as it announces, whatever the config leaves out and
\* whether or not the generator writes a binding of its own; but for a saturate program
\* with one bound and a custom service with nothing to write.
ItemsCounted == textResult = "ok" => BoundAbsent \/ ServiceEmpty \/ announced = Len(text)

\* A field of a program both back ends write alike: it is there, holds something, is written in a form
\* both read, and refers to what the binary pass knows.
WholeRow(f, row) ==
  f.shape \in {"binds", "strictbinds"} => \A i \in 1..f.refs : Resolve(row[i]) # << >>
RowRefs(f, row) == UNION {Range(Resolve(row[i])) : i \in 1..f.refs}
Whole(f) ==
  LET value == Value(config, f.name)
      rows == {row \in Range(value.rows) : row # << >> /\ WholeRow(f, row)} IN
  CASE f.shape = "pairs" ->
         /\ Sources(config) # << >>
         /\ Range(Sources(config)) \cup Range(Outputs(config)) \subseteq known
    [] f.shape = "pair" -> {Inputs(config)[1], Outputs(config)[1]} \subseteq known
    [] f.shape = "word" -> Given(config, f.name)
    [] f.shape \in {"single", "chosen"} ->
         First(value) # << >> /\ BinaryReading(f, config) = First(value)
           /\ Range(First(value)) \subseteq known
    [] f.shape \in {"list", "names"} ->
         References(value) # << >> /\ Range(References(value)) \subseteq known
    [] f.shape = "words" -> value.rows # << >> /\ f.fit \in {0, Len(value.rows)}
    [] f.shape \in {"rows", "binds", "strictbinds"} ->
         rows # {} /\ \A row \in rows : RowRefs(f, row) \subseteq known
    [] f.shape = "target" ->
         value.rows # << >> /\ Range(Resolve(value.rows[1][1])) \subseteq known
    [] f.shape = "params" -> ~Given(config, f.name) \/ ~value.list
    [] OTHER -> TRUE

\* stats is the one type whose binding the generator writes without a field for it.
WholeStats ==
  IF Inputs(config) \o Outputs(config) = << >> THEN Known(Sources(config), known) = << >>
  ELSE /\ Sources(config) = Inputs(config) /\ Len(Inputs(config)) = Len(Outputs(config))
       /\ Range(Inputs(config)) \cup Range(Outputs(config)) \subseteq known

\* The protocols' fields: what only one back end knows is not there, what the binary knows
\* of the references is what the text reads, and a group has all of its parameters, with a
\* type both read alike; can's text splits its objects up, the binary does not.
AlikeGroup(f, row) ==
  Known(FlexibleAll(Bindings(f, row)), known) = PlainAll(Bindings(f, row))
WholeProtocol(f) ==
  LET value == Value(config, f.name)
      rows == Range(value.rows) IN
  CASE f.shape = "option" -> f \in Range(handler.fields) \/ ~Given(config, f.name)
    [] f.shape = "named" ->
         LET refs == {Flexible(row[1]) : row \in rows \ {<< >>}} \ {<< >>} IN
         ~Given(config, f.name) \/ (refs # {} /\ \A ref \in refs : ref[1] \in known)
    [] f.shape = "unnamed" -> Range(FlexibleRefs(value)) \cap known = {}
    [] f.shape = "objects" ->
         /\ Len(value.rows) <= 1
         /\ \A row \in rows :
              /\ AlikeGroup(f, row) /\ row[2].how # "missing"
              /\ \/ row[1].how = "number"
                 \/ row[1].how # "missing" /\ DefaultType = PushType
    [] f.shape = "registers" ->
         \A row \in rows :
           AlikeGroup(f, row) /\ TextType(row[1]) = Number(row[1], DefaultType)
    [] OTHER -> TRUE

\* Nimble's: aios, ess and imds are there, and what they measure has a name that is a key of
\* the header's enum and of the schema, its references are known and read alike, and the
\* extensions of aios come in the order of both; bas has an IO, ots an object.
ReadAlike(f, cell) == BinaryRef(cell, known) = TextRef(f, cell)
WholeSensor(f, row) ==
  LET dropped == BinaryKind(f, row[1]) = << >> \/ BinaryRef(row[2], known) = << >> IN
  IF TextKind(f, row[1]) = << >> \/ TextRef(f, row[2]) = << >> THEN dropped
  ELSE /\ ~dropped
       /\ BinaryKind(f, row[1]) = TextKind(f, row[1])
       /\ \A k \in DOMAIN f.defaults : Range(Flexible(row[2 + k])) \subseteq known
       /\ f.name = "aios" => ~Present(row[4]) \/ ~(Present(row[5]) \/ Present(row[6]))
WholeService(f) ==
  LET rows == Range(Value(config, f.name).rows) \ {<< >>} IN
  CASE f.name = "bas" ->
         Given(config, "bas") =>
           \A row \in rows : Resolve(row[1]) # << >> /\ ReadAlike(f, row[1])
    [] f.name \in Sensing ->
         Given(config, f.name) /\ ~NoMapping(f, config) /\ \A row \in rows : WholeSensor(f, row)
    [] f.name = "ots" ->
         Given(config, "ots") =>
           /\ \A row \in rows : ReadAlike(f, row[1])
           /\ \E row \in rows : Resolve(row[1]) # << >>
    [] f.name = "custom" ->
         \A row \in rows : \A c \in CharacteristicsOf(row) :
           "missing" \in {row[1].how, row[3 * c].how} \/ ReadAlike(f, row[3 * c - 1])
    [] OTHER -> TRUE

\* Wakaama's: what the device mapping refers to is known.
WholeWakaama(f) ==
  (f.shape = "devicebind" /\ Given(config, f.name)) =>
    Range(Resolve(config[f.name].rows[1][1])) \subseteq known

\* The IOs': notify is a mapping, limits have the same words in the dtypes of both, a flag
\* is 0 or 1, and what the text of control and trigger passes over is not there.
WholeIo(f) ==
  LET written == f \in Range(handler.fields) IN
  CASE f.shape = "option" -> written \/ ~Given(config, f.name)
    [] f.shape = "notify" ->
         IF written THEN Given(config, f.name) => Mapping(config, f.name)
         ELSE ~Mapping(config, f.name)
    [] f.shape = "limits" ->
         IF written THEN
           dtype = obj.dtype
             \/ \A cell \in LimitValues(config) :
                  obj.dtype \notin Wide /\ (obj.dtype = "float" => cell.of = 0)
         ELSE LimitsGiven(config) = << >>
    [] f.shape = "flag" -> Numeral(Value(config, f.name), 1, 0) \in {0, 1}
    [] OTHER -> TRUE

\* The fields of leds, rgb_led, adc_stream and adc_sync that an encode_binary leaves to
\* another path: "init_val handled by standard path" (io_leds.py, io_rgb_led.py), "Defer to
\* the generic encoder" (io_adc_stream.py, io_adc_sync.py).
Deferred == {"init_val", "batch_size", "trigger_freq"}
OtherItems(items) == {item \in Range(items) : item.name \notin Deferred}

\* But for the fields that are left to another path, the two back ends write the same items
\* for an object exactly when its fields are whole: no other form of any field makes the
\* two images differ, and none of these is harmless.
AgreeIffWhole ==
  (binResult = "ok" /\ textResult = "ok") =>
    LET encode == handler.encode IN
    (OtherItems(bin) = OtherItems(text)) <=>
      CASE ~IsProgram ->
             /\ \A f \in Range(encode) : 
                  OfKind(TRUE, OfProtocol(WholeProtocol(f), WholeService(f), WholeWakaama(f)),
                         WholeIo(f))
             /\ \A f \in Range(handler.fields) \ Range(encode) :
                  f.name \in Deferred \/ ~Given(config, f.name)
        [] obj.type = "stats" -> WholeStats
        [] OTHER -> \A i \in DOMAIN encode : Whole(encode[i])

\* Every target whose shape the program owns is in the C++ array, but for a binding with
\* an end that is not there, and in the binary too when its fields are whole.
Incomplete ==
  /\ obj.type \in {"gateway", "buffer"}
  /\ \E row \in Range(Value(config, "iobind").rows) :
       row # << >> /\ ~WholeRow(handler.fields[1], row)
OwnedReached ==
  (IsProgram /\ textResult = "ok") =>
    \/ Incomplete
    \/ /\ Owned(obj.type, config) \subseteq Mentioned(text)
       /\ (binResult = "ok" /\ Range(bin) = Range(text)) =>
            Owned(obj.type, config) \subseteq Mentioned(bin)

IosIn(items, name) ==
  (UNION {Range(items[i].words) : i \in {j \in DOMAIN items : items[j].name = name}})
    \cap Io \cap defined
MovesAlike(items) ==
  \A i, j \in DOMAIN items :
    {items[i].name, items[j].name} \cap {"control"} = {} =>
      \A r \in IosIn(items, items[i].name), s \in IosIn(items, items[j].name) :
        items[i].name # items[j].name => DtypeOf[r] = DtypeOf[s]

\* A program that moves values unchanged moves them, in the binary, between IOs of one
\* dtype; so too in the C++ array, unless it writes its one target as a list, which is
\* not looked at when dtypes are compared.
MovedAlike ==
  (IsProgram /\ Handlers[obj.type].check = "same") =>
    /\ binResult = "ok" => MovesAlike(bin)
    /\ (textResult = "ok" /\ \A f \in Range(handler.fields) :
          f.shape = "single" => ~Value(config, f.name).list \/ ~Given(config, f.name))
         => MovesAlike(text)

\* The registers of the blocks of RTU whose type is given do not overlap in the C++ array,
\* in the address space of the type that is written, and seekable ones fit the file numbers.
SpaceOf(row) ==
  IF TextType(row[1]) \in DOMAIN Space THEN Space[TextType(row[1])] ELSE "none"
RegistersIn(row) ==
  IF SpaceOf(row) = "none" THEN {}
  ELSE {Start(row) + n : n \in 0..(SpanOf(TextType(row[1]), row, Io \cap defined) - 1)}
RegistersApart ==
  (obj.kind = "protocol" /\ obj.type = "modbus_rtu" /\ textResult = "ok") =>
    LET rows == Value(config, "registers").rows
        given == {i \in DOMAIN rows : rows[i][1].how # "missing"} IN
    /\ \A i, j \in given :
         (i # j /\ SpaceOf(rows[i]) = SpaceOf(rows[j])) =>
           RegistersIn(rows[i]) \cap RegistersIn(rows[j]) = {}
    /\ \A i \in given :
         SpaceOf(rows[i]) = "seekable" => RegistersIn(rows[i]) \subseteq 0..(MaxRegister - 1)

\* The inputs a merged image carries take up bits of their own, within the output.
BitsOf(item, i) ==
  {b \in 0..(2 * MaxWidth) :
     b >= item.words[3 * i - 1] /\ (item.words[3 * i] \div 2^(b - item.words[3 * i - 1])) % 2 = 1}
MergedApart ==
  (IsProgram /\ obj.type = "bitmerge" /\ binResult = "ok") =>
    \A k \in DOMAIN bin : bin[k].name = "inputs" =>
      LET n == Len(bin[k].words) \div 3 IN
      /\ \A i, j \in 1..n : i # j => BitsOf(bin[k], i) \cap BitsOf(bin[k], j) = {}
      /\ \A i \in 1..n : \A out \in IosIn(bin, "output") :
           BitsOf(bin[k], i) \subseteq 0..(Width[DtypeOf[out]] - 1)

\* A resource of wakaama that the C++ array has under a number with a rule is bound to an IO
\* of a dtype of that rule, unless the config gave the number itself.
NumberGiven(n) ==
  \E row \in Range(Value(config, "objects").rows) :
    \E i \in ResourcesOf(row) : row[3 * i].how # "symbol" /\ BinaryId(row[3 * i]) = n
ResourcesTyped ==
  (obj.kind = "protocol" /\ obj.type = "wakaama" /\ textResult = "ok") =>
    \A item \in {it \in Range(text) : it.name = "objects"} :
      \A i \in 1..(Len(item.words) \div 3) :
        LET n == item.words[3 * i - 1] % (Uint16Max + 1)
            ref == item.words[3 * i] IN
        (n \in DOMAIN ResourceDtypes /\ ref \in Io /\ ~NumberGiven(n)) =>
          DtypeOf[ref] \in ResourceDtypes[n]

\* What the checks let through is sound where a device could only misbehave: values move
\* between IOs of one dtype, register blocks and merged inputs do not meet, and a resource
\* has a dtype that its name allows.
AcceptedIsSound == MovedAlike /\ RegistersApart /\ MergedApart /\ ResourcesTyped

\* The binary is refused only for sources and outputs of which not as many are known, an
\* operator with one operand, an alias where gateway and sequencer want names, or a binding
\* of a protocol that is not known; the text only for sources and outputs that do not
\* match, a side without any where the generator writes the binding itself, registers of
\* TCP that are no mapping, or registers of RTU that meet in one space or do not fit.  One
\* back end refuses an IO and the other does not only for limits, an init_value of a fixed
\* point dtype, of char or without values, or a target that stands later; and a wakaama
\* only for a symbol that is none, or the rule of a resource.
ProgramCause ==
  /\ binResult = "raised" =>
       \/ /\ IoBind \in Range(handler.encode)
          /\ Cardinality({i \in DOMAIN Sources(config) : Sources(config)[i] \in known})
               # Cardinality({i \in DOMAIN Outputs(config) : Outputs(config)[i] \in known})
       \/ obj.type = "expression" /\ Len(Value(config, "op").rows) = 1
       \/ obj.type = "toggle" /\ Len(Value(config, "values").rows) = 1
       \/ obj.type \in {"gateway", "sequencer"} /\
            \E key \in DOMAIN config : \E row \in Range(config[key].rows) :
              \E i \in DOMAIN row : row[i].how = "alias"
  /\ textResult = "raised" =>
       \/ IoBind \in Range(handler.fields) /\ Len(Sources(config)) # Len(Outputs(config))
       \/ /\ obj.type \in {"stats", "adjust", "switch", "bitpack", "bitmerge", "ahrs"}
          /\ (Inputs(config) = << >>) # (Outputs(config) = << >>)
ProtocolCause ==
  LET rows == Value(config, "registers").rows IN
  /\ binResult = "raised" =>
       Standard \in Range(handler.encode) /\ ~(Range(References(Value(config, "bindings"))) \subseteq known)
  /\ textResult = "raised" =>
       \/ obj.type = "modbus_tcp" /\ << >> \in Range(rows)
       \/ /\ obj.type = "modbus_rtu"
          /\ \E i, j \in DOMAIN rows :
               \/ /\ i # j /\ SpaceOf(rows[i]) = SpaceOf(rows[j])
                  /\ RegistersIn(rows[i]) \cap RegistersIn(rows[j]) # {}
               \/ SpaceOf(rows[i]) = "seekable" /\
                    \/ Start(rows[i]) < 0 \/ Start(rows[i]) > MaxRegister
                    \/ Number(rows[i][2], 0) < 0
                    \/ ~(RegistersIn(rows[i]) \subseteq 0..(MaxRegister - 1))
IoCause ==
  /\ (binResult = "raised" /\ textResult = "ok") =>
       \/ LimitsGiven(config) # << >>
       \/ Given(config, "init_value") /\ obj.dtype \in {"b16", "ub16"}
       \/ (Range(References(Value(config, "targets"))) \cap defined) \ known # {}
  /\ (binResult = "ok" /\ textResult = "raised") =>
       /\ Given(config, "init_value")
       /\ obj.dtype = "char" \/ config["init_value"].rows = << >>
NimbleCause ==
  /\ binResult # "raised"
  /\ textResult = "raised" =>
       \E key \in DOMAIN config : key # "custom" /\ (key = "services" \/ config[key].list)
WakaamaCause ==
  LET rows == Range(Value(config, "objects").rows) IN
  /\ (binResult = "raised" /\ textResult = "ok") =>
       \E row \in rows : \E i \in DOMAIN row : row[i].how \in {"empty", "unknown"}
  /\ (binResult = "ok" /\ textResult = "raised") =>
       \E row \in rows : \E i \in ResourcesOf(row) : \E ref \in Range(Resolve(row[3 * i + 2])) :
         \/ /\ row[3 * i].how = "symbol" /\ row[3 * i].of \in DOMAIN ResourceDtypes
            /\ DtypeBound(ref) \notin ResourceDtypes[row[3 * i].of]
         \/ row[3 * i + 1].how = "number" /\ DtypeBound(ref) # "uint8"
RaisesForCause ==
  OfKind(ProgramCause, OfProtocol(ProtocolCause, NimbleCause, WakaamaCause), IoCause)

\* What nimble's text binds, the graph and the summary show as bound, but for what belongs to
\* a measurement as such and for a group of aios that has a type; so too what its binary
\* binds, but for a group that has a key of the header instead of one of the four lists.
\* The allocation lists nothing else.
Metadata ==
  UNION {UNION {UNION {Range(Flexible(row[2 + k])) : k \in 1..(Len(row) - 2)} :
                  row \in Range(Value(config, key).rows)} : key \in Sensing}
Unlisted(how) ==
  UNION {IF row = << >> \/ row[1].how # how \/ (how = "key" /\ row[1].of \in DOMAIN GroupField)
         THEN {} ELSE Range(Flexible(row[2])) : row \in Range(ServiceRows(Aios, config))}
ReportedIsBound ==
  (obj.kind = "protocol" /\ obj.type = "nimble") =>
    /\ Mentioned(text) \ (Metadata \cup Unlisted("type")) \subseteq NimbleBindings(config)
    /\ Mentioned(bin) \ (Metadata \cup Unlisted("key")) \subseteq NimbleBindings(config)
    /\ NimbleAllocated(config) \subseteq NimbleBindings(config)

\* What one part of the tool says of an object holds for the image another part makes: a
\* target whose shape the program owns is in it, and so is what reports show as bound.
ClaimsHold == OwnedReached /\ ReportedIsBound
=============================================================================
