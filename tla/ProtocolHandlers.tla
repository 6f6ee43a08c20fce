---------------------------- MODULE ProtocolHandlers ----------------------------
(***************************************************************************)
(* The handlers of the protocols whose config is flat or a list of groups *)
(* of bindings, descriptor/handlers/proto_*.py, in the terms of            *)
(* ProgramHandlers: fields of a shape each.  Here a field gives an item to *)
(* the text only where the config has it, the two back ends do not know    *)
(* the same fields of every type, and each emitter reads references in its *)
(* own way.  A string is one word.  A group (an object of can, a block of  *)
(* registers of modbus) is a row with a cell per parameter, its type the   *)
(* first, and then one per binding.                                        *)
(***************************************************************************)
EXTENDS ProgramHandlers

CONSTANTS
  DefaultType,  \* the type binary takes for one it does not know: the first of the enum
  PushType,     \* the type can's text takes for one it does not know
  HoldingType,  \* the type modbus' text takes when there is none
  Space,        \* _modbus_address_space: of each type of registers
  SingleBit,    \* the types with one coil for each binding
  RegistersOf,  \* registers of a dtype, where it takes more than one
  Window,       \* registers of a seekable window, by default
  MaxRegister   \* the end of the file numbers a seekable block may reach

ASSUME ProtocolHandlersAssumption ==
  /\ {DefaultType, PushType, HoldingType} \subseteq Nat \ {0}
  /\ DOMAIN Space \subseteq Nat \ {0} /\ SingleBit \subseteq DOMAIN Space
  /\ \A t \in DOMAIN Space : Space[t] # "none"
  /\ \A d \in DOMAIN RegistersOf : RegistersOf[d] \in Nat \ {0}
  /\ Window \in Nat \ {0} /\ MaxRegister \in Nat

-----------------------------------------------------------------------------
(* Fields                                                                    *)

\* resolve_flexible_reference also reads {io: ...} and {ref: ...}.
Flexible(cell) == IF cell.how = "io" THEN <<cell.of>> ELSE Resolve(cell)
FlexibleAll(cells) == FlattenSeq([i \in DOMAIN cells |-> Flexible(cells[i])])
PlainAll(cells) == FlattenSeq([i \in DOMAIN cells |-> Resolve(cells[i])])

Option(name) == Field(name, "option", 0, <<0>>, 0)
Standard == Field("bindings", "bindings", 1, << >>, 0)
IoBind2 == Field("iobind2", "named", 1, <<0>>, 0)
Unnamed == Field("bindings", "unnamed", 1, << >>, 0)
Objects == Field("objects", "objects", 0, <<DefaultType, 0>>, 0)
Registers == Field("registers", "registers", 0, <<DefaultType, 0, 0>>, 0)

Differing(encode, fields) == [encode |-> encode, fields |-> fields]
Alike(fields) == Differing(fields, fields)

DummyProto == Alike(<<Standard>>)
Serial == Alike(<<Option("path"), Option("baudrate"), Standard>>)
Udp == Alike(<<Option("port"), Standard>>)
Ipc == Alike(<<Option("rx_path"), Option("tx_path"), Standard>>)
Shell == Differing(<<Option("path"), Option("prompt"), Standard>>, <<Option("prompt"), Standard>>)
NxscopeDummy == Differing(<<IoBind2, Unnamed>>, <<IoBind2>>)
NxscopeSerial ==
  LET link == <<Option("path"), Option("baudrate")>> IN
  Differing(<<IoBind2, Unnamed>> \o link, <<IoBind2>> \o link)
NxscopeUdp == Differing(<<IoBind2, Unnamed, Option("port")>>, <<IoBind2, Option("port")>>)
Can == Differing(<<Option("device"), Option("node_id"), Objects>>, <<Option("node_id"), Objects>>)
ModbusRtu ==
  Differing(<<Option("path"), Option("baudrate"), Registers>>,
            <<Option("path"), Option("port"), Registers>>)
ModbusTcp ==
  Differing(<<Option("port"), Registers>>, <<Option("path"), Option("port"), Registers>>)

\* PROTO_HANDLER_REGISTRY, but for nimble and wakaama.
Protocols ==
  [dummy |-> DummyProto, serial |-> Serial, udp |-> Udp, ipc |-> Ipc, shell |-> Shell,
   nxscope_dummy |-> NxscopeDummy, nxscope_serial |-> NxscopeSerial,
   nxscope_udp |-> NxscopeUdp, can |-> Can, modbus_rtu |-> ModbusRtu,
   modbus_tcp |-> ModbusTcp]

-----------------------------------------------------------------------------
(* Groups                                                                    *)

Bindings(f, row) == SubSeq(row, Len(f.defaults) + 1, Len(row))

\* Binary: a parameter that is not there, or a type in capitals or not in the enum, is
\* the default; how many bindings follow is a word of its own.
GroupWords(f, row, known) ==
  LET refs == Known(FlexibleAll(Bindings(f, row)), known) IN
  [i \in DOMAIN f.defaults |-> Number(row[i], f.defaults[i])] \o <<Len(refs)>> \o refs

\* can's text leaves out a parameter that is not there, and takes an unknown type as PUSH.
ObjectWords(f, row) ==
  LET refs == PlainAll(Bindings(f, row))
      Param(i) == IF row[i].how = "missing" THEN << >>
                  ELSE <<Number(row[i], PushType)>> IN
  Param(1) \o Param(2) \o <<Len(refs)>> \o refs

\* modbus' text reads a type in any case, takes none as holding and an unknown one as 0.
TextType(cell) ==
  CASE cell.how = "missing" -> HoldingType
    [] cell.how \in {"number", "capitals"} -> cell.of
    [] OTHER -> 0
BlockWords(f, row) ==
  LET refs == PlainAll(Bindings(f, row)) IN
  <<TextType(row[1]), Number(row[2], 0), Number(row[3], 0), Len(refs)>> \o refs

-----------------------------------------------------------------------------
(* Items                                                                     *)

NamedWords(f, value, known) ==
  FlattenSeq([i \in DOMAIN value.rows |->
    LET ref == IF value.rows[i] = << >> THEN << >>
               ELSE Known(Flexible(value.rows[i][1]), known) IN
    IF ref = << >> THEN << >> ELSE <<ref[1], Number(value.rows[i][2], 0)>>])

FlexibleRefs(value) ==
  FlattenSeq([i \in DOMAIN value.rows |->
    IF Len(value.rows[i]) = 1 THEN Flexible(value.rows[i][1]) ELSE << >>])

ProtocolWords(f, config, known) ==
  LET value == Value(config, f.name) IN
  CASE f.shape = "option" -> IF Given(config, f.name) THEN <<Numeral(value, 1, 0)>> ELSE << >>
    [] f.shape = "bindings" -> References(value)
    [] f.shape = "named" -> NamedWords(f, value, known)
    [] f.shape = "unnamed" -> Known(FlexibleRefs(value), known)
    [] OTHER -> FlattenSeq([i \in DOMAIN value.rows |->
         IF value.rows[i] = << >> THEN << >> ELSE GroupWords(f, value.rows[i], known)])

EncodeProtocolField(f, config, known) ==
  LET words == ProtocolWords(f, config, known) IN
  IF words = << >> THEN << >> ELSE <<Item(f.name, Len(words), words)>>

\* named_refs_to_objid_words: every binding must have its id (KeyError).
BindingUnknown(f, config, known) ==
  f.shape = "bindings" /\ ~(Range(References(Value(config, f.name))) \subseteq known)

\* The text has an item per object of can, one for the registers, and iobind2 though empty.
GenerateProtocolField(f, config) ==
  LET rows == Value(config, f.name).rows IN
  CASE f.shape = "objects" ->
         [i \in DOMAIN rows |->
            Item(f.name, 3 + Len(PlainAll(Bindings(f, rows[i]))), ObjectWords(f, rows[i]))]
    [] f.shape = "registers" /\ rows # << >> ->
         LET words == FlattenSeq([i \in DOMAIN rows |-> BlockWords(f, rows[i])]) IN
         <<Item(f.name, Len(words), words)>>
    [] f.shape = "named" /\ Given(config, f.name) ->
         LET words == NamedWords(f, Value(config, f.name), Ref) IN
         <<Item(f.name, Len(words), words)>>
    [] OTHER -> EncodeProtocolField(f, config, Ref)

\* A block that is not a mapping is an AttributeError.
BlockRaises(f, config) == f.shape = "registers" /\ << >> \in Range(Value(config, f.name).rows)

Total(numbers) ==
  LET sum[n \in 0..Len(numbers)] == IF n = 0 THEN 0 ELSE sum[n - 1] + numbers[n]
  IN sum[Len(numbers)]

\* count_config_items, and the counts of can and modbus.
CountOf(f, config) ==
  CASE f.shape \in {"option", "named"} -> IF Given(config, f.name) THEN 1 ELSE 0
    [] f.shape = "bindings" -> IF References(Value(config, f.name)) # << >> THEN 1 ELSE 0
    [] f.shape = "objects" -> Len(Value(config, f.name).rows)
    [] OTHER -> IF Value(config, f.name).rows # << >> THEN 1 ELSE 0
ProtocolAnnounced(type, config) ==
  LET fields == Protocols[type].fields IN
  Total([i \in DOMAIN fields |-> CountOf(fields[i], config)])

-----------------------------------------------------------------------------
(* Checks                                                                    *)

\* validate_object: objects, and the registers of RTU, are mappings.
ValidProtocol(type, config) ==
  /\ type = "can" => << >> \notin Range(Value(config, "objects").rows)
  /\ type = "modbus_rtu" => << >> \notin Range(Value(config, "registers").rows)

\* A type is looked at in lower case; a block without one, or of another, is passed over.
CheckedType(row) == IF row[1].how \in {"number", "capitals"} THEN row[1].of ELSE 0
Checked(row) == CheckedType(row) \in DOMAIN Space
BlockSpace(row) == Space[CheckedType(row)]
Start(row) == Number(row[3], 0)

\* _modbus_binding_registers, in a block of the type.
WidthOf(type, setting, ref, ios) ==
  IF type \in SingleBit THEN 1
  ELSE IF Space[type] = "seekable" THEN (IF setting > 0 THEN setting ELSE Window) + 1
  ELSE IF ref \in ios /\ DtypeOf[ref] \in DOMAIN RegistersOf THEN RegistersOf[DtypeOf[ref]]
  ELSE 1
SpanOf(type, row, ios) ==
  LET refs == PlainAll(Bindings(Registers, row)) IN
  Total([i \in DOMAIN refs |-> WidthOf(type, Number(row[2], 0), refs[i], ios)])
End(row, ios) == Start(row) + SpanOf(CheckedType(row), row, ios)

OutOfFile(row, ios) ==
  BlockSpace(row) = "seekable"
    /\ (Start(row) < 0 \/ End(row, ios) > MaxRegister \/ Number(row[2], 0) < 0)

Overlap(r, s, ios) ==
  /\ BlockSpace(r) = BlockSpace(s)
  /\ End(r, ios) > Start(r) /\ End(s, ios) > Start(s)
  /\ Start(s) < End(r, ios) /\ Start(r) < End(s, ios)

\* validate_descriptor_context, of desc-gen and of RTU only: blocks of one address space
\* must not overlap, each compared with those before it.
ContextRaises(type, config, ios) ==
  LET rows == Value(config, "registers").rows IN
  /\ type = "modbus_rtu"
  /\ \E j \in DOMAIN rows :
       /\ Checked(rows[j])
       /\ \/ OutOfFile(rows[j], ios)
          \/ \E i \in 1..(j - 1) : Checked(rows[i]) /\ Overlap(rows[i], rows[j], ios)
=============================================================================
