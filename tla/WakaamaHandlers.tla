---------------------------- MODULE WakaamaHandlers -----------------------------
(***************************************************************************)
(* The handler of the wakaama protocol (an LwM2M client),                  *)
(* descriptor/handlers/proto_wakaama.py, in the terms of ProtocolHandlers. *)
(* The keys of its device mapping are keys of the config here; "device" is *)
(* there only where it is no mapping.  A server is a function from its     *)
(* keys to cells, << >> where it is no mapping.  An entry of objects is a  *)
(* row of its object, its instance and, for each resource, a resource, an  *)
(* access and an IO ("scalar" for a resource that is no mapping).          *)
(*                                                                         *)
(* An object or resource is a number, a symbol of the firmware's header    *)
(* (by its value), a symbol it does not have ("unknown"), or the empty     *)
(* string beside a number ("empty").                                       *)
(***************************************************************************)
EXTENDS ProtocolHandlers

CONSTANTS
  Uint16Max,      \* the greatest number of 16 bits, scaled down
  Uint32Max,      \* the greatest number of 32 bits, scaled down
  ResourceDtypes, \* of a resource with a rule, the dtypes it takes, by its value
  Triggers,       \* the IOs of type trigger
  Undeclared      \* what the text calls a symbol that the header does not have

ASSUME WakaamaAssumption ==
  /\ {Uint16Max, Uint32Max} \subseteq Nat
  /\ Triggers \subseteq Io
  /\ Undeclared \notin Ref \cup Int

-----------------------------------------------------------------------------
(* Fields                                                                    *)

\* The one server of old is written only where servers has none.
Fallback(name) == Field(name, "fallback", 0, <<0>>, 0)
Servers == Field("servers", "servers", 0, << >>, 0)
DeviceBind(name) == Field(name, "devicebind", 1, << >>, 0)
Resources == Field("objects", "resources", 0, <<0, 1>>, 0)

OneServer == <<Fallback("server_host"), Fallback("server_port"), Fallback("lifetime")>>
Device ==
  <<Option("manufacturer"), Option("model_number"), Option("serial_number"),
    Option("firmware_version"), DeviceBind("battery_voltage"), DeviceBind("battery_level"),
    DeviceBind("battery_status")>>

\* The text has a queue_mode, the binary does not know it.
Wakaama ==
  Differing(<<Option("endpoint"), Option("local_port"), Servers>> \o OneServer \o Device
              \o <<Resources>>,
            <<Option("endpoint"), Option("local_port"), Option("queue_mode")>> \o OneServer
              \o Device \o <<Servers, Resources>>)

-----------------------------------------------------------------------------
(* Checks of the object alone                                                *)

InRange(cell, max) == cell.how = "number" /\ cell.of \in 0..max
IdInRange(cell, max) == cell.how \in {"number", "empty"} => cell.of \in 0..max

Short == {"port", "server_port", "short_server_id", "security_instance", "server_instance"}
Long == {"lifetime", "holdoff", "bootstrap_timeout"}
Setting(server, key, default) ==
  IF Given(server, key) THEN Number(server[key], default) ELSE default
Bootstrap(server) == Setting(server, "bootstrap", 0) # 0
Psk(server) == Setting(server, "security_mode", 3) = 0
Coaps(server) == Setting(server, "scheme", 0) = 1

\* _validate_server_entry; a string is a number here, and so is a scheme or mode by name.
ValidServer(server) ==
  /\ server # << >>
  /\ \A key \in {"host", "scheme", "security_mode"} \cap DOMAIN server : server[key].how = "number"
  /\ {"port", "server_port"} \cap DOMAIN server # {}
  /\ (IF Bootstrap(server) THEN {"holdoff"} ELSE {"lifetime", "short_server_id"})
       \subseteq DOMAIN server
  /\ Psk(server) =>
       /\ Coaps(server)
       /\ \A key \in {"psk_identity", "psk_key"} :
            Given(server, key) /\ server[key].how = "number"
  /\ \A key \in Short \cap DOMAIN server : InRange(server[key], Uint16Max)
  /\ \A key \in Long \cap DOMAIN server : InRange(server[key], Uint32Max)

ResourcesOf(row) == 1..((Len(row) - 2) \div 3)
ValidEntry(row) ==
  /\ row # << >>
  /\ IdInRange(row[1], Uint16Max)
  /\ row[2].how = "missing" \/ InRange(row[2], Uint16Max)
  /\ \A i \in ResourcesOf(row) :
       /\ row[3 * i].how # "scalar"
       /\ IdInRange(row[3 * i], Uint16Max)
       /\ row[3 * i + 1].how \in {"number", "missing"}

\* validate_object.
ValidWakaama(config) ==
  /\ \A key \in {"server_port", "local_port", "queue_mode"} \cap DOMAIN config :
       InRange(config[key].rows[1][1], Uint16Max)
  /\ Given(config, "lifetime") => InRange(config["lifetime"].rows[1][1], Uint32Max)
  /\ Given(config, "servers") => config["servers"].list
  /\ \A server \in Range(Value(config, "servers").rows) : ValidServer(server)
  /\ ~Given(config, "device")
  /\ Given(config, "objects") => config["objects"].list
  /\ \A row \in Range(Value(config, "objects").rows) : ValidEntry(row)

-----------------------------------------------------------------------------
(* Servers                                                                   *)

Pair16(high, low) == high * (Uint16Max + 1) + low
Magic == 1464549681
Extended(server) ==
  {"scheme", "security_mode", "psk_identity", "psk_key", "bootstrap", "holdoff",
   "bootstrap_timeout"} \cap DOMAIN server # {}
Flags(server) ==
  256 * Setting(server, "security_mode", 3) + (IF Coaps(server) THEN 1 ELSE 0)
    + (IF Bootstrap(server) THEN 2^16 ELSE 0)

\* _server_word_blocks, of both back ends; the i-th server has instances i - 1 by default.
ServerWords(server, i) ==
  LET port == IF Given(server, "port") THEN server["port"].of ELSE server["server_port"].of
      host == IF Given(server, "host") THEN <<server["host"].of>> ELSE << >>
      more == <<Setting(server, "psk_identity", 0), Setting(server, "psk_key", 0)>> IN
  <<Pair16(Setting(server, "security_instance", i - 1), Setting(server, "server_instance", i - 1)),
    Pair16(Setting(server, "short_server_id", 0), port), Setting(server, "lifetime", 0)>>
  \o IF Extended(server)
     THEN <<Magic, Flags(server), Setting(server, "holdoff", 0),
            Setting(server, "bootstrap_timeout", 0), 1, 1, Len(host)>> \o more \o host
     ELSE host

-----------------------------------------------------------------------------
(* Objects and resources                                                     *)

\* The binary takes a name from the enum or, failing that, reads it as a number; the text
\* writes the name for the compiler, and takes the number beside an empty one.
NoId(cell) == cell.how \in {"unknown", "empty"}
BinaryId(cell) == IF cell.how = "missing" THEN 0 ELSE cell.of
TextId(cell) ==
  CASE cell.how = "unknown" -> Undeclared [] cell.how = "missing" -> 0 [] OTHER -> cell.of
TextPair(high, low) == IF low = Undeclared THEN Undeclared ELSE Pair16(high, low)

\* _object_entry_words and _object_entry_cpp_words: three words for each resource with an IO.
BinaryResources(row) ==
  FlattenSeq([i \in ResourcesOf(row) |->
    LET io == Resolve(row[3 * i + 2]) IN
    IF io = << >> THEN << >>
    ELSE <<Pair16(Number(row[2], 0), BinaryId(row[1])),
           Pair16(Number(row[3 * i + 1], 1), BinaryId(row[3 * i]))>> \o io])
TextResources(row) ==
  FlattenSeq([i \in ResourcesOf(row) |->
    LET io == Resolve(row[3 * i + 2]) IN
    IF io = << >> THEN << >>
    ELSE <<TextPair(Number(row[2], 0), TextId(row[1])),
           TextPair(Number(row[3 * i + 1], 1), TextId(row[3 * i]))>> \o io])

\* A name the enum lacks is a ValueError, an IO that is not known a KeyError.
EntryRaises(row, known) ==
  \/ NoId(row[1])
  \/ \E i \in ResourcesOf(row) :
       NoId(row[3 * i]) \/ ~(Range(Resolve(row[3 * i + 2])) \subseteq known)

\* validate_descriptor_context, of desc-gen only: the IO of a resource is known, one of a
\* symbol with a rule has a dtype of that, one to execute is a trigger or a uint8.
DtypeBound(ref) == IF ref \in Io THEN DtypeOf[ref] ELSE "uint32"
ResourceRefused(resource, access, ref, known) ==
  \/ ref \notin known
  \/ /\ resource.how = "symbol" /\ resource.of \in DOMAIN ResourceDtypes
     /\ DtypeBound(ref) \notin ResourceDtypes[resource.of]
  \/ Number(access, 1) = 4 /\ ref \notin Triggers /\ DtypeBound(ref) # "uint8"
ResourcesRaise(config, known) ==
  \E row \in Range(Value(config, "objects").rows) :
    \E i \in ResourcesOf(row) : \E ref \in Range(Resolve(row[3 * i + 2])) :
      ResourceRefused(row[3 * i], row[3 * i + 1], ref, known)

-----------------------------------------------------------------------------
(* Items                                                                     *)

EncodeWakaamaRaises(f, config, known) ==
  f.shape = "resources" /\ \E row \in Range(Value(config, "objects").rows) : EntryRaises(row, known)

BlockItems(f, words) ==
  FlattenSeq([i \in DOMAIN words |->
    IF words[i] = << >> THEN << >> ELSE <<Item(f.name, Len(words[i]), words[i])>>])
OptionItem(f, config) ==
  IF Given(config, f.name) THEN <<Item(f.name, 1, <<Numeral(config[f.name], 1, 0)>>)>> ELSE << >>
DeviceItem(f, config, known) ==
  LET cell == Value(config, f.name).rows[1][1] IN
  IF ~Given(config, f.name) \/ Resolve(cell) = << >> THEN << >>
  ELSE <<Item(f.name, 1, <<Id(cell, known)>>)>>

EncodeWakaama(f, config, known) ==
  LET rows == Value(config, f.name).rows IN
  CASE f.shape = "option" -> OptionItem(f, config)
    [] f.shape = "fallback" ->
         IF Value(config, "servers").rows = << >> THEN OptionItem(f, config) ELSE << >>
    [] f.shape = "servers" -> BlockItems(f, [i \in DOMAIN rows |-> ServerWords(rows[i], i)])
    [] f.shape = "devicebind" -> DeviceItem(f, config, known)
    [] OTHER -> BlockItems(f, [i \in DOMAIN rows |-> BinaryResources(rows[i])])

GenerateWakaama(f, config) ==
  LET rows == Value(config, f.name).rows IN
  IF f.shape = "resources" THEN BlockItems(f, [i \in DOMAIN rows |-> TextResources(rows[i])])
  ELSE EncodeWakaama(f, config, Ref)

\* _cpp_config_count.
WakaamaCount(f, config) ==
  CASE f.shape = "option" -> IF Given(config, f.name) THEN 1 ELSE 0
    [] f.shape = "fallback" ->
         IF Given(config, f.name) /\ Value(config, "servers").rows = << >> THEN 1 ELSE 0
    [] f.shape = "servers" -> Len(Value(config, "servers").rows)
    [] OTHER -> Len(GenerateWakaama(f, config))
WakaamaAnnounced(config) ==
  LET fields == Wakaama.fields IN
  Total([i \in DOMAIN fields |-> WakaamaCount(fields[i], config)])
=============================================================================
