----------------------------- MODULE NimbleHandlers -----------------------------
(***************************************************************************)
(* The handler of the nimble protocol (a BLE peripheral),                  *)
(* descriptor/handlers/proto_nimble.py, in the terms of ProtocolHandlers.  *)
(* Its config is a mapping of services, here keys of the config itself;    *)
(* the key "services" is there only where it holds something else.  A      *)
(* service is a mapping whose entries are the rows, or a list where it is  *)
(* no mapping.                                                             *)
(*                                                                         *)
(* An entry of aios, ess or imds is a row: what it measures, the IO, and a *)
(* cell for each kind of extension its metadata may have.  encode_binary   *)
(* finds the services, their kinds and their references in ways of its     *)
(* own; the text goes by a schema (headerdefs/_nimble.py).  A string is    *)
(* one number, repeated for each of its words, and so are the numbers and  *)
(* references of one extension.                                            *)
(***************************************************************************)
EXTENDS ProtocolHandlers

CONSTANTS
  AiosToken, \* PRPH_AIOS_TYPE_: what follows it in the header, in lower case, and its value
  EssToken,  \* PRPH_ESS_TYPE_
  ImdsToken  \* PRPH_IMDS_TYPE_

\* The schema names the two constants of aios, so they exist.
ASSUME NimbleAssumption ==
  /\ {"digital", "analog"} \subseteq DOMAIN AiosToken
  /\ \A tokens \in {AiosToken, EssToken, ImdsToken} :
       \A t \in DOMAIN tokens : tokens[t] \in Nat

-----------------------------------------------------------------------------
(* Fields                                                                    *)

\* The defaults of a service are the words of its extensions, by their kind.
Service(name, words) == Field(name, name, 1, words, 0)
Dis == Service("dis", << >>)
Bas == Service("bas", << >>)
Aios == Service("aios", <<4, 1, 1, 1, 2, 1>>)
Ess == Service("ess", <<4, 2, 6, 1, 1>>)
Imds == Service("imds", <<4>>)
Ots == Service("ots", << >>)
Custom == Service("custom", << >>)
Nimble == Alike(<<Option("gap_name"), Dis, Bas, Aios, Ess, Imds, Ots, Custom>>)

\* The binary takes the extensions of aios in an order of its own.
BinaryOrder(f) ==
  IF f.name = "aios" THEN <<1, 3, 4, 2, 5, 6>> ELSE [k \in DOMAIN f.defaults |-> k]
TextOrder(f) == [k \in DOMAIN f.defaults |-> k]

Sensing == {"aios", "ess", "imds"}
NoMapping(f, config) == Given(config, f.name) /\ Value(config, f.name).list
ServiceRows(f, config) ==
  IF f.name # "custom" /\ NoMapping(f, config) THEN << >> ELSE Value(config, f.name).rows

-----------------------------------------------------------------------------
(* What is measured                                                          *)

\* A kind is a key of the header's enum for the binary (enum_map), and for the text one of
\* the schema's: its four lists for aios, a longer name for some of the sensors.
Tokens(f) ==
  CASE f.name = "aios" -> AiosToken [] f.name = "ess" -> EssToken [] OTHER -> ImdsToken
BinaryKind(f, cell) ==
  IF cell.how = "key" /\ cell.of \in DOMAIN Tokens(f) THEN <<Tokens(f)[cell.of]>> ELSE << >>

GroupField ==
  [digital_inputs |-> "digital", digital_outputs |-> "digital",
   analog_inputs |-> "analog", analog_outputs |-> "analog"]
LongName ==
  [temp |-> "temperature", hum |-> "humidity", press |-> "pressure", uvidx |-> "uv_index",
   twindspeed |-> "wind_speed", twinddir |-> "wind_direction", gas |-> "gas_resistance"]
SensorName(token) == IF token \in DOMAIN LongName THEN LongName[token] ELSE token

\* A group of aios without one of the four lists may have a type and bindings ("type").
TextKind(f, cell) ==
  IF f.name = "aios" THEN
    IF cell.how = "type" THEN <<AiosToken[cell.of]>>
    ELSE IF cell.how = "key" /\ cell.of \in DOMAIN GroupField
    THEN <<AiosToken[GroupField[cell.of]]>> ELSE << >>
  ELSE LET named == {t \in DOMAIN Tokens(f) : SensorName(t) = cell.of} IN
       IF named = {} THEN << >> ELSE <<Tokens(f)[CHOOSE t \in named : TRUE]>>

-----------------------------------------------------------------------------
(* Entries                                                                   *)

BinaryRef(cell, known) == Known(Flexible(cell), known)
TextRef(f, cell) == IF f.name \in {"aios", "imds"} THEN Flexible(cell) ELSE Resolve(cell)

\* _aios_metadata, _ess_metadata, _imds_metadata: the desc_mask has a bit for each
\* extension that is there; a reference that is none, or not known, is 0.
Present(cell) == cell.how = "number" \/ Flexible(cell) # << >>
Repeat(word, n) == [i \in 1..n |-> word]
ExtensionWord(cell, known) ==
  LET ref == BinaryRef(cell, known) IN
  IF cell.how = "number" THEN cell.of ELSE IF ref = << >> THEN 0 ELSE ref[1]
Extension(f, row, kind, known) ==
  IF ~Present(row[2 + kind]) THEN << >>
  ELSE <<kind + 256 * f.defaults[kind]>>
         \o Repeat(ExtensionWord(row[2 + kind], known), f.defaults[kind])
Extensions(f, row) == Cardinality({k \in DOMAIN f.defaults : Present(row[2 + k])})

SensorWords(f, row, kind, ref, order, known) ==
  IF kind = << >> \/ ref = << >> THEN << >>
  ELSE kind \o ref \o <<Extensions(f, row)>>
         \o FlattenSeq([i \in DOMAIN order |-> Extension(f, row, order[i], known)])

\* An object of ots: the IO, its name, type (file by default) and access (rw by default).
ObjectOfOts(row, ref) ==
  IF ref = << >> THEN << >>
  ELSE <<Number(row[3], 0) + 16 * Number(row[4], 2)>> \o Repeat(Number(row[2], 0), 4) \o ref

\* A custom service is a row of its uuid and, for each characteristic, an IO, a uuid and
\* flags (none where they are no list).
CharacteristicsOf(row) == 1..((Len(row) - 1) \div 3)
Characteristic(row, i, ref) ==
  IF ref = << >> \/ row[3 * i].how = "missing" THEN << >>
  ELSE <<Number(row[3 * i + 1], 0)>> \o Repeat(row[3 * i].of, 4) \o ref
CustomWords(row, refs) ==
  LET chars == FlattenSeq([i \in DOMAIN refs |-> Characteristic(row, i, refs[i])]) IN
  IF row[1].how = "missing" \/ chars = << >> THEN << >>
  ELSE <<Len(chars) \div 6, 0, 0>> \o Repeat(row[1].of, 4) \o chars

Listed(entries, flag) ==
  <<Cardinality({i \in DOMAIN entries : entries[i] # << >>}), flag, 0>> \o FlattenSeq(entries)
ItemsOf(f, words) == IF words = << >> THEN << >> ELSE <<Item(f.name, Len(words), words)>>

\* Each entry that is a mapping, as the two back ends write it.
BinaryEntries(f, config, known) ==
  LET rows == ServiceRows(f, config) IN
  [i \in DOMAIN rows |->
    IF rows[i] = << >> THEN << >> ELSE
    CASE f.name \in Sensing ->
           SensorWords(f, rows[i], BinaryKind(f, rows[i][1]), BinaryRef(rows[i][2], known),
                       BinaryOrder(f), known)
      [] f.name = "ots" -> ObjectOfOts(rows[i], BinaryRef(rows[i][1], known))
      [] OTHER -> CustomWords(rows[i], [c \in CharacteristicsOf(rows[i]) |->
                                          BinaryRef(rows[i][3 * c - 1], known)])]
TextEntries(f, config) ==
  LET rows == ServiceRows(f, config) IN
  [i \in DOMAIN rows |->
    IF rows[i] = << >> THEN << >> ELSE
    CASE f.name \in Sensing ->
           SensorWords(f, rows[i], TextKind(f, rows[i][1]), TextRef(f, rows[i][2]),
                       TextOrder(f), Ref)
      [] f.name = "ots" -> ObjectOfOts(rows[i], TextRef(f, rows[i][1]))
      [] OTHER -> CustomWords(rows[i], [c \in CharacteristicsOf(rows[i]) |->
                                          TextRef(f, rows[i][3 * c - 1])])]
Aggregate(f, config) == IF f.name = "aios" THEN Numeral(Value(config, "aggregate"), 1, 0) ELSE 0

-----------------------------------------------------------------------------
(* Items                                                                     *)

\* encode_binary: aios, ess and imds have an item also where the config has no such
\* service, ots and a custom service only with something in it; bas has always one word.
EncodeService(f, config, known) ==
  LET entries == BinaryEntries(f, config, known) IN
  IF f.name = "gap_name" THEN EncodeProtocolField(f, config, known)
  ELSE IF f.name = "dis" THEN IF Given(config, "dis") THEN <<Item("dis", 0, << >>)>> ELSE << >>
  ELSE IF NoMapping(f, config) /\ f.name # "custom" THEN << >>
  ELSE CASE f.name = "bas" ->
         IF ~Given(config, "bas") THEN << >>
         ELSE <<Item("bas", 1, <<ExtensionWord(config["bas"].rows[1][1], known)>>)>>
    [] f.name \in Sensing -> ItemsOf(f, Listed(entries, Aggregate(f, config)))
    [] f.name = "ots" ->
         IF FlattenSeq(entries) = << >> THEN << >> ELSE ItemsOf(f, Listed(entries, 0))
    [] OTHER -> FlattenSeq([i \in DOMAIN entries |-> ItemsOf(f, entries[i])])

\* generate_cpp: a service has an item if the config has it, bas a word if it resolves.
GenerateService(f, config) ==
  LET entries == TextEntries(f, config) IN
  IF f.name \in {"gap_name", "dis"} THEN EncodeService(f, config, Ref)
  ELSE IF ~Given(config, f.name) THEN << >>
  ELSE CASE f.name = "bas" -> <<Item("bas", 1, TextRef(f, config["bas"].rows[1][1]))>>
    [] f.name = "custom" -> FlattenSeq([i \in DOMAIN entries |-> ItemsOf(f, entries[i])])
    [] OTHER -> ItemsOf(f, Listed(entries, Aggregate(f, config)))

\* A service that is no mapping is an AttributeError of the text.  Of imds it only asks
\* which names are in it, so that a list does nothing, unless it is null (a row without a
\* name) or names a sensor, which is a TypeError.
ServiceRaises(f, config) ==
  /\ NoMapping(f, config)
  /\ \/ f.name \in {"bas", "aios", "ess", "ots"}
     \/ f.name = "imds" /\ Value(config, "imds").rows # << >>

\* The header counts every service the config has, and every custom one.
ServiceCount(f, config) ==
  IF f.name = "custom" THEN Cardinality({i \in DOMAIN Value(config, "custom").rows :
                                           Value(config, "custom").rows[i] # << >>})
  ELSE IF Given(config, f.name) THEN 1 ELSE 0
NimbleAnnounced(config) ==
  LET fields == Nimble.fields IN
  Total([i \in DOMAIN fields |-> ServiceCount(fields[i], config)])

\* validate_object refuses services that are neither a mapping nor nothing; nothing at all
\* (a key without a value) is a TypeError of the text.
ValidNimble(config) == Given(config, "services") => ~config["services"].list
ServicesRaise(config) == Given(config, "services")

-----------------------------------------------------------------------------
(* Reports                                                                   *)

\* resolve_bindings, for the graph and the summary.
ReportedOf(f, row) ==
  IF row = << >> THEN {} ELSE
  CASE f.name \in {"bas", "ots"} -> Range(Flexible(row[1]))
    [] f.name = "aios" ->
         IF row[1].how = "key" /\ row[1].of \in DOMAIN GroupField THEN Range(Flexible(row[2])) ELSE {}
    [] f.name \in {"ess", "imds"} -> Range(Flexible(row[2]))
    [] OTHER -> UNION {Range(Flexible(row[3 * c - 1])) : c \in CharacteristicsOf(row)}
NimbleBindings(config) ==
  UNION {UNION {ReportedOf(f, row) : row \in Range(ServiceRows(f, config))} :
           f \in {Bas, Aios, Ess, Imds, Ots, Custom}}

\* allocation_rows, of the services that it lists; a measurement of imds with metadata is a
\* mapping it does not read.
AllocatedOf(f, row) ==
  IF row = << >> THEN {} ELSE
  CASE f.name = "bas" -> Range(Resolve(row[1]))
    [] f.name = "aios" -> ReportedOf(f, row)
    [] f.name = "imds" /\ Extensions(f, row) > 0 -> {}
    [] OTHER -> Range(Resolve(row[2]))
NimbleAllocated(config) ==
  UNION {UNION {AllocatedOf(f, row) : row \in Range(ServiceRows(f, config))} :
           f \in {Bas, Aios, Ess, Imds}}
=============================================================================
