------------------------------- MODULE IoHandlers -------------------------------
(***************************************************************************)
(* The IO handlers, descriptor/handlers/io_*.py, but for config (which     *)
(* DescriptorImage has), and the fields every IO shares, in the terms of   *)
(* ProtocolHandlers.  _serialize_io_object writes the shared fields and    *)
(* leaves the others to the handler's encode_binary; generate_io_config    *)
(* writes whatever the schema of the type lists, but for the types that    *)
(* have an emitter of their own.  An IO has a class for its type, subtype  *)
(* and variant.  A value that is no mapping is a list.                     *)
(***************************************************************************)
EXTENDS ProtocolHandlers

-----------------------------------------------------------------------------
(* Values of a dtype                                                         *)

\* encode_scalar_words, _encode_limit_word, _dtype_initval_param.
Narrow == {"bool", "char", "int8", "uint8", "int16", "uint16", "int32", "uint32"}
Wide == {"int64", "uint64", "double"}
Limitable == Narrow \cup {"float"}
Scalar == Limitable \cup Wide
Initial == (Scalar \ {"char"}) \cup {"b16", "ub16"}

\* The dtype the binary takes: that of the variant, where the type has one for it.
VariantDtype ==
  [sysinfo |-> [uptime |-> "uint64"], uname |-> [hostname |-> "char"],
   boardctl |-> [reset |-> "int32", reset_cause |-> "uint32", poweroff |-> "int32"],
   sensor |-> [gnss_time |-> "uint64", gnss_sats |-> "uint32"]]
BinaryDtype(type, dtype, variant) ==
  IF type \in DOMAIN VariantDtype /\ variant \in DOMAIN VariantDtype[type]
  THEN VariantDtype[type][variant] ELSE dtype

\* The bit pattern of a float is not that of an integer, but for 0.
Pattern(n) == IF n = 0 THEN 0 ELSE 2^20 + n
ScalarWords(n, dtype) ==
  CASE dtype = "float" -> <<Pattern(n)>>
    [] dtype = "double" -> <<0, Pattern(n)>>
    [] dtype \in Wide \ {"double"} -> <<n, 0>>
    [] OTHER -> <<n>>

-----------------------------------------------------------------------------
(* Fields                                                                    *)

\* notify has the type (0 is poll), the priority and the batch; limits a row for each of
\* min, max and step, one with a missing cell where the key is not there.
Notify == Field("notify", "notify", 0, <<0, 0, 1>>, 0)
Limits == Field("limits", "limits", 0, << >>, 0)
InitValue == Field("init_value", "scalars", 0, << >>, 0)
Flag(name) == Field(name, "flag", 0, <<0>>, 0)
Targets == Field("targets", "targets", 1, << >>, 0)
Allowed == Field("allowed", "flags", 0, <<0>>, 0)

Shared == <<Option("device"), Notify, Limits>>
InBoth(fields) == Alike(Shared \o fields)
InText(fields) == Differing(Shared, Shared \o fields)

Leds == InText(<<Option("init_val")>>)
RgbLed == InText(<<Option("init_val")>>)
AdcStream == InText(<<Option("batch_size")>>)
AdcSync == InText(<<Option("trigger_freq")>>)
LteSignal == InText(<<Option("interval")>>)
Sensor == InText(<<Option("update_interval"), Option("measurement_period")>>)
SensorProducer == InText(<<Option("queue_size"), Option("persist")>>)
Encoder == InBoth(<<Option("posmax")>>)
EncoderIndex == InBoth(<<Option("posmax")>>)
Pot == InBoth(<<Option("wiper")>>)
Timestamp == InBoth(<<Option("interval_us")>>)
Pwm == InBoth(<<Option("freq")>>)
Fileio == InBoth(<<Option("path"), Option("perm")>>)
PulseCount == InBoth(<<Option("high_ns"), Option("low_ns")>>)
DummyIo == InBoth(<<Option("dim"), InitValue>>)
DummyNotify ==
  InBoth(<<Option("dim"), InitValue, Option("interval_us"), Flag("notify_on_write")>>)
Control == Differing(Shared \o <<Targets, Allowed>>, <<Targets, Allowed>>)
Trigger == Differing(Shared \o <<Targets, Allowed>>, <<Targets, Allowed>>)

Fieldless ==
  {"adc_fetch", "batt_soc", "batt_state", "batt_volt", "boardctl", "buttons",
   "capabilities", "dac", "descriptor", "descselector", "gpi", "gpo", "rand", "sysinfo",
   "systime", "uname", "uuid", "virt"}

\* IO_HANDLER_REGISTRY, but for config.
Ios ==
  LET own ==
        [leds |-> Leds, rgb_led |-> RgbLed, adc_stream |-> AdcStream, adc_sync |-> AdcSync,
         lte_signal |-> LteSignal, sensor |-> Sensor, sensor_producer |-> SensorProducer,
         encoder |-> Encoder, encoder_index |-> EncoderIndex, pot |-> Pot,
         timestamp |-> Timestamp, pwm |-> Pwm, fileio |-> Fileio, pulsecount |-> PulseCount,
         dummy |-> DummyIo, dummy_notify |-> DummyNotify, control |-> Control,
         trigger |-> Trigger] IN
  [type \in DOMAIN own \cup Fieldless |->
     IF type \in DOMAIN own THEN own[type] ELSE InBoth(<< >>)]

-----------------------------------------------------------------------------
(* Items                                                                     *)

Mapping(config, key) == Given(config, key) /\ ~Value(config, key).list
ItemOf(name, words) == Item(name, Len(words), words)

\* Not a mapping leaves the defaults, where an item is written for it.
NotifyWords(f, config) ==
  LET row == IF Mapping(config, f.name) THEN config[f.name].rows[1] ELSE << >> IN
  [i \in 1..3 |-> IF i \in DOMAIN row THEN Number(row[i], f.defaults[i]) ELSE f.defaults[i]]

LimitKeys == <<"min", "max", "step">>
LimitsGiven(config) ==
  IF ~Mapping(config, "limits") THEN << >>
  ELSE Known(<<1, 2, 3>>,
             {i \in 1..3 : \A c \in Range(config["limits"].rows[i]) : c.how # "missing"})
RowWordsOf(cells, dtype) ==
  FlattenSeq([i \in DOMAIN cells |-> ScalarWords(cells[i].of, dtype)])
LimitItems(config, dtype) ==
  LET keys == LimitsGiven(config) IN
  [i \in DOMAIN keys |->
     ItemOf(LimitKeys[keys[i]], RowWordsOf(config["limits"].rows[keys[i]], dtype))]
LimitValues(config) ==
  UNION {Range(config["limits"].rows[i]) : i \in Range(LimitsGiven(config))}

\* mask_from_allowed: a flag that is not known adds nothing, nor one that is set already.
Sets(cell, n) == cell.how = "number" /\ cell.of = n
Mask(value) ==
  Total([i \in DOMAIN value.rows |->
    LET cell == value.rows[i][1] IN
    IF cell.how = "number" /\ \A j \in 1..(i - 1) : ~Sets(value.rows[j][1], cell.of)
    THEN 2^cell.of ELSE 0])

ScalarsOf(value, dtype) == RowWordsOf([i \in DOMAIN value.rows |-> value.rows[i][1]], dtype)

\* What both back ends write alike where both write it, each with a dtype of its own.
IoItems(f, config, dtype) ==
  LET value == Value(config, f.name) IN
  CASE f.shape = "limits" -> LimitItems(config, dtype)
    [] f.shape = "scalars" /\ Given(config, f.name) ->
         <<ItemOf(f.name, ScalarsOf(value, dtype))>>
    [] f.shape = "targets" /\ value.rows # << >> -> <<ItemOf(f.name, References(value))>>
    [] f.shape = "flags" /\ value.rows # << >> -> <<ItemOf(f.name, <<Mask(value)>>)>>
    [] f.shape = "option" -> EncodeProtocolField(f, config, Ref)
    [] OTHER -> << >>

EncodeIoField(f, config, dtype) ==
  CASE f.shape = "notify" ->
         IF Mapping(config, f.name) THEN <<ItemOf(f.name, NotifyWords(f, config))>> ELSE << >>
    [] f.shape = "flag" /\ Given(config, f.name) ->
         <<ItemOf(f.name, <<IF Numeral(config[f.name], 1, 0) = 0 THEN 0 ELSE 1>>)>>
    [] OTHER -> IoItems(f, config, dtype)

\* A value of a dtype that is not encoded, or a target that is no known name.
EncodeIoRaises(f, config, dtype, known) ==
  LET value == Value(config, f.name) IN
  CASE f.shape = "limits" -> dtype \notin Limitable /\ LimitValues(config) # {}
    [] f.shape = "scalars" -> dtype \notin Scalar /\ value.rows # << >>
    [] f.shape = "targets" ->
         \E row \in Range(value.rows) : row[1].how # "name" \/ row[1].of \notin known
    [] OTHER -> FALSE

GenerateIoField(f, config, dtype) ==
  CASE f.shape = "notify" ->
         IF Given(config, f.name) THEN <<ItemOf(f.name, NotifyWords(f, config))>> ELSE << >>
    [] f.shape = "flag" /\ Given(config, f.name) ->
         <<ItemOf(f.name, <<Numeral(config[f.name], 1, 0)>>)>>
    [] OTHER -> IoItems(f, config, dtype)

\* initval_param has no number for the dtype, or a target is no string.
GenerateIoRaises(f, config, dtype) ==
  \/ f.shape = "scalars" /\ Given(config, f.name) /\ dtype \notin Initial
  \/ f.shape = "targets" /\ \E row \in Range(Value(config, f.name).rows) : row[1].how # "name"

\* generate_io_config counts limits by key, emit_targets_and_allowed_cpp what is not empty.
IoCountOf(f, config) ==
  CASE f.shape = "limits" -> Len(LimitsGiven(config))
    [] f.shape \in {"targets", "flags"} -> IF Value(config, f.name).rows # << >> THEN 1 ELSE 0
    [] OTHER -> IF Given(config, f.name) THEN 1 ELSE 0
IoAnnounced(type, config) ==
  LET fields == Ios[type].fields IN
  Total([i \in DOMAIN fields |-> IoCountOf(fields[i], config)])
=============================================================================
