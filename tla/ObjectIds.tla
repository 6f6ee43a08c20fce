--------------------------------- MODULE ObjectIds ---------------------------------
(***************************************************************************)
(* The object id of a descriptor's entry, which two parts of the tool work *)
(* out on their own: the binary back end writes it into the image, and the *)
(* resolver of descriptor/definitions/summary.py gives it to the console   *)
(* that asks the device for it, to the graph, and through the graph to     *)
(* desc-compat.  Both encode the same fields of objectid.py; the handlers' *)
(* policies (descriptor/handlers/_base.py) decide what goes into them.     *)
(*                                                                         *)
(* An id is kept as the record of its fields and a class as a pair of      *)
(* strings that tells two classes apart.                                   *)
(***************************************************************************)
EXTENDS Integers, Sequences, FiniteSets, Functions, FiniteSetsExt

CONSTANTS
  NoInst,  \* the instance of an entry that has none
  PrivMax, \* the largest instance the priv field holds
  Classes, \* the classes of the headers
  Dtypes   \* the names of their dtypes

ASSUME IdAssumption == PrivMax \in Nat /\ NoInst \notin Nat

\* type is one a handler is registered for, sub the subtype or the variant and dtype what
\* is written, "" for neither; an entry that is not good is one from_spec refuses.
Kinds == {"io", "program", "protocol"}
IsEntry(e) ==
  /\ DOMAIN e = {"kind", "type", "sub", "dtype", "inst", "stamp", "good"}
  /\ e.kind \in Kinds /\ {e.type, e.sub, e.dtype} \subseteq STRING
  /\ e.inst = NoInst \/ e.inst \in Nat
  /\ e.stamp \in BOOLEAN /\ e.good \in BOOLEAN

-----------------------------------------------------------------------------
(* Instances, as _automate_instances numbers them before anything is decoded *)

Alike(e, f) == e.kind = f.kind /\ e.type = f.type

Instance(s) ==
  LET number[i \in DOMAIN s] ==
        IF s[i].inst # NoInst THEN s[i].inst
        ELSE Max({0} \cup {number[j] + 1 : j \in {k \in 1..(i - 1) : Alike(s[k], s[i])}})
  IN number

-----------------------------------------------------------------------------
(* What the handlers say of class and dtype                                  *)

\* The dtype of IOs that have one of their own, whatever the entry says.
OwnDtype(type) ==
  CASE type \in {"adc_fetch", "adc_stream", "adc_sync", "dac", "pot"} -> "int32"
    [] type \in {"boardctl", "buttons", "gpi", "gpo", "leds", "pulsecount", "pwm",
                 "rgb_led"} -> "uint32"
    [] type \in {"batt_soc", "batt_state", "batt_volt"} -> "float"
    [] type \in {"capabilities", "descriptor"} -> "block"
    [] type = "lte_signal" -> "int16"
    [] OTHER -> ""

\* variant_dtypes.
ForcedDtype(e) ==
  CASE e.type = "boardctl" /\ e.sub \in {"reset", "poweroff"} -> "int32"
    [] e.type = "boardctl" /\ e.sub = "reset_cause" -> "uint32"
    [] e.type = "sysinfo" /\ e.sub = "uptime" -> "uint64"
    [] e.type = "uname" /\ e.sub = "hostname" -> "char"
    [] OTHER -> ""

None == <<"", "">>

\* The abbreviations a sensor's subtype may be written with.
Suffix(sub) ==
  CASE sub = "temp" -> "temperature" [] sub = "accel" -> "accelerometer"
    [] sub = "gyro" -> "gyroscope" [] sub = "mag" -> "magneticfield"
    [] sub = "baro" -> "barometer" [] sub = "hum" -> "humidity"
    [] sub = "atemp" -> "atemperature" [] sub = "prox" -> "proximity" [] OTHER -> sub

VariantClass(e) ==
  IF e.sub = "" THEN None
  ELSE CASE e.type = "sysinfo" -> <<"system", e.sub>>
         [] e.type = "uname" -> IF e.sub = "hostname" THEN <<"system", "hostname">> ELSE None
         [] e.type = "boardctl" ->
              IF e.sub = "reset_cause" THEN <<"system", "resetcause">>
              ELSE IF e.sub \in {"reset", "poweroff"} THEN <<"system", e.sub>> ELSE None

IoClass(e) ==
  CASE e.type \in {"sensor", "sensor_producer"} ->
         IF e.sub = "" THEN None ELSE <<e.type, Suffix(e.sub)>>
    [] e.type \in {"sysinfo", "uname", "boardctl"} -> VariantClass(e)
    [] e.type = "uuid" -> <<"system", "uuid">>
    [] e.type = "systime" -> <<"system", "systemtime">>
    [] OTHER -> <<"io", e.type>>

\* stats and statsavg are two names of one C++ class.
Class(e) ==
  CASE e.kind = "io" -> IoClass(e)
    [] e.kind = "program" /\ e.type = "stats" -> <<"program", "statsavg">>
    [] OTHER -> <<e.kind, e.type>>

Written(e) == IF e.dtype = "" THEN "uint32" ELSE e.dtype

-----------------------------------------------------------------------------
(* The two ids                                                               *)

Stamp(e) == IF e.stamp THEN 1 ELSE 0

Priv(n) == n % (PrivMax + 1)

Encode(e, dtype, flags, n) ==
  [kind |-> e.kind, class |-> Class(e), dtype |-> dtype, flags |-> flags % 4, priv |-> Priv(n)]

\* dtype_name: what the binary back end writes.
BinaryDtype(e) == IF ForcedDtype(e) # "" THEN ForcedDtype(e) ELSE Written(e)
BinaryId(e, n) ==
  IF e.kind = "io" THEN Encode(e, BinaryDtype(e), Stamp(e), n) ELSE Encode(e, "any", 0, n)

\* The binary back end raises for any other entry.
Encodable(e) ==
  /\ e.good
  /\ Class(e) \in Classes
  /\ e.kind = "io" => BinaryDtype(e) \in Dtypes

\* Mutant: the variant's dtype is forgotten.
SummaryDtypeWritten(e) == IF OwnDtype(e.type) # "" THEN OwnDtype(e.type) ELSE Written(e)

\* summary_dtype_name and what control and trigger have instead of it.
SummaryDtype(e) ==
  IF e.type \in {"control", "trigger"} THEN "uint8"
  ELSE IF ForcedDtype(e) # "" THEN ForcedDtype(e)
  ELSE IF OwnDtype(e.type) # "" THEN OwnDtype(e.type)
  ELSE Written(e)
SummaryInstance(e, n) ==
  CASE e.type \in {"sysinfo", "systime"} -> 1 [] e.type = "boardctl" -> 0 [] OTHER -> n
SummaryFlags(e, n) == IF e.type = "systime" THEN n ELSE Stamp(e)

\* A dtype the headers do not know becomes id 0.
Known(d) == IF d \in Dtypes THEN d ELSE "any"
SummaryId(e, n) ==
  IF e.kind = "io"
  THEN Encode(e, Known(SummaryDtype(e)), SummaryFlags(e, n), SummaryInstance(e, n))
  ELSE Encode(e, "any", 0, n)

\* The resolver gives None where a class is not known and the callers skip it.
Resolved(e) == e.good /\ Class(e) \in Classes

\* The ids of the descriptor s as the resolver sees them, of the given kinds.
SummaryIds(s, kinds) ==
  {SummaryId(s[i], Instance(s)[i]) : i \in {j \in DOMAIN s : s[j].kind \in kinds /\ Resolved(s[j])}}
=============================================================================
