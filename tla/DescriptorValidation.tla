-------------------------- MODULE DescriptorValidation --------------------------
(***************************************************************************)
(* descriptor/validation/validator.py: does a configuration enable what a  *)
(* descriptor uses?  desc-valid asks it of a directory with descriptor.cxx,*)
(* defconfig and descriptor.yaml (validate), a build of the .config it is  *)
(* about to compile (validate_generated_config).                           *)
(*                                                                         *)
(* The validator reads the Kconfig file and the fragments it includes line *)
(* by line on its own, adds the defaults of Kconfig choices, and looks for *)
(* the symbols that the C++ includes, the entries' handlers and their      *)
(* dtypes call for.  A symbol is a pair of a family and a name: <<"dawn",  *)
(* t>> enables the component of the entry type t, <<"dtype", n>> a dtype,  *)
(* <<"nuttx", n>> is one of the operating system.                          *)
(***************************************************************************)
EXTENDS ObjectIds, SequencesExt

CONSTANTS
  File,      \* the Kconfig files there may be
  Root,      \* defconfig or .config
  Projects,  \* the projects there are to look at
  KconfigChoices, \* the choices of the firmware's Kconfig: default, members and guards
  Unknown    \* an include of descriptor.cxx that is no component's

\* What a symbol is set to; text is anything but y, n and a number.
Yes == <<"y", 0>>
IsValue(v) == v[1] \in {"y", "n", "int", "text"} /\ v[2] \in Int

\* A line sets a symbol, says in a comment that it is not set, or includes a file.
IsLine(l) ==
  \/ l.op = "set" /\ IsValue(l.value)
  \/ l.op = "unset"
  \/ l.op = "include" /\ l.file \in File

\* yaml says what descriptor.yaml is: one descriptor or one per slot; cxx the component
\* types that descriptor.cxx includes; sources whether the firmware's Kconfig is found.
IsProject(p) ==
  /\ p.yaml \in {"missing", "broken", "single", "slots"}
  /\ DOMAIN p.slots \subseteq Nat /\ 0 \in DOMAIN p.slots /\ IsFiniteSet(DOMAIN p.slots)
  /\ p.yaml = "single" => DOMAIN p.slots = {0}
  /\ \A k \in DOMAIN p.slots :
       /\ p.slots[k] \in Seq(Range(p.slots[k]))
       /\ \A i \in DOMAIN p.slots[k] : IsEntry(p.slots[k][i])
  /\ DOMAIN p.kconfig \subseteq File
  /\ \A f \in DOMAIN p.kconfig :
       LET lines == Range(p.kconfig[f]) IN
       p.kconfig[f] \in Seq(lines) /\ \A l \in lines : IsLine(l)
  /\ p.sources \in BOOLEAN

ASSUME ValidationAssumption ==
  /\ Root \in File /\ IsFiniteSet(File)
  /\ IsFiniteSet(KconfigChoices)
  /\ \A p \in Projects : IsProject(p)

VARIABLES
  project,  \* the directory
  check,    \* "none", "read", "includes", "objects", "dtypes" or "done"
  asked,    \* "directory" or "generated"
  stack,    \* the files being read, each with the lines left
  visited,  \* the files whose reading has begun
  values,   \* what the symbols are set to so far
  enabled,  \* enabled_configs
  errors    \* what is wrong: a kind of error and what it is about

reading == <<stack, visited, values>>
validating == <<check, asked, reading, enabled, errors>>

\* f with x mapped to y.
Updated(f, x, y) == [z \in DOMAIN f \cup {x} |-> IF z = x THEN y ELSE f[z]]

Lines(f) == IF f \in DOMAIN project.kconfig THEN project.kconfig[f] ELSE << >>

ValidationInit ==
  /\ project \in Projects
  /\ check = "none" /\ asked = "generated"
  /\ stack = << >> /\ visited = {} /\ values = << >>
  /\ enabled = {} /\ errors = {}

-----------------------------------------------------------------------------
(* Reading the Kconfig files *)

\* validate_config refuses a directory without descriptor.cxx or defconfig.
Judgeable(how) ==
  how = "directory" => project.cxx # {"missing"} /\ Root \in DOMAIN project.kconfig

Begin(how) ==
  /\ asked' = how
  /\ values' = << >> /\ enabled' = {}
  /\ IF Judgeable(how)
     THEN /\ check' = "read" /\ errors' = {}
          /\ stack' = <<Lines(Root)>> /\ visited' = {Root}
     ELSE /\ check' = "done" /\ errors' = {<<"files", how>>}
          /\ stack' = << >> /\ visited' = {}
  /\ UNCHANGED project

InFile == check = "read" /\ stack # << >>
top == stack[Len(stack)]
line == Head(top)
Rest == Front(stack) \o <<Tail(top)>>

ReadAssignment ==
  /\ InFile /\ top # << >> /\ line.op = "set"
  /\ values' = Updated(values, line.sym, line.value)
  /\ stack' = Rest
  /\ UNCHANGED <<project, check, asked, visited, enabled, errors>>

\* A comment matches no pattern, "# CONFIG_X is not set" included.
ReadComment ==
  /\ InFile /\ top # << >> /\ line.op = "unset"
  /\ stack' = Rest
  /\ UNCHANGED <<project, check, asked, visited, values, enabled, errors>>

\* Mutant: visited files are those being read, so that one is read as often as included.
VisitedNever == {}
Visited == visited

\* A file that is not there reads as an empty one, as does one that was visited.
ReadInclude ==
  /\ InFile /\ top # << >> /\ line.op = "include"
  /\ stack' = IF line.file \in Visited THEN Rest ELSE Append(Rest, Lines(line.file))
  /\ visited' = visited \cup {line.file}
  /\ UNCHANGED <<project, check, asked, values, enabled, errors>>

EndFile ==
  /\ InFile /\ top = << >>
  /\ stack' = Front(stack)
  /\ UNCHANGED <<project, check, asked, visited, values, enabled, errors>>

SetTo(v) == {s \in DOMAIN values : values[s] = v}

\* Mutant: a default counts whether or not a member was chosen.
DefaultsAlways(on) == {c.default : c \in {d \in KconfigChoices : d.guards \subseteq on}}

\* implicit_choice_configs.
Defaults(on) ==
  {c.default : c \in {d \in KconfigChoices : d.guards \subseteq on /\ d.members \cap on = {}}}

\* _implicit_choice_configs gives nothing, and a warning, where there are no sources.
Imply ==
  /\ check = "read" /\ stack = << >>
  /\ enabled' = SetTo(Yes) \cup (IF project.sources THEN Defaults(SetTo(Yes)) ELSE {})
  /\ check' = IF asked = "directory" THEN "includes" ELSE "objects"
  /\ UNCHANGED <<project, asked, reading, errors>>

-----------------------------------------------------------------------------
(* The checks *)

\* CIOSensor, CProgStatsAvg ...: an entry's component is that of its handler's C++ class.
Component(type) == <<"dawn", IF type = "stats" THEN "statsavg" ELSE type>>

\* nuttx_requirements.
NuttxNames(type) ==
  CASE type \in {"adc_fetch", "adc_stream", "adc_sync"} -> {"ADC"}
    [] type \in {"batt_soc", "batt_state", "batt_volt"} -> {"BATTERY_GAUGE"}
    [] type \in {"buttons"} -> {"INPUT_BUTTONS"}
    [] type \in {"dac"} -> {"DAC"}
    [] type \in {"dummy_notify"} -> {"TIMER_FD", "TIMER_FD_POLL"}
    [] type \in {"encoder", "encoder_index"} -> {"SENSORS_QENCODER"}
    [] type \in {"gpi", "gpo"} -> {"DEV_GPIO"}
    [] type = "leds" -> {"USERLED"}
    [] type = "lte_signal" -> {"LTE_LAPI"}
    [] type = "pot" -> {"POT"}
    [] type = "pulsecount" -> {"PULSECOUNT"}
    [] type = "pwm" -> {"PWM"}
    [] type = "rand" -> {"DEV_URANDOM"}
    [] type = "sensor" -> {"SENSORS"}
    [] type = "sensor_producer" -> {"SENSORS", "USENSOR"}
    [] type = "uuid" -> {"BOARDCTL_UNIQUEID"}
    [] type = "can" -> {"CAN"}
    [] type = "ipc" -> {"PIPES"}
    [] type = "modbus_rtu" -> {"INDUSTRY_NXMODBUS"}
    [] type = "modbus_tcp" -> {"INDUSTRY_NXMODBUS", "NET_TCP"}
    [] type = "nimble" -> {"NIMBLE", "NIMBLE_ROLE_PERIPHERAL"}
    [] type = "nxscope_serial" ->
         {"LOGGING_NXSCOPE", "LOGGING_NXSCOPE_INTF_SERIAL", "LOGGING_NXSCOPE_PROTO_SER"}
    [] type = "nxscope_udp" ->
         {"LOGGING_NXSCOPE", "LOGGING_NXSCOPE_INTF_UDP", "LOGGING_NXSCOPE_PROTO_SER",
          "NET_UDP"}
    [] type = "nxscope_dummy" ->
         {"LOGGING_NXSCOPE", "LOGGING_NXSCOPE_INTF_DUMMY", "LOGGING_NXSCOPE_PROTO_SER"}
    [] type = "shell" -> {"SYSTEM_READLINE"}
    [] type = "udp" -> {"NET_UDP"}
    [] type = "wakaama" -> {"NETUTILS_WAKAAMA", "WAKAAMA_CLIENT_MODE"}
    [] OTHER -> {}

Required(e) == {Component(e.type)} \cup {<<"nuttx", n>> : n \in NuttxNames(e.type)}

\* nuttx_value_requirements: PWM_NCHANNELS >= 1.
Channels == <<"nuttx", "PWM_NCHANNELS">>
EnoughChannels(e, sets) ==
  e.type = "pwm" => Channels \in DOMAIN sets /\ sets[Channels][1] = "int" /\ sets[Channels][2] >= 1

\* DTYPE_KCONFIG_MAP; a string is stored as characters.
DtypeSymbol(dtype) == <<"dtype", IF dtype = "string" THEN "char" ELSE dtype>>
DtypeNames ==
  {"bool", "int8", "uint8", "int16", "uint16", "int32", "uint32", "int64", "uint64",
   "float", "double", "b16", "ub16", "char", "string", "block"}

\* A sensor's data are of one dtype throughout the system, but for what a satellite
\* receiver counts.
UseB16 == <<"nuttx", "SENSORS_USE_B16">>
SensorDtypeFits(e, dtype, on) ==
  \/ e.type \notin {"sensor", "sensor_producer"}
  \/ e.sub = "gnss_time" /\ dtype = "uint64"
  \/ e.sub = "gnss_sats" /\ dtype = "uint32"
  \/ dtype = IF UseB16 \in on THEN "b16" ELSE "float"

\* The sections are looked for at the top level of the file, where those of a file with
\* several descriptors are not.
Looked == IF project.yaml = "single" THEN Range(project.slots[0]) ELSE {}
Broken == IF project.yaml = "broken" THEN {<<"yaml", "broken">>} ELSE {}
NoFile == project.cxx = {}

\* _validate_includes; an include that is no component's is a warning.
CheckIncludes ==
  /\ check = "includes"
  /\ errors' = errors
       \cup (IF NoFile THEN {<<"includes", "none">>} ELSE {})
       \cup {Component(t) : t \in {u \in project.cxx \ {Unknown} : Component(u) \notin enabled}}
  /\ check' = "objects"
  /\ UNCHANGED <<project, asked, reading, enabled>>

\* _validate_handler_requirements.
CheckObjects ==
  /\ check = "objects"
  /\ errors' = errors \cup Broken
       \cup (UNION {Required(e) \ enabled : e \in Looked})
       \cup {Channels : e \in {f \in Looked : ~EnoughChannels(f, values)}}
  /\ check' = "dtypes"
  /\ UNCHANGED <<project, asked, reading, enabled>>

DtypeAccepted(e, on) ==
  LET dtype == Written(e) IN
  \/ dtype = "any"
  \/ /\ dtype \in DtypeNames /\ DtypeSymbol(dtype) \in on
     /\ SensorDtypeFits(e, dtype, on)

\* _validate_yaml_dtypes.
CheckDtypes ==
  /\ check = "dtypes"
  /\ errors' = errors \cup Broken
       \cup {DtypeSymbol(Written(e)) :
               e \in {f \in Looked : f.kind = "io" /\ ~DtypeAccepted(f, enabled)}}
  /\ check' = "done"
  /\ UNCHANGED <<project, asked, reading, enabled>>

ReadKconfig == ReadAssignment \/ ReadComment \/ ReadInclude \/ EndFile
Validate == ReadKconfig \/ Imply \/ CheckIncludes \/ CheckObjects \/ CheckDtypes

valid == errors = {}

-----------------------------------------------------------------------------
(* What the verdict is about: the configuration the build system makes of the files,      *)
(* where an include stands for the file's lines, the last word on a symbol counts and     *)
(* defaults of choices enable further ones (external).                                    *)

Spliced ==
  LET splice[n \in 0..Cardinality(File)] ==
        [f \in File |->
           IF n = 0 THEN << >>
           ELSE FlattenSeq([i \in DOMAIN Lines(f) |->
                  IF Lines(f)[i].op = "include" THEN splice[n - 1][Lines(f)[i].file]
                  ELSE <<Lines(f)[i]>>])]
  IN splice[Cardinality(File)][Root]

Denoted ==
  LET text == Spliced
      last(s) == Max({i \in DOMAIN text : text[i].sym = s}) IN
  [s \in {text[i].sym : i \in DOMAIN text} |->
     IF text[last(s)].op = "set" THEN text[last(s)].value ELSE <<"n", 0>>]
DenotedOn ==
  LET chosen == {s \in DOMAIN Denoted : Denoted[s] = Yes}
      on[n \in 0..Cardinality(KconfigChoices)] ==
        IF n = 0 THEN chosen
        ELSE chosen \cup {c.default : c \in {d \in KconfigChoices :
               d.guards \subseteq on[n - 1] /\ d.members \cap chosen = {}}}
  IN on[Cardinality(KconfigChoices)]

\* An object runs where its component, what that needs of the system and the dtype of its
\* id are enabled.
Runs(e) ==
  /\ Required(e) \subseteq DenotedOn
  /\ EnoughChannels(e, Denoted)
  /\ e.kind = "io" =>
       LET dtype == BinaryDtype(e) IN
       \/ dtype = "any"
       \/ /\ dtype \in DtypeNames /\ DtypeSymbol(dtype) \in DenotedOn
          /\ SensorDtypeFits(e, dtype, DenotedOn)

Compiles ==
  asked = "directory" =>
    /\ Judgeable("directory") /\ project.cxx # {}
    /\ \A t \in project.cxx \ {Unknown} : Component(t) \in DenotedOn

\* Where the validator and the build system read the same files differently: a file
\* included again, a symbol set and then not set, a choice that another's default opens,
\* defaults without the firmware's Kconfig.
Includes(f) ==
  UNION {{<<g, i>> : i \in {j \in DOMAIN Lines(g) : Lines(g)[j].op = "include"
                                                      /\ Lines(g)[j].file = f}} : g \in visited}
IncludedTwice == Includes(Root) # {} \/ \E f \in File : Cardinality(Includes(f)) > 1
UnsetLater ==
  \E i, j \in DOMAIN Spliced :
    /\ i < j /\ Spliced[i].op = "set" /\ Spliced[j].op = "unset"
    /\ Spliced[i].sym = Spliced[j].sym
Chosen == {s \in DOMAIN Denoted : Denoted[s] = Yes}
OpenedByDefault ==
  \E c \in KconfigChoices : ~(c.guards \subseteq Chosen) /\ c.guards \subseteq DenotedOn
DefaultsUnseen == ~project.sources /\ DenotedOn # Chosen
ReadOtherwise == IncludedTwice \/ UnsetLater \/ OpenedByDefault \/ DefaultsUnseen

-----------------------------------------------------------------------------
(* Properties *)

ValidationTypeOK ==
  /\ IsProject(project)
  /\ check \in {"none", "read", "includes", "objects", "dtypes", "done"}
  /\ asked \in {"directory", "generated"}
  /\ visited \subseteq File /\ Len(stack) <= Cardinality(visited)
  /\ \A s \in DOMAIN values : IsValue(values[s])
  /\ \A e \in errors : e[1] \in {"files", "includes", "yaml", "dawn", "nuttx", "dtype"}

\* The validator accepts a configuration exactly when the one the build makes of the same
\* files enables every include and every object of every slot, with the dtype its id has in
\* the image.  It does not look into a file with several descriptors, at a dtype that the
\* variant forces or at what from_spec refuses; and it may read the files otherwise than
\* the build.
Objects == UNION {Range(project.slots[k]) : k \in DOMAIN project.slots}
ForcedUnwritten(e) == ForcedDtype(e) \notin {"", Written(e)}
VerdictMatches ==
  check = "done" =>
    \/ ReadOtherwise
    \/ project.yaml = "slots"
    \/ project.yaml = "single" /\ \E e \in Objects : ForcedUnwritten(e) \/ ~e.good
    \/ valid <=> /\ Compiles /\ project.yaml # "broken"
                 /\ project.yaml = "single" => \A e \in Objects : Runs(e)
=============================================================================
