------------------------------- MODULE MCDeployment -------------------------------
(* The directories and targets the run looks at: every short defconfig with a fragment,   *)
(* for one object; every entry of a catalogue with everything enabled; every pair of      *)
(* entries; and descriptors with several slots that the user edits into one another.      *)
EXTENDS Deployment

MCFile == {"defconfig", "fragment"}
MCDtypes == {"any", "int32", "uint8", "uint32", "uint64", "float", "b16", "block", "char"}

Io(type, sub, dtype, inst, stamp) ==
  [kind |-> "io", type |-> type, sub |-> sub, dtype |-> dtype, inst |-> inst,
   stamp |-> stamp, good |-> TRUE]
Other(kind, type, inst) == [Io(type, "", "", inst, FALSE) EXCEPT !.kind = kind]

Dummy == Io("dummy", "", "", NoInst, FALSE)
Adc == Io("adc_fetch", "", "int32", NoInst, FALSE)
Control == Io("control", "", "uint8", NoInst, FALSE)
Refused == [Dummy EXCEPT !.good = FALSE]
Temp(sub, dtype) == Io("sensor", sub, dtype, NoInst, FALSE)

Catalogue ==
  {Dummy, Adc, Control, Refused,
   Io("dummy", "", "int32", 0, FALSE), Io("dummy", "", "", NoInst, TRUE),
   Io("dummy", "", "any", 3, FALSE), Io("dummy", "", "", 4, FALSE),
   Io("dummy", "", "ub16", NoInst, FALSE), Io("dummy", "", "string", NoInst, FALSE),
   Io("adc_fetch", "", "", NoInst, FALSE), Io("control", "", "", NoInst, FALSE),
   Temp("temp", "float"), Temp("temperature", "float"), Temp("temp", "int32"),
   Temp("gnss_time", "uint64"), Temp("", "float"),
   Io("sysinfo", "uptime", "", NoInst, FALSE), Io("sysinfo", "uptime", "uint64", 1, FALSE),
   Io("sysinfo", "", "", NoInst, FALSE), Io("uuid", "", "", NoInst, FALSE),
   Io("boardctl", "reset", "", NoInst, FALSE), Io("boardctl", "reset", "int32", 1, FALSE),
   Io("systime", "", "", NoInst, FALSE), Io("systime", "", "", 1, TRUE),
   Io("uname", "hostname", "char", NoInst, FALSE), Io("lte_signal", "", "any", NoInst, FALSE),
   Io("pwm", "", "", NoInst, FALSE),
   Other("program", "stats", NoInst), Other("program", "statsavg", NoInst),
   Other("protocol", "udp", NoInst), Other("protocol", "udp", 0)}

\* The headers have a class for every entry but that of a gnss receiver.
MCClasses == {Class(e) : e \in Catalogue} \ {None, <<"sensor", "gnss_time">>}

Set(sym, value) == [op |-> "set", sym |-> sym, value |-> value]
Include(f) == [op |-> "include", file |-> f]
AdcOn == <<"dawn", "adc_fetch">>
Int32 == <<"dtype", "int32">>
HasAdc == <<"nuttx", "ADC">>

\* The ADC's component opens a choice whose default is its dtype, and that another.
MCChoices ==
  {[default |-> Int32, members |-> {Int32, <<"dtype", "float">>}, guards |-> {AdcOn}],
   [default |-> HasAdc, members |-> {HasAdc, <<"nuttx", "DAC">>}, guards |-> {Int32}]}

Project(yaml, slots, kconfig, cxx, sources) ==
  [yaml |-> yaml, slots |-> slots, kconfig |-> kconfig, cxx |-> cxx, sources |-> sources]

Line == {Set(AdcOn, Yes), Set(AdcOn, <<"n", 0>>), [op |-> "unset", sym |-> AdcOn],
         Set(HasAdc, Yes), Set(<<"dtype", "float">>, Yes), Include("fragment")}
Fragments ==
  {<< >>, <<Set(AdcOn, Yes)>>, <<Set(AdcOn, <<"n", 0>>)>>, <<Set(Int32, Yes), Set(HasAdc, Yes)>>,
   <<Set(AdcOn, <<"text", 0>>), Include("defconfig")>>}
Defconfigs == UNION {[1..n -> Line] : n \in 0..3}

Configured ==
  {Project("single", 0 :> <<Adc>>, ("defconfig" :> d) @@ ("fragment" :> f), {"adc_fetch"}, s) :
     d \in Defconfigs, f \in Fragments, s \in BOOLEAN}
  \cup {Project(yaml, 0 :> <<Adc>>, "defconfig" :> d, cxx, TRUE) :
          yaml \in {"single", "missing", "broken"}, cxx \in {{}, {"missing"}, {Unknown, "adc_fetch"}},
          d \in {<<Set(AdcOn, Yes), Set(HasAdc, Yes)>>, <<Include("fragment"), Set(HasAdc, Yes)>>}}
  \cup {Project("single", 0 :> <<Adc>>, << >>, {"adc_fetch"}, TRUE)}

\* Everything the entry may need, but for one symbol, and the channels of pwm.
Needed(e) ==
  SetToSeq(Required(e) \cup {DtypeSymbol(Written(e)), DtypeSymbol(BinaryDtype(e))})
Enabling(e, without, channels) ==
  LET syms == SelectSeq(Needed(e), LAMBDA s : s # without) IN
  "defconfig" :> [i \in DOMAIN syms |-> Set(syms[i], Yes)] \o <<Set(Channels, channels)>>
Enabled ==
  UNION {{Project("single", 0 :> <<e>>, Enabling(e, w, c), {e.type}, TRUE) :
            w \in Range(Needed(e)) \cup {None, UseB16},
            c \in IF e.type = "pwm" THEN {<<"int", 0>>, <<"int", 1>>, <<"y", 0>>} ELSE {<<"int", 1>>}} :
         e \in Catalogue}
  \cup {Project("single", 0 :> <<Temp("temp", d)>>,
          "defconfig" :> <<Set(<<"dawn", "sensor">>, Yes), Set(<<"nuttx", "SENSORS">>, Yes),
                           Set(UseB16, Yes), Set(DtypeSymbol(d), Yes)>>, {"sensor"}, TRUE) :
        d \in {"float", "b16"}}

Plain(yaml, slots) == Project(yaml, slots, "defconfig" :> << >>, {}, TRUE)
Pairs == {Plain("single", 0 :> s) : s \in UNION {[1..n -> Catalogue] : n \in {0, 2}}}

Slots(present, contents) == Plain("slots", [k \in present |-> contents[k]])
Contents == {(0 :> <<Dummy>>) @@ (1 :> <<Adc, Control>>) @@ (2 :> <<Dummy, Dummy>>),
             (0 :> <<Adc>>) @@ (1 :> <<Refused>>) @@ (2 :> << >>)}
MCEditions ==
  {Slots(present, c) : present \in {{0}, {0, 1}, {0, 2}, {0, 1, 2}}, c \in Contents}
    \cup {Plain("single", 0 :> <<Adc, Dummy>>)}

MCProjects == Configured \cup Enabled \cup Pairs \cup MCEditions

MCTargets ==
  {[classes |-> MCClasses, dtypes |-> MCDtypes, slots |-> 2],
   [classes |-> MCClasses \ {<<"io", "dummy">>}, dtypes |-> MCDtypes, slots |-> 2],
   [classes |-> MCClasses, dtypes |-> MCDtypes \ {"int32"}, slots |-> 1]}
MCSlotChoice == {NoSlot, 1}
=============================================================================
