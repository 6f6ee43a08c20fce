---------------------------- MODULE MCObjectImage -----------------------------
(* ObjectImage with every type of program and protocol and the IOs of         *)
(* IoHandlers.  x and y are IOs that every object may bind, b one of a dtype  *)
(* most programs refuse, p a program and q a protocol that comes later.  An   *)
(* IO has x before it, y and b not.                                           *)
EXTENDS ObjectImage

CONSTANTS x, y, b, p, q

MCRef == {x, y, b, p, q}
MCProtocol == {q}
MCDtypeOf == x :> "uint8" @@ y :> "float" @@ b :> "block"
MCBatched == {x}
MCBitwise == {"uint8", "float"}
MCWidth == [uint8 |-> 2]
MCMaxWidth == 4
MCSpan == [uint8 |-> <<0, 3>>, float |-> <<-4, 4>>]

Named(r) == Cell("name", r)
Alias(r) == Cell("alias", r)
Num(n) == Cell("number", n)
None == Cell("missing", 0)

One(cell) == [list |-> FALSE, rows |-> <<<<cell>>>>]
Many(cells) == [list |-> TRUE, rows |-> [i \in DOMAIN cells |-> <<cells[i]>>]]
RowsOf(rows) == [list |-> TRUE, rows |-> rows]
Dict(cells) == [list |-> FALSE, rows |-> <<cells>>]

\* The configs of a type: for each key, the values it may have, "none" for no such key.
Left == [list |-> FALSE, rows |-> <<<< >>, << >>, << >>>>]
Configs(choices) ==
  FoldSet(LAMBDA k, configs : {IF v = Left THEN c ELSE (k :> v) @@ c : c \in configs, v \in choices[k]},
          {<< >>}, DOMAIN choices)
Programs(types, dtypes, choices) ==
  {[kind |-> "program", type |-> t, config |-> c, dtype |-> d] : t \in types, c \in Configs(choices), d \in dtypes}

Pairings == [sources |-> {Left, Many(<<Named(x), Alias(y)>>), Many(<<Named(x), Named(q)>>)},
             outputs |-> {Many(<<Named(p), Named(x)>>), Many(<<Named(q), Alias(b)>>), Many(<<Alias(b)>>)}]
Word == {Left, One(Num(2))}
Refs1 == {Left, One(Named(x)), One(Alias(y)), One(Named(q)), Many(<<Named(b)>>)}
Refs2 == {Many(<<Named(x), Alias(y)>>), Many(<<Named(q), Named(x)>>), Many(<< >>)}

MCProgram ==
  Programs({"stats"}, {"uint32"},
    [inputs |-> {Left, Many(<<Named(x), Named(p)>>)}, sources |-> {Left, Many(<<Named(x)>>)},
     outputs |-> {Left, Many(<<Named(p), Alias(b)>>), Many(<<Named(q)>>)}])
  \cup Programs({"statsavg", "statscount", "statsmax", "statsmin", "statsrms", "statssum",
                 "dummy", "latest", "redirect"}, {"uint32"}, Pairings)
  \cup Programs({"movingavg"}, {"uint32"}, Pairings @@ [window |-> Word])
  \cup Programs({"sampling"}, {"uint32"}, Pairings @@ [interval |-> Word])
  \cup Programs({"iirfilter"}, {"uint32"}, Pairings @@ [alpha_num |-> Word, alpha_den |-> {One(Num(3))}])
  \cup Programs({"threshold", "thresholdvalue"}, {"uint32"},
    Pairings @@ [mode |-> {One(Num(1))}, low |-> Word, high |-> {One(Num(3))}])
  \cup Programs({"counter"}, {"uint32"}, Pairings @@
    [params |-> {Left, Many(<<Num(1), Num(2)>>), Many(<<Num(1), Num(2), Num(3), Num(4)>>),
                 Many(<<Num(1), Num(2), Num(3), Num(4), Num(5)>>)}])
  \cup Programs({"expression"}, {"uint32"}, Pairings @@
    [op |-> {Many(<<Num(1)>>), Many(<<Num(1), Num(2)>>), Many(<<Num(1), Num(2), Num(3)>>)}])
  \cup Programs({"toggle"}, {"uint32"}, Pairings @@
    [values |-> {Left, Many(<<Num(1)>>), Many(<<Num(1), Num(2)>>)}])
  \cup Programs({"bitsplit"}, {"uint32"}, Pairings @@ [bits |-> {Left, Many(<<Num(1), Num(2), Num(3)>>)}])
  \cup Programs({"saturate"}, {"uint8", "block"},
    [sources |-> {Many(<<Named(x)>>)}, outputs |-> {Many(<<Alias(y)>>), Many(<<Named(b)>>)},
     min |-> Word, max |-> {Left, One(Num(3)), One(Num(5))}])
  \cup Programs({"adjust"}, {"uint32"},
    [inputs |-> {Left, Many(<<Named(x)>>), Many(<<Named(q)>>)}, sources |-> {Left, Many(<<Named(x)>>)},
     outputs |-> {Many(<<Alias(y)>>), Many(<<Named(b), Named(x)>>)},
     params |-> {Left, Dict(<<Num(5), None>>), Many(<< >>)}])
  \cup Programs({"onetomany"}, {"uint32"}, [input |-> Refs1, outputs |-> Refs2])
  \cup Programs({"manytoone", "vecpack"}, {"uint32"}, [output |-> Refs1, inputs |-> Refs2])
  \cup Programs({"vecsplit"}, {"uint32"}, [source |-> Refs1, outputs |-> Refs2])
  \cup Programs({"iomux"}, {"uint32"},
    [control |-> {Left, One(Named(p))}, output |-> Refs1, inputs |-> {Many(<<Alias(x)>>)}])
  \cup Programs({"iodemux"}, {"uint32"},
    [control |-> {One(Alias(p))}, input |-> Refs1, outputs |-> Refs2])
  \cup Programs({"selector"}, {"uint32"},
    [control |-> Refs1, data |-> {Many(<<Named(x), Named(b)>>)}, target |-> Refs1])
  \cup Programs({"switch"}, {"uint32"},
    [inputs |-> {Left, RowsOf(<<<<Alias(x), Num(3)>>, << >>, <<None, None>>>>),
                 RowsOf(<<<<Named(q), Num(3)>>>>)},
     target |-> {Left, Many(<<Named(y)>>), Many(<<Alias(y), Num(5), Num(6)>>)}])
  \cup Programs({"bitpack"}, {"uint32"},
    [inputs |-> {Left, RowsOf(<<<<Named(x), Num(3)>>, << >>, <<Named(p), None>>>>),
                 RowsOf(<<<<Named(b), None>>>>)},
     output |-> Refs1])
  \cup Programs({"bitmerge"}, {"uint32"},
    [inputs |-> {RowsOf(<<<<Named(x), m1[1], m1[2]>>, << >>, <<r2, m2[1], m2[2]>>, <<Named(p), Num(1), Num(1)>>>>) :
                   r2 \in {Named(x), Alias(p)},
                   m1 \in {<<None, Num(1)>>, <<Num(2), Num(3)>>, <<Num(0), Num(2)>>},
                   m2 \in {<<Num(0), Num(2)>>, <<Num(2), Num(1)>>, <<Num(0), Num(5)>>, <<Num(3), None>>}},
     output |-> {Left, One(Named(x)), One(Alias(y)), One(Named(p))}])
  \cup Programs({"gateway"}, {"uint32"},
    [iobind |-> {Left} \cup
       {RowsOf(<<<<Named(x), Named(p), Num(1), None>>, << >>, <<Named(y), c, None, Num(3)>>>>) :
          c \in {Named(b), Alias(b), Named(q), None}}])
  \cup Programs({"sequencer"}, {"uint32"},
    [targets |-> {Left, Many(<<Named(x), Named(p)>>), Many(<<Named(q), Named(x)>>), Many(<<Named(y), Alias(p)>>)},
     states |-> {RowsOf(<<<<Num(1), Num(2)>>, << >>, <<None, Num(4)>>>>), RowsOf(<<<< >>>>)},
     start_index |-> Word])
  \cup Programs({"buffer"}, {"uint32"},
    [iobind |-> {Left} \cup
       {RowsOf(<<<<Named(x), Alias(p), Named(y), c>>>>) : c \in {Named(b), Alias(q), None}},
     depth |-> Word, flags |-> {One(Num(1))}, chunk_size |-> Word])
  \cup Programs({"ahrs"}, {"uint32"},
    [accel |-> {One(Named(y))}, gyro |-> {One(Alias(y)), Many(<<Named(y)>>)}, mag |-> Refs1,
     output |-> {One(Named(y)), One(Named(b))}, params |-> {Left, Dict(<<Num(3)>>)}])

\* Types of registers and of can's objects share numbers, as nothing compares the two.
MCDefaultType == 1
MCPushType == 2
MCHoldingType == 3
MCSpace == 1 :> "coil" @@ 2 :> "coil" @@ 3 :> "holding" @@ 4 :> "seekable"
MCSingleBit == {1, 2}
MCRegistersOf == [float |-> 2]
MCWindow == 1
MCMaxRegister == 4

ByIo(r) == Cell("io", r)
Unknown == Cell("unknown", 0)
Capitals(t) == Cell("capitals", t)

Entries(types, choices) ==
  {[kind |-> "protocol", type |-> t, config |-> c] : t \in types, c \in Configs(choices)}
Bound1 == [bindings |-> {Left, Many(<< >>), Many(<<Named(x), Alias(p), ByIo(y), None>>), Many(<<Named(q)>>)}]
Channels ==
  [bindings |-> {Left, Many(<<ByIo(y), Named(x)>>)},
   iobind2 |-> {Left, RowsOf(<< >>), RowsOf(<<<<ByIo(q), Num(1)>>>>),
                RowsOf(<<<<Named(x), None>>, << >>, <<Alias(y), Num(2)>>, <<None, Num(3)>>>>)}]

Header == {<<Num(2), Num(1)>>, <<None, Num(1)>>, <<Num(2), None>>, <<Unknown, Num(0)>>}
CanObjects ==
  {Left, RowsOf(<< >>), RowsOf(<<<<Num(2), Num(1)>>, << >>>>)}
    \cup {RowsOf(<<h \o <<Named(x), c>>>>) : h \in Header, c \in {Alias(p), ByIo(y), None}}
    \cup {RowsOf(<<h \o <<Named(x)>>, <<Num(3), Num(2), Named(q)>>>>) : h \in Header}

\* Two blocks: start and setting of the second vary, and the types of both.
BlockType == {Num(1), Num(3), Num(4), Capitals(3), Unknown, None}
Blocks ==
  {RowsOf(<<<<t, None, s, Named(x), c>>, <<u, w, Num(2), Named(y)>>>>) :
     t \in BlockType, u \in BlockType \cup {Num(2)}, s \in {None, Num(1)},
     c \in {Alias(b), ByIo(y)}, w \in {None, Num(2)}}
Malformed ==
  {Left, RowsOf(<< >>), RowsOf(<<<<Num(3), None, None, Named(x)>>, << >>>>),
   RowsOf(<<<<Num(4), Num(-1), None, Named(x)>>>>), RowsOf(<<<<Num(4), None, Num(-1)>>>>),
   RowsOf(<<<<Num(4), None, Num(5)>>>>)}

\* Nimble: the header has a constant for two of the four lists of aios, one of another value.
MCAiosToken == [digital |-> 0, analog |-> 1, analog_inputs |-> 1, digital_inputs |-> 2]
MCEssToken == [temp |-> 1, co2 |-> 2]
MCImdsToken == [temp |-> 1, accel |-> 3]

Key(k) == Cell("key", k)
MapOf(rows) == [list |-> FALSE, rows |-> rows]
Null == Many(<< >>)
Empty == MapOf(<< >>)
Data == {Named(x), Alias(y), ByIo(b), Named(q), None}
Quiet == [aios |-> {Empty}, ess |-> {Empty}, imds |-> {Empty}]
AiosMeta ==
  {<<None, None, None, None, None, None>>, <<Num(1), None, Named(p), None, None, None>>,
   <<None, Num(2), ByIo(x), None, None, None>>, <<None, None, None, Named(q), Num(3), Num(4)>>}
EssMeta ==
  {<<None, None, None, None, None>>, <<Num(1), Num(2), Num(0), None, None>>,
   <<None, None, ByIo(p), Named(q), None>>, <<None, Unknown, None, None, Alias(x)>>}
NimbleEntry ==
  Entries({"nimble"}, [gap_name |-> Word, services |-> {Left, One(None), Null}])
  \cup Entries({"nimble"},
         [dis |-> Word, bas |-> {Left, Null} \cup {One(c) : c \in Data},
          aios |-> {Left, Null, Empty}, ess |-> {Left, Empty},
          imds |-> {Null, Empty, Many(<<None>>), Many(<<Key("temperature")>>)}])
  \cup Entries({"nimble"}, [aggregate |-> {One(Num(1))}, aios |->
         {MapOf(<<<<k, c>> \o m>> \o rest) :
            k \in {Key("digital_inputs"), Key("analog_inputs"), Key("digital"), Cell("type", "analog")},
            c \in Data, m \in AiosMeta,
            rest \in {<< >>, <<<< >>, <<Key("analog_inputs"), Alias(p), None, None, None, None, None, None>>>>}}]
         @@ Quiet)
  \cup Entries({"nimble"}, [ess |->
         {MapOf(<<<<k, c>> \o m, << >>, <<Key("co2"), Alias(p), None, None, None, None, None>>>>) :
            k \in {Key("temp"), Key("temperature"), Key("co2")}, c \in Data, m \in EssMeta}] @@ Quiet)
  \cup Entries({"nimble"}, [imds |->
         {MapOf(<<<<k, c, d>>, <<Key("accel"), Named(p), None>>>>) :
            k \in {Key("temp"), Key("temperature"), Key("gyro")}, c \in Data, d \in {None, Num(1)}}] @@ Quiet)
  \cup Entries({"nimble"}, [ots |-> {Null, Empty} \cup
         {MapOf(<<<< >>, <<c, Num(1), t, a>>>> \o rest) :
            c \in Data, t \in {None, Num(1), Unknown}, a \in {None, Num(0)},
            rest \in {<< >>, <<<<Alias(p), Num(2), None, None>>>>}}] @@ Quiet)
  \cup Entries({"nimble"}, [custom |-> {Null, Many(<<Num(5)>>)} \cup
         {RowsOf(<<<< >>, <<u, c, v, f, Alias(y), Num(7), Num(1)>>>>) :
            u \in {None, Num(5)}, c \in Data, v \in {None, Num(6)}, f \in {Num(3), Unknown}}
         \cup {RowsOf(<<<<Num(5), c, Num(6), Num(3)>>>>) : c \in Data}] @@ Quiet)

\* Wakaama: numbers of 16 bits are 0 to 7, two resources have rules.
MCUint16Max == 7
MCUint32Max == 9
MCResourceDtypes == 1 :> {"uint8"} @@ 2 :> {"block"}
MCTriggers == {y}

Symbol(n) == Cell("symbol", n)
EmptyAnd(n) == Cell("empty", n)
Scalar1 == Cell("scalar", 0)
OfLwm2m == [port |-> Num(4), lifetime |-> Num(9), short_server_id |-> Num(1)]
MCServer ==
  {OfLwm2m, << >>, [port |-> Num(4)], [port |-> Num(8)] @@ OfLwm2m, [server_port |-> Num(7)],
   [server_instance |-> Num(-1)] @@ OfLwm2m, [holdoff |-> Num(10)] @@ OfLwm2m,
   [server_port |-> Num(7), bootstrap |-> Num(1), holdoff |-> Num(0)]}
  \cup {[scheme |-> Num(s), security_mode |-> Num(m), psk_identity |-> i, psk_key |-> k] @@ OfLwm2m :
          s \in {0, 1}, m \in {0, 3}, i \in {Num(1), Unknown}, k \in {Num(2), Unknown}}
OneResource(resource, access, io) ==
  RowsOf(<<<<Symbol(1), None, resource, access, io, Symbol(1), None, Named(x)>>, <<Num(2), None>>>>)
WakaamaEntry ==
  Entries({"wakaama"},
    [endpoint |-> Word, local_port |-> {Left, One(Num(7)), One(Num(8)), One(Unknown)},
     queue_mode |-> {Left, One(Num(1))}, server_host |-> Word, server_port |-> {One(Num(4))},
     lifetime |-> {Left, One(Num(9)), One(Num(10))}, device |-> {Left, One(Num(1))},
     servers |-> {Left, Many(<< >>), One(Num(1)), RowsOf(<<OfLwm2m, OfLwm2m>>)}])
  \cup Entries({"wakaama"}, [server_host |-> Word, servers |->
         {RowsOf(<<s, [host |-> Num(3)] @@ OfLwm2m>>) : s \in MCServer}])
  \cup Entries({"wakaama"}, [manufacturer |-> Word, model_number |-> {Left}, serial_number |-> Word,
         firmware_version |-> {Left, One(Num(3))}, battery_voltage |-> {Left} \cup {One(c) : c \in Data},
         battery_level |-> {Left, One(Alias(p))}, battery_status |-> {Left, One(Named(x))}])
  \cup Entries({"wakaama"}, [objects |->
         {OneResource(r, a, c) :
            r \in {Symbol(1), Symbol(2), Num(1), Num(8), Unknown, EmptyAnd(3), None, Scalar1},
            a \in {None, Num(4), Unknown}, c \in Data \cup {Named(p)}}
         \cup {Left, One(Num(1)), RowsOf(<<<< >>>>)}
         \cup {RowsOf(<<<<o, i>> \o rest>>) :
                 o \in {Symbol(1), Num(2), Num(8), Unknown, EmptyAnd(3), None}, i \in {None, Num(1), Num(8)},
                 rest \in {<< >>, <<Symbol(3), Num(3), Named(x)>>}}])

MCProtocolEntry ==
  NimbleEntry \cup WakaamaEntry
  \cup Entries({"dummy"}, Bound1)
  \cup Entries({"serial"}, Bound1 @@ [path |-> Word, baudrate |-> Word])
  \cup Entries({"udp"}, Bound1 @@ [port |-> Word])
  \cup Entries({"ipc"}, Bound1 @@ [rx_path |-> Word, tx_path |-> Word])
  \cup Entries({"shell"}, Bound1 @@ [path |-> Word, prompt |-> Word])
  \cup Entries({"nxscope_dummy"}, Channels)
  \cup Entries({"nxscope_serial"}, Channels @@ [path |-> Word, baudrate |-> Word])
  \cup Entries({"nxscope_udp"}, Channels @@ [port |-> Word])
  \cup Entries({"can"}, [device |-> Word, node_id |-> Word, objects |-> CanObjects])
  \cup Entries({"modbus_rtu"},
         [path |-> Word, baudrate |-> Word, port |-> Word, registers |-> Malformed])
  \cup Entries({"modbus_tcp"}, [path |-> Word, port |-> Word, registers |-> Malformed])
  \cup Entries({"modbus_rtu"}, [registers |-> Blocks])
  \cup Entries({"modbus_tcp"}, [registers |-> {RowsOf(<<<<t, None, Num(1), Named(x), c>>>>) :
                                   t \in BlockType, c \in {Alias(b), ByIo(y)}}])

Ios1(types, dtypes, variants, choices) ==
  {[kind |-> "io", type |-> t, config |-> c, dtype |-> d, variant |-> v, before |-> {x}] :
     t \in types, d \in dtypes, v \in variants, c \in Configs(choices)}
Notified ==
  {Left, Many(<< >>), Dict(<<Num(1), None, Num(4)>>), Dict(<<Unknown, Num(2), None>>)}
LimitsOf(min, max, step) == [list |-> FALSE, rows |-> <<min, max, step>>]
Limited ==
  {Left, Many(<< >>), LimitsOf(<<None>>, <<None>>, <<None>>),
   LimitsOf(<<Num(0)>>, <<Num(5)>>, <<None>>), LimitsOf(<< >>, <<None>>, <<Num(0), Num(0)>>)}
SharedBy == [device |-> Word, notify |-> Notified, limits |-> Limited]
AnyDtype == {"uint8", "char", "float", "int64", "b16", "block"}
Initially == {Left, One(Num(0)), Many(<<Num(3), Num(4)>>), Many(<< >>)}

MCIoEntry ==
  Ios1({"gpi"}, AnyDtype, {"none"}, SharedBy)
  \cup Ios1(Fieldless, {"uint32"}, {"none"}, [device |-> Word, limits |-> {Left, Many(<< >>)}])
  \cup Ios1({"sysinfo"}, {"uint32", "uint64"}, {"none", "uptime"}, [limits |-> Limited])
  \cup Ios1({"uname"}, {"uint8", "float", "int64"}, {"hostname"}, [limits |-> Limited])
  \cup Ios1({"boardctl"}, {"uint32", "float", "int64"}, {"reset"}, [limits |-> Limited])
  \cup Ios1({"leds", "rgb_led"}, {"uint32"}, {"none"}, [init_val |-> Word, notify |-> Notified])
  \cup Ios1({"adc_stream"}, {"int32"}, {"none"}, [batch_size |-> Word])
  \cup Ios1({"adc_sync"}, {"int32"}, {"none"}, [trigger_freq |-> Word])
  \cup Ios1({"lte_signal"}, {"int16"}, {"none"}, [interval |-> Word])
  \cup Ios1({"sensor"}, {"float"}, {"none", "gnss_time"},
            [update_interval |-> Word, measurement_period |-> Word, limits |-> Limited])
  \cup Ios1({"sensor_producer"}, {"float"}, {"none"}, [queue_size |-> Word, persist |-> Word])
  \cup Ios1({"encoder", "encoder_index"}, {"int32"}, {"none"}, [posmax |-> Word])
  \cup Ios1({"pot"}, {"int32"}, {"none"}, [wiper |-> Word])
  \cup Ios1({"timestamp"}, {"uint64"}, {"none"}, [interval_us |-> Word])
  \cup Ios1({"pwm"}, {"uint32"}, {"none"}, [freq |-> Word])
  \cup Ios1({"fileio"}, {"char"}, {"none"}, [path |-> Word, perm |-> Word])
  \cup Ios1({"pulsecount"}, {"uint32"}, {"none"}, [high_ns |-> Word, low_ns |-> Word])
  \cup Ios1({"dummy"}, AnyDtype, {"none", "uptime"},
            [dim |-> Word, init_value |-> Initially, limits |-> Limited])
  \cup Ios1({"dummy_notify"}, AnyDtype, {"none"},
            [dim |-> Word, init_value |-> Initially, interval_us |-> Word,
             notify_on_write |-> {Left, One(Num(0)), One(Num(1)), One(Num(2))}])
  \cup Ios1({"control", "trigger"}, {"uint8"}, {"none"},
            [device |-> Word, notify |-> Notified, limits |-> Limited,
             targets |-> {Left, Many(<< >>), Many(<<Named(x), Named(p)>>), Many(<<Named(y)>>)}
               \cup {Many(<<Named(p), c>>) : c \in {Alias(x), None, Named(q)}},
             allowed |-> {Left, Many(<< >>), Many(<<Num(1), Unknown, Num(0), Num(1)>>),
                          Many(<<Unknown>>)}])
=============================================================================
