----------------------------- MODULE DeviceSession -----------------------------
(***************************************************************************)
(* A console driving one device over a serial-like link: the connection    *)
(* life cycle, discovery, reads, writes and seekable reads of              *)
(* cli/simple_device_client.py, the request/answer exchange of             *)
(* simple_protocol.py, and the command loop of cli/console_base.py and     *)
(* cli/simple_device_console.py.                                           *)
(*                                                                         *)
(* The package has no transport of its own: send_frame, receive_frame,     *)
(* connect and disconnect come from the tool that derives from these       *)
(* classes, and the device is firmware.  Both are modelled from how the    *)
(* code uses them: a request may not be sent, an answer may not come in    *)
(* time (receive_frame then returns None), and a request that timed out    *)
(* may have been carried out.  A stray link keeps an answer that came too  *)
(* late, or a notification, for the next receive_frame; the other kind     *)
(* drops such frames.  Frames of another command than the one requested    *)
(* are refused by the caller (the ping of the package does so).            *)
(*                                                                         *)
(* Every request of an operation is one exchange: Send puts it on the      *)
(* wire, DeviceAnswers turns it into a frame, and a handler of the         *)
(* operation consumes the outcome, a frame or None.                        *)
(***************************************************************************)
EXTENDS Naturals, Sequences, SequencesExt

CONSTANTS
  Obj,        \* object ids the device or the descriptor knows
  Access,     \* what GET_INFO reports of an object: "RO", "WO" or "RW"
  Block,      \* the objects of block dtype
  DeviceList, \* the ids LIST_IOS reports, in order
  DescrList,  \* the ids a descriptor resolves to, in order
  ReadLists,  \* the argument lists of a read command
  Settings,   \* the pairs of a link and a descriptor a session may have
  MaxTotal,   \* bound on the size a seekable object announces
  MaxChunk,   \* bound on the bytes of one answer to GET_IO_SEEK
  MaxInbox,   \* bound on the frames waiting to be received
  None

ASSUME DeviceAssumption ==
  /\ Access \in [Obj -> {"RO", "WO", "RW"}]
  /\ Block \subseteq Obj
  /\ DeviceList \in Seq(Obj) /\ DescrList \in Seq(Obj)
  /\ ReadLists \subseteq Seq(Obj) \ {<< >>}
  /\ Settings \subseteq BOOLEAN \X {"no", "ok", "bad"}
  /\ MaxTotal \in Nat /\ MaxChunk \in Nat /\ MaxInbox \in Nat \ {0}

VARIABLES
  stray,      \* the link keeps frames nobody waits for (external)
  descr,      \* descriptor_path: "no", "ok", or "bad" when loading it raises
  open,       \* the transport's connection is up (external)
  wire,       \* the request the device has yet to answer, or None (external)
  inbox,      \* frames received and not yet read (external)
  connected,  \* SimpleDeviceClient.connected
  discovered, \* the keys of discovered_ios
  phase,      \* of ConsoleBase.run: "start", "loop", "stopped", "crashed"
  running,    \* ConsoleBase.running
  call,       \* the client call in progress
  shown       \* the last value the call printed: for which object, from which, its bytes
              \* (history)

config  == <<stray, descr>>
link    == <<open, wire, inbox>>
console == <<phase, running>>
vars == <<config, link, connected, discovered, console, call, shown>>

CmdOfAll == {"PING", "LIST", "NOTIFY"}
CmdOfObj == {"GET_INFO", "GET_IO", "SET_IO", "GET_IO_SEEK"}
Sent  == [cmd : CmdOfAll, obj : {None}, off : {0}] \cup [cmd : CmdOfObj, obj : Obj, off : Nat]
Frame == [re     : Sent,
          status : {"ok", "error", "short"},
          total  : Nat,
          part   : Seq(Nat)]

\* pc: the exchange the call is at; todo: the objects left, the current one first;
\* found: entries of a discovery so far; total, got: size and bytes of a seek, a
\* byte being its offset in the object.
Call == [op    : {"start", "discover", "read", "seek", "write", "raw"},
         pc    : {"link", "ping", "load", "list", "info", "data", "set", "back", "chunk"},
         sent  : BOOLEAN,
         todo  : Seq(Obj),
         found : SUBSET Obj,
         total : Nat \cup {None},
         got   : Seq(Nat)]

ASSUME NoneAssumption == None \notin Call \cup Sent \cup Frame

Idle == call = None
At(p) == ~Idle /\ call.pc = p
Doing(ops) == ~Idle /\ call.op \in ops
Current == Head(call.todo)

Init ==
  /\ \E setting \in Settings : stray = setting[1] /\ descr = setting[2]
  /\ open = FALSE /\ wire = None /\ inbox = << >>
  /\ connected = FALSE /\ discovered = {}
  /\ phase = "start" /\ running = TRUE
  /\ call = None
  /\ shown = None

-----------------------------------------------------------------------------
(* The exchange (_exchange, _exchange_objid, _exchange_write) and what it    *)
(* rests on.                                                                 *)

\* The request a call makes at each step.  Mutant: every chunk is asked from the start.
RequestFrom(off) ==
  LET to(cmd) == [cmd |-> cmd, obj |-> Current, off |-> 0] IN
  CASE call.pc = "ping"  -> [cmd |-> "PING", obj |-> None, off |-> 0]
    [] call.pc = "list"  -> [cmd |-> "LIST", obj |-> None, off |-> 0]
    [] call.pc = "info"  -> to("GET_INFO")
    [] call.pc \in {"data", "back"} -> to("GET_IO")
    [] call.pc = "set"   -> to("SET_IO")
    [] call.pc = "chunk" -> [to("GET_IO_SEEK") EXCEPT !.off = off]
RequestStart == RequestFrom(0)
Request == RequestFrom(Len(call.got))

Exchanging == ~Idle /\ call.pc \notin {"link", "load"}

Send ==
  /\ Exchanging /\ ~call.sent
  /\ open
  /\ wire' = Request
  /\ call' = [call EXCEPT !.sent = TRUE]
  /\ UNCHANGED <<config, open, inbox, connected, discovered, console, shown>>

\* The device's answer to a request: an error status, always so for what the
\* object's access forbids; a payload too short to parse; or what was asked.
Forbidden(req) ==
  \/ req.cmd = "GET_IO" /\ Access[req.obj] = "WO"
  \/ req.cmd = "SET_IO" /\ Access[req.obj] = "RO"

Answers(req) ==
  {f \in [re : {req}, status : {"ok", "error", "short"}, total : 0..MaxTotal,
          part : {[k \in 1..n |-> req.off + k - 1] : n \in 0..MaxChunk}] :
     /\ Forbidden(req) => f.status = "error"
     /\ f.status = "short" => req.cmd \in {"LIST", "GET_INFO"}
     /\ (f.status # "ok" \/ req.cmd # "GET_IO_SEEK") => f.total = 0 /\ f.part = << >>}

DeviceAnswers ==
  /\ wire # None
  /\ Len(inbox) < MaxInbox
  /\ \E f \in Answers(wire) : inbox' = Append(inbox, f)
  /\ wire' = None
  /\ UNCHANGED <<config, open, connected, discovered, console, call, shown>>

\* An unsolicited NOTIFY frame.
DeviceNotifies ==
  /\ stray /\ open /\ inbox = << >>
  /\ inbox' = <<[re |-> [cmd |-> "NOTIFY", obj |-> None, off |-> 0], status |-> "ok",
                 total |-> 0, part |-> << >>]>>
  /\ UNCHANGED <<config, open, wire, connected, discovered, console, call, shown>>

\* Frames still under way when nobody waits for them any more.
Abandon ==
  IF stray THEN UNCHANGED <<wire, inbox>> ELSE wire' = None /\ inbox' = << >>

\* receive_frame returns the first frame, whatever request it answers; or nothing
\* comes in time, or send_frame had failed.
Exchanged(r) ==
  /\ Exchanging
  /\ \/ /\ call.sent /\ inbox # << >>
        /\ r = Head(inbox)
        /\ inbox' = Tail(inbox) /\ wire' = wire
     \/ r = None /\ Abandon

Outcomes == {None} \cup Range(inbox)
Accepted(r) == r # None /\ r.re.cmd = Request.cmd
Good(r) == Accepted(r) /\ r.status = "ok"
Short(r) == Accepted(r) /\ r.status = "short"

-----------------------------------------------------------------------------
(* How calls move on and end                                                 *)

\* The call goes on with its next exchange.
GoTo(p) == call' = [call EXCEPT !.pc = p, !.sent = FALSE]

\* The call returns.  The first one is perform_discovery in the console's start(),
\* whose result decides whether the loop runs at all.
Returns(result) ==
  /\ call' = None
  /\ phase' = IF phase = "start" THEN "loop" ELSE phase
  /\ running' = (running /\ (phase = "start" => result))

\* An exception leaves the call: run() catches it in the loop, not in start().
Raises ==
  /\ call' = None
  /\ phase' = IF phase = "start" THEN "crashed" ELSE phase
  /\ running' = running

Begin(op, p, todo) ==
  call' = [op |-> op, pc |-> p, sent |-> FALSE, todo |-> todo, found |-> {},
           total |-> None, got |-> << >>]

-----------------------------------------------------------------------------
(* connect, disconnect                                                       *)

\* A console starts with perform_discovery; a derived tool may call it again.
PerformDiscovery ==
  /\ Idle /\ (phase = "start" \/ (phase = "loop" /\ running))
  /\ Begin("start", "link", << >>)
  /\ UNCHANGED <<config, link, connected, discovered, console>>
  /\ shown' = None

LinkUp ==
  /\ At("link")
  /\ open' = TRUE
  /\ GoTo("ping")
  /\ UNCHANGED <<config, wire, inbox, connected, discovered, console, shown>>

LinkFails ==
  /\ At("link")
  /\ open' \in {open, FALSE}
  /\ Returns(FALSE)
  /\ UNCHANGED <<config, wire, inbox, connected, discovered, shown>>

PingAnswered ==
  /\ At("ping")
  /\ \E r \in Outcomes : Exchanged(r) /\ Good(r)
  /\ connected' = TRUE
  /\ GoTo(IF descr = "no" THEN "list" ELSE "load")
  /\ UNCHANGED <<config, open, discovered, console, shown>>

\* connected keeps its value: after an earlier success it stays TRUE.
PingFails ==
  /\ At("ping")
  /\ \E r \in Outcomes : Exchanged(r) /\ ~Good(r)
  /\ open' = FALSE
  /\ Returns(FALSE)
  /\ UNCHANGED <<config, connected, discovered, shown>>

\* The owner of the console lets go of the device.
Disconnect ==
  /\ Idle /\ phase \in {"stopped", "crashed"}
  /\ connected
  /\ open' = FALSE /\ connected' = FALSE
  /\ UNCHANGED <<config, wire, inbox, discovered, console, call, shown>>

-----------------------------------------------------------------------------
(* Discovery: discover_all_ios with _collect_io_snapshot at run time, or     *)
(* _discover_descriptor_ios                                                  *)

\* discover_ios by itself, or known_objids with nothing cached: the latter asks the
\* device without looking at connected.
DiscoverAgain ==
  /\ Idle /\ phase = "loop" /\ running
  /\ \/ connected
     \/ discovered = {} /\ descr # "no"
  /\ Begin("discover", IF descr = "no" THEN "list" ELSE "load", << >>)
  /\ UNCHANGED <<config, link, connected, discovered, console>>
  /\ shown' = None

\* Only perform_discovery and _discover_descriptor_ios store what they found.
Stored == call.op = "start" \/ descr # "no"

\* Mutants: the end of the list is not noticed; entries are stored as they are found.
VisitEndless(found, rest) ==
  /\ call' = [call EXCEPT !.pc = "info", !.sent = FALSE, !.found = found, !.todo = rest]
  /\ UNCHANGED <<discovered, console>>

VisitStoring(found, rest) ==
  /\ discovered' = IF Stored THEN found ELSE discovered
  /\ IF rest # << >>
     THEN /\ call' = [call EXCEPT !.pc = "info", !.sent = FALSE, !.found = found, !.todo = rest]
          /\ UNCHANGED console
     ELSE Returns(found # {})

\* With entries found and objects rest still to ask, the discovery goes on or returns.
Visit(found, rest) ==
  IF rest # << >>
  THEN /\ call' = [call EXCEPT !.pc = "info", !.sent = FALSE, !.found = found, !.todo = rest]
       /\ UNCHANGED <<discovered, console>>
  ELSE /\ discovered' = IF Stored THEN found ELSE discovered
       /\ Returns(found # {})

LoadDescriptor ==
  /\ At("load")
  /\ IF descr = "bad" THEN Raises /\ UNCHANGED discovered ELSE Visit({}, DescrList)
  /\ UNCHANGED <<config, link, connected, shown>>

ListAnswered ==
  /\ At("list")
  /\ \E r \in Outcomes :
       /\ Exchanged(r)
       /\ IF Short(r) THEN Raises /\ UNCHANGED discovered
          ELSE Visit({}, IF Good(r) THEN DeviceList ELSE << >>)
  /\ UNCHANGED <<config, open, connected, shown>>

\* Mutant: block objects are read plainly too.
ReadPlainly(obj, info) == Access[info] # "WO"
ReadAtDiscovery(obj, info) == Access[info] # "WO" /\ obj \notin Block /\ info \notin Block

SnapshotInfo ==
  /\ At("info") /\ Doing({"start", "discover"}) /\ descr = "no"
  /\ \E r \in Outcomes :
       /\ Exchanged(r)
       /\ \/ Short(r) /\ Raises /\ UNCHANGED discovered
          \/ ~Short(r) /\ ~Good(r) /\ Visit(call.found, Tail(call.todo))
          \/ /\ Good(r) /\ ~ReadAtDiscovery(Current, r.re.obj)
             /\ Visit(call.found \cup {Current}, Tail(call.todo))
          \/ /\ Good(r) /\ ReadAtDiscovery(Current, r.re.obj)
             /\ GoTo("data")
             /\ UNCHANGED <<discovered, console>>
  /\ UNCHANGED <<config, open, connected, shown>>

\* A descriptor's objects are read whatever their info says, and whether it comes.
DescriptorInfo ==
  /\ At("info") /\ Doing({"start", "discover"}) /\ descr # "no"
  /\ \E r \in Outcomes :
       /\ Exchanged(r)
       /\ IF Short(r) THEN Raises ELSE GoTo("data") /\ UNCHANGED console
  /\ UNCHANGED <<config, open, connected, discovered, shown>>

DiscoveryData ==
  /\ At("data") /\ Doing({"start", "discover"})
  /\ \E r \in Outcomes : Exchanged(r)
  /\ Visit(call.found \cup {Current}, Tail(call.todo))
  /\ UNCHANGED <<config, open, connected, shown>>

-----------------------------------------------------------------------------
(* Reads: cmd_read, cmd_info, cmd_seek                                       *)

FirstExchange(o) == IF o \in Block THEN "chunk" ELSE "info"

\* Not connected, each of these prints an error and changes nothing.
Read ==
  /\ Idle /\ phase = "loop" /\ running /\ connected
  /\ \/ \E objs \in ReadLists : Begin("read", FirstExchange(Head(objs)), objs)
     \/ \E o \in Obj : Begin("seek", "chunk", <<o>>)
  /\ UNCHANGED <<config, link, connected, discovered, console>>
  /\ shown' = None

\* read_io_value returned: the command takes the next object.
NextRead ==
  LET rest == Tail(call.todo) IN
  IF rest = << >> THEN Returns(TRUE)
  ELSE Begin(call.op, FirstExchange(Head(rest)), rest) /\ UNCHANGED console

ReadInfo ==
  /\ At("info") /\ Doing({"read"})
  /\ \E r \in Outcomes :
       /\ Exchanged(r)
       /\ \/ Short(r) /\ Raises
          \/ Good(r) /\ GoTo("data") /\ UNCHANGED console
          \/ ~Short(r) /\ ~Good(r) /\ NextRead
  /\ UNCHANGED <<config, open, connected, discovered, shown>>

ReadData ==
  /\ At("data") /\ Doing({"read"})
  /\ \E r \in Outcomes :
       /\ Exchanged(r)
       /\ shown' = IF Good(r) THEN [obj |-> Current, from |-> r.re.obj, total |-> 0, got |-> << >>]
                   ELSE shown
  /\ NextRead
  /\ UNCHANGED <<config, open, connected, discovered>>

\* Mutants: an empty chunk is asked for again; the last byte is not awaited.
EmptyTolerated(r) == ~Good(r)
LastMissing(n, total) == n + 1 < total

\* _read_io_seek_all: the first answer fixes the size, an empty later one is an error.
ChunkFails(r) == ~Good(r) \/ (call.total # None /\ r.part = << >>)
Unfinished(n, total) == n < total

ChunkAnswered ==
  /\ At("chunk")
  /\ \E r \in Outcomes :
       /\ Exchanged(r)
       /\ IF ChunkFails(r) THEN NextRead /\ UNCHANGED shown
          ELSE LET got   == call.got \o r.part
                   total == IF call.total = None THEN r.total ELSE call.total
               IN IF Unfinished(Len(got), total)
                  THEN /\ call' = [call EXCEPT !.sent = FALSE, !.got = got, !.total = total]
                       /\ UNCHANGED <<console, shown>>
                  ELSE /\ shown' = [obj |-> Current, from |-> r.re.obj,
                                    total |-> total, got |-> got]
                       /\ NextRead
  /\ UNCHANGED <<config, open, connected, discovered>>

-----------------------------------------------------------------------------
(* Writes: write_io_value and, for an argument that reads as hex bytes,      *)
(* write_io_raw                                                              *)

Write ==
  /\ Idle /\ phase = "loop" /\ running /\ connected
  /\ \E op \in {"write", "raw"}, o \in Obj : Begin(op, "info", <<o>>)
  /\ UNCHANGED <<config, link, connected, discovered, console>>
  /\ shown' = None

\* pack_data_by_dtype packs no block value, and refuses others by range.
Packs(op, o) == IF op = "raw" THEN {TRUE} ELSE IF o \in Block THEN {FALSE} ELSE BOOLEAN

\* Mutant: anything whose info came is writable.
WritableAny(r) == Good(r)
Writable(r) == Good(r) /\ Access[r.re.obj] # "RO"

WriteInfo ==
  /\ At("info") /\ Doing({"write", "raw"})
  /\ \E r \in Outcomes, packed \in Packs(call.op, Current) :
       /\ Exchanged(r)
       /\ \/ Short(r) /\ Raises
          \/ ~Short(r) /\ ~(Writable(r) /\ packed) /\ Returns(TRUE)
          \/ Writable(r) /\ packed /\ GoTo("set") /\ UNCHANGED console
  /\ UNCHANGED <<config, open, connected, discovered, shown>>

WriteAnswered ==
  /\ At("set")
  /\ \E r \in Outcomes :
       /\ Exchanged(r)
       /\ IF Good(r) THEN GoTo("back") /\ UNCHANGED console ELSE Returns(TRUE)
  /\ UNCHANGED <<config, open, connected, discovered, shown>>

ReadBack ==
  /\ At("back")
  /\ \E r \in Outcomes :
       /\ Exchanged(r)
       /\ shown' = IF Good(r) THEN [obj |-> Current, from |-> r.re.obj, total |-> 0, got |-> << >>]
                   ELSE shown
  /\ Returns(TRUE)
  /\ UNCHANGED <<config, open, connected, discovered>>

-----------------------------------------------------------------------------
(* The command loop                                                          *)

\* Quit, end of input, or an interrupt at the prompt.
Leave ==
  /\ Idle /\ phase = "loop" /\ running
  /\ running' = FALSE
  /\ UNCHANGED <<config, link, connected, discovered, phase, call>>
  /\ shown' = None

\* Ctrl-C while a call is under way: caught in the loop, not in start().
Interrupt ==
  /\ ~Idle
  /\ call' = None
  /\ Abandon
  /\ IF phase = "start" THEN phase' = "crashed" /\ running' = running
     ELSE running' = FALSE /\ phase' = phase
  /\ UNCHANGED <<config, open, connected, discovered, shown>>

LoopEnds ==
  /\ Idle /\ phase = "loop" /\ ~running
  /\ phase' = "stopped"
  /\ UNCHANGED <<config, link, connected, discovered, running, call, shown>>

Connecting  == LinkUp \/ LinkFails \/ PingAnswered \/ PingFails
Discovering == LoadDescriptor \/ ListAnswered \/ SnapshotInfo \/ DescriptorInfo \/ DiscoveryData
Reading     == ReadInfo \/ ReadData \/ ChunkAnswered
Writing     == WriteInfo \/ WriteAnswered \/ ReadBack

\* What the package's own code does next, once a call has begun.
CallStep == Send \/ Connecting \/ Discovering \/ Reading \/ Writing

\* What the user, the derived tool, the device and the link do.
External ==
  \/ PerformDiscovery \/ DiscoverAgain \/ Read \/ Write
  \/ Leave \/ Interrupt \/ Disconnect
  \/ DeviceAnswers \/ DeviceNotifies

Next == CallStep \/ LoopEnds \/ External

\* The thread runs on, and receive_frame returns; nothing is asked of the device.
Spec == Init /\ [][Next]_vars /\ WF_vars(CallStep) /\ WF_vars(LoopEnds)

-----------------------------------------------------------------------------
(* Properties *)

\* Every variable has its type, and a call that asks about an object has one to ask
\* about.
TypeOK ==
  /\ stray \in BOOLEAN /\ descr \in {"no", "ok", "bad"}
  /\ open \in BOOLEAN
  /\ wire = None \/ wire \in Sent
  /\ inbox \in Seq(Frame) /\ Len(inbox) <= MaxInbox
  /\ connected \in BOOLEAN /\ discovered \subseteq Obj
  /\ phase \in {"start", "loop", "stopped", "crashed"} /\ running \in BOOLEAN
  /\ call = None \/ call \in Call
  /\ Exchanging /\ call.pc \notin {"ping", "list"} => call.todo # << >>
  /\ shown = None \/ shown \in [obj : Obj, from : Obj, total : Nat, got : Seq(Nat)]

\* The session of the client and the console: commands are taken only after a first
\* discovery succeeded, and so behind a connected client; between calls the link is open
\* only while the client will close it (disconnect() does nothing unless connected is
\* set), unless an exception left start(); the cached snapshot is replaced only as a
\* whole, when a discovery returns, and a descriptor's is complete whatever the device
\* failed to answer.
Stage ==
  CASE phase = "start"                      -> IF Idle THEN "new" ELSE "starting"
    [] phase = "loop" /\ ~Idle              -> "busy"
    [] phase = "loop" /\ Idle /\ running    -> "ready"
    [] phase = "loop" /\ Idle /\ ~running   -> "over"
    [] phase = "stopped"                    -> "over"
    [] phase = "crashed"                    -> "broken"

Session == INSTANCE ConsoleSession WITH
  stage <- Stage, up <- open, held <- connected, cache <- discovered,
  snapshots <- IF descr = "no" THEN SUBSET Range(DeviceList) ELSE {Range(DescrList)}

SessionKept == Session!Spec

\* On a link that drops what nobody waits for, no SET_IO is ever sent to an object
\* the device reports read-only.
NoWriteToReadOnly ==
  (~stray /\ wire # None /\ wire.cmd = "SET_IO") => Access[wire.obj] # "RO"

\* On such a link a block object is asked for with a plain GET_IO only by the
\* discovery of a descriptor and after a write: a read, or a run-time discovery,
\* never starts such a transfer.
BlocksReadInChunks ==
  (~stray /\ wire # None /\ wire.cmd = "GET_IO" /\ wire.obj \in Block) =>
    \/ Doing({"write", "raw"})
    \/ Doing({"start", "discover"}) /\ descr # "no"

\* On such a link a seekable value that is printed has each of its bytes once, in
\* order, and no fewer than the device announced.
SeekAssembled ==
  (~stray /\ shown # None) =>
    /\ \A k \in 1..Len(shown.got) : shown.got[k] = k - 1
    /\ Len(shown.got) >= shown.total

\* Every call returns, whatever the device answers or leaves unanswered.
CommandEnds == ~Idle ~> Idle

\* A printed value is one the device gave for the object it is printed for.
ShownIsRequested == shown # None => shown.from = shown.obj
=============================================================================
