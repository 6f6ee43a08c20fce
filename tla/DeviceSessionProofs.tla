-------------------------- MODULE DeviceSessionProofs --------------------------
(***************************************************************************)
(* What a session guarantees for any objects, lists, sizes and answers,    *)
(* and any mix of timeouts, errors and interrupts: proofs for              *)
(* DeviceSession.                                                          *)
(***************************************************************************)
EXTENDS DeviceSession, TLAPS

-----------------------------------------------------------------------------
(* The session as a whole.  The abstract session speaks of connected and     *)
(* the link between calls; within one they depend on how far it has come.    *)

\* A call runs while the console does; the first one is perform_discovery.
Serving ==
  /\ phase \in {"start", "loop", "stopped", "crashed"} /\ running \in BOOLEAN
  /\ ~Idle => phase \in {"start", "loop"} /\ running
  /\ phase = "start" => running
  /\ phase = "loop" /\ running => connected
  /\ phase = "start" /\ ~Idle => call.op = "start"

\* The link is open for a client that holds it, or for a ping that decides about it.
Holding ==
  /\ open \in BOOLEAN /\ connected \in BOOLEAN
  /\ At("ping") => open
  /\ open => connected \/ phase = "crashed" \/ At("ping")
  /\ ~Idle /\ call.pc \notin {"link", "ping"} => connected
  /\ ~Idle /\ call.pc \in {"link", "ping"} => call.op = "start"

\* Which calls make an exchange; and what a discovery has found and has yet to ask.
Collecting ==
  /\ descr \in {"no", "ok", "bad"}
  /\ At("load") => descr # "no" /\ Doing({"start", "discover"})
  /\ At("list") => descr = "no" /\ Doing({"start", "discover"})
  /\ Doing({"start", "discover"}) /\ call.pc \in {"info", "data"} =>
       /\ call.todo # << >>
       /\ IF descr = "no"
          THEN call.found \cup Range(call.todo) \subseteq Range(DeviceList)
          ELSE call.found \cup Range(call.todo) = Range(DescrList)
  /\ At("chunk") => Doing({"read", "seek"})
  /\ At("set") => Doing({"write", "raw"})

SessionInv == Serving /\ Holding /\ Collecting

-----------------------------------------------------------------------------
(* Types *)

LEMMA TailIsRest ==
  ASSUME NEW S, NEW s \in Seq(S), s # << >>
  PROVE  /\ Head(s) \in S /\ Tail(s) \in Seq(S)
         /\ Len(Tail(s)) = Len(s) - 1
         /\ Range(s) = {Head(s)} \cup Range(Tail(s))
<1>1. Head(s) \in S /\ Tail(s) \in Seq(S) /\ Len(Tail(s)) = Len(s) - 1
  OBVIOUS
<1>2. ASSUME NEW x \in Range(s)
      PROVE  x \in {Head(s)} \cup Range(Tail(s))
  <2>1. PICK k \in 1..Len(s) : x = s[k]
    BY DEF Range
  <2>2. CASE k = 1
    BY <2>1, <2>2
  <2>3. CASE k # 1
    <3>1. k - 1 \in 1..Len(Tail(s)) /\ Tail(s)[k - 1] = s[k]
      BY <2>3
    <3>2. DOMAIN Tail(s) = 1..Len(Tail(s))
      BY <1>1
    <3> QED BY <3>1, <3>2, <2>1 DEF Range
  <2> QED BY <2>2, <2>3
<1>3. Head(s) \in Range(s)
  <2>1. 1 \in DOMAIN s /\ s[1] = Head(s)
    OBVIOUS
  <2> QED BY <2>1 DEF Range
<1>4. ASSUME NEW x \in Range(Tail(s))
      PROVE  x \in Range(s)
  <2>1. PICK k \in 1..Len(Tail(s)) : x = Tail(s)[k]
    BY <1>1 DEF Range
  <2>2. k + 1 \in 1..Len(s) /\ Tail(s)[k] = s[k + 1]
    BY <1>1
  <2> QED BY <2>1, <2>2 DEF Range
<1> QED BY <1>1, <1>2, <1>3, <1>4

\* What an exchange returns is a frame or nothing, and the link keeps its types.
LEMMA ExchangeTypes ==
  ASSUME TypeOK, NEW r \in Outcomes, Exchanged(r)
  PROVE  /\ r = None \/ r \in Frame
         /\ wire' = None \/ wire' \in Sent
         /\ inbox' \in Seq(Frame) /\ Len(inbox') <= MaxInbox
<1>1. MaxInbox \in Nat
  BY DeviceAssumption
<1>2. r = None \/ r \in Frame
  BY DEF TypeOK, Outcomes, Range
<1>3. CASE inbox # << >> /\ inbox' = Tail(inbox) /\ wire' = wire
  <2>1. Tail(inbox) \in Seq(Frame) /\ Len(Tail(inbox)) = Len(inbox) - 1
    BY <1>3, TailIsRest DEF TypeOK
  <2>2. Len(inbox) \in Nat
    BY DEF TypeOK
  <2> QED BY <1>1, <1>2, <1>3, <2>1, <2>2 DEF TypeOK
<1>4. CASE Abandon
  <2>1. << >> \in Seq(Frame) /\ Len(<< >>) = 0
    OBVIOUS
  <2>2. CASE wire' = wire /\ inbox' = inbox
    BY <1>2, <2>2 DEF TypeOK
  <2>3. CASE wire' = None /\ inbox' = << >>
    <3>1. inbox' \in Seq(Frame) /\ Len(inbox') <= MaxInbox
      BY <1>1, <2>1, <2>3
    <3> QED BY <1>2, <2>3, <3>1
  <2> QED BY <1>4, <2>2, <2>3 DEF Abandon
<1> QED BY <1>3, <1>4 DEF Exchanged

Ops == {"start", "discover", "read", "seek", "write", "raw"}
Pcs == {"link", "ping", "load", "list", "info", "data", "set", "back", "chunk"}

\* The type of the call alone.
CallOK ==
  /\ call = None \/ call \in Call
  /\ Exchanging /\ call.pc \notin {"ping", "list"} => call.todo # << >>

LEMMA BeginTypes ==
  ASSUME NEW op \in Ops, NEW p \in Pcs, NEW todo \in Seq(Obj),
         p \in {"link", "ping", "load", "list"} \/ todo # << >>,
         Begin(op, p, todo)
  PROVE  CallOK' /\ ~Idle' /\ call' \in Call
<1>1. call' \in Call
  BY DEF Begin, Call, Ops, Pcs
<1> QED BY <1>1, NoneAssumption DEF CallOK, Exchanging, Begin, Idle

LEMMA GoToTypes ==
  ASSUME TypeOK, ~Idle, NEW p \in Pcs,
         p \in {"link", "ping", "load", "list"} \/ call.todo # << >>,
         GoTo(p)
  PROVE  CallOK' /\ ~Idle' /\ call' \in Call
<1>1. call' \in Call
  BY DEF GoTo, TypeOK, Call, Idle, Pcs
<1>2. call'.pc = p /\ call'.todo = call.todo
  BY DEF GoTo, TypeOK, Idle, Call
<1> QED BY <1>1, <1>2, NoneAssumption DEF CallOK, Exchanging, Idle

LEMMA IdleTypes ==
  ASSUME call' = None
  PROVE  CallOK' /\ Idle'
BY DEF CallOK, Exchanging, Idle

LEMMA ReturnsTypes ==
  ASSUME TypeOK, NEW b \in BOOLEAN, Returns(b)
  PROVE  CallOK' /\ Idle' /\ phase' \in {"loop", phase} /\ running' \in BOOLEAN
BY IdleTypes DEF Returns, TypeOK

LEMMA RaisesTypes ==
  ASSUME TypeOK, Raises
  PROVE  CallOK' /\ Idle' /\ phase' \in {"crashed", phase} /\ running' \in BOOLEAN
BY IdleTypes DEF Raises, TypeOK

LEMMA VisitTypes ==
  ASSUME TypeOK, ~Idle, NEW found \in SUBSET Obj, NEW rest \in Seq(Obj), Visit(found, rest)
  PROVE  /\ CallOK' /\ discovered' \subseteq Obj
         /\ phase' \in {"loop", phase} /\ running' \in BOOLEAN
<1>1. CASE rest # << >>
  <2>1. call' \in Call /\ call'.pc = "info" /\ call'.todo = rest
    BY <1>1 DEF Visit, TypeOK, Call, Idle
  <2> QED BY <1>1, <2>1 DEF Visit, CallOK, TypeOK, console
<1>2. CASE rest = << >>
  <2>1. Returns(found # {})
    BY <1>2 DEF Visit
  <2> QED BY <1>2, <2>1, ReturnsTypes DEF Visit, TypeOK
<1> QED BY <1>1, <1>2

LEMMA NextReadTypes ==
  ASSUME TypeOK, ~Idle, call.todo # << >>, NextRead
  PROVE  CallOK' /\ phase' \in {"loop", phase} /\ running' \in BOOLEAN
<1>1. call \in Call /\ Tail(call.todo) \in Seq(Obj) /\ call.op \in Ops
  BY TailIsRest DEF TypeOK, Idle, Call, Ops
<1>2. CASE Tail(call.todo) = << >>
  BY <1>2, ReturnsTypes DEF NextRead
<1>3. CASE Tail(call.todo) # << >>
  <2>1. FirstExchange(Head(Tail(call.todo))) \in Pcs
    BY DEF FirstExchange, Pcs
  <2> QED BY <1>1, <1>3, <2>1, BeginTypes DEF NextRead, TypeOK, console
<1> QED BY <1>2, <1>3

\* What a discovery or a read asks about next.
LEMMA CurrentTyped ==
  ASSUME TypeOK, Exchanging, call.pc \notin {"ping", "list"}
  PROVE  /\ call \in Call /\ call.todo # << >> /\ Current \in Obj
         /\ Tail(call.todo) \in Seq(Obj)
<1>1. call \in Call /\ call.todo # << >>
  BY DEF TypeOK, Exchanging, Idle
<1> QED BY <1>1, TailIsRest DEF Current, Call

TypesButCall ==
  /\ stray \in BOOLEAN /\ descr \in {"no", "ok", "bad"}
  /\ open \in BOOLEAN
  /\ wire = None \/ wire \in Sent
  /\ inbox \in Seq(Frame) /\ Len(inbox) <= MaxInbox
  /\ connected \in BOOLEAN /\ discovered \subseteq Obj
  /\ phase \in {"start", "loop", "stopped", "crashed"} /\ running \in BOOLEAN
  /\ shown = None \/ shown \in [obj : Obj, from : Obj, total : Nat, got : Seq(Nat)]

LEMMA TypesSplit ==
  /\ TypeOK => TypesButCall /\ CallOK
  /\ TypesButCall' /\ CallOK' => TypeOK'
BY DEF TypeOK, TypesButCall, CallOK

\* Every action keeps the types.
LEMMA TypesConnecting ==
  ASSUME TypeOK, PerformDiscovery \/ Connecting \/ Disconnect \/ DiscoverAgain
  PROVE  TypeOK'
<1> USE DEF config, link, console, TypesButCall, Ops, Pcs
<1>e. << >> \in Seq(Obj)
  OBVIOUS
<1>1. CASE PerformDiscovery
  <2>1. CallOK'
    BY <1>1, <1>e, BeginTypes DEF PerformDiscovery
  <2> QED BY <1>1, <2>1, TypesSplit DEF PerformDiscovery
<1>2. CASE LinkUp
  <2>1. CallOK'
    BY <1>2, GoToTypes DEF LinkUp, At
  <2> QED BY <1>2, <2>1, TypesSplit DEF LinkUp
<1>3. CASE LinkFails
  <2>1. CallOK' /\ phase' \in {"loop", phase} /\ running' \in BOOLEAN
    BY <1>3, ReturnsTypes DEF LinkFails
  <2> QED BY <1>3, <2>1, TypesSplit DEF LinkFails
<1>4. CASE PingAnswered
  <2>1. PICK r \in Outcomes : Exchanged(r) /\ Good(r)
    BY <1>4 DEF PingAnswered
  <2>2. CallOK'
    BY <1>4, GoToTypes DEF PingAnswered, At
  <2> QED BY <1>4, <2>1, <2>2, ExchangeTypes, TypesSplit DEF PingAnswered
<1>5. CASE PingFails
  <2>1. PICK r \in Outcomes : Exchanged(r)
    BY <1>5 DEF PingFails
  <2>2. CallOK' /\ phase' \in {"loop", phase} /\ running' \in BOOLEAN
    BY <1>5, ReturnsTypes DEF PingFails
  <2> QED BY <1>5, <2>1, <2>2, ExchangeTypes, TypesSplit DEF PingFails
<1>6. CASE Disconnect
  BY <1>6, TypesSplit, IdleTypes DEF Disconnect, Idle
<1>7. CASE DiscoverAgain
  <2>1. CallOK'
    BY <1>7, <1>e, BeginTypes DEF DiscoverAgain
  <2> QED BY <1>7, <2>1, TypesSplit DEF DiscoverAgain
<1> QED BY <1>1, <1>2, <1>3, <1>4, <1>5, <1>6, <1>7 DEF Connecting

LEMMA TypesDiscovering ==
  ASSUME TypeOK, Discovering
  PROVE  TypeOK'
<1> USE DEF config, link, console, TypesButCall, Ops, Pcs
<1>a. {} \in SUBSET Obj /\ << >> \in Seq(Obj) /\ DescrList \in Seq(Obj) /\ DeviceList \in Seq(Obj)
  BY DeviceAssumption
<1>b. ASSUME Exchanging, call.pc \notin {"ping", "list"}
      PROVE  /\ call.found \in SUBSET Obj /\ call.found \cup {Current} \in SUBSET Obj
             /\ Tail(call.todo) \in Seq(Obj) /\ call.todo # << >> /\ ~Idle
  BY <1>b, CurrentTyped DEF Call, Exchanging
<1>1. CASE LoadDescriptor
  <2>1. CallOK' /\ discovered' \subseteq Obj /\ phase' \in {"loop", "crashed", phase}
         /\ running' \in BOOLEAN
    BY <1>1, <1>a, RaisesTypes, VisitTypes, TypesSplit DEF LoadDescriptor, At
  <2> QED BY <1>1, <2>1, TypesSplit DEF LoadDescriptor
<1>2. CASE ListAnswered
  <2>1. PICK r \in Outcomes :
          /\ Exchanged(r)
          /\ IF Short(r) THEN Raises /\ UNCHANGED discovered
             ELSE Visit({}, IF Good(r) THEN DeviceList ELSE << >>)
    BY <1>2 DEF ListAnswered
  <2>2. CallOK' /\ discovered' \subseteq Obj /\ phase' \in {"loop", "crashed", phase}
         /\ running' \in BOOLEAN
    <3>1. CASE Short(r)
      BY <2>1, <3>1, RaisesTypes, TypesSplit
    <3>2. CASE ~Short(r) /\ Good(r)
      BY <1>2, <1>a, <2>1, <3>2, VisitTypes DEF ListAnswered, At
    <3>3. CASE ~Short(r) /\ ~Good(r)
      BY <1>2, <1>a, <2>1, <3>3, VisitTypes DEF ListAnswered, At
    <3> QED BY <3>1, <3>2, <3>3
  <2> QED BY <1>2, <2>1, <2>2, ExchangeTypes, TypesSplit DEF ListAnswered
<1>3. CASE SnapshotInfo
  <2>0. Exchanging /\ call.pc = "info"
    BY <1>3 DEF SnapshotInfo, Exchanging, At
  <2>1. PICK r \in Outcomes :
          /\ Exchanged(r)
          /\ \/ Short(r) /\ Raises /\ UNCHANGED discovered
             \/ ~Short(r) /\ ~Good(r) /\ Visit(call.found, Tail(call.todo))
             \/ /\ Good(r) /\ ~ReadAtDiscovery(Current, r.re.obj)
                /\ Visit(call.found \cup {Current}, Tail(call.todo))
             \/ /\ Good(r) /\ ReadAtDiscovery(Current, r.re.obj)
                /\ GoTo("data")
                /\ UNCHANGED <<discovered, console>>
    BY <1>3 DEF SnapshotInfo
  <2>2. CallOK' /\ discovered' \subseteq Obj /\ phase' \in {"loop", "crashed", phase}
         /\ running' \in BOOLEAN
    <3>1. CASE Raises /\ UNCHANGED discovered
      BY <3>1, RaisesTypes, TypesSplit
    <3>2. CASE Visit(call.found, Tail(call.todo))
      BY <1>b, <2>0, <3>2, VisitTypes
    <3>3. CASE Visit(call.found \cup {Current}, Tail(call.todo))
      BY <1>b, <2>0, <3>3, VisitTypes
    <3>4. CASE GoTo("data") /\ UNCHANGED <<discovered, console>>
      <4>1. CallOK'
        BY <1>b, <2>0, <3>4, GoToTypes
      <4> QED BY <3>4, <4>1, TypesSplit
    <3> QED BY <2>1, <3>1, <3>2, <3>3, <3>4
  <2> QED BY <1>3, <2>1, <2>2, ExchangeTypes, TypesSplit DEF SnapshotInfo
<1>4. CASE DescriptorInfo
  <2>0. Exchanging /\ call.pc = "info"
    BY <1>4 DEF DescriptorInfo, Exchanging, At
  <2>1. PICK r \in Outcomes :
          Exchanged(r) /\ (IF Short(r) THEN Raises ELSE GoTo("data") /\ UNCHANGED console)
    BY <1>4 DEF DescriptorInfo
  <2>2. CallOK' /\ phase' \in {"crashed", phase} /\ running' \in BOOLEAN
    <3>1. CASE Raises
      BY <3>1, RaisesTypes
    <3>2. CASE GoTo("data") /\ UNCHANGED console
      <4>1. CallOK'
        BY <1>b, <2>0, <3>2, GoToTypes
      <4> QED BY <3>2, <4>1, TypesSplit
    <3> QED BY <2>1, <3>1, <3>2
  <2> QED BY <1>4, <2>1, <2>2, ExchangeTypes, TypesSplit DEF DescriptorInfo
<1>5. CASE DiscoveryData
  <2>0. Exchanging /\ call.pc = "data"
    BY <1>5 DEF DiscoveryData, Exchanging, At
  <2>1. PICK r \in Outcomes : Exchanged(r)
    BY <1>5 DEF DiscoveryData
  <2>2. CallOK' /\ discovered' \subseteq Obj /\ phase' \in {"loop", phase} /\ running' \in BOOLEAN
    BY <1>5, <1>b, <2>0, VisitTypes DEF DiscoveryData
  <2> QED BY <1>5, <2>1, <2>2, ExchangeTypes, TypesSplit DEF DiscoveryData
<1> QED BY <1>1, <1>2, <1>3, <1>4, <1>5 DEF Discovering

\* An answer that is accepted is about an object whenever the request was.
LEMMA GoodAboutObject ==
  ASSUME TypeOK, NEW r \in Outcomes, Exchanged(r), Good(r), call.pc \in {"info", "data", "back", "chunk"}
  PROVE  r \in Frame /\ r.re.obj \in Obj
<1>1. r \in Frame /\ r.re.cmd = Request.cmd
  BY ExchangeTypes DEF Good, Accepted
<1>2. Request.cmd \in CmdOfObj
  BY DEF Request, RequestFrom, CmdOfObj
<1> QED BY <1>1, <1>2 DEF Frame, Sent, CmdOfObj, CmdOfAll

ChunkTotal(r) == IF call.total = None THEN r.total ELSE call.total

LEMMA ChunkTypes ==
  ASSUME TypeOK, Exchanging, call.pc = "chunk", NEW r \in Outcomes, Exchanged(r), ~ChunkFails(r)
  PROVE  /\ r \in Frame /\ r.re.obj \in Obj
         /\ call.got \o r.part \in Seq(Nat)
         /\ ChunkTotal(r) \in Nat
<1>1. r \in Frame /\ r.re.obj \in Obj
  BY GoodAboutObject DEF ChunkFails
<1>2. call.got \in Seq(Nat) /\ r.part \in Seq(Nat) /\ r.total \in Nat
        /\ call.total \in Nat \cup {None}
  BY <1>1, CurrentTyped DEF Call, Frame
<1> QED BY <1>1, <1>2 DEF ChunkTotal

LEMMA TypesReading ==
  ASSUME TypeOK, Read \/ Reading
  PROVE  TypeOK'
<1> USE DEF config, link, console, TypesButCall, Ops, Pcs
<1>1. CASE Read
  <2>1. CallOK'
    <3>1. CASE \E objs \in ReadLists : Begin("read", FirstExchange(Head(objs)), objs)
      <4>1. PICK objs \in ReadLists : Begin("read", FirstExchange(Head(objs)), objs)
        BY <3>1
      <4>2. objs \in Seq(Obj) /\ objs # << >> /\ FirstExchange(Head(objs)) \in Pcs
        BY DeviceAssumption DEF FirstExchange
      <4> QED BY <4>1, <4>2, BeginTypes
    <3>2. CASE \E o \in Obj : Begin("seek", "chunk", <<o>>)
      <4>1. PICK o \in Obj : Begin("seek", "chunk", <<o>>)
        BY <3>2
      <4>2. <<o>> \in Seq(Obj) /\ <<o>> # << >>
        OBVIOUS
      <4> QED BY <4>1, <4>2, BeginTypes
    <3> QED BY <1>1, <3>1, <3>2 DEF Read
  <2> QED BY <1>1, <2>1, TypesSplit DEF Read
<1>2. CASE ReadInfo
  <2>0. Exchanging /\ call.pc = "info" /\ ~Idle /\ call.todo # << >>
    BY <1>2, CurrentTyped DEF ReadInfo, Exchanging, At
  <2>1. PICK r \in Outcomes :
          /\ Exchanged(r)
          /\ \/ Short(r) /\ Raises
             \/ Good(r) /\ GoTo("data") /\ UNCHANGED console
             \/ ~Short(r) /\ ~Good(r) /\ NextRead
    BY <1>2 DEF ReadInfo
  <2>2. CallOK' /\ phase' \in {"loop", "crashed", phase} /\ running' \in BOOLEAN
    <3>1. CASE Raises
      BY <3>1, RaisesTypes
    <3>2. CASE GoTo("data") /\ UNCHANGED console
      <4>1. CallOK'
        BY <2>0, <3>2, GoToTypes
      <4> QED BY <3>2, <4>1, TypesSplit
    <3>3. CASE NextRead
      BY <2>0, <3>3, NextReadTypes
    <3> QED BY <2>1, <3>1, <3>2, <3>3
  <2> QED BY <1>2, <2>1, <2>2, ExchangeTypes, TypesSplit DEF ReadInfo
<1>3. CASE ReadData
  <2>0. Exchanging /\ call.pc = "data" /\ ~Idle /\ call.todo # << >> /\ Current \in Obj
    BY <1>3, CurrentTyped DEF ReadData, Exchanging, At
  <2>1. PICK r \in Outcomes :
          /\ Exchanged(r)
          /\ shown' = IF Good(r) THEN [obj |-> Current, from |-> r.re.obj, total |-> 0, got |-> << >>]
                      ELSE shown
    BY <1>3 DEF ReadData
  <2>2. CallOK' /\ phase' \in {"loop", phase} /\ running' \in BOOLEAN
    BY <1>3, <2>0, NextReadTypes DEF ReadData
  <2>3. shown' = None \/ shown' \in [obj : Obj, from : Obj, total : Nat, got : Seq(Nat)]
    BY <2>0, <2>1, GoodAboutObject, TypesSplit
  <2> QED BY <1>3, <2>1, <2>2, <2>3, ExchangeTypes, TypesSplit DEF ReadData
<1>4. CASE ChunkAnswered
  <2>0. Exchanging /\ call.pc = "chunk" /\ ~Idle /\ call.todo # << >> /\ Current \in Obj
          /\ call \in Call
    BY <1>4, CurrentTyped DEF ChunkAnswered, Exchanging, At
  <2> DEFINE got(r) == call.got \o r.part
  <2>1. PICK r \in Outcomes :
          /\ Exchanged(r)
          /\ IF ChunkFails(r) THEN NextRead /\ UNCHANGED shown
             ELSE IF Unfinished(Len(got(r)), ChunkTotal(r))
                  THEN /\ call' = [call EXCEPT !.sent = FALSE, !.got = got(r), !.total = ChunkTotal(r)]
                       /\ UNCHANGED <<console, shown>>
                  ELSE /\ shown' = [obj |-> Current, from |-> r.re.obj,
                                    total |-> ChunkTotal(r), got |-> got(r)]
                       /\ NextRead
    BY <1>4 DEF ChunkAnswered, ChunkTotal
  <2>2. CASE ChunkFails(r)
    BY <1>4, <2>0, <2>1, <2>2, NextReadTypes, ExchangeTypes, TypesSplit DEF ChunkAnswered
  <2>3. CASE ~ChunkFails(r)
    <3>1. /\ r \in Frame /\ r.re.obj \in Obj
          /\ got(r) \in Seq(Nat) /\ ChunkTotal(r) \in Nat
      BY <2>0, <2>1, <2>3, ChunkTypes
    <3> HIDE DEF got
    <3>3. CASE Unfinished(Len(got(r)), ChunkTotal(r))
      <4>1. call' = [call EXCEPT !.sent = FALSE, !.got = got(r), !.total = ChunkTotal(r)]
              /\ UNCHANGED <<console, shown>>
        BY <2>1, <2>3, <3>3
      <4>2. call' \in Call /\ call'.todo = call.todo
        BY <2>0, <3>1, <4>1 DEF Call
      <4>3. CallOK'
        BY <2>0, <4>2 DEF CallOK
      <4> QED BY <1>4, <2>1, <4>1, <4>3, ExchangeTypes, TypesSplit DEF ChunkAnswered
    <3>4. CASE ~Unfinished(Len(got(r)), ChunkTotal(r))
      <4>1. shown' = [obj |-> Current, from |-> r.re.obj, total |-> ChunkTotal(r), got |-> got(r)]
              /\ NextRead
        BY <2>1, <2>3, <3>4
      <4>2. shown' \in [obj : Obj, from : Obj, total : Nat, got : Seq(Nat)]
        BY <2>0, <3>1, <4>1
      <4>3. CallOK' /\ phase' \in {"loop", phase} /\ running' \in BOOLEAN
        BY <2>0, <4>1, NextReadTypes
      <4> QED BY <1>4, <2>1, <4>2, <4>3, ExchangeTypes, TypesSplit DEF ChunkAnswered
    <3> QED BY <3>3, <3>4
  <2> QED BY <2>2, <2>3
<1> QED BY <1>1, <1>2, <1>3, <1>4 DEF Reading

LEMMA TypesWriting ==
  ASSUME TypeOK, Write \/ Writing
  PROVE  TypeOK'
<1> USE DEF config, link, console, TypesButCall, Ops, Pcs
<1>1. CASE Write
  <2>1. PICK op \in {"write", "raw"}, o \in Obj : Begin(op, "info", <<o>>)
    BY <1>1 DEF Write
  <2>2. <<o>> \in Seq(Obj) /\ <<o>> # << >>
    OBVIOUS
  <2>3. CallOK'
    BY <2>1, <2>2, BeginTypes
  <2> QED BY <1>1, <2>3, TypesSplit DEF Write
<1>2. CASE WriteInfo
  <2>0. Exchanging /\ call.pc = "info" /\ ~Idle /\ call.todo # << >>
    BY <1>2, CurrentTyped DEF WriteInfo, Exchanging, At
  <2>1. PICK r \in Outcomes, packed \in Packs(call.op, Current) :
          /\ Exchanged(r)
          /\ \/ Short(r) /\ Raises
             \/ ~Short(r) /\ ~(Writable(r) /\ packed) /\ Returns(TRUE)
             \/ Writable(r) /\ packed /\ GoTo("set") /\ UNCHANGED console
    BY <1>2 DEF WriteInfo
  <2>2. CallOK' /\ phase' \in {"loop", "crashed", phase} /\ running' \in BOOLEAN
    <3>1. CASE Raises
      BY <3>1, RaisesTypes
    <3>2. CASE Returns(TRUE)
      BY <3>2, ReturnsTypes
    <3>3. CASE GoTo("set") /\ UNCHANGED console
      <4>1. CallOK'
        BY <2>0, <3>3, GoToTypes
      <4> QED BY <3>3, <4>1, TypesSplit
    <3> QED BY <2>1, <3>1, <3>2, <3>3
  <2> QED BY <1>2, <2>1, <2>2, ExchangeTypes, TypesSplit DEF WriteInfo
<1>3. CASE WriteAnswered
  <2>0. Exchanging /\ call.pc = "set" /\ ~Idle /\ call.todo # << >>
    BY <1>3, CurrentTyped DEF WriteAnswered, Exchanging, At
  <2>1. PICK r \in Outcomes :
          Exchanged(r) /\ (IF Good(r) THEN GoTo("back") /\ UNCHANGED console ELSE Returns(TRUE))
    BY <1>3 DEF WriteAnswered
  <2>2. CallOK' /\ phase' \in {"loop", phase} /\ running' \in BOOLEAN
    <3>1. CASE Returns(TRUE)
      BY <3>1, ReturnsTypes
    <3>2. CASE GoTo("back") /\ UNCHANGED console
      <4>1. CallOK'
        BY <2>0, <3>2, GoToTypes
      <4> QED BY <3>2, <4>1, TypesSplit
    <3> QED BY <2>1, <3>1, <3>2
  <2> QED BY <1>3, <2>1, <2>2, ExchangeTypes, TypesSplit DEF WriteAnswered
<1>4. CASE ReadBack
  <2>0. Exchanging /\ call.pc = "back" /\ Current \in Obj
    BY <1>4, CurrentTyped DEF ReadBack, Exchanging, At
  <2>1. PICK r \in Outcomes :
          /\ Exchanged(r)
          /\ shown' = IF Good(r) THEN [obj |-> Current, from |-> r.re.obj, total |-> 0, got |-> << >>]
                      ELSE shown
    BY <1>4 DEF ReadBack
  <2>2. CallOK' /\ phase' \in {"loop", phase} /\ running' \in BOOLEAN
    BY <1>4, ReturnsTypes DEF ReadBack
  <2>3. shown' = None \/ shown' \in [obj : Obj, from : Obj, total : Nat, got : Seq(Nat)]
    BY <2>0, <2>1, GoodAboutObject, TypesSplit
  <2> QED BY <1>4, <2>1, <2>2, <2>3, ExchangeTypes, TypesSplit DEF ReadBack
<1> QED BY <1>1, <1>2, <1>3, <1>4 DEF Writing

LEMMA TypesLink ==
  ASSUME TypeOK, Send \/ DeviceAnswers \/ DeviceNotifies
  PROVE  TypeOK'
<1> USE DEF config, link, console, TypesButCall
<1>1. CASE Send
  <2>1. call \in Call /\ (call.pc \notin {"ping", "list"} => Current \in Obj /\ call.todo # << >>)
    BY <1>1, CurrentTyped DEF Send, Exchanging, TypeOK, Idle
  <2>2. Request \in Sent
    <3>1. call.pc \in {"ping", "list", "info", "data", "back", "set", "chunk"}
      BY <1>1, <2>1 DEF Send, Exchanging, Call
    <3>2. Len(call.got) \in Nat
      BY <2>1 DEF Call
    <3> QED BY <2>1, <3>1, <3>2 DEF Request, RequestFrom, Sent, CmdOfAll, CmdOfObj
  <2>3. call' \in Call /\ call'.pc = call.pc /\ call'.todo = call.todo
    BY <1>1, <2>1 DEF Send, Call
  <2>4. CallOK'
    BY <1>1, <2>1, <2>3 DEF CallOK, Send
  <2> QED BY <1>1, <2>2, <2>4, TypesSplit DEF Send
<1>2. CASE DeviceAnswers
  <2>1. PICK f \in Answers(wire) : inbox' = Append(inbox, f)
    BY <1>2 DEF DeviceAnswers
  <2>2. wire \in Sent /\ MaxChunk \in Nat /\ MaxTotal \in Nat
    BY <1>2, DeviceAssumption DEF DeviceAnswers, TypeOK
  <2>3. f \in Frame
    <3>1. f \in [re : {wire}, status : {"ok", "error", "short"}, total : 0..MaxTotal,
                 part : {[k \in 1..n |-> wire.off + k - 1] : n \in 0..MaxChunk}]
      BY DEF Answers
    <3>2. wire.off \in Nat
      BY <2>2 DEF Sent
    <3>3. ASSUME NEW n \in 0..MaxChunk
          PROVE  [k \in 1..n |-> wire.off + k - 1] \in Seq(Nat)
      BY <2>2, <3>2
    <3> QED BY <2>2, <3>1, <3>3 DEF Frame
  <2>4. inbox' \in Seq(Frame) /\ Len(inbox') <= MaxInbox
    BY <1>2, <2>1, <2>3, DeviceAssumption DEF DeviceAnswers, TypeOK
  <2>5. CallOK'
    BY <1>2, TypesSplit DEF DeviceAnswers, CallOK, Exchanging, Idle
  <2> QED BY <1>2, <2>4, <2>5, TypesSplit DEF DeviceAnswers
<1>3. CASE DeviceNotifies
  <2>1. inbox' \in Seq(Frame) /\ Len(inbox') = 1
    BY <1>3 DEF DeviceNotifies, Frame, Sent, CmdOfAll
  <2>2. CallOK'
    BY <1>3, TypesSplit DEF DeviceNotifies, CallOK, Exchanging, Idle
  <2> QED BY <1>3, <2>1, <2>2, DeviceAssumption, TypesSplit DEF DeviceNotifies
<1> QED BY <1>1, <1>2, <1>3

LEMMA TypesLoop ==
  ASSUME TypeOK, Leave \/ Interrupt \/ LoopEnds
  PROVE  TypeOK'
<1> USE DEF config, link, console, TypesButCall
<1>1. CASE Leave \/ LoopEnds
  BY <1>1, IdleTypes, TypesSplit DEF Leave, LoopEnds, Idle
<1>2. CASE Interrupt
  <2>1. << >> \in Seq(Frame) /\ Len(<< >>) = 0 /\ MaxInbox \in Nat
    BY DeviceAssumption
  <2>2. /\ wire' = None \/ wire' \in Sent
        /\ inbox' \in Seq(Frame) /\ Len(inbox') <= MaxInbox
    <3>1. CASE wire' = wire /\ inbox' = inbox
      BY <3>1 DEF TypeOK
    <3>2. CASE wire' = None /\ inbox' = << >>
      <4>1. inbox' \in Seq(Frame) /\ Len(inbox') <= MaxInbox
        BY <2>1, <3>2
      <4> QED BY <3>2, <4>1
    <3> QED BY <1>2, <3>1, <3>2 DEF Interrupt, Abandon
  <2> QED BY <1>2, <2>2, IdleTypes, TypesSplit DEF Interrupt
<1> QED BY <1>1, <1>2

LEMMA TypesStep == TypeOK /\ [Next]_vars => TypeOK'
<1>1. ASSUME TypeOK, UNCHANGED vars
      PROVE  TypeOK'
  BY <1>1 DEF vars, config, link, console, TypeOK, Exchanging, Idle
<1> QED BY <1>1, TypesConnecting, TypesDiscovering, TypesReading, TypesWriting, TypesLink, TypesLoop
       DEF Next, CallStep, External

LEMMA TypesInit == Init => TypeOK
<1> SUFFICES ASSUME Init PROVE TypeOK
  OBVIOUS
<1>1. stray \in BOOLEAN /\ descr \in {"no", "ok", "bad"}
  <2>1. PICK setting \in Settings : stray = setting[1] /\ descr = setting[2]
    BY DEF Init
  <2> QED BY <2>1, DeviceAssumption
<1>2. inbox \in Seq(Frame) /\ Len(inbox) <= MaxInbox
  BY DeviceAssumption DEF Init
<1> QED BY <1>1, <1>2 DEF Init, TypeOK, Exchanging, Idle

\* The types of a session: at most MaxInbox frames wait, and a call that asks about an
\* object has one left to ask about.
THEOREM TypeCorrect == Spec => []TypeOK
BY TypesInit, TypesStep, PTL DEF Spec

-----------------------------------------------------------------------------
(* The session as a whole: DeviceSession implements ConsoleSession           *)

\* How the three ways a call moves on change the stage.
LEMMA BeginStage ==
  ASSUME TypeOK, NEW op \in Ops, NEW p \in Pcs, NEW todo \in Seq(Obj), Begin(op, p, todo)
  PROVE  ~Idle' /\ call' \in Call /\ call'.op = op /\ call'.pc = p /\ call'.todo = todo
           /\ call'.found = {} /\ call'.got = << >>
<1>1. call' \in Call
  BY DEF Begin, Call, Ops, Pcs
<1> QED BY <1>1, NoneAssumption DEF Begin, Idle

LEMMA GoToStage ==
  ASSUME TypeOK, ~Idle, NEW p \in Pcs, GoTo(p)
  PROVE  ~Idle' /\ call' \in Call /\ call'.op = call.op /\ call'.pc = p
           /\ call'.todo = call.todo /\ call'.found = call.found /\ call'.got = call.got
<1>1. call' \in Call
  BY DEF GoTo, TypeOK, Call, Idle, Pcs
<1> QED BY <1>1, NoneAssumption DEF GoTo, TypeOK, Idle, Call

\* What a step of the session must keep and do.
Keeps == SessionInv' /\ [Session!Next]_Session!vars
Snapshots == IF descr = "no" THEN SUBSET Range(DeviceList) ELSE {Range(DescrList)}

\* A call returns: from then on the link is the client's, or down.
LEMMA ReturnKeeps ==
  ASSUME TypeOK, TypeOK', SessionInv, ~Idle, NEW b \in BOOLEAN, Returns(b),
         b => connected,
         open' => connected,
         UNCHANGED <<descr, connected>>,
         discovered' \in {discovered} \cup Snapshots
  PROVE  Keeps
<1>1. Idle' /\ call' = None
  BY DEF Returns, Idle
<1>2. Serving' /\ Holding' /\ Collecting'
  BY <1>1 DEF SessionInv, Serving, Holding, Collecting, Returns, TypeOK, At, Doing
<1>3. Session!Return
  <2>1. CASE phase = "start"
    BY <1>1, <2>1 DEF Session!Return, Stage, SessionInv, Serving, Returns, TypeOK, Snapshots
  <2>2. CASE phase = "loop"
    BY <1>1, <2>2 DEF Session!Return, Stage, SessionInv, Serving, Returns, TypeOK, Snapshots
  <2> QED BY <2>1, <2>2 DEF SessionInv, Serving
<1> QED BY <1>2, <1>3 DEF Keeps, SessionInv, Session!Next

\* An exception leaves the call.
LEMMA RaiseKeeps ==
  ASSUME TypeOK, TypeOK', SessionInv, ~Idle, call.pc \notin {"link", "ping"}, Raises,
         UNCHANGED <<descr, connected, open, discovered>>
  PROVE  Keeps
<1>1. Idle' /\ call' = None
  BY DEF Raises, Idle
<1>2. Serving' /\ Holding' /\ Collecting'
  BY <1>1 DEF SessionInv, Serving, Holding, Collecting, Raises, TypeOK, At, Doing
<1>3. CASE phase = "start"
  <2>1. Session!Abort
    BY <1>1, <1>3 DEF Session!Abort, Stage, SessionInv, Serving, Raises, TypeOK, Snapshots
  <2> QED BY <1>2, <2>1 DEF Keeps, SessionInv, Session!Next
<1>4. CASE phase = "loop"
  <2>1. Session!Return
    BY <1>1, <1>4 DEF Session!Return, Stage, SessionInv, Serving, Holding, Raises, TypeOK, Snapshots
  <2> QED BY <1>2, <2>1 DEF Keeps, SessionInv, Session!Next
<1> QED BY <1>3, <1>4 DEF SessionInv, Serving

\* A call goes on with the link as it was.
LEMMA WorkKeeps ==
  ASSUME TypeOK, TypeOK', SessionInv, ~Idle, ~Idle', Collecting',
         call'.op = call.op,
         call'.pc = call.pc \/ (call.pc \notin {"link", "ping"} /\ call'.pc \notin {"link", "ping"}),
         UNCHANGED <<descr, discovered, phase, running, connected, open>>
  PROVE  Keeps
<1>1. Serving'
  BY DEF SessionInv, Serving
<1>2. Holding'
  BY DEF SessionInv, Holding, At
<1>3. Stage' = Stage
  BY DEF Stage, SessionInv, Serving
<1>4. UNCHANGED Session!vars
  BY <1>3 DEF Session!vars
<1> QED BY <1>1, <1>2, <1>4 DEF Keeps, SessionInv

\* A call begins on a link the client holds, or is the first.
LEMMA CallKeeps ==
  ASSUME TypeOK, TypeOK', SessionInv, Idle, ~Idle', Collecting',
         \/ phase = "start"
         \/ phase = "loop" /\ running,
         \/ call'.op = "start"
         \/ phase = "loop" /\ call'.pc \notin {"link", "ping"},
         call'.pc # "ping",
         call'.pc = "link" \/ connected,
         UNCHANGED <<descr, discovered, phase, running, connected, open>>
  PROVE  Keeps
<1>1. Serving'
  BY DEF SessionInv, Serving
<1>2. Holding'
  BY DEF SessionInv, Serving, Holding, At
<1>3. Session!Call
  BY DEF Session!Call, Stage, SessionInv, Serving
<1> QED BY <1>1, <1>2, <1>3 DEF Keeps, SessionInv, Session!Next

\* Nothing of the session changes.
LEMMA NothingKeeps ==
  ASSUME TypeOK', SessionInv, Idle <=> Idle', Collecting',
         ~Idle => call'.op = call.op /\ call'.pc = call.pc,
         UNCHANGED <<descr, discovered, phase, running, connected, open>>
  PROVE  Keeps
<1>1. Serving' /\ Holding'
  BY DEF SessionInv, Serving, Holding, At
<1>2. UNCHANGED Session!vars
  BY DEF Session!vars, Stage
<1> QED BY <1>1, <1>2 DEF Keeps, SessionInv

\* A discovery asks about its next object, or returns with all of them.
LEMMA VisitKeeps ==
  ASSUME TypeOK, TypeOK', SessionInv, Doing({"start", "discover"}),
         call.pc \notin {"link", "ping"},
         NEW found \in SUBSET Obj, NEW rest \in Seq(Obj), Visit(found, rest),
         IF descr = "no" THEN found \cup Range(rest) \subseteq Range(DeviceList)
                         ELSE found \cup Range(rest) = Range(DescrList),
         UNCHANGED <<descr, connected, open>>
  PROVE  Keeps
<1>0. ~Idle /\ call \in Call /\ connected
  BY DEF Doing, TypeOK, SessionInv, Holding, Idle
<1>1. CASE rest # << >>
  <2>1. /\ call' \in Call /\ call'.pc = "info" /\ call'.op = call.op
        /\ call'.todo = rest /\ call'.found = found
    BY <1>0, <1>1 DEF Visit, Call
  <2>2. ~Idle'
    BY <2>1, NoneAssumption DEF Idle
  <2>3. Collecting'
    BY <1>1, <2>1, <2>2 DEF Collecting, SessionInv, At, Doing
  <2> QED BY <1>0, <1>1, <2>1, <2>2, <2>3, WorkKeeps DEF Visit, console
<1>2. CASE rest = << >>
  <2>1. Range(rest) = {}
    BY <1>2 DEF Range
  <2>2. discovered' \in {discovered} \cup Snapshots
    BY <1>2, <2>1 DEF Visit, Snapshots
  <2> QED BY <1>0, <1>2, <2>2, ReturnKeeps DEF Visit
<1> QED BY <1>1, <1>2

LEMMA ConnectingKeeps ==
  ASSUME TypeOK, TypeOK', SessionInv, PerformDiscovery \/ Connecting \/ Disconnect \/ DiscoverAgain
  PROVE  Keeps
<1> USE DEF config, link, console, Ops, Pcs
<1>e. << >> \in Seq(Obj)
  OBVIOUS
<1>1. CASE PerformDiscovery
  <2>1. ~Idle' /\ call'.op = "start" /\ call'.pc = "link"
    BY <1>1, <1>e, BeginStage DEF PerformDiscovery
  <2>2. Collecting'
    BY <1>1, <2>1 DEF PerformDiscovery, SessionInv, Collecting, At, Doing
  <2> QED BY <1>1, <2>1, <2>2, CallKeeps DEF PerformDiscovery
<1>2. CASE LinkUp
  <2>1. ~Idle /\ ~Idle' /\ call'.op = call.op /\ call'.pc = "ping"
    BY <1>2, GoToStage DEF LinkUp, At
  <2>2. Collecting' /\ Serving' /\ Holding'
    BY <1>2, <2>1 DEF LinkUp, SessionInv, Collecting, Serving, Holding, At, Doing
  <2>3. Session!Work
    BY <1>2, <2>1 DEF LinkUp, Session!Work, Stage, SessionInv, Serving
  <2> QED BY <2>2, <2>3 DEF Keeps, SessionInv, Session!Next
<1>3. CASE LinkFails
  <2>1. open => connected
    BY <1>3 DEF LinkFails, SessionInv, Holding, Serving, At
  <2>2. ~Idle /\ Returns(FALSE) /\ (open' => connected) /\ UNCHANGED <<descr, connected, discovered>>
    <3>1. open' \in {open, FALSE} /\ UNCHANGED <<descr, connected, discovered>> /\ Returns(FALSE)
      BY <1>3 DEF LinkFails
    <3>2. open' => connected
      BY <2>1, <3>1
    <3> QED BY <1>3, <3>1, <3>2 DEF LinkFails, At
  <2> QED BY <2>2, ReturnKeeps
<1>4. CASE PingAnswered
  <2>1. /\ ~Idle /\ ~Idle' /\ call'.op = call.op
        /\ call'.pc = IF descr = "no" THEN "list" ELSE "load"
    BY <1>4, GoToStage DEF PingAnswered, At
  <2>2. Collecting' /\ Serving' /\ Holding'
    BY <1>4, <2>1 DEF PingAnswered, SessionInv, Collecting, Serving, Holding, At, Doing
  <2>3. Session!Work
    BY <1>4, <2>1 DEF PingAnswered, Session!Work, Stage, SessionInv, Serving, Holding
  <2> QED BY <2>2, <2>3 DEF Keeps, SessionInv, Session!Next
<1>5. CASE PingFails
  BY <1>5, ReturnKeeps DEF PingFails, At
<1>6. CASE Disconnect
  <2>1. Collecting' /\ Serving' /\ Holding'
    BY <1>6 DEF Disconnect, SessionInv, Collecting, Serving, Holding, At, Doing, Idle
  <2>2. Session!LetGo
    BY <1>6 DEF Disconnect, Session!LetGo, Stage, Idle
  <2> QED BY <2>1, <2>2 DEF Keeps, SessionInv, Session!Next
<1>7. CASE DiscoverAgain
  <2>1. /\ ~Idle' /\ call'.op = "discover"
        /\ call'.pc = IF descr = "no" THEN "list" ELSE "load"
    BY <1>7, <1>e, BeginStage DEF DiscoverAgain
  <2>2. Collecting' /\ connected
    BY <1>7, <2>1 DEF DiscoverAgain, SessionInv, Collecting, Serving, At, Doing
  <2> QED BY <1>7, <2>1, <2>2, CallKeeps DEF DiscoverAgain
<1> QED BY <1>1, <1>2, <1>3, <1>4, <1>5, <1>6, <1>7 DEF Connecting

LEMMA DiscoveringKeeps ==
  ASSUME TypeOK, TypeOK', SessionInv, Discovering
  PROVE  Keeps
<1> USE DEF config, link, console, Ops, Pcs
<1>a. /\ {} \in SUBSET Obj /\ << >> \in Seq(Obj) /\ Range(<< >>) = {}
      /\ DescrList \in Seq(Obj) /\ DeviceList \in Seq(Obj)
  BY DeviceAssumption DEF Range
<1>b. ASSUME Doing({"start", "discover"}), call.pc \in {"info", "data"}
      PROVE  /\ call \in Call /\ call.todo # << >> /\ Current \in Obj
             /\ call.found \in SUBSET Obj /\ call.found \cup {Current} \in SUBSET Obj
             /\ Tail(call.todo) \in Seq(Obj)
             /\ Range(call.todo) = {Current} \cup Range(Tail(call.todo))
  BY <1>b, CurrentTyped, TailIsRest DEF Doing, Exchanging, Call, Current
<1>1. CASE LoadDescriptor
  <2>1. CASE descr = "bad"
    BY <1>1, <2>1, RaiseKeeps DEF LoadDescriptor, At, SessionInv, Holding
  <2>2. CASE descr # "bad"
    <3>1. Visit({}, DescrList) /\ Doing({"start", "discover"}) /\ descr # "no"
      BY <1>1, <2>2 DEF LoadDescriptor, At, Doing, SessionInv, Collecting
    <3>2. {} \cup Range(DescrList) = Range(DescrList)
      OBVIOUS
    <3> QED BY <1>1, <1>a, <3>1, <3>2, VisitKeeps DEF LoadDescriptor, At
  <2> QED BY <2>1, <2>2
<1>2. CASE ListAnswered
  <2>1. PICK r \in Outcomes :
          /\ Exchanged(r)
          /\ IF Short(r) THEN Raises /\ UNCHANGED discovered
             ELSE Visit({}, IF Good(r) THEN DeviceList ELSE << >>)
    BY <1>2 DEF ListAnswered
  <2>2. descr = "no" /\ ~Idle /\ call.pc = "list" /\ Doing({"start", "discover"})
    BY <1>2 DEF ListAnswered, At, Doing, SessionInv, Collecting
  <2>3. CASE Short(r)
    BY <1>2, <2>1, <2>2, <2>3, RaiseKeeps DEF ListAnswered
  <2>4. CASE ~Short(r) /\ Good(r)
    <3>1. Visit({}, DeviceList) /\ {} \cup Range(DeviceList) \subseteq Range(DeviceList)
      BY <2>1, <2>4
    <3> QED BY <1>2, <1>a, <2>2, <3>1, VisitKeeps DEF ListAnswered
  <2>5. CASE ~Short(r) /\ ~Good(r)
    <3>1. Visit({}, << >>) /\ {} \cup Range(<< >>) \subseteq Range(DeviceList)
      BY <1>a, <2>1, <2>5
    <3> QED BY <1>2, <1>a, <2>2, <3>1, VisitKeeps DEF ListAnswered
  <2> QED BY <2>3, <2>4, <2>5
<1>3. CASE SnapshotInfo
  <2>1. PICK r \in Outcomes :
          /\ Exchanged(r)
          /\ \/ Short(r) /\ Raises /\ UNCHANGED discovered
             \/ ~Short(r) /\ ~Good(r) /\ Visit(call.found, Tail(call.todo))
             \/ /\ Good(r) /\ ~ReadAtDiscovery(Current, r.re.obj)
                /\ Visit(call.found \cup {Current}, Tail(call.todo))
             \/ /\ Good(r) /\ ReadAtDiscovery(Current, r.re.obj)
                /\ GoTo("data")
                /\ UNCHANGED <<discovered, console>>
    BY <1>3 DEF SnapshotInfo
  <2>2. /\ descr = "no" /\ ~Idle /\ call.pc = "info" /\ Doing({"start", "discover"})
        /\ UNCHANGED <<descr, connected, open>>
    BY <1>3 DEF SnapshotInfo, At
  <2>3. call.found \cup Range(call.todo) \subseteq Range(DeviceList)
    BY <2>2 DEF SessionInv, Collecting
  <2>4. CASE Raises /\ UNCHANGED discovered
    BY <2>2, <2>4, RaiseKeeps
  <2>5. CASE Visit(call.found, Tail(call.todo))
    BY <1>b, <2>2, <2>3, <2>5, VisitKeeps
  <2>6. CASE Visit(call.found \cup {Current}, Tail(call.todo))
    BY <1>b, <2>2, <2>3, <2>6, VisitKeeps
  <2>7. CASE GoTo("data") /\ UNCHANGED <<discovered, console>>
    <3>1. /\ ~Idle' /\ call'.op = call.op /\ call'.pc = "data"
          /\ call'.todo = call.todo /\ call'.found = call.found
      BY <2>2, <2>7, GoToStage
    <3>2. Collecting'
      BY <2>2, <3>1 DEF SessionInv, Collecting, At, Doing
    <3> QED BY <2>2, <2>7, <3>1, <3>2, WorkKeeps
  <2> QED BY <2>1, <2>4, <2>5, <2>6, <2>7
<1>4. CASE DescriptorInfo
  <2>1. PICK r \in Outcomes :
          Exchanged(r) /\ (IF Short(r) THEN Raises ELSE GoTo("data") /\ UNCHANGED console)
    BY <1>4 DEF DescriptorInfo
  <2>2. /\ ~Idle /\ call.pc = "info" /\ Doing({"start", "discover"})
        /\ UNCHANGED <<descr, connected, open, discovered>>
    BY <1>4 DEF DescriptorInfo, At
  <2>3. CASE Raises
    BY <2>2, <2>3, RaiseKeeps
  <2>4. CASE GoTo("data") /\ UNCHANGED console
    <3>1. /\ ~Idle' /\ call'.op = call.op /\ call'.pc = "data"
          /\ call'.todo = call.todo /\ call'.found = call.found
      BY <2>2, <2>4, GoToStage
    <3>2. Collecting'
      BY <2>2, <3>1 DEF SessionInv, Collecting, At, Doing
    <3> QED BY <2>2, <2>4, <3>1, <3>2, WorkKeeps
  <2> QED BY <2>1, <2>3, <2>4
<1>5. CASE DiscoveryData
  <2>1. /\ ~Idle /\ call.pc = "data" /\ Doing({"start", "discover"})
        /\ UNCHANGED <<descr, connected, open>>
        /\ Visit(call.found \cup {Current}, Tail(call.todo))
    BY <1>5 DEF DiscoveryData, At
  <2>2. IF descr = "no" THEN call.found \cup Range(call.todo) \subseteq Range(DeviceList)
                        ELSE call.found \cup Range(call.todo) = Range(DescrList)
    BY <2>1 DEF SessionInv, Collecting
  <2> QED BY <1>b, <2>1, <2>2, VisitKeeps
<1> QED BY <1>1, <1>2, <1>3, <1>4, <1>5 DEF Discovering

\* Reads and writes touch neither the link nor what was found.
LEMMA ElsewhereCollecting ==
  ASSUME SessionInv, UNCHANGED descr,
         ~Idle' => call'.op \notin {"start", "discover"} /\ call'.pc \notin {"load", "list"},
         ~Idle' /\ call'.pc = "chunk" => call'.op \in {"read", "seek"},
         ~Idle' /\ call'.pc = "set" => call'.op \in {"write", "raw"}
  PROVE  Collecting'
BY DEF SessionInv, Collecting, At, Doing

LEMMA NextReadKeeps ==
  ASSUME TypeOK, TypeOK', SessionInv, Exchanging, call.pc \notin {"ping", "list"},
         call.op \in {"read", "seek"}, NextRead,
         UNCHANGED <<descr, discovered, connected, open>>
  PROVE  Keeps
<1> USE DEF console, Ops, Pcs
<1>0. ~Idle /\ call.op \in Ops /\ Tail(call.todo) \in Seq(Obj)
        /\ call.pc \notin {"link", "ping"} /\ connected
  BY CurrentTyped DEF Exchanging, Call, SessionInv, Holding
<1>1. CASE Tail(call.todo) = << >>
  BY <1>0, <1>1, ReturnKeeps DEF NextRead
<1>2. CASE Tail(call.todo) # << >>
  <2>1. Begin(call.op, FirstExchange(Head(Tail(call.todo))), Tail(call.todo)) /\ UNCHANGED console
    BY <1>2 DEF NextRead
  <2>2. FirstExchange(Head(Tail(call.todo))) \in {"info", "chunk"}
    BY DEF FirstExchange
  <2>3. ~Idle' /\ call'.op = call.op /\ call'.pc \in {"info", "chunk"}
    BY <1>0, <2>1, <2>2, BeginStage
  <2>4. Collecting'
    BY <2>3, ElsewhereCollecting
  <2> QED BY <1>0, <2>1, <2>3, <2>4, WorkKeeps
<1> QED BY <1>1, <1>2

LEMMA ReadingKeeps ==
  ASSUME TypeOK, TypeOK', SessionInv, Read \/ Reading
  PROVE  Keeps
<1> USE DEF config, link, console, Ops, Pcs
<1>1. CASE Read
  <2>1. ~Idle' /\ call'.op \in {"read", "seek"} /\ call'.pc \in {"info", "chunk"}
    <3>1. CASE \E objs \in ReadLists : Begin("read", FirstExchange(Head(objs)), objs)
      <4>1. PICK objs \in ReadLists : Begin("read", FirstExchange(Head(objs)), objs)
        BY <3>1
      <4>2. objs \in Seq(Obj) /\ FirstExchange(Head(objs)) \in {"info", "chunk"}
        BY DeviceAssumption DEF FirstExchange
      <4> QED BY <4>1, <4>2, BeginStage
    <3>2. CASE \E o \in Obj : Begin("seek", "chunk", <<o>>)
      <4>1. PICK o \in Obj : Begin("seek", "chunk", <<o>>)
        BY <3>2
      <4>2. <<o>> \in Seq(Obj)
        OBVIOUS
      <4> QED BY <4>1, <4>2, BeginStage
    <3> QED BY <1>1, <3>1, <3>2 DEF Read
  <2>2. Idle /\ phase = "loop" /\ running /\ connected
          /\ UNCHANGED <<descr, discovered, phase, running, connected, open>>
    BY <1>1 DEF Read
  <2>3. Collecting'
    BY <2>1, <2>2, ElsewhereCollecting
  <2> QED BY <2>1, <2>2, <2>3, CallKeeps
<1>2. CASE ReadInfo
  <2>1. PICK r \in Outcomes :
          /\ Exchanged(r)
          /\ \/ Short(r) /\ Raises
             \/ Good(r) /\ GoTo("data") /\ UNCHANGED console
             \/ ~Short(r) /\ ~Good(r) /\ NextRead
    BY <1>2 DEF ReadInfo
  <2>2. /\ ~Idle /\ Exchanging /\ call.pc = "info" /\ call.op = "read"
        /\ UNCHANGED <<descr, discovered, connected, open>>
    BY <1>2 DEF ReadInfo, At, Doing, Exchanging
  <2>3. CASE Raises
    BY <2>2, <2>3, RaiseKeeps
  <2>4. CASE GoTo("data") /\ UNCHANGED console
    <3>1. ~Idle' /\ call'.op = call.op /\ call'.pc = "data"
      BY <2>2, <2>4, GoToStage
    <3>2. Collecting'
      BY <2>2, <3>1, ElsewhereCollecting
    <3> QED BY <2>2, <2>4, <3>1, <3>2, WorkKeeps
  <2>5. CASE NextRead
    BY <2>2, <2>5, NextReadKeeps
  <2> QED BY <2>1, <2>3, <2>4, <2>5
<1>3. CASE ReadData
  <2>1. /\ ~Idle /\ Exchanging /\ call.pc = "data" /\ call.op = "read" /\ NextRead
        /\ UNCHANGED <<descr, discovered, connected, open>>
    BY <1>3 DEF ReadData, At, Doing, Exchanging
  <2> QED BY <2>1, NextReadKeeps
<1>4. CASE ChunkAnswered
  <2>1. /\ ~Idle /\ Exchanging /\ call.pc = "chunk" /\ call \in Call
        /\ call.op \in {"read", "seek"}
        /\ UNCHANGED <<descr, discovered, connected, open>>
    BY <1>4 DEF ChunkAnswered, At, Doing, Exchanging, SessionInv, Collecting, TypeOK, Idle
  <2> DEFINE got(r) == call.got \o r.part
  <2>2. PICK r \in Outcomes :
          /\ Exchanged(r)
          /\ IF ChunkFails(r) THEN NextRead /\ UNCHANGED shown
             ELSE IF Unfinished(Len(got(r)), ChunkTotal(r))
                  THEN /\ call' = [call EXCEPT !.sent = FALSE, !.got = got(r), !.total = ChunkTotal(r)]
                       /\ UNCHANGED <<console, shown>>
                  ELSE /\ shown' = [obj |-> Current, from |-> r.re.obj,
                                    total |-> ChunkTotal(r), got |-> got(r)]
                       /\ NextRead
    BY <1>4 DEF ChunkAnswered, ChunkTotal
  <2>3. CASE NextRead
    BY <2>1, <2>3, NextReadKeeps
  <2>4. CASE ~NextRead
    <3>1. /\ call' = [call EXCEPT !.sent = FALSE, !.got = got(r), !.total = ChunkTotal(r)]
          /\ UNCHANGED console
          /\ ~ChunkFails(r)
      BY <2>2, <2>4
    <3>2. got(r) \in Seq(Nat) /\ ChunkTotal(r) \in Nat
      BY <2>1, <2>2, <3>1, ChunkTypes
    <3> HIDE DEF got
    <3>3. call' \in Call /\ call'.op = call.op /\ call'.pc = call.pc
      BY <2>1, <3>1, <3>2 DEF Call
    <3>4. ~Idle'
      BY <3>3, NoneAssumption DEF Idle
    <3>5. Collecting'
      BY <2>1, <3>3, ElsewhereCollecting
    <3> QED BY <2>1, <3>1, <3>3, <3>4, <3>5, WorkKeeps
  <2> QED BY <2>3, <2>4
<1> QED BY <1>1, <1>2, <1>3, <1>4 DEF Reading

LEMMA WritingKeeps ==
  ASSUME TypeOK, TypeOK', SessionInv, Write \/ Writing
  PROVE  Keeps
<1> USE DEF config, link, console, Ops, Pcs
<1>1. CASE Write
  <2>1. PICK op \in {"write", "raw"}, o \in Obj : Begin(op, "info", <<o>>)
    BY <1>1 DEF Write
  <2>2. <<o>> \in Seq(Obj)
    OBVIOUS
  <2>3. ~Idle' /\ call'.op \in {"write", "raw"} /\ call'.pc = "info"
    BY <2>1, <2>2, BeginStage
  <2>4. Idle /\ phase = "loop" /\ running /\ connected
          /\ UNCHANGED <<descr, discovered, phase, running, connected, open>>
    BY <1>1 DEF Write
  <2>5. Collecting'
    BY <2>3, <2>4, ElsewhereCollecting
  <2> QED BY <2>3, <2>4, <2>5, CallKeeps
<1>2. CASE WriteInfo
  <2>1. PICK r \in Outcomes, packed \in Packs(call.op, Current) :
          \/ Short(r) /\ Raises
          \/ ~Short(r) /\ ~(Writable(r) /\ packed) /\ Returns(TRUE)
          \/ Writable(r) /\ packed /\ GoTo("set") /\ UNCHANGED console
    BY <1>2 DEF WriteInfo
  <2>2. /\ ~Idle /\ call.pc = "info" /\ call.op \in {"write", "raw"} /\ connected
        /\ UNCHANGED <<descr, discovered, connected, open>>
    BY <1>2 DEF WriteInfo, At, Doing, SessionInv, Holding
  <2>3. CASE Raises
    BY <2>2, <2>3, RaiseKeeps
  <2>4. CASE Returns(TRUE)
    BY <2>2, <2>4, ReturnKeeps
  <2>5. CASE GoTo("set") /\ UNCHANGED console
    <3>1. ~Idle' /\ call'.op = call.op /\ call'.pc = "set"
      BY <2>2, <2>5, GoToStage
    <3>2. Collecting'
      BY <2>2, <3>1, ElsewhereCollecting
    <3> QED BY <2>2, <2>5, <3>1, <3>2, WorkKeeps
  <2> QED BY <2>1, <2>3, <2>4, <2>5
<1>3. CASE WriteAnswered
  <2>1. Returns(TRUE) \/ (GoTo("back") /\ UNCHANGED console)
    BY <1>3 DEF WriteAnswered
  <2>2. /\ ~Idle /\ call.pc = "set" /\ call.op \notin {"start", "discover"} /\ connected
        /\ UNCHANGED <<descr, discovered, connected, open>>
    BY <1>3 DEF WriteAnswered, At, Doing, SessionInv, Holding, Collecting
  <2>3. CASE Returns(TRUE)
    BY <2>2, <2>3, ReturnKeeps
  <2>4. CASE GoTo("back") /\ UNCHANGED console
    <3>1. ~Idle' /\ call'.op = call.op /\ call'.pc = "back"
      BY <2>2, <2>4, GoToStage
    <3>2. Collecting'
      BY <2>2, <3>1, ElsewhereCollecting
    <3> QED BY <2>2, <2>4, <3>1, <3>2, WorkKeeps
  <2> QED BY <2>1, <2>3, <2>4
<1>4. CASE ReadBack
  <2>1. /\ ~Idle /\ call.pc = "back" /\ connected /\ Returns(TRUE)
        /\ UNCHANGED <<descr, discovered, connected, open>>
    BY <1>4 DEF ReadBack, At, SessionInv, Holding
  <2> QED BY <2>1, ReturnKeeps
<1> QED BY <1>1, <1>2, <1>3, <1>4 DEF Writing

LEMMA LinkKeeps ==
  ASSUME TypeOK, TypeOK', SessionInv, Send \/ DeviceAnswers \/ DeviceNotifies
  PROVE  Keeps
<1> USE DEF config, link, console
<1>1. CASE Send
  <2>1. /\ ~Idle /\ ~Idle' /\ call'.op = call.op /\ call'.pc = call.pc
        /\ call'.todo = call.todo /\ call'.found = call.found
        /\ UNCHANGED <<descr, discovered, phase, running, connected, open>>
    <3>1. call' \in Call /\ call'.op = call.op /\ call'.pc = call.pc
            /\ call'.todo = call.todo /\ call'.found = call.found
      BY <1>1 DEF Send, TypeOK, Exchanging, Idle, Call
    <3> QED BY <1>1, <3>1, NoneAssumption DEF Send, Exchanging, Idle
  <2>2. Collecting'
    BY <2>1 DEF SessionInv, Collecting, At, Doing
  <2> QED BY <2>1, <2>2, NothingKeeps
<1>2. CASE DeviceAnswers \/ DeviceNotifies
  <2>1. UNCHANGED <<call, descr, discovered, phase, running, connected, open>>
    BY <1>2 DEF DeviceAnswers, DeviceNotifies
  <2>2. Collecting' /\ (Idle <=> Idle')
    BY <2>1 DEF SessionInv, Collecting, At, Doing, Idle
  <2> QED BY <2>1, <2>2, NothingKeeps
<1> QED BY <1>1, <1>2

LEMMA LoopKeeps ==
  ASSUME TypeOK, TypeOK', SessionInv, Leave \/ Interrupt \/ LoopEnds
  PROVE  Keeps
<1> USE DEF config, link, console
<1>1. CASE Leave
  <2>1. Serving' /\ Holding' /\ Collecting'
    BY <1>1 DEF Leave, SessionInv, Serving, Holding, Collecting, At, Doing, Idle
  <2>2. Session!Leave
    BY <1>1 DEF Leave, Session!Leave, Stage, Idle
  <2> QED BY <2>1, <2>2 DEF Keeps, SessionInv, Session!Next
<1>2. CASE Interrupt
  <2>0. Idle'
    BY <1>2 DEF Interrupt, Idle
  <2>1. Serving' /\ Collecting'
    BY <1>2, <2>0 DEF Interrupt, SessionInv, Serving, Collecting, At, Doing
  <2>2. Holding'
    BY <1>2, <2>0 DEF Interrupt, SessionInv, Serving, Holding, At
  <2>3. Session!Abort
    BY <1>2, <2>0 DEF Interrupt, Session!Abort, Stage, SessionInv, Serving
  <2> QED BY <2>1, <2>2, <2>3 DEF Keeps, SessionInv, Session!Next
<1>3. CASE LoopEnds
  <2>1. Serving' /\ Holding' /\ Collecting'
    BY <1>3 DEF LoopEnds, SessionInv, Serving, Holding, Collecting, At, Doing, Idle
  <2>2. UNCHANGED Session!vars
    BY <1>3 DEF LoopEnds, Session!vars, Stage, Idle
  <2> QED BY <2>1, <2>2 DEF Keeps, SessionInv
<1> QED BY <1>1, <1>2, <1>3

LEMMA SessionStep == TypeOK /\ TypeOK' /\ SessionInv /\ [Next]_vars => Keeps
<1>1. ASSUME TypeOK, TypeOK', SessionInv, UNCHANGED vars
      PROVE  Keeps
  <2>1. Collecting' /\ (Idle <=> Idle')
    BY <1>1 DEF vars, config, link, console, SessionInv, Collecting, At, Doing, Idle
  <2> QED BY <1>1, <2>1, NothingKeeps DEF vars, config, link, console
<1> QED BY <1>1, ConnectingKeeps, DiscoveringKeeps, ReadingKeeps, WritingKeeps, LinkKeeps, LoopKeeps
       DEF Next, CallStep, External

LEMMA SessionStarts == Init => SessionInv /\ Session!Init
BY TypesInit DEF Init, SessionInv, Serving, Holding, Collecting, At, Doing, Idle, Session!Init, Stage, TypeOK

\* The detailed session implements the abstract one.
THEOREM SessionImplemented == Spec => SessionKept
<1>1. Init => SessionInv /\ TypeOK /\ Session!Init
  BY SessionStarts, TypesInit
<1>2. TypeOK /\ SessionInv /\ [Next]_vars => SessionInv' /\ [Session!Next]_Session!vars
  BY TypesStep, SessionStep DEF Keeps
<1> QED BY <1>1, <1>2, TypeCorrect, PTL DEF Spec, SessionKept, Session!Spec

-----------------------------------------------------------------------------
(* A link that drops what nobody waits for.  There an answer is always the   *)
(* one to the request just made, which is what the client's checks rest on.  *)

\* At most one request or answer is under way, and it is the current one.
Matched ==
  ~stray =>
    /\ ~(Exchanging /\ call.sent) => wire = None /\ inbox = << >>
    /\ wire # None => inbox = << >> /\ wire = Request
    /\ inbox # << >> =>
         /\ Len(inbox) = 1
         /\ Head(inbox).re = Request
         /\ \A k \in 1..Len(Head(inbox).part) : Head(inbox).part[k] = Request.off + k - 1

\* Which calls read plainly, and that none of them is at a block object.
PlainReads ==
  /\ Doing({"read"}) /\ (At("info") \/ At("data")) => Current \notin Block
  /\ At("data") => Doing({"start", "discover", "read"})
  /\ At("data") /\ Doing({"start", "discover"}) /\ descr = "no" /\ ~stray => Current \notin Block
  /\ At("back") => Doing({"write", "raw"})
  /\ Doing({"seek"}) => At("chunk") /\ Tail(call.todo) = << >>

\* What is about to be written may be.
MayWrite == ~stray /\ At("set") => Access[Current] # "RO"

\* The chunks taken so far are the bytes from 0 on.
Assembling == ~stray /\ ~Idle => \A k \in 1..Len(call.got) : call.got[k] = k - 1

\* What an exchange returns then answers the request, and nothing is left.
LEMMA ExchangeMatched ==
  ASSUME TypeOK, Matched, ~stray, NEW r \in Outcomes, Exchanged(r)
  PROVE  /\ wire' = None /\ inbox' = << >>
         /\ r # None => /\ r \in Frame /\ r.re = Request
                        /\ \A k \in 1..Len(r.part) : r.part[k] = Request.off + k - 1
<1>1. r = None \/ r \in Frame
  BY ExchangeTypes
<1>2. CASE r = None /\ Abandon
  BY <1>2 DEF Abandon
<1>3. CASE inbox # << >> /\ r = Head(inbox) /\ inbox' = Tail(inbox) /\ wire' = wire
  <2>1. wire = None /\ Len(inbox) = 1 /\ r.re = Request
          /\ \A k \in 1..Len(r.part) : r.part[k] = Request.off + k - 1
    BY <1>3 DEF Matched
  <2>2. Tail(inbox) = << >>
    BY <1>3, <2>1 DEF TypeOK
  <2> QED BY <1>1, <1>3, <2>1, <2>2
<1> QED BY <1>2, <1>3 DEF Exchanged

LEMMA ClearedMatched ==
  ASSUME wire' = None, inbox' = << >>
  PROVE  Matched'
BY DEF Matched

LEMMA MatchedStep == TypeOK /\ TypeOK' /\ Matched /\ [Next]_vars => Matched'
<1> SUFFICES ASSUME TypeOK, TypeOK', Matched, [Next]_vars PROVE Matched'
  OBVIOUS
<1> USE DEF config, link, console
<1>0. stray' = stray
  BY DEF Next, vars, CallStep, External, PerformDiscovery, DiscoverAgain, Read, Write, Leave,
         Interrupt, Disconnect, DeviceAnswers, DeviceNotifies, LoopEnds, Send, Connecting, LinkUp,
         LinkFails, PingAnswered, PingFails, Discovering, LoadDescriptor, ListAnswered, SnapshotInfo,
         DescriptorInfo, DiscoveryData, Reading, ReadInfo, ReadData, ChunkAnswered, Writing,
         WriteInfo, WriteAnswered, ReadBack
<1>s. CASE stray
  BY <1>0, <1>s DEF Matched
<1>n. CASE ~stray
  <2>1. CASE Send
    <3>1. wire = None /\ inbox = << >>
      BY <1>n, <2>1 DEF Matched, Send
    <3>2. /\ call \in Call /\ call'.sent = TRUE /\ call'.pc = call.pc
          /\ call'.todo = call.todo /\ call'.got = call.got
      BY <2>1 DEF Send, TypeOK, Exchanging, Idle, Call
    <3>3. Request' = Request
      BY <3>2 DEF Request, RequestFrom, Current
    <3>4. Exchanging'
      <4>1. call' \in Call
        BY <2>1, <3>2 DEF Send, Call
      <4> QED BY <2>1, <3>2, <4>1, NoneAssumption DEF Send, Exchanging, Idle
    <3> QED BY <2>1, <3>1, <3>2, <3>3, <3>4 DEF Matched, Send
  <2>2. CASE DeviceAnswers
    <3>1. Exchanging /\ call.sent /\ inbox = << >> /\ wire = Request
      BY <1>n, <2>2 DEF Matched, DeviceAnswers
    <3>2. PICK f \in Answers(wire) : inbox' = Append(inbox, f)
      BY <2>2 DEF DeviceAnswers
    <3>3. f.re = wire /\ f.part \in {[k \in 1..n |-> wire.off + k - 1] : n \in 0..MaxChunk}
      BY DEF Answers
    <3>4. \A k \in 1..Len(f.part) : f.part[k] = wire.off + k - 1
      BY <3>3, DeviceAssumption
    <3>5. Len(inbox') = 1 /\ Head(inbox') = f
      BY <3>1, <3>2
    <3>6. Request' = Request /\ Exchanging' /\ call' = call
      BY <2>2, <3>1 DEF DeviceAnswers, Request, RequestFrom, Current, Exchanging, Idle
    <3> QED BY <2>2, <3>1, <3>3, <3>4, <3>5, <3>6 DEF Matched, DeviceAnswers
  <2>3. CASE DeviceNotifies
    BY <1>n, <2>3 DEF DeviceNotifies
  <2>4. CASE UNCHANGED vars
    <3>1. Request' = Request /\ (Exchanging' <=> Exchanging) /\ call' = call
      BY <2>4 DEF vars, Request, RequestFrom, Current, Exchanging, Idle
    <3> QED BY <2>4, <3>1 DEF Matched, vars
  <2>5. CASE PerformDiscovery \/ DiscoverAgain \/ Read \/ Write \/ Leave \/ LoopEnds \/ Disconnect
               \/ LinkUp \/ LinkFails \/ LoadDescriptor
    <3>1. ~Exchanging /\ UNCHANGED <<wire, inbox>>
      BY <2>5 DEF PerformDiscovery, DiscoverAgain, Read, Write, Leave, LoopEnds, Disconnect,
                  LinkUp, LinkFails, LoadDescriptor, At, Exchanging
    <3>2. wire = None /\ inbox = << >>
      BY <1>n, <3>1 DEF Matched
    <3> QED BY <3>1, <3>2, ClearedMatched
  <2>6. CASE Interrupt
    BY <1>n, <2>6, ClearedMatched DEF Interrupt, Abandon
  <2>7. CASE \E r \in Outcomes : Exchanged(r)
    BY <1>n, <2>7, ExchangeMatched, ClearedMatched
  <2> QED BY <2>1, <2>2, <2>3, <2>4, <2>5, <2>6, <2>7
          DEF Next, CallStep, External, Connecting, PingAnswered, PingFails, Discovering,
              ListAnswered, SnapshotInfo, DescriptorInfo, DiscoveryData, Reading, ReadInfo,
              ReadData, ChunkAnswered, Writing, WriteInfo, WriteAnswered, ReadBack
<1> QED BY <1>s, <1>n

\* What a call does to the objects it asks about and the bytes it has.
Transfers == PlainReads /\ MayWrite /\ Assembling /\ SeekAssembled

LEMMA IdleTransfers ==
  ASSUME Idle', SeekAssembled'
  PROVE  Transfers'
BY DEF Transfers, PlainReads, MayWrite, Assembling, At, Doing

\* A value that is not a chunked one is no concern of SeekAssembled.
LEMMA PlainlyShown ==
  ASSUME TypeOK, SeekAssembled, stray' = stray, NEW o, NEW f,
         \/ shown' = None \/ shown' = shown
         \/ shown' = [obj |-> o, from |-> f, total |-> 0, got |-> << >>]
  PROVE  SeekAssembled'
BY DEF SeekAssembled

LEMMA VisitTransfers ==
  ASSUME TypeOK, Transfers, Doing({"start", "discover"}), SeekAssembled',
         NEW found \in SUBSET Obj, NEW rest \in Seq(Obj), Visit(found, rest),
         stray' = stray
  PROVE  Transfers'
<1>1. CASE rest # << >>
  <2>1. call' \in Call /\ call'.pc = "info" /\ call'.op = call.op /\ call'.got = call.got
    BY <1>1 DEF Visit, Call, TypeOK, Doing, Idle
  <2> QED BY <2>1 DEF Transfers, PlainReads, MayWrite, Assembling, At, Doing
<1>2. CASE rest = << >>
  BY <1>2, IdleTransfers DEF Visit, Returns, Idle
<1> QED BY <1>1, <1>2

LEMMA NextReadTransfers ==
  ASSUME TypeOK, Transfers, Exchanging, call.pc \notin {"ping", "list"}, SeekAssembled',
         call.op \in {"read", "seek"}, NextRead
  PROVE  Transfers'
<1> USE DEF Ops, Pcs
<1>1. CASE Tail(call.todo) = << >>
  BY <1>1, IdleTransfers DEF NextRead, Returns, Idle
<1>2. CASE Tail(call.todo) # << >>
  <2>1. call.op = "read"
    BY <1>2 DEF Transfers, PlainReads, Doing, Exchanging
  <2>2. Begin("read", FirstExchange(Head(Tail(call.todo))), Tail(call.todo))
    BY <1>2, <2>1 DEF NextRead
  <2>3. FirstExchange(Head(Tail(call.todo))) \in Pcs /\ Tail(call.todo) \in Seq(Obj)
    BY CurrentTyped DEF FirstExchange
  <2>4. /\ ~Idle' /\ call'.op = "read" /\ call'.todo = Tail(call.todo) /\ call'.got = << >>
        /\ call'.pc = FirstExchange(Head(Tail(call.todo)))
    BY <2>2, <2>3, BeginStage
  <2>5. call'.pc = "info" => Current' \notin Block
    BY <2>4 DEF FirstExchange, Current
  <2>6. call'.pc \in {"info", "chunk"}
    BY <2>4 DEF FirstExchange
  <2>7. PlainReads'
    BY <2>4, <2>5, <2>6 DEF PlainReads, At, Doing
  <2>8. MayWrite' /\ Assembling'
    <3>1. call'.pc # "set" /\ Len(call'.got) = 0
      BY <2>4, <2>6
    <3> QED BY <3>1 DEF MayWrite, Assembling, At
  <2> QED BY <2>7, <2>8 DEF Transfers
<1> QED BY <1>1, <1>2

\* An exchange that leads to another one of the same call.
LEMMA GoToTransfers ==
  ASSUME TypeOK, Transfers, ~Idle, NEW p \in Pcs, GoTo(p), SeekAssembled', UNCHANGED config,
         p = "data" => /\ Doing({"start", "discover", "read"})
                       /\ Doing({"read"}) => call.pc = "info"
                       /\ Doing({"start", "discover"}) /\ descr = "no" /\ ~stray => Current \notin Block,
         p = "set" /\ ~stray => Access[Current] # "RO",
         p = "back" => Doing({"write", "raw"}),
         p # "info" /\ p # "chunk" /\ ~Doing({"seek"})
  PROVE  Transfers'
<1>1. /\ ~Idle' /\ call'.op = call.op /\ call'.pc = p
      /\ call'.todo = call.todo /\ call'.got = call.got
  BY GoToStage
<1>2. Current' = Current
  BY <1>1 DEF Current
<1> QED BY <1>1, <1>2 DEF Transfers, PlainReads, MayWrite, Assembling, At, Doing, config

LEMMA BeginTransfers ==
  ASSUME TypeOK, SeekAssembled', NEW op \in Ops, NEW p \in Pcs, NEW todo \in Seq(Obj),
         Begin(op, p, todo), p \notin {"data", "set", "back"},
         op = "read" /\ p = "info" => Head(todo) \notin Block,
         op = "seek" => p = "chunk" /\ Tail(todo) = << >>
  PROVE  Transfers'
<1>1. ~Idle' /\ call'.op = op /\ call'.pc = p /\ call'.todo = todo /\ call'.got = << >>
  BY BeginStage
<1>2. PlainReads'
  BY <1>1 DEF PlainReads, At, Doing, Current
<1>3. Len(call'.got) = 0
  BY <1>1
<1> QED BY <1>1, <1>2, <1>3 DEF Transfers, MayWrite, Assembling, At

\* Bytes from 0 on, followed by those from there on.
LEMMA NextBytes ==
  ASSUME NEW s \in Seq(Nat), NEW t \in Seq(Nat),
         \A k \in 1..Len(s) : s[k] = k - 1,
         \A k \in 1..Len(t) : t[k] = Len(s) + k - 1
  PROVE  \A k \in 1..Len(s \o t) : (s \o t)[k] = k - 1
<1> SUFFICES ASSUME NEW k \in 1..Len(s \o t) PROVE (s \o t)[k] = k - 1
  OBVIOUS
<1>0. Len(s) \in Nat /\ Len(t) \in Nat /\ Len(s \o t) = Len(s) + Len(t) /\ k \in Int
  OBVIOUS
<1>1. CASE k <= Len(s)
  BY <1>0, <1>1
<1>2. CASE k > Len(s)
  <2>1. (s \o t)[k] = t[k - Len(s)] /\ k - Len(s) \in 1..Len(t)
    BY <1>0, <1>2
  <2> QED BY <1>0, <2>1
<1> QED BY <1>0, <1>1, <1>2

\* The chunks of a read, and what is shown of them.
LEMMA ChunkTransfers ==
  ASSUME TypeOK, Matched, Transfers, ChunkAnswered, SessionInv
  PROVE  Transfers'
<1> USE DEF config, link, console
<1>1. /\ Exchanging /\ ~Idle /\ call.pc = "chunk" /\ call \in Call
      /\ call.op \in {"read", "seek"} /\ stray' = stray
  BY DEF ChunkAnswered, At, Doing, Exchanging, SessionInv, Collecting, TypeOK, Idle
<1> DEFINE got(r) == call.got \o r.part
<1>2. PICK r \in Outcomes :
        /\ Exchanged(r)
        /\ IF ChunkFails(r) THEN NextRead /\ UNCHANGED shown
           ELSE IF Unfinished(Len(got(r)), ChunkTotal(r))
                THEN /\ call' = [call EXCEPT !.sent = FALSE, !.got = got(r), !.total = ChunkTotal(r)]
                     /\ UNCHANGED <<console, shown>>
                ELSE /\ shown' = [obj |-> Current, from |-> r.re.obj,
                                  total |-> ChunkTotal(r), got |-> got(r)]
                     /\ NextRead
  BY DEF ChunkAnswered, ChunkTotal
<1>3. CASE ChunkFails(r)
  <2>1. SeekAssembled'
    BY <1>1, <1>2, <1>3 DEF Transfers, SeekAssembled
  <2> QED BY <1>1, <1>2, <1>3, <2>1, NextReadTransfers
<1>4. CASE ~ChunkFails(r)
  <2>1. r \in Frame /\ got(r) \in Seq(Nat) /\ ChunkTotal(r) \in Nat
    BY <1>1, <1>2, <1>4, ChunkTypes
  <2>2. ASSUME ~stray
        PROVE  \A k \in 1..Len(got(r)) : got(r)[k] = k - 1
    <3>1. r # None
      BY <1>4 DEF ChunkFails, Good, Accepted
    <3>2. \A k \in 1..Len(r.part) : r.part[k] = Len(call.got) + k - 1
      <4>1. \A k \in 1..Len(r.part) : r.part[k] = Request.off + k - 1
        BY <1>2, <2>2, <3>1, ExchangeMatched
      <4>2. Request.off = Len(call.got)
        BY <1>1 DEF Request, RequestFrom
      <4> QED BY <4>1, <4>2
    <3>3. \A k \in 1..Len(call.got) : call.got[k] = k - 1
      BY <1>1, <2>2 DEF Transfers, Assembling
    <3>4. call.got \in Seq(Nat) /\ r.part \in Seq(Nat)
      BY <1>1, <2>1 DEF Call, Frame
    <3> QED BY <3>2, <3>3, <3>4, NextBytes
  <2> HIDE DEF got
  <2>3. CASE Unfinished(Len(got(r)), ChunkTotal(r))
    <3>1. call' = [call EXCEPT !.sent = FALSE, !.got = got(r), !.total = ChunkTotal(r)] /\ shown' = shown
      BY <1>2, <1>4, <2>3
    <3>2. /\ call'.op = call.op /\ call'.pc = call.pc /\ call'.todo = call.todo
          /\ call'.got = got(r)
      BY <1>1, <3>1 DEF Call
    <3>3. SeekAssembled'
      BY <1>1, <3>1 DEF Transfers, SeekAssembled
    <3>4. Assembling' /\ MayWrite'
      BY <1>1, <2>2, <3>2 DEF Assembling, MayWrite, At
    <3>5. PlainReads'
      BY <1>1, <3>2 DEF Transfers, PlainReads, At, Doing, Idle
    <3> QED BY <3>3, <3>4, <3>5 DEF Transfers
  <2>4. CASE ~Unfinished(Len(got(r)), ChunkTotal(r))
    <3>1. shown' = [obj |-> Current, from |-> r.re.obj, total |-> ChunkTotal(r), got |-> got(r)]
            /\ NextRead
      BY <1>2, <1>4, <2>4
    <3>2. Len(got(r)) >= ChunkTotal(r)
      BY <2>1, <2>4 DEF Unfinished
    <3>3. SeekAssembled'
      BY <1>1, <2>2, <3>1, <3>2 DEF SeekAssembled
    <3> QED BY <1>1, <3>1, <3>3, NextReadTransfers
  <2> QED BY <2>3, <2>4
<1> QED BY <1>3, <1>4

LEMMA TransfersReading ==
  ASSUME TypeOK, Matched, Transfers, SessionInv, Read \/ Reading
  PROVE  Transfers'
<1> USE DEF config, link, console, Ops, Pcs
<1>1. CASE Read
  <2>1. SeekAssembled'
    BY <1>1 DEF Read, SeekAssembled
  <2>2. CASE \E objs \in ReadLists : Begin("read", FirstExchange(Head(objs)), objs)
    <3>1. PICK objs \in ReadLists : Begin("read", FirstExchange(Head(objs)), objs)
      BY <2>2
    <3>2. /\ objs \in Seq(Obj) /\ FirstExchange(Head(objs)) \in {"info", "chunk"}
          /\ FirstExchange(Head(objs)) = "info" => Head(objs) \notin Block
      BY DeviceAssumption DEF FirstExchange
    <3> QED BY <2>1, <3>1, <3>2, BeginTransfers
  <2>3. CASE \E o \in Obj : Begin("seek", "chunk", <<o>>)
    <3>1. PICK o \in Obj : Begin("seek", "chunk", <<o>>)
      BY <2>3
    <3>2. <<o>> \in Seq(Obj) /\ Tail(<<o>>) = << >>
      OBVIOUS
    <3> QED BY <2>1, <3>1, <3>2, BeginTransfers
  <2> QED BY <1>1, <2>2, <2>3 DEF Read
<1>2. CASE ReadInfo
  <2>1. PICK r \in Outcomes :
          \/ Raises
          \/ GoTo("data")
          \/ NextRead
    BY <1>2 DEF ReadInfo
  <2>2. ~Idle /\ Exchanging /\ call.pc = "info" /\ call.op = "read" /\ UNCHANGED <<config, shown>>
    BY <1>2 DEF ReadInfo, At, Doing, Exchanging
  <2>3. SeekAssembled'
    BY <2>2 DEF Transfers, SeekAssembled
  <2>4. CASE Raises
    BY <2>3, <2>4, IdleTransfers DEF Raises, Idle
  <2>5. CASE GoTo("data")
    BY <2>2, <2>3, <2>5, GoToTransfers DEF Doing
  <2>6. CASE NextRead
    BY <2>2, <2>3, <2>6, NextReadTransfers
  <2> QED BY <2>1, <2>4, <2>5, <2>6
<1>3. CASE ReadData
  <2>1. /\ ~Idle /\ Exchanging /\ call.pc = "data" /\ call.op = "read" /\ NextRead
        /\ stray' = stray
    BY <1>3 DEF ReadData, At, Doing, Exchanging
  <2>2. SeekAssembled'
    <3>1. PICK r \in Outcomes :
            shown' = IF Good(r) THEN [obj |-> Current, from |-> r.re.obj, total |-> 0, got |-> << >>]
                     ELSE shown
      BY <1>3 DEF ReadData
    <3> QED BY <2>1, <3>1, PlainlyShown DEF Transfers
  <2> QED BY <2>1, <2>2, NextReadTransfers
<1>4. CASE ChunkAnswered
  BY <1>4, ChunkTransfers
<1> QED BY <1>1, <1>2, <1>3, <1>4 DEF Reading

LEMMA TransfersWriting ==
  ASSUME TypeOK, Matched, Transfers, SessionInv, Write \/ Writing
  PROVE  Transfers'
<1> USE DEF config, link, console, Ops, Pcs
<1>1. CASE Write
  <2>1. PICK op \in {"write", "raw"}, o \in Obj : Begin(op, "info", <<o>>)
    BY <1>1 DEF Write
  <2>2. <<o>> \in Seq(Obj) /\ SeekAssembled'
    BY <1>1 DEF Write, SeekAssembled
  <2> QED BY <2>1, <2>2, BeginTransfers
<1>2. CASE WriteInfo
  <2>1. PICK r \in Outcomes :
          /\ Exchanged(r)
          /\ \/ call' = None
             \/ Writable(r) /\ GoTo("set")
    BY <1>2 DEF WriteInfo, Raises, Returns
  <2>2. /\ ~Idle /\ call.pc = "info" /\ Doing({"write", "raw"}) /\ UNCHANGED <<config, shown>>
    BY <1>2 DEF WriteInfo, At
  <2>3. SeekAssembled'
    BY <2>2 DEF Transfers, SeekAssembled
  <2>4. CASE call' = None
    BY <2>3, <2>4, IdleTransfers DEF Idle
  <2>5. CASE Writable(r) /\ GoTo("set")
    <3>1. ASSUME ~stray PROVE Access[Current] # "RO"
      <4>1. r.re = Request
        BY <2>1, <2>5, <3>1, ExchangeMatched DEF Writable, Good, Accepted
      <4>2. Request.obj = Current
        BY <2>2 DEF Request, RequestFrom
      <4> QED BY <2>5, <4>1, <4>2 DEF Writable
    <3> QED BY <2>2, <2>3, <2>5, <3>1, GoToTransfers DEF Doing
  <2> QED BY <2>1, <2>4, <2>5
<1>3. CASE WriteAnswered
  <2>1. call' = None \/ GoTo("back")
    BY <1>3 DEF WriteAnswered, Returns
  <2>2. /\ ~Idle /\ call.pc = "set" /\ Doing({"write", "raw"}) /\ UNCHANGED <<config, shown>>
    BY <1>3 DEF WriteAnswered, At, SessionInv, Collecting
  <2>3. SeekAssembled'
    BY <2>2 DEF Transfers, SeekAssembled
  <2>4. CASE call' = None
    BY <2>3, <2>4, IdleTransfers DEF Idle
  <2>5. CASE GoTo("back")
    BY <2>2, <2>3, <2>5, GoToTransfers DEF Doing
  <2> QED BY <2>1, <2>4, <2>5
<1>4. CASE ReadBack
  <2>1. PICK r \in Outcomes :
          shown' = IF Good(r) THEN [obj |-> Current, from |-> r.re.obj, total |-> 0, got |-> << >>]
                   ELSE shown
    BY <1>4 DEF ReadBack
  <2>2. Idle' /\ stray' = stray
    BY <1>4 DEF ReadBack, Returns, Idle
  <2>3. SeekAssembled'
    BY <2>1, <2>2, PlainlyShown DEF Transfers
  <2> QED BY <2>2, <2>3, IdleTransfers
<1> QED BY <1>1, <1>2, <1>3, <1>4 DEF Writing

LEMMA TransfersConnecting ==
  ASSUME TypeOK, Transfers, SessionInv, PerformDiscovery \/ Connecting \/ Disconnect \/ DiscoverAgain
  PROVE  Transfers'
<1> USE DEF config, link, console, Ops, Pcs
<1>e. << >> \in Seq(Obj)
  OBVIOUS
<1>1. CASE PerformDiscovery \/ DiscoverAgain
  <2>1. SeekAssembled'
    BY <1>1 DEF PerformDiscovery, DiscoverAgain, SeekAssembled
  <2> QED BY <1>1, <1>e, <2>1, BeginTransfers DEF PerformDiscovery, DiscoverAgain
<1>2. CASE Connecting
  <2>1. UNCHANGED <<config, shown>> /\ ~Idle /\ call.pc \in {"link", "ping"} /\ call.op = "start"
    BY <1>2 DEF Connecting, LinkUp, LinkFails, PingAnswered, PingFails, At, SessionInv, Holding
  <2>2. SeekAssembled'
    BY <2>1 DEF Transfers, SeekAssembled
  <2>3. call' = None \/ GoTo("ping") \/ GoTo("list") \/ GoTo("load")
    BY <1>2 DEF Connecting, LinkUp, LinkFails, PingAnswered, PingFails, Returns
  <2>4. CASE call' = None
    BY <2>2, <2>4, IdleTransfers DEF Idle
  <2> QED BY <2>1, <2>2, <2>3, <2>4, GoToTransfers DEF Doing
<1>3. CASE Disconnect
  <2>1. Idle' /\ UNCHANGED <<config, shown>>
    BY <1>3 DEF Disconnect, Idle
  <2> QED BY <2>1, IdleTransfers DEF Transfers, SeekAssembled
<1> QED BY <1>1, <1>2, <1>3

LEMMA TransfersDiscovering ==
  ASSUME TypeOK, Transfers, SessionInv, Discovering
  PROVE  Transfers'
<1> USE DEF config, link, console, Ops, Pcs
<1>a. /\ {} \in SUBSET Obj /\ << >> \in Seq(Obj)
      /\ DescrList \in Seq(Obj) /\ DeviceList \in Seq(Obj)
  BY DeviceAssumption
<1>b. ASSUME Exchanging, call.pc \in {"info", "data"}
      PROVE  /\ call.found \in SUBSET Obj /\ call.found \cup {Current} \in SUBSET Obj
             /\ Tail(call.todo) \in Seq(Obj)
  BY <1>b, CurrentTyped DEF Call
<1>c. UNCHANGED <<config, shown>> /\ ~Idle /\ Doing({"start", "discover"})
        /\ call.pc \in {"load", "list", "info", "data"}
  BY DEF Discovering, LoadDescriptor, ListAnswered, SnapshotInfo, DescriptorInfo, DiscoveryData,
         At, Doing, SessionInv, Collecting
<1>d. SeekAssembled'
  BY <1>c DEF Transfers, SeekAssembled
<1>1. CASE call' = None
  BY <1>1, <1>d, IdleTransfers DEF Idle
<1>2. CASE \E found \in SUBSET Obj, rest \in Seq(Obj) : Visit(found, rest)
  BY <1>2, <1>c, <1>d, VisitTransfers
<1>3. CASE /\ GoTo("data")
           /\ descr = "no" /\ ~stray => Current \notin Block
  BY <1>3, <1>c, <1>d, GoToTransfers DEF Doing
<1>4. CASE LoadDescriptor
  BY <1>4, <1>1, <1>2, <1>a DEF LoadDescriptor, Raises
<1>5. CASE ListAnswered
  <2>1. call' = None \/ Visit({}, DeviceList) \/ Visit({}, << >>)
    BY <1>5 DEF ListAnswered, Raises
  <2> QED BY <1>1, <1>2, <1>a, <2>1
<1>6. CASE SnapshotInfo
  <2>0. Exchanging /\ call.pc = "info"
    BY <1>6 DEF SnapshotInfo, Exchanging, At
  <2>1. \/ call' = None
        \/ Visit(call.found, Tail(call.todo))
        \/ Visit(call.found \cup {Current}, Tail(call.todo))
        \/ GoTo("data") /\ Current \notin Block
    BY <1>6 DEF SnapshotInfo, Raises, ReadAtDiscovery
  <2> QED BY <1>1, <1>2, <1>3, <1>b, <2>0, <2>1
<1>7. CASE DescriptorInfo
  BY <1>7, <1>1, <1>3 DEF DescriptorInfo, Raises
<1>8. CASE DiscoveryData
  <2>1. Exchanging /\ call.pc = "data" /\ Visit(call.found \cup {Current}, Tail(call.todo))
    BY <1>8 DEF DiscoveryData, Exchanging, At
  <2> QED BY <1>2, <1>b, <2>1
<1> QED BY <1>4, <1>5, <1>6, <1>7, <1>8 DEF Discovering

LEMMA TransfersElse ==
  ASSUME TypeOK, Transfers,
         Send \/ DeviceAnswers \/ DeviceNotifies \/ Leave \/ Interrupt \/ LoopEnds \/ UNCHANGED vars
  PROVE  Transfers'
<1> USE DEF config, link, console
<1>1. UNCHANGED config /\ (shown' = shown \/ shown' = None)
  BY DEF Send, DeviceAnswers, DeviceNotifies, Leave, Interrupt, LoopEnds, vars
<1>2. SeekAssembled'
  BY <1>1 DEF Transfers, SeekAssembled
<1>3. CASE Leave \/ Interrupt \/ LoopEnds
  BY <1>2, <1>3, IdleTransfers DEF Leave, Interrupt, LoopEnds, Idle
<1>4. CASE Send
  <2>1. /\ call'.op = call.op /\ call'.pc = call.pc /\ call'.todo = call.todo /\ call'.got = call.got
        /\ ~Idle
    BY <1>4 DEF Send, TypeOK, Exchanging, Idle, Call
  <2>2. Current' = Current
    BY <2>1 DEF Current
  <2> QED BY <1>1, <1>2, <2>1, <2>2 DEF Transfers, PlainReads, MayWrite, Assembling, At, Doing
<1>5. CASE DeviceAnswers \/ DeviceNotifies \/ UNCHANGED vars
  <2>1. call' = call
    BY <1>5 DEF DeviceAnswers, DeviceNotifies, vars
  <2> QED BY <1>1, <1>2, <2>1 DEF Transfers, PlainReads, MayWrite, Assembling, At, Doing, Current, Idle
<1> QED BY <1>3, <1>4, <1>5

LEMMA LinkStep == TypeOK /\ TypeOK' /\ SessionInv /\ Matched /\ Transfers /\ [Next]_vars
                    => Matched' /\ Transfers'
BY MatchedStep, TransfersConnecting, TransfersDiscovering, TransfersReading, TransfersWriting,
   TransfersElse DEF Next, CallStep, External

\* The whole invariant.
IInv == TypeOK /\ SessionInv /\ Matched /\ Transfers

LEMMA InvInit == Init => IInv
<1>1. Init => Matched /\ Transfers
  BY DEF Init, Matched, Transfers, PlainReads, MayWrite, Assembling, SeekAssembled, At, Doing, Idle
<1> QED BY <1>1, TypesInit, SessionStarts DEF IInv

LEMMA InvStep == IInv /\ [Next]_vars => IInv'
BY TypesStep, SessionStep, LinkStep DEF IInv, Keeps

LEMMA Invariant == Spec => []IInv
BY InvInit, InvStep, PTL DEF Spec

\* On a link that drops late frames nothing is written to a read-only object.
THEOREM ReadOnlyKept == Spec => []NoWriteToReadOnly
<1>1. IInv => NoWriteToReadOnly
  BY DEF IInv, Matched, Transfers, MayWrite, NoWriteToReadOnly, Request, RequestFrom, Exchanging, At,
         TypeOK, Call, Idle
<1> QED BY <1>1, Invariant, PTL

\* On such a link block objects are read in chunks.
THEOREM BlocksChunked == Spec => []BlocksReadInChunks
<1>1. IInv => BlocksReadInChunks
  BY DEF IInv, Matched, Transfers, PlainReads, BlocksReadInChunks, Request, RequestFrom, Exchanging, At,
         Doing, TypeOK, Call, Idle
<1> QED BY <1>1, Invariant, PTL

\* On such a link what is shown of a seekable object is all of it, in order.
THEOREM SeekShown == Spec => []SeekAssembled
BY Invariant, PTL DEF IInv, Transfers
=============================================================================
