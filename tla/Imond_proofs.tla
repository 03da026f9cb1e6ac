---------------------------- MODULE Imond_proofs ----------------------------
(***************************************************************************)
(* Proofs about imond, for any number of channels, clients, circuits and   *)
(* calls and any configuration: the books (online_counter, the LED, the    *)
(* online marks and links of the circuits) agree with the connections, the *)
(* view of the channels is the kernel's when read_info is done, durations  *)
(* are right, and commands need the rights that are configured.            *)
(*                                                                         *)
(* The inductive invariant has four parts that hardly need each other:     *)
(* Books, View, Durations and Clientele, on top of Types.                  *)
(***************************************************************************)
EXTENDS Imond, FiniteSetTheorems, SequenceTheorems, WellFoundedInduction, TLAPS

LineType == [st : {"idle", "calling", "online", "absent"}, circ : Circuits \cup {0},
             out : BOOLEAN, slave : BOOLEAN]
ChanType == [active : BOOLEAN, start : Nat, conf : ConfLines \cup {0}, out : BOOLEAN,
             timeHigher : Int, timeLower : Int, begin : Int, highSince : Int]
PppoeType == [start : Nat, begin : Int, conf : ConfLines \cup {0}]
CircType == [online : BOOLEAN, link : Int]
ClientType == [fd : BOOLEAN, local : BOOLEAN, state : SUBSET {"normal", "admin"},
               salt : BOOLEAN, entered : SUBSET {"user", "admin"}]

KernelTypes == /\ line \in [Channels -> LineType] /\ snap \in [Channels -> LineType]
               /\ ready \in BOOLEAN /\ todo \in Channels \cup {0}
BookTypes == /\ chan \in [Channels -> ChanType] /\ circ \in [Circuits -> CircType]
             /\ pppoe \in PppoeType
             /\ online_counter \in Nat /\ led \in BOOLEAN
ClockTypes == now \in Nat \ {0} /\ real \in Int

Types == /\ config \in Configs
         /\ KernelTypes /\ BookTypes /\ ClockTypes
         /\ client \in [Slots -> ClientType]

\* The connections, and those booked to a circuit
OnlineSet == {c \in Channels : Online(c)}
Booked(k) == {c \in Channels : Online(c) /\ CircuitOf(chan[c].conf) = k}

Books == OnlineCountIsRight /\ CircuitOnlineMatches

\* What imond knows about channel c is what it has read in l.
Seen(c, l) ==
    /\ chan[c].active <=> l[c].st # "absent"
    /\ chan[c].active => (Online(c) <=> l[c].st = "online")

\* While read_info works through the snapshot, it has seen the channels before
\* todo; the snapshot is the state of the kernel unless there is news.
View == /\ ~Selecting /\ ~ready => snap = line
        /\ ~Selecting => \A c \in Channels : c < todo => Seen(c, snap)
        /\ ViewIsCurrent

\* As long as no driver is unloaded no channel disappears.
Present ==
    "driver" \notin config.faults =>
        \A c \in Channels : /\ line[c].st # "absent" /\ snap[c].st # "absent"
                            /\ Online(c) => chan[c].active

Durations == Present /\ SessionTimeIsReal

\* What password_state of a connected client allows, it has a right to.
Entitled(i) ==
    client[i].fd => /\ PassRequired /\ "normal" \in client[i].state => IsUser(i)
                    /\ "admin" \in client[i].state => IsAdmin(i)
Clientele == \A i \in Slots : Entitled(i)

IInv == Types /\ Books /\ View /\ Durations /\ Clientele

-----------------------------------------------------------------------------
\* First picks an element if there is one.
LEMMA FirstIsElement ==
  ASSUME NEW S, S \subseteq Nat, S # {}
  PROVE  First(S) \in S /\ \A j \in S : First(S) <= j
<1> DEFINE R == {p \in Nat \X Nat : p[1] < p[2]}
<1>1. IsWellFoundedOn(R, Nat)
  BY NatLessThanWellFounded, Zenon DEF OpToRel
<1> HIDE DEF R
<1>2. PICK x \in S : \A y \in S : ~ (<<y, x>> \in R)
  BY <1>1, WFMin
<1>3. ASSUME NEW y \in S PROVE x <= y
  <2>1. x \in Nat /\ y \in Nat /\ <<y, x>> \in Nat \X Nat
    OBVIOUS
  <2>2. ~ (y < x)
    BY <1>2, <2>1 DEF R
  <2>3. QED
    BY <2>1, <2>2
<1>4. QED
  BY <1>3 DEF First

\* The configuration: its lines and circuits are numbered from 1.
LEMMA ConfigFacts ==
  ASSUME config \in Configs
  PROVE  /\ 1 \in ConfLines /\ ConfLines \subseteq Nat \ {0} /\ Circuits \subseteq Nat \ {0}
         /\ \A i \in ConfLines : CircuitOf(i) \in Circuits /\ config.conf[i].circuit = CircuitOf(i)
         /\ CircuitOf(0) = 0
         /\ config.bundling \subseteq Circuits
         /\ config.passwords \subseteq {"user", "admin"}
         /\ config.warps \subseteq Int /\ config.time \in Nat
<1>1. config.conf \in Seq(ConfLine) /\ config.conf # << >>
  BY ConfigAssumption
<1>2. Len(config.conf) \in Nat \ {0} /\ DOMAIN config.conf = 1 .. Len(config.conf)
  BY <1>1, EmptySeq, LenProperties
<1>3. 1 \in ConfLines /\ ConfLines \subseteq Nat \ {0}
  BY <1>2 DEF ConfLines
<1>4. \A i \in ConfLines : config.conf[i] \in ConfLine
  BY <1>1, <1>2, ElementOfSeq DEF ConfLines
<1>5. \A i \in ConfLines : CircuitOf(i) \in Circuits /\ config.conf[i].circuit = CircuitOf(i)
  BY <1>3 DEF CircuitOf, Circuits
<1>6. Circuits \subseteq Nat \ {0}
  BY <1>4 DEF Circuits, ConfLine
<1>7. config.bundling \subseteq Circuits
  BY ConfigAssumption DEF Circuits, ConfLines
<1>8. QED
  BY <1>3, <1>5, <1>6, <1>7, ConfigAssumption DEF CircuitOf

\* The channels are numbered from 1.
LEMMA ChannelFacts ==
  /\ Channels \subseteq Nat \ {0} /\ 1 \in Channels
  /\ \A c \in Channels : c + 1 \notin Channels => \A d \in Channels : d <= c
<1>1. Cardinality(Channels) \in Nat
  BY ChannelsAssumption, FS_CardinalityType
<1>2. QED
  BY <1>1, ChannelsAssumption

\* Nothing changes the configuration.
LEMMA ConfigIsRigid ==
  ASSUME [Next]_vars
  PROVE  /\ config' = config /\ ConfLines' = ConfLines /\ Circuits' = Circuits
         /\ \A i : CircuitOf(i)' = CircuitOf(i)
<1>1. config' = config
  BY DEF Next, Kernel, Daemon, Clients, Command, vars, Call, Connect, Release, Unload,
     Load, Announce, ReadInfo, ReadInfoFails, InfoChannel, MeasureRates, PollRouting,
     Tick, NextHour, ChronySteps, Accept, Disconnect, WriteFails, Pass, Salt, Md5pass,
     SetDialmode, Route, Reboot, PppoeUp, PppoeDown, AddLink, RemoveLink, AdjustTime
<1>2. QED
  BY <1>1 DEF ConfLines, Circuits, CircuitOf

\* The steps of Next by what they change.  A step of the kernel gives a channel a
\* new state and announces it; commands that only concern the routing and steps
\* that only concern a client leave everything else alone.
KernelStep ==
    \E c \in Channels, l \in LineType :
        Announce(c, l) /\ (l.st = "absent" => "driver" \in config.faults)
ClientStep  == UNCHANGED <<config, kernel, reading, books, routing, clock>>
RoutingStep == UNCHANGED <<config, kernel, reading, books, clock, client>>
BookStep ==
    \E i \in Slots :
        \/ PppoeUp(i) \/ PppoeDown(i)
        \/ \E k \in Circuits, ok \in BOOLEAN : AddLink(i, k, ok) \/ RemoveLink(i, k, ok)
        \/ \E w \in config.warps : AdjustTime(i, w)
ClockStep == Tick \/ NextHour \/ \E w \in config.warps : ChronySteps(w)

\* Every step of the specification is one of these.
LEMMA StepCases ==
  ASSUME Types, [Next]_vars
  PROVE  \/ KernelStep \/ ReadInfo \/ ReadInfoFails \/ InfoChannel
         \/ \E high, ok \in BOOLEAN : MeasureRates(high, ok)
         \/ ClockStep \/ ClientStep \/ RoutingStep \/ BookStep
<1>1. ASSUME Kernel PROVE KernelStep
  <2>1. ASSUME NEW c \in Channels, NEW k \in Circuits \cup {0}, NEW out \in BOOLEAN,
               NEW slave \in BOOLEAN, Call(c, k, out, slave)
        PROVE  KernelStep
    <3>1. [st |-> "calling", circ |-> k, out |-> out, slave |-> slave] \in LineType
      BY DEF LineType
    <3>2. QED
      BY <2>1, <3>1 DEF Call, KernelStep
  <2>2. ASSUME NEW c \in Channels, Connect(c) PROVE KernelStep
    <3>1. [line[c] EXCEPT !.st = "online"] \in LineType
      BY DEF Types, KernelTypes, LineType
    <3>2. [line[c] EXCEPT !.st = "online"].st = "online"
      BY DEF Types, KernelTypes, LineType
    <3>3. QED
      BY <2>2, <3>1, <3>2 DEF Connect, KernelStep
  <2>3. IdleLine \in LineType /\ [IdleLine EXCEPT !.st = "absent"] \in LineType
    BY DEF IdleLine, LineType
  <2>4. ASSUME NEW c \in Channels, Release(c) \/ Unload(c) \/ Load(c) PROVE KernelStep
    BY <2>3, <2>4 DEF Release, Unload, Load, KernelStep, IdleLine
  <2>5. QED
    BY <1>1, <2>1, <2>2, <2>4 DEF Kernel
<1>2. ASSUME Clients PROVE ClientStep \/ RoutingStep \/ BookStep
  <2>1. ASSUME NEW i \in Slots, Command(i) PROVE RoutingStep \/ BookStep
    BY <2>1 DEF Command, SetDialmode, Route, Reboot, RoutingStep, BookStep
  <2>2. QED
    BY <1>2, <2>1 DEF Clients, Accept, Disconnect, WriteFails, Salt, Pass, Md5pass,
       ClientStep
<1>3. ASSUME PollRouting \/ UNCHANGED vars PROVE RoutingStep
  BY <1>3 DEF PollRouting, RoutingStep, vars
<1>4. QED
  BY <1>1, <1>2, <1>3 DEF Next, Daemon, ClockStep

\* What happens to the channel that read_info has come to
Absent(c) == /\ snap[c].st = "absent" /\ chan' = [chan EXCEPT ![c].active = FALSE]
             /\ UNCHANGED <<circ, online_counter, led>>
Ends(c)   == snap[c].st # "absent" /\ SeesHangup(c) /\ HungUp(c)
Begins(c) == chan[c].start = 0 /\ snap[c].st = "online" /\ NewConnection(c)
Stays(c)  == /\ snap[c].st # "absent" /\ (Online(c) <=> snap[c].st = "online")
             /\ chan' = [chan EXCEPT ![c].active = TRUE]
             /\ UNCHANGED <<circ, online_counter, led>>

\* One of the four happens, and todo moves on.
LEMMA InfoCases ==
  ASSUME Types, InfoChannel
  PROVE  /\ todo \in Channels /\ todo' = (IF todo + 1 \in Channels THEN todo + 1 ELSE 0)
         /\ UNCHANGED <<config, kernel, snap, pppoe, clock, client>>
         /\ Absent(todo) \/ Ends(todo) \/ Begins(todo) \/ Stays(todo)
BY DEF InfoChannel, Types, KernelTypes, Selecting, Absent, Ends, Begins, Stays,
   SeesHangup, Online

\* The conf line of a new connection is none or one whose circuit is not yet online.
LEMMA NewConfLine ==
  ASSUME Types, NEW phone, NEW out
  PROVE  LET i == find_conf_data(phone, out)
         IN  i = 0 \/ (i \in ConfLines /\ ~circ[CircuitOf(i)].online)
<1> DEFINE fits == {i \in ConfLines :
        LET l == config.conf[i]
        IN  /\ ~l.is_pppoe
            /\ IF out THEN hour \in l.hours /\ phone \in l.outgoing ELSE phone \in l.incoming
            /\ ~circ[l.circuit].online
            /\ circuit_device_online(l.circuit)}
<1>1. fits \subseteq Nat /\ fits \subseteq ConfLines
  BY ConfigFacts DEF Types
<1>2. \A i \in fits : ~circ[CircuitOf(i)].online
  BY ConfigFacts DEF Types
<1>3. find_conf_data(phone, out) = First(fits)
  BY DEF find_conf_data
<1> HIDE DEF fits
<1>4. CASE fits = {}
  BY <1>3, <1>4 DEF First
<1>5. CASE fits # {}
  BY <1>1, <1>2, <1>3, <1>5, FirstIsElement
<1>6. QED
  BY <1>4, <1>5

\* The conf line of the PPPoE connection
LEMMA PppoeConfLine ==
  ASSUME Types, NEW i \in Slots, PppoeUp(i)
  PROVE  /\ pppoe' \in PppoeType
         /\ pppoe'.start = now /\ pppoe'.begin = real
<1> DEFINE fits == {j \in ConfLines : config.conf[j].is_pppoe /\ hour \in config.conf[j].hours}
<1>1. fits \subseteq Nat /\ fits \subseteq ConfLines
  BY ConfigFacts DEF Types
<1>2. First(fits) \in ConfLines \cup {0}
  <2> HIDE DEF fits
  <2> QED
    BY <1>1, FirstIsElement DEF First
<1>3. pppoe' = [start |-> now, begin |-> real, conf |-> First(fits)]
  BY DEF PppoeUp
<1> HIDE DEF fits
<1>4. QED
  BY <1>2, <1>3 DEF Types, ClockTypes, PppoeType

\* Updates of the records of channels, circuits and the PPPoE line keep the types.
LEMMA RecordUpdates ==
  /\ \A r \in ChanType, b \in BOOLEAN : [r EXCEPT !.active = b] \in ChanType
  /\ \A r \in ChanType, b \in BOOLEAN, n \in Nat, x, y \in Int :
       [r EXCEPT !.active = b, !.start = n, !.begin = x, !.highSince = y] \in ChanType
  /\ \A r \in ChanType, x, y, z \in Int :
       [r EXCEPT !.timeHigher = x, !.timeLower = y, !.highSince = z] \in ChanType
  /\ \A r \in CircType, b \in BOOLEAN, x \in Int : [r EXCEPT !.online = b, !.link = x] \in CircType
  /\ \A r \in PppoeType, n \in Nat, x \in Int : [r EXCEPT !.start = n, !.begin = x] \in PppoeType
BY DEF ChanType, CircType, PppoeType

\* The initial state: no connection, no client.
LEMMA InitIInv == Init => IInv
<1> SUFFICES ASSUME Init PROVE IInv
  OBVIOUS
<1>1. config \in Configs /\ 1 \in ConfLines
  BY ConfigFacts DEF Init
<1>2. KernelTypes
  BY DEF Init, KernelTypes, LineType, IdleLine
<1>3. BookTypes /\ ClockTypes
  <2>1. NewChannel \in ChanType
    BY <1>1 DEF NewChannel, ChanType
  <2>2. [online |-> FALSE, link |-> 0] \in CircType
    BY DEF CircType
  <2>3. pppoe \in PppoeType
    BY <1>1 DEF Init, PppoeType
  <2>4. chan \in [Channels -> ChanType] /\ circ \in [Circuits -> CircType]
    BY <2>1, <2>2 DEF Init
  <2>5. online_counter \in Nat /\ ClockTypes
    BY DEF Init, ClockTypes
  <2>6. led \in BOOLEAN
    BY DEF Init
  <2>7. QED
    BY <2>3, <2>4, <2>5, <2>6 DEF BookTypes
<1>4. Types
  BY <1>1, <1>2, <1>3 DEF Init, Types, ClientType, NoClient
<1>5. \A c \in Channels : ~Online(c)
  BY DEF Init, NewChannel, Online
<1>6. Books
  <2>1. {c \in Channels : Online(c)} = {}
        /\ \A k \in Circuits : {c \in Channels : Online(c) /\ CircuitOf(chan[c].conf) = k} = {}
    BY <1>5
  <2>2. OnlineCountIsRight
    <3>1. Cardinality({c \in Channels : Online(c)}) = 0
      BY <2>1, FS_EmptySet
    <3>2. online_counter = 0 /\ pppoe.start = 0 /\ led = FALSE
      BY DEF Init
    <3>3. QED
      BY <3>1, <3>2 DEF OnlineCountIsRight
  <2>3. \A k \in Circuits : ~circ[k].online /\ circ[k].link = 0
    BY DEF Init
  <2>4. CircuitOnlineMatches
    BY <2>1, <2>3, FS_EmptySet DEF CircuitOnlineMatches
  <2>5. QED
    BY <2>2, <2>4 DEF Books
<1>7. View /\ Durations
  BY <1>5 DEF Init, View, ViewIsCurrent, Selecting, Durations, Present, SessionTimeIsReal,
     IdleLine
<1>8. Clientele
  BY DEF Init, Clientele, Entitled, NoClient
<1>9. QED
  BY <1>4, <1>6, <1>7, <1>8 DEF IInv

\* Every step keeps the types.
LEMMA NextTypes == ASSUME Types, [Next]_vars PROVE Types'
<1> USE DEF Types
<1>0. /\ config' = config /\ ConfLines' = ConfLines /\ Circuits' = Circuits
      /\ LineType' = LineType /\ ChanType' = ChanType /\ PppoeType' = PppoeType
  BY ConfigIsRigid DEF LineType, ChanType, PppoeType
<1>z. 0 \in Nat /\ 0 \in Int
  OBVIOUS
<1>1. KernelTypes'
  <2>1. CASE KernelStep
    BY <1>0, <2>1 DEF KernelStep, Announce, KernelTypes, reading
  <2>2. CASE ReadInfo
    BY <1>0, <2>2, ChannelFacts DEF ReadInfo, KernelTypes
  <2>3. CASE InfoChannel
    BY <1>0, <2>3, InfoCases DEF KernelTypes, kernel
  <2>4. CASE UNCHANGED <<kernel, reading>>
    BY <1>0, <2>4 DEF KernelTypes, kernel, reading
  <2>5. QED
    BY <2>1, <2>2, <2>3, <2>4, StepCases DEF ReadInfoFails, MeasureRates, ClockStep, Tick,
       NextHour, ChronySteps, ClientStep, RoutingStep, BookStep, PppoeUp, PppoeDown,
       AddLink, RemoveLink, AdjustTime
<1>2. ClockTypes'
  <2>1. CASE ClockStep
    BY <2>1, ConfigFacts DEF ClockStep, Tick, NextHour, ChronySteps, ClockTypes,
       ClockRange
  <2>2. ASSUME NEW i \in Slots, NEW w \in config.warps, AdjustTime(i, w) PROVE ClockTypes'
    BY <2>2, ConfigFacts DEF AdjustTime, ClockTypes, ClockRange
  <2>3. CASE UNCHANGED <<now, real>>
    BY <2>3 DEF ClockTypes
  <2>4. QED
    BY <2>1, <2>2, <2>3, StepCases DEF KernelStep, Announce, ReadInfo, ReadInfoFails,
       InfoChannel, MeasureRates, ClientStep, RoutingStep, BookStep, PppoeUp, PppoeDown,
       AddLink, RemoveLink, clock
<1>3. BookTypes'
  <2>1. CASE InfoChannel
    <3> DEFINE c == todo
    <3>1. /\ c \in Channels /\ UNCHANGED pppoe
          /\ Absent(c) \/ Ends(c) \/ Begins(c) \/ Stays(c)
      BY <2>1, InfoCases
    <3>2. chan[c] \in ChanType /\ chan \in [Channels -> ChanType] /\ circ \in [Circuits -> CircType]
      BY <3>1 DEF BookTypes
    <3> HIDE DEF c
    <3>3. CASE Absent(c) \/ Stays(c)
      <4>1. \A b \in BOOLEAN : [chan[c] EXCEPT !.active = b] \in ChanType
        BY <3>2, RecordUpdates
      <4>2. chan' \in [Channels -> ChanType]
        BY <3>2, <3>3, <4>1 DEF Absent, Stays
      <4>3. QED
        BY <1>0, <3>1, <3>3, <4>2 DEF Absent, Stays, BookTypes
    <3>4. CASE Ends(c)
      <4>1. chan' \in [Channels -> ChanType]
        <5>1. [chan[c] EXCEPT !.active = TRUE, !.start = 0, !.begin = 0, !.highSince = 0] \in ChanType
          BY <1>z, <3>2, RecordUpdates, Zenon
        <5>2. chan' = [chan EXCEPT ![c] =
                  [chan[c] EXCEPT !.active = TRUE, !.start = 0, !.begin = 0, !.highSince = 0]]
          BY <3>1, <3>2, <3>4 DEF Ends, HungUp
        <5>3. QED
          BY <3>2, <5>1, <5>2
      <4>2. circ' \in [Circuits -> CircType]
        <5>1. \A r \in CircType : [r EXCEPT !.online = FALSE, !.link = 0] \in CircType
          BY <1>z, RecordUpdates, Zenon
        <5>2. PICK k : circ' = IF k = 0 THEN circ
                               ELSE [circ EXCEPT ![k].online = FALSE, ![k].link = 0]
          BY <3>4 DEF Ends, HungUp
        <5>3. circ' = circ \/ circ' = [circ EXCEPT ![k] = [circ[k] EXCEPT !.online = FALSE, !.link = 0]]
          BY <3>2, <5>2
        <5>4. QED
          BY <3>2, <5>1, <5>3
      <4>3. online_counter' \in Nat /\ led' \in BOOLEAN
        BY <3>4 DEF Ends, HungUp, WentOffline, BookTypes
      <4>4. QED
        BY <1>0, <3>1, <4>1, <4>2, <4>3 DEF BookTypes
    <3>5. CASE Begins(c)
      <4> DEFINE i == find_conf_data(config.phone[snap[c].circ], snap[c].out)
      <4>1. i \in ConfLines \cup {0} /\ snap[c].out \in BOOLEAN
        BY <3>1, NewConfLine DEF KernelTypes, LineType
      <4>2. /\ chan' = [chan EXCEPT ![c].active = TRUE, ![c].start = now, ![c].begin = real,
                                    ![c].conf = i, ![c].out = snap[c].out]
            /\ circ' = IF i = 0 THEN circ ELSE [circ EXCEPT ![CircuitOf(i)].online = TRUE]
            /\ WentOnline
        BY <3>5 DEF Begins, NewConnection
      <4> HIDE DEF i
      <4>3. chan' \in [Channels -> ChanType]
        BY <3>1, <3>2, <4>1, <4>2 DEF ClockTypes, ChanType
      <4>4. circ' \in [Circuits -> CircType]
        BY <3>2, <4>2 DEF CircType
      <4>5. QED
        BY <1>0, <3>1, <4>2, <4>3, <4>4 DEF BookTypes, WentOnline
    <3>6. QED
      BY <3>1, <3>3, <3>4, <3>5
  <2>2. ASSUME NEW high \in BOOLEAN, NEW ok \in BOOLEAN, MeasureRates(high, ok) PROVE BookTypes'
    <3>1. chan[1] \in ChanType /\ chan \in [Channels -> ChanType] /\ circ \in [Circuits -> CircType]
      BY ChannelFacts DEF BookTypes
    <3>2. CircuitOf(chan[1].conf) \in Circuits
      BY <2>2, ConfigFacts DEF MeasureRates
    <3>3. chan' \in [Channels -> ChanType]
      <4> DEFINE h == IF ~high THEN 0 ELSE IF chan[1].timeHigher = 0 THEN now ELSE chan[1].timeHigher
                 l == IF high THEN 0 ELSE IF chan[1].timeLower = 0 THEN now ELSE chan[1].timeLower
                 s == IF ~high THEN 0 ELSE IF chan[1].highSince = 0 THEN now ELSE chan[1].highSince
      <4>1. h \in Int /\ l \in Int /\ s \in Int
        BY <3>1 DEF ChanType, ClockTypes
      <4>2. chan' = [chan EXCEPT ![1] =
                       [chan[1] EXCEPT !.timeHigher = h, !.timeLower = l, !.highSince = s]]
        BY <2>2, <3>1 DEF MeasureRates
      <4> HIDE DEF h, l, s
      <4>3. QED
        BY <3>1, <4>1, <4>2, RecordUpdates
    <3>4. circ' \in [Circuits -> CircType]
      BY <2>2, <3>1, <3>2 DEF MeasureRates, CircType, addlink, removelink
    <3>5. QED
      BY <1>0, <2>2, <3>3, <3>4 DEF MeasureRates, BookTypes
  <2>3. ASSUME NEW i \in Slots, PppoeUp(i) PROVE BookTypes'
    BY <1>0, <2>3, PppoeConfLine DEF PppoeUp, BookTypes, WentOnline
  <2>4. ASSUME NEW i \in Slots, PppoeDown(i) PROVE BookTypes'
    <3>1. [pppoe EXCEPT !.start = 0, !.begin = 0] \in PppoeType
      BY <1>z, RecordUpdates, Zenon DEF BookTypes
    <3>2. pppoe' \in PppoeType
      BY <2>4, <3>1 DEF PppoeDown, BookTypes
    <3>3. online_counter' \in Nat
      BY <2>4 DEF PppoeDown, BookTypes, WentOffline
    <3>4. led' \in BOOLEAN
      BY <2>4 DEF PppoeDown, BookTypes, WentOffline
    <3>5. QED
      BY <1>0, <2>4, <3>2, <3>3, <3>4 DEF PppoeDown, BookTypes
  <2>5. ASSUME NEW i \in Slots, NEW k \in Circuits, NEW ok \in BOOLEAN,
               AddLink(i, k, ok) \/ RemoveLink(i, k, ok)
        PROVE  BookTypes'
    BY <1>0, <2>5 DEF AddLink, RemoveLink, addlink, removelink, BookTypes, CircType
  <2>6. ASSUME NEW i \in Slots, NEW w \in config.warps, AdjustTime(i, w) PROVE BookTypes'
    <3>1. w \in Int /\ \A c \in Channels : chan[c] \in ChanType
      BY ConfigFacts DEF BookTypes
    <3>2. \A c \in Channels : chan'[c].start > 0 \/ chan'[c] = chan[c]
      BY <2>6, <3>1 DEF AdjustTime, Shifted, StartsInRange, ChanType
    <3>3. \A c \in Channels : chan'[c] \in ChanType
      BY <2>6, <3>1, <3>2 DEF AdjustTime, Shifted, ChanType
    <3>4. chan' \in [Channels -> ChanType]
      BY <2>6, <3>3 DEF AdjustTime, Shifted
    <3>5. pppoe' \in PppoeType
      BY <2>6, <3>1 DEF AdjustTime, Shifted, StartsInRange, BookTypes, PppoeType
    <3>6. QED
      BY <1>0, <2>6, <3>4, <3>5 DEF AdjustTime, BookTypes
  <2>7. CASE UNCHANGED <<chan, circ, pppoe, online_counter, led>>
    BY <1>0, <2>7 DEF BookTypes, CircType
  <2>8. QED
    BY <2>1, <2>2, <2>3, <2>4, <2>5, <2>6, <2>7, StepCases DEF KernelStep, Announce,
       ReadInfo, ReadInfoFails, ClockStep, Tick, NextHour, ChronySteps, ClientStep,
       RoutingStep, BookStep, books
<1>4. client' \in [Slots -> ClientType]
  <2>1. ASSUME NEW local \in BOOLEAN, Accept(local) PROVE client' \in [Slots -> ClientType]
    BY <2>1 DEF Accept, InitialState, ClientType
  <2>2. ASSUME NEW i \in Slots, Disconnect(i) \/ WriteFails(i) \/ Salt(i)
        PROVE  client' \in [Slots -> ClientType]
    <3>1. client[i] \in ClientType
      OBVIOUS
    <3>2. /\ [client[i] EXCEPT !.fd = FALSE, !.state = {}] \in ClientType
          /\ [client[i] EXCEPT !.fd = FALSE] \in ClientType
          /\ [client[i] EXCEPT !.salt = TRUE] \in ClientType
      BY <3>1 DEF ClientType
    <3>3. QED
      BY <2>2, <3>2 DEF Disconnect, WriteFails, Salt
  <2>3. ASSUME NEW i \in Slots, NEW p \in config.passwords, Pass(i, p)
        PROVE  client' \in [Slots -> ClientType]
    <3>1. Granted(p) \subseteq {"normal", "admin"} /\ p \in {"user", "admin"}
      BY ConfigFacts DEF Granted
    <3>2. client[i] \in ClientType
      OBVIOUS
    <3>3. [client[i] EXCEPT !.state = client[i].state \cup Granted(p),
                            !.entered = client[i].entered \cup {p}] \in ClientType
      BY <3>1, <3>2 DEF ClientType
    <3>4. QED
      BY <2>3, <3>3 DEF Pass
  <2>4. CASE UNCHANGED client
    BY <2>4
  <2>5. QED
    BY <2>1, <2>2, <2>3, <2>4 DEF Next, Kernel, Daemon, Clients, Command, vars, Call,
       Connect, Release, Unload, Load, Announce, ReadInfo, ReadInfoFails, InfoChannel,
       MeasureRates, PollRouting, Tick, NextHour, ChronySteps, Md5pass, SetDialmode,
       Route, Reboot, PppoeUp, PppoeDown, AddLink, RemoveLink, AdjustTime
<1>5. ClientType' = ClientType
  BY DEF ClientType
<1>6. QED
  BY <1>0, <1>1, <1>2, <1>3, <1>4, <1>5

-----------------------------------------------------------------------------
(* The books                                                               *)

\* What read_info does to the record of the channel it has come to
LEMMA InfoEffect ==
  ASSUME Types, NEW c \in Channels
  PROVE  /\ Absent(c) \/ Ends(c) \/ Begins(c) \/ Stays(c) =>
              \A d \in Channels \ {c} : chan'[d] = chan[d]
         /\ Absent(c) \/ Stays(c) => /\ chan'[c].start = chan[c].start
                                     /\ chan'[c].begin = chan[c].begin
                                     /\ chan'[c].conf = chan[c].conf
         /\ Absent(c) => ~chan'[c].active
         /\ Ends(c) => chan'[c].start = 0
         /\ Begins(c) => chan'[c].start = now /\ chan'[c].begin = real
         /\ Ends(c) \/ Begins(c) \/ Stays(c) => chan'[c].active
<1>1. chan \in [Channels -> ChanType] /\ chan[c] \in ChanType
  BY DEF Types, BookTypes
<1>2. CASE Absent(c)
  BY <1>1, <1>2 DEF Absent, Ends, Begins, Stays, ChanType
<1>3. CASE Ends(c)
  BY <1>1, <1>3 DEF Absent, Ends, Begins, Stays, HungUp, ChanType, SeesHangup, Online
<1>4. CASE Begins(c)
  BY <1>1, <1>4 DEF Absent, Ends, Begins, Stays, NewConnection, ChanType, SeesHangup,
     Online
<1>5. CASE Stays(c)
  BY <1>1, <1>5 DEF Absent, Ends, Begins, Stays, ChanType, SeesHangup, Online
<1>6. QED
  BY <1>2, <1>3, <1>4, <1>5

\* Sets of channels can be counted.
LEMMA Countable == \A S \in SUBSET Channels : IsFiniteSet(S) /\ Cardinality(S) \in Nat
  BY ChannelsAssumption, FS_Subset, FS_CardinalityType

\* The counters by the sets they count
CountRight == /\ online_counter = Cardinality(OnlineSet) + (IF pppoe.start # 0 THEN 1 ELSE 0)
              /\ led <=> online_counter > 0
MarkRight(k) == /\ Cardinality(Booked(k)) = IF circ[k].online THEN 1 ELSE 0
                /\ circ[k].link \in 0 .. 1 /\ (circ[k].link = 1 => circ[k].online)

\* Books says that the counters are right.
LEMMA BooksDef == Books <=> CountRight /\ \A k \in Circuits : MarkRight(k)
  BY DEF Books, OnlineCountIsRight, CircuitOnlineMatches, CountRight, MarkRight,
     OnlineSet, Booked

\* A step that begins and ends no connection leaves the sets alone.
LEMMA SameConnections ==
  ASSUME config' = config,
         \A c \in Channels : /\ chan[c].start = 0 <=> chan'[c].start = 0
                             /\ chan'[c].conf = chan[c].conf
  PROVE  OnlineSet' = OnlineSet /\ \A k : Booked(k)' = Booked(k)
BY DEF OnlineSet, Booked, Online, CircuitOf

\* Every step keeps the books.
LEMMA NextBooks == ASSUME Types, Types', Books, [Next]_vars PROVE Books'
<1>0. config' = config /\ Circuits' = Circuits /\ \A i : CircuitOf(i)' = CircuitOf(i)
  BY ConfigIsRigid
<1>1. /\ OnlineSet \in SUBSET Channels /\ OnlineSet' \in SUBSET Channels
      /\ \A k : Booked(k) \in SUBSET Channels /\ Booked(k)' \in SUBSET Channels
  BY DEF OnlineSet, Booked
<1>2. CountRight /\ \A k \in Circuits : MarkRight(k)
  BY BooksDef
<1>3. SUFFICES CountRight' /\ \A k \in Circuits : MarkRight(k)'
  BY <1>0 DEF Books, OnlineCountIsRight, CircuitOnlineMatches, CountRight, MarkRight,
     OnlineSet, Booked
<1>4. ASSUME InfoChannel PROVE CountRight' /\ \A k \in Circuits : MarkRight(k)'
  <2> DEFINE c == todo
  <2>1. /\ c \in Channels /\ UNCHANGED pppoe
        /\ Absent(c) \/ Ends(c) \/ Begins(c) \/ Stays(c)
    BY <1>4, InfoCases
  <2> HIDE DEF c
  <2>2. CASE Absent(c) \/ Stays(c)
    <3>1. OnlineSet' = OnlineSet /\ \A k : Booked(k)' = Booked(k)
      BY <1>0, <2>1, <2>2, InfoEffect, SameConnections
    <3>2. QED
      BY <1>2, <2>1, <2>2, <3>1 DEF Absent, Stays, CountRight, MarkRight
  <2>3. CASE Ends(c)
    <3> DEFINE k0 == CircuitOf(chan[c].conf)
    <3>1. c \in OnlineSet /\ OnlineSet' = OnlineSet \ {c}
      BY <2>1, <2>3, InfoEffect DEF Ends, SeesHangup, OnlineSet, Online
    <3>2. Cardinality(OnlineSet') = Cardinality(OnlineSet) - 1 /\ Cardinality(OnlineSet') \in Nat
      BY <1>1, <3>1, Countable, FS_RemoveElement
    <3>3. online_counter > 0 /\ online_counter' = online_counter - 1
      BY <1>1, <1>2, <2>3, <3>2, Countable DEF CountRight, Ends, HungUp, WentOffline,
         Types, BookTypes
    <3>4. led' <=> online_counter' > 0
      BY <1>2, <2>3, <3>3 DEF CountRight, Ends, HungUp, WentOffline
    <3>5. CountRight'
      BY <1>1, <1>2, <2>1, <3>2, <3>3, <3>4, Countable DEF CountRight, Types, BookTypes
    <3>6. ASSUME NEW k \in Circuits, k # k0 PROVE MarkRight(k)'
      <4>1. Booked(k)' = Booked(k)
        BY <1>0, <2>1, <2>3, <3>6, InfoEffect DEF Booked, Online
      <4>2. circ'[k] = circ[k]
        BY <2>3, <3>6 DEF Ends, HungUp, Types, BookTypes
      <4>3. QED
        BY <1>2, <4>1, <4>2 DEF MarkRight
    <3>7. ASSUME NEW k \in Circuits, k = k0 PROVE MarkRight(k)'
      <4>1. c \in Booked(k) /\ Booked(k)' = Booked(k) \ {c}
        BY <1>0, <2>1, <2>3, <3>7, InfoEffect DEF Booked, Online, Ends, SeesHangup
      <4>2. Cardinality(Booked(k)') = Cardinality(Booked(k)) - 1 /\ Cardinality(Booked(k)') \in Nat
        BY <1>1, <4>1, Countable, FS_RemoveElement
      <4>3. Cardinality(Booked(k)) <= 1 /\ Cardinality(Booked(k)) \in Nat
        BY <1>1, <1>2, Countable DEF MarkRight
      <4>4. k # 0
        BY ConfigFacts DEF Types
      <4>5. ~circ'[k].online /\ circ'[k].link = 0
        BY <2>3, <3>7, <4>4 DEF Ends, HungUp, Types, BookTypes, CircType
      <4>6. QED
        BY <4>2, <4>3, <4>5 DEF MarkRight
    <3>8. QED
      BY <3>5, <3>6, <3>7
  <2>4. CASE Begins(c)
    <3> DEFINE i == find_conf_data(config.phone[snap[c].circ], snap[c].out)
    <3>1. chan[c].start = 0 /\ chan'[c].start # 0 /\ chan'[c].conf = i
      BY <2>1, <2>4, InfoEffect DEF Begins, NewConnection, Types, ClockTypes, BookTypes,
         ChanType
    <3>2. /\ circ' = IF i = 0 THEN circ ELSE [circ EXCEPT ![CircuitOf(i)].online = TRUE]
          /\ online_counter' = online_counter + 1 /\ led' = TRUE
      BY <2>4 DEF Begins, NewConnection, WentOnline
    <3>3. i = 0 \/ (i \in ConfLines /\ ~circ[CircuitOf(i)].online)
      BY NewConfLine
    <3>4. \A d \in Channels \ {c} : chan'[d] = chan[d]
      BY <2>1, <2>4, InfoEffect
    <3> HIDE DEF i
    <3>5. c \notin OnlineSet /\ OnlineSet' = OnlineSet \cup {c}
      BY <2>1, <3>1, <3>4 DEF OnlineSet, Online
    <3>6. Cardinality(OnlineSet') = Cardinality(OnlineSet) + 1 /\ Cardinality(OnlineSet) \in Nat
      BY <1>1, <3>5, Countable, FS_AddElement
    <3>7. CountRight'
      BY <1>2, <2>1, <3>2, <3>6 DEF CountRight, Types, BookTypes
    <3>8. ASSUME NEW k \in Circuits, k # CircuitOf(i) PROVE MarkRight(k)'
      <4>1. Booked(k)' = Booked(k)
        BY <1>0, <2>1, <3>1, <3>4, <3>8 DEF Booked, Online
      <4>2. circ'[k] = circ[k]
        BY <3>2, <3>8 DEF Types, BookTypes
      <4>3. QED
        BY <1>2, <4>1, <4>2 DEF MarkRight
    <3>9. ASSUME NEW k \in Circuits, k = CircuitOf(i) PROVE MarkRight(k)'
      <4>1. i # 0 /\ ~circ[k].online
        BY <3>3, <3>9, ConfigFacts DEF Types
      <4>2. c \notin Booked(k) /\ Booked(k)' = Booked(k) \cup {c}
        BY <1>0, <2>1, <3>1, <3>4, <3>9 DEF Booked, Online
      <4>3. Cardinality(Booked(k)) = 0 /\ circ[k].link \in 0 .. 1
        BY <1>2, <4>1 DEF MarkRight
      <4>4. Cardinality(Booked(k)') = 1
        BY <1>1, <4>2, <4>3, Countable, FS_AddElement
      <4>5. circ'[k].online /\ circ'[k].link = circ[k].link
        BY <3>2, <3>9, <4>1 DEF Types, BookTypes, CircType
      <4>6. QED
        BY <4>3, <4>4, <4>5 DEF MarkRight
    <3>10. QED
      BY <3>7, <3>8, <3>9
  <2>5. QED
    BY <2>1, <2>2, <2>3, <2>4
<1>5. ASSUME NEW high \in BOOLEAN, NEW ok \in BOOLEAN, MeasureRates(high, ok)
      PROVE  CountRight' /\ \A k \in Circuits : MarkRight(k)'
  <2> DEFINE k0 == CircuitOf(chan[1].conf)
  <2>1. 1 \in Channels /\ chan \in [Channels -> ChanType] /\ chan[1] \in ChanType
    BY ChannelFacts DEF Types, BookTypes
  <2>2. \A c \in Channels : chan'[c].start = chan[c].start /\ chan'[c].conf = chan[c].conf
    BY <1>5, <2>1 DEF MeasureRates, ChanType
  <2>3. OnlineSet' = OnlineSet /\ \A k : Booked(k)' = Booked(k)
    BY <1>0, <2>2, SameConnections
  <2>4. CountRight'
    BY <1>2, <1>5, <2>3 DEF CountRight, MeasureRates
  <2>5. ASSUME NEW k \in Circuits PROVE MarkRight(k)'
    <3>1. k = k0 => Cardinality(Booked(k)) # 0
      BY <1>1, <1>5, <2>1, Countable, FS_EmptySet DEF MeasureRates, Booked, Online,
         ChanType
    <3>2. k = k0 => circ[k].online
      BY <1>2, <3>1 DEF MarkRight
    <3>3. circ'[k].online = circ[k].online
      BY <1>5 DEF MeasureRates, addlink, removelink, Types, BookTypes, CircType
    <3>4. circ'[k].link \in 0 .. 1 /\ (k # k0 => circ'[k].link = circ[k].link)
      BY <1>2, <1>5 DEF MarkRight, MeasureRates, addlink, removelink, Types, BookTypes,
         CircType
    <3>5. QED
      BY <1>2, <2>3, <3>2, <3>3, <3>4 DEF MarkRight
  <2>6. QED
    BY <2>4, <2>5
<1>6. ASSUME NEW i \in Slots, PppoeUp(i) PROVE CountRight' /\ \A k \in Circuits : MarkRight(k)'
  <2>1. OnlineSet' = OnlineSet /\ \A k : Booked(k)' = Booked(k)
    BY <1>0, <1>6, SameConnections DEF PppoeUp
  <2>2. pppoe.start = 0 /\ pppoe'.start # 0
    BY <1>6, PppoeConfLine DEF PppoeUp, Types, ClockTypes
  <2>3. CountRight'
    BY <1>1, <1>2, <1>6, <2>1, <2>2, Countable DEF CountRight, PppoeUp, WentOnline
  <2>4. QED
    BY <1>2, <1>6, <2>1, <2>3 DEF MarkRight, PppoeUp
<1>7. ASSUME NEW i \in Slots, PppoeDown(i) PROVE CountRight' /\ \A k \in Circuits : MarkRight(k)'
  <2>1. OnlineSet' = OnlineSet /\ \A k : Booked(k)' = Booked(k)
    BY <1>0, <1>7, SameConnections DEF PppoeDown
  <2>2. Cardinality(OnlineSet) \in Nat
    BY <1>1, Countable
  <2>3. ASSUME pppoe.start # 0 PROVE CountRight'
    <3>1. pppoe'.start = 0
      BY <1>7, <2>3 DEF PppoeDown, Types, BookTypes, PppoeType
    <3>2. online_counter > 0 /\ online_counter' = online_counter - 1
      BY <1>2, <1>7, <2>2, <2>3 DEF CountRight, PppoeDown, WentOffline
    <3>3. led' <=> online_counter' > 0
      BY <1>2, <1>7, <2>3, <3>2 DEF CountRight, PppoeDown, WentOffline
    <3>4. QED
      BY <1>2, <2>1, <2>2, <2>3, <3>1, <3>2, <3>3 DEF CountRight
  <2>4. ASSUME pppoe.start = 0 PROVE CountRight'
    BY <1>2, <1>7, <2>1, <2>4 DEF CountRight, PppoeDown
  <2>5. \A k \in Circuits : MarkRight(k)'
    BY <1>2, <1>7, <2>1 DEF MarkRight, PppoeDown
  <2>6. QED
    BY <2>3, <2>4, <2>5
<1>8. ASSUME NEW i \in Slots, NEW j \in Circuits, NEW ok \in BOOLEAN,
             AddLink(i, j, ok) \/ RemoveLink(i, j, ok)
      PROVE  CountRight' /\ \A k \in Circuits : MarkRight(k)'
  <2>1. OnlineSet' = OnlineSet /\ \A k : Booked(k)' = Booked(k)
    BY <1>0, <1>8, SameConnections DEF AddLink, RemoveLink
  <2>2. find_channel(j) \in Booked(j)
    <3> DEFINE S == {c \in Channels :
            /\ chan[c].active /\ chan[c].start # 0 /\ j # 0 /\ CircuitOf(chan[c].conf) = j
            /\ \/ c = First({d \in Channels : chan[d].active})
               \/ Cardinality({d \in Channels : d < c /\ chan[d].active}) < n_active_channels}
    <3>1. S \subseteq Nat /\ S \subseteq Booked(j)
      BY ChannelFacts DEF Booked, Online
    <3>2. find_channel(j) = First(S) /\ First(S) # 0
      BY <1>8 DEF find_channel, AddLink, RemoveLink
    <3> HIDE DEF S
    <3>3. QED
      BY <3>1, <3>2, FirstIsElement DEF First
  <2>3. circ[j].online
    <3>1. Cardinality(Booked(j)) # 0
      BY <1>1, <2>2, Countable, FS_EmptySet
    <3>2. QED
      BY <1>2, <3>1 DEF MarkRight
  <2>4. ASSUME NEW k \in Circuits PROVE MarkRight(k)'
    <3>1. circ'[k].online = circ[k].online /\ (k # j => circ'[k].link = circ[k].link)
      BY <1>8 DEF AddLink, RemoveLink, addlink, removelink, Types, BookTypes, CircType
    <3>2. circ'[k].link \in 0 .. 1
      BY <1>2, <1>8 DEF MarkRight, AddLink, RemoveLink, addlink, removelink, Types,
         BookTypes, CircType
    <3>3. QED
      BY <1>2, <2>1, <2>3, <3>1, <3>2 DEF MarkRight
  <2>5. QED
    BY <1>2, <1>8, <2>1, <2>4 DEF CountRight, AddLink, RemoveLink
<1>9. ASSUME NEW i \in Slots, NEW w \in config.warps, AdjustTime(i, w)
      PROVE  CountRight' /\ \A k \in Circuits : MarkRight(k)'
  <2>1. \A c \in Channels : /\ chan[c].start = 0 <=> chan'[c].start = 0
                            /\ chan'[c].conf = chan[c].conf
    BY <1>9 DEF AdjustTime, Shifted, StartsInRange, Types, BookTypes, ChanType
  <2>2. pppoe.start = 0 <=> pppoe'.start = 0
    BY <1>9 DEF AdjustTime, Shifted, StartsInRange
  <2>3. OnlineSet' = OnlineSet /\ \A k : Booked(k)' = Booked(k)
    BY <1>0, <2>1, SameConnections
  <2>4. QED
    BY <1>2, <1>9, <2>2, <2>3 DEF CountRight, MarkRight, AdjustTime
<1>10. ASSUME UNCHANGED <<chan, circ, pppoe, online_counter, led>>
       PROVE  CountRight' /\ \A k \in Circuits : MarkRight(k)'
  <2>1. OnlineSet' = OnlineSet /\ \A k : Booked(k)' = Booked(k)
    BY <1>0, <1>10, SameConnections
  <2>2. QED
    BY <1>2, <1>10, <2>1 DEF CountRight, MarkRight
<1>11. QED
  BY <1>4, <1>5, <1>6, <1>7, <1>8, <1>9, <1>10, StepCases DEF KernelStep, Announce,
     ReadInfo, ReadInfoFails, ClockStep, Tick, NextHour, ChronySteps, ClientStep,
     RoutingStep, BookStep, books

-----------------------------------------------------------------------------
(* The view of the channels                                                *)

\* A step that neither reads nor begins or ends a connection leaves the view alone.
LEMMA SameView ==
  ASSUME View, UNCHANGED <<line, ready, snap, todo>>,
         \A c \in Channels : /\ chan[c].start = 0 <=> chan'[c].start = 0
                             /\ chan'[c].active = chan[c].active
  PROVE  View'
BY DEF View, ViewIsCurrent, Seen, Online, Selecting

\* Every step keeps the view.
LEMMA NextView == ASSUME Types, Types', View, [Next]_vars PROVE View'
<1>1. CASE KernelStep
  <2>1. ready' = TRUE /\ UNCHANGED <<snap, todo, chan>>
    BY <1>1 DEF KernelStep, Announce, reading, books
  <2>2. QED
    BY <2>1 DEF View, ViewIsCurrent, Seen, Online, Selecting
<1>2. CASE ReadInfo
  BY <1>2, ChannelFacts DEF ReadInfo, View, ViewIsCurrent, Seen, Online, Selecting
<1>3. CASE InfoChannel
  <2> DEFINE c == todo
  <2>1. /\ c \in Channels /\ c # 0 /\ todo' = (IF c + 1 \in Channels THEN c + 1 ELSE 0)
        /\ UNCHANGED <<line, ready, snap>>
        /\ Absent(c) \/ Ends(c) \/ Begins(c) \/ Stays(c)
    BY <1>3, InfoCases, ChannelFacts DEF kernel
  <2>2. \A d \in Channels : d # c => chan'[d] = chan[d]
    BY <2>1, InfoEffect
  <2>3. /\ chan'[c].active <=> snap[c].st # "absent"
        /\ chan'[c].active => (chan'[c].start # 0 <=> snap[c].st = "online")
    <3>1. CASE Absent(c)
      BY <2>1, <3>1, InfoEffect DEF Absent
    <3>2. CASE Ends(c)
      BY <2>1, <3>2, InfoEffect DEF Ends, SeesHangup
    <3>3. CASE Begins(c)
      BY <2>1, <3>3, InfoEffect DEF Begins, Types, ClockTypes
    <3>4. CASE Stays(c)
      BY <2>1, <3>4, InfoEffect DEF Stays, Online
    <3>5. QED
      BY <2>1, <3>1, <3>2, <3>3, <3>4
  <2>4. \A d \in Channels : d < c =>
          /\ chan[d].active <=> snap[d].st # "absent"
          /\ chan[d].active => (chan[d].start # 0 <=> snap[d].st = "online")
    BY <2>1 DEF View, Selecting, Seen, Online
  <2>5. ~ready => snap = line
    BY <2>1 DEF View, Selecting
  <2> HIDE DEF c
  <2>6. \A d \in Channels : d <= c =>
          /\ chan'[d].active <=> snap[d].st # "absent"
          /\ chan'[d].active => (chan'[d].start # 0 <=> snap[d].st = "online")
    BY <2>1, <2>2, <2>3, <2>4, ChannelFacts
  <2>7. CASE c + 1 \in Channels
    <3>1. todo' # 0 /\ \A d \in Channels : d < todo' => d <= c
      BY <2>1, <2>7, ChannelFacts
    <3>2. QED
      BY <2>1, <2>5, <2>6, <3>1 DEF View, ViewIsCurrent, Selecting, Seen, Online
  <2>8. CASE c + 1 \notin Channels
    <3>1. todo' = 0 /\ \A d \in Channels : d <= c
      BY <2>1, <2>8, ChannelFacts
    <3>2. QED
      BY <2>1, <2>5, <2>6, <3>1 DEF View, ViewIsCurrent, Selecting, Seen, Online
  <2>9. QED
    BY <2>7, <2>8
<1>4. ASSUME NEW high \in BOOLEAN, NEW ok \in BOOLEAN, MeasureRates(high, ok) PROVE View'
  <2>1. \A c \in Channels : chan'[c].start = chan[c].start /\ chan'[c].active = chan[c].active
    BY <1>4, ChannelFacts DEF MeasureRates, Types, BookTypes, ChanType
  <2>2. QED
    BY <1>4, <2>1, SameView DEF MeasureRates, kernel, reading
<1>5. ASSUME NEW i \in Slots, NEW w \in config.warps, AdjustTime(i, w) PROVE View'
  <2>1. \A c \in Channels : /\ chan[c].start = 0 <=> chan'[c].start = 0
                            /\ chan'[c].active = chan[c].active
    BY <1>5 DEF AdjustTime, Shifted, StartsInRange, Types, BookTypes, ChanType
  <2>2. QED
    BY <1>5, <2>1, SameView DEF AdjustTime, kernel, reading
<1>6. CASE UNCHANGED <<line, ready, snap, todo, chan>>
  BY <1>6, SameView
<1>7. QED
  BY <1>1, <1>2, <1>3, <1>4, <1>5, <1>6, StepCases DEF ReadInfoFails, ClockStep, Tick,
     NextHour, ChronySteps, ClientStep, RoutingStep, BookStep, PppoeUp, PppoeDown,
     AddLink, RemoveLink, kernel, reading, books

-----------------------------------------------------------------------------
(* The durations                                                           *)

\* Every step keeps the durations.
LEMMA NextDurations == ASSUME Types, Types', Durations, [Next]_vars PROVE Durations'
<1>0. config' = config /\ OwnClock' = OwnClock
  BY ConfigIsRigid DEF OwnClock, Used
<1>1. Present'
  <2>1. CASE KernelStep
    BY <1>0, <2>1 DEF KernelStep, Announce, reading, books, Durations, Present, Online,
       Types, KernelTypes
  <2>2. CASE ReadInfo
    BY <1>0, <2>2 DEF ReadInfo, Durations, Present, Online
  <2>3. CASE InfoChannel
    <3>1. /\ todo \in Channels /\ UNCHANGED <<line, snap>>
          /\ Absent(todo) \/ Ends(todo) \/ Begins(todo) \/ Stays(todo)
      BY <2>3, InfoCases DEF kernel
    <3>2. \A d \in Channels : d # todo => chan'[d] = chan[d]
      BY <3>1, InfoEffect
    <3>3. "driver" \notin config.faults => chan'[todo].active
      BY <3>1, InfoEffect DEF Absent, Durations, Present
    <3>4. QED
      BY <1>0, <3>1, <3>2, <3>3 DEF Durations, Present, Online
  <2>4. ASSUME UNCHANGED <<line, snap>>,
               \A c \in Channels : /\ chan[c].start = 0 <=> chan'[c].start = 0
                                   /\ chan'[c].active = chan[c].active
        PROVE  Present'
    BY <1>0, <2>4 DEF Durations, Present, Online
  <2>5. ASSUME NEW high \in BOOLEAN, NEW ok \in BOOLEAN, MeasureRates(high, ok) PROVE Present'
    BY <2>4, <2>5, ChannelFacts DEF MeasureRates, kernel, reading, Types, BookTypes,
       ChanType
  <2>6. ASSUME NEW i \in Slots, NEW w \in config.warps, AdjustTime(i, w) PROVE Present'
    BY <2>4, <2>6 DEF AdjustTime, Shifted, StartsInRange, kernel, reading, Types,
       BookTypes, ChanType
  <2>7. QED
    BY <2>1, <2>2, <2>3, <2>4, <2>5, <2>6, StepCases DEF ReadInfoFails, ClockStep, Tick,
       NextHour, ChronySteps, ClientStep, RoutingStep, BookStep, PppoeUp, PppoeDown,
       AddLink, RemoveLink, kernel, reading, books
<1>2. SessionTimeIsReal'
  <2> SUFFICES ASSUME OwnClock
               PROVE  /\ \A c \in Channels : chan'[c].start # 0 =>
                           now' - chan'[c].start = real' - chan'[c].begin
                      /\ pppoe'.start # 0 => now' - pppoe'.start = real' - pppoe'.begin
    BY <1>0 DEF SessionTimeIsReal, Online
  <2>0. /\ \A c \in Channels : chan[c].start # 0 => now - chan[c].start = real - chan[c].begin
        /\ pppoe.start # 0 => now - pppoe.start = real - pppoe.begin
    BY DEF Durations, SessionTimeIsReal, Online
  <2>1. /\ now \in Int /\ real \in Int /\ pppoe.start \in Int /\ pppoe.begin \in Int
        /\ \A c \in Channels : chan[c].start \in Int /\ chan[c].begin \in Int
    BY DEF Types, ClockTypes, BookTypes, PppoeType, ChanType
  <2>2. ASSUME ClockStep
        PROVE  UNCHANGED <<chan, pppoe>> /\ (UNCHANGED <<now, real>> \/ (now' = now + 1 /\ real' = real + 1))
    BY <2>2 DEF ClockStep, Tick, NextHour, ChronySteps, OwnClock, books
  <2>3. CASE ClockStep
    BY <2>0, <2>1, <2>2, <2>3
  <2>4. CASE InfoChannel
    <3>1. /\ todo \in Channels /\ UNCHANGED <<pppoe, now, real>>
          /\ Absent(todo) \/ Ends(todo) \/ Begins(todo) \/ Stays(todo)
      BY <2>4, InfoCases DEF clock
    <3>2. \A d \in Channels : d # todo => chan'[d] = chan[d]
      BY <3>1, InfoEffect
    <3>3. chan'[todo].start # 0 => now - chan'[todo].start = real - chan'[todo].begin
      BY <2>0, <2>1, <3>1, InfoEffect
    <3>4. QED
      BY <2>0, <3>1, <3>2, <3>3
  <2>5. ASSUME NEW high \in BOOLEAN, NEW ok \in BOOLEAN, MeasureRates(high, ok)
        PROVE  /\ UNCHANGED <<pppoe, now, real>>
               /\ \A c \in Channels : chan'[c].start = chan[c].start /\ chan'[c].begin = chan[c].begin
    BY <2>5, ChannelFacts DEF MeasureRates, clock, Types, BookTypes, ChanType
  <2>6. ASSUME NEW i \in Slots, PppoeUp(i)
        PROVE  UNCHANGED <<chan, now, real>> /\ pppoe'.start = now /\ pppoe'.begin = real
    BY <2>6, PppoeConfLine DEF PppoeUp, clock
  <2>7. ASSUME NEW i \in Slots, PppoeDown(i)
        PROVE  UNCHANGED <<chan, now, real>> /\ pppoe'.start = 0
    BY <2>7 DEF PppoeDown, clock, Types, BookTypes, PppoeType
  <2>8. ASSUME NEW i \in Slots, NEW w \in config.warps, AdjustTime(i, w)
        PROVE  /\ now' = now + w /\ real' = real /\ w \in Int
               /\ \A c \in Channels :
                    /\ chan'[c].begin = chan[c].begin
                    /\ chan'[c].start = IF chan[c].start # 0 THEN chan[c].start + w ELSE 0
               /\ pppoe'.begin = pppoe.begin
               /\ pppoe'.start = IF pppoe.start # 0 THEN pppoe.start + w ELSE 0
    <3>1. "driver" \notin config.faults
      BY <2>8 DEF AdjustTime, OwnClock
    <3>2. \A c \in Channels : chan[c].start # 0 => chan[c].active
      BY <3>1 DEF Durations, Present, Online
    <3>3. w \in Int /\ now' = now + w /\ real' = real
      BY <2>8, ConfigFacts DEF AdjustTime, OwnClock, Types
    <3>4. \A c \in Channels :
                    /\ chan'[c].begin = chan[c].begin
                    /\ chan'[c].start = IF chan[c].start # 0 THEN chan[c].start + w ELSE 0
      BY <2>8, <3>2 DEF AdjustTime, Shifted, Types, BookTypes, ChanType
    <3>5. /\ pppoe'.begin = pppoe.begin
          /\ pppoe'.start = IF pppoe.start # 0 THEN pppoe.start + w ELSE 0
      BY <2>8 DEF AdjustTime, Shifted, Types, BookTypes, PppoeType
    <3>6. QED
      BY <3>3, <3>4, <3>5
  <2>9. CASE UNCHANGED <<chan, pppoe, now, real>>
    BY <2>0, <2>9
  <2>10. CASE \E high, ok \in BOOLEAN : MeasureRates(high, ok)
    BY <2>0, <2>5, <2>10
  <2>11. CASE \E i \in Slots : PppoeUp(i) \/ PppoeDown(i)
    BY <2>0, <2>1, <2>6, <2>7, <2>11
  <2>12. ASSUME NEW i \in Slots, NEW w \in config.warps, AdjustTime(i, w)
         PROVE  /\ \A c \in Channels : chan'[c].start # 0 =>
                           now' - chan'[c].start = real' - chan'[c].begin
                /\ pppoe'.start # 0 => now' - pppoe'.start = real' - pppoe'.begin
    BY <2>0, <2>1, <2>8, <2>12
  <2>13. QED
    BY <2>3, <2>4, <2>9, <2>10, <2>11, <2>12, StepCases DEF KernelStep, Announce,
       ReadInfo, ReadInfoFails, ClientStep, RoutingStep, BookStep, AddLink, RemoveLink,
       books, clock
<1>3. QED
  BY <1>1, <1>2 DEF Durations

-----------------------------------------------------------------------------
(* The clients                                                             *)

\* Every step keeps password_state and what a client is entitled to together.
LEMMA NextClientele == ASSUME Types, Types', Clientele, [Next]_vars PROVE Clientele'
<1>0. /\ config' = config /\ PassRequired' = PassRequired /\ AdminPassRequired' = AdminPassRequired
  BY ConfigIsRigid DEF PassRequired, AdminPassRequired
<1>1. ASSUME NEW local \in BOOLEAN, Accept(local) PROVE Clientele'
  <2> DEFINE i == First({j \in Slots : ~client[j].fd})
  <2>1. client' = [client EXCEPT ![i] =
               [fd |-> TRUE, local |-> local, state |-> InitialState(i, local),
                salt |-> FALSE, entered |-> {}]]
    BY <1>1 DEF Accept
  <2>2. InitialState(i, local) = IF local \/ (~PassRequired /\ ~AdminPassRequired) THEN {"normal", "admin"}
                                 ELSE IF PassRequired THEN {} ELSE {"normal"}
    BY DEF InitialState
  <2> HIDE DEF i
  <2>3. QED
    BY <1>0, <2>1, <2>2 DEF Clientele, Entitled, IsUser, IsAdmin, Types
<1>2. ASSUME NEW i \in Slots, Disconnect(i) \/ WriteFails(i) \/ Salt(i) PROVE Clientele'
  BY <1>0, <1>2 DEF Disconnect, WriteFails, Salt, Clientele, Entitled, IsUser, IsAdmin,
     Types, ClientType
<1>3. ASSUME NEW i \in Slots, NEW p \in config.passwords, Pass(i, p) PROVE Clientele'
  <2>1. p \in {"user", "admin"}
    BY ConfigFacts DEF Types
  <2>2. /\ client'[i].fd = client[i].fd /\ client'[i].local = client[i].local
        /\ client'[i].state = client[i].state \cup Granted(p)
        /\ client'[i].entered = client[i].entered \cup {p}
        /\ \A j \in Slots \ {i} : client'[j] = client[j]
    BY <1>3 DEF Pass, Types, ClientType
  <2>3. "admin" \in Granted(p) => p = "admin" \/ ~AdminPassRequired
    BY <2>1 DEF Granted
  <2>4. QED
    BY <1>0, <2>2, <2>3 DEF Clientele, Entitled, IsUser, IsAdmin
<1>4. CASE UNCHANGED client
  BY <1>0, <1>4 DEF Clientele, Entitled, IsUser, IsAdmin
<1>5. QED
  BY <1>1, <1>2, <1>3, <1>4 DEF Next, Kernel, Daemon, Clients, Command, vars, Call,
     Connect, Release, Unload, Load, Announce, ReadInfo, ReadInfoFails, InfoChannel,
     MeasureRates, PollRouting, Tick, NextHour, ChronySteps, Md5pass, SetDialmode, Route,
     Reboot, PppoeUp, PppoeDown, AddLink, RemoveLink, AdjustTime

\* A command that changes the dial mode, the route or the PPPoE line is rightful.
LEMMA NextRightful == ASSUME Types, Clientele, [Next]_vars PROVE [Rightful]_vars
<1>1. ASSUME NEW i \in Slots, Admitted(i) PROVE IsUser(i)
  BY <1>1 DEF Admitted, Clientele, Entitled, IsUser
<1>2. ASSUME NEW i \in Slots, NEW right, May(i, right) PROVE HasRight(i, right)
  BY <1>1, <1>2 DEF May, Admitted, HasRight, Clientele, Entitled
<1>3. ASSUME NEW i \in Slots, Administers(i) PROVE IsAdmin(i)
  BY <1>1, <1>3 DEF Administers, Admitted, Clientele, Entitled, IsAdmin
<1>4. ASSUME NEW i \in Slots, Command(i) PROVE Rightful
  <2>1. ASSUME NEW m, SetDialmode(i, m) PROVE Rightful
    BY <1>2, <2>1 DEF SetDialmode, Rightful, books
  <2>2. ASSUME NEW k, Route(i, k) PROVE Rightful
    BY <1>2, <2>2 DEF Route, Rightful, books
  <2>3. ASSUME Reboot(i) PROVE Rightful
    BY <1>2, <2>3 DEF Reboot, Rightful, books
  <2>4. ASSUME PppoeUp(i) \/ PppoeDown(i) \/ \E w \in config.warps : AdjustTime(i, w) PROVE Rightful
    BY <1>3, <2>4 DEF PppoeUp, PppoeDown, AdjustTime, Rightful, routing
  <2>5. CASE UNCHANGED <<dialmode, route_idx, pppoe>>
    BY <2>5 DEF Rightful
  <2>6. QED
    BY <1>4, <2>1, <2>2, <2>3, <2>4, <2>5 DEF Command, AddLink, RemoveLink, books, routing
<1>5. CASE UNCHANGED <<dialmode, route_idx, pppoe>>
  BY <1>5 DEF Rightful
<1>6. QED
  BY <1>4, <1>5 DEF Next, Kernel, Daemon, Clients, vars, Call, Connect, Release, Unload,
     Load, Announce, ReadInfo, ReadInfoFails, InfoChannel, MeasureRates, PollRouting,
     Tick, NextHour, ChronySteps, Accept, Disconnect, WriteFails, Pass, Salt, Md5pass,
     books, routing

-----------------------------------------------------------------------------
\* The inductive invariant is an invariant.
LEMMA InvIInv == Spec => []IInv
<1>1. IInv /\ [Next]_vars => IInv'
  BY NextTypes, NextBooks, NextView, NextDurations, NextClientele DEF IInv
<1>2. QED
  BY <1>1, InitIInv, PTL DEF Spec

\* online_counter is the number of connections and the LED is lit exactly while
\* there is one, for any number of channels and whatever is missed between two
\* snapshots.
THEOREM CountersAreRight == Spec => []OnlineCountIsRight
<1>1. IInv => OnlineCountIsRight
  BY DEF IInv, Books
<1>2. QED
  BY <1>1, InvIInv, PTL

\* A circuit is marked online exactly if one channel is booked to it, and links
\* are recorded only for circuits that are online.
THEOREM CircuitsAreRight == Spec => []CircuitOnlineMatches
<1>1. IInv => CircuitOnlineMatches
  BY DEF IInv, Books
<1>2. QED
  BY <1>1, InvIInv, PTL

\* When read_info is done and there is no news, imond sees what the kernel sees.
THEOREM ViewIsRight == Spec => []ViewIsCurrent
<1>1. IInv => ViewIsCurrent
  BY DEF IInv, View
<1>2. QED
  BY <1>1, InvIInv, PTL

\* Durations are the time that has passed, across changes of the clock by imond.
THEOREM DurationsAreRight == Spec => []SessionTimeIsReal
<1>1. IInv => SessionTimeIsReal
  BY DEF IInv, Durations
<1>2. QED
  BY <1>1, InvIInv, PTL

\* No command changes the dial mode, the route or the PPPoE line without the
\* rights given to everybody or to who has given the passwords in this connection.
THEOREM RightsAreKept == Spec => CommandsNeedRights
<1>1. IInv /\ [Next]_vars => [Rightful]_vars
  BY NextRightful DEF IInv
<1>2. QED
  BY <1>1, InvIInv, PTL DEF Spec, CommandsNeedRights
=============================================================================
