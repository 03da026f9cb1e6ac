------------------------------- MODULE Imond -------------------------------
(***************************************************************************)
(* imond, the daemon that watches the ISDN channels and the PPPoE line,    *)
(* keeps the books about connections, selects the default route by the     *)
(* hour (least cost routing) and serves its clients over TCP.              *)
(*                                                                         *)
(* imond is one process around select().  A pass of its loop that finds    *)
(* /dev/isdninfo readable reads a snapshot of all channels and works       *)
(* through it, while the kernel goes on; a pass that does not may call     *)
(* check_routing; and every pass serves the clients that have sent a line. *)
(* Each of these is a step here; the snapshot is processed channel by      *)
(* channel because the code asks the kernel again in between.              *)
(*                                                                         *)
(* Circuits and conf lines are numbered from 1 (0: none), channel 1 is the *)
(* code's channel 0.  Beeps, log files, byte counters, charges, file       *)
(* transfer and the scripts for raw connections change nothing that is     *)
(* modelled.                                                               *)
(***************************************************************************)
EXTENDS Integers, Sequences, FiniteSets

CONSTANTS
    Channels,    \* 1..n: the ISDN channels of /dev/isdninfo (ISDN_MAX_CHANNELS)
    Slots,       \* 1..n: the slots for clients (MAX_CLIENTS)
    Configs      \* the configurations and environments that are explored

\* A line of imond.conf
ConfLine ==
    [circuit : Nat \ {0}, is_pppoe : BOOLEAN, outgoing : SUBSET STRING, incoming : SUBSET STRING,
     hours : SUBSET Nat, lcr : BOOLEAN]

ASSUME ChannelsAssumption ==
    IsFiniteSet(Channels) /\ Channels = 1 .. Cardinality(Channels) /\ Channels # {}
ASSUME SlotsAssumption == IsFiniteSet(Slots) /\ Slots = 1 .. Cardinality(Slots)
ASSUME ConfigAssumption ==
    \A cf \in Configs :
        /\ cf.conf \in Seq(ConfLine) /\ cf.conf # << >>
        /\ cf.bundling \subseteq {cf.conf[i].circuit : i \in DOMAIN cf.conf}
        /\ cf.passwords \subseteq {"user", "admin"}
        /\ cf.warps \subseteq Int /\ cf.time \in Nat

VARIABLES
    config,              \* the configuration, chosen once
    line,                \* kernel: the state of each channel
    ready,               \* kernel: /dev/isdninfo has news for imond
    calls,               \* kernel: calls made so far, bounded by config.calls
    snap,                \* read_info: the snapshot it works through
    todo,                \* read_info: the next channel, 0 while in select()
    chan,                \* infos[]
    circ,                \* circuits[]
    pppoe,               \* pppoe_infos
    n_active_channels,
    online_counter,
    led,                 \* the LED is lit (led_fd >= 0)
    dialmode,
    route_idx,
    default_device,      \* the circuit of the default route
    hour,                \* the tariff hour of the clock
    now,                 \* the clock of the router
    real,                \* the time that has really passed (history)
    warp,                \* a change of the clock imond has not heard of yet
    client               \* the clients: client_fd[], password_state[], ...

kernel   == <<line, ready, calls>>
reading  == <<snap, todo>>
books    == <<chan, circ, pppoe, n_active_channels, online_counter, led>>
routing  == <<dialmode, route_idx, default_device>>
clock    == <<hour, now, real, warp>>
vars == <<config, kernel, reading, books, routing, clock, client>>

-----------------------------------------------------------------------------
(***************************************************************************)
(* The configuration.                                                      *)
(*   conf         the lines of imond.conf: circuit, is_pppoe, outgoing and *)
(*                incoming phone numbers, hours, is_lcr                    *)
(*   phone        the number a circuit calls and is called from            *)
(*   bundling     the circuits with a second device                        *)
(*   bandwidth    bandwidth_time, -1: never add a link                     *)
(*   passwords    the passwords that are set: "user", "admin"              *)
(*   rights       what IMOND_ENABLE, _ROUTE and _REBOOT allow every user   *)
(*   commands     the commands clients use; remote: clients from the LAN   *)
(*   calls, hours, time   bounds: calls, hours of the tariff, clock        *)
(*                (ClockRange, StartsInRange)                              *)
(*   warps        the changes of the clock; chrony: made by chrony         *)
(*   clients      bound: clients at a time                                 *)
(*   faults       "driver": drivers may be unloaded, "read", "write": reads *)
(*                of the device and answers to clients may fail            *)
(***************************************************************************)
ConfLines == DOMAIN config.conf
Circuits == {config.conf[i].circuit : i \in ConfLines}
CircuitOf(i) == IF i = 0 THEN 0 ELSE config.conf[i].circuit     \* CONF_CIRCUIT_IDX

First(S) == IF S = {} THEN 0 ELSE CHOOSE i \in S : \A j \in S : i <= j

\* The default circuit of the hour.
find_circuit ==
    CircuitOf(First({i \in ConfLines : hour \in config.conf[i].hours /\ config.conf[i].lcr}))

Target(r) == IF r # 0 THEN r ELSE find_circuit

-----------------------------------------------------------------------------
(***************************************************************************)
(* The kernel (isdn4linux): calls come and go, every change is announced   *)
(* on /dev/isdninfo.  circ is 0 for a call that is not for the network.    *)
(***************************************************************************)
IdleLine == [st |-> "idle", circ |-> 0, out |-> FALSE, slave |-> FALSE]

\* A device is connected (ioctl IIOCNETGPN).
circuit_device_online(k) ==
    \E d \in Channels : line[d].st = "online" /\ line[d].circ = k /\ ~line[d].slave

Dialled(k, slave) ==
    \E d \in Channels : line[d].circ = k /\ line[d].slave = slave /\ line[d].st # "absent"

Announce(c, l) ==
    /\ line' = [line EXCEPT ![c] = l]
    /\ ready' = TRUE
    /\ UNCHANGED <<config, reading, books, routing, clock, client>>

Call(c, k, out, slave) ==
    /\ line[c].st = "idle" /\ calls < config.calls
    /\ k # 0 => ~Dialled(k, slave)
    /\ slave => k \in config.bundling /\ circ[k].link = 1 /\ circuit_device_online(k)
    /\ calls' = calls + 1
    /\ Announce(c, [st |-> "calling", circ |-> k, out |-> out, slave |-> slave])

Connect(c) ==
    /\ line[c].st = "calling"
    /\ Announce(c, [line[c] EXCEPT !.st = "online"]) /\ UNCHANGED calls

Release(c) ==
    /\ line[c].st \in {"calling", "online"}
    /\ Announce(c, IdleLine) /\ UNCHANGED calls

\* The driver of a channel is unloaded, or loaded again.
Unload(c) ==
    /\ "driver" \in config.faults /\ line[c].st # "absent"
    /\ Announce(c, [IdleLine EXCEPT !.st = "absent"]) /\ UNCHANGED calls

Load(c) ==
    /\ line[c].st = "absent"
    /\ Announce(c, IdleLine) /\ UNCHANGED calls

-----------------------------------------------------------------------------
(***************************************************************************)
(* read_info.                                                              *)
(***************************************************************************)
Selecting == todo = 0

ReadInfo ==
    /\ Selecting /\ ready
    /\ snap' = line /\ todo' = 1 /\ ready' = FALSE
    /\ n_active_channels' = 0
    /\ UNCHANGED <<config, line, calls, chan, circ, pppoe, online_counter, led,
                   routing, clock, client>>

\* The read fails, the device stays readable.  (isdn4linux writes the six lines
\* that sgets expects, so that a read that succeeds is worked through.)
ReadInfoFails ==
    /\ Selecting /\ ready /\ "read" \in config.faults
    /\ n_active_channels' = 0
    /\ UNCHANGED <<config, kernel, reading, chan, circ, pppoe, online_counter, led,
                   routing, clock, client>>

\* The conf line of a new connection: the first that fits its number (and the
\* hour, if the call is outgoing) and whose circuit was offline and is online.
find_conf_data(phone, out) ==
    First({i \in ConfLines :
        LET l == config.conf[i]
        IN  /\ ~l.is_pppoe
            /\ IF out THEN hour \in l.hours /\ phone \in l.outgoing ELSE phone \in l.incoming
            /\ ~circ[l.circuit].online
            /\ circuit_device_online(l.circuit)})

WentOnline ==
    /\ online_counter' = online_counter + 1
    /\ led' = TRUE

WentOffline ==
    /\ online_counter' = IF online_counter > 0 THEN online_counter - 1 ELSE 0
    /\ led' = (led /\ online_counter' > 0)

NewConnection(c) ==
    LET i == find_conf_data(config.phone[snap[c].circ], snap[c].out)
    IN  /\ chan' = [chan EXCEPT ![c].active = TRUE, ![c].start = now, ![c].begin = real,
                                ![c].conf = i, ![c].out = snap[c].out]
        /\ circ' = IF i = 0 THEN circ ELSE [circ EXCEPT ![CircuitOf(i)].online = TRUE]
        /\ WentOnline

\* Mutant: the circuit of a connection that ends stays marked as online.
HungUp_KeepsCircuit(c) ==
    /\ chan' = [chan EXCEPT ![c].active = TRUE, ![c].start = 0, ![c].begin = 0,
                            ![c].highSince = 0]
    /\ UNCHANGED circ
    /\ WentOffline

HungUp(c) ==
    LET k == CircuitOf(chan[c].conf)
    IN  /\ chan' = [chan EXCEPT ![c].active = TRUE, ![c].start = 0, ![c].begin = 0,
                                ![c].highSince = 0]
        /\ circ' = IF k = 0 THEN circ
                   ELSE [circ EXCEPT ![k].online = FALSE, ![k].link = 0]
        /\ WentOffline

\* Mutant: a channel that redials before its end was seen is not hung up.
SeesHangup_OnlyIdle(c) == chan[c].start # 0 /\ snap[c].st = "idle"

SeesHangup(c) == chan[c].start # 0 /\ snap[c].st # "online"

InfoChannel ==
    LET c == todo
    IN  /\ ~Selecting
        /\ todo' = IF c + 1 \in Channels THEN c + 1 ELSE 0
        /\ IF snap[c].st = "absent"
           THEN /\ chan' = [chan EXCEPT ![c].active = FALSE]
                /\ UNCHANGED <<n_active_channels, circ, online_counter, led>>
           ELSE /\ n_active_channels' = n_active_channels + 1
                /\ \/ SeesHangup(c) /\ HungUp(c)
                   \/ chan[c].start = 0 /\ snap[c].st = "online" /\ NewConnection(c)
                   \/ /\ ~SeesHangup(c) /\ ~(chan[c].start = 0 /\ snap[c].st = "online")
                      /\ chan' = [chan EXCEPT ![c].active = TRUE]
                      /\ UNCHANGED <<circ, online_counter, led>>
        /\ UNCHANGED <<config, kernel, snap, pppoe, routing, clock, client>>

-----------------------------------------------------------------------------
(***************************************************************************)
(* measure_isdn_rates: links are added and removed by the load of channel  *)
(* 0 of the code.  high: the rate is at least bandwidth_rate; ok: fli4lctrl*)
(* succeeds.  For a connection without conf line the code looks at         *)
(* circuits[-1], which is outside of what is modelled.                     *)
(***************************************************************************)
addlink(k, ok) == IF ok THEN [circ EXCEPT ![k].link = @ + 1] ELSE circ
removelink(k, ok) == IF ok THEN [circ EXCEPT ![k].link = @ - 1] ELSE circ

MeasureRates(high, ok) ==
    LET c == 1
        k == CircuitOf(chan[c].conf)
        up == chan[c].timeHigher
        down == chan[c].timeLower
    IN  /\ Selecting
        /\ chan[c].active /\ chan[c].start > 0
        /\ k \in config.bundling /\ config.bandwidth >= 0
        /\ chan' = [chan EXCEPT
               ![c].timeHigher = IF ~high THEN 0 ELSE IF up = 0 THEN now ELSE up,
               ![c].timeLower  = IF high THEN 0 ELSE IF down = 0 THEN now ELSE down,
               ![c].highSince  = IF ~high THEN 0 ELSE IF @ = 0 THEN now ELSE @]
        /\ circ' = CASE high /\ up # 0 /\ circ[k].link = 0 /\ now - up >= config.bandwidth ->
                            addlink(k, ok)
                     [] ~high /\ down # 0 /\ circ[k].link > 0 /\ now - down >= config.bandwidth ->
                            removelink(k, ok)
                     [] OTHER -> circ
        /\ UNCHANGED <<config, kernel, reading, pppoe, n_active_channels, online_counter, led,
                       routing, clock, client>>

-----------------------------------------------------------------------------
(***************************************************************************)
(* check_routing with automatic routing or the circuit r, and the clock.   *)
(***************************************************************************)
check_routing(r) == default_device' = Target(r)

\* Mutant: the route is only checked in passes that serve a client.
PollRouting_NoTimeout ==
    /\ Selecting /\ ~ready /\ \E i \in Slots : client[i].fd
    /\ check_routing(route_idx)
    /\ UNCHANGED <<config, kernel, reading, books, dialmode, route_idx, clock, client>>

\* The timeout of select(), or a pass for clients ten seconds after the last
\* check.  A pass that finds /dev/isdninfo readable does not get here.
PollRouting ==
    /\ Selecting /\ ~ready
    /\ check_routing(route_idx)
    /\ UNCHANGED <<config, kernel, reading, books, dialmode, route_idx, clock, client>>

ClockRange == 9 .. (11 + config.time)

Tick ==
    /\ real < config.time
    /\ now' = now + 1 /\ real' = real + 1
    /\ UNCHANGED <<config, kernel, reading, books, routing, hour, warp, client>>

NextHour ==
    /\ hour < config.hours /\ hour' = hour + 1
    /\ UNCHANGED <<config, kernel, reading, books, routing, now, real, warp, client>>

\* chrony has set the clock and will tell imond (adjust-time with argument 1).
ChronySteps(w) ==
    /\ config.chrony /\ warp = 0
    /\ now' = now + w /\ warp' = w /\ now' \in ClockRange
    /\ UNCHANGED <<config, kernel, reading, books, routing, hour, real, client>>

-----------------------------------------------------------------------------
(***************************************************************************)
(* Clients.  entered (history): the passwords this connection has given.   *)
(***************************************************************************)
NoClient == [fd |-> FALSE, local |-> FALSE, state |-> {}, salt |-> FALSE, entered |-> {}]

PassRequired == "user" \in config.passwords
AdminPassRequired == "admin" \in config.passwords

\* Mutant: the slot's password_state is not cleared.
InitialState_Kept(i, local) ==
    CASE local -> {"normal", "admin"}
      [] ~local /\ PassRequired -> client[i].state
      [] ~local /\ ~PassRequired /\ AdminPassRequired -> client[i].state \cup {"normal"}
      [] OTHER -> {"normal", "admin"}

InitialState(i, local) ==
    CASE local -> {"normal", "admin"}
      [] ~local /\ PassRequired -> {}
      [] ~local /\ ~PassRequired /\ AdminPassRequired -> {"normal"}
      [] OTHER -> {"normal", "admin"}

\* The first free slot takes the connection; without one it is closed.
Accept(local) ==
    LET i == First({j \in Slots : ~client[j].fd})
    IN  /\ Selecting /\ i \in 1 .. config.clients
        /\ ~local => config.remote
        /\ client' = [client EXCEPT ![i] =
               [fd |-> TRUE, local |-> local, state |-> InitialState(i, local),
                salt |-> FALSE, entered |-> {}]]
        /\ UNCHANGED <<config, kernel, reading, books, routing, clock>>

\* quit, or the client has closed the connection (read_line fails).
Disconnect(i) ==
    /\ Selecting /\ client[i].fd
    /\ client' = [client EXCEPT ![i].fd = FALSE, ![i].state = {}]
    /\ UNCHANGED <<config, kernel, reading, books, routing, clock>>

\* The answer cannot be written: only the descriptor is closed.
WriteFails(i) ==
    /\ Selecting /\ client[i].fd /\ "write" \in config.faults
    /\ client' = [client EXCEPT ![i].fd = FALSE]
    /\ UNCHANGED <<config, kernel, reading, books, routing, clock>>

\* What a right password adds to password_state.
Granted(p) ==
    CASE p = "admin" -> {"normal", "admin"}
      [] p = "user" /\ AdminPassRequired -> {"normal"}
      [] OTHER -> {"normal", "admin"}

Pass(i, p) ==
    /\ Selecting /\ client[i].fd
    /\ client' = [client EXCEPT ![i].state = @ \cup Granted(p), ![i].entered = @ \cup {p}]
    /\ UNCHANGED <<config, kernel, reading, books, routing, clock>>

Salt(i) ==
    /\ Selecting /\ client[i].fd
    /\ client' = [client EXCEPT ![i].salt = TRUE]
    /\ UNCHANGED <<config, kernel, reading, books, routing, clock>>

\* The digest is right for the salt this connection was given last.
Md5pass(i, p) == client[i].salt /\ Pass(i, p)

-----------------------------------------------------------------------------
(***************************************************************************)
(* Commands.  Admitted: the password gate of print_status; May: the right  *)
(* is given to every user or the client is an administrator; Administers:  *)
(* the gate before the administrative commands.                            *)
(***************************************************************************)
Admitted(i) ==
    Selecting /\ client[i].fd /\ (PassRequired => "normal" \in client[i].state)
May(i, right) == Admitted(i) /\ ("admin" \in client[i].state \/ right \in config.rights)

Administers(i) ==
    Admitted(i) /\ (AdminPassRequired => "admin" \in client[i].state)

Used(command) == command \in config.commands

\* dialmode, enable, disable.
SetDialmode(i, mode) ==
    /\ Used("dialmode") /\ May(i, "enable")
    /\ dialmode' = mode
    /\ UNCHANGED <<config, kernel, reading, books, route_idx, default_device, clock, client>>

Route(i, k) ==
    /\ Used("route") /\ May(i, "route")
    /\ route_idx' = k
    /\ check_routing(k)
    /\ UNCHANGED <<config, kernel, reading, books, dialmode, clock, client>>

\* reboot, halt, poweroff: the router goes down afterwards.
Reboot(i) ==
    /\ Used("reboot") /\ May(i, "reboot")
    /\ dialmode' = "off"
    /\ UNCHANGED <<config, kernel, reading, books, route_idx, default_device, clock, client>>

\* set_status: pppoe up; down and restart.
PppoeUp(i) ==
    /\ Used("set-status") /\ Administers(i) /\ pppoe.start = 0
    /\ pppoe' = [start |-> now, begin |-> real,
                 conf |-> First({j \in ConfLines : config.conf[j].is_pppoe
                                                   /\ hour \in config.conf[j].hours})]
    /\ WentOnline
    /\ UNCHANGED <<config, kernel, reading, chan, circ, n_active_channels, routing,
                   clock, client>>

\* Mutant: a second report that the line is down is counted again.
PppoeDown_Twice(i) ==
    /\ Used("set-status") /\ Administers(i)
    /\ pppoe' = [pppoe EXCEPT !.start = 0, !.begin = 0] /\ WentOffline
    /\ check_routing(route_idx)
    /\ UNCHANGED <<config, kernel, reading, chan, circ, n_active_channels,
                   dialmode, route_idx, clock, client>>

PppoeDown(i) ==
    /\ Used("set-status") /\ Administers(i)
    /\ IF pppoe.start # 0
       THEN pppoe' = [pppoe EXCEPT !.start = 0, !.begin = 0] /\ WentOffline
       ELSE UNCHANGED <<pppoe, online_counter, led>>
    /\ check_routing(route_idx)
    /\ UNCHANGED <<config, kernel, reading, chan, circ, n_active_channels,
                   dialmode, route_idx, clock, client>>

\* find_channel_idx_by_circuit_idx: stops after n_active_channels active ones.
find_channel(k) ==
    First({c \in Channels :
        /\ chan[c].active /\ chan[c].start # 0 /\ k # 0 /\ CircuitOf(chan[c].conf) = k
        /\ \/ c = First({d \in Channels : chan[d].active})
           \/ Cardinality({d \in Channels : d < c /\ chan[d].active}) < n_active_channels})

AddLink(i, k, ok) ==
    /\ Used("addlink") /\ Administers(i)
    /\ find_channel(k) # 0 /\ k \in config.bundling /\ circ[k].link = 0
    /\ circ' = addlink(k, ok)
    /\ UNCHANGED <<config, kernel, reading, chan, pppoe, n_active_channels, online_counter, led,
                   routing, clock, client>>

RemoveLink(i, k, ok) ==
    /\ Used("addlink") /\ Administers(i)
    /\ find_channel(k) # 0 /\ k \in config.bundling /\ circ[k].link = 1
    /\ circ' = removelink(k, ok)
    /\ UNCHANGED <<config, kernel, reading, chan, pppoe, n_active_channels, online_counter, led,
                   routing, clock, client>>

\* Mutant: the PPPoE connection is forgotten when the clock is changed.
Shifted_NoPppoe(w) ==
    /\ chan' = [c \in Channels |->
           IF chan[c].active /\ chan[c].start # 0
           THEN [chan[c] EXCEPT !.start = @ + w] ELSE chan[c]]
    /\ UNCHANGED pppoe

\* The start times of the connections follow a change of the clock.
Shifted(w) ==
    /\ chan' = [c \in Channels |->
           IF chan[c].active /\ chan[c].start # 0
           THEN [chan[c] EXCEPT !.start = @ + w] ELSE chan[c]]
    /\ pppoe' = IF pppoe.start # 0 THEN [pppoe EXCEPT !.start = @ + w] ELSE pppoe

\* Bound: the clock shows seconds since 1970, and no change of it takes the
\* start of a connection back to 0 or before.
StartsInRange ==
    /\ \A c \in Channels : chan[c].start # 0 => chan'[c].start > 0
    /\ pppoe.start # 0 => pppoe'.start > 0

\* adjust-time; with argument 1 somebody else has set the clock.
AdjustTime(i, w) ==
    /\ Used("adjust-time") /\ Administers(i)
    /\ IF config.chrony THEN warp = w /\ warp' = 0 /\ UNCHANGED now
                        ELSE now' = now + w /\ UNCHANGED warp
    /\ now' \in ClockRange
    /\ Shifted(w) /\ StartsInRange
    /\ UNCHANGED <<config, kernel, reading, circ, n_active_channels, online_counter, led,
                   routing, hour, real, client>>

Command(i) ==
    \/ \E m \in {"off", "auto", "manual"} : SetDialmode(i, m)
    \/ \E k \in Circuits \cup {0} : Route(i, k)
    \/ Reboot(i)
    \/ PppoeUp(i)
    \/ PppoeDown(i)
    \/ \E k \in Circuits, ok \in BOOLEAN : AddLink(i, k, ok)
    \/ \E k \in Circuits, ok \in BOOLEAN : RemoveLink(i, k, ok)
    \/ \E w \in config.warps : AdjustTime(i, w)

-----------------------------------------------------------------------------
NewChannel == [active |-> FALSE, start |-> 0, conf |-> 1, out |-> FALSE,
               timeHigher |-> 0, timeLower |-> 0, begin |-> 0, highSince |-> 0]

\* After read_config and the first check_routing of main.
Init ==
    /\ config \in Configs
    /\ line = [c \in Channels |-> IdleLine] /\ ready = TRUE /\ calls = 0
    /\ snap = line /\ todo = 0
    /\ chan = [c \in Channels |-> NewChannel]
    /\ circ = [k \in Circuits |-> [online |-> FALSE, link |-> 0]]
    /\ pppoe = [start |-> 0, begin |-> 0, conf |-> 1]
    /\ n_active_channels = 0 /\ online_counter = 0 /\ led = FALSE
    /\ dialmode = "auto" /\ route_idx = 0
    /\ hour = 1 /\ now = 10 /\ real = 0 /\ warp = 0
    /\ default_device = find_circuit
    /\ client = [i \in Slots |-> NoClient]

Kernel ==
    \/ \E c \in Channels, k \in Circuits \cup {0}, out \in BOOLEAN : Call(c, k, out, FALSE)
    \/ \E c \in Channels, k \in Circuits : Call(c, k, TRUE, TRUE)
    \/ \E c \in Channels : Connect(c) \/ Release(c) \/ Unload(c) \/ Load(c)

Clients ==
    \/ \E local \in BOOLEAN : Accept(local)
    \/ \E i \in Slots : Disconnect(i) \/ WriteFails(i) \/ Salt(i) \/ Command(i)
    \/ \E i \in Slots, p \in config.passwords : Pass(i, p) \/ Md5pass(i, p)

Daemon == ReadInfo \/ InfoChannel \/ PollRouting

Next ==
    \/ Kernel
    \/ Daemon
    \/ ReadInfoFails
    \/ \E high, ok \in BOOLEAN : MeasureRates(high, ok)
    \/ Tick \/ NextHour \/ \E w \in config.warps : ChronySteps(w)
    \/ Clients

Spec == Init /\ [][Next]_vars
FairSpec ==
    Spec /\ WF_vars(ReadInfo) /\ WF_vars(InfoChannel) /\ WF_vars(PollRouting)

-----------------------------------------------------------------------------
Online(c) == chan[c].start # 0

(***************************************************************************)
(* online_counter is the number of connections imond knows, over ISDN and  *)
(* PPPoE and across calls that end while others begin, channels that       *)
(* disappear and repeated reports of ip-up and ip-down, and the LED is lit *)
(* exactly while there is one.                                             *)
(***************************************************************************)
OnlineCountIsRight ==
    /\ online_counter = Cardinality({c \in Channels : Online(c)})
                        + (IF pppoe.start # 0 THEN 1 ELSE 0)
    /\ led <=> online_counter > 0

(***************************************************************************)
(* A circuit is marked online exactly if one channel is booked to it, never*)
(* two, though circuits share numbers, links are bundled and the kernel is *)
(* asked about the device after the snapshot was taken; and a link is only *)
(* recorded as added to a circuit that is online.                          *)
(***************************************************************************)
CircuitOnlineMatches ==
    \A k \in Circuits :
        /\ Cardinality({c \in Channels : Online(c) /\ CircuitOf(chan[c].conf) = k})
             = IF circ[k].online THEN 1 ELSE 0
        /\ circ[k].link \in 0 .. 1
        /\ circ[k].link = 1 => circ[k].online

(***************************************************************************)
(* When read_info is done and the kernel has announced nothing since,      *)
(* imond's view is the kernel's: which channels exist and which of them    *)
(* are online, whatever changed while the snapshot was worked through.     *)
(***************************************************************************)
ViewIsCurrent ==
    Selecting /\ ~ready =>
        \A c \in Channels :
            /\ chan[c].active <=> line[c].st # "absent"
            /\ chan[c].active => (Online(c) <=> line[c].st = "online")

\* imond sets the clock itself, and no channel disappears meanwhile.
OwnClock == ~config.chrony /\ ("driver" \in config.faults => ~Used("adjust-time"))

(***************************************************************************)
(* The duration imond computes for a connection (now - online_start, by    *)
(* which it is logged and charged) is the time that has really passed,     *)
(* also across adjust-time, if imond sets the clock itself.  adjust-time   *)
(* passes over a channel that has disappeared, whose online_start is then  *)
(* wrong; so those changes are left out.                                   *)
(***************************************************************************)
SessionTimeIsReal ==
    OwnClock =>
        /\ \A c \in Channels : Online(c) => now - chan[c].start = real - chan[c].begin
        /\ pppoe.start # 0 => now - pppoe.start = real - pppoe.begin

(***************************************************************************)
(* The dial mode, the route and the state of the PPPoE line are changed by *)
(* commands only while a client is connected that is local or has given    *)
(* the passwords that are set for it, in this connection and not in an     *)
(* earlier one of the same slot (password_state).                          *)
(***************************************************************************)
IsUser(i) ==
    client[i].fd /\ (client[i].local \/ ~PassRequired \/ client[i].entered # {})
IsAdmin(i) ==
    IsUser(i) /\ (client[i].local \/ ~AdminPassRequired \/ "admin" \in client[i].entered)
HasRight(i, right) == IsUser(i) /\ (IsAdmin(i) \/ right \in config.rights)

Rightful ==
    /\ dialmode' # dialmode =>
         \E i \in Slots : HasRight(i, "enable") \/ HasRight(i, "reboot")
    /\ route_idx' # route_idx => \E i \in Slots : HasRight(i, "route")
    /\ pppoe' # pppoe => \E i \in Slots : IsAdmin(i)

CommandsNeedRights == [][Rightful]_vars

(***************************************************************************)
(* The default route ends up at the circuit of the current hour, or at the *)
(* one set by command route, once the hour stays: no pass of the loop that *)
(* is spent on the ISDN channels or on clients loses the check.            *)
(***************************************************************************)
RouteFollowsTimetable == <>[](default_device = Target(route_idx))

(***************************************************************************)
(* The comment of measure_isdn_rates: with a bandwidth_time of 30 "add/    *)
(* remove link after 30 seconds", that is, after the rate of this          *)
(* connection has been high for that long.                                 *)
(***************************************************************************)
LinkAfterBandwidthTime ==
    [][\A k \in Circuits : circ[k].link = 0 /\ circ'[k].link = 1 =>
           chan[1].highSince # 0 /\ now - chan[1].highSince >= config.bandwidth]_vars
=============================================================================
