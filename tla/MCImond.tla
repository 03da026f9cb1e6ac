------------------------------ MODULE MCImond ------------------------------
EXTENDS Imond

Line(circuit, is_pppoe, numbers, hours, lcr) ==
    [circuit |-> circuit, is_pppoe |-> is_pppoe, outgoing |-> numbers,
     incoming |-> numbers, hours |-> hours, lcr |-> lcr]

\* Circuit 1 on ISDN by day, circuit 2 on PPPoE by night; nothing happens.
Quiet ==
    [conf |-> <<Line(1, FALSE, {"a"}, {1, 3}, TRUE), Line(2, TRUE, {}, {2}, TRUE)>>,
     phone |-> [k \in 0 .. 2 |-> <<"x", "a", "a">>[k + 1]],
     bundling |-> {}, bandwidth |-> -1, passwords |-> {}, rights |-> {}, commands |-> {},
     remote |-> FALSE, calls |-> 0, hours |-> 1, time |-> 0, warps |-> {}, chrony |-> FALSE,
     clients |-> 0, faults |-> {}]

\* Two circuits with the same number, one of them with two devices; calls
\* overlap, links are added by command, a driver may be unloaded.
CallsConfig ==
    [Quiet EXCEPT !.conf = <<Line(1, FALSE, {"a"}, {1}, TRUE), Line(2, FALSE, {"a"}, {1}, FALSE)>>,
                  !.calls = 3]
BundleConfig ==
    [CallsConfig EXCEPT !.bundling = {1}, !.calls = 2, !.commands = {"addlink"}, !.clients = 1]
DriverConfig ==
    [Quiet EXCEPT !.conf = <<Line(1, FALSE, {"a"}, {1}, TRUE), Line(2, FALSE, {"a"}, {1}, FALSE)>>,
                  !.calls = 2, !.faults = {"driver", "read"}]

\* The clock is changed while ISDN and PPPoE connections begin and end.
ClockConfig ==
    [Quiet EXCEPT !.calls = 1, !.time = 2, !.warps = {-1, 1}, !.clients = 1,
                  !.commands = {"set-status", "adjust-time"}]
ChronyConfig == [ClockConfig EXCEPT !.time = 1, !.warps = {1}, !.chrony = TRUE]

\* Links are added and removed by load.
LoadConfig ==
    [Quiet EXCEPT !.bundling = {1}, !.bandwidth = 2, !.calls = 2, !.time = 4]
LinkConfig == [LoadConfig EXCEPT !.bandwidth = 1, !.calls = 1, !.time = 3]

\* Clients from the LAN, with all settings of the passwords.
ClientConfigs ==
    {[Quiet EXCEPT !.passwords = p, !.rights = r, !.commands = {"dialmode", "set-status"},
                   !.remote = TRUE, !.clients = 2, !.faults = {"write"}] :
        p \in SUBSET {"user", "admin"}, r \in {{}, {"enable", "route", "reboot"}}}
UserConfig ==
    [Quiet EXCEPT !.passwords = {"user", "admin"}, !.rights = {"route"},
                  !.commands = {"route", "reboot"}, !.remote = TRUE,
                  !.clients = 1, !.hours = 3]
MCConfigs ==
    {CallsConfig, BundleConfig, DriverConfig, ClockConfig, ChronyConfig, LinkConfig, UserConfig}
        \cup ClientConfigs
LoadConfigs == {LoadConfig}
MCChannels == 1 .. 2
MCSlots == 1 .. 2
=============================================================================
