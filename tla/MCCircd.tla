------------------------------ MODULE MCCircd ------------------------------
(* Small instances of Circd.tla for TLC. *)
EXTENDS Circd, TLC

Pids == Permutations(Pid)

V4       == [c \in Circuit |-> {"ipv4"}]
\* circuit 1 speaks two protocols, so that it may be semionline
DualOne  == [c \in Circuit |-> IF c = 1 THEN {"ipv4", "ipv6"} ELSE {"ipv4"}]
AllRoute == [c \in Circuit |-> "route"]
AllPppd  == [c \in Circuit |-> "pppd"]
\* a PPP circuit that depends on a route circuit
PppdOverRoute == [c \in Circuit |-> IF c = 1 THEN "route" ELSE "pppd"]
\* circuits 2... are links that connect to the server circuit 1
LinkClones    == [c \in Circuit |-> IF c > 1 THEN "link" ELSE "server"]

\* circuit 2 depends on circuit 1
NoDeps   == [c \in Circuit |-> {}]
TwoOnOne == [c \in Circuit |-> IF c = 2 THEN {[on |-> {1}, prot |-> AllProts]} ELSE {}]

\* circuits 2... are clones of circuit 1
NoClone    == [c \in Circuit |-> 0]
CloneOfOne == [c \in Circuit |-> IF c > 1 THEN 1 ELSE 0]

To(cs, types) == {Msg(t, c, "") : t \in types, c \in cs}
Global(ms)    == {Msg("set_global", 0, m) : m \in ms}
Local(ms)     == {Msg("set_local", 1, m) : m \in ms}
Stop          == {Msg("stop_service", 0, "")}

RouteRequests  == To(Circuit, {"activate", "dialup", "hangup", "deactivate", "fail"})
                  \cup {Msg("create", 0, "up")} \cup Global(Mode) \cup Local({"off", "auto"})
PppdRequests   == To(Circuit, {"activate", "hangup", "deactivate"}) \cup Global({"off", "auto"})
CloneRequests  == To({1}, {"activate", "deactivate", "clone"}) \cup To({2}, {"hangup", "deactivate"})
                  \cup Global({"off", "auto"}) \cup Stop
UpDownOneHangupTwo == To(Circuit, {"activate"}) \cup To({1}, {"deactivate"}) \cup To({2}, {"hangup"})
UpHangupDown   == To({1}, {"activate", "hangup", "deactivate"})
UpHangupDownBoth == To(Circuit, {"activate", "hangup", "deactivate"})
UpStop         == To(Circuit, {"activate"}) \cup Stop

\* every request and dial mode for two route circuits, the second one created at
\* run time, with ip scripts in any order
RouteConfig ==
  [kind |-> AllRoute, protocols |-> V4, deps |-> TwoOnOne, origin |-> NoClone, initial |-> 1,
   requests |-> RouteRequests, maxRequests |-> 4, maxInbox |-> 3, allow |-> {"promptQueue"}]
\* daemons that end and crash at any time, and queue processes that start late
PppdConfig ==
  [kind |-> AllPppd, protocols |-> DualOne, deps |-> TwoOnOne, origin |-> NoClone, initial |-> 2,
   requests |-> PppdRequests, maxRequests |-> 3, maxInbox |-> 2,
   allow |-> {"scriptsInOrder", "daemonMayCrash"}]
\* a server and the clone made for a connection
CloneConfig ==
  [kind |-> LinkClones, protocols |-> V4, deps |-> NoDeps, origin |-> CloneOfOne, initial |-> 1,
   requests |-> CloneRequests, maxRequests |-> 4, maxInbox |-> 2,
   allow |-> {"promptQueue", "scriptsInOrder"}]
SafetyConfigs == {RouteConfig, PppdConfig, CloneConfig}

\* route circuits that circd takes down when it is stopped
ShutdownConfig ==
  [RouteConfig EXCEPT !.initial = 2, !.requests = UpStop, !.maxRequests = 3, !.allow = {"promptQueue", "scriptsInOrder"}]
\* a PPP circuit over a route circuit whose control script may fail
FailingConfig ==
  [RouteConfig EXCEPT !.kind = PppdOverRoute, !.initial = 2, !.requests = UpDownOneHangupTwo,
     !.maxRequests = 3, !.maxInbox = 2, !.allow = {"promptQueue", "dialMayFail", "scriptsInOrder"}]
\* route circuits that users and dial modes take up and down, with scripts that succeed
DownConfig ==
  [ShutdownConfig EXCEPT !.requests = UpHangupDownBoth \cup Global({"off", "auto"})]
LiveConfigs == {ShutdownConfig, FailingConfig, DownConfig}

\* one circuit that is taken down while it is being hung up
DropDownConfigs ==
  {[RouteConfig EXCEPT !.deps = NoDeps, !.requests = UpHangupDown, !.maxRequests = 3,
      !.allow = {"promptQueue", "scriptsInOrder"}]}
=============================================================================
