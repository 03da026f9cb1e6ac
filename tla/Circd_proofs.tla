---------------------------- MODULE Circd_proofs ----------------------------
(***************************************************************************)
(* Proofs about the circuit daemon, for any number of circuits, protocols  *)
(* and daemons, any dependencies and any requests.                         *)
(*                                                                         *)
(* The argument: what a circuit is brought up by is in one place at a time *)
(* and there only while the circuit is up (Sources, Exclusive), so that    *)
(* nothing that comes late can bring a circuit up again; a daemon's        *)
(* reports come before the one that it has ended (MailOrder), so that the  *)
(* hangup completes with nothing on its way (FinalizeOK); and a call that  *)
(* changes a state is the next one made, so that what its caller checked   *)
(* still holds (Shape, TopOK).                                             *)
(*                                                                         *)
(* On some route circuits a report can come late; the others are Tame, and *)
(* the parts of the invariant that such a report breaks are about tame     *)
(* circuits.  A circuit that is not tame does not disturb a tame one.      *)
(***************************************************************************)
EXTENDS Circd, FiniteSetTheorems, SequenceTheorems, TLAPS

-----------------------------------------------------------------------------
(* Circuits on which no report comes late                                  *)

\* Those that a daemon controls, and route circuits whose control scripts succeed
\* and that speak one protocol.  For the others a report can come after the hangup.
Tame ==
  {c \in Circuit : Kind[c] = "route" => ~ DialMayFail /\ \A q, r \in Protocols[c] : q = r}

-----------------------------------------------------------------------------
(* Types                                                                   *)

Stopped == {"inactive", "failed"}
Alive   == UpStates \cup Stopped \cup {"active"}

\* Calls that are only made first, and calls that only a few others wait for
TopOnly == {"change_state", "state_changed", "hangup", "finalize_hangup", "remove", "check_exit"}
Low     == {"finalize_hangup", "hung_up", "unref", "remove", "check_exit"}

CallType ==
  {f \in [call : TopOnly \cup Low \cup {"derive", "dial", "stop_queue", "clear_op", "mode_changed"},
          id : 0..NCircuits, arg : {"", "force", "dial", "hangup", "any"} \cup States \cup Mode] :
     /\ f.call # "check_exit" => f.id \in Circuit
     /\ f.call \in {"change_state", "state_changed"} => f.arg \in States
     /\ f.call = "hangup" => f.arg \in {"active"} \cup Stopped
     /\ f.call = "finalize_hangup" => f.arg \in {"", "force"}
     /\ f.call = "mode_changed" => f.arg \in Mode}

MsgType ==
  {m \in [type : {"create", "clone", "activate", "dialup", "hangup", "deactivate", "fail",
                  "set_global", "set_local", "stop_service", "start_daemon", "stop_daemon",
                  "up_l3prot", "down_l3prot", "up_link", "down_link", "daemon_exited", "child_exited",
                  "dial_failed", "hangup_failed"},
          id : 0..NCircuits, arg : {"", "up", "force", "q", "d"} \cup Mode \cup Prot,
          pid : Pid \cup {NoPid}] :
     /\ m.type \notin {"create", "stop_service", "set_global"} => m.id \in Circuit
     /\ m.type \in {"set_global", "set_local"} => m.arg \in Mode
     /\ m.type \in {"up_l3prot", "down_l3prot"} => m.arg \in Prot
     /\ m.type = "child_exited" => m.arg \in {"q", "d"}
     /\ m.type = "down_link" => m.arg \in {"", "force"}
     /\ m.pid # NoPid <=> m.type = "daemon_exited"}

DaemonType == [id : 0..NCircuits, st : {"free", "run", "exiting"},
               link : [Prot \cup {Link} -> {"idle", "up", "down"}], sig : BOOLEAN]

Typed ==
  /\ config \in Configs
  /\ state \in [Circuit -> States \cup {"none"}]
  /\ op \in [Circuit -> {"", "dial", "hangup"}]
  /\ hangupState \in [Circuit -> {"", "active", "inactive", "failed"}]
  /\ force \in [Circuit -> BOOLEAN]
  /\ protsUp \in [Circuit -> SUBSET Prot]
  /\ refs \in [Circuit -> Int]
  /\ globalMode \in Mode /\ localMode \in [Circuit -> Mode \cup {""}]
  /\ term \in [Circuit -> Pid \cup {NoPid}] /\ hup \in [Circuit -> Pid \cup {NoPid}]
  /\ nextId \in 1..(NCircuits + 1)
  /\ stack \in Seq(CallType) /\ inbox \in Seq(MsgType)
  /\ queue \in [Circuit -> Seq({"dial", "hangup", "quit"})]
  /\ scripts \in [Circuit -> [{"up", "down"} \X Prot -> Nat]]
  /\ daemon \in [Pid -> DaemonType]
  /\ \A p \in Pid : daemon[p].st # "free" => daemon[p].id \in Circuit

-----------------------------------------------------------------------------
(* The stack                                                               *)

HasCall(f, c) == \E i \in 1..Len(stack) : stack[i].call = f /\ stack[i].id = c

\* Calls of TopOnly are first on the stack; after one of Low there is at most
\* one more call, which drops a reference.
Shape ==
  /\ \A i \in 2..Len(stack) : stack[i].call \notin TopOnly
  /\ \A i \in 1..Len(stack) : stack[i].call \in Low =>
       i >= Len(stack) - 1 /\ \A j \in (i + 1)..Len(stack) : stack[j].call = "unref"

-----------------------------------------------------------------------------
(* What brings a circuit up: the dial call, the message to the queue       *)
(* process, then for a route circuit its ip-up script and the script's     *)
(* report, for the others the request to start the daemon and the daemon.  *)
(* A circuit has at most one of them at a time, and only while it is up.   *)

HasMsg(t, c) == \E i \in 1..Len(inbox) : inbox[i].type = t /\ inbox[i].id = c
HasDial(c)   == \E i \in 1..Len(queue[c]) : queue[c][i] = "dial"
HasScript(c) == \E q \in Prot : scripts[c][<<"up", q>>] > 0
\* c has a daemon, or one whose end is being reported; hup[c] is stale once a
\* forced hangup is being completed
HupLive(c)   == hup[c] # NoPid /\ ~ HasCall("hung_up", c)

Sources ==
  \A c \in Circuit :
    /\ HasScript(c) => Kind[c] = "route"
    /\ HasMsg("start_daemon", c) => Kind[c] # "route"
    /\ hup[c] # NoPid => Kind[c] # "route"
    /\ protsUp[c] # {} => Kind[c] \in {"route", "pppd"}
    /\ protsUp[c] \subseteq Protocols[c]
    /\ c \in Tame =>
         /\ HasDial(c) => state[c] \in UpStates
         /\ HasScript(c) => state[c] \in UpStates
         /\ HasMsg("start_daemon", c) => state[c] \in UpStates
         /\ HasMsg("up_l3prot", c) => state[c] \in UpStates
         /\ HupLive(c) => state[c] \in UpStates
         /\ protsUp[c] # {} => state[c] \in UpStates

Exclusive ==
  \A c \in Circuit : c \in Tame =>
    /\ HasCall("dial", c) => ~ HasDial(c)
    /\ HasCall("dial", c) \/ HasDial(c) => ~ HasScript(c) /\ ~ HasMsg("start_daemon", c)
    /\ HasCall("dial", c) \/ HasDial(c) \/ HasMsg("start_daemon", c) => ~ HupLive(c)
    /\ HasCall("dial", c) \/ HasDial(c) \/ HasMsg("start_daemon", c) \/ HasScript(c) =>
         ~ HasMsg("up_l3prot", c) /\ protsUp[c] = {}
    /\ Kind[c] = "route" /\ HasMsg("up_l3prot", c) => protsUp[c] = {}

UniqueCalls ==
  \A i, j \in 1..Len(stack) :
    stack[i].call = "dial" /\ stack[j].call = "dial" /\ stack[i].id = stack[j].id => i = j

UniqueDials ==
  \A c \in Circuit : c \in Tame => \A i, j \in 1..Len(queue[c]) :
    queue[c][i] = "dial" /\ queue[c][j] = "dial" => i = j

UniqueScripts ==
  \A c \in Circuit, q \in Prot :
    /\ scripts[c][<<"up", q>>] # 0 => q \in Protocols[c] /\ (c \in Tame => scripts[c][<<"up", q>>] = 1)
    /\ scripts[c][<<"down", q>>] # 0 => Kind[c] = "route" /\ q \in Protocols[c]

UniqueMail ==
  \A i, j \in 1..Len(inbox) :
    /\ inbox[i].type = inbox[j].type /\ inbox[i].id = inbox[j].id
    /\ \/ inbox[i].type = "start_daemon"
       \/ inbox[i].type = "up_l3prot" /\ Kind[inbox[i].id] = "route" /\ inbox[i].id \in Tame
    => i = j

\* A circuit is up while a dial call waits, or the change of state is the next call.
Dialled ==
  \A i \in 1..Len(stack) : stack[i].call = "dial" =>
    \/ state[stack[i].id] \in UpStates
    \/ /\ i = 2 /\ stack[1].call = "change_state"
       /\ stack[1].id = stack[2].id /\ stack[1].arg = "ready"

-----------------------------------------------------------------------------
(* Daemons and their reports                                               *)

Report(m) ==
  \/ m.type \in {"up_link", "down_link"}
  \/ m.type \in {"up_l3prot", "down_l3prot"} /\ Kind[m.id] # "route"

\* The last report of the daemon that is registered for the circuit
Closing(m) ==
  \/ m.type = "daemon_exited" /\ m.pid = hup[m.id]
  \/ m.type = "down_link" /\ m.arg = "force"

\* A message of a daemon comes from the one registered, and none comes after
\* its last report.
Mail ==
  \A i \in 1..Len(inbox) :
    /\ inbox[i].type = "daemon_exited" =>
         daemon[inbox[i].pid].st # "run" /\ Kind[inbox[i].id] # "route"
    /\ inbox[i].type \in {"up_link", "down_link"} => Kind[inbox[i].id] = "link"
    /\ inbox[i].type \in {"up_l3prot", "down_l3prot"} =>
         Kind[inbox[i].id] \in {"route", "pppd"} /\ inbox[i].arg \in Protocols[inbox[i].id]
    /\ inbox[i].type = "down_link" /\ inbox[i].arg = "force"
         /\ daemon[hup[inbox[i].id]].st = "run" => daemon[hup[inbox[i].id]].link[Link] = "down"
    /\ inbox[i].type \in {"dial_failed", "hangup_failed"} => inbox[i].id \notin Tame
    /\ Report(inbox[i]) => HupLive(inbox[i].id)

MailOrder ==
  \A i, j \in 1..Len(inbox) :
    /\ inbox[i].type = "daemon_exited" /\ inbox[j].type = "daemon_exited"
         /\ inbox[i].pid = inbox[j].pid => i = j
    /\ Report(inbox[j]) /\ Closing(inbox[i]) /\ inbox[i].id = inbox[j].id => j <= i

Registered ==
  /\ \A c \in Circuit : hup[c] # NoPid => hup[c] \in Unreported(c)
  /\ \A c \in Circuit : force[c] => HasCall("hung_up", c)

Daemons ==
  \A p \in Pid : daemon[p].st = "run" =>
    LET c == daemon[p].id IN
    /\ c \in Circuit /\ Kind[c] # "route"
    /\ \/ HupLive(c) /\ hup[c] = p
       \/ Kind[c] = "link" /\ daemon[p].link[Link] = "down"
    /\ hup[c] = p /\ ~ daemon[p].sig => term[c] = p

-----------------------------------------------------------------------------
(* The reference count: the daemons, the references about to be dropped    *)
(* and the circuit itself                                                  *)

Unref(i, c) == IF i \in 1..Len(stack) /\ stack[i].call = "unref" /\ stack[i].id = c THEN 1 ELSE 0
Dropping(c) == Unref(Len(stack), c) + Unref(Len(stack) - 1, c)
Own(c)      == IF state[c] = "deleted" /\ ~ HasCall("hung_up", c) THEN 0 ELSE 1

Refs ==
  \A c \in Circuit :
    /\ Exists(c) => refs[c] = Cardinality(Unreported(c)) + Dropping(c) + Own(c)
    /\ Unreported(c) # {} \/ HasCall("unref", c) \/ HasCall("hung_up", c) => Exists(c)

\* A circuit without a reference is being removed.
Removal ==
  \A c \in Circuit : Exists(c) /\ refs[c] = 0 =>
    stack # << >> /\ stack[1].call = "remove" /\ stack[1].id = c

Clones ==
  \A c \in Circuit :
    /\ state[c] = "deleted" => Origin[c] # 0
    /\ c >= nextId => state[c] = "none"
    /\ HasCall("hung_up", c) /\ Origin[c] # 0 =>
         \/ state[c] = "deleted"
         \/ stack[1].call = "change_state" /\ stack[1].id = c /\ stack[1].arg = "deleted"

-----------------------------------------------------------------------------
(* What the caller of a function has made sure of                          *)

\* Nothing is on its way that brings c up, or that reports on it.
Quiet(c) ==
  /\ ~ HasCall("dial", c) /\ ~ HasDial(c) /\ ~ HasScript(c)
  /\ \A t \in {"start_daemon", "up_l3prot", "up_link", "down_link"} : ~ HasMsg(t, c)
  /\ Kind[c] # "route" => ~ HasMsg("down_l3prot", c)
  /\ protsUp[c] = {}

ChangeOK(c, new) ==
  /\ state[c] \in Alive
  /\ new = "ready" => state[c] = "active" /\ Len(stack) >= 2
                      /\ stack[2].call = "dial" /\ stack[2].id = c
  /\ new = "deleted" => Origin[c] # 0 /\ HasCall("hung_up", c)
  /\ new \notin UpStates => ~ HasCall("dial", c)
  /\ c \in Tame =>
       /\ new \in {"online", "semionline"} => state[c] \in UpStates
       /\ new = "active" => state[c] \in UpStates \/ (state[c] \in Stopped /\ Len(stack) = 1)
       /\ new \notin UpStates => Quiet(c) /\ ~ HupLive(c)

FinalizeOK(c, arg) ==
  /\ ~ force[c]
  /\ arg = "force" => Kind[c] = "link"
  /\ arg = "force" /\ hup[c] # NoPid /\ daemon[hup[c]].st = "run" => daemon[hup[c]].link[Link] = "down"
  /\ protsUp[c] = {} /\ (hup[c] = NoPid \/ arg = "force") =>
       state[c] \in Alive /\ (c \in Tame => Quiet(c))

TopOK ==
  stack # << >> =>
    /\ stack[1].call = "change_state" => ChangeOK(stack[1].id, stack[1].arg)
    /\ stack[1].call = "state_changed" => state[stack[1].id] = stack[1].arg
    /\ stack[1].call = "finalize_hangup" => FinalizeOK(stack[1].id, stack[1].arg)
    /\ stack[1].call = "remove" => Exists(stack[1].id) /\ refs[stack[1].id] = 0

Unique == UniqueCalls /\ UniqueDials /\ UniqueScripts /\ UniqueMail

IInv ==
  /\ Typed /\ Shape /\ TopOK /\ Dialled /\ Sources /\ Exclusive /\ Unique
  /\ Mail /\ MailOrder /\ Registered /\ Daemons /\ Refs /\ Clones

-----------------------------------------------------------------------------
(* Sequences                                                               *)

\* The calls that wait after a call has been made: those it makes come first.
LEMMA ReturnCalls ==
  ASSUME NEW S, stack \in Seq(S), stack # << >>, NEW calls \in Seq(S), Return(calls)
  PROVE  /\ stack' \in Seq(S)
         /\ Len(stack') = Len(calls) + Len(stack) - 1
         /\ Len(stack) \in Nat /\ Len(stack) >= 1 /\ Len(calls) \in Nat
         /\ \A i \in 1..Len(calls) : stack'[i] = calls[i]
         /\ \A i \in 2..Len(stack) : stack'[Len(calls) + i - 1] = stack[i]
         /\ \A i \in 1..Len(stack') : i \in 1..Len(calls)
                \/ (i - Len(calls) + 1 \in 2..Len(stack) /\ stack'[i] = stack[i - Len(calls) + 1])
<1> DEFINE t == Tail(stack)
<1>1. t \in Seq(S) /\ Len(t) = Len(stack) - 1 /\ Len(stack) \in Nat /\ Len(stack) >= 1
      /\ \A i \in 1..Len(t) : t[i] = stack[i + 1]
  OBVIOUS
<1>2. stack' = calls \o t /\ Len(calls) \in Nat
  BY DEF Return
<1> HIDE DEF t
<1>3. /\ calls \o t \in Seq(S)
      /\ Len(calls \o t) = Len(calls) + Len(t)
      /\ \A i \in 1..Len(calls) + Len(t) :
           (calls \o t)[i] = IF i <= Len(calls) THEN calls[i] ELSE t[i - Len(calls)]
  BY <1>1, ConcatProperties
<1>4. stack' \in Seq(S) /\ Len(stack') = Len(calls) + Len(stack) - 1
  BY <1>1, <1>2, <1>3
<1>5. \A i \in 1..Len(calls) : stack'[i] = calls[i]
  BY <1>1, <1>2, <1>3
<1>6. ASSUME NEW i \in 2..Len(stack) PROVE stack'[Len(calls) + i - 1] = stack[i]
  <2>1. Len(calls) + i - 1 \in 1..Len(calls) + Len(t) /\ ~ (Len(calls) + i - 1 <= Len(calls))
    BY <1>1, <1>2
  <2>2. (Len(calls) + i - 1) - Len(calls) = i - 1 /\ i - 1 \in 1..Len(t) /\ (i - 1) + 1 = i
    BY <1>1, <1>2
  <2>3. QED
    BY <1>1, <1>2, <1>3, <2>1, <2>2
<1>7. ASSUME NEW i \in 1..Len(stack')
      PROVE  i \in 1..Len(calls)
             \/ (i - Len(calls) + 1 \in 2..Len(stack) /\ stack'[i] = stack[i - Len(calls) + 1])
  <2>1. CASE i <= Len(calls)
    BY <1>2, <2>1
  <2>2. CASE ~ (i <= Len(calls))
    <3>1. i - Len(calls) + 1 \in 2..Len(stack)
      BY <1>1, <1>2, <1>4, <2>2
    <3>2. Len(calls) + (i - Len(calls) + 1) - 1 = i
      BY <1>1, <1>2, <1>4
    <3>3. QED
      BY <1>6, <3>1, <3>2
  <2>3. QED
    BY <2>1, <2>2
<1>8. QED
  BY <1>1, <1>2, <1>4, <1>5, <1>6, <1>7

\* Sequences of one, two or three calls
LEMMA OneCall ==
  ASSUME NEW S, NEW x \in S
  PROVE  <<x>> \in Seq(S) /\ Len(<<x>>) = 1 /\ <<x>>[1] = x
OBVIOUS

LEMMA TwoCalls ==
  ASSUME NEW S, NEW x \in S, NEW y \in S
  PROVE  <<x, y>> \in Seq(S) /\ Len(<<x, y>>) = 2 /\ <<x, y>>[1] = x /\ <<x, y>>[2] = y
OBVIOUS

LEMMA ThreeCalls ==
  ASSUME NEW S, NEW x \in S, NEW y \in S, NEW z \in S
  PROVE  /\ <<x, y, z>> \in Seq(S) /\ Len(<<x, y, z>>) = 3
         /\ <<x, y, z>>[1] = x /\ <<x, y, z>>[2] = y /\ <<x, y, z>>[3] = z
OBVIOUS

LEMMA LaterPlaces == \A n \in Nat : \A i \in 2..n : i \in 1..n
OBVIOUS

LEMMA SeqElements ==
  ASSUME NEW S, NEW s \in Seq(S)
  PROVE  Len(s) \in Nat /\ \A i \in 1..Len(s) : s[i] \in S
OBVIOUS

LEMMA TailFacts ==
  ASSUME NEW S, NEW s \in Seq(S), s # << >>
  PROVE  /\ Tail(s) \in Seq(S) /\ Len(Tail(s)) = Len(s) - 1 /\ Len(s) \in Nat /\ Len(s) >= 1
         /\ \A i \in 1..Len(Tail(s)) : Tail(s)[i] = s[i + 1]
         /\ Head(s) = s[1]
OBVIOUS

\* The next message is taken from the queue.
LEMMA TakeMail ==
  ASSUME NEW S, inbox \in Seq(S), inbox # << >>, inbox' = Tail(inbox)
  PROVE  /\ inbox' \in Seq(S) /\ Len(inbox) \in Nat /\ Len(inbox) >= 1
         /\ Len(inbox') = Len(inbox) - 1
         /\ \A i \in 1..Len(inbox') : i + 1 \in 1..Len(inbox) /\ inbox'[i] = inbox[i + 1]
         /\ Head(inbox) = inbox[1] /\ 1 \in 1..Len(inbox) /\ Head(inbox) \in S
OBVIOUS

LEMMA AppendMail ==
  ASSUME NEW S, inbox \in Seq(S), NEW m \in S, inbox' = Append(inbox, m)
  PROVE  /\ inbox' \in Seq(S) /\ Len(inbox) \in Nat /\ Len(inbox') = Len(inbox) + 1
         /\ \A i \in 1..Len(inbox) : i \in 1..Len(inbox') /\ inbox'[i] = inbox[i]
         /\ inbox'[Len(inbox) + 1] = m /\ Len(inbox) + 1 \in 1..Len(inbox')
         /\ \A i \in 1..Len(inbox') : i \in 1..Len(inbox) \/ i = Len(inbox) + 1
OBVIOUS

\* A call or a message is what its type says.
LEMMA CallFacts ==
  ASSUME stack \in Seq(CallType), NEW i \in 1..Len(stack)
  PROVE  /\ stack[i] \in CallType
         /\ stack[i].id \in 0..NCircuits
         /\ stack[i].call # "check_exit" => stack[i].id \in Circuit
         /\ stack[i].call \in {"change_state", "state_changed"} => stack[i].arg \in States
         /\ stack[i].call = "hangup" => stack[i].arg \in {"active"} \cup Stopped
         /\ stack[i].call = "finalize_hangup" => stack[i].arg \in {"", "force"}
         /\ stack[i].call = "mode_changed" => stack[i].arg \in Mode
<1>1. stack[i] \in CallType
  OBVIOUS
<1>2. QED
  BY <1>1 DEF CallType

LEMMA MailFacts ==
  ASSUME inbox \in Seq(MsgType), NEW i \in 1..Len(inbox)
  PROVE  /\ inbox[i] \in MsgType
         /\ inbox[i].type \notin {"create", "stop_service", "set_global"} => inbox[i].id \in Circuit
         /\ inbox[i].type \in {"set_global", "set_local"} => inbox[i].arg \in Mode
         /\ inbox[i].type \in {"up_l3prot", "down_l3prot"} => inbox[i].arg \in Prot
         /\ inbox[i].type = "child_exited" => inbox[i].arg \in {"q", "d"}
         /\ inbox[i].type = "down_link" => inbox[i].arg \in {"", "force"}
         /\ inbox[i].pid \in Pid \cup {NoPid}
         /\ inbox[i].pid # NoPid <=> inbox[i].type = "daemon_exited"
<1>1. inbox[i] \in MsgType
  OBVIOUS
<1>2. QED
  BY <1>1 DEF MsgType

\* The first call of the stack
LEMMA FrameIsFirst ==
  ASSUME stack \in Seq(CallType), stack # << >>
  PROVE  Frame = stack[1] /\ 1 \in 1..Len(stack)
BY DEF Frame

LEMMA CallsAreTyped ==
  ASSUME NEW c \in Circuit
  PROVE  /\ \A s \in States : Call("change_state", c, s) \in CallType /\ Call("state_changed", c, s) \in CallType
         /\ \A f \in {"derive", "dial", "stop_queue", "hung_up", "unref", "remove"} : Call(f, c, "") \in CallType
         /\ \A s \in {"active"} \cup Stopped : Call("hangup", c, s) \in CallType
         /\ \A s \in {"", "force"} : Call("finalize_hangup", c, s) \in CallType
         /\ \A s \in {"dial", "hangup", "any"} : Call("clear_op", c, s) \in CallType
         /\ \A m \in Mode : Call("mode_changed", c, m) \in CallType
<1>1. c \in 0..NCircuits
  BY CircuitAssumption DEF Circuit
<1>2. QED
  BY <1>1 DEF Call, CallType, TopOnly, Low, States, Stopped, Mode

LEMMA CheckExitIsTyped == Call("check_exit", 0, "") \in CallType
<1>1. 0 \in 0..NCircuits
  BY CircuitAssumption
<1>2. QED
  BY <1>1 DEF Call, CallType, TopOnly, Low

LEMMA MessagesAreTyped ==
  ASSUME NEW c \in Circuit
  PROVE  /\ \A t \in {"activate", "dialup", "hangup", "deactivate", "fail", "clone",
                      "start_daemon", "stop_daemon", "up_link", "dial_failed", "hangup_failed"} : Msg(t, c, "") \in MsgType
         /\ \A t \in {"up_l3prot", "down_l3prot"}, q \in Prot : Msg(t, c, q) \in MsgType
         /\ \A f \in {"", "force"} : Msg("down_link", c, f) \in MsgType
         /\ \A a \in {"q", "d"} : Msg("child_exited", c, a) \in MsgType
         /\ \A p \in Pid : PidMsg("daemon_exited", c, p) \in MsgType
         /\ \A m \in Mode : Msg("set_local", c, m) \in MsgType
<1>1. c \in 0..NCircuits /\ NoPid \notin Pid
  BY CircuitAssumption DEF Circuit
<1>2. QED
  BY <1>1 DEF Msg, PidMsg, MsgType, Mode

LEMMA RequestsAreTyped == RequestMsg \subseteq MsgType
<1>1. 0 \in 0..NCircuits /\ Circuit \subseteq 0..NCircuits
  BY CircuitAssumption DEF Circuit
<1>2. QED
  BY <1>1 DEF RequestMsg, MsgType


\* The circuits of a set are put in order: each place is taken by one of them,
\* since no two have the same number of circuits before them.
LEMMA InOrderIsOf ==
  ASSUME NEW S \in SUBSET Circuit
  PROVE  /\ InOrder(S) \in Seq(S) /\ Len(InOrder(S)) = Cardinality(S)
         /\ \A c \in S : \E i \in 1..Len(InOrder(S)) : InOrder(S)[i] = c
<1> DEFINE below(c) == {d \in S : d <= c}
           n == Cardinality(S)
           rank == [c \in S |-> Cardinality(below(c))]
<1>1. IsFiniteSet(S) /\ n \in Nat
  <2>1. IsFiniteSet(Circuit)
    BY CircuitAssumption, FS_Interval DEF Circuit
  <2>2. QED
    BY <2>1, FS_Subset, FS_CardinalityType
<1>2. \A c \in S : IsFiniteSet(below(c)) /\ Cardinality(below(c)) \in 1..n
  <2> TAKE c \in S
  <2>1. below(c) \in SUBSET S /\ c \in below(c)
    BY DEF Circuit
  <2>2. IsFiniteSet(below(c)) /\ Cardinality(below(c)) <= n /\ Cardinality(below(c)) \in Nat
    BY <1>1, <2>1, FS_Subset, FS_CardinalityType
  <2>3. Cardinality(below(c)) # 0
    BY <2>1, <2>2, FS_EmptySet
  <2>4. QED
    BY <1>1, <2>2, <2>3
<1>3. \A c, d \in S : Cardinality(below(c)) = Cardinality(below(d)) => c = d
  <2>1. ASSUME NEW c \in S, NEW d \in S, Cardinality(below(c)) = Cardinality(below(d)), c < d PROVE FALSE
    <3> \A x \in S : x \in Int
      BY DEF Circuit
    <3>0. \A x \in S : x <= c => x <= d
      BY <2>1
    <3>1. below(c) \in SUBSET below(d) /\ d \in below(d) /\ d \notin below(c)
      BY <2>1, <3>0
    <3>2. below(c) = below(d)
      BY <1>2, <2>1, <3>1, FS_Subset
    <3>3. QED
      BY <3>1, <3>2
  <2>2. QED
    BY <2>1 DEF Circuit
<1>4. rank \in Injection(S, 1..n)
  BY <1>2, <1>3 DEF Injection, IsInjective
<1>5. IsFiniteSet(1..n) /\ Cardinality(1..n) = n
  BY <1>1, FS_Interval
<1>6. rank \in Surjection(S, 1..n)
  BY <1>4, <1>5, FS_Injection
<1>7. \A i \in 1..n : \E c \in S : Cardinality(below(c)) = i
  BY <1>6 DEF Surjection
<1>8. InOrder(S) = [i \in 1..n |-> CHOOSE c \in S : Cardinality(below(c)) = i]
  BY DEF InOrder
<1> HIDE DEF below, n, rank
<1>9. \A i \in 1..n : InOrder(S)[i] \in S /\ Cardinality(below(InOrder(S)[i])) = i
  BY <1>7, <1>8
<1>10. InOrder(S) \in Seq(S) /\ Len(InOrder(S)) = n
  BY <1>1, <1>8, <1>9
<1>11. \A c \in S : \E i \in 1..n : InOrder(S)[i] = c
  BY <1>2, <1>3, <1>9
<1>12. QED
  BY <1>10, <1>11 DEF n

-----------------------------------------------------------------------------
(* The stack after a call has been made                                    *)

Made(calls, f, c) == \E i \in 1..Len(calls) : calls[i].call = f /\ calls[i].id = c
Waits(f, c)       == \E i \in 2..Len(stack) : stack[i].call = f /\ stack[i].id = c

LEMMA CallsAfter ==
  ASSUME stack \in Seq(CallType), stack # << >>, NEW calls \in Seq(CallType), Return(calls)
  PROVE  /\ stack' \in Seq(CallType)
         /\ \A f, c : HasCall(f, c)' <=> Made(calls, f, c) \/ Waits(f, c)
         /\ \A f, c : HasCall(f, c) <=> (Frame.call = f /\ Frame.id = c) \/ Waits(f, c)
<1>1. stack' \in Seq(CallType)
  BY ReturnCalls
<1>2. ASSUME NEW f, NEW c PROVE HasCall(f, c)' <=> Made(calls, f, c) \/ Waits(f, c)
  <2>1. ASSUME Made(calls, f, c) PROVE HasCall(f, c)'
    <3>1. PICK i \in 1..Len(calls) : calls[i].call = f /\ calls[i].id = c
      BY <2>1 DEF Made
    <3>2. i \in 1..Len(stack') /\ stack'[i] = calls[i]
      BY ReturnCalls, <3>1
    <3>3. QED
      BY <3>1, <3>2 DEF HasCall
  <2>2. ASSUME Waits(f, c) PROVE HasCall(f, c)'
    <3>1. PICK i \in 2..Len(stack) : stack[i].call = f /\ stack[i].id = c
      BY <2>2 DEF Waits
    <3>2. Len(calls) + i - 1 \in 1..Len(stack') /\ stack'[Len(calls) + i - 1] = stack[i]
      BY ReturnCalls, <3>1
    <3>3. QED
      BY <3>1, <3>2 DEF HasCall
  <2>3. ASSUME HasCall(f, c)' PROVE Made(calls, f, c) \/ Waits(f, c)
    <3>1. PICK i \in 1..Len(stack') : stack'[i].call = f /\ stack'[i].id = c
      BY <2>3 DEF HasCall
    <3>2. CASE i \in 1..Len(calls)
      BY <3>1, <3>2, ReturnCalls DEF Made
    <3>3. CASE i - Len(calls) + 1 \in 2..Len(stack) /\ stack'[i] = stack[i - Len(calls) + 1]
      BY <3>1, <3>3 DEF Waits
    <3>4. QED
      BY <3>2, <3>3, ReturnCalls
  <2>4. QED
    BY <2>1, <2>2, <2>3
<1>3. ASSUME NEW f, NEW c PROVE HasCall(f, c) <=> (Frame.call = f /\ Frame.id = c) \/ Waits(f, c)
  <2>1. Frame = stack[1] /\ Len(stack) \in Nat /\ Len(stack) >= 1
    BY ReturnCalls, FrameIsFirst
  <2>2. 1..Len(stack) = {1} \cup 2..Len(stack)
    BY <2>1
  <2>3. QED
    BY <2>1, <2>2 DEF HasCall, Waits
<1>4. QED
  BY <1>1, <1>2, <1>3

\* What a function may call, so that the stack keeps its shape
Fits(calls) ==
  /\ \A i \in 2..Len(calls) : calls[i].call \notin TopOnly
  /\ \A i \in 1..Len(calls) : calls[i].call \in Low => i = Len(calls) /\ Frame.call \in Low

LEMMA ShapeAfter ==
  ASSUME stack \in Seq(CallType), stack # << >>, Shape, NEW calls \in Seq(CallType), Return(calls), Fits(calls)
  PROVE  Shape'
<1>0. /\ Len(stack) \in Nat /\ Len(stack) >= 1 /\ Len(calls) \in Nat
      /\ Len(stack') = Len(calls) + Len(stack) - 1
      /\ \A i \in 1..Len(calls) : stack'[i] = calls[i]
      /\ \A i \in 1..Len(stack') : i \in 1..Len(calls)
                \/ (i - Len(calls) + 1 \in 2..Len(stack) /\ stack'[i] = stack[i - Len(calls) + 1])
  BY ReturnCalls
<1>1. ASSUME NEW i \in 2..Len(stack') PROVE stack'[i].call \notin TopOnly
  <2>1. CASE i \in 1..Len(calls)
    BY <1>0, <2>1 DEF Fits
  <2>2. CASE i - Len(calls) + 1 \in 2..Len(stack) /\ stack'[i] = stack[i - Len(calls) + 1]
    BY <2>2 DEF Shape
  <2>3. QED
    BY <1>0, <2>1, <2>2
<1>2. ASSUME NEW i \in 1..Len(stack'), stack'[i].call \in Low
      PROVE  i >= Len(stack') - 1 /\ \A j \in (i + 1)..Len(stack') : stack'[j].call = "unref"
  <2>1. CASE i \in 1..Len(calls)
    <3>1. i = Len(calls) /\ stack[1].call \in Low
      BY <1>0, <1>2, <2>1, FrameIsFirst DEF Fits
    <3>2. 1 >= Len(stack) - 1 /\ \A j \in 2..Len(stack) : stack[j].call = "unref"
      BY <1>0, <3>1 DEF Shape
    <3>3. ASSUME NEW j \in (i + 1)..Len(stack') PROVE stack'[j].call = "unref"
      <4>1. j - Len(calls) + 1 \in 2..Len(stack) /\ stack'[j] = stack[j - Len(calls) + 1]
        BY <1>0, <3>1
      <4>2. QED
        BY <3>2, <4>1
    <3>4. QED
      BY <1>0, <3>1, <3>2, <3>3
  <2>2. CASE i - Len(calls) + 1 \in 2..Len(stack) /\ stack'[i] = stack[i - Len(calls) + 1]
    <3>1. /\ i - Len(calls) + 1 >= Len(stack) - 1
          /\ \A j \in (i - Len(calls) + 2)..Len(stack) : stack[j].call = "unref"
      <4>1. PICK k \in 2..Len(stack) : k = i - Len(calls) + 1
        BY <2>2
      <4>2. k >= Len(stack) - 1 /\ \A j \in (k + 1)..Len(stack) : stack[j].call = "unref"
        BY <1>0, <1>2, <2>2, <4>1 DEF Shape
      <4>3. k + 1 = i - Len(calls) + 2
        BY <1>0, <4>1
      <4>4. QED
        BY <4>1, <4>2, <4>3
    <3>2. ASSUME NEW j \in (i + 1)..Len(stack') PROVE stack'[j].call = "unref"
      <4>1. j - Len(calls) + 1 \in 2..Len(stack) /\ stack'[j] = stack[j - Len(calls) + 1]
        BY <1>0, <2>2
      <4>2. j - Len(calls) + 1 \in (i - Len(calls) + 2)..Len(stack)
        BY <1>0, <4>1
      <4>3. QED
        BY <3>1, <4>1, <4>2
    <3>3. QED
      BY <1>0, <3>1, <3>2
  <2>3. QED
    BY <1>0, <2>1, <2>2
<1>3. QED
  BY <1>1, <1>2 DEF Shape

\* If the calls made drop no reference, neither does the number of those to be dropped change.
LEMMA DroppingAfter ==
  ASSUME stack \in Seq(CallType), stack # << >>, Shape, NEW calls \in Seq(CallType), Return(calls),
         Frame.call # "unref", \A i \in 1..Len(calls) : calls[i].call # "unref"
  PROVE  \A c : Dropping(c)' = Dropping(c)
<1> TAKE c
<1>0. /\ Len(stack) \in Nat /\ Len(stack) >= 1 /\ Len(calls) \in Nat
      /\ Len(stack') = Len(calls) + Len(stack) - 1
      /\ \A i \in 1..Len(calls) : stack'[i] = calls[i]
      /\ \A i \in 2..Len(stack) : stack'[Len(calls) + i - 1] = stack[i]
      /\ stack[1].call # "unref"
  BY ReturnCalls, FrameIsFirst
<1> DEFINE after(i) == IF i \in 1..Len(stack') /\ stack'[i].call = "unref" /\ stack'[i].id = c THEN 1 ELSE 0
<1>1. Dropping(c)' = after(Len(stack')) + after(Len(stack') - 1)
  BY DEF Dropping, Unref
<1>2. Dropping(c) = Unref(Len(stack), c) + Unref(Len(stack) - 1, c) /\ Unref(1, c) = 0 /\ Unref(0, c) = 0
  BY <1>0 DEF Dropping, Unref
<1>3. \A i \in 2..Len(stack) : after(Len(calls) + i - 1) = Unref(i, c)
  BY <1>0 DEF Unref
<1>4. \A i \in Int : i <= Len(calls) => after(i) = 0
  BY <1>0
<1> HIDE DEF after
<1>5. CASE Len(stack) >= 3
  <2>1. Len(stack) \in 2..Len(stack) /\ Len(stack) - 1 \in 2..Len(stack)
        /\ Len(stack') = Len(calls) + Len(stack) - 1 /\ Len(stack') - 1 = Len(calls) + (Len(stack) - 1) - 1
    BY <1>0, <1>5
  <2>2. QED
    BY <1>1, <1>2, <1>3, <2>1
<1>6. CASE Len(stack) = 2
  <2>1. after(Len(stack')) = Unref(2, c) /\ after(Len(stack') - 1) = 0
    <3>1. 2 \in 2..Len(stack) /\ Len(stack') = Len(calls) + 2 - 1 /\ Len(stack') - 1 <= Len(calls)
          /\ Len(stack') - 1 \in Int
      BY <1>0, <1>6
    <3>2. QED
      BY <1>3, <1>4, <3>1
  <2>2. QED
    BY <1>1, <1>2, <1>6, <2>1
<1>7. CASE Len(stack) = 1
  <2>1. after(Len(stack')) = 0 /\ after(Len(stack') - 1) = 0
    BY <1>0, <1>4, <1>7
  <2>2. QED
    BY <1>1, <1>2, <1>7, <2>1
<1>8. Len(stack) >= 3 \/ Len(stack) = 2 \/ Len(stack) = 1
  <2>1. PICK n \in Nat : n = Len(stack) /\ n >= 1
    BY <1>0
  <2>2. n >= 3 \/ n = 2 \/ n = 1
    BY <2>1
  <2>3. QED
    BY <2>1, <2>2
<1>9. QED
  BY <1>5, <1>6, <1>7, <1>8, Zenon

\* Calls of TopOnly come first only if they have just been made.
LEMMA NothingOnTop ==
  ASSUME stack \in Seq(CallType), stack # << >>, Shape, Return(<< >>), stack' # << >>
  PROVE  stack'[1].call \notin TopOnly
<1>1. << >> \in Seq(CallType) /\ Len(<< >>) = 0
  OBVIOUS
<1>2. stack' \in Seq(CallType)
  BY <1>1, ReturnCalls
<1>3. Len(stack') \in Nat /\ Len(stack') # 0
  BY <1>2, EmptySeq
<1>4. 1 \in 1..Len(stack')
  BY <1>3
<1>5. \A i \in 1..Len(stack') : i \in 1..0
         \/ (i - 0 + 1 \in 2..Len(stack) /\ stack'[i] = stack[i - 0 + 1])
  BY <1>1, ReturnCalls
<1>6. 1 - 0 + 1 = 2 /\ 1 \notin 1..0
  OBVIOUS
<1>7. 2 \in 2..Len(stack) /\ stack'[1] = stack[2]
  BY <1>4, <1>5, <1>6
<1>8. QED
  BY <1>7 DEF Shape

-----------------------------------------------------------------------------
(* Functions that change no more than the stack, operations, and what is   *)
(* queued for the queue processes                                          *)

\* A circuit is dialled or hung up, or there is nothing to be done for it.
SteadyCalls(calls) ==
  \/ calls = << >>
  \/ \E c \in Circuit : calls = DialCalls(c) /\ state[c] = "active"
  \/ \E c \in Circuit, s \in {"active"} \cup Stopped : calls = <<Call("hangup", c, s)>>

\* The only new messages in the queues of queue processes do not ask to dial.
SteadyQueues ==
  /\ queue' \in [Circuit -> Seq({"dial", "hangup", "quit"})]
  /\ \A c \in Circuit : \A i \in 1..Len(queue'[c]) :
       queue'[c][i] = "dial" => i \in 1..Len(queue[c]) /\ queue[c][i] = "dial"

Steady(calls) ==
  /\ stack # << >> /\ Return(calls) /\ SteadyCalls(calls)
  /\ Frame.call \notin {"change_state", "hung_up", "unref", "remove"}
  /\ op' \in [Circuit -> {"", "dial", "hangup"}]
  /\ hangupState' \in [Circuit -> {"", "active", "inactive", "failed"}]
  /\ UNCHANGED <<config, state, force, protsUp, refs, globalMode, localMode, term, hup, nextId,
                 inbox, scripts, daemon>>

\* What is queued for queue processes, if nothing or something else than "dial" is sent
LEMMA SendKeepsQueues ==
  ASSUME queue \in [Circuit -> Seq({"dial", "hangup", "quit"})], NEW c \in Circuit,
         NEW m \in {"hangup", "quit"}, SendToQueue(c, m)
  PROVE  SteadyQueues
<1>1. CASE queue' = queue
  BY <1>1 DEF SteadyQueues
<1>2. CASE queue' = [queue EXCEPT ![c] = Append(@, m)]
  BY <1>2 DEF SteadyQueues
<1>3. QED
  BY <1>1, <1>2 DEF SendToQueue

LEMMA QueuesAreSteady ==
  ASSUME queue \in [Circuit -> Seq({"dial", "hangup", "quit"})], UNCHANGED queue
  PROVE  SteadyQueues
BY DEF SteadyQueues

LEMMA DialsAreSteady ==
  ASSUME SteadyQueues, UniqueDials, UNCHANGED config
  PROVE  UniqueDials' /\ \A c \in Circuit : HasDial(c)' => HasDial(c)
<1>1. Tame' = Tame
  BY DEF Tame, Kind, Protocols, DialMayFail
<1>2. QED
  BY <1>1 DEF SteadyQueues, UniqueDials, HasDial

LEMMA DialCallsAre ==
  ASSUME NEW c \in Circuit
  PROVE  /\ DialCalls(c) \in Seq(CallType) /\ Len(DialCalls(c)) = 2
         /\ DialCalls(c)[1].call = "change_state" /\ DialCalls(c)[1].id = c /\ DialCalls(c)[1].arg = "ready"
         /\ DialCalls(c)[2].call = "dial" /\ DialCalls(c)[2].id = c
<1>1. Call("change_state", c, "ready") \in CallType /\ Call("dial", c, "") \in CallType
  BY CallsAreTyped DEF States
<1>2. /\ DialCalls(c) \in Seq(CallType) /\ Len(DialCalls(c)) = 2
      /\ DialCalls(c)[1] = Call("change_state", c, "ready") /\ DialCalls(c)[2] = Call("dial", c, "")
  BY <1>1, TwoCalls DEF DialCalls
<1>3. PICK x \in CallType, y \in CallType : x = Call("change_state", c, "ready") /\ y = Call("dial", c, "")
  BY <1>1
<1>4. x.call = "change_state" /\ x.id = c /\ x.arg = "ready" /\ y.call = "dial" /\ y.id = c
  BY <1>3 DEF Call
<1>5. DialCalls(c)[1] = x /\ DialCalls(c)[2] = y
  BY <1>2, <1>3
<1>6. QED
  BY <1>2, <1>4, <1>5

LEMMA HangupCallIs ==
  ASSUME NEW c \in Circuit, NEW s \in {"active"} \cup Stopped
  PROVE  LET calls == <<Call("hangup", c, s)>> IN
         calls \in Seq(CallType) /\ Len(calls) = 1 /\ calls[1].call = "hangup"
<1>1. Call("hangup", c, s) \in CallType
  BY CallsAreTyped
<1>2. Call("hangup", c, s).call = "hangup"
  BY DEF Call
<1>3. \A x \in CallType : <<x>> \in Seq(CallType) /\ Len(<<x>>) = 1 /\ <<x>>[1].call = x.call
  BY OneCall
<1>4. QED
  BY <1>1, <1>2, <1>3, Zenon

LEMMA SteadyStack ==
  ASSUME Typed, Shape, Dialled, UniqueCalls, NEW calls, Steady(calls)
  PROVE  /\ calls \in Seq(CallType) /\ Fits(calls) /\ Shape' /\ stack' \in Seq(CallType)
         /\ \A c : Dropping(c)' = Dropping(c)
         /\ \A c : HasCall("hung_up", c)' <=> HasCall("hung_up", c)
         /\ \A c : HasCall("unref", c)' <=> HasCall("unref", c)
         /\ \A c : HasCall("dial", c)' => HasCall("dial", c) \/ (c \in Circuit /\ state[c] = "active")
         /\ TopOK'
         /\ Dialled' /\ UniqueCalls'
<1>0. stack \in Seq(CallType) /\ stack # << >> /\ Return(calls)
  BY DEF Steady, Typed
<1> DEFINE plain ==
      /\ calls \in Seq(CallType)
      /\ \A i \in 1..Len(calls) : calls[i].call \notin Low
      /\ \A i \in 2..Len(calls) : calls[i].call \notin TopOnly
      /\ \A i \in 1..Len(calls) : calls[i].call = "dial" =>
           /\ i = 2 /\ calls = DialCalls(calls[i].id)
           /\ calls[i].id \in Circuit /\ state[calls[i].id] = "active"
<1>1. plain
  <2>1. CASE calls = << >>
    BY <2>1
  <2>2. ASSUME NEW c \in Circuit, calls = DialCalls(c), state[c] = "active" PROVE plain
    <3>1. /\ calls \in Seq(CallType) /\ Len(calls) = 2
          /\ calls[1].call = "change_state" /\ calls[2].call = "dial" /\ calls[2].id = c
      BY <2>2, DialCallsAre
    <3>2. 1..2 = {1, 2} /\ 2..2 = {2}
      OBVIOUS
    <3>3. QED
      BY <2>2, <3>1, <3>2 DEF Low, TopOnly
  <2>3. ASSUME NEW c \in Circuit, NEW s \in {"active"} \cup Stopped, calls = <<Call("hangup", c, s)>>
        PROVE plain
    <3>1. calls \in Seq(CallType) /\ Len(calls) = 1 /\ calls[1].call = "hangup"
      BY <2>3, HangupCallIs
    <3>2. 1..1 = {1} /\ 2..1 = {}
      OBVIOUS
    <3>3. QED
      BY <3>1, <3>2 DEF Low
  <2>4. QED
    BY <2>1, <2>2, <2>3 DEF Steady, SteadyCalls
<1>2. Fits(calls)
  BY <1>1 DEF Fits
<1>3. Shape' /\ stack' \in Seq(CallType)
  BY <1>0, <1>1, <1>2, ShapeAfter, ReturnCalls
<1>4. \A c : Dropping(c)' = Dropping(c)
  BY <1>0, <1>1, DroppingAfter DEF Steady, Low
<1>5. /\ \A f, c : HasCall(f, c)' <=> Made(calls, f, c) \/ Waits(f, c)
      /\ \A f, c : HasCall(f, c) <=> (Frame.call = f /\ Frame.id = c) \/ Waits(f, c)
  BY <1>0, <1>1, CallsAfter
<1>6. \A c : ~ Made(calls, "hung_up", c) /\ ~ Made(calls, "unref", c)
  BY <1>1 DEF Made, Low
<1>7. Frame.call \notin {"hung_up", "unref", "change_state"}
  BY DEF Steady
<1>8. \A c : HasCall("hung_up", c)' <=> HasCall("hung_up", c)
  BY <1>5, <1>6, <1>7
<1>9. \A c : HasCall("unref", c)' <=> HasCall("unref", c)
  BY <1>5, <1>6, <1>7
<1>10. \A c : Made(calls, "dial", c) => c \in Circuit /\ state[c] = "active"
  BY <1>1 DEF Made
<1>11. \A c : HasCall("dial", c)' => HasCall("dial", c) \/ (c \in Circuit /\ state[c] = "active")
  BY <1>5, <1>10
<1>12. TopOK'
  <2>1. CASE calls = << >>
    BY <1>0, <2>1, NothingOnTop DEF TopOK, TopOnly
  <2>2. ASSUME NEW c \in Circuit, calls = DialCalls(c), state[c] = "active" PROVE TopOK'
    <3>1. /\ Len(stack') \in Nat /\ Len(stack') >= 2
          /\ stack'[1].call = "change_state" /\ stack'[1].id = c /\ stack'[1].arg = "ready"
          /\ stack'[2].call = "dial" /\ stack'[2].id = c
      <4>1. /\ Len(calls) = 2
            /\ calls[1].call = "change_state" /\ calls[1].id = c /\ calls[1].arg = "ready"
            /\ calls[2].call = "dial" /\ calls[2].id = c
        BY <2>2, DialCallsAre
      <4>2. /\ Len(stack') = Len(calls) + Len(stack) - 1 /\ Len(stack) \in Nat /\ Len(stack) >= 1
            /\ \A i \in 1..Len(calls) : stack'[i] = calls[i]
        BY <1>0, <1>1, ReturnCalls
      <4>3. stack'[1] = calls[1] /\ stack'[2] = calls[2]
        BY <4>1, <4>2
      <4>4. QED
        BY <4>1, <4>2, <4>3
    <3>2. state' = state
      BY DEF Steady
    <3>3. ChangeOK(c, "ready")'
      BY <2>2, <3>1, <3>2 DEF ChangeOK, Alive, Stopped, UpStates
    <3>4. QED
      BY <3>1, <3>3 DEF TopOK
  <2>3. ASSUME NEW c \in Circuit, NEW s \in {"active"} \cup Stopped, calls = <<Call("hangup", c, s)>> PROVE TopOK'
    <3>1. calls[1].call = "hangup" /\ Len(calls) = 1 /\ 1 \in 1..1
      BY <2>3, HangupCallIs
    <3>2. stack'[1].call = "hangup"
      <4>1. \A i \in 1..Len(calls) : stack'[i] = calls[i]
        BY <1>0, <1>1, ReturnCalls
      <4>2. QED
        BY <3>1, <4>1
    <3>3. QED
      BY <3>2 DEF TopOK
  <2>4. QED
    BY <2>1, <2>2, <2>3 DEF Steady, SteadyCalls
<1>13. \A i \in 2..Len(stack) : stack[i].call = "dial" => state[stack[i].id] \in UpStates
  BY <1>0, <1>7, FrameIsFirst, ReturnCalls, <1>1 DEF Dialled
<1>14. Dialled'
  <2>1. SUFFICES ASSUME NEW i \in 1..Len(stack'), stack'[i].call = "dial"
                 PROVE  \/ state'[stack'[i].id] \in UpStates
                        \/ /\ i = 2 /\ stack'[1].call = "change_state"
                           /\ stack'[1].id = stack'[2].id /\ stack'[1].arg = "ready"
    BY DEF Dialled
  <2>2. CASE i \in 1..Len(calls)
    <3>1. stack'[i] = calls[i]
      BY <1>0, <1>1, <2>2, ReturnCalls
    <3>2. i = 2 /\ calls = DialCalls(calls[i].id) /\ calls[i].id \in Circuit
      BY <1>1, <2>1, <2>2, <3>1
    <3>3. stack'[1] = calls[1] /\ stack'[2] = calls[2]
      BY <1>0, <1>1, <2>2, <3>2, ReturnCalls
    <3>4. /\ calls[1].call = "change_state" /\ calls[1].id = calls[i].id /\ calls[1].arg = "ready"
          /\ calls[2].id = calls[i].id
      BY <3>2, DialCallsAre
    <3>5. QED
      BY <3>2, <3>3, <3>4
  <2>3. CASE i - Len(calls) + 1 \in 2..Len(stack) /\ stack'[i] = stack[i - Len(calls) + 1]
    BY <1>13, <2>1, <2>3 DEF Steady
  <2>4. QED
    BY <1>0, <1>1, <2>2, <2>3, ReturnCalls
<1>15. UniqueCalls'
  <2>1. SUFFICES ASSUME NEW i \in 1..Len(stack'), NEW j \in 1..Len(stack'), stack'[i].call = "dial",
                        stack'[j].call = "dial", stack'[i].id = stack'[j].id
                 PROVE  i = j
    BY DEF UniqueCalls
  <2>2. ASSUME NEW k \in 1..Len(stack'), NEW l \in 1..Len(stack'), stack'[k].call = "dial",
               stack'[l].call = "dial", stack'[k].id = stack'[l].id,
               k \in 1..Len(calls), l \notin 1..Len(calls)
        PROVE  FALSE
    <3>1. stack'[k] = calls[k] /\ l - Len(calls) + 1 \in 2..Len(stack) /\ stack'[l] = stack[l - Len(calls) + 1]
      BY <1>0, <1>1, <2>2, ReturnCalls
    <3>2. state[calls[k].id] = "active" /\ state[stack'[l].id] \in UpStates
      BY <1>1, <1>13, <2>2, <3>1
    <3>3. QED
      BY <2>2, <3>1, <3>2 DEF UpStates
  <2>3. CASE i \in 1..Len(calls) /\ j \in 1..Len(calls)
    <3>1. stack'[i] = calls[i] /\ stack'[j] = calls[j]
      BY <1>0, <1>1, <2>3, ReturnCalls
    <3>2. QED
      BY <1>1, <2>1, <2>3, <3>1
  <2>4. CASE i \notin 1..Len(calls) /\ j \notin 1..Len(calls)
    <3>1. /\ i - Len(calls) + 1 \in 2..Len(stack) /\ stack'[i] = stack[i - Len(calls) + 1]
          /\ j - Len(calls) + 1 \in 2..Len(stack) /\ stack'[j] = stack[j - Len(calls) + 1]
          /\ Len(calls) \in Nat
      BY <1>0, <1>1, <2>4, ReturnCalls
    <3>2. i - Len(calls) + 1 = j - Len(calls) + 1
      BY <2>1, <3>1 DEF UniqueCalls
    <3>3. QED
      BY <3>1, <3>2
  <2>5. QED
    BY <2>1, <2>2, <2>3, <2>4
<1>16. QED
  BY <1>1, <1>2, <1>3, <1>4, <1>8, <1>9, <1>11, <1>12, <1>14, <1>15

\* The functions leave alone what the other processes do, and the messages.
LEMMA FunctionFrame ==
  ASSUME UNCHANGED <<config, inbox, scripts, daemon>>
  PROVE  /\ \A t, c : HasMsg(t, c)' <=> HasMsg(t, c)
         /\ \A c : HasScript(c)' <=> HasScript(c)
         /\ \A c : Unreported(c)' = Unreported(c)
         /\ \A m : Report(m)' <=> Report(m)
         /\ Kind' = Kind /\ Protocols' = Protocols /\ Origin' = Origin
         /\ (UniqueScripts => UniqueScripts') /\ (UniqueMail => UniqueMail') /\ Tame' = Tame
BY DEF HasMsg, HasScript, Unreported, Report, Kind, Protocols, Origin, UniqueScripts,
   UniqueMail, Tame, DialMayFail

LEMMA MailKept ==
  ASSUME UNCHANGED <<config, inbox, scripts, daemon, hup>>, Mail, MailOrder, inbox \in Seq(MsgType),
         \A c \in Circuit : HupLive(c) => HupLive(c)'
  PROVE  Mail' /\ MailOrder'
<1>1. \A m : Report(m)' <=> Report(m)
  BY FunctionFrame
<1>2. \A m : Closing(m)' <=> Closing(m)
  BY DEF Closing
<1>3. Kind' = Kind /\ Protocols' = Protocols /\ Tame' = Tame
  BY FunctionFrame
<1>4. \A i \in 1..Len(inbox) : Report(inbox[i]) => inbox[i].id \in Circuit
  BY MailFacts DEF Report
<1>5. \A i \in 1..Len(inbox) : Report(inbox[i])' => HupLive(inbox[i].id)'
  BY <1>1, <1>4 DEF Mail
<1>6. Mail'
  BY <1>3, <1>5 DEF Mail
<1>7. MailOrder'
  BY <1>1, <1>2 DEF MailOrder
<1>8. QED
  BY <1>6, <1>7

\* All but what is said of the messages that ask to dial
LEMMA SteadyRest ==
  ASSUME IInv, NEW calls, Steady(calls), queue' \in [Circuit -> Seq({"dial", "hangup", "quit"})]
  PROVE  /\ Typed' /\ Tame' = Tame /\ Shape' /\ TopOK' /\ Dialled' /\ UniqueCalls' /\ UniqueScripts' /\ UniqueMail'
         /\ Mail' /\ MailOrder' /\ Registered' /\ Daemons' /\ Refs' /\ Clones'
<1> USE DEF IInv, Unique
<1>0. UNCHANGED <<config, state, force, protsUp, refs, globalMode, localMode, term, hup, nextId,
                  inbox, scripts, daemon>>
  BY DEF Steady
<1>1. /\ Shape' /\ stack' \in Seq(CallType)
      /\ \A c : Dropping(c)' = Dropping(c)
      /\ \A c : HasCall("hung_up", c)' <=> HasCall("hung_up", c)
      /\ \A c : HasCall("unref", c)' <=> HasCall("unref", c)
      /\ TopOK' /\ Dialled' /\ UniqueCalls'
  BY SteadyStack
<1>2. /\ \A c : Unreported(c)' = Unreported(c)
      /\ Kind' = Kind /\ Origin' = Origin
      /\ UniqueScripts' /\ UniqueMail' /\ Tame' = Tame
  BY <1>0, FunctionFrame
<1>3. \A c : HupLive(c)' <=> HupLive(c)
  BY <1>0, <1>1 DEF HupLive
<1>4. Typed'
  <2>1. /\ op' \in [Circuit -> {"", "dial", "hangup"}]
        /\ hangupState' \in [Circuit -> {"", "active", "inactive", "failed"}]
    BY DEF Steady
  <2>2. QED
    BY <1>0, <1>1, <2>1 DEF Typed
<1>5. Mail' /\ MailOrder'
  BY <1>0, <1>3, MailKept DEF Typed
<1>6. Registered'
  BY <1>0, <1>1, <1>2 DEF Registered
<1>7. Daemons'
  BY <1>0, <1>2, <1>3 DEF Daemons
<1>8. Refs'
  <2>1. \A c \in Circuit : Own(c)' = Own(c) /\ Exists(c)' = Exists(c)
    BY <1>0, <1>1 DEF Own, Exists
  <2>2. QED
    BY <1>0, <1>1, <1>2, <2>1 DEF Refs
<1>9. Clones'
  <2>1. stack[1].call # "change_state"
    BY FrameIsFirst DEF Steady, Typed
  <2>2. QED
    BY <1>0, <1>1, <1>2, <2>1 DEF Clones
<1>10. QED
  BY <1>1, <1>2, <1>4, <1>5, <1>6, <1>7, <1>8, <1>9

LEMMA SteadyStep ==
  ASSUME IInv, NEW calls, Steady(calls), SteadyQueues
  PROVE  IInv'
<1> USE DEF IInv, Unique
<1>0. UNCHANGED <<config, state, protsUp, hup, inbox, scripts, daemon>>
  BY DEF Steady
<1>1. /\ \A c : HasCall("hung_up", c)' <=> HasCall("hung_up", c)
      /\ \A c : HasCall("dial", c)' => HasCall("dial", c) \/ (c \in Circuit /\ state[c] = "active")
  BY SteadyStack
<1>2. /\ \A t, c : HasMsg(t, c)' <=> HasMsg(t, c)
      /\ \A c : HasScript(c)' <=> HasScript(c)
      /\ Kind' = Kind /\ Protocols' = Protocols /\ Tame' = Tame
  BY <1>0, FunctionFrame
<1>3. UniqueDials' /\ \A c \in Circuit : HasDial(c)' => HasDial(c)
  BY <1>0, DialsAreSteady
<1>4. \A c : HupLive(c)' <=> HupLive(c)
  BY <1>0, <1>1 DEF HupLive
<1>5. Sources'
  BY <1>0, <1>2, <1>3, <1>4 DEF Sources
<1>6. \A c \in Circuit : c \in Tame /\ state[c] = "active" =>
        ~ HasDial(c) /\ ~ HasScript(c) /\ ~ HasMsg("start_daemon", c) /\ ~ HasMsg("up_l3prot", c)
        /\ ~ HupLive(c) /\ protsUp[c] = {}
  BY DEF Sources, UpStates
<1>7. Exclusive'
  BY <1>0, <1>1, <1>2, <1>3, <1>4, <1>6 DEF Exclusive
<1>8. QED
  BY <1>3, <1>5, <1>7, SteadyRest DEF SteadyQueues

\* What a circuit is dialled or hung up with
LEMMA DialOrHangup ==
  ASSUME NEW c \in Circuit
  PROVE  /\ state[c] = "active" => SteadyCalls(Autodialup(c))
         /\ SteadyCalls(Autohangup(c)) /\ SteadyCalls(HangupCalls(c, "active"))
         /\ SteadyCalls(<< >>)
<1>1. \A s \in {"active"} \cup Stopped : SteadyCalls(HangupCalls(c, s))
  BY DEF SteadyCalls, HangupCalls
<1>2. SteadyCalls(<< >>)
  BY DEF SteadyCalls
<1>3. state[c] = "active" => SteadyCalls(Autodialup(c))
  BY <1>2 DEF SteadyCalls, Autodialup
<1>4. SteadyCalls(Autohangup(c))
  BY <1>1, <1>2 DEF Autohangup
<1>5. QED
  BY <1>1, <1>2, <1>3, <1>4

\* A function is called for a circuit.
LEMMA FrameFacts ==
  ASSUME Typed, stack # << >>
  PROVE  /\ Frame = stack[1] /\ Frame \in CallType
         /\ Frame.call # "check_exit" => Frame.id \in Circuit
         /\ Frame.call \in {"change_state", "state_changed"} => Frame.arg \in States
         /\ Frame.call = "hangup" => Frame.arg \in {"active"} \cup Stopped
         /\ Frame.call = "finalize_hangup" => Frame.arg \in {"", "force"}
         /\ Frame.call = "mode_changed" => Frame.arg \in Mode
<1>1. Frame = stack[1] /\ 1 \in 1..Len(stack) /\ stack \in Seq(CallType)
  BY FrameIsFirst DEF Typed
<1>2. QED
  BY <1>1, CallFacts

LEMMA SteadyFunctions ==
  ASSUME IInv,
         \/ circd_handle_state_change \/ circd_initiate_hangup \/ circd_stop_queue
         \/ ClearOperation \/ circd_check_exit \/ EffectiveDialmodeChange
  PROVE  IInv'
<1>0. Typed
  BY DEF IInv
<1> DEFINE typed == /\ op' \in [Circuit -> {"", "dial", "hangup"}]
                    /\ hangupState' \in [Circuit -> {"", "active", "inactive", "failed"}]
<1>1. CASE circd_handle_state_change
  <2>1. stack # << >> /\ Frame.call \in {"state_changed", "derive"}
    BY <1>1 DEF circd_handle_state_change, Running
  <2>2. Frame.id \in Circuit
    BY <1>0, <2>1, FrameFacts
  <2>3. Frame.call = "state_changed" => Frame.arg = state[Frame.id]
    BY <1>0, <2>1, FrameFacts DEF IInv, TopOK
  <2>4. PICK calls : Return(calls) /\ SteadyCalls(calls)
    <3>1. Return(IF state[Frame.id] = "active" /\ EffectiveMode(Frame.id) = "auto" THEN Autodialup(Frame.id)
                 ELSE IF state[Frame.id] \in UpStates THEN Autohangup(Frame.id) ELSE << >>)
      BY <1>1, <2>1, <2>3 DEF circd_handle_state_change
    <3>2. QED
      BY <2>2, <3>1, DialOrHangup
  <2>5. SteadyQueues
    BY <1>0, <1>1, QueuesAreSteady DEF circd_handle_state_change, procs, Typed
  <2>6. Steady(calls)
    BY <1>0, <1>1, <2>1, <2>4, <2>5 DEF Steady, Typed, circd_handle_state_change, conf,
       modes, dmns, life, procs
  <2>7. QED
    BY <2>6, <2>5, SteadyStep
<1>2. CASE EffectiveDialmodeChange
  <2>1. stack # << >> /\ Frame.call = "mode_changed"
    BY <1>2 DEF EffectiveDialmodeChange, Running
  <2>2. Frame.id \in Circuit
    BY <1>0, <2>1, FrameFacts
  <2>3. PICK calls : Return(calls) /\ SteadyCalls(calls)
    <3>1. \/ state[Frame.id] = "active" /\ Return(Autodialup(Frame.id))
          \/ Return(HangupCalls(Frame.id, "active"))
          \/ Return(<< >>)
      BY <1>2 DEF EffectiveDialmodeChange
    <3>2. QED
      BY <2>2, <3>1, DialOrHangup
  <2>4. SteadyQueues
    BY <1>0, <1>2, QueuesAreSteady DEF EffectiveDialmodeChange, procs, Typed
  <2>5. Steady(calls)
    BY <1>0, <1>2, <2>1, <2>3, <2>4 DEF Steady, Typed, EffectiveDialmodeChange, conf,
       modes, dmns, life, procs
  <2>6. QED
    BY <2>5, <2>4, SteadyStep
<1>3. CASE circd_initiate_hangup
  <2>1. stack # << >> /\ Frame.call = "hangup"
    BY <1>3 DEF circd_initiate_hangup, Running
  <2>2. Frame.id \in Circuit /\ Frame.arg \in {"active"} \cup Stopped
    BY <1>0, <2>1, FrameFacts
  <2>3. SteadyQueues
    BY <1>0, <1>3, <2>2, SendKeepsQueues DEF circd_initiate_hangup, Typed
  <2>4. typed
    BY <1>0, <1>3, <2>2 DEF circd_initiate_hangup, Typed, Stopped
  <2>5. Steady(<< >>)
    BY <1>3, <2>1, <2>3, <2>4 DEF Steady, SteadyCalls, circd_initiate_hangup, modes, dmns,
       life
  <2>6. QED
    BY <2>5, <2>3, SteadyStep
<1>4. CASE circd_stop_queue
  <2>1. stack # << >> /\ Frame.call = "stop_queue"
    BY <1>4 DEF circd_stop_queue, Running
  <2>2. Frame.id \in Circuit
    BY <1>0, <2>1, FrameFacts
  <2>3. SteadyQueues
    BY <1>0, <1>4, <2>2, SendKeepsQueues DEF circd_stop_queue, Typed
  <2>4. Steady(<< >>)
    BY <1>0, <1>4, <2>1, <2>3 DEF Steady, SteadyCalls, Typed, circd_stop_queue, conf,
       modes, dmns, life
  <2>5. QED
    BY <2>4, <2>3, SteadyStep
<1>5. CASE ClearOperation
  <2>1. stack # << >> /\ Frame.call = "clear_op"
    BY <1>5 DEF ClearOperation, Running
  <2>2. SteadyQueues
    BY <1>0, <1>5, QueuesAreSteady DEF ClearOperation, procs, Typed
  <2>3. typed
    BY <1>0, <1>5 DEF ClearOperation, Typed
  <2>4. Steady(<< >>)
    BY <1>5, <2>1, <2>2, <2>3 DEF Steady, SteadyCalls, ClearOperation, modes, dmns, life,
       procs
  <2>5. QED
    BY <2>4, <2>2, SteadyStep
<1>6. CASE circd_check_exit
  <2>1. stack # << >> /\ Frame.call = "check_exit"
    BY <1>6 DEF circd_check_exit, Running
  <2>2. SteadyQueues
    BY <1>0, <1>6, QueuesAreSteady DEF circd_check_exit, procs, Typed
  <2>3. Steady(<< >>)
    BY <1>0, <1>6, <2>1, <2>2 DEF Steady, SteadyCalls, Typed, circd_check_exit, conf,
       modes, dmns, procs
  <2>4. QED
    BY <2>3, <2>2, SteadyStep
<1>7. QED
  BY <1>1, <1>2, <1>3, <1>4, <1>5, <1>6

LEMMA SendIsTyped ==
  ASSUME queue \in [Circuit -> Seq({"dial", "hangup", "quit"})], NEW c \in Circuit,
         NEW m \in {"dial", "hangup", "quit"}, SendToQueue(c, m)
  PROVE  queue' \in [Circuit -> Seq({"dial", "hangup", "quit"})]
BY DEF SendToQueue

LEMMA DialStep ==
  ASSUME IInv, circd_initiate_dialup
  PROVE  IInv'
<1> USE DEF IInv, Unique
<1> DEFINE c == Frame.id
<1>1. stack # << >> /\ Frame.call = "dial" /\ Typed /\ Return(<< >>)
  BY DEF circd_initiate_dialup, Running
<1>2. c \in Circuit /\ Frame = stack[1] /\ 1 \in 1..Len(stack)
  BY <1>1, FrameFacts, FrameIsFirst DEF Typed
<1>3. state[c] \in UpStates /\ HasCall("dial", c) /\ (c \in Tame => ~ HasDial(c))
  BY <1>1, <1>2 DEF Dialled, HasCall, Exclusive
<1>4. queue' \in [Circuit -> Seq({"dial", "hangup", "quit"})]
  BY <1>2, SendIsTyped DEF Typed, circd_initiate_dialup
<1>a. Tame' = Tame
  BY DEF circd_initiate_dialup, Tame, Kind, Protocols, DialMayFail
<1>5. /\ UniqueDials' /\ \A x \in Circuit : HasDial(x)' => HasDial(x) \/ x = c
  <2>1. CASE queue' = queue
    BY <1>a, <2>1 DEF UniqueDials, HasDial
  <2>2. CASE queue' = [queue EXCEPT ![c] = Append(@, "dial")]
    <3>1. \A x \in Circuit : x # c => queue'[x] = queue[x]
      BY <1>2, <2>2 DEF Typed
    <3>2. queue'[c] = Append(queue[c], "dial") /\ queue[c] \in Seq({"dial", "hangup", "quit"})
      BY <1>2, <2>2 DEF Typed
    <3>3. c \in Tame => \A i \in 1..Len(queue'[c]) : queue'[c][i] = "dial" => i = Len(queue[c]) + 1
      BY <1>3, <3>2 DEF HasDial
    <3>4. c \in Tame => \A i, j \in 1..Len(queue'[c]) : queue'[c][i] = "dial" /\ queue'[c][j] = "dial" => i = j
      BY <3>3
    <3>5. UniqueDials'
      BY <1>a, <3>1, <3>4 DEF UniqueDials
    <3>6. \A x \in Circuit : HasDial(x)' => HasDial(x) \/ x = c
      BY <3>1 DEF HasDial
    <3>7. QED
      BY <3>5, <3>6
  <2>3. QED
    BY <2>1, <2>2 DEF circd_initiate_dialup, SendToQueue
<1>6. Steady(<< >>)
  BY <1>1, <1>2 DEF Steady, SteadyCalls, circd_initiate_dialup, modes, dmns, life, Typed
<1>7. UNCHANGED <<config, state, protsUp, hup, inbox, scripts, daemon>>
  BY <1>6 DEF Steady
<1>8. /\ \A t, x : HasMsg(t, x)' <=> HasMsg(t, x)
      /\ \A x : HasScript(x)' <=> HasScript(x)
      /\ Kind' = Kind /\ Protocols' = Protocols /\ Tame' = Tame
  BY <1>7, FunctionFrame
<1>9. /\ \A x : HasCall("hung_up", x)' <=> HasCall("hung_up", x)
      /\ \A x : HasCall("dial", x)' => HasCall("dial", x) /\ x # c
  <2>1. /\ \A f, x : HasCall(f, x)' <=> Made(<< >>, f, x) \/ Waits(f, x)
        /\ \A f, x : HasCall(f, x) <=> (Frame.call = f /\ Frame.id = x) \/ Waits(f, x)
    <3>1. << >> \in Seq(CallType)
      OBVIOUS
    <3>2. QED
      BY <1>1, <3>1, CallsAfter DEF Typed
  <2>2. \A f, x : ~ Made(<< >>, f, x)
    BY DEF Made
  <2>3. ~ Waits("dial", c)
    BY <1>1, <1>2 DEF Waits, UniqueCalls
  <2>4. QED
    BY <1>1, <2>1, <2>2, <2>3
<1>10. \A x : HupLive(x)' <=> HupLive(x)
  BY <1>7, <1>9 DEF HupLive
<1>11. Sources'
  BY <1>3, <1>5, <1>7, <1>8, <1>10 DEF Sources
<1>12. Exclusive'
  BY <1>3, <1>5, <1>7, <1>8, <1>9, <1>10 DEF Exclusive
<1>13. QED
  BY <1>4, <1>5, <1>6, <1>11, <1>12, SteadyRest

-----------------------------------------------------------------------------
(* A change of state                                                       *)

LEMMA FunctionIsSeq ==
  ASSUME NEW S, NEW n \in Nat, NEW f \in [1..n -> S]
  PROVE  f \in Seq(S) /\ Len(f) = n
OBVIOUS

\* What circd_change_state calls
DerivedCalls(c, new, revdeps, derived) ==
  \/ derived = << >>
  \/ derived = <<Call("state_changed", c, new)>> \o [i \in 1..Len(revdeps) |-> Call("derive", revdeps[i], "")]
StopCalls(c, stop) == stop = << >> \/ stop = <<Call("stop_queue", c, "")>>

ChangeCalls(c, new, revdeps, calls) ==
  \E derived, stop : DerivedCalls(c, new, revdeps, derived) /\ StopCalls(c, stop) /\ calls = derived \o stop

LEMMA ChangeCallsAre ==
  ASSUME NEW c \in Circuit, NEW new \in States, NEW revdeps \in Seq(Circuit), NEW calls,
         ChangeCalls(c, new, revdeps, calls)
  PROVE  /\ calls \in Seq(CallType)
         /\ \A i \in 1..Len(calls) : calls[i].call \in {"state_changed", "derive", "stop_queue"}
         /\ \A i \in 1..Len(calls) : calls[i].call = "state_changed" =>
              i = 1 /\ calls[i].id = c /\ calls[i].arg = new
<1>0. PICK derived, stop : DerivedCalls(c, new, revdeps, derived) /\ StopCalls(c, stop) /\ calls = derived \o stop
  BY DEF ChangeCalls
<1> DEFINE derives == [i \in 1..Len(revdeps) |-> Call("derive", revdeps[i], "")]
           Only(seq, f) == seq \in Seq(CallType) /\ \A i \in 1..Len(seq) : seq[i].call = f
<1>1. Len(revdeps) \in Nat /\ \A i \in 1..Len(revdeps) : revdeps[i] \in Circuit
  OBVIOUS
<1>2. \A i \in 1..Len(revdeps) : Call("derive", revdeps[i], "") \in CallType /\ Call("derive", revdeps[i], "").call = "derive"
  <2>1. \A d \in Circuit : Call("derive", d, "") \in CallType
    BY CallsAreTyped
  <2>2. \A d \in Circuit : Call("derive", d, "").call = "derive"
    BY DEF Call
  <2>3. QED
    BY <1>1, <2>1, <2>2
<1>3. Only(derives, "derive")
  <2>1. derives \in [1..Len(revdeps) -> CallType] /\ \A i \in 1..Len(revdeps) : derives[i].call = "derive"
    BY <1>2
  <2> HIDE DEF derives
  <2>2. derives \in Seq(CallType) /\ Len(derives) = Len(revdeps)
    BY <1>1, <2>1, FunctionIsSeq
  <2>3. QED
    BY <2>1, <2>2
<1>4. Only(stop, "stop_queue")
  <2>1. CASE stop = << >>
    BY <2>1
  <2>2. CASE stop = <<Call("stop_queue", c, "")>>
    <3>1. PICK x \in CallType : x = Call("stop_queue", c, "") /\ x.call = "stop_queue"
      BY CallsAreTyped DEF Call
    <3>2. stop \in Seq(CallType) /\ Len(stop) = 1 /\ stop[1] = x
      BY <2>2, <3>1, OneCall
    <3>3. \A i \in 1..1 : i = 1
      OBVIOUS
    <3>4. QED
      BY <3>1, <3>2, <3>3
  <2>3. QED
    BY <1>0, <2>1, <2>2 DEF StopCalls
<1>5. PICK first \in CallType : first = Call("state_changed", c, new) /\ first.call = "state_changed"
                               /\ first.id = c /\ first.arg = new
  BY CallsAreTyped DEF Call
<1>6. derived = << >> \/ derived = <<first>> \o derives
  BY <1>0, <1>5 DEF DerivedCalls
<1> HIDE DEF derives
<1>7. /\ derived \in Seq(CallType)
      /\ \A i \in 1..Len(derived) : derived[i].call \in {"state_changed", "derive"}
      /\ \A i \in 1..Len(derived) : derived[i].call = "state_changed" =>
           i = 1 /\ derived[i].id = c /\ derived[i].arg = new
  <2>1. CASE derived = << >>
    BY <2>1
  <2>2. CASE derived = <<first>> \o derives
    <3>1. /\ derived \in Seq(CallType) /\ Len(derived) = 1 + Len(derives) /\ Len(derives) \in Nat
          /\ derived[1] = first /\ \A i \in 2..Len(derived) : derived[i] = derives[i - 1] /\ i - 1 \in 1..Len(derives)
      BY <1>3, <1>5, <2>2
    <3>2. \A i \in 2..Len(derived) : derived[i].call = "derive"
      BY <1>3, <3>1
    <3>3. \A i \in 1..Len(derived) : i = 1 \/ i \in 2..Len(derived)
      BY <3>1
    <3>4. QED
      BY <1>5, <3>1, <3>2, <3>3
  <2>3. QED
    BY <1>6, <2>1, <2>2
<1>8. /\ calls \in Seq(CallType) /\ Len(derived) \in Nat
      /\ \A i \in 1..Len(calls) : \/ i \in 1..Len(derived) /\ calls[i] = derived[i]
                                  \/ i - Len(derived) \in 1..Len(stop) /\ calls[i] = stop[i - Len(derived)]
  BY <1>0, <1>4, <1>7, ConcatProperties
<1>9. \A i \in 1..Len(calls) : \/ i \in 1..Len(derived) /\ calls[i] = derived[i]
                               \/ calls[i].call = "stop_queue"
  BY <1>4, <1>8
<1>10. /\ \A i \in 1..Len(calls) : calls[i].call \in {"state_changed", "derive", "stop_queue"}
       /\ \A i \in 1..Len(calls) : calls[i].call = "state_changed" =>
              i = 1 /\ calls[i].id = c /\ calls[i].arg = new
  BY <1>7, <1>9
<1>11. QED
  BY <1>8, <1>10

LEMMA ChangeStep ==
  ASSUME IInv, circd_change_state
  PROVE  IInv'
<1> USE DEF IInv, Unique
<1> DEFINE c == Frame.id
           new == Frame.arg
<1>1. stack # << >> /\ Frame.call = "change_state" /\ Typed
  BY DEF circd_change_state, Running
<1>2. c \in Circuit /\ new \in States /\ Frame = stack[1] /\ stack \in Seq(CallType)
  BY <1>1, FrameFacts DEF Typed
<1>3. ChangeOK(c, new)
  BY <1>1, <1>2 DEF TopOK
<1>4. state[c] \in Alive
  BY <1>3 DEF ChangeOK
<1>5. state' = [state EXCEPT ![c] = new]
  BY <1>1, <1>4 DEF circd_change_state, Alive, Stopped, UpStates
<1>6. PICK calls \in Seq(CallType) :
        /\ Return(calls)
        /\ \A i \in 1..Len(calls) : calls[i].call \in {"state_changed", "derive", "stop_queue"}
        /\ \A i \in 1..Len(calls) : calls[i].call = "state_changed" =>
              i = 1 /\ calls[i].id = c /\ calls[i].arg = new
  <2>1. circd_revdeps(c) \in Seq(Circuit)
    <3> DEFINE S == {d \in Circuit : Exists(d) /\ (Origin[d] = c \/ \E x \in Deps[d] : c \in x.on)}
    <3>1. S \in SUBSET Circuit /\ circd_revdeps(c) = InOrder(S)
      BY DEF circd_revdeps
    <3>2. InOrder(S) \in Seq(S)
      BY <3>1, InOrderIsOf
    <3>3. QED
      BY <3>1, <3>2
  <2>2. PICK revdeps \in Seq(Circuit) : revdeps = circd_revdeps(c)
    BY <2>1
  <2>3. PICK calls : ChangeCalls(c, new, revdeps, calls) /\ Return(calls)
    <3>1. PICK derived, stop :
            DerivedCalls(c, new, revdeps, derived) /\ StopCalls(c, stop) /\ Return(derived \o stop)
      BY <1>4, <2>2, Zenon DEF DerivedCalls, StopCalls, circd_change_state, Alive,
         Stopped, UpStates
    <3>2. QED
      BY <3>1, Zenon DEF ChangeCalls
  <2>4. QED
    BY <1>2, <2>2, <2>3, ChangeCallsAre
<1>7. /\ UNCHANGED <<config, force, protsUp, refs, globalMode, localMode, term, hup, nextId,
                     inbox, scripts, daemon, op, hangupState, queue>>
  BY DEF circd_change_state, modes, dmns, life, procs
<1>8. /\ Len(calls) \in Nat /\ Len(stack') \in Nat
      /\ \A i \in 1..Len(calls) : stack'[i] = calls[i]
      /\ \A i \in 1..Len(stack') : i \in 1..Len(calls)
                \/ (i - Len(calls) + 1 \in 2..Len(stack) /\ stack'[i] = stack[i - Len(calls) + 1])
  BY <1>1, <1>2, <1>6, ReturnCalls
<1>9. Shape' /\ stack' \in Seq(CallType) /\ \A x : Dropping(x)' = Dropping(x)
  <2>1. Fits(calls)
    BY <1>6 DEF Fits, TopOnly, Low
  <2>2. QED
    BY <1>1, <1>2, <1>6, <2>1, ShapeAfter, DroppingAfter, ReturnCalls
<1>10. \A f \in {"hung_up", "unref", "dial"} : \A x : HasCall(f, x)' <=> HasCall(f, x)
  <2>1. /\ \A f, x : HasCall(f, x)' <=> Made(calls, f, x) \/ Waits(f, x)
        /\ \A f, x : HasCall(f, x) <=> (Frame.call = f /\ Frame.id = x) \/ Waits(f, x)
    BY <1>1, <1>2, <1>6, CallsAfter
  <2>2. \A f \in {"hung_up", "unref", "dial"} : \A x : ~ Made(calls, f, x)
    BY <1>6 DEF Made
  <2>3. QED
    BY <1>1, <2>1, <2>2
<1>11. /\ \A t, x : HasMsg(t, x)' <=> HasMsg(t, x)
       /\ \A x : HasScript(x)' <=> HasScript(x)
       /\ \A x : HasDial(x)' <=> HasDial(x)
       /\ \A x : Unreported(x)' = Unreported(x)
       /\ Kind' = Kind /\ Protocols' = Protocols /\ Origin' = Origin
       /\ UniqueScripts' /\ UniqueMail' /\ UniqueDials' /\ Tame' = Tame
  BY <1>7, FunctionFrame DEF HasDial, UniqueDials
<1>12. \A x : HupLive(x)' <=> HupLive(x)
  BY <1>7, <1>10 DEF HupLive
<1>13. state'[c] = new /\ \A x \in Circuit : x # c => state'[x] = state[x]
  BY <1>2, <1>5 DEF Typed
<1>14. Typed'
  BY <1>2, <1>5, <1>7, <1>9 DEF Typed
<1>15. TopOK'
  <2>1. CASE calls = << >>
    BY <1>1, <1>2, <1>6, <2>1, NothingOnTop DEF TopOK, TopOnly
  <2>2. CASE calls # << >>
    <3>1. 1 \in 1..Len(calls)
      BY <1>6, <2>2
    <3>2. stack'[1] = calls[1]
      BY <1>8, <3>1
    <3>3. stack'[1].call \in {"state_changed", "derive", "stop_queue"}
      BY <1>6, <3>1, <3>2
    <3>4. stack'[1].call = "state_changed" => state'[stack'[1].id] = stack'[1].arg
      BY <1>6, <1>13, <3>1, <3>2
    <3>5. QED
      BY <3>3, <3>4 DEF TopOK
  <2>3. QED
    BY <2>1, <2>2
<1>16. new \notin UpStates => ~ HasCall("dial", c) /\ (c \in Tame => Quiet(c) /\ ~ HupLive(c))
  BY <1>3 DEF ChangeOK
<1>17. Dialled'
  <2>1. SUFFICES ASSUME NEW i \in 1..Len(stack'), stack'[i].call = "dial" PROVE state'[stack'[i].id] \in UpStates
    BY DEF Dialled
  <2>2. PICK j \in 2..Len(stack) : stack'[i] = stack[j]
    BY <1>6, <1>8, <2>1
  <2>3. \/ state[stack[j].id] \in UpStates
        \/ stack[j].id = c /\ new = "ready"
    BY <1>2, <2>1, <2>2 DEF Dialled
  <2>4. stack[j].id = c => HasCall("dial", c)
    BY <2>1, <2>2 DEF HasCall
  <2>5. stack[j].id = c => new \in UpStates
    BY <1>16, <2>4
  <2>6. stack[j].id \in Circuit
    <3>1. j \in 1..Len(stack) /\ stack[j].call # "check_exit"
      BY <2>1, <2>2
    <3>2. QED
      BY <1>2, <3>1, CallFacts
  <2>7. QED
    BY <1>13, <2>2, <2>3, <2>5, <2>6
<1>18. UniqueCalls'
  <2>1. SUFFICES ASSUME NEW i \in 1..Len(stack'), NEW j \in 1..Len(stack'), stack'[i].call = "dial",
                        stack'[j].call = "dial", stack'[i].id = stack'[j].id
                 PROVE  i = j
    BY DEF UniqueCalls
  <2>2. /\ i - Len(calls) + 1 \in 2..Len(stack) /\ stack'[i] = stack[i - Len(calls) + 1]
        /\ j - Len(calls) + 1 \in 2..Len(stack) /\ stack'[j] = stack[j - Len(calls) + 1]
    BY <1>6, <1>8, <2>1
  <2>3. i - Len(calls) + 1 = j - Len(calls) + 1
    BY <2>1, <2>2 DEF UniqueCalls
  <2>4. QED
    BY <1>8, <2>3
<1>19. Sources'
  BY <1>7, <1>11, <1>12, <1>13, <1>16 DEF Sources, Quiet
<1>20. Exclusive'
  BY <1>7, <1>10, <1>11, <1>12 DEF Exclusive
<1>21. Mail' /\ MailOrder'
  BY <1>7, <1>12, MailKept DEF Typed
<1>22. Registered'
  BY <1>7, <1>10, <1>11 DEF Registered
<1>23. Daemons'
  BY <1>7, <1>11, <1>12 DEF Daemons
<1>24. Refs'
  <2>1. \A x \in Circuit : Exists(x)' = Exists(x)
    BY <1>2, <1>4, <1>13 DEF Exists, Alive, Stopped, UpStates, States
  <2>2. \A x \in Circuit : Own(x)' = Own(x)
    BY <1>3, <1>4, <1>10, <1>13 DEF Own, ChangeOK, Alive, Stopped, UpStates
  <2>3. QED
    BY <1>7, <1>9, <1>10, <1>11, <2>1, <2>2 DEF Refs
<1>25. Clones'
  <2>1. state[c] # "none" /\ state[c] # "deleted"
    BY <1>4 DEF Alive, Stopped, UpStates
  <2>2. new = "deleted" => Origin[c] # 0
    BY <1>3 DEF ChangeOK
  <2>3. QED
    BY <1>2, <1>7, <1>10, <1>11, <1>13, <2>1, <2>2 DEF Clones
<1>26. QED
  BY <1>9, <1>11, <1>14, <1>15, <1>17, <1>18, <1>19, <1>20, <1>21, <1>22, <1>23, <1>24,
     <1>25

-----------------------------------------------------------------------------
(* The end of a hangup, and of a circuit                                   *)

\* When one of these functions is called, at most the dropping of a reference waits.
LEMMA LowStack ==
  ASSUME stack \in Seq(CallType), Shape, stack # << >>, Frame.call \in Low
  PROVE  /\ Frame = stack[1] /\ Len(stack) \in {1, 2} /\ (Len(stack) = 2 => stack[2].call = "unref")
         /\ \A f, x : f # "unref" => ~ Waits(f, x)
         /\ \A f, x : f # "unref" => (HasCall(f, x) <=> Frame.call = f /\ Frame.id = x)
<1>1. Frame = stack[1] /\ 1 \in 1..Len(stack) /\ Len(stack) \in Nat
  BY FrameIsFirst
<1>2. 1 >= Len(stack) - 1 /\ \A j \in 2..Len(stack) : stack[j].call = "unref"
  <2>1. /\ 1 >= Len(stack) - 1 /\ \A j \in (1 + 1)..Len(stack) : stack[j].call = "unref"
    BY <1>1 DEF Shape
  <2>2. QED
    BY <2>1
<1>3. Len(stack) \in {1, 2}
  <2>1. \A n \in Nat : 1 \in 1..n /\ 1 >= n - 1 => n \in {1, 2}
    OBVIOUS
  <2>2. QED
    BY <1>1, <1>2, <2>1
<1>4. \A f, x : f # "unref" => ~ Waits(f, x)
  BY <1>2 DEF Waits
<1>5. \A f, x : HasCall(f, x) <=> (Frame.call = f /\ Frame.id = x) \/ Waits(f, x)
  <2>1. 1..Len(stack) = {1} \cup 2..Len(stack)
    BY <1>1
  <2>2. QED
    BY <1>1, <2>1 DEF HasCall, Waits
<1>6. Len(stack) = 2 => stack[2].call = "unref"
  BY <1>2
<1>7. QED
  BY <1>1, <1>3, <1>4, <1>5, <1>6

LEMMA LowAfter ==
  ASSUME stack \in Seq(CallType), Shape, stack # << >>, Frame.call \in Low,
         NEW calls \in Seq(CallType), Return(calls), Fits(calls),
         \A i \in 1..Len(calls) : calls[i].call # "dial"
  PROVE  /\ Shape' /\ stack' \in Seq(CallType)
         /\ \A x : ~ HasCall("dial", x) /\ ~ HasCall("dial", x)'
         /\ \A f, x : f # "unref" => (HasCall(f, x) <=> Frame.call = f /\ Frame.id = x)
         /\ \A f, x : f # "unref" => (HasCall(f, x)' <=> Made(calls, f, x))
         /\ Dialled' /\ UniqueCalls'
<1>1. Shape' /\ stack' \in Seq(CallType)
  BY ShapeAfter, ReturnCalls
<1>2. \A f, x : f # "unref" => ~ Waits(f, x) /\ (HasCall(f, x) <=> Frame.call = f /\ Frame.id = x)
  BY LowStack
<1>3. \A f, x : f # "unref" => (HasCall(f, x)' <=> Made(calls, f, x))
  BY <1>2, CallsAfter
<1>4. \A x : ~ Made(calls, "dial", x)
  BY DEF Made
<1>5. \A x : ~ HasCall("dial", x) /\ ~ HasCall("dial", x)'
  BY <1>2, <1>3, <1>4 DEF Low
<1>6. \A i \in 1..Len(stack') : stack'[i].call # "dial"
  BY <1>5 DEF HasCall
<1>7. Dialled' /\ UniqueCalls'
  BY <1>6 DEF Dialled, UniqueCalls
<1>8. QED
  BY <1>1, <1>2, <1>3, <1>5, <1>7

\* What circd_finalize_hangup calls when it completes the hangup of c, with a change to
\* the state s or without
FinalizeCalls(c, s, calls) ==
  /\ calls \in Seq(CallType)
  /\ \/ /\ s = "none" /\ Len(calls) = 2
        /\ calls[1].call = "clear_op" /\ calls[1].id = c /\ calls[1].arg = "hangup"
        /\ calls[2].call = "hung_up" /\ calls[2].id = c
     \/ /\ s \in {"active", "deleted"} \cup Stopped /\ Len(calls) = 3
        /\ calls[1].call = "change_state" /\ calls[1].id = c /\ calls[1].arg = s
        /\ calls[2].call = "clear_op" /\ calls[2].id = c /\ calls[2].arg = "hangup"
        /\ calls[3].call = "hung_up" /\ calls[3].id = c

LEMMA Join ==
  ASSUME NEW S, NEW s \in Seq(S), NEW x \in S
  PROVE  /\ s \o <<x>> \in Seq(S) /\ Len(s \o <<x>>) = Len(s) + 1 /\ Len(s) \in Nat
         /\ \A i \in 1..Len(s) : (s \o <<x>>)[i] = s[i]
         /\ (s \o <<x>>)[Len(s) + 1] = x
<1>1. <<x>> \in Seq(S) /\ Len(<<x>>) = 1 /\ <<x>>[1] = x /\ Len(s) \in Nat
  OBVIOUS
<1>2. /\ s \o <<x>> \in Seq(S) /\ Len(s \o <<x>>) = Len(s) + 1
      /\ \A i \in 1..(Len(s) + 1) : (s \o <<x>>)[i] = IF i <= Len(s) THEN s[i] ELSE <<x>>[i - Len(s)]
  BY <1>1, ConcatProperties
<1>3. \A i \in 1..Len(s) : (s \o <<x>>)[i] = s[i]
  BY <1>1, <1>2
<1>4. Len(s) + 1 \in 1..(Len(s) + 1) /\ ~ (Len(s) + 1 <= Len(s)) /\ (Len(s) + 1) - Len(s) = 1
  BY <1>1
<1>5. QED
  BY <1>1, <1>2, <1>3, <1>4

LEMMA FinalizeCallsAre ==
  ASSUME NEW c \in Circuit
  PROVE  /\ FinalizeCalls(c, "none", (<< >> \o <<Call("clear_op", c, "hangup")>>) \o <<Call("hung_up", c, "")>>)
         /\ \A s \in {"active", "deleted"} \cup Stopped :
              FinalizeCalls(c, s, (<<Call("change_state", c, s)>> \o <<Call("clear_op", c, "hangup")>>)
                                  \o <<Call("hung_up", c, "")>>)
<1>1. PICK x \in CallType, y \in CallType :
            /\ x = Call("clear_op", c, "hangup") /\ y = Call("hung_up", c, "")
            /\ x.call = "clear_op" /\ x.id = c /\ x.arg = "hangup" /\ y.call = "hung_up" /\ y.id = c
  BY CallsAreTyped DEF Call
<1>2. ASSUME NEW q \in Seq(CallType)
      PROVE  \E r \in Seq(CallType) :
               /\ r = (q \o <<x>>) \o <<y>> /\ Len(r) = Len(q) + 2
               /\ \A i \in 1..Len(q) : r[i] = q[i]
               /\ r[Len(q) + 1] = x /\ r[Len(q) + 2] = y
  <2>1. PICK u \in Seq(CallType) : /\ u = q \o <<x>> /\ Len(u) = Len(q) + 1 /\ Len(q) \in Nat
                                   /\ \A i \in 1..Len(q) : u[i] = q[i]
                                   /\ u[Len(q) + 1] = x
    BY Join
  <2>2. PICK r \in Seq(CallType) : /\ r = u \o <<y>> /\ Len(r) = Len(u) + 1 /\ Len(u) \in Nat
                                   /\ \A i \in 1..Len(u) : r[i] = u[i]
                                   /\ r[Len(u) + 1] = y
    BY Join
  <2>3. r = (q \o <<x>>) \o <<y>> /\ Len(r) = Len(q) + 2 /\ r[Len(q) + 2] = y
    BY <2>1, <2>2
  <2>4. \A i \in 1..Len(q) : i \in 1..Len(u)
    BY <2>1
  <2>5. Len(q) + 1 \in 1..Len(u)
    BY <2>1
  <2>6. QED
    BY <2>1, <2>2, <2>3, <2>4, <2>5
<1>3. FinalizeCalls(c, "none", (<< >> \o <<x>>) \o <<y>>)
  <2>1. << >> \in Seq(CallType) /\ Len(<< >>) = 0
    OBVIOUS
  <2>2. PICK r \in Seq(CallType) : r = (<< >> \o <<x>>) \o <<y>> /\ Len(r) = 0 + 2 /\ r[0 + 1] = x /\ r[0 + 2] = y
    BY <1>2, <2>1
  <2>3. Len(r) = 2 /\ r[1] = x /\ r[2] = y
    BY <2>2
  <2>4. FinalizeCalls(c, "none", r)
    BY <1>1, <2>3 DEF FinalizeCalls
  <2>5. QED
    BY <2>2, <2>4
<1>4. ASSUME NEW s \in {"active", "deleted"} \cup Stopped
      PROVE  FinalizeCalls(c, s, (<<Call("change_state", c, s)>> \o <<x>>) \o <<y>>)
  <2>1. PICK z \in CallType : z = Call("change_state", c, s) /\ z.call = "change_state" /\ z.id = c /\ z.arg = s
    BY CallsAreTyped DEF Call, States, Stopped
  <2>2. <<z>> \in Seq(CallType) /\ Len(<<z>>) = 1 /\ <<z>>[1] = z /\ 1 \in 1..1
    BY OneCall
  <2>3. PICK r \in Seq(CallType) : /\ r = (<<z>> \o <<x>>) \o <<y>> /\ Len(r) = 1 + 2
                                   /\ r[1] = z /\ r[1 + 1] = x /\ r[1 + 2] = y
    BY <1>2, <2>2
  <2>4. Len(r) = 3 /\ r[1] = z /\ r[2] = x /\ r[3] = y
    <3>1. 1 + 2 = 3 /\ 1 + 1 = 2
      OBVIOUS
    <3>2. QED
      BY <2>3, <3>1
  <2>5. FinalizeCalls(c, s, r)
    BY <1>1, <2>1, <2>4 DEF FinalizeCalls
  <2>6. QED
    BY <2>1, <2>3, <2>5
<1>5. QED
  BY <1>1, <1>3, <1>4

LEMMA FinalizeReturns ==
  ASSUME Typed, circd_finalize_hangup, NEW c \in Circuit, c = Frame.id, ~ force[c], state[c] \in Alive,
         protsUp[c] = {}, hup[c] = NoPid \/ Frame.arg = "force"
  PROVE  \E s, calls :
           /\ FinalizeCalls(c, s, calls) /\ Return(calls)
           /\ Origin[c] # 0 <=> s = "deleted"
           /\ s = "active" => state[c] \in UpStates
           /\ s = "none" => state[c] \notin UpStates
<1> DEFINE target == IF hangupState[c] = "" THEN "active" ELSE hangupState[c]
           last == <<Call("hung_up", c, "")>>
           Complete(change) == (change \o <<Call("clear_op", c, "hangup")>>) \o last
<1>1. target \in {"active"} \cup Stopped
  BY DEF Typed, Stopped
<1>2. \/ Origin[c] # 0 /\ Return(Complete(<<Call("change_state", c, "deleted")>>))
      \/ /\ Origin[c] = 0 /\ state[c] \in {"inactive", "failed", "active"}
         /\ Return(Complete(<< >>))
      \/ /\ Origin[c] = 0 /\ ~ (state[c] \in {"inactive", "failed", "active"} /\ target = "active")
         /\ Return(Complete(<<Call("change_state", c, target)>>))
  BY DEF circd_finalize_hangup, Alive, Stopped, UpStates
<1>3. /\ FinalizeCalls(c, "none", Complete(<< >>))
      /\ FinalizeCalls(c, "deleted", Complete(<<Call("change_state", c, "deleted")>>))
      /\ FinalizeCalls(c, target, Complete(<<Call("change_state", c, target)>>))
  BY <1>1, FinalizeCallsAre
<1> HIDE DEF Complete, target
<1>4. QED
  BY <1>1, <1>2, <1>3 DEF Alive, Stopped, UpStates

LEMMA FinalizeStep ==
  ASSUME IInv, circd_finalize_hangup
  PROVE  IInv'
<1> USE DEF IInv, Unique
<1> DEFINE f == Frame.arg = "force"
<1>1. stack # << >> /\ Frame.call = "finalize_hangup" /\ Typed /\ stack \in Seq(CallType)
  BY DEF circd_finalize_hangup, Running, Typed
<1>2. Frame.id \in Circuit /\ Frame.arg \in {"", "force"} /\ Frame = stack[1]
  BY <1>1, FrameFacts
<1> SUFFICES ASSUME NEW c \in Circuit, c = Frame.id PROVE IInv'
  BY <1>2
<1>3. FinalizeOK(c, Frame.arg)
  BY <1>1, <1>2 DEF TopOK
<1>4. ~ force[c] /\ force' = [force EXCEPT ![c] = f]
  BY <1>3 DEF FinalizeOK, circd_finalize_hangup
<1>5. UNCHANGED <<config, state, op, hangupState, protsUp, refs, globalMode, localMode, term, hup, nextId,
                  inbox, scripts, daemon, queue>>
  BY DEF circd_finalize_hangup, modes, dmns, life, procs
<1>6. CASE protsUp[c] # {} \/ (hup[c] # NoPid /\ ~ f)
  <2>1. Return(<< >>)
    BY <1>4, <1>6 DEF circd_finalize_hangup
  <2>2. ~ f
    BY <1>2, <1>3, <1>6 DEF FinalizeOK, Sources
  <2>3. force' = force
    <3>1. f = force[c] /\ force \in [Circuit -> BOOLEAN]
      BY <1>2, <1>4, <2>2 DEF Typed
    <3>2. force' = [force EXCEPT ![c] = force[c]]
      BY <1>4, <3>1
    <3>3. QED
      BY <1>2, <3>1, <3>2
  <2>4. Steady(<< >>)
    BY <1>1, <1>5, <2>1, <2>3 DEF Steady, SteadyCalls, Typed
  <2>5. QED
    BY <1>5, <2>4, SteadyStep, QueuesAreSteady DEF Typed
<1>7. CASE protsUp[c] = {} /\ (hup[c] = NoPid \/ f)
  <2>1. (c \in Tame => Quiet(c)) /\ state[c] \in Alive
    BY <1>3, <1>7 DEF FinalizeOK
  <2>2. PICK s, calls :
          /\ FinalizeCalls(c, s, calls) /\ Return(calls)
          /\ Origin[c] # 0 <=> s = "deleted"
          /\ s = "active" => state[c] \in UpStates
    BY <1>1, <1>4, <1>7, <2>1, FinalizeReturns
  <2>3. /\ calls \in Seq(CallType) /\ Fits(calls)
        /\ \A i \in 1..Len(calls) : calls[i].call \notin {"dial", "unref"}
        /\ \A x : Made(calls, "hung_up", x) <=> x = c
    <3>1. /\ \A i : i \in 1..2 <=> i = 1 \/ i = 2
          /\ \A i : i \in 1..3 <=> i = 1 \/ i = 2 \/ i = 3
          /\ \A i : i \in 2..2 <=> i = 2
          /\ \A i : i \in 2..3 <=> i = 2 \/ i = 3
      OBVIOUS
    <3>2. CASE Len(calls) = 2 /\ calls[1].call = "clear_op" /\ calls[2].call = "hung_up" /\ calls[2].id = c
      BY <1>1, <2>2, <3>1, <3>2 DEF Fits, Made, Low, TopOnly, FinalizeCalls
    <3>3. CASE Len(calls) = 3 /\ calls[1].call = "change_state" /\ calls[2].call = "clear_op"
               /\ calls[3].call = "hung_up" /\ calls[3].id = c
      BY <1>1, <2>2, <3>1, <3>3 DEF Fits, Made, Low, TopOnly, FinalizeCalls
    <3>4. QED
      BY <2>2, <3>2, <3>3 DEF FinalizeCalls
  <2>4. /\ Shape' /\ stack' \in Seq(CallType) /\ Dialled' /\ UniqueCalls'
        /\ \A x : ~ HasCall("dial", x) /\ ~ HasCall("dial", x)'
        /\ \A x : ~ HasCall("hung_up", x)
        /\ \A x : HasCall("hung_up", x)' <=> x = c
    BY <1>1, <2>2, <2>3, LowAfter DEF Low
  <2>5. \A x : Dropping(x)' = Dropping(x)
    BY <1>1, <2>2, <2>3, DroppingAfter
  <2>6. \A x : HasCall("unref", x)' <=> HasCall("unref", x)
    <3>1. /\ \A x : HasCall("unref", x)' <=> Made(calls, "unref", x) \/ Waits("unref", x)
          /\ \A x : HasCall("unref", x) <=> (Frame.call = "unref" /\ Frame.id = x) \/ Waits("unref", x)
      BY <1>1, <2>2, <2>3, CallsAfter
    <3>2. \A x : ~ Made(calls, "unref", x)
      BY <2>3 DEF Made
    <3>3. QED
      BY <1>1, <3>1, <3>2
  <2>7. /\ \A t, x : HasMsg(t, x)' <=> HasMsg(t, x)
        /\ \A x : HasScript(x)' <=> HasScript(x)
        /\ \A x : HasDial(x)' <=> HasDial(x)
        /\ \A x : Unreported(x)' = Unreported(x)
        /\ \A m : Report(m)' <=> Report(m)
        /\ Kind' = Kind /\ Protocols' = Protocols /\ Origin' = Origin
        /\ UniqueScripts' /\ UniqueMail' /\ UniqueDials' /\ Tame' = Tame
    BY <1>5, FunctionFrame DEF HasDial, UniqueDials
  <2>8. ~ HupLive(c)' /\ \A x : x # c => (HupLive(x)' <=> HupLive(x))
    BY <1>5, <2>4 DEF HupLive
  <2>9. Typed'
    BY <1>2, <1>4, <1>5, <2>4 DEF Typed
  <2>10. c \in Tame => Quiet(c)'
    BY <1>5, <2>1, <2>4, <2>7 DEF Quiet
  <2>11. /\ Len(stack') \in Nat /\ Len(stack') >= 2 /\ stack'[1] = calls[1]
    <3>1. Len(calls) >= 2 /\ 1 \in 1..Len(calls)
      BY <2>2 DEF FinalizeCalls
    <3>2. QED
      BY <1>1, <2>2, <2>3, <3>1, ReturnCalls
  <2>12. TopOK'
    <3>1. CASE s = "none"
      BY <2>2, <2>11, <3>1 DEF TopOK, FinalizeCalls, Stopped
    <3>2. CASE s # "none"
      <4>1. s \in {"active", "deleted"} \cup Stopped
            /\ stack'[1].call = "change_state" /\ stack'[1].id = c /\ stack'[1].arg = s
        BY <2>2, <2>11, <3>2 DEF FinalizeCalls
      <4>2. ChangeOK(c, s)'
        BY <1>5, <2>1, <2>2, <2>4, <2>7, <2>8, <2>10, <4>1 DEF ChangeOK, Stopped
      <4>3. QED
        BY <4>1, <4>2 DEF TopOK
    <3>3. QED
      BY <3>1, <3>2
  <2>13. Sources'
    BY <1>5, <2>7, <2>8 DEF Sources
  <2>14. Exclusive'
    BY <1>5, <2>4, <2>7, <2>8 DEF Exclusive
  <2>15. \A i \in 1..Len(inbox) : Report(inbox[i]) => inbox[i].id # c
    <3>1. CASE c \in Tame
      BY <2>1, <3>1 DEF Report, Quiet, HasMsg
    <3>2. CASE Kind[c] = "route"
      BY <3>2 DEF Report, Mail
    <3>3. QED
      BY <1>2, <3>1, <3>2 DEF Tame
  <2>16. Mail' /\ MailOrder'
    <3>1. \A m : Closing(m)' <=> Closing(m)
      BY <1>5 DEF Closing
    <3>2. MailOrder'
      BY <1>5, <2>7, <3>1 DEF MailOrder
    <3>3. \A i \in 1..Len(inbox) : Report(inbox[i])' => HupLive(inbox[i].id)'
      BY <1>5, <2>7, <2>8, <2>15 DEF Mail
    <3>4. Mail'
      BY <1>5, <2>7, <3>3 DEF Mail
    <3>5. QED
      BY <3>2, <3>4
  <2>17. Registered'
    BY <1>2, <1>4, <1>5, <2>4, <2>7 DEF Registered, Typed
  <2>18. Daemons'
    <3>1. SUFFICES ASSUME NEW p \in Pid, daemon[p].st = "run", NEW d, d = daemon[p].id
                   PROVE  /\ d \in Circuit /\ Kind[d] # "route"
                          /\ \/ HupLive(d)' /\ hup[d] = p
                             \/ Kind[d] = "link" /\ daemon[p].link[Link] = "down"
                          /\ hup[d] = p /\ ~ daemon[p].sig => term[d] = p
      BY <1>5, <2>7 DEF Daemons
    <3>2. /\ d \in Circuit /\ Kind[d] # "route"
          /\ \/ HupLive(d) /\ hup[d] = p
             \/ Kind[d] = "link" /\ daemon[p].link[Link] = "down"
          /\ hup[d] = p /\ ~ daemon[p].sig => term[d] = p
      BY <3>1 DEF Daemons
    <3>3. d = c /\ HupLive(d) /\ hup[d] = p => Kind[d] = "link" /\ daemon[p].link[Link] = "down"
      BY <1>2, <1>3, <1>7, <3>1 DEF HupLive, FinalizeOK
    <3>4. QED
      BY <2>8, <3>2, <3>3
  <2>19. Refs'
    <3>1. \A x \in Circuit : Exists(x)' = Exists(x)
      BY <1>5 DEF Exists
    <3>2. \A x \in Circuit : Own(x)' = Own(x)
      BY <1>5, <2>1, <2>4 DEF Own, Alive, Stopped, UpStates
    <3>3. Exists(c)
      BY <2>1 DEF Exists, Alive, Stopped, UpStates
    <3>4. QED
      BY <1>5, <2>4, <2>5, <2>6, <2>7, <3>1, <3>2, <3>3 DEF Refs
  <2>20. Clones'
    <3>1. Origin[c] # 0 => stack'[1].call = "change_state" /\ stack'[1].id = c /\ stack'[1].arg = "deleted"
      BY <2>2, <2>11 DEF FinalizeCalls
    <3>2. QED
      BY <1>5, <2>4, <2>7, <3>1 DEF Clones
  <2>21. QED
    BY <2>4, <2>7, <2>9, <2>12, <2>13, <2>14, <2>16, <2>17, <2>18, <2>19, <2>20
<1>8. QED
  BY <1>6, <1>7

\* A call that is made or not
OneOrNone(cond, x, calls) == calls = IF cond THEN <<x>> ELSE << >>

LEMMA OptionalCall ==
  ASSUME NEW x \in CallType, NEW cond \in BOOLEAN, NEW calls, OneOrNone(cond, x, calls)
  PROVE  /\ calls \in Seq(CallType) /\ Len(calls) = IF cond THEN 1 ELSE 0
         /\ (cond => calls[1] = x) /\ (~ cond => calls = << >>)
         /\ \A i \in 1..Len(calls) : cond /\ i = 1 /\ calls[i] = x
         /\ \A f, d : Made(calls, f, d) <=> cond /\ x.call = f /\ x.id = d
<1>1. CASE cond
  <2>1. calls \in Seq(CallType) /\ Len(calls) = 1 /\ calls[1] = x
    BY <1>1, OneCall DEF OneOrNone
  <2>2. \A i : i \in 1..1 <=> i = 1
    OBVIOUS
  <2>3. QED
    BY <1>1, <2>1, <2>2 DEF Made
<1>2. CASE ~ cond
  <2>1. calls \in Seq(CallType) /\ Len(calls) = 0 /\ calls = << >>
    BY <1>2 DEF OneOrNone
  <2>2. \A i : i \notin 1..0
    OBVIOUS
  <2>3. QED
    BY <1>2, <2>1, <2>2 DEF Made
<1>3. QED
  BY <1>1, <1>2

\* The references to be dropped: by the first call, and by the one that waits
LEMMA LowDropping ==
  ASSUME stack \in Seq(CallType), Shape, stack # << >>, Frame.call \in Low,
         NEW calls \in Seq(CallType), Return(calls), Len(calls) \in {0, 1}
  PROVE  \A x : \E rest \in {0, 1} :
           /\ Dropping(x) = rest + (IF Frame.call = "unref" /\ Frame.id = x THEN 1 ELSE 0)
           /\ Dropping(x)' = rest + (IF Made(calls, "unref", x) THEN 1 ELSE 0)
<1> TAKE x
<1> DEFINE rest == IF Len(stack) = 2 /\ stack[2].id = x THEN 1 ELSE 0
           after(i) == IF i \in 1..Len(stack') /\ stack'[i].call = "unref" /\ stack'[i].id = x THEN 1 ELSE 0
           made == IF Made(calls, "unref", x) THEN 1 ELSE 0
<1>1. Frame = stack[1] /\ Len(stack) \in {1, 2} /\ (Len(stack) = 2 => stack[2].call = "unref")
  BY LowStack
<1>2. /\ Len(calls) \in {0, 1} /\ Len(stack') = Len(calls) + Len(stack) - 1
      /\ \A i \in 1..Len(calls) : stack'[i] = calls[i]
      /\ \A i \in 2..Len(stack) : stack'[Len(calls) + i - 1] = stack[i]
  BY ReturnCalls
<1>3. Dropping(x) = Unref(Len(stack), x) + Unref(Len(stack) - 1, x)
  BY DEF Dropping
<1>4. Dropping(x)' = after(Len(stack')) + after(Len(stack') - 1)
  BY DEF Dropping, Unref
<1>5. Dropping(x) = rest + (IF Frame.call = "unref" /\ Frame.id = x THEN 1 ELSE 0)
  <2>1. CASE Len(stack) = 1
    BY <1>1, <1>3, <2>1 DEF Unref
  <2>2. CASE Len(stack) = 2
    BY <1>1, <1>3, <2>2 DEF Unref
  <2>3. QED
    BY <1>1, <2>1, <2>2
<1>6. after(0) = 0 /\ made \in {0, 1}
  OBVIOUS
<1>7. Len(calls) = 1 => made = after(1)
  <2>1. CASE Len(calls) = 1
    <3>1. stack'[1] = calls[1] /\ 1 \in 1..Len(stack')
      BY <1>1, <1>2, <2>1
    <3>2. Made(calls, "unref", x) <=> calls[1].call = "unref" /\ calls[1].id = x
      BY <2>1 DEF Made
    <3>3. QED
      BY <3>1, <3>2
  <2>2. QED
    BY <2>1
<1>8. Len(calls) = 0 => made = 0
  BY DEF Made
<1>9. Len(stack) = 2 => after(Len(calls) + 1) = rest
  <2>1. CASE Len(stack) = 2
    <3>1. stack'[Len(calls) + 1] = stack[2] /\ Len(calls) + 1 \in 1..Len(stack')
      BY <1>2, <2>1
    <3>2. QED
      BY <1>1, <2>1, <3>1
  <2>2. QED
    BY <2>1
<1>10. Len(stack) = 1 => rest = 0
  OBVIOUS
<1>11. rest \in {0, 1} /\ after(0 - 1) = 0
  OBVIOUS
<1> HIDE DEF after, made, rest
<1>12. Dropping(x)' = rest + made
  <2>1. CASE Len(stack) = 1 /\ Len(calls) = 0
    <3>1. Len(stack') = 0
      BY <1>2, <2>1
    <3>2. QED
      BY <1>4, <1>6, <1>8, <1>10, <1>11, <2>1, <3>1
  <2>2. CASE Len(stack) = 1 /\ Len(calls) = 1
    <3>1. Len(stack') = 1 /\ 1 - 1 = 0
      BY <1>2, <2>2
    <3>2. QED
      BY <1>4, <1>6, <1>7, <1>10, <2>2, <3>1
  <2>3. CASE Len(stack) = 2 /\ Len(calls) = 0
    <3>1. Len(stack') = 1 /\ 1 - 1 = 0 /\ 0 + 1 = 1
      BY <1>2, <2>3
    <3>2. QED
      BY <1>4, <1>6, <1>8, <1>9, <1>11, <2>3, <3>1
  <2>4. CASE Len(stack) = 2 /\ Len(calls) = 1
    <3>1. Len(stack') = 2 /\ 2 - 1 = 1 /\ 1 + 1 = 2
      BY <1>2, <2>4
    <3>2. QED
      BY <1>4, <1>6, <1>7, <1>9, <1>11, <2>4, <3>1
  <2>5. QED
    BY <1>1, <1>2, <2>1, <2>2, <2>3, <2>4
<1>13. QED
  BY <1>5, <1>11, <1>12 DEF made

LEMMA HungUpStep ==
  ASSUME IInv, HungUp
  PROVE  IInv'
<1> USE DEF IInv, Unique
<1>1. stack # << >> /\ Frame.call = "hung_up" /\ Frame.call \in Low /\ Typed /\ stack \in Seq(CallType)
  BY DEF HungUp, Running, Typed, Low
<1>2. Frame.id \in Circuit /\ Frame = stack[1]
  BY <1>1, FrameFacts
<1> SUFFICES ASSUME NEW c \in Circuit, c = Frame.id PROVE IInv'
  BY <1>2
<1>3. /\ force' = [force EXCEPT ![c] = FALSE] /\ hangupState' = [hangupState EXCEPT ![c] = ""]
      /\ hup' = [hup EXCEPT ![c] = NoPid]
      /\ UNCHANGED <<config, state, op, protsUp, refs, globalMode, localMode, term, nextId,
                     inbox, scripts, daemon, queue>>
  BY DEF HungUp, modes, life, procs
<1> DEFINE clone == Origin[c] # 0
<1>4. PICK u \in CallType, calls \in Seq(CallType) :
        /\ u.call = "unref" /\ u.id = c
        /\ Return(calls) /\ Len(calls) = (IF clone THEN 1 ELSE 0)
        /\ (clone => calls[1] = u) /\ (~ clone => calls = << >>)
        /\ \A i \in 1..Len(calls) : clone /\ i = 1 /\ calls[i] = u
        /\ \A f, d : Made(calls, f, d) <=> clone /\ u.call = f /\ u.id = d
  <2>1. PICK u \in CallType : u = Call("unref", c, "") /\ u.call = "unref" /\ u.id = c
    BY CallsAreTyped DEF Call
  <2>2. PICK calls : OneOrNone(clone, u, calls)
    BY DEF OneOrNone
  <2>3. Return(calls)
    BY <2>1, <2>2 DEF HungUp, OneOrNone
  <2>4. clone \in BOOLEAN
    OBVIOUS
  <2> HIDE DEF clone
  <2>5. /\ calls \in Seq(CallType) /\ Len(calls) = (IF clone THEN 1 ELSE 0)
        /\ (clone => calls[1] = u) /\ (~ clone => calls = << >>)
        /\ \A i \in 1..Len(calls) : clone /\ i = 1 /\ calls[i] = u
        /\ \A f, d : Made(calls, f, d) <=> clone /\ u.call = f /\ u.id = d
    BY <2>2, <2>4, OptionalCall
  <2>6. QED
    BY <2>1, <2>3, <2>5
<1>5. /\ Fits(calls) /\ \A i \in 1..Len(calls) : calls[i].call = "unref"
      /\ \A d : Made(calls, "unref", d) <=> d = c /\ clone
      /\ \A f, d : f # "unref" => ~ Made(calls, f, d)
      /\ Len(calls) \in {0, 1}
  <2>1. \A i \in 2..Len(calls) : FALSE
    BY <1>4
  <2>2. QED
    BY <1>1, <1>4, <2>1 DEF Fits
<1>6. /\ Shape' /\ stack' \in Seq(CallType) /\ Dialled' /\ UniqueCalls'
      /\ \A x : ~ HasCall("dial", x) /\ ~ HasCall("dial", x)'
      /\ \A x : HasCall("hung_up", x) <=> x = c
      /\ \A x : ~ HasCall("hung_up", x)'
  BY <1>1, <1>4, <1>5, LowAfter
<1>7. \A x \in Circuit : HasCall("unref", x)' => Exists(x)
  <2>1. /\ \A x : HasCall("unref", x)' <=> Made(calls, "unref", x) \/ Waits("unref", x)
        /\ \A x : HasCall("unref", x) <=> (Frame.call = "unref" /\ Frame.id = x) \/ Waits("unref", x)
    BY <1>1, <1>4, CallsAfter
  <2>2. QED
    BY <1>5, <1>6, <2>1 DEF Refs
<1>8. \A x \in Circuit : Dropping(x) \in Nat
        /\ Dropping(x)' = Dropping(x) + (IF x = c /\ Origin[c] # 0 THEN 1 ELSE 0)
  <2> TAKE x \in Circuit
  <2>1. PICK rest \in {0, 1} :
           /\ Dropping(x) = rest + (IF Frame.call = "unref" /\ Frame.id = x THEN 1 ELSE 0)
           /\ Dropping(x)' = rest + (IF Made(calls, "unref", x) THEN 1 ELSE 0)
    BY <1>1, <1>4, <1>5, LowDropping
  <2>2. QED
    BY <1>1, <1>5, <2>1
<1>9. /\ \A t, x : HasMsg(t, x)' <=> HasMsg(t, x)
      /\ \A x : HasScript(x)' <=> HasScript(x)
      /\ \A x : HasDial(x)' <=> HasDial(x)
      /\ \A x : Unreported(x)' = Unreported(x)
      /\ \A m : Report(m)' <=> Report(m)
      /\ Kind' = Kind /\ Protocols' = Protocols /\ Origin' = Origin
      /\ UniqueScripts' /\ UniqueMail' /\ UniqueDials' /\ Tame' = Tame
  BY <1>3, FunctionFrame DEF HasDial, UniqueDials
<1>10. hup'[c] = NoPid /\ \A x \in Circuit : x # c => hup'[x] = hup[x]
  BY <1>3 DEF Typed
<1>11. /\ ~ HupLive(c) /\ ~ HupLive(c)'
       /\ \A x \in Circuit : HupLive(x)' <=> HupLive(x)
  BY <1>6, <1>10 DEF HupLive
<1>12. Typed'
  BY <1>3, <1>6 DEF Typed
<1>13. TopOK'
  <2>1. CASE ~ clone
    BY <1>1, <1>4, <2>1, NothingOnTop DEF TopOK, TopOnly
  <2>2. CASE clone
    <3>1. stack'[1] = calls[1]
      <4>1. \A i \in 1..Len(calls) : stack'[i] = calls[i]
        BY <1>1, <1>4, ReturnCalls
      <4>2. QED
        BY <1>4, <2>2, <4>1
    <3>2. QED
      BY <1>4, <2>2, <3>1 DEF TopOK
  <2>3. QED
    BY <2>1, <2>2
<1>14. Sources'
  BY <1>3, <1>9, <1>10, <1>11 DEF Sources
<1>15. Exclusive'
  BY <1>3, <1>6, <1>9, <1>11 DEF Exclusive
<1>16. \A i \in 1..Len(inbox) : inbox[i] \in MsgType /\ inbox[i].id \in 0..NCircuits
         /\ (Report(inbox[i]) => inbox[i].id \in Circuit /\ inbox[i].id # c)
         /\ (Closing(inbox[i]) => inbox[i].id \in Circuit)
         /\ (inbox[i].type = "daemon_exited" => inbox[i].id \in Circuit /\ inbox[i].pid # NoPid)
  <2>1. \A i \in 1..Len(inbox) :
         /\ inbox[i] \in MsgType
         /\ inbox[i].type \notin {"create", "stop_service", "set_global"} => inbox[i].id \in Circuit
         /\ inbox[i].type = "daemon_exited" => inbox[i].pid # NoPid
    BY MailFacts DEF Typed
  <2>2. \A i \in 1..Len(inbox) : inbox[i].id \in 0..NCircuits
    BY <2>1 DEF MsgType
  <2>3. QED
    BY <1>11, <2>1, <2>2 DEF Mail, Report, Closing
<1>17. Mail'
  <2>1. \A i \in 1..Len(inbox) : Report(inbox[i])' => HupLive(inbox[i].id)'
    BY <1>3, <1>9, <1>11, <1>16 DEF Mail
  <2>2. \A i \in 1..Len(inbox) : inbox[i].type = "down_link" => hup'[inbox[i].id] = hup[inbox[i].id]
    BY <1>10, <1>16 DEF Report
  <2>3. \A i \in 1..Len(inbox) :
          inbox[i].type = "down_link" /\ inbox[i].arg = "force"
            /\ daemon[hup'[inbox[i].id]].st = "run" => daemon[hup'[inbox[i].id]].link[Link] = "down"
    BY <2>2 DEF Mail
  <2>4. QED
    BY <1>3, <1>9, <2>1, <2>3 DEF Mail
<1>18. MailOrder'
  <2>1. \A i \in 1..Len(inbox) : Closing(inbox[i])' => Closing(inbox[i])
    BY <1>3, <1>10, <1>16 DEF Closing
  <2>2. QED
    BY <1>3, <1>9, <2>1 DEF MailOrder
<1>19. Registered'
  BY <1>3, <1>6, <1>9, <1>10 DEF Registered, Typed
<1>20. Daemons'
  <2>1. SUFFICES ASSUME NEW p \in Pid, daemon[p].st = "run", NEW d, d = daemon[p].id
                 PROVE  /\ d \in Circuit /\ Kind[d] # "route"
                        /\ \/ HupLive(d)' /\ hup'[d] = p
                           \/ Kind[d] = "link" /\ daemon[p].link[Link] = "down"
                        /\ hup'[d] = p /\ ~ daemon[p].sig => term[d] = p
    BY <1>3, <1>9 DEF Daemons
  <2>2. /\ d \in Circuit /\ Kind[d] # "route"
        /\ \/ HupLive(d) /\ hup[d] = p
           \/ Kind[d] = "link" /\ daemon[p].link[Link] = "down"
        /\ hup[d] = p /\ ~ daemon[p].sig => term[d] = p
    BY <2>1 DEF Daemons
  <2>3. QED
    BY <1>10, <1>11, <2>2, CircuitAssumption
<1>21. Refs'
  <2>1. \A x \in Circuit : Exists(x)' = Exists(x)
    BY <1>3 DEF Exists
  <2>2. \A x \in Circuit : x # c => Own(x)' = Own(x)
    BY <1>3, <1>6 DEF Own
  <2>3. Own(c) = 1 /\ Own(c)' = IF Origin[c] # 0 THEN 0 ELSE 1
    <3>1. Origin[c] # 0 <=> state[c] = "deleted"
      BY <1>1, <1>2, <1>6 DEF Clones
    <3>2. QED
      BY <1>3, <1>6, <3>1 DEF Own
  <2>4. \A x \in Circuit : IsFiniteSet(Unreported(x)) /\ Cardinality(Unreported(x)) \in Nat
    <3>1. \A x \in Circuit : Unreported(x) \in SUBSET Pid
      BY DEF Unreported
    <3>2. QED
      BY <3>1, CircuitAssumption, FS_Subset, FS_CardinalityType
  <2>5. \A x \in Circuit : Exists(x) => refs'[x] = Cardinality(Unreported(x)) + Dropping(x)' + Own(x)'
    <3>1. SUFFICES ASSUME NEW d \in Circuit, Exists(d)
                   PROVE  refs'[d] = Cardinality(Unreported(d)) + Dropping(d)' + Own(d)'
      OBVIOUS
    <3>2. refs'[d] = Cardinality(Unreported(d)) + Dropping(d) + Own(d) /\ Own(d) \in {0, 1}
      BY <1>3, <3>1 DEF Refs, Own
    <3>3. Cardinality(Unreported(d)) \in Nat /\ Dropping(d) \in Nat
      BY <1>8, <2>4
    <3>4. CASE d = c
      BY <1>8, <2>3, <3>2, <3>3, <3>4
    <3>5. CASE d # c
      BY <1>8, <2>2, <3>2, <3>3, <3>5
    <3>6. QED
      BY <3>4, <3>5
  <2>6. QED
    BY <1>6, <1>7, <1>9, <2>1, <2>5 DEF Refs
<1>22. Clones'
  BY <1>3, <1>6, <1>9 DEF Clones
<1>23. QED
  BY <1>6, <1>9, <1>12, <1>13, <1>14, <1>15, <1>17, <1>18, <1>19, <1>20, <1>21, <1>22

\* A reference is still to be dropped if a call to do so waits.
LEMMA DroppingCounts ==
  ASSUME stack \in Seq(CallType), Shape, NEW x, HasCall("unref", x)
  PROVE  Dropping(x) \in {1, 2}
<1>1. PICK i \in 1..Len(stack) : stack[i].call = "unref" /\ stack[i].id = x
  BY DEF HasCall
<1>2. i >= Len(stack) - 1 /\ Len(stack) \in Nat
  BY <1>1 DEF Shape, Low
<1>3. i = Len(stack) \/ i = Len(stack) - 1
  BY <1>2
<1>4. Unref(i, x) = 1
  BY <1>1 DEF Unref
<1>5. Unref(Len(stack), x) \in {0, 1} /\ Unref(Len(stack) - 1, x) \in {0, 1}
  BY DEF Unref
<1>6. Unref(Len(stack), x) = 1 \/ Unref(Len(stack) - 1, x) = 1
  BY <1>3, <1>4
<1>7. QED
  BY <1>5, <1>6 DEF Dropping

LEMMA DroppingType == \A x : Dropping(x) \in Nat
BY DEF Dropping, Unref

LEMMA UnreportedType ==
  \A x : /\ Unreported(x) \in SUBSET Pid /\ IsFiniteSet(Unreported(x)) /\ Cardinality(Unreported(x)) \in Nat
         /\ Cardinality(Unreported(x)) = 0 <=> Unreported(x) = {}
<1> TAKE x
<1>1. Unreported(x) \in SUBSET Pid
  BY DEF Unreported
<1>2. IsFiniteSet(Unreported(x)) /\ Cardinality(Unreported(x)) \in Nat
  BY <1>1, CircuitAssumption, FS_Subset, FS_CardinalityType
<1>3. QED
  BY <1>1, <1>2, FS_EmptySet

LEMMA UnrefStep ==
  ASSUME IInv, circd_unref
  PROVE  IInv'
<1> USE DEF IInv, Unique
<1>1. stack # << >> /\ Frame.call = "unref" /\ Frame.call \in Low /\ Typed /\ stack \in Seq(CallType)
  BY DEF circd_unref, Running, Typed, Low
<1>2. Frame.id \in Circuit /\ Frame = stack[1] /\ 1 \in 1..Len(stack)
  BY <1>1, FrameFacts, FrameIsFirst
<1> SUFFICES ASSUME NEW c \in Circuit, c = Frame.id PROVE IInv'
  BY <1>2
<1>3. HasCall("unref", c) /\ Exists(c)
  BY <1>1, <1>2 DEF HasCall, Refs
<1>4. /\ refs' = [refs EXCEPT ![c] = refs[c] - 1]
      /\ UNCHANGED <<config, state, op, hangupState, force, protsUp, globalMode, localMode, term, hup, nextId,
                     inbox, scripts, daemon, queue>>
  BY <1>3 DEF circd_unref, modes, dmns, life, procs
<1> DEFINE last == refs[c] - 1 = 0
<1>5. PICK x \in CallType, calls \in Seq(CallType) :
        /\ x.call = "remove" /\ x.id = c
        /\ Return(calls) /\ Len(calls) = (IF last THEN 1 ELSE 0)
        /\ (last => calls[1] = x) /\ (~ last => calls = << >>)
        /\ \A i \in 1..Len(calls) : last /\ i = 1 /\ calls[i] = x
        /\ \A f, d : Made(calls, f, d) <=> last /\ x.call = f /\ x.id = d
  <2>1. PICK x \in CallType : x = Call("remove", c, "") /\ x.call = "remove" /\ x.id = c
    BY CallsAreTyped DEF Call
  <2>2. PICK calls : OneOrNone(last, x, calls)
    BY DEF OneOrNone
  <2>3. Return(calls)
    BY <1>3, <2>1, <2>2 DEF circd_unref, OneOrNone
  <2>4. last \in BOOLEAN
    OBVIOUS
  <2> HIDE DEF last
  <2>5. /\ calls \in Seq(CallType) /\ Len(calls) = (IF last THEN 1 ELSE 0)
        /\ (last => calls[1] = x) /\ (~ last => calls = << >>)
        /\ \A i \in 1..Len(calls) : last /\ i = 1 /\ calls[i] = x
        /\ \A f, d : Made(calls, f, d) <=> last /\ x.call = f /\ x.id = d
    BY <2>2, <2>4, OptionalCall
  <2>6. QED
    BY <2>1, <2>3, <2>5
<1>6. /\ Fits(calls) /\ \A i \in 1..Len(calls) : calls[i].call = "remove"
      /\ \A f, d : f # "remove" => ~ Made(calls, f, d)
      /\ Len(calls) \in {0, 1}
  <2>1. \A i \in 2..Len(calls) : FALSE
    BY <1>5
  <2>2. QED
    BY <1>1, <1>5, <2>1 DEF Fits
<1>7. /\ Shape' /\ stack' \in Seq(CallType) /\ Dialled' /\ UniqueCalls'
      /\ \A d : ~ HasCall("dial", d) /\ ~ HasCall("dial", d)'
      /\ \A d : ~ HasCall("hung_up", d)
      /\ \A d : ~ HasCall("hung_up", d)'
  BY <1>1, <1>5, <1>6, LowAfter
<1>8. \A d : HasCall("unref", d)' => HasCall("unref", d)
  <2>1. /\ \A d : HasCall("unref", d)' <=> Made(calls, "unref", d) \/ Waits("unref", d)
        /\ \A d : HasCall("unref", d) <=> (Frame.call = "unref" /\ Frame.id = d) \/ Waits("unref", d)
    BY <1>1, <1>5, CallsAfter
  <2>2. QED
    BY <1>6, <2>1
<1>9. \A d \in Circuit : Dropping(d)' \in Nat /\ Dropping(d) = Dropping(d)' + (IF d = c THEN 1 ELSE 0)
  <2> TAKE d \in Circuit
  <2>1. PICK rest \in {0, 1} :
           /\ Dropping(d) = rest + (IF Frame.call = "unref" /\ Frame.id = d THEN 1 ELSE 0)
           /\ Dropping(d)' = rest + (IF Made(calls, "unref", d) THEN 1 ELSE 0)
    BY <1>1, <1>5, <1>6, LowDropping
  <2>2. QED
    BY <1>1, <1>6, <2>1
<1>10. /\ \A t, d : HasMsg(t, d)' <=> HasMsg(t, d)
       /\ \A d : HasScript(d)' <=> HasScript(d)
       /\ \A d : HasDial(d)' <=> HasDial(d)
       /\ \A d : Unreported(d)' = Unreported(d)
       /\ Kind' = Kind /\ Protocols' = Protocols /\ Origin' = Origin
       /\ UniqueScripts' /\ UniqueMail' /\ UniqueDials' /\ Tame' = Tame
  BY <1>4, FunctionFrame DEF HasDial, UniqueDials
<1>11. \A d : HupLive(d)' <=> HupLive(d)
  BY <1>4, <1>7 DEF HupLive
<1>12. refs'[c] = refs[c] - 1 /\ refs[c] \in Int /\ \A d \in Circuit : d # c => refs'[d] = refs[d]
  BY <1>4 DEF Typed
<1>13. Typed'
  <2>1. PICK n \in Int : n = refs[c] - 1
    BY <1>12
  <2>2. refs' = [refs EXCEPT ![c] = n] /\ refs \in [Circuit -> Int]
    BY <1>4, <2>1 DEF Typed
  <2>3. refs' \in [Circuit -> Int]
    BY <2>2
  <2>4. QED
    BY <1>4, <1>7, <2>3 DEF Typed
<1>14. TopOK'
  <2>1. CASE ~ last
    BY <1>1, <1>5, <2>1, NothingOnTop DEF TopOK, TopOnly
  <2>2. CASE last
    <3>1. stack'[1] = calls[1]
      <4>1. \A i \in 1..Len(calls) : stack'[i] = calls[i]
        BY <1>1, <1>5, ReturnCalls
      <4>2. QED
        BY <1>5, <2>2, <4>1
    <3>2. stack'[1].call = "remove" /\ stack'[1].id = c
      BY <1>5, <2>2, <3>1
    <3>3. Exists(c)' /\ refs'[c] = 0
      BY <1>3, <1>4, <1>12, <2>2 DEF Exists
    <3>4. QED
      BY <3>2, <3>3 DEF TopOK
  <2>3. QED
    BY <2>1, <2>2
<1>15. Sources'
  BY <1>4, <1>10, <1>11 DEF Sources
<1>16. Exclusive'
  BY <1>4, <1>7, <1>10, <1>11 DEF Exclusive
<1>17. Mail' /\ MailOrder'
  BY <1>4, <1>11, MailKept DEF Typed
<1>18. Registered'
  BY <1>4, <1>7, <1>10 DEF Registered
<1>19. Daemons'
  BY <1>4, <1>10, <1>11 DEF Daemons
<1>20. Refs'
  <2>1. \A d \in Circuit : Exists(d)' = Exists(d) /\ Own(d)' = Own(d) /\ Own(d) \in {0, 1}
    BY <1>4, <1>7 DEF Exists, Own
  <2>2. \A d \in Circuit : Exists(d) => refs'[d] = Cardinality(Unreported(d)) + Dropping(d)' + Own(d)
    <3>1. SUFFICES ASSUME NEW d \in Circuit, Exists(d)
                   PROVE  refs'[d] = Cardinality(Unreported(d)) + Dropping(d)' + Own(d)
      OBVIOUS
    <3>2. refs[d] = Cardinality(Unreported(d)) + Dropping(d) + Own(d)
      BY <3>1 DEF Refs
    <3>3. Cardinality(Unreported(d)) \in Nat /\ Dropping(d)' \in Nat
      BY <1>9, UnreportedType
    <3>4. CASE d = c
      BY <1>9, <1>12, <2>1, <3>2, <3>3, <3>4
    <3>5. CASE d # c
      BY <1>9, <1>12, <2>1, <3>2, <3>3, <3>5
    <3>6. QED
      BY <3>4, <3>5
  <2>3. QED
    BY <1>7, <1>8, <1>10, <2>1, <2>2 DEF Refs
<1>21. Clones'
  BY <1>4, <1>7, <1>10 DEF Clones
<1>22. QED
  BY <1>7, <1>10, <1>13, <1>14, <1>15, <1>16, <1>17, <1>18, <1>19, <1>20, <1>21

LEMMA RemovedIsDeleted ==
  ASSUME IInv, Running("remove")
  PROVE  /\ Frame.id \in Circuit /\ state[Frame.id] = "deleted"
         /\ Unreported(Frame.id) = {} /\ ~ HasCall("unref", Frame.id)
<1> USE DEF IInv
<1>1. stack # << >> /\ Frame.call = "remove" /\ Typed /\ stack \in Seq(CallType)
  BY DEF Running, Typed
<1>2. Frame.id \in Circuit /\ Frame = stack[1]
  BY <1>1, FrameFacts
<1> SUFFICES ASSUME NEW c \in Circuit, c = Frame.id
             PROVE  state[c] = "deleted" /\ Unreported(c) = {} /\ ~ HasCall("unref", c)
  BY <1>2
<1>3. Exists(c) /\ refs[c] = 0
  BY <1>1, <1>2 DEF TopOK
<1>4. refs[c] = Cardinality(Unreported(c)) + Dropping(c) + Own(c) /\ Own(c) \in {0, 1}
  BY <1>3 DEF Refs, Own
<1>5. Cardinality(Unreported(c)) \in Nat /\ Dropping(c) \in Nat
  BY UnreportedType, DroppingType
<1>6. Cardinality(Unreported(c)) = 0 /\ Dropping(c) = 0 /\ Own(c) = 0
  BY <1>3, <1>4, <1>5
<1>7. Unreported(c) = {}
  BY <1>6, UnreportedType
<1>8. ~ HasCall("unref", c)
  BY <1>1, <1>6, DroppingCounts
<1>9. state[c] = "deleted"
  BY <1>6 DEF Own
<1>10. QED
  BY <1>7, <1>8, <1>9

LEMMA RemoveStep ==
  ASSUME IInv, circd_circuit_remove
  PROVE  IInv'
<1> USE DEF IInv, Unique
<1>1. stack # << >> /\ Frame.call = "remove" /\ Frame.call \in Low /\ Typed /\ stack \in Seq(CallType)
  BY DEF circd_circuit_remove, Running, Typed, Low
<1>2. Frame.id \in Circuit /\ Frame = stack[1]
  BY <1>1, FrameFacts
<1> SUFFICES ASSUME NEW c \in Circuit, c = Frame.id PROVE IInv'
  BY <1>2
<1>3. state[c] = "deleted" /\ Unreported(c) = {} /\ ~ HasCall("unref", c)
  BY RemovedIsDeleted DEF circd_circuit_remove
<1>4. /\ state' = [state EXCEPT ![c] = "none"]
      /\ op' = [op EXCEPT ![c] = ""] /\ hangupState' = [hangupState EXCEPT ![c] = ""]
      /\ force' = [force EXCEPT ![c] = FALSE] /\ protsUp' = [protsUp EXCEPT ![c] = {}]
      /\ localMode' = [localMode EXCEPT ![c] = ""]
      /\ SendToQueue(c, "quit")
      /\ UNCHANGED <<config, refs, globalMode, term, hup, nextId, inbox, scripts, daemon>>
  BY DEF circd_circuit_remove, dmns, life
<1>5. PICK x \in CallType, calls \in Seq(CallType) :
        /\ x.call = "check_exit"
        /\ Return(calls) /\ Len(calls) = (IF shutting = TRUE THEN 1 ELSE 0)
        /\ (shutting = TRUE => calls[1] = x) /\ (shutting # TRUE => calls = << >>)
        /\ \A i \in 1..Len(calls) : shutting = TRUE /\ i = 1 /\ calls[i] = x
        /\ \A f, d : Made(calls, f, d) <=> shutting = TRUE /\ x.call = f /\ x.id = d
  <2> DEFINE cond == shutting = TRUE
  <2>1. PICK x \in CallType : x = Call("check_exit", 0, "") /\ x.call = "check_exit"
    BY CheckExitIsTyped DEF Call
  <2>2. PICK calls : OneOrNone(cond, x, calls)
    BY DEF OneOrNone
  <2>3. Return(calls)
    BY <2>1, <2>2 DEF circd_circuit_remove, OneOrNone
  <2>4. cond \in BOOLEAN
    OBVIOUS
  <2> HIDE DEF cond
  <2>5. /\ calls \in Seq(CallType) /\ Len(calls) = (IF cond THEN 1 ELSE 0)
        /\ (cond => calls[1] = x) /\ (~ cond => calls = << >>)
        /\ \A i \in 1..Len(calls) : cond /\ i = 1 /\ calls[i] = x
        /\ \A f, d : Made(calls, f, d) <=> cond /\ x.call = f /\ x.id = d
    BY <2>2, <2>4, OptionalCall
  <2>6. QED
    BY <2>1, <2>3, <2>5 DEF cond
<1>6. /\ Fits(calls) /\ \A i \in 1..Len(calls) : calls[i].call = "check_exit"
      /\ \A f, d : f # "check_exit" => ~ Made(calls, f, d)
      /\ Len(calls) \in {0, 1}
  <2>1. \A i \in 2..Len(calls) : FALSE
    BY <1>5
  <2>2. QED
    BY <1>1, <1>5, <2>1 DEF Fits
<1>7. /\ Shape' /\ stack' \in Seq(CallType) /\ Dialled' /\ UniqueCalls'
      /\ \A d : ~ HasCall("dial", d) /\ ~ HasCall("dial", d)'
      /\ \A d : ~ HasCall("hung_up", d)
      /\ \A d : ~ HasCall("hung_up", d)'
  BY <1>1, <1>5, <1>6, LowAfter
<1>8. \A d : HasCall("unref", d)' <=> HasCall("unref", d)
  <2>1. /\ \A d : HasCall("unref", d)' <=> Made(calls, "unref", d) \/ Waits("unref", d)
        /\ \A d : HasCall("unref", d) <=> (Frame.call = "unref" /\ Frame.id = d) \/ Waits("unref", d)
    BY <1>1, <1>5, CallsAfter
  <2>2. QED
    BY <1>1, <1>6, <2>1
<1>9. \A d : Dropping(d)' = Dropping(d)
  BY <1>1, <1>5, <1>6, DroppingAfter
<1>10. /\ \A t, d : HasMsg(t, d)' <=> HasMsg(t, d)
       /\ \A d : HasScript(d)' <=> HasScript(d)
       /\ \A d : Unreported(d)' = Unreported(d)
       /\ Kind' = Kind /\ Protocols' = Protocols /\ Origin' = Origin
       /\ UniqueScripts' /\ UniqueMail' /\ Tame' = Tame
  BY <1>4, FunctionFrame
<1>11. UniqueDials' /\ \A d \in Circuit : HasDial(d)' => HasDial(d)
  BY <1>4, SendKeepsQueues, DialsAreSteady DEF Typed
<1>12. \A d : HupLive(d)' <=> HupLive(d)
  BY <1>4, <1>7 DEF HupLive
<1>13. state'[c] = "none" /\ \A d \in Circuit : d # c => state'[d] = state[d]
  BY <1>4 DEF Typed
<1>14. protsUp'[c] = {} /\ \A d \in Circuit : d # c => protsUp'[d] = protsUp[d]
  BY <1>4 DEF Typed
<1>15. Typed'
  <2>1. queue' \in [Circuit -> Seq({"dial", "hangup", "quit"})]
    BY <1>4, SendIsTyped DEF Typed
  <2>2. QED
    BY <1>4, <1>7, <2>1 DEF Typed
<1>16. TopOK'
  <2>1. CASE shutting # TRUE
    BY <1>1, <1>5, <2>1, NothingOnTop DEF TopOK, TopOnly
  <2>2. CASE shutting = TRUE
    <3>1. stack'[1] = calls[1]
      <4>1. \A i \in 1..Len(calls) : stack'[i] = calls[i]
        BY <1>1, <1>5, ReturnCalls
      <4>2. QED
        BY <1>5, <2>2, <4>1
    <3>2. stack'[1].call = "check_exit"
      BY <1>5, <2>2, <3>1
    <3>3. QED
      BY <3>2 DEF TopOK
  <2>3. QED
    BY <2>1, <2>2
<1>17. state[c] \notin UpStates
  BY <1>3 DEF UpStates
<1>18. Sources'
  BY <1>4, <1>10, <1>11, <1>12, <1>13, <1>14, <1>17 DEF Sources
<1>19. Exclusive'
  BY <1>4, <1>7, <1>10, <1>11, <1>12, <1>14 DEF Exclusive
<1>20. Mail' /\ MailOrder'
  BY <1>4, <1>12, MailKept DEF Typed
<1>21. Registered'
  BY <1>4, <1>7, <1>10 DEF Registered, Typed
<1>22. Daemons'
  BY <1>4, <1>10, <1>12 DEF Daemons
<1>23. Refs'
  <2>1. ~ Exists(c)' /\ \A d \in Circuit : d # c => Exists(d)' = Exists(d) /\ Own(d)' = Own(d)
    BY <1>7, <1>13 DEF Exists, Own
  <2>2. QED
    BY <1>3, <1>4, <1>7, <1>8, <1>9, <1>10, <2>1 DEF Refs
<1>24. Clones'
  BY <1>4, <1>7, <1>10, <1>13 DEF Clones
<1>25. QED
  BY <1>7, <1>10, <1>11, <1>15, <1>16, <1>18, <1>19, <1>20, <1>21, <1>22, <1>23, <1>24

-----------------------------------------------------------------------------
(* Handlers: the next message is taken while no call waits                 *)

\* Between two handlers
LEMMA IdleFacts ==
  ASSUME stack = << >>, Registered
  PROVE  /\ \A f, c : ~ HasCall(f, c)
         /\ \A c : Dropping(c) = 0
         /\ \A c : HupLive(c) <=> hup[c] # NoPid
         /\ \A c \in Circuit : ~ force[c]
<1>1. Len(stack) = 0 /\ \A i : i \notin 1..0
  OBVIOUS
<1>2. \A f, c : ~ HasCall(f, c)
  BY <1>1 DEF HasCall
<1>3. \A c : Dropping(c) = 0
  BY <1>1 DEF Dropping, Unref
<1>4. QED
  BY <1>2, <1>3 DEF HupLive, Registered

\* The first message is gone, the others are where they were, and at most
\* requests to deactivate circuits have come.
Taken ==
  /\ stack = << >> /\ inbox # << >> /\ inbox' \in Seq(MsgType)
  /\ \A i \in 1..Len(inbox') : \/ i + 1 \in 1..Len(inbox) /\ inbox'[i] = inbox[i + 1]
                               \/ inbox'[i].type = "deactivate"
  /\ \A i \in 2..Len(inbox) : i - 1 \in 1..Len(inbox') /\ inbox'[i - 1] = inbox[i]

LEMMA HandleTakes ==
  ASSUME Typed, NEW type, Handle(type)
  PROVE  /\ Taken /\ Head(inbox) = inbox[1] /\ 1 \in 1..Len(inbox) /\ inbox[1].type = type
<1>1. inbox \in Seq(MsgType) /\ inbox # << >> /\ inbox' = Tail(inbox) /\ stack = << >>
      /\ Head(inbox).type = type
  BY DEF Typed, Handle, Receives
<1>2. /\ inbox' \in Seq(MsgType) /\ Len(inbox) \in Nat /\ Len(inbox) >= 1
      /\ Len(inbox') = Len(inbox) - 1
      /\ \A i \in 1..Len(inbox') : i + 1 \in 1..Len(inbox) /\ inbox'[i] = inbox[i + 1]
      /\ Head(inbox) = inbox[1] /\ 1 \in 1..Len(inbox)
  BY <1>1, TakeMail
<1>3. ASSUME NEW i \in 2..Len(inbox) PROVE i - 1 \in 1..Len(inbox') /\ inbox'[i - 1] = inbox[i]
  <2>1. i - 1 \in 1..Len(inbox') /\ (i - 1) + 1 = i
    BY <1>2
  <2>2. QED
    BY <1>2, <2>1
<1>4. QED
  BY <1>1, <1>2, <1>3 DEF Taken

\* What is left of the messages
LEMMA TakenMail ==
  ASSUME Typed, UniqueMail, Taken, UNCHANGED config
  PROVE  /\ \A t, c : t # "deactivate" /\ HasMsg(t, c)' => HasMsg(t, c)
         /\ UniqueMail'
         /\ \A i, j \in 1..Len(inbox') : /\ inbox'[i].type # "deactivate" => i + 1 \in 2..Len(inbox) /\ inbox'[i] = inbox[i + 1]
                                         /\ i + 1 = j + 1 => i = j
                                         /\ j + 1 <= i + 1 => j <= i
         /\ \A m : Report(m)' <=> Report(m)
<1>0. inbox \in Seq(MsgType) /\ Len(inbox) \in Nat
  <2>1. inbox \in Seq(MsgType)
    BY DEF Typed
  <2>2. QED
    BY <2>1
<1>1. \A i \in 1..Len(inbox') : inbox'[i].type # "deactivate" => i + 1 \in 2..Len(inbox) /\ inbox'[i] = inbox[i + 1]
  BY <1>0 DEF Taken
<1>2. ASSUME NEW t, NEW c, t # "deactivate", HasMsg(t, c)' PROVE HasMsg(t, c)
  <2>1. PICK i \in 1..Len(inbox') : inbox'[i].type = t /\ inbox'[i].id = c
    BY <1>2 DEF HasMsg
  <2>2. i + 1 \in 1..Len(inbox) /\ inbox[i + 1].type = t /\ inbox[i + 1].id = c
    BY <1>0, <1>1, <1>2, <2>1
  <2>3. QED
    BY <2>2 DEF HasMsg
<1>3. UniqueMail'
  <2>1. SUFFICES ASSUME NEW i \in 1..Len(inbox'), NEW j \in 1..Len(inbox'),
                        inbox'[i].type = inbox'[j].type, inbox'[i].id = inbox'[j].id,
                        \/ inbox'[i].type = "start_daemon"
                        \/ inbox'[i].type = "up_l3prot" /\ Kind[inbox'[i].id] = "route" /\ inbox'[i].id \in Tame
                 PROVE  i = j
    BY DEF UniqueMail, Kind, Tame, Protocols, DialMayFail
  <2>2. /\ i + 1 \in 1..Len(inbox) /\ inbox'[i] = inbox[i + 1]
        /\ j + 1 \in 1..Len(inbox) /\ inbox'[j] = inbox[j + 1]
    BY <1>0, <1>1, <2>1
  <2>3. i + 1 = j + 1
    BY <2>1, <2>2 DEF UniqueMail
  <2>4. QED
    BY <2>3
<1>4. \A i, j \in 1..Len(inbox') : (i + 1 = j + 1 => i = j) /\ (j + 1 <= i + 1 => j <= i)
  OBVIOUS
<1>5. \A m : Report(m)' <=> Report(m)
  BY DEF Report, Kind
<1>6. QED
  BY <1>1, <1>2, <1>3, <1>4, <1>5

\* circd has not yet handled the message that daemon p of circuit c has ended.
EndSent(c, p) == \E i \in 1..Len(inbox) : inbox[i].type = "daemon_exited" /\ inbox[i].id = c /\ inbox[i].pid = p

LEMMA UnreportedIs ==
  /\ \A c, p : p \in Unreported(c) <=> p \in Pid /\ ((daemon[p].st = "run" /\ daemon[p].id = c) \/ EndSent(c, p))
  /\ \A c, p : p \in Unreported(c)' <=> p \in Pid /\ ((daemon'[p].st = "run" /\ daemon'[p].id = c) \/ EndSent(c, p)')
BY DEF Unreported, EndSent

\* The message that is taken reports the end of a daemon, or no such message is gone.
LEMMA TakenEnds ==
  ASSUME Typed, UniqueMail, Taken, UNCHANGED config, NEW c, NEW p
  PROVE  /\ EndSent(c, p)' => \E i \in 2..Len(inbox) : inbox[i].type = "daemon_exited" /\ inbox[i].id = c /\ inbox[i].pid = p
         /\ EndSent(c, p)' => EndSent(c, p)
         /\ EndSent(c, p) => EndSent(c, p)' \/ (inbox[1].type = "daemon_exited" /\ inbox[1].id = c /\ inbox[1].pid = p)
<1>0. inbox \in Seq(MsgType)
  BY DEF Typed
<1>1. ASSUME EndSent(c, p)'
      PROVE  \E i \in 2..Len(inbox) : inbox[i].type = "daemon_exited" /\ inbox[i].id = c /\ inbox[i].pid = p
  <2>1. PICK i \in 1..Len(inbox') : inbox'[i].type = "daemon_exited" /\ inbox'[i].id = c /\ inbox'[i].pid = p
    BY <1>1 DEF EndSent
  <2>2. i + 1 \in 2..Len(inbox) /\ inbox'[i] = inbox[i + 1]
    BY <2>1, TakenMail
  <2>3. QED
    BY <2>1, <2>2
<1>2. \A i \in 2..Len(inbox) : i \in 1..Len(inbox)
  OBVIOUS
<1>3. ASSUME NEW i \in 1..Len(inbox), i # 1,
             inbox[i].type = "daemon_exited", inbox[i].id = c, inbox[i].pid = p
      PROVE  EndSent(c, p)'
  <2>1. i \in 2..Len(inbox)
    BY <1>0, <1>3
  <2>2. i - 1 \in 1..Len(inbox') /\ inbox'[i - 1] = inbox[i]
    BY <2>1 DEF Taken
  <2>3. QED
    BY <1>3, <2>2 DEF EndSent
<1>4. EndSent(c, p)' => EndSent(c, p)
  BY <1>1, <1>2 DEF EndSent
<1>5. ASSUME EndSent(c, p)
      PROVE  EndSent(c, p)' \/ (inbox[1].type = "daemon_exited" /\ inbox[1].id = c /\ inbox[1].pid = p)
  <2>1. PICK i \in 1..Len(inbox) : inbox[i].type = "daemon_exited" /\ inbox[i].id = c /\ inbox[i].pid = p
    BY <1>5 DEF EndSent
  <2>2. QED
    BY <1>3, <2>1
<1>6. QED
  BY <1>1, <1>4, <1>5

\* What a handler may call first, apart from what the end of a daemon leads to
Begins(calls) ==
  /\ calls \in Seq(CallType)
  /\ \A i \in 2..Len(calls) : calls[i].call \notin TopOnly
  /\ \A i \in 1..Len(calls) : calls[i].call \in Low => i = Len(calls) /\ calls[i].call \in {"finalize_hangup", "check_exit"}
  /\ \A i \in 1..Len(calls) : calls[i].call = "dial" =>
       i = 2 /\ calls[1].call = "change_state" /\ calls[1].id = calls[2].id /\ calls[1].arg = "ready"

LEMMA BeginStack ==
  ASSUME NEW calls, Begins(calls), stack' = calls
  PROVE  /\ stack' \in Seq(CallType) /\ Shape' /\ Dialled' /\ UniqueCalls'
         /\ \A c : Dropping(c)' = 0
         /\ \A c : ~ HasCall("hung_up", c)' /\ ~ HasCall("unref", c)'
         /\ \A f, c : HasCall(f, c)' <=> Made(calls, f, c)
<1>0. calls \in Seq(CallType) /\ Len(calls) \in Nat
  <2>1. calls \in Seq(CallType)
    BY DEF Begins
  <2>2. QED
    BY <2>1
<1>1. Shape'
  BY <1>0 DEF Begins, Shape
<1>2. Dialled'
  BY <1>0 DEF Begins, Dialled
<1>3. UniqueCalls'
  BY <1>0 DEF Begins, UniqueCalls
<1>4. \A i \in 1..Len(calls) : calls[i].call \notin {"hung_up", "unref"}
  BY DEF Begins, Low
<1>5. \A f, c : HasCall(f, c)' <=> Made(calls, f, c)
  BY DEF HasCall, Made
<1>6. \A c : ~ HasCall("hung_up", c)' /\ ~ HasCall("unref", c)'
  BY <1>4 DEF HasCall
<1>7. \A c : Dropping(c)' = 0
  BY <1>0, <1>4 DEF Dropping, Unref
<1>8. QED
  BY <1>0, <1>1, <1>2, <1>3, <1>5, <1>6, <1>7

\* Handlers that leave the states, the counters and the daemons alone
Leaves ==
  /\ UNCHANGED <<config, state, force, refs, term, hup, nextId, queue, scripts, daemon>>
  /\ op' \in [Circuit -> {"", "dial", "hangup"}]
  /\ hangupState' \in [Circuit -> {"", "active", "inactive", "failed"}]
  /\ protsUp' \in [Circuit -> SUBSET Prot]
  /\ globalMode' \in Mode /\ localMode' \in [Circuit -> Mode \cup {""}]

\* What the messages that are left say of daemons, if the daemons and their circuits agree
LEMMA TakenKeepsMail ==
  ASSUME Typed, UniqueMail, Mail, MailOrder, Taken, UNCHANGED config, \A c : ~ HasCall("hung_up", c)',
         \A i \in 2..Len(inbox) :
           /\ inbox[i].type = "daemon_exited" => daemon'[inbox[i].pid].st # "run"
           /\ inbox[i].type = "daemon_exited" /\ inbox[i].pid = hup'[inbox[i].id] => inbox[i].pid = hup[inbox[i].id]
           /\ inbox[i].type = "down_link" /\ inbox[i].arg = "force"
                /\ daemon'[hup'[inbox[i].id]].st = "run" => daemon'[hup'[inbox[i].id]].link[Link] = "down"
           /\ Report(inbox[i]) => hup'[inbox[i].id] # NoPid
  PROVE  Mail' /\ MailOrder'
<1>1. /\ \A i, j \in 1..Len(inbox') : /\ inbox'[i].type # "deactivate" => i + 1 \in 2..Len(inbox) /\ inbox'[i] = inbox[i + 1]
                                      /\ i + 1 = j + 1 => i = j
                                      /\ j + 1 <= i + 1 => j <= i
      /\ \A m : Report(m)' <=> Report(m)
  BY TakenMail
<1>2. \A i \in 2..Len(inbox) : i \in 1..Len(inbox)
  OBVIOUS
<1>3. Kind' = Kind /\ Protocols' = Protocols /\ Tame' = Tame
  BY DEF Kind, Protocols, Tame, DialMayFail
<1>5. \A m : Report(m) \/ m.type = "daemon_exited" \/ m.type = "down_link" => m.type # "deactivate"
  BY DEF Report
<1>6. ASSUME NEW i \in 1..Len(inbox'), Report(inbox[i])' PROVE HupLive(inbox[i].id)'
  <2>1. PICK m : m = inbox'[i]
    OBVIOUS
  <2>2. Report(m)
    BY <1>1, <1>6, <2>1
  <2>3. i + 1 \in 2..Len(inbox) /\ m = inbox[i + 1]
    BY <1>1, <1>5, <2>1, <2>2
  <2>4. hup'[m.id] # NoPid
    BY <2>2, <2>3
  <2>5. HupLive(m.id)'
    BY <2>4 DEF HupLive
  <2>6. QED
    BY <2>1, <2>5
<1>7. ASSUME NEW i \in 1..Len(inbox')
      PROVE  /\ inbox'[i].type = "daemon_exited" => daemon'[inbox'[i].pid].st # "run" /\ Kind[inbox'[i].id] # "route"
             /\ inbox'[i].type \in {"up_link", "down_link"} => Kind[inbox'[i].id] = "link"
             /\ inbox'[i].type \in {"up_l3prot", "down_l3prot"} =>
                  Kind[inbox'[i].id] \in {"route", "pppd"} /\ inbox'[i].arg \in Protocols[inbox'[i].id]
             /\ inbox'[i].type = "down_link" /\ inbox'[i].arg = "force"
                  /\ daemon'[hup'[inbox'[i].id]].st = "run" => daemon'[hup'[inbox'[i].id]].link[Link] = "down"
             /\ inbox'[i].type \in {"dial_failed", "hangup_failed"} => inbox'[i].id \notin Tame
  <2>1. CASE inbox'[i].type = "deactivate"
    BY <2>1
  <2>2. CASE inbox'[i].type # "deactivate"
    <3>1. PICK k \in 2..Len(inbox) : inbox'[i] = inbox[k]
      BY <1>1, <2>2
    <3>2. k \in 1..Len(inbox)
      BY <1>2, <3>1
    <3>3. QED
      BY <3>1, <3>2 DEF Mail
  <2>3. QED
    BY <2>1, <2>2
<1>8. Mail'
  BY <1>3, <1>6, <1>7 DEF Mail
<1>9. MailOrder'
  <2>1. ASSUME NEW i \in 1..Len(inbox'), NEW j \in 1..Len(inbox'),
               inbox'[i].type = "daemon_exited", inbox'[j].type = "daemon_exited", inbox'[i].pid = inbox'[j].pid
        PROVE  i = j
    <3>1. i + 1 \in 1..Len(inbox) /\ inbox'[i] = inbox[i + 1] /\ j + 1 \in 1..Len(inbox) /\ inbox'[j] = inbox[j + 1]
      BY <1>1, <1>2, <2>1
    <3>2. i + 1 = j + 1
      BY <2>1, <3>1 DEF MailOrder
    <3>3. QED
      BY <1>1, <3>2
  <2>2. ASSUME NEW i \in 1..Len(inbox'), NEW j \in 1..Len(inbox'),
               Report(inbox[j])', Closing(inbox[i])', inbox'[i].id = inbox'[j].id
        PROVE  j <= i
    <3>0. PICK m, n : m = inbox'[i] /\ n = inbox'[j]
      OBVIOUS
    <3>1. Report(n) /\ m.id = n.id
      BY <1>1, <2>2, <3>0
    <3>2. \/ m.type = "daemon_exited" /\ m.pid = hup'[m.id]
          \/ m.type = "down_link" /\ m.arg = "force"
      BY <2>2, <3>0 DEF Closing
    <3>3. i + 1 \in 2..Len(inbox) /\ m = inbox[i + 1] /\ j + 1 \in 2..Len(inbox) /\ n = inbox[j + 1]
      BY <1>1, <1>5, <3>0, <3>1, <3>2
    <3>4. Closing(m)
      <4>1. PICK k \in 2..Len(inbox) : m = inbox[k]
        BY <3>3
      <4>2. m.type = "daemon_exited" /\ m.pid = hup'[m.id] => m.pid = hup[m.id]
        BY <4>1
      <4>3. QED
        BY <3>2, <4>2 DEF Closing
    <3>5. j + 1 <= i + 1
      BY <1>2, <3>1, <3>3, <3>4 DEF MailOrder
    <3>6. QED
      BY <1>1, <3>5
  <2>3. QED
    BY <2>1, <2>2 DEF MailOrder
<1>10. QED
  BY <1>8, <1>9

\* If the message is not about the end of a daemon, as many daemons are not known to be dead.
LEMMA TakenReports ==
  ASSUME Typed, UniqueMail, Taken, UNCHANGED config, inbox[1].type # "daemon_exited",
         \A p \in Pid : daemon'[p].st = daemon[p].st /\ daemon'[p].id = daemon[p].id
  PROVE  \A c : Unreported(c)' = Unreported(c)
<1> TAKE c
<1>1. \A p : EndSent(c, p)' <=> EndSent(c, p)
  BY TakenEnds
<1>2. \A p : p \in Unreported(c)' <=> p \in Unreported(c)
  BY <1>1, UnreportedIs
<1>3. QED
  BY <1>2

LEMMA HandlerRest ==
  ASSUME IInv, Taken, inbox[1].type # "daemon_exited", NEW calls, Begins(calls), stack' = calls, Leaves
  PROVE  /\ Typed' /\ Tame' = Tame /\ Shape' /\ Dialled' /\ Unique'
         /\ Mail' /\ MailOrder' /\ Registered' /\ Daemons' /\ Refs' /\ Clones'
         /\ \A t, c : t # "deactivate" /\ HasMsg(t, c)' => HasMsg(t, c)
         /\ \A c : HasScript(c)' <=> HasScript(c)
         /\ \A c : HasDial(c)' <=> HasDial(c)
         /\ \A c : HupLive(c)' <=> HupLive(c)
         /\ Kind' = Kind /\ Protocols' = Protocols
<1> USE DEF IInv
<1>0. /\ UNCHANGED <<config, state, force, refs, term, hup, nextId, queue, scripts, daemon>>
      /\ stack = << >>
  BY DEF Leaves, Taken
<1>1. /\ stack' \in Seq(CallType) /\ Shape' /\ Dialled' /\ UniqueCalls'
      /\ \A c : Dropping(c)' = 0
      /\ \A c : ~ HasCall("hung_up", c)' /\ ~ HasCall("unref", c)'
  BY BeginStack
<1>2. /\ \A f, c : ~ HasCall(f, c)
      /\ \A c : Dropping(c) = 0
      /\ \A c : HupLive(c) <=> hup[c] # NoPid
  BY <1>0, IdleFacts
<1>3. \A c : HupLive(c)' <=> HupLive(c)
  BY <1>0, <1>1, <1>2 DEF HupLive
<1>4. Kind' = Kind /\ Protocols' = Protocols /\ Origin' = Origin /\ Tame' = Tame
  BY <1>0 DEF Kind, Protocols, Origin, Tame, DialMayFail
<1>5. (\A t, c : t # "deactivate" /\ HasMsg(t, c)' => HasMsg(t, c)) /\ UniqueMail'
  BY <1>0, TakenMail DEF Unique
<1>6. \A c : Unreported(c)' = Unreported(c)
  BY <1>0, TakenReports DEF Unique
<1>7. (\A c : HasScript(c)' <=> HasScript(c)) /\ (\A c : HasDial(c)' <=> HasDial(c)) /\ UniqueDials' /\ UniqueScripts'
  BY <1>0, <1>4 DEF HasScript, HasDial, UniqueDials, UniqueScripts, Unique
<1>8. Mail' /\ MailOrder'
  <2>1. ASSUME NEW i \in 2..Len(inbox)
        PROVE  /\ inbox[i].type = "daemon_exited" => daemon[inbox[i].pid].st # "run"
               /\ inbox[i].type = "down_link" /\ inbox[i].arg = "force"
                    /\ daemon[hup[inbox[i].id]].st = "run" => daemon[hup[inbox[i].id]].link[Link] = "down"
               /\ Report(inbox[i]) => hup[inbox[i].id] # NoPid
    <3>1. i \in 1..Len(inbox)
      OBVIOUS
    <3>2. QED
      BY <1>2, <3>1 DEF Mail
  <2>2. QED
    BY <1>0, <1>1, <2>1, TakenKeepsMail DEF Unique
<1>9. Typed'
  <2>1. inbox' \in Seq(MsgType)
    BY DEF Taken
  <2>2. /\ op' \in [Circuit -> {"", "dial", "hangup"}]
        /\ hangupState' \in [Circuit -> {"", "active", "inactive", "failed"}]
        /\ protsUp' \in [Circuit -> SUBSET Prot]
        /\ globalMode' \in Mode /\ localMode' \in [Circuit -> Mode \cup {""}]
    BY DEF Leaves
  <2>3. QED
    BY <1>0, <1>1, <2>1, <2>2 DEF Typed
<1>10. Registered'
  BY <1>0, <1>2, <1>6 DEF Registered
<1>11. Daemons'
  BY <1>0, <1>3, <1>4 DEF Daemons
<1>12. Refs'
  <2>1. \A c \in Circuit : Own(c)' = Own(c) /\ Exists(c)' = Exists(c)
    BY <1>0, <1>1, <1>2 DEF Own, Exists
  <2>2. QED
    BY <1>0, <1>1, <1>2, <1>6, <2>1 DEF Refs
<1>13. Clones'
  BY <1>0, <1>1, <1>4 DEF Clones
<1>14. QED
  BY <1>1, <1>3, <1>4, <1>5, <1>7, <1>8, <1>9, <1>10, <1>11, <1>12, <1>13 DEF Unique

\* A handler that only leads to calls
LEMMA QuietHandler ==
  ASSUME IInv, Taken, inbox[1].type # "daemon_exited", NEW calls, Begins(calls), stack' = calls, Leaves,
         UNCHANGED protsUp, TopOK', \A c \in Circuit : Made(calls, "dial", c) => state[c] = "active"
  PROVE  IInv'
<1> USE DEF IInv
<1>1. /\ Typed' /\ Tame' = Tame /\ Shape' /\ Dialled' /\ Unique'
      /\ Mail' /\ MailOrder' /\ Registered' /\ Daemons' /\ Refs' /\ Clones'
      /\ \A t, c : t # "deactivate" /\ HasMsg(t, c)' => HasMsg(t, c)
      /\ \A c : HasScript(c)' <=> HasScript(c)
      /\ \A c : HasDial(c)' <=> HasDial(c)
      /\ \A c : HupLive(c)' <=> HupLive(c)
      /\ Kind' = Kind /\ Protocols' = Protocols
  BY HandlerRest
<1>2. UNCHANGED <<state, hup>>
  BY DEF Leaves
<1>3. \A c \in Circuit : HasCall("dial", c)' => state[c] = "active"
  BY BeginStack
<1>4. Sources'
  BY <1>1, <1>2 DEF Sources
<1>5. \A c \in Circuit : c \in Tame /\ state[c] = "active" =>
        ~ HasDial(c) /\ ~ HasScript(c) /\ ~ HasMsg("start_daemon", c) /\ ~ HasMsg("up_l3prot", c)
        /\ ~ HupLive(c) /\ protsUp[c] = {}
  BY DEF Sources, UpStates
<1>6. Exclusive'
  BY <1>1, <1>2, <1>3, <1>5 DEF Exclusive
<1>7. QED
  BY <1>1, <1>4, <1>6

\* What a handler begins with, and what must hold for it
LEMMA BeginsNothing == Begins(<< >>)
BY DEF Begins

LEMMA BeginsCall ==
  ASSUME NEW x \in CallType, x.call \in {"change_state", "hangup", "finalize_hangup", "check_exit"}
  PROVE  Begins(<<x>>) /\ \A c : ~ Made(<<x>>, "dial", c)
<1>1. PICK calls \in Seq(CallType) : calls = <<x>> /\ Len(calls) = 1 /\ calls[1] = x
  BY OneCall
<1>2. \A i : (i \in 1..1 <=> i = 1) /\ i \notin 2..1
  OBVIOUS
<1>3. Begins(calls) /\ \A c : ~ Made(calls, "dial", c)
  BY <1>1, <1>2 DEF Begins, Made, Low
<1>4. QED
  BY <1>1, <1>3

LEMMA BeginsDial ==
  ASSUME NEW c \in Circuit
  PROVE  Begins(DialCalls(c)) /\ \A d : Made(DialCalls(c), "dial", d) => d = c
<1>1. PICK calls \in Seq(CallType) : /\ calls = DialCalls(c) /\ Len(calls) = 2
                                     /\ calls[1].call = "change_state" /\ calls[1].id = c /\ calls[1].arg = "ready"
                                     /\ calls[2].call = "dial" /\ calls[2].id = c
  BY DialCallsAre
<1>2. \A i : (i \in 1..2 <=> i = 1 \/ i = 2) /\ (i \in 2..2 <=> i = 2)
  OBVIOUS
<1>3. Begins(calls) /\ \A d : Made(calls, "dial", d) => d = c
  BY <1>1, <1>2 DEF Begins, Made, Low, TopOnly
<1>4. QED
  BY <1>1, <1>3

\* Nothing is on its way for a circuit that is not up.
LEMMA DownIsQuiet ==
  ASSUME Typed, Mail, Sources, Registered, stack = << >>, NEW c \in Circuit, state[c] \notin UpStates
  PROVE  (c \in Tame => Quiet(c)) /\ hup[c] = NoPid
<1>1. (\A f, d : ~ HasCall(f, d)) /\ \A d : HupLive(d) <=> hup[d] # NoPid
  BY IdleFacts
<1>a. Kind[c] # "route" => c \in Tame
  BY DEF Tame
<1>b. hup[c] = NoPid
  BY <1>1, <1>a DEF Sources
<1>c. SUFFICES ASSUME c \in Tame PROVE Quiet(c)
  BY <1>b
<1>2. /\ ~ HasDial(c) /\ ~ HasScript(c) /\ ~ HasMsg("start_daemon", c) /\ ~ HasMsg("up_l3prot", c)
      /\ ~ HupLive(c) /\ protsUp[c] = {}
  BY <1>c DEF Sources
<1>3. \A i \in 1..Len(inbox) : inbox[i].id = c => ~ Report(inbox[i])
  BY <1>2 DEF Mail
<1>4. ~ HasMsg("up_link", c) /\ ~ HasMsg("down_link", c) /\ (Kind[c] # "route" => ~ HasMsg("down_l3prot", c))
  BY <1>3 DEF HasMsg, Report
<1>5. QED
  BY <1>1, <1>2, <1>4 DEF Quiet

\* Between two handlers a route circuit is not deleted: it has no daemons, so that it
\* has been removed.
LEMMA IdleIsAlive ==
  ASSUME IInv, Removal, stack = << >>, NEW c \in Circuit, Kind[c] = "route", Exists(c)
  PROVE  state[c] \in Alive
<1>1. Dropping(c) = 0 /\ ~ HasCall("hung_up", c)
  BY IdleFacts DEF IInv
<1>2. \A p : p \notin Unreported(c)
  BY DEF IInv, Daemons, Mail, Unreported
<1>3. Unreported(c) = {}
  BY <1>2
<1>4. Cardinality(Unreported(c)) = 0
  BY <1>3, FS_EmptySet
<1>5. refs[c] = Own(c)
  <2>1. refs[c] = Cardinality(Unreported(c)) + Dropping(c) + Own(c)
    BY DEF IInv, Refs
  <2>2. Own(c) \in Nat
    BY DEF Own
  <2>3. QED
    BY <1>1, <1>4, <2>1, <2>2
<1>6. refs[c] # 0
  BY DEF Removal
<1>7. state[c] # "deleted"
  BY <1>1, <1>5, <1>6 DEF Own
<1>8. QED
  BY <1>7 DEF IInv, Typed, Exists, Alive, States, UpStates, Stopped

\* A message that leads to no call, or to one that needs no more than its type
LEMMA NoCalls ==
  ASSUME IInv, Taken, inbox[1].type # "daemon_exited", Leaves, UNCHANGED protsUp, stack' = << >>
  PROVE  IInv'
<1>1. TopOK'
  BY DEF TopOK
<1>2. \A c : ~ Made(<< >>, "dial", c)
  BY DEF Made
<1>3. QED
  BY <1>1, <1>2, BeginsNothing, QuietHandler

LEMMA HangupHandler ==
  ASSUME IInv, Taken, inbox[1].type # "daemon_exited", Leaves, UNCHANGED protsUp,
         NEW calls, SteadyCalls(calls), stack' = calls
  PROVE  IInv'
<1>0. state' = state
  BY DEF Leaves
<1>1. CASE calls = << >>
  BY <1>1, NoCalls
<1>2. ASSUME NEW c \in Circuit, calls = DialCalls(c), state[c] = "active" PROVE IInv'
  <2>1. Begins(calls) /\ \A d : Made(calls, "dial", d) => d = c
    BY <1>2, BeginsDial
  <2>2. /\ Len(stack') = 2
        /\ stack'[1].call = "change_state" /\ stack'[1].id = c /\ stack'[1].arg = "ready"
        /\ stack'[2].call = "dial" /\ stack'[2].id = c
    BY <1>2, DialCallsAre
  <2>3. ChangeOK(c, "ready")'
    BY <1>0, <1>2, <2>2 DEF ChangeOK, Alive, Stopped, UpStates
  <2>4. TopOK'
    BY <2>2, <2>3 DEF TopOK
  <2>5. QED
    BY <1>2, <2>1, <2>4, QuietHandler
<1>3. ASSUME NEW c \in Circuit, NEW s \in {"active"} \cup Stopped, calls = <<Call("hangup", c, s)>> PROVE IInv'
  <2>1. PICK x \in CallType : x = Call("hangup", c, s) /\ x.call = "hangup"
    BY CallsAreTyped DEF Call
  <2>2. Begins(calls) /\ \A d : ~ Made(calls, "dial", d)
    BY <1>3, <2>1, BeginsCall
  <2>3. TopOK'
    <3>1. stack'[1] = x
      BY <1>3, <2>1
    <3>2. QED
      BY <2>1, <3>1 DEF TopOK
  <2>4. QED
    BY <2>2, <2>3, QuietHandler
<1>4. QED
  BY <1>1, <1>2, <1>3 DEF SteadyCalls

\* A handler that changes the state of a circuit, or completes a hangup
LEMMA ChangeHandler ==
  ASSUME IInv, Taken, inbox[1].type # "daemon_exited", Leaves, UNCHANGED protsUp,
         NEW c \in Circuit, NEW s \in States, stack' = <<Call("change_state", c, s)>>, ChangeOK(c, s)'
  PROVE  IInv'
<1>1. PICK x \in CallType : x = Call("change_state", c, s) /\ x.call = "change_state" /\ x.id = c /\ x.arg = s
  BY CallsAreTyped DEF Call
<1>2. Begins(<<x>>) /\ \A d : ~ Made(<<x>>, "dial", d)
  BY <1>1, BeginsCall
<1>3. TopOK'
  <2>1. stack'[1] = x
    BY <1>1
  <2>2. QED
    BY <1>1, <2>1 DEF TopOK
<1>4. stack' = <<x>>
  BY <1>1
<1>5. QED
  BY <1>2, <1>3, <1>4, QuietHandler

LEMMA FinalizeHandler ==
  ASSUME IInv, Taken, inbox[1].type # "daemon_exited", Leaves, UNCHANGED protsUp,
         NEW c \in Circuit, NEW a \in {"", "force"}, stack' = <<Call("finalize_hangup", c, a)>>, FinalizeOK(c, a)'
  PROVE  IInv'
<1>1. PICK x \in CallType : x = Call("finalize_hangup", c, a) /\ x.call = "finalize_hangup" /\ x.id = c /\ x.arg = a
  BY CallsAreTyped DEF Call
<1>2. Begins(<<x>>) /\ \A d : ~ Made(<<x>>, "dial", d)
  BY <1>1, BeginsCall
<1>3. TopOK'
  <2>1. stack'[1] = x
    BY <1>1
  <2>2. QED
    BY <1>1, <2>1 DEF TopOK
<1>4. stack' = <<x>>
  BY <1>1
<1>5. QED
  BY <1>2, <1>3, <1>4, QuietHandler

LEMMA CallsLeave ==
  ASSUME Typed, NEW calls, Calls(calls)
  PROVE  Leaves /\ UNCHANGED protsUp /\ stack' = calls
BY DEF Typed, Calls, Leaves, conf, modes, dmns, life, procs

\* The message that a handler takes
LEMMA HandleFacts ==
  ASSUME IInv, NEW type, Handle(type)
  PROVE  /\ Taken /\ Head(inbox) = inbox[1] /\ 1 \in 1..Len(inbox) /\ inbox[1].type = type
         /\ Id = inbox[1].id /\ Arg = inbox[1].arg
         /\ inbox[1] \in MsgType
         /\ stack = << >>
         /\ \A f, c : ~ HasCall(f, c)
         /\ \A c : HupLive(c) <=> hup[c] # NoPid
         /\ \A c \in Circuit : ~ force[c]
<1>1. Taken /\ Head(inbox) = inbox[1] /\ 1 \in 1..Len(inbox) /\ inbox[1].type = type
  BY HandleTakes DEF IInv
<1>2. Id = inbox[1].id /\ Arg = inbox[1].arg
  BY <1>1 DEF Id, Arg
<1>3. inbox \in Seq(MsgType)
  BY DEF IInv, Typed
<1>4. inbox[1] \in MsgType
  BY <1>1, <1>3, MailFacts
<1>5. stack = << >>
  BY <1>1 DEF Taken
<1>6. /\ \A f, c : ~ HasCall(f, c)
      /\ \A c : HupLive(c) <=> hup[c] # NoPid
      /\ \A c \in Circuit : ~ force[c]
  BY <1>5, IdleFacts DEF IInv
<1>7. QED
  BY <1>1, <1>2, <1>4, <1>5, <1>6

\* Nothing is on its way for a circuit when the handler has taken the message, either.
LEMMA QuietAfter ==
  ASSUME IInv, NEW c \in Circuit, Quiet(c), Taken, Leaves, protsUp'[c] = {}, ~ HasCall("dial", c)'
  PROVE  Quiet(c)'
<1>1. \A t : t # "deactivate" /\ HasMsg(t, c)' => HasMsg(t, c)
  BY TakenMail DEF IInv, Leaves, Unique
<1>2. UNCHANGED <<config, queue, scripts>>
  BY DEF Leaves
<1>3. Kind' = Kind /\ (HasDial(c)' <=> HasDial(c)) /\ (HasScript(c)' <=> HasScript(c))
  BY <1>2 DEF Kind, HasDial, HasScript
<1>4. QED
  BY <1>1, <1>3 DEF Quiet

\* The calls of a handler that makes one call other than dial
LEMMA OneCallBegun ==
  ASSUME NEW f, NEW c, NEW a, Call(f, c, a) \in CallType,
         f \in {"change_state", "hangup", "finalize_hangup", "check_exit"}, stack' = <<Call(f, c, a)>>
  PROVE  /\ Len(stack') = 1 /\ \A d : ~ HasCall("dial", d)' /\ ~ HasCall("hung_up", d)'
<1>1. PICK x \in CallType : x = Call(f, c, a) /\ x.call = f
  BY DEF Call
<1>2. Begins(<<x>>) /\ (\A d : ~ Made(<<x>>, "dial", d)) /\ Len(<<x>>) = 1
  BY <1>1, BeginsCall, OneCall
<1>3. stack' = <<x>>
  BY <1>1
<1>4. QED
  BY <1>2, <1>3, BeginStack

LEMMA ActivateStep ==
  ASSUME IInv, handle_activate_circuit_message
  PROVE  IInv'
<1>1. /\ Taken /\ inbox[1].type = "activate" /\ Id \in Circuit /\ stack = << >>
      /\ \A c : HupLive(c) <=> hup[c] # NoPid
  <2>1. Handle("activate")
    BY DEF handle_activate_circuit_message
  <2>2. inbox[1] \in MsgType /\ inbox[1].type = "activate" /\ Id = inbox[1].id /\ Arg = inbox[1].arg
    BY <2>1, HandleFacts
  <2>3. QED
    BY <2>1, <2>2, HandleFacts DEF MsgType
<1>2. PICK c \in Circuit : c = Id
  BY <1>1
<1>3. CASE ~ shutting /\ state[c] \in {"inactive", "failed"}
  <2>1. Calls(<<Call("change_state", c, "active")>>)
    BY <1>2, <1>3 DEF handle_activate_circuit_message
  <2>2. Leaves /\ UNCHANGED protsUp /\ stack' = <<Call("change_state", c, "active")>>
    BY <2>1, CallsLeave DEF IInv
  <2>3. Len(stack') = 1 /\ ~ HasCall("dial", c)' /\ ~ HasCall("hung_up", c)'
    BY <2>2, OneCallBegun, CallsAreTyped DEF States
  <2>4. (c \in Tame => Quiet(c)) /\ hup[c] = NoPid
    BY <1>1, <1>3, DownIsQuiet DEF IInv, UpStates
  <2>5. (c \in Tame => Quiet(c)') /\ hup'[c] = NoPid /\ state'[c] = state[c]
    BY <1>1, <2>2, <2>3, <2>4, QuietAfter DEF Leaves, Quiet
  <2>a. Tame' = Tame
    BY <2>2 DEF Leaves, Tame, Kind, Protocols, DialMayFail
  <2>6. ChangeOK(c, "active")'
    BY <1>3, <2>3, <2>5, <2>a DEF ChangeOK, HupLive, Stopped, Alive
  <2>7. QED
    BY <1>1, <2>2, <2>6, ChangeHandler DEF States
<1>4. CASE ~ (~ shutting /\ state[c] \in {"inactive", "failed"})
  <2>1. Calls(<< >>)
    BY <1>2, <1>4 DEF handle_activate_circuit_message
  <2>2. QED
    BY <1>1, <2>1, CallsLeave, NoCalls DEF IInv
<1>5. QED
  BY <1>3, <1>4

LEMMA DialupStep ==
  ASSUME IInv, handle_dialup_circuit_message
  PROVE  IInv'
<1>1. Taken /\ inbox[1].type = "dialup" /\ Id \in Circuit
  <2>1. Handle("dialup")
    BY DEF handle_dialup_circuit_message
  <2>2. inbox[1] \in MsgType /\ inbox[1].type = "dialup" /\ Id = inbox[1].id /\ Arg = inbox[1].arg
    BY <2>1, HandleFacts
  <2>3. QED
    BY <2>1, <2>2, HandleFacts DEF MsgType
<1>2. PICK calls : Calls(calls) /\ SteadyCalls(calls)
  <2>1. \/ state[Id] = "active" /\ Calls(Autodialup(Id))
        \/ Calls(<< >>)
    BY DEF handle_dialup_circuit_message
  <2>2. QED
    BY <1>1, <2>1, DialOrHangup
<1>3. QED
  BY <1>1, <1>2, CallsLeave, HangupHandler DEF IInv

LEMMA HangupStep ==
  ASSUME IInv, NEW type \in {"hangup", "deactivate", "fail"}, NEW target \in {"active"} \cup Stopped,
         handle_hangup_or_deactivate_circuit_message(type, target)
  PROVE  IInv'
<1>1. /\ Taken /\ inbox[1].type = type /\ Id \in Circuit /\ stack = << >>
      /\ \A c \in Circuit : ~ force[c]
  <2>1. Handle(type)
    BY DEF handle_hangup_or_deactivate_circuit_message
  <2>2. inbox[1] \in MsgType /\ inbox[1].type = type /\ Id = inbox[1].id /\ Arg = inbox[1].arg
    BY <2>1, HandleFacts
  <2>3. QED
    BY <2>1, <2>2, HandleFacts DEF MsgType
<1>2. PICK c \in Circuit : c = Id
  BY <1>1
<1>3. CASE state[c] \in {"active", "inactive", "failed"}
  <2>1. /\ hangupState' = [hangupState EXCEPT ![c] = target]
        /\ stack' = <<Call("finalize_hangup", c, "")>>
        /\ UNCHANGED <<state, op, force, protsUp, refs, modes, dmns, life, procs, sent, config>>
    BY <1>2, <1>3 DEF handle_hangup_or_deactivate_circuit_message
  <2>2. Leaves /\ UNCHANGED protsUp
    BY <2>1 DEF IInv, Typed, Leaves, modes, dmns, life, procs, Stopped
  <2>3. ~ HasCall("dial", c)'
    BY <2>1, OneCallBegun, CallsAreTyped
  <2>4. c \in Tame => Quiet(c)
    BY <1>1, <1>3, DownIsQuiet DEF IInv, UpStates
  <2>a. Tame' = Tame
    BY <2>2 DEF Leaves, Tame, Kind, Protocols, DialMayFail
  <2>5. (c \in Tame => Quiet(c)') /\ hup'[c] = NoPid /\ state'[c] = state[c] /\ force'[c] = force[c]
    BY <1>1, <1>3, <2>2, <2>3, <2>4, QuietAfter, DownIsQuiet DEF Leaves, Quiet, IInv,
       UpStates
  <2>6. FinalizeOK(c, "")'
    BY <1>1, <1>3, <2>5, <2>a DEF FinalizeOK, Alive, Stopped
  <2>7. QED
    BY <1>1, <2>1, <2>2, <2>6, FinalizeHandler
<1>4. CASE state[c] \notin {"active", "inactive", "failed"}
  <2>1. PICK calls : Calls(calls) /\ SteadyCalls(calls)
    <3>1. Calls(HangupCalls(c, target)) \/ Calls(<< >>)
      BY <1>2, <1>4 DEF handle_hangup_or_deactivate_circuit_message
    <3>2. SteadyCalls(HangupCalls(c, target)) /\ SteadyCalls(<< >>)
      BY DEF SteadyCalls, HangupCalls
    <3>3. QED
      BY <3>1, <3>2
  <2>2. QED
    BY <1>1, <2>1, CallsLeave, HangupHandler DEF IInv
<1>5. QED
  BY <1>3, <1>4

LEMMA UpLinkStep ==
  ASSUME IInv, handle_up_link_circuit_event
  PROVE  IInv'
<1>1. /\ Taken /\ inbox[1].type = "up_link" /\ 1 \in 1..Len(inbox) /\ Id = inbox[1].id /\ Id \in Circuit
      /\ \A c : HupLive(c) <=> hup[c] # NoPid
  <2>1. Handle("up_link")
    BY DEF handle_up_link_circuit_event
  <2>2. inbox[1] \in MsgType /\ inbox[1].type = "up_link" /\ Id = inbox[1].id /\ Arg = inbox[1].arg
    BY <2>1, HandleFacts
  <2>3. QED
    BY <2>1, <2>2, HandleFacts DEF MsgType
<1>2. PICK c \in Circuit : c = Id
  BY <1>1
<1>3. CASE Exists(c)
  <2>1. Calls(<<Call("change_state", c, "online")>>)
    BY <1>2, <1>3 DEF handle_up_link_circuit_event
  <2>2. Leaves /\ UNCHANGED protsUp /\ stack' = <<Call("change_state", c, "online")>>
    BY <2>1, CallsLeave DEF IInv
  <2>3. HupLive(c) /\ c \in Tame
    BY <1>1, <1>2 DEF IInv, Mail, Report, Tame
  <2>4. state'[c] \in UpStates
    BY <2>2, <2>3 DEF IInv, Sources, Leaves
  <2>5. ChangeOK(c, "online")'
    BY <2>4 DEF ChangeOK, UpStates, Stopped, Alive
  <2>6. QED
    BY <1>1, <2>2, <2>5, ChangeHandler DEF States
<1>4. CASE ~ Exists(c)
  <2>1. Calls(<< >>)
    BY <1>2, <1>4 DEF handle_up_link_circuit_event
  <2>2. QED
    BY <1>1, <2>1, CallsLeave, NoCalls DEF IInv
<1>5. QED
  BY <1>3, <1>4

\* After the last report on a daemon nothing is on its way for the circuit.
LEMMA ClosedIsQuiet ==
  ASSUME IInv, Taken, Kind' = Kind, UNCHANGED <<config, queue, scripts>>,
         NEW c \in Circuit, HupLive(c), protsUp'[c] = {}, ~ HasCall("dial", c)',
         1 \in 1..Len(inbox), Closing(inbox[1]), inbox[1].id = c, Kind[c] # "route"
  PROVE  Quiet(c)'
<1>1. /\ \A t, d : t # "deactivate" /\ HasMsg(t, d)' => HasMsg(t, d)
      /\ \A i \in 1..Len(inbox') : inbox'[i].type # "deactivate" => i + 1 \in 2..Len(inbox) /\ inbox'[i] = inbox[i + 1]
  BY TakenMail DEF IInv, Unique
<1>2. (HasDial(c)' <=> HasDial(c)) /\ (HasScript(c)' <=> HasScript(c))
  BY DEF HasDial, HasScript
<1>3. ~ HasDial(c) /\ ~ HasScript(c) /\ ~ HasMsg("start_daemon", c)
  BY DEF IInv, Exclusive, Sources, Tame
<1>4. ASSUME NEW t \in {"up_l3prot", "down_l3prot", "up_link", "down_link"}, HasMsg(t, c)' PROVE FALSE
  <2>1. PICK i \in 1..Len(inbox') : inbox'[i].type = t /\ inbox'[i].id = c
    BY <1>4 DEF HasMsg
  <2>2. i + 1 \in 2..Len(inbox) /\ inbox[i + 1].type = t /\ inbox[i + 1].id = c
    BY <1>1, <2>1
  <2>3. PICK j \in 2..Len(inbox) : j = i + 1 /\ inbox[j].type = t /\ inbox[j].id = c
    BY <2>2
  <2>4. j \in 1..Len(inbox) /\ ~ (j <= 1)
    OBVIOUS
  <2>5. Report(inbox[j])
    BY <2>3 DEF Report
  <2>6. QED
    BY <2>3, <2>4, <2>5 DEF IInv, MailOrder
<1>5. QED
  BY <1>1, <1>2, <1>3, <1>4 DEF Quiet

LEMMA DownLinkStep ==
  ASSUME IInv, handle_down_link_circuit_event
  PROVE  IInv'
<1>1. /\ Taken /\ inbox[1].type = "down_link" /\ 1 \in 1..Len(inbox) /\ Id = inbox[1].id /\ Id \in Circuit
      /\ Arg = inbox[1].arg /\ Arg \in {"", "force"}
      /\ \A c : HupLive(c) <=> hup[c] # NoPid
      /\ \A c \in Circuit : ~ force[c]
  <2>1. Handle("down_link")
    BY DEF handle_down_link_circuit_event
  <2>2. inbox[1] \in MsgType /\ inbox[1].type = "down_link" /\ Id = inbox[1].id /\ Arg = inbox[1].arg
    BY <2>1, HandleFacts
  <2>3. QED
    BY <2>1, <2>2, HandleFacts DEF MsgType
<1>2. PICK c \in Circuit, a \in {"", "force"} : c = Id /\ a = Arg
  BY <1>1
<1>3. CASE Exists(c)
  <2>1. Calls(<<Call("finalize_hangup", c, a)>>)
    BY <1>2, <1>3 DEF handle_down_link_circuit_event
  <2>2. Leaves /\ UNCHANGED protsUp /\ stack' = <<Call("finalize_hangup", c, a)>>
    BY <2>1, CallsLeave DEF IInv
  <2>3. HupLive(c) /\ Kind[c] = "link" /\ hup[c] # NoPid /\ c \in Tame
    BY <1>1, <1>2 DEF IInv, Mail, Report, Tame
  <2>4. state[c] \in UpStates
    BY <2>3 DEF IInv, Sources
  <2>5. a = "force" /\ daemon[hup[c]].st = "run" => daemon[hup[c]].link[Link] = "down"
    BY <1>1, <1>2 DEF IInv, Mail
  <2>6. UNCHANGED <<config, state, hup, daemon, force, queue, scripts>> /\ Kind' = Kind
    BY <2>2 DEF Leaves, Kind
  <2>7. a = "force" /\ protsUp'[c] = {} => Quiet(c)'
    <3>1. ~ HasCall("dial", c)'
      BY <2>2, OneCallBegun, CallsAreTyped
    <3>2. a = "force" => Closing(inbox[1])
      BY <1>1, <1>2 DEF Closing
    <3>3. QED
      BY <1>1, <1>2, <2>3, <2>6, <3>1, <3>2, ClosedIsQuiet
  <2>8. FinalizeOK(c, a)'
    BY <1>1, <2>3, <2>4, <2>5, <2>6, <2>7 DEF FinalizeOK, Alive
  <2>9. QED
    BY <1>1, <2>2, <2>8, FinalizeHandler
<1>4. CASE ~ Exists(c)
  <2>1. Calls(<< >>)
    BY <1>2, <1>4 DEF handle_down_link_circuit_event
  <2>2. QED
    BY <1>1, <2>1, CallsLeave, NoCalls DEF IInv
<1>5. QED
  BY <1>3, <1>4

\* The circuits whose mode has changed are looked at.
LEMMA ModeCallsAre ==
  ASSUME NEW g \in Mode, NEW l \in [Circuit -> Mode \cup {""}]
  PROVE  /\ Begins(ModeCalls(g, l))
         /\ \A i \in 1..Len(ModeCalls(g, l)) : ModeCalls(g, l)[i].call = "mode_changed"
<1> DEFINE S == {c \in Circuit : circd_get_effective_dialmode(g, l[c]) # EffectiveMode(c)}
<1>1. PICK changed : changed = InOrder(S) /\ changed \in Seq(S)
  BY InOrderIsOf
<1>2. Len(changed) \in Nat /\ \A i \in 1..Len(changed) : changed[i] \in Circuit
  <2>1. S \subseteq Circuit
    OBVIOUS
  <2> HIDE DEF S
  <2>2. Len(changed) \in Nat /\ \A i \in 1..Len(changed) : changed[i] \in S
    BY <1>1, SeqElements
  <2>3. QED
    BY <2>1, <2>2
<1>3. \A c \in Circuit : circd_get_effective_dialmode(g, l[c]) \in Mode
  BY DEF circd_get_effective_dialmode, Mode
<1>4. \A i \in 1..Len(changed) :
        Call("mode_changed", changed[i], circd_get_effective_dialmode(g, l[changed[i]])) \in CallType
  BY <1>2, <1>3, CallsAreTyped
<1>5. PICK calls : calls = [i \in 1..Len(changed) |->
                     Call("mode_changed", changed[i], circd_get_effective_dialmode(g, l[changed[i]]))]
  OBVIOUS
<1>6. calls \in [1..Len(changed) -> CallType]
  BY <1>4, <1>5
<1>7. calls \in Seq(CallType) /\ Len(calls) = Len(changed)
  BY <1>2, <1>6, FunctionIsSeq
<1>8. \A i \in 1..Len(calls) : calls[i].call = "mode_changed"
  BY <1>5, <1>7 DEF Call
<1>9. ModeCalls(g, l) = calls
  BY <1>1, <1>5 DEF ModeCalls
<1>10. Begins(calls)
  <2>1. \A i \in 2..Len(calls) : i \in 1..Len(calls)
    <3>1. \A n \in Nat : \A i \in 2..n : i \in 1..n
      BY LaterPlaces
    <3>2. Len(calls) \in Nat
      BY <1>2, <1>7
    <3>3. QED
      BY <3>1, <3>2
  <2>2. QED
    BY <1>7, <1>8, <2>1 DEF Begins, TopOnly, Low
<1>11. QED
  BY <1>8, <1>9, <1>10

LEMMA ModeHandler ==
  ASSUME IInv, Taken, inbox[1].type # "daemon_exited", Leaves, UNCHANGED protsUp,
         NEW calls, Begins(calls), \A i \in 1..Len(calls) : calls[i].call = "mode_changed", stack' = calls
  PROVE  IInv'
<1>1. TopOK'
  <2>1. SUFFICES ASSUME stack' # << >> PROVE stack'[1].call = "mode_changed"
    BY DEF TopOK
  <2>2. 1 \in 1..Len(calls)
    <3>1. calls \in Seq(CallType)
      BY DEF Begins
    <3>2. QED
      BY <2>1, <3>1
  <2>3. QED
    BY <2>2
<1>2. \A c : ~ Made(calls, "dial", c)
  BY DEF Made
<1>3. QED
  BY <1>1, <1>2, QuietHandler

LEMMA ModeStep ==
  ASSUME IInv, handle_set_global_dialmode_message \/ handle_set_local_dialmode_message
  PROVE  IInv'
<1>1. CASE handle_set_global_dialmode_message
  <2>1. Taken /\ inbox[1].type = "set_global" /\ Arg \in Mode
    <3>1. Handle("set_global")
      BY <1>1 DEF handle_set_global_dialmode_message
    <3>2. inbox[1] \in MsgType /\ inbox[1].type = "set_global" /\ Id = inbox[1].id /\ Arg = inbox[1].arg
      BY <3>1, HandleFacts
    <3>3. QED
      BY <3>1, <3>2, HandleFacts DEF MsgType
  <2>2. CASE shutting
    <3>1. Calls(<< >>)
      BY <1>1, <2>2 DEF handle_set_global_dialmode_message
    <3>2. QED
      BY <2>1, <3>1, CallsLeave, NoCalls DEF IInv
  <2>3. CASE ~ shutting
    <3>1. /\ globalMode' = Arg /\ stack' = ModeCalls(globalMode', localMode)
          /\ UNCHANGED <<conf, localMode, dmns, life, procs, sent, config>>
      BY <1>1, <2>3 DEF handle_set_global_dialmode_message
    <3>2. Leaves /\ UNCHANGED protsUp /\ localMode \in [Circuit -> Mode \cup {""}]
      BY <2>1, <3>1 DEF IInv, Typed, Leaves, conf, dmns, life, procs
    <3>3. PICK g \in Mode : g = globalMode'
      BY <2>1, <3>1
    <3>4. /\ Begins(ModeCalls(g, localMode))
          /\ \A i \in 1..Len(ModeCalls(g, localMode)) : ModeCalls(g, localMode)[i].call = "mode_changed"
      BY <3>2, ModeCallsAre
    <3>5. QED
      BY <2>1, <3>1, <3>2, <3>3, <3>4, ModeHandler
  <2>4. QED
    BY <2>2, <2>3
<1>2. CASE handle_set_local_dialmode_message
  <2>1. Taken /\ inbox[1].type = "set_local" /\ Arg \in Mode /\ Id \in Circuit
    <3>1. Handle("set_local")
      BY <1>2 DEF handle_set_local_dialmode_message
    <3>2. inbox[1] \in MsgType /\ inbox[1].type = "set_local" /\ Id = inbox[1].id /\ Arg = inbox[1].arg
      BY <3>1, HandleFacts
    <3>3. QED
      BY <3>1, <3>2, HandleFacts DEF MsgType
  <2>2. CASE shutting
    <3>1. Calls(<< >>)
      BY <1>2, <2>2 DEF handle_set_local_dialmode_message
    <3>2. QED
      BY <2>1, <3>1, CallsLeave, NoCalls DEF IInv
  <2>3. CASE ~ shutting
    <3>1. /\ localMode' = [localMode EXCEPT ![Id] = Arg] /\ stack' = ModeCalls(globalMode, localMode')
          /\ UNCHANGED <<conf, globalMode, dmns, life, procs, sent, config>>
      BY <1>2, <2>3 DEF handle_set_local_dialmode_message
    <3>2. localMode' \in [Circuit -> Mode \cup {""}] /\ globalMode \in Mode
      BY <2>1, <3>1 DEF IInv, Typed
    <3>3. Leaves /\ UNCHANGED protsUp
      BY <3>1, <3>2 DEF IInv, Typed, Leaves, conf, dmns, life, procs
    <3>4. PICK l \in [Circuit -> Mode \cup {""}] : l = localMode'
      BY <3>2
    <3>5. /\ Begins(ModeCalls(globalMode, l))
          /\ \A i \in 1..Len(ModeCalls(globalMode, l)) : ModeCalls(globalMode, l)[i].call = "mode_changed"
      BY <3>2, ModeCallsAre
    <3>6. QED
      BY <2>1, <3>1, <3>3, <3>4, <3>5, ModeHandler
  <2>4. QED
    BY <2>2, <2>3
<1>3. QED
  BY <1>1, <1>2

\* A message that leads to nothing, or to the question whether circd may exit
LEMMA ExitHandler ==
  ASSUME IInv, Taken, inbox[1].type # "daemon_exited", Leaves, UNCHANGED protsUp,
         stack' = << >> \/ stack' = <<Call("check_exit", 0, "")>>
  PROVE  IInv'
<1>1. CASE stack' = << >>
  BY <1>1, NoCalls
<1>2. CASE stack' = <<Call("check_exit", 0, "")>>
  <2>1. PICK x \in CallType : x = Call("check_exit", 0, "") /\ x.call = "check_exit"
    BY CheckExitIsTyped DEF Call
  <2>2. Begins(<<x>>) /\ \A d : ~ Made(<<x>>, "dial", d)
    BY <2>1, BeginsCall
  <2>3. stack' = <<x>>
    BY <1>2, <2>1
  <2>4. TopOK'
    <3>1. stack'[1] = x
      BY <2>3
    <3>2. QED
      BY <2>1, <3>1 DEF TopOK
  <2>5. QED
    BY <2>2, <2>3, <2>4, QuietHandler
<1>3. QED
  BY <1>1, <1>2

LEMMA ChildExitedStep ==
  ASSUME IInv, handle_child_exited_circd_event
  PROVE  IInv'
<1>1. Taken /\ inbox[1].type = "child_exited"
  <2>1. Handle("child_exited")
    BY DEF handle_child_exited_circd_event
  <2>2. inbox[1] \in MsgType /\ inbox[1].type = "child_exited" /\ Id = inbox[1].id /\ Arg = inbox[1].arg
    BY <2>1, HandleFacts
  <2>3. QED
    BY <2>1, <2>2, HandleFacts DEF MsgType
<1>2. stack' = << >> \/ stack' = <<Call("check_exit", 0, "")>>
  BY DEF handle_child_exited_circd_event
<1>3. Leaves /\ UNCHANGED protsUp
  BY DEF handle_child_exited_circd_event, IInv, Typed, Leaves, conf, modes, dmns, procs
<1>4. QED
  BY <1>1, <1>2, <1>3, ExitHandler

\* A circuit goes online, or partly.
LEMMA BeginsUp ==
  ASSUME NEW c \in Circuit, NEW s \in {"online", "semionline"}, NEW calls,
         \/ calls = <<Call("change_state", c, s), Call("clear_op", c, "dial")>>
         \/ calls = <<Call("change_state", c, s)>>
  PROVE  /\ Begins(calls) /\ \A d : ~ Made(calls, "dial", d)
         /\ calls[1].call = "change_state" /\ calls[1].id = c /\ calls[1].arg = s
<1>1. PICK x \in CallType : x = Call("change_state", c, s) /\ x.call = "change_state" /\ x.id = c /\ x.arg = s
  BY CallsAreTyped DEF Call, States
<1>2. PICK y \in CallType : y = Call("clear_op", c, "dial") /\ y.call = "clear_op"
  BY CallsAreTyped DEF Call
<1>3. CASE calls = <<x>>
  BY <1>1, <1>3, BeginsCall
<1>4. CASE calls = <<x, y>>
  <2>1. calls \in Seq(CallType) /\ Len(calls) = 2 /\ calls[1] = x /\ calls[2] = y
    BY <1>4, TwoCalls
  <2>2. \A i : (i \in 1..2 <=> i = 1 \/ i = 2) /\ (i \in 2..2 <=> i = 2)
    OBVIOUS
  <2>3. QED
    BY <1>1, <1>2, <2>1, <2>2 DEF Begins, Made, Low, TopOnly
<1>5. QED
  BY <1>1, <1>2, <1>3, <1>4

LEMMA UpProtStep ==
  ASSUME IInv, Removal, handle_up_l3prot_circuit_event
  PROVE  IInv'
<1>1. /\ Taken /\ inbox[1].type = "up_l3prot" /\ 1 \in 1..Len(inbox)
      /\ Id = inbox[1].id /\ Id \in Circuit /\ Arg = inbox[1].arg /\ Arg \in Prot
      /\ (\A f, d : ~ HasCall(f, d)) /\ stack = << >>
  <2>1. Handle("up_l3prot")
    BY DEF handle_up_l3prot_circuit_event
  <2>2. inbox[1] \in MsgType /\ inbox[1].type = "up_l3prot" /\ Id = inbox[1].id /\ Arg = inbox[1].arg
    BY <2>1, HandleFacts
  <2>3. QED
    BY <2>1, <2>2, HandleFacts DEF MsgType
<1>2. PICK c \in Circuit, q \in Prot : c = Id /\ q = Arg
  BY <1>1
<1>3. CASE ~ Exists(c) \/ q \in protsUp[c]
  <2>1. Calls(<< >>)
    BY <1>2, <1>3 DEF handle_up_l3prot_circuit_event
  <2>2. QED
    BY <1>1, <2>1, CallsLeave, NoCalls DEF IInv
<1>4. CASE ~ (~ Exists(c) \/ q \in protsUp[c])
  <2>1. /\ protsUp' = [protsUp EXCEPT ![c] = @ \cup {q}]
        /\ stack' = IF Protocols[c] \subseteq protsUp'[c]
                    THEN <<Call("change_state", c, "online"), Call("clear_op", c, "dial")>>
                    ELSE <<Call("change_state", c, "semionline")>>
        /\ UNCHANGED <<state, op, hangupState, force, refs, modes, dmns, life, procs, sent, config>>
    BY <1>2, <1>4 DEF handle_up_l3prot_circuit_event
  <2>2. Leaves
    BY <2>1 DEF IInv, Typed, Leaves, modes, dmns, life, procs
  <2>3. PICK calls, s :
          /\ s \in {"online", "semionline"} /\ stack' = calls
          /\ \/ calls = <<Call("change_state", c, s), Call("clear_op", c, "dial")>>
             \/ calls = <<Call("change_state", c, s)>>
    BY <2>1
  <2>4. /\ Begins(calls) /\ \A d : ~ Made(calls, "dial", d)
        /\ calls[1].call = "change_state" /\ calls[1].id = c /\ calls[1].arg = s
    BY <2>3, BeginsUp
  <2>5. /\ Typed' /\ Tame' = Tame /\ Shape' /\ Dialled' /\ Unique'
        /\ Mail' /\ MailOrder' /\ Registered' /\ Daemons' /\ Refs' /\ Clones'
        /\ \A t, d : t # "deactivate" /\ HasMsg(t, d)' => HasMsg(t, d)
        /\ \A d : HasScript(d)' <=> HasScript(d)
        /\ \A d : HasDial(d)' <=> HasDial(d)
        /\ \A d : HupLive(d)' <=> HupLive(d)
        /\ Kind' = Kind /\ Protocols' = Protocols
    BY <1>1, <2>2, <2>3, <2>4, HandlerRest
  <2>6. UNCHANGED <<state, hup>> /\ \A d : ~ HasCall("dial", d)'
    BY <2>2, <2>3, <2>4, BeginStack DEF Leaves
  <2>7. /\ protsUp'[c] = protsUp[c] \cup {q}
        /\ \A d \in Circuit : d # c => protsUp'[d] = protsUp[d]
    BY <2>1 DEF IInv, Typed
  <2>8. HasMsg("up_l3prot", c)
    BY <1>1, <1>2 DEF HasMsg
  <2>9. (c \in Tame => state[c] \in UpStates) /\ Kind[c] \in {"route", "pppd"} /\ q \in Protocols[c]
    BY <1>1, <1>2, <2>8 DEF IInv, Sources, Mail
  <2>a. state[c] \in Alive
    <3>1. CASE c \in Tame
      BY <2>9, <3>1 DEF Alive
    <3>2. CASE Kind[c] = "route"
      BY <1>1, <1>4, <3>2, IdleIsAlive
    <3>3. QED
      BY <3>1, <3>2 DEF Tame
  <2>10. Sources'
    BY <2>5, <2>6, <2>7, <2>9 DEF IInv, Sources
  <2>11. c \in Tame => ~ HasDial(c) /\ ~ HasMsg("start_daemon", c) /\ ~ HasScript(c)
    BY <2>8 DEF IInv, Exclusive
  <2>12. c \in Tame /\ Kind[c] = "route" => ~ HasMsg("up_l3prot", c)'
    <3>1. SUFFICES ASSUME c \in Tame, Kind[c] = "route", HasMsg("up_l3prot", c)' PROVE FALSE
      OBVIOUS
    <3>2. PICK i \in 1..Len(inbox') : inbox'[i].type = "up_l3prot" /\ inbox'[i].id = c
      BY <3>1 DEF HasMsg
    <3>3. \A k \in 1..Len(inbox') : inbox'[k].type # "deactivate" => k + 1 \in 2..Len(inbox) /\ inbox'[k] = inbox[k + 1]
      BY <1>1, <2>2, TakenMail DEF IInv, Unique, Leaves
    <3>4. PICK j \in 2..Len(inbox) : inbox[j].type = "up_l3prot" /\ inbox[j].id = c
      BY <3>2, <3>3
    <3>5. j \in 1..Len(inbox) /\ j # 1
      BY <3>4
    <3>6. QED
      BY <1>1, <1>2, <3>1, <3>4, <3>5 DEF IInv, Unique, UniqueMail
  <2>13. Exclusive'
    BY <2>5, <2>6, <2>7, <2>11, <2>12 DEF IInv, Exclusive
  <2>14. TopOK'
    <3>1. ChangeOK(c, s)'
      BY <2>3, <2>5, <2>6, <2>9, <2>a DEF ChangeOK, UpStates, Stopped
    <3>2. QED
      BY <2>3, <2>4, <3>1 DEF TopOK
  <2>15. QED
    BY <2>5, <2>10, <2>13, <2>14 DEF IInv
<1>5. QED
  BY <1>3, <1>4

LEMMA DownProtStep ==
  ASSUME IInv, Removal, handle_down_l3prot_circuit_event
  PROVE  IInv'
<1>1. /\ Taken /\ inbox[1].type = "down_l3prot" /\ Id \in Circuit /\ stack = << >>
      /\ (\A f, d : ~ HasCall(f, d)) /\ (\A d : HupLive(d) <=> hup[d] # NoPid)
      /\ \A d \in Circuit : ~ force[d]
  <2>1. Handle("down_l3prot")
    BY DEF handle_down_l3prot_circuit_event
  <2>2. inbox[1] \in MsgType /\ inbox[1].type = "down_l3prot" /\ Id = inbox[1].id
    BY <2>1, HandleFacts
  <2>3. QED
    BY <2>1, <2>2, HandleFacts DEF MsgType
<1>2. PICK c \in Circuit, q \in {Arg} : c = Id /\ q = Arg
  BY <1>1
<1>3. CASE ~ Exists(c) \/ q \notin protsUp[c]
  <2>1. Calls(<< >>)
    BY <1>2, <1>3 DEF handle_down_l3prot_circuit_event
  <2>2. QED
    BY <1>1, <2>1, CallsLeave, NoCalls DEF IInv
<1>4. CASE Exists(c) /\ q \in protsUp[c]
  <2>1. /\ protsUp' = [protsUp EXCEPT ![c] = @ \ {q}]
        /\ stack' = IF protsUp'[c] = {} THEN <<Call("finalize_hangup", c, "")>>
                    ELSE <<Call("change_state", c, "semionline")>>
        /\ UNCHANGED <<state, op, hangupState, force, refs, modes, dmns, life, procs, sent, config>>
    BY <1>2, <1>4 DEF handle_down_l3prot_circuit_event
  <2>2. Leaves
    BY <2>1 DEF IInv, Typed, Leaves, modes, dmns, life, procs
  <2>3. PICK x \in CallType :
          /\ stack' = <<x>> /\ x.id = c
          /\ \/ x.call = "change_state" /\ x.arg = "semionline"
             \/ x.call = "finalize_hangup" /\ x.arg = "" /\ protsUp'[c] = {}
    <3>1. CASE protsUp'[c] = {}
      <4>1. PICK x \in CallType : x = Call("finalize_hangup", c, "") /\ x.call = "finalize_hangup" /\ x.id = c /\ x.arg = ""
        BY CallsAreTyped DEF Call
      <4>2. QED
        BY <2>1, <3>1, <4>1
    <3>2. CASE protsUp'[c] # {}
      <4>1. PICK x \in CallType : x = Call("change_state", c, "semionline") /\ x.call = "change_state" /\ x.id = c /\ x.arg = "semionline"
        BY CallsAreTyped DEF Call, States
      <4>2. QED
        BY <2>1, <3>2, <4>1
    <3>3. QED
      BY <3>1, <3>2
  <2>4. Begins(<<x>>) /\ \A d : ~ Made(<<x>>, "dial", d)
    BY <2>3, BeginsCall
  <2>5. /\ Typed' /\ Tame' = Tame /\ Shape' /\ Dialled' /\ Unique'
        /\ Mail' /\ MailOrder' /\ Registered' /\ Daemons' /\ Refs' /\ Clones'
        /\ \A t, d : t # "deactivate" /\ HasMsg(t, d)' => HasMsg(t, d)
        /\ \A d : HasScript(d)' <=> HasScript(d)
        /\ \A d : HasDial(d)' <=> HasDial(d)
        /\ \A d : HupLive(d)' <=> HupLive(d)
        /\ Kind' = Kind /\ Protocols' = Protocols
    BY <1>1, <2>2, <2>3, <2>4, HandlerRest
  <2>6. UNCHANGED <<config, state, hup, daemon, force, queue, scripts>> /\ \A d : ~ HasCall("dial", d)'
    BY <2>2, <2>3, <2>4, BeginStack DEF Leaves
  <2>7. /\ protsUp'[c] = protsUp[c] \ {q}
        /\ \A d \in Circuit : d # c => protsUp'[d] = protsUp[d]
    BY <2>1 DEF IInv, Typed
  <2>8. protsUp[c] # {} /\ (c \in Tame => state[c] \in UpStates) /\ Kind[c] \in {"route", "pppd"}
    BY <1>4 DEF IInv, Sources
  <2>a. state[c] \in Alive
    <3>1. CASE c \in Tame
      BY <2>8, <3>1 DEF Alive
    <3>2. CASE Kind[c] = "route"
      BY <1>1, <1>4, <3>2, IdleIsAlive
    <3>3. QED
      BY <3>1, <3>2 DEF Tame
  <2>9. Sources'
    BY <2>5, <2>6, <2>7, <2>8 DEF IInv, Sources
  <2>10. c \in Tame =>
           /\ ~ HasDial(c) /\ ~ HasMsg("start_daemon", c) /\ ~ HasScript(c)
           /\ Kind[c] = "route" => ~ HasMsg("up_l3prot", c)
    BY <2>8 DEF IInv, Exclusive
  <2>11. Exclusive'
    BY <2>5, <2>6, <2>7, <2>10 DEF IInv, Exclusive
  <2>12. c \in Tame /\ hup[c] = NoPid /\ protsUp'[c] = {} => Quiet(c)'
    <3>1. SUFFICES ASSUME c \in Tame, hup[c] = NoPid, protsUp'[c] = {} PROVE Quiet(c)'
      OBVIOUS
    <3>2. \A i \in 1..Len(inbox) : inbox[i].id = c => ~ Report(inbox[i])
      BY <1>1, <3>1 DEF IInv, Mail
    <3>3. /\ ~ HasMsg("up_link", c) /\ ~ HasMsg("down_link", c)
          /\ Kind[c] # "route" => ~ HasMsg("down_l3prot", c) /\ ~ HasMsg("up_l3prot", c)
      BY <3>2 DEF HasMsg, Report
    <3>4. QED
      BY <2>5, <2>6, <2>10, <3>1, <3>3 DEF Quiet
  <2>13. TopOK'
    <3>0. stack'[1] = x
      BY <2>3
    <3>1. CASE x.call = "change_state" /\ x.arg = "semionline"
      <4>1. ChangeOK(c, "semionline")'
        BY <2>5, <2>6, <2>8, <2>a DEF ChangeOK, UpStates, Stopped
      <4>2. QED
        BY <2>3, <3>0, <3>1, <4>1 DEF TopOK
    <3>2. CASE x.call = "finalize_hangup" /\ x.arg = "" /\ protsUp'[c] = {}
      <4>1. FinalizeOK(c, "")'
        BY <1>1, <2>5, <2>6, <2>a, <2>12, <3>2 DEF FinalizeOK
      <4>2. QED
        BY <2>3, <3>0, <3>2, <4>1 DEF TopOK
    <3>3. QED
      BY <2>3, <3>1, <3>2
  <2>14. QED
    BY <2>5, <2>9, <2>11, <2>13 DEF IInv
<1>5. QED
  BY <1>3, <1>4

\* circd asks itself to deactivate the circuits.
LEMMA StopServiceStep ==
  ASSUME IInv, handle_stop_service_message
  PROVE  IInv'
<1> DEFINE S == {c \in Circuit : Exists(c)}
           all == InOrder(S)
           more == IF shutting THEN << >> ELSE [i \in 1..Len(all) |-> Msg("deactivate", all[i], "")]
<1>1. /\ inbox \in Seq(MsgType) /\ inbox # << >> /\ stack = << >> /\ Head(inbox).type = "stop_service"
      /\ inbox' = Tail(inbox) \o more
      /\ stack' = << >> \/ stack' = <<Call("check_exit", 0, "")>>
  BY DEF handle_stop_service_message, Receives, IInv, Typed
<1>2. more \in Seq(MsgType) /\ \A i \in 1..Len(more) : more[i].type = "deactivate"
  <2>1. CASE shutting
    BY <2>1
  <2>2. CASE ~ shutting
    <3>1. all \in Seq(S) /\ S \subseteq Circuit
      BY InOrderIsOf
    <3> HIDE DEF S
    <3>2. Len(all) \in Nat /\ \A i \in 1..Len(all) : all[i] \in Circuit
      BY <3>1, SeqElements
    <3> HIDE DEF all
    <3>3. \A c \in Circuit : Msg("deactivate", c, "") \in MsgType
      BY MessagesAreTyped
    <3>4. more = [i \in 1..Len(all) |-> Msg("deactivate", all[i], "")]
      BY <2>2
    <3> HIDE DEF more
    <3>5. more \in [1..Len(all) -> MsgType] /\ \A i \in 1..Len(all) : more[i].type = "deactivate"
      BY <3>2, <3>3, <3>4 DEF Msg
    <3>6. more \in Seq(MsgType) /\ Len(more) = Len(all)
      BY <3>2, <3>5, FunctionIsSeq
    <3>7. QED
      BY <3>5, <3>6
  <2>3. QED
    BY <2>1, <2>2
<1> HIDE DEF more
<1>3. PICK t \in Seq(MsgType) : /\ t = Tail(inbox) /\ Len(t) = Len(inbox) - 1 /\ Len(inbox) \in Nat /\ Len(inbox) >= 1
                                /\ \A i \in 1..Len(t) : t[i] = inbox[i + 1]
                                /\ Head(inbox) = inbox[1]
  BY <1>1, TailFacts
<1>4. /\ inbox' \in Seq(MsgType) /\ Len(inbox') = Len(t) + Len(more) /\ Len(t) \in Nat /\ Len(more) \in Nat
      /\ \A i \in 1..Len(t) + Len(more) : inbox'[i] = IF i <= Len(t) THEN t[i] ELSE more[i - Len(t)]
  <2>1. inbox' = t \o more
    BY <1>1, <1>3
  <2>2. t \in Seq(MsgType) /\ more \in Seq(MsgType)
    BY <1>2, <1>3
  <2>3. QED
    BY <2>1, <2>2, ConcatProperties, SeqElements
<1>5. Taken
  <2>1. ASSUME NEW i \in 1..Len(inbox')
        PROVE  \/ i + 1 \in 1..Len(inbox) /\ inbox'[i] = inbox[i + 1]
               \/ inbox'[i].type = "deactivate"
    <3>1. CASE i <= Len(t)
      BY <1>3, <1>4, <3>1
    <3>2. CASE ~ (i <= Len(t))
      <4>1. i - Len(t) \in 1..Len(more) /\ inbox'[i] = more[i - Len(t)]
        BY <1>4, <3>2
      <4>2. QED
        BY <1>2, <4>1
    <3>3. QED
      BY <3>1, <3>2
  <2>2. ASSUME NEW i \in 2..Len(inbox) PROVE i - 1 \in 1..Len(inbox') /\ inbox'[i - 1] = inbox[i]
    <3>1. i - 1 \in 1..Len(t) /\ i - 1 \in 1..Len(t) + Len(more) /\ i - 1 <= Len(t) /\ (i - 1) + 1 = i
      BY <1>3, <1>4
    <3>2. QED
      BY <1>3, <1>4, <3>1
  <2>3. QED
    BY <1>1, <1>4, <2>1, <2>2 DEF Taken
<1>6. Leaves /\ UNCHANGED protsUp
  BY DEF handle_stop_service_message, IInv, Typed, Leaves, conf, modes, dmns, procs
<1>7. QED
  BY <1>1, <1>3, <1>5, <1>6, ExitHandler

\* A handler that makes no call
LEMMA IdleAfter ==
  ASSUME stack' = << >>
  PROVE  /\ stack' \in Seq(CallType) /\ Shape' /\ TopOK' /\ Dialled' /\ UniqueCalls'
         /\ \A c : Dropping(c)' = 0
         /\ \A f, c : ~ HasCall(f, c)'
<1>1. \A f, c : ~ Made(<< >>, f, c)
  BY DEF Made
<1>2. TopOK'
  BY DEF TopOK
<1>3. QED
  BY <1>1, <1>2, BeginsNothing, BeginStack

LEMMA StopDaemonStep ==
  ASSUME IInv, handle_stop_daemon_circuit_message
  PROVE  IInv'
<1> USE DEF IInv
<1>1. /\ Taken /\ inbox[1].type = "stop_daemon" /\ Id \in Circuit
      /\ (\A f, d : ~ HasCall(f, d)) /\ (\A d : HupLive(d) <=> hup[d] # NoPid)
      /\ stack = << >>
  <2>1. Handle("stop_daemon")
    BY DEF handle_stop_daemon_circuit_message
  <2>2. inbox[1] \in MsgType /\ inbox[1].type = "stop_daemon" /\ Id = inbox[1].id
    BY <2>1, HandleFacts
  <2>3. QED
    BY <2>1, <2>2, HandleFacts DEF MsgType
<1>2. PICK c \in Circuit : c = Id
  BY <1>1
<1>3. CASE ~ Exists(c) \/ term[c] = NoPid
  <2>1. Calls(<< >>)
    BY <1>2, <1>3 DEF handle_stop_daemon_circuit_message
  <2>2. QED
    BY <1>1, <2>1, CallsLeave, NoCalls
<1>4. CASE Exists(c) /\ term[c] # NoPid
  <2>0. PICK t \in Pid : t = term[c]
    BY <1>4 DEF Typed
  <2>1. /\ term' = [term EXCEPT ![c] = NoPid]
        /\ daemon' = [daemon EXCEPT ![t].sig = TRUE]
        /\ stack' = << >>
        /\ UNCHANGED <<config, state, op, hangupState, force, protsUp, refs, globalMode, localMode, hup, nextId, queue, scripts>>
    BY <1>2, <1>4, <2>0 DEF handle_stop_daemon_circuit_message, conf, modes, life
  <2>2. /\ stack' \in Seq(CallType) /\ Shape' /\ TopOK' /\ Dialled' /\ UniqueCalls'
        /\ \A d : Dropping(d)' = 0
        /\ \A f, d : ~ HasCall(f, d)'
    BY <2>1, IdleAfter
  <2>3. \A d : HupLive(d)' <=> HupLive(d)
    BY <1>1, <2>1, <2>2 DEF HupLive
  <2>4. /\ daemon' \in [Pid -> DaemonType]
        /\ \A p \in Pid : /\ daemon'[p].st = daemon[p].st /\ daemon'[p].id = daemon[p].id
                          /\ daemon'[p].link = daemon[p].link
                          /\ p # t => daemon'[p].sig = daemon[p].sig
                          /\ p = t => daemon'[p].sig = TRUE
    <3>1. daemon \in [Pid -> DaemonType] /\ daemon[t] \in DaemonType
      BY <2>0 DEF Typed
    <3>2. PICK x : x = [daemon[t] EXCEPT !.sig = TRUE]
      OBVIOUS
    <3>3. /\ x \in DaemonType /\ x.st = daemon[t].st /\ x.id = daemon[t].id /\ x.link = daemon[t].link
          /\ x.sig = TRUE
      BY <3>1, <3>2 DEF DaemonType
    <3>4. daemon' = [daemon EXCEPT ![t] = x]
      BY <2>1, <3>2
    <3>5. QED
      BY <2>0, <3>1, <3>3, <3>4
  <2>5. Kind' = Kind /\ Protocols' = Protocols /\ Origin' = Origin /\ Tame' = Tame
    BY <2>1 DEF Kind, Protocols, Origin, Tame, DialMayFail
  <2>6. (\A m, d : m # "deactivate" /\ HasMsg(m, d)' => HasMsg(m, d)) /\ UniqueMail'
    BY <1>1, <2>1, TakenMail DEF Unique
  <2>7. (\A d : HasScript(d)' <=> HasScript(d)) /\ (\A d : HasDial(d)' <=> HasDial(d)) /\ UniqueDials' /\ UniqueScripts'
    BY <2>1, <2>5 DEF HasScript, HasDial, UniqueDials, UniqueScripts, Unique
  <2>8. \A d : Unreported(d)' = Unreported(d)
    <3>1. \A p \in Pid : daemon'[p].st = daemon[p].st /\ daemon'[p].id = daemon[p].id
      BY <2>4
    <3>2. QED
      BY <1>1, <2>1, <3>1, TakenReports DEF Unique
  <2>9. Typed'
    <3>1. inbox' \in Seq(MsgType)
      BY <1>1 DEF Taken
    <3>2. daemon' \in [Pid -> DaemonType]
      BY <2>4
    <3>3. \A p \in Pid : daemon'[p].st # "free" => daemon'[p].id \in Circuit
      BY <2>4 DEF Typed
    <3>4. term' \in [Circuit -> Pid \cup {NoPid}]
      BY <2>1 DEF Typed
    <3>5. QED
      BY <2>1, <2>2, <3>1, <3>2, <3>3, <3>4 DEF Typed
  <2>10. Mail' /\ MailOrder'
    <3>1. ASSUME NEW i \in 2..Len(inbox)
          PROVE  /\ inbox[i].type = "daemon_exited" => daemon'[inbox[i].pid].st # "run"
                 /\ inbox[i].type = "down_link" /\ inbox[i].arg = "force"
                      /\ daemon'[hup'[inbox[i].id]].st = "run" => daemon'[hup'[inbox[i].id]].link[Link] = "down"
                 /\ Report(inbox[i]) => hup[inbox[i].id] # NoPid
      <4>0. inbox \in Seq(MsgType)
        BY DEF Typed
      <4>1. i \in 1..Len(inbox)
        OBVIOUS
      <4>2. Report(inbox[i]) => hup[inbox[i].id] # NoPid
        BY <1>1, <4>1 DEF Mail
      <4>3. inbox[i].type = "down_link" => hup[inbox[i].id] \in Pid
        BY <4>0, <4>1, <4>2, MailFacts DEF Report, Typed
      <4>4. inbox[i].type = "daemon_exited" => inbox[i].pid \in Pid
        BY <4>0, <4>1, MailFacts
      <4>5. /\ inbox[i].type = "daemon_exited" => daemon[inbox[i].pid].st # "run"
            /\ inbox[i].type = "down_link" /\ inbox[i].arg = "force"
                 /\ daemon[hup[inbox[i].id]].st = "run" => daemon[hup[inbox[i].id]].link[Link] = "down"
        BY <4>1 DEF Mail
      <4>6. QED
        BY <2>1, <2>4, <4>2, <4>3, <4>4, <4>5
    <3>2. QED
      BY <1>1, <2>1, <2>2, <3>1, TakenKeepsMail DEF Unique
  <2>11. Sources'
    BY <2>1, <2>3, <2>5, <2>6, <2>7 DEF Sources
  <2>12. Exclusive'
    BY <2>1, <2>2, <2>3, <2>5, <2>6, <2>7 DEF Exclusive
  <2>13. Registered'
    BY <1>1, <2>1, <2>8 DEF Registered
  <2>14. Daemons'
    <3>1. SUFFICES ASSUME NEW p \in Pid, daemon'[p].st = "run", NEW d, d = daemon'[p].id
                   PROVE  /\ d \in Circuit /\ Kind[d] # "route"
                          /\ \/ HupLive(d)' /\ hup'[d] = p
                             \/ Kind[d] = "link" /\ daemon'[p].link[Link] = "down"
                          /\ hup'[d] = p /\ ~ daemon'[p].sig => term'[d] = p
      BY <2>5 DEF Daemons
    <3>2. /\ d \in Circuit /\ Kind[d] # "route"
          /\ \/ HupLive(d) /\ hup[d] = p
             \/ Kind[d] = "link" /\ daemon[p].link[Link] = "down"
          /\ hup[d] = p /\ ~ daemon[p].sig => term[d] = p
      BY <2>4, <3>1 DEF Daemons
    <3>3. hup'[d] = p /\ ~ daemon'[p].sig => term'[d] = p
      <4>1. SUFFICES ASSUME hup'[d] = p, ~ daemon'[p].sig PROVE term'[d] = p
        OBVIOUS
      <4>2. p # t /\ term[d] = p
        BY <2>1, <2>4, <3>2, <4>1
      <4>3. d # c
        BY <2>0, <4>2
      <4>4. QED
        BY <2>1, <3>2, <4>2, <4>3 DEF Typed
    <3>4. QED
      BY <2>1, <2>3, <2>4, <3>2, <3>3
  <2>15. Refs'
    <3>1. \A d \in Circuit : Own(d)' = Own(d) /\ Exists(d)' = Exists(d) /\ Dropping(d) = 0
      BY <1>1, <2>1, <2>2, IdleFacts DEF Own, Exists
    <3>2. QED
      BY <2>1, <2>2, <2>8, <3>1 DEF Refs
  <2>16. Clones'
    BY <2>1, <2>2, <2>5 DEF Clones
  <2>17. QED
    BY <2>2, <2>5, <2>6, <2>7, <2>9, <2>10, <2>11, <2>12, <2>13, <2>14, <2>15, <2>16 DEF
       Unique
<1>5. QED
  BY <1>3, <1>4

\* A circuit is added: nothing is known of it, and nothing on its way for it.
LEMMA AddStep ==
  ASSUME IInv, Taken, inbox[1].type # "daemon_exited", nextId \in Circuit, NEW up, circd_circuit_add(up)
  PROVE  IInv'
<1> USE DEF IInv
<1> SUFFICES ASSUME NEW c \in Circuit, c = nextId PROVE IInv'
  OBVIOUS
<1>1. /\ state' = [state EXCEPT ![c] = "inactive"] /\ refs' = [refs EXCEPT ![c] = 1]
      /\ localMode' = [localMode EXCEPT ![c] = "auto"] /\ nextId' = c + 1
      /\ stack' = << >> \/ stack' = <<Call("change_state", c, "active")>>
      /\ UNCHANGED <<config, op, hangupState, force, protsUp, globalMode, term, hup, queue, scripts, daemon>>
  BY DEF circd_circuit_add, dmns
<1>2. /\ stack = << >> /\ (\A f, d : ~ HasCall(f, d)) /\ (\A d : HupLive(d) <=> hup[d] # NoPid)
      /\ (\A d : Dropping(d) = 0)
  BY IdleFacts DEF Taken
<1>3. state[c] = "none" /\ state[c] \notin UpStates /\ ~ Exists(c)
  BY DEF Clones, Circuit, UpStates, Exists
<1>4. (c \in Tame => Quiet(c)) /\ hup[c] = NoPid
  BY <1>2, <1>3, DownIsQuiet
<1>5. PICK calls : /\ stack' = calls /\ Begins(calls) /\ \A d : ~ Made(calls, "dial", d)
                   /\ calls = << >> \/ (Len(calls) = 1 /\ calls[1].call = "change_state" /\ calls[1].id = c /\ calls[1].arg = "active")
  <2>1. CASE stack' = << >>
    <3>1. \A d : ~ Made(<< >>, "dial", d)
      BY DEF Made
    <3>2. QED
      BY <2>1, <3>1, BeginsNothing
  <2>2. CASE stack' = <<Call("change_state", c, "active")>>
    <3>1. PICK x \in CallType : x = Call("change_state", c, "active") /\ x.call = "change_state" /\ x.id = c /\ x.arg = "active"
      BY CallsAreTyped DEF Call, States
    <3>2. Begins(<<x>>) /\ (\A d : ~ Made(<<x>>, "dial", d)) /\ Len(<<x>>) = 1 /\ <<x>>[1] = x
      BY <3>1, BeginsCall, OneCall
    <3>3. stack' = <<x>>
      BY <2>2, <3>1
    <3>4. QED
      BY <3>1, <3>2, <3>3
  <2>3. QED
    BY <1>1, <2>1, <2>2
<1>6. /\ stack' \in Seq(CallType) /\ Shape' /\ Dialled' /\ UniqueCalls'
      /\ \A d : Dropping(d)' = 0
      /\ \A d : ~ HasCall("hung_up", d)' /\ ~ HasCall("unref", d)' /\ ~ HasCall("dial", d)'
  BY <1>5, BeginStack
<1>7. Kind' = Kind /\ Protocols' = Protocols /\ Origin' = Origin /\ Tame' = Tame
  BY <1>1 DEF Kind, Protocols, Origin, Tame, DialMayFail
<1>8. (\A t, d : t # "deactivate" /\ HasMsg(t, d)' => HasMsg(t, d)) /\ UniqueMail'
  BY <1>1, TakenMail DEF Unique
<1>9. (\A d : HasScript(d)' <=> HasScript(d)) /\ (\A d : HasDial(d)' <=> HasDial(d)) /\ UniqueDials' /\ UniqueScripts'
  BY <1>1, <1>7 DEF HasScript, HasDial, UniqueDials, UniqueScripts, Unique
<1>10. \A d : HupLive(d)' <=> HupLive(d)
  BY <1>1, <1>2, <1>6 DEF HupLive
<1>11. \A d : Unreported(d)' = Unreported(d)
  BY <1>1, TakenReports DEF Unique
<1>12. state'[c] = "inactive" /\ \A d \in Circuit : d # c => state'[d] = state[d]
  BY <1>1 DEF Typed
<1>13. refs'[c] = 1 /\ \A d \in Circuit : d # c => refs'[d] = refs[d]
  BY <1>1 DEF Typed
<1>14. Typed'
  <2>1. inbox' \in Seq(MsgType)
    BY DEF Taken
  <2>2. state' \in [Circuit -> States \cup {"none"}]
    BY <1>1 DEF Typed, States
  <2>6. refs' \in [Circuit -> Int]
    <3>1. refs \in [Circuit -> Int]
      BY DEF Typed
    <3>2. 1 \in Int
      OBVIOUS
    <3>3. QED
      BY <1>1, <3>1, <3>2
  <2>3. localMode' \in [Circuit -> Mode \cup {""}]
    BY <1>1 DEF Typed, Mode
  <2>4. nextId' \in 1..(NCircuits + 1)
    BY <1>1, CircuitAssumption DEF Circuit
  <2>5. QED
    BY <1>1, <1>6, <2>1, <2>2, <2>3, <2>4, <2>6 DEF Typed
<1>15. Mail' /\ MailOrder'
  <2>1. ASSUME NEW i \in 2..Len(inbox)
        PROVE  /\ inbox[i].type = "daemon_exited" => daemon[inbox[i].pid].st # "run"
               /\ inbox[i].type = "down_link" /\ inbox[i].arg = "force"
                    /\ daemon[hup[inbox[i].id]].st = "run" => daemon[hup[inbox[i].id]].link[Link] = "down"
               /\ Report(inbox[i]) => hup[inbox[i].id] # NoPid
    <3>1. i \in 1..Len(inbox)
      OBVIOUS
    <3>2. QED
      BY <1>2, <3>1 DEF Mail
  <2>2. QED
    BY <1>1, <1>6, <2>1, TakenKeepsMail DEF Unique
<1>16. Sources'
  BY <1>1, <1>3, <1>7, <1>8, <1>9, <1>10, <1>12 DEF Sources
<1>17. Exclusive'
  BY <1>1, <1>6, <1>7, <1>8, <1>9, <1>10 DEF Exclusive
<1>18. Registered'
  BY <1>1, <1>2, <1>11 DEF Registered
<1>19. Daemons'
  BY <1>1, <1>7, <1>10 DEF Daemons
<1>20. Refs'
  <2>1. \A d \in Circuit : d # c => Own(d)' = Own(d) /\ Exists(d)' = Exists(d)
    BY <1>2, <1>6, <1>12 DEF Own, Exists
  <2>2. Own(c)' = 1 /\ Exists(c)' /\ Unreported(c) = {}
    BY <1>3, <1>6, <1>12 DEF Own, Exists, Refs
  <2>3. Cardinality(Unreported(c)) = 0
    BY <2>2, FS_EmptySet
  <2>4. \A d \in Circuit : d # c /\ Exists(d) => refs[d] = Cardinality(Unreported(d)) + Dropping(d) + Own(d)
    BY DEF Refs
  <2>5. \A d \in Circuit : Exists(d)' => refs'[d] = Cardinality(Unreported(d))' + Dropping(d)' + Own(d)'
    <3>1. refs'[c] = Cardinality(Unreported(c)') + Dropping(c)' + Own(c)'
      <4>1. Cardinality(Unreported(c)') = 0
        BY <1>11, <2>3
      <4>2. Dropping(c)' = 0 /\ Own(c)' = 1 /\ refs'[c] = 1
        BY <1>6, <1>13, <2>2
      <4>3. QED
        BY <4>1, <4>2
    <3>2. \A d \in Circuit : d # c /\ Exists(d)' => refs'[d] = Cardinality(Unreported(d)') + Dropping(d)' + Own(d)'
      BY <1>2, <1>6, <1>11, <1>13, <2>1, <2>4
    <3>3. QED
      BY <3>1, <3>2
  <2>6. \A d \in Circuit : Unreported(d) # {} => Exists(d)
    BY DEF Refs
  <2>7. \A d \in Circuit : Unreported(d)' # {} => Exists(d)'
    BY <1>11, <2>1, <2>2, <2>6
  <2>8. QED
    BY <1>6, <2>5, <2>7 DEF Refs
<1>21. Clones'
  <2>1. \A d \in Circuit : d >= c + 1 => d >= c /\ d # c
    BY DEF Circuit
  <2>2. QED
    BY <1>1, <1>6, <1>7, <1>12, <2>1 DEF Clones
<1>22. TopOK'
  <2>1. CASE calls = << >>
    BY <1>5, <2>1 DEF TopOK
  <2>2. CASE Len(calls) = 1 /\ calls[1].call = "change_state" /\ calls[1].id = c /\ calls[1].arg = "active"
    <3>1. c \in Tame => Quiet(c)'
      BY <1>1, <1>4, <1>6, <1>7, <1>8, <1>9 DEF Quiet
    <3>2. ChangeOK(c, "active")'
      BY <1>4, <1>5, <1>6, <1>7, <1>10, <1>2, <1>12, <2>2, <3>1 DEF ChangeOK, Stopped,
         Alive
    <3>3. QED
      BY <1>5, <2>2, <3>2 DEF TopOK
  <2>3. QED
    BY <1>5, <2>1, <2>2
<1>23. QED
  BY <1>6, <1>7, <1>8, <1>9, <1>14, <1>15, <1>16, <1>17, <1>18, <1>19, <1>20, <1>21, <1>22
     DEF Unique

LEMMA CreateStep ==
  ASSUME IInv, handle_create_circuit_message \/ handle_clone_circuit_message
  PROVE  IInv'
<1>1. PICK t \in {"create", "clone"} : Handle(t) /\ (Calls(<< >>) \/ (nextId <= NCircuits /\ \E up : circd_circuit_add(up)))
  <2>0. nextId \in 1..(NCircuits + 1) /\ NCircuits \in Nat
    BY CircuitAssumption DEF IInv, Typed
  <2>1. nextId \in Int /\ NCircuits \in Int
    BY <2>0
  <2>2. ~ (nextId > NCircuits) => nextId <= NCircuits
    BY <2>1
  <2>3. CASE handle_create_circuit_message
    BY <2>2, <2>3 DEF handle_create_circuit_message
  <2>4. CASE handle_clone_circuit_message
    BY <2>2, <2>4 DEF handle_clone_circuit_message
  <2>5. QED
    BY <2>3, <2>4
<1>2. Taken /\ inbox[1].type = t
  BY <1>1, HandleFacts
<1>3. CASE Calls(<< >>)
  BY <1>1, <1>2, <1>3, CallsLeave, NoCalls DEF IInv
<1>4. ASSUME NEW up, circd_circuit_add(up), nextId <= NCircuits PROVE IInv'
  <2>0. nextId \in 1..(NCircuits + 1) /\ NCircuits \in Nat
    BY CircuitAssumption DEF IInv, Typed
  <2>1. nextId \in Circuit
    BY <1>4, <2>0 DEF Circuit
  <2>2. QED
    BY <1>1, <1>2, <1>4, <2>1, AddStep
<1>5. QED
  BY <1>1, <1>3, <1>4

\* A daemon is started for a circuit that has none: its number is not in use, and
\* circd waits for no report on it.
LEMMA StartDaemonStep ==
  ASSUME IInv, handle_start_daemon_circuit_message
  PROVE  IInv'
<1> USE DEF IInv
<1>1. /\ Taken /\ inbox[1].type = "start_daemon" /\ inbox[1].id = Id /\ 1 \in 1..Len(inbox) /\ Id \in Circuit
      /\ (\A f, d : ~ HasCall(f, d)) /\ (\A d : HupLive(d) <=> hup[d] # NoPid)
      /\ stack = << >>
  <2>1. Handle("start_daemon")
    BY DEF handle_start_daemon_circuit_message
  <2>2. inbox[1] \in MsgType /\ inbox[1].type = "start_daemon" /\ Id = inbox[1].id
    BY <2>1, HandleFacts
  <2>3. QED
    BY <2>1, <2>2, HandleFacts DEF MsgType
<1>2. PICK c \in Circuit : c = Id
  BY <1>1
<1>3. CASE shutting \/ ~ Exists(c)
  <2>1. Calls(<< >>)
    BY <1>2, <1>3 DEF handle_start_daemon_circuit_message
  <2>2. QED
    BY <1>1, <2>1, CallsLeave, NoCalls
<1>4. CASE ~ shutting /\ Exists(c)
  <2>1. PICK p \in Pid :
          /\ daemon[p].st = "free"
          /\ \A i \in 1..Len(inbox) : inbox[i].pid # p
          /\ daemon' = [daemon EXCEPT ![p] = [NoDaemon EXCEPT !.id = c, !.st = "run"]]
          /\ refs' = [refs EXCEPT ![c] = @ + 1]
          /\ term' = [d \in Circuit |-> IF d = c THEN p ELSE IF term[d] = p THEN NoPid ELSE term[d]]
          /\ hup'  = [d \in Circuit |-> IF d = c THEN p ELSE IF hup[d] = p THEN NoPid ELSE hup[d]]
          /\ stack' = << >>
          /\ UNCHANGED <<config, state, op, hangupState, force, protsUp, globalMode, localMode, nextId, queue, scripts>>
    BY <1>2, <1>4 DEF handle_start_daemon_circuit_message, modes
  <2>2. /\ stack' \in Seq(CallType) /\ Shape' /\ TopOK' /\ Dialled' /\ UniqueCalls'
        /\ \A d : Dropping(d)' = 0
        /\ \A f, d : ~ HasCall(f, d)'
    BY <2>1, IdleAfter
  <2>3. /\ daemon' \in [Pid -> DaemonType]
        /\ \A r \in Pid : r # p => daemon'[r] = daemon[r]
        /\ daemon'[p].st = "run" /\ daemon'[p].id = c /\ ~ daemon'[p].sig
    <3>1. daemon \in [Pid -> DaemonType]
      BY DEF Typed
    <3>2. PICK x : x = [NoDaemon EXCEPT !.id = c, !.st = "run"]
      OBVIOUS
    <3>3. c \in 0..NCircuits
      BY DEF Circuit
    <3>4. x \in DaemonType /\ x.st = "run" /\ x.id = c /\ ~ x.sig
      BY <3>2, <3>3 DEF DaemonType, NoDaemon
    <3>5. daemon' = [daemon EXCEPT ![p] = x]
      BY <2>1, <3>2
    <3>6. QED
      BY <2>1, <3>1, <3>4, <3>5
  <2>4. HasMsg("start_daemon", c)
    BY <1>1, <1>2 DEF HasMsg
  <2>5. state[c] \in UpStates /\ Kind[c] # "route" /\ hup[c] = NoPid /\ protsUp[c] = {}
        /\ ~ HasMsg("up_l3prot", c) /\ ~ HasDial(c) /\ ~ HasScript(c)
    <3>1. Kind[c] # "route"
      BY <2>4 DEF Sources
    <3>2. c \in Tame
      BY <3>1 DEF Tame
    <3>3. QED
      BY <1>1, <2>4, <3>1, <3>2 DEF Sources, Exclusive
  <2>6. \A d : ~ EndSent(d, p)
    BY <2>1 DEF EndSent
  <2>7. \A d \in Circuit : hup[d] # p
    <3>1. \A d : p \notin Unreported(d)
      BY <2>1, <2>6, UnreportedIs
    <3>2. p # NoPid
      BY <2>1, CircuitAssumption
    <3>3. QED
      BY <3>1, <3>2 DEF Registered
  <2>8. hup'[c] = p /\ p # NoPid /\ \A d \in Circuit : d # c => hup'[d] = hup[d]
    BY <2>1, <2>7, CircuitAssumption
  <2>9. Kind' = Kind /\ Protocols' = Protocols /\ Origin' = Origin /\ Tame' = Tame
    BY <2>1 DEF Kind, Protocols, Origin, Tame, DialMayFail
  <2>10. (\A m, d : m # "deactivate" /\ HasMsg(m, d)' => HasMsg(m, d)) /\ UniqueMail'
    BY <1>1, <2>1, TakenMail DEF Unique
  <2>11. (\A d : HasScript(d)' <=> HasScript(d)) /\ (\A d : HasDial(d)' <=> HasDial(d)) /\ UniqueDials' /\ UniqueScripts'
    BY <2>1, <2>9 DEF HasScript, HasDial, UniqueDials, UniqueScripts, Unique
  <2>12. /\ \A d \in Circuit : d # c => (HupLive(d)' <=> HupLive(d))
         /\ HupLive(c)'
    BY <1>1, <2>2, <2>8 DEF HupLive
  <2>13. ~ HasMsg("start_daemon", c)'
    <3>1. SUFFICES ASSUME NEW i \in 1..Len(inbox'), inbox'[i].type = "start_daemon", inbox'[i].id = c PROVE FALSE
      BY DEF HasMsg
    <3>2. i + 1 \in 2..Len(inbox) /\ inbox'[i] = inbox[i + 1]
      BY <1>1, <2>1, <3>1, TakenMail DEF Unique
    <3>3. PICK k \in 2..Len(inbox) : inbox[k].type = "start_daemon" /\ inbox[k].id = c
      BY <3>1, <3>2
    <3>4. k \in 1..Len(inbox) /\ k # 1
      OBVIOUS
    <3>5. QED
      BY <1>1, <1>2, <3>3, <3>4 DEF Unique, UniqueMail
  <2>14. \A d, r : EndSent(d, r)' <=> EndSent(d, r)
    BY <1>1, <2>1, TakenEnds DEF Unique
  <2>15. /\ \A d \in Circuit : d # c => Unreported(d)' = Unreported(d)
         /\ Unreported(c)' = Unreported(c) \cup {p} /\ p \notin Unreported(c)
    <3>1. ASSUME NEW d \in Circuit, d # c, NEW r PROVE r \in Unreported(d)' <=> r \in Unreported(d)
      <4>1. CASE r = p
        BY <2>1, <2>3, <2>6, <2>14, <3>1, <4>1, UnreportedIs
      <4>2. CASE r # p
        BY <2>3, <2>14, <4>2, UnreportedIs
      <4>3. QED
        BY <4>1, <4>2
    <3>2. \A r : r \in Unreported(c)' <=> r \in Unreported(c) \/ r = p
      BY <2>1, <2>3, <2>14, UnreportedIs
    <3>3. p \notin Unreported(c)
      BY <2>1, <2>6, UnreportedIs
    <3>4. \A d \in Circuit : d # c => Unreported(d)' = Unreported(d)
      BY <3>1
    <3>5. QED
      BY <3>2, <3>3, <3>4
  <2>16. Typed'
    <3>1. inbox' \in Seq(MsgType)
      BY <1>1 DEF Taken
    <3>2. daemon' \in [Pid -> DaemonType]
      BY <2>3
    <3>3. \A r \in Pid : daemon'[r].st # "free" => daemon'[r].id \in Circuit
      BY <2>3 DEF Typed
    <3>4. term' \in [Circuit -> Pid \cup {NoPid}]
      BY <2>1 DEF Typed
    <3>5. hup' \in [Circuit -> Pid \cup {NoPid}]
      BY <2>1 DEF Typed
    <3>6. refs' \in [Circuit -> Int]
      <4>1. refs \in [Circuit -> Int]
        BY DEF Typed
      <4>2. QED
        BY <2>1, <4>1
    <3>7. QED
      BY <2>1, <2>2, <3>1, <3>2, <3>3, <3>4, <3>5, <3>6 DEF Typed
  <2>17. Mail' /\ MailOrder'
    <3>1. ASSUME NEW i \in 2..Len(inbox)
          PROVE  /\ inbox[i].type = "daemon_exited" => daemon'[inbox[i].pid].st # "run" /\ inbox[i].pid # p
                 /\ inbox[i].type = "daemon_exited" /\ inbox[i].pid = hup'[inbox[i].id] => inbox[i].pid = hup[inbox[i].id]
                 /\ inbox[i].type = "down_link" /\ inbox[i].arg = "force"
                      /\ daemon'[hup'[inbox[i].id]].st = "run" => daemon'[hup'[inbox[i].id]].link[Link] = "down"
                 /\ Report(inbox[i]) => hup'[inbox[i].id] # NoPid
      <4>0. inbox \in Seq(MsgType)
        BY DEF Typed
      <4>1. i \in 1..Len(inbox)
        OBVIOUS
      <4>2. inbox[i].type = "daemon_exited" => inbox[i].pid \in Pid /\ inbox[i].pid # p /\ inbox[i].id \in Circuit
        BY <2>1, <4>0, <4>1, MailFacts
      <4>3. inbox[i].type = "daemon_exited" => daemon[inbox[i].pid].st # "run"
        BY <4>1 DEF Mail
      <4>4. Report(inbox[i]) => hup[inbox[i].id] # NoPid /\ inbox[i].id \in Circuit
        BY <1>1, <4>0, <4>1, MailFacts DEF Mail, Report
      <4>5. Report(inbox[i]) => inbox[i].id # c /\ hup'[inbox[i].id] = hup[inbox[i].id]
        BY <2>5, <2>8, <4>4
      <4>6. inbox[i].type = "down_link" => Report(inbox[i])
        BY DEF Report
      <4>7. inbox[i].type = "down_link" => hup[inbox[i].id] \in Pid /\ hup[inbox[i].id] # p
        BY <2>7, <4>4, <4>6 DEF Typed
      <4>8. inbox[i].type = "down_link" /\ inbox[i].arg = "force"
                 /\ daemon[hup[inbox[i].id]].st = "run" => daemon[hup[inbox[i].id]].link[Link] = "down"
        BY <4>1 DEF Mail
      <4>9. inbox[i].type = "daemon_exited" /\ inbox[i].pid = hup'[inbox[i].id] => inbox[i].pid = hup[inbox[i].id]
        BY <2>8, <4>2
      <4>10. inbox[i].type = "daemon_exited" => daemon'[inbox[i].pid].st # "run"
        BY <2>3, <4>2, <4>3
      <4>11. inbox[i].type = "down_link" /\ inbox[i].arg = "force"
                 /\ daemon'[hup'[inbox[i].id]].st = "run" => daemon'[hup'[inbox[i].id]].link[Link] = "down"
        BY <2>3, <4>5, <4>6, <4>7, <4>8
      <4>12. QED
        BY <4>2, <4>4, <4>5, <4>9, <4>10, <4>11
    <3>2. QED
      BY <1>1, <2>1, <2>2, <3>1, TakenKeepsMail DEF Unique
  <2>18. Sources'
    BY <2>1, <2>5, <2>8, <2>9, <2>10, <2>11, <2>12 DEF Sources
  <2>19. Exclusive'
    BY <2>1, <2>2, <2>5, <2>9, <2>10, <2>11, <2>12, <2>13 DEF Exclusive
  <2>20. Registered'
    <3>1. \A d \in Circuit : hup'[d] # NoPid => hup'[d] \in Unreported(d)'
      BY <2>8, <2>15 DEF Registered
    <3>2. \A d \in Circuit : ~ force[d]
      BY <1>1 DEF Registered
    <3>3. QED
      BY <2>1, <3>1, <3>2 DEF Registered
  <2>21. Daemons'
    <3>1. SUFFICES ASSUME NEW r \in Pid, daemon'[r].st = "run", NEW d, d = daemon'[r].id
                   PROVE  /\ d \in Circuit /\ Kind[d] # "route"
                          /\ \/ HupLive(d)' /\ hup'[d] = r
                             \/ Kind[d] = "link" /\ daemon'[r].link[Link] = "down"
                          /\ hup'[d] = r /\ ~ daemon'[r].sig => term'[d] = r
      BY <2>9 DEF Daemons
    <3>2. CASE r = p
      <4>1. d = c /\ term'[c] = p
        BY <2>1, <2>3, <3>1, <3>2
      <4>2. QED
        BY <2>5, <2>8, <2>12, <3>2, <4>1
    <3>3. CASE r # p
      <4>1. daemon'[r] = daemon[r] /\ d = daemon[r].id /\ daemon[r].st = "run"
        BY <2>3, <3>1, <3>3
      <4>2. /\ d \in Circuit /\ Kind[d] # "route"
            /\ \/ HupLive(d) /\ hup[d] = r
               \/ Kind[d] = "link" /\ daemon[r].link[Link] = "down"
            /\ hup[d] = r /\ ~ daemon[r].sig => term[d] = r
        BY <4>1 DEF Daemons
      <4>3. hup[d] = r => d # c
        BY <2>5, CircuitAssumption
      <4>4. hup'[d] = r => hup[d] = r
        BY <2>8, <3>3, <4>2
      <4>5. d # c /\ term[d] = r => term'[d] = r
        BY <2>1, <3>3, <4>2
      <4>6. \/ HupLive(d)' /\ hup'[d] = r
            \/ Kind[d] = "link" /\ daemon'[r].link[Link] = "down"
        BY <2>8, <2>12, <4>1, <4>2, <4>3
      <4>7. QED
        BY <4>1, <4>2, <4>3, <4>4, <4>5, <4>6
    <3>4. QED
      BY <3>2, <3>3
  <2>22. Refs'
    <3>1. \A d \in Circuit : Own(d)' = Own(d) /\ Exists(d)' = Exists(d) /\ Dropping(d) = 0
      BY <1>1, <2>1, <2>2, IdleFacts DEF Own, Exists
    <3>2. Cardinality(Unreported(c)') = Cardinality(Unreported(c)) + 1 /\ Cardinality(Unreported(c)) \in Nat
      BY <2>15, UnreportedType, FS_AddElement
    <3>3. refs'[c] = refs[c] + 1 /\ \A d \in Circuit : d # c => refs'[d] = refs[d]
      <4>1. refs \in [Circuit -> Int]
        BY DEF Typed
      <4>2. QED
        BY <2>1, <4>1
    <3>4. \A d \in Circuit : Exists(d) => refs[d] = Cardinality(Unreported(d)) + Dropping(d) + Own(d)
      BY DEF Refs
    <3>5. \A d \in Circuit : d # c /\ Exists(d)' => refs'[d] = Cardinality(Unreported(d)') + Dropping(d)' + Own(d)'
      BY <2>2, <2>15, <3>1, <3>3, <3>4
    <3>6. Exists(c)' => refs'[c] = Cardinality(Unreported(c)') + Dropping(c)' + Own(c)'
      <4>1. Own(c) \in {0, 1} /\ Own(c)' = Own(c) /\ Dropping(c) = 0 /\ Dropping(c)' = 0
        BY <2>2, <3>1 DEF Own
      <4>2. Exists(c)' => refs[c] = Cardinality(Unreported(c)) + Dropping(c) + Own(c)
        BY <3>1, <3>4
      <4>3. QED
        BY <3>2, <3>3, <4>1, <4>2
    <3>7. \A d \in Circuit : Unreported(d) # {} => Exists(d)
      BY DEF Refs
    <3>8. \A d \in Circuit : Unreported(d)' # {} => Exists(d)'
      BY <1>4, <2>15, <3>1, <3>7
    <3>9. QED
      BY <2>2, <3>5, <3>6, <3>8 DEF Refs
  <2>23. Clones'
    BY <2>1, <2>2, <2>9 DEF Clones
  <2>24. QED
    BY <2>2, <2>9, <2>10, <2>11, <2>16, <2>17, <2>18, <2>19, <2>20, <2>21, <2>22, <2>23
       DEF Unique
<1>5. QED
  BY <1>3, <1>4

\* What the end of a daemon leads to: the delayed hangup, if it waited for this
\* daemon, and then its reference is dropped.
EndCalls(calls, c) ==
  /\ calls \in Seq(CallType)
  /\ \/ Len(calls) = 1 /\ calls[1].call = "unref" /\ calls[1].id = c
     \/ /\ Len(calls) = 2 /\ calls[2].call = "unref" /\ calls[2].id = c
        /\ calls[1].call = "finalize_hangup" /\ calls[1].id = c /\ calls[1].arg = ""

LEMMA Places ==
  /\ \A i : (i \in 1..1 <=> i = 1) /\ (i \in 1..2 <=> i = 1 \/ i = 2)
  /\ \A i : (i \notin 2..1) /\ (i \in 2..2 <=> i = 2)
  /\ \A i : i \notin (1 + 1)..1 /\ i \notin (2 + 1)..2 /\ (i \in (1 + 1)..2 <=> i = 2)
OBVIOUS

LEMMA JoinTwo ==
  ASSUME NEW S, NEW y \in S, NEW x \in S
  PROVE  \E s \in Seq(S) : s = <<y>> \o <<x>> /\ Len(s) = 2 /\ s[1] = y /\ s[2] = x
<1>1. PICK u \in Seq(S) : u = <<y>> /\ Len(u) = 1 /\ u[1] = y
  BY OneCall
<1>2. PICK s \in Seq(S) : s = u \o <<x>> /\ Len(s) = Len(u) + 1 /\ (\A i \in 1..Len(u) : s[i] = u[i]) /\ s[Len(u) + 1] = x
  BY Join
<1>3. Len(s) = 2 /\ s[1] = y /\ s[2] = x
  BY <1>1, <1>2
<1>4. QED
  BY <1>1, <1>2, <1>3

LEMMA JoinOne ==
  ASSUME NEW S, NEW x \in S
  PROVE  \E s \in Seq(S) : s = << >> \o <<x>> /\ Len(s) = 1 /\ s[1] = x
<1>0. << >> \in Seq(S) /\ Len(<< >>) = 0
  OBVIOUS
<1>1. PICK u \in Seq(S) : u = << >> /\ Len(u) = 0
  BY <1>0, Zenon
<1>2. PICK s \in Seq(S) : s = u \o <<x>> /\ Len(s) = Len(u) + 1 /\ s[Len(u) + 1] = x
  BY Join
<1>3. Len(s) = 1 /\ s[1] = x
  BY <1>1, <1>2
<1>4. QED
  BY <1>1, <1>2, <1>3

LEMMA EndCallsAre ==
  ASSUME NEW c \in Circuit
  PROVE  /\ EndCalls(<< >> \o <<Call("unref", c, "")>>, c)
         /\ EndCalls(<<Call("finalize_hangup", c, "")>> \o <<Call("unref", c, "")>>, c)
         /\ Len(<< >> \o <<Call("unref", c, "")>>) = 1
<1>1. PICK x \in CallType : x = Call("unref", c, "") /\ x.call = "unref" /\ x.id = c
  BY CallsAreTyped DEF Call
<1>2. PICK y \in CallType : y = Call("finalize_hangup", c, "") /\ y.call = "finalize_hangup" /\ y.id = c /\ y.arg = ""
  BY CallsAreTyped DEF Call
<1>3. PICK s \in Seq(CallType) : s = <<y>> \o <<x>> /\ Len(s) = 2 /\ s[1] = y /\ s[2] = x
  <2>1. x \in CallType /\ y \in CallType
    BY <1>1, <1>2
  <2>2. \A S : \A u \in S, v \in S : \E s \in Seq(S) : s = <<u>> \o <<v>> /\ Len(s) = 2 /\ s[1] = u /\ s[2] = v
    BY JoinTwo, Zenon
  <2>3. QED
    BY <2>1, <2>2, Zenon
<1>4. PICK t \in Seq(CallType) : t = << >> \o <<x>> /\ Len(t) = 1 /\ t[1] = x
  BY <1>1, JoinOne, Zenon
<1>5. EndCalls(s, c) /\ EndCalls(t, c)
  BY <1>1, <1>2, <1>3, <1>4 DEF EndCalls
<1>6. QED
  BY <1>1, <1>2, <1>3, <1>4, <1>5

LEMMA EndStack ==
  ASSUME NEW c \in Circuit, NEW calls, EndCalls(calls, c), stack' = calls
  PROVE  /\ stack' \in Seq(CallType) /\ Shape' /\ Dialled' /\ UniqueCalls'
         /\ \A f, d : HasCall(f, d)' => f \in {"finalize_hangup", "unref"} /\ d = c
         /\ Dropping(c)' = 1 /\ \A d : d # c => Dropping(d)' = 0
<1>1. CASE Len(calls) = 1 /\ calls[1].call = "unref" /\ calls[1].id = c
  <2>1. Shape'
    BY <1>1, Places DEF Shape, TopOnly
  <2>2. Dialled' /\ UniqueCalls' /\ \A f, d : HasCall(f, d)' => f \in {"finalize_hangup", "unref"} /\ d = c
    BY <1>1, Places DEF Dialled, UniqueCalls, HasCall
  <2>3. \A d : Unref(1, d)' = (IF d = c THEN 1 ELSE 0) /\ Unref(0, d)' = 0
    BY <1>1 DEF Unref
  <2>4. 1 - 1 = 0 /\ 1 + 0 = 1 /\ 0 + 0 = 0
    OBVIOUS
  <2>5. \A d : Dropping(d)' = Unref(1, d)' + Unref(0, d)'
    BY <1>1, <2>4 DEF Dropping
  <2>6. QED
    BY <2>1, <2>2, <2>3, <2>4, <2>5 DEF EndCalls
<1>2. CASE /\ Len(calls) = 2 /\ calls[2].call = "unref" /\ calls[2].id = c
           /\ calls[1].call = "finalize_hangup" /\ calls[1].id = c
  <2>1. Shape'
    BY <1>2, Places DEF Shape, TopOnly
  <2>2. Dialled' /\ UniqueCalls' /\ \A f, d : HasCall(f, d)' => f \in {"finalize_hangup", "unref"} /\ d = c
    BY <1>2, Places DEF Dialled, UniqueCalls, HasCall
  <2>3. \A d : Unref(2, d)' = (IF d = c THEN 1 ELSE 0) /\ Unref(1, d)' = 0
    BY <1>2 DEF Unref
  <2>4. 2 - 1 = 1 /\ 1 + 0 = 1 /\ 0 + 0 = 0
    OBVIOUS
  <2>5. \A d : Dropping(d)' = Unref(2, d)' + Unref(1, d)'
    BY <1>2, <2>4 DEF Dropping
  <2>6. QED
    BY <2>1, <2>2, <2>3, <2>4, <2>5 DEF EndCalls
<1>3. QED
  BY <1>1, <1>2 DEF EndCalls

LEMMA DaemonHangupIs ==
  ASSUME NEW c \in Circuit, NEW p, \A d \in Circuit : hup[d] = p => d = c
  PROVE  \/ circd_daemon_hangup(p) = << >>
         \/ hup[c] = p /\ circd_daemon_hangup(p) = <<Call("finalize_hangup", c, "")>>
<1>1. PICK hung : hung = {d \in Circuit : hup[d] = p}
  OBVIOUS
<1>2. hung = {} \/ (hung = {c} /\ hup[c] = p)
  BY <1>1
<1>3. hung = {c} => (CHOOSE d \in hung : TRUE) = c
  OBVIOUS
<1>4. circd_daemon_hangup(p) = IF hung = {} THEN << >> ELSE <<Call("finalize_hangup", CHOOSE d \in hung : TRUE, "")>>
  BY <1>1 DEF circd_daemon_hangup
<1>5. QED
  BY <1>2, <1>3, <1>4

LEMMA DaemonExitedStep ==
  ASSUME IInv, handle_daemon_exited_circuit_event
  PROVE  IInv'
<1> USE DEF IInv
<1>1. /\ Taken /\ inbox[1].type = "daemon_exited" /\ inbox[1].id = Id /\ 1 \in 1..Len(inbox) /\ Id \in Circuit
      /\ Head(inbox) = inbox[1] /\ inbox[1].pid \in Pid /\ inbox[1].pid # NoPid
      /\ (\A f, d : ~ HasCall(f, d)) /\ (\A d : HupLive(d) <=> hup[d] # NoPid)
      /\ \A d \in Circuit : ~ force[d]
  <2>1. Handle("daemon_exited")
    BY DEF handle_daemon_exited_circuit_event
  <2>2. inbox[1] \in MsgType /\ inbox[1].type = "daemon_exited" /\ Id = inbox[1].id
    BY <2>1, HandleFacts
  <2>3. Id \in Circuit /\ inbox[1].pid \in Pid /\ inbox[1].pid # NoPid
    BY <2>2, CircuitAssumption DEF MsgType
  <2>4. QED
    BY <2>1, <2>2, <2>3, HandleFacts
<1>2. PICK c \in Circuit, p \in Pid : c = inbox[1].id /\ p = inbox[1].pid
  BY <1>1
<1>3. /\ term' = [d \in Circuit |-> IF term[d] = p THEN NoPid ELSE term[d]]
      /\ hup' = [d \in Circuit |-> IF hup[d] = p THEN NoPid ELSE hup[d]]
      /\ UNCHANGED <<config, state, op, hangupState, force, protsUp, refs, globalMode, localMode, nextId, queue, scripts, daemon>>
  BY <1>1, <1>2 DEF handle_daemon_exited_circuit_event, conf, modes, life, procs
<1>4. daemon[p].st # "run" /\ Kind[c] # "route"
  BY <1>1, <1>2 DEF Mail
<1>5. EndSent(c, p) /\ \A d : EndSent(d, p) => d = c
  <2>1. EndSent(c, p)
    BY <1>1, <1>2 DEF EndSent
  <2>2. ASSUME NEW d, EndSent(d, p) PROVE d = c
    <3>1. PICK i \in 1..Len(inbox) : inbox[i].type = "daemon_exited" /\ inbox[i].id = d /\ inbox[i].pid = p
      BY <2>2 DEF EndSent
    <3>2. i = 1
      BY <1>1, <1>2, <3>1 DEF MailOrder
    <3>3. QED
      BY <1>2, <3>1, <3>2
  <2>3. QED
    BY <2>1, <2>2
<1>6. \A d \in Circuit : hup[d] = p => d = c
  <2>1. \A d \in Circuit : hup[d] = p => p \in Unreported(d)
    BY <1>1, <1>2 DEF Registered
  <2>2. QED
    BY <1>4, <1>5, <2>1, UnreportedIs
<1>7. p # NoPid
  BY <1>1, <1>2
<1>8. /\ \A d \in Circuit : hup[d] # p => hup'[d] = hup[d]
      /\ \A d \in Circuit : hup[d] = p => hup'[d] = NoPid
      /\ \A d \in Circuit : term[d] # p => term'[d] = term[d]
  BY <1>3
<1>9. Kind' = Kind /\ Protocols' = Protocols /\ Origin' = Origin /\ Tame' = Tame
  BY <1>3 DEF Kind, Protocols, Origin, Tame, DialMayFail
<1>10. PICK calls : /\ EndCalls(calls, c) /\ stack' = calls
                    /\ Len(calls) = 1 \/ hup[c] = p
  <2>1. stack' = circd_daemon_hangup(p) \o <<Call("unref", c, "")>>
    BY <1>1, <1>2 DEF handle_daemon_exited_circuit_event
  <2>2. \/ circd_daemon_hangup(p) = << >>
        \/ hup[c] = p /\ circd_daemon_hangup(p) = <<Call("finalize_hangup", c, "")>>
    BY <1>6, DaemonHangupIs
  <2>3. QED
    BY <2>1, <2>2, EndCallsAre
<1>11. hup[c] = p => HupLive(c) /\ state[c] \in UpStates /\ Closing(inbox[1])
  <2>1. c \in Tame
    BY <1>4 DEF Tame
  <2>2. QED
    BY <1>1, <1>2, <1>7, <2>1 DEF Sources, Closing
<1>12. /\ stack' \in Seq(CallType) /\ Shape' /\ Dialled' /\ UniqueCalls'
       /\ \A f, d : HasCall(f, d)' => f \in {"finalize_hangup", "unref"} /\ d = c
       /\ Dropping(c)' = 1 /\ \A d : d # c => Dropping(d)' = 0
  BY <1>10, EndStack
<1>13. hup[c] = p => FinalizeOK(c, "")'
  <2>1. ~ force'[c]
    BY <1>1, <1>3
  <2>2. hup[c] = p /\ protsUp'[c] = {} => Quiet(c)'
    BY <1>1, <1>2, <1>3, <1>4, <1>9, <1>11, <1>12, ClosedIsQuiet
  <2>3. hup[c] = p => state'[c] \in Alive
    BY <1>3, <1>11 DEF Alive
  <2>4. QED
    BY <2>1, <2>2, <2>3 DEF FinalizeOK
<1>14. TopOK'
  <2>1. CASE Len(calls) = 1
    BY <1>10, <2>1 DEF EndCalls, TopOK
  <2>2. CASE hup[c] = p
    BY <1>10, <1>13, <2>2 DEF EndCalls, TopOK
  <2>3. QED
    BY <1>10, <2>1, <2>2
<1>15. (\A m, d : m # "deactivate" /\ HasMsg(m, d)' => HasMsg(m, d)) /\ UniqueMail'
  BY <1>1, <1>3, TakenMail DEF Unique
<1>16. (\A d : HasScript(d)' <=> HasScript(d)) /\ (\A d : HasDial(d)' <=> HasDial(d)) /\ UniqueDials' /\ UniqueScripts'
  BY <1>3, <1>9 DEF HasScript, HasDial, UniqueDials, UniqueScripts, Unique
<1>17. \A d : ~ HasCall("hung_up", d)' /\ ~ HasCall("dial", d)'
  BY <1>12
<1>18. \A d \in Circuit : /\ hup'[d] # NoPid => hup'[d] = hup[d] /\ hup[d] # p
                          /\ HupLive(d)' => HupLive(d)
  BY <1>1, <1>8, <1>17 DEF HupLive
<1>19. /\ \A d, r : r \in Unreported(d)' <=> r \in Unreported(d) /\ r # p
       /\ p \in Unreported(c) /\ \A d : d # c => p \notin Unreported(d)
  <2>1. \A d, r : r # p => (EndSent(d, r)' <=> EndSent(d, r))
    BY <1>2, <1>3, <1>1, TakenEnds DEF Unique
  <2>2. ASSUME NEW d, EndSent(d, p)' PROVE FALSE
    <3>0. \E i \in 2..Len(inbox) : inbox[i].type = "daemon_exited" /\ inbox[i].id = d /\ inbox[i].pid = p
      BY <1>1, <1>3, <2>2, TakenEnds DEF Unique
    <3>1. PICK i \in 2..Len(inbox) : inbox[i].type = "daemon_exited" /\ inbox[i].pid = p
      BY <3>0
    <3>2. i \in 1..Len(inbox) /\ i # 1
      OBVIOUS
    <3>3. QED
      BY <1>1, <1>2, <3>1, <3>2 DEF MailOrder
  <2>3. ASSUME NEW d, NEW r PROVE r \in Unreported(d)' <=> r \in Unreported(d) /\ r # p
    <3>1. CASE r = p
      BY <1>3, <1>4, <2>2, <3>1, UnreportedIs
    <3>2. CASE r # p
      BY <1>3, <2>1, <3>2, UnreportedIs
    <3>3. QED
      BY <3>1, <3>2
  <2>4. p \in Unreported(c) /\ \A d : d # c => p \notin Unreported(d)
    BY <1>4, <1>5, UnreportedIs
  <2>5. QED
    BY <2>3, <2>4
<1>20. Typed'
  <2>1. inbox' \in Seq(MsgType)
    BY <1>1 DEF Taken
  <2>2. term' \in [Circuit -> Pid \cup {NoPid}]
    BY <1>3 DEF Typed
  <2>3. hup' \in [Circuit -> Pid \cup {NoPid}]
    BY <1>3 DEF Typed
  <2>4. QED
    BY <1>3, <1>12, <2>1, <2>2, <2>3 DEF Typed
<1>21. Mail' /\ MailOrder'
  <2>1. ASSUME NEW i \in 2..Len(inbox)
        PROVE  /\ inbox[i].type = "daemon_exited" => daemon'[inbox[i].pid].st # "run"
               /\ inbox[i].type = "daemon_exited" /\ inbox[i].pid = hup'[inbox[i].id] => inbox[i].pid = hup[inbox[i].id]
               /\ inbox[i].type = "down_link" /\ inbox[i].arg = "force"
                    /\ daemon'[hup'[inbox[i].id]].st = "run" => daemon'[hup'[inbox[i].id]].link[Link] = "down"
               /\ Report(inbox[i]) => hup'[inbox[i].id] # NoPid
    <3>0. inbox \in Seq(MsgType)
      BY DEF Typed
    <3>1. i \in 1..Len(inbox) /\ ~ (i <= 1)
      OBVIOUS
    <3>2. inbox[i].type = "daemon_exited" => daemon[inbox[i].pid].st # "run" /\ inbox[i].pid # NoPid /\ inbox[i].id \in Circuit
      BY <3>0, <3>1, MailFacts DEF Mail
    <3>3. Report(inbox[i]) => hup[inbox[i].id] # NoPid /\ inbox[i].id \in Circuit
      BY <1>1, <3>0, <3>1, MailFacts DEF Mail, Report
    <3>4. Report(inbox[i]) => hup[inbox[i].id] # p
      <4>1. SUFFICES ASSUME Report(inbox[i]), hup[inbox[i].id] = p PROVE FALSE
        OBVIOUS
      <4>2. inbox[i].id = c /\ hup[c] = p
        BY <1>6, <3>3, <4>1
      <4>3. QED
        BY <1>1, <1>2, <1>11, <3>1, <4>1, <4>2 DEF MailOrder
    <3>5. Report(inbox[i]) => hup'[inbox[i].id] = hup[inbox[i].id]
      BY <1>8, <3>3, <3>4
    <3>6. inbox[i].type = "down_link" => Report(inbox[i])
      BY DEF Report
    <3>7. inbox[i].type = "down_link" /\ inbox[i].arg = "force"
               /\ daemon[hup[inbox[i].id]].st = "run" => daemon[hup[inbox[i].id]].link[Link] = "down"
      BY <3>1 DEF Mail
    <3>8. inbox[i].type = "daemon_exited" /\ inbox[i].pid = hup'[inbox[i].id] => inbox[i].pid = hup[inbox[i].id]
      BY <1>18, <3>2
    <3>9. QED
      BY <1>3, <3>2, <3>3, <3>5, <3>6, <3>7, <3>8
  <2>2. QED
    BY <1>1, <1>3, <1>17, <2>1, TakenKeepsMail DEF Unique
<1>22. Sources'
  BY <1>3, <1>9, <1>15, <1>16, <1>18 DEF Sources
<1>23. Exclusive'
  BY <1>3, <1>9, <1>15, <1>16, <1>17, <1>18 DEF Exclusive
<1>24. Registered'
  <2>1. \A d \in Circuit : hup'[d] # NoPid => hup'[d] \in Unreported(d)'
    BY <1>18, <1>19 DEF Registered
  <2>2. QED
    BY <1>1, <1>3, <2>1 DEF Registered
<1>25. Daemons'
  <2>0. daemon' = daemon
    BY <1>3
  <2>1. SUFFICES ASSUME NEW r \in Pid, daemon[r].st = "run", NEW d, d = daemon[r].id
                 PROVE  /\ d \in Circuit /\ Kind[d] # "route"
                        /\ \/ HupLive(d)' /\ hup'[d] = r
                           \/ Kind[d] = "link" /\ daemon[r].link[Link] = "down"
                        /\ hup'[d] = r /\ ~ daemon[r].sig => term'[d] = r
    BY <2>0, <1>9 DEF Daemons
  <2>2. /\ d \in Circuit /\ Kind[d] # "route"
        /\ \/ HupLive(d) /\ hup[d] = r
           \/ Kind[d] = "link" /\ daemon[r].link[Link] = "down"
        /\ hup[d] = r /\ ~ daemon[r].sig => term[d] = r
    BY <2>1 DEF Daemons
  <2>3. r # p /\ r # NoPid
    BY <1>4, <2>1, CircuitAssumption
  <2>4. hup'[d] = r <=> hup[d] = r
    BY <1>8, <2>2, <2>3
  <2>5. term[d] = r => term'[d] = r
    BY <1>8, <2>2, <2>3
  <2>6. hup'[d] = r => HupLive(d)'
    BY <1>17, <2>3 DEF HupLive
  <2>7. QED
    BY <2>2, <2>4, <2>5, <2>6
<1>26. Refs'
  <2>1. \A d \in Circuit : Own(d)' = Own(d) /\ Exists(d)' = Exists(d) /\ Dropping(d) = 0 /\ Own(d) \in {0, 1}
    <3>1. \A d : Dropping(d) = 0
      BY <1>1, IdleFacts DEF Taken
    <3>2. QED
      BY <1>1, <1>3, <1>17, <3>1 DEF Own, Exists
  <2>2. Cardinality(Unreported(c)') + 1 = Cardinality(Unreported(c)) /\ Cardinality(Unreported(c)') \in Nat
    <3>1. Unreported(c)' = Unreported(c) \ {p}
      BY <1>19
    <3>2. /\ IsFiniteSet(Unreported(c)) /\ Cardinality(Unreported(c)) \in Nat
      BY UnreportedType
    <3>3. /\ IsFiniteSet(Unreported(c)') /\ Cardinality(Unreported(c)') = Cardinality(Unreported(c)) - 1
      BY <1>19, <3>1, <3>2, FS_RemoveElement
    <3>4. Cardinality(Unreported(c)') \in Nat
      BY <3>3, FS_CardinalityType
    <3>5. QED
      BY <3>2, <3>3, <3>4
  <2>3. \A d \in Circuit : d # c => Unreported(d)' = Unreported(d)
    <3>1. \A d \in Circuit : \A r : d # c => (r \in Unreported(d)' <=> r \in Unreported(d))
      BY <1>19
    <3>2. QED
      BY <3>1
  <2>4. \A d \in Circuit : Exists(d) => refs[d] = Cardinality(Unreported(d)) + Dropping(d) + Own(d)
    BY DEF Refs
  <2>5. \A d \in Circuit : d # c /\ Exists(d)' => refs'[d] = Cardinality(Unreported(d)') + Dropping(d)' + Own(d)'
    BY <1>3, <1>12, <2>1, <2>3, <2>4
  <2>6. Exists(c)' => refs'[c] = Cardinality(Unreported(c)') + Dropping(c)' + Own(c)'
    <3>1. Own(c) \in {0, 1} /\ Own(c)' = Own(c) /\ Dropping(c) = 0 /\ Dropping(c)' = 1 /\ refs' = refs
      BY <1>3, <1>12, <2>1
    <3>2. Exists(c)' => refs[c] = Cardinality(Unreported(c)) + Dropping(c) + Own(c)
      BY <2>1, <2>4
    <3>3. QED
      BY <2>2, <3>1, <3>2
  <2>7. \A d \in Circuit : Unreported(d) # {} => Exists(d)
    BY DEF Refs
  <2>8. Exists(c)
    BY <1>19, <2>7
  <2>9. \A d \in Circuit : Unreported(d)' # {} => Exists(d)'
    BY <2>1, <2>3, <2>7, <2>8
  <2>10. QED
    BY <1>12, <1>17, <2>1, <2>5, <2>6, <2>8, <2>9 DEF Refs
<1>27. Clones'
  BY <1>3, <1>9, <1>17 DEF Clones
<1>28. QED
  BY <1>9, <1>12, <1>14, <1>15, <1>16, <1>20, <1>21, <1>22, <1>23, <1>24, <1>25, <1>26,
     <1>27 DEF Unique

\* A control script has failed: the circuit is not a tame one, and what is still on its
\* way for it is not accounted for.
LEMMA FailureFacts ==
  ASSUME IInv, Removal, NEW t \in {"dial_failed", "hangup_failed"}, Handle(t), Exists(Id)
  PROVE  /\ Taken /\ inbox[1].type = t /\ Id \in Circuit /\ Id \notin Tame
         /\ state[Id] \in Alive /\ ~ force[Id] /\ hup[Id] = NoPid
<1>1. /\ Taken /\ inbox[1].type = t /\ 1 \in 1..Len(inbox) /\ Id = inbox[1].id /\ inbox[1] \in MsgType
      /\ stack = << >> /\ \A d \in Circuit : ~ force[d]
  BY HandleFacts
<1>2. PICK c \in Circuit : c = Id
  BY <1>1 DEF MsgType
<1>3. c \notin Tame
  BY <1>1, <1>2 DEF IInv, Mail
<1>4. Kind[c] = "route"
  BY <1>3 DEF Tame
<1>5. state[c] \in Alive /\ hup[c] = NoPid
  BY <1>1, <1>2, <1>4, IdleIsAlive DEF IInv, Sources
<1>6. QED
  BY <1>1, <1>2, <1>3, <1>5

LEMMA BeginsAgain ==
  ASSUME NEW c \in Circuit, NEW calls, calls = <<Call("change_state", c, "active"), Call("clear_op", c, "any")>>
  PROVE  /\ Begins(calls) /\ \A d : ~ Made(calls, "dial", d)
         /\ calls[1].call = "change_state" /\ calls[1].id = c /\ calls[1].arg = "active"
<1>1. PICK x \in CallType : x = Call("change_state", c, "active") /\ x.call = "change_state" /\ x.id = c /\ x.arg = "active"
  BY CallsAreTyped DEF Call, States
<1>2. PICK y \in CallType : y = Call("clear_op", c, "any") /\ y.call = "clear_op"
  BY CallsAreTyped DEF Call
<1>3. calls \in Seq(CallType) /\ Len(calls) = 2 /\ calls[1] = x /\ calls[2] = y
  <2>1. calls = <<x, y>>
    BY <1>1, <1>2
  <2>2. QED
    BY <2>1, TwoCalls
<1>4. \A i : (i \in 1..2 <=> i = 1 \/ i = 2) /\ (i \in 2..2 <=> i = 2)
  OBVIOUS
<1>5. QED
  BY <1>1, <1>2, <1>3, <1>4 DEF Begins, Made, Low, TopOnly

LEMMA DialFailedStep ==
  ASSUME IInv, Removal, handle_dialup_control_circuit_event
  PROVE  IInv'
<1>1. Handle("dial_failed")
  BY DEF handle_dialup_control_circuit_event
<1>2. Taken /\ inbox[1].type = "dial_failed"
  BY <1>1, HandleFacts
<1>3. CASE ~ Exists(Id)
  <2>1. Calls(<< >>)
    BY <1>3 DEF handle_dialup_control_circuit_event
  <2>2. QED
    BY <1>2, <2>1, CallsLeave, NoCalls DEF IInv
<1>4. CASE Exists(Id)
  <2>1. PICK c \in Circuit : c = Id /\ c \notin Tame /\ state[c] \in Alive
    BY <1>1, <1>4, FailureFacts
  <2>2. PICK calls : calls = <<Call("change_state", c, "active"), Call("clear_op", c, "any")>> /\ Calls(calls)
    BY <1>4, <2>1 DEF handle_dialup_control_circuit_event
  <2>3. Leaves /\ UNCHANGED protsUp /\ stack' = calls
    BY <2>2, CallsLeave DEF IInv
  <2>4. /\ Begins(calls) /\ \A d : ~ Made(calls, "dial", d)
        /\ calls[1].call = "change_state" /\ calls[1].id = c /\ calls[1].arg = "active"
    BY <2>2, BeginsAgain
  <2>5. \A d : ~ HasCall("dial", d)'
    BY <2>3, <2>4, BeginStack
  <2>6. state' = state /\ Tame' = Tame
    BY <2>3 DEF Leaves, Tame, Kind, Protocols, DialMayFail
  <2>7. ChangeOK(c, "active")'
    BY <2>1, <2>5, <2>6 DEF ChangeOK
  <2>8. TopOK'
    BY <2>3, <2>4, <2>7 DEF TopOK
  <2>9. QED
    BY <1>2, <2>3, <2>4, <2>8, QuietHandler
<1>5. QED
  BY <1>3, <1>4

LEMMA HangupFailedStep ==
  ASSUME IInv, Removal, handle_hangup_control_circuit_event
  PROVE  IInv'
<1>1. Handle("hangup_failed")
  BY DEF handle_hangup_control_circuit_event
<1>2. Taken /\ inbox[1].type = "hangup_failed"
  BY <1>1, HandleFacts
<1>3. CASE ~ Exists(Id)
  <2>1. Calls(<< >>)
    BY <1>3 DEF handle_hangup_control_circuit_event
  <2>2. QED
    BY <1>2, <2>1, CallsLeave, NoCalls DEF IInv
<1>4. CASE Exists(Id)
  <2>1. PICK c \in Circuit : c = Id /\ c \notin Tame /\ state[c] \in Alive /\ ~ force[c] /\ hup[c] = NoPid
    BY <1>1, <1>4, FailureFacts
  <2>2. Calls(<<Call("finalize_hangup", c, "")>>)
    BY <1>4, <2>1 DEF handle_hangup_control_circuit_event
  <2>3. Leaves /\ UNCHANGED protsUp /\ stack' = <<Call("finalize_hangup", c, "")>>
    BY <2>2, CallsLeave DEF IInv
  <2>4. state' = state /\ force' = force /\ Tame' = Tame
    BY <2>3 DEF Leaves, Tame, Kind, Protocols, DialMayFail
  <2>5. FinalizeOK(c, "")'
    BY <2>1, <2>4 DEF FinalizeOK
  <2>6. QED
    BY <1>2, <2>3, <2>5, FinalizeHandler
<1>5. QED
  BY <1>3, <1>4

LEMMA HandlersStep ==
  ASSUME IInv, Removal, Handlers
  PROVE  IInv'
<1>1. "active" \in {"active"} \cup Stopped /\ "inactive" \in {"active"} \cup Stopped /\ "failed" \in {"active"} \cup Stopped
  BY DEF Stopped
<1>2. \/ handle_create_circuit_message \/ handle_clone_circuit_message
      \/ handle_activate_circuit_message \/ handle_dialup_circuit_message
      \/ \E type \in {"hangup", "deactivate", "fail"}, target \in {"active"} \cup Stopped :
           handle_hangup_or_deactivate_circuit_message(type, target)
      \/ handle_start_daemon_circuit_message \/ handle_stop_daemon_circuit_message
      \/ handle_up_l3prot_circuit_event \/ handle_down_l3prot_circuit_event
      \/ handle_up_link_circuit_event \/ handle_down_link_circuit_event
      \/ handle_daemon_exited_circuit_event
      \/ handle_set_global_dialmode_message \/ handle_set_local_dialmode_message
      \/ handle_stop_service_message \/ handle_child_exited_circd_event
      \/ handle_dialup_control_circuit_event \/ handle_hangup_control_circuit_event
  BY <1>1 DEF Handlers
<1>3. QED
  BY <1>2, CreateStep, ActivateStep, DialupStep, HangupStep, StartDaemonStep,
     StopDaemonStep, UpProtStep, DownProtStep, UpLinkStep, DownLinkStep, DaemonExitedStep,
     ModeStep, StopServiceStep, ChildExitedStep, DialFailedStep, HangupFailedStep

-----------------------------------------------------------------------------
(* The other processes take their steps while no call waits                *)

ProcessFrame ==
  /\ stack = << >>
  /\ UNCHANGED <<config, state, op, hangupState, force, protsUp, refs, globalMode, localMode, term, hup, nextId, stack>>

LEMMA ProcessFacts ==
  ASSUME IInv, ProcessFrame
  PROVE  /\ Tame' = Tame /\ Shape' /\ TopOK' /\ Dialled' /\ UniqueCalls' /\ Clones'
         /\ \A c : Dropping(c) = 0 /\ Dropping(c)' = 0 /\ Own(c)' = Own(c) /\ Exists(c)' = Exists(c)
         /\ \A c : (HupLive(c)' <=> HupLive(c)) /\ (HupLive(c) <=> hup[c] # NoPid)
         /\ \A f, c : ~ HasCall(f, c) /\ ~ HasCall(f, c)'
         /\ Kind' = Kind /\ Protocols' = Protocols /\ Origin' = Origin
<1> USE DEF IInv
<1>1. /\ \A f, c : ~ HasCall(f, c)
      /\ \A c : Dropping(c) = 0
      /\ \A c : HupLive(c) <=> hup[c] # NoPid
  BY IdleFacts DEF ProcessFrame
<1>2. /\ UNCHANGED <<config, state, op, hangupState, force, protsUp, refs, globalMode, localMode, term, hup, nextId>>
      /\ stack' = << >>
  BY DEF ProcessFrame
<1>3. /\ Shape' /\ TopOK' /\ Dialled' /\ UniqueCalls' /\ (\A c : Dropping(c)' = 0) /\ \A f, c : ~ HasCall(f, c)'
  BY <1>2, IdleAfter
<1>4. Kind' = Kind /\ Protocols' = Protocols /\ Origin' = Origin /\ Tame' = Tame
  BY <1>2 DEF Kind, Protocols, Origin, Tame, DialMayFail
<1>5. Clones'
  BY <1>2, <1>3, <1>4 DEF Clones
<1>6. \A c : Own(c)' = Own(c) /\ Exists(c)' = Exists(c)
  BY <1>1, <1>2, <1>3 DEF Own, Exists
<1>7. \A c : HupLive(c)' <=> HupLive(c)
  BY <1>1, <1>2, <1>3 DEF HupLive
<1>8. QED
  BY <1>1, <1>3, <1>4, <1>5, <1>6, <1>7

\* What is left to be shown of a step of another process
LEMMA ProcessStep ==
  ASSUME IInv, ProcessFrame, inbox' \in Seq(MsgType),
         queue' \in [Circuit -> Seq({"dial", "hangup", "quit"})],
         scripts' \in [Circuit -> [{"up", "down"} \X Prot -> Nat]],
         daemon' \in [Pid -> DaemonType], \A p \in Pid : daemon'[p].st # "free" => daemon'[p].id \in Circuit,
         UniqueDials', UniqueScripts', UniqueMail', Mail', MailOrder', Sources', Exclusive', Daemons',
         \A c : Unreported(c)' = Unreported(c)
  PROVE  IInv'
<1> USE DEF IInv
<1>1. /\ Tame' = Tame /\ Shape' /\ TopOK' /\ Dialled' /\ UniqueCalls' /\ Clones'
      /\ \A c : Dropping(c) = 0 /\ Dropping(c)' = 0 /\ Own(c)' = Own(c) /\ Exists(c)' = Exists(c)
      /\ \A f, c : ~ HasCall(f, c) /\ ~ HasCall(f, c)'
  BY ProcessFacts
<1>2. UNCHANGED <<config, state, op, hangupState, force, protsUp, refs, globalMode, localMode, term, hup, nextId, stack>>
  BY DEF ProcessFrame
<1>3. Typed'
  BY <1>2 DEF Typed
<1>4. Registered'
  BY <1>1, <1>2 DEF Registered
<1>5. Refs'
  BY <1>1, <1>2 DEF Refs
<1>6. QED
  BY <1>1, <1>3, <1>4, <1>5 DEF Unique

\* No message is sent and no daemon concerned.
LEMMA NoMail ==
  ASSUME IInv, ProcessFrame, UNCHANGED <<inbox, daemon>>
  PROVE  /\ inbox' \in Seq(MsgType) /\ daemon' \in [Pid -> DaemonType]
         /\ \A p \in Pid : daemon'[p].st # "free" => daemon'[p].id \in Circuit
         /\ UniqueMail' /\ Mail' /\ MailOrder' /\ Daemons'
         /\ \A c : Unreported(c)' = Unreported(c)
         /\ \A t, c : HasMsg(t, c)' <=> HasMsg(t, c)
<1> USE DEF IInv
<1>1. Kind' = Kind /\ Protocols' = Protocols /\ Tame' = Tame /\ \A c : HupLive(c)' <=> HupLive(c)
  BY ProcessFacts
<1>2. UNCHANGED <<config, term, hup, inbox, daemon>>
  BY DEF ProcessFrame
<1>3. \A m : (Report(m)' <=> Report(m)) /\ (Closing(m)' <=> Closing(m))
  BY <1>1, <1>2 DEF Report, Closing
<1>4. /\ inbox' \in Seq(MsgType) /\ daemon' \in [Pid -> DaemonType]
      /\ \A p \in Pid : daemon'[p].st # "free" => daemon'[p].id \in Circuit
  BY <1>2 DEF Typed
<1>5. UniqueMail'
  BY <1>1, <1>2 DEF UniqueMail, Unique
<1>6. Mail'
  BY <1>1, <1>2, <1>3 DEF Mail
<1>7. MailOrder'
  BY <1>2, <1>3 DEF MailOrder
<1>8. Daemons'
  BY <1>1, <1>2 DEF Daemons
<1>9. \A c : Unreported(c)' = Unreported(c)
  BY <1>2 DEF Unreported
<1>10. \A t, c : HasMsg(t, c)' <=> HasMsg(t, c)
  BY <1>2 DEF HasMsg
<1>11. QED
  BY <1>4, <1>5, <1>6, <1>7, <1>8, <1>9, <1>10

\* A message arrives.
LEMMA Arrives ==
  ASSUME inbox \in Seq(MsgType), NEW m \in MsgType, Send(m)
  PROVE  /\ inbox' \in Seq(MsgType)
         /\ \A t, c : HasMsg(t, c)' <=> HasMsg(t, c) \/ (m.type = t /\ m.id = c)
         /\ \A c, p : EndSent(c, p)' <=> EndSent(c, p) \/ (m.type = "daemon_exited" /\ m.id = c /\ m.pid = p)
<1>1. /\ inbox' \in Seq(MsgType)
      /\ \A i \in 1..Len(inbox) : i \in 1..Len(inbox') /\ inbox'[i] = inbox[i]
      /\ inbox'[Len(inbox) + 1] = m /\ Len(inbox) + 1 \in 1..Len(inbox')
      /\ \A i \in 1..Len(inbox') : i \in 1..Len(inbox) \/ i = Len(inbox) + 1
  BY AppendMail DEF Send
<1>2. PICK n : n = Len(inbox) + 1
  OBVIOUS
<1>3. \A t, c : HasMsg(t, c)' <=> HasMsg(t, c) \/ (m.type = t /\ m.id = c)
  BY <1>1, <1>2 DEF HasMsg
<1>4. \A c, p : EndSent(c, p)' <=> EndSent(c, p) \/ (m.type = "daemon_exited" /\ m.id = c /\ m.pid = p)
  BY <1>1, <1>2 DEF EndSent
<1>5. QED
  BY <1>1, <1>3, <1>4

LEMMA ArrivesOnce ==
  ASSUME IInv, NEW m \in MsgType, Send(m), UNCHANGED config,
         m.type = "start_daemon" => ~ HasMsg("start_daemon", m.id),
         m.type = "up_l3prot" /\ Kind[m.id] = "route" /\ m.id \in Tame => ~ HasMsg("up_l3prot", m.id)
  PROVE  UniqueMail'
<1>0. inbox \in Seq(MsgType)
  BY DEF IInv, Typed
<1>1. /\ \A i \in 1..Len(inbox) : i \in 1..Len(inbox') /\ inbox'[i] = inbox[i]
      /\ inbox'[Len(inbox) + 1] = m
      /\ \A i \in 1..Len(inbox') : i \in 1..Len(inbox) \/ i = Len(inbox) + 1
  BY <1>0, AppendMail DEF Send
<1>2. PICK n : n = Len(inbox) + 1
  OBVIOUS
<1>3. SUFFICES ASSUME NEW i \in 1..Len(inbox'), NEW j \in 1..Len(inbox'),
                      inbox'[i].type = inbox'[j].type, inbox'[i].id = inbox'[j].id,
                      \/ inbox'[i].type = "start_daemon"
                      \/ inbox'[i].type = "up_l3prot" /\ Kind[inbox'[i].id] = "route" /\ inbox'[i].id \in Tame
               PROVE  i = j
  BY DEF UniqueMail, Kind, Tame, Protocols, DialMayFail
<1>4. CASE i \in 1..Len(inbox) /\ j \in 1..Len(inbox)
  BY <1>1, <1>3, <1>4 DEF IInv, Unique, UniqueMail
<1>5. CASE i \in 1..Len(inbox) /\ j = n
  BY <1>1, <1>2, <1>3, <1>5 DEF HasMsg
<1>6. CASE i = n /\ j \in 1..Len(inbox)
  BY <1>1, <1>2, <1>3, <1>6 DEF HasMsg
<1>7. CASE i = n /\ j = n
  BY <1>7
<1>8. QED
  BY <1>1, <1>2, <1>4, <1>5, <1>6, <1>7

\* What a message has to say, and what has to be on its way before it
ArrivesInOrder(m) ==
  /\ m.type = "daemon_exited" => daemon'[m.pid].st # "run" /\ Kind[m.id] # "route"
                                 /\ \A c : ~ EndSent(c, m.pid)
  /\ m.type \in {"up_link", "down_link"} => Kind[m.id] = "link"
  /\ m.type \in {"up_l3prot", "down_l3prot"} => Kind[m.id] \in {"route", "pppd"} /\ m.arg \in Protocols[m.id]
  /\ m.type = "down_link" /\ m.arg = "force"
       /\ daemon'[hup[m.id]].st = "run" => daemon'[hup[m.id]].link[Link] = "down"
  /\ m.type \in {"dial_failed", "hangup_failed"} => m.id \notin Tame
  /\ Report(m) => hup[m.id] # NoPid /\ \A i \in 1..Len(inbox) : Closing(inbox[i]) => inbox[i].id # m.id

LEMMA ArrivesMail ==
  ASSUME IInv, ProcessFrame, NEW m \in MsgType, Send(m), ArrivesInOrder(m),
         \A i \in 1..Len(inbox) :
           /\ inbox[i].type = "daemon_exited" => daemon'[inbox[i].pid].st # "run"
           /\ inbox[i].type = "down_link" /\ inbox[i].arg = "force"
                /\ daemon'[hup[inbox[i].id]].st = "run" => daemon'[hup[inbox[i].id]].link[Link] = "down"
  PROVE  Mail' /\ MailOrder'
<1>0. inbox \in Seq(MsgType)
  BY DEF IInv, Typed
<1>1. /\ \A i \in 1..Len(inbox) : i \in 1..Len(inbox') /\ inbox'[i] = inbox[i]
      /\ inbox'[Len(inbox) + 1] = m /\ Len(inbox) \in Nat
      /\ \A i \in 1..Len(inbox') : i \in 1..Len(inbox) \/ i = Len(inbox) + 1
  BY <1>0, AppendMail DEF Send
<1>2. PICK n : n = Len(inbox) + 1 /\ (\A i \in 1..Len(inbox) : i <= n) /\ n <= n
  BY <1>1
<1>3. /\ Kind' = Kind /\ Protocols' = Protocols /\ Tame' = Tame
      /\ \A c : (HupLive(c)' <=> hup[c] # NoPid) /\ (HupLive(c) <=> hup[c] # NoPid)
  BY ProcessFacts
<1>4. hup' = hup
  BY DEF ProcessFrame
<1>5. \A x : (Report(x)' <=> Report(x)) /\ (Closing(x)' <=> Closing(x))
  BY <1>3, <1>4 DEF Report, Closing
<1>6. PICK box : box = inbox' /\ (\A i \in 1..Len(inbox) : box[i] = inbox[i]) /\ box[n] = m
                 /\ \A i \in 1..Len(box) : i \in 1..Len(inbox) \/ i = n
  BY <1>1, <1>2
<1>7. ASSUME NEW i \in 1..Len(box)
      PROVE  /\ box[i].type = "daemon_exited" => daemon'[box[i].pid].st # "run" /\ Kind[box[i].id] # "route"
             /\ box[i].type \in {"up_link", "down_link"} => Kind[box[i].id] = "link"
             /\ box[i].type \in {"up_l3prot", "down_l3prot"} =>
                  Kind[box[i].id] \in {"route", "pppd"} /\ box[i].arg \in Protocols[box[i].id]
             /\ box[i].type = "down_link" /\ box[i].arg = "force"
                  /\ daemon'[hup[box[i].id]].st = "run" => daemon'[hup[box[i].id]].link[Link] = "down"
             /\ box[i].type \in {"dial_failed", "hangup_failed"} => box[i].id \notin Tame
             /\ Report(box[i]) => hup[box[i].id] # NoPid
  <2>1. CASE i \in 1..Len(inbox)
    BY <1>3, <1>6, <2>1 DEF IInv, Mail
  <2>2. CASE i = n
    BY <1>6, <2>2 DEF ArrivesInOrder
  <2>3. QED
    BY <1>6, <2>1, <2>2
<1>8. Mail'
  <2>1. \A i \in 1..Len(box) : Report(box[i])' => HupLive(box[i].id)'
    BY <1>3, <1>5, <1>7
  <2>2. QED
    BY <1>3, <1>4, <1>6, <1>7, <2>1 DEF Mail
<1>9. ASSUME NEW i \in 1..Len(box), NEW j \in 1..Len(box)
      PROVE  /\ box[i].type = "daemon_exited" /\ box[j].type = "daemon_exited" /\ box[i].pid = box[j].pid => i = j
             /\ Report(box[j]) /\ Closing(box[i]) /\ box[i].id = box[j].id => j <= i
  <2>1. CASE i \in 1..Len(inbox) /\ j \in 1..Len(inbox)
    BY <1>6, <2>1 DEF IInv, MailOrder
  <2>2. CASE i \in 1..Len(inbox) /\ j = n
    BY <1>6, <2>2 DEF ArrivesInOrder, EndSent
  <2>3. CASE i = n /\ j \in 1..Len(inbox)
    BY <1>2, <1>6, <2>3 DEF ArrivesInOrder, EndSent
  <2>4. CASE i = n /\ j = n
    BY <1>2, <2>4
  <2>5. QED
    BY <1>6, <2>1, <2>2, <2>3, <2>4
<1>10. MailOrder'
  BY <1>5, <1>6, <1>9 DEF MailOrder
<1>11. QED
  BY <1>8, <1>10

\* Messages that are not about daemons and protocols
Plain == {"create", "clone", "activate", "dialup", "hangup", "deactivate", "fail",
          "set_global", "set_local", "stop_service", "stop_daemon", "child_exited", "start_daemon",
          "dial_failed", "hangup_failed"}

LEMMA PlainMail ==
  ASSUME IInv, ProcessFrame, UNCHANGED daemon, NEW m \in MsgType, Send(m), m.type \in Plain,
         m.type = "start_daemon" => ~ HasMsg("start_daemon", m.id),
         m.type \in {"dial_failed", "hangup_failed"} => m.id \notin Tame
  PROVE  /\ inbox' \in Seq(MsgType) /\ daemon' \in [Pid -> DaemonType]
         /\ \A p \in Pid : daemon'[p].st # "free" => daemon'[p].id \in Circuit
         /\ UniqueMail' /\ Mail' /\ MailOrder' /\ Daemons'
         /\ \A c : Unreported(c)' = Unreported(c)
         /\ \A t, c : HasMsg(t, c)' <=> HasMsg(t, c) \/ (m.type = t /\ m.id = c)
<1> USE DEF IInv
<1>0. inbox \in Seq(MsgType)
  BY DEF Typed
<1>1. /\ inbox' \in Seq(MsgType)
      /\ \A t, c : HasMsg(t, c)' <=> HasMsg(t, c) \/ (m.type = t /\ m.id = c)
      /\ \A c, p : EndSent(c, p)' <=> EndSent(c, p) \/ (m.type = "daemon_exited" /\ m.id = c /\ m.pid = p)
  BY <1>0, Arrives
<1>2. UNCHANGED <<config, term, hup, daemon>>
  BY DEF ProcessFrame
<1>3. Kind' = Kind /\ \A c : HupLive(c)' <=> HupLive(c)
  BY ProcessFacts
<1>4. daemon' \in [Pid -> DaemonType] /\ \A p \in Pid : daemon'[p].st # "free" => daemon'[p].id \in Circuit
  BY <1>2 DEF Typed
<1>5. UniqueMail'
  BY <1>2, ArrivesOnce DEF Plain
<1>6. Mail' /\ MailOrder'
  <2>1. ArrivesInOrder(m)
    BY DEF ArrivesInOrder, Plain, Report
  <2>2. \A i \in 1..Len(inbox) :
           /\ inbox[i].type = "daemon_exited" => daemon'[inbox[i].pid].st # "run"
           /\ inbox[i].type = "down_link" /\ inbox[i].arg = "force"
                /\ daemon'[hup[inbox[i].id]].st = "run" => daemon'[hup[inbox[i].id]].link[Link] = "down"
    BY <1>2 DEF Mail
  <2>3. QED
    BY <2>1, <2>2, ArrivesMail
<1>7. Daemons'
  BY <1>2, <1>3 DEF Daemons
<1>8. \A c : Unreported(c)' = Unreported(c)
  <2>1. \A c, p : EndSent(c, p)' <=> EndSent(c, p)
    BY <1>1 DEF Plain
  <2>2. \A c, p : p \in Unreported(c)' <=> p \in Unreported(c)
    BY <1>2, <2>1, UnreportedIs
  <2>3. QED
    BY <2>2
<1>9. QED
  BY <1>1, <1>4, <1>5, <1>6, <1>7, <1>8

\* The queue processes
LEMMA Unqueued ==
  ASSUME IInv, NEW c \in Circuit, NEW m, Unqueue(c, m)
  PROVE  /\ ProcessFrame /\ queue' \in [Circuit -> Seq({"dial", "hangup", "quit"})] /\ UniqueDials'
         /\ \A d \in Circuit : HasDial(d)' => HasDial(d)
         /\ m = "dial" => HasDial(c) /\ (c \in Tame => ~ HasDial(c)')
<1> USE DEF IInv
<1>1. PICK s : s = queue[c] /\ s \in Seq({"dial", "hangup", "quit"}) /\ s # << >> /\ Head(s) = m
  BY DEF Unqueue, Typed
<1>2. PICK t : t = Tail(s)
  OBVIOUS
<1>3. /\ t \in Seq({"dial", "hangup", "quit"}) /\ Len(t) = Len(s) - 1 /\ Len(s) \in Nat /\ Len(s) >= 1
      /\ \A i \in 1..Len(t) : t[i] = s[i + 1]
      /\ s[1] = m
  BY <1>1, <1>2, TailFacts
<1>4. queue' = [queue EXCEPT ![c] = t] /\ queue \in [Circuit -> Seq({"dial", "hangup", "quit"})]
  BY <1>1, <1>2 DEF Unqueue, Typed
<1>5. queue'[c] = t /\ \A d \in Circuit : d # c => queue'[d] = queue[d]
  BY <1>4
<1>6. \A i \in 1..Len(t) : i + 1 \in 1..Len(s) /\ i + 1 # 1 /\ 1 \in 1..Len(s)
  BY <1>3
<1>7. 1 \in 1..Len(s)
  BY <1>3
<1>8. c \in Tame => \A i, j \in 1..Len(s) : s[i] = "dial" /\ s[j] = "dial" => i = j
  BY <1>1 DEF Unique, UniqueDials
<1>9. m = "dial" => HasDial(c) /\ (c \in Tame => ~ HasDial(c)')
  <2>1. m = "dial" => HasDial(c)
    BY <1>1, <1>3, <1>7 DEF HasDial
  <2>2. m = "dial" /\ c \in Tame => \A i \in 1..Len(t) : t[i] # "dial"
    BY <1>3, <1>6, <1>7, <1>8
  <2>3. QED
    BY <1>5, <2>1, <2>2 DEF HasDial
<1>10. \A d \in Circuit : HasDial(d)' => HasDial(d)
  <2>1. HasDial(c)' => HasDial(c)
    BY <1>1, <1>3, <1>5, <1>6 DEF HasDial
  <2>2. QED
    BY <1>5, <2>1 DEF HasDial
<1>11. c \in Tame => \A i, j \in 1..Len(t) : t[i] = "dial" /\ t[j] = "dial" => i = j
  <2>1. \A i, j \in 1..Len(t) : i + 1 = j + 1 => i = j
    OBVIOUS
  <2>2. QED
    BY <1>3, <1>6, <1>8, <2>1
<1>12. UniqueDials'
  <2>1. Tame' = Tame
    BY DEF Unqueue, Others, conf, Tame, Kind, Protocols, DialMayFail
  <2>2. QED
    BY <1>5, <1>11, <2>1 DEF Unique, UniqueDials
<1>13. queue' \in [Circuit -> Seq({"dial", "hangup", "quit"})]
  BY <1>3, <1>4
<1>14. ProcessFrame
  BY DEF Unqueue, Others, ProcessFrame, conf, modes, dmns, life
<1>15. QED
  BY <1>9, <1>10, <1>12, <1>13, <1>14

\* A step of another process that leaves the scripts alone, and brings nothing up
LEMMA QuietProcess ==
  ASSUME IInv, ProcessFrame, inbox' \in Seq(MsgType),
         queue' \in [Circuit -> Seq({"dial", "hangup", "quit"})], UniqueDials',
         \A d \in Circuit : HasDial(d)' => HasDial(d),
         UNCHANGED scripts,
         daemon' \in [Pid -> DaemonType], \A p \in Pid : daemon'[p].st # "free" => daemon'[p].id \in Circuit,
         UniqueMail', Mail', MailOrder', Daemons', \A d : Unreported(d)' = Unreported(d),
         \A t \in {"start_daemon", "up_l3prot"}, d \in Circuit : HasMsg(t, d)' => HasMsg(t, d)
  PROVE  IInv'
<1> USE DEF IInv
<1>1. /\ Kind' = Kind /\ Protocols' = Protocols /\ Tame' = Tame
      /\ (\A c : HupLive(c)' <=> HupLive(c)) /\ \A f, c : ~ HasCall(f, c)'
  BY ProcessFacts
<1>2. UNCHANGED <<state, protsUp, hup, scripts>>
  BY DEF ProcessFrame
<1>3. \A d : HasScript(d)' <=> HasScript(d)
  BY <1>2 DEF HasScript
<1>4. UniqueScripts'
  BY <1>1, <1>2 DEF Unique, UniqueScripts
<1>5. Sources'
  BY <1>1, <1>2, <1>3 DEF Sources
<1>6. Exclusive'
  BY <1>1, <1>2, <1>3 DEF Exclusive
<1>7. scripts' \in [Circuit -> [{"up", "down"} \X Prot -> Nat]]
  BY <1>2 DEF Typed
<1>8. QED
  BY <1>4, <1>5, <1>6, <1>7, ProcessStep

\* Scripts are started for every protocol of the circuit, or none.
LEMMA ScriptsStarted ==
  ASSUME Typed, NEW c \in Circuit, NEW k \in {"up", "down"}, StartScripts(c, k)
  PROVE  /\ scripts' \in [Circuit -> [{"up", "down"} \X Prot -> Nat]]
         /\ \A d \in Circuit : d # c => scripts'[d] = scripts[d]
         /\ \A j \in {"up", "down"}, q \in Prot :
              scripts'[c][<<j, q>>] = IF j = k /\ q \in Protocols[c] THEN scripts[c][<<j, q>>] + 1 ELSE scripts[c][<<j, q>>]
<1>1. PICK s : s = scripts[c]
  OBVIOUS
<1>2. s \in [{"up", "down"} \X Prot -> Nat] /\ scripts \in [Circuit -> [{"up", "down"} \X Prot -> Nat]]
  BY <1>1 DEF Typed
<1>3. PICK t : t = [x \in {"up", "down"} \X Prot |-> IF x[1] = k /\ x[2] \in Protocols[c] THEN s[x] + 1 ELSE s[x]]
  OBVIOUS
<1>4. t \in [{"up", "down"} \X Prot -> Nat]
  BY <1>2, <1>3
<1>5. scripts' = [scripts EXCEPT ![c] = t]
  BY <1>1, <1>2, <1>3 DEF StartScripts
<1>6. ASSUME NEW j \in {"up", "down"}, NEW q \in Prot
      PROVE  t[<<j, q>>] = IF j = k /\ q \in Protocols[c] THEN s[<<j, q>>] + 1 ELSE s[<<j, q>>]
  BY <1>3
<1>7. QED
  BY <1>1, <1>2, <1>4, <1>5, <1>6

LEMMA NotPositive == \A n \in Nat : ~ (n > 0) => n = 0
OBVIOUS

LEMMA QueueDialStep ==
  ASSUME IInv, NEW c \in Circuit, handle_dialup_circuit_queue_message(c)
  PROVE  IInv'
<1> USE DEF IInv
<1>1. /\ ProcessFrame /\ queue' \in [Circuit -> Seq({"dial", "hangup", "quit"})] /\ UniqueDials'
      /\ \A d \in Circuit : HasDial(d)' => HasDial(d)
      /\ HasDial(c) /\ (c \in Tame => ~ HasDial(c)')
  BY Unqueued DEF handle_dialup_circuit_queue_message
<1>2. daemon' = daemon
  BY DEF handle_dialup_circuit_queue_message
<1>3. /\ Kind' = Kind /\ Protocols' = Protocols /\ Tame' = Tame
      /\ (\A d : HupLive(d)' <=> HupLive(d)) /\ \A f, d : ~ HasCall(f, d)'
  BY <1>1, ProcessFacts
<1>4. UNCHANGED <<state, protsUp, hup>>
  BY <1>1 DEF ProcessFrame
<1>5. c \in Tame => /\ state[c] \in UpStates /\ ~ HasScript(c) /\ ~ HasMsg("start_daemon", c) /\ ~ HupLive(c)
                    /\ ~ HasMsg("up_l3prot", c) /\ protsUp[c] = {}
  BY <1>1 DEF Sources, Exclusive
<1>6. CASE Kind[c] = "route" /\ route_dial(c)
  <2>1. StartScripts(c, "up") /\ UNCHANGED inbox
    BY <1>6 DEF route_dial
  <2>2. /\ inbox' \in Seq(MsgType) /\ daemon' \in [Pid -> DaemonType]
        /\ \A p \in Pid : daemon'[p].st # "free" => daemon'[p].id \in Circuit
        /\ UniqueMail' /\ Mail' /\ MailOrder' /\ Daemons'
        /\ \A d : Unreported(d)' = Unreported(d)
        /\ \A t, d : HasMsg(t, d)' <=> HasMsg(t, d)
    BY <1>1, <1>2, <2>1, NoMail
  <2>3. /\ scripts' \in [Circuit -> [{"up", "down"} \X Prot -> Nat]]
        /\ \A d \in Circuit : d # c => scripts'[d] = scripts[d]
        /\ \A j \in {"up", "down"}, q \in Prot :
             scripts'[c][<<j, q>>] = IF j = "up" /\ q \in Protocols[c] THEN scripts[c][<<j, q>>] + 1 ELSE scripts[c][<<j, q>>]
    BY <2>1, ScriptsStarted
  <2>4. \A d \in Circuit : d # c => (HasScript(d)' <=> HasScript(d))
    BY <2>3 DEF HasScript
  <2>5. c \in Tame => \A q \in Prot : scripts[c][<<"up", q>>] = 0
    <3>1. c \in Tame => \A q \in Prot : scripts[c][<<"up", q>>] \in Nat /\ ~ (scripts[c][<<"up", q>>] > 0)
      BY <1>5 DEF HasScript, Typed
    <3>2. QED
      BY <3>1, NotPositive
  <2>6. UniqueScripts'
    <3>1. \A q \in Prot : scripts'[c][<<"up", q>>] # 0 => q \in Protocols[c] /\ (c \in Tame => scripts'[c][<<"up", q>>] = 1)
      <4>1. c \in Tame => \A q \in Prot : scripts'[c][<<"up", q>>] # 0 => scripts'[c][<<"up", q>>] = 1
        BY <2>3, <2>5
      <4>2. \A q \in Prot : scripts'[c][<<"up", q>>] # 0 => q \in Protocols[c]
        BY <2>3 DEF Unique, UniqueScripts
      <4>3. QED
        BY <4>1, <4>2
    <3>2. \A q \in Prot : scripts'[c][<<"down", q>>] = scripts[c][<<"down", q>>]
      BY <2>3
    <3>3. \A d \in Circuit, q \in Prot :
            /\ scripts[d][<<"up", q>>] # 0 => q \in Protocols[d] /\ (d \in Tame => scripts[d][<<"up", q>>] = 1)
            /\ scripts[d][<<"down", q>>] # 0 => Kind[d] = "route" /\ q \in Protocols[d]
      BY DEF Unique, UniqueScripts
    <3>4. SUFFICES ASSUME NEW d \in Circuit, NEW q \in Prot
                   PROVE  /\ scripts'[d][<<"up", q>>] # 0 => q \in Protocols[d] /\ (d \in Tame => scripts'[d][<<"up", q>>] = 1)
                          /\ scripts'[d][<<"down", q>>] # 0 => Kind[d] = "route" /\ q \in Protocols[d]
      BY <1>3 DEF UniqueScripts
    <3>5. CASE d = c
      BY <3>1, <3>2, <3>3, <3>5
    <3>6. CASE d # c
      BY <2>3, <3>3, <3>6
    <3>7. QED
      BY <3>5, <3>6
  <2>7. Sources'
    BY <1>1, <1>3, <1>4, <1>5, <1>6, <2>2, <2>4 DEF Sources
  <2>8. Exclusive'
    BY <1>1, <1>3, <1>4, <1>5, <2>2, <2>4 DEF Exclusive
  <2>9. QED
    BY <1>1, <2>2, <2>3, <2>6, <2>7, <2>8, ProcessStep
<1>7. CASE Kind[c] # "route" /\ circuit_daemon_wrapper(c)
  <2>0. c \in Tame
    BY <1>7 DEF Tame
  <2>1. PICK m \in MsgType : Send(m) /\ m.type = "start_daemon" /\ m.id = c
    BY <1>7, MessagesAreTyped DEF circuit_daemon_wrapper, Msg
  <2>2. scripts' = scripts
    BY <1>7 DEF circuit_daemon_wrapper
  <2>3. /\ inbox' \in Seq(MsgType) /\ daemon' \in [Pid -> DaemonType]
        /\ \A p \in Pid : daemon'[p].st # "free" => daemon'[p].id \in Circuit
        /\ UniqueMail' /\ Mail' /\ MailOrder' /\ Daemons'
        /\ \A d : Unreported(d)' = Unreported(d)
        /\ \A t, d : HasMsg(t, d)' <=> HasMsg(t, d) \/ (m.type = t /\ m.id = d)
    BY <1>1, <1>2, <1>5, <2>0, <2>1, PlainMail DEF Plain
  <2>4. \A d : HasScript(d)' <=> HasScript(d)
    BY <2>2 DEF HasScript
  <2>5. UniqueScripts'
    BY <1>3, <2>2 DEF Unique, UniqueScripts
  <2>6. Sources'
    BY <1>1, <1>3, <1>4, <1>5, <1>7, <2>0, <2>1, <2>3, <2>4 DEF Sources
  <2>7. Exclusive'
    BY <1>1, <1>3, <1>4, <1>5, <2>0, <2>1, <2>3, <2>4 DEF Exclusive
  <2>8. scripts' \in [Circuit -> [{"up", "down"} \X Prot -> Nat]]
    BY <2>2 DEF Typed
  <2>9. QED
    BY <1>1, <2>3, <2>5, <2>6, <2>7, <2>8, ProcessStep
<1>8. CASE UNCHANGED <<inbox, scripts>>
  <2>1. /\ inbox' \in Seq(MsgType) /\ daemon' \in [Pid -> DaemonType]
        /\ \A p \in Pid : daemon'[p].st # "free" => daemon'[p].id \in Circuit
        /\ UniqueMail' /\ Mail' /\ MailOrder' /\ Daemons'
        /\ \A d : Unreported(d)' = Unreported(d)
        /\ \A t, d : HasMsg(t, d)' <=> HasMsg(t, d)
    BY <1>1, <1>2, <1>8, NoMail
  <2>2. QED
    BY <1>1, <1>8, <2>1, QuietProcess
<1>9. QED
  BY <1>6, <1>7, <1>8 DEF handle_dialup_circuit_queue_message, pppd_dial

LEMMA QueueHangupStep ==
  ASSUME IInv, NEW c \in Circuit, handle_hangup_circuit_queue_message(c)
  PROVE  IInv'
<1> USE DEF IInv
<1>1. /\ ProcessFrame /\ queue' \in [Circuit -> Seq({"dial", "hangup", "quit"})] /\ UniqueDials'
      /\ \A d \in Circuit : HasDial(d)' => HasDial(d)
  BY Unqueued DEF handle_hangup_circuit_queue_message
<1>2. daemon' = daemon
  BY DEF handle_hangup_circuit_queue_message
<1>3. /\ Kind' = Kind /\ Protocols' = Protocols /\ Tame' = Tame
      /\ (\A d : HupLive(d)' <=> HupLive(d)) /\ \A f, d : ~ HasCall(f, d)'
  BY <1>1, ProcessFacts
<1>4. UNCHANGED <<state, protsUp, hup>>
  BY <1>1 DEF ProcessFrame
<1>5. CASE Kind[c] = "route" /\ route_hangup(c)
  <2>1. StartScripts(c, "down") /\ UNCHANGED inbox
    BY <1>5 DEF route_hangup
  <2>2. /\ inbox' \in Seq(MsgType) /\ daemon' \in [Pid -> DaemonType]
        /\ \A p \in Pid : daemon'[p].st # "free" => daemon'[p].id \in Circuit
        /\ UniqueMail' /\ Mail' /\ MailOrder' /\ Daemons'
        /\ \A d : Unreported(d)' = Unreported(d)
        /\ \A t, d : HasMsg(t, d)' <=> HasMsg(t, d)
    BY <1>1, <1>2, <2>1, NoMail
  <2>3. /\ scripts' \in [Circuit -> [{"up", "down"} \X Prot -> Nat]]
        /\ \A d \in Circuit : d # c => scripts'[d] = scripts[d]
        /\ \A j \in {"up", "down"}, q \in Prot :
             scripts'[c][<<j, q>>] = IF j = "down" /\ q \in Protocols[c] THEN scripts[c][<<j, q>>] + 1 ELSE scripts[c][<<j, q>>]
    BY <2>1, ScriptsStarted
  <2>4. \A q \in Prot : scripts'[c][<<"up", q>>] = scripts[c][<<"up", q>>]
    BY <2>3
  <2>5. \A d \in Circuit : HasScript(d)' <=> HasScript(d)
    BY <2>3, <2>4 DEF HasScript
  <2>6. UniqueScripts'
    <3>1. \A q \in Prot : q \notin Protocols[c] => scripts'[c][<<"down", q>>] = scripts[c][<<"down", q>>]
      BY <2>3
    <3>2. \A d \in Circuit, q \in Prot :
            /\ scripts[d][<<"up", q>>] # 0 => q \in Protocols[d] /\ (d \in Tame => scripts[d][<<"up", q>>] = 1)
            /\ scripts[d][<<"down", q>>] # 0 => Kind[d] = "route" /\ q \in Protocols[d]
      BY DEF Unique, UniqueScripts
    <3>3. SUFFICES ASSUME NEW d \in Circuit, NEW q \in Prot
                   PROVE  /\ scripts'[d][<<"up", q>>] # 0 => q \in Protocols[d] /\ (d \in Tame => scripts'[d][<<"up", q>>] = 1)
                          /\ scripts'[d][<<"down", q>>] # 0 => Kind[d] = "route" /\ q \in Protocols[d]
      BY <1>3 DEF UniqueScripts
    <3>4. CASE d = c
      BY <1>5, <2>4, <3>1, <3>2, <3>4
    <3>5. CASE d # c
      BY <2>3, <3>2, <3>5
    <3>6. QED
      BY <3>4, <3>5
  <2>7. Sources'
    BY <1>1, <1>3, <1>4, <2>2, <2>5 DEF Sources
  <2>8. Exclusive'
    BY <1>1, <1>3, <1>4, <2>2, <2>5 DEF Exclusive
  <2>9. QED
    BY <1>1, <2>2, <2>3, <2>6, <2>7, <2>8, ProcessStep
<1>6. CASE circuit_daemon_terminate(c)
  <2>1. PICK m \in MsgType : Send(m) /\ m.type = "stop_daemon" /\ m.id = c
    BY <1>6, MessagesAreTyped DEF circuit_daemon_terminate, Msg
  <2>2. scripts' = scripts
    BY <1>6 DEF circuit_daemon_terminate
  <2>3. /\ inbox' \in Seq(MsgType) /\ daemon' \in [Pid -> DaemonType]
        /\ \A p \in Pid : daemon'[p].st # "free" => daemon'[p].id \in Circuit
        /\ UniqueMail' /\ Mail' /\ MailOrder' /\ Daemons'
        /\ \A d : Unreported(d)' = Unreported(d)
        /\ \A t, d : HasMsg(t, d)' <=> HasMsg(t, d) \/ (m.type = t /\ m.id = d)
    BY <1>1, <1>2, <2>1, PlainMail DEF Plain
  <2>4. QED
    BY <1>1, <2>1, <2>2, <2>3, QuietProcess
<1>7. QED
  BY <1>5, <1>6 DEF handle_hangup_circuit_queue_message

\* A control script fails: the circuit is not a tame one.
LEMMA ScriptFailsStep ==
  ASSUME IInv, NEW c \in Circuit, DialFails(c) \/ HangupFails(c)
  PROVE  IInv'
<1> USE DEF IInv
<1>1. PICK t \in {"dial", "hangup"}, e \in {"dial_failed", "hangup_failed"} :
        /\ DialMayFail /\ Kind[c] = "route" /\ Unqueue(c, t) /\ Send(Msg(e, c, "")) /\ UNCHANGED <<scripts, daemon>>
  <2>1. CASE DialFails(c)
    BY <2>1 DEF DialFails
  <2>2. CASE HangupFails(c)
    BY <2>2 DEF HangupFails
  <2>3. QED
    BY <2>1, <2>2
<1>2. c \notin Tame
  BY <1>1 DEF Tame
<1>3. /\ ProcessFrame /\ queue' \in [Circuit -> Seq({"dial", "hangup", "quit"})] /\ UniqueDials'
      /\ \A d \in Circuit : HasDial(d)' => HasDial(d)
  BY <1>1, Unqueued
<1>4. PICK m \in MsgType : Send(m) /\ m.type = e /\ m.id = c
  BY <1>1, MessagesAreTyped DEF Msg
<1>5. /\ inbox' \in Seq(MsgType) /\ daemon' \in [Pid -> DaemonType]
      /\ \A p \in Pid : daemon'[p].st # "free" => daemon'[p].id \in Circuit
      /\ UniqueMail' /\ Mail' /\ MailOrder' /\ Daemons'
      /\ \A d : Unreported(d)' = Unreported(d)
      /\ \A u, d : HasMsg(u, d)' <=> HasMsg(u, d) \/ (m.type = u /\ m.id = d)
  BY <1>1, <1>2, <1>3, <1>4, PlainMail DEF Plain
<1>6. QED
  BY <1>1, <1>3, <1>4, <1>5, QuietProcess

LEMMA QueueQuitStep ==
  ASSUME IInv, NEW c \in Circuit, handle_quit_circuit_queue_message(c)
  PROVE  IInv'
<1> USE DEF IInv
<1>1. /\ ProcessFrame /\ queue' \in [Circuit -> Seq({"dial", "hangup", "quit"})] /\ UniqueDials'
      /\ \A d \in Circuit : HasDial(d)' => HasDial(d)
  BY Unqueued DEF handle_quit_circuit_queue_message
<1>2. UNCHANGED <<daemon, scripts>>
  BY DEF handle_quit_circuit_queue_message
<1>3. PICK m \in MsgType : Send(m) /\ m.type = "child_exited" /\ m.id = c
  BY MessagesAreTyped DEF handle_quit_circuit_queue_message, Msg
<1>4. /\ inbox' \in Seq(MsgType) /\ daemon' \in [Pid -> DaemonType]
      /\ \A p \in Pid : daemon'[p].st # "free" => daemon'[p].id \in Circuit
      /\ UniqueMail' /\ Mail' /\ MailOrder' /\ Daemons'
      /\ \A d : Unreported(d)' = Unreported(d)
      /\ \A t, d : HasMsg(t, d)' <=> HasMsg(t, d) \/ (m.type = t /\ m.id = d)
  BY <1>1, <1>2, <1>3, PlainMail DEF Plain
<1>5. QED
  BY <1>1, <1>2, <1>3, <1>4, QuietProcess

LEMMA RequestStep ==
  ASSUME IInv, NEW m \in Requests, Request(m)
  PROVE  IInv'
<1> USE DEF IInv
<1>1. m \in RequestMsg
  BY ConfigAssumption DEF Requests, Typed
<1>2. m \in MsgType /\ m.type \in Plain /\ m.type \notin {"start_daemon", "dial_failed", "hangup_failed"}
  BY <1>1, RequestsAreTyped DEF RequestMsg, Plain
<1>3. ProcessFrame /\ UNCHANGED <<daemon, scripts, queue>> /\ Send(m)
  BY DEF Request, Others, ProcessFrame, conf, modes, dmns, life, procs
<1>4. /\ inbox' \in Seq(MsgType) /\ daemon' \in [Pid -> DaemonType]
      /\ \A p \in Pid : daemon'[p].st # "free" => daemon'[p].id \in Circuit
      /\ UniqueMail' /\ Mail' /\ MailOrder' /\ Daemons'
      /\ \A d : Unreported(d)' = Unreported(d)
      /\ \A t, d : HasMsg(t, d)' <=> HasMsg(t, d) \/ (m.type = t /\ m.id = d)
  BY <1>2, <1>3, PlainMail
<1>5. queue' \in [Circuit -> Seq({"dial", "hangup", "quit"})]
  BY <1>3 DEF Typed
<1>9. UniqueDials'
  BY <1>3, ProcessFacts DEF Unique, UniqueDials
<1>6. \A d \in Circuit : HasDial(d)' => HasDial(d)
  BY <1>3 DEF HasDial
<1>7. \A t \in {"start_daemon", "up_l3prot"} : m.type # t
  BY <1>2 DEF Plain
<1>8. QED
  BY <1>3, <1>4, <1>5, <1>6, <1>7, <1>9, QuietProcess

LEMMA StutterStep ==
  ASSUME IInv, UNCHANGED <<config, state, op, hangupState, force, protsUp, refs, globalMode, localMode, term, hup, nextId,
                           stack, inbox, queue, scripts, daemon>>
  PROVE  IInv'
<1>1. Kind' = Kind /\ Protocols' = Protocols /\ Origin' = Origin /\ Tame' = Tame
  BY DEF Kind, Protocols, Origin, Tame, DialMayFail
<1>2. \A f, c : HasCall(f, c)' <=> HasCall(f, c)
  BY DEF HasCall
<1>3. /\ \A c : HupLive(c)' <=> HupLive(c)
      /\ \A t, c : HasMsg(t, c)' <=> HasMsg(t, c)
      /\ \A c : (HasDial(c)' <=> HasDial(c)) /\ (HasScript(c)' <=> HasScript(c))
      /\ \A c : Unreported(c)' = Unreported(c) /\ Exists(c)' = Exists(c)
  BY <1>2 DEF HupLive, HasMsg, HasDial, HasScript, Unreported, Exists
<1>4. \A c : Dropping(c)' = Dropping(c) /\ Own(c)' = Own(c)
  BY <1>2 DEF Dropping, Unref, Own
<1>5. \A m : (Report(m)' <=> Report(m)) /\ (Closing(m)' <=> Closing(m))
  BY <1>1 DEF Report, Closing
<1>6. \A c, a : (Quiet(c)' <=> Quiet(c)) /\ (ChangeOK(c, a)' <=> ChangeOK(c, a)) /\ (FinalizeOK(c, a)' <=> FinalizeOK(c, a))
  <2>1. \A c : Quiet(c)' <=> Quiet(c)
    BY <1>1, <1>2, <1>3 DEF Quiet
  <2>2. QED
    BY <1>1, <1>2, <1>3, <2>1 DEF ChangeOK, FinalizeOK
<1>7. TopOK => TopOK'
  BY <1>3, <1>6 DEF TopOK
<1>8. (Typed => Typed') /\ (Shape => Shape') /\ (Dialled => Dialled')
  BY DEF Typed, Shape, Dialled
<1>9. (Sources => Sources') /\ (Exclusive => Exclusive')
  BY <1>1, <1>2, <1>3 DEF Sources, Exclusive
<1>10. Unique => Unique'
  BY <1>1 DEF Unique, UniqueCalls, UniqueDials, UniqueScripts, UniqueMail
<1>11. (Mail => Mail') /\ (MailOrder => MailOrder')
  BY <1>1, <1>3, <1>5 DEF Mail, MailOrder
<1>12. (Registered => Registered') /\ (Daemons => Daemons')
  BY <1>1, <1>2, <1>3 DEF Registered, Daemons
<1>13. (Refs => Refs') /\ (Clones => Clones')
  BY <1>1, <1>2, <1>3, <1>4 DEF Refs, Clones
<1>14. QED
  BY <1>1, <1>7, <1>8, <1>9, <1>10, <1>11, <1>12, <1>13 DEF IInv

\* An ip-up script says that its protocol is up, the only one of a tame circuit; an ip-down
\* script says that its protocol is down.
LEMMA ScriptEnds ==
  ASSUME Typed, NEW c \in Circuit, NEW k \in {"up", "down"}, NEW q \in Prot, IpScript(c, k, q)
  PROVE  /\ scripts' \in [Circuit -> [{"up", "down"} \X Prot -> Nat]]
         /\ \A d \in Circuit : d # c => scripts'[d] = scripts[d]
         /\ scripts'[c][<<k, q>>] = scripts[c][<<k, q>>] - 1
         /\ \A j \in {"up", "down"}, r \in Prot : j # k \/ r # q => scripts'[c][<<j, r>>] = scripts[c][<<j, r>>]
<1>1. PICK s : s = scripts[c] /\ s \in [{"up", "down"} \X Prot -> Nat]
  BY DEF Typed
<1>2. scripts \in [Circuit -> [{"up", "down"} \X Prot -> Nat]]
  BY DEF Typed
<1>3. PICK x \in {"up", "down"} \X Prot : x = <<k, q>>
  OBVIOUS
<1>4. PICK t : t = [s EXCEPT ![x] = @ - 1]
  OBVIOUS
<1>5. s[x] \in Nat /\ s[x] > 0
  BY <1>1, <1>3 DEF IpScript
<1>6. s[x] - 1 \in Nat
  BY <1>5
<1>7. t \in [{"up", "down"} \X Prot -> Nat]
  BY <1>1, <1>4, <1>6
<1>8. scripts' = [scripts EXCEPT ![c] = t]
  BY <1>1, <1>3, <1>4 DEF IpScript
<1>9. ASSUME NEW j \in {"up", "down"}, NEW r \in Prot
      PROVE  t[<<j, r>>] = IF j = k /\ r = q THEN s[<<j, r>>] - 1 ELSE s[<<j, r>>]
  <2>1. PICK y \in {"up", "down"} \X Prot : y = <<j, r>>
    OBVIOUS
  <2>2. y = x <=> j = k /\ r = q
    BY <1>3, <2>1
  <2>3. t[y] = IF y = x THEN s[y] - 1 ELSE s[y]
    BY <1>1, <1>4
  <2>4. QED
    BY <2>1, <2>2, <2>3
<1>10. QED
  BY <1>1, <1>2, <1>7, <1>8, <1>9

LEMMA IpScriptStep ==
  ASSUME IInv, NEW c \in Circuit, NEW k \in {"up", "down"}, NEW q \in Prot, IpScript(c, k, q)
  PROVE  IInv'
<1> USE DEF IInv
<1>1. ProcessFrame /\ UNCHANGED <<queue, daemon>> /\ scripts[c][<<k, q>>] > 0
  BY DEF IpScript, Others, ProcessFrame, conf, modes, dmns, life
<1>2. /\ scripts' \in [Circuit -> [{"up", "down"} \X Prot -> Nat]]
      /\ \A d \in Circuit : d # c => scripts'[d] = scripts[d]
      /\ scripts'[c][<<k, q>>] = scripts[c][<<k, q>>] - 1
      /\ \A j \in {"up", "down"}, r \in Prot : j # k \/ r # q => scripts'[c][<<j, r>>] = scripts[c][<<j, r>>]
  BY ScriptEnds
<1>3. /\ Kind' = Kind /\ Protocols' = Protocols /\ Tame' = Tame
      /\ (\A d : HupLive(d)' <=> HupLive(d)) /\ (\A d : HupLive(d) <=> hup[d] # NoPid) /\ \A f, d : ~ HasCall(f, d)'
  BY <1>1, ProcessFacts
<1>4. UNCHANGED <<config, state, protsUp, term, hup, queue, daemon>>
  BY <1>1 DEF ProcessFrame
<1>5. queue' \in [Circuit -> Seq({"dial", "hangup", "quit"})]
  BY <1>4 DEF Typed
<1>6. UniqueDials' /\ \A d : HasDial(d)' <=> HasDial(d)
  BY <1>3, <1>4 DEF Unique, UniqueDials, HasDial
<1>7. \A d \in Circuit, r \in Prot :
        /\ scripts[d][<<"up", r>>] # 0 => r \in Protocols[d] /\ (d \in Tame => scripts[d][<<"up", r>>] = 1)
        /\ scripts[d][<<"down", r>>] # 0 => Kind[d] = "route" /\ r \in Protocols[d]
  BY DEF Unique, UniqueScripts
<1>8. scripts[c][<<k, q>>] # 0
  BY <1>1
<1>9. k = "up" => HasScript(c)
  BY <1>1 DEF HasScript
<1>10. Kind[c] = "route" /\ q \in Protocols[c]
  BY <1>7, <1>8, <1>9 DEF Sources
<1>11. k = "up" /\ c \in Tame => \A r \in Prot : scripts'[c][<<"up", r>>] = 0
  <2>1. SUFFICES ASSUME k = "up", c \in Tame, NEW r \in Prot PROVE scripts'[c][<<"up", r>>] = 0
    OBVIOUS
  <2>2. CASE r = q
    <3>1. scripts[c][<<"up", q>>] = 1
      BY <1>7, <1>8, <2>1
    <3>2. 1 - 1 = 0
      OBVIOUS
    <3>3. QED
      BY <1>2, <2>1, <2>2, <3>1, <3>2
  <2>3. CASE r # q
    <3>1. r \notin Protocols[c]
      BY <1>10, <2>1, <2>3 DEF Tame
    <3>2. QED
      BY <1>2, <1>7, <2>3, <3>1
  <2>4. QED
    BY <2>2, <2>3
<1>12. UniqueScripts'
  <2>1. SUFFICES ASSUME NEW d \in Circuit, NEW r \in Prot
                 PROVE  /\ scripts'[d][<<"up", r>>] # 0 => r \in Protocols[d] /\ (d \in Tame => scripts'[d][<<"up", r>>] = 1)
                        /\ scripts'[d][<<"down", r>>] # 0 => Kind[d] = "route" /\ r \in Protocols[d]
    BY <1>3 DEF UniqueScripts
  <2>2. CASE d # c
    BY <1>2, <1>7, <2>2
  <2>3. CASE d = c
    <3>1. k # "up" \/ r # q => scripts'[c][<<"up", r>>] = scripts[c][<<"up", r>>]
      BY <1>2
    <3>2. r # q => scripts'[c][<<"down", r>>] = scripts[c][<<"down", r>>]
      BY <1>2
    <3>3. QED
      BY <1>7, <1>10, <1>11, <2>3, <3>1, <3>2
  <2>4. QED
    BY <2>2, <2>3
<1>13. \A d \in Circuit : HasScript(d)' => HasScript(d)
  <2>1. \A d \in Circuit : d # c => (HasScript(d)' <=> HasScript(d))
    BY <1>2 DEF HasScript
  <2>2. k # "up" => \A r \in Prot : scripts'[c][<<"up", r>>] = scripts[c][<<"up", r>>]
    BY <1>2
  <2>3. k # "up" => (HasScript(c)' <=> HasScript(c))
    BY <2>2 DEF HasScript
  <2>4. QED
    BY <1>9, <2>1, <2>3
<1>14. k = "up" /\ c \in Tame => ~ HasScript(c)'
  <2>1. ~ (0 > 0)
    OBVIOUS
  <2>2. QED
    BY <1>11, <2>1 DEF HasScript
<1>15. CASE Exists(c)
  <2>1. PICK m : m = Msg(IF k = "up" THEN "up_l3prot" ELSE "down_l3prot", c, q)
    OBVIOUS
  <2>2. /\ m \in MsgType /\ m.id = c /\ m.arg = q /\ m.type = IF k = "up" THEN "up_l3prot" ELSE "down_l3prot"
    BY <2>1, MessagesAreTyped DEF Msg
  <2>3. Send(m)
    BY <1>15, <2>1 DEF IpScript
  <2>4. inbox \in Seq(MsgType)
    BY DEF Typed
  <2>5. /\ inbox' \in Seq(MsgType)
        /\ \A t, d : HasMsg(t, d)' <=> HasMsg(t, d) \/ (m.type = t /\ m.id = d)
        /\ \A d, p : EndSent(d, p)' <=> EndSent(d, p) \/ (m.type = "daemon_exited" /\ m.id = d /\ m.pid = p)
    BY <2>2, <2>3, <2>4, Arrives
  <2>6. k = "up" /\ c \in Tame =>
                    /\ ~ HasMsg("up_l3prot", c) /\ protsUp[c] = {} /\ state[c] \in UpStates
                    /\ ~ HasDial(c) /\ ~ HasMsg("start_daemon", c)
    BY <1>9, <1>10 DEF Exclusive, Sources
  <2>7. UniqueMail'
    BY <1>4, <2>2, <2>3, <2>6, ArrivesOnce
  <2>8. ArrivesInOrder(m)
    BY <1>10, <2>2 DEF ArrivesInOrder, Report
  <2>9. \A i \in 1..Len(inbox) :
          /\ inbox[i].type = "daemon_exited" => daemon'[inbox[i].pid].st # "run"
          /\ inbox[i].type = "down_link" /\ inbox[i].arg = "force"
               /\ daemon'[hup[inbox[i].id]].st = "run" => daemon'[hup[inbox[i].id]].link[Link] = "down"
    BY <1>4 DEF Mail
  <2>10. Mail' /\ MailOrder'
    BY <1>1, <2>2, <2>3, <2>8, <2>9, ArrivesMail
  <2>11. \A d : Unreported(d)' = Unreported(d)
    <3>1. \A d, p : EndSent(d, p)' <=> EndSent(d, p)
      BY <2>2, <2>5
    <3>2. \A d, p : p \in Unreported(d)' <=> p \in Unreported(d)
      BY <1>4, <3>1, UnreportedIs
    <3>3. QED
      BY <3>2
  <2>12. Daemons'
    BY <1>3, <1>4 DEF Daemons
  <2>13. daemon' \in [Pid -> DaemonType] /\ \A p \in Pid : daemon'[p].st # "free" => daemon'[p].id \in Circuit
    BY <1>4 DEF Typed
  <2>14. Sources'
    BY <1>3, <1>4, <1>6, <1>13, <2>2, <2>5, <2>6 DEF Sources
  <2>15. Exclusive'
    BY <1>3, <1>4, <1>6, <1>13, <1>14, <2>2, <2>5, <2>6 DEF Exclusive
  <2>16. QED
    BY <1>1, <1>2, <1>5, <1>6, <1>12, <2>5, <2>7, <2>10, <2>11, <2>12, <2>13, <2>14,
       <2>15, ProcessStep
<1>16. CASE ~ Exists(c)
  <2>1. inbox' = inbox
    BY <1>16 DEF IpScript
  <2>2. /\ inbox' \in Seq(MsgType) /\ daemon' \in [Pid -> DaemonType]
        /\ \A p \in Pid : daemon'[p].st # "free" => daemon'[p].id \in Circuit
        /\ UniqueMail' /\ Mail' /\ MailOrder' /\ Daemons'
        /\ \A d : Unreported(d)' = Unreported(d)
        /\ \A t, d : HasMsg(t, d)' <=> HasMsg(t, d)
    BY <1>1, <2>1, NoMail
  <2>3. Sources'
    BY <1>3, <1>4, <1>6, <1>13, <2>2 DEF Sources
  <2>4. Exclusive'
    BY <1>3, <1>4, <1>6, <1>13, <2>2 DEF Exclusive
  <2>5. QED
    BY <1>1, <1>2, <1>5, <1>6, <1>12, <2>2, <2>3, <2>4, ProcessStep
<1>17. QED
  BY <1>15, <1>16

\* A daemon that runs is the one registered, unless its link was taken down by force.
LEMMA RunningDaemon ==
  ASSUME IInv, NEW p \in Pid, DaemonStep(p)
  PROVE  /\ ProcessFrame /\ UNCHANGED <<queue, scripts>> /\ daemon[p].st = "run"
         /\ daemon[p].id \in Circuit /\ Kind[daemon[p].id] # "route"
         /\ \A c : ~ EndSent(c, p)
         /\ \A q \in Reports(daemon[p].id) :
              /\ q = Link <=> Kind[daemon[p].id] = "link"
              /\ q # Link => Kind[daemon[p].id] = "pppd" /\ q \in Protocols[daemon[p].id] /\ q \in Prot
              /\ daemon[p].link[q] # "down" =>
                   /\ hup[daemon[p].id] = p /\ HupLive(daemon[p].id) /\ state[daemon[p].id] \in UpStates
                   /\ \A i \in 1..Len(inbox) : Closing(inbox[i]) => inbox[i].id # daemon[p].id
<1> USE DEF IInv
<1>1. /\ ProcessFrame /\ UNCHANGED <<queue, scripts>> /\ daemon[p].st = "run"
  BY DEF DaemonStep, Others, ProcessFrame, conf, modes, dmns, life
<1>2. PICK c : c = daemon[p].id
  OBVIOUS
<1>3. /\ c \in Circuit /\ Kind[c] # "route"
      /\ \/ HupLive(c) /\ hup[c] = p
         \/ Kind[c] = "link" /\ daemon[p].link[Link] = "down"
  BY <1>1, <1>2 DEF Daemons
<1>4. Kind[c] \in {"route", "pppd", "link", "server"} /\ Protocols[c] \subseteq Prot /\ Link \notin Prot
  <2>1. config \in Configs
    BY DEF Typed
  <2>2. Link \notin Prot
    BY CircuitAssumption
  <2>3. /\ config.kind \in [Circuit -> {"route", "pppd", "link", "server"}]
        /\ config.protocols \in [Circuit -> SUBSET Prot]
    BY <2>1, ConfigAssumption
  <2>4. QED
    BY <1>3, <2>2, <2>3 DEF Kind, Protocols
<1>5. \A d : ~ EndSent(d, p)
  BY <1>1 DEF Mail, EndSent
<1>6. ASSUME NEW q \in Reports(c)
      PROVE  /\ q = Link <=> Kind[c] = "link"
             /\ q # Link => Kind[c] = "pppd" /\ q \in Protocols[c] /\ q \in Prot
  BY <1>3, <1>4 DEF Reports, circ_server
<1>7. ASSUME NEW q \in Reports(c), daemon[p].link[q] # "down"
      PROVE  /\ hup[c] = p /\ HupLive(c) /\ state[c] \in UpStates
             /\ \A i \in 1..Len(inbox) : Closing(inbox[i]) => inbox[i].id # c
  <2>1. hup[c] = p /\ HupLive(c)
    BY <1>3, <1>6, <1>7
  <2>2. state[c] \in UpStates
    <3>1. c \in Tame
      BY <1>3 DEF Tame
    <3>2. QED
      BY <1>3, <2>1, <3>1 DEF Sources
  <2>3. ASSUME NEW i \in 1..Len(inbox), Closing(inbox[i]), inbox[i].id = c PROVE FALSE
    <3>1. CASE inbox[i].type = "daemon_exited" /\ inbox[i].pid = hup[c]
      BY <1>1, <2>1, <3>1 DEF Mail
    <3>2. CASE inbox[i].type = "down_link" /\ inbox[i].arg = "force"
      <4>1. Kind[c] = "link" /\ daemon[p].link[Link] = "down"
        BY <1>1, <2>1, <2>3, <3>2 DEF Mail
      <4>2. QED
        BY <1>6, <1>7, <4>1
    <3>3. QED
      BY <2>3, <3>1, <3>2 DEF Closing
  <2>4. QED
    BY <2>1, <2>2, <2>3
<1>8. QED
  BY <1>1, <1>2, <1>3, <1>5, <1>6, <1>7

\* A daemon reports on a link or a protocol.
LinkIs(p, q, l) == daemon' = [daemon EXCEPT ![p].link[q] = l]

LEMMA LinkChanges ==
  ASSUME Typed, NEW p \in Pid, NEW q \in Prot \cup {Link}, NEW l \in {"idle", "up", "down"}, LinkIs(p, q, l)
  PROVE  /\ daemon' \in [Pid -> DaemonType]
         /\ \A r \in Pid : r # p => daemon'[r] = daemon[r]
         /\ daemon'[p].st = daemon[p].st /\ daemon'[p].id = daemon[p].id /\ daemon'[p].sig = daemon[p].sig
         /\ daemon'[p].link[q] = l
         /\ \A r \in Prot \cup {Link} : r # q => daemon'[p].link[r] = daemon[p].link[r]
<1>1. daemon \in [Pid -> DaemonType] /\ daemon[p] \in DaemonType
  BY DEF Typed
<1>2. PICK k : k = daemon[p].link
  OBVIOUS
<1>3. k \in [Prot \cup {Link} -> {"idle", "up", "down"}]
  BY <1>1, <1>2 DEF DaemonType
<1>4. PICK y : y = [k EXCEPT ![q] = l]
  OBVIOUS
<1>5. y \in [Prot \cup {Link} -> {"idle", "up", "down"}] /\ y[q] = l /\ \A r \in Prot \cup {Link} : r # q => y[r] = k[r]
  BY <1>3, <1>4
<1>6. PICK x : x = [daemon[p] EXCEPT !.link = y]
  OBVIOUS
<1>7. x \in DaemonType /\ x.st = daemon[p].st /\ x.id = daemon[p].id /\ x.sig = daemon[p].sig /\ x.link = y
  BY <1>1, <1>5, <1>6 DEF DaemonType
<1>8. daemon' = [daemon EXCEPT ![p] = x]
  BY <1>2, <1>4, <1>6 DEF LinkIs
<1>9. QED
  BY <1>1, <1>2, <1>5, <1>7, <1>8

LEMMA SameUnreported ==
  ASSUME \A c, p : p \in Unreported(c)' <=> p \in Unreported(c)
  PROVE  \A c : Unreported(c)' = Unreported(c)
OBVIOUS

LEMMA ReportStep ==
  ASSUME IInv, NEW p \in Pid, DaemonStep(p), NEW q \in Prot \cup {Link}, q \in Reports(daemon[p].id),
         daemon[p].link[q] # "down",
         NEW l \in {"idle", "up", "down"}, LinkIs(p, q, l),
         NEW m \in MsgType, Send(m), m.id = daemon[p].id,
         \/ q = Link /\ m.type \in {"up_link", "down_link"}
         \/ q # Link /\ m.type \in {"up_l3prot", "down_l3prot"} /\ m.arg = q,
         m.type = "down_link" /\ m.arg = "force" => l = "down"
  PROVE  IInv'
<1> USE DEF IInv
<1>1. /\ daemon' \in [Pid -> DaemonType]
      /\ \A r \in Pid : r # p => daemon'[r] = daemon[r]
      /\ daemon'[p].st = daemon[p].st /\ daemon'[p].id = daemon[p].id /\ daemon'[p].sig = daemon[p].sig
      /\ daemon'[p].link[q] = l
      /\ \A r \in Prot \cup {Link} : r # q => daemon'[p].link[r] = daemon[p].link[r]
  BY LinkChanges
<1>2. PICK c : c = daemon[p].id
  OBVIOUS
<1>3. /\ ProcessFrame /\ UNCHANGED <<queue, scripts>> /\ daemon[p].st = "run"
      /\ c \in Circuit /\ Kind[c] # "route"
      /\ q = Link <=> Kind[c] = "link"
      /\ q # Link => Kind[c] = "pppd" /\ q \in Protocols[c]
      /\ hup[c] = p /\ HupLive(c) /\ state[c] \in UpStates
      /\ \A i \in 1..Len(inbox) : Closing(inbox[i]) => inbox[i].id # c
  BY <1>2, RunningDaemon
<1>4. /\ Kind' = Kind /\ Protocols' = Protocols /\ Tame' = Tame
      /\ (\A d : HupLive(d)' <=> HupLive(d)) /\ (\A d : HupLive(d) <=> hup[d] # NoPid) /\ \A f, d : ~ HasCall(f, d)'
  BY <1>3, ProcessFacts
<1>5. UNCHANGED <<config, state, protsUp, term, hup, queue, scripts>>
  BY <1>3 DEF ProcessFrame
<1>6. m.type # "daemon_exited" /\ m.type # "start_daemon" /\ m.id = c
  BY <1>2
<1>7. inbox \in Seq(MsgType)
  BY DEF Typed
<1>8. /\ inbox' \in Seq(MsgType)
      /\ \A t, d : HasMsg(t, d)' <=> HasMsg(t, d) \/ (m.type = t /\ m.id = d)
      /\ \A d, r : EndSent(d, r)' <=> EndSent(d, r) \/ (m.type = "daemon_exited" /\ m.id = d /\ m.pid = r)
  BY <1>7, Arrives
<1>9. UniqueMail'
  BY <1>3, <1>5, <1>6, ArrivesOnce
<1>10. ArrivesInOrder(m)
  <2>1. p # NoPid
    BY CircuitAssumption
  <2>2. m.type = "down_link" /\ m.arg = "force" => daemon'[hup[c]].link[Link] = "down"
    BY <1>1, <1>3
  <2>3. QED
    BY <1>3, <1>6, <2>1, <2>2 DEF ArrivesInOrder
<1>11. ASSUME NEW i \in 1..Len(inbox)
       PROVE  /\ inbox[i].type = "daemon_exited" => daemon'[inbox[i].pid].st # "run"
              /\ inbox[i].type = "down_link" /\ inbox[i].arg = "force"
                   /\ daemon'[hup[inbox[i].id]].st = "run" => daemon'[hup[inbox[i].id]].link[Link] = "down"
  <2>1. /\ inbox[i].type = "daemon_exited" => daemon[inbox[i].pid].st # "run" /\ inbox[i].pid \in Pid
        /\ inbox[i].type = "down_link" => inbox[i].id \in Circuit /\ hup[inbox[i].id] # NoPid
        /\ inbox[i].type = "down_link" /\ inbox[i].arg = "force"
             /\ daemon[hup[inbox[i].id]].st = "run" => daemon[hup[inbox[i].id]].link[Link] = "down"
    BY <1>4, <1>7, MailFacts DEF Mail, Report
  <2>2. inbox[i].type = "down_link" => hup[inbox[i].id] \in Pid
    BY <2>1 DEF Typed
  <2>3. \A r \in Pid : daemon'[r].st = daemon[r].st
    BY <1>1
  <2>4. \A r \in Pid : daemon[r].link[Link] = "down" => daemon'[r].link[Link] = "down"
    <3>1. daemon[p].link[Link] = "down" => q # Link
      OBVIOUS
    <3>2. QED
      BY <1>1, <3>1
  <2>5. QED
    BY <2>1, <2>2, <2>3, <2>4
<1>12. Mail' /\ MailOrder'
  BY <1>3, <1>10, <1>11, ArrivesMail
<1>13. \A d : Unreported(d)' = Unreported(d)
  <2>1. \A d, r : EndSent(d, r)' <=> EndSent(d, r)
    BY <1>6, <1>8
  <2>2. \A r \in Pid : daemon'[r].st = daemon[r].st /\ daemon'[r].id = daemon[r].id
    BY <1>1
  <2>3. \A d, r : r \in Unreported(d)' <=> r \in Unreported(d)
    BY <2>1, <2>2, UnreportedIs
  <2>4. QED
    BY <2>3, SameUnreported
<1>14. Daemons'
  <2>1. SUFFICES ASSUME NEW r \in Pid, daemon'[r].st = "run", NEW d, d = daemon'[r].id
                 PROVE  /\ d \in Circuit /\ Kind[d] # "route"
                        /\ \/ HupLive(d)' /\ hup'[d] = r
                           \/ Kind[d] = "link" /\ daemon'[r].link[Link] = "down"
                        /\ hup'[d] = r /\ ~ daemon'[r].sig => term'[d] = r
    BY <1>4 DEF Daemons
  <2>2. daemon[r].st = "run" /\ d = daemon[r].id /\ daemon'[r].sig = daemon[r].sig
    BY <1>1, <2>1
  <2>3. /\ d \in Circuit /\ Kind[d] # "route"
        /\ \/ HupLive(d) /\ hup[d] = r
           \/ Kind[d] = "link" /\ daemon[r].link[Link] = "down"
        /\ hup[d] = r /\ ~ daemon[r].sig => term[d] = r
    BY <2>2 DEF Daemons
  <2>4. CASE r = p
    BY <1>2, <1>3, <1>4, <1>5, <2>2, <2>3, <2>4
  <2>5. CASE r # p
    BY <1>1, <1>4, <1>5, <2>2, <2>3, <2>5
  <2>6. QED
    BY <2>4, <2>5
<1>15. \A r \in Pid : daemon'[r].st # "free" => daemon'[r].id \in Circuit
  BY <1>1 DEF Typed
<1>16. (\A d : HasScript(d)' <=> HasScript(d)) /\ \A d : HasDial(d)' <=> HasDial(d)
  BY <1>5 DEF HasScript, HasDial
<1>17. UniqueDials' /\ UniqueScripts'
  BY <1>4, <1>5 DEF Unique, UniqueDials, UniqueScripts
<1>18. Sources'
  BY <1>3, <1>4, <1>5, <1>6, <1>8, <1>16 DEF Sources
<1>19. Exclusive'
  <2>1. ~ HasDial(c) /\ ~ HasMsg("start_daemon", c) /\ ~ HasScript(c)
    <3>1. c \in Tame
      BY <1>3 DEF Tame
    <3>2. QED
      BY <1>3, <3>1 DEF Exclusive, Sources
  <2>2. QED
    BY <1>3, <1>4, <1>5, <1>6, <1>8, <1>16, <2>1 DEF Exclusive
<1>20. queue' \in [Circuit -> Seq({"dial", "hangup", "quit"})]
  BY <1>5 DEF Typed
<1>21. scripts' \in [Circuit -> [{"up", "down"} \X Prot -> Nat]]
  BY <1>5 DEF Typed
<1>22. QED
  BY <1>1, <1>3, <1>8, <1>9, <1>12, <1>13, <1>14, <1>15, <1>17, <1>18, <1>19, <1>20,
     <1>21, ProcessStep

LEMMA DaemonUpStep ==
  ASSUME IInv, NEW p \in Pid, NEW q \in Prot \cup {Link}, DaemonUp(p, q)
  PROVE  IInv'
<1>1. /\ DaemonStep(p) /\ q \in Reports(daemon[p].id) /\ daemon[p].link[q] # "down" /\ LinkIs(p, q, "up")
      /\ Send(IF q = Link THEN Msg("up_link", daemon[p].id, "") ELSE Msg("up_l3prot", daemon[p].id, q))
  BY DEF DaemonUp, LinkIs
<1>2. PICK c \in Circuit : c = daemon[p].id
  BY <1>1, RunningDaemon
<1>3. PICK m \in MsgType : /\ Send(m) /\ m.id = c
                           /\ \/ q = Link /\ m.type = "up_link"
                              \/ q # Link /\ m.type = "up_l3prot" /\ m.arg = q
  <2>1. CASE q = Link
    BY <1>1, <1>2, <2>1, MessagesAreTyped DEF Msg
  <2>2. CASE q # Link
    BY <1>1, <1>2, <2>2, MessagesAreTyped DEF Msg
  <2>3. QED
    BY <2>1, <2>2
<1>4. QED
  BY <1>1, <1>2, <1>3, ReportStep

LEMMA DaemonDownStep ==
  ASSUME IInv, NEW p \in Pid, NEW q \in Prot \cup {Link}, NEW f \in {"", "force"}, DaemonDown(p, q, f)
  PROVE  IInv'
<1>1. /\ DaemonStep(p) /\ q \in Reports(daemon[p].id) /\ daemon[p].link[q] # "down"
      /\ LinkIs(p, q, IF daemon[p].sig \/ f = "force" THEN "down" ELSE "idle")
      /\ Send(IF q = Link THEN Msg("down_link", daemon[p].id, f) ELSE Msg("down_l3prot", daemon[p].id, q))
  BY DEF DaemonDown, LinkIs
<1>2. PICK c \in Circuit : c = daemon[p].id
  BY <1>1, RunningDaemon
<1>3. PICK m \in MsgType : /\ Send(m) /\ m.id = c
                           /\ \/ q = Link /\ m.type = "down_link" /\ m.arg = f
                              \/ q # Link /\ m.type = "down_l3prot" /\ m.arg = q
  <2>1. CASE q = Link
    BY <1>1, <1>2, <2>1, MessagesAreTyped DEF Msg
  <2>2. CASE q # Link
    BY <1>1, <1>2, <2>2, MessagesAreTyped DEF Msg
  <2>3. QED
    BY <2>1, <2>2
<1>4. PICK l \in {"idle", "down"} : LinkIs(p, q, l) /\ (f = "force" => l = "down")
  BY <1>1
<1>5. m.type = "down_link" /\ m.arg = "force" => l = "down"
  BY <1>3, <1>4
<1>6. \/ q = Link /\ m.type \in {"up_link", "down_link"}
      \/ q # Link /\ m.type \in {"up_l3prot", "down_l3prot"} /\ m.arg = q
  BY <1>3
<1>7. QED
  BY <1>1, <1>2, <1>3, <1>4, <1>5, <1>6, ReportStep

\* A daemon, or after it its wrapper, is at its end.
LEMMA EndStep ==
  ASSUME IInv, ProcessFrame, UNCHANGED <<queue, scripts>>, NEW p \in Pid, NEW x \in DaemonType,
         daemon' = [daemon EXCEPT ![p] = x], x.st \in {"free", "exiting"}, x.st = "exiting" => x.id \in Circuit,
         NEW m \in MsgType, Send(m), m.id = daemon[p].id,
         \/ daemon[p].st # "run" /\ m.type = "child_exited"
         \/ daemon[p].st = "run" /\ m.type = "daemon_exited" /\ m.pid = p
  PROVE  IInv'
<1> USE DEF IInv
<1>1. /\ daemon' \in [Pid -> DaemonType] /\ daemon'[p] = x
      /\ \A r \in Pid : r # p => daemon'[r] = daemon[r]
  BY DEF Typed
<1>2. m.type \notin {"start_daemon", "up_l3prot", "down_l3prot", "up_link", "down_link"}
  OBVIOUS
<1>3. /\ Kind' = Kind /\ Protocols' = Protocols
      /\ (\A d : HupLive(d)' <=> HupLive(d)) /\ (\A d : HupLive(d) <=> hup[d] # NoPid)
  BY ProcessFacts
<1>4. UNCHANGED <<config, term, hup>>
  BY DEF ProcessFrame
<1>5. inbox \in Seq(MsgType)
  BY DEF Typed
<1>6. /\ inbox' \in Seq(MsgType)
      /\ \A t, d : HasMsg(t, d)' <=> HasMsg(t, d) \/ (m.type = t /\ m.id = d)
      /\ \A d, r : EndSent(d, r)' <=> EndSent(d, r) \/ (m.type = "daemon_exited" /\ m.id = d /\ m.pid = r)
  BY <1>5, Arrives
<1>7. UniqueMail'
  BY <1>2, <1>4, ArrivesOnce
<1>8. daemon[p].st = "run" => Kind[daemon[p].id] # "route" /\ \A d : ~ EndSent(d, p)
  BY DEF Daemons, Mail, EndSent
<1>9. ArrivesInOrder(m)
  BY <1>1, <1>2, <1>8 DEF ArrivesInOrder, Report
<1>10. ASSUME NEW i \in 1..Len(inbox)
       PROVE  /\ inbox[i].type = "daemon_exited" => daemon'[inbox[i].pid].st # "run"
              /\ inbox[i].type = "down_link" /\ inbox[i].arg = "force"
                   /\ daemon'[hup[inbox[i].id]].st = "run" => daemon'[hup[inbox[i].id]].link[Link] = "down"
  <2>1. /\ inbox[i].type = "daemon_exited" => daemon[inbox[i].pid].st # "run" /\ inbox[i].pid \in Pid
        /\ inbox[i].type = "down_link" => inbox[i].id \in Circuit /\ hup[inbox[i].id] # NoPid
        /\ inbox[i].type = "down_link" /\ inbox[i].arg = "force"
             /\ daemon[hup[inbox[i].id]].st = "run" => daemon[hup[inbox[i].id]].link[Link] = "down"
    BY <1>3, <1>5, MailFacts DEF Mail, Report
  <2>2. inbox[i].type = "down_link" => hup[inbox[i].id] \in Pid
    BY <2>1 DEF Typed
  <2>3. \A r \in Pid : daemon'[r].st = "run" => daemon'[r] = daemon[r]
    BY <1>1
  <2>4. QED
    BY <2>1, <2>2, <2>3
<1>11. Mail' /\ MailOrder'
  BY <1>9, <1>10, ArrivesMail
<1>12. \A d : Unreported(d)' = Unreported(d)
  <2>1. ASSUME NEW d, NEW r PROVE r \in Unreported(d)' <=> r \in Unreported(d)
    <3>1. CASE r # p
      <4>1. EndSent(d, r)' <=> EndSent(d, r)
        BY <1>6, <3>1
      <4>2. QED
        BY <1>1, <3>1, <4>1, UnreportedIs
    <3>2. CASE r = p
      <4>1. daemon'[p].st # "run"
        BY <1>1
      <4>2. CASE daemon[p].st # "run"
        <5>1. EndSent(d, r)' <=> EndSent(d, r)
          BY <1>6, <4>2
        <5>2. QED
          BY <3>2, <4>1, <4>2, <5>1, UnreportedIs
      <4>3. CASE daemon[p].st = "run"
        <5>1. EndSent(d, p)' <=> daemon[p].id = d
          BY <1>6, <1>8, <4>3
        <5>2. QED
          BY <1>8, <3>2, <4>1, <4>3, <5>1, UnreportedIs
      <4>4. QED
        BY <4>2, <4>3
    <3>3. QED
      BY <3>1, <3>2
  <2>2. \A d, r : r \in Unreported(d)' <=> r \in Unreported(d)
    BY <2>1
  <2>3. QED
    BY <2>2, SameUnreported
<1>13. Daemons'
  <2>1. SUFFICES ASSUME NEW r \in Pid, daemon'[r].st = "run", NEW d, d = daemon'[r].id
                 PROVE  /\ d \in Circuit /\ Kind[d] # "route"
                        /\ \/ HupLive(d)' /\ hup'[d] = r
                           \/ Kind[d] = "link" /\ daemon'[r].link[Link] = "down"
                        /\ hup'[d] = r /\ ~ daemon'[r].sig => term'[d] = r
    BY <1>3 DEF Daemons
  <2>2. daemon'[r] = daemon[r]
    BY <1>1, <2>1
  <2>3. /\ d \in Circuit /\ Kind[d] # "route"
        /\ \/ HupLive(d) /\ hup[d] = r
           \/ Kind[d] = "link" /\ daemon[r].link[Link] = "down"
        /\ hup[d] = r /\ ~ daemon[r].sig => term[d] = r
    BY <2>1, <2>2 DEF Daemons
  <2>4. QED
    BY <1>3, <1>4, <2>2, <2>3
<1>14. \A r \in Pid : daemon'[r].st # "free" => daemon'[r].id \in Circuit
  BY <1>1 DEF Typed
<1>15. queue' \in [Circuit -> Seq({"dial", "hangup", "quit"})]
  BY DEF Typed
<1>16. UniqueDials'
  BY ProcessFacts DEF Unique, UniqueDials
<1>17. \A d \in Circuit : HasDial(d)' => HasDial(d)
  BY DEF HasDial
<1>18. \A t \in {"start_daemon", "up_l3prot"}, d \in Circuit : HasMsg(t, d)' => HasMsg(t, d)
  BY <1>2, <1>6
<1>19. QED
  BY <1>1, <1>6, <1>7, <1>11, <1>12, <1>13, <1>14, <1>15, <1>16, <1>17, <1>18,
     QuietProcess

LEMMA EndsAreTyped ==
  ASSUME NEW c \in Circuit, NEW p \in Pid
  PROVE  PidMsg("daemon_exited", c, p) \in MsgType
<1>1. c \in 0..NCircuits /\ p # NoPid
  BY CircuitAssumption DEF Circuit
<1>2. QED
  BY <1>1 DEF PidMsg, MsgType

LEMMA DaemonExitStep ==
  ASSUME IInv, NEW p \in Pid, DaemonExit(p) \/ DaemonCrash(p)
  PROVE  IInv'
<1>1. /\ DaemonStep(p) /\ daemon' = [daemon EXCEPT ![p].st = "exiting"]
      /\ Send(PidMsg("daemon_exited", daemon[p].id, p))
  BY DEF DaemonExit, DaemonCrash
<1>2. /\ ProcessFrame /\ UNCHANGED <<queue, scripts>> /\ daemon[p].st = "run"
      /\ daemon[p].id \in Circuit
  BY <1>1, RunningDaemon
<1>3. daemon[p] \in DaemonType
  BY DEF IInv, Typed
<1>4. PICK x : x = [daemon[p] EXCEPT !.st = "exiting"]
  OBVIOUS
<1>5. x \in DaemonType /\ x.st = "exiting" /\ x.id \in Circuit
  BY <1>2, <1>3, <1>4 DEF DaemonType
<1>6. daemon' = [daemon EXCEPT ![p] = x]
  BY <1>1, <1>4
<1>7. PICK m \in MsgType : Send(m) /\ m.id = daemon[p].id /\ m.type = "daemon_exited" /\ m.pid = p
  BY <1>1, <1>2, EndsAreTyped DEF PidMsg
<1>8. QED
  BY <1>2, <1>5, <1>6, <1>7, EndStep

LEMMA WrapperExitStep ==
  ASSUME IInv, NEW p \in Pid, WrapperExit(p)
  PROVE  IInv'
<1>1. /\ ProcessFrame /\ UNCHANGED <<queue, scripts>> /\ daemon[p].st = "exiting"
      /\ daemon' = [daemon EXCEPT ![p] = NoDaemon]
      /\ Send(Msg("child_exited", daemon[p].id, "d"))
  BY DEF WrapperExit, ProcessFrame, conf, modes, dmns, life
<1>2. daemon[p].id \in Circuit
  BY <1>1 DEF IInv, Typed
<1>3. NoDaemon \in DaemonType /\ NoDaemon.st = "free"
  <2>1. 0 \in 0..NCircuits
    BY CircuitAssumption
  <2>2. QED
    BY <2>1 DEF NoDaemon, DaemonType
<1>4. PICK m \in MsgType : Send(m) /\ m.id = daemon[p].id /\ m.type = "child_exited"
  BY <1>1, <1>2, MessagesAreTyped DEF Msg
<1>5. QED
  BY <1>1, <1>3, <1>4, EndStep

-----------------------------------------------------------------------------
(* The invariant is inductive                                              *)

LEMMA FunctionsStep ==
  ASSUME IInv, Functions
  PROVE  IInv'
BY SteadyFunctions, DialStep, ChangeStep, FinalizeStep, HungUpStep, UnrefStep, RemoveStep
   DEF Functions

LEMMA QueueProcessStep ==
  ASSUME IInv, NEW c \in Circuit, QueueProcess(c)
  PROVE  IInv'
<1>1. CASE QueueReady(c)
  <2>1. UNCHANGED <<config, state, op, hangupState, force, protsUp, refs, globalMode, localMode, term, hup, nextId,
                    stack, inbox, queue, scripts, daemon>>
    BY <1>1 DEF QueueReady, conf, modes, dmns, life
  <2>2. QED
    BY <2>1, StutterStep
<1>2. CASE handle_dialup_circuit_queue_message(c)
  BY <1>2, QueueDialStep
<1>3. CASE handle_hangup_circuit_queue_message(c)
  BY <1>3, QueueHangupStep
<1>4. CASE handle_quit_circuit_queue_message(c)
  BY <1>4, QueueQuitStep
<1>5. CASE DialFails(c) \/ HangupFails(c)
  BY <1>5, ScriptFailsStep
<1>6. QED
  BY <1>1, <1>2, <1>3, <1>4, <1>5 DEF QueueProcess

LEMMA NextStep ==
  ASSUME IInv, Removal, [Next]_vars
  PROVE  IInv'
<1>1. CASE Circd
  BY <1>1, FunctionsStep, HandlersStep DEF Circd
<1>2. ASSUME NEW c \in Circuit, QueueProcess(c) \/ \E k \in {"up", "down"}, q \in Prot : IpScript(c, k, q)
      PROVE  IInv'
  BY <1>2, QueueProcessStep, IpScriptStep
<1>3. ASSUME NEW p \in Pid,
             \/ \E q \in Prot \cup {Link} : DaemonUp(p, q) \/ \E f \in {"", "force"} : DaemonDown(p, q, f)
             \/ DaemonExit(p) \/ DaemonCrash(p) \/ WrapperExit(p)
      PROVE  IInv'
  BY <1>3, DaemonUpStep, DaemonDownStep, DaemonExitStep, WrapperExitStep
<1>4. ASSUME NEW m \in Requests, Request(m) PROVE IInv'
  BY <1>4, RequestStep
<1>5. CASE UNCHANGED vars
  <2>1. UNCHANGED <<config, state, op, hangupState, force, protsUp, refs, globalMode, localMode, term, hup, nextId,
                    stack, inbox, queue, scripts, daemon>>
    BY <1>5 DEF vars, conf, modes, dmns, life, procs
  <2>2. QED
    BY <2>1, StutterStep
<1>6. QED
  BY <1>1, <1>2, <1>3, <1>4, <1>5 DEF Next

\* Nothing is under way when circd starts.
LEMMA InitNothing ==
  ASSUME Init
  PROVE  /\ stack = << >> /\ Len(stack) = 0 /\ inbox = << >> /\ Len(inbox) = 0
         /\ \A c \in Circuit : queue[c] = << >> /\ Len(queue[c]) = 0
         /\ \A i : i \notin 1..0 /\ i \notin 2..0
         /\ \A c \in Circuit : /\ state[c] \in {"inactive", "none"} /\ hup[c] = NoPid /\ term[c] = NoPid
                               /\ ~ force[c] /\ protsUp[c] = {}
         /\ \A c \in Circuit : Exists(c) => refs[c] = 1 /\ state[c] = "inactive"
         /\ \A c \in Circuit : \A k \in {"up", "down"}, q \in Prot : scripts[c][<<k, q>>] = 0
         /\ \A p \in Pid : daemon[p].st = "free"
<1>1. stack = << >> /\ Len(stack) = 0 /\ inbox = << >> /\ Len(inbox) = 0
  BY DEF Init
<1>2. \A c \in Circuit : queue[c] = << >> /\ Len(queue[c]) = 0
  BY DEF Init
<1>3. \A i : i \notin 1..0 /\ i \notin 2..0
  OBVIOUS
<1>4. \A c \in Circuit : /\ state[c] \in {"inactive", "none"} /\ hup[c] = NoPid /\ term[c] = NoPid
                         /\ ~ force[c] /\ protsUp[c] = {}
  BY DEF Init
<1>5. \A c \in Circuit : Exists(c) => refs[c] = 1 /\ state[c] = "inactive"
  BY DEF Init, Exists
<1>6. \A c \in Circuit : \A k \in {"up", "down"}, q \in Prot : scripts[c][<<k, q>>] = 0
  BY DEF Init
<1>7. \A p \in Pid : daemon[p].st = "free"
  BY DEF Init, NoDaemon
<1>8. QED
  BY <1>1, <1>2, <1>3, <1>4, <1>5, <1>6, <1>7

LEMMA InitTyped ==
  ASSUME Init
  PROVE  Typed /\ \A c \in Circuit : c >= nextId => state[c] = "none"
<1>1. config \in Configs /\ Initial \in 0..NCircuits /\ NCircuits \in Nat
  BY ConfigAssumption, CircuitAssumption DEF Init, Initial
<1>2. nextId = Initial + 1 /\ nextId \in 1..(NCircuits + 1)
  <2>1. nextId = Initial + 1
    BY DEF Init
  <2>2. QED
    BY <1>1, <2>1
<1>3. state \in [Circuit -> States \cup {"none"}]
  BY DEF Init, States
<1>4. op \in [Circuit -> {"", "dial", "hangup"}] /\ hangupState \in [Circuit -> {"", "active", "inactive", "failed"}]
  BY DEF Init
<1>5. force \in [Circuit -> BOOLEAN] /\ protsUp \in [Circuit -> SUBSET Prot]
  BY DEF Init
<1>6. refs \in [Circuit -> Int]
  <2>1. refs = [c \in Circuit |-> IF c \in 1..Initial THEN 1 ELSE 0]
    BY DEF Init
  <2>2. QED
    BY <2>1
<1>7. globalMode \in Mode /\ localMode \in [Circuit -> Mode \cup {""}]
  BY DEF Init, Mode
<1>8. term \in [Circuit -> Pid \cup {NoPid}] /\ hup \in [Circuit -> Pid \cup {NoPid}]
  BY DEF Init
<1>9. stack \in Seq(CallType) /\ inbox \in Seq(MsgType)
  <2>1. \A S : << >> \in Seq(S)
    OBVIOUS
  <2>2. QED
    BY <2>1 DEF Init
<1>10. queue \in [Circuit -> Seq({"dial", "hangup", "quit"})]
  <2>1. \A S : << >> \in Seq(S)
    OBVIOUS
  <2>2. QED
    BY <2>1 DEF Init
<1>11. scripts \in [Circuit -> [{"up", "down"} \X Prot -> Nat]]
  BY DEF Init
<1>12. daemon \in [Pid -> DaemonType] /\ \A p \in Pid : daemon[p].st = "free"
  <2>1. NoDaemon \in DaemonType /\ NoDaemon.st = "free"
    <3>1. 0 \in 0..NCircuits
      BY <1>1
    <3>2. QED
      BY <3>1 DEF NoDaemon, DaemonType
  <2>2. QED
    BY <2>1 DEF Init
<1>13. \A c \in Circuit : c >= nextId => state[c] = "none"
  <2>1. TAKE c \in Circuit
  <2>2. c >= Initial + 1 => c \notin 1..Initial
    BY <1>1 DEF Circuit
  <2>3. QED
    BY <2>2, <1>2 DEF Init
<1>14. QED
  BY <1>1, <1>2, <1>3, <1>4, <1>5, <1>6, <1>7, <1>8, <1>9, <1>10, <1>11, <1>12, <1>13 DEF
     Typed

LEMMA ZeroIsNotPositive == ~ (0 > 0)
OBVIOUS

LEMMA InitInv ==
  ASSUME Init
  PROVE  IInv
<1> USE InitNothing
<1>1. Typed /\ \A c \in Circuit : c >= nextId => state[c] = "none"
  BY InitTyped
<1>2. Shape /\ UniqueCalls /\ Dialled
  BY DEF Shape, UniqueCalls, Dialled
<1>3. TopOK
  BY DEF TopOK
<1>4. Mail /\ MailOrder /\ UniqueMail
  BY DEF Mail, MailOrder, UniqueMail
<1>5. \A f, c : ~ HasCall(f, c) /\ ~ HasMsg(f, c)
  BY DEF HasCall, HasMsg
<1>6. \A c \in Circuit : ~ HasDial(c) /\ ~ HasScript(c) /\ ~ HupLive(c)
  <2>1. \A c \in Circuit, q \in Prot : scripts[c][<<"up", q>>] = 0
    BY Zenon
  <2>2. \A c \in Circuit : ~ HasScript(c)
    BY <2>1, ZeroIsNotPositive DEF HasScript
  <2>3. QED
    BY <2>2 DEF HasDial, HupLive
<1>7. Sources
  BY <1>5, <1>6 DEF Sources
<1>8. Exclusive
  BY <1>5, <1>6 DEF Exclusive
<1>9. UniqueDials /\ UniqueScripts
  BY DEF UniqueDials, UniqueScripts
<1>10. Registered
  BY DEF Registered
<1>11. Daemons
  BY DEF Daemons
<1>12. Refs
  <2>1. SUFFICES ASSUME NEW c \in Circuit
                 PROVE  /\ Exists(c) => refs[c] = Cardinality(Unreported(c)) + Dropping(c) + Own(c)
                        /\ Unreported(c) # {} \/ HasCall("unref", c) \/ HasCall("hung_up", c) => Exists(c)
    BY DEF Refs
  <2>2. Unreported(c) = {}
    BY DEF Unreported
  <2>3. Cardinality(Unreported(c)) = 0
    BY <2>2, FS_EmptySet
  <2>4. Dropping(c) = 0
    BY <1>10, IdleFacts
  <2>5. Exists(c) => Own(c) = 1
    BY DEF Own
  <2>6. QED
    BY <2>2, <2>3, <2>4, <2>5, <1>5
<1>13. Clones
  BY <1>1, <1>5 DEF Clones
<1>14. QED
  BY <1>1, <1>2, <1>3, <1>4, <1>7, <1>8, <1>9, <1>10, <1>11, <1>12, <1>13 DEF IInv, Unique

-----------------------------------------------------------------------------
(* How states change                                                       *)

\* What circd_change_state does to a state
Changes ==
  \E c \in Circuit, new \in States :
    /\ state' = [state EXCEPT ![c] = new] /\ ChangeOK(c, new)
    /\ stack[1].call = "change_state"

\* What circd_circuit_add does
Adds ==
  \E c \in Circuit : state[c] = "none" /\ state' = [state EXCEPT ![c] = "inactive"]

\* What circd_circuit_remove does
Removes ==
  \E c \in Circuit : state[c] = "deleted" /\ state' = [state EXCEPT ![c] = "none"]

LEMMA ChangeChanges ==
  ASSUME IInv, circd_change_state
  PROVE  state' = state \/ Changes
<1>1. stack # << >> /\ Frame.call = "change_state" /\ stack \in Seq(CallType)
  BY DEF circd_change_state, Running, IInv, Typed
<1>2. Frame = stack[1] /\ 1 \in 1..Len(stack)
  BY <1>1, FrameIsFirst
<1>3. stack[1].call = "change_state" /\ stack[1].id \in Circuit /\ stack[1].arg \in States
  BY <1>1, <1>2, CallFacts
<1>4. ChangeOK(stack[1].id, stack[1].arg)
  BY <1>1, <1>3 DEF IInv, TopOK
<1>5. state' = state \/ state' = [state EXCEPT ![stack[1].id] = stack[1].arg]
  BY <1>2 DEF circd_change_state
<1>6. QED
  BY <1>3, <1>4, <1>5 DEF Changes

LEMMA RemoveRemoves ==
  ASSUME IInv, circd_circuit_remove
  PROVE  Removes
<1>1. Frame.id \in Circuit /\ state[Frame.id] = "deleted"
  BY RemovedIsDeleted DEF circd_circuit_remove
<1>2. state' = [state EXCEPT ![Frame.id] = "none"]
  BY DEF circd_circuit_remove
<1>3. QED
  BY <1>1, <1>2 DEF Removes

LEMMA AddAdds ==
  ASSUME IInv, NEW up, circd_circuit_add(up), ~ (nextId > NCircuits)
  PROVE  Adds
<1>1. nextId \in 1..(NCircuits + 1) /\ NCircuits \in Nat
  BY CircuitAssumption DEF IInv, Typed
<1>2. nextId \in Circuit /\ nextId >= nextId
  BY <1>1 DEF Circuit
<1>3. state[nextId] = "none"
  BY <1>2 DEF IInv, Clones
<1>4. state' = [state EXCEPT ![nextId] = "inactive"]
  BY DEF circd_circuit_add
<1>5. QED
  BY <1>2, <1>3, <1>4 DEF Adds

LEMMA FunctionsChange ==
  ASSUME IInv, Functions
  PROVE  state' = state \/ Changes \/ Removes
<1>1. CASE circd_change_state
  BY <1>1, ChangeChanges
<1>2. CASE circd_circuit_remove
  BY <1>2, RemoveRemoves
<1>3. CASE circd_handle_state_change
  BY <1>3 DEF circd_handle_state_change, conf
<1>4. CASE circd_initiate_dialup \/ circd_initiate_hangup \/ circd_stop_queue
  BY <1>4 DEF circd_initiate_dialup, circd_initiate_hangup, circd_stop_queue, conf
<1>5. CASE ClearOperation \/ circd_finalize_hangup
  BY <1>5 DEF ClearOperation, circd_finalize_hangup
<1>6. CASE HungUp \/ circd_unref \/ circd_check_exit
  BY <1>6 DEF HungUp, circd_unref, circd_check_exit, conf
<1>7. CASE EffectiveDialmodeChange
  BY <1>7 DEF EffectiveDialmodeChange, conf
<1>8. QED
  BY <1>1, <1>2, <1>3, <1>4, <1>5, <1>6, <1>7 DEF Functions

LEMMA HandlersChange ==
  ASSUME IInv, Handlers
  PROVE  state' = state \/ Adds
<1>0. \A calls : Calls(calls) => state' = state
  BY DEF Calls, conf
<1>1. CASE handle_create_circuit_message \/ handle_clone_circuit_message
  <2>1. \/ Calls(<< >>)
        \/ ~ (nextId > NCircuits) /\ (circd_circuit_add(Arg = "up") \/ circd_circuit_add(TRUE))
    BY <1>1 DEF handle_create_circuit_message, handle_clone_circuit_message
  <2>2. QED
    BY <2>1, <1>0, AddAdds
<1>2. CASE handle_activate_circuit_message \/ handle_dialup_circuit_message
  <2>1. \E calls : Calls(calls)
    BY <1>2 DEF handle_activate_circuit_message, handle_dialup_circuit_message
  <2>2. QED
    BY <2>1, <1>0
<1>3. ASSUME NEW type, NEW target, handle_hangup_or_deactivate_circuit_message(type, target)
      PROVE  state' = state
  <2>1. state' = state \/ \E calls : Calls(calls)
    BY <1>3 DEF handle_hangup_or_deactivate_circuit_message
  <2>2. QED
    BY <2>1, <1>0
<1>4. CASE handle_start_daemon_circuit_message \/ handle_stop_daemon_circuit_message
  <2>1. state' = state \/ \E calls : Calls(calls)
    BY <1>4 DEF handle_start_daemon_circuit_message, handle_stop_daemon_circuit_message,
       conf
  <2>2. QED
    BY <2>1, <1>0
<1>5. CASE handle_up_l3prot_circuit_event \/ handle_down_l3prot_circuit_event
  <2>1. state' = state \/ \E calls : Calls(calls)
    BY <1>5 DEF handle_up_l3prot_circuit_event, handle_down_l3prot_circuit_event
  <2>2. QED
    BY <2>1, <1>0
<1>6. CASE handle_up_link_circuit_event \/ handle_down_link_circuit_event
           \/ handle_dialup_control_circuit_event \/ handle_hangup_control_circuit_event
  <2>1. \E calls : Calls(calls)
    BY <1>6 DEF handle_up_link_circuit_event, handle_down_link_circuit_event,
       handle_dialup_control_circuit_event, handle_hangup_control_circuit_event
  <2>2. QED
    BY <2>1, <1>0
<1>7. CASE handle_daemon_exited_circuit_event
  BY <1>7 DEF handle_daemon_exited_circuit_event, conf
<1>8. CASE handle_set_global_dialmode_message \/ handle_set_local_dialmode_message
  <2>1. state' = state \/ \E calls : Calls(calls)
    BY <1>8 DEF handle_set_global_dialmode_message, handle_set_local_dialmode_message,
       conf
  <2>2. QED
    BY <2>1, <1>0
<1>9. CASE handle_stop_service_message \/ handle_child_exited_circd_event
  BY <1>9 DEF handle_stop_service_message, handle_child_exited_circd_event, conf
<1>10. QED
  BY <1>1, <1>2, <1>3, <1>4, <1>5, <1>6, <1>7, <1>8, <1>9 DEF Handlers

LEMMA StateStep ==
  ASSUME IInv, [Next]_vars
  PROVE  state' = state \/ Changes \/ Adds \/ Removes
<1>1. CASE Circd
  BY <1>1, FunctionsChange, HandlersChange DEF Circd
<1>2. ASSUME NEW c \in Circuit, QueueProcess(c) PROVE state' = state
  BY <1>2 DEF QueueProcess, QueueReady, handle_dialup_circuit_queue_message,
     handle_hangup_circuit_queue_message, handle_quit_circuit_queue_message, DialFails,
     HangupFails, Unqueue, conf
<1>3. ASSUME NEW c \in Circuit, NEW k \in {"up", "down"}, NEW q \in Prot, IpScript(c, k, q) PROVE state' = state
  BY <1>3 DEF IpScript, conf
<1>4. ASSUME NEW p \in Pid, NEW q, NEW f, DaemonUp(p, q) \/ DaemonDown(p, q, f) PROVE state' = state
  BY <1>4 DEF DaemonUp, DaemonDown, DaemonStep, conf
<1>5. ASSUME NEW p \in Pid, DaemonExit(p) \/ DaemonCrash(p) \/ WrapperExit(p) PROVE state' = state
  BY <1>5 DEF DaemonExit, DaemonCrash, WrapperExit, DaemonStep, conf
<1>6. ASSUME NEW m \in Requests, Request(m) PROVE state' = state
  BY <1>6 DEF Request, conf
<1>7. CASE UNCHANGED vars
  BY <1>7 DEF vars, conf
<1>8. QED
  BY <1>1, <1>2, <1>3, <1>4, <1>5, <1>6, <1>7 DEF Next

-----------------------------------------------------------------------------
(* A circuit without a reference is removed at once                        *)

Referenced == \A c \in Circuit : Exists(c) => refs[c] # 0

LEMMA RefcountType ==
  ASSUME IInv, NEW c \in Circuit, Exists(c)
  PROVE  refs[c] \in Nat
<1>1. refs[c] = Cardinality(Unreported(c)) + Dropping(c) + Own(c)
  BY DEF IInv, Refs
<1>2. Cardinality(Unreported(c)) \in Nat /\ Dropping(c) \in Nat /\ Own(c) \in Nat
  BY UnreportedType, DroppingType DEF Own
<1>3. QED
  BY <1>1, <1>2

\* In a handler a counter is set for a new circuit, or counts a daemon that starts.
RefsKept ==
  \/ UNCHANGED <<state, refs>>
  \/ \E c \in Circuit : state' = [state EXCEPT ![c] = "inactive"] /\ refs' = [refs EXCEPT ![c] = 1]
  \/ \E c \in Circuit : state' = state /\ Exists(c) /\ refs' = [refs EXCEPT ![c] = @ + 1]

LEMMA HandlersKeepRefs ==
  ASSUME IInv, Handlers
  PROVE  RefsKept
<1>0. \A calls : Calls(calls) => UNCHANGED <<state, refs>>
  BY DEF Calls, conf
<1>1. CASE handle_create_circuit_message \/ handle_clone_circuit_message
  <2>1. \/ Calls(<< >>)
        \/ ~ (nextId > NCircuits) /\ (circd_circuit_add(Arg = "up") \/ circd_circuit_add(TRUE))
    BY <1>1 DEF handle_create_circuit_message, handle_clone_circuit_message
  <2>2. nextId \in 1..(NCircuits + 1) /\ NCircuits \in Nat
    BY CircuitAssumption DEF IInv, Typed
  <2>3. ~ (nextId > NCircuits) => nextId \in Circuit
    BY <2>2 DEF Circuit
  <2>4. QED
    BY <1>0, <2>1, <2>3 DEF circd_circuit_add, RefsKept
<1>2. CASE handle_start_daemon_circuit_message
  <2>1. Handle("start_daemon")
    BY <1>2 DEF handle_start_daemon_circuit_message
  <2>2. inbox[1] \in MsgType /\ inbox[1].type = "start_daemon" /\ Id = inbox[1].id
    BY <2>1, HandleFacts
  <2>3. Id \in Circuit
    BY <2>2 DEF MsgType
  <2>4. Calls(<< >>) \/ (state' = state /\ Exists(Id) /\ refs' = [refs EXCEPT ![Id] = @ + 1])
    BY <1>2 DEF handle_start_daemon_circuit_message
  <2>5. QED
    BY <1>0, <2>3, <2>4 DEF RefsKept
<1>3. CASE \/ handle_activate_circuit_message \/ handle_dialup_circuit_message
           \/ handle_up_link_circuit_event \/ handle_down_link_circuit_event
           \/ handle_dialup_control_circuit_event \/ handle_hangup_control_circuit_event
  <2>1. \E calls : Calls(calls)
    BY <1>3 DEF handle_activate_circuit_message, handle_dialup_circuit_message,
       handle_up_link_circuit_event, handle_down_link_circuit_event,
       handle_dialup_control_circuit_event, handle_hangup_control_circuit_event
  <2>2. QED
    BY <1>0, <2>1 DEF RefsKept
<1>4. ASSUME NEW type, NEW target, handle_hangup_or_deactivate_circuit_message(type, target)
      PROVE  RefsKept
  <2>1. UNCHANGED <<state, refs>> \/ \E calls : Calls(calls)
    BY <1>4 DEF handle_hangup_or_deactivate_circuit_message
  <2>2. QED
    BY <1>0, <2>1 DEF RefsKept
<1>5. CASE \/ handle_stop_daemon_circuit_message
           \/ handle_up_l3prot_circuit_event \/ handle_down_l3prot_circuit_event
  <2>1. UNCHANGED <<state, refs>> \/ \E calls : Calls(calls)
    BY <1>5 DEF handle_stop_daemon_circuit_message, handle_up_l3prot_circuit_event,
       handle_down_l3prot_circuit_event, conf
  <2>2. QED
    BY <1>0, <2>1 DEF RefsKept
<1>6. CASE \/ handle_daemon_exited_circuit_event
           \/ handle_stop_service_message \/ handle_child_exited_circd_event
  BY <1>6 DEF handle_daemon_exited_circuit_event, handle_stop_service_message,
     handle_child_exited_circd_event, conf, RefsKept
<1>7. CASE handle_set_global_dialmode_message \/ handle_set_local_dialmode_message
  <2>1. UNCHANGED <<state, refs>> \/ \E calls : Calls(calls)
    BY <1>7 DEF handle_set_global_dialmode_message, handle_set_local_dialmode_message,
       conf
  <2>2. QED
    BY <1>0, <2>1 DEF RefsKept
<1>8. QED
  BY <1>1, <1>2, <1>3, <1>4, <1>5, <1>6, <1>7 DEF Handlers

LEMMA StaysReferenced ==
  ASSUME IInv, Referenced, RefsKept \/ (refs' = refs /\ Changes)
  PROVE  Referenced'
<1>0. state \in [Circuit -> States \cup {"none"}] /\ refs \in [Circuit -> Int]
  BY DEF IInv, Typed
<1>1. CASE UNCHANGED <<state, refs>>
  BY <1>1 DEF Referenced, Exists
<1>2. CASE \E c \in Circuit : state' = [state EXCEPT ![c] = "inactive"] /\ refs' = [refs EXCEPT ![c] = 1]
  BY <1>0, <1>2 DEF Referenced, Exists
<1>3. ASSUME NEW c \in Circuit, state' = state, Exists(c), refs' = [refs EXCEPT ![c] = @ + 1] PROVE Referenced'
  <2>1. refs[c] \in Nat
    BY <1>3, RefcountType
  <2>2. refs[c] + 1 # 0
    BY <2>1
  <2>3. refs'[c] # 0 /\ \A d \in Circuit : d # c => refs'[d] = refs[d]
    BY <1>0, <1>3, <2>2
  <2>4. QED
    BY <1>3, <2>3 DEF Referenced, Exists
<1>4. CASE refs' = refs /\ Changes
  <2>1. PICK c \in Circuit, new \in States : state' = [state EXCEPT ![c] = new] /\ ChangeOK(c, new)
    BY <1>4 DEF Changes
  <2>2. state[c] # "none"
    BY <2>1 DEF ChangeOK, Alive, UpStates, Stopped
  <2>3. \A d \in Circuit : Exists(d)' => Exists(d)
    BY <1>0, <2>1, <2>2 DEF Exists
  <2>4. QED
    BY <1>4, <2>3 DEF Referenced
<1>5. QED
  BY <1>1, <1>2, <1>3, <1>4 DEF RefsKept

LEMMA RunningIs ==
  ASSUME stack # << >>, stack \in Seq(CallType), Frame.call \in {"unref", "remove"}
  PROVE  Frame = stack[1] /\ Frame.id \in Circuit
<1>1. Frame = stack[1] /\ 1 \in 1..Len(stack)
  BY FrameIsFirst
<1>2. stack[1] \in CallType
  BY <1>1
<1>3. QED
  BY <1>1, <1>2 DEF CallType

LEMMA FirstReturned ==
  ASSUME stack \in Seq(CallType), stack # << >>, NEW calls \in Seq(CallType), Len(calls) = 1, Return(calls)
  PROVE  stack' # << >> /\ stack'[1] = calls[1]
<1>1. /\ stack' \in Seq(CallType) /\ Len(stack') = Len(calls) + Len(stack) - 1
      /\ Len(stack) \in Nat /\ Len(stack) >= 1
      /\ \A i \in 1..Len(calls) : stack'[i] = calls[i]
  BY ReturnCalls
<1>2. Len(stack') >= 1 /\ 1 \in 1..Len(calls)
  BY <1>1
<1>3. stack' # << >>
  BY <1>2
<1>4. QED
  BY <1>1, <1>2, <1>3

LEMMA UnrefRemoval ==
  ASSUME IInv, Referenced, circd_unref
  PROVE  Removal'
<1>1. stack # << >> /\ Frame.call = "unref" /\ stack \in Seq(CallType)
  BY DEF circd_unref, Running, IInv, Typed
<1>2. Frame = stack[1] /\ Frame.id \in Circuit
  BY <1>1, RunningIs
<1>3. PICK c \in Circuit : c = Frame.id
  BY <1>2
<1>4. state' = state /\ refs \in [Circuit -> Int]
  BY DEF circd_unref, IInv, Typed
<1>5. CASE ~ Exists(c)
  BY <1>3, <1>4, <1>5 DEF circd_unref, Referenced, Removal, Exists
<1>6. CASE Exists(c) /\ refs[c] - 1 # 0
  <2>1. refs' = [refs EXCEPT ![c] = refs[c] - 1]
    BY <1>3, <1>6 DEF circd_unref
  <2>2. refs'[c] # 0 /\ \A d \in Circuit : d # c => refs'[d] = refs[d]
    BY <1>4, <1>6, <2>1
  <2>3. QED
    BY <1>4, <2>2 DEF Referenced, Removal, Exists
<1>7. CASE Exists(c) /\ refs[c] - 1 = 0
  <2>1. PICK x \in CallType : x = Call("remove", c, "") /\ x.call = "remove" /\ x.id = c
    BY CallsAreTyped DEF Call
  <2>2. PICK calls \in Seq(CallType) : calls = <<x>> /\ Len(calls) = 1 /\ calls[1] = x
    BY OneCall
  <2>3. Return(calls) /\ refs' = [refs EXCEPT ![c] = refs[c] - 1]
    BY <1>3, <1>7, <2>1, <2>2 DEF circd_unref
  <2>5. stack'[1] = x /\ stack' # << >>
    BY <1>1, <2>2, <2>3, FirstReturned
  <2>7. \A d \in Circuit : d # c => refs'[d] = refs[d]
    BY <1>4, <2>3
  <2>8. QED
    BY <1>4, <2>1, <2>5, <2>7 DEF Referenced, Removal, Exists
<1>8. QED
  BY <1>5, <1>6, <1>7

LEMMA RemoveRemoval ==
  ASSUME IInv, Removal, circd_circuit_remove
  PROVE  Removal'
<1>1. stack # << >> /\ Frame.call = "remove" /\ stack \in Seq(CallType)
  BY DEF circd_circuit_remove, Running, IInv, Typed
<1>2. Frame = stack[1] /\ Frame.id \in Circuit
  BY <1>1, RunningIs
<1>3. PICK c \in Circuit : c = Frame.id
  BY <1>2
<1>4. state' = [state EXCEPT ![c] = "none"] /\ refs' = refs /\ state \in [Circuit -> States \cup {"none"}]
  BY <1>3 DEF circd_circuit_remove, IInv, Typed
<1>5. ~ Exists(c)' /\ \A d \in Circuit : d # c => Exists(d)' = Exists(d)
  BY <1>4 DEF Exists
<1>6. \A d \in Circuit : d # c /\ Exists(d) => refs[d] # 0
  BY <1>2, <1>3 DEF Removal
<1>7. QED
  BY <1>4, <1>5, <1>6 DEF Removal

LEMMA FunctionsRemoval ==
  ASSUME IInv, Removal, Functions
  PROVE  Removal'
<1>1. CASE circd_circuit_remove
  BY <1>1, RemoveRemoval
<1>2. ASSUME NEW f, f # "remove", Running(f) PROVE Referenced
  <2>1. stack # << >> /\ Frame.call = f /\ stack \in Seq(CallType)
    BY <1>2 DEF Running, IInv, Typed
  <2>2. stack[1].call # "remove"
    BY <1>2, <2>1, FrameIsFirst
  <2>3. QED
    BY <2>2 DEF Removal, Referenced
<1>3. Referenced' => Removal'
  BY DEF Referenced, Removal
<1>4. CASE circd_unref
  <2>1. Running("unref")
    BY <1>4 DEF circd_unref
  <2>2. QED
    BY <1>2, <1>4, <2>1, UnrefRemoval
<1>5. CASE circd_change_state
  <2>1. Running("change_state") /\ refs' = refs
    BY <1>5 DEF circd_change_state
  <2>2. Referenced
    BY <1>2, <2>1
  <2>3. UNCHANGED <<state, refs>> \/ Changes
    BY <1>5, <2>1, ChangeChanges
  <2>4. QED
    BY <1>3, <2>1, <2>2, <2>3, StaysReferenced DEF RefsKept
<1>6. CASE \/ circd_handle_state_change \/ circd_initiate_dialup \/ circd_initiate_hangup
           \/ circd_stop_queue \/ ClearOperation
  <2>1. (\E f : f # "remove" /\ Running(f)) /\ UNCHANGED <<state, refs>>
    BY <1>6 DEF circd_handle_state_change, circd_initiate_dialup, circd_initiate_hangup,
       circd_stop_queue, ClearOperation, conf
  <2>2. QED
    BY <1>2, <1>3, <2>1, StaysReferenced DEF RefsKept
<1>7. CASE circd_finalize_hangup \/ HungUp \/ circd_check_exit \/ EffectiveDialmodeChange
  <2>1. (\E f : f # "remove" /\ Running(f)) /\ UNCHANGED <<state, refs>>
    BY <1>7 DEF circd_finalize_hangup, HungUp, circd_check_exit, EffectiveDialmodeChange,
       conf
  <2>2. QED
    BY <1>2, <1>3, <2>1, StaysReferenced DEF RefsKept
<1>8. QED
  BY <1>1, <1>4, <1>5, <1>6, <1>7 DEF Functions

LEMMA RemovalStep ==
  ASSUME IInv, Removal, [Next]_vars
  PROVE  Removal'
<1>0. UNCHANGED <<state, refs, stack>> => Removal'
  BY DEF Removal, Exists
<1>1. CASE Functions
  BY <1>1, FunctionsRemoval
<1>2. CASE Handlers
  <2>1. stack = << >>
    <3>1. \A t : Handle(t) => stack = << >>
      BY DEF Handle, Receives
    <3>2. \A t, g : handle_hangup_or_deactivate_circuit_message(t, g) => Handle(t)
      BY DEF handle_hangup_or_deactivate_circuit_message
    <3>3. CASE \/ handle_create_circuit_message \/ handle_clone_circuit_message
               \/ handle_activate_circuit_message \/ handle_dialup_circuit_message
               \/ handle_start_daemon_circuit_message \/ handle_stop_daemon_circuit_message
               \/ handle_up_l3prot_circuit_event \/ handle_down_l3prot_circuit_event
      BY <3>1, <3>3 DEF handle_create_circuit_message, handle_clone_circuit_message,
         handle_activate_circuit_message, handle_dialup_circuit_message,
         handle_start_daemon_circuit_message, handle_stop_daemon_circuit_message,
         handle_up_l3prot_circuit_event, handle_down_l3prot_circuit_event
    <3>4. CASE \/ handle_up_link_circuit_event \/ handle_down_link_circuit_event
               \/ handle_dialup_control_circuit_event \/ handle_hangup_control_circuit_event
               \/ handle_daemon_exited_circuit_event
               \/ handle_set_global_dialmode_message \/ handle_set_local_dialmode_message
      BY <3>1, <3>4 DEF handle_up_link_circuit_event, handle_down_link_circuit_event,
         handle_dialup_control_circuit_event, handle_hangup_control_circuit_event,
         handle_daemon_exited_circuit_event, handle_set_global_dialmode_message,
         handle_set_local_dialmode_message
    <3>5. CASE handle_stop_service_message \/ handle_child_exited_circd_event
      BY <3>1, <3>5 DEF handle_stop_service_message, handle_child_exited_circd_event,
         Receives
    <3>6. QED
      BY <1>2, <3>1, <3>2, <3>3, <3>4, <3>5 DEF Handlers
  <2>2. Referenced
    BY <2>1 DEF Removal, Referenced
  <2>3. Referenced'
    BY <1>2, <2>2, HandlersKeepRefs, StaysReferenced
  <2>4. QED
    BY <2>3 DEF Removal, Referenced
<1>3. ASSUME NEW c \in Circuit, QueueProcess(c) PROVE Removal'
  BY <1>0, <1>3 DEF QueueProcess, QueueReady, handle_dialup_circuit_queue_message,
     handle_hangup_circuit_queue_message, handle_quit_circuit_queue_message, DialFails,
     HangupFails, Unqueue, Others, conf
<1>4. ASSUME NEW c \in Circuit, NEW k \in {"up", "down"}, NEW q \in Prot, IpScript(c, k, q) PROVE Removal'
  BY <1>0, <1>4 DEF IpScript, Others, conf
<1>5. ASSUME NEW p \in Pid, NEW q, NEW f, DaemonUp(p, q) \/ DaemonDown(p, q, f) PROVE Removal'
  BY <1>0, <1>5 DEF DaemonUp, DaemonDown, DaemonStep, Others, conf
<1>6. ASSUME NEW p \in Pid, DaemonExit(p) \/ DaemonCrash(p) \/ WrapperExit(p) PROVE Removal'
  BY <1>0, <1>6 DEF DaemonExit, DaemonCrash, WrapperExit, DaemonStep, Others, conf
<1>7. ASSUME NEW m \in Requests, Request(m) PROVE Removal'
  BY <1>0, <1>7 DEF Request, Others, conf
<1>8. CASE UNCHANGED vars
  BY <1>0, <1>8 DEF vars, conf
<1>9. QED
  BY <1>1, <1>2, <1>3, <1>4, <1>5, <1>6, <1>7, <1>8 DEF Next, Circd

\* The strengthening that the properties follow from: where the message, the script or the
\* daemon is that brings a circuit up, and which calls still drop a reference.
THEOREM Inductive == Spec => [](IInv /\ Removal)
<1>1. Init => IInv /\ Removal
  <2>1. ASSUME Init PROVE Removal
    <3>1. \A c \in Circuit : Exists(c) => refs[c] = 1
      BY <2>1, InitNothing
    <3>2. 1 # 0
      OBVIOUS
    <3>3. QED
      BY <3>1, <3>2 DEF Removal
  <2>2. QED
    BY <2>1, InitInv
<1>2. IInv /\ Removal /\ [Next]_vars => (IInv /\ Removal)'
  BY NextStep, RemovalStep
<1>3. QED
  BY <1>1, <1>2, PTL DEF Spec

-----------------------------------------------------------------------------
(* What the invariant says between two handlers                            *)

\* The reference count of a circuit counts the circuit itself and the daemons whose
\* end circd has not handled, and only a deleted circuit is removed (circd_ref,
\* circd_unref, circd_circuit_remove).
THEOREM RefcountsAreRight == Spec => []RefcountIsRight
<1>1. ASSUME IInv, Between, NEW c \in Circuit, Exists(c)
      PROVE  refs[c] = (IF state[c] = "deleted" THEN 0 ELSE 1) + Cardinality(Unreported(c))
  <2>1. Dropping(c) = 0 /\ ~ HasCall("hung_up", c)
    BY <1>1, IdleFacts DEF IInv, Between
  <2>2. Own(c) = IF state[c] = "deleted" THEN 0 ELSE 1
    BY <2>1 DEF Own
  <2>3. refs[c] = Cardinality(Unreported(c)) + Dropping(c) + Own(c)
    BY <1>1 DEF IInv, Refs
  <2>4. IsFiniteSet(Unreported(c))
    BY CircuitAssumption, FS_Subset DEF Unreported
  <2>5. Cardinality(Unreported(c)) \in Nat
    BY <2>4, FS_CardinalityType
  <2>6. QED
    BY <2>1, <2>2, <2>3, <2>5
<1>2. IInv => RefcountIsRight
  BY <1>1, RemovedIsDeleted DEF RefcountIsRight
<1>3. QED
  BY <1>2, Inductive, PTL

\* A daemon runs only for a circuit that is up, a circuit has at most one, and circd
\* knows how to end it (circd_daemon_register, circd_finalize_hangup's delay).
THEOREM RunningDaemonsAreKnown == Spec => []DaemonsAreKnown
<1>1. ASSUME IInv, Between, NEW p \in Pid, daemon[p].st = "run", Kind[daemon[p].id] # "link"
      PROVE  /\ daemon[p].id \in Circuit /\ hup[daemon[p].id] = p /\ state[daemon[p].id] \in UpStates
             /\ daemon[p].sig \/ term[daemon[p].id] = p
  <2>1. /\ daemon[p].id \in Circuit /\ HupLive(daemon[p].id) /\ hup[daemon[p].id] = p
        /\ daemon[p].sig \/ term[daemon[p].id] = p
    BY <1>1 DEF IInv, Daemons
  <2>2. daemon[p].id \in Tame
    BY <1>1 DEF IInv, Daemons, Tame
  <2>3. QED
    BY <2>1, <2>2, <1>1 DEF IInv, Sources
<1>2. ASSUME IInv, Between, NEW p \in Pid, daemon[p].st = "run", Kind[daemon[p].id] # "link",
             NEW r \in Pid \ {p}, daemon[r].st = "run", daemon[r].id = daemon[p].id
      PROVE  FALSE
  <2>1. hup[daemon[p].id] = p
    BY <1>1, <1>2
  <2>2. Kind[daemon[r].id] # "link" /\ r \in Pid
    BY <1>2
  <2>3. hup[daemon[r].id] = r
    BY <1>1, <1>2, <2>2
  <2>4. QED
    BY <2>1, <2>3, <1>2
<1>3. IInv => DaemonsAreKnown
  BY <1>1, <1>2 DEF DaemonsAreKnown
<1>4. QED
  BY <1>3, Inductive, PTL

\* A stopped circuit that is tame comes back only if it is activated: neither the end of a
\* hangup (circd_finalize_hangup) nor an event that comes late takes it up.
TameStaysDown ==
  [][\A c \in Tame : state[c] \in {"inactive", "failed"} =>
       /\ state'[c] \notin UpStates
       /\ state'[c] = "active" => \A i \in 1..Len(stack) : stack[i].call # "hung_up"]_vars

LEMMA OnlyPlace == \A i \in 1..1 : i = 1
OBVIOUS

\* Whatever the other circuits do: a tame circuit that was stopped stays down
\* (circd_change_state, circd_finalize_hangup).
THEOREM TameCircuitsStayDown == Spec => TameStaysDown
<1>1. ASSUME IInv, [Next]_vars, NEW c \in Tame, state[c] \in {"inactive", "failed"}
      PROVE  /\ state'[c] \notin UpStates
             /\ state'[c] = "active" => \A i \in 1..Len(stack) : stack[i].call # "hung_up"
  <2>1. state \in [Circuit -> States \cup {"none"}] /\ c \in Circuit
    BY <1>1 DEF IInv, Typed, Tame
  <2>2. CASE state' = state
    BY <1>1, <2>2 DEF UpStates
  <2>3. CASE Adds \/ Removes
    BY <1>1, <2>1, <2>3 DEF Adds, Removes, UpStates
  <2>4. CASE Changes
    <3>1. PICK d \in Circuit, new \in States :
            state' = [state EXCEPT ![d] = new] /\ ChangeOK(d, new) /\ stack[1].call = "change_state"
      BY <2>4 DEF Changes
    <3>2. CASE d # c
      BY <3>1, <3>2, <2>1, <1>1 DEF UpStates
    <3>3. CASE d = c
      <4>1. state'[c] = new
        BY <3>1, <3>3, <2>1
      <4>2. new \notin UpStates
        BY <3>1, <3>3, <1>1 DEF ChangeOK, UpStates
      <4>3. new = "active" => Len(stack) = 1
        BY <3>1, <3>3, <1>1 DEF ChangeOK, UpStates
      <4>4. new = "active" => \A i \in 1..Len(stack) : stack[i].call # "hung_up"
        BY <4>3, <3>1, OnlyPlace
      <4>5. QED
        BY <4>1, <4>2, <4>4
    <3>4. QED
      BY <3>2, <3>3
  <2>5. QED
    BY <1>1, <2>2, <2>3, <2>4, StateStep
<1>2. IInv /\ [Next]_vars =>
        [\A c \in Tame : state[c] \in {"inactive", "failed"} =>
           /\ state'[c] \notin UpStates
           /\ state'[c] = "active" => \A i \in 1..Len(stack) : stack[i].call # "hung_up"]_vars
  BY <1>1
<1>3. QED
  BY <1>2, Inductive, PTL DEF Spec, TameStaysDown

\* The circuits are the same at all times, and so are those that are tame.
LEMMA HandlersKeepConfig ==
  ASSUME Handlers
  PROVE  config' = config
<1>0. \A calls : Calls(calls) => config' = config
  BY DEF Calls
<1>1. CASE handle_create_circuit_message \/ handle_clone_circuit_message
  BY <1>0, <1>1 DEF handle_create_circuit_message, handle_clone_circuit_message,
     circd_circuit_add
<1>2. CASE handle_start_daemon_circuit_message \/ handle_stop_daemon_circuit_message
  BY <1>0, <1>2 DEF handle_start_daemon_circuit_message,
     handle_stop_daemon_circuit_message
<1>3. CASE \/ handle_activate_circuit_message \/ handle_dialup_circuit_message
           \/ handle_up_link_circuit_event \/ handle_down_link_circuit_event
           \/ handle_dialup_control_circuit_event \/ handle_hangup_control_circuit_event
  <2>1. \E calls : Calls(calls)
    BY <1>3 DEF handle_activate_circuit_message, handle_dialup_circuit_message,
       handle_up_link_circuit_event, handle_down_link_circuit_event,
       handle_dialup_control_circuit_event, handle_hangup_control_circuit_event
  <2>2. QED
    BY <1>0, <2>1
<1>4. ASSUME NEW type, NEW target, handle_hangup_or_deactivate_circuit_message(type, target)
      PROVE  config' = config
  <2>1. config' = config \/ \E calls : Calls(calls)
    BY <1>4 DEF handle_hangup_or_deactivate_circuit_message
  <2>2. QED
    BY <1>0, <2>1
<1>5. CASE handle_up_l3prot_circuit_event \/ handle_down_l3prot_circuit_event
  <2>1. config' = config \/ \E calls : Calls(calls)
    BY <1>5 DEF handle_up_l3prot_circuit_event, handle_down_l3prot_circuit_event
  <2>2. QED
    BY <1>0, <2>1
<1>6. CASE \/ handle_daemon_exited_circuit_event
           \/ handle_stop_service_message \/ handle_child_exited_circd_event
  BY <1>6 DEF handle_daemon_exited_circuit_event, handle_stop_service_message,
     handle_child_exited_circd_event
<1>7. CASE handle_set_global_dialmode_message \/ handle_set_local_dialmode_message
  <2>1. config' = config \/ \E calls : Calls(calls)
    BY <1>7 DEF handle_set_global_dialmode_message, handle_set_local_dialmode_message
  <2>2. QED
    BY <1>0, <2>1
<1>8. QED
  BY <1>1, <1>2, <1>3, <1>4, <1>5, <1>6, <1>7 DEF Handlers

LEMMA ConfigStays ==
  ASSUME [Next]_vars
  PROVE  config' = config
<1>1. CASE Functions
  <2>1. CASE circd_change_state \/ circd_handle_state_change \/ circd_initiate_dialup \/ circd_initiate_hangup
    BY <2>1 DEF circd_change_state, circd_handle_state_change, circd_initiate_dialup,
       circd_initiate_hangup
  <2>2. CASE circd_stop_queue \/ ClearOperation \/ circd_finalize_hangup \/ HungUp
    BY <2>2 DEF circd_stop_queue, ClearOperation, circd_finalize_hangup, HungUp
  <2>3. CASE circd_unref \/ circd_circuit_remove \/ circd_check_exit \/ EffectiveDialmodeChange
    BY <2>3 DEF circd_unref, circd_circuit_remove, circd_check_exit,
       EffectiveDialmodeChange
  <2>4. QED
    BY <1>1, <2>1, <2>2, <2>3 DEF Functions
<1>2. CASE Handlers
  BY <1>2, HandlersKeepConfig
<1>3. ASSUME NEW c \in Circuit, QueueProcess(c) PROVE config' = config
  BY <1>3 DEF QueueProcess, QueueReady, handle_dialup_circuit_queue_message,
     handle_hangup_circuit_queue_message, handle_quit_circuit_queue_message, DialFails,
     HangupFails, Unqueue
<1>4. ASSUME NEW c \in Circuit, NEW k \in {"up", "down"}, NEW q \in Prot, IpScript(c, k, q) PROVE config' = config
  BY <1>4 DEF IpScript
<1>5. ASSUME NEW p \in Pid, NEW q, NEW f, DaemonUp(p, q) \/ DaemonDown(p, q, f) PROVE config' = config
  BY <1>5 DEF DaemonUp, DaemonDown, DaemonStep
<1>6. ASSUME NEW p \in Pid, DaemonExit(p) \/ DaemonCrash(p) \/ WrapperExit(p) PROVE config' = config
  BY <1>6 DEF DaemonExit, DaemonCrash, WrapperExit, DaemonStep
<1>7. ASSUME NEW m \in Requests, Request(m) PROVE config' = config
  BY <1>7 DEF Request
<1>8. CASE UNCHANGED vars
  BY <1>8 DEF vars
<1>9. QED
  BY <1>1, <1>2, <1>3, <1>4, <1>5, <1>6, <1>7, <1>8 DEF Next, Circd

LEMMA AllTame == (Circuit \subseteq Tame) /\ Spec => [](Circuit \subseteq Tame)
<1>1. (Circuit \subseteq Tame) /\ [Next]_vars => (Circuit \subseteq Tame)'
  <2>1. ASSUME [Next]_vars PROVE Tame' = Tame
    BY <2>1, ConfigStays DEF Tame, Kind, Protocols, DialMayFail
  <2>2. QED
    BY <2>1
<1>2. QED
  BY <1>1, PTL DEF Spec

\* The property of every circuit, if all are tame: a stopped circuit comes back only if it
\* is activated (circd_finalize_hangup).
THEOREM StoppedCircuitsStayDown == (Circuit \subseteq Tame) /\ Spec => StoppedStaysDown
<1>1. (Circuit \subseteq Tame) /\ [\A c \in Tame : state[c] \in {"inactive", "failed"} =>
          /\ state'[c] \notin UpStates
          /\ state'[c] = "active" => \A i \in 1..Len(stack) : stack[i].call # "hung_up"]_vars
      => [\A c \in Circuit : state[c] \in {"inactive", "failed"} =>
          /\ state'[c] \notin UpStates
          /\ state'[c] = "active" => \A i \in 1..Len(stack) : stack[i].call # "hung_up"]_vars
  OBVIOUS
<1>2. QED
  BY <1>1, AllTame, TameCircuitsStayDown, PTL DEF TameStaysDown, StoppedStaysDown

\* Every change of a circuit's state is one of those that the manual tabulates
\* (CircuitStates): circd_change_state, circd_circuit_add and circd_circuit_remove
\* take no other step.
THEOREM CircdImplementsCircuitStates == (Circuit \subseteq Tame) /\ Spec => ImplementsCircuitStates
<1>1. Init => Lifecycle!Init
  BY DEF Init, Lifecycle!Init
<1>2. ASSUME IInv, Circuit \subseteq Tame, [Next]_vars
      PROVE  [Lifecycle!Next]_state
  <2>1. CASE state' = state
    BY <2>1
  <2>2. CASE Adds
    BY <2>2 DEF Adds, Lifecycle!Next, Lifecycle!Create, Lifecycle!Move
  <2>3. CASE Removes
    BY <2>3 DEF Removes, Lifecycle!Next, Lifecycle!Remove, Lifecycle!Move
  <2>4. CASE Changes
    <3>1. PICK c \in Circuit, new \in States : state' = [state EXCEPT ![c] = new] /\ ChangeOK(c, new)
      BY <2>4 DEF Changes
    <3>0. c \in Tame
      BY <1>2
    <3>2. CASE new = "ready"
      <4>1. Lifecycle!Dial(c)
        BY <3>0, <3>1, <3>2 DEF ChangeOK, Lifecycle!Dial, Lifecycle!Move
      <4>2. QED
        BY <4>1 DEF Lifecycle!Next
    <3>3. CASE new \in {"online", "semionline"}
      <4>1. Lifecycle!Connect(c)
        BY <3>0, <3>1, <3>3 DEF ChangeOK, UpStates, Lifecycle!Connect, Lifecycle!Move,
           Lifecycle!Up
      <4>2. QED
        BY <4>1 DEF Lifecycle!Next
    <3>4. CASE new = "active"
      <4>1. Lifecycle!Hangup(c) \/ Lifecycle!Activate(c)
        BY <3>0, <3>1, <3>4 DEF ChangeOK, UpStates, Stopped, Lifecycle!Hangup,
           Lifecycle!Activate, Lifecycle!Move, Lifecycle!Up, Lifecycle!Stopped
      <4>2. QED
        BY <4>1 DEF Lifecycle!Next
    <3>5. CASE new \in Stopped
      <4>1. Lifecycle!Hangup(c) \/ Lifecycle!Deactivate(c)
        BY <3>0, <3>1, <3>5 DEF ChangeOK, Alive, UpStates, Stopped, Lifecycle!Hangup,
           Lifecycle!Deactivate, Lifecycle!Move, Lifecycle!Up, Lifecycle!Stopped
      <4>2. QED
        BY <4>1 DEF Lifecycle!Next
    <3>6. CASE new = "deleted"
      <4>1. Lifecycle!Delete(c)
        BY <3>0, <3>1, <3>6 DEF ChangeOK, Alive, UpStates, Stopped, Lifecycle!Delete,
           Lifecycle!Move, Lifecycle!Up, Lifecycle!Stopped
      <4>2. QED
        BY <4>1 DEF Lifecycle!Next
    <3>7. QED
      BY <3>2, <3>3, <3>4, <3>5, <3>6 DEF States, Stopped
  <2>5. QED
    BY <1>2, <2>1, <2>2, <2>3, <2>4, StateStep
<1>3. QED
  BY <1>1, <1>2, Inductive, AllTame, PTL DEF Spec, ImplementsCircuitStates, Lifecycle!Spec
=============================================================================
