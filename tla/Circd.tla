------------------------------- MODULE Circd -------------------------------
(***************************************************************************)
(* The circuit daemon                                                      *)
(*     src/packages/base/opt/usr/share/circuits/circd                      *)
(* with the processes around it: the queue process of each circuit, which  *)
(* runs the control scripts one after the other, the scripts and daemons   *)
(* that bring a circuit up and down, and the clients.  All of them only    *)
(* send messages to circd (a reliable channel, see Channel and MomQueue),  *)
(* which handles them one at a time.                                       *)
(*                                                                         *)
(* A handler is a tree of function calls: circd_change_state dials and     *)
(* hangs up the circuits that depend on the changed one, which changes     *)
(* their states, and so on.  The variable stack holds the calls that are   *)
(* still to be made, as the shell's call stack does; one function of the   *)
(* program is one action, and the next message is taken when the stack is  *)
(* empty.  The other processes neither read nor write what a handler       *)
(* changes, so their steps are taken between two handlers.                 *)
(***************************************************************************)
EXTENDS Integers, Sequences, FiniteSets

CONSTANTS
  NCircuits,   \* bound: circuits are numbered circ1, circ2, ... as created
  Prot,        \* the protocols of layer 3
  Pid,         \* process identifiers of daemons
  Configs      \* the configurations to be checked; one of them is chosen at the start

VARIABLE config \* what is configured and what may happen; it never changes

Kind        == config.kind        \* Kind[c]: how c is controlled: "route" by scripts, the others by
                                  \* a daemon: "pppd", "link" (a pppd that serves a bundle), "server"
Protocols   == config.protocols   \* Protocols[c]: circ_protocols
Deps        == config.deps        \* Deps[c]: circ_deps, a set of records [on, prot]: one of the
                                  \* circuits in on (one, or the members of a class) must be online
Origin      == config.origin      \* Origin[c]: circ_origin, the circuit c is a clone of, or 0
Initial     == config.initial     \* number of circuits that exist when circd starts
Requests    == config.requests    \* what clients may ask for: a set of messages to circd
MaxRequests == config.maxRequests \* bound: number of requests
MaxInbox    == config.maxInbox    \* bound: messages in circd's queue when others still send
PromptQueue == "promptQueue" \in config.allow       \* queue processes are ready before they are needed
DialMayFail == "dialMayFail" \in config.allow       \* control scripts may end with an error
ScriptsInOrder == "scriptsInOrder" \in config.allow \* no ip-down script overtakes an ip-up script
DaemonMayCrash == "daemonMayCrash" \in config.allow \* a daemon may die without running its ip-down scripts

Circuit  == 1..NCircuits
AllProts == "all"
Link     == "link"
NoPid    == 0
Mode     == {"off", "manual", "auto"}
States   == {"online", "semionline", "ready", "active", "deleted", "failed", "inactive"}

ASSUME CircuitAssumption ==
  /\ NCircuits \in Nat /\ {AllProts, Link} \cap Prot = {}
  /\ NoPid \notin Pid /\ IsFiniteSet(Pid)

Call(f, c, a)   == [call |-> f, id |-> c, arg |-> a]
Msg(t, c, a)    == [type |-> t, id |-> c, arg |-> a, pid |-> NoPid]
PidMsg(t, c, p) == [type |-> t, id |-> c, arg |-> "", pid |-> p]

\* What clients send: fli4lctrl, the boot scripts, the scripts of a server daemon
RequestMsg ==
  LET Msgs(types, ids, args) == [type : types, id : ids, arg : args, pid : {NoPid}] IN
  Msgs({"activate", "dialup", "hangup", "deactivate", "fail", "clone"}, Circuit, {""})
  \cup Msgs({"create"}, {0}, {"", "up"}) \cup Msgs({"stop_service"}, {0}, {""})
  \cup Msgs({"set_global"}, {0}, Mode) \cup Msgs({"set_local"}, Circuit, Mode)

ASSUME ConfigAssumption  == \A k \in Configs :
  /\ k.kind \in [Circuit -> {"route", "pppd", "link", "server"}]
  /\ k.protocols \in [Circuit -> SUBSET Prot]
  /\ k.origin \in [Circuit -> 0..NCircuits] /\ \A c \in Circuit : k.origin[c] < c
  /\ \A c \in Circuit : \A d \in k.deps[c] : d.on \subseteq Circuit /\ d.prot \in Prot \cup {AllProts}
  /\ k.initial \in 0..NCircuits /\ k.maxRequests \in Nat /\ k.maxInbox \in Nat
  /\ k.requests \subseteq RequestMsg
  /\ k.allow \subseteq {"promptQueue", "dialMayFail", "scriptsInOrder", "daemonMayCrash"}

VARIABLES
  state,       \* state[c]: the directory that holds c's link, "none" without one
  op,          \* circ_current_operation
  hangupState, \* circ_hangup_state
  force,       \* circ_force_hangup
  protsUp,     \* circ_protocols_up
  refs,        \* circ_refcount
  globalMode,  \* dialmode.global
  localMode,   \* dialmodes.local, "" without an entry
  term, hup,   \* the TERM and HANGUP entries of the daemons file
  shutting,    \* circd_shutting_down
  quit,        \* mom_quit: circd has left its message loop
  children,    \* circd_children: for each circuit, number of :q and :d processes
  nextId,      \* the next circuit identifier
  stack,       \* calls still to be made by the current handler
  inbox,       \* messages queued for circd
  queue,       \* queue[c]: messages queued for c's queue process
  qproc,       \* state of c's queue process
  translated,  \* circ_dev_translated is set: c's interface was found once
  scripts,     \* scripts[c]: running ip-up/ip-down scripts of a route circuit
  daemon,      \* daemon[p]: the daemon with PID p and its wrapper
  sent         \* number of requests sent

conf  == <<state, op, hangupState, force, protsUp, refs>>
modes == <<globalMode, localMode>>
dmns  == <<term, hup>>
life  == <<shutting, quit, children, nextId>>
procs == <<queue, qproc, translated, scripts, daemon>>
vars  == <<config, conf, modes, dmns, life, stack, inbox, procs, sent>>

UpStates == {"ready", "semionline", "online"}

Exists(c) == state[c] # "none"

NoDaemon == [id |-> 0, st |-> "free", link |-> [q \in Prot \cup {Link} |-> "idle"], sig |-> FALSE]

TypeOK ==
  /\ config \in Configs
  /\ state \in [Circuit -> States \cup {"none"}]
  /\ op \in [Circuit -> {"", "dial", "hangup"}]
  /\ hangupState \in [Circuit -> {"", "active", "inactive", "failed"}]
  /\ force \in [Circuit -> BOOLEAN]
  /\ protsUp \in [Circuit -> SUBSET Prot]
  /\ refs \in [Circuit -> Nat]
  /\ globalMode \in Mode /\ localMode \in [Circuit -> Mode \cup {""}]
  /\ term \in [Circuit -> Pid \cup {NoPid}] /\ hup \in [Circuit -> Pid \cup {NoPid}]
  /\ shutting \in BOOLEAN /\ quit \in BOOLEAN
  /\ children \in [Circuit \X {"q", "d"} -> Nat]
  /\ nextId \in 1..(NCircuits + 1)
  /\ queue \in [Circuit -> Seq({"dial", "hangup", "quit"})]
  /\ qproc \in [Circuit -> {"none", "starting", "up", "gone"}]
  /\ translated \in [Circuit -> BOOLEAN]
  /\ \A p \in Pid : daemon[p].id \in Circuit \cup {0} /\ daemon[p].st \in {"free", "run", "exiting"}
  /\ sent \in 0..MaxRequests

\* The circuits that circd finds when it starts are inactive; those to be activated
\* are activated by requests.  The boot scripts have set the dial mode "auto".
Init ==
  config \in Configs /\ LET old == 1..Initial IN
  /\ state = [c \in Circuit |-> IF c \in old THEN "inactive" ELSE "none"]
  /\ op = [c \in Circuit |-> ""] /\ hangupState = [c \in Circuit |-> ""]
  /\ force = [c \in Circuit |-> FALSE] /\ protsUp = [c \in Circuit |-> {}]
  /\ refs = [c \in Circuit |-> IF c \in old THEN 1 ELSE 0]
  /\ globalMode = "auto"
  /\ localMode = [c \in Circuit |-> IF c \in old THEN "auto" ELSE ""]
  /\ term = [c \in Circuit |-> NoPid] /\ hup = [c \in Circuit |-> NoPid]
  /\ shutting = FALSE /\ quit = FALSE
  /\ children = [k \in Circuit \X {"q", "d"} |-> IF k[1] \in old /\ k[2] = "q" THEN 1 ELSE 0]
  /\ nextId = Initial + 1
  /\ stack = << >> /\ inbox = << >>
  /\ queue = [c \in Circuit |-> << >>]
  /\ qproc = [c \in Circuit |-> IF c \notin old THEN "none" ELSE IF PromptQueue THEN "up" ELSE "starting"]
  /\ translated = [c \in Circuit |-> FALSE]
  /\ scripts = [c \in Circuit |-> [k \in {"up", "down"} \X Prot |-> 0]]
  /\ daemon = [p \in Pid |-> NoDaemon]
  /\ sent = 0

-----------------------------------------------------------------------------
(* Dial modes and dependencies                                             *)

circd_get_effective_dialmode(global, local) ==
  CASE "off" \in {global, local} -> "off"
    [] "off" \notin {global, local} /\ "manual" \in {global, local} -> "manual"
    [] OTHER -> IF "auto" \in {global, local} THEN "auto" ELSE "off"

EffectiveMode(c) == circd_get_effective_dialmode(globalMode, localMode[c])

circd_is_at_least_ready(c, hangup_check) ==
  state[c] \in UpStates /\ (hangup_check => op[c] # "hangup")

circd_is_online(c, prot) ==
  /\ IF prot = AllProts THEN state[c] = "online" ELSE prot \in protsUp[c]
  /\ op[c] # "hangup"

\* circ_server=yes for the types *-server, which stay in the state "ready"
circ_server(c) == Kind[c] = "server"

circd_check_dependencies(c) ==
  \A d \in Deps[c] : \E e \in d.on :
    \/ circ_server(c) /\ circ_server(e) /\ circd_is_at_least_ready(e, FALSE)
    \/ circd_is_online(e, d.prot)

circd_check_weak_dependencies(c, hangup_check) ==
  Origin[c] # 0 => circd_is_at_least_ready(Origin[c], hangup_check)

\* The circuits of a set, in the order of creation
InOrder(S) == [i \in 1..Cardinality(S) |-> CHOOSE c \in S : Cardinality({d \in S : d <= c}) = i]

\* circd_revdeps of c and of its classes
circd_revdeps(c) ==
  InOrder({d \in Circuit : Exists(d) /\ (Origin[d] = c \/ \E x \in Deps[d] : c \in x.on)})

\* The state "active" of circd_get_composite_state is of no interest: circd may
\* exit only if every circuit is failed or inactive.
CompositeStateAllowsExit == \A c \in Circuit : state[c] \in {"failed", "inactive", "none"}

-----------------------------------------------------------------------------
(* The functions called by the handlers                                    *)

Frame      == Head(stack)
Running(f) == stack # << >> /\ Frame.call = f
Return(calls) == stack' = calls \o Tail(stack)

\* mom_unicast_message to a queue process, which fails when there is none
SendToQueue(c, m) ==
  queue' = IF qproc[c] = "up" THEN [queue EXCEPT ![c] = Append(@, m)] ELSE queue

\* Mutant: the queue process is stopped only if the state changes
circd_change_state_StopIfChanged ==
  /\ Running("change_state")
  /\ LET c       == Frame.id
         new     == Frame.arg
         revdeps == circd_revdeps(c)
     IN IF state[c] \in {"deleted", new}
        THEN Return(<< >>) /\ UNCHANGED state
        ELSE /\ state' = [state EXCEPT ![c] = new]
             /\ Return(<<Call("state_changed", c, new)>> \o
                       [i \in 1..Len(revdeps) |-> Call("derive", revdeps[i], "")] \o
                       (IF shutting /\ new \in {"inactive", "failed"}
                        THEN <<Call("stop_queue", c, "")>> ELSE << >>))
  /\ UNCHANGED <<op, hangupState, force, protsUp, refs, modes, dmns, life, inbox, procs, sent, config>>

circd_change_state ==
  /\ Running("change_state")
  /\ LET c   == Frame.id
         new == Frame.arg
         old == state[c]
         derived == IF old = new THEN << >>
                    ELSE <<Call("state_changed", c, new)>> \o
                         [i \in 1..Len(circd_revdeps(c)) |-> Call("derive", circd_revdeps(c)[i], "")]
         stop == IF shutting /\ new \in {"inactive", "failed"}
                 THEN <<Call("stop_queue", c, "")>> ELSE << >>
     IN IF old = "deleted"
        THEN Return(<< >>) /\ UNCHANGED state
        ELSE Return(derived \o stop) /\ state' = [state EXCEPT ![c] = new]
  /\ UNCHANGED <<op, hangupState, force, protsUp, refs, modes, dmns, life, inbox, procs, sent, config>>

DialCalls(c) == <<Call("change_state", c, "ready"), Call("dial", c, "")>>

\* circd_circuit_autodialup
Autodialup(c) ==
  IF circd_check_dependencies(c) /\ circd_check_weak_dependencies(c, TRUE)
  THEN DialCalls(c) ELSE << >>

\* circd_circuit_hangup
HangupCalls(c, target) ==
  IF op[c] = "hangup" THEN << >> ELSE <<Call("hangup", c, target)>>

\* circd_circuit_autohangup
Autohangup(c) ==
  IF circd_check_dependencies(c) /\ circd_check_weak_dependencies(c, FALSE)
  THEN << >> ELSE HangupCalls(c, "active")

\* Mutant: a circuit that is being dialled is left alone
circd_handle_state_change_NotReady ==
  /\ Running("state_changed") \/ Running("derive")
  /\ LET c == Frame.id
         s == IF Frame.call = "state_changed" THEN Frame.arg ELSE state[c]
     IN Return(IF s = "active" /\ EffectiveMode(c) = "auto" THEN Autodialup(c)
               ELSE IF s \in {"semionline", "online"} THEN Autohangup(c) ELSE << >>)
  /\ UNCHANGED <<conf, modes, dmns, life, inbox, procs, sent, config>>

\* circd_handle_state_change, for one circuit: s is the state that the circuit
\* has just been given or the one it is found in.
circd_handle_state_change ==
  /\ Running("state_changed") \/ Running("derive")
  /\ LET c == Frame.id
         s == IF Frame.call = "state_changed" THEN Frame.arg ELSE state[c]
     IN Return(IF s = "active" /\ EffectiveMode(c) = "auto" THEN Autodialup(c)
               ELSE IF s \in UpStates THEN Autohangup(c) ELSE << >>)
  /\ UNCHANGED <<conf, modes, dmns, life, inbox, procs, sent, config>>

\* circd_initiate_dialup after the change of state; circd_wait_for_queue waits
\* for the queue process.
circd_initiate_dialup ==
  /\ Running("dial") /\ qproc[Frame.id] # "starting"
  /\ op' = [op EXCEPT ![Frame.id] = "dial"]
  /\ SendToQueue(Frame.id, "dial")
  /\ Return(<< >>)
  /\ UNCHANGED <<state, hangupState, force, protsUp, refs, modes, dmns, life, inbox, qproc, translated, scripts, daemon, sent, config>>

circd_initiate_hangup ==
  /\ Running("hangup") /\ qproc[Frame.id] # "starting"
  /\ op' = [op EXCEPT ![Frame.id] = "hangup"]
  /\ hangupState' = [hangupState EXCEPT ![Frame.id] = Frame.arg]
  /\ SendToQueue(Frame.id, "hangup")
  /\ Return(<< >>)
  /\ UNCHANGED <<state, force, protsUp, refs, modes, dmns, life, inbox, qproc, translated, scripts, daemon, sent, config>>

circd_stop_queue ==
  /\ Running("stop_queue")
  /\ SendToQueue(Frame.id, "quit")
  /\ Return(<< >>)
  /\ UNCHANGED <<conf, modes, dmns, life, inbox, qproc, translated, scripts, daemon, sent, config>>

\* circ_current_operation is cleared if it is what the caller expects
ClearOperation ==
  /\ Running("clear_op")
  /\ op' = IF Frame.arg \in {"any", op[Frame.id]} THEN [op EXCEPT ![Frame.id] = ""] ELSE op
  /\ Return(<< >>)
  /\ UNCHANGED <<state, hangupState, force, protsUp, refs, modes, dmns, life, inbox, procs, sent, config>>

\* Mutant: a stopped circuit is taken to its target state, too
circd_finalize_hangup_Revive ==
  /\ Running("finalize_hangup")
  /\ LET c == Frame.id
         f == Frame.arg = "force" \/ force[c]
         target == IF hangupState[c] = "" THEN "active" ELSE hangupState[c]
         change == IF Origin[c] # 0 THEN <<Call("change_state", c, "deleted")>>
                   ELSE IF state[c] = "active" /\ target = "active" THEN << >> ELSE <<Call("change_state", c, target)>>
     IN /\ force' = [force EXCEPT ![c] = f]
        /\ Return(IF protsUp[c] # {} \/ (hup[c] # NoPid /\ ~ f) THEN << >>
                  ELSE (IF state[c] = "deleted" THEN << >>
                        ELSE change \o <<Call("clear_op", c, "hangup")>>)
                       \o <<Call("hung_up", c, "")>>)
  /\ UNCHANGED <<state, op, hangupState, protsUp, refs, modes, dmns, life, inbox, procs, sent, config>>

\* Mutant: the hangup is not delayed until the daemon has ended
circd_finalize_hangup_NoDelay ==
  /\ Running("finalize_hangup")
  /\ LET c == Frame.id
         f == Frame.arg = "force" \/ force[c]
         target == IF hangupState[c] = "" THEN "active" ELSE hangupState[c]
         change == IF Origin[c] # 0 THEN <<Call("change_state", c, "deleted")>>
                   ELSE <<Call("change_state", c, target)>>
     IN /\ force' = [force EXCEPT ![c] = f]
        /\ Return(IF protsUp[c] # {} THEN << >>
                  ELSE (IF state[c] = "deleted" THEN << >>
                        ELSE change \o <<Call("clear_op", c, "hangup")>>)
                       \o <<Call("hung_up", c, "")>>)
  /\ UNCHANGED <<state, op, hangupState, protsUp, refs, modes, dmns, life, inbox, procs, sent, config>>

circd_finalize_hangup ==
  /\ Running("finalize_hangup")
  /\ LET c == Frame.id
         f == Frame.arg = "force" \/ force[c]
         target == IF hangupState[c] = "" THEN "active" ELSE hangupState[c]
         change == IF Origin[c] # 0 THEN <<Call("change_state", c, "deleted")>>
                   ELSE IF state[c] \in {"inactive", "failed", "active"} /\ target = "active" THEN << >>
                   ELSE <<Call("change_state", c, target)>>
     IN /\ force' = [force EXCEPT ![c] = f]
        /\ Return(IF protsUp[c] # {} \/ (hup[c] # NoPid /\ ~ f) THEN << >>
                  ELSE (IF state[c] = "deleted" THEN << >>
                        ELSE change \o <<Call("clear_op", c, "hangup")>>)
                       \o <<Call("hung_up", c, "")>>)
  /\ UNCHANGED <<state, op, hangupState, protsUp, refs, modes, dmns, life, inbox, procs, sent, config>>

\* The rest of circd_finalize_hangup, with circd_daemon_hung_up
HungUp ==
  /\ Running("hung_up")
  /\ LET c == Frame.id IN
     /\ force' = [force EXCEPT ![c] = FALSE]
     /\ hangupState' = [hangupState EXCEPT ![c] = ""]
     /\ hup' = [hup EXCEPT ![c] = NoPid]
     /\ Return(IF Origin[c] # 0 THEN <<Call("unref", c, "")>> ELSE << >>)
  /\ UNCHANGED <<state, op, protsUp, refs, modes, term, life, inbox, procs, sent, config>>

\* Without a circuit file the counter is taken to be 1 and is not written.
circd_unref ==
  /\ Running("unref")
  /\ LET c == Frame.id
         n == IF Exists(c) THEN refs[c] - 1 ELSE 0
     IN /\ refs' = IF Exists(c) THEN [refs EXCEPT ![c] = n] ELSE refs
        /\ Return(IF n = 0 THEN <<Call("remove", c, "")>> ELSE << >>)
  /\ UNCHANGED <<state, op, hangupState, force, protsUp, modes, dmns, life, inbox, procs, sent, config>>

circd_circuit_remove ==
  /\ Running("remove")
  /\ LET c == Frame.id IN
     /\ SendToQueue(c, "quit")
     /\ state' = [state EXCEPT ![c] = "none"]
     /\ op' = [op EXCEPT ![c] = ""] /\ hangupState' = [hangupState EXCEPT ![c] = ""]
     /\ force' = [force EXCEPT ![c] = FALSE] /\ protsUp' = [protsUp EXCEPT ![c] = {}]
     /\ localMode' = [localMode EXCEPT ![c] = ""]
     /\ Return(IF shutting THEN <<Call("check_exit", 0, "")>> ELSE << >>)
  /\ UNCHANGED <<refs, globalMode, dmns, life, inbox, qproc, translated, scripts, daemon, sent, config>>

\* Mutant: a child process does not keep circd running
circd_check_exit_NoChildren ==
  /\ Running("check_exit")
  /\ quit' = (quit \/ /\ CompositeStateAllowsExit
                      /\ \A c \in Circuit : term[c] = NoPid /\ hup[c] = NoPid)
  /\ Return(<< >>)
  /\ UNCHANGED <<conf, modes, dmns, shutting, children, nextId, inbox, procs, sent, config>>

circd_check_exit ==
  /\ Running("check_exit")
  /\ quit' = (quit \/ /\ CompositeStateAllowsExit
                      /\ \A k \in DOMAIN children : children[k] = 0
                      /\ \A c \in Circuit : term[c] = NoPid /\ hup[c] = NoPid)
  /\ Return(<< >>)
  /\ UNCHANGED <<conf, modes, dmns, shutting, children, nextId, inbox, procs, sent, config>>

\* Mutant: mode "off" forgets the circuits that are being dialled
EffectiveDialmodeChange_NotReady ==
  /\ Running("mode_changed")
  /\ LET c == Frame.id
         m == Frame.arg
     IN Return(CASE m = "auto" /\ state[c] = "active" -> Autodialup(c)
                 [] m = "manual" /\ state[c] = "ready" -> HangupCalls(c, "active")
                 [] m = "off" /\ state[c] \in {"semionline", "online"} -> HangupCalls(c, "active")
                 [] OTHER -> << >>)
  /\ UNCHANGED <<conf, modes, dmns, life, inbox, procs, sent, config>>

\* circd_handle_effective_dialmode_change
EffectiveDialmodeChange ==
  /\ Running("mode_changed")
  /\ LET c == Frame.id
         m == Frame.arg
     IN Return(CASE m = "auto" /\ state[c] = "active" -> Autodialup(c)
                 [] m = "manual" /\ state[c] = "ready" -> HangupCalls(c, "active")
                 [] m = "off" /\ state[c] \in UpStates -> HangupCalls(c, "active")
                 [] OTHER -> << >>)
  /\ UNCHANGED <<conf, modes, dmns, life, inbox, procs, sent, config>>

-----------------------------------------------------------------------------
(* The message handlers                                                    *)

\* circd takes the next message, of the given type, and begins to handle it.
Receives(type) ==
  /\ stack = << >> /\ ~ quit
  /\ inbox # << >> /\ Head(inbox).type = type

Handle(type) == Receives(type) /\ inbox' = Tail(inbox)

Id  == Head(inbox).id
Arg == Head(inbox).arg

\* A message that only leads to calls
Calls(seq) == stack' = seq /\ UNCHANGED <<conf, modes, dmns, life, procs, sent, config>>

\* circd_circuit_add and circd_start_queue for the next circuit
circd_circuit_add(up) ==
  LET c == nextId IN
  /\ state' = [state EXCEPT ![c] = "inactive"]
  /\ refs' = [refs EXCEPT ![c] = 1]
  /\ localMode' = [localMode EXCEPT ![c] = "auto"]
  /\ qproc' = [qproc EXCEPT ![c] = IF PromptQueue THEN "up" ELSE "starting"]
  /\ children' = [children EXCEPT ![<<c, "q">>] = @ + 1]
  /\ nextId' = nextId + 1
  /\ stack' = IF up THEN <<Call("change_state", c, "active")>> ELSE << >>
  /\ UNCHANGED <<op, hangupState, force, protsUp, globalMode, dmns, shutting, quit, queue, translated, scripts, daemon, sent, config>>

handle_create_circuit_message ==
  /\ Handle("create")
  /\ IF shutting \/ nextId > NCircuits \/ Origin[nextId] # 0
     THEN Calls(<< >>) ELSE circd_circuit_add(Arg = "up")

\* A clone is activated at once (circ_up=yes).
handle_clone_circuit_message ==
  /\ Handle("clone")
  /\ IF shutting \/ ~ Exists(Id) \/ nextId > NCircuits \/ Origin[nextId] # Id
     THEN Calls(<< >>) ELSE circd_circuit_add(TRUE)

handle_activate_circuit_message ==
  /\ Handle("activate")
  /\ Calls(IF ~ shutting /\ state[Id] \in {"inactive", "failed"}
           THEN <<Call("change_state", Id, "active")>> ELSE << >>)

\* Mutant: an inactive circuit is dialled, too
handle_dialup_circuit_message_Inactive ==
  /\ Handle("dialup")
  /\ Calls(IF ~ shutting /\ state[Id] \in {"active", "inactive"} /\ EffectiveMode(Id) # "off"
           THEN Autodialup(Id) ELSE << >>)

handle_dialup_circuit_message ==
  /\ Handle("dialup")
  /\ Calls(IF ~ shutting /\ state[Id] = "active" /\ EffectiveMode(Id) # "off"
           THEN Autodialup(Id) ELSE << >>)

\* Mutant: the target state is not passed on
handle_hangup_or_deactivate_circuit_message_Active(type, target) ==
  /\ Handle(type)
  /\ IF state[Id] \in {"active", "inactive", "failed"}
     THEN /\ hangupState' = [hangupState EXCEPT ![Id] = target]
          /\ stack' = <<Call("finalize_hangup", Id, "")>>
          /\ UNCHANGED <<state, op, force, protsUp, refs, modes, dmns, life, procs, sent, config>>
     ELSE Calls(IF state[Id] \in UpStates THEN HangupCalls(Id, "active") ELSE << >>)

\* handle_hangup_circuit_message, handle_deactivate_circuit_message and
\* handle_fail_circuit_message differ in the target state.
handle_hangup_or_deactivate_circuit_message(type, target) ==
  /\ Handle(type)
  /\ IF state[Id] \in {"active", "inactive", "failed"}
     THEN /\ hangupState' = [hangupState EXCEPT ![Id] = target]
          /\ stack' = <<Call("finalize_hangup", Id, "")>>
          /\ UNCHANGED <<state, op, force, protsUp, refs, modes, dmns, life, procs, sent, config>>
     ELSE Calls(IF state[Id] \in UpStates THEN HangupCalls(Id, target) ELSE << >>)

\* The handler waits until the wrapper has started the daemon and registered it
\* (circd_daemon_wrapper, circd_daemon_register).
handle_start_daemon_circuit_message ==
  /\ Handle("start_daemon")
  /\ IF shutting \/ ~ Exists(Id) THEN Calls(<< >>)
     ELSE \E p \in Pid :
       /\ daemon[p].st = "free"
       /\ \A i \in 1..Len(inbox) : inbox[i].pid # p
       /\ daemon' = [daemon EXCEPT ![p] = [NoDaemon EXCEPT !.id = Id, !.st = "run"]]
       /\ refs' = [refs EXCEPT ![Id] = @ + 1]
       /\ term' = [c \in Circuit |-> IF c = Id THEN p ELSE IF term[c] = p THEN NoPid ELSE term[c]]
       /\ hup'  = [c \in Circuit |-> IF c = Id THEN p ELSE IF hup[c] = p THEN NoPid ELSE hup[c]]
       /\ children' = [children EXCEPT ![<<Id, "d">>] = @ + 1]
       /\ stack' = << >>
       /\ UNCHANGED <<state, op, hangupState, force, protsUp, modes, shutting, quit, nextId, queue, qproc, translated, scripts, sent, config>>

\* circd_daemon_terminate
handle_stop_daemon_circuit_message ==
  /\ Handle("stop_daemon")
  /\ IF ~ Exists(Id) \/ term[Id] = NoPid THEN Calls(<< >>)
     ELSE /\ term' = [term EXCEPT ![Id] = NoPid]
          /\ daemon' = [daemon EXCEPT ![term[Id]].sig = TRUE]
          /\ stack' = << >>
          /\ UNCHANGED <<conf, modes, hup, life, queue, qproc, translated, scripts, sent, config>>

\* circd_go_online_if_possible
handle_up_l3prot_circuit_event ==
  /\ Handle("up_l3prot")
  /\ IF ~ Exists(Id) \/ Arg \in protsUp[Id] THEN Calls(<< >>)
     ELSE /\ protsUp' = [protsUp EXCEPT ![Id] = @ \cup {Arg}]
          /\ stack' = IF Protocols[Id] \subseteq protsUp'[Id]
                      THEN <<Call("change_state", Id, "online"), Call("clear_op", Id, "dial")>>
                      ELSE <<Call("change_state", Id, "semionline")>>
          /\ UNCHANGED <<state, op, hangupState, force, refs, modes, dmns, life, procs, sent, config>>

\* Mutant: the event is ignored while the circuit is not being hung up
handle_down_l3prot_circuit_event_OnlyHangup ==
  /\ Handle("down_l3prot")
  /\ IF ~ Exists(Id) \/ Arg \notin protsUp[Id] \/ op[Id] # "hangup" THEN Calls(<< >>)
     ELSE /\ protsUp' = [protsUp EXCEPT ![Id] = @ \ {Arg}]
          /\ stack' = IF protsUp'[Id] = {} THEN <<Call("finalize_hangup", Id, "")>>
                      ELSE <<Call("change_state", Id, "semionline")>>
          /\ UNCHANGED <<state, op, hangupState, force, refs, modes, dmns, life, procs, sent, config>>

\* circd_go_offline_if_necessary
handle_down_l3prot_circuit_event ==
  /\ Handle("down_l3prot")
  /\ IF ~ Exists(Id) \/ Arg \notin protsUp[Id] THEN Calls(<< >>)
     ELSE /\ protsUp' = [protsUp EXCEPT ![Id] = @ \ {Arg}]
          /\ stack' = IF protsUp'[Id] = {} THEN <<Call("finalize_hangup", Id, "")>>
                      ELSE <<Call("change_state", Id, "semionline")>>
          /\ UNCHANGED <<state, op, hangupState, force, refs, modes, dmns, life, procs, sent, config>>

handle_up_link_circuit_event ==
  /\ Handle("up_link")
  /\ Calls(IF Exists(Id) THEN <<Call("change_state", Id, "online")>> ELSE << >>)

handle_down_link_circuit_event ==
  /\ Handle("down_link")
  /\ Calls(IF Exists(Id) THEN <<Call("finalize_hangup", Id, Arg)>> ELSE << >>)

\* Control scripts report success, too; the handlers do nothing then.
handle_dialup_control_circuit_event ==
  /\ Handle("dial_failed")
  /\ Calls(IF Exists(Id) THEN <<Call("change_state", Id, "active"), Call("clear_op", Id, "any")>>
           ELSE << >>)

handle_hangup_control_circuit_event ==
  /\ Handle("hangup_failed")
  /\ Calls(IF Exists(Id) THEN <<Call("finalize_hangup", Id, "")>> ELSE << >>)

\* The hangup of the circuit that waits for daemon p to end
circd_daemon_hangup(p) ==
  LET hung == {c \in Circuit : hup[c] = p}
  IN  IF hung = {} THEN << >> ELSE <<Call("finalize_hangup", CHOOSE c \in hung : TRUE, "")>>

\* Mutant: the daemon's reference is not dropped
handle_daemon_exited_circuit_event_NoUnref ==
  /\ Handle("daemon_exited")
  /\ LET p == Head(inbox).pid
     IN /\ term' = [c \in Circuit |-> IF term[c] = p THEN NoPid ELSE term[c]]
        /\ hup'  = [c \in Circuit |-> IF hup[c] = p THEN NoPid ELSE hup[c]]
        /\ stack' = circd_daemon_hangup(p)
  /\ UNCHANGED <<conf, modes, life, procs, sent, config>>

\* Mutant: the delayed hangup is forgotten
handle_daemon_exited_circuit_event_NoHangup ==
  /\ Handle("daemon_exited")
  /\ LET p == Head(inbox).pid
     IN /\ term' = [c \in Circuit |-> IF term[c] = p THEN NoPid ELSE term[c]]
        /\ hup'  = [c \in Circuit |-> IF hup[c] = p THEN NoPid ELSE hup[c]]
        /\ stack' = <<Call("unref", Id, "")>>
  /\ UNCHANGED <<conf, modes, life, procs, sent, config>>

\* circd_daemon_terminated, circd_daemon_hangup and circd_unref
handle_daemon_exited_circuit_event ==
  /\ Handle("daemon_exited")
  /\ LET p == Head(inbox).pid
     IN /\ term' = [c \in Circuit |-> IF term[c] = p THEN NoPid ELSE term[c]]
        /\ hup'  = [c \in Circuit |-> IF hup[c] = p THEN NoPid ELSE hup[c]]
        /\ stack' = circd_daemon_hangup(p) \o <<Call("unref", Id, "")>>
  /\ UNCHANGED <<conf, modes, life, procs, sent, config>>

\* circd_handle_effective_dialmode_change is called for each circuit whose
\* effective mode changes with the new global mode g and local modes l.
ModeCalls(g, l) ==
  LET changed == InOrder({c \in Circuit : circd_get_effective_dialmode(g, l[c]) # EffectiveMode(c)})
  IN  [i \in 1..Len(changed) |->
         Call("mode_changed", changed[i], circd_get_effective_dialmode(g, l[changed[i]]))]

handle_set_global_dialmode_message ==
  /\ Handle("set_global")
  /\ IF shutting THEN Calls(<< >>)
     ELSE /\ globalMode' = Arg
          /\ stack' = ModeCalls(globalMode', localMode)
          /\ UNCHANGED <<conf, localMode, dmns, life, procs, sent, config>>

handle_set_local_dialmode_message ==
  /\ Handle("set_local")
  /\ IF shutting THEN Calls(<< >>)
     ELSE /\ localMode' = [localMode EXCEPT ![Id] = Arg]
          /\ stack' = ModeCalls(globalMode, localMode')
          /\ UNCHANGED <<conf, globalMode, dmns, life, procs, sent, config>>

\* circd sends itself a request to deactivate each circuit.
handle_stop_service_message ==
  /\ Receives("stop_service")
  /\ LET all == InOrder({c \in Circuit : Exists(c)}) IN
     /\ inbox' = Tail(inbox) \o (IF shutting THEN << >>
                                 ELSE [i \in 1..Len(all) |-> Msg("deactivate", all[i], "")])
     /\ stack' = IF shutting THEN << >> ELSE <<Call("check_exit", 0, "")>>
  /\ shutting' = TRUE
  /\ UNCHANGED <<conf, modes, dmns, quit, children, nextId, procs, sent, config>>

handle_child_exited_circd_event ==
  /\ Handle("child_exited")
  /\ children' = [children EXCEPT ![<<Id, Arg>>] = @ - 1]
  /\ stack' = IF shutting THEN <<Call("check_exit", 0, "")>> ELSE << >>
  /\ UNCHANGED <<conf, modes, dmns, shutting, quit, nextId, procs, sent, config>>

-----------------------------------------------------------------------------
(* The other processes.  Each sends to circd while there is room in the    *)
(* bounded queue.                                                          *)

Others == stack = << >> /\ Len(inbox) < MaxInbox

Send(m) == inbox' = Append(inbox, m)

\* The queue process has registered its handlers.
QueueReady(c) ==
  /\ qproc[c] = "starting"
  /\ qproc' = [qproc EXCEPT ![c] = "up"]
  /\ UNCHANGED <<conf, modes, dmns, life, stack, inbox, queue, translated, scripts, daemon, sent, config>>

Unqueue(c, m) ==
  /\ Others /\ qproc[c] = "up"
  /\ queue[c] # << >> /\ Head(queue[c]) = m
  /\ queue' = [queue EXCEPT ![c] = Tail(@)]
  /\ UNCHANGED <<conf, modes, dmns, life, stack, sent, config>>

StartScripts(c, k) ==
  scripts' = [scripts EXCEPT ![c] = [x \in DOMAIN @ |->
                IF x[1] = k /\ x[2] \in Protocols[c] THEN @[x] + 1 ELSE @[x]]]

\* route-circuit-ctrl.sh runs ip-up and ip-down in the background.
route_dial(c)   == StartScripts(c, "up") /\ UNCHANGED inbox
route_hangup(c) == StartScripts(c, "down") /\ UNCHANGED inbox

circuit_daemon_wrapper(c)   == Send(Msg("start_daemon", c, "")) /\ UNCHANGED scripts
circuit_daemon_terminate(c) == Send(Msg("stop_daemon", c, "")) /\ UNCHANGED scripts

\* There is no pppd configuration for the mode "off".
pppd_dial(c) ==
  \/ EffectiveMode(c) # "off" /\ circuit_daemon_wrapper(c)
  \/ EffectiveMode(c) = "off" /\ UNCHANGED <<inbox, scripts>>

handle_dialup_circuit_queue_message(c) ==
  /\ Unqueue(c, "dial")
  /\ translated' = [translated EXCEPT ![c] = TRUE]
  /\ UNCHANGED <<qproc, daemon>>
  /\ \/ Kind[c] = "route" /\ route_dial(c)
     \/ Kind[c] \in {"pppd", "link"} /\ pppd_dial(c)
     \/ Kind[c] = "server" /\ circuit_daemon_wrapper(c)

handle_hangup_circuit_queue_message(c) ==
  /\ Unqueue(c, "hangup")
  /\ UNCHANGED <<qproc, translated, daemon>>
  /\ \/ Kind[c] = "route" /\ route_hangup(c)
     \/ Kind[c] # "route" /\ circuit_daemon_terminate(c)

\* The translation of the interface fails, or the control script after it.
DialFails(c) ==
  /\ DialMayFail /\ Kind[c] = "route"
  /\ Unqueue(c, "dial")
  /\ \E found \in BOOLEAN : translated' = [translated EXCEPT ![c] = @ \/ found]
  /\ Send(Msg("dial_failed", c, ""))
  /\ UNCHANGED <<qproc, scripts, daemon>>

\* The script itself never fails, and the interface is looked up only once.
HangupFails(c) ==
  /\ DialMayFail /\ Kind[c] = "route" /\ ~ translated[c]
  /\ Unqueue(c, "hangup")
  /\ Send(Msg("hangup_failed", c, ""))
  /\ UNCHANGED <<qproc, translated, scripts, daemon>>

\* circd_notify_parent_about_child_exit is the exit trap of both children.
handle_quit_circuit_queue_message(c) ==
  /\ Unqueue(c, "quit")
  /\ qproc' = [qproc EXCEPT ![c] = "gone"]
  /\ Send(Msg("child_exited", c, "q"))
  /\ UNCHANGED <<translated, scripts, daemon>>

\* /etc/ppp/ip-up and ip-down, started by a route circuit's control script
IpScript(c, k, q) ==
  /\ Others /\ scripts[c][<<k, q>>] > 0
  /\ k = "down" /\ ScriptsInOrder => scripts[c][<<"up", q>>] = 0
  /\ scripts' = [scripts EXCEPT ![c][<<k, q>>] = @ - 1]
  /\ IF Exists(c) THEN Send(Msg(IF k = "up" THEN "up_l3prot" ELSE "down_l3prot", c, q))
     ELSE UNCHANGED inbox
  /\ UNCHANGED <<conf, modes, dmns, life, stack, queue, qproc, translated, daemon, sent, config>>

\* What a daemon reports on: layer-3 protocols, the link of a bundle, or nothing
Reports(c) == CASE Kind[c] = "link" -> {Link} [] circ_server(c) -> {} [] OTHER -> Protocols[c]

DaemonStep(p) ==
  /\ Others /\ daemon[p].st = "run"
  /\ UNCHANGED <<conf, modes, dmns, life, stack, queue, qproc, translated, scripts, sent, config>>

\* pppd has a connection and has run ip-up (link-up).
DaemonUp(p, q) ==
  /\ DaemonStep(p)
  /\ q \in Reports(daemon[p].id) /\ daemon[p].link[q] = "idle"
  /\ daemon' = [daemon EXCEPT ![p].link[q] = "up"]
  /\ Send(IF q = Link THEN Msg("up_link", daemon[p].id, "") ELSE Msg("up_l3prot", daemon[p].id, q))

\* pppd has lost or closed it and has run ip-down (link-down).  The master of a
\* multilink bundle goes on running: its hangup is forced (link-down900.ppp).
DaemonDown(p, q, f) ==
  /\ DaemonStep(p)
  /\ q \in Reports(daemon[p].id) /\ daemon[p].link[q] = "up"
  /\ f = "force" => q = Link
  /\ daemon' = [daemon EXCEPT ![p].link[q] = IF daemon[p].sig \/ f = "force" THEN "down" ELSE "idle"]
  /\ Send(IF q = Link THEN Msg("down_link", daemon[p].id, f) ELSE Msg("down_l3prot", daemon[p].id, q))

\* pppd ends, and circd_daemon_wrapper tells circd; pppd waits for its scripts.
DaemonExit(p) ==
  /\ DaemonStep(p)
  /\ \A q \in Reports(daemon[p].id) : daemon[p].link[q] # "up"
  /\ daemon' = [daemon EXCEPT ![p].st = "exiting"]
  /\ Send(PidMsg("daemon_exited", daemon[p].id, p))

DaemonCrash(p) ==
  /\ DaemonMayCrash /\ DaemonStep(p)
  /\ daemon' = [daemon EXCEPT ![p].st = "exiting"]
  /\ Send(PidMsg("daemon_exited", daemon[p].id, p))

WrapperExit(p) ==
  /\ stack = << >> /\ daemon[p].st = "exiting"
  /\ daemon' = [daemon EXCEPT ![p] = NoDaemon]
  /\ Send(Msg("child_exited", daemon[p].id, "d"))
  /\ UNCHANGED <<conf, modes, dmns, life, stack, queue, qproc, translated, scripts, sent, config>>

\* A client (fli4lctrl, the boot scripts, a server daemon) sends a request.
Request(m) ==
  /\ Others /\ ~ quit /\ sent < MaxRequests
  /\ sent' = sent + 1
  /\ Send(m)
  /\ UNCHANGED <<conf, modes, dmns, life, stack, procs, config>>

-----------------------------------------------------------------------------
Functions ==
  \/ circd_change_state \/ circd_handle_state_change
  \/ circd_initiate_dialup \/ circd_initiate_hangup \/ circd_stop_queue
  \/ ClearOperation \/ circd_finalize_hangup \/ HungUp
  \/ circd_unref \/ circd_circuit_remove \/ circd_check_exit
  \/ EffectiveDialmodeChange

Handlers ==
  \/ handle_create_circuit_message \/ handle_clone_circuit_message
  \/ handle_activate_circuit_message \/ handle_dialup_circuit_message
  \/ handle_hangup_or_deactivate_circuit_message("hangup", "active")
  \/ handle_hangup_or_deactivate_circuit_message("deactivate", "inactive")
  \/ handle_hangup_or_deactivate_circuit_message("fail", "failed")
  \/ handle_start_daemon_circuit_message \/ handle_stop_daemon_circuit_message
  \/ handle_up_l3prot_circuit_event \/ handle_down_l3prot_circuit_event
  \/ handle_up_link_circuit_event \/ handle_down_link_circuit_event
  \/ handle_dialup_control_circuit_event \/ handle_hangup_control_circuit_event
  \/ handle_daemon_exited_circuit_event
  \/ handle_set_global_dialmode_message \/ handle_set_local_dialmode_message
  \/ handle_stop_service_message \/ handle_child_exited_circd_event

Circd == Functions \/ Handlers

QueueProcess(c) ==
  \/ QueueReady(c)
  \/ handle_dialup_circuit_queue_message(c) \/ handle_hangup_circuit_queue_message(c)
  \/ handle_quit_circuit_queue_message(c) \/ DialFails(c) \/ HangupFails(c)

\* What a daemon does when it was told to end, and what its wrapper does
Ending(p) ==
  \/ daemon[p].sig /\ (DaemonExit(p) \/ \E q \in Prot \cup {Link} : DaemonDown(p, q, ""))
  \/ WrapperExit(p)

Next ==
  \/ Circd
  \/ \E c \in Circuit : QueueProcess(c) \/ \E k \in {"up", "down"}, q \in Prot : IpScript(c, k, q)
  \/ \E p \in Pid : \/ \E q \in Prot \cup {Link} :
                         DaemonUp(p, q) \/ \E f \in {"", "force"} : DaemonDown(p, q, f)
                    \/ DaemonExit(p) \/ DaemonCrash(p) \/ WrapperExit(p)
  \/ \E m \in Requests : Request(m)

Spec == Init /\ [][Next]_vars

\* circd, queue processes and scripts run; a daemon that was told to ends.
Fairness ==
  /\ WF_vars(Circd)
  /\ \A c \in Circuit : /\ SF_vars(QueueProcess(c))
                        /\ \A k \in {"up", "down"}, q \in Prot : SF_vars(IpScript(c, k, q))
  /\ \A p \in Pid : SF_vars(Ending(p))

FairSpec == Spec /\ Fairness
-----------------------------------------------------------------------------
(* Properties.  An invariant speaks of the states between two handlers.    *)

Between == stack = << >>

\* Daemons of c that circd has not been told to be dead yet
Unreported(c) ==
  {p \in Pid : \/ daemon[p].st = "run" /\ daemon[p].id = c
               \/ \E i \in 1..Len(inbox) : /\ inbox[i].type = "daemon_exited"
                                           /\ inbox[i].id = c /\ inbox[i].pid = p}

\* circ_refcount counts the circuit itself until it is deleted, and each daemon
\* until circd has handled its end (circd_ref, circd_unref); and a circuit is removed
\* (circd_circuit_remove "requires the circuit to be in the state 'deleted'") after that.
RefcountIsRight ==
  /\ Between => \A c \in Circuit : Exists(c) =>
       refs[c] = (IF state[c] = "deleted" THEN 0 ELSE 1) + Cardinality(Unreported(c))
  /\ Running("remove") => state[Frame.id] = "deleted"

\* A circuit that is up and not being hung up has its dependencies: for each of
\* them one circuit has the protocol up, or will not have it down until it is
\* hung up, and its origin is at least ready.
DependenciesHold ==
  Between => \A c \in Circuit : circd_is_at_least_ready(c, TRUE) =>
    /\ \A d \in Deps[c] : \E e \in d.on : state[e] \in UpStates
    /\ Origin[c] # 0 => state[Origin[c]] \in UpStates

\* What the comment of circd_check_dependencies asks for ("each dependee needs to be
\* online"), as long as any protocol of a dependee is up: a circuit that is up and not
\* being hung up has, for each dependency, a dependee with the needed protocol up, or
\* one whose protocols are all down and whose end is about to be reported.
DependeesOnline ==
  Between => \A c \in Circuit : circd_is_at_least_ready(c, TRUE) =>
    \A d \in Deps[c] : \E e \in d.on :
      protsUp[e] = {} \/ d.prot \in protsUp[e]

\* No circuit is up in mode "off", unless it is being hung up.
OffMeansDown ==
  Between => \A c \in Circuit :
    Exists(c) /\ EffectiveMode(c) = "off" => ~ circd_is_at_least_ready(c, TRUE)

\* A daemon runs only for a circuit that is up, and a circuit has at most one (the
\* hangup of a daemon-controlled circuit is delayed until the daemon ends); as long
\* as it has not been told to end, circd knows how to tell it.
DaemonsAreKnown ==
  Between => \A p \in Pid : daemon[p].st = "run" /\ Kind[daemon[p].id] # "link" =>
    /\ state[daemon[p].id] \in UpStates
    /\ \A r \in Pid \ {p} : daemon[r].st = "run" => daemon[r].id # daemon[p].id
    /\ daemon[p].sig \/ term[daemon[p].id] = p

\* circd_check_exit ("no outstanding child processes are still running"): when circd
\* has left its message loop, every queue process and every daemon wrapper has ended,
\* also those started and stopped while it was shutting down.
ExitsAfterChildren ==
  quit => /\ \A c \in Circuit : qproc[c] \notin {"starting", "up"}
          /\ \A p \in Pid : daemon[p].st = "free"

\* A circuit that was stopped is not dialled and does not go online before it is
\* active again, and the end of a hangup does not activate it.  (The report of a
\* dial that failed late may: handle_dialup_control_circuit_event.)
StoppedStaysDown ==
  [][\A c \in Circuit : state[c] \in {"inactive", "failed"} =>
       /\ state'[c] \notin UpStates
       /\ state'[c] = "active" => \A i \in 1..Len(stack) : stack[i].call # "hung_up"]_vars

\* Every change of a circuit's state is one that the manual's table of transitions
\* knows: in particular, only an active circuit is dialled, only one that is dialled
\* goes online, and a deleted one does not come back.
Lifecycle == INSTANCE CircuitStates
ImplementsCircuitStates == Lifecycle!Spec

\* A hangup comes to an end.
HangupEnds == \A c \in Circuit : op[c] = "hangup" ~> op[c] # "hangup"

\* "down" takes a circuit that is not being hung up to the state "inactive", as long
\* as control scripts succeed: whatever requests, derived hangups and reports of the
\* scripts of an earlier dial come before the hangup has ended.
DownIsCarriedOut ==
  \A c \in Circuit :
    ~ DialMayFail /\ Receives("deactivate") /\ Id = c /\ op[c] # "hangup"
      ~> state[c] \in {"inactive", "failed", "deleted", "none"}

\* The manual says so of every circuit, also of one that is being hung up.
DownEndsInactive ==
  \A c \in Circuit :
    ~ DialMayFail /\ Receives("deactivate") /\ Id = c ~> state[c] \in {"inactive", "failed", "deleted", "none"}

\* Mode "off" takes a circuit down.
OffEndsDown ==
  \A c \in Circuit : EffectiveMode(c) = "off" ~> EffectiveMode(c) # "off" \/ state[c] \notin UpStates

\* A circuit is not online for long without the daemon that controls it.
OnlineNeedsDaemon ==
  \A c \in Circuit :
    Kind[c] = "pppd" /\ protsUp[c] # {} /\ (\A p \in Pid : daemon[p].id = c => daemon[p].st # "run")
      ~> protsUp[c] = {} \/ \E p \in Pid : daemon[p].id = c /\ daemon[p].st = "run"

\* circd leaves its message loop after stop_service_message.
ShutdownCompletes == shutting ~> quit

=============================================================================
