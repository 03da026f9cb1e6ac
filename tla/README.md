# A verification of fli4l: circuits, imond, variables

fli4l is a distribution that turns a PC into a router. Three of its own parts are
hard to get right, and are modelled here:

* the *circuit system* of package `base`: shell processes that dial, hang up and
  supervise network connections ("circuits"). They run concurrently, share state in
  files, lock each other out with symbolic links, talk over a message system made of
  files and named pipes, and are subject to signals at any point;
* *imond*, a C daemon that keeps the books about ISDN and PPPoE connections, chooses
  the default route by the hour and serves clients over TCP;
* the *variable store* of mkfli4l, the C program that reads the packages' variable
  definitions and the user's configuration, checks all values and runs the check
  scripts before the router's files are built.

This directory holds TLA+ models of these parts, TLC configurations that check them,
and TLAPS proofs. Paths below are relative to `src/packages/` of the repository; `B`
is `base/opt`, `F` is `src/src/fli4l/base`, `V` is `F/mkfli4l-tools`.

## 1. Inventory

### 1.1 Parts and how they interact

| Part | Source | State it keeps | Operations |
| --- | --- | --- | --- |
| exclusive locks | `B/etc/boot.d/locking.inc` | link `fli4l-r.lock`, count file `fli4l-r.PID`, list in the shell | lock, try, unlock, unlock all at exit |
| reader/writer locks | same | `readers-active`, `readers-active.PID`, `writer-active`, `writers-waiting`, two lists | lock/unlock for reading/writing, promotion |
| exit traps | `B/etc/boot.d/exittrap.inc` | installed traps | on exit, on signal |
| message system (MOM) | `B/usr/share/mom/core` | per endpoint: queue files, `queue.begin`, `queue.end`, named pipe, `interface`; `type.list` | send, wake, wait, take, register types and handlers, request/reply, broadcast |
| circuit daemon `circd` | `B/usr/share/circuits/circd` | a directory per state with links to circuits; fields `circ_current_operation`, `circ_hangup_state`, `circ_force_hangup`, `circ_protocols_up`, `circ_refcount`; dial modes; `daemons` file; `circd_children`; reverse dependencies | one handler per message |
| queue processes | same | one endpoint `<id>:q` per circuit | run control scripts one after the other |
| control scripts | `B/usr/local/bin/route-circuit-ctrl.sh`, `ppp/opt/usr/local/bin/*-circuit-ctrl.sh` | none | dial, hangup |
| ip scripts | `B/etc/ppp/ip-up`, `ip-down`, `link-up`, `link-down` | routes, firewall rules | report a protocol or link up/down |
| daemons | `pppd` etc. (external) under `circd_daemon_wrapper` | a PID in the `daemons` file | connect, disconnect, end |
| bundles | `B/etc/rc.d/bundle-common`, `ppp-bundle-circuit-ctrl.sh` | links and masters of bundles | register, deregister |
| clients | `B/usr/local/bin/fli4lctrl`, boot scripts, web GUI | none | requests to circd |
| imond: tariffs | `F/imond/imond.c` | `conf_data`, `time_table`, cached holidays | read the configuration, find the circuit of the hour |
| imond: connections | same | `infos[]`, `circuits[]`, `pppoe_infos`, counters, route, clients with `password_state` | read `/dev/isdninfo`, measure the load, check the route, one command per line of a client |
| mkfli4l: variables | `V/var/*.c`, `V/libmkfli4l/var.c`, `check.c`, `tree.c`, `parse.c` | variables with priority and properties, slots of their elements, array bounds | define, assign, resize, read, check, the statements of check scripts |

```
 fli4lctrl, boot scripts          ip-up / ip-down / link-up / link-down
        |  requests                    |  up_l3prot, down_l3prot, ...
        v                              v
  +--------------------- circd ---------------------+     all arrows are messages
  | one handler at a time, each a tree of calls     |     (MomQueue), all files are
  +----+----------------------------+---------------+     guarded by locks
       | dialup/hangup/quit         | starts, signals      (SyncLock, RwLock)
       v                            v
  queue process <id>:q         daemon wrapper <id>:d --- pppd, server
       | runs                       ^  daemon_exited, child_exited
       v                            |
  <type>-circuit-ctrl.sh -----------+  start_daemon, stop_daemon
```

### 1.2 What is hard, and what makes each part correct

* **Locks.** `ln -s` is the only atomic step; tests, reads and writes of other
  processes come between the rest, and signals and SIGKILL come anywhere. Correct
  means: mutual exclusion; link, count and list agree; a script that ends gives
  back what it holds; a waiting writer gets its turn.
* **Messages.** The queue changes under a lock, the receiver is woken by a character
  that a background process writes later. Correct means: messages and wakeups stay
  in step; first in, first out; none lost, none handled twice; the right handler.
* **circd.** Handlers recurse through dependencies, and the processes around them
  answer late, twice, in another order or not at all. Correct means: dependencies
  and dial modes are obeyed; a hangup ends; a stopped circuit stays down; reference
  counts are exact; a daemon is never out of control; shutdown completes.

* **imond.** One process, but the kernel goes on while it works through a snapshot of
  the channels, the clock is changed under running connections, and slots of clients
  are used again. Correct means: counters and circuits agree with the kernel when
  imond has caught up; the time of a connection is its real one; a command runs with
  the rights of this client, not of the last one; the route follows hour, weekday
  and holiday.
* **Variables.** Arrays share bounds, bounds are arrays themselves, and four functions
  call each other to keep sizes in step, whatever is assigned first. Correct means: an
  element that was written can be read; the check misses no element; check scripts do
  not alter the configuration.

The full list, at the lines where it bites, is under `hazards` in `PROJECT.json`.

### 1.3 Parts not modelled

Each is listed under `components` with its reason. Bundles, request/reply and
broadcast, restart of circd and `atd` are planned (section 7). Routes, addresses
and prefixes are data that circd does not look at. imonc, telmond and the small C
helpers only format and parse text. Package scripts that write configuration files
for third-party daemons, the web GUI and the vendored buildroot are out of scope.

Most of the C code of the repository is of these kinds: test programs, parsers and
lexers that flex and bison generated (and their debug variants), vendored copies of
bfd, elf and kconfig, the script compressor, kernel drivers. Modelling them would say
nothing about fli4l, and so the models cover a small share of all lines, but nearly
all of imond's control and of the variable store. Shell code, which is the larger half
of what is modelled, comes on top.

## 2. Modules

| Module | Models | Abstract specification |
| --- | --- | --- |
| `Mutex` | what an exclusive lock promises | - |
| `SyncLock` | exclusive locks, file system call by file system call | implements `Mutex` |
| `*_proofs` | theorems about the module, for `SyncLock`, `RwLock`, `MomQueue`, `MomHandlers`, `Circd`, `Imond`, `ImondTables`; `CircdDuties_proofs` has those about dial modes, dependencies and children of `Circd` | |
| `RwLock` | reader/writer locks and `circuit_lock` | uses the promise of `Mutex` |
| `Channel` | what an endpoint promises | - |
| `MomQueue` | the queue of one endpoint | implements `Channel` |
| `MomHandlers` | message types, handlers, interface | - |
| `CircuitStates` | the manual's table of circuit states and transitions | - |
| `Circd` | circd, queue processes, scripts, daemons, clients | implements `CircuitStates`, uses the promise of `Channel` |
| `ImondTables` | imond's tariff tables, calendar and choice of the circuit | - |
| `Imond` | imond's connections, routing and clients, with the kernel's channels | - |
| `VarStore` | the variable store of mkfli4l, from definitions to check scripts | - |
| `MC*` | instances for TLC | |

Names are those of the shell functions and variables wherever there is one. An
operator whose comment begins with "Mutant" is not part of the model: it is a
plausible mistake in the operator that follows, used to show that a property can
fail.

### 2.1 SyncLock

A step is one file system call with the decisions up to the next one. The control
points are grouped by what a signal does there: `Masked` (signals ignored), `Reset`
(between `trap - ...` and `eval "$traps"`: default action, the exit trap is not
run), `Handling` (the script's own traps). A PID may be used again after its
process ended, and finds old count files then. `killed` is a history variable.

### 2.2 RwLock

One resource. All files are touched under the mutex `$1:mutex`, so a critical section
is cut only where a signal leaves something different behind; `SignalPoints` says
where signals may come. `circuit_lock` of the API takes the exclusive lock before
the read lock, which is what makes promotion to a write lock free of deadlocks. A
script that has ended may be followed by one with the same PID (`Restart`, at most
`MaxReuse` times), whose lists are empty and which takes the files with that PID for its
own. SIGKILL, which leaves the mutex locked as well, is left to `SyncLock`.

### 2.3 MomQueue and MomHandlers

`begin`, `end` and `file` are the queue, `wakers`, `fifo` and `rpc` the way of a
wakeup from sender to receiver. The lines between lock and unlock are one step. Time
limits (`timedWait`, `slowWakeup`) and restarts of the receiver are part of a
configuration: `Configs` is a set of them, and the variable `config` holds the one a
behaviour has chosen. `Circd`, `Imond` and `VarStore` do the same. `MomHandlers` is sequential: what matters there is every order of registering
and unregistering in every tree of types.

### 2.4 Circd

`stack` holds the calls the current handler still has to make, as the shell's call
stack does. `circd_change_state` pushes the derived calls for the circuit itself and
for each dependent circuit; each of them looks at the state when its turn comes, as
the loop of `circd_handle_state_change` does. One function of the program is one
action. What comes after a nested call within a function is a call of its own
(`HungUp`, `ClearOperation`, `circd_initiate_dialup` after the change of state).

Abstractions, each with its reason:

* Other processes take their steps between two handlers (`stack = <<>>`). They neither
  read nor write what a handler changes, apart from sending and receiving messages,
  and these commute with the handler's steps. The one exception, the start of a queue
  process that a handler waits for, may happen during a handler (`QueueReady`).
* circd's queue is a sequence, as `Channel` promises. When it holds `MaxInbox`
  messages the others wait: a bound, not a feature of the code.
* A success report of a control script is left out, since its handler does nothing.
* `pppd_dial` asks circd for the dial mode and requests the daemon in one step; a
  mode change between the two is the same as one that is queued ahead of the request.
* Dependencies, protocols, types and origins of circuits are constants; a class is the
  set of its members.
* The PID of a daemon is not reused while circd still has messages about it.
* `DaemonUp`, `DaemonCrash` and `Reports` describe pppd (external): it runs ip-up
  when a protocol comes up, ip-down when it goes down, and ends after its scripts.
* In the initial state the circuits that exist are inactive, which is how circd
  leaves and finds them.

### 2.5 ImondTables and Imond

`ImondTables` computes the tables as `read_config` does, hour by hour, and lets the
clock run through 35 years, forwards and backwards, with the cache of holidays
`is_holiday` keeps. The reference of `RouteFollowsTariff` is written from the calendar
(day numbers), not from the code. `Imond` takes the circuit of the hour as given and
models the process: `ReadInfo` takes the snapshot, `InfoChannel` handles one channel of
it (`read_info`'s loop body, which asks the kernel again), `PollRouting` is the pass of
`select()` that looks at the route, and each command that changes something is an
action that one client's line triggers. Calls, hours and the clock are bounded by the
configuration. The kernel (isdn4linux), chronyd and the clock are external. `real` is
a history variable. Left out: the limit of 128 lines, beyond which `read_config` ignores
lines (`imond.c:4889`; the properties speak of the lines that were read); a read that
returns fewer than the six lines of `/dev/isdninfo` (`:1153`; it would use up the news
without booking it); `dial` and `hangup`, which call `fli4lctrl` and change nothing in
imond; `last_seconds` (`:5515`), which delays the check of the route.

### 2.6 VarStore

Slots are a function on index paths. The operators that write (`SetValue`,
`UpdateArrayBound`, `GetOrCreate`, `Expand`) call each other as the C functions do and
return the new slots. Definitions, and the assignments of one stage, come in any
order. Types are the sets of their values; regular expressions are left out. A
condition is a constant or the name of a boolean variable. The errors of the program
end in `rejected`, also those that it collects and reports at the end of a script
(`parse_set_error`). Left out: the cached `def_value` and the guard `read_active` of a slot
(`slot.c:90`; defaults are literals here); explicit bounds of a wrong level
(`core.c:522`, `:550`, excluded by `ShapeAssumption`); and in `EndDefinitions` the check
that default values are valid (`check.c:140`) and that conditions are boolean
(`core.c:1003`).

## 3. Runs

States are distinct states found.

| Run | Properties | Instance | States |
| --- | --- | --- | --- |
| `sync_lock` | mutual exclusion, agreement of count, list and link, release at exit, refinement of `Mutex` | 2 PIDs, 2 resources, nesting 2, signals and SIGKILL everywhere | 566 000 |
| `rw_lock` | writers exclude all | 3 scripts, nesting 2, PIDs used again twice, signals at every point but one ("What does not hold" below) | 619 000 |
| `rw_live` | files agree, nobody is blocked by a script that is gone, writers are not starved, promotion completes, the exit trap ends | 3 scripts (2 of them writers), nesting 2, scripts end outside the critical parts, fair | 42 000 |
| `mom_queue` | one wakeup per message, none is handled twice, refinement of `Channel`, a queued message is handled | 2 senders; 5 messages, or 3 with time limits and 2 restarts; fair | 54 000 |
| `mom_handlers` | most specific handler, accepted iff handled | 4 types, 3 handlers | 358 |
| `circd` | dependencies, mode off, reference counts and removal, every daemon is known to circd and belongs to a circuit that is up, stopped stays down, circd exits after its children, refinement of `CircuitStates` | 2 route circuits, one created at run time, ip scripts in any order; 2 pppd circuits, one with two protocols, daemons that crash, late queue processes; a server and its clone, forced hangups, shutdown | 1 706 000 |
| `circd_live` | hangup ends, down is carried out, shutdown completes, not online without daemon | 2 route circuits and shutdown; a pppd circuit over a route circuit whose script fails; 2 route circuits under users' requests and dial modes, with scripts that succeed; fair | 23 700 |
| `circd_drop_down` | (violation) down ends inactive | 1 route circuit: `down` during a hangup is forgotten, against the manual | |
| `imond_tables` | the route follows tariff and calendar, the printed table agrees with it | all files of two lines of a set of 144, years 2046 to 2080 with two configurations, changes of the clock | 236 000 |
| `imond` | counters, circuits, current view, session times, rights, the route follows the hour | 2 channels, 2 client slots, 15 configurations | 954 000 |
| `imond_link` | (violation) a second link comes after the bandwidth time | 2 calls with load: the second call gets its link too early | |
| `var_store` | bounds cover what was written, the check is complete, scripts keep the configuration | 9 configurations with arrays of one and two dimensions, explicit and implicit bounds and errors; 4 statements of scripts | 4 700 |

**Bounds.** Two circuits are enough for a dependency, a clone and its origin, and a
recursion through dependent circuits; four requests allow up, dial mode change,
hangup and a fourth that interferes. Two or three PIDs allow an old and a new daemon
of the same circuit. Two senders and a receiver give every overtaking of MomQueue;
five messages let the queue grow, empty and grow again. Nesting depth 2 tells the
first from a further hold. Symmetry is used for processes, PIDs and senders, never
in a run with a liveness property. `CHECK_DEADLOCK FALSE` stands where the system may
stop: requests are bounded, processes end, and a system without requests is idle.
In imond two channels are enough for a call that ends while another with the same
number begins, and for a bundle; two slots for one that is reused beside one in use;
three calls for one that is missed. The years 2046 to 2080 contain both
exceptions of the formula for Easter (2049 and 2076) and leap years on every weekday. In VarStore arrays of up to three elements and
two dimensions reach every branch of the resizing functions; four statements let a
script fill, clear and fill an array again after a request. No run has a server that
depends on another server, nor a class with two members; `circd_check_dependencies`
models both.

**What does not hold.** The runs above fix configurations that switch off some behaviours of
the code. Each of these behaviours breaks a property, which can be seen by changing the
configuration or adding the property to a configuration:

| Property | Fails when | Why |
| --- | --- | --- |
| `SyncLock!GoneHoldsNothing` | always (`sync_lock`) | a signal between `trap - ...` and `eval "$traps"` ends a script without its exit trap; the lock stays |
| `RwLock!WriterExcludesAll` | `"rd_total" \in SignalPoints` and `MaxReuse > 0` (two scripts and `{"idle", "rd_total"}` are enough) | a signal between the two writes of `sync_lock_resource_for_reading` (`locking.inc:239`, `:241`) leaves `readers-active.PID` behind, uncounted; a later script with that PID takes the branch of a nested read lock (`:224`, `:249`) and reads beside a writer, against the comment at `:196` ("all other processes have to wait"). With a signal before `:291` as well, the total may drop below zero (`TypeOK`) |
| `RwLock!BlockedOnlyByLive` | `"wr_wait" \in SignalPoints` | a signal while a writer waits leaves `writers-waiting` too high; readers are blocked for good |
| `RwLock!ExitTerminates` | `"ru_list"` or `"wu_list"` in `SignalPoints` | a signal in the middle of an unlock makes the loop of the exit trap endless |
| `MomQueue!NoLostWakeup` | `timedWait` | the receiver's own time limit kills the waiting child after it took the character |
| `MomQueue!NeverTakesFromEmpty` | `restarts = 1` | a wakeup of an endpoint's previous life makes the new one take from an empty queue |
| `Circd!DownEndsInactive` | `hangup` and `deactivate` requests (`circd_drop_down`) | `down` during a hangup is forgotten |
| `Circd!DownIsCarriedOut` | pppd circuits and changes of the dial mode | the next row: `down`, then mode off before the control script runs |
| `Circd!OffEndsDown` | pppd circuits | mode off before the control script runs: no daemon is started and the circuit stays ready |
| `Circd!HangupEnds` | `ScriptsInOrder = FALSE` | ip-down overtakes ip-up: online, and the hangup never ends |
| `Circd!StoppedStaysDown` | `DialMayFail` | a dial that fails during a hangup revives the circuit |
| `Circd!StoppedStaysDown` | a route circuit with two protocols | the hangup ends with the ip-down of the first; a late ip-up of the second takes the stopped circuit online |
| `Circd!ShutdownCompletes` | pppd circuits | a daemon requested just before shutdown is refused: the circuit stays ready, circd never exits |
| `Circd!ShutdownCompletes` | `PromptQueue = FALSE` | a quit message to a queue process that is still starting is lost |
| `Circd!DependeesOnline` | two protocols, a dependency on one | a lost protocol without a change of state does not hang up dependent circuits |
| `Circd!OnlineNeedsDaemon` | `DaemonMayCrash` | a daemon that dies without ip-down leaves the circuit online for good |
| `ImondTables!TimetableShowsRoute` without its restriction | LCR lines of two circuits share an hour | `find_circuit` takes the first line, `fill_time_table` keeps the last; the manual (`base_middle.tex:912`) says the route is picked from the table |
| `Imond!SessionTimeIsReal` without its restriction | `chrony` | chrony sets the clock and tells imond afterwards; a connection that begins or ends in between gets a wrong duration |
| the same | drivers are unloaded and `adjust-time` is used | `adjust-time` does not move the start time of a channel that is not active; when it comes back its duration is off |
| `Imond!LinkAfterBandwidthTime` | two calls (`imond_link`) | the time of high load is not reset at the end of a connection |
| `VarStore!UserConfigurationKept` | a script executes `set` on a configuration variable | `var_add_weak_declaration` (`V/libmkfli4l/var.c:782`) removes any variable of that name; the manual (`dev_main_modular.tex:1281`) says: "The variable can not be a configuration variable! ... Check scripts are not able to change the user configuration" |
| `VarStore!BoundCovers` | the variable that enables an array is assigned after its elements | while the array is disabled its bound reads `0`, and the element of a lower index shrinks the implicit bound: elements are lost without a message |
| `VarStore!BoundCovers` | a script splits into one of two arrays that share a bound | clearing the array sets the bound of the other to 0 |

The runs on liveness exclude, by their configurations, these causes and nothing else.
The safety configurations of `Circd` together have `PromptQueue`, `ScriptsInOrder` and
`DaemonMayCrash` in their unfavourable setting, `circd_live` has `DialMayFail`.
`DownIsCarriedOut` and `DownEndsInactive` differ in one premise, that the circuit is not
being hung up when `down` arrives: the first holds, the second does not. `rw_live` uses no
PID again: at its signal points a script leaves nothing behind (`FilesAreRight`, which is
proved with PIDs used again).

Met while modelling, and outside of the models:

* locks, messages, circd: `exec 9<>$fifo` between `mkdir` and `mknod` of
  `mom_create_endpoint` creates a regular file; `mom_fork_init` lets the child of a named
  endpoint ask for its parent's name; `circd_circuit_remove` reads `circ_class_$i` after
  the file is gone; clients stop waiting after `circd_timeout` seconds while circd still
  carries out the request; a killed circd leaves circuits, daemons and queue processes
  that `circd.state` does not describe; the lock around "test and register the bundle
  master" is named after the link.
* imond: a call whose number is in no line has circuit -1, and `measure_isdn_rates` reads
  `circuits[-1]`; the number of circuits is not compared with `MAX_CIRCUITS`; a call that
  ends and begins again between two snapshots keeps the old line; the second channel of a
  bundle gets line -1; `hangup` of a channel that was never used hangs up the circuit of
  the first line; a channel whose driver vanished stays counted as online; `dial` after
  the hour has changed and then `route` leaves two circuits dialled; `last_seconds` is
  not moved when the clock is set back; `receive` and `send` block the daemon; charges
  at a hangup use the duration that is not rounded; `add_days` tests month 1 for leap
  years (harmless for Easter's offsets, as `imond_tables` shows).
* mkfli4l: variables whose bound has a default above 0, and arrays that come from
  templates after the bound was set, have no slots, so that the check misses their
  elements; an explicit bound that is set before `[]` moves the next free index behind it;
  `set` on the bound of an array or on a variable of a condition leaves a dangling
  pointer; an optional bound below an implicit one ends in `my_assert`; a comment in
  `core.c` says the condition of an implicit bound is FALSE, it is TRUE; `x_%[0]` makes
  the index underflow.

## 4. Fairness

* `MomQueue`: weak fairness of the steps of a running process; the kernel schedules
  every process that can run.
* `RwLock`: strong fairness of the steps of a shell, because a shell polls a mutex that
  others keep taking and releasing (the code tries again every
  0.1 s, and the mutex is held for a few file operations only). Weak fairness of releases, and strong fairness of the release of the last lock:
  scripts bracket a finite piece of work with lock and unlock, they do not nest again
  and again for ever.
* `Circd`: weak fairness of circd. Strong fairness of queue processes, ip scripts and
  daemons that were told to end: in the program these can always run; in the model
  their steps are disabled while a handler runs or the bounded queue is full, so strong
  fairness gives back what the reduction took away. Nothing is assumed of clients, nor
  of daemons that were not told to end.

* `Imond`: weak fairness of reading a snapshot, of handling its channels and of the pass
  that looks at the route. imond is one process whose loop ends a pass every time; the
  pass that looks at the route needs a `select()` that times out, which comes because a
  configuration has finitely many calls and the clients send finitely often. How late it
  comes is not modelled. Nothing is assumed of clients or of the kernel.

## 5. Proofs

All theorems hold for every value of the constants that satisfies the named assumptions.
Each proof module begins with the parts of its inductive invariant; TLC checked the
invariant on the instance of the run before it was proved.

| Theorem | States | Of |
| --- | --- | --- |
| `TypeCorrect` | `[]TypeOK` | `SyncLock`, `RwLock`, `MomQueue`, `MomHandlers` |
| `LockIsExclusive` | `[]MutualExclusion` | `SyncLock` |
| `CountsMatch` | `[]CountMatchesList` | |
| `ExitTrapReleases` | `[]ExitReleasesAll` | |
| `RefinesMutex` | `ImplementsMutex` | |
| `WriterIsExclusive` | `[]WriterExcludesAll`, if `HarmlessReuse` (as `TypeCorrect`) | `RwLock` |
| `FilesAreRight` | `[]FilesAgree`, if `HarmlessSignals` | |
| `OnlyLiveScriptsBlock` | `[]BlockedOnlyByLive`, if `HarmlessSignals` | |
| `OneWakeup` | `[]OneWakeupPerMessage` | `MomQueue` |
| `CalmNeverLosesStep` | `[](Calm => NeverTakesFromEmpty /\ NoLostWakeup)` | |
| `NoDuplicates` | `[]HandledOnce` | |
| `QueueIsChannel` | `ImplementsChannel` | |
| `MostSpecificIsCalled` | `[]DispatchIsMostSpecific` | `MomHandlers` |
| `SendersAndReceiverAgree` | `[]AcceptedIffHandled` | |
| `Inductive` | `[](IInv /\ Removal)` | `Circd` |
| `RefcountsAreRight` | `[]RefcountIsRight` | |
| `RunningDaemonsAreKnown` | `[]DaemonsAreKnown` | |
| `TameCircuitsStayDown` | `TameStaysDown` | |
| `StoppedCircuitsStayDown` | `StoppedStaysDown`, if `Circuit \subseteq Tame` | |
| `CircdImplementsCircuitStates` | `ImplementsCircuitStates`, if `Circuit \subseteq Tame` | |
| `DutiesAreDone` | `[]Duties` | |
| `TameCircuitsObeyModes` | `[]TameObey` | |
| `TameCircuitsObeyDependencies` | `[]TameDepend` | |
| `ModesAreObeyed` | `[]OffMeansDown`, if `Circuit \subseteq Tame` | |
| `DependenciesAreObeyed` | `[]DependenciesHold`, if `Circuit \subseteq Tame` | |
| `ChildrenEndFirst` | `[]ExitsAfterChildren` | |
| `TypeCorrect` | `[]TypeOK` | |
| `CountersAreRight` | `[]OnlineCountIsRight` | `Imond` |
| `CircuitsAreRight` | `[]CircuitOnlineMatches` | |
| `ViewIsRight` | `[]ViewIsCurrent` | |
| `DurationsAreRight` | `[]SessionTimeIsReal` | |
| `RightsAreKept` | `CommandsNeedRights` | |
| `TimetableIsRight` | `[]TimetableShowsRoute` | `ImondTables` |
| `RouteIsRight` | `[]RouteFollowsTariff`, if `CalendarAgrees` | |

**SyncLock**: any sets of processes and resources, with signals, SIGKILL and reused
PIDs; `NoProc \notin Proc`, `MaxDepth` positive, `SigKill` Boolean. None of the
properties is inductive. A lock is recorded in three places, the link,
the count file and the list of the shell, and they are updated one by one. `IInv`
says how far they may differ at each control point: `ListHasLink` (the list names only
resources whose link is the process's own, except while it removes the last hold),
`ListBelowCount` (the count may be too high, never too low), `OldFileIsOne` (a file
left behind by a killed process holds 1), `ControlInv` (what a process knows at each
control point of the two functions) and `CleanInv` (without kills, count and list are
equal). Mutual exclusion follows because the link has one target. The proof that
`Next` preserves `IInv` has one step per action. The refinement maps the owner to the
target of the link once its count file exists, and the depth to the count.

**RwLock**: any finite set of scripts, any number of reused PIDs. Two invariants. `Safe`:
the number in `readers-active` is at least the number of readers that are counted in it
(`ReadersCounted`), the files of each running script name at least the locks in its lists,
but for the one being written (`ListsCovered`), and beside a writer there is no file of a
reader but one that is `Left` behind, uncounted (`WriterAlone`). A number that is too high
keeps writers out. A file that is left behind is harmless as long as no script has its PID:
`Safe` needs `HarmlessReuse`, that is, no PID is used again, or no signal comes between the
two writes of `sync_lock_resource_for_reading`; section 3 shows that this is
needed. At all other points signals may come and PIDs be used again. `Exact` adds
the other direction, with equations in place of inequalities, and needs
`HarmlessSignals`: no signal comes inside a critical section or while a writer waits.
Section 3 shows what happens without it.

**MomQueue**: any finite set of senders, any number of messages and restarts. `InStep` is
the arithmetic of a calm endpoint: `begin` plus the wakeups under way is `end`, and the
queue has no gaps. `Unique` says that a message is in one place (with its sender, in one
file, or handled), and holds with every time limit and restart. The refinement maps the
pending messages of the channel to the files between `begin` and `end`; of the
configurations that are not calm it says nothing, since they do lose messages.

**MomHandlers**: any set of types and handlers. `Sorted`: no handler stands before one
for a more specific type; that insertion keeps it needs that types above a common one
are above one another and that the tree has no cycle (`UpOrder`, from a rank that grows
with each `mom_register_message_type`). `InStep`: for each type there are as many lines
in the interface as handlers in the list, which is what makes "remove the first line
with the type" right. `mom_get_message_type_supertypes` is recursive; `SupertypesAreUp`
proves that it computes the types above a type, by the least rank at which it would not.

**Circd**: any finite number of circuits, protocols and PIDs, any dependencies, clones, dial
modes, requests, failing control scripts and crashes of daemons. A circuit is `Tame` if a
daemon controls it, or if it is a route circuit with one protocol whose control
scripts succeed. On the others a report can come late, and the table of section 3 shows
`StoppedStaysDown` fail for both kinds of them. So the parts of `IInv` that such a
report breaks are stated of tame circuits only, and the proof shows that a circuit that is
not tame never disturbs a tame one. What is said of the references, daemons, children
and types holds of all circuits. `IInv` has four groups of parts.

* `Sources` and `Exclusive`: what can bring a circuit up (an operation of its queue
  process, a request for a daemon, the daemon, an ip-up report) is in one place at a time,
  and only while the circuit is up. This is said of tame circuits; the others are
  route circuits, which have no daemon.
* `Mail` and `MailOrder`: the reports of a daemon come before the message about its end.
* `Shape` and `TopOK`: a call that changes the state of a circuit is on top of the stack.
  So nothing runs between the check of its caller and its effect, although each function
  is a step of its own and calls others before it goes on.
* `Refs`: `circ_refcount` is the circuit itself, plus the daemons whose end has not been
  handled, plus the decrease that an unfinished hangup still owes. This is why the count
  is right between messages and wrong within them. `Removal` adds that a circuit
  without a reference has its removal on the stack. It is an invariant of its own,
  inductive relative to `IInv`.

There is one lemma per action, and one per kind of call on the stack. The refinement
needs `TopOK` for nearly each transition of the manual's table, since
`circd_change_state` itself checks nothing.

**CircdDuties** (`Duties`, on top of `IInv`): `Watched` says that a circuit that lost its
mode or a circuit it depends on, and is not being hung up, has a call on the stack that
will look after it. `AllFit` says that the calls below it do no harm meanwhile: only
circuits that may be up are dialled, and the operation `hangup` is not cleared before
the circuit is down or may be up again. `LeavingAlone` says that while a circuit is taken
down, only the rest of that hangup waits on the stack. When circd is idle the stack
is empty, and both properties are what is left of `Watched`. `Watched` is about tame
circuits: a failed dial attempt clears whatever operation the circuit has, a hangup too.
A circuit that is not tame also makes `circd_is_online` answer from protocols that are
about to be reported down, so `TameDepend` leaves out dependencies on such circuits.

For the end of circd, `Counted` says that `circd_children` has one entry for
each queue process and daemon wrapper that runs, and one for each message about the end
of one that waits for circd. When `circd_check_exit` finds it empty, all have ended, and since circd
handles no more messages, none is started. `TypeCorrect` needs `IInv` for the reference
counts, which `circd_unref` decreases without looking, and `Counted` for the children.

**Imond**: any finite numbers of channels and client slots, any configuration whose lines
have the types of `imond.conf` (`ConfigAssumption`). `Books` (counter, LED and circuits agree with the
booked channels) is kept by the loop body of `read_info` because a channel is booked to
a circuit that is offline and given back exactly once, also when its call ended and the
next one began unseen. `View` says that the channels before `todo` are as the snapshot
has them, and that the snapshot is the kernel's state unless there is news. `Clientele`
says that `password_state` of a connected client allows nothing the client has not
shown the password for. `Durations` needs `OwnClock`, which the proof attempt brought
up: `adjust-time` (`imond.c:4610`) passes over channels that are not active, so a channel
whose driver is unloaded, and which comes back with a connection, has a start time
that is off. The property had been stated without that premise, and the run, which had no
configuration with both, did not show it. `StartsInRange` is a bound of the model: no
change of the clock takes a start time to 0 or below, since 0 means offline
in the code.

**ImondTables**: any `imond.conf` whose lines have the weekdays and hours the build
accepts (`FilesAssumption`; `CIRC_HOUR`, `circuits.exp:24`), any years. `FillDaysMarks`
is the heart: the loop over the days of a line, with its wrap-around at the end of the
week and in the night, marks exactly the hours the line covers. The loop takes at most
seven rounds, so what it computes can be proved round by round. `LookupIsFirst`: the scan
of `find_circuit` ends at the first LCR line of the hour. `TypeAndTables` is the
inductive invariant: lines as read, the timetable shows some LCR line of each hour that has one,
the cache of holidays is that of its year. `RouteIsRight` leaves one thing to TLC:
`CalendarAgrees`, that Easter and `add_days` give the calendar's holidays. It is
arithmetic without an argument, and an assumption of the run `imond_tables`, where
TLC computes it for every day of the 35 years.

**Only model-checked**:

* all liveness properties (with `RouteFollowsTimetable`), which are out of the prover's reach, as is `ENABLED`;
* what happens to route circuits that are not `Tame`, apart from their references,
  daemons, children and types: `circd_live` has one whose control script may fail;
* `VarStore`: reading, writing, resizing and defining call one another along the bounds
  of the dimensions, without a limit on their number, so that what they compute would
  take an induction; the `RECURSIVE` operators follow that recursion;
* the formula for Easter (`CalendarAgrees`).

## 6. How to run

```
tlc -workers 2 -config MCCircd.cfg MCCircd
tlapm Imond_proofs.tla
```

`PROJECT.json` lists the runs, the map from definitions to source lines, the mutants
that show each property can fail, hazards, findings and theorems.

## 7. Plan

Done, in this order: locks (most is built on them), messages, circd with daemons,
clones and shutdown, imond, the variable store. Next:

1. `Bundle`: links, masters and pseudo bundles of `bundle-common` and `ip-up-down`;
   bundles in the weak dependencies of `Circd`.
2. `CircdRestart`: `circd.state`, `circd_activate` and `circd_fail`, what a restart
   finds; the regular and the unexpected end of circd.
3. `MomCall`: requests with replies, nested message loops, time limits, broadcast and
   subscriptions, endpoints of forked children.
4. Templates of variables, conditions on elements of arrays; `Atd`: timed jobs.
