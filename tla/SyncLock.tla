------------------------------ MODULE SyncLock ------------------------------
(***************************************************************************)
(* The exclusive, re-entrant file locks of                                 *)
(*     src/packages/base/opt/etc/boot.d/locking.inc                        *)
(* at the level of the file system calls the shell makes.                  *)
(*                                                                         *)
(* A resource r is locked while the symbolic link fli4l-r.lock exists.  It *)
(* points to the file fli4l-r.PID of its locker, which holds the number of *)
(* times the locker took the lock.  `ln -s` is the only atomic step; the   *)
(* rest is a sequence of tests, reads and writes that the steps of other   *)
(* processes come between.                                                 *)
(*                                                                         *)
(* The functions ignore the catchable signals while they work, go back to  *)
(* the default dispositions (`trap - ...`) and only then reinstall the     *)
(* script's traps (`eval "$traps"`).  What a signal does depends on where  *)
(* it meets the process: see Signal.                                       *)
(***************************************************************************)
EXTENDS Naturals

CONSTANTS Proc,       \* PIDs; a PID is used again after its process ended
          Res,        \* resource names
          NoProc,     \* no locker
          MaxDepth,   \* bound: the largest count a lock may reach by nesting
          SigKill     \* whether processes may be ended by SIGKILL

ASSUME NoProcAssumption   == NoProc \notin Proc
ASSUME MaxDepthAssumption == MaxDepth \in Nat \ {0}
ASSUME SigKillAssumption  == SigKill \in BOOLEAN

VARIABLES
  link,      \* link[r]: target of fli4l-r.lock, NoProc if the link is missing
  pidfile,   \* pidfile[p][r]: content of fli4l-r.p, 0 if the file is missing
  held,      \* held[p][r]: occurrences of r in p's sync_locked_resources
  count,     \* count[p]: the local variable of the running lock function
  pc,        \* pc[p]: the next step of p
  res,       \* res[p]: $1 of the running lock function
  status,    \* status[p]: life cycle of the process with PID p
  killed     \* history: PIDs of processes that ended without their exit trap

vars == <<link, pidfile, held, count, pc, res, status, killed>>

(***************************************************************************)
(* Control points.  "idle": the script's own code or its exit trap, the    *)
(* traps installed; "sleep": sync_lock_resource between two tries.         *)
(* "lk_*": sync_try_lock_resource, "un_*": sync_unlock_resource, both with *)
(* signals ignored, except for the points in Reset, which lie between      *)
(* `trap - ...` and `eval "$traps"`.                                       *)
(***************************************************************************)
Masked   == {"lk_ln", "lk_test", "lk_readlink", "lk_write",
             "un_test", "un_readlink", "un_rmlink", "un_rmfile", "un_write"}
Reset    == {"lk_fail", "lk_done", "un_done"}
Handling == {"idle", "sleep"}

Statuses == {"unborn", "running", "exiting", "exited", "dead"}

Alive(p) == status[p] \in {"running", "exiting"}

TypeOK ==
  /\ link \in [Res -> Proc \cup {NoProc}]
  /\ pidfile \in [Proc -> [Res -> Nat]]
  /\ held \in [Proc -> [Res -> Nat]]
  /\ count \in [Proc -> Nat]
  /\ pc \in [Proc -> Masked \cup Reset \cup Handling]
  /\ res \in [Proc -> Res]
  /\ status \in [Proc -> Statuses]
  /\ killed \in SUBSET Proc

Init ==
  /\ link = [r \in Res |-> NoProc]
  /\ pidfile = [p \in Proc |-> [r \in Res |-> 0]]
  /\ held = [p \in Proc |-> [r \in Res |-> 0]]
  /\ count = [p \in Proc |-> 0]
  /\ pc = [p \in Proc |-> "idle"]
  /\ res \in [Proc -> Res]
  /\ status = [p \in Proc |-> "unborn"]
  /\ killed = {}

-----------------------------------------------------------------------------
Goto(p, l) == pc' = [pc EXCEPT ![p] = l]

\* sync_init, run when the library is loaded and in every forked child: the
\* process starts with empty lists, whatever files an earlier process with the
\* same PID left behind.
sync_init(p) ==
  /\ ~ Alive(p)
  /\ status' = [status EXCEPT ![p] = "running"]
  /\ held' = [held EXCEPT ![p] = [r \in Res |-> 0]]
  /\ Goto(p, "idle")
  /\ UNCHANGED <<link, pidfile, count, res, killed>>

-----------------------------------------------------------------------------
(* sync_lock_resource / sync_try_lock_resource                             *)

\* A script asks for r: `trap "" ...`, count=0.
CallLock(p, r) ==
  /\ status[p] = "running" /\ pc[p] = "idle"
  /\ pidfile[p][r] < MaxDepth
  /\ res' = [res EXCEPT ![p] = r]
  /\ count' = [count EXCEPT ![p] = 0]
  /\ Goto(p, "lk_ln")
  /\ UNCHANGED <<link, pidfile, held, status, killed>>

\* Mutant: `ln -sf`, which replaces an existing link
LnLock_Force(p) ==
  /\ Alive(p) /\ pc[p] = "lk_ln"
  /\ link' = [link EXCEPT ![res[p]] = p]
  /\ Goto(p, "lk_write")
  /\ UNCHANGED <<pidfile, held, count, res, status, killed>>

\* ln -s "$pidfile" "/var/lock/fli4l-$1.lock"
LnLock(p) ==
  LET r == res[p] IN
  /\ Alive(p) /\ pc[p] = "lk_ln"
  /\ \/ /\ link[r] = NoProc
        /\ link' = [link EXCEPT ![r] = p]
        /\ Goto(p, "lk_write")
     \/ /\ link[r] # NoProc
        /\ Goto(p, "lk_test")
        /\ UNCHANGED link
  /\ UNCHANGED <<pidfile, held, count, res, status, killed>>

\* [ -f "$lockfile" ] follows the link: false while the locker has not written
\* its count yet.
LockFileExists(r) == link[r] # NoProc /\ pidfile[link[r]][r] > 0

\* The test in sync_get_locker, for the lock and the unlock function
TestLocker(p) ==
  /\ Alive(p)
  /\ \/ /\ pc[p] = "lk_test"
        /\ Goto(p, IF LockFileExists(res[p]) THEN "lk_readlink" ELSE "lk_fail")
     \/ /\ pc[p] = "un_test"
        /\ Goto(p, IF LockFileExists(res[p]) THEN "un_readlink" ELSE "un_done")
  /\ UNCHANGED <<link, pidfile, held, count, res, status, killed>>

\* The readlink in sync_get_locker, which may meet another link than the test
\* did or none, and the comparison of the locker with $PID; if it is us, the
\* count is read.
ReadLinkLock(p) ==
  LET r == res[p] IN
  /\ Alive(p) /\ pc[p] = "lk_readlink"
  /\ \/ /\ link[r] = p
        /\ count' = [count EXCEPT ![p] = pidfile[p][r]]
        /\ Goto(p, "lk_write")
     \/ /\ link[r] # p
        /\ Goto(p, "lk_fail")
        /\ UNCHANGED count
  /\ UNCHANGED <<link, pidfile, held, res, status, killed>>

\* echo $((count+1)) > "$pidfile", then the list, then `trap - ...`
WriteLock(p) ==
  LET r == res[p] IN
  /\ Alive(p) /\ pc[p] = "lk_write"
  /\ pidfile' = [pidfile EXCEPT ![p][r] = count[p] + 1]
  /\ held' = [held EXCEPT ![p][r] = @ + 1]
  /\ Goto(p, "lk_done")
  /\ UNCHANGED <<link, count, res, status, killed>>

\* `eval "$traps"`, return to the caller
RestoreTraps(p) ==
  /\ Alive(p) /\ pc[p] \in Reset
  /\ Goto(p, IF pc[p] = "lk_fail" THEN "sleep" ELSE "idle")
  /\ UNCHANGED <<link, pidfile, held, count, res, status, killed>>

\* usleep is over, the next try begins
Retry(p) ==
  /\ Alive(p) /\ pc[p] = "sleep"
  /\ count' = [count EXCEPT ![p] = 0]
  /\ Goto(p, "lk_ln")
  /\ UNCHANGED <<link, pidfile, held, res, status, killed>>

-----------------------------------------------------------------------------
(* sync_unlock_resource                                                    *)

\* A script releases r, whether it holds it or not.
CallUnlock(p, r) ==
  /\ status[p] = "running" /\ pc[p] = "idle"
  /\ res' = [res EXCEPT ![p] = r]
  /\ Goto(p, "un_test")
  /\ UNCHANGED <<link, pidfile, held, count, status, killed>>

\* Mutant: the locker is not compared with $PID
ReadLinkUnlock_Anyone(p) ==
  LET n == pidfile[p][res[p]] - 1 IN
  /\ Alive(p) /\ pc[p] = "un_readlink"
  /\ count' = [count EXCEPT ![p] = n]
  /\ Goto(p, IF n = 0 THEN "un_rmlink" ELSE "un_write")
  /\ UNCHANGED <<link, pidfile, held, res, status, killed>>

\* Mutant: the comparison with 0 is off by one, a nested lock is given up early
ReadLinkUnlock_OffByOne(p) ==
  LET r == res[p]
      n == pidfile[p][r] - 1 IN
  /\ Alive(p) /\ pc[p] = "un_readlink" /\ link[r] = p
  /\ count' = [count EXCEPT ![p] = n]
  /\ Goto(p, IF n <= 1 THEN "un_rmlink" ELSE "un_write")
  /\ UNCHANGED <<link, pidfile, held, res, status, killed>>

\* readlink as above; read count < "$pidfile"; count=$((count-1)).  If we are
\* not the locker an error is logged and the lists stay as they are.
ReadLinkUnlock(p) ==
  LET r == res[p]
      n == pidfile[p][r] - 1 IN
  /\ Alive(p) /\ pc[p] = "un_readlink"
  /\ \/ /\ link[r] = p
        /\ count' = [count EXCEPT ![p] = n]
        /\ Goto(p, IF n = 0 THEN "un_rmlink" ELSE "un_write")
     \/ /\ link[r] # p
        /\ Goto(p, "un_done")
        /\ UNCHANGED count
  /\ UNCHANGED <<link, pidfile, held, res, status, killed>>

\* rm -f "/var/lock/fli4l-$1.lock" "$pidfile": first the link, ...
RmLink(p) ==
  /\ Alive(p) /\ pc[p] = "un_rmlink"
  /\ link' = [link EXCEPT ![res[p]] = NoProc]
  /\ Goto(p, "un_rmfile")
  /\ UNCHANGED <<pidfile, held, count, res, status, killed>>

\* sync_locked_resources=${sync_locked_resources/ $1 / }
DropFromList(p, r) == held' = [held EXCEPT ![p][r] = IF @ > 0 THEN @ - 1 ELSE 0]

\* Mutant: only the link is removed
RmFile_Keep(p) ==
  /\ Alive(p) /\ pc[p] = "un_rmfile"
  /\ DropFromList(p, res[p])
  /\ Goto(p, "un_done")
  /\ UNCHANGED <<link, pidfile, count, res, status, killed>>

\* ... then the file.
RmFile(p) ==
  LET r == res[p] IN
  /\ Alive(p) /\ pc[p] = "un_rmfile"
  /\ pidfile' = [pidfile EXCEPT ![p][r] = 0]
  /\ DropFromList(p, r)
  /\ Goto(p, "un_done")
  /\ UNCHANGED <<link, count, res, status, killed>>

\* echo $count > "$pidfile"
WriteUnlock(p) ==
  LET r == res[p] IN
  /\ Alive(p) /\ pc[p] = "un_write"
  /\ pidfile' = [pidfile EXCEPT ![p][r] = count[p]]
  /\ DropFromList(p, r)
  /\ Goto(p, "un_done")
  /\ UNCHANGED <<link, count, res, status, killed>>

-----------------------------------------------------------------------------
(* Termination                                                             *)

\* A script reaches its end or calls exit; the shell runs the exit trap.
Exit(p) ==
  /\ status[p] = "running" /\ pc[p] = "idle"
  /\ status' = [status EXCEPT ![p] = "exiting"]
  /\ UNCHANGED <<link, pidfile, held, count, pc, res, killed>>

\* sync_unlock_all_resources: the next resource of the list
ExitUnlock(p, r) ==
  /\ status[p] = "exiting" /\ pc[p] = "idle"
  /\ held[p][r] > 0
  /\ res' = [res EXCEPT ![p] = r]
  /\ Goto(p, "un_test")
  /\ UNCHANGED <<link, pidfile, held, count, status, killed>>

\* Mutant: the loop ends as soon as a resource is held at most once
ExitDone_OnePass(p) ==
  /\ status[p] = "exiting" /\ pc[p] = "idle"
  /\ \E r \in Res : held[p][r] <= 1
  /\ status' = [status EXCEPT ![p] = "exited"]
  /\ UNCHANGED <<link, pidfile, held, count, pc, res, killed>>

\* sync_unlock_all_resources is done: the list is empty.
ExitDone(p) ==
  /\ status[p] = "exiting" /\ pc[p] = "idle"
  /\ \A r \in Res : held[p][r] = 0
  /\ status' = [status EXCEPT ![p] = "exited"]
  /\ UNCHANGED <<link, pidfile, held, count, pc, res, killed>>

Die(p) == /\ status' = [status EXCEPT ![p] = "dead"]
          /\ killed' = killed \cup {p}
          /\ UNCHANGED <<link, pidfile, held, count, pc, res>>

\* A catchable signal.  exit_trap_call_on_signal exits, which runs the exit
\* trap, unless the shell is in it already: it is not run a second time.  With
\* the default disposition the shell dies on the spot.  At the points in
\* Masked the signal is lost.
Signal(p) ==
  /\ Alive(p)
  /\ \/ /\ pc[p] \in Handling /\ status[p] = "running"
        /\ status' = [status EXCEPT ![p] = "exiting"]
        /\ Goto(p, "idle")
        /\ UNCHANGED <<link, pidfile, held, count, res, killed>>
     \/ /\ \/ pc[p] \in Handling /\ status[p] = "exiting"
           \/ pc[p] \in Reset
        /\ Die(p)

\* SIGKILL, power of the kernel (e.g. out of memory)
Kill9(p) == SigKill /\ Alive(p) /\ Die(p)

-----------------------------------------------------------------------------
\* The steps a running shell takes by itself
Step(p) == \/ LnLock(p) \/ TestLocker(p) \/ ReadLinkLock(p) \/ WriteLock(p)
           \/ RestoreTraps(p) \/ Retry(p)
           \/ ReadLinkUnlock(p) \/ RmLink(p) \/ RmFile(p) \/ WriteUnlock(p)
           \/ (\E r \in Res : ExitUnlock(p, r)) \/ ExitDone(p)

Next == \E p \in Proc :
          \/ sync_init(p)
          \/ \E r \in Res : CallLock(p, r) \/ CallUnlock(p, r)
          \/ Step(p)
          \/ Exit(p) \/ Signal(p) \/ Kill9(p)

Spec == Init /\ [][Next]_vars

-----------------------------------------------------------------------------
(* Properties                                                              *)

\* p's own code runs in the belief that it holds r.
InCS(p, r) == Alive(p) /\ pc[p] \in Handling /\ held[p][r] > 0

\* Mutual exclusion: never do two live processes both believe they hold the
\* same resource, whoever was killed in between and whatever it left behind.
MutualExclusion ==
  \A p, q \in Proc : \A r \in Res : InCS(p, r) /\ InCS(q, r) => p = q

\* The lock count in the file agrees with the list of the process it belongs
\* to.  If it did not, the exit trap would leave the lock behind or loop.  A
\* PID that was killed before may carry an old count along.
CountMatchesList ==
  \A p \in Proc \ killed : \A r \in Res :
    /\ pc[p] \in Handling \cup Reset /\ Alive(p) =>
         pidfile[p][r] = held[p][r] /\ (held[p][r] > 0 <=> link[r] = p)

\* A process that ended through its exit trap holds nothing any more.
ExitReleasesAll ==
  \A p \in Proc \ killed : status[p] = "exited" =>
    \A r \in Res : link[r] # p /\ pidfile[p][r] = 0

\* "Unlocks all resources currently held.  Used at shell exit in order to avoid
\* deadlocks due to scripts terminating in an unexpected way": no process that
\* is gone holds a lock.
GoneHoldsNothing ==
  \A p \in Proc : ~ Alive(p) => \A r \in Res : link[r] # p

\* The lock implements the abstract one: the owner is the target of the link
\* once the count is written.
LockOwner == [r \in Res |-> IF LockFileExists(r) THEN link[r] ELSE NoProc]
LockDepth == [r \in Res |-> IF LockFileExists(r) THEN pidfile[link[r]][r] ELSE 0]

M == INSTANCE Mutex WITH owner <- LockOwner, depth <- LockDepth

ImplementsMutex == M!MSpec
=============================================================================
