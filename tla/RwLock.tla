------------------------------- MODULE RwLock -------------------------------
(***************************************************************************)
(* The reader/writer locks of                                              *)
(*     src/packages/base/opt/etc/boot.d/locking.inc                        *)
(* for one resource, and the discipline in which                           *)
(*     src/packages/base/opt/usr/share/circuits/api                        *)
(* uses them: circuit_lock takes an exclusive lock before the read lock, so *)
(* that its holder may promote the read lock to a write lock.              *)
(*                                                                         *)
(* The lock is a handful of files that are only touched while the mutex    *)
(* "$1:mutex" is held.  The mutex and the exclusive lock are those         *)
(* SyncLock describes, by what Mutex promises.  The mutex keeps other      *)
(* processes out, but not signals: a function is cut wherever a signal     *)
(* that ends the script leaves something different behind.  A poll that    *)
(* finds the lock taken changes nothing and is not a step.                 *)
(***************************************************************************)
EXTENDS Naturals, FiniteSets

CONSTANTS Proc,          \* PIDs of the scripts using the resource
          NoProc,        \* nobody
          Writers,       \* the scripts that ever ask for the write lock
          MaxDepth,      \* bound: nesting of each kind of lock
          SignalPoints,  \* the control points at which signals may arrive
          MaxReuse       \* bound: how often a script gets the PID of one that
                         \* has ended

ASSUME ProcAssumption     == IsFiniteSet(Proc)
ASSUME NoProcAssumption   == NoProc \notin Proc
ASSUME WritersAssumption  == Writers \subseteq Proc
ASSUME MaxDepthAssumption == MaxDepth \in Nat \ {0}
ASSUME MaxReuseAssumption == MaxReuse \in Nat

VARIABLES
  mutex,     \* owner of "$1:mutex"
  excl,      \* owner of the exclusive lock "$1" circuit_lock takes
  depth,     \* how often the owner of excl took it
  own,       \* own[p]: content of readers-active.p, 0 if the file is missing
  total,     \* content of readers-active, 0 if it is empty or missing
  writer,    \* first field of writer-active, NoProc if the file is empty
  wcount,    \* second field of writer-active
  waiting,   \* content of writers-waiting, 0 if it is empty or missing
  rlist,     \* rlist[p]: occurrences in p's sync_read_locked_resources
  wlist,     \* wlist[p]: occurrences in p's sync_write_locked_resources
  pc,        \* pc[p]: the next step of p
  unguard,   \* unguard[p]: circuit_unlock is to release excl afterwards
  status,    \* status[p]: "running", "exiting" or "exited"
  reused     \* how often a PID has been used again

locks == <<mutex, excl, depth>>
files == <<own, total, writer, wcount, waiting>>
lists == <<rlist, wlist>>
scripts == <<unguard, status, reused>>
vars == <<locks, files, lists, pc, scripts>>

ControlPoints == {"idle",
                  "rd", "rd_total", "rd_list",       \* ..._for_reading
                  "ru", "ru_total", "ru_list",       \* unlock ..._for_reading
                  "wr", "wr_wait", "wr_dec", "wr_list",  \* ..._for_writing
                  "wu", "wu_list",                   \* unlock ..._for_writing
                  "cl", "cu"}                        \* circuit_lock/unlock

ASSUME SignalPointsAssumption == SignalPoints \subseteq ControlPoints

TypeOK ==
  /\ mutex \in Proc \cup {NoProc}
  /\ excl \in Proc \cup {NoProc} /\ depth \in Nat
  /\ own \in [Proc -> Nat] /\ total \in Nat
  /\ writer \in Proc \cup {NoProc} /\ wcount \in Nat
  /\ waiting \in Nat
  /\ rlist \in [Proc -> Nat] /\ wlist \in [Proc -> Nat]
  /\ pc \in [Proc -> ControlPoints]
  /\ unguard \in [Proc -> BOOLEAN]
  /\ status \in [Proc -> {"running", "exiting", "exited"}]
  /\ reused \in Nat

Zero == [p \in Proc |-> 0]

Init ==
  /\ mutex = NoProc /\ excl = NoProc /\ depth = 0
  /\ own = Zero /\ total = 0
  /\ writer = NoProc /\ wcount = 0
  /\ waiting = 0
  /\ rlist = Zero /\ wlist = Zero
  /\ pc = [p \in Proc |-> "idle"]
  /\ unguard = [p \in Proc |-> FALSE]
  /\ status = [p \in Proc |-> "running"]
  /\ reused = 0

-----------------------------------------------------------------------------
Goto(p, l) == pc' = [pc EXCEPT ![p] = l]

At(p, l) == status[p] # "exited" /\ pc[p] = l

LockMutex(p)   == mutex = NoProc /\ mutex' = p /\ UNCHANGED <<excl, depth>>
UnlockMutex(p) == mutex = p /\ mutex' = NoProc /\ UNCHANGED <<excl, depth>>

-----------------------------------------------------------------------------
(* sync_lock_resource_for_reading                                          *)

\* We are a reader already: only our own count grows.
ReadAgain(p) ==
  /\ At(p, "rd") /\ own[p] > 0
  /\ LockMutex(p)
  /\ own' = [own EXCEPT ![p] = @ + 1]
  /\ Goto(p, "rd_list")
  /\ UNCHANGED <<total, writer, wcount, waiting, lists, scripts>>

\* Mutant: the reader does not look at the waiting writers
ReadTake_IgnoreWaiting(p) ==
  /\ At(p, "rd") /\ own[p] = 0 /\ writer = NoProc
  /\ LockMutex(p)
  /\ own' = [own EXCEPT ![p] = 1]
  /\ Goto(p, "rd_total")
  /\ UNCHANGED <<total, writer, wcount, waiting, lists, scripts>>

\* The loop ends: no writer is active and none is waiting.
ReadTake(p) ==
  /\ At(p, "rd") /\ own[p] = 0
  /\ writer = NoProc /\ waiting = 0
  /\ LockMutex(p)
  /\ own' = [own EXCEPT ![p] = 1]
  /\ Goto(p, "rd_total")
  /\ UNCHANGED <<total, writer, wcount, waiting, lists, scripts>>

ReadTotal(p) ==
  /\ At(p, "rd_total")
  /\ total' = total + 1
  /\ Goto(p, "rd_list")
  /\ UNCHANGED <<locks, own, writer, wcount, waiting, lists, scripts>>

\* The list, then the mutex
ReadList(p) ==
  /\ At(p, "rd_list")
  /\ rlist' = [rlist EXCEPT ![p] = @ + 1]
  /\ UnlockMutex(p)
  /\ Goto(p, "idle")
  /\ UNCHANGED <<files, wlist, scripts>>

-----------------------------------------------------------------------------
(* sync_unlock_resource_for_reading                                        *)

\* Mutant: a nested read lock counts in the total, too
ReadDrop_Nested(p) ==
  /\ At(p, "ru") /\ own[p] > 0
  /\ LockMutex(p)
  /\ own' = [own EXCEPT ![p] = @ - 1]
  /\ Goto(p, "ru_total")
  /\ UNCHANGED <<total, writer, wcount, waiting, lists, scripts>>

\* The own count goes down; at 0 its file goes away.
ReadDrop(p) ==
  /\ At(p, "ru") /\ own[p] > 0
  /\ LockMutex(p)
  /\ own' = [own EXCEPT ![p] = @ - 1]
  /\ Goto(p, IF own[p] = 1 THEN "ru_total" ELSE "ru_list")
  /\ UNCHANGED <<total, writer, wcount, waiting, lists, scripts>>

ReadUntotal(p) ==
  /\ At(p, "ru_total")
  /\ total' = total - 1
  /\ Goto(p, "ru_list")
  /\ UNCHANGED <<locks, own, writer, wcount, waiting, lists, scripts>>

ReadUnlist(p) ==
  /\ At(p, "ru_list")
  /\ rlist' = [rlist EXCEPT ![p] = IF @ > 0 THEN @ - 1 ELSE 0]
  /\ UnlockMutex(p)
  /\ Goto(p, IF unguard[p] THEN "cu" ELSE "idle")
  /\ UNCHANGED <<files, wlist, scripts>>

\* Not locked by us: an error is logged, nothing changes.
ReadUnlockError(p) ==
  /\ At(p, "ru") /\ own[p] = 0 /\ mutex = NoProc
  /\ Goto(p, IF unguard[p] THEN "cu" ELSE "idle")
  /\ UNCHANGED <<locks, files, lists, scripts>>

-----------------------------------------------------------------------------
(* sync_lock_resource_for_writing                                          *)

\* Mutant: the number of readers is not checked
can_take_AnyNumber(p) == total > 0 => own[p] > 0

\* Mutant: no lock promotion
can_take_NoPromotion(p) == total = 0

\* sync_can_take_write_lock: there is no reader or we are the only one.
sync_can_take_write_lock(p) == total > 0 => own[p] > 0 /\ total = 1

\* We are the writer already.
WriteAgain(p) ==
  /\ At(p, "wr") /\ writer = p
  /\ LockMutex(p)
  /\ wcount' = wcount + 1
  /\ Goto(p, "wr_list")
  /\ UNCHANGED <<own, total, writer, waiting, lists, scripts>>

\* The lock is free at the first attempt ...
WriteTake(p) ==
  /\ At(p, "wr")
  /\ writer = NoProc /\ sync_can_take_write_lock(p)
  /\ LockMutex(p)
  /\ writer' = p /\ wcount' = 1
  /\ Goto(p, "wr_list")
  /\ UNCHANGED <<own, total, waiting, lists, scripts>>

\* ... or we are counted as a waiting writer and give the mutex back ...
WriteEnqueue(p) ==
  /\ At(p, "wr") /\ mutex = NoProc
  /\ IF writer # NoProc THEN writer # p ELSE ~ sync_can_take_write_lock(p)
  /\ waiting' = waiting + 1
  /\ Goto(p, "wr_wait")
  /\ UNCHANGED <<locks, own, total, writer, wcount, lists, scripts>>

\* Mutant: the writer is not taken off the waiting writers
WriteGrant_StayQueued(p) ==
  /\ At(p, "wr_wait")
  /\ writer = NoProc /\ sync_can_take_write_lock(p)
  /\ LockMutex(p)
  /\ writer' = p /\ wcount' = 1
  /\ Goto(p, "wr_list")
  /\ UNCHANGED <<own, total, waiting, lists, scripts>>

\* ... until it is free.
WriteGrant(p) ==
  /\ At(p, "wr_wait")
  /\ writer = NoProc /\ sync_can_take_write_lock(p)
  /\ LockMutex(p)
  /\ writer' = p /\ wcount' = 1
  /\ Goto(p, "wr_dec")
  /\ UNCHANGED <<own, total, waiting, lists, scripts>>

WriteDequeue(p) ==
  /\ At(p, "wr_dec")
  /\ waiting' = waiting - 1
  /\ Goto(p, "wr_list")
  /\ UNCHANGED <<locks, own, total, writer, wcount, lists, scripts>>

WriteList(p) ==
  /\ At(p, "wr_list")
  /\ wlist' = [wlist EXCEPT ![p] = @ + 1]
  /\ UnlockMutex(p)
  /\ Goto(p, "idle")
  /\ UNCHANGED <<files, rlist, scripts>>

-----------------------------------------------------------------------------
(* sync_unlock_resource_for_writing                                        *)

WriteDrop(p) ==
  /\ At(p, "wu") /\ writer = p
  /\ LockMutex(p)
  /\ wcount' = wcount - 1
  /\ writer' = IF wcount = 1 THEN NoProc ELSE p
  /\ Goto(p, "wu_list")
  /\ UNCHANGED <<own, total, waiting, lists, scripts>>

WriteUnlist(p) ==
  /\ At(p, "wu_list")
  /\ wlist' = [wlist EXCEPT ![p] = IF @ > 0 THEN @ - 1 ELSE 0]
  /\ UnlockMutex(p)
  /\ Goto(p, "idle")
  /\ UNCHANGED <<files, rlist, scripts>>

\* Not locked or locked by somebody else: an error is logged.
WriteUnlockError(p) ==
  /\ At(p, "wu") /\ writer # p /\ mutex = NoProc
  /\ Goto(p, "idle")
  /\ UNCHANGED <<locks, files, lists, scripts>>

-----------------------------------------------------------------------------
(* circuit_lock and circuit_unlock                                         *)

\* sync_lock_resource $1, then circuit_read_lock
GuardTake(p) ==
  /\ At(p, "cl") /\ excl \in {NoProc, p}
  /\ excl' = p /\ depth' = depth + 1
  /\ Goto(p, "rd")
  /\ UNCHANGED <<mutex, files, lists, scripts>>

\* after circuit_read_unlock: sync_unlock_resource $1
GuardDrop(p) ==
  /\ At(p, "cu")
  /\ depth' = depth - 1
  /\ excl' = IF depth = 1 THEN NoProc ELSE p
  /\ unguard' = [unguard EXCEPT ![p] = FALSE]
  /\ Goto(p, "idle")
  /\ UNCHANGED <<mutex, files, lists, status, reused>>

-----------------------------------------------------------------------------
(* The scripts.  As the API and the daemon do, a script asks for the write  *)
(* lock holding nothing, the lock itself or circuit_lock; with the write    *)
(* lock it does nothing but nest and release it; circuit_lock is not nested *)
(* in a plain read lock.                                                    *)

Idle(p) == status[p] = "running" /\ pc[p] = "idle"

Guarded(p) == IF excl = p THEN depth ELSE 0

CallRead(p) ==
  /\ Idle(p) /\ wlist[p] = 0 /\ rlist[p] < MaxDepth
  /\ Goto(p, "rd")
  /\ UNCHANGED <<locks, files, lists, scripts>>

CallReadUnlock(p) ==
  /\ Idle(p) /\ wlist[p] = 0 /\ rlist[p] > Guarded(p)
  /\ Goto(p, "ru")
  /\ UNCHANGED <<locks, files, lists, scripts>>

CallWrite(p) ==
  /\ Idle(p) /\ p \in Writers /\ wlist[p] < MaxDepth
  /\ rlist[p] = Guarded(p)
  /\ Goto(p, "wr")
  /\ UNCHANGED <<locks, files, lists, scripts>>

CallWriteUnlock(p) ==
  /\ Idle(p) /\ wlist[p] > 0
  /\ Goto(p, "wu")
  /\ UNCHANGED <<locks, files, lists, scripts>>

CallCircuitLock(p) ==
  /\ Idle(p) /\ wlist[p] = 0
  /\ rlist[p] = Guarded(p) /\ Guarded(p) < MaxDepth
  /\ Goto(p, "cl")
  /\ UNCHANGED <<locks, files, lists, scripts>>

CallCircuitUnlock(p) ==
  /\ Idle(p) /\ wlist[p] = 0
  /\ rlist[p] = Guarded(p) /\ Guarded(p) > 0
  /\ unguard' = [unguard EXCEPT ![p] = TRUE]
  /\ Goto(p, "ru")
  /\ UNCHANGED <<locks, files, lists, status, reused>>

-----------------------------------------------------------------------------
(* Termination                                                             *)

\* The script ends or a signal ends it: the exit trap releases the exclusive
\* locks first, the mutex included.
Terminate(p) ==
  /\ status[p] = "running" /\ pc[p] \in SignalPoints
  /\ status' = [status EXCEPT ![p] = "exiting"]
  /\ mutex' = IF mutex = p THEN NoProc ELSE mutex
  /\ excl' = IF excl = p THEN NoProc ELSE excl
  /\ depth' = IF excl = p THEN 0 ELSE depth
  /\ unguard' = [unguard EXCEPT ![p] = FALSE]
  /\ Goto(p, "idle")
  /\ UNCHANGED <<files, lists, reused>>

\* Mutant: write locks are released with the function for read locks
ExitUnlock_ForReading(p) ==
  /\ status[p] = "exiting" /\ pc[p] = "idle"
  /\ wlist[p] > 0 \/ rlist[p] > 0
  /\ Goto(p, "ru")
  /\ UNCHANGED <<locks, files, lists, scripts>>

\* sync_unlock_all_resources goes on with the write locks, then the read locks.
ExitUnlock(p) ==
  /\ status[p] = "exiting" /\ pc[p] = "idle"
  /\ wlist[p] > 0 \/ rlist[p] > 0
  /\ Goto(p, IF wlist[p] > 0 THEN "wu" ELSE "ru")
  /\ UNCHANGED <<locks, files, lists, scripts>>

\* Mutant: the exit trap forgets the read locks
ExitDone_NoReaders(p) ==
  /\ status[p] = "exiting" /\ pc[p] = "idle"
  /\ wlist[p] = 0
  /\ status' = [status EXCEPT ![p] = "exited"]
  /\ UNCHANGED <<locks, files, lists, pc, unguard, reused>>

ExitDone(p) ==
  /\ status[p] = "exiting" /\ pc[p] = "idle"
  /\ wlist[p] = 0 /\ rlist[p] = 0
  /\ status' = [status EXCEPT ![p] = "exited"]
  /\ UNCHANGED <<locks, files, lists, pc, unguard, reused>>

\* sync_init in a new script that has got the PID: its lists are empty, but the
\* files the name of which ends in that PID are taken for its own.
Restart(p) ==
  /\ status[p] = "exited" /\ reused < MaxReuse
  /\ status' = [status EXCEPT ![p] = "running"]
  /\ rlist' = [rlist EXCEPT ![p] = 0]
  /\ wlist' = [wlist EXCEPT ![p] = 0]
  /\ reused' = reused + 1
  /\ UNCHANGED <<locks, files, pc, unguard>>

-----------------------------------------------------------------------------
\* The steps of the lock functions and of the exit trap
Step(p) ==
  \/ ReadAgain(p) \/ ReadTake(p) \/ ReadTotal(p) \/ ReadList(p)
  \/ ReadDrop(p) \/ ReadUntotal(p) \/ ReadUnlist(p) \/ ReadUnlockError(p)
  \/ WriteAgain(p) \/ WriteTake(p) \/ WriteEnqueue(p) \/ WriteGrant(p)
  \/ WriteDequeue(p) \/ WriteList(p)
  \/ WriteDrop(p) \/ WriteUnlist(p) \/ WriteUnlockError(p)
  \/ GuardTake(p) \/ GuardDrop(p)
  \/ ExitUnlock(p) \/ ExitDone(p)

\* The releases scripts bracket their work with
Release(p) == CallReadUnlock(p) \/ CallWriteUnlock(p) \/ CallCircuitUnlock(p)

Next == \E p \in Proc : \/ Step(p) \/ Release(p)
                        \/ CallRead(p) \/ CallWrite(p) \/ CallCircuitLock(p)
                        \/ Terminate(p) \/ Restart(p)

Spec == Init /\ [][Next]_vars

\* The release of the last lock a script holds
LastRelease(p) == Release(p) /\ rlist[p] + wlist[p] = 1

\* Shells keep running; scripts release what they took, and do not nest their
\* locks again and again without ever releasing the last one; and the mutex is
\* not always taken by somebody else when a shell polls it.
Fairness == \A p \in Proc : /\ SF_vars(Step(p))
                            /\ WF_vars(Release(p)) /\ SF_vars(LastRelease(p))

FairSpec == Spec /\ Fairness

-----------------------------------------------------------------------------
(* Properties                                                              *)

\* The script's own code (not a lock function) runs with the lock.
Reading(p) == status[p] = "running" /\ pc[p] = "idle" /\ rlist[p] > 0
Writing(p) == status[p] = "running" /\ pc[p] = "idle" /\ wlist[p] > 0

\* "Write locks are exclusive": while a script writes, no other script reads
\* or writes, even when the writer promoted a read lock.
WriterExcludesAll ==
  \A p, q \in Proc : Writing(p) /\ p # q => ~ Reading(q) /\ ~ Writing(q)

\* Between critical sections the files tell the truth: the number of active
\* readers is the number of per-process files, every one of them is backed by
\* the list of its process, and the waiting writers are the waiting processes.
FilesAgree ==
  mutex = NoProc =>
    /\ total = Cardinality({p \in Proc : own[p] > 0})
    /\ \A p \in Proc : own[p] = rlist[p]
    /\ \A p \in Proc : wlist[p] = IF writer = p THEN wcount ELSE 0
    /\ waiting = Cardinality({p \in Proc : pc[p] = "wr_wait"})

\* "Used at shell exit in order to avoid deadlocks due to scripts terminating in
\* an unexpected way": what keeps readers and writers out is a process that is
\* still there.
BlockedOnlyByLive ==
  LET live == {p \in Proc : status[p] = "running"} IN
  mutex = NoProc /\ (\A p \in Proc : status[p] # "exiting") =>
    /\ writer # NoProc => writer \in live
    /\ total <= Cardinality({p \in live : own[p] > 0})
    /\ waiting <= Cardinality({p \in live : pc[p] = "wr_wait"})

\* The exit trap comes to an end.
ExitTerminates ==
  \A p \in Proc : status[p] = "exiting" ~> status[p] = "exited"

\* "Writers are preferred ... This avoids writer starvation": a script that is
\* counted as waiting gets the write lock however often the others read; only
\* other writers that come again and again can keep it waiting.
WriterNotStarved ==
  \A p \in Writers :
    \/ pc[p] = "wr_wait" ~> (wlist[p] > 0 \/ status[p] # "running")
    \/ []<>(\E q \in Proc \ {p} : wlist[q] > 0)

\* "... without risking a deadlock": a script that holds circuit_lock and asks
\* for the write lock gets it, although others may hold it or want the same.
PromotionCompletes ==
  \A p \in Proc : (excl = p /\ pc[p] = "wr_wait") ~>
                    (wlist[p] > 0 \/ status[p] # "running")
=============================================================================
