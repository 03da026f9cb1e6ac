--------------------------- MODULE SyncLock_proofs ---------------------------
(***************************************************************************)
(* Proofs about the exclusive file locks, for any number of processes and  *)
(* resources, with signals, SIGKILL and reused PIDs.                       *)
(*                                                                         *)
(* None of the properties of SyncLock is inductive.  IInv adds what links  *)
(* the three places a lock is recorded in (the symbolic link, the count in *)
(* the pidfile, the list of the process) at every control point.           *)
(***************************************************************************)
EXTENDS SyncLock, TLAPS

\* Who is not the locker has at most an old pidfile, of a process that was
\* killed between the removal of the link and that of the file.
OldFileIsOne == \A p \in Proc, r \in Res : link[r] # p => pidfile[p][r] <= 1

\* The list of a process only names resources whose link is its own, except
\* while it releases the last hold.
ListHasLink ==
  \A p \in Proc, r \in Res : Alive(p) /\ held[p][r] > 0 =>
    link[r] = p \/ (pc[p] = "un_rmfile" /\ res[p] = r)

\* The count may be too high (an old one of the same PID), never too low.
ListBelowCount ==
  \A p \in Proc, r \in Res : Alive(p) => held[p][r] <= pidfile[p][r]

\* What a process knows at its control points, r being the resource it works on
AtLn(p)         == pc[p] = "lk_ln" => count[p] = 0
AtLockWrite(p)  == pc[p] = "lk_write" =>
                     /\ link[res[p]] = p
                     /\ \/ count[p] = pidfile[p][res[p]]
                        \/ /\ count[p] = 0
                           /\ pidfile[p][res[p]] <= 1
                           /\ held[p][res[p]] = 0
AtUnReadlink(p) == pc[p] = "un_readlink" /\ link[res[p]] = p =>
                     pidfile[p][res[p]] > 0
AtRmLink(p)     == pc[p] = "un_rmlink" =>
                     link[res[p]] = p /\ pidfile[p][res[p]] = 1
AtRmFile(p)     == pc[p] = "un_rmfile" =>
                     link[res[p]] # p /\ pidfile[p][res[p]] = 1
AtUnWrite(p)    == pc[p] = "un_write" =>
                     /\ link[res[p]] = p
                     /\ count[p] = pidfile[p][res[p]] - 1 /\ count[p] > 0

ControlInv ==
  \A p \in Proc : Alive(p) => /\ AtLn(p) /\ AtLockWrite(p) /\ AtUnReadlink(p)
                              /\ AtRmLink(p) /\ AtRmFile(p) /\ AtUnWrite(p)

\* A PID that was never killed has no old files: count and list are the same.
CleanInv ==
  \A p \in Proc : p \notin killed =>
    /\ status[p] # "dead"
    /\ \A r \in Res :
         /\ pidfile[p][r] = held[p][r]
         /\ link[r] = p => held[p][r] > 0 \/ (pc[p] = "lk_write" /\ res[p] = r /\ Alive(p))
         /\ ~ Alive(p) => held[p][r] = 0

IInv == /\ TypeOK
        /\ OldFileIsOne
        /\ ListHasLink
        /\ ListBelowCount
        /\ ControlInv
        /\ CleanInv

-----------------------------------------------------------------------------
\* Initially nothing is locked and nobody has a list: IInv holds.
LEMMA InitIInv == Init => IInv
<1> SUFFICES ASSUME Init PROVE IInv
  OBVIOUS
<1>1. TypeOK
  BY DEF Init, TypeOK, Masked, Reset, Handling, Statuses
<1>2. QED
  BY <1>1, NoProcAssumption
  DEF Init, IInv, OldFileIsOne, ListHasLink, ListBelowCount, ControlInv,
      CleanInv, Alive, AtLn, AtLockWrite, AtUnReadlink, AtRmLink, AtRmFile,
      AtUnWrite

\* Every step of every process preserves IInv.  Most steps leave the link, the
\* counts and the lists alone; only the control point of one process changes.
LEMMA NextIInv == IInv /\ [Next]_vars => IInv'
<1> SUFFICES ASSUME IInv, [Next]_vars PROVE IInv'
  OBVIOUS
<1> USE NoProcAssumption
<1> USE DEF IInv, Alive, Goto, Masked, Reset, Handling, Statuses
<1>1. ASSUME NEW p \in Proc, sync_init(p) PROVE IInv'
  BY <1>1 DEF sync_init, TypeOK, OldFileIsOne, ListHasLink, ListBelowCount, CleanInv,
     ControlInv, AtLn, AtLockWrite, AtUnReadlink, AtRmLink, AtRmFile, AtUnWrite
<1>2. ASSUME NEW p \in Proc, NEW r \in Res, CallLock(p, r) PROVE IInv'
  BY <1>2 DEF CallLock, TypeOK, OldFileIsOne, ListHasLink, ListBelowCount, CleanInv,
     ControlInv, AtLn, AtLockWrite, AtUnReadlink, AtRmLink, AtRmFile, AtUnWrite
<1>3. ASSUME NEW p \in Proc, NEW r \in Res, CallUnlock(p, r) PROVE IInv'
  BY <1>3 DEF CallUnlock, TypeOK, OldFileIsOne, ListHasLink, ListBelowCount, CleanInv,
     ControlInv, AtLn, AtLockWrite, AtUnReadlink, AtRmLink, AtRmFile, AtUnWrite
<1>4. ASSUME NEW p \in Proc, LnLock(p) PROVE IInv'
  <2>1. TypeOK'
    <3>1. CASE link[res[p]] = NoProc
      <4>1. /\ link' = [link EXCEPT ![res[p]] = p]
            /\ pc' = [pc EXCEPT ![p] = "lk_write"]
            /\ UNCHANGED <<pidfile, held, count, res, status, killed>>
        BY <1>4, <3>1 DEF LnLock
      <4>2. QED
        BY <4>1 DEF TypeOK
    <3>2. CASE link[res[p]] # NoProc
      BY <1>4, <3>2 DEF TypeOK, LnLock
    <3>3. QED
      BY <3>1, <3>2
  <2>2. OldFileIsOne'
    BY <1>4 DEF TypeOK, OldFileIsOne, LnLock
  <2>3. ListHasLink' /\ ListBelowCount'
    BY <1>4 DEF TypeOK, ListHasLink, ListBelowCount, LnLock
  <2>4. ControlInv'
    BY <1>4 DEF TypeOK, OldFileIsOne, ListHasLink, ControlInv, AtLn, AtLockWrite,
       AtUnReadlink, AtRmLink, AtRmFile, AtUnWrite, LnLock
  <2>5. CleanInv'
    BY <1>4 DEF TypeOK, CleanInv, LnLock
  <2>6. QED
    BY <2>1, <2>2, <2>3, <2>4, <2>5
<1>5. ASSUME NEW p \in Proc, TestLocker(p) PROVE IInv'
  BY <1>5 DEF TestLocker, LockFileExists, TypeOK, OldFileIsOne, ListHasLink, ListBelowCount, CleanInv,
     ControlInv, AtLn, AtLockWrite, AtUnReadlink, AtRmLink, AtRmFile, AtUnWrite
<1>6. ASSUME NEW p \in Proc, ReadLinkLock(p) PROVE IInv'
  <2>1. TypeOK'
    <3>1. CASE link[res[p]] = p
      BY <1>6, <3>1 DEF TypeOK, ReadLinkLock
    <3>2. CASE link[res[p]] # p
      BY <1>6, <3>2 DEF TypeOK, ReadLinkLock
    <3>3. QED
      BY <3>1, <3>2
  <2>2. OldFileIsOne' /\ ListHasLink' /\ ListBelowCount'
    BY <1>6 DEF OldFileIsOne, ListHasLink, ListBelowCount, ReadLinkLock, TypeOK
  <2>3. ControlInv'
    BY <1>6 DEF TypeOK, ControlInv, AtLn, AtLockWrite,
       AtUnReadlink, AtRmLink, AtRmFile, AtUnWrite, ReadLinkLock
  <2>4. CleanInv'
    BY <1>6 DEF TypeOK, CleanInv, ReadLinkLock
  <2>5. QED
    BY <2>1, <2>2, <2>3, <2>4
<1>7. ASSUME NEW p \in Proc, WriteLock(p) PROVE IInv'
  <2>1. TypeOK'
    BY <1>7 DEF TypeOK, WriteLock
  <2>2. OldFileIsOne'
    BY <1>7 DEF TypeOK, OldFileIsOne, ControlInv, AtLockWrite, WriteLock
  <2>3. ListHasLink'
    BY <1>7 DEF TypeOK, ListHasLink, ListBelowCount, ControlInv, AtLockWrite, WriteLock
  <2>4. ListBelowCount'
    <3>1. held[p][res[p]] <= count[p]
      <4>1. /\ held[p][res[p]] <= pidfile[p][res[p]]
            /\ AtLockWrite(p) /\ pc[p] = "lk_write"
        BY <1>7 DEF TypeOK, ListBelowCount, ControlInv, WriteLock
      <4>2. QED
        BY <4>1 DEF AtLockWrite, TypeOK
    <3>2. QED
      BY <1>7, <3>1 DEF TypeOK, ListBelowCount, WriteLock
  <2>5. ControlInv'
    BY <1>7 DEF TypeOK, OldFileIsOne, ControlInv, AtLn, AtLockWrite,
       AtUnReadlink, AtRmLink, AtRmFile, AtUnWrite, WriteLock
  <2>6. CleanInv'
    BY <1>7 DEF TypeOK, CleanInv, ListHasLink, ControlInv, AtLockWrite, WriteLock
  <2>7. QED
    BY <2>1, <2>2, <2>3, <2>4, <2>5, <2>6
<1>8. ASSUME NEW p \in Proc, RestoreTraps(p) PROVE IInv'
  BY <1>8 DEF RestoreTraps, TypeOK, OldFileIsOne, ListHasLink, ListBelowCount, CleanInv,
     ControlInv, AtLn, AtLockWrite, AtUnReadlink, AtRmLink, AtRmFile, AtUnWrite
<1>9. ASSUME NEW p \in Proc, Retry(p) PROVE IInv'
  BY <1>9 DEF Retry, TypeOK, OldFileIsOne, ListHasLink, ListBelowCount, CleanInv,
     ControlInv, AtLn, AtLockWrite, AtUnReadlink, AtRmLink, AtRmFile, AtUnWrite
<1>10. ASSUME NEW p \in Proc, ReadLinkUnlock(p) PROVE IInv'
  <2>1. TypeOK'
    <3>1. CASE link[res[p]] = p
      <4>1. pidfile[p][res[p]] \in Nat \ {0}
        BY <1>10, <3>1 DEF TypeOK, ControlInv, AtUnReadlink, ReadLinkUnlock
      <4>2. pidfile[p][res[p]] - 1 \in Nat
        BY <4>1
      <4>3. QED
        <5>1. /\ count' = [count EXCEPT ![p] = pidfile[p][res[p]] - 1]
              /\ \/ pc' = [pc EXCEPT ![p] = "un_rmlink"]
                 \/ pc' = [pc EXCEPT ![p] = "un_write"]
              /\ UNCHANGED <<link, pidfile, held, res, status, killed>>
          BY <1>10, <3>1 DEF ReadLinkUnlock
        <5>2. QED
          BY <4>2, <5>1 DEF TypeOK
    <3>2. CASE link[res[p]] # p
      BY <1>10, <3>2 DEF TypeOK, ReadLinkUnlock
    <3>3. QED
      BY <3>1, <3>2
  <2>2. OldFileIsOne' /\ ListHasLink' /\ ListBelowCount'
    BY <1>10 DEF OldFileIsOne, ListHasLink, ListBelowCount, ReadLinkUnlock, TypeOK
  <2>3. ControlInv'
    <3> SUFFICES ASSUME NEW q \in Proc, Alive(q)'
                 PROVE  (/\ AtLn(q) /\ AtLockWrite(q) /\ AtUnReadlink(q)
                         /\ AtRmLink(q) /\ AtRmFile(q) /\ AtUnWrite(q))'
      BY DEF ControlInv
    <3>1. CASE q # p
      BY <1>10, <3>1 DEF TypeOK, ControlInv, AtLn, AtLockWrite, AtUnReadlink,
         AtRmLink, AtRmFile, AtUnWrite, ReadLinkUnlock
    <3>2. CASE q = p /\ link[res[p]] = p
      <4>1. pidfile[p][res[p]] \in Nat \ {0}
        BY <1>10, <3>2 DEF TypeOK, ControlInv, AtUnReadlink, ReadLinkUnlock
      <4>2. count'[p] = pidfile[p][res[p]] - 1
        BY <1>10, <3>2 DEF TypeOK, ReadLinkUnlock
      <4>3. pc'[p] = IF pidfile[p][res[p]] - 1 = 0 THEN "un_rmlink" ELSE "un_write"
        BY <1>10, <3>2 DEF TypeOK, ReadLinkUnlock
      <4>4. UNCHANGED <<link, pidfile, res>>
        BY <1>10 DEF ReadLinkUnlock
      <4>5. QED
        BY <3>2, <4>1, <4>2, <4>3, <4>4 DEF AtLn, AtLockWrite, AtUnReadlink,
           AtRmLink, AtRmFile, AtUnWrite
    <3>3. CASE q = p /\ link[res[p]] # p
      BY <1>10, <3>3 DEF TypeOK, AtLn, AtLockWrite, AtUnReadlink,
         AtRmLink, AtRmFile, AtUnWrite, ReadLinkUnlock
    <3>4. QED
      BY <3>1, <3>2, <3>3
  <2>4. CleanInv'
    BY <1>10 DEF TypeOK, CleanInv, ReadLinkUnlock
  <2>5. QED
    BY <2>1, <2>2, <2>3, <2>4
<1>11. ASSUME NEW p \in Proc, RmLink(p) PROVE IInv'
  <2>1. TypeOK'
    BY <1>11 DEF TypeOK, RmLink
  <2>2. OldFileIsOne'
    BY <1>11 DEF TypeOK, OldFileIsOne, ControlInv, AtRmLink, RmLink
  <2>3. ListHasLink'
    BY <1>11 DEF TypeOK, ListHasLink, ListBelowCount, ControlInv, AtRmLink, RmLink
  <2>4. ListBelowCount'
    BY <1>11 DEF TypeOK, ListBelowCount, ControlInv, AtRmLink, RmLink
  <2>5. ControlInv'
    BY <1>11 DEF TypeOK, OldFileIsOne, ControlInv, AtLn, AtLockWrite,
       AtUnReadlink, AtRmLink, AtRmFile, AtUnWrite, RmLink
  <2>6. CleanInv'
    BY <1>11 DEF TypeOK, CleanInv, ListHasLink, ControlInv, AtRmLink, RmLink
  <2>7. QED
    BY <2>1, <2>2, <2>3, <2>4, <2>5, <2>6
<1>12. ASSUME NEW p \in Proc, RmFile(p) PROVE IInv'
  <2>1. TypeOK'
    BY <1>12 DEF TypeOK, RmFile, DropFromList
  <2>2. OldFileIsOne'
    BY <1>12 DEF TypeOK, OldFileIsOne, ControlInv, AtRmFile, RmFile, DropFromList
  <2>3. ListHasLink'
    BY <1>12 DEF TypeOK, ListHasLink, ListBelowCount, ControlInv, AtRmFile, RmFile, DropFromList
  <2>4. ListBelowCount'
    BY <1>12 DEF TypeOK, ListBelowCount, ControlInv, AtRmFile, RmFile, DropFromList
  <2>5. ControlInv'
    BY <1>12 DEF TypeOK, OldFileIsOne, ControlInv, AtLn, AtLockWrite,
       AtUnReadlink, AtRmLink, AtRmFile, AtUnWrite, RmFile, DropFromList
  <2>6. CleanInv'
    BY <1>12 DEF TypeOK, CleanInv, ListHasLink, ControlInv, AtRmFile, RmFile, DropFromList
  <2>7. QED
    BY <2>1, <2>2, <2>3, <2>4, <2>5, <2>6
<1>13. ASSUME NEW p \in Proc, WriteUnlock(p) PROVE IInv'
  <2>1. TypeOK'
    BY <1>13 DEF TypeOK, WriteUnlock, DropFromList
  <2>2. OldFileIsOne'
    BY <1>13 DEF TypeOK, OldFileIsOne, ControlInv, AtUnWrite, WriteUnlock, DropFromList
  <2>3. ListHasLink'
    BY <1>13 DEF TypeOK, ListHasLink, ListBelowCount, ControlInv, AtUnWrite, WriteUnlock, DropFromList
  <2>4. ListBelowCount'
    BY <1>13 DEF TypeOK, ListBelowCount, ControlInv, AtUnWrite, WriteUnlock, DropFromList
  <2>5. ControlInv'
    BY <1>13 DEF TypeOK, OldFileIsOne, ControlInv, AtLn, AtLockWrite,
       AtUnReadlink, AtRmLink, AtRmFile, AtUnWrite, WriteUnlock, DropFromList
  <2>6. CleanInv'
    BY <1>13 DEF TypeOK, CleanInv, ListHasLink, ControlInv, AtUnWrite, WriteUnlock, DropFromList
  <2>7. QED
    BY <2>1, <2>2, <2>3, <2>4, <2>5, <2>6
<1>14. ASSUME NEW p \in Proc, NEW r \in Res, ExitUnlock(p, r) PROVE IInv'
  BY <1>14 DEF ExitUnlock, TypeOK, OldFileIsOne, ListHasLink, ListBelowCount, CleanInv,
     ControlInv, AtLn, AtLockWrite, AtUnReadlink, AtRmLink, AtRmFile, AtUnWrite
<1>15. ASSUME NEW p \in Proc, ExitDone(p) PROVE IInv'
  BY <1>15 DEF ExitDone, TypeOK, OldFileIsOne, ListHasLink, ListBelowCount, CleanInv,
     ControlInv, AtLn, AtLockWrite, AtUnReadlink, AtRmLink, AtRmFile, AtUnWrite
<1>16. ASSUME NEW p \in Proc, Exit(p) PROVE IInv'
  BY <1>16 DEF Exit, TypeOK, OldFileIsOne, ListHasLink, ListBelowCount, CleanInv,
     ControlInv, AtLn, AtLockWrite, AtUnReadlink, AtRmLink, AtRmFile, AtUnWrite
<1>17. ASSUME NEW p \in Proc, Signal(p) PROVE IInv'
  <2>1. CASE pc[p] \in Handling /\ status[p] = "running"
    <3>1. /\ status' = [status EXCEPT ![p] = "exiting"]
          /\ pc' = [pc EXCEPT ![p] = "idle"]
          /\ UNCHANGED <<link, pidfile, held, count, res, killed>>
      BY <1>17, <2>1 DEF Signal
    <3>2. QED
      BY <2>1, <3>1 DEF TypeOK, OldFileIsOne, ListHasLink, ListBelowCount, CleanInv,
         ControlInv, AtLn, AtLockWrite, AtUnReadlink, AtRmLink, AtRmFile, AtUnWrite
  <2>2. CASE Die(p)
    BY <2>2 DEF Die, TypeOK, OldFileIsOne, ListHasLink, ListBelowCount, CleanInv,
       ControlInv, AtLn, AtLockWrite, AtUnReadlink, AtRmLink, AtRmFile, AtUnWrite
  <2>3. QED
    BY <1>17, <2>1, <2>2 DEF Signal
<1>18. ASSUME NEW p \in Proc, Kill9(p) PROVE IInv'
  BY <1>18 DEF Kill9, Die, TypeOK, OldFileIsOne, ListHasLink, ListBelowCount, CleanInv,
     ControlInv, AtLn, AtLockWrite, AtUnReadlink, AtRmLink, AtRmFile, AtUnWrite
<1>19. CASE UNCHANGED vars
  BY <1>19 DEF vars, TypeOK, OldFileIsOne, ListHasLink, ListBelowCount, CleanInv,
     ControlInv, AtLn, AtLockWrite, AtUnReadlink, AtRmLink, AtRmFile, AtUnWrite
<1> HIDE DEF IInv, Alive, Goto
<1>20. QED
  BY <1>1, <1>2, <1>3, <1>4, <1>5, <1>6, <1>7, <1>8, <1>9, <1>10, <1>11, <1>12, <1>13, <1>14, <1>15, <1>16, <1>17, <1>18, <1>19 DEF Next, Step

\* The type invariant and the inductive invariant hold in every reachable state.
THEOREM InvariantHolds == Spec => []IInv
<1>1. QED
  BY InitIInv, NextIInv, PTL DEF Spec

\* All variables keep their type; in particular no count ever drops below 0.
THEOREM TypeCorrect == Spec => []TypeOK
<1>1. IInv => TypeOK
  BY DEF IInv
<1>2. QED
  BY <1>1, InvariantHolds, PTL

\* Mutual exclusion: of two processes that believe they hold a resource, both
\* have it in their list, so its link is the link of both.
THEOREM LockIsExclusive == Spec => []MutualExclusion
<1>1. IInv => MutualExclusion
  <2> SUFFICES ASSUME IInv, NEW p \in Proc, NEW q \in Proc, NEW r \in Res,
                      InCS(p, r), InCS(q, r)
               PROVE  p = q
    BY DEF MutualExclusion
  <2>1. link[r] = p
    BY DEF IInv, ListHasLink, InCS, Handling
  <2>2. link[r] = q
    BY DEF IInv, ListHasLink, InCS, Handling
  <2>3. QED
    BY <2>1, <2>2
<1>2. QED
  BY <1>1, InvariantHolds, PTL

\* The count in the pidfile and the list of the process agree whenever no lock
\* function is at work, unless the PID was killed before.
THEOREM CountsMatch == Spec => []CountMatchesList
<1>1. IInv => CountMatchesList
  <2> SUFFICES ASSUME IInv, NEW p \in Proc \ killed, NEW r \in Res,
                      pc[p] \in Handling \cup Reset, Alive(p)
               PROVE  /\ pidfile[p][r] = held[p][r]
                      /\ held[p][r] > 0 <=> link[r] = p
    BY DEF CountMatchesList
  <2>1. pidfile[p][r] = held[p][r] /\ (link[r] = p => held[p][r] > 0)
    BY DEF IInv, CleanInv, Handling, Reset
  <2>2. held[p][r] > 0 => link[r] = p
    BY DEF IInv, ListHasLink, Handling, Reset
  <2>3. QED
    BY <2>1, <2>2
<1>2. QED
  BY <1>1, InvariantHolds, PTL

\* The exit trap works: a process that ended through it, and whose PID was
\* never killed, owns no link and leaves no pidfile behind.
THEOREM ExitTrapReleases == Spec => []ExitReleasesAll
<1>1. IInv => ExitReleasesAll
  <2> SUFFICES ASSUME IInv, NEW p \in Proc \ killed, status[p] = "exited",
                      NEW r \in Res
               PROVE  link[r] # p /\ pidfile[p][r] = 0
    BY DEF ExitReleasesAll
  <2>1. ~ Alive(p)
    BY DEF Alive
  <2>2. pidfile[p][r] = held[p][r] /\ held[p][r] = 0
        /\ (link[r] = p => held[p][r] > 0)
    BY <2>1 DEF IInv, CleanInv
  <2>3. QED
    BY <2>2
<1>2. QED
  BY <1>1, InvariantHolds, PTL

-----------------------------------------------------------------------------
(***************************************************************************)
(* The file lock implements the abstract Mutex.  Four kinds of steps are   *)
(* visible there: writing the count acquires the lock; so does `ln` if it  *)
(* meets an old pidfile of the same PID, whose count can only be 1;        *)
(* removing the link and writing a smaller count release it.               *)
(***************************************************************************)

\* A change at one resource is a change at one resource of the abstract lock.
LEMMA OneResource ==
  ASSUME TypeOK, TypeOK', NEW r \in Res,
         \A s \in Res \ {r} : link'[s] = link[s],
         \A s \in Res \ {r}, q \in Proc : pidfile'[q][s] = pidfile[q][s]
  PROVE  /\ LockOwner' = [LockOwner EXCEPT ![r] = LockOwner'[r]]
         /\ LockDepth' = [LockDepth EXCEPT ![r] = LockDepth'[r]]
<1>1. ASSUME NEW s \in Res \ {r}
      PROVE  LockOwner'[s] = LockOwner[s] /\ LockDepth'[s] = LockDepth[s]
  <2>1. CASE link[s] = NoProc
    BY <2>1 DEF LockOwner, LockDepth, LockFileExists
  <2>2. CASE link[s] \in Proc
    <3>1. link'[s] = link[s] /\ pidfile'[link[s]][s] = pidfile[link[s]][s]
      BY <2>2
    <3>2. QED
      BY <3>1 DEF LockOwner, LockDepth, LockFileExists
  <2>3. QED
    BY <2>1, <2>2 DEF TypeOK
<1>2. QED
  BY <1>1 DEF LockOwner, LockDepth

\* A step that takes r for p
LEMMA AcquireStep ==
  ASSUME TypeOK, TypeOK', NEW p \in Proc, NEW r \in Res,
         \A s \in Res \ {r} : link'[s] = link[s],
         \A s \in Res \ {r}, q \in Proc : pidfile'[q][s] = pidfile[q][s],
         LockOwner[r] \in {NoProc, p}, LockOwner'[r] = p,
         LockDepth'[r] = LockDepth[r] + 1
  PROVE  M!Acquire(p, r)
BY OneResource DEF M!Acquire

\* A step that releases r once for p
LEMMA ReleaseStep ==
  ASSUME TypeOK, TypeOK', NEW p \in Proc, NEW r \in Res,
         \A s \in Res \ {r} : link'[s] = link[s],
         \A s \in Res \ {r}, q \in Proc : pidfile'[q][s] = pidfile[q][s],
         LockOwner[r] = p, LockDepth'[r] = LockDepth[r] - 1,
         LockOwner'[r] = IF LockDepth[r] = 1 THEN NoProc ELSE p
  PROVE  M!Release(p, r)
BY OneResource DEF M!Release

\* Without links and count files, every resource of the abstract mutex is free.
LEMMA MutexInit == Init => M!MInit
BY NoProcAssumption DEF Init, M!MInit, LockOwner, LockDepth, LockFileExists

\* Every file system call of locking.inc is a lock, an unlock or nothing to the
\* abstract mutex.
LEMMA MutexStep == IInv /\ IInv' /\ [Next]_vars => [M!MNext]_(M!mvars)
<1> SUFFICES ASSUME IInv, IInv', [Next]_vars PROVE [M!MNext]_(M!mvars)
  OBVIOUS
<1> USE NoProcAssumption
<1>0. TypeOK /\ TypeOK'
  BY DEF IInv
<1>1. ASSUME UNCHANGED <<link, pidfile>> PROVE UNCHANGED M!mvars
  BY <1>1 DEF M!mvars, LockOwner, LockDepth, LockFileExists
<1>2. ASSUME NEW p \in Proc, LnLock(p) PROVE [M!MNext]_(M!mvars)
  <2> DEFINE r == res[p]
  <2>1. r \in Res
    BY <1>0 DEF TypeOK
  <2>2. CASE link[r] # NoProc
    BY <1>1, <1>2, <2>2 DEF LnLock
  <2>3. CASE link[r] = NoProc
    <3>1. link' = [link EXCEPT ![r] = p] /\ pidfile' = pidfile
      BY <1>2, <2>3 DEF LnLock
    <3>2. CASE pidfile[p][r] = 0
      <4>1. LockOwner'[r] = LockOwner[r] /\ LockDepth'[r] = LockDepth[r]
        BY <1>0, <2>1, <2>3, <3>1, <3>2 DEF TypeOK, LockOwner, LockDepth, LockFileExists
      <4>2. LockOwner' = LockOwner /\ LockDepth' = LockDepth
        BY <1>0, <2>1, <3>1, <4>1 DEF TypeOK, LockOwner, LockDepth, LockFileExists
      <4>3. QED
        BY <4>2 DEF M!mvars
    <3>3. CASE pidfile[p][r] # 0
      <4>1. pidfile[p][r] = 1
        <5>1. pidfile[p][r] <= 1 /\ pidfile[p][r] \in Nat
          BY <1>0, <2>1, <2>3 DEF TypeOK, IInv, OldFileIsOne
        <5>2. QED
          BY <3>3, <5>1
      <4>2. /\ LockOwner[r] = NoProc /\ LockOwner'[r] = p
            /\ LockDepth[r] = 0 /\ LockDepth'[r] = 1
        BY <1>0, <2>1, <2>3, <3>1, <4>1 DEF TypeOK, LockOwner, LockDepth, LockFileExists
      <4>3. \A s \in Res \ {r} : link'[s] = link[s]
        BY <1>0, <3>1 DEF TypeOK
      <4>4. M!Acquire(p, r)
        BY <1>0, <2>1, <3>1, <4>2, <4>3, AcquireStep
      <4>5. QED
        BY <2>1, <4>4 DEF M!MNext
    <3>4. QED
      BY <3>2, <3>3
  <2>4. QED
    BY <2>2, <2>3
<1>3. ASSUME NEW p \in Proc, WriteLock(p) PROVE [M!MNext]_(M!mvars)
  <2> DEFINE r == res[p]
  <2>1. r \in Res
    BY <1>0 DEF TypeOK
  <2>2. /\ pidfile' = [pidfile EXCEPT ![p][r] = count[p] + 1]
        /\ link' = link /\ pc[p] = "lk_write" /\ Alive(p)
    BY <1>3 DEF WriteLock
  <2>3. /\ link[r] = p
        /\ count[p] = pidfile[p][r] \/ (count[p] = 0 /\ pidfile[p][r] <= 1)
    BY <2>2 DEF IInv, ControlInv, AtLockWrite
  <2>4. /\ pidfile'[p][r] = count[p] + 1
        /\ \A s \in Res \ {r}, q \in Proc : pidfile'[q][s] = pidfile[q][s]
    BY <1>0, <2>1, <2>2 DEF TypeOK
  <2>5. LockDepth[r] = pidfile[p][r] /\ LockOwner[r] \in {NoProc, p}
    BY <1>0, <2>1, <2>3 DEF TypeOK, LockOwner, LockDepth, LockFileExists
  <2>6. LockDepth'[r] = count[p] + 1 /\ LockOwner'[r] = p
    BY <1>0, <2>1, <2>2, <2>3, <2>4 DEF TypeOK, LockOwner, LockDepth, LockFileExists
  <2>7. CASE count[p] = pidfile[p][r]
    <3>1. M!Acquire(p, r)
      BY <1>0, <2>1, <2>2, <2>4, <2>5, <2>6, <2>7, AcquireStep
    <3>2. QED
      BY <2>1, <3>1 DEF M!MNext
  <2>8. CASE count[p] = 0 /\ pidfile[p][r] = 1
    <3>1. pidfile' = pidfile
      BY <1>0, <2>1, <2>2, <2>8 DEF TypeOK
    <3>2. QED
      BY <1>1, <2>2, <3>1
  <2>9. pidfile[p][r] \in Nat
    BY <1>0, <2>1 DEF TypeOK
  <2>10. QED
    BY <2>3, <2>7, <2>8, <2>9
<1>4. ASSUME NEW p \in Proc, RmLink(p) PROVE [M!MNext]_(M!mvars)
  <2> DEFINE r == res[p]
  <2>1. r \in Res
    BY <1>0 DEF TypeOK
  <2>2. /\ link' = [link EXCEPT ![r] = NoProc]
        /\ pidfile' = pidfile /\ pc[p] = "un_rmlink" /\ Alive(p)
    BY <1>4 DEF RmLink
  <2>3. link[r] = p /\ pidfile[p][r] = 1
    BY <2>2 DEF IInv, ControlInv, AtRmLink
  <2>4. LockOwner[r] = p /\ LockDepth[r] = 1
    BY <1>0, <2>1, <2>3 DEF TypeOK, LockOwner, LockDepth, LockFileExists
  <2>5. LockOwner'[r] = NoProc /\ LockDepth'[r] = 0
    BY <1>0, <2>1, <2>2 DEF TypeOK, LockOwner, LockDepth, LockFileExists
  <2>6. \A s \in Res \ {r} : link'[s] = link[s]
    BY <1>0, <2>2 DEF TypeOK
  <2>7. M!Release(p, r)
    BY <1>0, <2>1, <2>2, <2>4, <2>5, <2>6, ReleaseStep
  <2>8. QED
    BY <2>1, <2>7 DEF M!MNext
<1>5. ASSUME NEW p \in Proc, RmFile(p) PROVE [M!MNext]_(M!mvars)
  <2> DEFINE r == res[p]
  <2>1. r \in Res
    BY <1>0 DEF TypeOK
  <2>2. /\ pidfile' = [pidfile EXCEPT ![p][r] = 0]
        /\ link' = link /\ pc[p] = "un_rmfile" /\ Alive(p)
    BY <1>5 DEF RmFile
  <2>3. link[r] # p
    BY <2>2 DEF IInv, ControlInv, AtRmFile
  <2>4. \A s \in Res : link[s] # NoProc => pidfile'[link[s]][s] = pidfile[link[s]][s]
    BY <1>0, <2>1, <2>2, <2>3 DEF TypeOK
  <2>5. QED
    BY <2>2, <2>4 DEF M!mvars, LockOwner, LockDepth, LockFileExists
<1>6. ASSUME NEW p \in Proc, WriteUnlock(p) PROVE [M!MNext]_(M!mvars)
  <2> DEFINE r == res[p]
  <2>1. r \in Res
    BY <1>0 DEF TypeOK
  <2>2. /\ pidfile' = [pidfile EXCEPT ![p][r] = count[p]]
        /\ link' = link /\ pc[p] = "un_write" /\ Alive(p)
    BY <1>6 DEF WriteUnlock
  <2>3. link[r] = p /\ count[p] = pidfile[p][r] - 1 /\ count[p] > 0
    BY <2>2 DEF IInv, ControlInv, AtUnWrite
  <2>4. /\ pidfile'[p][r] = count[p]
        /\ \A s \in Res \ {r}, q \in Proc : pidfile'[q][s] = pidfile[q][s]
    BY <1>0, <2>1, <2>2 DEF TypeOK
  <2>5. LockOwner[r] = p /\ LockDepth[r] = count[p] + 1
    <3>1. count[p] \in Nat /\ pidfile[p][r] \in Nat
      BY <1>0, <2>1 DEF TypeOK
    <3>2. pidfile[p][r] = count[p] + 1 /\ pidfile[p][r] > 0
      BY <2>3, <3>1
    <3>3. QED
      BY <2>1, <2>3, <3>2 DEF LockOwner, LockDepth, LockFileExists
  <2>6. LockOwner'[r] = p /\ LockDepth'[r] = count[p]
    BY <1>0, <2>1, <2>2, <2>3, <2>4 DEF TypeOK, LockOwner, LockDepth, LockFileExists
  <2>7. LockDepth'[r] = LockDepth[r] - 1 /\ LockDepth[r] # 1
    BY <1>0, <2>3, <2>5, <2>6 DEF TypeOK
  <2>8. M!Release(p, r)
    BY <1>0, <2>1, <2>2, <2>4, <2>5, <2>6, <2>7, ReleaseStep
  <2>9. QED
    BY <2>1, <2>8 DEF M!MNext
<1>7. CASE UNCHANGED vars
  BY <1>1, <1>7 DEF vars
<1>8. QED
  BY <1>1, <1>2, <1>3, <1>4, <1>5, <1>6, <1>7
  DEF Next, Step, sync_init, CallLock, CallUnlock, TestLocker, ReadLinkLock,
      RestoreTraps, Retry, ReadLinkUnlock, ExitUnlock, ExitDone, Exit, Signal,
      Kill9, Die

\* The lock on the file system implements the abstract re-entrant mutex.
THEOREM RefinesMutex == Spec => ImplementsMutex
<1>1. QED
  BY MutexInit, MutexStep, InvariantHolds, PTL DEF Spec, ImplementsMutex, M!MSpec
=============================================================================
