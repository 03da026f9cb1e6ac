---------------------------- MODULE RwLock_proofs ----------------------------
(***************************************************************************)
(* Proofs about the reader/writer locks, for any number of scripts and any *)
(* nesting.                                                                *)
(*                                                                         *)
(* Safe implies that a writer is alone.  Signals may make the numbers in   *)
(* the files too high: Safe bounds them from below.  It is inductive if    *)
(* PIDs are not used again, whatever the points are at which signals end   *)
(* scripts, and if they are, as long as no signal ends a script between    *)
(* the two writes of sync_lock_resource_for_reading.  Exact adds that the  *)
(* numbers are right, and is inductive if no signal ends a script within a *)
(* critical section or while it is counted as a waiting writer.            *)
(***************************************************************************)
EXTENDS RwLock, FiniteSetTheorems, TLAPS

\* The control points inside of a critical section of "$1:mutex"
Critical == {"rd_total", "rd_list", "ru_total", "ru_list",
             "wr_dec", "wr_list", "wu_list"}

\* What a script knows at its control points
Control ==
  \A p \in Proc :
    /\ pc[p] \in Critical => mutex = p
    /\ pc[p] \in {"rd_total", "rd_list"} => own[p] > 0
    /\ pc[p] = "ru_total" => own[p] = 0
    /\ pc[p] \in {"wr_dec", "wr_list"} => writer = p
    /\ pc[p] = "cu" => unguard[p]
    /\ unguard[p] => status[p] = "running" /\ excl = p /\ depth > 0

\* What the exit trap does
Exiting ==
  \A p \in Proc :
    /\ status[p] = "exited" => pc[p] = "idle" /\ rlist[p] = 0 /\ wlist[p] = 0
    /\ status[p] = "exiting" =>
         pc[p] \in {"idle", "ru", "ru_total", "ru_list", "wu", "wu_list"}
    /\ status[p] = "exiting" /\ pc[p] = "ru" => rlist[p] > 0

\* readers-active.p and the list of p agree, or one of them is written next.
ReaderAgrees(p) ==
  /\ pc[p] \in {"rd_total", "rd_list"} => own[p] = rlist[p] + 1
  /\ pc[p] = "rd_total" => rlist[p] = 0
  /\ pc[p] \in {"ru_total", "ru_list"} => rlist[p] = own[p] + 1
  /\ pc[p] \notin {"rd_total", "rd_list", "ru_total", "ru_list"} => own[p] = rlist[p]

\* The same for writer-active
WriteHolds(p) == IF writer = p THEN wcount ELSE 0

WriterAgrees(p) ==
  /\ pc[p] \in {"wr_dec", "wr_list"} => WriteHolds(p) = wlist[p] + 1
  /\ pc[p] = "wu_list" => wlist[p] = WriteHolds(p) + 1
  /\ pc[p] \notin {"wr_dec", "wr_list", "wu_list"} => WriteHolds(p) = wlist[p]

\* The list of a running script names no more locks than its files do.  They may
\* name more: those of an earlier script with its PID.
ReaderCovered(p) ==
  /\ pc[p] \in {"rd_total", "rd_list"} => own[p] >= rlist[p] + 1
  /\ pc[p] = "rd_total" => rlist[p] = 0
  /\ pc[p] \in {"ru_total", "ru_list"} => own[p] + 1 >= rlist[p]
  /\ pc[p] \notin {"rd_total", "rd_list", "ru_total", "ru_list"} => own[p] >= rlist[p]

WriterCovered(p) ==
  /\ pc[p] \in {"wr_dec", "wr_list"} => WriteHolds(p) >= wlist[p] + 1
  /\ pc[p] = "wu_list" => WriteHolds(p) + 1 >= wlist[p]
  /\ pc[p] \notin {"wr_dec", "wr_list", "wu_list"} => WriteHolds(p) >= wlist[p]

ListsCovered ==
  \A p \in Proc : status[p] = "running" => ReaderCovered(p) /\ WriterCovered(p)

WriterCounted == writer = NoProc <=> wcount = 0

\* A script that is ended after it wrote readers-active.p and before it counted
\* itself in readers-active leaves the file behind.
Left(p) == "rd_total" \in SignalPoints /\ status[p] # "running" /\ rlist[p] = 0

\* The scripts the number in readers-active has to count
IsCounted(p) ==
  \/ pc[p] = "ru_total"
  \/ own[p] > 0 /\ pc[p] # "rd_total" /\ ~ Left(p)

Counted == {p \in Proc : IsCounted(p)}
Queued  == {p \in Proc : pc[p] \in {"wr_wait", "wr_dec"}}

ReadersCounted == total >= Cardinality(Counted)
WaitersCounted == waiting >= Cardinality(Queued)

\* The files do not show a reader beside a writer, but for one that is gone.
WriterAlone ==
  writer # NoProc => \A q \in Proc \ {writer} : ~ Left(q) => own[q] = 0

Safe == /\ TypeOK
        /\ Control /\ Exiting
        /\ ListsCovered /\ WriterCounted
        /\ ReadersCounted /\ WaitersCounted
        /\ WriterAlone

\* If PIDs are used again, no signal ends a script between the two writes.
HarmlessReuse == MaxReuse = 0 \/ "rd_total" \notin SignalPoints

\* The signals that end scripts arrive outside of the critical sections.
HarmlessSignals == SignalPoints \cap (Critical \cup {"wr_wait"}) = {}

AllAgree == \A p \in Proc : ReaderAgrees(p) /\ WriterAgrees(p)

Exact == /\ AllAgree
         /\ total = Cardinality(Counted)
         /\ waiting = Cardinality(Queued)
-----------------------------------------------------------------------------
\* Initially nobody holds or wants the lock.
LEMMA InitSafe == Init => Safe
<1> SUFFICES ASSUME Init PROVE Safe
  OBVIOUS
<1>1. TypeOK /\ Control /\ Exiting /\ ListsCovered /\ WriterCounted /\ WriterAlone
  BY DEF Init, Zero, TypeOK, ControlPoints, Control, Critical, Exiting, ListsCovered,
     ReaderCovered, WriterCovered, WriteHolds, WriterCounted, WriterAlone, Left
<1>2. Counted = {} /\ Queued = {}
  BY DEF Init, Zero, Counted, IsCounted, Left, Queued
<1>3. QED
  BY <1>1, <1>2, FS_EmptySet DEF Init, Safe, ReadersCounted, WaitersCounted

\* The sets that are counted are finite.
LEMMA FiniteCounts ==
  /\ IsFiniteSet(Counted) /\ Cardinality(Counted) \in Nat
  /\ IsFiniteSet(Queued) /\ Cardinality(Queued) \in Nat
<1>1. Counted \in SUBSET Proc /\ Queued \in SUBSET Proc
  BY DEF Counted, Queued
<1>2. QED
  BY <1>1, ProcAssumption, FS_Subset, FS_CardinalityType

\* A script that joins a counted set raises the number by one.
LEMMA CountUp ==
  ASSUME NEW S, IsFiniteSet(S), NEW x, x \notin S
  PROVE  Cardinality(S \cup {x}) = Cardinality(S) + 1
BY FS_AddElement

\* A script that leaves a counted set lowers the number by one.
LEMMA CountDown ==
  ASSUME NEW S, IsFiniteSet(S), NEW x \in S
  PROVE  Cardinality(S \ {x}) = Cardinality(S) - 1
BY FS_RemoveElement

\* A part of a counted set has no more elements than the whole.
LEMMA CountBelow ==
  ASSUME NEW S, IsFiniteSet(S), NEW T, T \subseteq S
  PROVE  Cardinality(T) \in Nat /\ Cardinality(T) <= Cardinality(S)
BY FS_Subset, FS_CardinalityType

\* sync_can_take_write_lock: outside of critical sections no number in
\* readers-active but 0, or 1 for a reader that promotes its lock, is
\* compatible with the file of another reader that counts.
LEMMA CanTakeMeansAlone ==
  ASSUME Safe, NEW p \in Proc, mutex = NoProc, status[p] = "running",
         pc[p] \in {"wr", "wr_wait"}, sync_can_take_write_lock(p),
         NEW q \in Proc, q # p, ~ Left(q)
  PROVE  own[q] = 0
<1> SUFFICES ASSUME own[q] # 0 PROVE FALSE
  OBVIOUS
<1>1. q \in Counted
  BY NoProcAssumption DEF Safe, TypeOK, Control, Critical, Counted, IsCounted, Left
<1>2. total > 0
  <2>1. Cardinality(Counted) # 0
    BY <1>1, FiniteCounts, FS_EmptySet
  <2>2. QED
    BY <2>1, FiniteCounts DEF Safe, TypeOK, ReadersCounted
<1>3. own[p] > 0 /\ total = 1
  BY <1>2 DEF sync_can_take_write_lock
<1>4. {p, q} \subseteq Counted
  BY <1>1, <1>3 DEF Counted, IsCounted, Left
<1>5. Cardinality({p, q}) = 2
  <2>1. {p, q} = {p} \cup {q}
    OBVIOUS
  <2>2. IsFiniteSet({p}) /\ Cardinality({p}) = 1 /\ q \notin {p}
    BY FS_Singleton
  <2>3. Cardinality({p} \cup {q}) = 1 + 1
    BY <2>2, CountUp
  <2>4. QED
    BY <2>1, <2>3
<1>6. 2 <= Cardinality(Counted)
  BY <1>4, <1>5, FiniteCounts, CountBelow
<1>7. QED
  BY <1>3, <1>6, FiniteCounts DEF Safe, ReadersCounted, TypeOK

\* Every step of every script preserves Safe.
LEMMA NextSafe == HarmlessReuse /\ Safe /\ [Next]_vars => Safe'
<1> SUFFICES ASSUME HarmlessReuse, Safe, [Next]_vars PROVE Safe'
  OBVIOUS
<1> USE NoProcAssumption DEF At, Goto, LockMutex, UnlockMutex, locks, files, lists,
         scripts
<1>1. ASSUME NEW p \in Proc, ReadAgain(p) PROVE Safe'
  <2>1. TypeOK' /\ Control' /\ Exiting' /\ ListsCovered' /\ WriterCounted' /\ WriterAlone'
    BY <1>1 DEF ReadAgain, Safe, TypeOK, ControlPoints, Control, Critical, Exiting,
       ListsCovered, ReaderCovered, WriterCovered, WriteHolds, WriterCounted, WriterAlone,
       Left
  <2>2. Counted' = Counted /\ Queued' = Queued
    BY <1>1 DEF ReadAgain, Safe, TypeOK, Control, Exiting, ListsCovered, ReaderCovered,
       Counted, IsCounted, Left, Queued
  <2>3. QED
    BY <1>1, <2>1, <2>2 DEF ReadAgain, Safe, ReadersCounted, WaitersCounted
<1>2. ASSUME NEW p \in Proc, ReadTake(p) PROVE Safe'
  <2>1. TypeOK' /\ Control' /\ Exiting' /\ ListsCovered' /\ WriterCounted' /\ WriterAlone'
    BY <1>2 DEF ReadTake, Safe, TypeOK, ControlPoints, Control, Critical, Exiting,
       ListsCovered, ReaderCovered, WriterCovered, WriteHolds, WriterCounted, WriterAlone,
       Left
  <2>2. Counted' = Counted /\ Queued' = Queued
    BY <1>2 DEF ReadTake, Safe, TypeOK, Control, Exiting, ListsCovered, ReaderCovered,
       Counted, IsCounted, Left, Queued
  <2>3. QED
    BY <1>2, <2>1, <2>2 DEF ReadTake, Safe, ReadersCounted, WaitersCounted
<1>3. ASSUME NEW p \in Proc, ReadTotal(p) PROVE Safe'
  <2>1. TypeOK'
    BY <1>3 DEF ReadTotal, Safe, TypeOK, ControlPoints, Control
  <2>2. Counted' = Counted \cup {p} /\ p \notin Counted /\ Queued' = Queued
    BY <1>3 DEF ReadTotal, Safe, TypeOK, Control, Exiting, ListsCovered, ReaderCovered,
       Counted, IsCounted, Left, Queued
  <2>3. ReadersCounted' /\ WaitersCounted'
    <3>1. Cardinality(Counted') = Cardinality(Counted) + 1
      BY <2>2, FiniteCounts, CountUp
    <3>2. QED
      BY <1>3, <2>2, <3>1, FiniteCounts DEF ReadTotal, Safe, TypeOK, ReadersCounted,
         WaitersCounted
  <2>4. Control' /\ Exiting' /\ ListsCovered' /\ WriterCounted' /\ WriterAlone'
    BY <1>3 DEF ReadTotal, Safe, TypeOK, Control, Critical, Exiting, ListsCovered,
       ReaderCovered, WriterCovered, WriteHolds, WriterCounted, WriterAlone, Left
  <2>5. QED
    BY <2>1, <2>2, <2>3, <2>4 DEF Safe
<1>4. ASSUME NEW p \in Proc, ReadList(p) PROVE Safe'
  <2>1. TypeOK' /\ Control' /\ Exiting' /\ ListsCovered' /\ WriterCounted' /\ WriterAlone'
    BY <1>4 DEF ReadList, Safe, TypeOK, ControlPoints, Control, Critical, Exiting,
       ListsCovered, ReaderCovered, WriterCovered, WriteHolds, WriterCounted, WriterAlone,
       Left
  <2>2. Counted' = Counted /\ Queued' = Queued
    BY <1>4 DEF ReadList, Safe, TypeOK, Control, Exiting, ListsCovered, ReaderCovered,
       Counted, IsCounted, Left, Queued
  <2>3. QED
    BY <1>4, <2>1, <2>2 DEF ReadList, Safe, ReadersCounted, WaitersCounted
<1>5. ASSUME NEW p \in Proc, ReadDrop(p) PROVE Safe'
  <2>1. TypeOK' /\ Control' /\ Exiting' /\ ListsCovered' /\ WriterCounted' /\ WriterAlone'
    BY <1>5 DEF ReadDrop, Safe, TypeOK, ControlPoints, Control, Critical, Exiting,
       ListsCovered, ReaderCovered, WriterCovered, WriteHolds, WriterCounted, WriterAlone,
       Left
  <2>2. Counted' = Counted /\ Queued' = Queued
    BY <1>5 DEF ReadDrop, Safe, TypeOK, Control, Exiting, ListsCovered, ReaderCovered,
       Counted, IsCounted, Left, Queued
  <2>3. QED
    BY <1>5, <2>1, <2>2 DEF ReadDrop, Safe, ReadersCounted, WaitersCounted
<1>6. ASSUME NEW p \in Proc, ReadUntotal(p) PROVE Safe'
  <2>1. Counted' = Counted \ {p} /\ p \in Counted /\ Queued' = Queued
    BY <1>6 DEF ReadUntotal, Safe, TypeOK, Control, Exiting, ListsCovered, ReaderCovered,
       Counted, IsCounted, Left, Queued
  <2>2. total > 0 /\ ReadersCounted' /\ WaitersCounted'
    <3>1. Cardinality(Counted') = Cardinality(Counted) - 1 /\ Cardinality(Counted') \in Nat
      BY <2>1, FiniteCounts, CountDown, CountBelow
    <3>2. QED
      BY <1>6, <2>1, <3>1, FiniteCounts DEF ReadUntotal, Safe, TypeOK, ReadersCounted,
         WaitersCounted
  <2>3. TypeOK'
    BY <1>6, <2>2 DEF ReadUntotal, Safe, TypeOK, ControlPoints, Control
  <2>4. Control' /\ Exiting' /\ ListsCovered' /\ WriterCounted' /\ WriterAlone'
    BY <1>6 DEF ReadUntotal, Safe, TypeOK, Control, Critical, Exiting, ListsCovered,
       ReaderCovered, WriterCovered, WriteHolds, WriterCounted, WriterAlone, Left
  <2>5. QED
    BY <2>1, <2>2, <2>3, <2>4 DEF Safe
<1>7. ASSUME NEW p \in Proc, ReadUnlist(p) PROVE Safe'
  <2>1. TypeOK'
    BY <1>7 DEF ReadUnlist, Safe, TypeOK, ControlPoints, Control
  <2>2. Counted' \subseteq Counted /\ Queued' \subseteq Queued
    BY <1>7 DEF ReadUnlist, Safe, TypeOK, Control, Exiting, ListsCovered, ReaderCovered,
       Counted, IsCounted, Left, Queued
  <2>3. ReadersCounted' /\ WaitersCounted'
    <3>1. /\ Cardinality(Counted') \in Nat /\ Cardinality(Counted') <= Cardinality(Counted)
          /\ Cardinality(Queued') \in Nat /\ Cardinality(Queued') <= Cardinality(Queued)
      BY <2>2, FiniteCounts, CountBelow
    <3>2. QED
      BY <1>7, <2>2, <3>1, FiniteCounts DEF ReadUnlist, Safe, TypeOK, ReadersCounted,
         WaitersCounted
  <2>4. Control' /\ Exiting' /\ ListsCovered' /\ WriterCounted' /\ WriterAlone'
    BY <1>7 DEF ReadUnlist, Safe, TypeOK, Control, Critical, Exiting, ListsCovered,
       ReaderCovered, WriterCovered, WriteHolds, WriterCounted, WriterAlone, Left
  <2>5. QED
    BY <2>1, <2>2, <2>3, <2>4 DEF Safe
<1>8. ASSUME NEW p \in Proc, ReadUnlockError(p) PROVE Safe'
  <2>1. TypeOK' /\ Control' /\ Exiting' /\ ListsCovered' /\ WriterCounted' /\ WriterAlone'
    BY <1>8 DEF ReadUnlockError, Safe, TypeOK, ControlPoints, Control, Critical, Exiting,
       ListsCovered, ReaderCovered, WriterCovered, WriteHolds, WriterCounted, WriterAlone,
       Left
  <2>2. Counted' = Counted /\ Queued' = Queued
    BY <1>8 DEF ReadUnlockError, Safe, TypeOK, Control, Exiting, ListsCovered,
       ReaderCovered, Counted, IsCounted, Left, Queued
  <2>3. QED
    BY <1>8, <2>1, <2>2 DEF ReadUnlockError, Safe, ReadersCounted, WaitersCounted
<1>9. ASSUME NEW p \in Proc, WriteAgain(p) PROVE Safe'
  <2>1. TypeOK' /\ Control' /\ Exiting' /\ ListsCovered' /\ WriterCounted' /\ WriterAlone'
    BY <1>9 DEF WriteAgain, Safe, TypeOK, ControlPoints, Control, Critical, Exiting,
       ListsCovered, ReaderCovered, WriterCovered, WriteHolds, WriterCounted, WriterAlone,
       Left
  <2>2. Counted' = Counted /\ Queued' = Queued
    BY <1>9 DEF WriteAgain, Safe, TypeOK, Control, Exiting, ListsCovered, ReaderCovered,
       Counted, IsCounted, Left, Queued
  <2>3. QED
    BY <1>9, <2>1, <2>2 DEF WriteAgain, Safe, ReadersCounted, WaitersCounted
<1>10. ASSUME NEW p \in Proc, WriteTake(p) PROVE Safe'
  <2>1. TypeOK'
    BY <1>10 DEF WriteTake, Safe, TypeOK, ControlPoints, Control
  <2>2. Counted' = Counted /\ Queued' = Queued
    BY <1>10 DEF WriteTake, Safe, TypeOK, Control, Exiting, ListsCovered, ReaderCovered,
       Counted, IsCounted, Left, Queued
  <2>3. ReadersCounted' /\ WaitersCounted'
    BY <1>10, <2>2 DEF WriteTake, Safe, ReadersCounted, WaitersCounted
  <2>4. Control' /\ Exiting' /\ ListsCovered' /\ WriterCounted'
    BY <1>10 DEF WriteTake, Safe, TypeOK, Control, Critical, Exiting, ListsCovered,
       ReaderCovered, WriterCovered, WriteHolds, WriterCounted
  <2>5. WriterAlone'
    <3>1. status[p] = "running"
      BY <1>10 DEF WriteTake, Safe, TypeOK, Exiting
    <3>2. \A q \in Proc : q # p /\ ~ Left(q) => own[q] = 0
      BY <1>10, <3>1, CanTakeMeansAlone DEF WriteTake
    <3>3. QED
      BY <1>10, <3>2 DEF WriteTake, Safe, TypeOK, WriterAlone, Left
  <2>6. QED
    BY <2>1, <2>2, <2>3, <2>4, <2>5 DEF Safe
<1>11. ASSUME NEW p \in Proc, WriteEnqueue(p) PROVE Safe'
  <2>1. TypeOK'
    BY <1>11 DEF WriteEnqueue, Safe, TypeOK, ControlPoints, Control
  <2>2. Queued' = Queued \cup {p} /\ p \notin Queued /\ Counted' = Counted
    BY <1>11 DEF WriteEnqueue, Safe, TypeOK, Control, Exiting, ListsCovered,
       ReaderCovered, Counted, IsCounted, Left, Queued
  <2>3. ReadersCounted' /\ WaitersCounted'
    <3>1. Cardinality(Queued') = Cardinality(Queued) + 1
      BY <2>2, FiniteCounts, CountUp
    <3>2. QED
      BY <1>11, <2>2, <3>1, FiniteCounts DEF WriteEnqueue, Safe, TypeOK, ReadersCounted,
         WaitersCounted
  <2>4. Control' /\ Exiting' /\ ListsCovered' /\ WriterCounted' /\ WriterAlone'
    BY <1>11 DEF WriteEnqueue, Safe, TypeOK, Control, Critical, Exiting, ListsCovered,
       ReaderCovered, WriterCovered, WriteHolds, WriterCounted, WriterAlone, Left
  <2>5. QED
    BY <2>1, <2>2, <2>3, <2>4 DEF Safe
<1>12. ASSUME NEW p \in Proc, WriteGrant(p) PROVE Safe'
  <2>1. TypeOK'
    BY <1>12 DEF WriteGrant, Safe, TypeOK, ControlPoints, Control
  <2>2. Counted' = Counted /\ Queued' = Queued
    BY <1>12 DEF WriteGrant, Safe, TypeOK, Control, Exiting, ListsCovered, ReaderCovered,
       Counted, IsCounted, Left, Queued
  <2>3. ReadersCounted' /\ WaitersCounted'
    BY <1>12, <2>2 DEF WriteGrant, Safe, ReadersCounted, WaitersCounted
  <2>4. Control' /\ Exiting' /\ ListsCovered' /\ WriterCounted'
    BY <1>12 DEF WriteGrant, Safe, TypeOK, Control, Critical, Exiting, ListsCovered,
       ReaderCovered, WriterCovered, WriteHolds, WriterCounted
  <2>5. WriterAlone'
    <3>1. status[p] = "running"
      BY <1>12 DEF WriteGrant, Safe, TypeOK, Exiting
    <3>2. \A q \in Proc : q # p /\ ~ Left(q) => own[q] = 0
      BY <1>12, <3>1, CanTakeMeansAlone DEF WriteGrant
    <3>3. QED
      BY <1>12, <3>2 DEF WriteGrant, Safe, TypeOK, WriterAlone, Left
  <2>6. QED
    BY <2>1, <2>2, <2>3, <2>4, <2>5 DEF Safe
<1>13. ASSUME NEW p \in Proc, WriteDequeue(p) PROVE Safe'
  <2>1. Queued' = Queued \ {p} /\ p \in Queued /\ Counted' = Counted
    BY <1>13 DEF WriteDequeue, Safe, TypeOK, Control, Exiting, ListsCovered,
       ReaderCovered, Counted, IsCounted, Left, Queued
  <2>2. waiting > 0 /\ ReadersCounted' /\ WaitersCounted'
    <3>1. Cardinality(Queued') = Cardinality(Queued) - 1 /\ Cardinality(Queued') \in Nat
      BY <2>1, FiniteCounts, CountDown, CountBelow
    <3>2. QED
      BY <1>13, <2>1, <3>1, FiniteCounts DEF WriteDequeue, Safe, TypeOK, ReadersCounted,
         WaitersCounted
  <2>3. TypeOK'
    BY <1>13, <2>2 DEF WriteDequeue, Safe, TypeOK, ControlPoints, Control
  <2>4. Control' /\ Exiting' /\ ListsCovered' /\ WriterCounted' /\ WriterAlone'
    BY <1>13 DEF WriteDequeue, Safe, TypeOK, Control, Critical, Exiting, ListsCovered,
       ReaderCovered, WriterCovered, WriteHolds, WriterCounted, WriterAlone, Left
  <2>5. QED
    BY <2>1, <2>2, <2>3, <2>4 DEF Safe
<1>14. ASSUME NEW p \in Proc, WriteList(p) PROVE Safe'
  <2>1. TypeOK' /\ Control' /\ Exiting' /\ ListsCovered' /\ WriterCounted' /\ WriterAlone'
    BY <1>14 DEF WriteList, Safe, TypeOK, ControlPoints, Control, Critical, Exiting,
       ListsCovered, ReaderCovered, WriterCovered, WriteHolds, WriterCounted, WriterAlone,
       Left
  <2>2. Counted' = Counted /\ Queued' = Queued
    BY <1>14 DEF WriteList, Safe, TypeOK, Control, Exiting, ListsCovered, ReaderCovered,
       Counted, IsCounted, Left, Queued
  <2>3. QED
    BY <1>14, <2>1, <2>2 DEF WriteList, Safe, ReadersCounted, WaitersCounted
<1>15. ASSUME NEW p \in Proc, WriteDrop(p) PROVE Safe'
  <2>1. TypeOK'
    <3>1. wcount > 0
      BY <1>15 DEF WriteDrop, Safe, TypeOK, WriterCounted
    <3>2. QED
      BY <1>15, <3>1 DEF WriteDrop, Safe, TypeOK, ControlPoints
  <2>2. Counted' = Counted /\ Queued' = Queued
    BY <1>15 DEF WriteDrop, Safe, TypeOK, Control, Exiting, ListsCovered, ReaderCovered,
       Counted, IsCounted, Left, Queued
  <2>3. ReadersCounted' /\ WaitersCounted'
    BY <1>15, <2>2 DEF WriteDrop, Safe, ReadersCounted, WaitersCounted
  <2>4. Control' /\ Exiting' /\ ListsCovered' /\ WriterCounted' /\ WriterAlone'
    BY <1>15 DEF WriteDrop, Safe, TypeOK, Control, Critical, Exiting, ListsCovered,
       ReaderCovered, WriterCovered, WriteHolds, WriterCounted, WriterAlone, Left
  <2>5. QED
    BY <2>1, <2>2, <2>3, <2>4 DEF Safe
<1>16. ASSUME NEW p \in Proc, WriteUnlist(p) PROVE Safe'
  <2>1. TypeOK' /\ Control' /\ Exiting' /\ ListsCovered' /\ WriterCounted' /\ WriterAlone'
    BY <1>16 DEF WriteUnlist, Safe, TypeOK, ControlPoints, Control, Critical, Exiting,
       ListsCovered, ReaderCovered, WriterCovered, WriteHolds, WriterCounted, WriterAlone,
       Left
  <2>2. Counted' = Counted /\ Queued' = Queued
    BY <1>16 DEF WriteUnlist, Safe, TypeOK, Control, Exiting, ListsCovered, ReaderCovered,
       Counted, IsCounted, Left, Queued
  <2>3. QED
    BY <1>16, <2>1, <2>2 DEF WriteUnlist, Safe, ReadersCounted, WaitersCounted
<1>17. ASSUME NEW p \in Proc, WriteUnlockError(p) PROVE Safe'
  <2>1. TypeOK' /\ Control' /\ Exiting' /\ ListsCovered' /\ WriterCounted' /\ WriterAlone'
    BY <1>17 DEF WriteUnlockError, Safe, TypeOK, ControlPoints, Control, Critical,
       Exiting, ListsCovered, ReaderCovered, WriterCovered, WriteHolds, WriterCounted,
       WriterAlone, Left
  <2>2. Counted' = Counted /\ Queued' = Queued
    BY <1>17 DEF WriteUnlockError, Safe, TypeOK, Control, Exiting, ListsCovered,
       ReaderCovered, Counted, IsCounted, Left, Queued
  <2>3. QED
    BY <1>17, <2>1, <2>2 DEF WriteUnlockError, Safe, ReadersCounted, WaitersCounted
<1>18. ASSUME NEW p \in Proc, GuardTake(p) PROVE Safe'
  <2>1. TypeOK' /\ Control' /\ Exiting' /\ ListsCovered' /\ WriterCounted' /\ WriterAlone'
    BY <1>18 DEF GuardTake, Safe, TypeOK, ControlPoints, Control, Critical, Exiting,
       ListsCovered, ReaderCovered, WriterCovered, WriteHolds, WriterCounted, WriterAlone,
       Left
  <2>2. Counted' = Counted /\ Queued' = Queued
    BY <1>18 DEF GuardTake, Safe, TypeOK, Control, Exiting, ListsCovered, ReaderCovered,
       Counted, IsCounted, Left, Queued
  <2>3. QED
    BY <1>18, <2>1, <2>2 DEF GuardTake, Safe, ReadersCounted, WaitersCounted
<1>19. ASSUME NEW p \in Proc, GuardDrop(p) PROVE Safe'
  <2>1. TypeOK' /\ Control' /\ Exiting' /\ ListsCovered' /\ WriterCounted' /\ WriterAlone'
    BY <1>19 DEF GuardDrop, Safe, TypeOK, ControlPoints, Control, Critical, Exiting,
       ListsCovered, ReaderCovered, WriterCovered, WriteHolds, WriterCounted, WriterAlone,
       Left
  <2>2. Counted' = Counted /\ Queued' = Queued
    BY <1>19 DEF GuardDrop, Safe, TypeOK, Control, Exiting, ListsCovered, ReaderCovered,
       Counted, IsCounted, Left, Queued
  <2>3. QED
    BY <1>19, <2>1, <2>2 DEF GuardDrop, Safe, ReadersCounted, WaitersCounted
<1>20. ASSUME NEW p \in Proc, CallRead(p) PROVE Safe'
  <2>1. TypeOK' /\ Control' /\ Exiting' /\ ListsCovered' /\ WriterCounted' /\ WriterAlone'
    BY <1>20 DEF CallRead, Safe, TypeOK, ControlPoints, Control, Critical, Exiting,
       ListsCovered, ReaderCovered, WriterCovered, WriteHolds, WriterCounted, WriterAlone,
       Left, Guarded, Idle
  <2>2. Counted' = Counted /\ Queued' = Queued
    BY <1>20 DEF CallRead, Safe, TypeOK, Control, Exiting, ListsCovered, ReaderCovered,
       Counted, IsCounted, Left, Queued, Idle
  <2>3. QED
    BY <1>20, <2>1, <2>2 DEF CallRead, Safe, ReadersCounted, WaitersCounted
<1>21. ASSUME NEW p \in Proc, CallReadUnlock(p) PROVE Safe'
  <2>1. TypeOK' /\ Control' /\ Exiting' /\ ListsCovered' /\ WriterCounted' /\ WriterAlone'
    BY <1>21 DEF CallReadUnlock, Safe, TypeOK, ControlPoints, Control, Critical, Exiting,
       ListsCovered, ReaderCovered, WriterCovered, WriteHolds, WriterCounted, WriterAlone,
       Left, Guarded, Idle
  <2>2. Counted' = Counted /\ Queued' = Queued
    BY <1>21 DEF CallReadUnlock, Safe, TypeOK, Control, Exiting, ListsCovered,
       ReaderCovered, Counted, IsCounted, Left, Queued, Idle
  <2>3. QED
    BY <1>21, <2>1, <2>2 DEF CallReadUnlock, Safe, ReadersCounted, WaitersCounted
<1>22. ASSUME NEW p \in Proc, CallWrite(p) PROVE Safe'
  <2>1. TypeOK' /\ Control' /\ Exiting' /\ ListsCovered' /\ WriterCounted' /\ WriterAlone'
    BY <1>22 DEF CallWrite, Safe, TypeOK, ControlPoints, Control, Critical, Exiting,
       ListsCovered, ReaderCovered, WriterCovered, WriteHolds, WriterCounted, WriterAlone,
       Left, Guarded, Idle
  <2>2. Counted' = Counted /\ Queued' = Queued
    BY <1>22 DEF CallWrite, Safe, TypeOK, Control, Exiting, ListsCovered, ReaderCovered,
       Counted, IsCounted, Left, Queued, Idle
  <2>3. QED
    BY <1>22, <2>1, <2>2 DEF CallWrite, Safe, ReadersCounted, WaitersCounted
<1>23. ASSUME NEW p \in Proc, CallWriteUnlock(p) PROVE Safe'
  <2>1. TypeOK' /\ Control' /\ Exiting' /\ ListsCovered' /\ WriterCounted' /\ WriterAlone'
    BY <1>23 DEF CallWriteUnlock, Safe, TypeOK, ControlPoints, Control, Critical, Exiting,
       ListsCovered, ReaderCovered, WriterCovered, WriteHolds, WriterCounted, WriterAlone,
       Left, Guarded, Idle
  <2>2. Counted' = Counted /\ Queued' = Queued
    BY <1>23 DEF CallWriteUnlock, Safe, TypeOK, Control, Exiting, ListsCovered,
       ReaderCovered, Counted, IsCounted, Left, Queued, Idle
  <2>3. QED
    BY <1>23, <2>1, <2>2 DEF CallWriteUnlock, Safe, ReadersCounted, WaitersCounted
<1>24. ASSUME NEW p \in Proc, CallCircuitLock(p) PROVE Safe'
  <2>1. TypeOK' /\ Control' /\ Exiting' /\ ListsCovered' /\ WriterCounted' /\ WriterAlone'
    BY <1>24 DEF CallCircuitLock, Safe, TypeOK, ControlPoints, Control, Critical, Exiting,
       ListsCovered, ReaderCovered, WriterCovered, WriteHolds, WriterCounted, WriterAlone,
       Left, Guarded, Idle
  <2>2. Counted' = Counted /\ Queued' = Queued
    BY <1>24 DEF CallCircuitLock, Safe, TypeOK, Control, Exiting, ListsCovered,
       ReaderCovered, Counted, IsCounted, Left, Queued, Idle
  <2>3. QED
    BY <1>24, <2>1, <2>2 DEF CallCircuitLock, Safe, ReadersCounted, WaitersCounted
<1>25. ASSUME NEW p \in Proc, CallCircuitUnlock(p) PROVE Safe'
  <2>1. TypeOK' /\ Control' /\ Exiting' /\ ListsCovered' /\ WriterCounted' /\ WriterAlone'
    BY <1>25 DEF CallCircuitUnlock, Safe, TypeOK, ControlPoints, Control, Critical,
       Exiting, ListsCovered, ReaderCovered, WriterCovered, WriteHolds, WriterCounted,
       WriterAlone, Left, Guarded, Idle
  <2>2. Counted' = Counted /\ Queued' = Queued
    BY <1>25 DEF CallCircuitUnlock, Safe, TypeOK, Control, Exiting, ListsCovered,
       ReaderCovered, Counted, IsCounted, Left, Queued, Idle
  <2>3. QED
    BY <1>25, <2>1, <2>2 DEF CallCircuitUnlock, Safe, ReadersCounted, WaitersCounted
<1>26. ASSUME NEW p \in Proc, Terminate(p) PROVE Safe'
  <2>1. TypeOK'
    BY <1>26 DEF Terminate, Safe, TypeOK, ControlPoints, Control
  <2>2. Counted' \subseteq Counted /\ Queued' \subseteq Queued
    BY <1>26 DEF Terminate, Safe, TypeOK, Control, Exiting, ListsCovered, ReaderCovered,
       Counted, IsCounted, Left, Queued
  <2>3. ReadersCounted' /\ WaitersCounted'
    <3>1. /\ Cardinality(Counted') \in Nat /\ Cardinality(Counted') <= Cardinality(Counted)
          /\ Cardinality(Queued') \in Nat /\ Cardinality(Queued') <= Cardinality(Queued)
      BY <2>2, FiniteCounts, CountBelow
    <3>2. QED
      BY <1>26, <2>2, <3>1, FiniteCounts DEF Terminate, Safe, TypeOK, ReadersCounted,
         WaitersCounted
  <2>4. Control' /\ Exiting' /\ ListsCovered' /\ WriterCounted' /\ WriterAlone'
    BY <1>26 DEF Terminate, Safe, TypeOK, Control, Critical, Exiting, ListsCovered,
       ReaderCovered, WriterCovered, WriteHolds, WriterCounted, WriterAlone, Left
  <2>5. QED
    BY <2>1, <2>2, <2>3, <2>4 DEF Safe
<1>27. ASSUME NEW p \in Proc, ExitUnlock(p) PROVE Safe'
  <2>1. TypeOK' /\ Control' /\ Exiting' /\ ListsCovered' /\ WriterCounted' /\ WriterAlone'
    BY <1>27 DEF ExitUnlock, Safe, TypeOK, ControlPoints, Control, Critical, Exiting,
       ListsCovered, ReaderCovered, WriterCovered, WriteHolds, WriterCounted, WriterAlone,
       Left
  <2>2. Counted' = Counted /\ Queued' = Queued
    BY <1>27 DEF ExitUnlock, Safe, TypeOK, Control, Exiting, ListsCovered, ReaderCovered,
       Counted, IsCounted, Left, Queued
  <2>3. QED
    BY <1>27, <2>1, <2>2 DEF ExitUnlock, Safe, ReadersCounted, WaitersCounted
<1>28. ASSUME NEW p \in Proc, ExitDone(p) PROVE Safe'
  <2>1. TypeOK' /\ Control' /\ Exiting' /\ ListsCovered' /\ WriterCounted' /\ WriterAlone'
    BY <1>28 DEF ExitDone, Safe, TypeOK, ControlPoints, Control, Critical, Exiting,
       ListsCovered, ReaderCovered, WriterCovered, WriteHolds, WriterCounted, WriterAlone,
       Left
  <2>2. Counted' = Counted /\ Queued' = Queued
    BY <1>28 DEF ExitDone, Safe, TypeOK, Control, Exiting, ListsCovered, ReaderCovered,
       Counted, IsCounted, Left, Queued
  <2>3. QED
    BY <1>28, <2>1, <2>2 DEF ExitDone, Safe, ReadersCounted, WaitersCounted
<1>29. ASSUME NEW p \in Proc, Restart(p) PROVE Safe'
  <2>1. "rd_total" \notin SignalPoints
    BY <1>29, MaxReuseAssumption DEF Restart, HarmlessReuse, Safe, TypeOK
  <2>2. TypeOK' /\ Control' /\ Exiting' /\ ListsCovered' /\ WriterCounted' /\ WriterAlone'
    BY <1>29, <2>1 DEF Restart, Safe, TypeOK, ControlPoints, Control, Critical, Exiting,
       ListsCovered, ReaderCovered, WriterCovered, WriteHolds, WriterCounted, WriterAlone,
       Left
  <2>3. Counted' = Counted /\ Queued' = Queued
    BY <1>29, <2>1 DEF Restart, Safe, TypeOK, Counted, IsCounted, Left, Queued
  <2>4. QED
    BY <1>29, <2>2, <2>3 DEF Restart, Safe, ReadersCounted, WaitersCounted
<1>30. CASE UNCHANGED vars
  BY <1>30 DEF vars, Safe, TypeOK, Control, Exiting, ListsCovered, ReaderCovered,
     WriterCovered, WriteHolds, WriterCounted, ReadersCounted, WaitersCounted, Counted,
     IsCounted, Left, Queued, WriterAlone
<1>31. QED
  BY <1>1, <1>2, <1>3, <1>4, <1>5, <1>6, <1>7, <1>8, <1>9, <1>10, <1>11, <1>12, <1>13,
     <1>14, <1>15, <1>16, <1>17, <1>18, <1>19, <1>20, <1>21, <1>22, <1>23, <1>24, <1>25,
     <1>26, <1>27, <1>28, <1>29, <1>30 DEF Next, Step, Release

\* Safe is an invariant if what signals leave behind is harmless to a script that
\* gets the same PID.
LEMMA InvSafe == ASSUME HarmlessReuse PROVE Spec => []Safe
<1>1. Safe /\ [Next]_vars => Safe'
  BY NextSafe, HarmlessReuse
<1>2. QED
  BY <1>1, InitSafe, PTL DEF Spec

\* The files and lists of the lock always have the form the functions expect:
\* no count gets negative and readers-active, writer-active and writers-waiting
\* are numbers and PIDs, even if scripts are ended in the middle of a function,
\* under the same condition.
THEOREM TypeCorrect == ASSUME HarmlessReuse PROVE Spec => []TypeOK
<1>1. Safe => TypeOK
  BY DEF Safe
<1>2. QED
  BY <1>1, InvSafe, PTL

\* "Write locks are exclusive", for any number of scripts, at any nesting, with
\* promotion of read locks: wherever signals end scripts, as long as no PID is
\* used again, and with PIDs used again, as long as no signal ends a script
\* between the two writes of sync_lock_resource_for_reading.
THEOREM WriterIsExclusive == ASSUME HarmlessReuse PROVE Spec => []WriterExcludesAll
<1>1. Safe => WriterExcludesAll
  <2> SUFFICES ASSUME Safe, NEW p \in Proc, NEW q \in Proc, Writing(p), p # q
               PROVE  ~ Reading(q) /\ ~ Writing(q)
    BY DEF WriterExcludesAll
  <2>1. writer = p
    BY DEF Safe, TypeOK, ListsCovered, WriterCovered, WriteHolds, Writing
  <2>2. ~ Writing(q)
    BY <2>1 DEF Safe, TypeOK, ListsCovered, WriterCovered, WriteHolds, Writing
  <2>3. ~ Reading(q)
    BY <2>1, NoProcAssumption DEF Safe, TypeOK, ListsCovered, ReaderCovered, WriterAlone,
       Left, Reading
  <2>4. QED
    BY <2>2, <2>3
<1>2. QED
  BY <1>1, InvSafe, PTL

-----------------------------------------------------------------------------
\* Initially the numbers are right.
LEMMA InitExact == Init => Exact
<1> SUFFICES ASSUME Init PROVE Exact
  OBVIOUS
<1>1. AllAgree
  BY DEF Init, Zero, AllAgree, ReaderAgrees, WriterAgrees, WriteHolds
<1>2. Counted = {} /\ Queued = {}
  BY DEF Init, Zero, Counted, IsCounted, Left, Queued
<1>3. QED
  BY <1>1, <1>2, FS_EmptySet DEF Init, Exact

\* Without signals within the critical sections the numbers stay right.
LEMMA NextExact == HarmlessSignals /\ Safe /\ Exact /\ [Next]_vars => Exact'
<1> SUFFICES ASSUME HarmlessSignals, Safe, Exact, [Next]_vars PROVE Exact'
  OBVIOUS
<1>0. "rd_total" \notin SignalPoints
  BY DEF HarmlessSignals, Critical
<1> USE <1>0, NoProcAssumption DEF At, Goto, LockMutex, UnlockMutex, locks, files, lists,
         scripts
<1>1. ASSUME NEW p \in Proc, ReadAgain(p) PROVE Exact'
  <2>1. AllAgree'
    BY <1>1 DEF ReadAgain, Safe, TypeOK, Control, Critical, Exiting, WriterCounted, Exact,
       AllAgree, ReaderAgrees, WriterAgrees, WriteHolds
  <2>2. Counted' = Counted /\ Queued' = Queued
    BY <1>1 DEF ReadAgain, Safe, TypeOK, Control, Critical, Exiting, Exact, AllAgree,
       ReaderAgrees, Counted, IsCounted, Left, Queued
  <2>3. QED
    BY <1>1, <2>1, <2>2 DEF ReadAgain, Exact
<1>2. ASSUME NEW p \in Proc, ReadTake(p) PROVE Exact'
  <2>1. AllAgree'
    BY <1>2 DEF ReadTake, Safe, TypeOK, Control, Critical, Exiting, WriterCounted, Exact,
       AllAgree, ReaderAgrees, WriterAgrees, WriteHolds
  <2>2. Counted' = Counted /\ Queued' = Queued
    BY <1>2 DEF ReadTake, Safe, TypeOK, Control, Critical, Exiting, Exact, AllAgree,
       ReaderAgrees, Counted, IsCounted, Left, Queued
  <2>3. QED
    BY <1>2, <2>1, <2>2 DEF ReadTake, Exact
<1>3. ASSUME NEW p \in Proc, ReadTotal(p) PROVE Exact'
  <2>1. AllAgree'
    BY <1>3 DEF ReadTotal, Safe, TypeOK, Control, Critical, Exiting, WriterCounted, Exact,
       AllAgree, ReaderAgrees, WriterAgrees, WriteHolds
  <2>2. Counted' = Counted \cup {p} /\ p \notin Counted /\ Queued' = Queued
    BY <1>3 DEF ReadTotal, Safe, TypeOK, Control, Critical, Exiting, Exact, AllAgree,
       ReaderAgrees, Counted, IsCounted, Left, Queued
  <2>3. Cardinality(Counted') = Cardinality(Counted) + 1
    BY <2>2, FiniteCounts, CountUp
  <2>4. QED
    BY <1>3, <2>1, <2>2, <2>3 DEF ReadTotal, Exact
<1>4. ASSUME NEW p \in Proc, ReadList(p) PROVE Exact'
  <2>1. AllAgree'
    BY <1>4 DEF ReadList, Safe, TypeOK, Control, Critical, Exiting, WriterCounted, Exact,
       AllAgree, ReaderAgrees, WriterAgrees, WriteHolds
  <2>2. Counted' = Counted /\ Queued' = Queued
    BY <1>4 DEF ReadList, Safe, TypeOK, Control, Critical, Exiting, Exact, AllAgree,
       ReaderAgrees, Counted, IsCounted, Left, Queued
  <2>3. QED
    BY <1>4, <2>1, <2>2 DEF ReadList, Exact
<1>5. ASSUME NEW p \in Proc, ReadDrop(p) PROVE Exact'
  <2>1. AllAgree'
    BY <1>5 DEF ReadDrop, Safe, TypeOK, Control, Critical, Exiting, WriterCounted, Exact,
       AllAgree, ReaderAgrees, WriterAgrees, WriteHolds
  <2>2. Counted' = Counted /\ Queued' = Queued
    BY <1>5 DEF ReadDrop, Safe, TypeOK, Control, Critical, Exiting, Exact, AllAgree,
       ReaderAgrees, Counted, IsCounted, Left, Queued
  <2>3. QED
    BY <1>5, <2>1, <2>2 DEF ReadDrop, Exact
<1>6. ASSUME NEW p \in Proc, ReadUntotal(p) PROVE Exact'
  <2>1. AllAgree'
    BY <1>6 DEF ReadUntotal, Safe, TypeOK, Control, Critical, Exiting, WriterCounted,
       Exact, AllAgree, ReaderAgrees, WriterAgrees, WriteHolds
  <2>2. Counted' = Counted \ {p} /\ p \in Counted /\ Queued' = Queued
    BY <1>6 DEF ReadUntotal, Safe, TypeOK, Control, Critical, Exiting, Exact, AllAgree,
       ReaderAgrees, Counted, IsCounted, Left, Queued
  <2>3. Cardinality(Counted') = Cardinality(Counted) - 1
    BY <2>2, FiniteCounts, CountDown
  <2>4. QED
    BY <1>6, <2>1, <2>2, <2>3 DEF ReadUntotal, Exact
<1>7. ASSUME NEW p \in Proc, ReadUnlist(p) PROVE Exact'
  <2>1. AllAgree'
    BY <1>7 DEF ReadUnlist, Safe, TypeOK, Control, Critical, Exiting, WriterCounted,
       Exact, AllAgree, ReaderAgrees, WriterAgrees, WriteHolds
  <2>2. Counted' = Counted /\ Queued' = Queued
    BY <1>7 DEF ReadUnlist, Safe, TypeOK, Control, Critical, Exiting, Exact, AllAgree,
       ReaderAgrees, Counted, IsCounted, Left, Queued
  <2>3. QED
    BY <1>7, <2>1, <2>2 DEF ReadUnlist, Exact
<1>8. ASSUME NEW p \in Proc, ReadUnlockError(p) PROVE Exact'
  <2>1. AllAgree'
    BY <1>8 DEF ReadUnlockError, Safe, TypeOK, Control, Critical, Exiting, WriterCounted,
       Exact, AllAgree, ReaderAgrees, WriterAgrees, WriteHolds
  <2>2. Counted' = Counted /\ Queued' = Queued
    BY <1>8 DEF ReadUnlockError, Safe, TypeOK, Control, Critical, Exiting, Exact,
       AllAgree, ReaderAgrees, Counted, IsCounted, Left, Queued
  <2>3. QED
    BY <1>8, <2>1, <2>2 DEF ReadUnlockError, Exact
<1>9. ASSUME NEW p \in Proc, WriteAgain(p) PROVE Exact'
  <2>1. AllAgree'
    BY <1>9 DEF WriteAgain, Safe, TypeOK, Control, Critical, Exiting, WriterCounted,
       Exact, AllAgree, ReaderAgrees, WriterAgrees, WriteHolds
  <2>2. Counted' = Counted /\ Queued' = Queued
    BY <1>9 DEF WriteAgain, Safe, TypeOK, Control, Critical, Exiting, Exact, AllAgree,
       ReaderAgrees, Counted, IsCounted, Left, Queued
  <2>3. QED
    BY <1>9, <2>1, <2>2 DEF WriteAgain, Exact
<1>10. ASSUME NEW p \in Proc, WriteTake(p) PROVE Exact'
  <2>1. AllAgree'
    BY <1>10 DEF WriteTake, Safe, TypeOK, Control, Critical, Exiting, WriterCounted,
       Exact, AllAgree, ReaderAgrees, WriterAgrees, WriteHolds
  <2>2. Counted' = Counted /\ Queued' = Queued
    BY <1>10 DEF WriteTake, Safe, TypeOK, Control, Critical, Exiting, Exact, AllAgree,
       ReaderAgrees, Counted, IsCounted, Left, Queued
  <2>3. QED
    BY <1>10, <2>1, <2>2 DEF WriteTake, Exact
<1>11. ASSUME NEW p \in Proc, WriteEnqueue(p) PROVE Exact'
  <2>1. AllAgree'
    BY <1>11 DEF WriteEnqueue, Safe, TypeOK, Control, Critical, Exiting, WriterCounted,
       Exact, AllAgree, ReaderAgrees, WriterAgrees, WriteHolds
  <2>2. Counted' = Counted /\ Queued' = Queued \cup {p} /\ p \notin Queued
    BY <1>11 DEF WriteEnqueue, Safe, TypeOK, Control, Critical, Exiting, Exact, AllAgree,
       ReaderAgrees, Counted, IsCounted, Left, Queued
  <2>3. Cardinality(Queued') = Cardinality(Queued) + 1
    BY <2>2, FiniteCounts, CountUp
  <2>4. QED
    BY <1>11, <2>1, <2>2, <2>3 DEF WriteEnqueue, Exact
<1>12. ASSUME NEW p \in Proc, WriteGrant(p) PROVE Exact'
  <2>1. AllAgree'
    BY <1>12 DEF WriteGrant, Safe, TypeOK, Control, Critical, Exiting, WriterCounted,
       Exact, AllAgree, ReaderAgrees, WriterAgrees, WriteHolds
  <2>2. Counted' = Counted /\ Queued' = Queued
    BY <1>12 DEF WriteGrant, Safe, TypeOK, Control, Critical, Exiting, Exact, AllAgree,
       ReaderAgrees, Counted, IsCounted, Left, Queued
  <2>3. QED
    BY <1>12, <2>1, <2>2 DEF WriteGrant, Exact
<1>13. ASSUME NEW p \in Proc, WriteDequeue(p) PROVE Exact'
  <2>1. AllAgree'
    BY <1>13 DEF WriteDequeue, Safe, TypeOK, Control, Critical, Exiting, WriterCounted,
       Exact, AllAgree, ReaderAgrees, WriterAgrees, WriteHolds
  <2>2. Counted' = Counted /\ Queued' = Queued \ {p} /\ p \in Queued
    BY <1>13 DEF WriteDequeue, Safe, TypeOK, Control, Critical, Exiting, Exact, AllAgree,
       ReaderAgrees, Counted, IsCounted, Left, Queued
  <2>3. Cardinality(Queued') = Cardinality(Queued) - 1
    BY <2>2, FiniteCounts, CountDown
  <2>4. QED
    BY <1>13, <2>1, <2>2, <2>3 DEF WriteDequeue, Exact
<1>14. ASSUME NEW p \in Proc, WriteList(p) PROVE Exact'
  <2>1. AllAgree'
    BY <1>14 DEF WriteList, Safe, TypeOK, Control, Critical, Exiting, WriterCounted,
       Exact, AllAgree, ReaderAgrees, WriterAgrees, WriteHolds
  <2>2. Counted' = Counted /\ Queued' = Queued
    BY <1>14 DEF WriteList, Safe, TypeOK, Control, Critical, Exiting, Exact, AllAgree,
       ReaderAgrees, Counted, IsCounted, Left, Queued
  <2>3. QED
    BY <1>14, <2>1, <2>2 DEF WriteList, Exact
<1>15. ASSUME NEW p \in Proc, WriteDrop(p) PROVE Exact'
  <2>1. AllAgree'
    BY <1>15 DEF WriteDrop, Safe, TypeOK, Control, Critical, Exiting, WriterCounted,
       Exact, AllAgree, ReaderAgrees, WriterAgrees, WriteHolds
  <2>2. Counted' = Counted /\ Queued' = Queued
    BY <1>15 DEF WriteDrop, Safe, TypeOK, Control, Critical, Exiting, Exact, AllAgree,
       ReaderAgrees, Counted, IsCounted, Left, Queued
  <2>3. QED
    BY <1>15, <2>1, <2>2 DEF WriteDrop, Exact
<1>16. ASSUME NEW p \in Proc, WriteUnlist(p) PROVE Exact'
  <2>1. AllAgree'
    BY <1>16 DEF WriteUnlist, Safe, TypeOK, Control, Critical, Exiting, WriterCounted,
       Exact, AllAgree, ReaderAgrees, WriterAgrees, WriteHolds
  <2>2. Counted' = Counted /\ Queued' = Queued
    BY <1>16 DEF WriteUnlist, Safe, TypeOK, Control, Critical, Exiting, Exact, AllAgree,
       ReaderAgrees, Counted, IsCounted, Left, Queued
  <2>3. QED
    BY <1>16, <2>1, <2>2 DEF WriteUnlist, Exact
<1>17. ASSUME NEW p \in Proc, WriteUnlockError(p) PROVE Exact'
  <2>1. AllAgree'
    BY <1>17 DEF WriteUnlockError, Safe, TypeOK, Control, Critical, Exiting,
       WriterCounted, Exact, AllAgree, ReaderAgrees, WriterAgrees, WriteHolds
  <2>2. Counted' = Counted /\ Queued' = Queued
    BY <1>17 DEF WriteUnlockError, Safe, TypeOK, Control, Critical, Exiting, Exact,
       AllAgree, ReaderAgrees, Counted, IsCounted, Left, Queued
  <2>3. QED
    BY <1>17, <2>1, <2>2 DEF WriteUnlockError, Exact
<1>18. ASSUME NEW p \in Proc, GuardTake(p) PROVE Exact'
  <2>1. AllAgree'
    BY <1>18 DEF GuardTake, Safe, TypeOK, Control, Critical, Exiting, WriterCounted,
       Exact, AllAgree, ReaderAgrees, WriterAgrees, WriteHolds
  <2>2. Counted' = Counted /\ Queued' = Queued
    BY <1>18 DEF GuardTake, Safe, TypeOK, Control, Critical, Exiting, Exact, AllAgree,
       ReaderAgrees, Counted, IsCounted, Left, Queued
  <2>3. QED
    BY <1>18, <2>1, <2>2 DEF GuardTake, Exact
<1>19. ASSUME NEW p \in Proc, GuardDrop(p) PROVE Exact'
  <2>1. AllAgree'
    BY <1>19 DEF GuardDrop, Safe, TypeOK, Control, Critical, Exiting, WriterCounted,
       Exact, AllAgree, ReaderAgrees, WriterAgrees, WriteHolds
  <2>2. Counted' = Counted /\ Queued' = Queued
    BY <1>19 DEF GuardDrop, Safe, TypeOK, Control, Critical, Exiting, Exact, AllAgree,
       ReaderAgrees, Counted, IsCounted, Left, Queued
  <2>3. QED
    BY <1>19, <2>1, <2>2 DEF GuardDrop, Exact
<1>20. ASSUME NEW p \in Proc, CallRead(p) PROVE Exact'
  <2>1. AllAgree'
    BY <1>20 DEF CallRead, Safe, TypeOK, Control, Critical, Exiting, WriterCounted, Exact,
       AllAgree, ReaderAgrees, WriterAgrees, WriteHolds, Idle, Guarded
  <2>2. Counted' = Counted /\ Queued' = Queued
    BY <1>20 DEF CallRead, Safe, TypeOK, Control, Critical, Exiting, Exact, AllAgree,
       ReaderAgrees, Counted, IsCounted, Left, Queued, Idle, Guarded
  <2>3. QED
    BY <1>20, <2>1, <2>2 DEF CallRead, Exact
<1>21. ASSUME NEW p \in Proc, CallReadUnlock(p) PROVE Exact'
  <2>1. AllAgree'
    BY <1>21 DEF CallReadUnlock, Safe, TypeOK, Control, Critical, Exiting, WriterCounted,
       Exact, AllAgree, ReaderAgrees, WriterAgrees, WriteHolds, Idle, Guarded
  <2>2. Counted' = Counted /\ Queued' = Queued
    BY <1>21 DEF CallReadUnlock, Safe, TypeOK, Control, Critical, Exiting, Exact,
       AllAgree, ReaderAgrees, Counted, IsCounted, Left, Queued, Idle, Guarded
  <2>3. QED
    BY <1>21, <2>1, <2>2 DEF CallReadUnlock, Exact
<1>22. ASSUME NEW p \in Proc, CallWrite(p) PROVE Exact'
  <2>1. AllAgree'
    BY <1>22 DEF CallWrite, Safe, TypeOK, Control, Critical, Exiting, WriterCounted,
       Exact, AllAgree, ReaderAgrees, WriterAgrees, WriteHolds, Idle, Guarded
  <2>2. Counted' = Counted /\ Queued' = Queued
    BY <1>22 DEF CallWrite, Safe, TypeOK, Control, Critical, Exiting, Exact, AllAgree,
       ReaderAgrees, Counted, IsCounted, Left, Queued, Idle, Guarded
  <2>3. QED
    BY <1>22, <2>1, <2>2 DEF CallWrite, Exact
<1>23. ASSUME NEW p \in Proc, CallWriteUnlock(p) PROVE Exact'
  <2>1. AllAgree'
    BY <1>23 DEF CallWriteUnlock, Safe, TypeOK, Control, Critical, Exiting, WriterCounted,
       Exact, AllAgree, ReaderAgrees, WriterAgrees, WriteHolds, Idle, Guarded
  <2>2. Counted' = Counted /\ Queued' = Queued
    BY <1>23 DEF CallWriteUnlock, Safe, TypeOK, Control, Critical, Exiting, Exact,
       AllAgree, ReaderAgrees, Counted, IsCounted, Left, Queued, Idle, Guarded
  <2>3. QED
    BY <1>23, <2>1, <2>2 DEF CallWriteUnlock, Exact
<1>24. ASSUME NEW p \in Proc, CallCircuitLock(p) PROVE Exact'
  <2>1. AllAgree'
    BY <1>24 DEF CallCircuitLock, Safe, TypeOK, Control, Critical, Exiting, WriterCounted,
       Exact, AllAgree, ReaderAgrees, WriterAgrees, WriteHolds, Idle, Guarded
  <2>2. Counted' = Counted /\ Queued' = Queued
    BY <1>24 DEF CallCircuitLock, Safe, TypeOK, Control, Critical, Exiting, Exact,
       AllAgree, ReaderAgrees, Counted, IsCounted, Left, Queued, Idle, Guarded
  <2>3. QED
    BY <1>24, <2>1, <2>2 DEF CallCircuitLock, Exact
<1>25. ASSUME NEW p \in Proc, CallCircuitUnlock(p) PROVE Exact'
  <2>1. AllAgree'
    BY <1>25 DEF CallCircuitUnlock, Safe, TypeOK, Control, Critical, Exiting,
       WriterCounted, Exact, AllAgree, ReaderAgrees, WriterAgrees, WriteHolds, Idle,
       Guarded
  <2>2. Counted' = Counted /\ Queued' = Queued
    BY <1>25 DEF CallCircuitUnlock, Safe, TypeOK, Control, Critical, Exiting, Exact,
       AllAgree, ReaderAgrees, Counted, IsCounted, Left, Queued, Idle, Guarded
  <2>3. QED
    BY <1>25, <2>1, <2>2 DEF CallCircuitUnlock, Exact
<1>26. ASSUME NEW p \in Proc, Terminate(p) PROVE Exact'
  <2>1. AllAgree'
    BY <1>26 DEF Terminate, Safe, TypeOK, Control, Critical, Exiting, WriterCounted,
       Exact, AllAgree, ReaderAgrees, WriterAgrees, WriteHolds, HarmlessSignals
  <2>2. Counted' = Counted /\ Queued' = Queued
    BY <1>26 DEF Terminate, Safe, TypeOK, Control, Critical, Exiting, Exact, AllAgree,
       ReaderAgrees, Counted, IsCounted, Left, Queued, HarmlessSignals
  <2>3. QED
    BY <1>26, <2>1, <2>2 DEF Terminate, Exact
<1>27. ASSUME NEW p \in Proc, ExitUnlock(p) PROVE Exact'
  <2>1. AllAgree'
    BY <1>27 DEF ExitUnlock, Safe, TypeOK, Control, Critical, Exiting, WriterCounted,
       Exact, AllAgree, ReaderAgrees, WriterAgrees, WriteHolds
  <2>2. Counted' = Counted /\ Queued' = Queued
    BY <1>27 DEF ExitUnlock, Safe, TypeOK, Control, Critical, Exiting, Exact, AllAgree,
       ReaderAgrees, Counted, IsCounted, Left, Queued
  <2>3. QED
    BY <1>27, <2>1, <2>2 DEF ExitUnlock, Exact
<1>28. ASSUME NEW p \in Proc, ExitDone(p) PROVE Exact'
  <2>1. AllAgree'
    BY <1>28 DEF ExitDone, Safe, TypeOK, Control, Critical, Exiting, WriterCounted, Exact,
       AllAgree, ReaderAgrees, WriterAgrees, WriteHolds
  <2>2. Counted' = Counted /\ Queued' = Queued
    BY <1>28 DEF ExitDone, Safe, TypeOK, Control, Critical, Exiting, Exact, AllAgree,
       ReaderAgrees, Counted, IsCounted, Left, Queued
  <2>3. QED
    BY <1>28, <2>1, <2>2 DEF ExitDone, Exact
<1>29. ASSUME NEW p \in Proc, Restart(p) PROVE Exact'
  <2>1. AllAgree'
    BY <1>29 DEF Restart, Safe, TypeOK, Exiting, Exact, AllAgree, ReaderAgrees,
       WriterAgrees, WriteHolds
  <2>2. Counted' = Counted /\ Queued' = Queued
    BY <1>29 DEF Restart, Safe, TypeOK, Counted, IsCounted, Left, Queued
  <2>3. QED
    BY <1>29, <2>1, <2>2 DEF Restart, Exact
<1>30. CASE UNCHANGED vars
  BY <1>30 DEF vars, Exact, AllAgree, ReaderAgrees, WriterAgrees, WriteHolds, Counted,
     IsCounted, Left, Queued
<1>31. QED
  BY <1>1, <1>2, <1>3, <1>4, <1>5, <1>6, <1>7, <1>8, <1>9, <1>10, <1>11, <1>12, <1>13,
     <1>14, <1>15, <1>16, <1>17, <1>18, <1>19, <1>20, <1>21, <1>22, <1>23, <1>24, <1>25,
     <1>26, <1>27, <1>28, <1>29, <1>30 DEF Next, Step, Release

\* Exact is an invariant if signals are harmless.
LEMMA InvExact == ASSUME HarmlessSignals PROVE Spec => [](Safe /\ Exact)
<1>1. Safe /\ Exact /\ [Next]_vars => Exact'
  BY NextExact, HarmlessSignals
<1>2. HarmlessReuse
  BY HarmlessSignals DEF HarmlessSignals, HarmlessReuse, Critical
<1>3. QED
  BY <1>1, <1>2, InvSafe, InitExact, PTL DEF Spec

\* Between critical sections readers-active, the files per reader, writer-active
\* and writers-waiting agree with what the scripts hold and wait for, as long as
\* signals end scripts outside of the critical sections only.
THEOREM FilesAreRight == ASSUME HarmlessSignals PROVE Spec => []FilesAgree
<1>1. Safe /\ Exact => FilesAgree
  <2> SUFFICES ASSUME Safe, Exact, mutex = NoProc
               PROVE  /\ total = Cardinality({p \in Proc : own[p] > 0})
                      /\ \A p \in Proc : own[p] = rlist[p]
                      /\ \A p \in Proc : wlist[p] = IF writer = p THEN wcount ELSE 0
                      /\ waiting = Cardinality({p \in Proc : pc[p] = "wr_wait"})
    BY DEF FilesAgree
  <2>1. \A p \in Proc : pc[p] \notin Critical
    BY NoProcAssumption DEF Safe, Control
  <2>2. \A p \in Proc : own[p] = rlist[p] /\ wlist[p] = IF writer = p THEN wcount ELSE 0
    BY <2>1 DEF Exact, AllAgree, ReaderAgrees, WriterAgrees, WriteHolds, Critical
  <2>3. /\ Counted = {p \in Proc : own[p] > 0}
        /\ Queued = {p \in Proc : pc[p] = "wr_wait"}
    BY <2>1, <2>2 DEF Counted, IsCounted, Left, Queued, Critical
  <2>4. QED
    BY <2>2, <2>3 DEF Exact
<1>2. QED
  BY <1>1, InvExact, PTL

\* "Used at shell exit in order to avoid deadlocks due to scripts terminating in
\* an unexpected way": under the same condition, what keeps readers and writers
\* out is a script that is still running.
THEOREM OnlyLiveScriptsBlock == ASSUME HarmlessSignals PROVE Spec => []BlockedOnlyByLive
<1>1. Safe /\ Exact => BlockedOnlyByLive
  <2> DEFINE live == {p \in Proc : status[p] = "running"}
  <2> SUFFICES ASSUME Safe, Exact, mutex = NoProc, \A p \in Proc : status[p] # "exiting"
               PROVE  /\ writer # NoProc => writer \in live
                      /\ total <= Cardinality({p \in live : own[p] > 0})
                      /\ waiting <= Cardinality({p \in live : pc[p] = "wr_wait"})
    BY DEF BlockedOnlyByLive
  <2>1. \A p \in Proc : pc[p] \notin Critical
    BY NoProcAssumption DEF Safe, Control
  <2>2. \A p \in Proc : p \notin live => own[p] = 0 /\ writer # p /\ pc[p] = "idle"
    BY <2>1, NoProcAssumption DEF Safe, TypeOK, Exiting, WriterCounted, Exact, AllAgree,
       ReaderAgrees, WriterAgrees, WriteHolds, Critical
  <2>3. /\ Counted = {p \in live : own[p] > 0}
        /\ Queued = {p \in live : pc[p] = "wr_wait"}
    BY <2>1, <2>2 DEF Counted, IsCounted, Left, Queued, Critical
  <2>4. writer # NoProc => writer \in live
    BY <2>2 DEF Safe, TypeOK
  <2>5. total = Cardinality(Counted) /\ waiting = Cardinality(Queued)
    BY DEF Exact
  <2>6. QED
    BY <2>3, <2>4, <2>5, FiniteCounts
<1>2. QED
  BY <1>1, InvExact, PTL
=============================================================================
