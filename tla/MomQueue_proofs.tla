--------------------------- MODULE MomQueue_proofs ---------------------------
(***************************************************************************)
(* Proofs about the message queue of an endpoint, for any number of        *)
(* senders, messages and restarts.                                         *)
(*                                                                         *)
(* Bounded and Unique are inductive whatever happens: timeouts, lost       *)
(* wakeups, endpoints that go away and come back.  InStep is the           *)
(* arithmetic of the wakeups of a calm endpoint, from which the refinement *)
(* of the reliable channel follows.                                        *)
(***************************************************************************)
EXTENDS MomQueue, FiniteSetTheorems, SequenceTheorems, TLAPS

\* The senders that have asked for a message identifier and have not yet
\* started the wakeup, or not yet queued the message
Busy     == {s \in Sender : spc[s] \in {"queue", "wakeup"}}
Queueing == {s \in Sender : spc[s] = "queue"}

InHand == IF rpc \in {"got", "unqueue"} THEN 1 ELSE 0

\* Every character that was, is or will be in the pipe, and every file, stands
\* for a message identifier of its own.
Bounded ==
  /\ begin + Cardinality(Busy) + wakers + fifo + InHand < nextId
  /\ end + Cardinality(Queueing) < nextId
  /\ nextId <= Messages + 1
  /\ rpc = "down" => restarts < MaxRestarts

\* A message identifier is in one place only: with the sender that is about to
\* queue the message, in one file, or among the handled messages.
Handled == {handled[i] : i \in 1..Len(handled)}

SendersApart ==
  \A s \in Queueing :
    /\ sid[s] \in Message /\ sid[s] < nextId
    /\ \A t \in Queueing : sid[s] = sid[t] => s = t
    /\ \A i \in Index : file[i] # sid[s]
    /\ sid[s] \notin Handled

FilesApart ==
  \A i \in Index : file[i] # NoMessage =>
    /\ file[i] < nextId
    /\ \A j \in Index : file[i] = file[j] => i = j
    /\ file[i] \notin Handled

HandledOld == \A m \in Handled : m < nextId

Unique == SendersApart /\ FilesApart /\ HandledOld /\ HandledOnce

\* A calm endpoint stays up, has one wakeup for each message in the queue, and
\* the queue has no gaps.
InStep ==
  Calm => /\ up /\ rpc # "down"
          /\ begin + Tokens = end
          /\ \A i \in Index : begin <= i /\ i < end => file[i] # NoMessage

IInv == TypeOK /\ Bounded /\ Unique /\ InStep

-----------------------------------------------------------------------------
\* The configuration: the bounds are numbers.
LEMMA ConfigType ==
  ASSUME config \in Configs
  PROVE  /\ Messages \in Nat /\ Messages <= MaxMessages /\ MaxMessages \in Nat
         /\ MaxRestarts \in Nat /\ TimedWait \in BOOLEAN /\ SlowWakeup \in BOOLEAN
BY ConfigAssumption DEF Messages, MaxRestarts, TimedWait, SlowWakeup

\* The sets of senders that are counted are finite.
LEMMA FiniteCounts ==
  /\ IsFiniteSet(Busy) /\ Cardinality(Busy) \in Nat
  /\ IsFiniteSet(Queueing) /\ Cardinality(Queueing) \in Nat
  /\ IsFiniteSet(Waking) /\ Cardinality(Waking) \in Nat
<1>1. Busy \in SUBSET Sender /\ Queueing \in SUBSET Sender /\ Waking \in SUBSET Sender
  BY DEF Busy, Queueing, Waking
<1>2. QED
  BY <1>1, SenderAssumption, FS_Subset, FS_CardinalityType

\* Initially the queue is empty and nobody has begun to send.
LEMMA InitIInv == Init => IInv
<1> SUFFICES ASSUME Init PROVE IInv
  OBVIOUS
<1>1. Busy = {} /\ Queueing = {} /\ Waking = {}
  BY DEF Init, Busy, Queueing, Waking
<1>2. Cardinality(Busy) = 0 /\ Cardinality(Queueing) = 0 /\ Cardinality(Waking) = 0
  BY <1>1, FS_EmptySet
<1>3. TypeOK
  BY ConfigType DEF Init, TypeOK, Index, Message, NoMessage, NoFiles, MaxRestarts
<1>4. Bounded
  BY <1>2, ConfigType DEF Init, Bounded, InHand, Messages
<1>5. Unique
  BY <1>1 DEF Init, Unique, SendersApart, FilesApart, HandledOld, HandledOnce, Handled,
     NoFiles
<1>6. InStep
  BY <1>2 DEF Init, InStep, Tokens, Index
<1>7. QED
  BY <1>3, <1>4, <1>5, <1>6 DEF IInv

\* Every step of senders, wakeup processes and receiver preserves IInv.
LEMMA NextIInv == IInv /\ [Next]_vars => IInv'
<1> SUFFICES ASSUME IInv, [Next]_vars PROVE IInv'
  OBVIOUS
<1>a. /\ begin \in Nat /\ end \in Nat /\ wakers \in Nat /\ fifo \in Nat /\ nextId \in Nat \ {0}
      /\ Messages \in Nat /\ Messages <= MaxMessages /\ MaxMessages \in Nat /\ MaxRestarts \in Nat
  BY ConfigType DEF IInv, TypeOK, Index
<1>1. ASSUME NEW s \in Sender, mom_unicast_message(s) PROVE IInv'
  <2>1. /\ Busy' = Busy \cup {s} /\ s \notin Busy
        /\ Queueing' = Queueing \cup {s} /\ s \notin Queueing
        /\ Waking' = Waking
    BY <1>1 DEF mom_unicast_message, IInv, TypeOK, Busy, Queueing, Waking
  <2>2. /\ Cardinality(Busy') = Cardinality(Busy) + 1
        /\ Cardinality(Queueing') = Cardinality(Queueing) + 1
    BY <2>1, FiniteCounts, FS_AddElement
  <2>3. Bounded'
    BY <1>a, <1>1, <2>1, <2>2, FiniteCounts DEF mom_unicast_message, IInv, Bounded,
       InHand, Messages, MaxRestarts
  <2>4. TypeOK'
    <3>1. /\ begin' \in Index /\ end' \in Index /\ fifo' \in 0..MaxMessages
          /\ wakers' \in 0..MaxMessages /\ nextId' \in 1..(MaxMessages + 1)
      BY <1>a, <1>1, <2>1, <2>2, <2>3, FiniteCounts DEF mom_unicast_message, Bounded,
         InHand, Index, Messages
    <3>2. QED
      BY <1>a, <1>1, <3>1 DEF mom_unicast_message, IInv, TypeOK, Bounded, Message,
         NoMessage, Index, NoFiles, MaxRestarts, Messages
  <2>5. Unique'
    <3>1. nextId \in Message
      BY <1>a, <1>1 DEF mom_unicast_message, Message
    <3>2. Handled' = Handled /\ (\A m \in Handled : m \in Nat)
      <4>1. \A i \in 1..Len(handled) : handled[i] \in Message
        BY ElementOfSeq DEF IInv, TypeOK
      <4>2. QED
        BY <1>a, <1>1, <4>1 DEF mom_unicast_message, Handled, Message
    <3>3. SendersApart'
      BY <1>a, <1>1, <2>1, <3>1, <3>2 DEF mom_unicast_message, IInv, TypeOK, Unique,
         SendersApart, FilesApart, HandledOld, Queueing, Message, NoMessage
    <3>4. FilesApart' /\ HandledOld' /\ HandledOnce'
      BY <1>a, <1>1, <3>2 DEF mom_unicast_message, IInv, TypeOK, Unique, FilesApart,
         HandledOld, HandledOnce, Message, NoMessage
    <3>5. QED
      BY <3>3, <3>4 DEF Unique
  <2>6. InStep'
    BY <1>a, <1>1, <2>1, <2>2, FiniteCounts DEF mom_unicast_message, IInv, TypeOK, InStep,
       Calm, Tokens, InHand, MaxRestarts, TimedWait, SlowWakeup
  <2>7. QED
    BY <2>3, <2>4, <2>5, <2>6 DEF IInv
<1>2. ASSUME NEW s \in Sender, mom_queue_message(s) PROVE IInv'
  <2>1. /\ Busy' = Busy
        /\ Queueing' = Queueing \ {s} /\ s \in Queueing
        /\ Waking' = Waking \cup {s} /\ s \notin Waking
    BY <1>2 DEF mom_queue_message, IInv, TypeOK, Busy, Queueing, Waking
  <2>2. /\ Cardinality(Queueing') = Cardinality(Queueing) - 1 /\ Cardinality(Queueing') \in Nat
        /\ Cardinality(Waking') = Cardinality(Waking) + 1
    BY <2>1, FiniteCounts, FS_AddElement, FS_RemoveElement, FS_CardinalityType
  <2>3. Bounded'
    BY <1>a, <1>2, <2>1, <2>2, FiniteCounts DEF mom_queue_message, IInv, Bounded, InHand,
       Messages, MaxRestarts
  <2>4. TypeOK'
    <3>1. /\ begin' \in Index /\ end' \in Index /\ fifo' \in 0..MaxMessages
          /\ wakers' \in 0..MaxMessages /\ nextId' \in 1..(MaxMessages + 1)
      BY <1>a, <1>2, <2>1, <2>2, <2>3, FiniteCounts DEF mom_queue_message, Bounded,
         InHand, Index, Messages
    <3>2. QED
      BY <1>a, <1>2, <3>1 DEF mom_queue_message, IInv, TypeOK, Bounded, Message,
         NoMessage, Index, NoFiles, MaxRestarts, Messages
  <2>5. Unique'
    BY <1>2 DEF mom_queue_message, IInv, TypeOK, Unique, SendersApart, FilesApart,
       HandledOld, HandledOnce, Handled, Queueing, Message, NoMessage, NoFiles
  <2>6. InStep'
    <3>1. sid[s] \in Message /\ end \in Index
      BY <2>1 DEF IInv, TypeOK, Unique, SendersApart
    <3>2. SUFFICES ASSUME Calm
                   PROVE  /\ begin' + Tokens' = end'
                          /\ \A i \in Index : begin' <= i /\ i < end' => file'[i] # NoMessage
      BY <1>2 DEF mom_queue_message, IInv, InStep, Calm, MaxRestarts, TimedWait,
         SlowWakeup
    <3>3. begin' + Tokens' = end'
      BY <1>a, <1>2, <2>1, <2>2, <3>2, FiniteCounts DEF mom_queue_message, IInv, InStep,
         Tokens
    <3>4. ASSUME NEW i \in Index, begin' <= i, i < end' PROVE file'[i] # NoMessage
      BY <1>a, <1>2, <3>1, <3>2, <3>4 DEF mom_queue_message, IInv, TypeOK, InStep, Index,
         Message, NoMessage
    <3>5. QED
      BY <3>3, <3>4
  <2>7. QED
    BY <2>3, <2>4, <2>5, <2>6 DEF IInv
<1>3. ASSUME NEW s \in Sender, mom_queue_message_gone(s) PROVE IInv'
  <2>1. /\ Busy' = Busy \ {s} /\ s \in Busy
        /\ Queueing' = Queueing \ {s} /\ s \in Queueing
        /\ Waking' = Waking
    BY <1>3 DEF mom_queue_message_gone, IInv, TypeOK, Busy, Queueing, Waking
  <2>2. /\ Cardinality(Busy') = Cardinality(Busy) - 1 /\ Cardinality(Busy') \in Nat
        /\ Cardinality(Queueing') = Cardinality(Queueing) - 1 /\ Cardinality(Queueing') \in Nat
    BY <2>1, FiniteCounts, FS_RemoveElement, FS_CardinalityType
  <2>3. Bounded'
    BY <1>a, <1>3, <2>1, <2>2, FiniteCounts DEF mom_queue_message_gone, IInv, Bounded,
       InHand, Messages, MaxRestarts
  <2>4. TypeOK'
    <3>1. /\ begin' \in Index /\ end' \in Index /\ fifo' \in 0..MaxMessages
          /\ wakers' \in 0..MaxMessages /\ nextId' \in 1..(MaxMessages + 1)
      BY <1>a, <1>3, <2>1, <2>2, <2>3, FiniteCounts DEF mom_queue_message_gone, Bounded,
         InHand, Index, Messages
    <3>2. QED
      BY <1>a, <1>3, <3>1 DEF mom_queue_message_gone, IInv, TypeOK, Bounded, Message,
         NoMessage, Index, NoFiles, MaxRestarts, Messages
  <2>5. Unique'
    BY <1>3 DEF mom_queue_message_gone, IInv, TypeOK, Unique, SendersApart, FilesApart,
       HandledOld, HandledOnce, Handled, Queueing, Message, NoMessage, NoFiles
  <2>6. InStep'
    BY <1>a, <1>3, <2>1, <2>2, FiniteCounts DEF mom_queue_message_gone, IInv, TypeOK,
       InStep, Calm, Tokens, InHand, MaxRestarts, TimedWait, SlowWakeup
  <2>7. QED
    BY <2>3, <2>4, <2>5, <2>6 DEF IInv
<1>4. ASSUME NEW s \in Sender, mom_wakeup(s) PROVE IInv'
  <2>1. /\ Busy' = Busy \ {s} /\ s \in Busy
        /\ Queueing' = Queueing
        /\ Waking' = Waking \ {s} /\ s \in Waking
    BY <1>4 DEF mom_wakeup, IInv, TypeOK, Busy, Queueing, Waking
  <2>2. /\ Cardinality(Busy') = Cardinality(Busy) - 1 /\ Cardinality(Busy') \in Nat
        /\ Cardinality(Waking') = Cardinality(Waking) - 1 /\ Cardinality(Waking') \in Nat
    BY <2>1, FiniteCounts, FS_RemoveElement, FS_CardinalityType
  <2>3. Bounded'
    BY <1>a, <1>4, <2>1, <2>2, FiniteCounts DEF mom_wakeup, IInv, Bounded, InHand,
       Messages, MaxRestarts
  <2>4. TypeOK'
    <3>1. /\ begin' \in Index /\ end' \in Index /\ fifo' \in 0..MaxMessages
          /\ wakers' \in 0..MaxMessages /\ nextId' \in 1..(MaxMessages + 1)
      BY <1>a, <1>4, <2>1, <2>2, <2>3, FiniteCounts DEF mom_wakeup, Bounded, InHand,
         Index, Messages
    <3>2. QED
      BY <1>a, <1>4, <3>1 DEF mom_wakeup, IInv, TypeOK, Bounded, Message, NoMessage,
         Index, NoFiles, MaxRestarts, Messages
  <2>5. Unique'
    BY <1>4 DEF mom_wakeup, IInv, TypeOK, Unique, SendersApart, FilesApart, HandledOld,
       HandledOnce, Handled, Queueing, Message, NoMessage, NoFiles
  <2>6. InStep'
    BY <1>a, <1>4, <2>1, <2>2, FiniteCounts DEF mom_wakeup, IInv, TypeOK, InStep, Calm,
       Tokens, InHand, MaxRestarts, TimedWait, SlowWakeup
  <2>7. QED
    BY <2>3, <2>4, <2>5, <2>6 DEF IInv
<1>5. ASSUME mom_do_wakeup PROVE IInv'
  <2>1. /\ Busy' = Busy
        /\ Queueing' = Queueing
        /\ Waking' = Waking
    BY <1>5 DEF mom_do_wakeup, IInv, TypeOK, Busy, Queueing, Waking
  <2>2. Bounded'
    BY <1>a, <1>5, <2>1, FiniteCounts DEF mom_do_wakeup, IInv, Bounded, InHand, Messages,
       MaxRestarts
  <2>3. TypeOK'
    <3>1. /\ begin' \in Index /\ end' \in Index /\ fifo' \in 0..MaxMessages
          /\ wakers' \in 0..MaxMessages /\ nextId' \in 1..(MaxMessages + 1)
      BY <1>a, <1>5, <2>1, <2>2, FiniteCounts DEF mom_do_wakeup, Bounded, InHand, Index,
         Messages
    <3>2. QED
      BY <1>a, <1>5, <3>1 DEF mom_do_wakeup, IInv, TypeOK, Bounded, Message, NoMessage,
         Index, NoFiles, MaxRestarts, Messages
  <2>4. Unique'
    BY <1>5 DEF mom_do_wakeup, IInv, TypeOK, Unique, SendersApart, FilesApart, HandledOld,
       HandledOnce, Handled, Queueing, Message, NoMessage, NoFiles
  <2>5. InStep'
    BY <1>a, <1>5, <2>1, FiniteCounts DEF mom_do_wakeup, IInv, TypeOK, InStep, Calm,
       Tokens, InHand, MaxRestarts, TimedWait, SlowWakeup
  <2>6. QED
    BY <2>2, <2>3, <2>4, <2>5 DEF IInv
<1>6. ASSUME mom_wakeup_timeout PROVE IInv'
  <2>1. /\ Busy' = Busy
        /\ Queueing' = Queueing
        /\ Waking' = Waking
    BY <1>6 DEF mom_wakeup_timeout, IInv, TypeOK, Busy, Queueing, Waking
  <2>2. Bounded'
    BY <1>a, <1>6, <2>1, FiniteCounts DEF mom_wakeup_timeout, IInv, Bounded, InHand,
       Messages, MaxRestarts
  <2>3. TypeOK'
    <3>1. /\ begin' \in Index /\ end' \in Index /\ fifo' \in 0..MaxMessages
          /\ wakers' \in 0..MaxMessages /\ nextId' \in 1..(MaxMessages + 1)
      BY <1>a, <1>6, <2>1, <2>2, FiniteCounts DEF mom_wakeup_timeout, Bounded, InHand,
         Index, Messages
    <3>2. QED
      BY <1>a, <1>6, <3>1 DEF mom_wakeup_timeout, IInv, TypeOK, Bounded, Message,
         NoMessage, Index, NoFiles, MaxRestarts, Messages
  <2>4. Unique'
    BY <1>6 DEF mom_wakeup_timeout, IInv, TypeOK, Unique, SendersApart, FilesApart,
       HandledOld, HandledOnce, Handled, Queueing, Message, NoMessage, NoFiles
  <2>5. InStep'
    BY <1>a, <1>6, <2>1, FiniteCounts DEF mom_wakeup_timeout, IInv, TypeOK, InStep, Calm,
       Tokens, InHand, MaxRestarts, TimedWait, SlowWakeup
  <2>6. QED
    BY <2>2, <2>3, <2>4, <2>5 DEF IInv
<1>7. ASSUME mom_wait PROVE IInv'
  <2>1. /\ Busy' = Busy
        /\ Queueing' = Queueing
        /\ Waking' = Waking
    BY <1>7 DEF mom_wait, IInv, TypeOK, Busy, Queueing, Waking
  <2>2. Bounded'
    BY <1>a, <1>7, <2>1, FiniteCounts DEF mom_wait, IInv, Bounded, InHand, Messages,
       MaxRestarts
  <2>3. TypeOK'
    <3>1. /\ begin' \in Index /\ end' \in Index /\ fifo' \in 0..MaxMessages
          /\ wakers' \in 0..MaxMessages /\ nextId' \in 1..(MaxMessages + 1)
      BY <1>a, <1>7, <2>1, <2>2, FiniteCounts DEF mom_wait, Bounded, InHand, Index,
         Messages
    <3>2. QED
      BY <1>a, <1>7, <3>1 DEF mom_wait, IInv, TypeOK, Bounded, Message, NoMessage, Index,
         NoFiles, MaxRestarts, Messages
  <2>4. Unique'
    BY <1>7 DEF mom_wait, IInv, TypeOK, Unique, SendersApart, FilesApart, HandledOld,
       HandledOnce, Handled, Queueing, Message, NoMessage, NoFiles
  <2>5. InStep'
    BY <1>a, <1>7, <2>1, FiniteCounts DEF mom_wait, IInv, TypeOK, InStep, Calm, Tokens,
       InHand, MaxRestarts, TimedWait, SlowWakeup
  <2>6. QED
    BY <2>2, <2>3, <2>4, <2>5 DEF IInv
<1>8. ASSUME mom_do_wait PROVE IInv'
  <2>1. /\ Busy' = Busy
        /\ Queueing' = Queueing
        /\ Waking' = Waking
    BY <1>8 DEF mom_do_wait, IInv, TypeOK, Busy, Queueing, Waking
  <2>2. Bounded'
    BY <1>a, <1>8, <2>1, FiniteCounts DEF mom_do_wait, IInv, Bounded, InHand, Messages,
       MaxRestarts
  <2>3. TypeOK'
    <3>1. /\ begin' \in Index /\ end' \in Index /\ fifo' \in 0..MaxMessages
          /\ wakers' \in 0..MaxMessages /\ nextId' \in 1..(MaxMessages + 1)
      BY <1>a, <1>8, <2>1, <2>2, FiniteCounts DEF mom_do_wait, Bounded, InHand, Index,
         Messages
    <3>2. QED
      BY <1>a, <1>8, <3>1 DEF mom_do_wait, IInv, TypeOK, Bounded, Message, NoMessage,
         Index, NoFiles, MaxRestarts, Messages
  <2>4. Unique'
    BY <1>8 DEF mom_do_wait, IInv, TypeOK, Unique, SendersApart, FilesApart, HandledOld,
       HandledOnce, Handled, Queueing, Message, NoMessage, NoFiles
  <2>5. InStep'
    BY <1>a, <1>8, <2>1, FiniteCounts DEF mom_do_wait, IInv, TypeOK, InStep, Calm, Tokens,
       InHand, MaxRestarts, TimedWait, SlowWakeup
  <2>6. QED
    BY <2>2, <2>3, <2>4, <2>5 DEF IInv
<1>9. ASSUME mom_wait_done PROVE IInv'
  <2>1. /\ Busy' = Busy
        /\ Queueing' = Queueing
        /\ Waking' = Waking
    BY <1>9 DEF mom_wait_done, IInv, TypeOK, Busy, Queueing, Waking
  <2>2. Bounded'
    BY <1>a, <1>9, <2>1, FiniteCounts DEF mom_wait_done, IInv, Bounded, InHand, Messages,
       MaxRestarts
  <2>3. TypeOK'
    <3>1. /\ begin' \in Index /\ end' \in Index /\ fifo' \in 0..MaxMessages
          /\ wakers' \in 0..MaxMessages /\ nextId' \in 1..(MaxMessages + 1)
      BY <1>a, <1>9, <2>1, <2>2, FiniteCounts DEF mom_wait_done, Bounded, InHand, Index,
         Messages
    <3>2. QED
      BY <1>a, <1>9, <3>1 DEF mom_wait_done, IInv, TypeOK, Bounded, Message, NoMessage,
         Index, NoFiles, MaxRestarts, Messages
  <2>4. Unique'
    BY <1>9 DEF mom_wait_done, IInv, TypeOK, Unique, SendersApart, FilesApart, HandledOld,
       HandledOnce, Handled, Queueing, Message, NoMessage, NoFiles
  <2>5. InStep'
    BY <1>a, <1>9, <2>1, FiniteCounts DEF mom_wait_done, IInv, TypeOK, InStep, Calm,
       Tokens, InHand, MaxRestarts, TimedWait, SlowWakeup
  <2>6. QED
    BY <2>2, <2>3, <2>4, <2>5 DEF IInv
<1>10. ASSUME mom_wait_timeout PROVE IInv'
  <2>1. /\ Busy' = Busy
        /\ Queueing' = Queueing
        /\ Waking' = Waking
    BY <1>10 DEF mom_wait_timeout, IInv, TypeOK, Busy, Queueing, Waking
  <2>2. Bounded'
    BY <1>a, <1>10, <2>1, FiniteCounts DEF mom_wait_timeout, IInv, Bounded, InHand,
       Messages, MaxRestarts
  <2>3. TypeOK'
    <3>1. /\ begin' \in Index /\ end' \in Index /\ fifo' \in 0..MaxMessages
          /\ wakers' \in 0..MaxMessages /\ nextId' \in 1..(MaxMessages + 1)
      BY <1>a, <1>10, <2>1, <2>2, FiniteCounts DEF mom_wait_timeout, Bounded, InHand,
         Index, Messages
    <3>2. QED
      BY <1>a, <1>10, <3>1 DEF mom_wait_timeout, IInv, TypeOK, Bounded, Message,
         NoMessage, Index, NoFiles, MaxRestarts, Messages
  <2>4. Unique'
    BY <1>10 DEF mom_wait_timeout, IInv, TypeOK, Unique, SendersApart, FilesApart,
       HandledOld, HandledOnce, Handled, Queueing, Message, NoMessage, NoFiles
  <2>5. InStep'
    BY <1>a, <1>10, <2>1, FiniteCounts DEF mom_wait_timeout, IInv, TypeOK, InStep, Calm,
       Tokens, InHand, MaxRestarts, TimedWait, SlowWakeup
  <2>6. QED
    BY <2>2, <2>3, <2>4, <2>5 DEF IInv
<1>11. ASSUME mom_unqueue_message PROVE IInv'
  <2>1. /\ Busy' = Busy
        /\ Queueing' = Queueing
        /\ Waking' = Waking
    BY <1>11 DEF mom_unqueue_message, IInv, TypeOK, Busy, Queueing, Waking
  <2>2. Bounded'
    BY <1>a, <1>11, <2>1, FiniteCounts DEF mom_unqueue_message, IInv, Bounded, InHand,
       Messages, MaxRestarts
  <2>3. TypeOK'
    <3>1. /\ begin' \in Index /\ end' \in Index /\ fifo' \in 0..MaxMessages
          /\ wakers' \in 0..MaxMessages /\ nextId' \in 1..(MaxMessages + 1)
      BY <1>a, <1>11, <2>1, <2>2, FiniteCounts DEF mom_unqueue_message, Bounded, InHand,
         Index, Messages
    <3>2. handled' \in Seq(Message)
      <4>1. file[begin] \in Message \cup {NoMessage}
        BY DEF IInv, TypeOK
      <4>2. QED
        BY <1>11, <4>1, AppendProperties DEF mom_unqueue_message, IInv, TypeOK
    <3>3. QED
      BY <1>a, <1>11, <3>1, <3>2 DEF mom_unqueue_message, IInv, TypeOK, Message,
         NoMessage, Index, MaxRestarts
  <2>4. Unique'
    <3>1. begin \in Index /\ file[begin] \in Message \cup {NoMessage}
      BY DEF IInv, TypeOK
    <3>2. CASE file[begin] = NoMessage
      BY <1>11, <3>1, <3>2 DEF mom_unqueue_message, IInv, TypeOK, Unique, SendersApart,
         FilesApart, HandledOld, HandledOnce, Handled, Queueing
    <3>3. CASE file[begin] # NoMessage
      <4>1. /\ handled' \in Seq(Message)
            /\ Len(handled') = Len(handled) + 1 /\ Len(handled) \in Nat
            /\ \A i \in 1..Len(handled) : handled'[i] = handled[i]
            /\ handled'[Len(handled) + 1] = file[begin]
        BY <1>11, <3>1, <3>3, AppendProperties, LenProperties DEF mom_unqueue_message,
           IInv, TypeOK
      <4>2. Handled' = Handled \cup {file[begin]}
        BY <4>1 DEF Handled
      <4>3. SendersApart' /\ FilesApart' /\ HandledOld'
        BY <1>11, <2>1, <3>1, <3>3, <4>2 DEF mom_unqueue_message, IInv, TypeOK, Unique,
           SendersApart, FilesApart, HandledOld, Queueing, Message, NoMessage
      <4>4. HandledOnce'
        BY <3>1, <3>3, <4>1 DEF IInv, Unique, FilesApart, HandledOnce, Handled
      <4>5. QED
        BY <4>3, <4>4 DEF Unique
    <3>4. QED
      BY <3>2, <3>3
  <2>5. InStep'
    BY <1>a, <1>11, <2>1, FiniteCounts DEF mom_unqueue_message, IInv, TypeOK, InStep,
       Calm, Tokens, InHand, MaxRestarts, TimedWait, SlowWakeup
  <2>6. QED
    BY <2>2, <2>3, <2>4, <2>5 DEF IInv
<1>12. ASSUME mom_destroy_endpoint PROVE IInv'
  <2>1. /\ Busy' = Busy
        /\ Queueing' = Queueing
        /\ Waking' = Waking
    BY <1>12 DEF mom_destroy_endpoint, IInv, TypeOK, Busy, Queueing, Waking
  <2>2. Bounded'
    BY <1>a, <1>12, <2>1, FiniteCounts DEF mom_destroy_endpoint, IInv, Bounded, InHand,
       Messages, MaxRestarts
  <2>3. TypeOK'
    <3>1. /\ begin' \in Index /\ end' \in Index /\ fifo' \in 0..MaxMessages
          /\ wakers' \in 0..MaxMessages /\ nextId' \in 1..(MaxMessages + 1)
      BY <1>a, <1>12, <2>1, <2>2, FiniteCounts DEF mom_destroy_endpoint, Bounded, InHand,
         Index, Messages
    <3>2. QED
      BY <1>a, <1>12, <3>1 DEF mom_destroy_endpoint, IInv, TypeOK, Bounded, Message,
         NoMessage, Index, NoFiles, MaxRestarts, Messages
  <2>4. Unique'
    BY <1>12 DEF mom_destroy_endpoint, IInv, TypeOK, Unique, SendersApart, FilesApart,
       HandledOld, HandledOnce, Handled, Queueing, Message, NoMessage, NoFiles
  <2>5. InStep'
    BY <1>a, <1>12, <2>1, FiniteCounts DEF mom_destroy_endpoint, IInv, TypeOK, InStep,
       Calm, Tokens, InHand, MaxRestarts, TimedWait, SlowWakeup
  <2>6. QED
    BY <2>2, <2>3, <2>4, <2>5 DEF IInv
<1>13. ASSUME mom_create_endpoint PROVE IInv'
  <2>1. /\ Busy' = Busy
        /\ Queueing' = Queueing
        /\ Waking' = Waking
    BY <1>13 DEF mom_create_endpoint, IInv, TypeOK, Busy, Queueing, Waking
  <2>2. Bounded'
    BY <1>a, <1>13, <2>1, FiniteCounts DEF mom_create_endpoint, IInv, Bounded, InHand,
       Messages, MaxRestarts
  <2>3. TypeOK'
    <3>1. /\ begin' \in Index /\ end' \in Index /\ fifo' \in 0..MaxMessages
          /\ wakers' \in 0..MaxMessages /\ nextId' \in 1..(MaxMessages + 1)
      BY <1>a, <1>13, <2>1, <2>2, FiniteCounts DEF mom_create_endpoint, Bounded, InHand,
         Index, Messages
    <3>2. QED
      BY <1>a, <1>13, <3>1 DEF mom_create_endpoint, IInv, TypeOK, Bounded, Message,
         NoMessage, Index, NoFiles, MaxRestarts, Messages
  <2>4. Unique'
    BY <1>13 DEF mom_create_endpoint, IInv, TypeOK, Unique, SendersApart, FilesApart,
       HandledOld, HandledOnce, Handled, Queueing, Message, NoMessage, NoFiles
  <2>5. InStep'
    BY <1>a, <1>13, <2>1, FiniteCounts DEF mom_create_endpoint, IInv, TypeOK, InStep,
       Calm, Tokens, InHand, MaxRestarts, TimedWait, SlowWakeup
  <2>6. QED
    BY <2>2, <2>3, <2>4, <2>5 DEF IInv
<1>14. CASE UNCHANGED vars
  BY <1>14 DEF vars, IInv, TypeOK, Bounded, Busy, Queueing, InHand, Unique, SendersApart,
     FilesApart, HandledOld, HandledOnce, Handled, InStep, Calm, Tokens, Waking, Messages,
     MaxRestarts, TimedWait, SlowWakeup
<1>15. QED
  BY <1>1, <1>2, <1>3, <1>4, <1>5, <1>6, <1>7, <1>8, <1>9, <1>10, <1>11, <1>12, <1>13,
     <1>14 DEF Next, Sending, Receiving

\* The inductive invariant is an invariant.
LEMMA InvIInv == Spec => []IInv
  BY InitIInv, NextIInv, PTL DEF Spec

-----------------------------------------------------------------------------
\* No variable leaves its type: in particular no index, no number of wakeup
\* processes and no number of characters in the pipe exceeds what the messages
\* sent account for.
THEOREM TypeCorrect == Spec => []TypeOK
<1>1. IInv => TypeOK
  BY DEF IInv
<1>2. QED
  BY <1>1, InvIInv, PTL

\* Whatever the order in which senders, wakeup processes and receiver run, a
\* calm endpoint has exactly one wakeup for each message in its queue.
THEOREM OneWakeup == Spec => []OneWakeupPerMessage
<1>1. IInv => OneWakeupPerMessage
  BY DEF IInv, InStep, OneWakeupPerMessage
<1>2. QED
  BY <1>1, InvIInv, PTL

\* The receiver of a calm endpoint takes a message only when there is one, and
\* never waits beside a queued message for which no wakeup is on its way.
THEOREM CalmNeverLosesStep == Spec => [](Calm => NeverTakesFromEmpty /\ NoLostWakeup)
<1>1. ASSUME IInv, Calm PROVE NeverTakesFromEmpty /\ NoLostWakeup
  <2>1. begin \in Nat /\ end \in Nat /\ wakers \in Nat /\ fifo \in Nat
    BY <1>1, ConfigType DEF IInv, TypeOK, Index
  <2>2. begin + Tokens = end
    BY <1>1 DEF IInv, InStep
  <2>3. QED
    BY <2>1, <2>2, FiniteCounts DEF Tokens, NeverTakesFromEmpty, NoLostWakeup
<1>2. IInv => (Calm => NeverTakesFromEmpty /\ NoLostWakeup)
  BY <1>1
<1>3. QED
  BY <1>2, InvIInv, PTL

\* No message is handled twice, even across timeouts, lost wakeups and restarts
\* of the receiver: an identifier is never in two places.
THEOREM NoDuplicates == Spec => []HandledOnce
<1>1. IInv => HandledOnce
  BY DEF IInv, Unique
<1>2. QED
  BY <1>1, InvIInv, PTL

-----------------------------------------------------------------------------
(* The refinement of the reliable channel                                  *)

\* The messages in the files b, ..., e - 1 are a sequence of length e - b.
LEMMA QueueIsSeq ==
  ASSUME NEW S, NEW f, NEW b \in Nat, NEW e \in Nat, b <= e,
         \A i \in Nat : b <= i /\ i < e => f[i] \in S
  PROVE  LET q == [i \in 1..(e - b) |-> f[b + i - 1]] IN
         /\ q \in Seq(S) /\ Len(q) = e - b
         /\ \A i \in 1..(e - b) : q[i] = f[b + i - 1]
<1> DEFINE q == [i \in 1..(e - b) |-> f[b + i - 1]]
<1>1. \A i \in 1..(e - b) : f[b + i - 1] \in S
  <2>1. SUFFICES ASSUME NEW i \in 1..(e - b) PROVE f[b + i - 1] \in S
    OBVIOUS
  <2>2. b + i - 1 \in Nat /\ b <= b + i - 1 /\ b + i - 1 < e
    OBVIOUS
  <2>3. QED
    BY <2>2
<1>2. e - b \in Nat /\ q \in [1..(e - b) -> S]
  BY <1>1
<1>3. q \in Seq(S)
  BY <1>2, SeqDef
<1>4. Len(q) = e - b
  BY <1>2, <1>3, LenProperties
<1>5. QED
  BY <1>3, <1>4

\* In a calm endpoint the files between the indices hold messages.
LEMMA PendingIsSeq ==
  ASSUME IInv, Calm
  PROVE  /\ begin \in Nat /\ end \in Nat /\ begin <= end
         /\ \A i \in Nat : begin <= i /\ i < end => i \in Index /\ file[i] \in Message
         /\ Pending \in Seq(Message) /\ Len(Pending) = end - begin
         /\ \A i \in 1..(end - begin) : Pending[i] = file[begin + i - 1]
<1>1. begin \in Nat /\ end \in Nat /\ wakers \in Nat /\ fifo \in Nat /\ end \in Index
  BY ConfigType DEF IInv, TypeOK, Index
<1>2. begin <= end
  BY <1>1, FiniteCounts DEF IInv, InStep, Tokens
<1>3. \A i \in Nat : begin <= i /\ i < end => i \in Index /\ file[i] \in Message
  <2>1. SUFFICES ASSUME NEW i \in Nat, begin <= i, i < end
                 PROVE  i \in Index /\ file[i] \in Message
    OBVIOUS
  <2>2. i \in Index
    BY <1>1, <2>1, ConfigType DEF Index, IInv, TypeOK
  <2>3. QED
    BY <2>1, <2>2 DEF IInv, TypeOK, InStep
<1>4. QED
  BY <1>1, <1>2, <1>3, QueueIsSeq DEF Pending

\* An endpoint that is neither restarted nor made to wait with timeouts is a
\* reliable channel: what senders queue is handled once each and in order.
THEOREM QueueIsChannel == Spec => ImplementsChannel
<1>1. Init => C!ChInit
  <2>1. ASSUME Init PROVE Pending = << >>
    BY <2>1 DEF Init, Pending
  <2>2. QED
    BY <2>1 DEF Init, C!ChInit
<1>2. ASSUME IInv, IInv', [Next]_vars PROVE [C!ChNext]_(C!cvars)
  <2>1. config' = config /\ Calm' = Calm
    BY <1>2 DEF Next, Sending, Receiving, vars, mom_unicast_message, mom_queue_message,
       mom_queue_message_gone, mom_wakeup, mom_do_wakeup, mom_wakeup_timeout, mom_wait,
       mom_do_wait, mom_wait_done, mom_wait_timeout, mom_unqueue_message,
       mom_destroy_endpoint, mom_create_endpoint, Calm, MaxRestarts, TimedWait, SlowWakeup
  <2>2. CASE ~ Calm
    BY <2>1, <2>2 DEF C!cvars
  <2>3. ASSUME Calm, UNCHANGED <<begin, end, file, handled>> PROVE UNCHANGED C!cvars
    BY <2>1, <2>3 DEF C!cvars, Pending
  <2>4. ASSUME Calm, NEW s \in Sender, mom_queue_message(s) PROVE C!Put(sid[s]) /\ sid[s] \in Message
    <3>1. sid[s] \in Message /\ end \in Index
      BY <1>2, <2>4 DEF IInv, TypeOK, Unique, SendersApart, Queueing, mom_queue_message
    <3>2. /\ begin' = begin /\ end' = end + 1 /\ handled' = handled
          /\ \A i \in Index : file'[i] = IF i = end THEN sid[s] ELSE file[i]
      BY <1>2, <2>4 DEF mom_queue_message, IInv, TypeOK
    <3>3. /\ begin \in Nat /\ end \in Nat /\ begin <= end
          /\ \A i \in Nat : begin <= i /\ i < end => i \in Index /\ file[i] \in Message
          /\ Pending \in Seq(Message) /\ Len(Pending) = end - begin
          /\ \A i \in 1..(end - begin) : Pending[i] = file[begin + i - 1]
      BY <1>2, <2>4, PendingIsSeq
    <3>4. \A i \in Nat : begin <= i /\ i < end' => file'[i] \in Message
      BY <3>1, <3>2, <3>3
    <3>5. /\ Pending' \in Seq(Message) /\ Len(Pending') = end' - begin
          /\ \A i \in 1..(end' - begin) : Pending'[i] = file'[begin + i - 1]
      <4> DEFINE e == end + 1
      <4>1. Pending' = [i \in 1..(e - begin) |-> file'[begin + i - 1]] /\ e = end'
        BY <3>2 DEF Pending
      <4>2. begin \in Nat /\ e \in Nat /\ begin <= e
        BY <3>2, <3>3
      <4>3. \A i \in Nat : begin <= i /\ i < e => file'[i] \in Message
        BY <3>4, <4>1
      <4> HIDE DEF e
      <4> DEFINE q == [i \in 1..(e - begin) |-> file'[begin + i - 1]]
      <4>4. /\ q \in Seq(Message) /\ Len(q) = e - begin
            /\ \A i \in 1..(e - begin) : q[i] = file'[begin + i - 1]
        BY <4>2, <4>3, QueueIsSeq
      <4>5. QED
        BY <4>1, <4>4
    <3>6. /\ Append(Pending, sid[s]) \in Seq(Message)
          /\ Len(Append(Pending, sid[s])) = (end - begin) + 1
          /\ \A i \in 1..(end - begin) : Append(Pending, sid[s])[i] = Pending[i]
          /\ Append(Pending, sid[s])[(end - begin) + 1] = sid[s]
      BY <3>1, <3>3, AppendProperties
    <3>7. ASSUME NEW i \in 1..Len(Pending') PROVE Pending'[i] = Append(Pending, sid[s])[i]
      <4>1. CASE i = (end - begin) + 1
        <5>1. begin + i - 1 = end /\ i \in 1..(end' - begin)
          BY <3>2, <3>3, <4>1
        <5>2. Pending'[i] = file'[end]
          BY <3>5, <5>1
        <5>3. QED
          BY <3>1, <3>2, <3>6, <4>1, <5>2
      <4>2. CASE i \in 1..(end - begin)
        <5>1. begin + i - 1 \in Nat /\ begin + i - 1 < end /\ begin <= begin + i - 1
          BY <3>3, <4>2
        <5>2. begin + i - 1 \in Index /\ begin + i - 1 # end
          BY <3>3, <5>1
        <5>3. file'[begin + i - 1] = file[begin + i - 1]
          BY <3>2, <5>2
        <5>4. QED
          BY <3>2, <3>3, <3>5, <3>6, <4>2, <5>3
      <4>3. QED
        BY <3>2, <3>3, <3>5, <4>1, <4>2
    <3>8. Pending' = Append(Pending, sid[s])
      <4>1. Len(Pending') = Len(Append(Pending, sid[s]))
        BY <3>2, <3>3, <3>5, <3>6
      <4>2. QED
        BY <3>5, <3>6, <3>7, <4>1, SeqEqual
    <3>9. QED
      BY <2>1, <2>4, <3>1, <3>2, <3>8 DEF C!Put
  <2>5. ASSUME Calm, mom_unqueue_message PROVE C!Take
    <3>1. /\ begin \in Nat /\ end \in Nat /\ begin <= end
          /\ \A i \in Nat : begin <= i /\ i < end => i \in Index /\ file[i] \in Message
          /\ Pending \in Seq(Message) /\ Len(Pending) = end - begin
          /\ \A i \in 1..(end - begin) : Pending[i] = file[begin + i - 1]
      BY <1>2, <2>5, PendingIsSeq
    <3>2. begin < end
      <4>1. wakers \in Nat /\ fifo \in Nat /\ begin + Tokens = end
        BY <1>2, <2>5, ConfigType DEF IInv, TypeOK, InStep
      <4>2. QED
        BY <2>5, <3>1, <4>1, FiniteCounts DEF Tokens, mom_unqueue_message
    <3>3. file[begin] \in Message /\ file[begin] # NoMessage /\ begin \in Index
      BY <3>1, <3>2, ConfigType DEF Message, NoMessage
    <3>4. /\ begin' = begin + 1 /\ end' = end /\ handled' = Append(handled, file[begin])
          /\ \A i \in Index : i # begin => file'[i] = file[i]
      BY <1>2, <2>5, <3>3 DEF mom_unqueue_message, IInv, TypeOK
    <3>5. Pending # << >> /\ Head(Pending) = file[begin]
      <4>1. Pending # << >>
        BY <3>1, <3>2, EmptySeq
      <4>2. 1 \in 1..(end - begin) /\ begin + 1 - 1 = begin
        BY <3>1, <3>2
      <4>3. QED
        BY <3>1, <4>1, <4>2
    <3>6. \A i \in Nat : begin + 1 <= i /\ i < end =>
             i \in Index /\ file'[i] = file[i] /\ file'[i] \in Message
      BY <3>1, <3>4
    <3>7. /\ Pending' \in Seq(Message) /\ Len(Pending') = end - (begin + 1)
          /\ \A i \in 1..(end - (begin + 1)) : Pending'[i] = file'[(begin + 1) + i - 1]
      <4>1. Pending' = [i \in 1..(end - (begin + 1)) |-> file'[(begin + 1) + i - 1]]
        BY <3>4 DEF Pending
      <4>2. begin + 1 \in Nat /\ begin + 1 <= end
        BY <3>1, <3>2
      <4>3. QED
        BY <3>1, <3>6, <4>1, <4>2, QueueIsSeq
    <3>8. /\ Tail(Pending) \in Seq(Message) /\ Len(Tail(Pending)) = (end - begin) - 1
          /\ \A i \in 1..((end - begin) - 1) : Tail(Pending)[i] = Pending[i + 1]
      BY <3>1, <3>5, HeadTailProperties
    <3>9. ASSUME NEW i \in 1..Len(Pending') PROVE Pending'[i] = Tail(Pending)[i]
      <4>1. i \in 1..(end - (begin + 1)) /\ i \in 1..((end - begin) - 1) /\ i + 1 \in 1..(end - begin)
        BY <3>1, <3>2, <3>7, <3>9
      <4>2. (begin + 1) + i - 1 = begin + (i + 1) - 1
        BY <3>1, <4>1
      <4>3. begin + (i + 1) - 1 \in Nat /\ begin + 1 <= begin + (i + 1) - 1 /\ begin + (i + 1) - 1 < end
        BY <3>1, <4>1
      <4>4. Pending'[i] = file'[begin + (i + 1) - 1]
        BY <3>7, <4>1, <4>2
      <4>5. Tail(Pending)[i] = file[begin + (i + 1) - 1]
        BY <3>1, <3>8, <4>1
      <4>6. QED
        BY <3>6, <4>3, <4>4, <4>5
    <3>10. Pending' = Tail(Pending)
      <4>1. Len(Pending') = Len(Tail(Pending))
        BY <3>1, <3>7, <3>8
      <4>2. QED
        BY <3>7, <3>8, <3>9, <4>1, SeqEqual
    <3>11. QED
      BY <2>1, <2>5, <3>4, <3>5, <3>10 DEF C!Take
  <2>6. ASSUME Calm PROVE ~ mom_destroy_endpoint /\ ~ mom_create_endpoint
    BY <1>2, <2>6, ConfigType DEF mom_destroy_endpoint, mom_create_endpoint, Calm, IInv,
       InStep, TypeOK
  <2>7. ASSUME Calm PROVE C!ChNext \/ UNCHANGED C!cvars
    <3>1. \/ \E s \in Sender : mom_queue_message(s)
          \/ mom_unqueue_message
          \/ UNCHANGED <<begin, end, file, handled>>
      BY <1>2, <2>6, <2>7 DEF Next, Sending, Receiving, vars, mom_unicast_message,
         mom_queue_message_gone, mom_wakeup, mom_do_wakeup, mom_wakeup_timeout, mom_wait,
         mom_do_wait, mom_wait_done, mom_wait_timeout
    <3>2. QED
      BY <2>3, <2>4, <2>5, <2>7, <3>1 DEF C!ChNext
  <2>8. QED
    BY <2>2, <2>7
<1>3. QED
  BY <1>1, <1>2, InvIInv, PTL DEF Spec, ImplementsChannel, C!ChSpec
=============================================================================
