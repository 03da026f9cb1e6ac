------------------------------ MODULE MomQueue ------------------------------
(***************************************************************************)
(* The message queue of one endpoint of the message-oriented middleware    *)
(*     src/packages/base/opt/usr/share/mom/core                            *)
(*                                                                         *)
(* Messages are files queue.N between the indices in queue.begin and       *)
(* queue.end, changed under the lock of the endpoint's interface (the      *)
(* exclusive lock of SyncLock, by what Mutex promises: the lines between   *)
(* lock and unlock are one step).  The receiver sleeps on a named pipe: a  *)
(* sender starts, after it gave the lock back, a process that writes one   *)
(* character into the pipe; the receiver starts a process that reads one   *)
(* character, and takes one message for it.  Nothing but the arithmetic    *)
(* of this token game keeps receiver and queue in step.                    *)
(***************************************************************************)
EXTENDS Naturals, Sequences, FiniteSets

CONSTANTS Sender,       \* the processes that send messages to the endpoint
          MaxMessages,  \* bound: number of messages sent
          Configs       \* the configurations to be checked; one is chosen at the start

VARIABLE config         \* what may happen; it never changes

Messages    == config.messages    \* bound: number of messages sent in this configuration
MaxRestarts == config.restarts    \* bound: how often the receiver is started again
TimedWait   == config.timedWait   \* the receiver waits with a timeout (a client that
                                  \* waits for a reply) or without (a service)
SlowWakeup  == config.slowWakeup  \* a wakeup may take longer than mom_wakeup_timeout

ASSUME SenderAssumption == IsFiniteSet(Sender)
ASSUME ConfigAssumption ==
  /\ MaxMessages \in Nat
  /\ Configs \subseteq [messages : 0..MaxMessages, restarts : Nat, timedWait : BOOLEAN, slowWakeup : BOOLEAN]

VARIABLES
  up,         \* the endpoint's directory exists
  begin,      \* content of queue.begin
  end,        \* content of queue.end
  file,       \* file[i]: the message in queue.i, NoMessage if it is missing
  fifo,       \* number of characters in the named pipe
  wakers,     \* number of mom_do_wakeup processes that have not written yet
  nextId,     \* content of mom_next_message_id
  spc,        \* spc[s]: next step of sender s
  sid,        \* sid[s]: message_id of sender s
  rpc,        \* next step of the receiver and the child it waits with
  restarts,   \* number of restarts so far
  handled     \* history: messages passed to a handler

vars == <<config, up, begin, end, file, fifo, wakers, nextId, spc, sid, rpc, restarts, handled>>

NoMessage == 0
Message   == 1..MaxMessages

\* The queue indices that can occur: no more characters are read than written.
Index == 0..(2 * MaxMessages)

TypeOK ==
  /\ config \in Configs
  /\ up \in BOOLEAN
  /\ begin \in Index /\ end \in Index
  /\ file \in [Index -> Message \cup {NoMessage}]
  /\ fifo \in 0..MaxMessages /\ wakers \in 0..MaxMessages
  /\ nextId \in 1..(MaxMessages + 1)
  /\ spc \in [Sender -> {"idle", "queue", "wakeup"}]
  /\ sid \in [Sender -> Message \cup {NoMessage}]
  /\ rpc \in {"down", "loop", "wait", "got", "unqueue"}
  /\ restarts \in 0..MaxRestarts
  /\ handled \in Seq(Message)

NoFiles == [i \in Index |-> NoMessage]

Init ==
  /\ config \in Configs
  /\ up = TRUE /\ rpc = "loop"
  /\ begin = 0 /\ end = 0 /\ file = NoFiles
  /\ fifo = 0 /\ wakers = 0
  /\ nextId = 1
  /\ spc = [s \in Sender |-> "idle"]
  /\ sid = [s \in Sender |-> NoMessage]
  /\ restarts = 0
  /\ handled = << >>

-----------------------------------------------------------------------------
(* Senders: mom_unicast_message (and each round of mom_broadcast_message)  *)

\* mom_is_endpoint_registered, then mom_get_next_message_id
mom_unicast_message(s) ==
  /\ spc[s] = "idle" /\ up
  /\ nextId <= Messages
  /\ sid' = [sid EXCEPT ![s] = nextId]
  /\ nextId' = nextId + 1
  /\ spc' = [spc EXCEPT ![s] = "queue"]
  /\ UNCHANGED <<config, up, begin, end, file, fifo, wakers, rpc, restarts, handled>>

\* mom_queue_message under the lock, if the endpoint is still there ...
mom_queue_message(s) ==
  /\ spc[s] = "queue" /\ up
  /\ file' = [file EXCEPT ![end] = sid[s]]
  /\ end' = end + 1
  /\ spc' = [spc EXCEPT ![s] = "wakeup"]
  /\ UNCHANGED <<config, up, begin, fifo, wakers, nextId, sid, rpc, restarts, handled>>

\* ... and if it "has been destroyed"
mom_queue_message_gone(s) ==
  /\ spc[s] = "queue" /\ ~ up
  /\ spc' = [spc EXCEPT ![s] = "idle"]
  /\ UNCHANGED <<config, up, begin, end, file, fifo, wakers, nextId, sid, rpc, restarts, handled>>

\* Mutant: the queue that is not empty is taken as a sign that the receiver is
\* awake anyway
mom_wakeup_OnlyFirst(s) ==
  /\ spc[s] = "wakeup"
  /\ wakers' = IF end - begin > 1 THEN wakers ELSE wakers + 1
  /\ spc' = [spc EXCEPT ![s] = "idle"]
  /\ UNCHANGED <<config, up, begin, end, file, fifo, nextId, sid, rpc, restarts, handled>>

\* After the unlock: mom_do_wakeup "$@" &
mom_wakeup(s) ==
  /\ spc[s] = "wakeup"
  /\ wakers' = wakers + 1
  /\ spc' = [spc EXCEPT ![s] = "idle"]
  /\ UNCHANGED <<config, up, begin, end, file, fifo, nextId, sid, rpc, restarts, handled>>

\* Mutant: a full pipe is not waited for, the character is dropped
mom_do_wakeup_Drop ==
  /\ wakers > 0
  /\ wakers' = wakers - 1
  /\ fifo' = IF up /\ fifo = 0 THEN fifo + 1 ELSE fifo
  /\ UNCHANGED <<config, up, begin, end, file, nextId, spc, sid, rpc, restarts, handled>>

\* The background process opens whatever pipe has that name now and writes one
\* character.  Without the endpoint's directory it fails.
mom_do_wakeup ==
  /\ wakers > 0
  /\ wakers' = wakers - 1
  /\ fifo' = IF up THEN fifo + 1 ELSE fifo
  /\ UNCHANGED <<config, up, begin, end, file, nextId, spc, sid, rpc, restarts, handled>>

\* Its killer's time (mom_wakeup_timeout) is over before it could write.
mom_wakeup_timeout ==
  /\ SlowWakeup /\ wakers > 0
  /\ wakers' = wakers - 1
  /\ UNCHANGED <<config, up, begin, end, file, fifo, nextId, spc, sid, rpc, restarts, handled>>

-----------------------------------------------------------------------------
(* The receiver: mom_unqueue_message_and_call_handler                      *)

\* mom_wait: mom_do_wait "$@" &
mom_wait ==
  /\ rpc = "loop"
  /\ rpc' = "wait"
  /\ UNCHANGED <<config, up, begin, end, file, fifo, wakers, nextId, spc, sid, restarts, handled>>

\* The child: read -n 1 signal <&$mom_fd_recv
mom_do_wait ==
  /\ rpc = "wait" /\ fifo > 0
  /\ fifo' = fifo - 1
  /\ rpc' = "got"
  /\ UNCHANGED <<config, up, begin, end, file, wakers, nextId, spc, sid, restarts, handled>>

\* The child exits, with its killer gone, and `wait` returns 0.
mom_wait_done ==
  /\ rpc = "got"
  /\ rpc' = "unqueue"
  /\ UNCHANGED <<config, up, begin, end, file, fifo, wakers, nextId, spc, sid, restarts, handled>>

\* The killer's time is over: kill -9 of the child, wherever it is.  `wait`
\* returns a code above 128, mom_wait a nonzero one, and no message is taken.
mom_wait_timeout ==
  /\ TimedWait /\ rpc \in {"wait", "got"}
  /\ rpc' = "loop"
  /\ UNCHANGED <<config, up, begin, end, file, fifo, wakers, nextId, spc, sid, restarts, handled>>

\* Mutant: the newest message is taken first
mom_unqueue_message_Newest ==
  LET newest == IF end = 0 THEN 0 ELSE end - 1 IN
  /\ rpc = "unqueue"
  /\ end' = newest
  /\ file' = [file EXCEPT ![newest] = NoMessage]
  /\ handled' = IF file[newest] = NoMessage THEN handled ELSE Append(handled, file[newest])
  /\ rpc' = "loop"
  /\ UNCHANGED <<config, up, begin, fifo, wakers, nextId, spc, sid, restarts>>

\* Mutant: queue.begin is not written back when the queue has become empty
mom_unqueue_message_Stay ==
  /\ rpc = "unqueue"
  /\ begin' = IF begin + 1 = end THEN begin ELSE begin + 1
  /\ handled' = IF file[begin] = NoMessage THEN handled ELSE Append(handled, file[begin])
  /\ rpc' = "loop"
  /\ UNCHANGED <<config, up, end, file, fifo, wakers, nextId, spc, sid, restarts>>

\* Take the message at queue.begin and call its handler; without a file there
\* is no message_type, but the index has moved on.
mom_unqueue_message ==
  /\ rpc = "unqueue"
  /\ begin' = begin + 1
  /\ file' = [file EXCEPT ![begin] = NoMessage]
  /\ handled' = IF file[begin] = NoMessage THEN handled ELSE Append(handled, file[begin])
  /\ rpc' = "loop"
  /\ UNCHANGED <<config, up, end, fifo, wakers, nextId, spc, sid, restarts>>

-----------------------------------------------------------------------------
(* The life of the endpoint                                                *)

\* The receiver's loop ends, its exit trap destroys the endpoint.
mom_destroy_endpoint ==
  /\ rpc = "loop" /\ restarts < MaxRestarts
  /\ up' = FALSE /\ rpc' = "down"
  /\ begin' = 0 /\ end' = 0 /\ file' = NoFiles /\ fifo' = 0
  /\ UNCHANGED <<config, wakers, nextId, spc, sid, restarts, handled>>

\* The next process creates an endpoint of the same name.
mom_create_endpoint ==
  /\ rpc = "down" /\ ~ up
  /\ up' = TRUE /\ rpc' = "loop"
  /\ begin' = 0 /\ end' = 0 /\ file' = NoFiles /\ fifo' = 0
  /\ restarts' = restarts + 1
  /\ UNCHANGED <<config, wakers, nextId, spc, sid, handled>>

-----------------------------------------------------------------------------
\* The senders' steps once they have begun to send, and the background process
Sending == \/ \E s \in Sender : \/ mom_queue_message(s) \/ mom_queue_message_gone(s)
                                \/ mom_wakeup(s)
           \/ mom_do_wakeup

Receiving == \/ mom_wait \/ mom_do_wait \/ mom_wait_done \/ mom_unqueue_message
             \/ mom_create_endpoint

Next == \/ Sending \/ Receiving
        \/ \E s \in Sender : mom_unicast_message(s)
        \/ mom_wait_timeout \/ mom_wakeup_timeout
        \/ mom_destroy_endpoint

Spec == Init /\ [][Next]_vars

\* Every process that runs keeps running.
Fairness == /\ \A s \in Sender : WF_vars(mom_queue_message(s)) /\ WF_vars(mom_wakeup(s))
            /\ WF_vars(mom_do_wakeup)
            /\ WF_vars(Receiving)

FairSpec == Spec /\ Fairness

-----------------------------------------------------------------------------
(* Properties                                                              *)

Waking == {s \in Sender : spc[s] = "wakeup"}

\* The characters that are on their way, in the pipe, or in the hands of the
\* receiver
Tokens == Cardinality(Waking) + wakers + fifo
          + (IF rpc \in {"got", "unqueue"} THEN 1 ELSE 0)

\* A service that is neither restarted nor made to wait with timeouts
Calm == MaxRestarts = 0 /\ ~ TimedWait /\ ~ SlowWakeup

\* Receiver and queue are in step: there is exactly one wakeup for each message
\* in the queue, whatever the order in which senders and receiver run.
OneWakeupPerMessage == Calm => begin + Tokens = end

\* "If no message exists in the queue, the receiver blocks": when the receiver
\* takes a message, there is one.
NeverTakesFromEmpty == rpc = "unqueue" => begin < end

\* "... we effectively lose a message, which makes the event handling hang. So
\* don't allow a signal ... to disturb us": while a message waits and so does
\* the receiver, a wakeup is on its way.
NoLostWakeup ==
  up /\ begin < end /\ rpc = "wait" => Cardinality(Waking) + wakers + fifo > 0

\* As long as it is calm, the endpoint implements a reliable channel.
Pending == [i \in 1..(end - begin) |-> file[begin + i - 1]]

C == INSTANCE Channel WITH pending <- IF Calm THEN Pending ELSE << >>,
                           taken <- IF Calm THEN handled ELSE << >>

ImplementsChannel == C!ChSpec

\* Whatever is lost, no message is ever handled twice.
HandledOnce ==
  \A i, j \in 1..Len(handled) : handled[i] = handled[j] => i = j

\* Every message that was put into the queue of a calm endpoint is handled in the end.
QueuedIsHandled ==
  \A m \in Message :
    Calm /\ (\E i \in Index : file[i] = m) ~> (\E j \in 1..Len(handled) : handled[j] = m)
=============================================================================
