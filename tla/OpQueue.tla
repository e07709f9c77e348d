------------------------------ MODULE OpQueue ------------------------------
(***************************************************************************)
(* The HCI operation queue of uart_bcsp_hci.c.  The session thread puts    *)
(* operations in, the thread of hci_do_poll takes them out.  Every access  *)
(* is one critical section of queueLock, so one step.  The slots are not a *)
(* ring: the indices go back to zero only when the queue runs empty.       *)
(***************************************************************************)
EXTENDS Naturals, Sequences

CONSTANTS
  Op,         \* HCI commands and ACL packets
  QueueSlots  \* length of dataQueue, lengthQueue and channelQueue: 64

ASSUME QueueSlotsAssumption == QueueSlots \in Nat \ {0}

VARIABLES
  dataQueue,  \* the three arrays as one: an operation per slot
  queueHead,
  queueTail

queueVars == <<dataQueue, queueHead, queueTail>>

\* A slot never written holds any operation: nothing reads it.
QueueType ==
  /\ dataQueue \in [0 .. QueueSlots - 1 -> Op]
  /\ queueHead \in 0 .. QueueSlots
  /\ queueTail \in 0 .. QueueSlots

QueueInit ==
  /\ dataQueue = [i \in 0 .. QueueSlots - 1 |-> CHOOSE op \in Op : TRUE]
  /\ queueHead = 0
  /\ queueTail = 0

\* The operations that wait, oldest first.
Pending == [i \in 1 .. queueTail - queueHead |-> dataQueue[queueHead + i - 1]]

isQueueEmpty == queueHead = queueTail

queueSize == queueTail - queueHead

\* The code does not compare queueTail with the length of the arrays: who
\* queues keeps queueTail < QueueSlots.
queue_hci_op(op) ==
  /\ dataQueue' = [dataQueue EXCEPT ![queueTail] = op]
  /\ queueTail' = queueTail + 1
  /\ UNCHANGED queueHead

\* The operation that dequeueIntoSendPacket hands to the engine.
NextOp == dataQueue[queueHead]

\* The running-empty case forgets queueHead.
dequeueIntoSendPacket_slip ==
  /\ queueHead < queueTail
  /\ queueHead' = queueHead + 1
  /\ queueTail' = IF queueHead + 1 = queueTail THEN 0 ELSE queueTail
  /\ UNCHANGED dataQueue

dequeueIntoSendPacket ==
  /\ queueHead < queueTail
  /\ IF queueHead + 1 = queueTail
     THEN queueHead' = 0 /\ queueTail' = 0
     ELSE queueHead' = queueHead + 1 /\ UNCHANGED queueTail
  /\ UNCHANGED dataQueue

=============================================================================
