-------------------------- MODULE NotificationQueues --------------------------
(***************************************************************************)
(* What sm promises of notifications, without rings, semaphores or flags:  *)
(* each process alive has a bounded queue.  A publication appends to the   *)
(* queues of some processes at once; a process takes from the front of its *)
(* own; a queue that is not empty is taken from while its process lives.   *)
(***************************************************************************)
EXTENDS Naturals, Sequences

CONSTANTS Pids, Notifications, Capacity

VARIABLES alive, queue

queueVars == <<alive, queue>>

QueueInit == alive = {} /\ queue = [p \in Pids |-> <<>>]

Begin(p) ==
  /\ p \in Pids \ alive
  /\ alive' = alive \cup {p}
  /\ UNCHANGED queue

End(p) ==
  /\ p \in alive
  /\ alive' = alive \ {p}
  /\ queue' = [queue EXCEPT ![p] = <<>>]

Enqueue(to, n) ==
  /\ \A p \in to : Len(queue[p]) < Capacity
  /\ queue' = [p \in Pids |-> IF p \in to THEN Append(queue[p], n) ELSE queue[p]]
  /\ UNCHANGED alive

Dequeue(p) ==
  /\ queue[p] # <<>>
  /\ queue' = [queue EXCEPT ![p] = Tail(@)]
  /\ UNCHANGED alive

QueueNext ==
  \/ \E p \in Pids : Begin(p) \/ End(p) \/ Dequeue(p)
  \/ \E to \in SUBSET alive, n \in Notifications : Enqueue(to, n)

QueueSpec == QueueInit /\ [][QueueNext]_queueVars

QueueFairSpec == QueueSpec /\ \A p \in Pids : WF_queueVars(Dequeue(p))
=============================================================================
