--------------------------- MODULE SmNotifications ---------------------------
(***************************************************************************)
(* The notifications of sm: processes.c and notifications.c.               *)
(*                                                                         *)
(* sm is one thread that handles one command at a time, so that a command  *)
(* is a step.  A registered process has a ring of pending notifications    *)
(* and a semaphore.  Publishing puts a notification in the rings of its    *)
(* subscribers and releases their semaphores once each.  A client (its     *)
(* part of the protocol is ServiceManager_Run and pxi's main) waits for    *)
(* its semaphore and then asks for one notification.                       *)
(***************************************************************************)
EXTENDS FiniteSets, Sublists

CONSTANTS
  Pids,           \* processes
  Section0,       \* those that the kernel loads: pid < nbSection0Modules
  Notifications,  \* notification ids
  RingSize,       \* 16, the length of pendingNotifications
  MaxSubscribed   \* 0x11, the length of subscribedNotifications

ASSUME SmAssumption ==
  /\ Section0 \subseteq Pids
  /\ 0 \notin Notifications
  /\ RingSize \in Nat \ {0}
  /\ MaxSubscribed \in Nat \ {0}

VARIABLES
  inUse,    \* processDataInUseList, the process registered last in front
  data,     \* the ProcessData of each process
  permits,  \* the count of each notificationSemaphore
  woken,    \* clients that have taken a permit and not yet asked
  publishFailed    \* the last command that publishes got an error for an answer

smVars == <<inUse, data, permits, woken, publishFailed>>

\* The node as allocateNode leaves it, cleared.
FreshData ==
  [enabled |-> FALSE, subscribed |-> {}, ring |-> [i \in 0..RingSize - 1 |-> 0],
   received |-> 0, next |-> 0, nb |-> 0]

DataType ==
  [enabled : BOOLEAN, subscribed : SUBSET Notifications,
   ring : [0..RingSize - 1 -> Notifications \cup {0}],
   received : 0..RingSize - 1, next : 0..RingSize - 1, nb : 0..RingSize]

Registered == Range(inUse)

\* The pending notifications of a ring, oldest first.
Pending(d) == [i \in 1..d.nb |-> d.ring[(d.received + i - 1) % RingSize]]

-----------------------------------------------------------------------------
(* processes.c *)

doRegisterProcess(p, enabled) ==
  /\ inUse' = <<p>> \o inUse
  /\ data' = [data EXCEPT ![p] = [FreshData EXCEPT !.enabled = enabled]]
  /\ permits' = [permits EXCEPT ![p] = 0]
  /\ woken' = woken \ {p}

RegisterProcess(p) ==
  /\ p \notin Registered
  /\ doRegisterProcess(p, FALSE)
  /\ UNCHANGED publishFailed

\* pm calls it when the process has ended.  What the freed node holds is
\* cleared when it is allocated again; clearing it now makes fewer states.
UnregisterProcess(p) ==
  /\ p \in Registered
  /\ inUse' = Kept(inUse, Pids \ {p})
  /\ data' = [data EXCEPT ![p] = FreshData]
  /\ permits' = [permits EXCEPT ![p] = 0]
  /\ woken' = woken \ {p}
  /\ UNCHANGED publishFailed

-----------------------------------------------------------------------------
(* notifications.c: subscriptions *)

EnableNotification(p) ==
  /\ \/ /\ p \in Registered
        /\ data' = [data EXCEPT ![p].enabled = TRUE]
        /\ UNCHANGED <<inUse, permits, woken>>
     \/ /\ p \notin Registered
        /\ p \in Section0
        /\ doRegisterProcess(p, TRUE)
  /\ UNCHANGED publishFailed

Subscribe(p, n) ==
  /\ p \in Registered
  /\ data[p].enabled
  /\ n \notin data[p].subscribed
  /\ Cardinality(data[p].subscribed) < MaxSubscribed
  /\ data' = [data EXCEPT ![p].subscribed = @ \cup {n}]
  /\ UNCHANGED <<inUse, permits, woken, publishFailed>>

Unsubscribe(p, n) ==
  /\ p \in Registered
  /\ data[p].enabled
  /\ n \in data[p].subscribed
  /\ data' = [data EXCEPT ![p].subscribed = @ \ {n}]
  /\ UNCHANGED <<inUse, permits, woken, publishFailed>>

-----------------------------------------------------------------------------
(* notifications.c: publishing.  Flag 1 ("once") leaves a notification     *)
(* that is pending already alone, flag 2 ("drop") ignores a full ring.     *)

Flags == {"once", "drop"}

\* Fault: any pending notification passes for this one.
IsAnythingPending(p, n, flags) == "once" \in flags /\ data[p].nb # 0

IsPendingAlready(p, n, flags) ==
  "once" \in flags /\ \E i \in DOMAIN Pending(data[p]) : Pending(data[p])[i] = n

\* Fault: the room in the ring is not looked at when the full ring is ignored.
StoresAnyway(p, n, flags) ==
  ~IsPendingAlready(p, n, flags) /\ (data[p].nb < RingSize \/ "drop" \in flags)

Stores(p, n, flags) ==
  ~IsPendingAlready(p, n, flags) /\ data[p].nb < RingSize

Refuses(p, n, flags) ==
  ~IsPendingAlready(p, n, flags) /\ data[p].nb = RingSize /\ "drop" \notin flags

Put(d, n) ==
  [d EXCEPT !.ring[d.next] = n, !.next = (d.next + 1) % RingSize, !.nb = @ + 1]

\* The processes of a list that get a notification: those before the first
\* one that refuses it.
Reached(list, n, flags) ==
  {p \in Range(list) :
     \A i, j \in DOMAIN list :
       list[i] = p /\ j =< i => ~Refuses(list[j], n, flags)}

\* Fault: the semaphore is not released for a notification in an empty ring.
PublishWithoutWakeUp(list, n, flags) ==
  LET stored == {p \in Reached(list, n, flags) : Stores(p, n, flags)}
  IN  /\ data' = [p \in Pids |-> IF p \in stored THEN Put(data[p], n) ELSE data[p]]
      /\ permits' = [p \in Pids |->
                       IF p \in stored /\ data[p].nb > 0 THEN permits[p] + 1 ELSE permits[p]]
      /\ publishFailed' = (Reached(list, n, flags) # Range(list))
      /\ UNCHANGED <<inUse, woken>>

\* doPublishNotification for each process of the list.  The release of the
\* semaphore is asserted to succeed: PermitsMatchPending is why it does.
Publish(list, n, flags) ==
  LET stored == {p \in Reached(list, n, flags) : Stores(p, n, flags)}
  IN  /\ data' = [p \in Pids |-> IF p \in stored THEN Put(data[p], n) ELSE data[p]]
      /\ permits' = [p \in Pids |-> IF p \in stored THEN permits[p] + 1 ELSE permits[p]]
      /\ publishFailed' = (Reached(list, n, flags) # Range(list))
      /\ UNCHANGED <<inUse, woken>>

Enabled(p) == data[p].enabled

IsSubscriber(p, n) == data[p].enabled /\ n \in data[p].subscribed

PublishToSubscriber(n, flags) ==
  Publish(Kept(inUse, {p \in Pids : IsSubscriber(p, n)}), n, flags)

\* It also replies with the pids it has reached.
PublishAndGetSubscriber(n) == PublishToSubscriber(n, {})

PublishToAll(n) == Publish(Kept(inUse, {p \in Pids : Enabled(p)}), n, {})

PublishToProcess(p, n) ==
  /\ p \in Registered
  /\ data[p].enabled
  /\ Publish(<<p>>, n, {})

-----------------------------------------------------------------------------
(* Receiving *)

\* The client's wait for its semaphore.
Wake(p) ==
  /\ p \in Registered
  /\ p \notin woken
  /\ permits[p] > 0
  /\ permits' = [permits EXCEPT ![p] = @ - 1]
  /\ woken' = woken \cup {p}
  /\ UNCHANGED <<inUse, data, publishFailed>>

\* Fault: the read index stays where it is.
ReceiveNotificationAgain(p) ==
  /\ p \in woken
  /\ data[p].nb > 0
  /\ data' = [data EXCEPT ![p].nb = @ - 1]
  /\ woken' = woken \ {p}
  /\ UNCHANGED <<inUse, permits, publishFailed>>

\* The place that is read keeps its notification, which is not read again;
\* clearing it makes fewer states, and a place read in vain would show as 0.
ReceiveNotification(p) ==
  /\ p \in woken
  /\ IF data[p].enabled /\ data[p].nb > 0
       THEN data' = [data EXCEPT ![p].nb = @ - 1,
                                 ![p].ring[data[p].received] = 0,
                                 ![p].received = (@ + 1) % RingSize]
       ELSE UNCHANGED data
  /\ woken' = woken \ {p}
  /\ UNCHANGED <<inUse, permits, publishFailed>>

-----------------------------------------------------------------------------

SmInit ==
  /\ inUse = <<>>
  /\ data = [p \in Pids |-> FreshData]
  /\ permits = [p \in Pids |-> 0]
  /\ woken = {}
  /\ publishFailed = FALSE

SmNext ==
  \/ \E p \in Pids : RegisterProcess(p)
  \/ \E p \in Pids : UnregisterProcess(p)
  \/ \E p \in Pids : EnableNotification(p)
  \/ \E p \in Pids, n \in Notifications : Subscribe(p, n)
  \/ \E p \in Pids, n \in Notifications : Unsubscribe(p, n)
  \/ \E n \in Notifications, flags \in SUBSET Flags : PublishToSubscriber(n, flags)
  \/ \E n \in Notifications : PublishAndGetSubscriber(n)
  \/ \E n \in Notifications : PublishToAll(n)
  \/ \E p \in Pids, n \in Notifications : PublishToProcess(p, n)
  \/ \E p \in Pids : Wake(p)
  \/ \E p \in Pids : ReceiveNotification(p)

SmSpec == SmInit /\ [][SmNext]_smVars

\* A process that is alive goes round its loop: it waits for the semaphore and
\* sm, which serves whoever asks, answers its request.
SmFairSpec ==
  /\ SmSpec
  /\ \A p \in Pids : WF_smVars(Wake(p)) /\ WF_smVars(ReceiveNotification(p))

-----------------------------------------------------------------------------
(* Properties *)

\* The shape of the state.
SmTypeOK ==
  /\ inUse \in Seq(Pids) /\ IsInjective(inUse)
  /\ data \in [Pids -> DataType]
  /\ permits \in [Pids -> 0..RingSize]
  /\ woken \subseteq Registered
  /\ publishFailed \in BOOLEAN

\* A client is woken as often as it has notifications: the permits of the
\* semaphore, and the one the client has taken before it asks, are together
\* the number of pending notifications.  A client never asks in vain, and
\* the semaphore never exceeds its maximum of 16, which sm asserts.
PermitsMatchPending ==
  \A p \in Registered :
    data[p].nb = permits[p] + (IF p \in woken THEN 1 ELSE 0)

\* A publication that succeeds is pending afterwards at everyone it is for,
\* unless it was allowed to ignore full rings; no matter which processes were
\* full before it, or in which order they registered.
SuccessReachesAll ==
  [][\/ UNCHANGED smVars
     \/ \A n \in Notifications :
       /\ \A flags \in SUBSET {"once"} :
            PublishToSubscriber(n, flags) /\ ~publishFailed' =>
              \A p \in Registered : IsSubscriber(p, n) => n \in Range(Pending(data'[p]))
       /\ PublishToAll(n) /\ ~publishFailed' =>
            \A p \in Registered : Enabled(p) => n \in Range(Pending(data'[p]))]_smVars

\* The rings are queues: no notification is lost, repeated or reordered once
\* it is accepted, and every one is received unless its process ends.
Queues ==
  INSTANCE NotificationQueues WITH
    Capacity <- RingSize,
    alive <- Registered,
    queue <- [p \in Pids |-> IF p \in Registered THEN Pending(data[p]) ELSE <<>>]

RingsImplementQueues == Queues!QueueFairSpec
=============================================================================
