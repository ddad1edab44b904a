------------------------------ MODULE SmSessions ------------------------------
(***************************************************************************)
(* The sessions and the table of services of sm: main.c, services.c and    *)
(* the commands of srv.c on them.                                          *)
(*                                                                         *)
(* A request for a service that is not registered, or whose port is full,  *)
(* is postponed: its session moves to a list of its own, together with     *)
(* four words of the request, and nothing is replied.  When the service is *)
(* registered, or its port has room, the session moves back and the        *)
(* request is replayed from those words.  sm is one thread: a turn of its  *)
(* loop is a step, and so is the reply that begins the next turn.          *)
(***************************************************************************)
EXTENDS FiniteSets, Sublists

CONSTANTS
  Sessions,      \* the pool; the kernel admits fewer sessions than it has
  Servers,       \* processes that register services
  ServiceNames,  \* names of services
  PortNames,     \* names of named ports
  MaxPorts,      \* bound on the ports that exist at a time
  PortSizes      \* the limits on sessions that servers register with

Names == ServiceNames \cup PortNames

ASSUME SessionsAssumption ==
  /\ ServiceNames \cap PortNames = {}
  /\ MaxPorts \in Nat
  /\ PortSizes \subseteq Nat \ {0}
  /\ {"no name", "overwritten"} \cap Names = {}   \* the marks of replay

VARIABLES
  inUseList, waitList, wakeList, portList,  \* the sessionData...Lists of main.c
  client,       \* what each session's client does
  replay,       \* the name in replayCmdbuf, "overwritten" once it is
  busy,         \* busyClientPortHandle
  replyTarget,  \* the sessions to reply to: one or none
  word4,        \* cmdbuf[4], which is not among the words saved for replay
  wakePermits,  \* resumeGetServiceHandleOrPortRegisteredSemaphore
  table,        \* servicesInfo: the port of each name, 0 if not registered
  owner,        \* servicesInfo: who registered each name
  ports,        \* the ports, by number
  panicked      \* sm has stopped

listVars == <<inUseList, waitList, wakeList, portList>>
answerVars == <<client, replay, busy, replyTarget, word4>>
tableVars == <<table, owner, ports>>
sessionsVars == <<listVars, answerVars, wakePermits, tableVars, panicked>>

ClientType ==
  [state : {"none", "idle", "sent", "taken", "gone"},
   name : Names \cup {"no name"}, word : {0, 1}]

NoClient == [state |-> "none", name |-> "no name", word |-> 0]

PortType == [open : BOOLEAN, used : Nat, max : PortSizes \cup {0}]

NoPort == [open |-> FALSE, used |-> 0, max |-> 0]

Without(list, s) == Kept(list, Sessions \ {s})

FreeSessions ==
  Sessions \ UNION {Range(inUseList), Range(waitList), Range(wakeList), Range(portList)}

\* The sessions with a request that waits.
Postponed == Range(waitList) \cup Range(wakeList) \cup Range(portList)

HasRoom(p) == ports[p].open /\ ports[p].used < ports[p].max

\* Sessions that wait for port p, the first to wait first.
WaitingFor(p) == Kept(portList, {s \in Sessions : busy[s] = p})

-----------------------------------------------------------------------------
(* Clients, and the kernel's ports *)

Connect(s) ==
  /\ client[s].state = "none"
  /\ s \in FreeSessions
  /\ client' = [client EXCEPT ![s].state = "idle"]
  /\ UNCHANGED <<listVars, replay, busy, replyTarget, word4, wakePermits, tableVars, panicked>>

\* SRV:GetServiceHandle or GetPort, word being its flags.
SendRequest(s, n, word) ==
  /\ client[s].state = "idle"
  /\ client' = [client EXCEPT ![s] = [state |-> "sent", name |-> n, word |-> word]]
  /\ UNCHANGED <<listVars, replay, busy, replyTarget, word4, wakePermits, tableVars, panicked>>

\* A client may end whatever it waits for.
Disconnect(s) ==
  /\ client[s].state \notin {"none", "gone"}
  /\ client' = [client EXCEPT ![s] = [NoClient EXCEPT !.state = "gone"]]
  /\ UNCHANGED <<listVars, replay, busy, replyTarget, word4, wakePermits, tableVars, panicked>>

\* A session of the service is closed, or the server closes its port.
PortChanges(p) ==
  /\ ports[p].open
  /\ \E n \in ServiceNames : table[n] = p
  /\ \/ ports[p].used > 0 /\ ports' = [ports EXCEPT ![p].used = @ - 1]
     \/ ports' = [ports EXCEPT ![p].open = FALSE, ![p].used = 0]
  /\ UNCHANGED <<listVars, answerVars, wakePermits, table, owner, panicked>>

-----------------------------------------------------------------------------
(* services.c *)

\* What GetServiceHandle and GetPort answer; "absent" and "full" postpone.
Verdict(n, word) ==
  IF table[n] = 0 /\ (n \in ServiceNames \/ word # 0) THEN "absent"
  ELSE IF n \in PortNames THEN "done"
  ELSE IF HasRoom(table[n]) THEN "connected"
  ELSE IF ports[table[n]].open /\ word % 2 = 0 THEN "full"
  ELSE "refused"

\* The end of the loop's turn for session s, which is on inUseList as given.
\* Saved words that are not to be replayed any more are forgotten here.
Conclude(s, n, word, list) ==
  LET v == Verdict(n, word)
      postponed == v \in {"absent", "full"}
  IN  /\ inUseList' = IF postponed THEN Without(list, s) ELSE list
      /\ waitList' = IF v = "absent" THEN Append(waitList, s) ELSE waitList
      /\ portList' = Without(portList, s) \o (IF v = "full" THEN <<s>> ELSE <<>>)
      /\ replay' = [replay EXCEPT ![s] = IF postponed THEN n ELSE "no name"]
      /\ busy' = [busy EXCEPT ![s] = IF v = "full" THEN table[n] ELSE 0]
      /\ replyTarget' = IF postponed THEN {} ELSE {s}
      /\ ports' = IF v = "connected" THEN [ports EXCEPT ![table[n]].used = @ + 1] ELSE ports
      /\ UNCHANGED <<table, owner, panicked>>

\* svcReplyAndReceive has nothing left to reply to, and the semaphore, the
\* first of its handles, does not come first.
Receives == replyTarget = {} /\ wakePermits = 0 /\ ~panicked

\* Fault: one session is woken, whoever else waits for the name.
WokenFirst(n) ==
  LET all == Kept(waitList, {s \in Sessions : replay[s] = n})
  IN  IF all = <<>> THEN all ELSE <<Head(all)>>

\* The sessions that a registration wakes.
Woken(n) == Kept(waitList, {s \in Sessions : replay[s] = n})

\* Fault: the semaphore is released once for all of them.
PermitsOnce(n) == IF Woken(n) = <<>> THEN 0 ELSE 1

PermitsFor(n) == Len(Woken(n))

\* doRegisterServiceOrPort.  The word after the name is the number of sessions
\* for RegisterService and a descriptor, 0, for RegisterPort.
RegisterName(v, n, max) ==
  /\ Receives
  /\ table[n] = 0
  /\ \E p \in 1..MaxPorts :
       /\ p \notin Range(table) /\ WaitingFor(p) = <<>>
       /\ table' = [table EXCEPT ![n] = p]
       /\ ports' = [ports EXCEPT ![p] = [open |-> TRUE, used |-> 0, max |-> max]]
  /\ owner' = [owner EXCEPT ![n] = v]
  /\ waitList' = Kept(waitList, Sessions \ Range(Woken(n)))
  /\ wakeList' = wakeList \o Woken(n)
  /\ wakePermits' = wakePermits + PermitsFor(n)
  /\ word4' = IF n \in ServiceNames THEN max ELSE 0
  /\ UNCHANGED <<inUseList, portList, client, replay, busy, replyTarget, panicked>>

\* The handles of the ports of these names are closed.  A session that waits
\* for one leaves a bad handle among those of svcReplyAndReceive, which fails,
\* and sm panics.
Removed(names) ==
  /\ table' = [n \in Names |-> IF n \in names THEN 0 ELSE table[n]]
  /\ owner' = [n \in Names |-> IF n \in names THEN "nobody" ELSE owner[n]]
  /\ panicked' = \E n \in names : WaitingFor(table[n]) # <<>>
  /\ ports' = [p \in 1..MaxPorts |->
                 IF \E n \in names : table[n] = p THEN NoPort ELSE ports[p]]
  /\ UNCHANGED <<listVars, answerVars, wakePermits>>

UnregisterName(v, n) ==
  /\ Receives
  /\ owner[n] = v
  /\ Removed({n})

\* pm reports the end of a process.
UnregisterProcessServices(v) ==
  /\ Receives
  /\ v \in Range(owner)
  /\ Removed({n \in Names : owner[n] = v})

-----------------------------------------------------------------------------
(* main.c: the turns of the loop *)

Reply ==
  /\ ~panicked
  /\ \E s \in replyTarget :
       /\ client[s].state # "gone"
       /\ client' = [client EXCEPT ![s] = [NoClient EXCEPT !.state = "idle"]]
  /\ replyTarget' = {}
  /\ UNCHANGED <<listVars, replay, busy, word4, wakePermits, tableVars, panicked>>

\* The session is looked for in the whole pool, and freed.
SessionClosed(s) ==
  /\ ~panicked
  /\ \/ replyTarget = {s}
     \/ Receives /\ s \in Range(inUseList)
  /\ client[s].state = "gone"
  /\ inUseList' = Without(inUseList, s)
  /\ client' = [client EXCEPT ![s] = NoClient]
  /\ replyTarget' = {}
  /\ UNCHANGED <<waitList, wakeList, portList, replay, busy, word4, wakePermits, tableVars, panicked>>

AcceptSession(s) ==
  /\ Receives
  /\ s \in FreeSessions
  /\ client[s].state # "none"
  /\ inUseList' = <<s>> \o inUseList
  /\ UNCHANGED <<waitList, wakeList, portList, answerVars, wakePermits, tableVars, panicked>>

Command(s) ==
  /\ Receives
  /\ s \in Range(inUseList)
  /\ client[s].state = "sent"
  /\ client' = [client EXCEPT ![s].state = "taken"]
  /\ word4' = client[s].word
  /\ Conclude(s, client[s].name, client[s].word, inUseList)
  /\ UNCHANGED <<wakeList, wakePermits>>

\* Handle 0: a service or port has been registered.
Resume ==
  /\ replyTarget = {} /\ ~panicked
  /\ wakePermits > 0
  /\ wakePermits' = wakePermits - 1
  /\ LET s == Head(wakeList)
     IN  Conclude(s, replay[s], word4, <<s>> \o inUseList)
  /\ wakeList' = Tail(wakeList)
  /\ UNCHANGED <<client, word4>>

\* Fault: the session stays on the list of those that wait for ports.
PortReadyNotMoved(p) ==
  /\ Receives
  /\ HasRoom(p)
  /\ WaitingFor(p) # <<>>
  /\ LET s == Head(WaitingFor(p))
     IN  /\ inUseList' = <<s>> \o inUseList
         /\ replyTarget' = {s}
         /\ ports' = [ports EXCEPT ![p].used = @ + 1]
         /\ busy' = [busy EXCEPT ![s] = 0]
  /\ UNCHANGED <<waitList, wakeList, portList, client, replay, word4, wakePermits, table, owner, panicked>>

\* The handle of a port that was full.
PortReady(p) ==
  /\ Receives
  /\ HasRoom(p)
  /\ WaitingFor(p) # <<>>
  /\ LET s == Head(WaitingFor(p))
     IN  Conclude(s, replay[s], word4, <<s>> \o inUseList)
  /\ UNCHANGED <<client, wakeList, word4, wakePermits>>

\* The server has closed the port: the error is written over the name.
PortClosed(p) ==
  /\ Receives
  /\ ~ports[p].open
  /\ WaitingFor(p) # <<>>
  /\ portList' = Kept(portList, {s \in Sessions : busy[s] # p})
  /\ waitList' = waitList \o WaitingFor(p)
  /\ replay' = [s \in Sessions |->
                  IF s \in Range(WaitingFor(p)) THEN "overwritten" ELSE replay[s]]
  /\ busy' = [s \in Sessions |-> IF s \in Range(WaitingFor(p)) THEN 0 ELSE busy[s]]
  /\ UNCHANGED <<inUseList, wakeList, client, replyTarget, word4, wakePermits, tableVars, panicked>>

SmLoop ==
  \/ Reply
  \/ Resume
  \/ \E s \in Sessions : SessionClosed(s)
  \/ \E s \in Sessions : AcceptSession(s)
  \/ \E s \in Sessions : Command(s)
  \/ \E p \in 1..MaxPorts : PortReady(p)
  \/ \E p \in 1..MaxPorts : PortClosed(p)

-----------------------------------------------------------------------------

SessionsInit ==
  /\ inUseList = <<>> /\ waitList = <<>> /\ wakeList = <<>> /\ portList = <<>>
  /\ client = [s \in Sessions |-> NoClient]
  /\ replay = [s \in Sessions |-> "no name"]
  /\ busy = [s \in Sessions |-> 0]
  /\ replyTarget = {} /\ word4 = 0 /\ wakePermits = 0
  /\ table = [n \in Names |-> 0]
  /\ owner = [n \in Names |-> "nobody"]
  /\ ports = [p \in 1..MaxPorts |-> NoPort]
  /\ panicked = FALSE

SessionsNext ==
  \/ \E s \in Sessions : Connect(s)
  \/ \E s \in Sessions, n \in Names, word \in {0, 1} : SendRequest(s, n, word)
  \/ \E s \in Sessions : Disconnect(s)
  \/ \E p \in 1..MaxPorts : PortChanges(p)
  \/ \E v \in Servers, n \in Names, max \in PortSizes : RegisterName(v, n, max)
  \/ \E v \in Servers, n \in Names : UnregisterName(v, n)
  \/ \E v \in Servers : UnregisterProcessServices(v)
  \/ SmLoop

SessionsSpec == SessionsInit /\ [][SessionsNext]_sessionsVars

-----------------------------------------------------------------------------
(* Properties *)

\* The shape of the state; every session is in one list, once.
SessionsTypeOK ==
  /\ IsInjective(inUseList \o waitList \o wakeList \o portList)
  /\ Range(inUseList \o waitList \o wakeList \o portList) \subseteq Sessions
  /\ client \in [Sessions -> ClientType]
  /\ replay \in [Sessions -> Names \cup {"no name", "overwritten"}]
  /\ busy \in [Sessions -> 0..MaxPorts]
  /\ replyTarget \subseteq Sessions
  /\ table \in [Names -> 0..MaxPorts]
  /\ owner \in [Names -> Servers \cup {"nobody"}]
  /\ ports \in [1..MaxPorts -> PortType]

\* The semaphore is released once for each session to be resumed: sm asserts
\* that the list is not empty when it is woken, and a session without a permit
\* would never be resumed.
ResumePermitsMatch == wakePermits = Len(wakeList)

\* No wake-up is lost: a request waits for a name only while nobody has the
\* name, and for a port only while it is the one registered under the name.
WaitsForAReason ==
  ~panicked =>
    /\ \A s \in Range(waitList) :
         replay[s] \in Names => table[replay[s]] = 0
    /\ \A s \in Range(portList) :
         busy[s] # 0 /\ table[replay[s]] = busy[s]

\* No request is lost or answered twice: a request that was received and not
\* replied to is the one being replied to, or is on exactly one of the lists
\* of postponed requests, with the name it asked for or in the state that
\* PortClosed leaves; it waits for a reason, and once woken it has a permit.
RequestsAccounted ==
  /\ \A s \in Sessions :
       /\ client[s].state = "taken" =>
            (s \in replyTarget) # (s \in Postponed)
       /\ client[s].state \in {"none", "idle", "sent"} =>
            s \notin replyTarget \cup Postponed
       /\ s \in Postponed /\ client[s].state = "taken" =>
            replay[s] \in {client[s].name, "overwritten"}
  /\ WaitsForAReason
  /\ ResumePermitsMatch

-----------------------------------------------------------------------------
(* What the repository says and the code does not do *)

\* main.c:147: a request whose port is closed waits as one for an "unregistered
\* service or named port": registering its service wakes it.
ClosedPortWaitsForService ==
  \A s \in Range(waitList) :
    client[s].state = "taken" => replay[s] = client[s].name
=============================================================================
