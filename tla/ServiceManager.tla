--------------------------- MODULE ServiceManager ---------------------------
(***************************************************************************)
(* service_manager.c, the same file in rosalina, pm and loader: the loop   *)
(* that serves a few services and ends with the termination notification.  *)
(* Nobody gives it an allocator of contexts.                               *)
(***************************************************************************)
EXTENDS Integers, FiniteSets, Sequences, Functions

CONSTANTS
  Customers,        \* processes that use the services, one session each
  NumServices,      \* numServices
  MaxSessionsOf     \* maxSessions of a service

ASSUME ServiceManagerAssumption ==
  NumServices \in Nat \ {0} /\ MaxSessionsOf \in Nat \ {0}

Offered == 1..NumServices

VARIABLES
  customer,        \* what each process does, and with which service
  sessionHandles,  \* waitHandles after those of the services
  handlerIds,      \* the service of each of these sessions
  answering,       \* replyTarget: no process or one
  terminate,       \* notification 0x100 is pending
  loop             \* where the loop is

serviceVars == <<customer, sessionHandles, handlerIds, answering, terminate, loop>>

NoCustomer == [state |-> "none", service |-> 0, answeredBy |-> 0]

With(c, state) == customer' = [customer EXCEPT ![c].state = state]

-----------------------------------------------------------------------------
(* The processes *)

\* The kernel counts a session of a port until the service closes it too.
Connects(c, service) ==
  /\ customer[c].state = "none"
  /\ loop # "ended"
  /\ Cardinality({d \in Customers : customer[d].service = service}) < MaxSessionsOf
  /\ customer' = [customer EXCEPT ![c] = [NoCustomer EXCEPT !.state = "connected", !.service = service]]
  /\ UNCHANGED <<sessionHandles, handlerIds, answering, terminate, loop>>

Asks(c) ==
  /\ customer[c].state = "idle"
  /\ With(c, "asking")
  /\ UNCHANGED <<sessionHandles, handlerIds, answering, terminate, loop>>

Closes(c) ==
  /\ customer[c].state \notin {"none", "gone"}
  /\ With(c, "gone")
  /\ UNCHANGED <<sessionHandles, handlerIds, answering, terminate, loop>>

TerminationAsked ==
  /\ terminate' = TRUE
  /\ UNCHANGED <<customer, sessionHandles, handlerIds, answering, loop>>

-----------------------------------------------------------------------------
(* The loop *)

\* The indices of waitHandles that are signalled.
Signalled ==
  (IF terminate THEN {0} ELSE {})
    \cup {s \in Offered : \E c \in Customers :
            customer[c].service = s /\ customer[c].state # "none" /\ c \notin Range(sessionHandles)}
    \cup {NumServices + i : i \in {j \in 1..Len(sessionHandles) :
                                    customer[sessionHandles[j]].state \in {"asking", "gone"}}}

\* svcReplyAndReceive returns the lowest index, or the first to be signalled
\* once it is blocked.
Returns(id) ==
  /\ answering = {}
  /\ id \in Signalled
  /\ \/ loop = "entered" /\ \A other \in Signalled : id =< other
     \/ loop = "blocked"

Blocks ==
  /\ loop = "entered" /\ answering = {} /\ Signalled = {}
  /\ loop' = "blocked"
  /\ UNCHANGED <<customer, sessionHandles, handlerIds, answering, terminate>>

Replies ==
  /\ loop = "entered"
  /\ \E c \in answering : customer[c].state = "taken" /\ With(c, "idle")
  /\ answering' = {}
  /\ UNCHANGED <<sessionHandles, handlerIds, terminate, loop>>

\* The last entry takes the place of the one at off.
Swapped(s, off) == SubSeq([s EXCEPT ![off] = s[Len(s)]], 1, Len(s) - 1)

\* Fault: the entry of the other array stays where it is.
ClosedSessionHandlersStay(off) ==
  /\ customer[sessionHandles[off]].state = "gone"
  /\ IF answering # {} THEN loop = "entered" /\ answering = {sessionHandles[off]}
     ELSE Returns(NumServices + off)
  /\ customer' = [customer EXCEPT ![sessionHandles[off]] = NoCustomer]
  /\ sessionHandles' = Swapped(sessionHandles, off)
  /\ handlerIds' = SubSeq(handlerIds, 1, Len(handlerIds) - 1)
  /\ answering' = {}
  /\ loop' = "entered"
  /\ UNCHANGED terminate

\* 0xC920181A: the session that is replied to, or the one at id, was closed.
ClosedSession(off) ==
  /\ customer[sessionHandles[off]].state = "gone"
  /\ IF answering # {} THEN loop = "entered" /\ answering = {sessionHandles[off]}
     ELSE Returns(NumServices + off)
  /\ customer' = [customer EXCEPT ![sessionHandles[off]] = NoCustomer]
  /\ sessionHandles' = Swapped(sessionHandles, off)
  /\ handlerIds' = Swapped(handlerIds, off)
  /\ answering' = {}
  /\ loop' = "entered"
  /\ UNCHANGED terminate

\* The handlers of notifications are not the loop's.
Terminated ==
  /\ Returns(0)
  /\ loop' = "ended"
  /\ UNCHANGED <<customer, sessionHandles, handlerIds, answering, terminate>>

NewSession(id) ==
  /\ Returns(id)
  /\ \E c \in Customers :
       /\ customer[c].service = id /\ c \notin Range(sessionHandles)
       /\ sessionHandles' = Append(sessionHandles, c)
       /\ IF customer[c].state = "gone" THEN UNCHANGED customer ELSE With(c, "idle")
  /\ handlerIds' = Append(handlerIds, id)
  /\ loop' = "entered"
  /\ UNCHANGED <<answering, terminate>>

ServiceCommand(off) ==
  /\ Returns(NumServices + off)
  /\ LET c == sessionHandles[off]
     IN  /\ customer[c].state = "asking"
         /\ customer' = [customer EXCEPT ![c].state = "taken", ![c].answeredBy = handlerIds[off]]
         /\ answering' = {c}
  /\ loop' = "entered"
  /\ UNCHANGED <<sessionHandles, handlerIds, terminate>>

LoopStep ==
  \/ Blocks \/ Replies \/ Terminated
  \/ \E id \in Offered : NewSession(id)
  \/ \E off \in 1..Len(sessionHandles) : ClosedSession(off) \/ ServiceCommand(off)

-----------------------------------------------------------------------------

ServicesInit ==
  /\ customer = [c \in Customers |-> NoCustomer]
  /\ sessionHandles = <<>> /\ handlerIds = <<>>
  /\ answering = {} /\ terminate = FALSE /\ loop = "entered"

ServicesNext ==
  \/ \E c \in Customers, service \in Offered : Connects(c, service)
  \/ \E c \in Customers : Asks(c) \/ Closes(c)
  \/ TerminationAsked
  \/ LoopStep

ServicesSpec == ServicesInit /\ [][ServicesNext]_serviceVars

-----------------------------------------------------------------------------
(* Properties *)

\* A command is answered by the handler of the service that its process
\* connected to, however many sessions have come and gone before it.
RightHandler ==
  \A c \in Customers : customer[c].answeredBy \in {0, customer[c].service}
=============================================================================
