---------------------------- MODULE ServiceProofs ----------------------------
(***************************************************************************)
(* Theorems about services.  First about the two loops that rosalina, pm   *)
(* and loader share: that of service_manager.c gives each command to the   *)
(* handler of the service it was meant for, and that of task_runner.c      *)
(* implements a hand-over of tasks; for any number of processes, services  *)
(* and threads.                                                            *)
(*                                                                         *)
(* Then about sm: what SmNotifications, SmSessions and SmLists promise     *)
(* holds for any number of processes, sessions, names, ports and nodes,    *)
(* and rings of any size.                                                  *)
(***************************************************************************)
EXTENDS ServiceManager, TaskRunner, SmNotifications, SmSessions, SmLists, SetInduction,
  SequenceTheorems, FiniteSetTheorems, TLAPS

-----------------------------------------------------------------------------
(* The arrays of service_manager.c *)

\* What is left of an array when the last entry takes the place of another.
LEMMA SwappedFacts ==
  ASSUME NEW S, NEW s \in Seq(S), NEW off \in 1..Len(s)
  PROVE  /\ Swapped(s, off) \in Seq(S) /\ Len(Swapped(s, off)) = Len(s) - 1
         /\ \A i \in 1..Len(s) - 1 : Swapped(s, off)[i] = IF i = off THEN s[Len(s)] ELSE s[i]
<1> DEFINE u == [s EXCEPT ![off] = s[Len(s)]]
<1>1. Len(s) \in Nat \ {0} /\ s[Len(s)] \in S
  OBVIOUS
<1>2. u \in Seq(S) /\ Len(u) = Len(s)
  BY <1>1
<1>3. \A i \in 1..Len(s) : u[i] = IF i = off THEN s[Len(s)] ELSE s[i]
  OBVIOUS
<1> HIDE DEF u
<1>4. Len(s) - 1 \in 0..Len(u)
  BY <1>1, <1>2
<1>5. /\ SubSeq(u, 1, Len(s) - 1) \in Seq(S) /\ Len(SubSeq(u, 1, Len(s) - 1)) = Len(s) - 1
      /\ \A i \in 1..Len(s) - 1 : SubSeq(u, 1, Len(s) - 1)[i] = u[i]
  BY <1>1, <1>2, <1>4
<1> QED
  BY <1>1, <1>3, <1>5 DEF Swapped, u

\* If no two entries were the same, only the one at off is lost.
LEMMA SwappedLosesOne ==
  ASSUME NEW S, NEW s \in Seq(S), IsInjective(s), NEW off \in 1..Len(s)
  PROVE  IsInjective(Swapped(s, off)) /\ s[off] \notin Range(Swapped(s, off))
<1> DEFINE t == Swapped(s, off)
<1>0. /\ t \in Seq(S) /\ Len(t) = Len(s) - 1
      /\ \A i \in 1..Len(s) - 1 : t[i] = IF i = off THEN s[Len(s)] ELSE s[i]
  BY SwappedFacts
<1> HIDE DEF t
<1>1. DOMAIN t = 1..Len(s) - 1 /\ DOMAIN s = 1..Len(s) /\ Len(s) \in Nat
  BY <1>0
<1>2. \A i, j \in 1..Len(s) : s[i] = s[j] => i = j
  BY <1>1 DEF IsInjective
<1>3. (\A i \in 1..Len(s) - 1 : i \in 1..Len(s) /\ i # Len(s)) /\ Len(s) \in 1..Len(s)
  <2> DEFINE n == Len(s)
  <2>1. n \in Nat /\ off \in 1..n
    BY <1>1
  <2> HIDE DEF n
  <2>2. (\A i \in 1..n - 1 : i \in 1..n /\ i # n) /\ n \in 1..n
    BY <2>1
  <2> QED
    BY <2>2 DEF n
<1>5. ASSUME NEW i \in 1..Len(s) - 1, NEW j \in 1..Len(s) - 1, t[i] = t[j]
      PROVE  i = j
  BY <1>0, <1>2, <1>3, <1>5
<1>6. ASSUME NEW i \in 1..Len(s) - 1
      PROVE  t[i] # s[off]
  BY <1>0, <1>2, <1>3
<1> QED
  BY <1>1, <1>5, <1>6 DEF IsInjective, Range, t

CustomerType ==
  [state : {"none", "connected", "idle", "asking", "taken", "gone"},
   service : 0..NumServices, answeredBy : 0..NumServices]

\* The two arrays stay in step: each session that is open has, at its index,
\* the service that its process connected to, and no session is there twice.
ServicesInv ==
  /\ customer \in [Customers -> CustomerType]
  /\ answering \subseteq Customers
  /\ sessionHandles \in Seq(Customers) /\ IsInjective(sessionHandles)
  /\ handlerIds \in Seq(Offered) /\ Len(handlerIds) = Len(sessionHandles)
  /\ \A i \in 1..Len(sessionHandles) :
       /\ handlerIds[i] = customer[sessionHandles[i]].service
       /\ customer[sessionHandles[i]].state # "none"
  /\ \A c \in Customers : customer[c].state = "none" => customer[c].service = 0
  /\ RightHandler

\* The loop begins without sessions.
LEMMA ServicesBegin == ServicesInit => ServicesInv
<1> SUFFICES ASSUME ServicesInit
             PROVE  ServicesInv
  OBVIOUS
<1>1. 0 \in 0..NumServices
  BY ServiceManagerAssumption
<1>2. customer \in [Customers -> CustomerType] /\ answering \subseteq Customers
  BY <1>1 DEF ServicesInit, NoCustomer, CustomerType
<1>3. /\ sessionHandles \in Seq(Customers) /\ IsInjective(sessionHandles)
      /\ handlerIds \in Seq(Offered) /\ Len(handlerIds) = Len(sessionHandles)
      /\ Len(sessionHandles) = 0
  BY DEF ServicesInit, IsInjective
<1>4. \A c \in Customers : customer[c].service = 0 /\ customer[c].answeredBy = 0
  BY DEF ServicesInit, NoCustomer
<1> QED
  BY <1>2, <1>3, <1>4 DEF ServicesInv, RightHandler

\* One process changes what it does, the arrays stay.
LEMMA CustomerStep ==
  ASSUME ServicesInv, NEW c \in Customers, NEW d \in CustomerType,
         customer' = [customer EXCEPT ![c] = d], UNCHANGED <<sessionHandles, handlerIds>>,
         answering' \subseteq Customers,
         d.state = "none" => c \notin Range(sessionHandles) /\ d.service = 0,
         d.service = customer[c].service \/ c \notin Range(sessionHandles),
         d.answeredBy \in {0, d.service}
  PROVE  ServicesInv'
<1>1. \A b \in Customers : customer'[b] = IF b = c THEN d ELSE customer[b]
  BY DEF ServicesInv
<1>2. customer' \in [Customers -> CustomerType]
  BY DEF ServicesInv, CustomerType
<1>3. \A i \in 1..Len(sessionHandles) :
        sessionHandles[i] \in Customers /\ sessionHandles[i] \in Range(sessionHandles)
  BY DEF ServicesInv, Range
<1>4. ASSUME NEW i \in 1..Len(sessionHandles)
      PROVE  /\ handlerIds[i] = customer'[sessionHandles[i]].service
             /\ customer'[sessionHandles[i]].state # "none"
  BY <1>1, <1>3 DEF ServicesInv
<1>5. RightHandler'
  BY <1>1 DEF ServicesInv, RightHandler
<1>6. \A b \in Customers : customer'[b].state = "none" => customer'[b].service = 0
  BY <1>1 DEF ServicesInv
<1> QED
  BY <1>2, <1>4, <1>5, <1>6 DEF ServicesInv, CustomerType

\* What processes do, but for their end, and the commands of the loop.
LEMMA CustomersStep ==
  ASSUME ServicesInv, NEW c \in Customers,
         Asks(c) \/ Closes(c) \/ \E service \in Offered : Connects(c, service)
  PROVE  ServicesInv'
<1>1. /\ customer[c] \in CustomerType /\ customer[c].answeredBy \in {0, customer[c].service}
      /\ answering \subseteq Customers
  BY DEF ServicesInv, RightHandler
<1>2. ASSUME NEW state \in {"asking", "gone"}, With(c, state),
             UNCHANGED <<sessionHandles, handlerIds, answering>>
      PROVE  ServicesInv'
  <2> DEFINE d == [customer[c] EXCEPT !.state = state]
  <2>1. /\ d \in CustomerType /\ d.state = state /\ d.service = customer[c].service
        /\ d.answeredBy = customer[c].answeredBy
    BY <1>1 DEF CustomerType
  <2>2. customer' = [customer EXCEPT ![c] = d]
    BY <1>2 DEF With
  <2> HIDE DEF d
  <2> QED
    BY <1>1, <1>2, <2>1, <2>2, CustomerStep
<1>3. ASSUME NEW service \in Offered, Connects(c, service)
      PROVE  ServicesInv'
  <2> DEFINE d == [NoCustomer EXCEPT !.state = "connected", !.service = service]
  <2>1. d \in CustomerType /\ d.state = "connected" /\ d.answeredBy = 0
    <3>1. 0 \in 0..NumServices /\ service \in 0..NumServices
      BY ServiceManagerAssumption DEF Offered
    <3> QED
      BY <3>1 DEF NoCustomer, CustomerType
  <2>2. \A i \in DOMAIN sessionHandles : customer[sessionHandles[i]].state # "none"
    BY DEF ServicesInv
  <2>3. c \notin Range(sessionHandles)
    BY <1>3, <2>2 DEF Connects, Range
  <2>4. customer' = [customer EXCEPT ![c] = d] /\ UNCHANGED <<sessionHandles, handlerIds, answering>>
    BY <1>3 DEF Connects
  <2> HIDE DEF d
  <2> QED
    BY <1>1, <2>1, <2>3, <2>4, CustomerStep
<1> QED
  BY <1>2, <1>3 DEF Asks, Closes

\* A reply, and a command that the handler of its session answers.
LEMMA CommandsStep ==
  ASSUME ServicesInv, Replies \/ \E off \in 1..Len(sessionHandles) : ServiceCommand(off)
  PROVE  ServicesInv'
<1>1. ASSUME NEW c \in Customers
      PROVE  customer[c] \in CustomerType /\ customer[c].answeredBy \in {0, customer[c].service}
  BY DEF ServicesInv, RightHandler
<1>2. CASE Replies
  <2>1. PICK c \in Customers : With(c, "idle")
    BY <1>2 DEF Replies, ServicesInv
  <2> DEFINE d == [customer[c] EXCEPT !.state = "idle"]
  <2>2. /\ d \in CustomerType /\ d.state = "idle" /\ d.service = customer[c].service
        /\ d.answeredBy = customer[c].answeredBy
    BY <1>1 DEF CustomerType
  <2>3. customer' = [customer EXCEPT ![c] = d]
    BY <2>1 DEF With
  <2> HIDE DEF d
  <2> QED
    BY <1>1, <1>2, <2>2, <2>3, CustomerStep DEF Replies
<1>3. ASSUME NEW off \in 1..Len(sessionHandles), ServiceCommand(off)
      PROVE  ServicesInv'
  <2> DEFINE c == sessionHandles[off]
             d == [customer[c] EXCEPT !.state = "taken", !.answeredBy = handlerIds[off]]
  <2>1. c \in Customers /\ handlerIds[off] = customer[c].service /\ c \in Range(sessionHandles)
    BY DEF ServicesInv, Range
  <2>5. answering' = {c}
    BY <1>3 DEF ServiceCommand
  <2>2. /\ customer' = [customer EXCEPT ![c].state = "taken", ![c].answeredBy = handlerIds[off]]
        /\ UNCHANGED <<sessionHandles, handlerIds>>
    BY <1>3 DEF ServiceCommand
  <2>3. customer' = [customer EXCEPT ![c] = d]
    BY <2>1, <2>2 DEF ServicesInv
  <2> HIDE DEF c
  <2>4. /\ d \in CustomerType /\ d.state = "taken" /\ d.service = customer[c].service
        /\ d.answeredBy = customer[c].service
    BY <1>1, <2>1 DEF CustomerType
  <2> HIDE DEF d
  <2> QED
    BY <2>1, <2>2, <2>3, <2>4, <2>5, CustomerStep
<1> QED
  BY <1>2, <1>3

\* A session that ends leaves both arrays at the same index.
LEMMA ClosedSessionStep ==
  ASSUME ServicesInv, NEW off \in 1..Len(sessionHandles), ClosedSession(off)
  PROVE  ServicesInv'
<1> DEFINE c == sessionHandles[off]
           handles == Swapped(sessionHandles, off)
           ids == Swapped(handlerIds, off)
           n == Len(sessionHandles)
<1>1. /\ sessionHandles \in Seq(Customers) /\ IsInjective(sessionHandles)
      /\ handlerIds \in Seq(Offered) /\ Len(handlerIds) = Len(sessionHandles)
  BY DEF ServicesInv
<1>2. /\ handles \in Seq(Customers) /\ Len(handles) = n - 1 /\ IsInjective(handles)
      /\ \A i \in 1..n - 1 : handles[i] = IF i = off THEN sessionHandles[n] ELSE sessionHandles[i]
      /\ c \notin Range(handles)
  BY <1>1, SwappedFacts, SwappedLosesOne
<1>3. /\ ids \in Seq(Offered) /\ Len(ids) = n - 1
      /\ \A i \in 1..n - 1 : ids[i] = IF i = off THEN handlerIds[n] ELSE handlerIds[i]
  <2>1. off \in 1..Len(handlerIds)
    BY <1>1
  <2>2. /\ ids \in Seq(Offered) /\ Len(ids) = Len(handlerIds) - 1
        /\ \A i \in 1..Len(handlerIds) - 1 :
             ids[i] = IF i = off THEN handlerIds[Len(handlerIds)] ELSE handlerIds[i]
    BY <1>1, <2>1, SwappedFacts
  <2> HIDE DEF ids
  <2> QED
    BY <1>1, <2>2
<1>4. /\ customer' = [customer EXCEPT ![c] = NoCustomer]
      /\ sessionHandles' = handles /\ handlerIds' = ids /\ answering' = {}
  BY DEF ClosedSession
<1>5. c \in Customers /\ n \in Nat /\ off \in 1..n
  BY <1>1
<1>6. \A i \in 1..n : /\ handlerIds[i] = customer[sessionHandles[i]].service
                      /\ customer[sessionHandles[i]].state # "none"
  BY DEF ServicesInv
<1> HIDE DEF c, handles, ids, n
<1>7. \A b \in Customers : customer'[b] = IF b = c THEN NoCustomer ELSE customer[b]
  BY <1>4, <1>5 DEF ServicesInv
<1>8. customer' \in [Customers -> CustomerType]
  <2>1. 0 \in 0..NumServices
    BY ServiceManagerAssumption
  <2>2. NoCustomer \in CustomerType
    BY <2>1 DEF NoCustomer, CustomerType
  <2> QED
    BY <1>4, <1>5, <2>2 DEF ServicesInv
<1>9. \A i \in 1..n - 1 : handles[i] # c /\ handles[i] \in Customers
  <2>1. DOMAIN handles = 1..n - 1
    BY <1>2
  <2> QED
    BY <1>2, <2>1 DEF Range
<1>10. (\A i \in 1..n - 1 : i \in 1..n) /\ n \in 1..n
  BY <1>5
<1>11. ASSUME NEW i \in 1..n - 1
       PROVE  ids[i] = customer'[handles[i]].service /\ customer'[handles[i]].state # "none"
  <2>1. customer'[handles[i]] = customer[handles[i]]
    BY <1>7, <1>9
  <2>2. PICK j \in 1..n : handles[i] = sessionHandles[j] /\ ids[i] = handlerIds[j]
    <3>1. CASE i = off
      BY <1>2, <1>3, <1>10, <3>1
    <3>2. CASE i # off
      BY <1>2, <1>3, <1>10, <3>2
    <3> QED
      BY <3>1, <3>2
  <2> QED
    BY <1>6, <2>1, <2>2
<1>12. NoCustomer.state = "none" /\ NoCustomer.service = 0 /\ NoCustomer.answeredBy = 0
  BY DEF NoCustomer
<1>13. RightHandler' /\ \A b \in Customers : customer'[b].state = "none" => customer'[b].service = 0
  BY <1>7, <1>12 DEF ServicesInv, RightHandler
<1> QED
  BY <1>2, <1>3, <1>4, <1>8, <1>11, <1>13 DEF ServicesInv

\* A session that is accepted is put at the end of both arrays.
LEMMA NewSessionStep ==
  ASSUME ServicesInv, NEW id \in Offered, NewSession(id)
  PROVE  ServicesInv'
<1>1. PICK c \in Customers :
        /\ customer[c].service = id /\ c \notin Range(sessionHandles)
        /\ sessionHandles' = Append(sessionHandles, c)
        /\ IF customer[c].state = "gone" THEN UNCHANGED customer ELSE With(c, "idle")
  BY DEF NewSession
<1>2. handlerIds' = Append(handlerIds, id) /\ answering' = answering
  BY DEF NewSession
<1> DEFINE d == [customer[c] EXCEPT !.state = IF customer[c].state = "gone" THEN "gone" ELSE "idle"]
           n == Len(sessionHandles)
<1>3. customer \in [Customers -> CustomerType] /\ customer[c] \in CustomerType
  BY DEF ServicesInv
<1>4. customer' = [customer EXCEPT ![c] = d]
  <2>1. CASE customer[c].state = "gone"
    <3>1. d = customer[c]
      BY <1>3, <2>1 DEF CustomerType
    <3> HIDE DEF d
    <3> QED
      BY <1>1, <1>3, <2>1, <3>1
  <2>2. CASE customer[c].state # "gone"
    BY <1>1, <2>2 DEF With
  <2> QED
    BY <2>1, <2>2
<1>5. /\ d \in CustomerType /\ d.state # "none" /\ d.service = id
      /\ d.answeredBy = customer[c].answeredBy
  BY <1>1, <1>3 DEF CustomerType
<1> HIDE DEF d
<1>6. \A b \in Customers : customer'[b] = IF b = c THEN d ELSE customer[b]
  BY <1>3, <1>4
<1>7. /\ sessionHandles \in Seq(Customers) /\ IsInjective(sessionHandles)
      /\ handlerIds \in Seq(Offered) /\ Len(handlerIds) = n
      /\ \A i \in 1..n : /\ handlerIds[i] = customer[sessionHandles[i]].service
                         /\ customer[sessionHandles[i]].state # "none"
  BY DEF ServicesInv
<1>8. /\ sessionHandles' \in Seq(Customers) /\ handlerIds' \in Seq(Offered)
      /\ Len(sessionHandles') = n + 1 /\ Len(handlerIds') = n + 1 /\ n \in Nat
      /\ DOMAIN sessionHandles' = 1..n + 1 /\ DOMAIN sessionHandles = 1..n
      /\ \A i \in 1..n + 1 : /\ sessionHandles'[i] = IF i = n + 1 THEN c ELSE sessionHandles[i]
                             /\ handlerIds'[i] = IF i = n + 1 THEN id ELSE handlerIds[i]
  BY <1>1, <1>2, <1>7
<1> HIDE DEF n
<1>9. \A i \in 1..n + 1 : i # n + 1 => i \in 1..n
  BY <1>8
<1>10. \A i \in 1..n : sessionHandles[i] # c /\ sessionHandles[i] \in Customers
  BY <1>1, <1>7, <1>8 DEF Range
<1>11. IsInjective(sessionHandles')
  <2>1. \A i, j \in 1..n : sessionHandles[i] = sessionHandles[j] => i = j
    BY <1>7, <1>8 DEF IsInjective
  <2>2. ASSUME NEW i \in 1..n + 1, NEW j \in 1..n + 1, sessionHandles'[i] = sessionHandles'[j]
        PROVE  i = j
    BY <1>8, <1>9, <1>10, <2>1, <2>2
  <2> QED
    BY <1>8, <2>2 DEF IsInjective
<1>12. ASSUME NEW i \in 1..n + 1
       PROVE  /\ handlerIds'[i] = customer'[sessionHandles'[i]].service
              /\ customer'[sessionHandles'[i]].state # "none"
  BY <1>5, <1>6, <1>7, <1>8, <1>9, <1>10
<1>13. customer' \in [Customers -> CustomerType]
  BY <1>3, <1>4, <1>5
<1>14. RightHandler' /\ \A b \in Customers : customer'[b].state = "none" => customer'[b].service = 0
  BY <1>1, <1>5, <1>6 DEF ServicesInv, RightHandler
<1> QED
  BY <1>2, <1>8, <1>11, <1>12, <1>13, <1>14 DEF ServicesInv

\* Every step of the processes and the loop.
LEMMA ServicesStep ==
  ASSUME ServicesInv, [ServicesNext]_serviceVars
  PROVE  ServicesInv'
<1>1. CASE \/ UNCHANGED serviceVars
           \/ TerminationAsked \/ Blocks \/ Terminated
  <2>1. UNCHANGED <<customer, sessionHandles, handlerIds, answering>>
    BY <1>1 DEF serviceVars, TerminationAsked, Blocks, Terminated
  <2> QED
    BY <2>1 DEF ServicesInv, RightHandler
<1> QED
  BY <1>1, CustomersStep, CommandsStep, NewSessionStep, ClosedSessionStep DEF ServicesNext, LoopStep

\* The arrays stay in step in every behaviour.
THEOREM ServicesInvariant == ServicesSpec => []ServicesInv
BY ServicesBegin, ServicesStep, PTL DEF ServicesSpec

\* A command is answered by the handler of the service that its process
\* connected to, for any number of processes, services and sessions.
THEOREM HandlersAreRight == ServicesSpec => []RightHandler
<1>1. ServicesInv => RightHandler
  BY DEF ServicesInv
<1> QED
  BY <1>1, ServicesInvariant, PTL

-----------------------------------------------------------------------------
(* The slot of task_runner.c *)

\* Past the wait for readiness, and not back yet.
Holds(c) == caller[c] \in {"set task", "set arguments", "signal"}

\* The slot belongs to one at a time: to the runner, to a caller or, between
\* them, to one of the events; what its owner wrote stays there.
SlotInv ==
  /\ caller \in [Callers -> {"out", "wait", "set task", "set arguments", "signal"}]
  /\ runner \in {"loop", "signal", "wait", "run", "ended"}
  /\ readyEvent \in BOOLEAN /\ parametersSetEvent \in BOOLEAN
  /\ task \in Callers /\ argStorage \in Callers
  /\ runner # "wait" => ~readyEvent /\ ~parametersSetEvent
  /\ ~(readyEvent /\ parametersSetEvent)
  /\ \A c \in Callers :
       /\ Holds(c) => runner = "wait" /\ ~readyEvent /\ ~parametersSetEvent
       /\ caller[c] \in {"set arguments", "signal"} => task = c
       /\ caller[c] = "signal" => argStorage = c
  /\ \A c, d \in Callers : Holds(c) /\ Holds(d) => c = d
  /\ parametersSetEvent \/ runner = "run" => task = argStorage

\* No step takes the slot from its owner.
LEMMA SlotStep ==
  ASSUME SlotInv, [RunnerNext]_runnerVars
  PROVE  SlotInv'
<1>1. ASSUME NEW c \in Callers, Calls(c) \/ RunTask(c)
      PROVE  SlotInv'
  <2>1. CASE Calls(c)
    BY <2>1 DEF SlotInv, Calls, CallerGoes, runnerEvents, slotVars, Holds
  <2>2. CASE WaitsForReady(c)
    BY <2>2 DEF SlotInv, WaitsForReady, CallerGoes, runnerEvents, slotVars, Holds
  <2>3. CASE SetsTask(c)
    BY <2>3 DEF SlotInv, SetsTask, CallerGoes, runnerEvents, slotVars, Holds
  <2>4. CASE SetsArguments(c)
    BY <2>4 DEF SlotInv, SetsArguments, CallerGoes, runnerEvents, slotVars, Holds
  <2>5. CASE Signals(c)
    BY <2>5 DEF SlotInv, Signals, CallerGoes, runnerEvents, slotVars, Holds
  <2> QED
    BY <1>1, <2>1, <2>2, <2>3, <2>4, <2>5 DEF RunTask
<1>2. CASE Terminate
  BY <1>2, TaskRunnerAssumption DEF SlotInv, Terminate, CallerGoes, runnerEvents, slotVars, Holds
<1>3. CASE LooksAtEnd
  BY <1>3 DEF SlotInv, LooksAtEnd, RunnerGoes, runnerEvents, slotVars, Holds
<1>4. CASE SignalsReady
  BY <1>4 DEF SlotInv, SignalsReady, RunnerGoes, runnerEvents, slotVars, Holds
<1>5. CASE WaitsForParameters
  BY <1>5 DEF SlotInv, WaitsForParameters, RunnerGoes, runnerEvents, slotVars, Holds
<1>6. CASE RunsTask
  BY <1>6 DEF SlotInv, RunsTask, RunnerGoes, runnerEvents, slotVars, Holds
<1>7. CASE UNCHANGED runnerVars
  BY <1>7 DEF SlotInv, runnerVars, runnerEvents, slotVars, Holds
<1> QED
  BY <1>1, <1>2, <1>3, <1>4, <1>5, <1>6, <1>7 DEF RunnerNext, HandleTasks

\* The slot belongs to one at a time in every behaviour, although nobody locks it.
THEOREM SlotInvariant == RunnerSpec => []SlotInv
<1>1. RunnerInit => SlotInv
  BY TaskRunnerAssumption DEF RunnerInit, SlotInv, Holds
<1> QED
  BY <1>1, SlotStep, PTL DEF RunnerSpec

\* The pair of task and arguments that is handed over and has not run.
Given == IF parametersSetEvent \/ runner = "run" THEN {<<task, argStorage>>} ELSE {}

\* A step that leaves the events, the slot and the runner's task alone.
LEMMA GivenStays ==
  ASSUME \/ /\ ~(parametersSetEvent \/ runner = "run")
            /\ ~(parametersSetEvent' \/ runner' = "run")
         \/ /\ parametersSetEvent \/ runner = "run"
            /\ parametersSetEvent' \/ runner' = "run"
            /\ UNCHANGED <<task, argStorage>>
  PROVE  Given' = Given
BY DEF Given

\* A step hands one task over when none is given, runs the one that is, or
\* does not show.
LEMMA RunnerStepHandsOver ==
  ASSUME SlotInv, [RunnerNext]_runnerVars
  PROVE  \/ Given = {} /\ \E c \in Callers : Given' = {<<c, c>>}
         \/ Given # {} /\ Given' = {}
         \/ Given' = Given
<1>1. ASSUME NEW c \in Callers, Signals(c)
      PROVE  Given = {} /\ Given' = {<<c, c>>}
  <2>1. runner = "wait" /\ ~parametersSetEvent /\ task = c /\ argStorage = c
    BY <1>1 DEF Signals, SlotInv, Holds
  <2>2. parametersSetEvent' /\ UNCHANGED <<task, argStorage>>
    BY <1>1 DEF Signals, slotVars
  <2> QED
    BY <2>1, <2>2 DEF Given
<1>2. ASSUME NEW c \in Callers, SetsTask(c) \/ SetsArguments(c)
      PROVE  Given' = Given
  <2>1. runner = "wait" /\ ~parametersSetEvent
    BY <1>2 DEF SetsTask, SetsArguments, SlotInv, Holds
  <2>2. UNCHANGED <<runner, parametersSetEvent>>
    BY <1>2 DEF SetsTask, SetsArguments, runnerEvents
  <2> QED
    BY <2>1, <2>2, GivenStays
<1>3. CASE RunsTask
  <2>1. runner = "run" /\ runner' = "loop" /\ ~parametersSetEvent /\ parametersSetEvent' = parametersSetEvent
    BY <1>3 DEF RunsTask, RunnerGoes, runnerEvents, SlotInv
  <2> QED
    BY <2>1 DEF Given
<1>4. CASE WaitsForParameters
  BY <1>4, GivenStays DEF WaitsForParameters, RunnerGoes, slotVars
<1>5. CASE LooksAtEnd \/ SignalsReady
  <2>1. runner \in {"loop", "signal"} /\ runner' \in {"signal", "ended", "wait"}
        /\ parametersSetEvent' = parametersSetEvent
    BY <1>5 DEF LooksAtEnd, SignalsReady, RunnerGoes, runnerEvents
  <2>2. ~parametersSetEvent
    BY <2>1 DEF SlotInv
  <2> QED
    BY <2>1, <2>2, GivenStays
<1>6. CASE UNCHANGED <<runner, parametersSetEvent, slotVars>>
  BY <1>6, GivenStays DEF slotVars
<1>7. ASSUME NEW c \in Callers, Calls(c) \/ WaitsForReady(c)
      PROVE  UNCHANGED <<runner, parametersSetEvent, slotVars>>
  BY <1>7 DEF Calls, WaitsForReady, runnerEvents
<1>8. Terminate \/ UNCHANGED runnerVars => UNCHANGED <<runner, parametersSetEvent, slotVars>>
  BY DEF Terminate, runnerVars, runnerEvents
<1> QED
  BY <1>1, <1>2, <1>3, <1>4, <1>5, <1>6, <1>7, <1>8 DEF RunnerNext, RunTask, HandleTasks

\* The runner implements the hand-over: no task is lost, repeated, given the
\* arguments of another or overwritten before it ran, for any number of
\* threads.  That a task that is given does run is liveness.
THEOREM SlotHandsOver == RunnerSpec => HandOver!HandOverSafety
<1>1. RunnerInit => Given = {}
  BY DEF RunnerInit, Given
<1>2. SlotInv /\ [RunnerNext]_runnerVars => [HandOver!Hand \/ HandOver!RunGiven]_(Given)
  <2> SUFFICES ASSUME SlotInv, [RunnerNext]_runnerVars
               PROVE  \/ HandOver!Hand \/ HandOver!RunGiven
                      \/ Given' = Given
    OBVIOUS
  <2>1. CASE Given = {} /\ \E c \in Callers : Given' = {<<c, c>>}
    BY <2>1 DEF HandOver!Hand, Given
  <2>2. CASE Given # {} /\ Given' = {}
    BY <2>2 DEF HandOver!RunGiven, Given
  <2> QED
    BY <2>1, <2>2, RunnerStepHandsOver
<1> QED
  BY <1>1, <1>2, SlotInvariant, PTL DEF RunnerSpec, HandOver!HandOverSafety, Given


-----------------------------------------------------------------------------
(* Lists put together *)

\* Two lists that have no element in common, one after the other.
LEMMA Joined ==
  ASSUME NEW S, NEW s \in Seq(S), NEW t \in Seq(S), IsInjective(s), IsInjective(t),
         Range(s) \cap Range(t) = {}
  PROVE  /\ s \o t \in Seq(S) /\ IsInjective(s \o t)
         /\ Range(s \o t) = Range(s) \cup Range(t) /\ Len(s \o t) = Len(s) + Len(t)
<1> DEFINE u == s \o t
<1>1. /\ u \in Seq(S) /\ Len(u) = Len(s) + Len(t) /\ Len(s) \in Nat /\ Len(t) \in Nat
      /\ \A i \in 1..Len(s) : u[i] = s[i]
      /\ DOMAIN u = 1..Len(u) /\ DOMAIN s = 1..Len(s) /\ DOMAIN t = 1..Len(t)
      /\ \A i \in 1..Len(t) : u[Len(s) + i] = t[i]
  OBVIOUS
<1>2. Range(u) = Range(s) \cup Range(t)
  BY RangeConcatenation
<1> HIDE DEF u
<1>3. \A i \in 1..Len(u) : \/ i \in 1..Len(s) /\ u[i] = s[i] /\ u[i] \in Range(s)
                           \/ /\ i - Len(s) \in 1..Len(t) /\ u[i] = t[i - Len(s)]
                              /\ u[i] \in Range(t)
  <2> SUFFICES ASSUME NEW i \in 1..Len(u), i \notin 1..Len(s)
               PROVE  /\ i - Len(s) \in 1..Len(t) /\ u[i] = t[i - Len(s)]
                      /\ u[i] \in Range(t)
    BY <1>1 DEF Range
  <2>1. i - Len(s) \in 1..Len(t) /\ Len(s) + (i - Len(s)) = i
    BY <1>1
  <2>2. u[Len(s) + (i - Len(s))] = t[i - Len(s)]
    BY <1>1, <2>1
  <2> QED
    BY <1>1, <2>1, <2>2 DEF Range
<1>4. ASSUME NEW i \in 1..Len(u), NEW j \in 1..Len(u), u[i] = u[j]
      PROVE  i = j
  <2>1. CASE i \in 1..Len(s) /\ u[i] = s[i] /\ u[i] \in Range(s)
    <3>1. j \in 1..Len(s) /\ u[j] = s[j]
      BY <1>3, <1>4, <2>1
    <3> QED
      BY <1>1, <1>4, <2>1, <3>1 DEF IsInjective
  <2>2. CASE i - Len(s) \in 1..Len(t) /\ u[i] = t[i - Len(s)] /\ u[i] \in Range(t)
    <3>1. j - Len(s) \in 1..Len(t) /\ u[j] = t[j - Len(s)]
      BY <1>3, <1>4, <2>2
    <3>2. i - Len(s) = j - Len(s)
      BY <1>1, <1>4, <2>2, <3>1 DEF IsInjective
    <3> QED
      BY <1>1, <3>2
  <2> QED
    BY <1>3, <2>1, <2>2
<1>5. IsInjective(u)
  BY <1>1, <1>4 DEF IsInjective
<1> QED
  BY <1>1, <1>2, <1>5 DEF u

\* The list of one element.
LEMMA OneElement ==
  ASSUME NEW S, NEW p \in S
  PROVE  <<p>> \in Seq(S) /\ IsInjective(<<p>>) /\ Range(<<p>>) = {p}
BY DEF IsInjective, Range

\* An element that is put in front of, or at the end of, a list it is not on.
LEMMA InFront ==
  ASSUME NEW S, NEW s \in Seq(S), NEW p \in S, p \notin Range(s), IsInjective(s)
  PROVE  /\ <<p>> \o s \in Seq(S) /\ IsInjective(<<p>> \o s)
         /\ Range(<<p>> \o s) = {p} \cup Range(s)
<1> DEFINE one == <<p>>
<1>1. one \in Seq(S) /\ IsInjective(one) /\ Range(one) = {p}
  BY OneElement
<1> HIDE DEF one
<1>2. Range(one) \cap Range(s) = {}
  BY <1>1
<1>3. /\ one \o s \in Seq(S) /\ IsInjective(one \o s)
      /\ Range(one \o s) = {p} \cup Range(s)
  BY <1>1, <1>2, Joined
<1> QED
  BY <1>3 DEF one

\* The same at the end of the list.
LEMMA AtEnd ==
  ASSUME NEW S, NEW s \in Seq(S), NEW p \in S, p \notin Range(s), IsInjective(s)
  PROVE  /\ Append(s, p) \in Seq(S) /\ IsInjective(Append(s, p))
         /\ Range(Append(s, p)) = {p} \cup Range(s)
<1> DEFINE one == <<p>>
<1>1. one \in Seq(S) /\ IsInjective(one) /\ Range(one) = {p} /\ Append(s, p) = s \o one
  BY OneElement, AppendIsConcat
<1> HIDE DEF one
<1>2. Range(s) \cap Range(one) = {}
  BY <1>1
<1> QED
  BY <1>1, <1>2, Joined

\* The first of a list, and what is left.
LEMMA FirstOff ==
  ASSUME NEW S, NEW s \in Seq(S), s # <<>>, IsInjective(s)
  PROVE  /\ Head(s) \in Range(s) /\ Tail(s) \in Seq(S) /\ IsInjective(Tail(s))
         /\ Range(Tail(s)) = Range(s) \ {Head(s)} /\ Len(Tail(s)) = Len(s) - 1
<1> DEFINE t == Tail(s)
<1>1. /\ Head(s) = s[1] /\ t \in Seq(S) /\ Len(t) = Len(s) - 1 /\ Len(s) \in Nat \ {0}
      /\ \A i \in 1..Len(t) : t[i] = s[i + 1] /\ i + 1 \in 1..Len(s)
      /\ DOMAIN s = 1..Len(s) /\ DOMAIN t = 1..Len(t)
  OBVIOUS
<1> HIDE DEF t
<1>2. Head(s) \in Range(s)
  BY <1>1 DEF Range
<1>3. IsInjective(t)
  <2> SUFFICES ASSUME NEW i \in 1..Len(t), NEW j \in 1..Len(t), t[i] = t[j]
               PROVE  i = j
    BY <1>1 DEF IsInjective
  <2>1. /\ i + 1 \in DOMAIN s /\ j + 1 \in DOMAIN s /\ s[i + 1] = s[j + 1]
    BY <1>1
  <2>2. i + 1 = j + 1
    BY <2>1 DEF IsInjective
  <2> QED
    BY <1>1, <2>2
<1>4. ASSUME NEW x \in Range(t)
      PROVE  x \in Range(s) \ {Head(s)}
  <2>1. PICK i \in 1..Len(t) : x = s[i + 1] /\ i + 1 \in 1..Len(s)
    BY <1>1, <1>4 DEF Range
  <2>2. i + 1 # 1 /\ i + 1 \in DOMAIN s /\ 1 \in DOMAIN s
    BY <1>1, <2>1
  <2>3. x # s[1]
    BY <2>1, <2>2 DEF IsInjective
  <2> QED
    BY <1>1, <2>1, <2>2, <2>3 DEF Range
<1>5. ASSUME NEW x \in Range(s) \ {Head(s)}
      PROVE  x \in Range(t)
  <2>1. PICK i \in 1..Len(s) : x = s[i] /\ i # 1
    BY <1>1, <1>5 DEF Range
  <2>2. i - 1 \in 1..Len(t) /\ (i - 1) + 1 = i
    BY <1>1, <2>1
  <2> QED
    BY <1>1, <2>1, <2>2 DEF Range
<1> QED
  BY <1>1, <1>2, <1>3, <1>4, <1>5 DEF t

\* Remainders, for numbers that go round once at most.
LEMMA GoesRound ==
  ASSUME NEW a \in Nat, a < 2 * RingSize
  PROVE  a % RingSize = IF a < RingSize THEN a ELSE a - RingSize
<1>1. RingSize \in Nat \ {0}
  BY SmAssumption
<1>2. CASE a < RingSize
  BY <1>1, <1>2
<1>3. CASE a >= RingSize
  BY <1>1, <1>3
<1> QED
  BY <1>1, <1>2, <1>3

\* An index of the ring is its own remainder.
LEMMA IndexRests ==
  ASSUME NEW r \in 0..RingSize - 1
  PROVE  r % RingSize = r
BY SmAssumption, GoesRound

\* Where the ring stands n steps on, and one step more.
LEMMA IndexStep ==
  ASSUME NEW r \in 0..RingSize - 1, NEW n \in 0..RingSize
  PROVE  /\ (r + n) % RingSize \in 0..RingSize - 1
         /\ n < RingSize => (r + (n + 1)) % RingSize = (((r + n) % RingSize) + 1) % RingSize
         /\ \A k \in 0..RingSize : n > 0 /\ k = n - 1 =>
              (((r + 1) % RingSize) + k) % RingSize = (r + n) % RingSize
<1>1. RingSize \in Nat \ {0}
  BY SmAssumption
<1>2. (r + n) % RingSize = IF r + n < RingSize THEN r + n ELSE r + n - RingSize
  BY <1>1, GoesRound
<1>3. (r + n) % RingSize \in 0..RingSize - 1
  BY <1>1, <1>2
<1>4. (((r + n) % RingSize) + 1) % RingSize =
        IF ((r + n) % RingSize) + 1 < RingSize THEN ((r + n) % RingSize) + 1
        ELSE ((r + n) % RingSize) + 1 - RingSize
  BY <1>1, <1>3, GoesRound
<1>5. ASSUME n < RingSize
      PROVE  (r + (n + 1)) % RingSize = (((r + n) % RingSize) + 1) % RingSize
  <2>1. (r + (n + 1)) % RingSize =
          IF r + (n + 1) < RingSize THEN r + (n + 1) ELSE r + (n + 1) - RingSize
    BY <1>1, <1>5, GoesRound
  <2> QED
    BY <1>1, <1>2, <1>4, <1>5, <2>1
<1>6. ASSUME n > 0, NEW k \in 0..RingSize, k = n - 1
      PROVE  (((r + 1) % RingSize) + k) % RingSize = (r + n) % RingSize
  <2> DEFINE q == (r + 1) % RingSize
  <2>1. q = IF r + 1 < RingSize THEN r + 1 ELSE r + 1 - RingSize
    BY <1>1, GoesRound
  <2> HIDE DEF q
  <2> DEFINE sum == q + k
  <2>2. sum \in Nat /\ sum < 2 * RingSize /\ sum = q + k
    BY <1>1, <1>6, <2>1
  <2> HIDE DEF sum
  <2>3. sum % RingSize = IF sum < RingSize THEN sum ELSE sum - RingSize
    BY <2>2, GoesRound
  <2>4. sum % RingSize = (r + n) % RingSize
    BY <1>1, <1>2, <1>6, <2>1, <2>2, <2>3
  <2> QED
    BY <2>4, <2>2 DEF q
<1> QED
  BY <1>3, <1>5, <1>6

-----------------------------------------------------------------------------
(* Notifications *)

\* The rings: the write index is behind the pending notifications, a process
\* has some only once it has enabled them, and one not registered has none.
RingsInv ==
  /\ \A p \in Pids :
       /\ data[p].next = (data[p].received + data[p].nb) % RingSize
       /\ data[p].nb > 0 => data[p].enabled
       /\ data[p].nb = permits[p] + (IF p \in woken THEN 1 ELSE 0)
  /\ \A p \in Pids \ Registered : data[p].nb = 0

NotificationsInv == SmTypeOK /\ RingsInv

\* What srv.c sets up for a process that registers is of the type of its data.
LEMMA FreshTyped == FreshData \in DataType
<1>1. 0 \in 0..RingSize - 1 /\ 0 \in 0..RingSize
  BY SmAssumption
<1> QED
  BY <1>1 DEF FreshData, DataType

\* What storing a notification makes of a process that has room for it.
LEMMA PutFacts ==
  ASSUME NEW d \in DataType, NEW n \in Notifications, d.nb < RingSize
  PROVE  /\ Put(d, n) \in DataType
         /\ Put(d, n).enabled = d.enabled /\ Put(d, n).subscribed = d.subscribed
         /\ Put(d, n).ring = [d.ring EXCEPT ![d.next] = n]
         /\ Put(d, n).received = d.received
         /\ Put(d, n).next = (d.next + 1) % RingSize
         /\ Put(d, n).nb = d.nb + 1
<1> DEFINE ring == [d.ring EXCEPT ![d.next] = n]
           next1 == (d.next + 1) % RingSize
           nb1 == d.nb + 1
<1>1. Put(d, n) = [d EXCEPT !.ring = ring, !.next = next1, !.nb = nb1]
  BY DEF Put, DataType
<1>2. d.next \in 0..RingSize - 1 /\ d.nb \in 0..RingSize
      /\ d.ring \in [0..RingSize - 1 -> Notifications \cup {0}]
  BY DEF DataType
<1>3. next1 \in 0..RingSize - 1 /\ nb1 \in 0..RingSize
  BY <1>2, SmAssumption
<1>4. ring \in [0..RingSize - 1 -> Notifications \cup {0}]
  BY <1>2
<1> HIDE DEF ring, next1, nb1
<1>5. Put(d, n) \in DataType
  BY <1>1, <1>3, <1>4 DEF DataType
<1>6. /\ Put(d, n).enabled = d.enabled /\ Put(d, n).subscribed = d.subscribed
      /\ Put(d, n).received = d.received /\ Put(d, n).ring = ring
      /\ Put(d, n).next = next1 /\ Put(d, n).nb = nb1
  BY <1>1 DEF DataType
<1> QED
  BY <1>5, <1>6 DEF ring, next1, nb1

\* What taking the oldest notification makes of a process that has one.
Taken(d) ==
  [d EXCEPT !.nb = @ - 1, !.ring[d.received] = 0, !.received = (@ + 1) % RingSize]

\* What ReceiveNotification leaves of a ring.
LEMMA TakenFacts ==
  ASSUME NEW d \in DataType, d.nb > 0
  PROVE  /\ Taken(d) \in DataType
         /\ Taken(d).enabled = d.enabled /\ Taken(d).subscribed = d.subscribed
         /\ Taken(d).ring = [d.ring EXCEPT ![d.received] = 0]
         /\ Taken(d).received = (d.received + 1) % RingSize
         /\ Taken(d).next = d.next
         /\ Taken(d).nb = d.nb - 1
<1> DEFINE ring == [d.ring EXCEPT ![d.received] = 0]
           received1 == (d.received + 1) % RingSize
           nb1 == d.nb - 1
<1>1. Taken(d) = [d EXCEPT !.nb = nb1, !.ring = ring, !.received = received1]
  BY DEF Taken, DataType
<1>2. d.received \in 0..RingSize - 1 /\ d.nb \in 0..RingSize
      /\ d.ring \in [0..RingSize - 1 -> Notifications \cup {0}]
  BY DEF DataType
<1>3. received1 \in 0..RingSize - 1 /\ nb1 \in 0..RingSize
  BY <1>2, SmAssumption
<1>4. ring \in [0..RingSize - 1 -> Notifications \cup {0}]
  BY <1>2
<1> HIDE DEF ring, received1, nb1
<1>5. Taken(d) \in DataType
  BY <1>1, <1>3, <1>4 DEF DataType
<1>6. /\ Taken(d).enabled = d.enabled /\ Taken(d).subscribed = d.subscribed
      /\ Taken(d).next = d.next /\ Taken(d).ring = ring
      /\ Taken(d).received = received1 /\ Taken(d).nb = nb1
  BY <1>1 DEF DataType
<1> QED
  BY <1>5, <1>6 DEF ring, received1, nb1

\* The invariant of the notifications holds when sm starts.
THEOREM NotificationsBegin == SmInit => NotificationsInv
<1> SUFFICES ASSUME SmInit
             PROVE  NotificationsInv
  OBVIOUS
<1>1. 0 \in 0..RingSize /\ 0 % RingSize = 0
  BY SmAssumption, GoesRound
<1>2. inUse \in Seq(Pids) /\ IsInjective(inUse)
  BY DEF SmInit, IsInjective
<1>3. \A p \in Pids : data[p] = FreshData /\ permits[p] = 0 /\ p \notin woken
  BY DEF SmInit
<1>4. SmTypeOK
  BY <1>1, <1>2, FreshTyped DEF SmInit, SmTypeOK
<1>5. /\ FreshData.nb = 0 /\ FreshData.next = 0 /\ FreshData.received = 0
  BY DEF FreshData
<1>6. RingsInv
  BY <1>1, <1>3, <1>5 DEF RingsInv
<1> QED
  BY <1>4, <1>6 DEF NotificationsInv

\* RegisterProcess keeps it: the process is new, and its ring is empty.
LEMMA RegisterStep ==
  ASSUME NotificationsInv, NEW p \in Pids \ Registered, NEW enabled \in BOOLEAN,
         doRegisterProcess(p, enabled), publishFailed' \in BOOLEAN
  PROVE  NotificationsInv'
<1> DEFINE d == [FreshData EXCEPT !.enabled = enabled]
<1>1. /\ inUse' = <<p>> \o inUse /\ data' = [data EXCEPT ![p] = d]
      /\ permits' = [permits EXCEPT ![p] = 0] /\ woken' = woken \ {p}
  BY DEF doRegisterProcess
<1>2. d \in DataType /\ d.nb = 0 /\ d.next = 0 /\ d.received = 0
  BY FreshTyped DEF FreshData, DataType
<1> HIDE DEF d
<1>3. 0 \in 0..RingSize /\ (0 + 0) % RingSize = 0
  BY SmAssumption, GoesRound
<1>4. /\ inUse' \in Seq(Pids) /\ IsInjective(inUse') /\ Registered' = {p} \cup Registered
  BY <1>1, InFront DEF NotificationsInv, SmTypeOK, Registered
<1>5. SmTypeOK'
  BY <1>1, <1>2, <1>3, <1>4 DEF NotificationsInv, SmTypeOK
<1>6. RingsInv'
  BY <1>1, <1>2, <1>3, <1>4 DEF NotificationsInv, SmTypeOK, RingsInv
<1> QED
  BY <1>5, <1>6 DEF NotificationsInv

\* UnregisterProcess keeps it: the lists lose the process, and nothing else.
LEMMA UnregisterStep ==
  ASSUME NotificationsInv, NEW p \in Pids, UnregisterProcess(p)
  PROVE  NotificationsInv'
<1>1. /\ inUse' = Kept(inUse, Pids \ {p}) /\ data' = [data EXCEPT ![p] = FreshData]
      /\ permits' = [permits EXCEPT ![p] = 0] /\ woken' = woken \ {p}
      /\ publishFailed' = publishFailed
  BY DEF UnregisterProcess
<1>2. FreshData.nb = 0 /\ FreshData.next = 0 /\ FreshData.received = 0
  BY DEF FreshData
<1>3. 0 \in 0..RingSize /\ (0 + 0) % RingSize = 0
  BY SmAssumption, GoesRound
<1>4. /\ inUse' \in Seq(Pids) /\ IsInjective(inUse')
      /\ Registered' = Registered \cap (Pids \ {p}) /\ Registered \subseteq Pids
  <2>1. Registered \subseteq Pids
    BY DEF NotificationsInv, SmTypeOK, Registered, Range
  <2> QED
    BY <1>1, <2>1, KeptFacts DEF NotificationsInv, SmTypeOK, Registered
<1>5. SmTypeOK'
  BY <1>1, <1>3, <1>4, FreshTyped DEF NotificationsInv, SmTypeOK
<1>6. RingsInv'
  BY <1>1, <1>2, <1>3, <1>4 DEF NotificationsInv, SmTypeOK, RingsInv
<1> QED
  BY <1>5, <1>6 DEF NotificationsInv

\* A publication keeps it: each process it reaches gets a notification and a permit, or neither.
LEMMA PublishStep ==
  ASSUME NotificationsInv, NEW list, NEW n \in Notifications, NEW flags,
         \A p \in Range(list) : p \in Registered /\ data[p].enabled,
         Publish(list, n, flags)
  PROVE  NotificationsInv'
<1> DEFINE stored == {p \in Reached(list, n, flags) : Stores(p, n, flags)}
<1>1. /\ data' = [p \in Pids |-> IF p \in stored THEN Put(data[p], n) ELSE data[p]]
      /\ permits' = [p \in Pids |-> IF p \in stored THEN permits[p] + 1 ELSE permits[p]]
      /\ inUse' = inUse /\ woken' = woken /\ publishFailed' \in BOOLEAN
  BY DEF Publish
<1>2. \A p \in stored : p \in Registered /\ data[p].enabled /\ data[p].nb < RingSize
  BY DEF Stores, Reached
<1> HIDE DEF stored
<1>3. Registered \subseteq Pids /\ Registered' = Registered
  BY <1>1 DEF NotificationsInv, SmTypeOK, Registered, Range
<1>4. ASSUME NEW p \in Pids
      PROVE  /\ data'[p] \in DataType /\ permits'[p] \in 0..RingSize
             /\ data'[p].next = (data'[p].received + data'[p].nb) % RingSize
             /\ data'[p].nb > 0 => data'[p].enabled
             /\ data'[p].nb = permits'[p] + (IF p \in woken THEN 1 ELSE 0)
             /\ p \notin Registered => data'[p].nb = 0
  <2>1. /\ data[p] \in DataType /\ permits[p] \in 0..RingSize
        /\ data[p].next = (data[p].received + data[p].nb) % RingSize
        /\ data[p].nb > 0 => data[p].enabled
        /\ data[p].nb = permits[p] + (IF p \in woken THEN 1 ELSE 0)
        /\ p \notin Registered => data[p].nb = 0
    BY DEF NotificationsInv, SmTypeOK, RingsInv
  <2>2. CASE p \notin stored
    BY <1>1, <2>1, <2>2
  <2>3. CASE p \in stored
    <3>1. data'[p] = Put(data[p], n) /\ permits'[p] = permits[p] + 1
      BY <1>1, <2>3
    <3>2. p \in Registered /\ data[p].enabled /\ data[p].nb < RingSize
      BY <1>2, <2>3
    <3>3. /\ Put(data[p], n) \in DataType
          /\ Put(data[p], n).enabled = data[p].enabled
          /\ Put(data[p], n).received = data[p].received
          /\ Put(data[p], n).next = (data[p].next + 1) % RingSize
          /\ Put(data[p], n).nb = data[p].nb + 1
      BY <2>1, <3>2, PutFacts
    <3>4. data[p].received \in 0..RingSize - 1 /\ data[p].nb \in 0..RingSize
      BY <2>1 DEF DataType
    <3>5. (data[p].received + (data[p].nb + 1)) % RingSize = (data[p].next + 1) % RingSize
      BY <2>1, <3>2, <3>4, IndexStep
    <3>6. permits[p] + 1 \in 0..RingSize
      BY <2>1, <3>2, <3>4, SmAssumption
    <3>7. data[p].nb + 1 = permits[p] + 1 + (IF p \in woken THEN 1 ELSE 0)
      BY <2>1, <3>4
    <3> QED
      BY <3>1, <3>2, <3>3, <3>5, <3>6, <3>7
  <2> QED
    BY <2>2, <2>3
<1>5. SmTypeOK'
  BY <1>1, <1>3, <1>4 DEF NotificationsInv, SmTypeOK
<1>6. RingsInv'
  BY <1>1, <1>3, <1>4 DEF RingsInv
<1> QED
  BY <1>5, <1>6 DEF NotificationsInv

\* EnableNotification, Subscribe and Unsubscribe do not touch the rings.
LEMMA SubscriptionStep ==
  ASSUME NotificationsInv, NEW p \in Pids, NEW d \in DataType,
         data' = [data EXCEPT ![p] = d],
         d.nb = data[p].nb, d.next = data[p].next, d.received = data[p].received,
         data[p].enabled => d.enabled,
         UNCHANGED <<inUse, permits, woken, publishFailed>>
  PROVE  NotificationsInv'
BY DEF NotificationsInv, SmTypeOK, RingsInv, Registered

\* ReceiveNotification keeps it: the ring loses its first notification.
LEMMA ReceiveStep ==
  ASSUME NotificationsInv, NEW p \in Pids, ReceiveNotification(p)
  PROVE  NotificationsInv'
<1>1. /\ p \in woken /\ p \in Registered
      /\ data[p] \in DataType /\ permits[p] \in 0..RingSize
      /\ data[p].nb = permits[p] + 1
      /\ data[p].next = (data[p].received + data[p].nb) % RingSize
      /\ data[p].nb > 0 => data[p].enabled
  BY DEF ReceiveNotification, NotificationsInv, SmTypeOK, RingsInv
<1>2. data[p].nb > 0 /\ data[p].enabled
  BY <1>1
<1>3. /\ data' = [data EXCEPT ![p] = Taken(data[p])] /\ woken' = woken \ {p}
      /\ UNCHANGED <<inUse, permits, publishFailed>>
  BY <1>1, <1>2 DEF ReceiveNotification, Taken, NotificationsInv, SmTypeOK
<1>4. /\ Taken(data[p]) \in DataType /\ Taken(data[p]).enabled = data[p].enabled
      /\ Taken(data[p]).received = (data[p].received + 1) % RingSize
      /\ Taken(data[p]).next = data[p].next /\ Taken(data[p]).nb = data[p].nb - 1
  BY <1>1, <1>2, TakenFacts
<1>5. data[p].received \in 0..RingSize - 1 /\ data[p].nb \in 0..RingSize
  BY <1>1 DEF DataType
<1>6. Taken(data[p]).next = (Taken(data[p]).received + Taken(data[p]).nb) % RingSize
  <2> DEFINE k == data[p].nb - 1
  <2>1. k \in 0..RingSize /\ k = data[p].nb - 1
    BY <1>2, <1>5, SmAssumption
  <2> HIDE DEF k
  <2>2. (((data[p].received + 1) % RingSize) + k) % RingSize
          = (data[p].received + data[p].nb) % RingSize
    BY <1>2, <1>5, <2>1, IndexStep
  <2> QED
    BY <1>1, <1>4, <2>1, <2>2
<1>7. SmTypeOK'
  BY <1>3, <1>4 DEF NotificationsInv, SmTypeOK, Registered
<1>8. RingsInv'
  <2>1. /\ data'[p] = Taken(data[p]) /\ permits'[p] = permits[p] /\ p \notin woken'
        /\ \A q \in Pids \ {p} : data'[q] = data[q] /\ permits'[q] = permits[q]
                                 /\ (q \in woken' <=> q \in woken)
        /\ Registered' = Registered
    BY <1>3 DEF NotificationsInv, SmTypeOK, Registered
  <2>2. ASSUME NEW q \in Pids \ {p}
        PROVE  /\ data'[q].next = (data'[q].received + data'[q].nb) % RingSize
               /\ data'[q].nb > 0 => data'[q].enabled
               /\ data'[q].nb = permits'[q] + (IF q \in woken' THEN 1 ELSE 0)
    BY <2>1 DEF NotificationsInv, RingsInv
  <2>3. data'[p].next = (data'[p].received + data'[p].nb) % RingSize
    BY <1>6, <2>1
  <2>4. /\ data'[p].nb > 0 => data'[p].enabled
        /\ data'[p].nb = permits'[p] + (IF p \in woken' THEN 1 ELSE 0)
    <3>1. data[p].nb - 1 = permits[p] + 0
      BY <1>1, <1>5, SmAssumption
    <3> QED
      BY <1>2, <1>4, <2>1, <3>1
  <2> QED
    BY <1>1, <2>1, <2>2, <2>3, <2>4 DEF NotificationsInv, RingsInv
<1> QED
  BY <1>7, <1>8 DEF NotificationsInv

\* A client that is woken takes its permit.
LEMMA WakeStep ==
  ASSUME NotificationsInv, NEW p \in Pids, Wake(p)
  PROVE  NotificationsInv'
<1>1. permits[p] \in 0..RingSize /\ permits[p] > 0 /\ p \in Registered /\ p \notin woken
  BY DEF Wake, NotificationsInv, SmTypeOK
<1>2. /\ permits' = [permits EXCEPT ![p] = permits[p] - 1] /\ woken' = woken \cup {p}
      /\ UNCHANGED <<inUse, data, publishFailed>>
  BY DEF Wake, NotificationsInv, SmTypeOK
<1>3. permits[p] - 1 \in 0..RingSize
  BY <1>1, SmAssumption
<1>4. SmTypeOK'
  BY <1>1, <1>2, <1>3 DEF NotificationsInv, SmTypeOK, Registered
<1>5. RingsInv'
  BY <1>1, <1>2 DEF NotificationsInv, SmTypeOK, RingsInv, Registered
<1> QED
  BY <1>4, <1>5 DEF NotificationsInv

\* Every command of sm and every step of a client keeps the invariant.
THEOREM NotificationsStep == NotificationsInv /\ [SmNext]_smVars => NotificationsInv'
<1> SUFFICES ASSUME NotificationsInv, [SmNext]_smVars
             PROVE  NotificationsInv'
  OBVIOUS
<1>1. ASSUME NEW p \in Pids, RegisterProcess(p)
      PROVE  NotificationsInv'
  BY <1>1, RegisterStep DEF RegisterProcess, NotificationsInv, SmTypeOK
<1>2. ASSUME NEW p \in Pids, UnregisterProcess(p)
      PROVE  NotificationsInv'
  BY <1>2, UnregisterStep
<1>3. ASSUME NEW p \in Pids, EnableNotification(p)
      PROVE  NotificationsInv'
  <2>1. publishFailed' = publishFailed /\ publishFailed \in BOOLEAN /\ data[p] \in DataType
    BY <1>3 DEF EnableNotification, NotificationsInv, SmTypeOK
  <2>2. CASE p \notin Registered /\ doRegisterProcess(p, TRUE)
    BY <2>1, <2>2, RegisterStep
  <2>3. CASE data' = [data EXCEPT ![p].enabled = TRUE] /\ UNCHANGED <<inUse, permits, woken>>
    <3> DEFINE d == [data[p] EXCEPT !.enabled = TRUE]
    <3>1. d \in DataType /\ d.nb = data[p].nb /\ d.next = data[p].next
          /\ d.received = data[p].received /\ d.enabled
      BY <2>1 DEF DataType
    <3>2. data' = [data EXCEPT ![p] = d]
      BY <2>3
    <3> HIDE DEF d
    <3> QED
      BY <2>1, <2>3, <3>1, <3>2, SubscriptionStep
  <2> QED
    BY <1>3, <2>2, <2>3 DEF EnableNotification
<1>4. ASSUME NEW p \in Pids, NEW n \in Notifications, Subscribe(p, n) \/ Unsubscribe(p, n)
      PROVE  NotificationsInv'
  <2> DEFINE more == [data[p] EXCEPT !.subscribed = @ \cup {n}]
             less == [data[p] EXCEPT !.subscribed = @ \ {n}]
  <2>1. data[p] \in DataType
    BY DEF NotificationsInv, SmTypeOK
  <2>2. data[p].subscribed \cup {n} \in SUBSET Notifications
        /\ data[p].subscribed \ {n} \in SUBSET Notifications
    BY <2>1 DEF DataType
  <2>3. /\ more \in DataType /\ more.nb = data[p].nb /\ more.next = data[p].next
        /\ more.received = data[p].received /\ more.enabled = data[p].enabled
        /\ less \in DataType /\ less.nb = data[p].nb /\ less.next = data[p].next
        /\ less.received = data[p].received /\ less.enabled = data[p].enabled
    BY <2>1, <2>2 DEF DataType
  <2>4. /\ data' = [data EXCEPT ![p] = more] \/ data' = [data EXCEPT ![p] = less]
        /\ UNCHANGED <<inUse, permits, woken, publishFailed>>
    BY <1>4 DEF Subscribe, Unsubscribe
  <2> HIDE DEF more, less
  <2> QED
    BY <2>1, <2>3, <2>4, SubscriptionStep
<1>5. ASSUME NEW n \in Notifications, NEW flags, PublishToSubscriber(n, flags)
      PROVE  NotificationsInv'
  <2>1. \A p \in Range(Kept(inUse, {q \in Pids : IsSubscriber(q, n)})) :
          p \in Registered /\ data[p].enabled
    BY KeptFacts DEF NotificationsInv, SmTypeOK, Registered, IsSubscriber
  <2> QED
    BY <1>5, <2>1, PublishStep DEF PublishToSubscriber
<1>6. ASSUME NEW n \in Notifications, PublishToAll(n)
      PROVE  NotificationsInv'
  <2>1. \A p \in Range(Kept(inUse, {q \in Pids : Enabled(q)})) :
          p \in Registered /\ data[p].enabled
    BY KeptFacts DEF NotificationsInv, SmTypeOK, Registered, Enabled
  <2> QED
    BY <1>6, <2>1, PublishStep DEF PublishToAll
<1>7. ASSUME NEW p \in Pids, NEW n \in Notifications, PublishToProcess(p, n)
      PROVE  NotificationsInv'
  <2>1. \A q \in Range(<<p>>) : q \in Registered /\ data[q].enabled
    BY <1>7 DEF PublishToProcess, Range
  <2> QED
    BY <1>7, <2>1, PublishStep DEF PublishToProcess
<1>8. ASSUME NEW p \in Pids, Wake(p)
      PROVE  NotificationsInv'
  BY <1>8, WakeStep
<1>9. ASSUME NEW p \in Pids, ReceiveNotification(p)
      PROVE  NotificationsInv'
  BY <1>9, ReceiveStep
<1>10. CASE UNCHANGED smVars
  BY <1>10 DEF smVars, NotificationsInv, SmTypeOK, RingsInv, Registered
<1> QED
  BY <1>1, <1>2, <1>3, <1>4, <1>5, <1>6, <1>7, <1>8, <1>9, <1>10
  DEF SmNext, PublishAndGetSubscriber

\* The rings of sm are the state of every behaviour.
THEOREM NotificationsInvariant == SmSpec => []NotificationsInv
BY NotificationsBegin, NotificationsStep, PTL DEF SmSpec

\* A client has as many permits as pending notifications: it is woken for each
\* and never asks in vain, and the semaphore does not exceed the ring's size.
THEOREM PermitsAreRight == SmSpec => [](SmTypeOK /\ PermitsMatchPending)
<1>1. NotificationsInv => SmTypeOK /\ PermitsMatchPending
  <2>1. ASSUME SmTypeOK
        PROVE  Registered \subseteq Pids
    BY <2>1 DEF SmTypeOK, Registered, Range
  <2> QED
    BY <2>1 DEF NotificationsInv, RingsInv, PermitsMatchPending
<1> QED
  BY <1>1, NotificationsInvariant, PTL

-----------------------------------------------------------------------------
(* The rings are queues *)

\* Two places in a ring are different while fewer than RingSize apart.
LEMMA PlacesDiffer ==
  ASSUME NEW r \in 0..RingSize - 1, NEW i \in 0..RingSize - 1, NEW j \in 0..RingSize - 1, i # j
  PROVE  (r + i) % RingSize # (r + j) % RingSize
<1>1. RingSize \in Nat \ {0}
  BY SmAssumption
<1>2. (r + i) % RingSize = IF r + i < RingSize THEN r + i ELSE r + i - RingSize
  BY <1>1, GoesRound
<1>3. (r + j) % RingSize = IF r + j < RingSize THEN r + j ELSE r + j - RingSize
  BY <1>1, GoesRound
<1> QED
  BY <1>1, <1>2, <1>3

\* What is pending is a list of notifications.
LEMMA PendingTyped ==
  ASSUME NEW d \in DataType
  PROVE  /\ Pending(d) \in Seq(Notifications \cup {0}) /\ Len(Pending(d)) = d.nb
         /\ \A i \in 1..d.nb : Pending(d)[i] = d.ring[(d.received + (i - 1)) % RingSize]
<1>1. /\ RingSize \in Nat \ {0} /\ d.received \in 0..RingSize - 1 /\ d.nb \in 0..RingSize
      /\ d.ring \in [0..RingSize - 1 -> Notifications \cup {0}]
  BY SmAssumption DEF DataType
<1>2. ASSUME NEW i \in 1..d.nb
      PROVE  /\ (d.received + i - 1) % RingSize = (d.received + (i - 1)) % RingSize
             /\ d.ring[(d.received + i - 1) % RingSize] \in Notifications \cup {0}
  <2>1. i - 1 \in 0..RingSize /\ d.received + i - 1 = d.received + (i - 1)
    BY <1>1
  <2>2. (d.received + (i - 1)) % RingSize \in 0..RingSize - 1
    BY <1>1, <2>1, IndexStep
  <2> QED
    BY <1>1, <2>1, <2>2
<1> DEFINE f == Pending(d)
<1>3. f \in [1..d.nb -> Notifications \cup {0}]
  BY <1>2 DEF Pending
<1>4. \A i \in 1..d.nb : f[i] = d.ring[(d.received + i - 1) % RingSize]
  BY DEF Pending
<1> HIDE DEF f
<1>5. f \in Seq(Notifications \cup {0}) /\ Len(f) = d.nb
  BY <1>1, <1>3
<1> QED
  BY <1>2, <1>4, <1>5 DEF f

\* Nothing is pending at a process that has just registered.
LEMMA PendingFresh == Pending(FreshData) = <<>>
<1>1. Len(Pending(FreshData)) = 0 /\ Pending(FreshData) \in Seq(Notifications \cup {0})
  BY FreshTyped, PendingTyped DEF FreshData
<1> QED
  BY <1>1

\* A notification that is stored is pending after the others.
LEMMA PendingPut ==
  ASSUME NEW d \in DataType, NEW n \in Notifications, d.nb < RingSize,
         d.next = (d.received + d.nb) % RingSize
  PROVE  Pending(Put(d, n)) = Append(Pending(d), n)
<1> DEFINE e == Put(d, n)
<1>1. /\ e \in DataType /\ e.ring = [d.ring EXCEPT ![d.next] = n]
      /\ e.received = d.received /\ e.nb = d.nb + 1
  BY PutFacts
<1>2. /\ RingSize \in Nat \ {0} /\ d.received \in 0..RingSize - 1 /\ d.nb \in 0..RingSize
      /\ d.ring \in [0..RingSize - 1 -> Notifications \cup {0}] /\ d.next \in 0..RingSize - 1
  BY SmAssumption DEF DataType
<1> HIDE DEF e
<1>3. /\ Pending(e) \in Seq(Notifications \cup {0}) /\ Len(Pending(e)) = d.nb + 1
      /\ \A i \in 1..d.nb + 1 : Pending(e)[i] = e.ring[(d.received + (i - 1)) % RingSize]
  BY <1>1, PendingTyped
<1>4. /\ Pending(d) \in Seq(Notifications \cup {0}) /\ Len(Pending(d)) = d.nb
      /\ \A i \in 1..d.nb : Pending(d)[i] = d.ring[(d.received + (i - 1)) % RingSize]
  BY PendingTyped
<1>5. ASSUME NEW i \in 1..d.nb
      PROVE  Pending(e)[i] = Pending(d)[i]
  <2>1. i - 1 \in 0..RingSize - 1 /\ d.nb \in 0..RingSize - 1 /\ i - 1 # d.nb
        /\ i - 1 \in 0..RingSize /\ i \in 1..d.nb + 1
    BY <1>2
  <2> DEFINE place == (d.received + (i - 1)) % RingSize
  <2>2. place # d.next
    BY <1>2, <2>1, PlacesDiffer
  <2>3. place \in 0..RingSize - 1
    BY <1>2, <2>1, IndexStep
  <2>4. Pending(e)[i] = e.ring[place] /\ Pending(d)[i] = d.ring[place]
    BY <1>3, <1>4, <2>1
  <2> HIDE DEF place
  <2> QED
    BY <1>1, <1>2, <2>2, <2>3, <2>4
<1>6. Pending(e)[d.nb + 1] = n
  <2>1. (d.nb + 1) - 1 = d.nb /\ d.nb + 1 \in 1..d.nb + 1
    BY <1>2
  <2>2. Pending(e)[d.nb + 1] = e.ring[d.next]
    BY <1>3, <2>1
  <2> QED
    BY <1>1, <1>2, <2>2
<1>7. Pending(e) = Append(Pending(d), n)
  <2> DEFINE longer == Append(Pending(d), n)
  <2>1. /\ longer \in Seq(Notifications \cup {0}) /\ Len(longer) = d.nb + 1
        /\ \A i \in 1..d.nb : longer[i] = Pending(d)[i]
        /\ longer[d.nb + 1] = n
    BY <1>2, <1>4
  <2> HIDE DEF longer
  <2>2. ASSUME NEW i \in 1..d.nb + 1
        PROVE  Pending(e)[i] = longer[i]
    <3>1. i \in 1..d.nb \/ i = d.nb + 1
      BY <1>2
    <3> QED
      BY <1>5, <1>6, <2>1, <3>1
  <2>3. Pending(e) = longer
    BY <1>3, <2>1, <2>2, SeqEqual
  <2> QED
    BY <2>3 DEF longer
<1> QED
  BY <1>7 DEF e

\* The notification that is received is the first of those pending.
LEMMA PendingTaken ==
  ASSUME NEW d \in DataType, d.nb > 0
  PROVE  Pending(d) # <<>> /\ Pending(Taken(d)) = Tail(Pending(d))
<1> DEFINE e == Taken(d)
<1>1. /\ e \in DataType /\ e.ring = [d.ring EXCEPT ![d.received] = 0]
      /\ e.received = (d.received + 1) % RingSize /\ e.nb = d.nb - 1
  BY TakenFacts
<1>2. /\ RingSize \in Nat \ {0} /\ d.received \in 0..RingSize - 1 /\ d.nb \in 1..RingSize
      /\ d.ring \in [0..RingSize - 1 -> Notifications \cup {0}]
  BY SmAssumption DEF DataType
<1> HIDE DEF e
<1>3. /\ Pending(e) \in Seq(Notifications \cup {0}) /\ Len(Pending(e)) = d.nb - 1
      /\ \A i \in 1..d.nb - 1 : Pending(e)[i] = e.ring[(e.received + (i - 1)) % RingSize]
  BY <1>1, PendingTyped
<1>4. /\ Pending(d) \in Seq(Notifications \cup {0}) /\ Len(Pending(d)) = d.nb
      /\ \A i \in 1..d.nb : Pending(d)[i] = d.ring[(d.received + (i - 1)) % RingSize]
  BY PendingTyped
<1>5. ASSUME NEW i \in 1..d.nb - 1
      PROVE  Pending(e)[i] = Pending(d)[i + 1]
  <2>1. i \in 0..RingSize - 1 /\ i \in 0..RingSize /\ i > 0 /\ i - 1 \in 0..RingSize
        /\ i + 1 \in 1..d.nb /\ (i + 1) - 1 = i
    BY <1>2
  <2> DEFINE place == (d.received + i) % RingSize
  <2> DEFINE k == i - 1
             zero == 0
  <2>k. k \in 0..RingSize /\ k = i - 1 /\ zero = 0
    BY <2>1
  <2> HIDE DEF k, zero
  <2>2. (e.received + k) % RingSize = place
    <3>1. (((d.received + 1) % RingSize) + k) % RingSize = (d.received + i) % RingSize
      BY <1>2, <2>1, <2>k, IndexStep
    <3> QED
      BY <1>1, <3>1
  <2>3. place \in 0..RingSize - 1
    BY <1>2, <2>1, IndexStep
  <2>4. place # d.received
    <3>1. (d.received + zero) % RingSize = d.received
      <4>1. d.received % RingSize = d.received
        BY <1>2, IndexRests
      <4> QED
        BY <1>2, <2>k, <4>1
    <3>2. zero \in 0..RingSize - 1 /\ i # zero
      BY <1>2, <2>1, <2>k
    <3> QED
      BY <1>2, <2>1, <3>1, <3>2, PlacesDiffer
  <2>5. Pending(e)[i] = e.ring[place] /\ Pending(d)[i + 1] = d.ring[place]
    BY <1>3, <1>4, <2>1, <2>2, <2>k
  <2> HIDE DEF place
  <2> QED
    BY <1>1, <1>2, <2>3, <2>4, <2>5
<1>6. Pending(d) # <<>> /\ Pending(e) = Tail(Pending(d))
  BY <1>2, <1>3, <1>4, <1>5
<1> QED
  BY <1>6 DEF e

\* The queue of a process, as NotificationQueues sees it.
QueueOf(p) == IF p \in Registered THEN Pending(data[p]) ELSE <<>>

\* The queue that a ring stands for, for the refinement.
LEMMA QueuesOf ==
  NotificationsInv =>
    \A p \in Pids :
      /\ QueueOf(p) = Pending(data[p]) /\ data[p] \in DataType
      /\ data[p].next = (data[p].received + data[p].nb) % RingSize
      /\ Len(QueueOf(p)) = data[p].nb
<1> SUFFICES ASSUME NotificationsInv, NEW p \in Pids
             PROVE  /\ QueueOf(p) = Pending(data[p]) /\ data[p] \in DataType
                    /\ data[p].next = (data[p].received + data[p].nb) % RingSize
                    /\ Len(QueueOf(p)) = data[p].nb
  OBVIOUS
<1>1. data[p] \in DataType
  BY DEF NotificationsInv, SmTypeOK
<1>2. Len(Pending(data[p])) = data[p].nb /\ Pending(data[p]) \in Seq(Notifications \cup {0})
  BY <1>1, PendingTyped
<1>3. p \notin Registered => Pending(data[p]) = <<>>
  BY <1>2 DEF NotificationsInv, RingsInv
<1> QED
  BY <1>1, <1>2, <1>3 DEF QueueOf, NotificationsInv, RingsInv

\* The queue of a process is what is pending in its ring,
LEMMA QueuesArePending == NotificationsInv => \A p \in Pids : QueueOf(p) = Pending(data[p])
BY QueuesOf

\* before a step and after it.
LEMMA QueuesOfNext == NotificationsInv' => \A p \in Pids : QueueOf(p)' = Pending(data'[p])
<1>1. (NotificationsInv => \A p \in Pids : QueueOf(p) = Pending(data[p]))'
  BY QueuesArePending, PTL
<1> QED
  BY <1>1

\* A step that leaves the ring of p alone.
LEMMA QueueKept ==
  ASSUME NotificationsInv, NotificationsInv', NEW p \in Pids,
         data'[p].ring = data[p].ring, data'[p].received = data[p].received,
         data'[p].nb = data[p].nb
  PROVE  QueueOf(p)' = QueueOf(p)
<1>1. Pending(data'[p]) = Pending(data[p])
  BY DEF Pending
<1>2. QueueOf(p) = Pending(data[p]) /\ QueueOf(p)' = Pending(data'[p])
  BY QueuesOf, QueuesOfNext
<1> QED
  BY <1>1, <1>2

\* RegisterProcess begins with an empty queue.
LEMMA QueuesRegister ==
  ASSUME NotificationsInv, NotificationsInv', NEW p \in Pids \ Registered, NEW enabled \in BOOLEAN,
         doRegisterProcess(p, enabled)
  PROVE  Registered' = {p} \cup Registered /\ \A q \in Pids : QueueOf(q)' = QueueOf(q)
<1>1. /\ inUse' = <<p>> \o inUse
      /\ data' = [data EXCEPT ![p] = [FreshData EXCEPT !.enabled = enabled]]
  BY DEF doRegisterProcess
<1>2. Registered' = {p} \cup Registered
  BY <1>1, InFront DEF NotificationsInv, SmTypeOK, Registered
<1>3. data[p].nb = 0 /\ data'[p].nb = 0
  BY <1>1 DEF NotificationsInv, SmTypeOK, RingsInv, FreshData
<1>4. QueueOf(p)' = <<>> /\ QueueOf(p) = <<>>
  <2>1. /\ Pending(data'[p]) \in Seq(Notifications \cup {0}) /\ Len(Pending(data'[p])) = 0
        /\ QueueOf(p)' = Pending(data'[p])
    BY <1>1, <1>3, FreshTyped, QueuesOfNext, PendingTyped DEF NotificationsInv, SmTypeOK
  <2> QED
    BY <2>1 DEF QueueOf
<1>5. \A q \in Pids \ {p} : data'[q] = data[q]
  BY <1>1 DEF NotificationsInv, SmTypeOK
<1> QED
  BY <1>2, <1>4, <1>5, QueueKept

\* UnregisterProcess ends a queue.
LEMMA QueuesUnregister ==
  ASSUME NotificationsInv, NotificationsInv', NEW p \in Pids, UnregisterProcess(p)
  PROVE  /\ p \in Registered /\ Registered' = Registered \ {p} /\ QueueOf(p)' = <<>>
         /\ \A q \in Pids \ {p} : QueueOf(q)' = QueueOf(q)
<1>1. /\ inUse' = Kept(inUse, Pids \ {p}) /\ data' = [data EXCEPT ![p] = FreshData]
      /\ p \in Registered
  BY DEF UnregisterProcess
<1>2. Registered \subseteq Pids
  BY DEF NotificationsInv, SmTypeOK, Registered, Range
<1>3. Registered' = Registered \ {p}
  BY <1>1, <1>2, KeptFacts DEF NotificationsInv, SmTypeOK, Registered
<1>4. \A q \in Pids \ {p} : data'[q] = data[q]
  BY <1>1 DEF NotificationsInv, SmTypeOK
<1> QED
  BY <1>1, <1>3, <1>4, QueueKept DEF QueueOf

\* A publication appends to the queues of those it is stored at.
LEMMA QueuesPublish ==
  ASSUME NotificationsInv, NotificationsInv', NEW list, NEW n \in Notifications, NEW flags,
         \A p \in Range(list) : p \in Registered, Publish(list, n, flags)
  PROVE  \E to \in SUBSET Registered :
           /\ \A p \in to : Len(QueueOf(p)) < RingSize
           /\ \A p \in Pids : QueueOf(p)' = IF p \in to THEN Append(QueueOf(p), n) ELSE QueueOf(p)
           /\ Registered' = Registered
<1> DEFINE stored == {p \in Reached(list, n, flags) : Stores(p, n, flags)}
<1>1. /\ data' = [p \in Pids |-> IF p \in stored THEN Put(data[p], n) ELSE data[p]]
      /\ inUse' = inUse
  BY DEF Publish
<1>2. \A p \in stored : p \in Registered /\ data[p].nb < RingSize
  BY DEF Stores, Reached
<1>3. Registered \subseteq Pids /\ Registered' = Registered
  BY <1>1 DEF NotificationsInv, SmTypeOK, Registered, Range
<1> HIDE DEF stored
<1>4. ASSUME NEW p \in Pids
      PROVE  QueueOf(p)' = IF p \in stored THEN Append(QueueOf(p), n) ELSE QueueOf(p)
  <2>1. CASE p \notin stored
    BY <1>1, <2>1, QueueKept
  <2>2. CASE p \in stored
    <3>1. /\ QueueOf(p) = Pending(data[p]) /\ QueueOf(p)' = Pending(data'[p])
          /\ data[p] \in DataType /\ data[p].next = (data[p].received + data[p].nb) % RingSize
      BY QueuesOf, QueuesOfNext
    <3>2. data'[p] = Put(data[p], n) /\ data[p].nb < RingSize
      BY <1>1, <1>2, <2>2
    <3>3. Pending(Put(data[p], n)) = Append(Pending(data[p]), n)
      BY <3>1, <3>2, PendingPut
    <3> QED
      BY <2>2, <3>1, <3>2, <3>3
  <2> QED
    BY <2>1, <2>2
<1>5. \A p \in stored : Len(QueueOf(p)) < RingSize
  BY <1>2, <1>3, QueuesOf
<1> QED
  BY <1>2, <1>3, <1>4, <1>5

\* ReceiveNotification takes the first of a queue.
LEMMA QueuesReceive ==
  ASSUME NotificationsInv, NotificationsInv', NEW p \in Pids, ReceiveNotification(p)
  PROVE  /\ QueueOf(p) # <<>> /\ QueueOf(p)' = Tail(QueueOf(p))
         /\ \A q \in Pids \ {p} : QueueOf(q)' = QueueOf(q)
         /\ Registered' = Registered
<1>1. /\ data[p] \in DataType /\ permits[p] \in 0..RingSize /\ p \in woken
      /\ data[p].nb = permits[p] + 1 /\ (data[p].nb > 0 => data[p].enabled)
  BY DEF ReceiveNotification, NotificationsInv, SmTypeOK, RingsInv
<1>2. data[p].nb > 0 /\ data[p].enabled
  BY <1>1
<1>3. data' = [data EXCEPT ![p] = Taken(data[p])] /\ inUse' = inUse
  BY <1>1, <1>2 DEF ReceiveNotification, Taken, NotificationsInv, SmTypeOK
<1>4. data'[p] = Taken(data[p]) /\ \A q \in Pids \ {p} : data'[q] = data[q]
  BY <1>3 DEF NotificationsInv, SmTypeOK
<1>5. QueueOf(p) = Pending(data[p]) /\ QueueOf(p)' = Pending(data'[p])
  BY QueuesOf, QueuesOfNext
<1>6. Pending(data[p]) # <<>> /\ Pending(Taken(data[p])) = Tail(Pending(data[p]))
  BY <1>1, <1>2, PendingTaken
<1> QED
  BY <1>3, <1>4, <1>5, <1>6, QueueKept DEF Registered

\* A step of sm is a step of the queues, or none that they see.
LEMMA QueuesStep ==
  ASSUME NotificationsInv, NotificationsInv', [SmNext]_smVars
  PROVE  [Queues!QueueNext]_(Queues!queueVars)
<1> DEFINE Same == Registered' = Registered /\ \A q \in Pids : QueueOf(q)' = QueueOf(q)
<1>1. ASSUME Same
      PROVE  UNCHANGED Queues!queueVars
  BY <1>1 DEF QueueOf, Queues!queueVars
<1>2. ASSUME NEW p \in Pids, Registered' = {p} \cup Registered, p \notin Registered,
             \A q \in Pids : QueueOf(q)' = QueueOf(q)
      PROVE  Queues!Begin(p)
  BY <1>2 DEF QueueOf, Queues!Begin
<1>3. ASSUME NEW p \in Pids, UnregisterProcess(p)
      PROVE  Queues!End(p)
  BY <1>3, QueuesUnregister DEF QueueOf, Queues!End
<1>4. ASSUME NEW p \in Pids, ReceiveNotification(p)
      PROVE  Queues!Dequeue(p)
  BY <1>4, QueuesReceive DEF QueueOf, Queues!Dequeue
<1>5. ASSUME NEW list, NEW n \in Notifications, NEW flags,
             \A p \in Range(list) : p \in Registered, Publish(list, n, flags)
      PROVE  \E to \in SUBSET Registered : Queues!Enqueue(to, n)
  <2>1. PICK to \in SUBSET Registered :
          /\ \A p \in to : Len(QueueOf(p)) < RingSize
          /\ \A p \in Pids : QueueOf(p)' = IF p \in to THEN Append(QueueOf(p), n) ELSE QueueOf(p)
          /\ Registered' = Registered
    BY <1>5, QueuesPublish
  <2>2. to \subseteq Pids
    BY DEF NotificationsInv, SmTypeOK, Registered, Range
  <2> DEFINE before == [p \in Pids |-> QueueOf(p)]
  <2>3. /\ \A p \in to : Len(before[p]) < RingSize
        /\ before' = [p \in Pids |-> IF p \in to THEN Append(before[p], n) ELSE before[p]]
    BY <2>1, <2>2
  <2>4. Queues!Enqueue(to, n)
    BY <2>1, <2>3 DEF QueueOf, Queues!Enqueue
  <2> QED
    BY <2>4
<1>6. ASSUME NEW p \in Pids \ Registered, NEW enabled \in BOOLEAN, doRegisterProcess(p, enabled)
      PROVE  Queues!Begin(p)
  BY <1>2, <1>6, QueuesRegister
<1>7. ASSUME inUse' = inUse,
             \A p \in Pids : data'[p].ring = data[p].ring /\ data'[p].received = data[p].received
                             /\ data'[p].nb = data[p].nb
      PROVE  UNCHANGED Queues!queueVars
  BY <1>1, <1>7, QueueKept DEF Registered
<1> HIDE DEF Same
<1>8. ASSUME NEW p \in Pids, EnableNotification(p)
      PROVE  Queues!Begin(p) \/ UNCHANGED Queues!queueVars
  <2>1. CASE p \notin Registered /\ doRegisterProcess(p, TRUE)
    BY <1>6, <2>1
  <2>2. CASE data' = [data EXCEPT ![p].enabled = TRUE] /\ inUse' = inUse
    BY <1>7, <2>2 DEF NotificationsInv, SmTypeOK, DataType
  <2> QED
    BY <1>8, <2>1, <2>2 DEF EnableNotification
<1>9. ASSUME NEW p \in Pids, NEW n \in Notifications, Subscribe(p, n) \/ Unsubscribe(p, n)
      PROVE  UNCHANGED Queues!queueVars
  <2>1. inUse' = inUse /\ \E names : data' = [data EXCEPT ![p] = [data[p] EXCEPT !.subscribed = names]]
    BY <1>9 DEF Subscribe, Unsubscribe
  <2>2. data \in [Pids -> DataType]
    BY DEF NotificationsInv, SmTypeOK
  <2> QED
    BY <1>7, <2>1, <2>2 DEF DataType
<1>10. ASSUME NEW p \in Pids, Wake(p)
       PROVE  UNCHANGED Queues!queueVars
  BY <1>7, <1>10 DEF Wake
<1>11. ASSUME NEW n \in Notifications, NEW T, NEW flags, Publish(Kept(inUse, T), n, flags)
       PROVE  \E to \in SUBSET Registered : Queues!Enqueue(to, n)
  <2>1. \A p \in Range(Kept(inUse, T)) : p \in Registered
    BY KeptFacts DEF NotificationsInv, SmTypeOK, Registered
  <2> QED
    BY <1>5, <1>11, <2>1
<1>12. ASSUME NEW p \in Pids, NEW n \in Notifications, PublishToProcess(p, n)
       PROVE  \E to \in SUBSET Registered : Queues!Enqueue(to, n)
  <2>1. \A q \in Range(<<p>>) : q \in Registered
    BY <1>12 DEF PublishToProcess, Range
  <2> QED
    BY <1>5, <1>12, <2>1 DEF PublishToProcess
<1>13. ASSUME NEW p \in Pids, RegisterProcess(p)
       PROVE  Queues!Begin(p)
  BY <1>6, <1>13 DEF RegisterProcess
<1>14. CASE UNCHANGED smVars
  BY <1>7, <1>14 DEF smVars
<1> QED
  BY <1>3, <1>4, <1>8, <1>9, <1>10, <1>11, <1>12, <1>13, <1>14
  DEF SmNext, PublishAndGetSubscriber, PublishToSubscriber, PublishToAll, Queues!QueueNext

\* The rings implement the queues: a notification that is accepted is neither
\* lost, repeated nor overtaken, for any number of processes and size of rings.
THEOREM RingsAreQueues == SmSpec => Queues!QueueSpec
<1>1. SmInit => Queues!QueueInit
  BY DEF SmInit, Queues!QueueInit, Registered, Range
<1>2. NotificationsInv /\ NotificationsInv' /\ [SmNext]_smVars => [Queues!QueueNext]_(Queues!queueVars)
  BY QueuesStep
<1> QED
  BY <1>1, <1>2, NotificationsInvariant, PTL DEF SmSpec, Queues!QueueSpec

\* A process that a publication is for and that does not refuse it has the
\* notification pending afterwards.
LEMMA PublishedIsPending ==
  ASSUME NotificationsInv, NEW T, NEW n \in Notifications, NEW flags, "drop" \notin flags,
         Publish(Kept(inUse, T), n, flags), ~publishFailed',
         NEW p \in Registered, p \in T
  PROVE  n \in Range(Pending(data'[p]))
<1> DEFINE list == Kept(inUse, T)
           stored == {q \in Reached(list, n, flags) : Stores(q, n, flags)}
<1>1. /\ data' = [q \in Pids |-> IF q \in stored THEN Put(data[q], n) ELSE data[q]]
      /\ Reached(list, n, flags) = Range(list)
  BY DEF Publish
<1>2. /\ p \in Pids /\ data[p] \in DataType
      /\ data[p].next = (data[p].received + data[p].nb) % RingSize
  BY DEF NotificationsInv, SmTypeOK, RingsInv, Registered, Range
<1>3. data[p].nb \in 0..RingSize
  BY <1>2 DEF DataType
<1>4. p \in Reached(list, n, flags)
  BY <1>1, KeptFacts DEF NotificationsInv, SmTypeOK, Registered
<1>5. ~Refuses(p, n, flags)
  <2>1. list \in Seq(Pids)
    BY KeptFacts DEF NotificationsInv, SmTypeOK
  <2> HIDE DEF list
  <2>2. PICK i \in DOMAIN list : list[i] = p
    BY <1>1, <1>4 DEF Range
  <2>3. i =< i
    BY <2>1, <2>2
  <2> QED
    BY <1>4, <2>2, <2>3 DEF Reached
<1>6. CASE IsPendingAlready(p, n, flags)
  <2>1. data'[p] = data[p]
    BY <1>1, <1>2, <1>6 DEF Stores
  <2> QED
    BY <1>6, <2>1 DEF IsPendingAlready, Range
<1>7. CASE ~IsPendingAlready(p, n, flags)
  <2>1. data[p].nb < RingSize
    BY <1>3, <1>5, <1>7, SmAssumption DEF Refuses
  <2>2. data'[p] = Put(data[p], n)
    BY <1>1, <1>2, <1>4, <1>7, <2>1 DEF Stores
  <2>3. Pending(data'[p]) = Append(Pending(data[p]), n)
    BY <1>2, <2>1, <2>2, PendingPut
  <2>4. Pending(data[p]) \in Seq(Notifications \cup {0})
    BY <1>2, PendingTyped
  <2> QED
    BY <2>3, <2>4 DEF Range
<1> QED
  BY <1>6, <1>7

\* A publication that reports success is pending at everyone it is for, unless
\* it was allowed to ignore full rings: it is not cut short without an error.
THEOREM SuccessIsReported == SmSpec => SuccessReachesAll
<1> DEFINE Reports ==
      \A n \in Notifications :
        /\ \A flags \in SUBSET {"once"} :
             PublishToSubscriber(n, flags) /\ ~publishFailed' =>
               \A p \in Registered : IsSubscriber(p, n) => n \in Range(Pending(data'[p]))
        /\ PublishToAll(n) /\ ~publishFailed' =>
             \A p \in Registered : Enabled(p) => n \in Range(Pending(data'[p]))
<1>1. ASSUME NotificationsInv
      PROVE  Reports
  <2>1. Registered \subseteq Pids
    BY <1>1 DEF NotificationsInv, SmTypeOK, Registered, Range
  <2>2. ASSUME NEW n \in Notifications, NEW flags \in SUBSET {"once"},
               PublishToSubscriber(n, flags), ~publishFailed',
               NEW p \in Registered, IsSubscriber(p, n)
        PROVE  n \in Range(Pending(data'[p]))
    <3>1. p \in {q \in Pids : IsSubscriber(q, n)} /\ "drop" \notin flags
      BY <2>1, <2>2
    <3> QED
      BY <1>1, <2>2, <3>1, PublishedIsPending DEF PublishToSubscriber
  <2>3. ASSUME NEW n \in Notifications, PublishToAll(n), ~publishFailed',
               NEW p \in Registered, Enabled(p)
        PROVE  n \in Range(Pending(data'[p]))
    <3>1. p \in {q \in Pids : Enabled(q)} /\ "drop" \notin {}
      BY <2>1, <2>3
    <3> QED
      BY <1>1, <2>3, <3>1, PublishedIsPending DEF PublishToAll
  <2> QED
    BY <2>2, <2>3
<1>2. NotificationsInv => [UNCHANGED smVars \/ Reports]_smVars
  BY <1>1
<1> QED
  BY <1>2, NotificationsInvariant, PTL DEF SuccessReachesAll

-----------------------------------------------------------------------------
(* Sessions *)

\* A list of sessions, each on it once.
ListOf(list) == list \in Seq(Sessions) /\ IsInjective(list)

\* Every session is on one list at most.
ListsDisjoint ==
  /\ ListOf(inUseList) /\ ListOf(waitList) /\ ListOf(wakeList) /\ ListOf(portList)
  /\ Range(inUseList) \cap Postponed = {}
  /\ Range(waitList) \cap Range(wakeList) = {}
  /\ Range(waitList) \cap Range(portList) = {}
  /\ Range(wakeList) \cap Range(portList) = {}

SessionValues ==
  /\ client \in [Sessions -> ClientType]
  /\ replay \in [Sessions -> Names \cup {"no name", "overwritten"}]
  /\ busy \in [Sessions -> 0..MaxPorts]
  /\ table \in [Names -> 0..MaxPorts]
  /\ owner \in [Names -> Servers \cup {"nobody"}]
  /\ ports \in [1..MaxPorts -> PortType]

\* One session is replied to at most, and it is in use.
OneTarget ==
  /\ replyTarget \subseteq Range(inUseList)
  /\ \A s, t \in replyTarget : s = t

\* What is asked for, or replayed, is a name.
NamesKnown ==
  /\ \A s \in Sessions : client[s].state \in {"sent", "taken"} => client[s].name \in Names
  /\ \A s \in Range(wakeList) : replay[s] \in Names
  /\ ~panicked => \A s \in Range(portList) : replay[s] \in Names

\* Each request is in one place, with its name.
RequestsPlaced ==
  \A s \in Sessions :
    /\ client[s].state = "taken" => (s \in replyTarget) # (s \in Postponed)
    /\ client[s].state \in {"none", "idle", "sent"} => s \notin replyTarget \cup Postponed
    /\ s \in Postponed /\ client[s].state = "taken" =>
         replay[s] \in {client[s].name, "overwritten"}

SessionsInv ==
  /\ ListsDisjoint /\ SessionValues /\ OneTarget /\ NamesKnown /\ RequestsPlaced
  /\ WaitsForAReason /\ ResumePermitsMatch

\* The numbers of the ports, and 0 for none.
LEMMA PortNumbers == 0 \in 0..MaxPorts /\ 1..MaxPorts = (0..MaxPorts) \ {0}
<1>1. MaxPorts \in Nat
  BY SessionsAssumption
<1> QED
  BY <1>1

\* sm begins without sessions, requests and names.
LEMMA SessionsBegin == SessionsInit => SessionsInv
<1> SUFFICES ASSUME SessionsInit
             PROVE  SessionsInv
  OBVIOUS
<1>1. ListOf(<<>>) /\ Range(<<>>) = {}
  BY DEF ListOf, IsInjective, Range
<1>2. ListsDisjoint /\ Postponed = {}
  BY <1>1 DEF SessionsInit, ListsDisjoint, Postponed
<1>3. 0 \in 0..MaxPorts /\ NoClient \in ClientType /\ NoPort \in PortType
  <2>2. 0 \in 0..MaxPorts
    BY PortNumbers
  <2>3. NoClient \in ClientType
    BY DEF NoClient, ClientType
  <2>4. NoPort \in PortType
    BY DEF NoPort, PortType
  <2> QED
    BY <2>2, <2>3, <2>4
<1>4. SessionValues
  BY <1>3 DEF SessionsInit, SessionValues
<1>5. OneTarget
  BY <1>1 DEF SessionsInit, OneTarget
<1>6. \A s \in Sessions : client[s].state = "none"
  BY DEF SessionsInit, NoClient
<1>7. NamesKnown
  BY <1>1, <1>6 DEF SessionsInit, NamesKnown
<1>8. RequestsPlaced
  BY <1>2, <1>6 DEF SessionsInit, RequestsPlaced
<1>9. WaitsForAReason /\ ResumePermitsMatch
  BY <1>1 DEF SessionsInit, WaitsForAReason, ResumePermitsMatch
<1> QED
  BY <1>2, <1>4, <1>5, <1>7, <1>8, <1>9 DEF SessionsInv

\* A step that leaves the lists and the tables of sm alone.
LEMMA ClientStep ==
  ASSUME SessionsInv, NEW s \in Sessions, NEW c \in ClientType,
         client' = [client EXCEPT ![s] = c],
         c.state \in {"idle", "sent", "gone"},
         c.state \in {"idle", "sent"} => s \notin replyTarget \cup Postponed,
         c.state = "sent" => c.name \in Names,
         UNCHANGED <<listVars, replay, busy, replyTarget, word4, wakePermits, tableVars, panicked>>
  PROVE  SessionsInv'
<1>1. ListsDisjoint' /\ OneTarget' /\ WaitsForAReason' /\ ResumePermitsMatch'
  BY DEF SessionsInv, listVars, tableVars, ListsDisjoint, ListOf, Postponed, OneTarget,
         WaitsForAReason, ResumePermitsMatch
<1>2. SessionValues'
  BY DEF SessionsInv, listVars, tableVars, SessionValues
<1>3. \A t \in Sessions : client'[t] = IF t = s THEN c ELSE client[t]
  BY DEF SessionsInv, SessionValues
<1>4. NamesKnown' /\ RequestsPlaced'
  <2>1. /\ replyTarget' = replyTarget /\ Postponed' = Postponed /\ replay' = replay
        /\ wakeList' = wakeList /\ portList' = portList /\ panicked' = panicked
    BY DEF listVars, tableVars, Postponed
  <2>2. NamesKnown'
    BY <1>3, <2>1 DEF SessionsInv, NamesKnown
  <2>3. RequestsPlaced'
    BY <1>3, <2>1 DEF SessionsInv, RequestsPlaced
  <2> QED
    BY <2>2, <2>3
<1> QED
  BY <1>1, <1>2, <1>4 DEF SessionsInv

\* What clients do keeps the invariant of the sessions.
LEMMA ClientsStep ==
  ASSUME SessionsInv, NEW s \in Sessions,
         \/ Connect(s) \/ Disconnect(s)
         \/ \E n \in Names, word \in {0, 1} : SendRequest(s, n, word)
  PROVE  SessionsInv'
<1>1. client[s] \in ClientType
  BY DEF SessionsInv, SessionValues
<1>2. client[s].state \in {"none", "idle", "sent"} => s \notin replyTarget \cup Postponed
  BY DEF SessionsInv, RequestsPlaced
<1>3. CASE Connect(s)
  <2> DEFINE c == [client[s] EXCEPT !.state = "idle"]
  <2>1. c \in ClientType /\ c.state = "idle" /\ client' = [client EXCEPT ![s] = c]
    BY <1>1, <1>3 DEF Connect, ClientType
  <2> HIDE DEF c
  <2> QED
    BY <1>2, <1>3, <2>1, ClientStep DEF Connect
<1>4. ASSUME NEW n \in Names, NEW word \in {0, 1}, SendRequest(s, n, word)
      PROVE  SessionsInv'
  <2> DEFINE c == [state |-> "sent", name |-> n, word |-> word]
  <2>1. c \in ClientType /\ c.state = "sent" /\ c.name = n /\ client' = [client EXCEPT ![s] = c]
    BY <1>4 DEF SendRequest, ClientType
  <2> HIDE DEF c
  <2> QED
    BY <1>2, <1>4, <2>1, ClientStep DEF SendRequest
<1>5. CASE Disconnect(s)
  <2> DEFINE c == [NoClient EXCEPT !.state = "gone"]
  <2>1. c \in ClientType /\ c.state = "gone" /\ client' = [client EXCEPT ![s] = c]
    BY <1>5 DEF Disconnect, NoClient, ClientType
  <2> HIDE DEF c
  <2> QED
    BY <1>5, <2>1, ClientStep DEF Disconnect
<1> QED
  BY <1>3, <1>4, <1>5

\* So does what the kernel does to ports.
LEMMA PortChangesStep ==
  ASSUME SessionsInv, NEW p \in 1..MaxPorts, PortChanges(p)
  PROVE  SessionsInv'
<1>1. ports[p] \in PortType
  BY DEF SessionsInv, SessionValues
<1>2. ports' \in [1..MaxPorts -> PortType]
  <2>1. CASE ports[p].used > 0 /\ ports' = [ports EXCEPT ![p].used = @ - 1]
    <3>1. ports[p].used - 1 \in Nat
      BY <1>1, <2>1 DEF PortType
    <3>2. [ports[p] EXCEPT !.used = ports[p].used - 1] \in PortType
      BY <1>1, <3>1 DEF PortType
    <3>3. ports' = [ports EXCEPT ![p] = [ports[p] EXCEPT !.used = ports[p].used - 1]]
      BY <2>1
    <3> QED
      BY <3>2, <3>3 DEF SessionsInv, SessionValues
  <2>2. CASE ports' = [ports EXCEPT ![p].open = FALSE, ![p].used = 0]
    <3>1. [ports[p] EXCEPT !.open = FALSE, !.used = 0] \in PortType
      BY <1>1 DEF PortType
    <3>2. ports' = [ports EXCEPT ![p] = [ports[p] EXCEPT !.open = FALSE, !.used = 0]]
      BY <2>2
    <3> QED
      BY <3>1, <3>2 DEF SessionsInv, SessionValues
  <2> QED
    BY <2>1, <2>2 DEF PortChanges
<1>3. UNCHANGED <<listVars, answerVars, wakePermits, table, owner, panicked>>
  BY DEF PortChanges
<1> QED
  BY <1>2, <1>3
  DEF SessionsInv, listVars, answerVars, ListsDisjoint, ListOf, SessionValues, OneTarget,
      NamesKnown, RequestsPlaced, Postponed, WaitsForAReason, ResumePermitsMatch

\* What GetServiceHandle and GetPort answer for a name.
LEMMA Verdicts ==
  ASSUME NEW n \in Names, NEW word
  PROVE  /\ Verdict(n, word) = "absent" => table[n] = 0
         /\ Verdict(n, word) = "full" => table[n] # 0
         /\ Verdict(n, word) = "connected" => table[n] # 0
BY DEF Verdict, Names

\* A list without one session.
LEMMA WithoutFacts ==
  ASSUME NEW list, ListOf(list), NEW s \in Sessions
  PROVE  ListOf(Without(list, s)) /\ Range(Without(list, s)) = Range(list) \ {s}
<1>1. Range(list) \subseteq Sessions
  BY DEF ListOf, Range
<1> QED
  BY <1>1, KeptFacts DEF Without, ListOf

\* The end of a turn for session s, whose request is for name n: the lists
\* before it are the ones of SessionsInv but for s, which is on list.
LEMMA ConcludeStep ==
  ASSUME SessionsInv, replyTarget = {}, ~panicked,
         NEW s \in Sessions, NEW n \in Names, NEW word,
         NEW list, ListOf(list), s \in Range(list), Range(list) \ {s} = Range(inUseList) \ {s},
         s \notin Range(waitList),
         ListOf(wakeList'), Range(wakeList') = Range(wakeList) \ {s},
         wakePermits' = Len(wakeList'),
         client' \in [Sessions -> ClientType],
         \A t \in Sessions \ {s} : client'[t] = client[t],
         client'[s].state \in {"taken", "gone"},
         client'[s].state = "taken" => client'[s].name = n,
         Conclude(s, n, word, list)
  PROVE  SessionsInv'
<1> DEFINE v == Verdict(n, word)
<1>0. /\ v = "absent" => table[n] = 0
      /\ v = "full" => table[n] # 0
      /\ v = "connected" => table[n] # 0
  BY Verdicts
<1> DEFINE postponed == v \in {"absent", "full"}
<1>1. /\ inUseList' = IF postponed THEN Without(list, s) ELSE list
      /\ waitList' = IF v = "absent" THEN Append(waitList, s) ELSE waitList
      /\ portList' = Without(portList, s) \o (IF v = "full" THEN <<s>> ELSE <<>>)
      /\ replay' = [replay EXCEPT ![s] = IF postponed THEN n ELSE "no name"]
      /\ busy' = [busy EXCEPT ![s] = IF v = "full" THEN table[n] ELSE 0]
      /\ replyTarget' = IF postponed THEN {} ELSE {s}
      /\ ports' = IF v = "connected" THEN [ports EXCEPT ![table[n]].used = @ + 1] ELSE ports
      /\ UNCHANGED <<table, owner, panicked>>
  BY DEF Conclude
<1> HIDE DEF v
<1>2. /\ ListOf(inUseList) /\ ListOf(waitList) /\ ListOf(wakeList) /\ ListOf(portList)
      /\ Range(inUseList) \cap Postponed = {}
      /\ Range(waitList) \cap Range(wakeList) = {}
      /\ Range(waitList) \cap Range(portList) = {}
      /\ Range(wakeList) \cap Range(portList) = {}
  BY DEF SessionsInv, ListsDisjoint
<1>3. ListOf(inUseList') /\ Range(inUseList') = IF postponed THEN Range(list) \ {s} ELSE Range(list)
  BY <1>1, WithoutFacts
<1>4. ListOf(waitList') /\ Range(waitList') = Range(waitList) \cup (IF v = "absent" THEN {s} ELSE {})
  <2>1. CASE v = "absent"
    <3>1. waitList' = Append(waitList, s)
      BY <1>1, <2>1
    <3> QED
      BY <1>2, <2>1, <3>1, AtEnd DEF ListOf
  <2>2. CASE v # "absent"
    BY <1>1, <1>2, <2>2
  <2> QED
    BY <2>1, <2>2
<1>5. ListOf(portList') /\ Range(portList') = (Range(portList) \ {s}) \cup (IF v = "full" THEN {s} ELSE {})
  <2> DEFINE rest == Without(portList, s)
             more == IF v = "full" THEN <<s>> ELSE <<>>
  <2>1. ListOf(rest) /\ Range(rest) = Range(portList) \ {s}
    BY <1>2, WithoutFacts
  <2>2. ListOf(more) /\ Range(more) = IF v = "full" THEN {s} ELSE {}
    BY OneElement DEF ListOf, IsInjective, Range
  <2>3. portList' = rest \o more
    BY <1>1
  <2> HIDE DEF rest, more
  <2>4. Range(rest) \cap Range(more) = {}
    BY <2>1, <2>2
  <2> QED
    BY <2>1, <2>2, <2>3, <2>4, Joined DEF ListOf
<1>6. ListsDisjoint'
  <2>1. Postponed' = Range(waitList') \cup Range(wakeList') \cup Range(portList')
    BY DEF Postponed
  <2> QED
    BY <1>2, <1>3, <1>4, <1>5, <2>1 DEF ListsDisjoint, Postponed
<1>7. Postponed' = (Postponed \ {s}) \cup (IF postponed THEN {s} ELSE {})
  BY <1>4, <1>5 DEF Postponed
<1>8. SessionValues'
  <2>1. /\ replay \in [Sessions -> Names \cup {"no name", "overwritten"}]
        /\ busy \in [Sessions -> 0..MaxPorts]
        /\ table \in [Names -> 0..MaxPorts] /\ table[n] \in 0..MaxPorts
        /\ owner \in [Names -> Servers \cup {"nobody"}]
        /\ ports \in [1..MaxPorts -> PortType]
    BY DEF SessionsInv, SessionValues
  <2>2. replay' \in [Sessions -> Names \cup {"no name", "overwritten"}]
    BY <1>1, <2>1
  <2>3. busy' \in [Sessions -> 0..MaxPorts]
    BY <1>1, <2>1, PortNumbers
  <2>4. ports' \in [1..MaxPorts -> PortType]
    <3>1. CASE v = "connected"
      <4>1. table[n] \in 1..MaxPorts
        <5> DEFINE p == table[n]
        <5>1. p # 0 /\ p \in 0..MaxPorts
          BY <1>0, <2>1, <3>1
        <5> HIDE DEF p
        <5>2. p \in 1..MaxPorts
          BY <5>1, PortNumbers
        <5> QED
          BY <5>2 DEF p
      <4>2. ports[table[n]] \in PortType
        BY <2>1, <4>1
      <4>3. [ports[table[n]] EXCEPT !.used = @ + 1] \in PortType
        BY <4>2 DEF PortType
      <4>4. ports' = [ports EXCEPT ![table[n]] = [ports[table[n]] EXCEPT !.used = @ + 1]]
        BY <1>1, <3>1
      <4> QED
        BY <2>1, <4>3, <4>4
    <3>2. CASE v # "connected"
      BY <1>1, <2>1, <3>2
    <3> QED
      BY <3>1, <3>2
  <2> QED
    BY <1>1, <2>1, <2>2, <2>3, <2>4 DEF SessionValues
<1>9. OneTarget'
  BY <1>1, <1>3 DEF OneTarget
<1>10. /\ replay'[s] = IF postponed THEN n ELSE "no name"
       /\ busy'[s] = IF v = "full" THEN table[n] ELSE 0
       /\ \A t \in Sessions \ {s} : replay'[t] = replay[t] /\ busy'[t] = busy[t]
  BY <1>1 DEF SessionsInv, SessionValues
<1>11. /\ Range(wakeList) \subseteq Sessions /\ Range(portList) \subseteq Sessions
       /\ Range(waitList) \subseteq Sessions
  BY <1>2 DEF ListOf, Range
<1>12. NamesKnown'
  <2>1. \A t \in Sessions : client'[t].state \in {"sent", "taken"} => client'[t].name \in Names
    BY DEF SessionsInv, NamesKnown
  <2>2. \A t \in Range(wakeList') : replay'[t] \in Names
    BY <1>10, <1>11 DEF SessionsInv, NamesKnown
  <2>3. \A t \in Range(portList') : replay'[t] \in Names
    BY <1>5, <1>10, <1>11 DEF SessionsInv, NamesKnown
  <2> QED
    BY <2>1, <2>2, <2>3 DEF NamesKnown
<1>13. RequestsPlaced'
  <2>1. ASSUME NEW t \in Sessions, t # s
        PROVE  /\ client'[t] = client[t] /\ replay'[t] = replay[t]
               /\ t \notin replyTarget' /\ (t \in Postponed' <=> t \in Postponed)
    BY <1>1, <1>7, <1>10, <2>1
  <2>2. /\ s \in replyTarget' <=> ~postponed
        /\ s \in Postponed' <=> postponed
    BY <1>1, <1>7
  <2>3. ASSUME NEW t \in Sessions
        PROVE  /\ client'[t].state = "taken" => (t \in replyTarget') # (t \in Postponed')
               /\ client'[t].state \in {"none", "idle", "sent"} => t \notin replyTarget' \cup Postponed'
               /\ t \in Postponed' /\ client'[t].state = "taken" =>
                    replay'[t] \in {client'[t].name, "overwritten"}
    <3>1. CASE t = s
      BY <1>10, <2>2, <3>1
    <3>2. CASE t # s
      BY <2>1, <3>2 DEF SessionsInv, RequestsPlaced
    <3> QED
      BY <3>1, <3>2
  <2> QED
    BY <2>3 DEF RequestsPlaced
<1>14. WaitsForAReason' /\ ResumePermitsMatch'
  <2>1. \A t \in Range(waitList') : replay'[t] \in Names => table'[replay'[t]] = 0
    <3>1. ASSUME NEW t \in Range(waitList'), replay'[t] \in Names
          PROVE  table[replay'[t]] = 0
      BY <1>0, <1>4, <1>10, <1>11, <3>1 DEF SessionsInv, WaitsForAReason
    <3> QED
      BY <1>1, <3>1
  <2>2. \A t \in Range(portList') : busy'[t] # 0 /\ table'[replay'[t]] = busy'[t]
    <3>1. ASSUME NEW t \in Range(portList')
          PROVE  busy'[t] # 0 /\ table[replay'[t]] = busy'[t]
      BY <1>0, <1>5, <1>10, <1>11, <3>1 DEF SessionsInv, WaitsForAReason
    <3> QED
      BY <1>1, <3>1
  <2> QED
    BY <2>1, <2>2 DEF WaitsForAReason, ResumePermitsMatch
<1> QED
  BY <1>6, <1>8, <1>9, <1>12, <1>13, <1>14 DEF SessionsInv

\* The parts of the lists that a name, or a port, picks out.
LEMMA PartsOfLists ==
  ASSUME ListsDisjoint, NEW T
  PROVE  /\ ListOf(Kept(waitList, T)) /\ Range(Kept(waitList, T)) = Range(waitList) \cap T
         /\ ListOf(Kept(portList, T)) /\ Range(Kept(portList, T)) = Range(portList) \cap T
         /\ Range(inUseList) \subseteq Sessions /\ Range(waitList) \subseteq Sessions
         /\ Range(wakeList) \subseteq Sessions /\ Range(portList) \subseteq Sessions
<1>1. \A list : ListOf(list) => /\ ListOf(Kept(list, T)) /\ Range(Kept(list, T)) = Range(list) \cap T
                                /\ Range(list) \subseteq Sessions
  <2> SUFFICES ASSUME NEW list, ListOf(list)
               PROVE  /\ ListOf(Kept(list, T)) /\ Range(Kept(list, T)) = Range(list) \cap T
                      /\ Range(list) \subseteq Sessions
    OBVIOUS
  <2>1. list \in Seq(Sessions) /\ IsInjective(list)
    BY DEF ListOf
  <2>2. ListOf(Kept(list, T)) /\ Range(Kept(list, T)) = Range(list) \cap T
    BY <2>1, KeptFacts DEF ListOf
  <2>3. Range(list) \subseteq Sessions
    BY <2>1 DEF Range
  <2> QED
    BY <2>2, <2>3
<1> QED
  BY <1>1 DEF ListsDisjoint

\* A registration moves the sessions that wait for the name, with a permit each.
LEMMA RegisterNameStep ==
  ASSUME SessionsInv, NEW v \in Servers, NEW n \in Names, NEW max \in PortSizes,
         RegisterName(v, n, max)
  PROVE  SessionsInv'
<1> DEFINE moved == Woken(n)
           stay == Kept(waitList, Sessions \ Range(moved))
<1>1. ListsDisjoint
  BY DEF SessionsInv
<1>2. ListOf(moved) /\ Range(moved) = Range(waitList) \cap {s \in Sessions : replay[s] = n}
  BY <1>1, PartsOfLists DEF Woken
<1>3. ListOf(stay) /\ Range(stay) = Range(waitList) \cap (Sessions \ Range(moved))
  BY <1>1, PartsOfLists
<1>4. /\ replyTarget = {} /\ wakePermits = 0 /\ ~panicked /\ table[n] = 0
      /\ waitList' = stay /\ wakeList' = wakeList \o moved /\ wakePermits' = wakePermits + Len(moved)
      /\ owner' = [owner EXCEPT ![n] = v]
      /\ UNCHANGED <<inUseList, portList, client, replay, busy, replyTarget, panicked>>
  BY DEF RegisterName, Receives, PermitsFor
<1> HIDE DEF moved, stay
<1>5. /\ ListOf(wakeList') /\ Range(wakeList') = Range(wakeList) \cup Range(moved)
      /\ Len(wakeList') = Len(wakeList) + Len(moved)
  <2>1. Range(wakeList) \cap Range(moved) = {}
    BY <1>1, <1>2 DEF ListsDisjoint
  <2> QED
    BY <1>1, <1>2, <1>4, <2>1, Joined DEF ListsDisjoint, ListOf
<1>6. Range(waitList) \subseteq Sessions /\ Range(wakeList) \subseteq Sessions /\ Range(portList) \subseteq Sessions
  BY <1>1, PartsOfLists
<1>7. Postponed' = Postponed
  BY <1>2, <1>3, <1>4, <1>5, <1>6 DEF Postponed
<1>8. ListsDisjoint'
  BY <1>1, <1>2, <1>3, <1>4, <1>5, <1>6, <1>7 DEF ListsDisjoint, Postponed
<1>9. PICK p \in 1..MaxPorts :
        /\ table' = [table EXCEPT ![n] = p]
        /\ ports' = [ports EXCEPT ![p] = [open |-> TRUE, used |-> 0, max |-> max]]
  BY DEF RegisterName
<1>10. SessionValues'
  <2>1. [open |-> TRUE, used |-> 0, max |-> max] \in PortType
    BY DEF PortType
  <2>2. ports' \in [1..MaxPorts -> PortType]
    BY <1>9, <2>1 DEF SessionsInv, SessionValues
  <2>3. p \in 0..MaxPorts
    BY PortNumbers
  <2>4. table' \in [Names -> 0..MaxPorts]
    BY <1>9, <2>3 DEF SessionsInv, SessionValues
  <2> QED
    BY <1>4, <2>2, <2>4 DEF SessionsInv, SessionValues
<1>11. OneTarget' /\ RequestsPlaced'
  BY <1>4, <1>7 DEF SessionsInv, OneTarget, RequestsPlaced
<1>12. NamesKnown'
  BY <1>2, <1>4, <1>5 DEF SessionsInv, NamesKnown
<1>13. WaitsForAReason'
  <2>1. \A m \in Names \ {n} : table'[m] = table[m]
    BY <1>9 DEF SessionsInv, SessionValues
  <2>2. ASSUME NEW s \in Range(stay), replay[s] \in Names
        PROVE  table'[replay[s]] = 0
    BY <1>2, <1>3, <1>4, <2>1, <2>2 DEF SessionsInv, WaitsForAReason
  <2>3. ASSUME NEW s \in Range(portList)
        PROVE  busy[s] # 0 /\ table'[replay[s]] = busy[s]
    BY <1>4, <2>1, <2>3 DEF SessionsInv, WaitsForAReason, NamesKnown
  <2> QED
    BY <1>4, <2>2, <2>3 DEF WaitsForAReason
<1>14. ResumePermitsMatch'
  <2>1. Len(moved) \in Nat /\ Len(wakeList) = 0
    BY <1>2, <1>4 DEF ListOf, SessionsInv, ResumePermitsMatch
  <2> QED
    BY <1>4, <1>5, <2>1 DEF ResumePermitsMatch
<1> QED
  BY <1>8, <1>10, <1>11, <1>12, <1>13, <1>14 DEF SessionsInv

\* Names are removed from the table: a session that waits for one of their
\* ports would stop sm, so that while sm runs none waits for them.
LEMMA RemovedStep ==
  ASSUME SessionsInv, NEW names \in SUBSET Names, Receives, Removed(names)
  PROVE  SessionsInv'
<1>1. /\ UNCHANGED <<listVars, answerVars, wakePermits>> /\ ~panicked
      /\ table' = [n \in Names |-> IF n \in names THEN 0 ELSE table[n]]
      /\ owner' = [n \in Names |-> IF n \in names THEN "nobody" ELSE owner[n]]
      /\ panicked' = \E n \in names : WaitingFor(table[n]) # <<>>
  BY DEF Removed, Receives
<1>2. /\ UNCHANGED <<inUseList, waitList, wakeList, portList, client, replay, busy, replyTarget,
                     wakePermits>>
      /\ Postponed' = Postponed
  BY <1>1 DEF listVars, answerVars, Postponed
<1>3. ListsDisjoint' /\ OneTarget' /\ RequestsPlaced' /\ ResumePermitsMatch'
  BY <1>2 DEF SessionsInv, ListsDisjoint, ListOf, OneTarget, RequestsPlaced, ResumePermitsMatch,
              Postponed
<1>4. SessionValues'
  <2>1. NoPort \in PortType
    BY DEF NoPort, PortType
  <2>2. ports' \in [1..MaxPorts -> PortType]
    BY <2>1 DEF Removed, SessionsInv, SessionValues
  <2>3. 0 \in 0..MaxPorts
    BY PortNumbers
  <2>4. table' \in [Names -> 0..MaxPorts]
    BY <1>1, <2>3 DEF SessionsInv, SessionValues
  <2>5. owner' \in [Names -> Servers \cup {"nobody"}]
    BY <1>1 DEF SessionsInv, SessionValues
  <2> QED
    BY <1>2, <2>2, <2>4, <2>5 DEF SessionsInv, SessionValues
<1>5. NamesKnown'
  BY <1>1, <1>2 DEF SessionsInv, NamesKnown
<1>6. WaitsForAReason'
  <2> SUFFICES ASSUME ~panicked'
               PROVE  /\ \A s \in Range(waitList) : replay[s] \in Names => table'[replay[s]] = 0
                      /\ \A s \in Range(portList) : busy[s] # 0 /\ table'[replay[s]] = busy[s]
    BY <1>2 DEF WaitsForAReason
  <2>1. ASSUME NEW s \in Range(waitList), replay[s] \in Names
        PROVE  table'[replay[s]] = 0
    BY <1>1, <2>1 DEF SessionsInv, WaitsForAReason
  <2>2. ASSUME NEW s \in Range(portList)
        PROVE  busy[s] # 0 /\ table'[replay[s]] = busy[s]
    <3>1. busy[s] # 0 /\ table[replay[s]] = busy[s] /\ replay[s] \in Names
      BY <1>1 DEF SessionsInv, WaitsForAReason, NamesKnown
    <3>2. CASE replay[s] \in names
      <4>1. s \in Range(WaitingFor(table[replay[s]]))
        BY <3>1, PartsOfLists DEF SessionsInv, WaitingFor
      <4>2. Range(<<>>) = {}
        BY DEF Range
      <4> QED
        BY <1>1, <3>2, <4>1, <4>2
    <3>3. CASE replay[s] \notin names
      BY <1>1, <3>1, <3>3
    <3> QED
      BY <3>2, <3>3
  <2> QED
    BY <2>1, <2>2
<1> QED
  BY <1>3, <1>4, <1>5, <1>6 DEF SessionsInv

\* The session that was replied to, or that has ended, has nothing to wait for.
LEMMA AnsweredStep ==
  ASSUME SessionsInv, NEW s \in Range(inUseList), replyTarget \subseteq {s}, NEW c \in ClientType,
         c.state \in {"none", "idle"}, client' = [client EXCEPT ![s] = c], replyTarget' = {},
         inUseList' = inUseList \/ inUseList' = Without(inUseList, s),
         UNCHANGED <<waitList, wakeList, portList, replay, busy, word4, wakePermits, tableVars, panicked>>
  PROVE  SessionsInv'
<1>1. /\ ListOf(inUseList) /\ s \in Sessions /\ s \notin Postponed
      /\ Range(inUseList) \cap Postponed = {}
  BY PartsOfLists DEF SessionsInv, ListsDisjoint
<1>2. ListOf(inUseList') /\ Range(inUseList') \subseteq Range(inUseList)
  BY <1>1, WithoutFacts
<1>3. Postponed' = Postponed
  BY DEF Postponed
<1>4. ListsDisjoint'
  BY <1>1, <1>2, <1>3 DEF SessionsInv, ListsDisjoint
<1>5. SessionValues'
  BY <1>1 DEF SessionsInv, SessionValues, tableVars
<1>6. \A t \in Sessions : client'[t] = IF t = s THEN c ELSE client[t]
  BY DEF SessionsInv, SessionValues
<1>7. OneTarget' /\ ResumePermitsMatch'
  BY DEF SessionsInv, OneTarget, ResumePermitsMatch
<1>8. NamesKnown'
  BY <1>6 DEF SessionsInv, NamesKnown
<1>9. WaitsForAReason'
  BY DEF SessionsInv, WaitsForAReason, tableVars
<1>10. RequestsPlaced'
  <2>1. ASSUME NEW t \in Sessions
        PROVE  /\ client'[t].state = "taken" => t \in Postponed
               /\ client'[t].state \in {"none", "idle", "sent"} => t \notin Postponed
               /\ t \in Postponed /\ client'[t].state = "taken" =>
                    replay[t] \in {client'[t].name, "overwritten"}
    <3>1. CASE t = s
      BY <1>1, <1>6, <3>1
    <3>2. CASE t # s
      <4>1. client'[t] = client[t] /\ t \notin replyTarget
        BY <1>6, <3>2
      <4> QED
        BY <4>1 DEF SessionsInv, RequestsPlaced
    <3> QED
      BY <3>1, <3>2
  <2> QED
    BY <1>3, <2>1 DEF RequestsPlaced
<1> QED
  BY <1>4, <1>5, <1>7, <1>8, <1>9, <1>10 DEF SessionsInv

\* The turns that end a session or reply to it.
LEMMA SessionEndsStep ==
  ASSUME SessionsInv, Reply \/ \E s \in Sessions : SessionClosed(s)
  PROVE  SessionsInv'
<1>1. ASSUME NEW s \in replyTarget
      PROVE  s \in Range(inUseList) /\ replyTarget \subseteq {s}
  BY DEF SessionsInv, OneTarget
<1>2. CASE Reply
  <2>1. PICK s \in replyTarget : client' = [client EXCEPT ![s] = [NoClient EXCEPT !.state = "idle"]]
    BY <1>2 DEF Reply
  <2> DEFINE c == [NoClient EXCEPT !.state = "idle"]
  <2>2. c \in ClientType /\ c.state = "idle"
    BY DEF NoClient, ClientType
  <2>3. client' = [client EXCEPT ![s] = c]
    BY <2>1
  <2> HIDE DEF c
  <2> QED
    BY <1>1, <1>2, <2>2, <2>3, AnsweredStep DEF Reply, listVars
<1>3. ASSUME NEW s \in Sessions, SessionClosed(s)
      PROVE  SessionsInv'
  <2>1. s \in Range(inUseList) /\ replyTarget \subseteq {s}
    BY <1>1, <1>3 DEF SessionClosed, Receives
  <2>2. NoClient \in ClientType /\ NoClient.state = "none"
    BY DEF NoClient, ClientType
  <2>3. /\ inUseList' = Without(inUseList, s) /\ client' = [client EXCEPT ![s] = NoClient]
        /\ replyTarget' = {}
        /\ UNCHANGED <<waitList, wakeList, portList, replay, busy, word4, wakePermits, tableVars, panicked>>
    BY <1>3 DEF SessionClosed
  <2> QED
    BY <2>1, <2>2, <2>3, AnsweredStep
<1> QED
  BY <1>2, <1>3

\* A session that is accepted was on no list.
LEMMA AcceptSessionStep ==
  ASSUME SessionsInv, NEW s \in Sessions, AcceptSession(s)
  PROVE  SessionsInv'
<1>1. /\ s \notin Range(inUseList) /\ s \notin Postponed
      /\ inUseList' = <<s>> \o inUseList
      /\ UNCHANGED <<waitList, wakeList, portList, answerVars, wakePermits, tableVars, panicked>>
  BY DEF AcceptSession, FreeSessions, Postponed
<1>2. ListOf(inUseList') /\ Range(inUseList') = {s} \cup Range(inUseList)
  BY <1>1, InFront DEF SessionsInv, ListsDisjoint, ListOf
<1>3. /\ Postponed' = Postponed /\ replyTarget' = replyTarget /\ client' = client
      /\ replay' = replay /\ busy' = busy
  BY <1>1 DEF Postponed, answerVars
<1>4. ListsDisjoint'
  BY <1>1, <1>2, <1>3 DEF SessionsInv, ListsDisjoint
<1>5. SessionValues'
  BY <1>1, <1>3 DEF SessionsInv, SessionValues, tableVars
<1>6. OneTarget' /\ RequestsPlaced' /\ ResumePermitsMatch'
  BY <1>1, <1>2, <1>3 DEF SessionsInv, OneTarget, RequestsPlaced, ResumePermitsMatch
<1>7. NamesKnown' /\ WaitsForAReason'
  BY <1>1, <1>3 DEF SessionsInv, NamesKnown, WaitsForAReason, tableVars
<1> QED
  BY <1>4, <1>5, <1>6, <1>7 DEF SessionsInv

\* A command is concluded under the name its client sent.
LEMMA CommandStep ==
  ASSUME SessionsInv, NEW s \in Sessions, Command(s)
  PROVE  SessionsInv'
<1> DEFINE n == client[s].name
           word == client[s].word
<1>1. /\ replyTarget = {} /\ ~panicked /\ s \in Range(inUseList) /\ client[s].state = "sent"
      /\ client' = [client EXCEPT ![s].state = "taken"]
      /\ Conclude(s, n, word, inUseList)
      /\ UNCHANGED <<wakeList, wakePermits>>
  BY DEF Command, Receives
<1>2. n \in Names /\ client[s] \in ClientType /\ client \in [Sessions -> ClientType]
  BY <1>1 DEF SessionsInv, NamesKnown, SessionValues
<1>3. /\ client' \in [Sessions -> ClientType] /\ client'[s].state = "taken" /\ client'[s].name = n
      /\ \A t \in Sessions \ {s} : client'[t] = client[t]
  <2> DEFINE c == [client[s] EXCEPT !.state = "taken"]
  <2>1. c \in ClientType /\ c.state = "taken" /\ c.name = n /\ client' = [client EXCEPT ![s] = c]
    BY <1>1, <1>2 DEF ClientType
  <2> HIDE DEF c, n
  <2> QED
    BY <1>2, <2>1
<1>4. /\ ListOf(inUseList) /\ s \notin Range(waitList) /\ s \notin Range(wakeList)
      /\ ListOf(wakeList)
  BY <1>1 DEF SessionsInv, ListsDisjoint, Postponed
<1>5. wakePermits = Len(wakeList)
  BY DEF SessionsInv, ResumePermitsMatch
<1> HIDE DEF n, word
<1> QED
  BY <1>1, <1>2, <1>3, <1>4, <1>5, ConcludeStep

\* A postponed request is replayed under the name its client asked for.
LEMMA ReplayStep ==
  ASSUME SessionsInv, replyTarget = {}, ~panicked, NEW s \in Range(wakeList) \cup Range(portList),
         NEW word, Conclude(s, replay[s], word, <<s>> \o inUseList),
         ListOf(wakeList'), Range(wakeList') = Range(wakeList) \ {s},
         wakePermits' = Len(wakeList'), client' = client
  PROVE  SessionsInv'
<1> DEFINE n == replay[s]
           list == <<s>> \o inUseList
<1>1. /\ s \in Sessions /\ s \in Postponed /\ s \notin Range(inUseList) /\ s \notin Range(waitList)
      /\ inUseList \in Seq(Sessions) /\ IsInjective(inUseList)
  BY PartsOfLists DEF SessionsInv, ListsDisjoint, ListOf, Postponed
<1>2. n \in Names
  BY DEF SessionsInv, NamesKnown
<1>3. ListOf(list) /\ Range(list) = {s} \cup Range(inUseList)
  BY <1>1, InFront DEF ListOf
<1>4. client[s] \in ClientType /\ client \in [Sessions -> ClientType]
  BY <1>1 DEF SessionsInv, SessionValues
<1>5. client[s].state \in {"taken", "gone"}
  BY <1>1, <1>4 DEF SessionsInv, RequestsPlaced, ClientType
<1>6. client[s].state = "taken" => client[s].name = n
  <2>1. n # "overwritten"
    BY <1>2, SessionsAssumption
  <2> QED
    BY <1>1, <2>1 DEF SessionsInv, RequestsPlaced
<1>7. Conclude(s, n, word, list)
  OBVIOUS
<1> HIDE DEF n, list
<1>8. s \in Range(list) /\ Range(list) \ {s} = Range(inUseList) \ {s}
  BY <1>1, <1>3
<1> QED
  BY <1>1, <1>2, <1>3, <1>4, <1>5, <1>6, <1>7, <1>8, ConcludeStep

\* A session is taken off the list of those to resume with its permit.
LEMMA ResumeStep ==
  ASSUME SessionsInv, Resume
  PROVE  SessionsInv'
<1>1. /\ replyTarget = {} /\ ~panicked /\ wakePermits > 0 /\ wakePermits' = wakePermits - 1
      /\ Conclude(Head(wakeList), replay[Head(wakeList)], word4, <<Head(wakeList)>> \o inUseList)
      /\ wakeList' = Tail(wakeList) /\ client' = client
  BY DEF Resume
<1>2. wakeList \in Seq(Sessions) /\ IsInjective(wakeList) /\ wakePermits = Len(wakeList)
  BY DEF SessionsInv, ListsDisjoint, ListOf, ResumePermitsMatch
<1>3. wakeList # <<>>
  BY <1>1, <1>2
<1>4. /\ Head(wakeList) \in Range(wakeList) /\ ListOf(Tail(wakeList))
      /\ Range(Tail(wakeList)) = Range(wakeList) \ {Head(wakeList)}
      /\ Len(Tail(wakeList)) = Len(wakeList) - 1
  BY <1>2, <1>3, FirstOff DEF ListOf
<1> DEFINE s == Head(wakeList)
<1> HIDE DEF s
<1>5. /\ s \in Range(wakeList) \cup Range(portList) /\ Conclude(s, replay[s], word4, <<s>> \o inUseList)
      /\ ListOf(wakeList') /\ Range(wakeList') = Range(wakeList) \ {s} /\ wakePermits' = Len(wakeList')
  BY <1>1, <1>2, <1>4 DEF s
<1> QED
  BY <1>1, <1>5, ReplayStep

\* The first to wait for a port that has room is replayed.
LEMMA PortReadyStep ==
  ASSUME SessionsInv, NEW p \in 1..MaxPorts, PortReady(p)
  PROVE  SessionsInv'
<1> DEFINE s == Head(WaitingFor(p))
<1>1. /\ replyTarget = {} /\ ~panicked /\ WaitingFor(p) # <<>>
      /\ Conclude(s, replay[s], word4, <<s>> \o inUseList)
      /\ UNCHANGED <<client, wakeList, wakePermits>>
  BY DEF PortReady, Receives
<1>2. ListOf(WaitingFor(p)) /\ Range(WaitingFor(p)) \subseteq Range(portList)
  BY PartsOfLists DEF SessionsInv, WaitingFor
<1>3. s \in Range(portList)
  BY <1>1, <1>2, FirstOff DEF ListOf
<1> HIDE DEF s
<1>4. ListOf(wakeList) /\ s \notin Range(wakeList) /\ wakePermits = Len(wakeList)
  BY <1>3 DEF SessionsInv, ListsDisjoint, ResumePermitsMatch
<1>5. ListOf(wakeList') /\ Range(wakeList') = Range(wakeList) \ {s} /\ wakePermits' = Len(wakeList')
  BY <1>1, <1>4
<1> QED
  BY <1>1, <1>3, <1>5, ReplayStep

\* The sessions that wait for a closed port become ones that wait for a name, under none.
LEMMA PortClosedStep ==
  ASSUME SessionsInv, NEW p \in 1..MaxPorts, PortClosed(p)
  PROVE  SessionsInv'
<1> DEFINE moved == WaitingFor(p)
           stay == Kept(portList, {s \in Sessions : busy[s] # p})
<1>1. /\ ~panicked /\ portList' = stay /\ waitList' = waitList \o moved
      /\ replay' = [s \in Sessions |-> IF s \in Range(moved) THEN "overwritten" ELSE replay[s]]
      /\ busy' = [s \in Sessions |-> IF s \in Range(moved) THEN 0 ELSE busy[s]]
      /\ UNCHANGED <<inUseList, wakeList, client, replyTarget, word4, wakePermits, table, owner, ports, panicked>>
  BY DEF PortClosed, Receives, tableVars
<1>2. ListsDisjoint
  BY DEF SessionsInv
<1>3. /\ ListOf(moved) /\ Range(moved) = Range(portList) \cap {s \in Sessions : busy[s] = p}
      /\ ListOf(stay) /\ Range(stay) = Range(portList) \cap {s \in Sessions : busy[s] # p}
      /\ Range(waitList) \subseteq Sessions /\ Range(wakeList) \subseteq Sessions
      /\ Range(portList) \subseteq Sessions
  BY <1>2, PartsOfLists DEF WaitingFor
<1> HIDE DEF moved, stay
<1>4. ListOf(waitList') /\ Range(waitList') = Range(waitList) \cup Range(moved)
  <2>1. Range(waitList) \cap Range(moved) = {}
    BY <1>2, <1>3 DEF ListsDisjoint
  <2> QED
    BY <1>1, <1>2, <1>3, <2>1, Joined DEF ListsDisjoint, ListOf
<1>5. Postponed' = Postponed
  BY <1>1, <1>3, <1>4 DEF Postponed
<1>6. ListsDisjoint'
  BY <1>1, <1>2, <1>3, <1>4, <1>5 DEF ListsDisjoint
<1>7. SessionValues'
  <2>1. replay' \in [Sessions -> Names \cup {"no name", "overwritten"}]
    BY <1>1 DEF SessionsInv, SessionValues
  <2>2. busy' \in [Sessions -> 0..MaxPorts]
    BY <1>1, PortNumbers DEF SessionsInv, SessionValues
  <2> QED
    BY <1>1, <2>1, <2>2 DEF SessionsInv, SessionValues
<1>8. OneTarget' /\ ResumePermitsMatch'
  BY <1>1 DEF SessionsInv, OneTarget, ResumePermitsMatch
<1>9. \A s \in Sessions :
         IF s \in Range(moved) THEN replay'[s] = "overwritten" ELSE replay'[s] = replay[s] /\ busy'[s] = busy[s]
  BY <1>1
<1>10. NamesKnown'
  <2>1. \A s \in Range(wakeList) \cup Range(stay) : s \notin Range(moved) /\ s \in Sessions
    BY <1>2, <1>3 DEF ListsDisjoint
  <2> QED
    BY <1>1, <1>3, <1>9, <2>1 DEF SessionsInv, NamesKnown
<1>11. RequestsPlaced'
  BY <1>1, <1>5, <1>9 DEF SessionsInv, RequestsPlaced
<1>12. WaitsForAReason'
  <2>1. ASSUME NEW s \in Range(waitList'), replay'[s] \in Names
        PROVE  table[replay'[s]] = 0
    <3>1. s \in Sessions /\ s \notin Range(moved)
      BY <1>3, <1>4, <1>9, <2>1, SessionsAssumption
    <3> QED
      BY <1>1, <1>4, <1>9, <2>1, <3>1 DEF SessionsInv, WaitsForAReason
  <2>2. ASSUME NEW s \in Range(stay)
        PROVE  busy'[s] # 0 /\ table[replay'[s]] = busy'[s]
    <3>1. s \in Sessions /\ s \notin Range(moved) /\ s \in Range(portList)
      BY <1>3
    <3> QED
      BY <1>1, <1>9, <3>1 DEF SessionsInv, WaitsForAReason
  <2> QED
    BY <1>1, <2>1, <2>2 DEF WaitsForAReason
<1> QED
  BY <1>6, <1>7, <1>8, <1>10, <1>11, <1>12 DEF SessionsInv

\* Every step of the clients, the servers and sm.
LEMMA SessionsStep ==
  ASSUME SessionsInv, [SessionsNext]_sessionsVars
  PROVE  SessionsInv'
<1>1. CASE UNCHANGED sessionsVars
  BY <1>1 DEF sessionsVars, listVars, answerVars, tableVars, SessionsInv, ListsDisjoint, ListOf,
              SessionValues, OneTarget, NamesKnown, RequestsPlaced, Postponed, WaitsForAReason,
              ResumePermitsMatch
<1>2. ASSUME NEW v \in Servers, NEW n \in Names, UnregisterName(v, n)
      PROVE  SessionsInv'
  BY <1>2, RemovedStep DEF UnregisterName
<1>3. ASSUME NEW v \in Servers, UnregisterProcessServices(v)
      PROVE  SessionsInv'
  <2>1. {n \in Names : owner[n] = v} \in SUBSET Names
    OBVIOUS
  <2> QED
    BY <1>3, <2>1, RemovedStep DEF UnregisterProcessServices
<1>4. ASSUME SmLoop
      PROVE  SessionsInv'
  BY <1>4, SessionEndsStep, AcceptSessionStep, CommandStep, ResumeStep, PortReadyStep, PortClosedStep
  DEF SmLoop
<1> QED
  BY <1>1, <1>2, <1>3, <1>4, ClientsStep, PortChangesStep, RegisterNameStep DEF SessionsNext

\* The invariant of the sessions holds in every behaviour.
THEOREM SessionsInvariant == SessionsSpec => []SessionsInv
BY SessionsBegin, SessionsStep, PTL DEF SessionsSpec

\* The lists one after the other hold every session once.
LEMMA OneListEach ==
  ASSUME ListsDisjoint
  PROVE  ListOf(inUseList \o waitList \o wakeList \o portList)
<1>1. /\ ListOf(inUseList) /\ ListOf(waitList) /\ ListOf(wakeList) /\ ListOf(portList)
      /\ Range(inUseList) \cap Range(waitList) = {}
      /\ (Range(inUseList) \cup Range(waitList)) \cap Range(wakeList) = {}
      /\ ((Range(inUseList) \cup Range(waitList)) \cup Range(wakeList)) \cap Range(portList) = {}
  BY DEF ListsDisjoint, Postponed
<1>2. ASSUME NEW s, NEW t, ListOf(s), ListOf(t), Range(s) \cap Range(t) = {}
      PROVE  ListOf(s \o t) /\ Range(s \o t) = Range(s) \cup Range(t)
  BY <1>2, Joined DEF ListOf
<1> DEFINE two == inUseList \o waitList
           three == two \o wakeList
<1>3. ListOf(two) /\ Range(two) = Range(inUseList) \cup Range(waitList)
  BY <1>1, <1>2
<1> HIDE DEF two
<1>4. ListOf(three) /\ Range(three) = (Range(inUseList) \cup Range(waitList)) \cup Range(wakeList)
  BY <1>1, <1>2, <1>3
<1> HIDE DEF three
<1>5. ListOf(three \o portList)
  BY <1>1, <1>2, <1>4
<1> QED
  BY <1>5 DEF two, three

\* The state of the sessions keeps its shape: no session is on two lists, or on
\* one list twice.
THEOREM SessionsTyped == SessionsSpec => []SessionsTypeOK
<1>1. SessionsInv => SessionsTypeOK
  <2> SUFFICES ASSUME SessionsInv
               PROVE  SessionsTypeOK
    OBVIOUS
  <2> DEFINE all == inUseList \o waitList \o wakeList \o portList
  <2>1. ListOf(all)
    BY OneListEach DEF SessionsInv
  <2> HIDE DEF all
  <2>2. IsInjective(all) /\ Range(all) \subseteq Sessions
    BY <2>1 DEF ListOf, Range
  <2>3. replyTarget \subseteq Sessions
    BY PartsOfLists DEF SessionsInv, OneTarget
  <2> QED
    BY <2>2, <2>3 DEF SessionsTypeOK, SessionsInv, SessionValues, all
<1> QED
  BY <1>1, SessionsInvariant, PTL

\* No request is lost or answered twice, none waits without a reason, and each
\* that is woken has its permit: for any number of sessions, names and ports.
THEOREM RequestsAreAccounted == SessionsSpec => []RequestsAccounted
<1>1. SessionsInv => RequestsAccounted
  BY DEF SessionsInv, RequestsPlaced, RequestsAccounted
<1> QED
  BY <1>1, SessionsInvariant, PTL

-----------------------------------------------------------------------------
(* The lists of list.c, each of which is read along a link *)

\* What follows a link leads to: nothing behind the ends.
Place(s, i) == IF i \in 1..Len(s) THEN s[i] ELSE NoNode

\* The way along a link is the function that the equations of Walk have.
OnTheWay(at, link, start) ==
  at = [k \in 1..PoolSize |->
         IF k = 1 THEN start
         ELSE IF at[k - 1] = NoNode THEN NoNode ELSE link[at[k - 1]]]

\* A sequence of nodes, each of which is linked to the one after it.
Linked(link, s) ==
  /\ s \in Seq(Nodes)
  /\ Len(s) =< PoolSize
  /\ \A i \in 1..Len(s) : link[s[i]] = Place(s, i + 1)

LEMMA WalkDef ==
  ASSUME NEW link, NEW start
  PROVE  LET at == CHOOSE f : OnTheWay(f, link, start)
         IN  Walk(link, start)
               = [k \in 1..Cardinality({j \in 1..PoolSize : at[j] # NoNode}) |-> at[k]]
BY DEF Walk, OnTheWay

LEMMA WayOfLinked ==
  ASSUME NEW link, NEW s, Linked(link, s)
  PROVE  OnTheWay([k \in 1..PoolSize |-> Place(s, k)], link, Place(s, 1))
<1> DEFINE at == [k \in 1..PoolSize |-> Place(s, k)]
<1>1. ASSUME NEW k \in 1..PoolSize
      PROVE  at[k] = IF k = 1 THEN Place(s, 1)
                     ELSE IF at[k - 1] = NoNode THEN NoNode ELSE link[at[k - 1]]
  <2>1. CASE k = 1
    BY <2>1
  <2>2. CASE k # 1 /\ k - 1 \in 1..Len(s)
    <3>1. k - 1 \in 1..PoolSize /\ at[k - 1] = s[k - 1] /\ s[k - 1] \in Nodes
      BY <2>2, ListsAssumption DEF Place, Linked
    <3>2. link[s[k - 1]] = Place(s, k)
      BY <2>2 DEF Linked
    <3>3. s[k - 1] # NoNode
      BY <3>1 DEF Nodes, NoNode
    <3> QED
      BY <2>2, <3>1, <3>2, <3>3
  <2>3. CASE k # 1 /\ k - 1 \notin 1..Len(s)
    <3>1. k - 1 \in 1..PoolSize /\ at[k - 1] = NoNode
      BY <2>3, ListsAssumption DEF Place
    <3>2. k \notin 1..Len(s)
      BY <2>3 DEF Linked
    <3> QED
      BY <2>3, <3>1, <3>2 DEF Place
  <2> QED
    BY <2>1, <2>2, <2>3
<1> QED
  BY <1>1 DEF OnTheWay

\* There is one way along a link.
LEMMA OneWay ==
  ASSUME NEW link, NEW start, NEW f, NEW g, OnTheWay(f, link, start), OnTheWay(g, link, start)
  PROVE  f = g
<1> DEFINE T == {n \in Nat : n + 1 \in 1..PoolSize => f[n + 1] = g[n + 1]}
<1>0. PoolSize \in Nat
  BY ListsAssumption
<1>1. \A k \in 1..PoolSize :
        /\ f[k] = IF k = 1 THEN start ELSE IF f[k - 1] = NoNode THEN NoNode ELSE link[f[k - 1]]
        /\ g[k] = IF k = 1 THEN start ELSE IF g[k - 1] = NoNode THEN NoNode ELSE link[g[k - 1]]
  BY Zenon DEF OnTheWay
<1>2. 0 \in T
  BY <1>0, <1>1
<1>3. ASSUME NEW n \in T
      PROVE  n + 1 \in T
  <2> SUFFICES ASSUME n + 2 \in 1..PoolSize
               PROVE  f[n + 2] = g[n + 2]
    OBVIOUS
  <2>1. n + 1 \in 1..PoolSize /\ f[n + 1] = g[n + 1] /\ (n + 2) - 1 = n + 1 /\ n + 2 # 1
    BY <1>0
  <2> QED
    BY <1>1, <2>1
<1>4. T = Nat
  <2> HIDE DEF T
  <2>1. T \in SUBSET Nat
    BY DEF T
  <2> QED
    BY <1>2, <1>3, <2>1, Induction
<1>5. \A k \in 1..PoolSize : f[k] = g[k]
  <2> SUFFICES ASSUME NEW k \in 1..PoolSize
               PROVE  f[k] = g[k]
    OBVIOUS
  <2>1. k - 1 \in Nat /\ (k - 1) + 1 = k
    BY <1>0
  <2>2. k - 1 \in T
    BY <1>4, <2>1
  <2> QED
    BY <2>1, <2>2
<1>6. f = [k \in 1..PoolSize |-> f[k]] /\ g = [k \in 1..PoolSize |-> g[k]]
  BY DEF OnTheWay
<1> QED
  BY <1>5, <1>6

LEMMA WalkOfLinked ==
  ASSUME NEW link, NEW s, Linked(link, s)
  PROVE  Walk(link, Place(s, 1)) = s
<1> DEFINE at == [k \in 1..PoolSize |-> Place(s, k)]
           way == CHOOSE f : OnTheWay(f, link, Place(s, 1))
<1>1. OnTheWay(at, link, Place(s, 1))
  BY WayOfLinked
<1>2. way = at
  <2> HIDE DEF at
  <2>1. OnTheWay(way, link, Place(s, 1))
    BY <1>1
  <2> HIDE DEF way
  <2> QED
    BY <1>1, <2>1, OneWay
<1>3. Walk(link, Place(s, 1))
        = [k \in 1..Cardinality({j \in 1..PoolSize : way[j] # NoNode}) |-> way[k]]
  BY WalkDef
<1> HIDE DEF way
<1>4. {j \in 1..PoolSize : at[j] # NoNode} = 1..Len(s)
  BY ListsAssumption DEF Linked, Place, Nodes, NoNode
<1>5. Cardinality(1..Len(s)) = Len(s)
  <2>1. Len(s) \in Nat
    BY DEF Linked
  <2>2. Cardinality(1..Len(s)) = IF 1 > Len(s) THEN 0 ELSE Len(s) - 1 + 1
    BY <2>1, FS_Interval
  <2> QED
    BY <2>1, <2>2
<1>6. [k \in 1..Len(s) |-> at[k]] = s
  <2>1. \A k \in 1..Len(s) : at[k] = s[k]
    BY ListsAssumption DEF Linked, Place
  <2>2. s = [k \in 1..Len(s) |-> s[k]]
    BY DEF Linked
  <2> HIDE DEF at
  <2> QED
    BY <2>1, <2>2
<1> HIDE DEF at
<1> QED
  BY <1>2, <1>3, <1>4, <1>5, <1>6

\* The same sequence, read from its end.
LEMMA WalkBack ==
  ASSUME NEW link, NEW s \in Seq(Nodes), Len(s) =< PoolSize,
         \A i \in 1..Len(s) : link[s[i]] = Place(s, i - 1)
  PROVE  Walk(link, Place(s, Len(s))) = Reverse(s)
<1> DEFINE r == Reverse(s)
<1>1. /\ r \in Seq(Nodes) /\ Len(r) = Len(s) /\ Len(s) \in Nat
      /\ \A i \in 1..Len(s) : r[i] = s[(Len(s) - i) + 1]
  BY DEF Reverse
<1>2. \A i \in Int : Place(r, i) = Place(s, (Len(s) - i) + 1)
  BY <1>1 DEF Place
<1> HIDE DEF r
<1>3. ASSUME NEW i \in 1..Len(r)
      PROVE  link[r[i]] = Place(r, i + 1)
  <2>1. (Len(s) - i) + 1 \in 1..Len(s) /\ r[i] = s[(Len(s) - i) + 1]
    BY <1>1
  <2>2. link[r[i]] = Place(s, ((Len(s) - i) + 1) - 1)
    BY <2>1
  <2>3. ((Len(s) - i) + 1) - 1 = (Len(s) - (i + 1)) + 1
    BY <1>1
  <2> QED
    BY <1>1, <1>2, <2>2, <2>3
<1>4. Linked(link, r)
  BY <1>1, <1>3 DEF Linked
<1>5. Place(r, 1) = Place(s, Len(s))
  BY <1>1, <1>2
<1> QED
  BY <1>4, <1>5, WalkOfLinked DEF r

-----------------------------------------------------------------------------
(* Moving a node from list to list *)

\* What a pointer may hold.
Pointers == Nodes \cup {NoNode}

LinksTyped ==
  /\ prev \in [Nodes -> Pointers] /\ next \in [Nodes -> Pointers]
  /\ parent \in [Nodes -> Lists]
  /\ first \in [Lists -> Pointers] /\ last \in [Lists -> Pointers]

\* All pointers from and to list l are those of sequence s.
OfList(l, s) ==
  /\ s \in Seq(Nodes)
  /\ \A i, j \in 1..Len(s) : s[i] = s[j] => i = j
  /\ \A n \in Nodes : parent[n] = l <=> \E i \in 1..Len(s) : s[i] = n
  /\ first[l] = Place(s, 1) /\ last[l] = Place(s, Len(s))
  /\ \A i \in 1..Len(s) : next[s[i]] = Place(s, i + 1) /\ prev[s[i]] = Place(s, i - 1)

\* The pointers are those of the sequences c.
ListsOf(c) ==
  /\ LinksTyped
  /\ c \in [Lists -> Seq(Nodes)]
  /\ \A l \in Lists : OfList(l, c[l])

LEMMA NodesAreNumbers == NoNode \notin Nodes /\ Nodes \subseteq Nat
BY ListsAssumption DEF NoNode, Nodes

LEMMA PlaceTyped ==
  ASSUME NEW s \in Seq(Nodes)
  PROVE  /\ \A i \in 1..Len(s) : Place(s, i) = s[i] /\ s[i] \in Nodes
         /\ \A i : i \notin 1..Len(s) => Place(s, i) = NoNode
         /\ Len(s) \in Nat
BY DEF Place

\* What a move makes of each pointer.
Moved(n, dst, back) ==
  LET src == parent[n]
  IN  /\ \A m \in Nodes :
           /\ parent'[m] = IF m = n THEN dst ELSE parent[m]
           /\ next'[m] = IF m = n THEN IF back THEN NoNode ELSE first[dst]
                         ELSE IF back /\ m = last[dst] THEN n
                         ELSE IF m = prev[n] THEN next[n] ELSE next[m]
           /\ prev'[m] = IF m = n THEN IF back THEN last[dst] ELSE NoNode
                         ELSE IF ~back /\ m = first[dst] THEN n
                         ELSE IF m = next[n] THEN prev[n] ELSE prev[m]
      /\ \A l \in Lists \ {src, dst} : first'[l] = first[l] /\ last'[l] = last[l]
      /\ first'[src] = IF first[src] = n THEN next[n] ELSE first[src]
      /\ last'[src] = IF last[src] = n THEN prev[n] ELSE last[src]
      /\ first'[dst] = IF back /\ first[dst] # NoNode THEN first[dst] ELSE n
      /\ last'[dst] = IF ~back /\ last[dst] # NoNode THEN last[dst] ELSE n

LEMMA BypassedTyped ==
  ASSUME NEW link \in [Nodes -> Pointers], NEW from \in Pointers, NEW to \in Pointers
  PROVE  Bypassed(link, from, to) \in [Nodes -> Pointers]
BY NodesAreNumbers DEF Bypassed, Pointers

\* The pointers past a node that is taken from its list.
LEMMA PastNode ==
  ASSUME LinksTyped, NEW n \in Nodes
  PROVE  LET src == parent[n]
             fst == firstAfterRemoval(n, src)
             lst == lastAfterRemoval(n, src)
             nxt == Bypassed(next, prev[n], next[n])
             prv == Bypassed(prev, next[n], prev[n])
         IN  /\ nxt \in [Nodes -> Pointers] /\ prv \in [Nodes -> Pointers]
             /\ \A m \in Nodes : nxt[m] = IF m = prev[n] THEN next[n] ELSE next[m]
             /\ \A m \in Nodes : prv[m] = IF m = next[n] THEN prev[n] ELSE prev[m]
             /\ fst \in [Lists -> Pointers] /\ lst \in [Lists -> Pointers]
             /\ \A l \in Lists : fst[l] = IF l = src /\ first[l] = n THEN next[n] ELSE first[l]
             /\ \A l \in Lists : lst[l] = IF l = src /\ last[l] = n THEN prev[n] ELSE last[l]
<1>1. /\ prev[n] \in Pointers /\ next[n] \in Pointers /\ parent[n] \in Lists
      /\ next \in [Nodes -> Pointers] /\ prev \in [Nodes -> Pointers]
      /\ first \in [Lists -> Pointers] /\ last \in [Lists -> Pointers]
  BY DEF LinksTyped
<1>2. /\ Bypassed(next, prev[n], next[n]) \in [Nodes -> Pointers]
      /\ Bypassed(prev, next[n], prev[n]) \in [Nodes -> Pointers]
  BY <1>1, BypassedTyped
<1>3. ASSUME NEW m \in Nodes
      PROVE  Bypassed(next, prev[n], next[n])[m] = IF m = prev[n] THEN next[n] ELSE next[m]
  BY <1>1, NodesAreNumbers DEF Bypassed, Pointers
<1>4. ASSUME NEW m \in Nodes
      PROVE  Bypassed(prev, next[n], prev[n])[m] = IF m = next[n] THEN prev[n] ELSE prev[m]
  BY <1>1, NodesAreNumbers DEF Bypassed, Pointers
<1>5. LET src == parent[n]
          fst == firstAfterRemoval(n, src)
          lst == lastAfterRemoval(n, src)
      IN  /\ fst \in [Lists -> Pointers] /\ lst \in [Lists -> Pointers]
          /\ \A l \in Lists : fst[l] = IF l = src /\ first[l] = n THEN next[n] ELSE first[l]
          /\ \A l \in Lists : lst[l] = IF l = src /\ last[l] = n THEN prev[n] ELSE last[l]
  BY <1>1 DEF firstAfterRemoval, lastAfterRemoval
<1> QED
  BY <1>2, <1>3, <1>4, <1>5

LEMMA MoveMoves ==
  ASSUME LinksTyped, NEW n \in Nodes, NEW dst \in Lists, NEW back \in BOOLEAN,
         moveNode(n, dst, back)
  PROVE  dst # parent[n] /\ parent[n] \in Lists /\ LinksTyped' /\ Moved(n, dst, back)
<1> DEFINE src == parent[n]
           fst == firstAfterRemoval(n, src)
           lst == lastAfterRemoval(n, src)
           nxt == Bypassed(next, prev[n], next[n])
           prv == Bypassed(prev, next[n], prev[n])
<1>1. src \in Lists /\ dst # src
  BY DEF LinksTyped, moveNode
<1>2. /\ nxt \in [Nodes -> Pointers] /\ prv \in [Nodes -> Pointers]
      /\ \A m \in Nodes : nxt[m] = IF m = prev[n] THEN next[n] ELSE next[m]
      /\ \A m \in Nodes : prv[m] = IF m = next[n] THEN prev[n] ELSE prev[m]
      /\ fst \in [Lists -> Pointers] /\ lst \in [Lists -> Pointers]
      /\ \A l \in Lists : fst[l] = IF l = src /\ first[l] = n THEN next[n] ELSE first[l]
      /\ \A l \in Lists : lst[l] = IF l = src /\ last[l] = n THEN prev[n] ELSE last[l]
  BY PastNode
<1>3. /\ parent' = [parent EXCEPT ![n] = dst]
      /\ back => /\ next' = [Bypassed(nxt, lst[dst], n) EXCEPT ![n] = NoNode]
                 /\ prev' = [prv EXCEPT ![n] = lst[dst]]
                 /\ last' = [lst EXCEPT ![dst] = n]
                 /\ first' = [fst EXCEPT ![dst] = IF @ = NoNode THEN n ELSE @]
      /\ ~back => /\ prev' = [Bypassed(prv, fst[dst], n) EXCEPT ![n] = NoNode]
                  /\ next' = [nxt EXCEPT ![n] = fst[dst]]
                  /\ first' = [fst EXCEPT ![dst] = n]
                  /\ last' = [lst EXCEPT ![dst] = IF @ = NoNode THEN n ELSE @]
  BY DEF moveNode
<1> HIDE DEF fst, lst, nxt, prv
<1>4. fst[dst] = first[dst] /\ lst[dst] = last[dst]
  BY <1>1, <1>2
<1>5. /\ parent' \in [Nodes -> Lists]
      /\ \A m \in Nodes : parent'[m] = IF m = n THEN dst ELSE parent[m]
  BY <1>3 DEF LinksTyped
<1>6. CASE back
  <2>0. /\ next' = [Bypassed(nxt, lst[dst], n) EXCEPT ![n] = NoNode]
        /\ prev' = [prv EXCEPT ![n] = lst[dst]]
        /\ last' = [lst EXCEPT ![dst] = n]
        /\ first' = [fst EXCEPT ![dst] = IF @ = NoNode THEN n ELSE @]
    BY <1>3, <1>6
  <2>1. /\ next' \in [Nodes -> Pointers] /\ prev' \in [Nodes -> Pointers]
        /\ first' \in [Lists -> Pointers] /\ last' \in [Lists -> Pointers]
        /\ \A m \in Nodes :
             /\ next'[m] = IF m = n THEN NoNode ELSE IF m = lst[dst] THEN n ELSE nxt[m]
             /\ prev'[m] = IF m = n THEN lst[dst] ELSE prv[m]
        /\ \A k \in Lists \ {dst} : first'[k] = fst[k] /\ last'[k] = lst[k]
        /\ last'[dst] = n
        /\ first'[dst] = IF fst[dst] = NoNode THEN n ELSE fst[dst]
    <3>1. n \in Pointers /\ NoNode \in Pointers /\ lst[dst] \in Pointers
      BY <1>2 DEF Pointers
    <3>2. Bypassed(nxt, lst[dst], n) \in [Nodes -> Pointers]
      BY <1>2, <3>1, BypassedTyped
    <3>3. ASSUME NEW m \in Nodes
          PROVE  Bypassed(nxt, lst[dst], n)[m] = IF m = lst[dst] THEN n ELSE nxt[m]
      BY <1>2, <3>1, NodesAreNumbers DEF Bypassed, Pointers
    <3> QED
      BY <1>2, <2>0, <3>1, <3>2, <3>3
  <2> QED
    BY <1>1, <1>2, <1>4, <1>5, <1>6, <2>1 DEF LinksTyped, Moved
<1>7. CASE ~back
  <2>0. /\ prev' = [Bypassed(prv, fst[dst], n) EXCEPT ![n] = NoNode]
        /\ next' = [nxt EXCEPT ![n] = fst[dst]]
        /\ first' = [fst EXCEPT ![dst] = n]
        /\ last' = [lst EXCEPT ![dst] = IF @ = NoNode THEN n ELSE @]
    BY <1>3, <1>7
  <2>1. /\ next' \in [Nodes -> Pointers] /\ prev' \in [Nodes -> Pointers]
        /\ first' \in [Lists -> Pointers] /\ last' \in [Lists -> Pointers]
        /\ \A m \in Nodes :
             /\ prev'[m] = IF m = n THEN NoNode ELSE IF m = fst[dst] THEN n ELSE prv[m]
             /\ next'[m] = IF m = n THEN fst[dst] ELSE nxt[m]
        /\ \A k \in Lists \ {dst} : first'[k] = fst[k] /\ last'[k] = lst[k]
        /\ first'[dst] = n
        /\ last'[dst] = IF lst[dst] = NoNode THEN n ELSE lst[dst]
    <3>1. n \in Pointers /\ NoNode \in Pointers /\ fst[dst] \in Pointers
      BY <1>2 DEF Pointers
    <3>2. Bypassed(prv, fst[dst], n) \in [Nodes -> Pointers]
      BY <1>2, <3>1, BypassedTyped
    <3>3. ASSUME NEW m \in Nodes
          PROVE  Bypassed(prv, fst[dst], n)[m] = IF m = fst[dst] THEN n ELSE prv[m]
      BY <1>2, <3>1, NodesAreNumbers DEF Bypassed, Pointers
    <3> QED
      BY <1>2, <2>0, <3>1, <3>2, <3>3
  <2> QED
    BY <1>1, <1>2, <1>4, <1>5, <1>7, <2>1 DEF LinksTyped, Moved
<1> QED
  BY <1>6, <1>7

\* The pointers to other nodes that a move reads lead to nodes of the same list.
LEMMA NeighboursOf ==
  ASSUME NEW l, NEW s, OfList(l, s), NEW p \in 1..Len(s)
  PROVE  /\ next[s[p]] = Place(s, p + 1) /\ prev[s[p]] = Place(s, p - 1)
         /\ \A m \in Nodes : parent[m] # l =>
              m # next[s[p]] /\ m # prev[s[p]] /\ m # first[l] /\ m # last[l]
<1>1. next[s[p]] = Place(s, p + 1) /\ prev[s[p]] = Place(s, p - 1)
  BY DEF OfList
<1>2. ASSUME NEW m \in Nodes, parent[m] # l, NEW i
      PROVE  m # Place(s, i)
  <2>1. \A j \in 1..Len(s) : s[j] \in Nodes /\ parent[s[j]] = l
    BY DEF OfList
  <2> QED
    BY <1>2, <2>1, NodesAreNumbers DEF Place
<1> QED
  BY <1>1, <1>2 DEF OfList

LEMMA EndsOf ==
  ASSUME NEW l, NEW s, OfList(l, s)
  PROVE  \A m \in Nodes : parent[m] # l => m # first[l] /\ m # last[l]
BY NodesAreNumbers, PlaceTyped DEF OfList, Place

LEMMA OthersKept ==
  ASSUME NEW n \in Nodes, NEW dst \in Lists, NEW back \in BOOLEAN,
         dst # parent[n], parent[n] \in Lists, Moved(n, dst, back),
         NEW s, OfList(parent[n], s), NEW d, OfList(dst, d),
         NEW l \in Lists \ {parent[n], dst}, NEW e, OfList(l, e)
  PROVE  OfList(l, e)'
<1>1. PICK p \in 1..Len(s) : s[p] = n
  BY DEF OfList
<1>2. \A i \in 1..Len(e) : /\ e[i] \in Nodes /\ parent[e[i]] = l /\ e[i] # n
                           /\ e[i] # next[n] /\ e[i] # prev[n]
                           /\ e[i] # first[dst] /\ e[i] # last[dst]
  <2>1. \A i \in 1..Len(e) : e[i] \in Nodes /\ parent[e[i]] = l
    BY DEF OfList
  <2>2. \A m \in Nodes : parent[m] # parent[n] => m # next[n] /\ m # prev[n]
    BY <1>1, NeighboursOf
  <2>3. \A m \in Nodes : parent[m] # dst => m # first[dst] /\ m # last[dst]
    BY EndsOf
  <2> QED
    BY <2>1, <2>2, <2>3
<1>3. \A i \in 1..Len(e) : next'[e[i]] = next[e[i]] /\ prev'[e[i]] = prev[e[i]]
  BY <1>2 DEF Moved
<1>4. first'[l] = first[l] /\ last'[l] = last[l]
  BY DEF Moved
<1>5. \A m \in Nodes : parent'[m] = l <=> parent[m] = l
  BY DEF Moved
<1> QED
  BY <1>3, <1>4, <1>5 DEF OfList, Place

LEMMA RemoveAtFacts ==
  ASSUME NEW S, NEW s \in Seq(S), NEW p \in 1..Len(s)
  PROVE  /\ RemoveAt(s, p) \in Seq(S)
         /\ Len(RemoveAt(s, p)) = Len(s) - 1
         /\ \A i \in 1..(Len(s) - 1) : RemoveAt(s, p)[i] = IF i < p THEN s[i] ELSE s[i + 1]
<1> DEFINE a == SubSeq(s, 1, p - 1)
           b == SubSeq(s, p + 1, Len(s))
<1>1. /\ a \in Seq(S) /\ Len(a) = p - 1
      /\ \A i \in 1..(p - 1) : a[i] = s[i]
  OBVIOUS
<1>2. /\ b \in Seq(S) /\ Len(b) = Len(s) - p
      /\ \A i \in 1..(Len(s) - p) : b[i] = s[p + i]
  OBVIOUS
<1>3. RemoveAt(s, p) = a \o b
  BY DEF RemoveAt
<1> HIDE DEF a, b
<1>4. /\ a \o b \in Seq(S) /\ Len(a \o b) = Len(a) + Len(b)
      /\ \A i \in 1..(Len(a) + Len(b)) : (a \o b)[i] = IF i =< Len(a) THEN a[i] ELSE b[i - Len(a)]
  BY <1>1, <1>2, ConcatProperties
<1>5. ASSUME NEW i \in 1..(Len(s) - 1)
      PROVE  (a \o b)[i] = IF i < p THEN s[i] ELSE s[i + 1]
  <2>1. CASE i < p
    BY <1>1, <1>2, <1>4, <2>1
  <2>2. CASE i >= p
    <3>1. i - Len(a) \in 1..(Len(s) - p) /\ p + (i - Len(a)) = i + 1
      BY <1>1, <2>2
    <3>2. (a \o b)[i] = b[i - Len(a)]
      BY <1>1, <1>2, <1>4, <2>2
    <3>3. b[i - Len(a)] = s[p + (i - Len(a))]
      BY <1>2, <3>1
    <3>4. ~(i < p)
      BY <2>2
    <3> QED
      BY <3>1, <3>2, <3>3, <3>4
  <2>3. i \in Nat /\ p \in Nat
    OBVIOUS
  <2>4. i < p \/ i >= p
    BY <2>3
  <2> QED
    BY <2>1, <2>2, <2>4
<1> QED
  BY <1>1, <1>2, <1>3, <1>4, <1>5

\* The list that the node is taken from.
LEMMA SourceLeft ==
  ASSUME NEW n \in Nodes, NEW dst \in Lists, NEW back \in BOOLEAN,
         dst # parent[n], parent[n] \in Lists, Moved(n, dst, back),
         NEW s, OfList(parent[n], s), NEW d, OfList(dst, d),
         NEW p \in 1..Len(s), s[p] = n
  PROVE  \A src : src = parent[n] => OfList(src, RemoveAt(s, p))'
<1> DEFINE src == parent[n]
           r == RemoveAt(s, p)
           At(i) == IF i < p THEN i ELSE i + 1
<1>1. /\ s \in Seq(Nodes) /\ Len(s) \in Nat
      /\ \A i \in 1..Len(s) : s[i] \in Nodes /\ parent[s[i]] = src
      /\ \A i, j \in 1..Len(s) : s[i] = s[j] => i = j
  <2>1. s \in Seq(Nodes) /\ Len(s) \in Nat /\ \A i \in 1..Len(s) : s[i] \in Nodes
    BY DEF OfList
  <2> QED
    BY <2>1 DEF OfList
<1>2. /\ r \in Seq(Nodes) /\ Len(r) = Len(s) - 1
      /\ \A i \in 1..Len(r) : r[i] = s[At(i)]
  <2>1. /\ r \in Seq(Nodes) /\ Len(r) = Len(s) - 1
        /\ \A i \in 1..(Len(s) - 1) : r[i] = IF i < p THEN s[i] ELSE s[i + 1]
    BY <1>1, RemoveAtFacts
  <2> HIDE DEF r
  <2> QED
    BY <2>1
<1> HIDE DEF r
<1>3. \A i \in 1..Len(r) : At(i) \in 1..Len(s) /\ At(i) # p
  BY <1>1, <1>2
<1>4. \A i \in Int : Place(r, i) = Place(s, At(i))
  BY <1>1, <1>2, <1>3 DEF Place
<1>5. /\ next[n] = Place(s, p + 1) /\ prev[n] = Place(s, p - 1)
      /\ first[src] = Place(s, 1) /\ last[src] = Place(s, Len(s))
  BY NeighboursOf DEF OfList
<1> HIDE DEF At
<1>6. \A i, j \in 1..Len(r) : r[i] = r[j] => i = j
  <2> SUFFICES ASSUME NEW i \in 1..Len(r), NEW j \in 1..Len(r), r[i] = r[j]
               PROVE  i = j
    OBVIOUS
  <2>1. At(i) = At(j)
    BY <1>1, <1>2, <1>3
  <2> QED
    BY <2>1, <1>2 DEF At
<1>7. ASSUME NEW m \in Nodes
      PROVE  parent'[m] = src <=> \E i \in 1..Len(r) : r[i] = m
  <2>1. parent'[m] = src <=> m # n /\ parent[m] = src
    BY DEF Moved
  <2>2. CASE m = n
    <3>1. \A i \in 1..Len(r) : r[i] # n
      BY <1>1, <1>2, <1>3
    <3> QED
      BY <2>1, <2>2, <3>1
  <2>3. CASE m # n
    <3>1. ASSUME parent[m] = src
          PROVE  \E i \in 1..Len(r) : r[i] = m
      <4>1. PICK i \in 1..Len(s) : s[i] = m
        BY <3>1 DEF OfList
      <4>2. CASE i < p
        <5>1. i \in 1..Len(r) /\ At(i) = i
          BY <1>1, <1>2, <4>2 DEF At
        <5> QED
          BY <1>2, <4>1, <5>1
      <4>3. CASE i > p
        <5>1. i - 1 \in 1..Len(r) /\ At(i - 1) = i
          BY <1>1, <1>2, <4>3 DEF At
        <5> QED
          BY <1>2, <4>1, <5>1
      <4> QED
        BY <2>3, <4>1, <4>2, <4>3, <1>1
    <3>2. ASSUME NEW i \in 1..Len(r), r[i] = m
          PROVE  parent[m] = src
      BY <1>1, <1>2, <1>3, <3>2
    <3> QED
      BY <2>1, <2>3, <3>1, <3>2
  <2> QED
    BY <2>2, <2>3
<1>8. first'[src] = Place(r, 1) /\ last'[src] = Place(r, Len(r))
  <2>1. Place(s, 1) = n <=> p = 1
    BY <1>1 DEF Place
  <2>2. Place(s, Len(s)) = n <=> p = Len(s)
    BY <1>1 DEF Place
  <2>3. /\ first'[src] = IF p = 1 THEN Place(s, p + 1) ELSE Place(s, 1)
        /\ last'[src] = IF p = Len(s) THEN Place(s, p - 1) ELSE Place(s, Len(s))
    BY <1>5, <2>1, <2>2 DEF Moved
  <2>4. /\ At(1) = IF p = 1 THEN p + 1 ELSE 1
        /\ At(Len(r)) = IF p = Len(s) THEN p - 1 ELSE Len(s)
    BY <1>1, <1>2 DEF At
  <2> QED
    BY <1>1, <1>2, <1>4, <2>3, <2>4
<1>9. ASSUME NEW i \in 1..Len(r)
      PROVE  next'[r[i]] = Place(r, i + 1) /\ prev'[r[i]] = Place(r, i - 1)
  <2>1. /\ At(i) \in 1..Len(s) /\ At(i) # p
        /\ r[i] = s[At(i)] /\ r[i] \in Nodes /\ parent[r[i]] = src /\ r[i] # n
    BY <1>1, <1>2, <1>3
  <2>2. r[i] # first[dst] /\ r[i] # last[dst]
    BY <2>1, EndsOf
  <2>3. next[r[i]] = Place(s, At(i) + 1) /\ prev[r[i]] = Place(s, At(i) - 1)
    <3>1. \A k \in 1..Len(s) : next[s[k]] = Place(s, k + 1) /\ prev[s[k]] = Place(s, k - 1)
      BY DEF OfList
    <3> HIDE DEF At
    <3> QED
      BY <2>1, <3>1
  <2>4. r[i] = prev[n] <=> At(i) = p - 1
    <3>1. CASE p - 1 \in 1..Len(s)
      <4>1. prev[n] = s[p - 1]
        BY <1>5, <3>1 DEF Place
      <4>2. s[At(i)] = s[p - 1] <=> At(i) = p - 1
        BY <1>1, <2>1, <3>1
      <4> QED
        BY <2>1, <4>1, <4>2
    <3>2. CASE p - 1 \notin 1..Len(s)
      <4>1. prev[n] = NoNode
        BY <1>5, <3>2 DEF Place
      <4> QED
        BY <2>1, <3>2, <4>1, NodesAreNumbers
    <3> QED
      BY <3>1, <3>2
  <2>5. r[i] = next[n] <=> At(i) = p + 1
    <3>1. CASE p + 1 \in 1..Len(s)
      <4>1. next[n] = s[p + 1]
        BY <1>5, <3>1 DEF Place
      <4>2. s[At(i)] = s[p + 1] <=> At(i) = p + 1
        BY <1>1, <2>1, <3>1
      <4> QED
        BY <2>1, <4>1, <4>2
    <3>2. CASE p + 1 \notin 1..Len(s)
      <4>1. next[n] = NoNode
        BY <1>5, <3>2 DEF Place
      <4> QED
        BY <2>1, <3>2, <4>1, NodesAreNumbers
    <3> QED
      BY <3>1, <3>2
  <2>6. /\ next'[r[i]] = IF r[i] = prev[n] THEN next[n] ELSE next[r[i]]
        /\ prev'[r[i]] = IF r[i] = next[n] THEN prev[n] ELSE prev[r[i]]
    BY <2>1, <2>2 DEF Moved
  <2>7. /\ next'[r[i]] = IF At(i) = p - 1 THEN Place(s, p + 1) ELSE Place(s, At(i) + 1)
        /\ prev'[r[i]] = IF At(i) = p + 1 THEN Place(s, p - 1) ELSE Place(s, At(i) - 1)
    BY <1>5, <2>3, <2>4, <2>5, <2>6
  <2>8. /\ At(i + 1) = IF At(i) = p - 1 THEN p + 1 ELSE At(i) + 1
        /\ At(i - 1) = IF At(i) = p + 1 THEN p - 1 ELSE At(i) - 1
    BY <1>1, <1>2 DEF At
  <2>9. Place(r, i + 1) = Place(s, At(i + 1)) /\ Place(r, i - 1) = Place(s, At(i - 1))
    BY <1>4
  <2> QED
    BY <2>7, <2>8, <2>9
<1>10. \A l : l = src => OfList(l, r)'
  BY <1>2, <1>6, <1>7, <1>8, <1>9 DEF OfList, Place
<1> QED
  BY <1>10 DEF r

\* The list that the node is added to, at its end or its beginning.
LEMMA TargetGrown ==
  ASSUME NEW n \in Nodes, NEW dst \in Lists, NEW back \in BOOLEAN,
         dst # parent[n], parent[n] \in Lists, Moved(n, dst, back),
         NEW s, OfList(parent[n], s), NEW d, OfList(dst, d),
         NEW p \in 1..Len(s), s[p] = n
  PROVE  OfList(dst, IF back THEN Append(d, n) ELSE Cons(n, d))'
<1> DEFINE e == IF back THEN Append(d, n) ELSE Cons(n, d)
           new == IF back THEN Len(d) + 1 ELSE 1
           At(i) == IF back THEN i ELSE i + 1
<1>1. /\ d \in Seq(Nodes) /\ Len(d) \in Nat
      /\ \A i \in 1..Len(d) : d[i] \in Nodes /\ parent[d[i]] = dst
      /\ \A i, j \in 1..Len(d) : d[i] = d[j] => i = j
  <2>1. d \in Seq(Nodes) /\ Len(d) \in Nat /\ \A i \in 1..Len(d) : d[i] \in Nodes
    BY DEF OfList
  <2> QED
    BY <2>1 DEF OfList
<1>2. /\ e \in Seq(Nodes) /\ Len(e) = Len(d) + 1
      /\ e[new] = n
      /\ \A i \in 1..Len(d) : e[At(i)] = d[i]
  <2>1. CASE back
    <3>1. /\ Append(d, n) \in Seq(Nodes) /\ Len(Append(d, n)) = Len(d) + 1
          /\ Append(d, n)[Len(d) + 1] = n
          /\ \A i \in 1..Len(d) : Append(d, n)[i] = d[i]
      BY <1>1, AppendProperties
    <3> QED
      BY <2>1, <3>1
  <2>2. CASE ~back
    <3>1. /\ <<n>> \in Seq(Nodes) /\ Len(<<n>>) = 1 /\ <<n>>[1] = n
      OBVIOUS
    <3>2. /\ <<n>> \o d \in Seq(Nodes) /\ Len(<<n>> \o d) = 1 + Len(d)
          /\ \A i \in 1..(1 + Len(d)) : (<<n>> \o d)[i] = IF i =< 1 THEN <<n>>[i] ELSE d[i - 1]
      BY <1>1, <3>1, ConcatProperties
    <3>3. Cons(n, d) = <<n>> \o d
      BY DEF Cons
    <3> HIDE DEF e
    <3>4. e = <<n>> \o d /\ new = 1 /\ \A i : At(i) = i + 1
      BY <2>2, <3>3 DEF e
    <3>5. \A i \in 1..Len(d) : (<<n>> \o d)[i + 1] = d[i]
      BY <1>1, <3>2
    <3> QED
      BY <1>1, <3>1, <3>2, <3>4, <3>5
  <2> QED
    BY <2>1, <2>2
<1> HIDE DEF e
<1>3. /\ new \in 1..Len(e)
      /\ \A i \in 1..Len(d) : At(i) \in 1..Len(e) /\ At(i) # new
      /\ \A j \in 1..Len(e) : j # new => \E i \in 1..Len(d) : j = At(i)
      /\ \A i, j \in 1..Len(d) : At(i) = At(j) => i = j
  <2>1. CASE back
    BY <1>1, <1>2, <2>1
  <2>2. CASE ~back
    <3>1. ASSUME NEW j \in 1..Len(e), j # new
          PROVE  \E i \in 1..Len(d) : j = At(i)
      <4>1. j - 1 \in 1..Len(d) /\ j = At(j - 1)
        BY <1>1, <1>2, <2>2, <3>1
      <4> QED
        BY <4>1
    <3> QED
      BY <1>1, <1>2, <2>2, <3>1
  <2> QED
    BY <2>1, <2>2
<1>4. \A i \in 1..Len(d) : d[i] # n
  BY <1>1
<1>5. \A i, j \in 1..Len(e) : e[i] = e[j] => i = j
  <2> HIDE DEF At, new
  <2> SUFFICES ASSUME NEW i \in 1..Len(e), NEW j \in 1..Len(e), e[i] = e[j]
               PROVE  i = j
    OBVIOUS
  <2>0. ASSUME NEW k \in 1..Len(e), k # new
        PROVE  e[k] # n
    <3>1. PICK m \in 1..Len(d) : k = At(m)
      BY <1>3, <2>0
    <3> QED
      BY <1>2, <1>4, <3>1
  <2>1. CASE i = new \/ j = new
    <3>1. i # new => e[i] # n
      BY <2>0
    <3>2. j # new => e[j] # n
      BY <2>0
    <3> QED
      BY <1>2, <2>1, <3>1, <3>2
  <2>2. CASE i # new /\ j # new
    <3>1. PICK k \in 1..Len(d) : i = At(k)
      BY <1>3, <2>2
    <3>2. PICK m \in 1..Len(d) : j = At(m)
      BY <1>3, <2>2
    <3> QED
      BY <1>1, <1>2, <3>1, <3>2
  <2> QED
    BY <2>1, <2>2
<1>6. ASSUME NEW m \in Nodes
      PROVE  parent'[m] = dst <=> \E i \in 1..Len(e) : e[i] = m
  <2> HIDE DEF At, new
  <2>1. parent'[m] = dst <=> m = n \/ parent[m] = dst
    BY DEF Moved
  <2>2. parent[m] = dst <=> \E i \in 1..Len(d) : d[i] = m
    BY DEF OfList
  <2>3. ASSUME NEW i \in 1..Len(e), e[i] = m, i # new
        PROVE  parent[m] = dst
    <3>1. PICK k \in 1..Len(d) : i = At(k)
      BY <1>3, <2>3
    <3> QED
      BY <1>1, <1>2, <2>3, <3>1
  <2>4. ASSUME NEW k \in 1..Len(d), d[k] = m
        PROVE  \E i \in 1..Len(e) : e[i] = m
    <3>1. At(k) \in 1..Len(e) /\ e[At(k)] = m
      BY <1>2, <1>3, <2>4
    <3> QED
      BY <3>1
  <2>5. \E i \in 1..Len(e) : e[i] = n
    BY <1>2, <1>3
  <2>6. parent'[m] = dst => \E i \in 1..Len(e) : e[i] = m
    BY <2>1, <2>2, <2>4, <2>5
  <2>7. ASSUME NEW i \in 1..Len(e), e[i] = m
        PROVE  parent'[m] = dst
    <3>1. CASE i = new
      BY <1>2, <2>1, <2>7, <3>1
    <3>2. CASE i # new
      BY <2>1, <2>3, <2>7, <3>2
    <3> QED
      BY <3>1, <3>2
  <2> QED
    BY <2>6, <2>7
<1>7. first[dst] = Place(d, 1) /\ last[dst] = Place(d, Len(d))
  BY DEF OfList
<1>8. first'[dst] = Place(e, 1) /\ last'[dst] = Place(e, Len(e))
  <2>1. CASE Len(d) = 0
    <3>1. first[dst] = NoNode /\ last[dst] = NoNode
      BY <1>7, <2>1 DEF Place
    <3>2. first'[dst] = n /\ last'[dst] = n
      BY <3>1 DEF Moved
    <3>3. Len(e) = 1 /\ new = 1
      BY <1>2, <2>1
    <3> HIDE DEF new
    <3>4. e[1] = n
      BY <1>2, <3>3
    <3> QED
      BY <3>2, <3>3, <3>4 DEF Place
  <2>2. CASE Len(d) # 0
    <3>1. /\ first[dst] = d[1] /\ last[dst] = d[Len(d)]
          /\ first[dst] # NoNode /\ last[dst] # NoNode
          /\ 1 \in 1..Len(d) /\ Len(d) \in 1..Len(d)
      BY <1>1, <1>7, <2>2, NodesAreNumbers DEF Place
    <3>2. CASE back
      <4>1. first'[dst] = d[1] /\ last'[dst] = n
        BY <3>1, <3>2 DEF Moved
      <4>2. e[1] = d[1] /\ e[Len(d) + 1] = n
        BY <1>2, <3>1, <3>2
      <4> QED
        BY <1>1, <1>2, <4>1, <4>2 DEF Place
    <3>3. CASE ~back
      <4>1. first'[dst] = n /\ last'[dst] = d[Len(d)]
        BY <3>1, <3>3 DEF Moved
      <4>2. e[1] = n /\ e[Len(d) + 1] = d[Len(d)]
        BY <1>2, <3>1, <3>3
      <4> QED
        BY <1>1, <1>2, <4>1, <4>2 DEF Place
    <3> QED
      BY <3>2, <3>3
  <2> QED
    BY <2>1, <2>2
<1>9. /\ next'[n] = IF back THEN NoNode ELSE Place(d, 1)
      /\ prev'[n] = IF back THEN Place(d, Len(d)) ELSE NoNode
  BY <1>7 DEF Moved
<1>10. \A i \in 1..Len(d) :
         /\ d[i] # next[n] /\ d[i] # prev[n]
         /\ next[d[i]] = Place(d, i + 1) /\ prev[d[i]] = Place(d, i - 1)
  <2>1. \A i \in 1..Len(d) : parent[d[i]] # parent[n]
    BY <1>1
  <2>2. \A m \in Nodes : parent[m] # parent[n] => m # next[n] /\ m # prev[n]
    BY NeighboursOf
  <2>3. \A i \in 1..Len(d) : next[d[i]] = Place(d, i + 1) /\ prev[d[i]] = Place(d, i - 1)
    BY DEF OfList
  <2> QED
    BY <1>1, <2>1, <2>2, <2>3
<1>11. ASSUME NEW i \in 1..Len(d)
       PROVE  /\ d[i] = first[dst] <=> i = 1
              /\ d[i] = last[dst] <=> i = Len(d)
  BY <1>1, <1>7 DEF Place
<1>12. ASSUME NEW i \in 1..Len(d)
       PROVE  /\ next'[d[i]] = IF back /\ i = Len(d) THEN n ELSE Place(d, i + 1)
              /\ prev'[d[i]] = IF ~back /\ i = 1 THEN n ELSE Place(d, i - 1)
  <2>1. d[i] \in Nodes /\ d[i] # n
    BY <1>1, <1>4
  <2> QED
    BY <2>1, <1>10, <1>11 DEF Moved
<1>13. ASSUME NEW j \in 1..Len(e)
       PROVE  next'[e[j]] = Place(e, j + 1) /\ prev'[e[j]] = Place(e, j - 1)
  <2>1. CASE back
    <3>1. \A k \in Int : Place(e, k) = IF k = Len(d) + 1 THEN n ELSE Place(d, k)
      BY <1>1, <1>2, <2>1 DEF Place
    <3>2. CASE j = Len(d) + 1
      <4>1. e[j] = n /\ Place(e, j + 1) = NoNode /\ Place(e, j - 1) = Place(d, Len(d))
        BY <1>1, <1>2, <2>1, <3>1, <3>2 DEF Place
      <4> QED
        BY <1>9, <2>1, <4>1
    <3>3. CASE j \in 1..Len(d)
      <4>1. e[j] = d[j]
        BY <1>2, <2>1, <3>3
      <4>2. /\ Place(e, j + 1) = IF j = Len(d) THEN n ELSE Place(d, j + 1)
            /\ Place(e, j - 1) = Place(d, j - 1)
        BY <1>1, <3>1, <3>3
      <4> QED
        BY <1>12, <2>1, <3>3, <4>1, <4>2
    <3> QED
      BY <1>1, <1>2, <3>2, <3>3
  <2>2. CASE ~back
    <3>1. \A k \in Int : Place(e, k) = IF k = 1 THEN n ELSE Place(d, k - 1)
      <4> SUFFICES ASSUME NEW k \in Int
                   PROVE  Place(e, k) = IF k = 1 THEN n ELSE Place(d, k - 1)
        OBVIOUS
      <4>1. CASE k = 1
        BY <1>1, <1>2, <2>2, <4>1 DEF Place
      <4>2. CASE k # 1 /\ k - 1 \in 1..Len(d)
        <5>1. k = At(k - 1) /\ k \in 1..Len(e)
          BY <1>1, <1>2, <2>2, <4>2
        <5>2. e[At(k - 1)] = d[k - 1]
          BY <1>2, <4>2
        <5> QED
          BY <4>2, <5>1, <5>2 DEF Place
      <4>3. CASE k # 1 /\ k - 1 \notin 1..Len(d)
        <5>1. k \notin 1..Len(e)
          BY <1>1, <1>2, <4>3
        <5> QED
          BY <4>3, <5>1 DEF Place
      <4> QED
        BY <4>1, <4>2, <4>3
    <3>2. CASE j = 1
      <4>1. e[j] = n /\ Place(e, j + 1) = Place(d, 1) /\ Place(e, j - 1) = NoNode
        <5>1. Place(e, 2) = Place(d, 1)
          BY <3>1
        <5>2. Place(e, 0) = NoNode
          BY DEF Place
        <5>3. e[1] = n
          BY <1>2, <2>2
        <5> QED
          BY <3>2, <5>1, <5>2, <5>3
      <4> QED
        BY <1>9, <2>2, <4>1
    <3>3. CASE j - 1 \in 1..Len(d)
      <4>1. e[j] = d[j - 1]
        <5>1. j = At(j - 1)
          BY <2>2
        <5> QED
          BY <1>2, <3>3, <5>1
      <4>2. /\ Place(e, j + 1) = Place(d, (j - 1) + 1)
            /\ Place(e, j - 1) = IF j - 1 = 1 THEN n ELSE Place(d, (j - 1) - 1)
        BY <1>1, <3>1, <3>3
      <4> QED
        BY <1>12, <2>2, <3>3, <4>1, <4>2
    <3> QED
      BY <1>1, <1>2, <3>2, <3>3
  <2> QED
    BY <2>1, <2>2
<1>14. OfList(dst, e)'
  BY <1>2, <1>5, <1>6, <1>8, <1>13 DEF OfList, Place
<1> QED
  BY <1>14 DEF e

\* Sequence c2 comes of a move of node n.
MovedSequences(c, c2, n, dst, back) ==
  \E p \in 1..Len(c[parent[n]]) :
    /\ c[parent[n]][p] = n
    /\ c2 = [c EXCEPT ![parent[n]] = RemoveAt(@, p),
                      ![dst] = IF back THEN Append(@, n) ELSE Cons(n, @)]

LEMMA MoveOfLists ==
  ASSUME NEW c, ListsOf(c), NEW n \in Nodes, NEW dst \in Lists, NEW back \in BOOLEAN,
         moveNode(n, dst, back)
  PROVE  \E c2 : ListsOf(c2)' /\ MovedSequences(c, c2, n, dst, back)
<1>1. dst # parent[n] /\ parent[n] \in Lists /\ LinksTyped' /\ Moved(n, dst, back)
  BY MoveMoves DEF ListsOf
<1>2. PICK src \in Lists : src = parent[n]
  BY <1>1
<1>3. /\ c \in [Lists -> Seq(Nodes)] /\ OfList(src, c[src]) /\ OfList(dst, c[dst])
      /\ \A l \in Lists : OfList(l, c[l])
  BY <1>2 DEF ListsOf
<1>4. PICK p \in 1..Len(c[src]) : c[src][p] = n
  BY <1>2, <1>3 DEF OfList
<1> DEFINE r == RemoveAt(c[src], p)
           e == IF back THEN Append(c[dst], n) ELSE Cons(n, c[dst])
           c2 == [c EXCEPT ![src] = RemoveAt(@, p),
                           ![dst] = IF back THEN Append(@, n) ELSE Cons(n, @)]
<1>5. OfList(src, r)'
  BY <1>1, <1>2, <1>3, <1>4, SourceLeft
<1>6. OfList(dst, e)'
  BY <1>1, <1>2, <1>3, <1>4, TargetGrown
<1>7. ASSUME NEW l \in Lists \ {src, dst}
      PROVE  OfList(l, c[l])'
  <2>1. \A s, d, q : OfList(parent[n], s) /\ OfList(dst, d) /\ OfList(l, q) => OfList(l, q)'
    BY <1>1, <1>2, OthersKept
  <2>2. OfList(parent[n], c[src]) /\ OfList(dst, c[dst]) /\ OfList(l, c[l])
    BY <1>2, <1>3
  <2> QED
    BY <2>1, <2>2
<1>8. c2 = [l \in Lists |-> IF l = dst THEN e ELSE IF l = src THEN r ELSE c[l]]
  BY <1>1, <1>2, <1>3
<1> HIDE DEF r, e, c2
<1>9. r \in Seq(Nodes) /\ e \in Seq(Nodes)
  BY <1>5, <1>6 DEF OfList
<1>10. c2 \in [Lists -> Seq(Nodes)]
  BY <1>3, <1>8, <1>9
<1>11. c2[dst] = e /\ c2[src] = r /\ \A l \in Lists \ {src, dst} : c2[l] = c[l]
  BY <1>1, <1>2, <1>8
<1>12. \A l \in Lists : OfList(l, c2[l])'
  BY <1>5, <1>6, <1>7, <1>11
<1>13. ListsOf(c2)'
  BY <1>1, <1>10, <1>12 DEF ListsOf
<1>14. MovedSequences(c, c2, n, dst, back)
  BY <1>2, <1>4 DEF MovedSequences, c2
<1> QED
  BY <1>13, <1>14

\* No list is longer than the pool.
LEMMA ListFits ==
  ASSUME NEW l, NEW s, OfList(l, s)
  PROVE  Len(s) =< PoolSize
<1>1. s \in Seq(Nodes) /\ Len(s) \in Nat /\ PoolSize \in Nat
      /\ \A i, j \in 1..Len(s) : s[i] = s[j] => i = j
  BY ListsAssumption DEF OfList
<1>2. s \in Injection(1..Len(s), Nodes)
  <2>1. s \in [1..Len(s) -> Nodes]
    BY <1>1
  <2> QED
    BY <1>1, <2>1 DEF Injection, IsInjective
<1>3. IsFiniteSet(Nodes) /\ Cardinality(Nodes) = PoolSize
  <2>1. IsFiniteSet(1..PoolSize) /\ Cardinality(1..PoolSize) = IF 1 > PoolSize THEN 0 ELSE PoolSize - 1 + 1
    BY <1>1, FS_Interval
  <2> QED
    BY <1>1, <2>1 DEF Nodes
<1>4. Cardinality(1..Len(s)) = Len(s)
  <2>1. Cardinality(1..Len(s)) = IF 1 > Len(s) THEN 0 ELSE Len(s) - 1 + 1
    BY <1>1, FS_Interval
  <2> QED
    BY <1>1, <2>1
<1>5. Cardinality(1..Len(s)) =< Cardinality(Nodes)
  BY <1>2, <1>3, FS_Injection
<1> QED
  BY <1>3, <1>4, <1>5

\* Reading the lists gives the sequences.
LEMMA ReadsBack ==
  ASSUME NEW c, ListsOf(c)
  PROVE  Content = c
<1>1. ASSUME NEW l \in Lists
      PROVE  /\ Walk(next, first[l]) = c[l]
             /\ Walk(prev, last[l]) = Reverse(c[l])
             /\ {n \in Nodes : parent[n] = l} = Range(c[l])
  <2>1. OfList(l, c[l]) /\ c[l] \in Seq(Nodes) /\ Len(c[l]) =< PoolSize
    BY ListFits DEF ListsOf
  <2>2. Linked(next, c[l])
    BY <2>1 DEF Linked, OfList
  <2>3. Walk(next, first[l]) = c[l]
    BY <2>1, <2>2, WalkOfLinked DEF OfList
  <2>4. Walk(prev, last[l]) = Reverse(c[l])
    <3>1. \A i \in 1..Len(c[l]) : prev[c[l][i]] = Place(c[l], i - 1)
      BY <2>1 DEF OfList
    <3>2. last[l] = Place(c[l], Len(c[l]))
      BY <2>1 DEF OfList
    <3> QED
      BY <2>1, <3>1, <3>2, WalkBack
  <2>5. \A n \in Nodes : parent[n] = l <=> \E i \in 1..Len(c[l]) : c[l][i] = n
    BY <2>1 DEF OfList
  <2>6. Range(c[l]) = {c[l][i] : i \in 1..Len(c[l])}
    BY <2>1 DEF Range
  <2>7. \A i \in 1..Len(c[l]) : c[l][i] \in Nodes
    BY <2>1
  <2> QED
    BY <2>3, <2>4, <2>5, <2>6, <2>7
<1>2. Content = [l \in Lists |-> c[l]]
  BY <1>1 DEF Content
<1> QED
  BY <1>2 DEF ListsOf

ReadsWell == \A c : ListsOf(c) => Content = c

LEMMA AlwaysReadsWell == ReadsWell
BY ReadsBack DEF ReadsWell

LEMMA ListsBegin ==
  ASSUME buildList
  PROVE  \E c : ListsOf(c) /\ c[FreeList] \in Seq(Nodes)
                /\ (\A n \in Nodes : \E i \in 1..Len(c[FreeList]) : c[FreeList][i] = n)
                /\ \A m \in Lists \ {FreeList} : c[m] = <<>>
<1> DEFINE pool == [i \in Nodes |-> i]
           c == [l \in Lists |-> IF l = FreeList THEN pool ELSE <<>>]
<1>0. PoolSize \in Nat /\ PoolSize > 0 /\ FreeList \in Lists /\ Nodes = 1..PoolSize
  BY ListsAssumption DEF Nodes
<1>1. pool \in Seq(Nodes) /\ Len(pool) = PoolSize /\ \A i \in 1..PoolSize : pool[i] = i
  <2>1. pool \in [1..PoolSize -> Nodes]
    BY <1>0
  <2> QED
    BY <1>0, <2>1
<1>2. LinksTyped
  BY <1>0 DEF buildList, LinksTyped, Pointers, NoNode
<1> HIDE DEF pool
<1>3. \A i \in Int : Place(pool, i) = IF i \in 1..PoolSize THEN i ELSE NoNode
  BY <1>1 DEF Place
<1>4. OfList(FreeList, pool)
  <2>1. first[FreeList] = Place(pool, 1) /\ last[FreeList] = Place(pool, Len(pool))
    BY <1>0, <1>1, <1>3 DEF buildList
  <2>2. ASSUME NEW i \in 1..Len(pool)
        PROVE  next[pool[i]] = Place(pool, i + 1) /\ prev[pool[i]] = Place(pool, i - 1)
    <3>1. i \in Nodes /\ i \in 1..PoolSize /\ pool[i] = i
      BY <1>0, <1>1
    <3>2. next[i] = (IF i = PoolSize THEN NoNode ELSE i + 1) /\ prev[i] = i - 1
      BY <3>1 DEF buildList
    <3>3. Place(pool, i + 1) = IF i = PoolSize THEN NoNode ELSE i + 1
      BY <1>0, <1>3, <3>1
    <3>4. Place(pool, i - 1) = i - 1
      BY <1>0, <1>3, <3>1 DEF NoNode
    <3> QED
      BY <3>1, <3>2, <3>3, <3>4
  <2>3. \A n \in Nodes : parent[n] = FreeList <=> \E i \in 1..Len(pool) : pool[i] = n
    BY <1>0, <1>1 DEF buildList
  <2> QED
    BY <1>1, <2>1, <2>2, <2>3 DEF OfList
<1>5. ASSUME NEW l \in Lists, l # FreeList
      PROVE  OfList(l, <<>>)
  <2>1. \A n \in Nodes : parent[n] # l
    BY <1>5 DEF buildList
  <2>2. first[l] = NoNode /\ last[l] = NoNode
    BY <1>5 DEF buildList
  <2> QED
    BY <2>1, <2>2 DEF OfList, Place
<1>6. /\ c \in [Lists -> Seq(Nodes)]
      /\ c[FreeList] = pool
      /\ \A m \in Lists \ {FreeList} : c[m] = <<>>
  <2>1. <<>> \in Seq(Nodes)
    OBVIOUS
  <2> QED
    BY <1>0, <1>1, <2>1
<1> HIDE DEF c
<1>7. ListsOf(c)
  BY <1>2, <1>4, <1>5, <1>6 DEF ListsOf
<1>8. \A n \in Nodes : \E i \in 1..Len(c[FreeList]) : c[FreeList][i] = n
  BY <1>0, <1>1, <1>6
<1> QED
  BY <1>1, <1>6, <1>7, <1>8

ListsInv == \E c : ListsOf(c)

LEMMA SequencesBegin == buildList => ListsInv /\ Links!SequencesInit
<1> SUFFICES ASSUME buildList
             PROVE  ListsInv /\ Links!SequencesInit
  OBVIOUS
<1>1. PICK c : /\ ListsOf(c) /\ c[FreeList] \in Seq(Nodes)
               /\ \A n \in Nodes : \E i \in 1..Len(c[FreeList]) : c[FreeList][i] = n
               /\ \A m \in Lists \ {FreeList} : c[m] = <<>>
  BY ListsBegin
<1>2. Content = c
  BY <1>1, ReadsBack
<1>3. DOMAIN c[FreeList] = 1..Len(c[FreeList])
  BY <1>1
<1> QED
  BY <1>1, <1>2, <1>3, ListsAssumption DEF ListsInv, Links!SequencesInit

LEMMA SequencesMove ==
  ASSUME ListsInv, NEW n \in Nodes, NEW dst \in Lists, NEW back \in BOOLEAN,
         moveNode(n, dst, back)
  PROVE  ListsInv' /\ Links!MoveSequences(n, dst, back)
<1>1. PICK c : ListsOf(c)
  BY DEF ListsInv
<1>2. PICK c2 : ListsOf(c2)' /\ MovedSequences(c, c2, n, dst, back)
  BY <1>1, MoveOfLists
<1>3. Content = c
  BY <1>1, ReadsBack
<1>4. Content' = c2
  <2>1. ReadsWell'
    BY AlwaysReadsWell, PTL
  <2> QED
    BY <1>2, <2>1 DEF ReadsWell
<1>5. parent[n] \in Lists \ {dst} /\ c[parent[n]] \in Seq(Nodes)
  BY <1>1, MoveMoves DEF ListsOf
<1>6. DOMAIN c[parent[n]] = 1..Len(c[parent[n]])
  BY <1>5
<1>7. Links!MoveSequences(n, dst, back)
  BY <1>2, <1>3, <1>4, <1>5, <1>6 DEF MovedSequences, Links!MoveSequences, Links!RemoveAt,
     Links!Cons, RemoveAt, Cons
<1> QED
  BY <1>2, <1>7 DEF ListsInv

LEMMA SequencesStep ==
  ListsInv /\ [LinksNext]_linkVars => ListsInv' /\ [Links!SequencesNext]_linkVars
<1> SUFFICES ASSUME ListsInv, [LinksNext]_linkVars
             PROVE  ListsInv' /\ [Links!SequencesNext]_linkVars
  OBVIOUS
<1>1. ASSUME NEW n \in Nodes, NEW dst \in Lists, NEW back \in BOOLEAN, moveNode(n, dst, back)
      PROVE  ListsInv' /\ Links!SequencesNext
  <2>1. ListsInv' /\ Links!MoveSequences(n, dst, back)
    BY <1>1, SequencesMove
  <2> QED
    BY <2>1 DEF Links!SequencesNext
<1>2. ASSUME NEW dst \in Lists, NEW back \in BOOLEAN, allocateNode(dst, back)
      PROVE  ListsInv' /\ Links!SequencesNext
  <2>1. first[FreeList] \in Nodes
    BY <1>2, ListsAssumption DEF allocateNode, ListsInv, ListsOf, LinksTyped, Pointers
  <2> QED
    BY <1>1, <1>2, <2>1 DEF allocateNode
<1>3. CASE UNCHANGED linkVars
  <2>1. PICK c : ListsOf(c)
    BY DEF ListsInv
  <2>2. ListsOf(c)'
    BY <1>3, <2>1 DEF linkVars, ListsOf, LinksTyped, OfList, Place
  <2> QED
    BY <1>3, <2>2 DEF ListsInv
<1> QED
  BY <1>1, <1>2, <1>3 DEF LinksNext

\* The lists of list.c, with any number of nodes and lists, implement sequences
\* between whose ends nodes move: forwards, backwards and by their nodes' parents
\* they read the same, and a move changes the two sequences it is about only.
THEOREM ListsAreSequences == LinksSpec => ListsImplementSequences
<1>1. ListsInv /\ [LinksNext]_linkVars => [UNCHANGED linkVars \/ Links!SequencesNext]_linkVars
  BY SequencesStep
<1>2. ListsInv /\ [LinksNext]_linkVars => ListsInv'
  BY SequencesStep
<1> QED
  BY SequencesBegin, <1>1, <1>2, PTL DEF LinksSpec, ListsImplementSequences
=============================================================================
