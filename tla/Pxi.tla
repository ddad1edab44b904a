--------------------------------- MODULE Pxi ---------------------------------
(***************************************************************************)
(* The pxi module: it hands commands of arm11 processes to Process9, on    *)
(* the other processor, and Process9's answers back.                       *)
(*                                                                         *)
(* Four threads: the sender replies to and receives from the processes and *)
(* sends to Process9; the receiver fetches what Process9 sends; a handler  *)
(* serves the one service that Process9 is the client of, PXISRV11; main   *)
(* accepts sessions and ends the module.  The sender holds senderLock      *)
(* except in svcReplyAndReceive: a turn of its loop is a step.             *)
(***************************************************************************)
EXTENDS Integers, FiniteSets, Sequences, FiniteSetsExt

CONSTANTS
  Services,          \* services of arm11 processes; 0 is pxi:mc
  NbStaticBuffers,   \* NB_STATIC_BUFFERS
  CounterSize,       \* 2^32, how many values the counter of commands has
  SleepAlone         \* pxi:mc asks for sleep only when nobody else asks anything

SRV11 == 9

Ids == Services \cup {SRV11}

\* nbStaticBuffersByService
StaticBuffersOf ==
  [i \in 0..8 |-> CASE i = 0 -> 0 [] i \in 1..4 -> 2 [] i = 5 -> 1 [] OTHER -> 4]

\* The static buffers that a thread has.
MaxProvided == 4

ASSUME PxiAssumption ==
  /\ Services \subseteq 0..8 /\ 0 \in Services
  /\ NbStaticBuffers \in Nat
  /\ CounterSize \in Nat \ {0}
  /\ SleepAlone \in BOOLEAN

VARIABLES
  process,     \* the client process of each service
  asleep,      \* what pxi:mc's client has asked for last
  quiet,       \* the processes ask nothing any more
  session,     \* sessionData: state, usedStaticBuffers, and if handle is not 0
  mc5,         \* latest_PXI_MC5_val
  pending,     \* pendingArm9Commands
  disabled,    \* sendingDisabled
  provided, freeBuffers,  \* currentlyProvidedStaticBuffers, freeStaticBuffers
  target,      \* the session of the sender's replyTarget: one or none
  waited,      \* the sessions among the sender's handles
  place,          \* where each thread is
  resend,      \* sendAllBuffersToArm9Event
  replies,     \* the count of replySemaphore
  commandReceived, replySent,  \* the two events of PXISRV11
  atArm9,      \* commands that Process9 works on
  fromArm9,    \* the receive FIFO: one service id for each message
  shouldTerminate, terminationRequested

clientVars == <<process, asleep, quiet>>
senderVars == <<mc5, pending, disabled, provided, freeBuffers, target, waited>>
eventVars == <<resend, replies, commandReceived, replySent>>
linkVars == <<atArm9, fromArm9>>
endVars == <<shouldTerminate, terminationRequested>>
pxiVars == <<clientVars, session, senderVars, place, eventVars, linkVars, endVars>>

Threads == {"sender", "receiver", "srv11", "main"}

InState(state) == {i \in Ids : session[i].state = state}

Goes(thread, where) == place' = [place EXCEPT ![thread] = where]

-----------------------------------------------------------------------------
(* The processes that use the services, and Process9 *)

\* pxi:mc's client puts the system to sleep (5 with a value) or wakes it up.
Commands(i) == IF i # 0 THEN {"other"} ELSE {"other", IF asleep THEN "wake" ELSE "sleep"}

Waiting == {i \in Services : process[i] \in {"other", "sleep", "wake"}}

\* Nobody is in the way of putting the system to sleep, or of its sleep.
MaySend(i, command) ==
  SleepAlone =>
    IF command = "other" THEN ~asleep
    ELSE Waiting = {} /\ \A j \in Services : session[j].state = "idle"

OpensSession(i) ==
  /\ process[i] = "none"
  /\ ~session[i].handle
  /\ ~shouldTerminate /\ ~quiet
  /\ process' = [process EXCEPT ![i] = "connecting"]
  /\ UNCHANGED <<asleep, quiet, session, senderVars, place, eventVars, linkVars, endVars>>

SendsCommand(i, command) ==
  /\ process[i] = "idle"
  /\ command \in Commands(i)
  /\ MaySend(i, command)
  /\ ~quiet
  /\ i = 0 => ~shouldTerminate
  /\ process' = [process EXCEPT ![i] = command]
  /\ asleep' = IF command = "sleep" THEN TRUE ELSE asleep
  /\ UNCHANGED <<quiet, session, senderVars, place, eventVars, linkVars, endVars>>

\* The process ends, or closes its session; not while the system sleeps.
Leave(i) ==
  /\ process[i] \notin {"none", "gone"}
  /\ i = 0 => ~asleep
  /\ process' = [process EXCEPT ![i] = "gone"]
  /\ UNCHANGED <<asleep, quiet, session, senderVars, place, eventVars, linkVars, endVars>>

Rest ==
  /\ quiet' = TRUE
  /\ UNCHANGED <<process, asleep, session, senderVars, place, eventVars, linkVars, endVars>>

Arm9Replies(i) ==
  /\ i \in atArm9
  /\ atArm9' = atArm9 \ {i}
  /\ fromArm9' = Append(fromArm9, i)
  /\ UNCHANGED <<clientVars, session, senderVars, place, eventVars, endVars>>

\* A request to PXISRV11, when the one before is answered.
Arm9Requests ==
  /\ \A k \in DOMAIN fromArm9 : fromArm9[k] # SRV11
  /\ place["receiver"] # "srv11" /\ ~commandReceived
  /\ ~shouldTerminate
  /\ fromArm9' = Append(fromArm9, SRV11)
  /\ UNCHANGED <<clientVars, session, senderVars, place, eventVars, atArm9, endVars>>

-----------------------------------------------------------------------------
(* Static buffers: sets of their numbers for the bit masks *)

\* The nb largest elements, which clearMSBs clears.
MSBs(s, nb) == {b \in s : Cardinality({c \in s : c >= b}) =< nb}

acquireStaticBuffers(available) ==
  /\ provided' = MSBs(available, MaxProvided)
  /\ freeBuffers' = available \ MSBs(available, MaxProvided)

-----------------------------------------------------------------------------
(* sender.c *)

\* A command of pxi:mc goes to sleep when it is answered while nothing else is
\* at Process9, and other commands are not sent from then on.
Sendable ==
  LET received == {i \in InState("fromArm11") \cap Services : session[i].handle}
  IN  IF disabled /\ (pending # 0 \/ mc5 = 0) THEN {} ELSE received

\* The top of the loop, up to svcReplyAndReceive.
SenderSends ==
  /\ place["sender"] = "top"
  /\ LET sent == IF target = {} THEN Sendable ELSE {}
     IN  /\ session' = [i \in Ids |->
                          IF i \in sent THEN [session[i] EXCEPT !.state = "sent"] ELSE session[i]]
         /\ pending' = IF disabled THEN pending
                       ELSE (pending + Cardinality(sent)) % CounterSize
         /\ atArm9' = atArm9 \cup sent
  /\ waited' = {i \in InState("idle") \cap Services : session[i].handle}
  /\ Goes("sender", "wait")
  /\ UNCHANGED <<clientVars, mc5, disabled, provided, freeBuffers, target, eventVars, fromArm9, endVars>>

\* What svcReplyAndReceive finds ready, by the index of its handle.
ReadySessions ==
  {3 + i : i \in {j \in waited : process[j] = "gone" \/ j \in Waiting}}

Ready ==
  (IF terminationRequested THEN {0} ELSE {}) \cup (IF resend THEN {1} ELSE {})
    \cup (IF replies > 0 THEN {2} ELSE {}) \cup ReadySessions

\* It takes the first handle that is ready; once it is blocked, the one that
\* is ready first.
Receives(index) ==
  /\ target = {}
  /\ index \in Ready
  /\ \/ place["sender"] = "wait" /\ index = Min(Ready)
     \/ place["sender"] = "blocked"

SenderBlocks ==
  /\ place["sender"] = "wait"
  /\ target = {} /\ Ready = {}
  /\ Goes("sender", "blocked")
  /\ UNCHANGED <<clientVars, session, senderVars, eventVars, linkVars, endVars>>

\* svcReplyAndReceive replies before it receives.
SenderReplies ==
  /\ place["sender"] = "wait"
  /\ \E i \in target :
       /\ process[i] # "gone"
       /\ process' = [process EXCEPT ![i] = "idle"]
       /\ asleep' = IF process[i] = "wake" THEN FALSE ELSE asleep
  /\ target' = {}
  /\ UNCHANGED <<quiet, session, mc5, pending, disabled, provided, freeBuffers, waited, place, eventVars, linkVars, endVars>>

\* The session of the reply's target, or one of those waited for, is closed.
SenderClosed(i) ==
  /\ \/ place["sender"] = "wait" /\ target = {i}
     \/ Receives(3 + i)
  /\ process[i] = "gone"
  /\ session' = [session EXCEPT ![i].handle = FALSE]
  /\ process' = [process EXCEPT ![i] = "none"]
  /\ target' = {}
  /\ Goes("sender", "top")
  /\ UNCHANGED <<asleep, quiet, mc5, pending, disabled, provided, freeBuffers, waited, eventVars, linkVars, endVars>>

SenderWakes ==
  /\ Receives(1)
  /\ resend' = FALSE
  /\ Goes("sender", "top")
  /\ UNCHANGED <<clientVars, session, senderVars, replies, commandReceived, replySent, linkVars, endVars>>

\* Fault: the static buffers of the command are not given back.
SenderAnswerKeepsBuffers ==
  /\ Receives(2)
  /\ LET i == Min(InState("fromArm9") \cap Services)
     IN  /\ session' = [session EXCEPT ![i].state = "idle", ![i].used = {}]
         /\ target' = {i}
         /\ pending' = IF mc5 = 0 THEN (pending - 1) % CounterSize ELSE pending
  /\ disabled' = (disabled /\ mc5 # 2)
  /\ replies' = replies - 1
  /\ Goes("sender", "top")
  /\ UNCHANGED <<clientVars, mc5, provided, freeBuffers, waited, resend, commandReceived, replySent, linkVars, endVars>>

\* Process9 has answered.  The sender asserts that there is a session that it
\* has answered, and that none is counted when the system wakes up.
SenderAnswer ==
  /\ Receives(2)
  /\ replies' = replies - 1
  /\ IF InState("fromArm9") \cap Services = {} \/ (mc5 = 2 /\ pending # 0)
       THEN /\ Goes("sender", "panic")
            /\ UNCHANGED <<session, pending, disabled, freeBuffers, target>>
       ELSE LET i == Min(InState("fromArm9") \cap Services)
            IN  /\ session' = [session EXCEPT ![i].state = "idle", ![i].used = {}]
                /\ freeBuffers' = freeBuffers \cup session[i].used
                /\ pending' = IF mc5 = 0 THEN (pending - 1) % CounterSize ELSE pending
                /\ disabled' = (disabled /\ mc5 # 2)
                /\ target' = IF session[i].handle THEN {i} ELSE {}
                /\ Goes("sender", "top")
  /\ UNCHANGED <<clientVars, mc5, provided, waited, resend, commandReceived, replySent, linkVars, endVars>>

\* A command of a process.
SenderReceives(i) ==
  /\ Receives(3 + i)
  /\ i \in Waiting
  /\ LET command == process[i]
         kept == provided \ MSBs(provided, MaxProvided - StaticBuffersOf[i])
     IN  IF \/ session[i].state # "idle"
            \/ command = "sleep" /\ disabled
            \/ command = "wake" /\ ~disabled
         THEN /\ Goes("sender", "panic")
              /\ UNCHANGED <<session, mc5, disabled, provided, freeBuffers>>
         ELSE /\ mc5' = CASE command = "other" -> 0 [] command = "sleep" -> 1 [] OTHER -> 2
              /\ disabled' = (disabled \/ command = "sleep")
              /\ session' = [session EXCEPT ![i].state = "fromArm11", ![i].used = kept]
              /\ acquireStaticBuffers(freeBuffers \cup (provided \ kept))
              /\ Goes("sender", "top")
  /\ UNCHANGED <<clientVars, pending, target, waited, eventVars, linkVars, endVars>>

\* Handle 0, terminationRequestedEvent: all sessions are closed.
SenderEnds ==
  /\ Receives(0)
  /\ session' = [i \in Ids |-> [session[i] EXCEPT !.handle = FALSE]]
  /\ Goes("sender", "end")
  /\ UNCHANGED <<clientVars, senderVars, eventVars, linkVars, endVars>>

-----------------------------------------------------------------------------
(* PXISRV11Handler *)

Srv11Begins ==
  /\ place["srv11"] = "begin"
  /\ session' = [session EXCEPT ![SRV11].state = "sent"]
  /\ replySent' = TRUE
  /\ Goes("srv11", "wait")
  /\ UNCHANGED <<clientVars, senderVars, resend, replies, commandReceived, linkVars, endVars>>

\* The request is answered: the state is set after the answer is on its way.
Srv11Answers ==
  /\ place["srv11"] = "wait"
  /\ commandReceived
  /\ commandReceived' = FALSE
  /\ session' = [session EXCEPT ![SRV11].state = "fromArm11"]
  /\ Goes("srv11", IF session[SRV11].state = "fromArm9" THEN "sent" ELSE "panic")
  /\ UNCHANGED <<clientVars, senderVars, resend, replies, replySent, linkVars, endVars>>

\* Fault: the receiver is let go before the state is set.
Srv11SentEarly ==
  /\ place["srv11"] = "sent"
  /\ replySent' = TRUE
  /\ Goes("srv11", "wait")
  /\ UNCHANGED <<clientVars, session, senderVars, resend, replies, commandReceived, linkVars, endVars>>

Srv11Sent ==
  /\ place["srv11"] = "sent"
  /\ session' = [session EXCEPT ![SRV11].state = "sent"]
  /\ replySent' = TRUE
  /\ Goes("srv11", "wait")
  /\ UNCHANGED <<clientVars, senderVars, resend, replies, commandReceived, linkVars, endVars>>

Srv11Ends ==
  /\ place["srv11"] = "wait"
  /\ terminationRequested
  /\ Goes("srv11", "end")
  /\ UNCHANGED <<clientVars, session, senderVars, eventVars, linkVars, endVars>>

-----------------------------------------------------------------------------
(* receiver.c *)

ReceiverBegins ==
  /\ place["receiver"] = "begin"
  /\ replySent
  /\ replySent' = FALSE
  /\ Goes("receiver", "wait")
  /\ UNCHANGED <<clientVars, session, senderVars, resend, replies, commandReceived, linkVars, endVars>>

\* Fault: the answer to the last command is taken for one to pxi:mc's client.
ReceiverFetchesAsEver ==
  /\ place["receiver"] = "wait"
  /\ fromArm9 # <<>>
  /\ session' = [session EXCEPT ![Head(fromArm9)].state = "fromArm9"]
  /\ Goes("receiver", IF Head(fromArm9) = SRV11 THEN "srv11" ELSE "reply")
  /\ fromArm9' = Tail(fromArm9)
  /\ UNCHANGED <<clientVars, senderVars, eventVars, atArm9, endVars>>

\* receiveFromArm9 up to the end of the session's lock.  It asserts the state
\* that other threads give the session.
ReceiverFetches ==
  /\ place["receiver"] = "wait"
  /\ fromArm9 # <<>>
  /\ LET i == Head(fromArm9)
     IN  IF session[i].state # "sent"
         THEN Goes("receiver", "panic") /\ UNCHANGED session
         ELSE /\ session' = [session EXCEPT ![i].state = "fromArm9"]
              /\ Goes("receiver", CASE i = 0 /\ shouldTerminate -> "terminate"
                                    [] i = SRV11 -> "srv11"
                                    [] OTHER -> "reply")
  /\ fromArm9' = Tail(fromArm9)
  /\ UNCHANGED <<clientVars, senderVars, eventVars, atArm9, endVars>>

\* The events and the semaphore that the other threads wait for.
ReceiverSignals ==
  /\ \/ /\ place["receiver"] = "reply"
        /\ replies' = replies + 1
        /\ Goes("receiver", "wait")
        /\ UNCHANGED <<commandReceived, terminationRequested>>
     \/ /\ place["receiver"] = "terminate"
        /\ terminationRequested' = TRUE
        /\ Goes("receiver", "wait")
        /\ UNCHANGED <<commandReceived, replies>>
     \/ /\ place["receiver"] = "srv11"
        /\ commandReceived' = TRUE
        /\ Goes("receiver", "srv11Sent")
        /\ UNCHANGED <<replies, terminationRequested>>
  /\ UNCHANGED <<clientVars, session, senderVars, resend, replySent, linkVars, shouldTerminate>>

ReceiverResumes ==
  /\ place["receiver"] = "srv11Sent"
  /\ replySent
  /\ replySent' = FALSE
  /\ Goes("receiver", IF session[SRV11].state = "sent" THEN "wait" ELSE "panic")
  /\ UNCHANGED <<clientVars, session, senderVars, resend, replies, commandReceived, linkVars, endVars>>

ReceiverEnds ==
  /\ place["receiver"] = "wait"
  /\ terminationRequested
  /\ Goes("receiver", "end")
  /\ UNCHANGED <<clientVars, session, senderVars, eventVars, linkVars, endVars>>

-----------------------------------------------------------------------------
(* main.c *)

\* Fault: the sender is not told of the session.
MainAcceptsQuietly(i) ==
  /\ place["main"] = "loop" /\ ~shouldTerminate
  /\ place["sender"] \in {"wait", "blocked", "end"}
  /\ process[i] = "connecting"
  /\ process' = [process EXCEPT ![i] = "idle"]
  /\ session' = [session EXCEPT ![i].handle = TRUE]
  /\ UNCHANGED <<asleep, quiet, senderVars, place, eventVars, linkVars, endVars>>

\* A session is accepted: senderLock is free while the sender receives.
MainAccepts(i) ==
  /\ place["main"] = "loop" /\ ~shouldTerminate
  /\ place["sender"] \in {"wait", "blocked", "end"}
  /\ process[i] = "connecting"
  /\ process' = [process EXCEPT ![i] = "idle"]
  /\ IF session[i].handle
       THEN Goes("main", "panic") /\ UNCHANGED <<session, resend>>
       ELSE /\ session' = [session EXCEPT ![i].handle = TRUE]
            /\ resend' = TRUE
            /\ UNCHANGED place
  /\ UNCHANGED <<asleep, quiet, senderVars, replies, commandReceived, replySent, linkVars, endVars>>

\* Notification 0x100.  pm sends it to pxi last, when the processes that use
\* pxi:mc have ended.
MainTerminates ==
  /\ place["main"] = "loop"
  /\ process[0] \in {"none", "connecting", "idle"} /\ session[0].state = "idle"
  /\ 0 \notin target
  /\ shouldTerminate' = TRUE
  /\ Goes("main", "send")
  /\ UNCHANGED <<clientVars, session, senderVars, eventVars, linkVars, terminationRequested>>

\* The last command is sent for pxi:mc, without senderLock.
MainSendsEnd ==
  /\ place["main"] = "send"
  /\ session' = [session EXCEPT ![0].state = "sent"]
  /\ atArm9' = atArm9 \cup {0}
  /\ Goes("main", "join")
  /\ UNCHANGED <<clientVars, senderVars, eventVars, fromArm9, endVars>>

MainJoins ==
  /\ place["main"] = "join"
  /\ \A thread \in Threads \ {"main"} : place[thread] = "end"
  /\ Goes("main", "end")
  /\ UNCHANGED <<clientVars, session, senderVars, eventVars, linkVars, endVars>>

-----------------------------------------------------------------------------

\* The sender's first buffers are acquired as it begins, which is here.
PxiInit ==
  /\ process = [i \in Services |-> "none"]
  /\ asleep = FALSE /\ quiet = FALSE
  /\ session = [i \in Ids |-> [state |-> "idle", handle |-> FALSE, used |-> {}]]
  /\ mc5 = 0 /\ pending = 0 /\ disabled = FALSE
  /\ provided = MSBs(0..NbStaticBuffers - 1, MaxProvided)
  /\ freeBuffers = (0..NbStaticBuffers - 1) \ MSBs(0..NbStaticBuffers - 1, MaxProvided)
  /\ target = {} /\ waited = {}
  /\ place = [t \in Threads |-> CASE t = "sender" -> "top" [] t = "main" -> "loop" [] OTHER -> "begin"]
  /\ resend = FALSE /\ replies = 0 /\ commandReceived = FALSE /\ replySent = FALSE
  /\ atArm9 = {} /\ fromArm9 = <<>>
  /\ shouldTerminate = FALSE /\ terminationRequested = FALSE

Sender ==
  \/ SenderSends \/ SenderReplies \/ SenderBlocks
  \/ SenderWakes \/ SenderAnswer \/ SenderEnds
  \/ \E i \in Services : SenderClosed(i)
  \/ \E i \in Services : SenderReceives(i)

Srv11Handler == Srv11Begins \/ Srv11Answers \/ Srv11Sent \/ Srv11Ends

Receiver ==
  ReceiverBegins \/ ReceiverFetches \/ ReceiverSignals \/ ReceiverResumes \/ ReceiverEnds

Main ==
  (\E i \in Services : MainAccepts(i)) \/ MainTerminates \/ MainSendsEnd \/ MainJoins

PxiNext ==
  \/ \E i \in Services : OpensSession(i)
  \/ \E i \in Services : \E command \in Commands(i) : SendsCommand(i, command)
  \/ \E i \in Services : Leave(i)
  \/ \E i \in Services : Arm9Replies(i)
  \/ Rest
  \/ Arm9Requests
  \/ Sender
  \/ Srv11Handler
  \/ Receiver
  \/ Main

PxiSpec == PxiInit /\ [][PxiNext]_pxiVars

\* The threads run and Process9 answers.
PxiFairSpec ==
  /\ PxiSpec
  /\ WF_pxiVars(Sender)
  /\ WF_pxiVars(Srv11Handler)
  /\ WF_pxiVars(Receiver)
  /\ \A i \in Services : WF_pxiVars(Arm9Replies(i))
  /\ WF_pxiVars(MainSendsEnd) /\ WF_pxiVars(MainJoins)

-----------------------------------------------------------------------------
(* Properties *)

\* The shape of the state.
PxiTypeOK ==
  /\ process \in [Services -> {"none", "connecting", "idle", "other", "sleep", "wake", "gone"}]
  /\ session \in [Ids -> [state : {"idle", "fromArm11", "sent", "fromArm9"},
                          handle : BOOLEAN, used : SUBSET (0..NbStaticBuffers - 1)]]
  /\ pending \in 0..CounterSize - 1
  /\ target \subseteq Services /\ waited \subseteq Services
  /\ replies \in 0..9

\* No thread finds a session in a state that it did not expect: the checks that
\* end in svcBreak never fail, whatever the order in which the sender, the
\* receiver, the handler and main change the states.
PxiNeverPanics == \A thread \in Threads : place[thread] # "panic"

\* No static buffer is lost or in two places, and each command has as many as
\* its service uses, until it is answered.  (With as many as all the services
\* together and those provided use; NB_STATIC_BUFFERS is less than that.)
StaticBuffersOwned ==
  LET held == UNION {session[i].used : i \in Services}
  IN  /\ freeBuffers \cap provided = {} /\ held \cap (freeBuffers \cup provided) = {}
      /\ freeBuffers \cup provided \cup held = 0..NbStaticBuffers - 1
      /\ \A i, j \in Services : i # j => session[i].used \cap session[j].used = {}
      /\ \A i \in Services : session[i].state # "idle" =>
           Cardinality(session[i].used) = StaticBuffersOf[i] \/ shouldTerminate

\* Sessions and static buffers pass between the threads, under two locks,
\* without one in an unexpected state or place.
PxiPassesOnce == PxiNeverPanics /\ StaticBuffersOwned

\* sender.c:3, "sends them to Process9, and replies": a process that has sent
\* a command and stays gets its reply, unless pxi is ended.  The sender prefers
\* low numbers, so that others must not ask again and again meanwhile.
CommandsAnswered ==
  \A i \in Services :
    (quiet /\ i \in Waiting) ~> (i \notin Waiting \/ shouldTerminate)
=============================================================================
