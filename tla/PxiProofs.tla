------------------------------ MODULE PxiProofs ------------------------------
(***************************************************************************)
(* Theorems about pxi: sessions pass between its four threads and Process9 *)
(* without one in an unexpected state, and no static buffer is lost or in  *)
(* two places, for any of the nine services, any size of the counter that  *)
(* holds as many commands as there are services, and any number of static  *)
(* buffers (commands have as many as they use if there are enough).        *)
(*                                                                         *)
(* The assertions of the code follow from PxiInv: a command is once on the *)
(* link, the semaphore counts no answer that has not come, and the counter *)
(* of commands is right unless the system sleeps or the module ends.       *)
(***************************************************************************)
EXTENDS Pxi, SetInduction, FiniteSetTheorems, SequenceTheorems

\* The static buffers, and what a session is.
Buffers == 0..NbStaticBuffers - 1
States == {"idle", "fromArm11", "sent", "fromArm9"}
SessionData == [state : States, handle : BOOLEAN, used : SUBSET Buffers]

\* What the variables are.
PxiShape ==
  /\ process \in [Services -> {"none", "connecting", "idle", "other", "sleep", "wake", "gone"}]
  /\ session \in [Ids -> SessionData]
  /\ provided \subseteq Buffers /\ freeBuffers \subseteq Buffers
  /\ target \subseteq Services /\ waited \subseteq Services
  /\ replies \in Nat
  /\ fromArm9 \in Seq(Ids) /\ atArm9 \subseteq Services
  /\ place \in [Threads -> {"top", "begin", "loop", "wait", "blocked", "reply", "terminate", "srv11",
                            "srv11Sent", "sent", "send", "join", "end"}]

\* Nothing has been asked for, or the reply is on its way.
Idle(i) == session[i].state = "idle"

\* Commands at Process9, or answered by it, are those of sessions that were
\* sent, and each is there once.
OnceOnLink ==
  /\ \A i \in atArm9 : session[i].state = "sent"
  /\ \A k \in 1..Len(fromArm9) : fromArm9[k] \in Services =>
       fromArm9[k] \notin atArm9 /\ session[fromArm9[k]].state = "sent"
  /\ \A k, l \in 1..Len(fromArm9) : fromArm9[k] = fromArm9[l] => k = l

\* The receiver and the handler of PXISRV11 pass the session to and fro.
Srv11Passed ==
  LET is(at, state) == place["receiver"] \in at /\ session[SRV11].state = state
  IN  \/ place["srv11"] = "begin" /\ ~replySent /\ ~commandReceived /\ place["receiver"] = "begin"
      \/ /\ place["srv11"] \in {"wait", "end"} /\ ~commandReceived
         /\ \/ replySent /\ is({"begin", "srv11Sent"}, "sent")
            \/ ~replySent /\ is({"wait", "reply", "terminate", "end"}, "sent")
            \/ ~replySent /\ is({"srv11"}, "fromArm9")
      \/ place["srv11"] \in {"wait", "end"} /\ commandReceived /\ ~replySent /\ is({"srv11Sent"}, "fromArm9")
      \/ place["srv11"] = "sent" /\ ~commandReceived /\ ~replySent /\ is({"srv11Sent"}, "fromArm11")

\* The sessions whose answer has come, that of the end of the module aside.
Answered == {i \in Services : session[i].state = "fromArm9" /\ ~(i = 0 /\ shouldTerminate)}

\* The semaphore never counts more answers than have come.
AnswersCounted ==
  replies + (IF place["receiver"] = "reply" THEN 1 ELSE 0) <= Cardinality(Answered)

\* Sessions are open as long as the processes use them.
SessionsOpen ==
  /\ \A i \in Services : process[i] \in {"none", "connecting"} => ~session[i].handle
  /\ place["sender"] # "end" =>
       \A i \in Services : process[i] \in {"idle"} \cup {"other", "sleep", "wake"} \/ i \in target => session[i].handle
  /\ \A i \in target : target = {i} /\ Idle(i)
  /\ \A i \in Services : (~Idle(i) \/ i \in target) /\ ~(i = 0 /\ shouldTerminate) =>
       process[i] \in {"other", "sleep", "wake", "gone"}
  /\ place["sender"] \in {"wait", "blocked"} => \A i \in waited : Idle(i) \/ (i = 0 /\ shouldTerminate)

\* The end of the module.
EndsLast ==
  /\ shouldTerminate <=> place["main"] # "loop"
  /\ shouldTerminate => 0 \notin Waiting
  /\ place["main"] = "send" => Idle(0) /\ 0 \notin target

\* The command of pxi:mc's client has been received.
Taken == ~Idle(0) \/ 0 \in target

\* The system sleeps while nobody else has commands.
SleepsAlone ==
  /\ mc5 \in 0..2
  /\ \A i \in Services \ {0} : process[i] \notin {"sleep", "wake"}
  /\ disabled => asleep /\ mc5 # 0
  /\ mc5 = 1 => asleep
  /\ asleep \/ mc5 = 2 => \A i \in Services \ {0} : Idle(i)
  /\ asleep => /\ \A i \in Services \ {0} : i \notin Waiting
               /\ process[0] \in {"idle", "sleep", "wake"}
               /\ process[0] = "idle" => mc5 = 1 /\ disabled
               /\ process[0] = "sleep" => IF Taken THEN mc5 = 1 /\ disabled ELSE ~disabled
               /\ process[0] = "wake" => IF Taken THEN mc5 = 2 /\ (disabled <=> ~Idle(0)) ELSE mc5 = 1 /\ disabled
  /\ process[0] \in {"sleep", "wake"} => asleep
  /\ mc5 = 2 /\ ~asleep /\ ~shouldTerminate => Idle(0)

\* The sessions whose commands Process9 has, or has answered.
Busy == {i \in Services : session[i].state \in {"sent", "fromArm9"}}

\* Until the end, the counter is the number of commands at Process9, and zero
\* when the system goes to sleep or wakes up.
PendingCounts == ~shouldTerminate => pending = IF mc5 = 0 THEN Cardinality(Busy) ELSE 0

\* The inductive invariant.
PxiInv ==
  /\ PxiShape /\ OnceOnLink /\ Srv11Passed /\ AnswersCounted /\ SessionsOpen /\ EndsLast
  /\ SleepsAlone /\ PendingCounts

\* Each buffer is free, provided to the sender, or with one command.
BuffersInv ==
  /\ freeBuffers \cap provided = {}
  /\ \A i \in Services : session[i].used \cap (freeBuffers \cup provided) = {}
  /\ \A i, j \in Services : i # j => session[i].used \cap session[j].used = {}
  /\ \A b \in Buffers : b \in freeBuffers \cup provided \/ \E i \in Services : b \in session[i].used
  /\ \A i \in Services : Idle(i) => session[i].used = {}

\* Four are provided, and each command has as many as its service uses.
EnoughInv ==
  /\ Cardinality(provided) = MaxProvided
  /\ \A i \in Services : Cardinality(session[i].used) = IF Idle(i) THEN 0 ELSE StaticBuffersOf[i]

-----------------------------------------------------------------------------

\* The numbers of the services.
LEMMA Numbers ==
  /\ Services \subseteq Int /\ 0 \in Services /\ SRV11 = 9 /\ SRV11 \notin Services
  /\ Services \subseteq Ids /\ SRV11 \in Ids /\ 0 \in Ids
BY PxiAssumption DEF Ids, SRV11

\* There are finitely many services.
LEMMA ServicesFinite ==
  /\ IsFiniteSet(Services) /\ Cardinality(Services) \in Nat
  /\ \A T \in SUBSET Services : IsFiniteSet(T) /\ Cardinality(T) \in Nat
<1>1. IsFiniteSet(0..8)
  <2>1. 0 \in Int /\ 8 \in Int
    OBVIOUS
  <2> QED
    BY <2>1, FS_Interval, Zenon
<1>2. IsFiniteSet(Services)
  BY <1>1, FS_Subset, PxiAssumption
<1> QED
  BY <1>2, FS_Subset, FS_CardinalityType

\* A thread goes to a place.
LEMMA PlaceGoes ==
  ASSUME PxiShape, NEW t \in Threads, NEW where, Goes(t, where)
  PROVE  \A u \in Threads : place'[u] = IF u = t THEN where ELSE place[u]
BY DEF PxiShape, Goes

\* The places of all threads: the assertions' failure is not among them.
Everywhere == {"top", "begin", "loop", "wait", "blocked", "reply", "terminate", "srv11",
               "srv11Sent", "sent", "send", "join", "end"}

\* Where threads are.
LEMMA PlaceTyped ==
  ASSUME PxiShape, NEW t \in Threads, NEW where \in Everywhere, Goes(t, where)
  PROVE  place' \in [Threads -> Everywhere]
BY DEF PxiShape, Goes, Everywhere

\* A session gets a state, the others keep theirs.
StateGoes(i, state) ==
  /\ session' \in [Ids -> SessionData]
  /\ \A j \in Ids : /\ session'[j].state = IF j = i THEN state ELSE session[j].state
                    /\ session'[j].handle = session[j].handle
                    /\ session'[j].used = session[j].used

\* What an update of a state does.
LEMMA StateSet ==
  ASSUME PxiShape, NEW i \in Ids, NEW state \in States,
         session' = [session EXCEPT ![i].state = state]
  PROVE  StateGoes(i, state)
<1>1. session \in [Ids -> SessionData]
  BY DEF PxiShape
<1>2. ASSUME NEW j \in Ids
      PROVE  /\ session'[j] \in SessionData
             /\ session'[j].state = IF j = i THEN state ELSE session[j].state
             /\ session'[j].handle = session[j].handle
             /\ session'[j].used = session[j].used
  <2>1. session'[j] = IF j = i THEN [session[j] EXCEPT !.state = state] ELSE session[j]
    BY <1>1
  <2> QED
    BY <1>1, <2>1 DEF SessionData
<1>3. session' \in [Ids -> SessionData]
  BY <1>1, <1>2
<1> QED
  BY <1>2, <1>3 DEF StateGoes

\* The handle of a session is set, or closed.
HandleGoes(i, open) ==
  /\ session' \in [Ids -> SessionData]
  /\ \A j \in Ids : /\ session'[j].state = session[j].state
                    /\ session'[j].handle = IF j = i THEN open ELSE session[j].handle
                    /\ session'[j].used = session[j].used

\* What an update of a handle does.
LEMMA HandleSet ==
  ASSUME PxiShape, NEW i \in Ids, NEW open \in BOOLEAN,
         session' = [session EXCEPT ![i].handle = open]
  PROVE  HandleGoes(i, open)
<1>1. session \in [Ids -> SessionData]
  BY DEF PxiShape
<1>2. ASSUME NEW j \in Ids
      PROVE  /\ session'[j] \in SessionData
             /\ session'[j].state = session[j].state
             /\ session'[j].handle = IF j = i THEN open ELSE session[j].handle
             /\ session'[j].used = session[j].used
  <2>1. session'[j] = IF j = i THEN [session[j] EXCEPT !.handle = open] ELSE session[j]
    BY <1>1
  <2> QED
    BY <1>1, <2>1 DEF SessionData
<1>3. session' \in [Ids -> SessionData]
  BY <1>1, <1>2
<1> QED
  BY <1>2, <1>3 DEF HandleGoes

\* What a step keeps of the commands that Process9 has.
LEMMA LinkSame ==
  ASSUME OnceOnLink, UNCHANGED linkVars,
         \A i \in Services : session[i].state = "sent" => session'[i].state = "sent",
         atArm9 \subseteq Services
  PROVE  OnceOnLink'
BY DEF OnceOnLink, linkVars

\* What a step keeps that PXISRV11 has no part in.
LEMMA Srv11Same ==
  ASSUME Srv11Passed, UNCHANGED <<replySent, commandReceived>>,
         place'["srv11"] = place["srv11"], place'["receiver"] = place["receiver"],
         session'[SRV11].state = session[SRV11].state
  PROVE  Srv11Passed'
BY DEF Srv11Passed

\* What a step keeps that changes no answer.
LEMMA AnswersSame ==
  ASSUME AnswersCounted, UNCHANGED replies, Answered' = Answered,
         place'["receiver"] = "reply" <=> place["receiver"] = "reply"
  PROVE  AnswersCounted'
BY DEF AnswersCounted

\* What a step keeps that changes no command at Process9.
LEMMA PendingSame ==
  ASSUME PendingCounts, UNCHANGED <<pending, mc5>>, ~shouldTerminate' => ~shouldTerminate,
         ~shouldTerminate' => Busy' = Busy
  PROVE  PendingCounts'
BY DEF PendingCounts

-----------------------------------------------------------------------------
(* The processes and Process9 *)

\* A process opens a session, sends a command or ends; or all rest.  Here it
\* matters that the system is put to sleep alone.
LEMMA ProcessSteps ==
  ASSUME PxiInv, SleepAlone, NEW i \in Services,
         \/ OpensSession(i) \/ (\E command \in Commands(i) : SendsCommand(i, command)) \/ Leave(i) \/ Rest
  PROVE  PxiInv'
<1> DEFINE p == process'[i]
<1>1. /\ UNCHANGED <<session, senderVars, place, eventVars, linkVars, endVars>>
      /\ process' \in [Services -> {"none", "connecting", "idle", "other", "sleep", "wake", "gone"}]
      /\ \A j \in Services \ {i} : process'[j] = process[j]
  BY DEF OpensSession, SendsCommand, Leave, Rest, PxiInv, PxiShape, Commands
<1>2. /\ PxiShape' /\ OnceOnLink' /\ Srv11Passed' /\ AnswersCounted' /\ PendingCounts'
  BY <1>1 DEF PxiInv, PxiShape, OnceOnLink, Srv11Passed, AnswersCounted, Answered, PendingCounts,
              Busy, senderVars, eventVars, linkVars, endVars
<1>3. SessionsOpen'
  <2> USE DEF PxiInv, SessionsOpen, Idle, senderVars, endVars
  <2>1. CASE OpensSession(i)
    BY <1>1, <2>1 DEF OpensSession, PxiShape
  <2>2. ASSUME NEW command \in Commands(i), SendsCommand(i, command) PROVE SessionsOpen'
    BY <1>1, <2>2 DEF SendsCommand, PxiShape, Commands
  <2>3. CASE Leave(i)
    BY <1>1, <2>3 DEF Leave, PxiShape
  <2>4. CASE Rest
    BY <1>1, <2>4 DEF Rest
  <2> QED
    BY <2>1, <2>2, <2>3, <2>4
<1>4. EndsLast'
  BY <1>1 DEF PxiInv, EndsLast, Idle, Waiting, OpensSession, SendsCommand, Leave, Rest, Commands, senderVars, endVars, PxiShape
<1>5. SleepsAlone'
  <2>1. CASE OpensSession(i) \/ Leave(i) \/ Rest
    BY <1>1, <2>1, Numbers DEF PxiInv, SleepsAlone, Idle, Taken, Waiting, OpensSession, Leave, Rest, senderVars, endVars, PxiShape
  <2>2. ASSUME NEW command \in Commands(i), SendsCommand(i, command)
        PROVE  SleepsAlone'
    <3>1. CASE i = 0
      BY <1>1, <2>2, <3>1, Numbers DEF PxiInv, SleepsAlone, Idle, Taken, Waiting, SendsCommand, MaySend, Commands, senderVars, endVars, PxiShape, SessionsOpen
    <3>2. CASE i # 0
      BY <1>1, <2>2, <3>2, Numbers DEF PxiInv, SleepsAlone, Idle, Taken, Waiting, SendsCommand, MaySend, Commands, senderVars, endVars, PxiShape
    <3> QED
      BY <3>1, <3>2
  <2> QED
    BY <2>1, <2>2
<1> QED
  BY <1>2, <1>3, <1>4, <1>5 DEF PxiInv

\* Process9 answers a command, or asks PXISRV11.  Nothing is on the link twice.
LEMMA Arm9Steps ==
  ASSUME PxiInv, (\E i \in Services : Arm9Replies(i)) \/ Arm9Requests
  PROVE  PxiInv'
<1>1. UNCHANGED <<clientVars, session, senderVars, place, eventVars, endVars>>
  BY DEF Arm9Replies, Arm9Requests
<1>2. /\ Srv11Passed' /\ AnswersCounted' /\ PendingCounts' /\ SessionsOpen' /\ EndsLast' /\ SleepsAlone'
  BY <1>1 DEF PxiInv, Srv11Passed, AnswersCounted, Answered, PendingCounts, SessionsOpen, EndsLast, Waiting,
              Busy, senderVars, eventVars, clientVars, endVars, SleepsAlone, Idle, Taken
<1>3. PxiShape' /\ OnceOnLink'
  <2>1. \E i \in Ids : /\ fromArm9' = Append(fromArm9, i) /\ atArm9' = atArm9 \ {i}
                       /\ \A k \in 1..Len(fromArm9) : fromArm9[k] # i
                       /\ i \in Services => session[i].state = "sent"
    <3>1. ASSUME NEW i \in Services, Arm9Replies(i)
          PROVE  /\ i \in Ids /\ fromArm9' = Append(fromArm9, i) /\ atArm9' = atArm9 \ {i}
                 /\ \A k \in 1..Len(fromArm9) : fromArm9[k] # i
                 /\ session[i].state = "sent"
      <4>1. i \in atArm9 /\ i \in Ids
        BY <3>1, Numbers DEF Arm9Replies
      <4> QED
        BY <3>1, <4>1 DEF Arm9Replies, PxiInv, OnceOnLink
    <3>2. CASE Arm9Requests
      <4>1. SRV11 \notin atArm9 /\ SRV11 \notin Services /\ SRV11 \in Ids
        BY Numbers DEF PxiInv, PxiShape
      <4>2. DOMAIN fromArm9 = 1..Len(fromArm9)
        BY DEF PxiInv, PxiShape
      <4> QED
        BY <3>2, <4>1, <4>2 DEF Arm9Requests
    <3> QED
      BY <3>1, <3>2
  <2>2. PICK i \in Ids : /\ fromArm9' = Append(fromArm9, i) /\ atArm9' = atArm9 \ {i}
                         /\ \A k \in 1..Len(fromArm9) : fromArm9[k] # i
                         /\ i \in Services => session[i].state = "sent"
    BY <2>1
  <2>3. /\ fromArm9 \in Seq(Ids) /\ fromArm9' \in Seq(Ids) /\ Len(fromArm9') = Len(fromArm9) + 1
        /\ \A k \in 1..Len(fromArm9') : fromArm9'[k] = IF k = Len(fromArm9) + 1 THEN i ELSE fromArm9[k]
    BY <2>2 DEF PxiInv, PxiShape
  <2>4. PxiShape'
    BY <1>1, <2>2, <2>3 DEF PxiInv, PxiShape, senderVars, eventVars, clientVars
  <2>5. \A k \in 1..Len(fromArm9') : k = Len(fromArm9) + 1 \/ k \in 1..Len(fromArm9)
    BY <2>3
  <2>6. OnceOnLink'
    <3> DEFINE n == Len(fromArm9)
    <3>1. n \in Nat /\ Len(fromArm9') = n + 1
      BY <2>3
    <3>2. fromArm9'[n + 1] = i /\ \A k \in 1..n : fromArm9'[k] = fromArm9[k]
      <4>1. fromArm9'[n + 1] = i
        BY <2>3, <3>1
      <4>2. \A k \in 1..n : k \in 1..Len(fromArm9') /\ k # n + 1
        BY <3>1
      <4> QED
        BY <2>3, <4>1, <4>2
    <3>3. \A k \in 1..n : fromArm9[k] # i
      BY <2>2
    <3>4. atArm9' = atArm9 \ {i} /\ (i \in Services => session'[i].state = "sent")
      BY <1>1, <2>2
    <3>5. session' = session /\ OnceOnLink
      BY <1>1 DEF PxiInv
    <3> HIDE DEF n
    <3>6. \A j \in atArm9' : session'[j].state = "sent"
      BY <1>1, <2>2 DEF PxiInv, OnceOnLink
    <3>7. ASSUME NEW k \in 1..Len(fromArm9'), fromArm9'[k] \in Services
          PROVE  fromArm9'[k] \notin atArm9' /\ session'[fromArm9'[k]].state = "sent"
      <4>1. CASE k = n + 1
        BY <3>1, <3>2, <3>3, <3>4, <3>5, <3>7, <4>1
      <4>2. CASE k \in 1..n
        BY <3>1, <3>2, <3>3, <3>4, <3>5, <3>7, <4>2 DEF OnceOnLink, n
      <4> QED
        BY <2>5, <4>1, <4>2 DEF n
    <3>8. ASSUME NEW k \in 1..Len(fromArm9'), NEW l \in 1..Len(fromArm9'), fromArm9'[k] = fromArm9'[l]
          PROVE  k = l
      <4>1. (k = n + 1 \/ k \in 1..n) /\ (l = n + 1 \/ l \in 1..n)
        BY <2>5 DEF n
      <4> QED
        BY <3>1, <3>2, <3>3, <3>4, <3>5, <3>8, <4>1 DEF OnceOnLink, n
    <3> QED
      BY <3>6, <3>7, <3>8 DEF OnceOnLink
  <2> QED
    BY <2>4, <2>6
<1> QED
  BY <1>2, <1>3 DEF PxiInv

-----------------------------------------------------------------------------
(* The handler of PXISRV11 and main *)

\* PXISRV11Handler: the session is in the state that it asserts.
LEMMA Srv11Steps ==
  ASSUME PxiInv, Srv11Handler
  PROVE  PxiInv'
<1> USE DEF PxiInv
<1>1. /\ UNCHANGED <<clientVars, senderVars, resend, replies, linkVars, endVars>>
      /\ \E where \in {"wait", "sent", "end"} : Goes("srv11", where)
  <2>1. CASE Srv11Begins \/ Srv11Sent \/ Srv11Ends
    BY <2>1 DEF Srv11Begins, Srv11Sent, Srv11Ends, eventVars
  <2>2. CASE Srv11Answers
    BY <2>2 DEF Srv11Answers, Srv11Passed
  <2> QED
    BY <2>1, <2>2 DEF Srv11Handler
<1>2. /\ \E where \in {"wait", "sent", "end"} :
           \A u \in Threads : place'[u] = IF u = "srv11" THEN where ELSE place[u]
      /\ place' \in [Threads -> Everywhere]
  BY <1>1, PlaceGoes, PlaceTyped DEF Threads, Everywhere
<1>3. /\ session' \in [Ids -> SessionData]
      /\ \A i \in Services : session'[i].state = session[i].state /\ session'[i].handle = session[i].handle
  <2>1. CASE session' = session
    BY <2>1 DEF PxiShape
  <2>2. ASSUME NEW state \in States, session' = [session EXCEPT ![SRV11].state = state]
        PROVE  /\ session' \in [Ids -> SessionData]
               /\ \A i \in Services : session'[i].state = session[i].state /\ session'[i].handle = session[i].handle
    BY <2>2, StateSet, Numbers DEF StateGoes
  <2> QED
    BY <2>1, <2>2 DEF Srv11Handler, Srv11Begins, Srv11Answers, Srv11Sent, Srv11Ends, States
<1>4. \A u \in Threads \ {"srv11"} : place'[u] = place[u]
  BY <1>2
<1>5. PxiShape'
  BY <1>1, <1>2, <1>3 DEF PxiShape, Everywhere, clientVars, senderVars, linkVars
<1>6. OnceOnLink'
  BY <1>1, <1>3, LinkSame DEF PxiShape
<1>7. Answered' = Answered /\ Busy' = Busy
  BY <1>1, <1>3 DEF Answered, Busy, endVars
<1>8. AnswersCounted' /\ PendingCounts'
  BY <1>1, <1>4, <1>7, AnswersSame, PendingSame DEF Threads, senderVars, endVars
<1>9. SessionsOpen' /\ EndsLast' /\ SleepsAlone'
  <2>1. \A i \in Services : Idle(i)' <=> Idle(i)
    BY <1>3 DEF Idle
  <2>2. Taken' <=> Taken
    BY <1>1, <2>1, Numbers DEF Taken, senderVars
  <2>3. place'["sender"] = place["sender"] /\ place'["main"] = place["main"]
    BY <1>4 DEF Threads
  <2>4. SessionsOpen'
    BY <1>1, <1>3, <2>1, <2>3 DEF SessionsOpen, PxiShape, clientVars, senderVars, endVars
  <2>5. EndsLast'
    BY <1>1, <2>1, <2>3, Numbers DEF EndsLast, Waiting, clientVars, senderVars, endVars
  <2>6. SleepsAlone'
    BY <1>1, <2>1, <2>2, Numbers DEF SleepsAlone, Waiting, clientVars, senderVars, endVars
  <2> QED
    BY <2>4, <2>5, <2>6
<1>10. Srv11Passed'
  <2>1. place'["receiver"] = place["receiver"] /\ SRV11 \in Ids
    BY <1>4, Numbers DEF Threads
  <2>2. "srv11" \in Threads
    BY DEF Threads
  <2>3. CASE Srv11Ends
    <3>1. place'["srv11"] = "end" /\ session' = session
      BY <2>2, <2>3, PlaceGoes DEF Srv11Ends
    <3> QED
      BY <2>1, <2>3, <3>1 DEF Srv11Passed, Srv11Ends, eventVars
  <2>4. CASE Srv11Begins \/ Srv11Sent
    <3>1. place'["srv11"] = "wait" /\ session'[SRV11].state = "sent"
      BY <2>1, <2>2, <2>4, PlaceGoes, StateSet DEF Srv11Begins, Srv11Sent, StateGoes, States
    <3> QED
      BY <2>1, <2>4, <3>1 DEF Srv11Passed, Srv11Begins, Srv11Sent
  <2>5. CASE Srv11Answers
    <3>1. session[SRV11].state = "fromArm9"
      BY <2>5 DEF Srv11Answers, Srv11Passed
    <3>2. place'["srv11"] = "sent" /\ session'[SRV11].state = "fromArm11"
      <4>1. Goes("srv11", "sent") /\ session' = [session EXCEPT ![SRV11].state = "fromArm11"]
        BY <2>5, <3>1 DEF Srv11Answers
      <4> QED
        <5>1. StateGoes(SRV11, "fromArm11")
          BY <2>1, <4>1, StateSet DEF States
        <5>2. place'["srv11"] = "sent"
          BY <2>2, <4>1, PlaceGoes
        <5> QED
          BY <2>1, <5>1, <5>2 DEF StateGoes
    <3> QED
      BY <2>1, <2>5, <3>2 DEF Srv11Passed, Srv11Answers
  <2> QED
    BY <2>3, <2>4, <2>5 DEF Srv11Handler
<1> QED
  BY <1>5, <1>6, <1>8, <1>9, <1>10

\* MainAccepts: a process that connects has no session.
LEMMA AcceptsStep ==
  ASSUME PxiInv, NEW i \in Services, MainAccepts(i)
  PROVE  PxiInv'
<1> USE DEF PxiInv
<1>1. ~session[i].handle /\ process[i] = "connecting"
  BY DEF MainAccepts, SessionsOpen
<1>2. /\ UNCHANGED <<asleep, quiet, senderVars, replies, commandReceived, replySent, linkVars, endVars, place>>
      /\ session' = [session EXCEPT ![i].handle = TRUE]
      /\ process' = [process EXCEPT ![i] = "idle"]
  BY <1>1 DEF MainAccepts
<1>3. HandleGoes(i, TRUE)
  BY <1>2, HandleSet, Numbers
<1>4. \A j \in Ids : Idle(j)' <=> Idle(j)
  BY <1>3 DEF Idle, HandleGoes
<1>5. PxiShape'
  BY <1>2, <1>3 DEF PxiShape, HandleGoes, senderVars, linkVars
<1>6. OnceOnLink' /\ Srv11Passed'
  BY <1>2, <1>3, LinkSame, Srv11Same, Numbers DEF PxiShape, HandleGoes
<1>7. Answered' = Answered /\ Busy' = Busy
  BY <1>2, <1>3, Numbers DEF Answered, Busy, endVars, HandleGoes
<1>8. AnswersCounted' /\ PendingCounts'
  BY <1>2, <1>7, AnswersSame, PendingSame DEF senderVars, endVars
<1>9. SessionsOpen'
  BY <1>1, <1>2, <1>3, <1>4, Numbers DEF SessionsOpen, PxiShape, HandleGoes, senderVars, endVars
<1>10. EndsLast' /\ SleepsAlone'
  BY <1>1, <1>2, <1>4, Numbers DEF EndsLast, SleepsAlone, Taken, Waiting, PxiShape, senderVars, endVars
<1> QED
  BY <1>5, <1>6, <1>8, <1>9, <1>10

\* MainTerminates: from now on, pxi:mc is not counted.
LEMMA TerminatesStep ==
  ASSUME PxiInv, MainTerminates
  PROVE  PxiInv'
<1> USE DEF PxiInv
<1>1. /\ UNCHANGED <<clientVars, session, senderVars, eventVars, linkVars>>
      /\ Goes("main", "send") /\ shouldTerminate' /\ Idle(0) /\ 0 \notin target /\ 0 \notin Waiting
      /\ ~shouldTerminate
  BY Numbers DEF MainTerminates, Waiting, EndsLast, Idle
<1>2. /\ \A u \in Threads : place'[u] = IF u = "main" THEN "send" ELSE place[u]
      /\ place' \in [Threads -> Everywhere]
  BY <1>1, PlaceGoes, PlaceTyped DEF Threads, Everywhere
<1>3. PxiShape'
  BY <1>1, <1>2 DEF PxiShape, clientVars, senderVars, linkVars, eventVars, Everywhere
<1>4. OnceOnLink' /\ Srv11Passed'
  BY <1>1, <1>2, LinkSame, Srv11Same, Numbers DEF PxiShape, Threads, eventVars
<1>5. Answered' = Answered
  BY <1>1 DEF Answered, Idle
<1>6. AnswersCounted' /\ PendingCounts'
  BY <1>1, <1>2, <1>5, AnswersSame, PendingSame DEF senderVars, eventVars, Threads
<1>7. SessionsOpen' /\ EndsLast' /\ SleepsAlone'
  BY <1>1, <1>2 DEF SessionsOpen, EndsLast, SleepsAlone, Idle, Taken, Waiting, Threads, clientVars, senderVars
<1> QED
  BY <1>3, <1>4, <1>6, <1>7

\* MainSendsEnd: the last command is sent for a session that is idle.
LEMMA SendsEndStep ==
  ASSUME PxiInv, MainSendsEnd
  PROVE  PxiInv'
<1> USE DEF PxiInv
<1>1. /\ UNCHANGED <<clientVars, senderVars, eventVars, fromArm9, endVars>>
      /\ Goes("main", "join") /\ shouldTerminate /\ Idle(0) /\ 0 \notin target /\ 0 \notin Waiting
      /\ session' = [session EXCEPT ![0].state = "sent"] /\ atArm9' = atArm9 \cup {0}
      /\ place["main"] = "send"
  BY Numbers DEF MainSendsEnd, Waiting, EndsLast, Idle
<1>2. /\ \A u \in Threads : place'[u] = IF u = "main" THEN "join" ELSE place[u]
      /\ place' \in [Threads -> Everywhere]
  BY <1>1, PlaceGoes, PlaceTyped DEF Threads, Everywhere
<1>3. StateGoes(0, "sent")
  BY <1>1, StateSet, Numbers DEF States
<1>4. PxiShape'
  BY <1>1, <1>2, <1>3, Numbers DEF PxiShape, StateGoes, clientVars, senderVars, linkVars, eventVars, Everywhere
<1>5. OnceOnLink'
  BY <1>1, <1>3, Numbers DEF OnceOnLink, StateGoes, Idle, PxiShape
<1>6. Srv11Passed'
  BY <1>1, <1>2, <1>3, Srv11Same, Numbers DEF StateGoes, Threads, eventVars
<1>7. Answered' = Answered
  BY <1>1, <1>3, Numbers DEF Answered, StateGoes, endVars
<1>8. AnswersCounted' /\ PendingCounts'
  BY <1>1, <1>2, <1>7, AnswersSame DEF PendingCounts, senderVars, eventVars, endVars, Threads
<1>9. \A i \in Services \ {0} : Idle(i)' <=> Idle(i)
  BY <1>3, Numbers DEF Idle, StateGoes
<1>10. SessionsOpen'
  <2>1. \A i \in Services : session'[i].handle = session[i].handle
    BY <1>3, Numbers DEF StateGoes
  <2>2. \A i \in target : i \in Services \ {0}
    BY <1>1 DEF PxiShape
  <2>3. UNCHANGED <<process, target, waited, shouldTerminate>> /\ place'["sender"] = place["sender"]
    BY <1>1, <1>2 DEF Threads, clientVars, senderVars, endVars
  <2>4. \A i \in Services : i = 0 \/ i \in Services \ {0}
    OBVIOUS
  <2>5. \A i \in waited : i \in Services
    BY DEF PxiShape
  <2> QED
    BY <1>1, <1>9, <2>1, <2>2, <2>3, <2>4, <2>5 DEF SessionsOpen
<1>11. EndsLast' /\ SleepsAlone'
  BY <1>1, <1>2, <1>9, Numbers DEF EndsLast, SleepsAlone, Waiting, Taken, Threads, clientVars, senderVars, endVars
<1> QED
  BY <1>4, <1>5, <1>6, <1>8, <1>10, <1>11

\* The steps of main.
LEMMA MainSteps ==
  ASSUME PxiInv, Main
  PROVE  PxiInv'
<1>1. CASE MainJoins
  <2>1. /\ UNCHANGED <<clientVars, session, senderVars, eventVars, linkVars, endVars>>
        /\ Goes("main", "end") /\ place["main"] = "join"
    BY <1>1 DEF MainJoins
  <2>2. /\ \A u \in Threads : place'[u] = IF u = "main" THEN "end" ELSE place[u]
        /\ place' \in [Threads -> Everywhere]
    BY <2>1, PlaceGoes, PlaceTyped DEF Threads, Everywhere, PxiInv
  <2> USE DEF PxiInv
  <2>3. PxiShape'
    BY <2>1, <2>2 DEF PxiShape, clientVars, senderVars, linkVars, eventVars, Everywhere
  <2>4. OnceOnLink' /\ Srv11Passed'
    BY <2>1, <2>2, LinkSame, Srv11Same DEF PxiShape, Threads, eventVars
  <2>5. AnswersCounted' /\ PendingCounts'
    BY <2>1, <2>2, AnswersSame, PendingSame DEF Answered, Busy, senderVars, eventVars, endVars, Threads
  <2>6. SessionsOpen' /\ EndsLast' /\ SleepsAlone'
    BY <2>1, <2>2 DEF SessionsOpen, EndsLast, SleepsAlone, Idle, Taken, Waiting, Threads, clientVars, senderVars, endVars
  <2> QED
    BY <2>3, <2>4, <2>5, <2>6
<1> QED
  BY <1>1, AcceptsStep, TerminatesStep, SendsEndStep DEF Main

-----------------------------------------------------------------------------
(* The receiver *)

\* A session that was sent is answered.
LEMMA AnsweredMore ==
  ASSUME PxiShape, NEW i \in Services, session[i].state = "sent", StateGoes(i, "fromArm9"),
         UNCHANGED shouldTerminate, ~(i = 0 /\ shouldTerminate)
  PROVE  Cardinality(Answered') = Cardinality(Answered) + 1
<1>1. Answered' = Answered \cup {i} /\ i \notin Answered
  BY Numbers DEF Answered, StateGoes
<1>2. Answered \in SUBSET Services
  BY DEF Answered
<1> QED
  BY <1>1, <1>2, ServicesFinite, FS_AddElement

\* The receiver fetches: what comes is for a session that was sent.
LEMMA FetchesStep ==
  ASSUME PxiInv, ReceiverFetches
  PROVE  PxiInv'
<1> USE DEF PxiInv
<1> DEFINE i == Head(fromArm9)
           n == Len(fromArm9)
<1>1. /\ UNCHANGED <<clientVars, senderVars, eventVars, atArm9, endVars>>
      /\ place["receiver"] = "wait" /\ fromArm9 # <<>> /\ fromArm9' = Tail(fromArm9)
  BY DEF ReceiverFetches
<1>2. /\ n \in Nat /\ n >= 1 /\ i = fromArm9[1] /\ i \in Ids /\ 1 \in 1..n
      /\ fromArm9' \in Seq(Ids) /\ Len(fromArm9') = n - 1
      /\ \A k \in 1..Len(fromArm9') : fromArm9'[k] = fromArm9[k + 1]
  BY <1>1 DEF PxiShape
<1> HIDE DEF i, n
<1>3. session[i].state = "sent"
  BY <1>1, <1>2 DEF Srv11Passed, OnceOnLink, Ids, n
<1>4. /\ session' = [session EXCEPT ![i].state = "fromArm9"]
      /\ Goes("receiver", CASE i = 0 /\ shouldTerminate -> "terminate"
                            [] i = SRV11 -> "srv11" [] OTHER -> "reply")
  BY <1>3 DEF ReceiverFetches, i
<1>5. StateGoes(i, "fromArm9")
  BY <1>2, <1>4, StateSet DEF States
<1>6. /\ \A u \in Threads \ {"receiver"} : place'[u] = place[u]
      /\ place'["receiver"] =
           IF i = 0 /\ shouldTerminate THEN "terminate" ELSE IF i = SRV11 THEN "srv11" ELSE "reply"
      /\ place' \in [Threads -> Everywhere]
  <2> DEFINE where == CASE i = 0 /\ shouldTerminate -> "terminate"
                        [] i = SRV11 -> "srv11" [] OTHER -> "reply"
  <2>1. where = IF i = 0 /\ shouldTerminate THEN "terminate" ELSE IF i = SRV11 THEN "srv11" ELSE "reply"
    BY Numbers
  <2>2. where \in Everywhere /\ "receiver" \in Threads
    BY <2>1 DEF Everywhere, Threads
  <2> HIDE DEF where
  <2>3. Goes("receiver", where)
    BY <1>4 DEF where
  <2> QED
    BY <2>1, <2>2, <2>3, PlaceGoes, PlaceTyped
<1>7. PxiShape'
  BY <1>1, <1>2, <1>5, <1>6 DEF PxiShape, StateGoes, Everywhere, clientVars, senderVars, eventVars
<1>8. OnceOnLink'
  <2>1. \A k \in 1..Len(fromArm9') : k + 1 \in 1..n /\ fromArm9[k + 1] # i
    BY <1>2 DEF OnceOnLink, n
  <2>2. \A j \in atArm9' : session'[j].state = "sent"
    <3>1. i \notin atArm9
      BY <1>2 DEF OnceOnLink, n, Ids, PxiShape
    <3> QED
      BY <1>1, <1>5, <3>1, Numbers DEF OnceOnLink, StateGoes, PxiShape
  <2>3. ASSUME NEW k \in 1..Len(fromArm9'), fromArm9'[k] \in Services
        PROVE  fromArm9'[k] \notin atArm9' /\ session'[fromArm9'[k]].state = "sent"
    <3>1. fromArm9'[k] = fromArm9[k + 1] /\ k + 1 \in 1..n /\ fromArm9[k + 1] # i
      BY <1>2, <2>1
    <3>2. fromArm9[k + 1] \notin atArm9 /\ session[fromArm9[k + 1]].state = "sent"
      BY <2>3, <3>1 DEF OnceOnLink, n
    <3> QED
      BY <1>1, <1>5, <2>3, <3>1, <3>2, Numbers DEF StateGoes
  <2>4. ASSUME NEW k \in 1..Len(fromArm9'), NEW l \in 1..Len(fromArm9'), fromArm9'[k] = fromArm9'[l]
        PROVE  k = l
    <3>1. fromArm9[k + 1] = fromArm9[l + 1] /\ k + 1 \in 1..n /\ l + 1 \in 1..n
      BY <1>2, <2>1, <2>4
    <3>2. k + 1 = l + 1
      BY <3>1 DEF OnceOnLink, n
    <3> QED
      BY <1>2, <3>2
  <2> QED
    BY <2>2, <2>3, <2>4 DEF OnceOnLink
<1>9. Srv11Passed'
  <2>1. place'["srv11"] = place["srv11"] /\ SRV11 \in Ids
    BY <1>6, Numbers DEF Threads
  <2>2. session'[SRV11].state = IF i = SRV11 THEN "fromArm9" ELSE session[SRV11].state
    BY <1>5, <2>1 DEF StateGoes
  <2> QED
    BY <1>1, <1>6, <2>1, <2>2, Numbers DEF Srv11Passed, eventVars
<1>10. AnswersCounted'
  <2>1. CASE i \in Services /\ ~(i = 0 /\ shouldTerminate)
    <3>1. Cardinality(Answered') = Cardinality(Answered) + 1
      BY <1>1, <1>3, <1>5, <2>1, AnsweredMore DEF endVars
    <3>2. place'["receiver"] = "reply" /\ replies' = replies /\ replies \in Nat
      BY <1>1, <1>6, <2>1, Numbers DEF eventVars, PxiShape
    <3>3. Answered \in SUBSET Services
      BY DEF Answered
    <3>4. Cardinality(Answered) \in Nat /\ replies <= Cardinality(Answered)
      BY <1>1, <3>2, <3>3, ServicesFinite DEF AnswersCounted
    <3> QED
      BY <3>1, <3>2, <3>4 DEF AnswersCounted
  <2>2. CASE i = SRV11 \/ (i = 0 /\ shouldTerminate)
    <3>1. Answered' = Answered
      <4>1. \A j \in Services : j # i => session'[j].state = session[j].state
        BY <1>5, Numbers DEF StateGoes
      <4>2. shouldTerminate' = shouldTerminate /\ (i \in Services => i = 0 /\ shouldTerminate)
        BY <1>1, <2>2, Numbers DEF endVars
      <4> QED
        BY <4>1, <4>2 DEF Answered
    <3>2. place'["receiver"] # "reply" /\ replies' = replies
      BY <1>1, <1>6, <2>2 DEF eventVars
    <3> QED
      BY <1>1, <3>1, <3>2, AnswersSame
  <2> QED
    BY <1>2, <2>1, <2>2 DEF Ids
<1>11. \A j \in Ids : Idle(j)' <=> Idle(j)
  BY <1>3, <1>5 DEF Idle, StateGoes
<1>12. PendingCounts'
  <2>1. Busy' = Busy
    BY <1>3, <1>5, Numbers DEF Busy, StateGoes
  <2> QED
    BY <1>1, <2>1, PendingSame DEF senderVars, endVars
<1>13. SessionsOpen' /\ EndsLast' /\ SleepsAlone'
  <2>1. \A j \in Services : (Idle(j)' <=> Idle(j)) /\ session'[j].handle = session[j].handle
    BY <1>5, <1>11, Numbers DEF StateGoes
  <2>2. place'["sender"] = place["sender"] /\ place'["main"] = place["main"]
    BY <1>6 DEF Threads
  <2>3. SessionsOpen'
    BY <1>1, <2>1, <2>2 DEF SessionsOpen, PxiShape, clientVars, senderVars, endVars
  <2>4. EndsLast'
    BY <1>1, <2>1, <2>2, Numbers DEF EndsLast, Waiting, clientVars, senderVars, endVars
  <2>5. SleepsAlone'
    BY <1>1, <2>1, Numbers DEF SleepsAlone, Taken, Waiting, clientVars, senderVars, endVars
  <2> QED
    BY <2>3, <2>4, <2>5
<1> QED
  BY <1>7, <1>8, <1>9, <1>10, <1>12, <1>13

\* The steps of the receiver; an answer is counted after the state is set.
LEMMA ReceiverSteps ==
  ASSUME PxiInv, Receiver
  PROVE  PxiInv'
<1> USE DEF PxiInv
<1>1. CASE ReceiverBegins \/ ReceiverSignals \/ ReceiverResumes \/ ReceiverEnds
  <2>1. /\ UNCHANGED <<clientVars, session, senderVars, resend, linkVars, shouldTerminate>>
        /\ replies' \in Nat
        /\ \E where \in {"wait", "srv11Sent", "end"} : Goes("receiver", where)
    <3>1. CASE ReceiverBegins \/ ReceiverSignals \/ ReceiverEnds
      BY <3>1 DEF ReceiverBegins, ReceiverSignals, ReceiverEnds, PxiShape, eventVars, endVars
    <3>2. CASE ReceiverResumes
      BY <3>2 DEF ReceiverResumes, PxiShape, endVars, Srv11Passed
    <3> QED
      BY <1>1, <3>1, <3>2
  <2>2. /\ \A u \in Threads \ {"receiver"} : place'[u] = place[u]
        /\ place' \in [Threads -> Everywhere]
    BY <2>1, PlaceGoes, PlaceTyped DEF Threads, Everywhere
  <2>3. "receiver" \in Threads
    BY DEF Threads
  <2>4. PxiShape'
    BY <2>1, <2>2 DEF PxiShape, clientVars, senderVars, linkVars, Everywhere
  <2>5. OnceOnLink'
    BY <2>1, LinkSame DEF PxiShape
  <2>6. Srv11Passed'
    <3>1. place'["srv11"] = place["srv11"]
      BY <2>2 DEF Threads
    <3>2. CASE ReceiverBegins
      <4>1. place'["receiver"] = "wait"
        BY <2>3, <3>2, PlaceGoes DEF ReceiverBegins
      <4> QED
        BY <2>1, <3>1, <3>2, <4>1 DEF Srv11Passed, ReceiverBegins
    <3>3. CASE ReceiverSignals
      <4>1. /\ replySent' = replySent
            /\ \/ /\ place["receiver"] \in {"reply", "terminate"} /\ Goes("receiver", "wait")
                  /\ UNCHANGED commandReceived
               \/ place["receiver"] = "srv11" /\ commandReceived' = TRUE /\ Goes("receiver", "srv11Sent")
        BY <3>3 DEF ReceiverSignals
      <4>2. \/ /\ place["receiver"] \in {"reply", "terminate"} /\ place'["receiver"] = "wait"
               /\ UNCHANGED commandReceived
            \/ place["receiver"] = "srv11" /\ commandReceived' = TRUE /\ place'["receiver"] = "srv11Sent"
        BY <2>3, <4>1, PlaceGoes
      <4> QED
        BY <2>1, <3>1, <4>1, <4>2 DEF Srv11Passed
    <3>4. CASE ReceiverResumes
      <4>1. place["receiver"] = "srv11Sent" /\ replySent /\ ~replySent' /\ commandReceived' = commandReceived
            /\ Goes("receiver", IF session[SRV11].state = "sent" THEN "wait" ELSE "panic")
        BY <3>4 DEF ReceiverResumes
      <4>2. session[SRV11].state = "sent"
        BY <4>1 DEF Srv11Passed
      <4>3. place'["receiver"] = "wait"
        BY <2>3, <4>1, <4>2, PlaceGoes
      <4> QED
        BY <2>1, <3>1, <4>1, <4>2, <4>3 DEF Srv11Passed
    <3>5. CASE ReceiverEnds
      <4>1. place'["receiver"] = "end"
        BY <2>3, <3>5, PlaceGoes DEF ReceiverEnds
      <4> QED
        BY <2>1, <3>1, <3>5, <4>1 DEF Srv11Passed, ReceiverEnds, eventVars
    <3> QED
      BY <1>1, <3>2, <3>3, <3>4, <3>5
  <2>7. AnswersCounted'
    <3>1. Answered' = Answered /\ Cardinality(Answered) \in Nat /\ replies \in Nat
      <4>1. Answered \in SUBSET Services /\ Answered' = Answered
        BY <2>1 DEF Answered
      <4> QED
        BY <4>1, ServicesFinite DEF PxiShape
    <3>2. \/ place["receiver"] = "reply" /\ replies' = replies + 1 /\ place'["receiver"] = "wait"
          \/ place["receiver"] # "reply" /\ replies' = replies /\ place'["receiver"] # "reply"
      <4>1. \/ place["receiver"] = "reply" /\ replies' = replies + 1 /\ Goes("receiver", "wait")
            \/ /\ place["receiver"] # "reply" /\ replies' = replies
               /\ \E where \in {"wait", "srv11Sent", "end"} : Goes("receiver", where)
        BY <1>1, <2>1 DEF ReceiverBegins, ReceiverSignals, ReceiverResumes, ReceiverEnds, eventVars
      <4> QED
        BY <2>3, <4>1, PlaceGoes
    <3> QED
      BY <3>1, <3>2 DEF AnswersCounted
  <2>8. PendingCounts'
    BY <2>1, PendingSame DEF Busy, senderVars
  <2>9. SessionsOpen' /\ EndsLast' /\ SleepsAlone'
    <3>1. place'["sender"] = place["sender"] /\ place'["main"] = place["main"]
      BY <2>2 DEF Threads
    <3> QED
      BY <2>1, <3>1 DEF SessionsOpen, EndsLast, SleepsAlone, Idle, Taken, Waiting, clientVars, senderVars
  <2> QED
    BY <2>4, <2>5, <2>6, <2>7, <2>8, <2>9
<1> QED
  BY <1>1, FetchesStep DEF Receiver

-----------------------------------------------------------------------------
(* The sender *)

\* A number that is small enough is its own remainder.
LEMMA Small == ASSUME NEW n \in Nat \ {0}, NEW x \in 0..n-1 PROVE x % n = x
OBVIOUS

\* Steps of the sender that change neither sessions nor what it has counted.
LEMMA SenderRests ==
  ASSUME PxiInv, SenderBlocks \/ SenderWakes
  PROVE  PxiInv'
<1> USE DEF PxiInv
<1>1. /\ UNCHANGED <<clientVars, session, senderVars, replies, commandReceived, replySent, linkVars, endVars>>
      /\ \/ Goes("sender", "blocked") /\ place["sender"] = "wait"
         \/ Goes("sender", "top")
  BY DEF SenderBlocks, SenderWakes, eventVars
<1>2. /\ \A u \in Threads \ {"sender"} : place'[u] = place[u]
      /\ place' \in [Threads -> Everywhere]
      /\ \/ place'["sender"] = "blocked" /\ place["sender"] = "wait"
         \/ place'["sender"] = "top"
  BY <1>1, PlaceGoes, PlaceTyped DEF Threads, Everywhere
<1>3. place["sender"] # "end"
  BY DEF SenderBlocks, SenderWakes, Receives
<1>4. PxiShape'
  BY <1>1, <1>2 DEF PxiShape, clientVars, senderVars, linkVars, Everywhere
<1>5. OnceOnLink' /\ Srv11Passed'
  BY <1>1, <1>2, LinkSame, Srv11Same DEF PxiShape, Threads
<1>6. AnswersCounted' /\ PendingCounts'
  BY <1>1, <1>2, AnswersSame, PendingSame DEF Answered, Busy, senderVars, endVars, Threads
<1>7. SessionsOpen'
  BY <1>1, <1>2, <1>3 DEF SessionsOpen, Idle, clientVars, senderVars, endVars
<1>8. EndsLast' /\ SleepsAlone'
  BY <1>1, <1>2 DEF EndsLast, SleepsAlone, Idle, Taken, Waiting, Threads, clientVars, senderVars, endVars
<1> QED
  BY <1>4, <1>5, <1>6, <1>7, <1>8

\* The reply to a process.
LEMMA RepliesStep ==
  ASSUME PxiInv, SenderReplies
  PROVE  PxiInv'
<1> USE DEF PxiInv
<1>1. PICK i \in target : /\ process[i] # "gone"
                          /\ process' = [process EXCEPT ![i] = "idle"]
                          /\ asleep' = IF process[i] = "wake" THEN FALSE ELSE asleep
  BY DEF SenderReplies
<1>2. /\ UNCHANGED <<quiet, session, mc5, pending, disabled, provided, freeBuffers, waited, place, eventVars, linkVars, endVars>>
      /\ target' = {} /\ place["sender"] = "wait"
  BY DEF SenderReplies
<1>3. i \in Services /\ target = {i} /\ Idle(i) /\ session[i].handle
  BY <1>2 DEF SessionsOpen, PxiShape
<1>4. /\ process' \in [Services -> {"none", "connecting", "idle", "other", "sleep", "wake", "gone"}]
      /\ \A j \in Services : process'[j] = IF j = i THEN "idle" ELSE process[j]
  BY <1>1, <1>3 DEF PxiShape
<1>5. PxiShape'
  BY <1>2, <1>4 DEF PxiShape, linkVars, eventVars
<1>6. OnceOnLink' /\ Srv11Passed' /\ AnswersCounted' /\ PendingCounts'
  BY <1>2 DEF OnceOnLink, Srv11Passed, AnswersCounted, PendingCounts, Answered, Busy, eventVars, endVars, linkVars
<1>7. SessionsOpen'
  BY <1>2, <1>3, <1>4 DEF SessionsOpen, Idle, endVars, PxiShape
<1>8. EndsLast'
  BY <1>2, <1>4, Numbers DEF EndsLast, Idle, Waiting, endVars
<1>9. SleepsAlone'
  <2>1. CASE i = 0 /\ process[0] # "wake"
    BY <1>1, <1>2, <1>3, <1>4, <2>1, Numbers DEF SleepsAlone, Idle, Taken, Waiting, endVars
  <2>2. CASE i = 0 /\ process[0] = "wake"
    BY <1>1, <1>2, <1>3, <1>4, <2>2, Numbers DEF SleepsAlone, Idle, Taken, Waiting, endVars
  <2>3. CASE i # 0 /\ process[i] = "wake"
    BY <1>1, <1>2, <1>3, <1>4, <2>3, Numbers DEF SleepsAlone, Idle, Taken, Waiting, endVars
  <2>4. CASE i # 0 /\ process[i] # "wake"
    BY <1>1, <1>2, <1>3, <1>4, <2>4, Numbers DEF SleepsAlone, Idle, Taken, Waiting, endVars
  <2> QED
    BY <2>1, <2>2, <2>3, <2>4
<1> QED
  BY <1>5, <1>6, <1>7, <1>8, <1>9

\* The handles behind the third are those of the sessions.
LEMMA ReadyFor ==
  ASSUME PxiShape, NEW i \in Services, 3 + i \in Ready
  PROVE  i \in waited /\ (process[i] = "gone" \/ i \in Waiting)
<1>1. i \in Int /\ i >= 0
  BY PxiAssumption
<1>2. 3 + i \notin {0} /\ 3 + i \notin {1} /\ 3 + i \notin {2}
  BY <1>1
<1>3. 3 + i \in ReadySessions
  BY <1>2 DEF Ready
<1>4. PICK j \in {k \in waited : process[k] = "gone" \/ k \in Waiting} : 3 + i = 3 + j
  BY <1>3 DEF ReadySessions
<1>5. j \in Int
  BY PxiAssumption DEF PxiShape
<1>6. i = j
  BY <1>1, <1>4, <1>5
<1> QED
  BY <1>4, <1>6

\* A session is closed.
LEMMA ClosedStep ==
  ASSUME PxiInv, NEW i \in Services, SenderClosed(i)
  PROVE  PxiInv'
<1> USE DEF PxiInv
<1>1. /\ UNCHANGED <<asleep, quiet, mc5, pending, disabled, provided, freeBuffers, waited, eventVars, linkVars, endVars>>
      /\ process[i] = "gone" /\ process' = [process EXCEPT ![i] = "none"]
      /\ session' = [session EXCEPT ![i].handle = FALSE]
      /\ target' = {} /\ Goes("sender", "top") /\ place["sender"] \in {"wait", "blocked"}
      /\ target = {i} \/ (target = {} /\ i \in waited)
  BY ReadyFor DEF SenderClosed, Receives
<1>2. HandleGoes(i, FALSE)
  BY <1>1, HandleSet, Numbers
<1>3. /\ \A j \in Ids : Idle(j)' <=> Idle(j)
      /\ \A j \in Services : session'[j].state = session[j].state
  BY <1>2, Numbers DEF Idle, HandleGoes
<1>4. /\ \A u \in Threads \ {"sender"} : place'[u] = place[u]
      /\ place' \in [Threads -> Everywhere] /\ place'["sender"] = "top"
  BY <1>1, PlaceGoes, PlaceTyped DEF Threads, Everywhere
<1>5. /\ process' \in [Services -> {"none", "connecting", "idle", "other", "sleep", "wake", "gone"}]
      /\ \A j \in Services : process'[j] = IF j = i THEN "none" ELSE process[j]
  BY <1>1 DEF PxiShape
<1>6. Idle(i) \/ (i = 0 /\ shouldTerminate)
  BY <1>1 DEF SessionsOpen
<1>7. PxiShape'
  BY <1>1, <1>2, <1>4, <1>5 DEF PxiShape, HandleGoes, linkVars, eventVars, Everywhere
<1>8. OnceOnLink' /\ Srv11Passed'
  BY <1>1, <1>2, <1>3, <1>4, LinkSame, Srv11Same, Numbers DEF PxiShape, HandleGoes, Threads, eventVars
<1>9. AnswersCounted' /\ PendingCounts'
  BY <1>1, <1>3, <1>4, AnswersSame, PendingSame DEF Answered, Busy, eventVars, endVars, Threads
<1>10. SessionsOpen'
  BY <1>1, <1>2, <1>3, <1>4, <1>5, <1>6, Numbers DEF SessionsOpen, HandleGoes, endVars, PxiShape
<1>11. EndsLast'
  BY <1>1, <1>3, <1>4, <1>5, Numbers DEF EndsLast, Waiting, endVars, Threads
<1>12. SleepsAlone'
  <2>1. CASE i = 0
    BY <1>1, <1>3, <1>5, <2>1, Numbers DEF SleepsAlone, Taken, Waiting, endVars
  <2>2. CASE i # 0
    <3>1. (Taken' <=> Taken) /\ process'[0] = process[0]
      BY <1>1, <1>3, <1>5, <2>2, Numbers DEF Taken
    <3> QED
      BY <1>1, <1>3, <1>5, <3>1, Numbers DEF SleepsAlone, Waiting, endVars
  <2> QED
    BY <2>1, <2>2
<1> QED
  BY <1>7, <1>8, <1>9, <1>10, <1>11, <1>12

\* All sessions are closed.
LEMMA SenderEndsStep ==
  ASSUME PxiInv, SenderEnds
  PROVE  PxiInv'
<1> USE DEF PxiInv
<1>1. /\ UNCHANGED <<clientVars, senderVars, eventVars, linkVars, endVars>>
      /\ session' = [i \in Ids |-> [session[i] EXCEPT !.handle = FALSE]]
      /\ Goes("sender", "end")
  BY DEF SenderEnds
<1>2. /\ session' \in [Ids -> SessionData]
      /\ \A j \in Ids : session'[j].state = session[j].state /\ ~session'[j].handle
  <2>1. ASSUME NEW j \in Ids
        PROVE  session'[j] \in SessionData /\ session'[j].state = session[j].state /\ ~session'[j].handle
    <3>1. session'[j] = [session[j] EXCEPT !.handle = FALSE] /\ session[j] \in SessionData
      BY <1>1 DEF PxiShape
    <3> QED
      BY <3>1 DEF SessionData
  <2> QED
    BY <1>1, <2>1
<1>3. \A j \in Services : (Idle(j)' <=> Idle(j)) /\ session'[j].state = session[j].state /\ ~session'[j].handle
  BY <1>2, Numbers DEF Idle
<1>4. /\ \A u \in Threads \ {"sender"} : place'[u] = place[u]
      /\ place' \in [Threads -> Everywhere] /\ place'["sender"] = "end"
  BY <1>1, PlaceGoes, PlaceTyped DEF Threads, Everywhere
<1>5. PxiShape'
  BY <1>1, <1>2, <1>4 DEF PxiShape, clientVars, senderVars, linkVars, eventVars, Everywhere
<1>6. OnceOnLink' /\ Srv11Passed'
  BY <1>1, <1>2, <1>3, <1>4, LinkSame, Srv11Same, Numbers DEF PxiShape, Threads, eventVars
<1>7. AnswersCounted' /\ PendingCounts'
  BY <1>1, <1>3, <1>4, AnswersSame, PendingSame DEF Answered, Busy, eventVars, senderVars, endVars, Threads
<1>8. SessionsOpen'
  BY <1>1, <1>3, <1>4 DEF SessionsOpen, clientVars, senderVars, endVars, PxiShape
<1>9. EndsLast'
  BY <1>1, <1>3, <1>4, Numbers DEF EndsLast, Waiting, clientVars, senderVars, endVars, Threads
<1>10. SleepsAlone'
  BY <1>1, <1>3, Numbers DEF SleepsAlone, Taken, Waiting, clientVars, senderVars, endVars
<1> QED
  BY <1>5, <1>6, <1>7, <1>8, <1>9, <1>10

\* A session gets a state and its static buffers.
StateAndBuffersGo(i, state, buffers) ==
  /\ session' \in [Ids -> SessionData]
  /\ \A j \in Ids : /\ session'[j].state = IF j = i THEN state ELSE session[j].state
                    /\ session'[j].handle = session[j].handle
                    /\ session'[j].used = IF j = i THEN buffers ELSE session[j].used

\* What an update of a state and its static buffers does.
LEMMA StateAndBuffersSet ==
  ASSUME PxiShape, NEW i \in Ids, NEW state \in States, NEW buffers \in SUBSET Buffers,
         session' = [session EXCEPT ![i].state = state, ![i].used = buffers]
  PROVE  StateAndBuffersGo(i, state, buffers)
<1>1. session \in [Ids -> SessionData]
  BY DEF PxiShape
<1>2. ASSUME NEW j \in Ids
      PROVE  /\ session'[j] \in SessionData
             /\ session'[j].state = IF j = i THEN state ELSE session[j].state
             /\ session'[j].handle = session[j].handle
             /\ session'[j].used = IF j = i THEN buffers ELSE session[j].used
  <2>1. session'[j] = IF j = i THEN [session[j] EXCEPT !.state = state, !.used = buffers] ELSE session[j]
    BY <1>1
  <2> QED
    BY <1>1, <2>1 DEF SessionData
<1>3. session' \in [Ids -> SessionData]
  BY <1>1, <1>2
<1> QED
  BY <1>2, <1>3 DEF StateAndBuffersGo

\* The command of a process is one that the sender expects.
LEMMA Expected ==
  ASSUME PxiInv, NEW i \in Services, Receives(3 + i), i \in Waiting
  PROVE  /\ Idle(i) /\ target = {} /\ place["sender"] \in {"wait", "blocked"} /\ i \in waited
         /\ ~(i = 0 /\ shouldTerminate)
         /\ process[i] = "sleep" => i = 0 /\ asleep /\ ~disabled
         /\ process[i] = "wake" => i = 0 /\ asleep /\ disabled /\ mc5 = 1
         /\ process[i] = "other" => ~asleep
<1> USE DEF PxiInv
<1>1. /\ target = {} /\ place["sender"] \in {"wait", "blocked"} /\ i \in waited
  BY ReadyFor DEF Receives
<1>2. ~(i = 0 /\ shouldTerminate)
  BY DEF EndsLast
<1>3. Idle(i)
  BY <1>1, <1>2 DEF SessionsOpen
<1>4. i # 0 => process[i] = "other"
  BY DEF SleepsAlone, Waiting
<1>5. ~Taken \/ i # 0
  BY <1>1, <1>3 DEF Taken
<1>6. process[i] = "other" => ~asleep
  BY <1>1, Numbers DEF SleepsAlone, Waiting
<1>7. process[i] = "sleep" => i = 0 /\ asleep /\ ~disabled
  BY <1>4, <1>5, Numbers DEF SleepsAlone
<1>8. process[i] = "wake" => i = 0 /\ asleep /\ disabled /\ mc5 = 1
  BY <1>4, <1>5, Numbers DEF SleepsAlone
<1> QED
  BY <1>1, <1>2, <1>3, <1>6, <1>7, <1>8

\* SenderReceives: a command comes from an idle session.
LEMMA ReceivesStep ==
  ASSUME PxiInv, NEW i \in Services, SenderReceives(i)
  PROVE  PxiInv'
<1> USE DEF PxiInv
<1> DEFINE kept == provided \ MSBs(provided, MaxProvided - StaticBuffersOf[i])
           available == freeBuffers \cup (provided \ kept)
<1>1. Receives(3 + i) /\ i \in Waiting
  BY DEF SenderReceives
<1>2. /\ Idle(i) /\ target = {} /\ place["sender"] \in {"wait", "blocked"} /\ i \in waited
      /\ ~(i = 0 /\ shouldTerminate)
      /\ process[i] = "sleep" => i = 0 /\ asleep /\ ~disabled
      /\ process[i] = "wake" => i = 0 /\ asleep /\ disabled /\ mc5 = 1
      /\ process[i] = "other" => ~asleep
  BY <1>1, Expected
<1>3. /\ UNCHANGED <<clientVars, pending, target, waited, eventVars, linkVars, endVars>>
      /\ mc5' = CASE process[i] = "other" -> 0 [] process[i] = "sleep" -> 1 [] OTHER -> 2
      /\ disabled' = (disabled \/ process[i] = "sleep")
      /\ session' = [session EXCEPT ![i].state = "fromArm11", ![i].used = kept]
      /\ provided' = MSBs(available, MaxProvided)
      /\ freeBuffers' = available \ MSBs(available, MaxProvided)
      /\ Goes("sender", "top")
  BY <1>2 DEF SenderReceives, acquireStaticBuffers, Idle
<1>4. /\ kept \in SUBSET Buffers /\ MSBs(available, MaxProvided) \subseteq available
      /\ available \subseteq Buffers
  BY DEF MSBs, PxiShape
<1>5. provided' \subseteq Buffers /\ freeBuffers' \subseteq Buffers
  BY <1>3, <1>4
<1>6. StateAndBuffersGo(i, "fromArm11", kept)
  BY <1>3, <1>4, StateAndBuffersSet, Numbers DEF States
<1> HIDE DEF kept, available
<1>7. \A j \in Services : /\ session'[j].state = IF j = i THEN "fromArm11" ELSE session[j].state
                          /\ session'[j].handle = session[j].handle
  BY <1>6, Numbers DEF StateAndBuffersGo
<1>8. /\ \A u \in Threads \ {"sender"} : place'[u] = place[u]
      /\ place' \in [Threads -> Everywhere] /\ place'["sender"] = "top"
  BY <1>3, PlaceGoes, PlaceTyped DEF Threads, Everywhere
<1>9. PxiShape'
  BY <1>3, <1>5, <1>6, <1>8 DEF PxiShape, StateAndBuffersGo, clientVars, linkVars, eventVars, Everywhere
<1>10. OnceOnLink'
  BY <1>2, <1>3, <1>7, LinkSame DEF PxiShape, Idle
<1>11. Srv11Passed'
  <2>1. session'[SRV11].state = session[SRV11].state
    BY <1>6, Numbers DEF StateAndBuffersGo
  <2> QED
    BY <1>3, <1>8, <2>1, Srv11Same DEF Threads, eventVars
<1>12. AnswersCounted'
  <2>1. Answered' = Answered
    <3>1. shouldTerminate' = shouldTerminate /\ i \notin Answered /\ i \notin Answered'
      <4>1. shouldTerminate' = shouldTerminate
        BY <1>3 DEF endVars
      <4>2. i \notin Answered
        BY <1>2 DEF Answered, Idle
      <4>3. i \notin Answered'
        BY <1>7 DEF Answered
      <4> QED
        BY <4>1, <4>2, <4>3
    <3>2. \A j \in Services \ {i} : session'[j].state = session[j].state
      BY <1>7
    <3> QED
      BY <3>1, <3>2 DEF Answered
  <2> QED
    BY <1>3, <1>8, <2>1, AnswersSame DEF eventVars, Threads
<1>13. (\A j \in Services \ {i} : Idle(j)' <=> Idle(j)) /\ ~Idle(i)'
  BY <1>7 DEF Idle
<1>14. SessionsOpen'
  <2>1. process[i] \in {"other", "sleep", "wake"}
    BY <1>1 DEF Waiting
  <2> QED
    BY <1>2, <1>3, <1>7, <1>8, <1>13, <2>1 DEF SessionsOpen, PxiShape, clientVars, endVars
<1>15. EndsLast'
  BY <1>2, <1>3, <1>8, <1>13, Numbers DEF EndsLast, Waiting, clientVars, endVars, Threads
<1>16. SleepsAlone' /\ PendingCounts'
  <2>1. UNCHANGED <<process, asleep, target, pending, shouldTerminate>>
    BY <1>3 DEF clientVars, endVars
  <2>2. CASE process[i] = "other"
    <3>1. mc5' = 0 /\ (disabled' <=> disabled) /\ ~asleep
      <4>1. mc5' = 0
        BY <1>3, <2>2
      <4>2. disabled' <=> disabled
        BY <1>3, <2>2
      <4> QED
        BY <1>2, <2>2, <4>1, <4>2
    <3>2. SleepsAlone'
      BY <1>2, <2>1, <2>2, <3>1, <1>13, Numbers DEF SleepsAlone, Taken, Waiting
    <3>3. mc5 \in {0, 2}
      BY <3>1 DEF SleepsAlone
    <3>4. Busy' = Busy
      BY <1>2, <1>7 DEF Busy, Idle
    <3>5. mc5 = 2 /\ ~shouldTerminate => Busy = {}
      BY <3>1 DEF SleepsAlone, Busy, Idle
    <3> QED
      BY <2>1, <3>1, <3>2, <3>3, <3>4, <3>5, FS_EmptySet DEF PendingCounts
  <2>3. CASE process[i] \in {"sleep", "wake"}
    <3>1. /\ i = 0 /\ asleep /\ mc5' = (IF process[i] = "sleep" THEN 1 ELSE 2) /\ disabled'
          /\ mc5 \in 0..2
      BY <1>2, <1>3, <2>3 DEF SleepsAlone
    <3>2. SleepsAlone'
      BY <1>2, <2>1, <2>3, <3>1, <1>13, Numbers DEF SleepsAlone, Taken, Waiting
    <3>3. Busy = {}
      BY <1>2, <3>1 DEF SleepsAlone, Busy, Idle
    <3>4. ~shouldTerminate => pending = 0
      BY <3>3, FS_EmptySet DEF PendingCounts
    <3> QED
      BY <2>1, <3>1, <3>2, <3>4 DEF PendingCounts
  <2> QED
    BY <1>1, <2>2, <2>3 DEF Waiting
<1> QED
  BY <1>9, <1>10, <1>11, <1>12, <1>14, <1>15, <1>16

\* While pending does not count the commands, only pxi:mc's are sent, and none
\* of them if the sender counts what it sends.
LEMMA NothingUncounted ==
  ASSUME PxiInv, mc5 # 0, ~disabled, ~shouldTerminate
  PROVE  \A i \in Services : Idle(i)
<1> USE DEF PxiInv
<1>1. mc5 = 1 \/ mc5 = 2
  BY DEF SleepsAlone
<1>2. CASE mc5 = 1
  <2>1. asleep /\ \A i \in Services \ {0} : Idle(i)
    BY <1>2 DEF SleepsAlone
  <2>2. process[0] \in {"idle", "sleep", "wake"}
    BY <2>1 DEF SleepsAlone
  <2>3. ~Taken
    BY <1>2, <2>1, <2>2 DEF SleepsAlone
  <2> QED
    BY <2>1, <2>3 DEF Taken
<1>3. CASE mc5 = 2
  <2>1. \A i \in Services \ {0} : Idle(i)
    BY <1>3 DEF SleepsAlone
  <2>2. CASE ~asleep
    BY <1>3, <2>1, <2>2 DEF SleepsAlone
  <2>3. CASE asleep
    <3>1. process[0] \in {"sleep", "wake"}
      BY <1>3, <2>3 DEF SleepsAlone
    <3>2. Idle(0)
      BY <1>3, <2>3, <3>1 DEF SleepsAlone, Taken
    <3> QED
      BY <2>1, <3>2
  <2> QED
    BY <2>2, <2>3
<1> QED
  BY <1>1, <1>2, <1>3

\* Sessions go to Process9.
LEMMA SendsStep ==
  ASSUME PxiInv, CounterSize > Cardinality(Services), SenderSends
  PROVE  PxiInv'
<1> USE DEF PxiInv
<1> DEFINE sent == IF target = {} THEN Sendable ELSE {}
<1>1. /\ UNCHANGED <<clientVars, mc5, disabled, provided, freeBuffers, target, eventVars, fromArm9, endVars>>
      /\ session' = [i \in Ids |->
                       IF i \in sent THEN [session[i] EXCEPT !.state = "sent"] ELSE session[i]]
      /\ pending' = IF disabled THEN pending ELSE (pending + Cardinality(sent)) % CounterSize
      /\ atArm9' = atArm9 \cup sent
      /\ waited' = {i \in InState("idle") \cap Services : session[i].handle}
      /\ Goes("sender", "wait") /\ place["sender"] = "top"
  BY DEF SenderSends
<1>2. sent \in SUBSET Services /\ \A i \in sent : session[i].state = "fromArm11"
  BY DEF Sendable, InState
<1> HIDE DEF sent
<1>3. /\ session' \in [Ids -> SessionData]
      /\ \A j \in Ids : /\ session'[j].state = IF j \in sent THEN "sent" ELSE session[j].state
                        /\ session'[j].handle = session[j].handle
  <2>1. ASSUME NEW j \in Ids
        PROVE  /\ session'[j] \in SessionData
               /\ session'[j].state = IF j \in sent THEN "sent" ELSE session[j].state
               /\ session'[j].handle = session[j].handle
    <3>1. session[j] \in SessionData
      BY DEF PxiShape
    <3>2. CASE j \in sent
      <4>1. session'[j] = [session[j] EXCEPT !.state = "sent"]
        BY <1>1, <3>2
      <4> QED
        BY <3>1, <3>2, <4>1 DEF SessionData, States
    <3>3. CASE j \notin sent
      <4>1. session'[j] = session[j]
        BY <1>1, <3>3
      <4> QED
        BY <3>1, <3>3, <4>1
    <3> QED
      BY <3>2, <3>3
  <2> QED
    BY <1>1, <2>1
<1>4. /\ \A j \in Services : session'[j].state = IF j \in sent THEN "sent" ELSE session[j].state
      /\ \A j \in Services : session'[j].handle = session[j].handle
      /\ session'[SRV11].state = session[SRV11].state
  BY <1>2, <1>3, Numbers
<1>5. /\ \A u \in Threads \ {"sender"} : place'[u] = place[u]
      /\ place' \in [Threads -> Everywhere] /\ place'["sender"] = "wait"
  BY <1>1, PlaceGoes, PlaceTyped DEF Threads, Everywhere
<1>6. waited' \subseteq Services /\ \A j \in waited' : Idle(j)
  BY <1>1 DEF InState, Idle
<1>7. PxiShape'
  BY <1>1, <1>2, <1>3, <1>5, <1>6 DEF PxiShape, clientVars, eventVars, Everywhere
<1>8. OnceOnLink'
  <2>1. \A j \in atArm9' : session'[j].state = "sent"
    BY <1>1, <1>2, <1>4 DEF OnceOnLink, PxiShape
  <2>2. ASSUME NEW k \in 1..Len(fromArm9), fromArm9[k] \in Services
        PROVE  fromArm9[k] \notin atArm9' /\ session'[fromArm9[k]].state = "sent"
    <3>1. fromArm9[k] \notin atArm9 /\ session[fromArm9[k]].state = "sent"
      BY <2>2 DEF OnceOnLink
    <3>2. fromArm9[k] \notin sent
      BY <1>2, <3>1
    <3> QED
      BY <1>1, <1>4, <2>2, <3>1, <3>2
  <2>3. fromArm9' = fromArm9
    BY <1>1
  <2> QED
    BY <2>1, <2>2, <2>3 DEF OnceOnLink
<1>9. Srv11Passed'
  BY <1>1, <1>4, <1>5, Srv11Same DEF Threads, eventVars
<1>10. \A j \in Services : (Idle(j)' <=> Idle(j)) /\ (session'[j].state = "fromArm9" <=> session[j].state = "fromArm9")
  BY <1>2, <1>4 DEF Idle
<1>11. AnswersCounted'
  BY <1>1, <1>5, <1>10, AnswersSame DEF Answered, eventVars, endVars, Threads
<1>12. SessionsOpen'
  <2>1. UNCHANGED <<process, target, shouldTerminate>> /\ target \subseteq Services
    BY <1>1 DEF PxiShape, clientVars, endVars
  <2>2. place["sender"] # "end"
    BY <1>1
  <2> QED
    BY <1>4, <1>6, <1>10, <2>1, <2>2 DEF SessionsOpen
<1>13. EndsLast'
  BY <1>1, <1>5, <1>10, Numbers DEF EndsLast, Waiting, clientVars, endVars, Threads
<1>14. SleepsAlone'
  BY <1>1, <1>10, Numbers DEF SleepsAlone, Taken, Waiting, clientVars, endVars
<1>15. PendingCounts'
  <2> SUFFICES ASSUME ~shouldTerminate
               PROVE  pending' = IF mc5 = 0 THEN Cardinality(Busy') ELSE 0
    BY <1>1 DEF PendingCounts, endVars
  <2>1. pending = IF mc5 = 0 THEN Cardinality(Busy) ELSE 0
    BY DEF PendingCounts
  <2>2. CASE disabled
    BY <1>1, <2>1, <2>2 DEF SleepsAlone
  <2>3. CASE ~disabled /\ mc5 # 0
    <3>1. sent = {}
      BY <1>2, <2>3, NothingUncounted DEF Idle
    <3>2. pending' = 0 % CounterSize
      BY <1>1, <2>1, <2>3, <3>1, FS_EmptySet
    <3> QED
      BY <2>3, <3>2, PxiAssumption
  <2>4. CASE ~disabled /\ mc5 = 0
    <3>1. Busy' = Busy \cup sent /\ Busy \cap sent = {}
      BY <1>2, <1>4 DEF Busy
    <3>2. Busy \in SUBSET Services /\ Busy' \in SUBSET Services
      BY DEF Busy
    <3>3. /\ IsFiniteSet(Busy) /\ IsFiniteSet(sent) /\ Cardinality(Busy) \in Nat /\ Cardinality(sent) \in Nat
          /\ Cardinality(Busy') \in Nat /\ Cardinality(Services) \in Nat
      BY <1>2, <3>2, ServicesFinite
    <3>4. Cardinality(Busy') = Cardinality(Busy) + Cardinality(sent)
      <4>1. Cardinality(Busy \cup sent) = Cardinality(Busy) + Cardinality(sent) - Cardinality(Busy \cap sent)
        BY <3>3, FS_Union
      <4>2. Cardinality(Busy \cap sent) = 0
        BY <3>1, FS_EmptySet
      <4> QED
        BY <3>1, <3>3, <4>1, <4>2
    <3>5. Cardinality(Busy') <= Cardinality(Services)
      BY <3>2, ServicesFinite, FS_Subset
    <3>6. Cardinality(Busy') \in 0..CounterSize - 1
      BY <3>3, <3>5, PxiAssumption
    <3>7. pending' = Cardinality(Busy') % CounterSize
      BY <1>1, <2>1, <2>4, <3>4
    <3> QED
      BY <2>4, <3>6, <3>7, Small, PxiAssumption
  <2> QED
    BY <2>2, <2>3, <2>4
<1> QED
  BY <1>7, <1>8, <1>9, <1>11, <1>12, <1>13, <1>14, <1>15

\* The second handle is the semaphore.
LEMMA ReadyForReply ==
  ASSUME PxiShape, 2 \in Ready
  PROVE  replies > 0
<1>1. \A j \in waited : j \in Int /\ j >= 0
  BY PxiAssumption DEF PxiShape
<1>2. 2 \notin ReadySessions
  BY <1>1 DEF ReadySessions
<1> QED
  BY <1>2 DEF Ready

\* The sender takes the least number of those that are answered.
LEMMA LeastOf ==
  ASSUME NEW S \in SUBSET Nat, S # {}
  PROVE  Min(S) \in S
BY LeastElement DEF Min

\* When the sender comes for an answer, there is one, and none is counted when
\* the system wakes up.
LEMMA AnswerThere ==
  ASSUME PxiInv, Receives(2)
  PROVE  /\ replies > 0 /\ target = {} /\ place["sender"] \in {"wait", "blocked"}
         /\ Answered # {} /\ Answered \in SUBSET Services
         /\ InState("fromArm9") \cap Services # {}
         /\ ~(mc5 = 2 /\ pending # 0)
<1> USE DEF PxiInv
<1>1. replies > 0 /\ target = {} /\ place["sender"] \in {"wait", "blocked"}
  BY ReadyForReply DEF Receives
<1>2. Answered \in SUBSET Services
  BY DEF Answered
<1>3. IsFiniteSet(Answered) /\ Cardinality(Answered) \in Nat /\ Cardinality(Answered) >= replies
  BY <1>2, ServicesFinite DEF AnswersCounted, PxiShape
<1>4. Answered # {}
  BY <1>1, <1>3, FS_EmptySet DEF PxiShape
<1>5. InState("fromArm9") \cap Services # {}
  BY <1>4, Numbers DEF Answered, InState
<1>6. ASSUME mc5 = 2 PROVE pending = 0
  <2>1. CASE shouldTerminate
    BY <1>4, <1>6, <2>1 DEF SleepsAlone, Answered, Idle
  <2>2. CASE ~shouldTerminate
    BY <1>6, <2>2 DEF PendingCounts
  <2> QED
    BY <2>1, <2>2
<1> QED
  BY <1>1, <1>2, <1>4, <1>5, <1>6

\* An answer goes to the process whose command it is for.
LEMMA AnswerStep ==
  ASSUME PxiInv, CounterSize > Cardinality(Services), SenderAnswer
  PROVE  PxiInv'
<1> USE DEF PxiInv
<1> DEFINE S == InState("fromArm9") \cap Services
<1>1. /\ replies > 0 /\ target = {} /\ place["sender"] \in {"wait", "blocked"}
      /\ Answered # {} /\ Answered \in SUBSET Services
      /\ S # {}
      /\ ~(mc5 = 2 /\ pending # 0)
  BY AnswerThere DEF SenderAnswer
<1>2. PICK i \in Services : i = Min(S) /\ session[i].state = "fromArm9"
  <2>1. S \in SUBSET Nat
    <3>1. Services \subseteq Nat
      BY PxiAssumption
    <3> QED
      BY <3>1
  <2> HIDE DEF S
  <2>2. Min(S) \in S
    BY <1>1, <2>1, LeastOf
  <2> QED
    BY <2>2 DEF S, InState
<1>3. /\ UNCHANGED <<clientVars, mc5, provided, waited, resend, commandReceived, replySent, linkVars, endVars>>
      /\ replies' = replies - 1
      /\ session' = [session EXCEPT ![i].state = "idle", ![i].used = {}]
      /\ freeBuffers' = freeBuffers \cup session[i].used
      /\ pending' = IF mc5 = 0 THEN (pending - 1) % CounterSize ELSE pending
      /\ disabled' = (disabled /\ mc5 # 2)
      /\ target' = IF session[i].handle THEN {i} ELSE {}
      /\ Goes("sender", "top")
  BY <1>1, <1>2 DEF SenderAnswer
<1> HIDE DEF S
<1>4. StateAndBuffersGo(i, "idle", {})
  BY <1>2, <1>3, StateAndBuffersSet, Numbers DEF States
<1>5. /\ \A j \in Services : session'[j].state = IF j = i THEN "idle" ELSE session[j].state
      /\ \A j \in Services : session'[j].handle = session[j].handle
      /\ session'[SRV11].state = session[SRV11].state
  BY <1>2, <1>4, Numbers DEF StateAndBuffersGo
<1>6. /\ \A u \in Threads \ {"sender"} : place'[u] = place[u]
      /\ place' \in [Threads -> Everywhere] /\ place'["sender"] = "top"
  BY <1>3, PlaceGoes, PlaceTyped DEF Threads, Everywhere
<1>7. session[i].used \subseteq Buffers /\ i \in Ids
  BY <1>2, Numbers DEF PxiShape, SessionData
<1>8. PxiShape'
  <2>1. replies' \in Nat
    BY <1>1, <1>3 DEF PxiShape
  <2>2. freeBuffers' \subseteq Buffers /\ target' \subseteq Services
    BY <1>2, <1>3, <1>7 DEF PxiShape
  <2> QED
    BY <1>3, <1>4, <1>6, <2>1, <2>2 DEF PxiShape, StateAndBuffersGo, clientVars, linkVars, Everywhere
<1>9. OnceOnLink'
  BY <1>2, <1>3, <1>5, LinkSame DEF PxiShape
<1>10. Srv11Passed'
  BY <1>3, <1>5, <1>6, Srv11Same DEF Threads
<1>11. AnswersCounted'
  <2>1. Cardinality(Answered) \in Nat /\ IsFiniteSet(Answered) /\ replies \in Nat
    BY <1>1, ServicesFinite DEF PxiShape
  <2>2. place'["receiver"] = place["receiver"] /\ shouldTerminate' = shouldTerminate
    BY <1>3, <1>6 DEF Threads, endVars
  <2>3. CASE i = 0 /\ shouldTerminate
    <3>1. Answered' = Answered
      BY <1>5, <2>2, <2>3 DEF Answered
    <3> QED
      BY <1>3, <2>1, <2>2, <3>1 DEF AnswersCounted
  <2>4. CASE ~(i = 0 /\ shouldTerminate)
    <3>1. Answered' = Answered \ {i} /\ i \in Answered
      BY <1>2, <1>5, <2>2, <2>4 DEF Answered
    <3>2. Cardinality(Answered') = Cardinality(Answered) - 1
      BY <2>1, <3>1, FS_RemoveElement
    <3> QED
      BY <1>3, <2>1, <2>2, <3>2 DEF AnswersCounted
  <2> QED
    BY <2>3, <2>4
<1>12. /\ \A j \in Services : j # i => (Idle(j)' <=> Idle(j))
       /\ ~Idle(i) /\ Idle(i)'
  BY <1>2, <1>5 DEF Idle
<1>13. \A j \in target' : j = i /\ session[i].handle /\ target' = {i}
  BY <1>3
<1>14. SessionsOpen'
  BY <1>1, <1>2, <1>3, <1>5, <1>6, <1>12, <1>13 DEF SessionsOpen, clientVars, endVars
<1>15. EndsLast'
  BY <1>2, <1>3, <1>6, <1>12, <1>13, Numbers DEF EndsLast, Waiting, clientVars, endVars, Threads
<1>16. SleepsAlone'
  <2>1. UNCHANGED <<process, asleep, mc5, shouldTerminate>> /\ disabled' = (disabled /\ mc5 # 2)
    BY <1>3 DEF clientVars, endVars
  <2>2. CASE i # 0
    <3>1. ~asleep /\ mc5 # 2
      BY <1>2, <1>12, <2>2 DEF SleepsAlone
    <3> QED
      BY <2>1, <3>1 DEF SleepsAlone, Waiting
  <2>3. CASE i = 0
    <3>1. asleep => target' = {0}
      <4>1. asleep => process[0] \in {"idle", "other", "sleep", "wake"}
        BY DEF SleepsAlone
      <4>2. asleep => session[0].handle
        BY <1>1, <4>1, Numbers DEF SessionsOpen
      <4> QED
        BY <1>3, <2>3, <4>2
    <3>2. Taken /\ (asleep => Taken')
      BY <1>12, <2>3, <3>1 DEF Taken
    <3>3. Idle(0)' /\ ~Idle(0) /\ (\A j \in Services \ {0} : Idle(j)' <=> Idle(j))
      BY <1>12, <2>3
    <3>4. CASE ~asleep
      BY <2>1, <3>3, <3>4 DEF SleepsAlone, Waiting
    <3>5. CASE asleep
      <4>1. /\ \A j \in Services \ {0} : Idle(j)' /\ j \notin Waiting'
            /\ \A j \in Services \ {0} : process'[j] \notin {"sleep", "wake"}
        BY <2>1, <3>3, <3>5 DEF SleepsAlone, Waiting
      <4>2. /\ process[0] \in {"idle", "sleep", "wake"} /\ mc5 \in 0..2
            /\ process[0] = "idle" => mc5 = 1 /\ disabled
            /\ process[0] = "sleep" => mc5 = 1 /\ disabled
            /\ process[0] = "wake" => mc5 = 2 /\ disabled
        BY <3>2, <3>3, <3>5 DEF SleepsAlone
      <4>3. Taken' /\ Idle(0)' /\ asleep'
        BY <2>1, <3>2, <3>3, <3>5
      <4>4. /\ process[0] = "idle" => mc5 = 1 /\ disabled'
            /\ process[0] = "sleep" => mc5 = 1 /\ disabled'
            /\ process[0] = "wake" => mc5 = 2 /\ ~disabled'
            /\ disabled' => mc5 # 0
        <5>1. disabled' <=> disabled /\ mc5 # 2
          BY <2>1
        <5> QED
          BY <4>2, <5>1
      <4> QED
        BY <2>1, <4>1, <4>2, <4>3, <4>4 DEF SleepsAlone
    <3> QED
      BY <3>4, <3>5
  <2> QED
    BY <2>2, <2>3
<1>17. PendingCounts'
  <2> SUFFICES ASSUME ~shouldTerminate
               PROVE  pending' = IF mc5 = 0 THEN Cardinality(Busy') ELSE 0
    BY <1>3 DEF PendingCounts, endVars
  <2>1. pending = IF mc5 = 0 THEN Cardinality(Busy) ELSE 0
    BY DEF PendingCounts
  <2>2. CASE mc5 # 0
    BY <1>3, <2>1, <2>2
  <2>3. CASE mc5 = 0
    <3>1. Busy' = Busy \ {i} /\ i \in Busy
      BY <1>2, <1>5 DEF Busy
    <3>2. Busy \in SUBSET Services /\ Busy' \in SUBSET Services
      BY DEF Busy
    <3>3. /\ IsFiniteSet(Busy) /\ Cardinality(Busy) \in Nat /\ Cardinality(Busy') \in Nat
          /\ Cardinality(Services) \in Nat
      BY <3>2, ServicesFinite
    <3>4. Cardinality(Busy') = Cardinality(Busy) - 1
      BY <3>1, <3>3, FS_RemoveElement
    <3>5. Cardinality(Busy) <= Cardinality(Services)
      BY <3>2, ServicesFinite, FS_Subset
    <3>6. Cardinality(Busy') \in 0..CounterSize - 1
      BY <3>3, <3>4, <3>5, PxiAssumption
    <3>7. pending' = Cardinality(Busy') % CounterSize
      BY <1>3, <2>1, <2>3, <3>4
    <3> QED
      BY <2>3, <3>6, <3>7, Small, PxiAssumption
  <2> QED
    BY <2>2, <2>3
<1> QED
  BY <1>8, <1>9, <1>10, <1>11, <1>14, <1>15, <1>16, <1>17

-----------------------------------------------------------------------------

\* It holds as the module begins.
LEMMA PxiInvFirst == PxiInit => PxiInv
<1> SUFFICES ASSUME PxiInit PROVE PxiInv
  OBVIOUS
<1>1. \A i \in Ids : session[i].state = "idle" /\ ~session[i].handle
  BY DEF PxiInit
<1>2. \A i \in Services : session[i].state = "idle" /\ ~session[i].handle /\ process[i] = "none"
  BY <1>1, Numbers DEF PxiInit
<1>3. PxiShape
  <2>1. session \in [Ids -> SessionData]
    BY DEF PxiInit, SessionData, States
  <2>2. place \in [Threads -> {"top", "loop", "begin"}]
    <3>1. \A t \in Threads : (CASE t = "sender" -> "top" [] t = "main" -> "loop" [] OTHER -> "begin") \in {"top", "loop", "begin"}
      BY DEF Threads
    <3> QED
      BY <3>1 DEF PxiInit
  <2>3. provided \subseteq Buffers /\ freeBuffers \subseteq Buffers
    BY DEF PxiInit, MSBs, Buffers
  <2> QED
    BY <2>1, <2>2, <2>3 DEF PxiInit, PxiShape
<1>4. place["sender"] = "top" /\ place["main"] = "loop" /\ place["receiver"] = "begin" /\ place["srv11"] = "begin"
  BY DEF PxiInit, Threads
<1>5. Answered = {} /\ Busy = {}
  BY <1>2 DEF Answered, Busy
<1> QED
  BY <1>2, <1>3, <1>4, <1>5, FS_EmptySet, Numbers
     DEF PxiInv, PxiInit, OnceOnLink, Srv11Passed, AnswersCounted, SessionsOpen, EndsLast, SleepsAlone,
         PendingCounts, Idle, Taken, Waiting

\* Every step keeps it.
LEMMA PxiInvKept ==
  ASSUME PxiInv, SleepAlone, CounterSize > Cardinality(Services), [PxiNext]_pxiVars
  PROVE  PxiInv'
<1>1. CASE \E i \in Services : \/ OpensSession(i) \/ (\E command \in Commands(i) : SendsCommand(i, command))
                               \/ Leave(i)
  BY <1>1, ProcessSteps
<1>2. CASE Rest
  BY <1>2, ProcessSteps, Numbers
<1>3. CASE (\E i \in Services : Arm9Replies(i)) \/ Arm9Requests
  BY <1>3, Arm9Steps
<1>4. CASE Sender
  BY <1>4, SendsStep, RepliesStep, SenderRests, AnswerStep, SenderEndsStep, ClosedStep, ReceivesStep DEF Sender
<1>5. CASE Srv11Handler \/ Receiver \/ Main
  BY <1>5, Srv11Steps, ReceiverSteps, MainSteps
<1>6. CASE UNCHANGED pxiVars
  BY <1>6 DEF pxiVars, clientVars, senderVars, eventVars, linkVars, endVars, PxiInv, PxiShape, OnceOnLink,
              Srv11Passed, AnswersCounted, Answered, SessionsOpen, EndsLast, SleepsAlone, PendingCounts, Busy,
              Idle, Taken, Waiting
<1> QED
  BY <1>1, <1>2, <1>3, <1>4, <1>5, <1>6 DEF PxiNext

\* sender.c, receiver.c, PXISRV11Handler.c, main.c: no check of states, counts or
\* handles that ends in
\* svcBreak fails, in whatever order the threads, the processes and Process9 go
\* on, while pxi:mc's client puts the system to sleep alone.
THEOREM SessionsPassOnce ==
  ASSUME SleepAlone, CounterSize > Cardinality(Services)
  PROVE  PxiSpec => []PxiNeverPanics
<1>1. PxiInv => PxiNeverPanics
  BY DEF PxiInv, PxiShape, PxiNeverPanics
<1> QED
  BY <1>1, PxiInvFirst, PxiInvKept, PTL DEF PxiSpec

-----------------------------------------------------------------------------
(* Static buffers *)

\* How many static buffers there are.
LEMMA BuffersFinite ==
  /\ IsFiniteSet(Buffers) /\ Cardinality(Buffers) = NbStaticBuffers
  /\ \A s \in SUBSET Buffers : IsFiniteSet(s) /\ Cardinality(s) \in Nat
<1>1. 0 \in Int /\ NbStaticBuffers - 1 \in Int
  BY PxiAssumption
<1>2. IsFiniteSet(Buffers)
  BY <1>1, FS_Interval, Zenon DEF Buffers
<1>3. Cardinality(Buffers) = IF 0 > NbStaticBuffers - 1 THEN 0 ELSE (NbStaticBuffers - 1) - 0 + 1
  BY <1>1, FS_Interval, Zenon DEF Buffers
<1>4. Cardinality(Buffers) = NbStaticBuffers
  BY <1>3, PxiAssumption
<1> QED
  BY <1>2, <1>4, FS_Subset, FS_CardinalityType

\* A set of buffers has a greatest number.
LEMMA Greatest ==
  ASSUME NEW s \in SUBSET Buffers, s # {}
  PROVE  \E m \in s : \A b \in s : b <= m
<1> DEFINE T == {n \in Nat : \A b \in s : b <= n}
<1>1. \A b \in s : b \in Nat /\ b <= NbStaticBuffers
  BY PxiAssumption DEF Buffers
<1>2. NbStaticBuffers \in T
  BY <1>1, PxiAssumption
<1>3. T \in SUBSET Nat /\ T # {}
  BY <1>2
<1>4. PICK n \in T : \A m \in T : n <= m
  BY <1>3, LeastElement
<1>5. n \in s
  <2> SUFFICES ASSUME n \notin s PROVE FALSE
    OBVIOUS
  <2>1. \A b \in s : b <= n - 1 /\ n - 1 \in Nat
    BY <1>1
  <2>2. n - 1 \in T
    BY <2>1
  <2> QED
    BY <1>4, <2>2
<1> QED
  BY <1>5

\* clearMSBs clears as many buffers as it is to, if there are as many.
LEMMA MSBsMany ==
  \A nb \in Nat : \A s \in SUBSET Buffers : nb <= Cardinality(s) => Cardinality(MSBs(s, nb)) = nb
<1> DEFINE T == {nb \in Nat : \A s \in SUBSET Buffers : nb <= Cardinality(s) => Cardinality(MSBs(s, nb)) = nb}
<1>1. 0 \in T
  <2>1. ASSUME NEW s \in SUBSET Buffers PROVE Cardinality(MSBs(s, 0)) = 0
    <3>1. ASSUME NEW b \in s PROVE ~(Cardinality({c \in s : c >= b}) <= 0)
      <4> DEFINE above == {c \in s : c >= b}
      <4>1. b \in above /\ above \in SUBSET Buffers
        <5>1. b \in Int
          BY PxiAssumption DEF Buffers
        <5>2. b >= b
          BY <5>1
        <5> QED
          BY <5>2
      <4> HIDE DEF above
      <4>2. IsFiniteSet(above) /\ Cardinality(above) \in Nat /\ Cardinality(above) # 0
        BY <4>1, BuffersFinite, FS_EmptySet
      <4> QED
        BY <4>2 DEF above
    <3>2. MSBs(s, 0) = {}
      BY <3>1 DEF MSBs
    <3> QED
      BY <3>2, FS_EmptySet
  <2> QED
    BY <2>1
<1>2. ASSUME NEW n \in T PROVE n + 1 \in T
  <2> SUFFICES ASSUME NEW s \in SUBSET Buffers, n + 1 <= Cardinality(s)
               PROVE  Cardinality(MSBs(s, n + 1)) = n + 1
    OBVIOUS
  <2>1. n \in Nat /\ IsFiniteSet(s) /\ Cardinality(s) \in Nat
    BY BuffersFinite
  <2>2. s # {}
    BY <2>1, FS_EmptySet
  <2>3. PICK m \in s : \A b \in s : b <= m
    BY <2>2, Greatest
  <2> DEFINE r == s \ {m}
  <2>4. \A b \in s : b \in Int
    BY PxiAssumption DEF Buffers
  <2>5. r \in SUBSET Buffers /\ Cardinality(r) = Cardinality(s) - 1
    BY <2>1, FS_RemoveElement
  <2>6. Cardinality(MSBs(r, n)) = n
    BY <2>1, <2>5
  <2>7. MSBs(s, n + 1) = MSBs(r, n) \cup {m}
    <3>1. Cardinality({c \in s : c >= m}) = 1
      <4>1. {c \in s : c >= m} = {m}
        BY <2>3, <2>4
      <4> QED
        BY <4>1, FS_Singleton
    <3>2. ASSUME NEW b \in r
          PROVE  Cardinality({c \in s : c >= b}) <= n + 1 <=> Cardinality({c \in r : c >= b}) <= n
      <4> DEFINE above == {c \in r : c >= b}
      <4>1. {c \in s : c >= b} = above \cup {m} /\ m \notin above
        BY <2>3, <2>4
      <4>2. above \in SUBSET Buffers
        OBVIOUS
      <4> HIDE DEF above
      <4>3. IsFiniteSet(above) /\ Cardinality(above) \in Nat
        BY <4>2, BuffersFinite
      <4>4. Cardinality(above \cup {m}) = Cardinality(above) + 1
        BY <4>1, <4>3, FS_AddElement
      <4>5. Cardinality(above) + 1 <= n + 1 <=> Cardinality(above) <= n
        BY <2>1, <4>3
      <4> QED
        BY <4>1, <4>4, <4>5 DEF above
    <3>3. m \in MSBs(s, n + 1)
      BY <2>1, <3>1 DEF MSBs
    <3>4. \A b \in r : b \in MSBs(s, n + 1) <=> b \in MSBs(r, n)
      BY <3>2 DEF MSBs
    <3>5. MSBs(r, n) \subseteq r /\ MSBs(s, n + 1) \subseteq s
      BY DEF MSBs
    <3> HIDE DEF r
    <3> QED
      BY <3>3, <3>4, <3>5 DEF r
  <2>8. MSBs(r, n) \in SUBSET Buffers /\ m \notin MSBs(r, n)
    BY DEF MSBs
  <2>9. IsFiniteSet(MSBs(r, n))
    BY <2>8, BuffersFinite
  <2>10. Cardinality(MSBs(r, n) \cup {m}) = Cardinality(MSBs(r, n)) + 1
    BY <2>8, <2>9, FS_AddElement
  <2> QED
    BY <2>6, <2>7, <2>10
<1>3. T = Nat
  <2> HIDE DEF T
  <2>1. T \in SUBSET Nat
    BY DEF T
  <2> QED
    BY <1>1, <1>2, <2>1, Induction
<1> QED
  BY <1>3

\* How many static buffers the services use, all together.
Uses(i) == IF i \in Services THEN StaticBuffersOf[i] ELSE 0
NeededBuffers == Uses(0) + Uses(1) + Uses(2) + Uses(3) + Uses(4) + Uses(5) + Uses(6) + Uses(7) + Uses(8)

\* A service uses four at most, and pxi:mc none.
LEMMA StaticBuffersFew ==
  /\ \A i \in Services : StaticBuffersOf[i] \in 0..4
  /\ StaticBuffersOf[0] = 0
<1>1. StaticBuffersOf[0] = 0
  BY DEF StaticBuffersOf
<1>2. \A i \in 0..8 : StaticBuffersOf[i] \in {0, 1, 2, 4}
  BY DEF StaticBuffersOf
<1> QED
  BY <1>1, <1>2, PxiAssumption

\* Buffers, and a bound of how many.
Within(A, n) == A \in SUBSET Buffers /\ n \in Nat /\ Cardinality(A) <= n

\* Two sets of buffers together.
LEMMA BothWithin ==
  ASSUME NEW A, NEW B, NEW m, NEW n, Within(A, m), Within(B, n)
  PROVE  Within(A \cup B, m + n)
<1> USE DEF Within
<1>1. /\ IsFiniteSet(A) /\ IsFiniteSet(B) /\ Cardinality(A) \in Nat /\ Cardinality(B) \in Nat
      /\ A \cap B \in SUBSET Buffers /\ Cardinality(A \cap B) \in Nat
  <2>1. A \cap B \in SUBSET Buffers
    OBVIOUS
  <2> QED
    BY <2>1, BuffersFinite
<1>2. Cardinality(A \cup B) = Cardinality(A) + Cardinality(B) - Cardinality(A \cap B)
  BY <1>1, FS_Union
<1> QED
  BY <1>1, <1>2

\* What is held has at most as many as the services use.
LEMMA HeldAtMost ==
  ASSUME NEW used, \A i \in Services : used[i] \in SUBSET Buffers /\ Cardinality(used[i]) <= StaticBuffersOf[i]
  PROVE  /\ UNION {used[i] : i \in Services} \in SUBSET Buffers
         /\ Cardinality(UNION {used[i] : i \in Services}) <= NeededBuffers
         /\ NeededBuffers \in Nat
<1> DEFINE U(i) == IF i \in Services THEN used[i] ELSE {}
<1>1. \A i \in 0..8 : Within(U(i), Uses(i))
  BY StaticBuffersFew, FS_EmptySet DEF Uses, Within
<1>2. UNION {used[i] : i \in Services} =
        U(0) \cup U(1) \cup U(2) \cup U(3) \cup U(4) \cup U(5) \cup U(6) \cup U(7) \cup U(8)
  <2>1. \A i \in Services : i \in {0, 1, 2, 3, 4, 5, 6, 7, 8}
    BY PxiAssumption
  <2>2. \A b : (\E i \in Services : b \in used[i]) <=>
                 (\E i \in {0, 1, 2, 3, 4, 5, 6, 7, 8} : b \in U(i))
    BY <2>1
  <2>3. \A b : b \in UNION {used[i] : i \in Services} <=> \E i \in Services : b \in used[i]
    OBVIOUS
  <2> HIDE DEF U
  <2> QED
    BY <2>2, <2>3
<1>3. /\ Within(U(0), Uses(0)) /\ Within(U(1), Uses(1)) /\ Within(U(2), Uses(2))
      /\ Within(U(3), Uses(3)) /\ Within(U(4), Uses(4)) /\ Within(U(5), Uses(5))
      /\ Within(U(6), Uses(6)) /\ Within(U(7), Uses(7)) /\ Within(U(8), Uses(8))
  BY <1>1
<1> HIDE DEF U
<1>4. Within(U(0) \cup U(1),
             Uses(0) + Uses(1))
  BY <1>3, BothWithin
<1>5. Within(U(0) \cup U(1) \cup U(2),
             Uses(0) + Uses(1) + Uses(2))
  BY <1>3, <1>4, BothWithin
<1>6. Within(U(0) \cup U(1) \cup U(2) \cup U(3),
             Uses(0) + Uses(1) + Uses(2) + Uses(3))
  BY <1>3, <1>5, BothWithin
<1>7. Within(U(0) \cup U(1) \cup U(2) \cup U(3) \cup U(4),
             Uses(0) + Uses(1) + Uses(2) + Uses(3) + Uses(4))
  BY <1>3, <1>6, BothWithin
<1>8. Within(U(0) \cup U(1) \cup U(2) \cup U(3) \cup U(4) \cup U(5),
             Uses(0) + Uses(1) + Uses(2) + Uses(3) + Uses(4) + Uses(5))
  BY <1>3, <1>7, BothWithin
<1>9. Within(U(0) \cup U(1) \cup U(2) \cup U(3) \cup U(4) \cup U(5) \cup U(6),
             Uses(0) + Uses(1) + Uses(2) + Uses(3) + Uses(4) + Uses(5) + Uses(6))
  BY <1>3, <1>8, BothWithin
<1>10. Within(U(0) \cup U(1) \cup U(2) \cup U(3) \cup U(4) \cup U(5) \cup U(6) \cup U(7),
              Uses(0) + Uses(1) + Uses(2) + Uses(3) + Uses(4) + Uses(5) + Uses(6) + Uses(7))
  BY <1>3, <1>9, BothWithin
<1>11. Within(U(0) \cup U(1) \cup U(2) \cup U(3) \cup U(4) \cup U(5) \cup U(6) \cup U(7) \cup U(8),
              Uses(0) + Uses(1) + Uses(2) + Uses(3) + Uses(4) + Uses(5) + Uses(6) + Uses(7) + Uses(8))
  BY <1>3, <1>10, BothWithin
<1> QED
  BY <1>2, <1>11 DEF NeededBuffers, Within

\* Every other step leaves the static buffers.
LEMMA OthersKeepBuffers ==
  ASSUME PxiInv, [PxiNext]_pxiVars, ~SenderAnswer, \A i \in Services : ~SenderReceives(i)
  PROVE  /\ UNCHANGED <<provided, freeBuffers>>
         /\ \A i \in Services : /\ session'[i].used = session[i].used
                                /\ Idle(i)' => Idle(i)
                                /\ Idle(i) /\ ~Idle(i)' => i = 0
<1> USE DEF PxiInv
<1> DEFINE Same(i) == /\ session'[i].used = session[i].used
                      /\ Idle(i)' => Idle(i)
                      /\ Idle(i) /\ ~Idle(i)' => i = 0
<1>1. UNCHANGED <<provided, freeBuffers>>
  BY DEF PxiNext, pxiVars, senderVars, OpensSession, SendsCommand, Leave, Rest, Arm9Replies, Arm9Requests,
         Sender, SenderSends, SenderReplies, SenderBlocks, SenderWakes, SenderEnds, SenderClosed,
         Srv11Handler, Srv11Begins, Srv11Answers, Srv11Sent, Srv11Ends, Receiver, ReceiverBegins,
         ReceiverFetches, ReceiverSignals, ReceiverResumes, ReceiverEnds, Main, MainAccepts, MainTerminates,
         MainSendsEnd, MainJoins
<1> SUFFICES \A i \in Services : Same(i)
  BY <1>1
<1>2. CASE session' = session
  BY <1>2 DEF Idle
<1>3. ASSUME NEW j \in Ids, NEW state \in States,
             session' = [session EXCEPT ![j].state = state],
             j \in Services => state # "idle" /\ (session[j].state # "idle" \/ j = 0)
      PROVE  \A i \in Services : Same(i)
  BY <1>3, StateSet, Numbers DEF StateGoes, Idle
<1>4. ASSUME NEW j \in Ids, NEW open \in BOOLEAN, session' = [session EXCEPT ![j].handle = open]
      PROVE  \A i \in Services : Same(i)
  BY <1>4, HandleSet, Numbers DEF HandleGoes, Idle
<1>5. CASE SenderSends
  <2> DEFINE sent == IF target = {} THEN Sendable ELSE {}
  <2>1. session' = [i \in Ids |-> IF i \in sent THEN [session[i] EXCEPT !.state = "sent"] ELSE session[i]]
    BY <1>5 DEF SenderSends
  <2>2. \A i \in sent : session[i].state = "fromArm11"
    BY DEF Sendable, InState
  <2> HIDE DEF sent
  <2>3. ASSUME NEW i \in Services PROVE Same(i)
    <3>1. session[i] \in SessionData /\ i \in Ids
      BY Numbers DEF PxiShape
    <3>2. session'[i] = IF i \in sent THEN [session[i] EXCEPT !.state = "sent"] ELSE session[i]
      BY <2>1, <3>1
    <3> QED
      BY <2>2, <3>1, <3>2 DEF SessionData, Idle
  <2> QED
    BY <2>3
<1>6. CASE SenderEnds
  <2>1. ASSUME NEW i \in Services PROVE Same(i)
    <3>1. session[i] \in SessionData /\ i \in Ids
      BY Numbers DEF PxiShape
    <3>2. session'[i] = [session[i] EXCEPT !.handle = FALSE]
      BY <1>6, <3>1 DEF SenderEnds
    <3> QED
      BY <3>1, <3>2 DEF SessionData, Idle
  <2> QED
    BY <2>1
<1>7. CASE ReceiverFetches
  <2> DEFINE i == Head(fromArm9)
  <2>1. i \in Ids
    BY <1>7 DEF ReceiverFetches, PxiShape
  <2>2. session' = session \/ (session' = [session EXCEPT ![i].state = "fromArm9"] /\ session[i].state = "sent")
    BY <1>7 DEF ReceiverFetches
  <2> HIDE DEF i
  <2> QED
    BY <1>2, <1>3, <2>1, <2>2 DEF States
<1>8. CASE MainSendsEnd
  BY <1>3, <1>8, Numbers DEF MainSendsEnd, States
<1>9. CASE Srv11Handler
  BY <1>2, <1>3, <1>9, Numbers DEF Srv11Handler, Srv11Begins, Srv11Answers, Srv11Sent, Srv11Ends, States
<1>10. CASE \E i \in Services : SenderClosed(i) \/ MainAccepts(i)
  BY <1>2, <1>4, <1>10, Numbers DEF SenderClosed, MainAccepts
<1> QED
  <2>1. CASE \/ \E i \in Services : \/ OpensSession(i) \/ (\E command \in Commands(i) : SendsCommand(i, command))
                                    \/ Leave(i) \/ Arm9Replies(i)
             \/ Rest \/ Arm9Requests \/ SenderReplies \/ SenderBlocks \/ SenderWakes
             \/ ReceiverBegins \/ ReceiverSignals \/ ReceiverResumes \/ ReceiverEnds
             \/ MainTerminates \/ MainJoins \/ UNCHANGED pxiVars
    <3>1. session' = session
      BY <2>1 DEF pxiVars, OpensSession, SendsCommand, Leave, Rest, Arm9Replies, Arm9Requests,
         SenderReplies, SenderBlocks, SenderWakes, ReceiverBegins, ReceiverSignals, ReceiverResumes,
         ReceiverEnds, MainTerminates, MainJoins
    <3> QED
      BY <3>1, <1>2
  <2> HIDE DEF Same
  <2> QED
    BY <1>5, <1>6, <1>7, <1>8, <1>9, <1>10, <2>1 DEF PxiNext, Sender, Receiver, Main

\* An answered command gives its buffers back.
LEMMA AnswerGivesBack ==
  ASSUME PxiInv, BuffersInv, SenderAnswer
  PROVE  \E i \in Services :
           /\ UNCHANGED provided /\ freeBuffers' = freeBuffers \cup session[i].used
           /\ Idle(i)'
           /\ \A j \in Services :
                /\ session'[j].used = IF j = i THEN {} ELSE session[j].used
                /\ j # i => (Idle(j)' <=> Idle(j))
<1> USE DEF PxiInv
<1> DEFINE S == InState("fromArm9") \cap Services
<1>1. S # {} /\ ~(mc5 = 2 /\ pending # 0)
  BY AnswerThere DEF SenderAnswer
<1>2. PICK i \in Services : i = Min(S)
  <2>1. S \in SUBSET Nat
    <3>1. Services \subseteq Nat
      BY PxiAssumption
    <3> QED
      BY <3>1
  <2> HIDE DEF S
  <2>2. Min(S) \in S
    BY <1>1, <2>1, LeastOf
  <2> QED
    BY <2>2 DEF S
<1>3. /\ UNCHANGED provided
      /\ session' = [session EXCEPT ![i].state = "idle", ![i].used = {}]
      /\ freeBuffers' = freeBuffers \cup session[i].used
  BY <1>1, <1>2 DEF SenderAnswer
<1>4. StateAndBuffersGo(i, "idle", {})
  BY <1>3, StateAndBuffersSet, Numbers DEF States
<1> QED
  BY <1>3, <1>4, Numbers DEF StateAndBuffersGo, Idle

\* A received command keeps the buffers it uses of those provided, and four of
\* the others are provided.
LEMMA CommandTakes ==
  ASSUME PxiInv, BuffersInv, NEW i \in Services, SenderReceives(i)
  PROVE  LET kept == provided \ MSBs(provided, MaxProvided - StaticBuffersOf[i])
             available == freeBuffers \cup (provided \ kept)
         IN  /\ provided' = MSBs(available, MaxProvided)
             /\ freeBuffers' = available \ MSBs(available, MaxProvided)
             /\ Idle(i) /\ ~Idle(i)'
             /\ \A j \in Services :
                  /\ session'[j].used = IF j = i THEN kept ELSE session[j].used
                  /\ j # i => (Idle(j)' <=> Idle(j))
<1> USE DEF PxiInv
<1> DEFINE kept == provided \ MSBs(provided, MaxProvided - StaticBuffersOf[i])
           available == freeBuffers \cup (provided \ kept)
<1>1. Receives(3 + i) /\ i \in Waiting
  BY DEF SenderReceives
<1>2. /\ Idle(i)
      /\ process[i] = "sleep" => ~disabled
      /\ process[i] = "wake" => disabled
  BY <1>1, Expected
<1>3. /\ session' = [session EXCEPT ![i].state = "fromArm11", ![i].used = kept]
      /\ provided' = MSBs(available, MaxProvided)
      /\ freeBuffers' = available \ MSBs(available, MaxProvided)
  BY <1>2 DEF SenderReceives, acquireStaticBuffers, Idle
<1>4. kept \in SUBSET Buffers
  BY DEF PxiShape
<1>5. StateAndBuffersGo(i, "fromArm11", kept)
  BY <1>3, <1>4, StateAndBuffersSet, Numbers DEF States
<1> HIDE DEF kept, available
<1>6. /\ ~Idle(i)'
      /\ \A j \in Services : /\ session'[j].used = IF j = i THEN kept ELSE session[j].used
                             /\ j # i => (Idle(j)' <=> Idle(j))
  BY <1>5, Numbers DEF StateAndBuffersGo, Idle
<1> QED
  BY <1>2, <1>3, <1>6 DEF kept, available

\* No step loses a buffer or puts it in two places.
LEMMA BuffersInvKept ==
  ASSUME PxiInv, BuffersInv, [PxiNext]_pxiVars
  PROVE  BuffersInv'
<1>1. CASE SenderAnswer
  <2>1. PICK i \in Services :
           /\ UNCHANGED provided /\ freeBuffers' = freeBuffers \cup session[i].used
           /\ Idle(i)'
           /\ \A j \in Services :
                /\ session'[j].used = IF j = i THEN {} ELSE session[j].used
                /\ j # i => (Idle(j)' <=> Idle(j))
    BY <1>1, AnswerGivesBack
  <2>2. freeBuffers' \cap provided' = {}
    BY <2>1 DEF BuffersInv
  <2>3. \A j \in Services : session'[j].used \cap (freeBuffers' \cup provided') = {}
    BY <2>1 DEF BuffersInv
  <2>4. \A j, k \in Services : j # k => session'[j].used \cap session'[k].used = {}
    BY <2>1 DEF BuffersInv
  <2>5. \A b \in Buffers : b \in freeBuffers' \cup provided' \/ \E j \in Services : b \in session'[j].used
    BY <2>1 DEF BuffersInv
  <2>6. \A j \in Services : Idle(j)' => session'[j].used = {}
    BY <2>1 DEF BuffersInv
  <2> QED
    BY <2>2, <2>3, <2>4, <2>5, <2>6 DEF BuffersInv
<1>2. ASSUME NEW i \in Services, SenderReceives(i)
      PROVE  BuffersInv'
  <2> DEFINE kept == provided \ MSBs(provided, MaxProvided - StaticBuffersOf[i])
             available == freeBuffers \cup (provided \ kept)
             given == MSBs(available, MaxProvided)
  <2>1. /\ provided' = given /\ freeBuffers' = available \ given
        /\ Idle(i) /\ ~Idle(i)'
        /\ \A j \in Services :
             /\ session'[j].used = IF j = i THEN kept ELSE session[j].used
             /\ j # i => (Idle(j)' <=> Idle(j))
    BY <1>2, CommandTakes
  <2>2. kept \subseteq provided /\ given \subseteq available
    BY DEF MSBs
  <2> HIDE DEF kept, given
  <2>3. freeBuffers' \cap provided' = {} /\ freeBuffers' \cup provided' = available
    BY <2>1, <2>2
  <2>4. kept \cap available = {} /\ kept \cup available = freeBuffers \cup provided
    BY <2>2 DEF BuffersInv
  <2> HIDE DEF available
  <2>5. \A j \in Services : session'[j].used \cap (freeBuffers' \cup provided') = {}
    BY <2>1, <2>3, <2>4 DEF BuffersInv
  <2>6. \A j, k \in Services : j # k => session'[j].used \cap session'[k].used = {}
    BY <2>1, <2>4 DEF BuffersInv
  <2>7. \A b \in Buffers : b \in freeBuffers' \cup provided' \/ \E j \in Services : b \in session'[j].used
    BY <2>1, <2>3, <2>4 DEF BuffersInv
  <2>8. \A j \in Services : Idle(j)' => session'[j].used = {}
    BY <2>1 DEF BuffersInv
  <2> QED
    BY <2>3, <2>5, <2>6, <2>7, <2>8 DEF BuffersInv
<1>3. CASE ~SenderAnswer /\ \A i \in Services : ~SenderReceives(i)
  BY <1>3, OthersKeepBuffers DEF BuffersInv
<1> QED
  BY <1>1, <1>2, <1>3

\* Each command has as many as it uses, and four are provided, if there are as
\* many as that.
LEMMA EnoughInvKept ==
  ASSUME PxiInv, BuffersInv, BuffersInv', PxiShape', EnoughInv, [PxiNext]_pxiVars,
         NbStaticBuffers >= MaxProvided + NeededBuffers
  PROVE  EnoughInv'
<1>1. CASE SenderAnswer
  <2>1. PICK i \in Services :
           /\ UNCHANGED provided /\ freeBuffers' = freeBuffers \cup session[i].used
           /\ Idle(i)'
           /\ \A j \in Services :
                /\ session'[j].used = IF j = i THEN {} ELSE session[j].used
                /\ j # i => (Idle(j)' <=> Idle(j))
    BY <1>1, AnswerGivesBack
  <2> QED
    BY <2>1, FS_EmptySet DEF EnoughInv
<1>2. ASSUME NEW i \in Services, SenderReceives(i)
      PROVE  EnoughInv'
  <2> DEFINE n == StaticBuffersOf[i]
             cleared == MSBs(provided, MaxProvided - n)
             kept == provided \ cleared
             available == freeBuffers \cup (provided \ kept)
             given == MSBs(available, MaxProvided)
  <2>1. /\ provided' = given /\ freeBuffers' = available \ given
        /\ Idle(i) /\ ~Idle(i)'
        /\ \A j \in Services :
             /\ session'[j].used = IF j = i THEN kept ELSE session[j].used
             /\ j # i => (Idle(j)' <=> Idle(j))
    BY <1>2, CommandTakes
  <2>2. /\ n \in 0..4 /\ MaxProvided = 4 /\ cleared \subseteq provided /\ given \subseteq available
        /\ provided \in SUBSET Buffers /\ available \in SUBSET Buffers
    BY StaticBuffersFew DEF MaxProvided, MSBs, PxiInv, PxiShape
  <2> HIDE DEF n, available, given
  <2>3. Cardinality(provided) = 4 /\ IsFiniteSet(provided)
    BY <2>2, BuffersFinite DEF EnoughInv
  <2>4. Cardinality(cleared) = 4 - n
    <3>1. 4 - n \in Nat /\ 4 - n <= Cardinality(provided)
      BY <2>2, <2>3
    <3> QED
      BY <2>2, <3>1, MSBsMany
  <2> HIDE DEF cleared
  <2>5. Cardinality(kept) = n
    <3>1. IsFiniteSet(cleared) /\ provided \cap cleared = cleared
      BY <2>2, BuffersFinite
    <3>2. Cardinality(provided \ cleared) = Cardinality(provided) - Cardinality(provided \cap cleared)
      BY <2>3, FS_Difference
    <3> QED
      BY <2>2, <2>3, <2>4, <3>1, <3>2
  <2> HIDE DEF kept
  <2>6. \A j \in Services : Cardinality(session'[j].used) = IF Idle(j)' THEN 0 ELSE StaticBuffersOf[j]
    BY <2>1, <2>5 DEF EnoughInv, n
  <2>7. Cardinality(available) >= 4
    <3> DEFINE used == [j \in Services |-> session'[j].used]
               held == UNION {used[j] : j \in Services}
    <3>1. \A j \in Services : used[j] \in SUBSET Buffers /\ Cardinality(used[j]) <= StaticBuffersOf[j]
      <4>1. \A j \in Services : session'[j].used \in SUBSET Buffers
        BY Numbers DEF PxiShape, SessionData
      <4> QED
        BY <2>6, <4>1, StaticBuffersFew
    <3>2. \A b \in Buffers : b \in available \/ \E j \in Services : b \in session'[j].used
      BY <2>1, <2>2 DEF BuffersInv
    <3>3. \A b \in Buffers : b \in available \/ b \in held
      BY <3>2
    <3> HIDE DEF used
    <3>4. held \in SUBSET Buffers /\ Cardinality(held) <= NeededBuffers /\ NeededBuffers \in Nat
      BY <3>1, HeldAtMost
    <3> HIDE DEF held
    <3>5. Within(held, NeededBuffers) /\ Within(available, Cardinality(available)) /\ Cardinality(available) \in Nat
      BY <2>2, <3>4, BuffersFinite DEF Within
    <3>6. Cardinality(held \cup available) <= NeededBuffers + Cardinality(available)
      BY <3>5, BothWithin DEF Within
    <3>7. held \cup available = Buffers
      BY <2>2, <3>3, <3>4
    <3> QED
      BY <2>2, <3>4, <3>5, <3>6, <3>7, BuffersFinite, PxiAssumption
  <2>8. Cardinality(provided') = 4
    BY <2>1, <2>2, <2>7, MSBsMany DEF given
  <2> QED
    BY <2>2, <2>6, <2>8 DEF EnoughInv
<1>3. CASE ~SenderAnswer /\ \A i \in Services : ~SenderReceives(i)
  BY <1>3, OthersKeepBuffers, StaticBuffersFew, Numbers DEF EnoughInv
<1> QED
  BY <1>1, <1>2, <1>3

\* The buffers as the sender begins.
LEMMA OwnedFirst ==
  /\ PxiInit => BuffersInv
  /\ PxiInit /\ NbStaticBuffers >= MaxProvided => EnoughInv
<1> SUFFICES ASSUME PxiInit PROVE BuffersInv /\ (NbStaticBuffers >= MaxProvided => EnoughInv)
  OBVIOUS
<1>1. \A i \in Services : Idle(i) /\ session[i].used = {}
  BY Numbers DEF PxiInit, Idle
<1>2. provided = MSBs(Buffers, MaxProvided) /\ freeBuffers = Buffers \ provided /\ provided \subseteq Buffers
  BY DEF PxiInit, Buffers, MSBs
<1>3. BuffersInv
  BY <1>1, <1>2 DEF BuffersInv
<1>4. NbStaticBuffers >= MaxProvided => Cardinality(provided) = MaxProvided
  BY <1>2, BuffersFinite, MSBsMany, PxiAssumption DEF MaxProvided
<1> QED
  BY <1>1, <1>3, <1>4, FS_EmptySet DEF EnoughInv

\* receiver.c:45, replySemaphore counts up to nine: it never holds more answers than
\* there are services, and the other variables keep their types as well.
THEOREM PxiTyped ==
  ASSUME SleepAlone, CounterSize > Cardinality(Services)
  PROVE  PxiSpec => []PxiTypeOK
<1> DEFINE Counted == pending \in 0..CounterSize - 1
<1>1. PxiInit => PxiInv /\ Counted
  BY PxiInvFirst, PxiAssumption DEF PxiInit
<1>2. PxiInv /\ Counted /\ [PxiNext]_pxiVars => (PxiInv /\ Counted)'
  <2> SUFFICES ASSUME PxiInv, Counted, [PxiNext]_pxiVars PROVE Counted'
    BY PxiInvKept
  <2>1. pending' = pending \/ \E n \in Int : pending' = n % CounterSize
    <3>1. CASE SenderSends
      <4> DEFINE sent == IF target = {} THEN Sendable ELSE {}
      <4>1. sent \in SUBSET Services
        BY DEF Sendable
      <4>2. pending + Cardinality(sent) \in Int
        BY <4>1, ServicesFinite
      <4>3. pending' = pending \/ pending' = (pending + Cardinality(sent)) % CounterSize
        BY <3>1 DEF SenderSends
      <4> HIDE DEF sent
      <4> QED
        BY <4>2, <4>3
    <3>2. CASE SenderAnswer
      <4>1. pending' = pending \/ pending' = (pending - 1) % CounterSize
        BY <3>2 DEF SenderAnswer
      <4>2. pending - 1 \in Int
        OBVIOUS
      <4> QED
        BY <4>1, <4>2
    <3>3. CASE ~SenderSends /\ ~SenderAnswer
      BY <3>3 DEF PxiNext, pxiVars, senderVars, OpensSession, SendsCommand, Leave, Rest, Arm9Replies,
         Arm9Requests, Sender, SenderReceives, SenderReplies, SenderBlocks, SenderWakes, SenderEnds,
         SenderClosed, Srv11Handler, Srv11Begins, Srv11Answers, Srv11Sent, Srv11Ends, Receiver,
         ReceiverBegins, ReceiverFetches, ReceiverSignals, ReceiverResumes, ReceiverEnds, Main,
         MainAccepts, MainTerminates, MainSendsEnd, MainJoins
    <3> QED
      BY <3>1, <3>2, <3>3
  <2> QED
    BY <2>1, PxiAssumption
<1>3. PxiInv /\ Counted => PxiTypeOK
  <2> SUFFICES ASSUME PxiInv, Counted PROVE PxiTypeOK
    OBVIOUS
  <2>1. Cardinality(Answered) <= 9 /\ Cardinality(Answered) \in Nat
    <3>1. 0 \in Int /\ 8 \in Int
      OBVIOUS
    <3>2. IsFiniteSet(0..8) /\ Cardinality(0..8) = IF 0 > 8 THEN 0 ELSE 8 - 0 + 1
      BY <3>1, FS_Interval, Zenon
    <3>3. Cardinality(0..8) = 9
      BY <3>2
    <3>4. Answered \subseteq 0..8 /\ Answered \in SUBSET Services
      BY PxiAssumption DEF Answered
    <3>5. Cardinality(Answered) <= Cardinality(0..8)
      BY <3>2, <3>4, FS_Subset
    <3> QED
      BY <3>3, <3>4, <3>5, ServicesFinite
  <2>2. replies \in 0..9
    BY <2>1 DEF PxiInv, PxiShape, AnswersCounted
  <2> QED
    BY <2>2 DEF PxiInv, PxiShape, PxiTypeOK, SessionData, States, Buffers
<1> QED
  BY <1>1, <1>2, <1>3, PTL DEF PxiSpec

\* sender.c, acquireStaticBuffers and releaseStaticBuffers: each static buffer is
\* free, provided or with one command, and none is lost, however many there are.
THEOREM BuffersKept ==
  ASSUME SleepAlone, CounterSize > Cardinality(Services)
  PROVE  PxiSpec => []BuffersInv
<1>1. PxiInit => PxiInv /\ BuffersInv
  BY PxiInvFirst, OwnedFirst
<1>2. PxiInv /\ BuffersInv /\ [PxiNext]_pxiVars => (PxiInv /\ BuffersInv)'
  BY PxiInvKept, BuffersInvKept
<1> QED
  BY <1>1, <1>2, PTL DEF PxiSpec

\* Both, and each command has as many static buffers as nbStaticBuffersByService
\* says, if all the services and the sender's thread can have theirs at a time.
THEOREM PassesOnce ==
  ASSUME SleepAlone, CounterSize > Cardinality(Services), NbStaticBuffers >= MaxProvided + NeededBuffers
  PROVE  PxiSpec => []PxiPassesOnce
<1> DEFINE Inv == PxiInv /\ BuffersInv /\ EnoughInv
<1>1. PxiInit => Inv
  <2>1. NeededBuffers >= 0 /\ NeededBuffers \in Nat
    <3>1. \A i \in 0..8 : Uses(i) \in Nat
      BY StaticBuffersFew DEF Uses
    <3> QED
      BY <3>1 DEF NeededBuffers
  <2>2. NbStaticBuffers >= MaxProvided
    BY <2>1, PxiAssumption DEF MaxProvided
  <2> QED
    BY <2>2, PxiInvFirst, OwnedFirst
<1>2. Inv /\ [PxiNext]_pxiVars => Inv'
  <2> SUFFICES ASSUME Inv, [PxiNext]_pxiVars PROVE Inv'
    OBVIOUS
  <2>1. PxiInv' /\ BuffersInv'
    BY PxiInvKept, BuffersInvKept
  <2>2. PxiShape'
    BY <2>1 DEF PxiInv
  <2> QED
    BY <2>1, <2>2, EnoughInvKept
<1>3. Inv => PxiPassesOnce
  <2> SUFFICES ASSUME Inv PROVE PxiPassesOnce
    OBVIOUS
  <2>1. PxiNeverPanics
    BY DEF PxiInv, PxiShape, PxiNeverPanics
  <2> DEFINE held == UNION {session[i].used : i \in Services}
  <2>2. \A b : b \in held <=> \E i \in Services : b \in session[i].used
    OBVIOUS
  <2>3. \A i \in Services : session[i].used \subseteq Buffers
    BY Numbers DEF PxiInv, PxiShape, SessionData
  <2> HIDE DEF held
  <2>4. held \cap (freeBuffers \cup provided) = {} /\ freeBuffers \cap provided = {}
    BY <2>2 DEF BuffersInv
  <2>5. freeBuffers \cup provided \cup held = Buffers
    BY <2>2, <2>3 DEF BuffersInv, PxiInv, PxiShape
  <2>6. \A i, j \in Services : i # j => session[i].used \cap session[j].used = {}
    BY DEF BuffersInv
  <2>7. \A i \in Services : session[i].state # "idle" => Cardinality(session[i].used) = StaticBuffersOf[i]
    BY DEF EnoughInv, Idle
  <2>8. StaticBuffersOwned
    BY <2>4, <2>5, <2>6, <2>7 DEF StaticBuffersOwned, held, Buffers
  <2> QED
    BY <2>1, <2>8 DEF PxiPassesOnce
<1> QED
  BY <1>1, <1>2, <1>3, PTL DEF PxiSpec
=============================================================================
