----------------------------- MODULE GdbSession -----------------------------
(***************************************************************************)
(* The first context of Rosalina's GDB stub, from a connection to its end: *)
(* the socket thread, which handles packets (gdb/server.c, gdb/debug.c,    *)
(* gdb.c), the monitor thread, which waits for the events of all processes *)
(* (gdb/monitor.c), the kernel's debug object, and gdb.  The other         *)
(* contexts only wake the monitor.                                         *)
(*                                                                         *)
(* The monitor waits on one handle of a context at a time, ctx->           *)
(* eventToWaitFor: until a process is attached, then until it is           *)
(* continued, then on the debug object.  It waits on what that was when it *)
(* last had the locks; a thread that takes the handle away asks it to look *)
(* again first (statusUpdated, statusUpdateReceived).                      *)
(*                                                                         *)
(* Packets are those that attach, continue, interrupt, detach and kill;    *)
(* the others only read and write the process.  A reply is seen at once, a *)
(* packet waits in the socket.                                             *)
(***************************************************************************)
EXTENDS Naturals, Sequences, Functions

CONSTANTS
  Modes,       \* how clients connect: plain to a selected process, or extended
  Crossing     \* the monitor may be on its way when its answer is asked for

ASSUME SessionAssumption == Modes \subseteq {"plain", "extended"} /\ Crossing \in BOOLEAN

VARIABLES
  client,        \* what gdb believes of the process, or whether it is there
  inbox,         \* the packets it has sent
  socket,        \* where the socket thread is
  gdbMonitor,    \* where the monitor is, and the handle it waits on
  ctxLock,       \* ctx->lock: who has it
  raised,        \* signalled: processAttachedEvent, continuedEvent, statusUpdated, -Received
  state,         \* ctx->state
  eventToWaitFor,
  sessionFlags,  \* ctx->flags, of those "continuing", "extended", "terminate"
  debug,         \* ctx->debug is a handle of the process
  processEnded,
  debuggee,      \* as the kernel runs it
  debugEvents    \* the events nobody has read

peerVars == <<client, inbox>>
threadVars == <<socket, gdbMonitor, ctxLock, raised>>
stateVars == <<state, eventToWaitFor, sessionFlags, debug, processEnded>>
debugVars == <<debuggee, debugEvents>>
sessionVars == <<peerVars, threadVars, stateVars, debugVars>>

MaxInbox == 2
Attached == state = "attached"
Continuing == "continuing" \in sessionFlags
ExtendedRemote == "extended" \in sessionFlags

\* The next packet ends the session, or asks the monitor.
EndsOrAsks == client = "gone" \/ Head(inbox) \in {"detach", "kill", "attach"}

\* The monitor waits, and for nothing that has happened.
IsSignalled(e) == IF e = "debug" THEN debug /\ debugEvents # <<>> ELSE e \in raised
MonitorRests == gdbMonitor.at = "waits" /\ ~IsSignalled(gdbMonitor.on)

-----------------------------------------------------------------------------
(***************************************************************************)
(* The kernel.  A process that has an event to tell of is held until the   *)
(* event has been read and continued; only the end of the process is not   *)
(* an event that waits.                                                    *)
(***************************************************************************)
ContinueDebugEvent(read) ==
  IF debug /\ debuggee = "held" /\ read = <<>> THEN "running" ELSE debuggee

\* Whether something may wake the monitor now.
MayWake == Crossing \/ (socket \notin {"close", "detaches"} /\ (socket = "packet" => ~EndsOrAsks))

ProcessRuns ==
  /\ debug /\ debuggee = "running" /\ MayWake
  /\ \/ \E e \in {"stop", "notice"} : debuggee' = "held" /\ debugEvents' = Append(debugEvents, e)
     \/ \E rest \in {<<>>, <<"notice">>} :
          debuggee' = "exited" /\ debugEvents' = Append(debugEvents, "exit") \o rest
  /\ UNCHANGED <<peerVars, threadVars, stateVars>>

\* The user starts the process again, once the session is over.
ProcessStarts ==
  /\ ~debug /\ debuggee = "exited"
  /\ debuggee' = "running"
  /\ UNCHANGED <<peerVars, threadVars, stateVars, debugEvents>>

\* GDB_AttachToProcess of a process that runs, up to the break of its threads.
AttachToProcess ==
  /\ debuggee = "running"
  /\ debuggee' = "held" /\ debugEvents' = <<>>
  /\ debug' = TRUE /\ processEnded' = FALSE
  /\ state' = "attached"
  /\ raised' = raised \cup {"attached"}

\* GDB_DetachFromProcess: what is pending is read and continued.  The monitor
\* may be left with a handle that is closed.
DetachesProcess ==
  /\ debuggee' = IF "terminate" \in sessionFlags THEN "exited"
                ELSE IF debuggee = "held" THEN "running" ELSE debuggee
  /\ debugEvents' = <<>>
  /\ debug' = FALSE
  /\ eventToWaitFor' = "attached"

EndedByDetach == processEnded' = (processEnded \/ "terminate" \in sessionFlags)

LeftWithout(m) == IF m.on = "debug" THEN [m EXCEPT !.on = "closed"] ELSE m

-----------------------------------------------------------------------------
(* gdb *)

Sends(p, belief) ==
  /\ Len(inbox) < MaxInbox
  /\ inbox' = Append(inbox, p)
  /\ client' = belief

ClientSends ==
  /\ \/ client = "stopped" /\ Sends("continue", "running")
     \/ client = "stopped" /\ Sends("continue another thread", "running")
     \/ client = "running" /\ "break" \notin Range(inbox) /\ Sends("break", "running")
     \/ client = "stopped" /\ \E p \in {"detach", "kill"} : Sends(p, "leaves")
     \/ client = "detached" /\ Sends("attach", "attaches")
  /\ UNCHANGED <<threadVars, stateVars, debugVars>>

HangsUp ==
  /\ client \notin {"away", "gone"}
  /\ Crossing \/ socket = "poll"
  /\ client' = "gone"
  /\ UNCHANGED <<inbox, threadVars, stateVars, debugVars>>

\* A reply is for a client that waits for it.
AwaitsReply == [stopped |-> {"running", "attaches"}, ended |-> {"running", "stopped"},
            detached |-> {"leaves", "attaches"}]
Told(belief) == client' = IF client \in AwaitsReply[belief] THEN belief ELSE client

\* Whether a reply can be sent.
Delivered == IF client = "gone" THEN BOOLEAN ELSE {TRUE}

-----------------------------------------------------------------------------
(* The socket thread *)

\* GDB_GetClient and GDB_AcceptClient; with the packet that asks for extended mode.
AcceptClient ==
  /\ socket = "poll" /\ client = "away" /\ ctxLock = "free"
  /\ inbox' = <<>>
  /\ \/ /\ "plain" \in Modes
        /\ AttachToProcess
        /\ client' = "stopped"
        /\ UNCHANGED sessionFlags
     \/ /\ "extended" \in Modes
        /\ state' = "connected"
        /\ sessionFlags' = {"extended"}
        /\ client' = "detached"
        /\ UNCHANGED <<debugVars, debug, processEnded, raised>>
  /\ UNCHANGED <<socket, gdbMonitor, ctxLock, eventToWaitFor>>

\* GDB_DoPacket takes the lock before it receives.
TakesPacket ==
  /\ socket = "poll" /\ ctxLock = "free"
  /\ inbox # <<>> \/ client = "gone"
  /\ Crossing \/ MonitorRests \/ ~EndsOrAsks
  /\ ctxLock' = "socket" /\ socket' = "packet"
  /\ UNCHANGED <<peerVars, gdbMonitor, raised, stateVars, debugVars>>

Unlocks(next) == ctxLock' = "free" /\ socket' = next

FindsNobody ==
  /\ socket = "packet" /\ client = "gone"
  /\ Unlocks("close")
  /\ UNCHANGED <<peerVars, gdbMonitor, raised, stateVars, debugVars>>

ReceivesPacket(p) ==
  /\ socket = "packet" /\ client # "gone"
  /\ Head(inbox) = p
  /\ inbox' = Tail(inbox)

\* GDB_ContinueExecution, and the end of GDB_DoPacket.  Fault: the monitor is
\* not told that the process runs.
ContinuesUnnoticed ==
  /\ ReceivesPacket("continue")
  /\ debuggee' = ContinueDebugEvent(debugEvents)
  /\ sessionFlags' = sessionFlags \cup {"continuing"}
  /\ Unlocks("poll")
  /\ UNCHANGED <<client, gdbMonitor, raised, state, eventToWaitFor, debug, processEnded, debugEvents>>

ContinuesProcess ==
  /\ ReceivesPacket("continue")
  /\ debuggee' = ContinueDebugEvent(debugEvents)
  /\ sessionFlags' = sessionFlags \cup {"continuing"}
  /\ raised' = IF Continuing THEN raised ELSE raised \cup {"continued"}
  /\ Unlocks("poll")
  /\ UNCHANGED <<client, gdbMonitor, state, eventToWaitFor, debug, processEnded, debugEvents>>

\* All threads stay stopped, and the client believes that one runs.
ContinuesAnother ==
  /\ ReceivesPacket("continue another thread")
  /\ Unlocks("poll")
  /\ UNCHANGED <<client, gdbMonitor, raised, stateVars, debugVars>>

\* GDB_HandleBreak.  A process that is held already is not broken, and its
\* event will be handled.
Breaks ==
  /\ ReceivesPacket("break")
  /\ \/ ~Continuing /\ Told("stopped") /\ UNCHANGED <<sessionFlags, debugVars>>
     \/ /\ Continuing /\ debug /\ debuggee = "running"
        /\ sessionFlags' = sessionFlags \ {"continuing"}
        /\ debuggee' = "held" /\ debugEvents' = Append(debugEvents, "stop")
        /\ UNCHANGED client
     \/ /\ Continuing /\ ~(debug /\ debuggee = "running")
        /\ UNCHANGED <<client, sessionFlags, debugVars>>
  /\ Unlocks("poll")
  /\ UNCHANGED <<gdbMonitor, raised, state, eventToWaitFor, debug, processEnded>>

\* The monitor is asked to look again.
AsksMonitor ==
  /\ eventToWaitFor' = "attached"
  /\ raised' = (raised \ {"attached", "received"}) \cup {"updated"}

\* GDB_HandleDetach and GDB_HandleKill.  A plain session is closed.  The lock
\* stays taken while an extended one asks the monitor.
Leaves ==
  /\ \/ ReceivesPacket("detach") /\ UNCHANGED sessionFlags
     \/ ReceivesPacket("kill") /\ sessionFlags' = sessionFlags \cup {"terminate"}
  /\ state' = "detaching"
  /\ \/ ~ExtendedRemote /\ Unlocks("close") /\ UNCHANGED <<eventToWaitFor, raised>>
     \/ ExtendedRemote /\ AsksMonitor /\ socket' = "detaches" /\ UNCHANGED ctxLock
  /\ UNCHANGED <<client, gdbMonitor, debug, processEnded, debugVars>>

\* GDB_HandleVerboseAttach.
AttachesAgain ==
  /\ ReceivesPacket("attach")
  /\ \/ AttachToProcess /\ Told("stopped") /\ Unlocks("poll") /\ UNCHANGED eventToWaitFor
     \/ /\ debuggee # "running"
        /\ state' = "detaching"
        /\ AsksMonitor
        /\ socket' = "detaches"
        /\ UNCHANGED <<client, ctxLock, debug, processEnded, debugVars>>
  /\ UNCHANGED <<gdbMonitor, sessionFlags>>

\* GDB_DetachImmediatelyExtended has the answer; then the end of GDB_DoPacket.
DetachesExtended ==
  /\ socket = "detaches" /\ "received" \in raised
  /\ DetachesProcess /\ EndedByDetach
  /\ gdbMonitor' = LeftWithout(gdbMonitor)
  /\ sessionFlags' = {"extended"}
  /\ state' = "connected"
  /\ Told("detached")
  /\ Unlocks("poll")
  /\ UNCHANGED <<inbox, raised>>

\* GDB_CloseClient, first part.  Fault: the handle to wait for is left.
AsksKeepingHandle ==
  /\ socket = "close" /\ ctxLock = "free"
  /\ raised' = (raised \ {"attached", "received"}) \cup {"updated"}
  /\ socket' = "closing"
  /\ UNCHANGED <<peerVars, gdbMonitor, ctxLock, stateVars, debugVars>>

AsksBeforeClose ==
  /\ socket = "close" /\ ctxLock = "free"
  /\ AsksMonitor
  /\ socket' = "closing"
  /\ UNCHANGED <<peerVars, gdbMonitor, ctxLock, state, sessionFlags, debug, processEnded, debugVars>>

CloseClient ==
  /\ socket = "closing" /\ ctxLock = "free" /\ "received" \in raised
  /\ IF debug \/ Attached \/ state = "detaching"
     THEN DetachesProcess /\ EndedByDetach /\ gdbMonitor' = LeftWithout(gdbMonitor)
     ELSE UNCHANGED <<debugVars, debug, processEnded, eventToWaitFor, gdbMonitor>>
  /\ sessionFlags' = {}
  /\ state' = "disconnected"
  /\ client' = "away" /\ inbox' = <<>>
  /\ socket' = "poll"
  /\ UNCHANGED <<ctxLock, raised>>

SocketSteps ==
  \/ TakesPacket \/ FindsNobody \/ ContinuesProcess \/ ContinuesAnother \/ Breaks \/ Leaves
  \/ AttachesAgain \/ DetachesExtended \/ AsksBeforeClose \/ CloseClient

-----------------------------------------------------------------------------
(* The monitor *)

MonitorGoes(place) == gdbMonitor' = [gdbMonitor EXCEPT !.at = place]

\* It takes the locks of all contexts to see what to wait for.
LooksAgain ==
  /\ gdbMonitor.at = "top" /\ ctxLock = "free"
  /\ gdbMonitor' = [at |-> "looked", on |-> eventToWaitFor]
  /\ UNCHANGED <<peerVars, socket, ctxLock, raised, stateVars, debugVars>>

\* svcWaitSynchronizationN fails for a handle that is closed, and the thread ends.
BeginsToWait ==
  /\ gdbMonitor.at = "looked"
  /\ MonitorGoes(IF gdbMonitor.on = "closed" THEN "ended" ELSE "waits")
  /\ UNCHANGED <<peerVars, socket, ctxLock, raised, stateVars, debugVars>>

\* statusUpdated comes before the contexts.
AnswersUpdate ==
  /\ gdbMonitor.at = "waits" /\ "updated" \in raised
  /\ raised' = (raised \ {"updated"}) \cup {"received"}
  /\ MonitorGoes("top")
  /\ UNCHANGED <<peerVars, socket, ctxLock, stateVars, debugVars>>

Wakes ==
  /\ gdbMonitor.at = "waits" /\ "updated" \notin raised
  /\ IsSignalled(gdbMonitor.on)
  /\ raised' = IF gdbMonitor.on = "continued" THEN raised \ {"continued"} ELSE raised
  /\ MonitorGoes("woken")
  /\ UNCHANGED <<peerVars, socket, ctxLock, stateVars, debugVars>>

\* An event of another context, which is not here.  Those of the first context
\* come before it.
WokenByAnother ==
  /\ gdbMonitor.at = "waits" /\ "updated" \notin raised
  /\ ~IsSignalled(gdbMonitor.on)
  /\ MayWake
  /\ MonitorGoes("top")
  /\ UNCHANGED <<peerVars, socket, ctxLock, raised, stateVars, debugVars>>

GotEvent == gdbMonitor.at = "woken" /\ ctxLock = "free" /\ MonitorGoes("top")

WokenTooLate ==
  /\ GotEvent /\ state \in {"disconnected", "detaching"}
  /\ raised' = raised \ {"attached"}
  /\ eventToWaitFor' = "attached"
  /\ UNCHANGED <<peerVars, socket, ctxLock, state, sessionFlags, debug, processEnded, debugVars>>

Advances ==
  /\ GotEvent /\ state \notin {"disconnected", "detaching"}
  /\ \/ eventToWaitFor = "attached" /\ eventToWaitFor' = "continued"
     \/ eventToWaitFor = "continued" /\ eventToWaitFor' = "debug"
  /\ UNCHANGED <<peerVars, socket, ctxLock, raised, state, sessionFlags, debug, processEnded,
                 debugVars>>

\* The process has ended, or a reply could not be sent: what remains is read.
SessionEnds ==
  /\ IF ExtendedRemote
     THEN /\ state' = "detaching"
          /\ sessionFlags' = {"extended"}
          /\ DetachesProcess
     ELSE /\ debugEvents' = <<>>
          /\ debuggee' = ContinueDebugEvent(<<>>)
          /\ eventToWaitFor' = "attached"
          /\ UNCHANGED <<state, sessionFlags, debug>>
  /\ raised' = raised \ {"attached"}

\* GDB_HandleDebugEvents, by the first event.
NothingToRead == debug => debugEvents = <<>>
FirstIs(events) == ~NothingToRead /\ Head(debugEvents) \in events
Handles == GotEvent /\ Attached /\ eventToWaitFor = "debug"

HandlesNothing ==
  /\ Handles /\ NothingToRead
  /\ UNCHANGED <<peerVars, socket, ctxLock, raised, stateVars, debugVars>>

HandlesNotice ==
  /\ Handles /\ FirstIs({"notice"})
  /\ \E sent \in Delivered :
       IF sent /\ debuggee # "exited"
       THEN /\ debugEvents' = Tail(debugEvents)
            /\ debuggee' = ContinueDebugEvent(debugEvents')
            /\ UNCHANGED <<raised, stateVars>>
       ELSE SessionEnds /\ UNCHANGED processEnded
  /\ UNCHANGED <<peerVars, socket, ctxLock>>

HandlesExit ==
  /\ Handles /\ FirstIs({"exit"})
  /\ processEnded' = TRUE
  /\ Told("ended")
  /\ \E sent \in Delivered :
       IF sent THEN debugEvents' = Tail(debugEvents)
                    /\ UNCHANGED <<raised, state, eventToWaitFor, sessionFlags, debug, debuggee>>
       ELSE SessionEnds
  /\ UNCHANGED <<inbox, socket, ctxLock>>

HandlesStop ==
  /\ Handles /\ FirstIs({"stop"})
  /\ IF processEnded
     THEN SessionEnds /\ UNCHANGED <<client, processEnded>>
     ELSE \E sent \in Delivered :
            /\ Told("stopped")
            /\ debugEvents' = Tail(debugEvents)
            /\ sessionFlags' = sessionFlags \ {"continuing"}
            /\ eventToWaitFor' = IF sent THEN "continued" ELSE "debug"
            /\ UNCHANGED <<raised, state, debug, processEnded, debuggee>>
  /\ UNCHANGED <<inbox, socket, ctxLock>>

MonitorSteps ==
  \/ LooksAgain \/ BeginsToWait \/ AnswersUpdate \/ Wakes \/ WokenTooLate \/ Advances
  \/ HandlesNothing \/ HandlesNotice \/ HandlesExit \/ HandlesStop

-----------------------------------------------------------------------------
SessionInit ==
  /\ client = "away" /\ inbox = <<>>
  /\ socket = "poll" /\ gdbMonitor = [at |-> "top", on |-> "attached"]
  /\ ctxLock = "free" /\ raised = {}
  /\ state = "disconnected" /\ eventToWaitFor = "attached" /\ sessionFlags = {}
  /\ debug = FALSE /\ processEnded = FALSE
  /\ debuggee = "running" /\ debugEvents = <<>>

SessionNext ==
  \/ ClientSends \/ HangsUp \/ AcceptClient
  \/ ProcessRuns \/ ProcessStarts
  \/ SocketSteps
  \/ MonitorSteps \/ WokenByAnother

\* The two threads of the stub run, and the socket thread, by packet after packet,
\* does not keep the lock from the monitor for ever.  Nothing is assumed of gdb, of
\* the process or of the other contexts.
SessionFairSpec ==
  /\ SessionInit /\ [][SessionNext]_sessionVars
  /\ WF_sessionVars(SocketSteps)
  /\ SF_sessionVars(MonitorSteps)

-----------------------------------------------------------------------------
(* Properties *)

\* gdb/server.c, gdb/monitor.c: after a session the process is not held, and
\* the monitor still runs and waits for the next session's process, whatever
\* handle it waited on when the last one was closed.
ClosedSessionReleases ==
  /\ gdbMonitor.at # "ended"
  /\ state = "disconnected" =>
       /\ ~debug /\ debuggee # "held"
       /\ gdbMonitor.at = "waits" /\ "updated" \notin raised => gdbMonitor.on = "attached"

\* gdb/debug.c: a client that believes the process runs is told of an event that
\* stops it, or of its end.
StopReported ==
  (client = "running" /\ \E i \in DOMAIN debugEvents : debugEvents[i] # "notice")
    ~> client # "running"

\* gdb/server.c: a session that is closed ends.
CloseEnds == socket = "closing" ~> socket = "poll"

SessionsProgress == StopReported /\ CloseEnds

-----------------------------------------------------------------------------
(* What the repository says and the code does not do *)

\* gdb/debug.c:22: an extended session is to "detach immediately".
DetachesImmediately == socket = "detaches" ~> socket = "poll"
=============================================================================
