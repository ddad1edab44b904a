--------------------------- MODULE ProcessManager ---------------------------
(***************************************************************************)
(* pm: the service thread takes requests, the task runner carries out some *)
(* of them, the monitor thread watches the processes.                      *)
(***************************************************************************)
EXTENDS PmLaunch, PmTermination

CONSTANTS
  Requests,       \* the kinds of requests that clients make
  OneTerminator,  \* a termination is asked for when no other is under way
  MaxRequests     \* bound on the requests of a behaviour

RequestKinds == {"launch", "sysmodule", "debug", "process", "application",
                 "unregister", "chainload"}

ASSUME RequestsAssumption == Requests \subseteq RequestKinds /\ OneTerminator \in BOOLEAN
                             /\ MaxRequests \in Nat

TerminatingAt == {"terminate", "notify", "commit", "wait", "wait forever", "committed"}

Terminating(t) == place[t] \in TerminatingAt

MayTerminate == OneTerminator => ~Terminating("runner") /\ place["runner"] # "await"

requestVars == <<processVars, managerVars, eventVars, lock, monitor>>

\* The service thread takes a request of a kind.
Takes(kinds) ==
  /\ place["service"] = "idle"
  /\ kinds \cap Requests # {}
  /\ asked < MaxRequests
  /\ asked' = asked + 1

AsksToLaunch(title, flags) ==
  /\ Takes({"launch", "sysmodule", "debug"})
  /\ \/ "launch" \in Requests /\ title \in Applications
        /\ flags \ {"NOTIFY_TERMINATION"} = {"NORMAL_APPLICATION", "LOAD_DEPENDENCIES"}
     \/ "sysmodule" \in Requests /\ title \in Sysmodules /\ flags = {"LOAD_DEPENDENCIES"}
     \/ "debug" \in Requests /\ title \in Applications
        /\ flags = {"NORMAL_APPLICATION", "LOAD_DEPENDENCIES", "QUEUE_DEBUG_APPLICATION"}
  /\ Launches("service", title, flags)
  /\ Goto("service", "launch title")
  /\ UNCHANGED <<requestVars, request>>

Debugs ==
  /\ Takes({"debug"})
  /\ RunQueuedProcess \/ \E title \in Applications : LaunchAppDebug(title)

\* TerminateProcess, for an application, when the task runner is ready.
AsksToTerminate(p, waits) ==
  /\ Takes({"process"})
  /\ place["runner"] = "idle"
  /\ p \in Listed /\ data[p].title \in Applications
  /\ request' = [request EXCEPT !["runner"] = [kind |-> "process", pid |-> p, waits |-> waits]]
  /\ Goto("runner", "terminate")
  /\ UNCHANGED <<requestVars, launch>>

TerminateApplication ==
  /\ Takes({"application"})
  /\ MayTerminate
  /\ request' = [request EXCEPT !["service"] = [kind |-> "application", pid |-> NULL, waits |-> TRUE]]
  /\ Goto("service", "terminate")
  /\ UNCHANGED <<requestVars, launch>>

ChainloadHomebrewDirty ==
  /\ Takes({"chainload"})
  /\ place["runner"] = "idle"
  /\ Locks("service")
  /\ runningApplicationData # NULL
  /\ request' = [request EXCEPT !["runner"] = [kind |-> "chainload", pid |-> NULL, waits |-> TRUE]]
  /\ Goto("runner", "terminate")
  /\ UNCHANGED <<processVars, managerVars, eventVars, monitor, launch>>

\* The application that was terminated is gone: it is launched again.
Chainloads ==
  /\ place["runner"] = "await"
  /\ Locks("runner")
  /\ runningApplicationData = NULL
  /\ LET app == data[request["runner"].pid]
     IN  Launches("runner", app.title,
                  (app.launchFlags \ {"QUEUE_DEBUG_APPLICATION"}) \cup {"FAKE_DEPENDENCY_LOADING"})
  /\ request' = [request EXCEPT !["runner"] = NoRequest]
  /\ Goto("runner", "launch title")
  /\ UNCHANGED <<processVars, managerVars, eventVars, monitor, asked>>

\* A client that was told of the end of a process unregisters its title.
UnregisterProcess(title) ==
  /\ Takes({"unregister"})
  /\ \E p \in Listed : data[p].title = title /\ data[p].status = "TERMINATED" /\ sm[p] = "none"
  /\ Locks("service")
  /\ LET p == FindProcessByTitleId(title)
     IN  /\ data' = [data EXCEPT ![p].listed = FALSE]
         /\ runningApplicationData' = IF runningApplicationData = p THEN NULL ELSE runningApplicationData
         /\ debugData' = IF debugData = p THEN NULL ELSE debugData
  /\ UNCHANGED <<kernel, sm, eventVars, place, launch, request, monitor>>

-----------------------------------------------------------------------------

PmInit ==
  /\ data = [p \in Pids |-> NoProcess]
  /\ kernel = [p \in Pids |-> "none"]
  /\ sm = [p \in Pids |-> "none"]
  /\ runningApplicationData = NULL /\ debugData = NULL
  /\ waitingForTermination = FALSE
  /\ newProcessEvent = FALSE /\ allNotifiedTerminationEvent = FALSE
  /\ lock = "balanced"
  /\ place = [t \in Threads |-> IF t = "monitor" THEN "rebuild" ELSE "idle"]
  /\ launch = [t \in {"service", "runner"} |-> NoLaunch]
  /\ request = [t \in {"service", "runner"} |-> NoRequest]
  /\ monitor = [watched |-> {}, terminating |-> FALSE, pid |-> NULL, flags |-> {}]
  /\ asked = 0

ThreadSteps(t) == Launching(t) \/ Terminates(t)

\* What applications and their ends make pm do.
ApplicationsNext ==
  \/ \E p \in Pids : EnablesNotifications(p) \/ Exits(p)
  \/ \E title \in Titles, flags \in SUBSET LaunchFlags : AsksToLaunch(title, flags)
  \/ \E p \in Pids, waits \in BOOLEAN : AsksToTerminate(p, waits)
  \/ TerminateApplication
  \/ \E title \in Titles : UnregisterProcess(title)
  \/ \E t \in {"service", "runner"} : ThreadSteps(t)
  \/ PostLaunch
  \/ Monitors

\* And with Rosalina, which debugs the next application, and chainloads.
PmNext == ApplicationsNext \/ Debugs \/ ChainloadHomebrewDirty \/ Chainloads

PmSpec == PmInit /\ [][PmNext]_pmVars

\* The threads go on, the task runner is posted to, the monitor watches.
PmFairness ==
  /\ \A t \in {"service", "runner"} : WF_pmVars(ThreadSteps(t))
  /\ WF_pmVars(PostLaunch) /\ WF_pmVars(Monitors)

ApplicationsFairSpec == PmInit /\ [][ApplicationsNext]_pmVars /\ PmFairness

-----------------------------------------------------------------------------
(* Properties *)

\* The shape of the state.
PmTypeOK ==
  /\ \A p \in Pids :
       /\ data[p].flags \subseteq Flags /\ data[p].status \in Statuses
       /\ data[p].title \in Titles \cup {"none"} /\ data[p].refcount \in Int
  /\ kernel \in [Pids -> {"none", "created", "running", "dead"}]
  /\ sm \in [Pids -> {"none", "registered", "enabled"}]
  /\ {runningApplicationData, debugData} \subseteq Pids \cup {NULL}
  /\ lock \in {"balanced", "unbalanced"} \cup Threads

\* Two applications never run, though the one who asks and the task that
\* launches look for a running one at different times.
OneApplication ==
  Cardinality({p \in Pids : kernel[p] = "running" /\ "NORMAL_APPLICATION" \in data[p].flags}) =< 1

\* The running application is listed, or its end is being cleaned up: a pointer
\* to given-back data does not outlive the monitor's turn.
ApplicationListed ==
  runningApplicationData # NULL =>
    \/ runningApplicationData \in Listed
    \/ monitor.pid = runningApplicationData

\* No end goes unnoticed: while the monitor waits, it waits for every process
\* that has not ended, or an event is about to wake it.
LiveProcessesWatched ==
  place["monitor"] = "wait" =>
    \A p \in Listed : kernel[p] \in {"created", "running"} =>
      p \in monitor.watched \/ newProcessEvent

\* The ends of processes are followed by all that refers to them.
ProcessesFollowed == ApplicationListed /\ LiveProcessesWatched

\* A thread that terminates processes is done some time: those that do not end
\* within the timeout are terminated, and the monitor says when all have ended.
TerminationEnds == \A t \in {"service", "runner"} : Terminating(t) ~> ~Terminating(t)
=============================================================================
