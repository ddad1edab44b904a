---------------------------- MODULE PmTermination ----------------------------
(***************************************************************************)
(* termination.c and process_monitor.c: processes are notified that they   *)
(* should end, and waited for, by the service thread (TerminateApplication)*)
(* or the task runner (the rest); the monitor thread finds out which have  *)
(* ended and cleans up after them.                                         *)
(***************************************************************************)
EXTENDS PmProcesses

\* ProcessData_SendTerminationNotification: the service manager reaches only
\* the processes that have asked for their notifications.  (It may also have
\* no room for the notification: pm panics.)
Notified(d, ps) ==
  [p \in Pids |->
     IF p \notin ps THEN d[p]
     ELSE [d[p] EXCEPT !.status = IF sm[p] = "enabled" THEN "NOTIFICATION_SENT"
                                  ELSE "NOTIFICATION_FAILED"]]

\* Processes terminateUnusedDependencies counts down.
InUse(d, titles) ==
  {p \in Pids : /\ d[p].listed /\ d[p].status = "RUNNING"
                /\ "AUTOLOADED" \in d[p].flags /\ d[p].title \in titles}

\* terminateUnusedDependencies: one use less of each; those without any are
\* notified.  One that is not reached (RS_NOTFOUND) goes on.
Unused(d, titles) ==
  LET counted == [p \in Pids |-> IF p \in InUse(d, titles)
                                   THEN [d[p] EXCEPT !.refcount = @ - 1] ELSE d[p]]
  IN  Notified(counted, {p \in InUse(d, titles) : d[p].refcount - 1 =< 0})

\* getAndListDependencies fails when the program is not registered any more.
terminateProcessImpl(d, p) ==
  IF "DEPENDENCIES_LOADED" \notin d[p].flags THEN Notified(d, {p})
  ELSE IF sm[p] = "none" THEN d
  ELSE Unused(Notified([d EXCEPT ![p].flags = @ \ {"DEPENDENCIES_LOADED"}], {p}),
              Dependencies[d[p].title])

-----------------------------------------------------------------------------
(* The threads that terminate *)

NoRequest == [kind |-> "none", pid |-> NULL, waits |-> FALSE]

\* TerminateApplication, TerminateProcessOrTitleAsync and
\* ChainloadHomebrewDirtyAsync: svcClearEvent, waitingForTermination = true; not for a request whose
\* timeout is negative.
TerminationBegins(t) ==
  /\ place[t] = "terminate"
  /\ IF request[t].waits
       THEN allNotifiedTerminationEvent' = FALSE /\ waitingForTermination' = TRUE
       ELSE UNCHANGED <<allNotifiedTerminationEvent, waitingForTermination>>
  /\ Goto(t, "notify")
  /\ UNCHANGED <<processVars, managerVars, newProcessEvent, lock, launch, request, monitor, asked>>

\* The process is the one asked for, or the running application.
Target(t) == IF request[t].kind = "process" THEN request[t].pid ELSE runningApplicationData

\* What else a request changes before its process is notified: the monitor is
\* not to report the end; hbmenu's dependencies are to stay.
Prepared(d, t) ==
  LET p == Target(t)
  IN  CASE request[t].kind = "process" /\ "NOTIFY_TERMINATION" \in d[p].flags ->
             [d EXCEPT ![p].flags =
                (@ \ {"NOTIFY_TERMINATION"}) \cup {"NOTIFY_TERMINATION_TERMINATED"}]
        [] request[t].kind = "chainload" ->
             [d EXCEPT ![p].flags = @ \ {"DEPENDENCIES_LOADED", "NOTIFY_TERMINATION"}]
        [] OTHER -> d

\* A pid is looked for in the list; runningApplicationData is taken as it is.
Notify(t) ==
  /\ place[t] = "notify"
  /\ Locks(t)
  /\ LET p == Target(t)
     IN  /\ data' = IF p = NULL \/ (request[t].kind = "process" /\ p \notin Listed) THEN data
                    ELSE terminateProcessImpl(Prepared(data, t), p)
         /\ request' = IF request[t].waits THEN [request EXCEPT ![t].pid = p]
                       ELSE [request EXCEPT ![t] = NoRequest]
  /\ Goto(t, IF request[t].waits THEN "commit" ELSE "idle")
  /\ UNCHANGED <<kernel, sm, managerVars, eventVars, launch, monitor, asked>>

\* commitPendingTerminations: the region before it waits.
Commit(t) ==
  /\ place[t] = "commit"
  /\ Locks(t)
  /\ kernel' = Killed(kernel, {p \in Listed : data[p].status = "NOTIFICATION_FAILED"})
  /\ Goto(t, IF \E p \in Listed : data[p].status = "NOTIFICATION_SENT"
               THEN "wait" ELSE "committed")
  /\ UNCHANGED <<data, sm, managerVars, eventVars, launch, request, monitor, asked>>

\* All have ended, says the monitor; within the timeout or after it.
AllEnded(t) ==
  /\ place[t] \in {"wait", "wait forever"}
  /\ allNotifiedTerminationEvent
  /\ allNotifiedTerminationEvent' = FALSE
  /\ Goto(t, "committed")
  /\ UNCHANGED <<processVars, managerVars, waitingForTermination, newProcessEvent, lock, launch, request, monitor, asked>>

\* The timeout: those that have not ended are terminated.
TimesOut(t) ==
  /\ place[t] = "wait"
  /\ ~allNotifiedTerminationEvent
  /\ Locks(t)
  /\ kernel' = Killed(kernel, {p \in Listed : data[p].status = "NOTIFICATION_SENT"})
  /\ Goto(t, "wait forever")
  /\ UNCHANGED <<data, sm, managerVars, eventVars, launch, request, monitor, asked>>

Committed(t) ==
  /\ place[t] = "committed"
  /\ waitingForTermination' = FALSE
  /\ IF request[t].kind = "chainload" /\ request[t].pid # NULL
       THEN Goto(t, "await") /\ UNCHANGED request
       ELSE Goto(t, "idle") /\ request' = [request EXCEPT ![t] = NoRequest]
  /\ UNCHANGED <<processVars, managerVars, newProcessEvent, allNotifiedTerminationEvent, lock, launch, monitor, asked>>

Terminates(t) ==
  \/ TerminationBegins(t)
  \/ Notify(t)
  \/ Commit(t)
  \/ AllEnded(t)
  \/ TimesOut(t)
  \/ Committed(t)

-----------------------------------------------------------------------------
(* The monitor thread *)

\* Fault: a process that is not run yet, or was notified, is not watched.
RebuildRunningOnly ==
  /\ place["monitor"] = "rebuild"
  /\ Locks("monitor")
  /\ LET watched == {p \in Listed : data[p].status = "RUNNING"}
     IN  monitor' = [monitor EXCEPT !.watched = watched, !.terminating = FALSE]
  /\ Goto("monitor", "signal")
  /\ UNCHANGED <<processVars, managerVars, eventVars, launch, request, asked>>

\* The handles it waits for, and whether a notified process is among them.
Rebuild ==
  /\ place["monitor"] = "rebuild"
  /\ Locks("monitor")
  /\ LET watched == {p \in Listed : data[p].status # "TERMINATED"}
     IN  monitor' = [monitor EXCEPT
           !.watched = watched,
           !.terminating = \E p \in watched : data[p].status = "NOTIFICATION_SENT"]
  /\ Goto("monitor", "signal")
  /\ UNCHANGED <<processVars, managerVars, eventVars, launch, request, asked>>

\* It tells who waits that no notified process is left.
Signal ==
  /\ place["monitor"] = "signal"
  /\ allNotifiedTerminationEvent' =
       (allNotifiedTerminationEvent \/ (waitingForTermination /\ ~monitor.terminating))
  /\ monitor' = [monitor EXCEPT !.terminating = FALSE]
  /\ Goto("monitor", "wait")
  /\ UNCHANGED <<processVars, managerVars, waitingForTermination, newProcessEvent, lock, launch, request, asked>>

\* The processes whose handles are signalled; newProcessEvent goes first.
WakesForNewProcess ==
  /\ place["monitor"] = "wait"
  /\ newProcessEvent
  /\ newProcessEvent' = FALSE
  /\ monitor' = [monitor EXCEPT !.watched = {}]
  /\ Goto("monitor", "rebuild")
  /\ UNCHANGED <<processVars, managerVars, waitingForTermination, allNotifiedTerminationEvent, lock, launch, request, asked>>

\* Fault: the status of an end that is to be reported stays.
WakesForEndKeepsStatus(p) ==
  /\ place["monitor"] = "wait"
  /\ p \in monitor.watched /\ kernel[p] = "dead"
  /\ Locks("monitor")
  /\ LET flags == IF "NOTIFY_TERMINATION" \in data[p].flags
                    THEN data[p].flags \cup {"NOTIFY_TERMINATION_TERMINATED"} ELSE data[p].flags
         reported == "NOTIFY_TERMINATION_TERMINATED" \in flags
     IN  /\ data' = IF p \notin Listed THEN data
                    ELSE [data EXCEPT ![p].status = IF reported THEN @ ELSE "TERMINATED",
                                      ![p].flags = flags, ![p].listed = reported]
         /\ monitor' = IF p \notin Listed THEN [monitor EXCEPT !.watched = {}]
                       ELSE [monitor EXCEPT !.watched = {}, !.pid = p, !.flags = flags]
  /\ Goto("monitor", IF p \in Listed THEN "clean dependencies" ELSE "rebuild")
  /\ UNCHANGED <<kernel, sm, managerVars, eventVars, launch, request, asked>>

\* A process has ended.  Its data stays listed if its end is reported.
WakesForEnd(p) ==
  /\ place["monitor"] = "wait"
  /\ p \in monitor.watched /\ kernel[p] = "dead"
  /\ Locks("monitor")
  /\ LET flags == IF "NOTIFY_TERMINATION" \in data[p].flags
                    THEN data[p].flags \cup {"NOTIFY_TERMINATION_TERMINATED"} ELSE data[p].flags
     IN  /\ data' = IF p \notin Listed THEN data
                    ELSE [data EXCEPT ![p].status = "TERMINATED", ![p].flags = flags,
                                      ![p].listed = "NOTIFY_TERMINATION_TERMINATED" \in flags]
         /\ monitor' = IF p \notin Listed THEN [monitor EXCEPT !.watched = {}]
                       ELSE [monitor EXCEPT !.watched = {}, !.pid = p, !.flags = flags]
  /\ Goto("monitor", IF p \in Listed THEN "clean dependencies" ELSE "rebuild")
  /\ UNCHANGED <<kernel, sm, managerVars, eventVars, launch, request, asked>>

\* cleanupProcess, of processBackup: the dependencies first.
CleanDependencies ==
  /\ place["monitor"] = "clean dependencies"
  /\ IF "DEPENDENCIES_LOADED" \in monitor.flags
       THEN Locks("monitor") /\ data' = Unused(data, Dependencies[data[monitor.pid].title])
       ELSE UNCHANGED <<lock, data>>
  /\ Goto("monitor", "clean")
  /\ UNCHANGED <<kernel, sm, managerVars, eventVars, launch, request, monitor, asked>>

\* Fault: the application is forgotten only when its data is given back.
CleanIfDeleted ==
  /\ place["monitor"] = "clean"
  /\ Locks("monitor")
  /\ runningApplicationData' =
       IF runningApplicationData = monitor.pid /\ data[monitor.pid].listed THEN NULL
       ELSE runningApplicationData
  /\ debugData' = IF debugData = monitor.pid THEN NULL ELSE debugData
  /\ sm' = [sm EXCEPT ![monitor.pid] = "none"]
  /\ monitor' = [monitor EXCEPT !.pid = NULL, !.flags = {}]
  /\ Goto("monitor", "rebuild")
  /\ UNCHANGED <<data, kernel, eventVars, launch, request, asked>>

\* The rest: the process is unregistered, and no longer the application.
Clean ==
  /\ place["monitor"] = "clean"
  /\ Locks("monitor")
  /\ runningApplicationData' =
       IF runningApplicationData = monitor.pid THEN NULL ELSE runningApplicationData
  /\ debugData' = IF debugData = monitor.pid THEN NULL ELSE debugData
  /\ sm' = [sm EXCEPT ![monitor.pid] = "none"]
  /\ monitor' = [monitor EXCEPT !.pid = NULL, !.flags = {}]
  /\ Goto("monitor", "rebuild")
  /\ UNCHANGED <<data, kernel, eventVars, launch, request, asked>>

Monitors ==
  \/ Rebuild \/ Signal \/ WakesForNewProcess
  \/ \E p \in Pids : WakesForEnd(p)
  \/ CleanDependencies \/ Clean
=============================================================================
