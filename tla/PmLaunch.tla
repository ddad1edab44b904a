------------------------------ MODULE PmLaunch ------------------------------
(***************************************************************************)
(* launch.c: a process is loaded, what it depends on is loaded or counted, *)
(* and it is run.  Applications are launched by the task runner, the rest  *)
(* by the service thread.                                                  *)
(***************************************************************************)
EXTENDS PmProcesses

\* launchFlags: of the PMLAUNCHFLAGs, those that matter here.
LaunchFlags == {"NORMAL_APPLICATION", "LOAD_DEPENDENCIES", "NOTIFY_TERMINATION",
                "QUEUE_DEBUG_APPLICATION", "FAKE_DEPENDENCY_LOADING"}

\* outProcessData, the unique dependencies, the processes found for them, the
\* references that are left to add, those seen to, and the one being loaded.
NoLaunch == [title |-> "none", flags |-> {}, process |-> NULL, unique |-> {},
             procs |-> [d \in Titles |-> NULL], remrefcounts |-> [d \in Titles |-> 0],
             seen |-> {}, dependency |-> "none"]

Unloaded == {p \in Pids : kernel[p] = "none"}

NextDependency(ps) == CHOOSE p \in ps : \A q \in ps : p =< q

\* Only the steps of a launch itself.
otherVars == <<debugData, waitingForTermination, allNotifiedTerminationEvent, request, monitor, asked>>

Launches(t, title, flags) ==
  launch' = [launch EXCEPT ![t] = [NoLaunch EXCEPT !.title = title, !.flags = flags]]

Forgotten(t) == [launch EXCEPT ![t] = NoLaunch]

-----------------------------------------------------------------------------
(* LaunchTitle and launchTitleImplWrapper *)

\* LaunchTitle's region: another application, or a process of the title.
LaunchTitle(t) ==
  /\ place[t] = "launch title"
  /\ Locks(t)
  /\ LET found == FindProcessByTitleId(launch[t].title)
         asynchronous == /\ t = "service" /\ "NORMAL_APPLICATION" \in launch[t].flags
                         /\ "QUEUE_DEBUG_APPLICATION" \notin launch[t].flags
     IN  /\ Goto(t, IF runningApplicationData # NULL /\ "NORMAL_APPLICATION" \in launch[t].flags
                      THEN "idle"
                    ELSE IF found # NULL THEN "found"
                    ELSE IF asynchronous THEN "post" ELSE "check")
         /\ launch' = IF place'[t] = "idle" THEN Forgotten(t) ELSE [launch EXCEPT ![t].process = found]
  /\ UNCHANGED <<processVars, runningApplicationData, newProcessEvent, otherVars>>

\* The lock is not held any more.
FoundProcess(t) ==
  /\ place[t] = "found"
  /\ data' = [data EXCEPT ![launch[t].process].flags = @ \ {"AUTOLOADED"}]
  /\ launch' = Forgotten(t)
  /\ Goto(t, "idle")
  /\ UNCHANGED <<kernel, sm, runningApplicationData, newProcessEvent, lock, otherVars>>

\* TaskRunner_RunTask, once the task runner is ready.
PostLaunch ==
  /\ place["service"] = "post" /\ place["runner"] = "idle"
  /\ place' = [place EXCEPT !["service"] = "idle", !["runner"] = "check"]
  /\ launch' = [launch EXCEPT !["runner"] = [launch["service"] EXCEPT !.process = NULL],
                              !["service"] = NoLaunch]
  /\ UNCHANGED <<processVars, runningApplicationData, newProcessEvent, lock, otherVars>>

\* Fault: the task does not look whether an application runs by now.
CheckNothing(t) ==
  /\ place[t] = "check"
  /\ Locks(t)
  /\ Goto(t, "load")
  /\ launch' = [launch EXCEPT ![t].process = NULL]
  /\ UNCHANGED <<processVars, runningApplicationData, newProcessEvent, otherVars>>

Check(t) ==
  /\ place[t] = "check"
  /\ Locks(t)
  /\ Goto(t, IF runningApplicationData # NULL /\ "NORMAL_APPLICATION" \in launch[t].flags
               THEN "idle" ELSE "load")
  /\ launch' = IF place'[t] = "idle" THEN Forgotten(t) ELSE [launch EXCEPT ![t].process = NULL]
  /\ UNCHANGED <<processVars, runningApplicationData, newProcessEvent, otherVars>>

-----------------------------------------------------------------------------
(* launchTitleImpl *)

\* LOADER_LoadProcess and ProcessList_New.
LoadedAs(t, p, title, flags) ==
  /\ Locks(t)
  /\ data' = [data EXCEPT ![p] = Loaded(title, flags)]
  /\ kernel' = [kernel EXCEPT ![p] = "created"]
  /\ newProcessEvent' = TRUE
  /\ UNCHANGED <<sm, runningApplicationData, otherVars>>

Load(t) ==
  /\ place[t] = "load"
  /\ Unloaded # {}
  /\ LoadedAs(t, NextDependency(Unloaded), launch[t].title, launch[t].flags)
  /\ launch' = [launch EXCEPT ![t].process = NextDependency(Unloaded)]
  /\ Goto(t, "register")

\* The dependencies that are not seen to.
Todo(t) == {d \in launch[t].unique : launch[t].procs[d] = NULL /\ d \notin launch[t].seen}

LoadDependency(t, d) ==
  /\ place[t] = "dependencies"
  /\ d \in Todo(t)
  /\ Unloaded # {}
  /\ LoadedAs(t, NextDependency(Unloaded), d, {})
  /\ launch' = [launch EXCEPT ![t].procs[d] = NextDependency(Unloaded), ![t].dependency = d]
  /\ Goto(t, "run dependency")

\* registerProgram fails, which leaves at once, or LOADER_LoadProcess fails,
\* which goes to cleanup without the lock.  A dependency is then done without.
FailsToLoad(t) ==
  /\ \/ Unloaded = {} /\ UNCHANGED lock
     \/ LoadFails /\ UnlocksTooMuch
  /\ \/ place[t] = "load" /\ Goto(t, "idle") /\ launch' = Forgotten(t)
     \/ /\ place[t] = "dependencies"
        /\ \E d \in Todo(t) : launch' = [launch EXCEPT ![t].seen = @ \cup {d}]
        /\ UNCHANGED place
  /\ UNCHANGED <<processVars, runningApplicationData, newProcessEvent, otherVars>>

\* The rest of loadWithoutDependencies, without the lock.
Register(t) ==
  /\ place[t] = "register"
  /\ LET p == launch[t].process
     IN  /\ sm' = [sm EXCEPT ![p] = "registered"]
         /\ data' = [data EXCEPT ![p].flags = @ \cup (launch[t].flags \cap {"NORMAL_APPLICATION"})]
  /\ Goto(t, IF {"LOAD_DEPENDENCIES", "NORMAL_APPLICATION"} \cap launch[t].flags # {}
               THEN "merge" ELSE "dependencies")
  /\ UNCHANGED <<kernel, runningApplicationData, newProcessEvent, lock, launch, otherVars>>

\* listMergeUniqueDependencies, for the dependencies of a title.
Merges(t, title) ==
  LET l == launch[t]
      deps == Dependencies[title]
      found == [d \in Titles |-> IF d \in deps \ l.unique THEN FindProcessByTitleId(d) ELSE l.procs[d]]
  IN  /\ data' = [p \in Pids |-> IF \E d \in deps : found[d] = p THEN Incref(data, p, 1)[p] ELSE data[p]]
      /\ launch' = [launch EXCEPT
           ![t].unique = @ \cup deps,
           ![t].procs = found,
           ![t].remrefcounts = [d \in Titles |-> @[d] + (IF d \in deps /\ found[d] = NULL THEN 1 ELSE 0)]]

Merge(t) ==
  /\ \/ place[t] = "merge" /\ Merges(t, launch[t].title) /\ Goto(t, "merged")
     \/ /\ place[t] = "merge dependency"
        /\ Merges(t, launch[t].dependency)
        /\ Goto(t, "dependencies")
  /\ Locks(t)
  /\ UNCHANGED <<kernel, sm, runningApplicationData, newProcessEvent, otherVars>>

\* Without the lock.  FAKE_DEPENDENCY_LOADING: "see no evil".
Merged(t) ==
  /\ place[t] = "merged"
  /\ data' = IF launch[t].unique = {} THEN data
             ELSE [data EXCEPT ![launch[t].process].flags = @ \cup {"DEPENDENCIES_LOADED"}]
  /\ launch' = IF "FAKE_DEPENDENCY_LOADING" \in launch[t].flags
                 THEN [launch EXCEPT ![t].unique = {}] ELSE launch
  /\ Goto(t, "dependencies")
  /\ UNCHANGED <<kernel, sm, runningApplicationData, newProcessEvent, lock, otherVars>>

\* A dependency is registered and run.  If that fails, so does the launch, at
\* cleanup without the lock.
RunDependency(t) ==
  /\ place[t] = "run dependency"
  /\ LET p == launch[t].procs[launch[t].dependency]
     IN  /\ sm' = [sm EXCEPT ![p] = "registered"]
         /\ IF kernel[p] = "created"
              THEN /\ Locks(t)
                   /\ kernel' = [kernel EXCEPT ![p] = "running"]
                   /\ Goto(t, "flag dependency")
                   /\ UNCHANGED launch
              ELSE /\ UnlocksTooMuch
                   /\ kernel' = Killed(kernel, {launch[t].process})
                   /\ Goto(t, "idle")
                   /\ launch' = Forgotten(t)
  /\ UNCHANGED <<data, runningApplicationData, newProcessEvent, otherVars>>

\* Without the lock: the dependency may be counted from now on.
FlagDependency(t) ==
  /\ place[t] = "flag dependency"
  /\ LET d == launch[t].dependency
         p == launch[t].procs[d]
     IN  /\ data' = Incref([data EXCEPT ![p].flags = @ \cup {"AUTOLOADED", "DEPENDENCIES_LOADED"}],
                           p, launch[t].remrefcounts[d] - 1)
         /\ launch' = [launch EXCEPT ![t].remrefcounts[d] = 0]
  /\ Goto(t, "merge dependency")
  /\ UNCHANGED <<kernel, sm, runningApplicationData, newProcessEvent, lock, otherVars>>

\* The last region: the process is queued for a debugger, or run.
Run(t) ==
  /\ place[t] = "dependencies" /\ Todo(t) = {}
  /\ Locks(t)
  /\ LET p == launch[t].process
         queued == "QUEUE_DEBUG_APPLICATION" \in launch[t].flags
         succeeds == IF queued THEN debugData = NULL ELSE kernel[p] = "created"
     IN  /\ kernel' = IF ~succeeds THEN Killed(kernel, {p})
                      ELSE IF queued THEN kernel ELSE [kernel EXCEPT ![p] = "running"]
         /\ debugData' = IF succeeds /\ queued THEN p ELSE debugData
         /\ runningApplicationData' =
              IF succeeds /\ ~queued /\ "NORMAL_APPLICATION" \in launch[t].flags
                THEN p ELSE runningApplicationData
         /\ data' = IF succeeds THEN [data EXCEPT ![p].flags =
                                        @ \cup (launch[t].flags \cap {"NOTIFY_TERMINATION"})]
                    ELSE data
  /\ launch' = Forgotten(t)
  /\ Goto(t, "idle")
  /\ UNCHANGED <<sm, eventVars, request, monitor, asked>>

Launching(t) ==
  \/ LaunchTitle(t) \/ FoundProcess(t) \/ Check(t)
  \/ Load(t) \/ FailsToLoad(t) \/ Register(t) \/ Merge(t) \/ Merged(t)
  \/ \E d \in Sysmodules : LoadDependency(t, d)
  \/ RunDependency(t) \/ FlagDependency(t) \/ Run(t)

-----------------------------------------------------------------------------
(* Debugging *)

\* RunQueuedProcess, in one region.
RunQueuedProcess ==
  /\ debugData # NULL
  /\ ~("NORMAL_APPLICATION" \in data[debugData].flags /\ runningApplicationData # NULL)
  /\ Locks("service")
  /\ LET p == debugData
         succeeds == kernel[p] = "created"
     IN  /\ kernel' = IF succeeds THEN [kernel EXCEPT ![p] = "running"] ELSE Killed(kernel, {p})
         /\ runningApplicationData' =
              IF succeeds /\ "NORMAL_APPLICATION" \in data[p].flags THEN p ELSE runningApplicationData
         /\ data' = IF succeeds THEN data
                    ELSE [data EXCEPT ![p].flags = @ \ {"NOTIFY_TERMINATION"}]
  /\ debugData' = NULL
  /\ UNCHANGED <<sm, eventVars, place, launch, request, monitor>>

\* LaunchAppDebug when nothing is queued.
LaunchAppDebug(title) ==
  /\ debugData = NULL /\ runningApplicationData = NULL
  /\ Locks("service")
  /\ Launches("service", title, {"NORMAL_APPLICATION", "LOAD_DEPENDENCIES"})
  /\ Goto("service", "check")
  /\ UNCHANGED <<processVars, managerVars, eventVars, request, monitor>>
=============================================================================
