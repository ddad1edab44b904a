----------------------------- MODULE PmProcesses -----------------------------
(***************************************************************************)
(* The process manager, pm: the processes it keeps, and the lock of their  *)
(* list.  A process is named by its pid; a ProcessData that was given back *)
(* keeps its fields, which a pointer to it still reads and writes.         *)
(*                                                                         *)
(* A region that holds the lock is one step.  The lock is libctru's        *)
(* RecursiveLock: an owner and a count.                                    *)
(***************************************************************************)
EXTENDS Integers, FiniteSets, Functions

CONSTANTS
  MaxPid,         \* bound on the processes of a behaviour
  Applications,   \* titles that are launched as applications
  Sysmodules,     \* the other titles
  Dependencies,   \* the titles that a title depends on
  ExitAlone,      \* processes may end without having been notified
  LoadFails       \* LOADER_LoadProcess may fail

Titles == Applications \cup Sysmodules

ASSUME PmAssumption ==
  /\ MaxPid \in Nat
  /\ Applications \cap Sysmodules = {}
  /\ DOMAIN Dependencies = Titles /\ Range(Dependencies) \subseteq SUBSET Sysmodules
  /\ ExitAlone \in BOOLEAN /\ LoadFails \in BOOLEAN

Pids == 1..MaxPid
NULL == 0
Threads == {"service", "runner", "monitor"}

Flags == {"NOTIFY_TERMINATION", "DEPENDENCIES_LOADED", "AUTOLOADED",
          "NOTIFY_TERMINATION_TERMINATED", "NORMAL_APPLICATION"}
Statuses == {"RUNNING", "NOTIFICATION_SENT", "NOTIFICATION_FAILED", "TERMINATED"}

VARIABLES
  data,          \* the ProcessData of each pid
  kernel,        \* what the kernel knows of each process
  sm,            \* what the service manager, FS and loader know of it
  runningApplicationData, debugData,   \* pids, or NULL
  waitingForTermination,
  newProcessEvent, allNotifiedTerminationEvent,   \* one-shot events
  lock,          \* "balanced", "unbalanced", or the thread that keeps the lock
  place,            \* where each thread is
  launch,        \* what the launch at hand of a thread knows
  request,       \* what the termination at hand of a thread was asked for
  monitor,       \* what the monitor waits for, and its processBackup
  asked          \* how many requests the service thread has taken

processVars == <<data, kernel, sm>>
managerVars == <<runningApplicationData, debugData>>
eventVars == <<waitingForTermination, newProcessEvent, allNotifiedTerminationEvent>>
pmVars == <<processVars, managerVars, eventVars, lock, place, launch, request, monitor, asked>>

NoProcess == [listed |-> FALSE, title |-> "none", launchFlags |-> {}, flags |-> {},
              status |-> "RUNNING", refcount |-> 0]

Listed == {p \in Pids : data[p].listed}

Goto(t, where) == place' = [place EXCEPT ![t] = where]

\* ProcessList_Lock .. ProcessList_Unlock.  One unlock too many has made the
\* count -1: the next thread to lock never lets the others in again.
Locks(t) ==
  /\ lock \in {"balanced", "unbalanced", t}
  /\ lock' = IF lock = "unbalanced" THEN t ELSE lock

\* ProcessList_Unlock by a thread that does not hold the lock.
UnlocksTooMuch == lock' = IF lock = "balanced" THEN "unbalanced" ELSE lock

\* FOREACH_PROCESS goes from the oldest to the newest.
FindProcessByTitleId(title) ==
  LET found == {p \in Listed : data[p].title = title}
  IN  IF found = {} THEN NULL ELSE CHOOSE p \in found : \A q \in found : p =< q

\* ProcessData_Incref does nothing to a process that was not autoloaded.
Incref(d, p, amount) ==
  IF "AUTOLOADED" \in d[p].flags THEN [d EXCEPT ![p].refcount = @ + amount] ELSE d

\* ProcessList_New, for a process that was loaded.
Loaded(title, launchFlags) ==
  [NoProcess EXCEPT !.listed = TRUE, !.title = title, !.launchFlags = launchFlags, !.refcount = 1]

\* svcTerminateProcess
Killed(k, ps) == [p \in Pids |-> IF p \in ps /\ k[p] # "none" THEN "dead" ELSE k[p]]

-----------------------------------------------------------------------------
(* The processes themselves *)

\* A process asks the service manager for its notifications.
EnablesNotifications(p) ==
  /\ kernel[p] = "running" /\ sm[p] = "registered"
  /\ sm' = [sm EXCEPT ![p] = "enabled"]
  /\ UNCHANGED <<data, kernel, managerVars, eventVars, lock, place, launch, request, monitor, asked>>

\* A process ends, by itself or because it was notified.
Exits(p) ==
  /\ kernel[p] = "running"
  /\ ExitAlone \/ data[p].status = "NOTIFICATION_SENT"
  /\ kernel' = Killed(kernel, {p})
  /\ UNCHANGED <<data, sm, managerVars, eventVars, lock, place, launch, request, monitor, asked>>
=============================================================================
