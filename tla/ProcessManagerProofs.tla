------------------------ MODULE ProcessManagerProofs ------------------------
(***************************************************************************)
(* Theorems about pm, for any titles, dependencies, requests and number of *)
(* processes.  FollowInv: what is launched, asked for and referred to has  *)
(* a process, and the ends of processes are followed.  SoloInv: as long as *)
(* no debugger launches any, two applications never run.                   *)
(***************************************************************************)
EXTENDS ProcessManager, SetInduction, FiniteSetTheorems

-----------------------------------------------------------------------------
(* The shape of the state *)

\* The records of the state.
ProcessData ==
  [listed : BOOLEAN, title : Titles \cup {"none"}, launchFlags : SUBSET LaunchFlags,
   flags : SUBSET Flags, status : Statuses, refcount : Int]
LaunchData ==
  [title : Titles \cup {"none"}, flags : SUBSET LaunchFlags, process : Pids \cup {NULL},
   unique : SUBSET Sysmodules, procs : [Titles -> Pids \cup {NULL}],
   remrefcounts : [Titles -> Int], seen : SUBSET Sysmodules,
   dependency : Sysmodules \cup {"none"}]
RequestData == [kind : RequestKinds \cup {"none"}, pid : Pids \cup {NULL}, waits : BOOLEAN]
MonitorData ==
  [watched : SUBSET Pids, terminating : BOOLEAN, pid : Pids \cup {NULL}, flags : SUBSET Flags]

Launchers == {"service", "runner"}

\* The places of a launch between LaunchTitle and its end: on its way, at work,
\* and with its process loaded.
Midway == {"register", "merge", "merged", "dependencies", "run dependency",
           "flag dependency", "merge dependency"}
Loading == {"load"} \cup Midway
OnItsWay == {"launch title", "found", "post", "check"}
Places ==
  {"idle", "await", "rebuild", "signal", "wait", "clean dependencies", "clean"}
    \cup OnItsWay \cup Loading \cup TerminatingAt

\* What the variables are.
PmShape ==
  /\ data \in [Pids -> ProcessData]
  /\ kernel \in [Pids -> {"none", "created", "running", "dead"}]
  /\ sm \in [Pids -> {"none", "registered", "enabled"}]
  /\ runningApplicationData \in Pids \cup {NULL} /\ debugData \in Pids \cup {NULL}
  /\ newProcessEvent \in BOOLEAN
  /\ lock \in {"balanced", "unbalanced"} \cup Threads
  /\ place \in [Threads -> Places]
  /\ launch \in [Launchers -> LaunchData]
  /\ request \in [Launchers -> RequestData]
  /\ monitor \in MonitorData

\* What is launched, asked for or referred to has a title.
TitlesKnown ==
  /\ \A t \in Launchers : place[t] \in OnItsWay \cup Loading => launch[t].title \in Titles
  /\ \A t \in Launchers :
       place[t] \in {"run dependency", "flag dependency", "merge dependency"} =>
         launch[t].dependency \in Sysmodules
  /\ \A t \in Launchers : place[t] = "await" => request[t].pid # NULL
  /\ \A t \in Launchers : request[t].pid # NULL => kernel[request[t].pid] # "none"
  /\ runningApplicationData # NULL => kernel[runningApplicationData] # "none"
  /\ \A p \in Pids : kernel[p] # "none" => data[p].title \in Titles

\* Flags of processes whose end is reported.
Reported == {"NOTIFY_TERMINATION", "NOTIFY_TERMINATION_TERMINATED"}

\* A process that has not ended.
Alive(p) == kernel[p] \in {"created", "running"}

\* Pids are given out in order, and a pid that was not given out has no data.
PidsInOrder ==
  /\ \A p, q \in Pids : p < q /\ kernel[p] = "none" => kernel[q] = "none"
  /\ \A p \in Pids : kernel[p] = "none" => ~data[p].listed /\ data[p].flags \cap Reported = {}

\* The status says so only when a process has ended, and then its end is reported.
StatusTells ==
  \A p \in Listed : data[p].status = "TERMINATED" =>
    kernel[p] = "dead" /\ "NOTIFY_TERMINATION_TERMINATED" \in data[p].flags

\* The process of a launch.
LaunchedListed ==
  \A t \in Launchers : place[t] \in Midway =>
    LET p == launch[t].process
    IN  p \in Pids /\ kernel[p] # "none" /\ (kernel[p] = "created" => data[p].listed)

\* Only applications that the task runner launches may have their end
\* reported, so that none is younger than the one it is at.
ReportedByRunner ==
  /\ place["service"] = "launch title" /\ "NOTIFY_TERMINATION" \in launch["service"].flags =>
       /\ "NORMAL_APPLICATION" \in launch["service"].flags
       /\ "QUEUE_DEBUG_APPLICATION" \notin launch["service"].flags
  /\ place["service"] \in {"check"} \cup Loading =>
       "NOTIFY_TERMINATION" \notin launch["service"].flags
  /\ place["runner"] \in Midway =>
       \A q \in Pids : launch["runner"].process < q => data[q].flags \cap Reported = {}

\* Pointers refer to processes that are on the list, or that the monitor is
\* clearing away.
ManagersRefer ==
  /\ ApplicationListed
  /\ debugData # NULL /\ kernel[debugData] = "created" => data[debugData].listed
  /\ monitor.pid # NULL => /\ kernel[monitor.pid] = "dead"
                           /\ place["monitor"] \in {"clean dependencies", "clean"}

\* While the monitor waits, or is about to, it watches what is alive, or will
\* be woken to watch it.
MonitorKnows ==
  place["monitor"] \in {"signal", "wait"} =>
    \A p \in Listed : Alive(p) => p \in monitor.watched \/ newProcessEvent

\* The inductive invariant of the processes that are followed.
FollowInv ==
  /\ PmShape /\ TitlesKnown /\ PidsInOrder /\ StatusTells /\ LaunchedListed /\ ReportedByRunner
  /\ ManagersRefer /\ MonitorKnows

-----------------------------------------------------------------------------
(* The oldest of some processes *)

\* The process of the least pid is one of those it was chosen from.
LEMMA OldestOf ==
  ASSUME NEW ps \in SUBSET Pids, ps # {}
  PROVE  LET p == CHOOSE p \in ps : \A q \in ps : p =< q
         IN  p \in ps /\ \A q \in ps : p =< q
<1>1. ps \in SUBSET Nat
  BY PmAssumption DEF Pids
<1> QED
  BY <1>1, LeastElement

\* FindProcessByTitleId finds the oldest process of a title.
LEMMA FoundIsOldest ==
  ASSUME NEW title
  PROVE  LET p == FindProcessByTitleId(title)
         IN  \/ p = NULL /\ \A q \in Listed : data[q].title # title
             \/ /\ p \in Listed /\ data[p].title = title
                /\ \A q \in Listed : data[q].title = title => p =< q
<1> DEFINE found == {p \in Listed : data[p].title = title}
<1>1. found \in SUBSET Pids
  BY DEF Listed
<1> QED
  BY <1>1, OldestOf DEF FindProcessByTitleId

\* A process that is created gets the next pid.
LEMMA NextUnloaded ==
  ASSUME Unloaded # {}
  PROVE  LET p == NextDependency(Unloaded)
         IN  p \in Pids /\ kernel[p] = "none" /\ \A q \in Pids : q < p => kernel[q] # "none"
<1>1. Unloaded \in SUBSET Pids
  BY DEF Unloaded
<1>2. NextDependency(Unloaded) \in Unloaded
      /\ \A q \in Unloaded : NextDependency(Unloaded) =< q
  BY <1>1, OldestOf DEF NextDependency
<1>3. Pids \subseteq Int
  BY PmAssumption DEF Pids
<1> DEFINE p == NextDependency(Unloaded)
<1>4. ASSUME NEW q \in Pids, q < p
      PROVE  kernel[q] # "none"
  <2> HIDE DEF p
  <2>1. p \in Int /\ q \in Int
    BY <1>2, <1>3 DEF p, Unloaded
  <2>2. ~(p =< q)
    BY <1>4, <2>1
  <2> QED
    BY <1>2, <2>2 DEF p, Unloaded
<1> QED
  BY <1>2, <1>4 DEF Unloaded

-----------------------------------------------------------------------------
(* What happens to the data and to the processes *)

\* What most steps keep of the data.
Mild(d, e) ==
  /\ e \in [Pids -> ProcessData]
  /\ \A p \in Pids :
       /\ e[p].listed = d[p].listed /\ e[p].title = d[p].title
       /\ e[p].launchFlags = d[p].launchFlags
       /\ d[p].flags \cap Reported = {} => e[p].flags \cap Reported = {}
       /\ "NOTIFY_TERMINATION_TERMINATED" \in d[p].flags =>
            "NOTIFY_TERMINATION_TERMINATED" \in e[p].flags
       /\ e[p].status = "TERMINATED" => d[p].status = "TERMINATED"

\* No process becomes an application.
Plain(d, e) ==
  \A p \in Pids : "NORMAL_APPLICATION" \in e[p].flags => "NORMAL_APPLICATION" \in d[p].flags

\* Processes are run and end.
KernelGoesOn ==
  /\ kernel' \in [Pids -> {"none", "created", "running", "dead"}]
  /\ \A p \in Pids :
       \/ kernel'[p] = kernel[p]
       \/ Alive(p) /\ kernel'[p] = "dead"
       \/ kernel[p] = "created" /\ kernel'[p] = "running"

\* Clients that are told of an end change the data mildly.
LEMMA MildNotified ==
  ASSUME NEW d \in [Pids -> ProcessData], NEW ps
  PROVE  Mild(d, Notified(d, ps)) /\ Plain(d, Notified(d, ps))
<1> DEFINE e == Notified(d, ps)
<1>1. \A p \in Pids :
        \/ e[p] = d[p]
        \/ e[p] = [d[p] EXCEPT !.status = "NOTIFICATION_SENT"]
        \/ e[p] = [d[p] EXCEPT !.status = "NOTIFICATION_FAILED"]
  BY DEF Notified
<1>2. e = [p \in Pids |-> e[p]]
  BY DEF Notified
<1> HIDE DEF e
<1>3. ASSUME NEW p \in Pids
      PROVE  /\ e[p] \in ProcessData /\ e[p].flags = d[p].flags
             /\ e[p].listed = d[p].listed /\ e[p].title = d[p].title
             /\ e[p].launchFlags = d[p].launchFlags
             /\ e[p].status = "TERMINATED" => d[p].status = "TERMINATED"
  <2>1. d[p] \in ProcessData
    OBVIOUS
  <2>2. CASE e[p] = d[p]
    BY <2>1, <2>2
  <2>3. ASSUME NEW x \in {"NOTIFICATION_SENT", "NOTIFICATION_FAILED"},
               e[p] = [d[p] EXCEPT !.status = x]
        PROVE  /\ e[p] \in ProcessData /\ e[p].flags = d[p].flags
               /\ e[p].listed = d[p].listed /\ e[p].title = d[p].title
               /\ e[p].launchFlags = d[p].launchFlags
               /\ e[p].status = x
    BY <2>1, <2>3 DEF ProcessData, Statuses
  <2> QED
    BY <1>1, <2>2, <2>3
<1>4. e \in [Pids -> ProcessData]
  BY <1>2, <1>3
<1> QED
  BY <1>3, <1>4 DEF Mild, Plain, e

\* Two mild changes are one.
LEMMA MildTransitive ==
  ASSUME NEW d, NEW e, NEW f, Mild(d, e), Plain(d, e), Mild(e, f), Plain(e, f)
  PROVE  Mild(d, f) /\ Plain(d, f)
BY DEF Mild, Plain

\* The release of dependencies changes the data mildly.
LEMMA MildUnused ==
  ASSUME NEW d \in [Pids -> ProcessData], NEW titles
  PROVE  Mild(d, Unused(d, titles)) /\ Plain(d, Unused(d, titles))
<1> DEFINE counted == [p \in Pids |-> IF p \in InUse(d, titles)
                                         THEN [d[p] EXCEPT !.refcount = @ - 1] ELSE d[p]]
           ps == {p \in InUse(d, titles) : d[p].refcount - 1 =< 0}
<1>1. Mild(d, counted) /\ Plain(d, counted)
  BY DEF Mild, Plain, ProcessData
<1>2. Unused(d, titles) = Notified(counted, ps)
  BY DEF Unused
<1>3. counted \in [Pids -> ProcessData]
  BY <1>1 DEF Mild
<1> HIDE DEF counted, ps
<1> QED
  BY <1>1, <1>2, <1>3, MildNotified, MildTransitive

\* So does a termination that begins.
LEMMA MildTermination ==
  ASSUME NEW d \in [Pids -> ProcessData], NEW p \in Pids
  PROVE  Mild(d, terminateProcessImpl(d, p)) /\ Plain(d, terminateProcessImpl(d, p))
<1> DEFINE e == [d EXCEPT ![p].flags = @ \ {"DEPENDENCIES_LOADED"}]
           f == Notified(e, {p})
<1>1. Mild(d, e) /\ Plain(d, e) /\ e \in [Pids -> ProcessData]
  BY DEF Mild, Plain, ProcessData
<1> HIDE DEF e
<1>2. Mild(d, f) /\ Plain(d, f) /\ f \in [Pids -> ProcessData]
  <2>1. Mild(e, f) /\ Plain(e, f)
    BY <1>1, MildNotified
  <2>2. f \in [Pids -> ProcessData]
    BY <2>1 DEF Mild
  <2> HIDE DEF f
  <2> QED
    BY <1>1, <2>1, <2>2, MildTransitive
<1> HIDE DEF f
<1>3. Mild(d, Unused(f, Dependencies[d[p].title])) /\ Plain(d, Unused(f, Dependencies[d[p].title]))
  BY <1>2, MildUnused, MildTransitive
<1>4. Mild(d, d) /\ Plain(d, d)
  BY DEF Mild, Plain
<1> QED
  BY <1>3, <1>4, MildNotified DEF terminateProcessImpl, e, f

\* So does the listing of what is to be ended.
LEMMA MildPrepared ==
  ASSUME NEW d \in [Pids -> ProcessData], NEW t, Target(t) \in Pids
  PROVE  Mild(d, Prepared(d, t)) /\ Plain(d, Prepared(d, t))
BY DEF Mild, Plain, Prepared, ProcessData, Reported, Flags

\* So does a change of flags that keeps a report of the end.
LEMMA MildFlags ==
  ASSUME NEW d \in [Pids -> ProcessData], NEW p \in Pids, NEW fs \in SUBSET Flags,
         d[p].flags \cap Reported = {} => fs \cap Reported = {},
         "NOTIFY_TERMINATION_TERMINATED" \in d[p].flags => "NOTIFY_TERMINATION_TERMINATED" \in fs
  PROVE  Mild(d, [d EXCEPT ![p].flags = fs])
<1> DEFINE e == [d EXCEPT ![p].flags = fs]
<1>1. ASSUME NEW q \in Pids
      PROVE  e[q] = IF q = p THEN [d[q] EXCEPT !.flags = fs] ELSE d[q]
  OBVIOUS
<1>2. ASSUME NEW q \in Pids
      PROVE  /\ e[q] \in ProcessData
             /\ e[q].listed = d[q].listed /\ e[q].title = d[q].title
             /\ e[q].launchFlags = d[q].launchFlags /\ e[q].status = d[q].status
             /\ e[q].flags = IF q = p THEN fs ELSE d[q].flags
  BY <1>1 DEF ProcessData
<1>3. e \in [Pids -> ProcessData]
  BY <1>2
<1> HIDE DEF e
<1> QED
  BY <1>2, <1>3 DEF Mild, e

\* So does a change of reference counts.
LEMMA MildIncref ==
  ASSUME NEW d \in [Pids -> ProcessData], NEW p, NEW amount \in Int
  PROVE  Mild(d, Incref(d, p, amount)) /\ Plain(d, Incref(d, p, amount))
<1> DEFINE e == [d EXCEPT ![p].refcount = @ + amount]
<1>1. ASSUME NEW q \in Pids
      PROVE  e[q] \in ProcessData /\ (q = p => e[q] = [d[q] EXCEPT !.refcount = @ + amount])
             /\ (q # p => e[q] = d[q])
  BY DEF ProcessData
<1>2. e \in [Pids -> ProcessData]
  BY <1>1
<1>3. ASSUME NEW q \in Pids
      PROVE  /\ e[q].listed = d[q].listed /\ e[q].title = d[q].title /\ e[q].flags = d[q].flags
             /\ e[q].launchFlags = d[q].launchFlags /\ e[q].status = d[q].status
  BY <1>1 DEF ProcessData
<1> HIDE DEF e
<1> QED
  BY <1>2, <1>3 DEF Mild, Plain, Incref, e

-----------------------------------------------------------------------------
(* What follows for the processes *)

\* Processes that are killed have ended; the others go on.
LEMMA KilledGoesOn ==
  ASSUME kernel \in [Pids -> {"none", "created", "running", "dead"}],
         NEW ps, kernel' = Killed(kernel, ps)
  PROVE  KernelGoesOn
BY DEF KernelGoesOn, Killed, Alive

\* Where the data is mildly changed, the processes are still followed.
LEMMA GoesOnFollowed ==
  ASSUME FollowInv, Mild(data, data'), KernelGoesOn
  PROVE  /\ PidsInOrder' /\ StatusTells'
         /\ \A p \in Pids : data'[p].listed = data[p].listed /\ data'[p].title = data[p].title
         /\ \A p \in Pids : kernel[p] # "none" => kernel'[p] # "none"
         /\ \A p \in Pids : kernel'[p] = "created" => kernel[p] = "created"
         /\ UNCHANGED <<managerVars, monitor, place["monitor"]>> => ManagersRefer'
         /\ UNCHANGED <<monitor, newProcessEvent, place["monitor"]>> => MonitorKnows'
<1>1. \A p \in Pids : data'[p].listed = data[p].listed /\ data'[p].title = data[p].title
  BY DEF Mild
<1>2. \A p \in Pids :
        /\ kernel[p] # "none" => kernel'[p] # "none"
        /\ kernel'[p] # "none" => kernel[p] # "none"
        /\ kernel'[p] = "created" => kernel[p] = "created"
        /\ kernel[p] = "dead" => kernel'[p] = "dead"
        /\ kernel'[p] \in {"created", "running"} => kernel[p] \in {"created", "running"}
  BY DEF KernelGoesOn, Alive
<1>3. PidsInOrder'
  BY <1>2 DEF FollowInv, PidsInOrder, Mild
<1>4. StatusTells'
  BY <1>2 DEF FollowInv, StatusTells, Mild, Listed
<1>5. ASSUME UNCHANGED <<managerVars, monitor, place["monitor"]>>
      PROVE  ManagersRefer'
  <2>1. /\ runningApplicationData' = runningApplicationData /\ debugData' = debugData
        /\ monitor' = monitor /\ place'["monitor"] = place["monitor"]
    BY <1>5 DEF managerVars
  <2>2. /\ runningApplicationData \in Pids \cup {NULL} /\ debugData \in Pids \cup {NULL}
        /\ monitor.pid \in Pids \cup {NULL}
    BY DEF FollowInv, PmShape, MonitorData
  <2>3. ApplicationListed'
    BY <1>1, <2>1, <2>2 DEF FollowInv, ManagersRefer, ApplicationListed, Listed
  <2>4. debugData' # NULL /\ kernel'[debugData'] = "created" => data'[debugData'].listed
    BY <1>1, <1>2, <2>1, <2>2 DEF FollowInv, ManagersRefer
  <2>5. monitor'.pid # NULL => /\ kernel'[monitor'.pid] = "dead"
                              /\ place'["monitor"] \in {"clean dependencies", "clean"}
    BY <1>2, <2>1, <2>2 DEF FollowInv, ManagersRefer
  <2> QED
    BY <2>3, <2>4, <2>5 DEF ManagersRefer
<1>6. UNCHANGED <<monitor, newProcessEvent, place["monitor"]>> => MonitorKnows'
  BY <1>1, <1>2 DEF FollowInv, MonitorKnows, Listed, Alive
<1> QED
  BY <1>1, <1>2, <1>3, <1>4, <1>5, <1>6

-----------------------------------------------------------------------------
(* The steps of a thread that launches or terminates *)

\* A thread may be at a place with a launch.
MayBeAt(t, where, l) ==
  /\ where \in Places /\ l \in LaunchData
  /\ where \in OnItsWay \cup Loading => l.title \in Titles
  /\ where \in {"run dependency", "flag dependency", "merge dependency"} =>
       l.dependency \in Sysmodules
  /\ where \in Midway => place[t] \in Midway /\ l.process = launch[t].process
  /\ t = "service" /\ where = "launch title" /\ "NOTIFY_TERMINATION" \in l.flags =>
       "NORMAL_APPLICATION" \in l.flags /\ "QUEUE_DEBUG_APPLICATION" \notin l.flags
  /\ t = "service" /\ where \in {"check"} \cup Loading => "NOTIFY_TERMINATION" \notin l.flags

\* A step of a thread that keeps what the processes are followed by.
LEMMA ThreadStep ==
  ASSUME FollowInv, Mild(data, data'), KernelGoesOn,
         NEW t \in Launchers, NEW where, NEW l, MayBeAt(t, where, l),
         Goto(t, where), launch' = [launch EXCEPT ![t] = l],
         request' \in [Launchers -> RequestData],
         \A u \in Launchers : request'[u].pid # NULL => kernel[request'[u].pid] # "none",
         \A u \in Launchers : place'[u] = "await" => request'[u].pid # NULL,
         sm' \in [Pids -> {"none", "registered", "enabled"}],
         lock' \in {"balanced", "unbalanced"} \cup Threads,
         UNCHANGED <<managerVars, newProcessEvent, monitor>>
  PROVE  FollowInv'
<1>1. /\ place' \in [Threads -> Places] /\ launch' \in [Launchers -> LaunchData]
      /\ place'[t] = where /\ launch'[t] = l /\ place'["monitor"] = place["monitor"]
      /\ \A u \in Launchers : u # t => place'[u] = place[u] /\ launch'[u] = launch[u]
  BY DEF FollowInv, PmShape, Goto, MayBeAt, Launchers, Threads
<1>2. PmShape'
  BY <1>1 DEF FollowInv, PmShape, Mild, KernelGoesOn, managerVars
<1>3. /\ PidsInOrder' /\ StatusTells' /\ ManagersRefer' /\ MonitorKnows'
      /\ \A p \in Pids : data'[p].listed = data[p].listed /\ data'[p].title = data[p].title
      /\ \A p \in Pids : kernel[p] # "none" => kernel'[p] # "none"
      /\ \A p \in Pids : kernel'[p] = "created" => kernel[p] = "created"
  BY <1>1, GoesOnFollowed
<1>4. TitlesKnown'
  <2>1. \A u \in Launchers : place'[u] \in OnItsWay \cup Loading => launch'[u].title \in Titles
    BY <1>1 DEF FollowInv, TitlesKnown, MayBeAt
  <2>2. \A u \in Launchers :
          place'[u] \in {"run dependency", "flag dependency", "merge dependency"} =>
            launch'[u].dependency \in Sysmodules
    BY <1>1 DEF FollowInv, TitlesKnown, MayBeAt
  <2>3. \A u \in Launchers : request'[u].pid # NULL => kernel'[request'[u].pid] # "none"
    BY <1>3 DEF RequestData
  <2>4. runningApplicationData' # NULL => kernel'[runningApplicationData'] # "none"
    BY <1>3 DEF FollowInv, PmShape, TitlesKnown, managerVars
  <2>5. \A p \in Pids : kernel'[p] # "none" => data'[p].title \in Titles
    BY <1>3 DEF FollowInv, TitlesKnown, KernelGoesOn, Alive
  <2> QED
    BY <2>1, <2>2, <2>3, <2>4, <2>5 DEF TitlesKnown
<1>5. LaunchedListed'
  <2>1. ASSUME NEW u \in Launchers, place'[u] \in Midway
        PROVE  place[u] \in Midway /\ launch'[u].process = launch[u].process
    BY <1>1, <2>1 DEF MayBeAt
  <2> QED
    BY <1>3, <2>1 DEF FollowInv, LaunchedListed
<1>6. ReportedByRunner'
  <2>1. "service" \in Launchers /\ "runner" \in Launchers
    BY DEF Launchers
  <2>2. \A q \in Pids : data[q].flags \cap Reported = {} => data'[q].flags \cap Reported = {}
    BY DEF Mild
  <2>3. CASE t = "service"
    BY <1>1, <2>1, <2>2, <2>3 DEF FollowInv, ReportedByRunner, MayBeAt
  <2>4. CASE t = "runner"
    BY <1>1, <2>1, <2>2, <2>4 DEF FollowInv, ReportedByRunner, MayBeAt
  <2> QED
    BY <2>3, <2>4 DEF Launchers
<1> QED
  BY <1>2, <1>3, <1>4, <1>5, <1>6 DEF FollowInv

\* What does not change is mildly changed.
LEMMA MildSame == ASSUME FollowInv PROVE Mild(data, data) /\ Plain(data, data)
  BY DEF FollowInv, PmShape, Mild, Plain

\* The processes that stay go on.
LEMMA KernelSame == ASSUME FollowInv, kernel' = kernel PROVE KernelGoesOn
  BY DEF FollowInv, PmShape, KernelGoesOn

\* The lock is taken and given back by threads.
LEMMA LocksTyped ==
  ASSUME FollowInv, NEW t \in Threads, Locks(t) \/ UnlocksTooMuch \/ UNCHANGED lock
  PROVE  lock' \in {"balanced", "unbalanced"} \cup Threads
BY DEF FollowInv, PmShape, Locks, UnlocksTooMuch

\* The same for a step that leaves the requests alone.
LEMMA LaunchStep ==
  ASSUME FollowInv, Mild(data, data'), KernelGoesOn,
         NEW t \in Launchers, NEW where, NEW l, MayBeAt(t, where, l), where # "await",
         Goto(t, where), launch' = [launch EXCEPT ![t] = l],
         sm' \in [Pids -> {"none", "registered", "enabled"}],
         Locks(t) \/ UnlocksTooMuch \/ UNCHANGED lock,
         UNCHANGED <<managerVars, newProcessEvent, request, monitor>>
  PROVE  FollowInv'
<1>1. t \in Threads
  BY DEF Launchers, Threads
<1>2. /\ request' \in [Launchers -> RequestData]
      /\ \A u \in Launchers : request'[u].pid # NULL => kernel[request'[u].pid] # "none"
  BY DEF FollowInv, PmShape, TitlesKnown
<1>3. \A u \in Launchers : place'[u] = "await" => request'[u].pid # NULL
  BY <1>1 DEF FollowInv, PmShape, TitlesKnown, Goto, Launchers, Threads
<1> QED
  BY <1>1, <1>2, <1>3, LocksTyped, ThreadStep

-----------------------------------------------------------------------------
(* launch.c *)

\* A thread that launches nothing.
LEMMA NoLaunchTyped == NoLaunch \in LaunchData
  BY DEF NoLaunch, LaunchData, LaunchFlags

\* A thread whose launch has come to an end, or not begun.
LEMMA IdleMayBe ==
  ASSUME NEW t \in Launchers
  PROVE  MayBeAt(t, "idle", NoLaunch)
  BY NoLaunchTyped DEF MayBeAt, Places, OnItsWay, Loading, Midway

\* Where a launch goes.
Goes(t, where, l) ==
  /\ Goto(t, where) /\ launch' = [launch EXCEPT ![t] = l]
  /\ where # "idle" => l.title = launch[t].title /\ l.flags = launch[t].flags
  /\ where = "idle" => l = NoLaunch

\* Where LaunchTitle leads.
LEMMA LaunchTitleGoes ==
  ASSUME FollowInv, NEW t \in Launchers, LaunchTitle(t)
  PROVE  \E where \in {"idle", "found", "post", "check"}, l \in LaunchData :
           /\ Goes(t, where, l) /\ place[t] = "launch title"
           /\ where = "check" /\ t = "service" =>
                \/ "NORMAL_APPLICATION" \notin launch[t].flags
                \/ "QUEUE_DEBUG_APPLICATION" \in launch[t].flags
<1> DEFINE found == FindProcessByTitleId(launch[t].title)
           where == place'[t]
           l == IF where = "idle" THEN NoLaunch ELSE [launch[t] EXCEPT !.process = found]
<1>1. found \in Pids \cup {NULL}
  BY FoundIsOldest DEF Listed
<1>2. launch[t] \in LaunchData /\ place[t] = "launch title" /\ t \in Threads
  BY DEF FollowInv, PmShape, LaunchTitle, Launchers, Threads
<1>3. /\ where \in {"idle", "found", "post", "check"} /\ Goto(t, where)
      /\ where = "check" /\ t = "service" =>
           \/ "NORMAL_APPLICATION" \notin launch[t].flags
           \/ "QUEUE_DEBUG_APPLICATION" \in launch[t].flags
  <2>1. place \in [Threads -> Places]
    BY DEF FollowInv, PmShape
  <2> DEFINE asynchronous == /\ t = "service" /\ "NORMAL_APPLICATION" \in launch[t].flags
                             /\ "QUEUE_DEBUG_APPLICATION" \notin launch[t].flags
             w == IF runningApplicationData # NULL /\ "NORMAL_APPLICATION" \in launch[t].flags
                    THEN "idle"
                  ELSE IF found # NULL THEN "found"
                  ELSE IF asynchronous THEN "post" ELSE "check"
  <2>2. Goto(t, w)
    BY DEF LaunchTitle
  <2>3. w \in {"idle", "found", "post", "check"} /\ (w = "check" => ~asynchronous)
    <3> HIDE DEF asynchronous, found
    <3> QED
      OBVIOUS
  <2> HIDE DEF w
  <2> QED
    BY <1>2, <2>1, <2>2, <2>3 DEF Goto
<1>4. launch' = [launch EXCEPT ![t] = l]
  BY <1>2, <1>3 DEF LaunchTitle, Forgotten
<1>5. l \in LaunchData /\ (where # "idle" => l.title = launch[t].title /\ l.flags = launch[t].flags)
  BY <1>1, <1>2, NoLaunchTyped DEF LaunchData
<1>6. where = "idle" => l = NoLaunch
  OBVIOUS
<1> HIDE DEF l, found
<1> QED
  BY <1>2, <1>3, <1>4, <1>5, <1>6 DEF Goes

\* LaunchTitle keeps the invariant.
LEMMA LaunchTitleStep ==
  ASSUME FollowInv, NEW t \in Launchers, LaunchTitle(t)
  PROVE  FollowInv'
<1>1. PICK where \in {"idle", "found", "post", "check"}, l \in LaunchData :
        /\ Goes(t, where, l) /\ place[t] = "launch title"
        /\ where = "check" /\ t = "service" =>
             \/ "NORMAL_APPLICATION" \notin launch[t].flags
             \/ "QUEUE_DEBUG_APPLICATION" \in launch[t].flags
  BY LaunchTitleGoes
<1>2. MayBeAt(t, where, l)
  BY <1>1
  DEF Goes, MayBeAt, FollowInv, TitlesKnown, ReportedByRunner, Places, OnItsWay, Loading, Midway
<1>3. UNCHANGED <<data, kernel, sm, managerVars, newProcessEvent, request, monitor>> /\ Locks(t)
  BY DEF LaunchTitle, processVars, managerVars, otherVars
<1>4. where # "await"
  OBVIOUS
<1> QED
  BY <1>1, <1>2, <1>3, <1>4, MildSame, KernelSame, LaunchStep DEF Goes, FollowInv, PmShape

\* A process that is found for a title gets the flags of the launch.
LEMMA FoundProcessMild ==
  ASSUME FollowInv, NEW t \in Launchers, FoundProcess(t)
  PROVE  Mild(data, data') /\ Plain(data, data')
<1> DEFINE p == launch[t].process
           e == [data EXCEPT ![p].flags = data[p].flags \ {"AUTOLOADED"}]
<1>1. data \in [Pids -> ProcessData] /\ data' = e
  BY DEF FoundProcess, FollowInv, PmShape
<1>2. CASE p \in Pids
  <2>1. data[p].flags \in SUBSET Flags
    BY <1>1, <1>2 DEF ProcessData
  <2>2. Mild(data, e)
    BY <1>1, <1>2, <2>1, MildFlags DEF Reported
  <2>3. Plain(data, e)
    BY <1>1, <1>2 DEF Plain, ProcessData
  <2> QED
    BY <1>1, <2>2, <2>3
<1>3. CASE p \notin Pids
  BY <1>1, <1>3, MildSame
<1> QED
  BY <1>2, <1>3

\* A launch of a title that runs already.
LEMMA FoundProcessStep ==
  ASSUME FollowInv, NEW t \in Launchers, FoundProcess(t)
  PROVE  FollowInv'
BY FoundProcessMild, KernelSame, IdleMayBe, LaunchStep
DEF FoundProcess, Forgotten, FollowInv, PmShape, otherVars, managerVars

\* Where the check for an application that runs leads.
LEMMA CheckGoes ==
  ASSUME FollowInv, NEW t \in Launchers, Check(t)
  PROVE  \E where \in {"idle", "load"}, l \in LaunchData :
           /\ Goes(t, where, l) /\ place[t] = "check"
           /\ where = "load" /\ "NORMAL_APPLICATION" \in launch[t].flags =>
                runningApplicationData = NULL
<1> DEFINE where == place'[t]
           l == IF where = "idle" THEN NoLaunch ELSE [launch[t] EXCEPT !.process = NULL]
<1>1. launch[t] \in LaunchData /\ place[t] = "check" /\ t \in Threads
  BY DEF FollowInv, PmShape, Check, Launchers, Threads
<1>2. /\ where \in {"idle", "load"} /\ Goto(t, where)
      /\ where = "load" /\ "NORMAL_APPLICATION" \in launch[t].flags =>
           runningApplicationData = NULL
  <2>1. place \in [Threads -> Places]
    BY DEF FollowInv, PmShape
  <2> QED
    BY <1>1, <2>1 DEF Check, Goto
<1>3. launch' = [launch EXCEPT ![t] = l]
  BY <1>1, <1>2 DEF Check, Forgotten
<1>4. l \in LaunchData /\ (where # "idle" => l.title = launch[t].title /\ l.flags = launch[t].flags)
  BY <1>1, NoLaunchTyped DEF LaunchData
<1>5. where = "idle" => l = NoLaunch
  OBVIOUS
<1> HIDE DEF l
<1> QED
  BY <1>1, <1>2, <1>3, <1>4, <1>5 DEF Goes

\* The check for an application that runs.
LEMMA CheckStep ==
  ASSUME FollowInv, NEW t \in Launchers, Check(t)
  PROVE  FollowInv'
<1>1. PICK where \in {"idle", "load"}, l \in LaunchData :
        /\ Goes(t, where, l) /\ place[t] = "check"
        /\ where = "load" /\ "NORMAL_APPLICATION" \in launch[t].flags =>
             runningApplicationData = NULL
  BY CheckGoes
<1>2. MayBeAt(t, where, l)
  BY <1>1
  DEF Goes, MayBeAt, FollowInv, TitlesKnown, ReportedByRunner, Places, OnItsWay, Loading, Midway
<1>3. UNCHANGED <<data, kernel, sm, managerVars, newProcessEvent, request, monitor>> /\ Locks(t)
  BY DEF Check, processVars, managerVars, otherVars
<1>4. where # "await"
  OBVIOUS
<1> QED
  BY <1>1, <1>2, <1>3, <1>4, MildSame, KernelSame, LaunchStep DEF Goes, FollowInv, PmShape

\* At work on a process, a thread stays at work on it.
LEMMA MidwayMayBe ==
  ASSUME FollowInv, NEW t \in Launchers, place[t] \in Midway,
         NEW where \in Midway, NEW l \in LaunchData,
         l.title = launch[t].title, l.process = launch[t].process, l.flags = launch[t].flags,
         where \in {"run dependency", "flag dependency", "merge dependency"} =>
           l.dependency \in Sysmodules
  PROVE  MayBeAt(t, where, l)
<1>1. where \in Places /\ where \notin OnItsWay
  BY DEF Midway, OnItsWay, Places, Loading
<1> QED
  BY <1>1 DEF MayBeAt, FollowInv, TitlesKnown, ReportedByRunner, Loading, OnItsWay, Midway

\* A launch that loader refuses.
LEMMA FailsToLoadStep ==
  ASSUME FollowInv, NEW t \in Launchers, FailsToLoad(t)
  PROVE  FollowInv'
<1>1. UNCHANGED <<data, kernel, sm, managerVars, newProcessEvent, request, monitor>>
      /\ (UnlocksTooMuch \/ UNCHANGED lock)
  BY DEF FailsToLoad, processVars, managerVars, otherVars
<1>2. CASE place[t] = "load" /\ Goto(t, "idle") /\ launch' = Forgotten(t)
  BY <1>1, <1>2, IdleMayBe, MildSame, KernelSame, LaunchStep DEF Forgotten, FollowInv, PmShape
<1>3. ASSUME place[t] = "dependencies", NEW d \in Todo(t),
             launch' = [launch EXCEPT ![t].seen = @ \cup {d}], UNCHANGED place
      PROVE  FollowInv'
  <2> DEFINE l == [launch[t] EXCEPT !.seen = @ \cup {d}]
  <2>1. launch[t] \in LaunchData /\ launch' = [launch EXCEPT ![t] = l]
    BY <1>3 DEF FollowInv, PmShape
  <2>2. d \in Sysmodules
    BY <2>1 DEF Todo, LaunchData
  <2>3. /\ l \in LaunchData /\ l.title = launch[t].title /\ l.process = launch[t].process
        /\ l.flags = launch[t].flags
    BY <2>1, <2>2 DEF LaunchData
  <2> HIDE DEF l
  <2>4. MayBeAt(t, "dependencies", l)
    BY <1>3, <2>3, MidwayMayBe DEF Midway
  <2>5. Goto(t, "dependencies")
    BY <1>3 DEF Goto, FollowInv, PmShape
  <2> QED
    BY <1>1, <2>1, <2>4, <2>5, MildSame, KernelSame, LaunchStep DEF FollowInv, PmShape
<1> QED
  BY <1>2, <1>3 DEF FailsToLoad

\* The process is registered with fs and sm.
LEMMA RegisterStep ==
  ASSUME FollowInv, NEW t \in Launchers, Register(t)
  PROVE  FollowInv'
<1> DEFINE p == launch[t].process
           where == IF {"LOAD_DEPENDENCIES", "NORMAL_APPLICATION"} \cap launch[t].flags # {}
                      THEN "merge" ELSE "dependencies"
<1>1. /\ launch[t] \in LaunchData /\ place[t] = "register"
      /\ launch' = [launch EXCEPT ![t] = launch[t]] /\ Goto(t, where)
  BY DEF FollowInv, PmShape, Register
<1>2. MayBeAt(t, where, launch[t])
  BY <1>1, MidwayMayBe DEF Midway
<1>3. Mild(data, data')
  <2>1. /\ data \in [Pids -> ProcessData] /\ p \in Pids
        /\ data' = [data EXCEPT ![p].flags =
                      data[p].flags \cup (launch[t].flags \cap {"NORMAL_APPLICATION"})]
    BY <1>1 DEF Register, FollowInv, PmShape, LaunchedListed, Midway
  <2>2. data[p].flags \in SUBSET Flags
    BY <2>1 DEF ProcessData
  <2> HIDE DEF p
  <2> QED
    BY <2>1, <2>2, MildFlags DEF Reported, Flags
<1>4. sm' \in [Pids -> {"none", "registered", "enabled"}]
  BY DEF Register, FollowInv, PmShape
<1>5. UNCHANGED <<kernel, managerVars, newProcessEvent, request, monitor, lock>>
  BY DEF Register, managerVars, otherVars
<1> HIDE DEF where
<1>6. where # "await"
  BY DEF where
<1> QED
  BY <1>1, <1>2, <1>3, <1>4, <1>5, <1>6, KernelSame, LaunchStep

\* Which processes are found for the dependencies of a title.
LEMMA MergesKeeps ==
  ASSUME FollowInv, NEW t \in Launchers, NEW title \in Titles, Merges(t, title)
  PROVE  /\ Mild(data, data') /\ Plain(data, data')
         /\ \E l \in LaunchData :
              /\ launch' = [launch EXCEPT ![t] = l]
              /\ l.title = launch[t].title /\ l.process = launch[t].process
              /\ l.flags = launch[t].flags /\ l.dependency = launch[t].dependency
<1> DEFINE deps == Dependencies[title]
           found == [d \in Titles |-> IF d \in deps \ launch[t].unique
                                        THEN FindProcessByTitleId(d) ELSE launch[t].procs[d]]
           remaining == [d \in Titles |-> launch[t].remrefcounts[d]
                                            + (IF d \in deps /\ found[d] = NULL THEN 1 ELSE 0)]
           l == [launch[t] EXCEPT !.unique = @ \cup deps, !.procs = found,
                                  !.remrefcounts = remaining]
<1>1. launch \in [Launchers -> LaunchData] /\ data \in [Pids -> ProcessData]
      /\ launch[t] \in LaunchData
  BY DEF FollowInv, PmShape
<1>2. deps \in SUBSET Sysmodules
  BY PmAssumption DEF Range
<1>3. found \in [Titles -> Pids \cup {NULL}]
  BY <1>1, FoundIsOldest DEF Listed, LaunchData
<1>4. remaining \in [Titles -> Int]
  <2> HIDE DEF found, deps
  <2> QED
    BY <1>1 DEF LaunchData
<1>5. /\ data' = [p \in Pids |-> IF \E d \in deps : found[d] = p
                                   THEN Incref(data, p, 1)[p] ELSE data[p]]
      /\ launch' = [launch EXCEPT ![t] = l]
  BY <1>1 DEF Merges
<1> HIDE DEF found, remaining, deps
<1>6. l \in LaunchData /\ l.title = launch[t].title /\ l.process = launch[t].process
      /\ l.flags = launch[t].flags /\ l.dependency = launch[t].dependency
  BY <1>1, <1>2, <1>3, <1>4 DEF LaunchData
<1>7. ASSUME NEW p \in Pids
      PROVE  Mild(data, Incref(data, p, 1)) /\ Plain(data, Incref(data, p, 1))
  BY <1>1, MildIncref
<1>8. Mild(data, data') /\ Plain(data, data')
  <2>1. ASSUME NEW p \in Pids
        PROVE  /\ data'[p] \in ProcessData
               /\ data'[p].listed = data[p].listed /\ data'[p].title = data[p].title
               /\ data'[p].launchFlags = data[p].launchFlags
               /\ data[p].flags \cap Reported = {} => data'[p].flags \cap Reported = {}
               /\ "NOTIFY_TERMINATION_TERMINATED" \in data[p].flags =>
                    "NOTIFY_TERMINATION_TERMINATED" \in data'[p].flags
               /\ data'[p].status = "TERMINATED" => data[p].status = "TERMINATED"
               /\ "NORMAL_APPLICATION" \in data'[p].flags => "NORMAL_APPLICATION" \in data[p].flags
    <3> DEFINE e == Incref(data, p, 1)
    <3>1. data'[p] = data[p] \/ data'[p] = e[p]
      BY <1>5
    <3>2. Mild(data, e) /\ Plain(data, e)
      BY <1>7
    <3>3. data[p] \in ProcessData
      BY <1>1
    <3> HIDE DEF e
    <3>4. CASE data'[p] = data[p]
      BY <3>3, <3>4
    <3>5. CASE data'[p] = e[p]
      BY <3>2, <3>5 DEF Mild, Plain
    <3> QED
      BY <3>1, <3>4, <3>5
  <2>2. data' \in [Pids -> ProcessData]
    BY <1>5, <2>1
  <2>3. Mild(data, data')
    BY <2>1, <2>2 DEF Mild
  <2>4. Plain(data, data')
    BY <2>1 DEF Plain
  <2> QED
    BY <2>3, <2>4
<1> QED
  BY <1>5, <1>6, <1>8

\* The dependencies of a process are merged into its own.
LEMMA MergeStep ==
  ASSUME FollowInv, NEW t \in Launchers, Merge(t)
  PROVE  FollowInv'
<1>1. UNCHANGED <<kernel, sm, managerVars, newProcessEvent, request, monitor>> /\ Locks(t)
  BY DEF Merge, managerVars, otherVars
<1>2. CASE place[t] = "merge" /\ Merges(t, launch[t].title) /\ Goto(t, "merged")
  <2>1. launch[t].title \in Titles
    BY <1>2 DEF FollowInv, TitlesKnown, Loading, Midway
  <2>2. PICK l \in LaunchData :
          /\ launch' = [launch EXCEPT ![t] = l]
          /\ l.title = launch[t].title /\ l.process = launch[t].process
          /\ l.flags = launch[t].flags /\ l.dependency = launch[t].dependency
    BY <1>2, <2>1, MergesKeeps
  <2>3. MayBeAt(t, "merged", l)
    BY <1>2, <2>2, MidwayMayBe DEF Midway
  <2> QED
    BY <1>1, <1>2, <2>1, <2>2, <2>3, MergesKeeps, KernelSame, LaunchStep DEF FollowInv, PmShape
<1>3. CASE place[t] = "merge dependency" /\ Merges(t, launch[t].dependency) /\ Goto(t, "dependencies")
  <2>1. launch[t].dependency \in Titles
    BY <1>3 DEF FollowInv, TitlesKnown, Titles
  <2>2. PICK l \in LaunchData :
          /\ launch' = [launch EXCEPT ![t] = l]
          /\ l.title = launch[t].title /\ l.process = launch[t].process
          /\ l.flags = launch[t].flags /\ l.dependency = launch[t].dependency
    BY <1>3, <2>1, MergesKeeps
  <2>3. MayBeAt(t, "dependencies", l)
    BY <1>3, <2>2, MidwayMayBe DEF Midway
  <2> QED
    BY <1>1, <1>3, <2>1, <2>2, <2>3, MergesKeeps, KernelSame, LaunchStep DEF FollowInv, PmShape
<1> QED
  BY <1>2, <1>3 DEF Merge

\* Dependencies that are found are counted once more.
LEMMA MergedMild ==
  ASSUME FollowInv, NEW t \in Launchers, Merged(t)
  PROVE  Mild(data, data') /\ Plain(data, data')
<1> DEFINE p == launch[t].process
           fs == data[p].flags \cup {"DEPENDENCIES_LOADED"}
<1>1. /\ data \in [Pids -> ProcessData] /\ p \in Pids
      /\ data' = data \/ data' = [data EXCEPT ![p].flags = fs]
  BY DEF Merged, FollowInv, PmShape, LaunchedListed, Midway
<1>2. fs \in SUBSET Flags
  BY <1>1 DEF ProcessData, Flags
<1>3. Mild(data, [data EXCEPT ![p].flags = fs])
  BY <1>1, <1>2, MildFlags DEF Reported
<1>4. Plain(data, [data EXCEPT ![p].flags = fs])
  BY <1>1 DEF Plain, ProcessData
<1> QED
  BY <1>1, <1>3, <1>4, MildSame

\* The launch goes on with the dependencies that are left.
LEMMA MergedStep ==
  ASSUME FollowInv, NEW t \in Launchers, Merged(t)
  PROVE  FollowInv'
<1> DEFINE l == launch'[t]
<1>1. launch[t] \in LaunchData /\ place[t] = "merged" /\ launch' = [launch EXCEPT ![t] = l]
      /\ (l = launch[t] \/ l = [launch[t] EXCEPT !.unique = {}])
  BY DEF FollowInv, PmShape, Merged
<1> HIDE DEF l
<1>2. /\ l \in LaunchData /\ l.title = launch[t].title /\ l.process = launch[t].process
      /\ l.flags = launch[t].flags
  BY <1>1 DEF LaunchData
<1>3. MayBeAt(t, "dependencies", l)
  BY <1>1, <1>2, MidwayMayBe DEF Midway
<1>4. UNCHANGED <<kernel, sm, managerVars, newProcessEvent, request, monitor, lock>>
      /\ Goto(t, "dependencies")
  BY DEF Merged, managerVars, otherVars
<1> QED
  BY <1>1, <1>3, <1>4, MergedMild, KernelSame, LaunchStep DEF FollowInv, PmShape

\* A dependency that was loaded is run.
LEMMA RunDependencyStep ==
  ASSUME FollowInv, NEW t \in Launchers, RunDependency(t)
  PROVE  FollowInv'
<1> DEFINE p == launch[t].procs[launch[t].dependency]
<1>1. /\ launch[t] \in LaunchData /\ place[t] = "run dependency"
      /\ launch[t].dependency \in Sysmodules
      /\ UNCHANGED <<data, managerVars, newProcessEvent, request, monitor>>
  BY DEF FollowInv, PmShape, TitlesKnown, RunDependency, managerVars, otherVars
<1>2. sm' \in [Pids -> {"none", "registered", "enabled"}]
  BY DEF FollowInv, PmShape, RunDependency
<1>3. CASE kernel[p] = "created"
  <2>1. /\ Locks(t) /\ Goto(t, "flag dependency") /\ launch' = [launch EXCEPT ![t] = launch[t]]
        /\ kernel' = [kernel EXCEPT ![p] = "running"]
    BY <1>3 DEF RunDependency, FollowInv, PmShape
  <2>2. KernelGoesOn
    BY <1>3, <2>1 DEF KernelGoesOn, FollowInv, PmShape
  <2>3. MayBeAt(t, "flag dependency", launch[t])
    BY <1>1, MidwayMayBe DEF Midway
  <2> QED
    BY <1>1, <1>2, <2>1, <2>2, <2>3, MildSame, LaunchStep
<1>4. CASE kernel[p] # "created"
  <2>1. /\ UnlocksTooMuch /\ Goto(t, "idle") /\ launch' = Forgotten(t)
        /\ kernel' = Killed(kernel, {launch[t].process})
    BY <1>4 DEF RunDependency
  <2>2. KernelGoesOn
    BY <2>1, KilledGoesOn DEF FollowInv, PmShape
  <2> QED
    BY <1>1, <1>2, <2>1, <2>2, MildSame, IdleMayBe, LaunchStep DEF Forgotten
<1> QED
  BY <1>3, <1>4

\* A function whose value changes at a point.
LEMMA Changed ==
  ASSUME NEW S, NEW V, NEW f \in [S -> V], NEW x, NEW v \in V
  PROVE  [f EXCEPT ![x] = v] \in [S -> V]
OBVIOUS

\* A dependency gets its references.
LEMMA FlagDependencyMild ==
  ASSUME FollowInv, NEW t \in Launchers, FlagDependency(t)
  PROVE  Mild(data, data') /\ Plain(data, data')
<1> DEFINE d == launch[t].dependency
           p == launch[t].procs[d]
           flagged == [data EXCEPT ![p].flags = data[p].flags \cup {"AUTOLOADED", "DEPENDENCIES_LOADED"}]
           amount == launch[t].remrefcounts[d] - 1
<1>1. /\ launch[t] \in LaunchData /\ d \in Titles
      /\ data \in [Pids -> ProcessData]
      /\ data' = Incref(flagged, p, amount)
  BY DEF FollowInv, PmShape, TitlesKnown, FlagDependency, Titles
<1>2. amount \in Int
  <2>1. launch[t].remrefcounts \in [Titles -> Int]
    BY <1>1 DEF LaunchData
  <2> HIDE DEF d
  <2>2. launch[t].remrefcounts[d] \in Int
    BY <1>1, <2>1
  <2> QED
    BY <2>2
<1> HIDE DEF amount
<1>3. Mild(data, flagged) /\ Plain(data, flagged)
  <2>1. CASE p \in Pids
    <3>1. data[p].flags \cup {"AUTOLOADED", "DEPENDENCIES_LOADED"} \in SUBSET Flags
      BY <1>1, <2>1 DEF ProcessData, Flags
    <3>2. Mild(data, flagged)
      BY <1>1, <2>1, <3>1, MildFlags DEF Reported
    <3>3. Plain(data, flagged)
      BY <1>1, <2>1 DEF Plain, ProcessData
    <3> QED
      BY <3>2, <3>3
  <2>2. CASE p \notin Pids
    <3>1. flagged = data
      BY <1>1, <2>2
    <3> QED
      BY <3>1, MildSame
  <2> QED
    BY <2>1, <2>2
<1> HIDE DEF flagged
<1>4. flagged \in [Pids -> ProcessData]
  BY <1>3 DEF Mild
<1>5. Mild(flagged, data') /\ Plain(flagged, data')
  BY <1>1, <1>2, <1>4, MildIncref
<1> QED
  BY <1>3, <1>5, MildTransitive

\* A dependency is in use: the launch goes on with the next.
LEMMA FlagDependencyStep ==
  ASSUME FollowInv, NEW t \in Launchers, FlagDependency(t)
  PROVE  FollowInv'
<1> DEFINE d == launch[t].dependency
           l == [launch[t] EXCEPT !.remrefcounts = [launch[t].remrefcounts EXCEPT ![d] = 0]]
<1>1. launch[t] \in LaunchData /\ place[t] = "flag dependency" /\ launch' = [launch EXCEPT ![t] = l]
      /\ d \in Sysmodules
  BY DEF FollowInv, PmShape, FlagDependency, TitlesKnown
<1>2. /\ l \in LaunchData /\ l.title = launch[t].title /\ l.process = launch[t].process
      /\ l.flags = launch[t].flags /\ l.dependency = d
  <2> DEFINE counts == [launch[t].remrefcounts EXCEPT ![d] = 0]
  <2>1. counts \in [Titles -> Int]
    <3>1. launch[t].remrefcounts \in [Titles -> Int]
      BY <1>1 DEF LaunchData
    <3>2. 0 \in Int
      OBVIOUS
    <3> QED
      BY <3>1, <3>2, Changed
  <2> HIDE DEF counts
  <2>2. l = [launch[t] EXCEPT !.remrefcounts = counts]
    BY DEF counts
  <2> HIDE DEF l
  <2> QED
    BY <1>1, <2>1, <2>2 DEF LaunchData
<1> HIDE DEF l, d
<1>3. MayBeAt(t, "merge dependency", l)
  BY <1>1, <1>2, MidwayMayBe DEF Midway
<1>4. UNCHANGED <<kernel, sm, managerVars, newProcessEvent, request, monitor, lock>>
      /\ Goto(t, "merge dependency")
  BY DEF FlagDependency, managerVars, otherVars
<1> QED
  BY <1>1, <1>3, <1>4, FlagDependencyMild, KernelSame, LaunchStep DEF FollowInv, PmShape
-----------------------------------------------------------------------------
(* The requests for a launch, and its hand-over *)

\* The client is answered.
LEMMA PostLaunchStep ==
  ASSUME FollowInv, PostLaunch
  PROVE  FollowInv'
<1> DEFINE l == [launch["service"] EXCEPT !.process = NULL]
<1>1. /\ place \in [Threads -> Places] /\ launch \in [Launchers -> LaunchData]
      /\ place["service"] = "post" /\ place["runner"] = "idle"
      /\ place' = [place EXCEPT !["service"] = "idle", !["runner"] = "check"]
      /\ launch' = [launch EXCEPT !["runner"] = l, !["service"] = NoLaunch]
  BY DEF FollowInv, PmShape, PostLaunch
<1>2. UNCHANGED <<data, kernel, sm, managerVars, newProcessEvent, lock, request, monitor>>
  BY DEF PostLaunch, processVars, managerVars, otherVars
<1>3. launch["service"] \in LaunchData /\ launch["service"].title \in Titles
  BY <1>1 DEF FollowInv, TitlesKnown, Launchers, OnItsWay
<1>4. l \in LaunchData /\ l.title \in Titles
  BY <1>3 DEF LaunchData
<1> HIDE DEF l
<1>5. /\ place' \in [Threads -> Places] /\ launch' \in [Launchers -> LaunchData]
      /\ place'["service"] = "idle" /\ place'["runner"] = "check"
      /\ launch'["runner"] = l /\ launch'["service"] = NoLaunch
      /\ place'["monitor"] = place["monitor"]
  BY <1>1, <1>4, NoLaunchTyped DEF Launchers, Threads, Places, OnItsWay
<1>6. PmShape'
  BY <1>2, <1>5 DEF FollowInv, PmShape, managerVars
<1>7. PidsInOrder' /\ StatusTells' /\ ManagersRefer' /\ MonitorKnows'
  BY <1>2, <1>5, MildSame, KernelSame, GoesOnFollowed
<1>8. \A u \in Launchers : place'[u] = "idle" \/ (place'[u] = "check" /\ launch'[u].title \in Titles)
  BY <1>4, <1>5 DEF Launchers
<1>9. TitlesKnown'
  BY <1>2, <1>8 DEF FollowInv, TitlesKnown, managerVars, OnItsWay, Loading, Midway
<1>10. LaunchedListed' /\ ReportedByRunner'
  BY <1>5, <1>8 DEF LaunchedListed, ReportedByRunner, Loading, Midway
<1> QED
  BY <1>6, <1>7, <1>9, <1>10 DEF FollowInv

\* A launch that begins.
LEMMA LaunchesTyped ==
  ASSUME NEW title \in Titles, NEW flags \in SUBSET LaunchFlags
  PROVE  LET l == [NoLaunch EXCEPT !.title = title, !.flags = flags]
         IN  l \in LaunchData /\ l.title = title /\ l.flags = flags
  BY NoLaunchTyped DEF LaunchData

\* A client asks for a launch.
LEMMA AsksToLaunchStep ==
  ASSUME FollowInv, NEW title \in Titles, NEW flags \in SUBSET LaunchFlags,
         AsksToLaunch(title, flags)
  PROVE  FollowInv'
<1> DEFINE l == [NoLaunch EXCEPT !.title = title, !.flags = flags]
<1>1. /\ "service" \in Launchers /\ Goto("service", "launch title")
      /\ launch' = [launch EXCEPT !["service"] = l]
      /\ UNCHANGED <<data, kernel, sm, managerVars, newProcessEvent, lock, request, monitor>>
  BY DEF AsksToLaunch, Launches, Launchers, requestVars, processVars, managerVars, eventVars
<1>2. l \in LaunchData /\ l.title = title /\ l.flags = flags
  BY LaunchesTyped
<1>3. "NOTIFY_TERMINATION" \in flags =>
        "NORMAL_APPLICATION" \in flags /\ "QUEUE_DEBUG_APPLICATION" \notin flags
  <2>1. CASE flags \ {"NOTIFY_TERMINATION"} = {"NORMAL_APPLICATION", "LOAD_DEPENDENCIES"}
    <3>1. \A x : x \in flags \ {"NOTIFY_TERMINATION"} <=> x \in {"NORMAL_APPLICATION", "LOAD_DEPENDENCIES"}
      BY <2>1
    <3> QED
      BY <3>1
  <2>2. CASE "NOTIFY_TERMINATION" \notin flags
    BY <2>2
  <2>3. \/ flags \ {"NOTIFY_TERMINATION"} = {"NORMAL_APPLICATION", "LOAD_DEPENDENCIES"}
        \/ flags = {"LOAD_DEPENDENCIES"}
        \/ flags = {"NORMAL_APPLICATION", "LOAD_DEPENDENCIES", "QUEUE_DEBUG_APPLICATION"}
    BY DEF AsksToLaunch
  <2> QED
    BY <2>1, <2>2, <2>3
<1> HIDE DEF l
<1>4. MayBeAt("service", "launch title", l)
  BY <1>2, <1>3 DEF MayBeAt, Places, OnItsWay, Loading, Midway
<1> QED
  BY <1>1, <1>4, MildSame, KernelSame, LaunchStep DEF FollowInv, PmShape

\* A debugger asks for one.
LEMMA LaunchAppDebugStep ==
  ASSUME FollowInv, NEW title \in Applications, LaunchAppDebug(title)
  PROVE  FollowInv'
<1> DEFINE flags == {"NORMAL_APPLICATION", "LOAD_DEPENDENCIES"}
           l == [NoLaunch EXCEPT !.title = title, !.flags = flags]
<1>1. /\ "service" \in Launchers /\ Goto("service", "check") /\ Locks("service")
      /\ launch' = [launch EXCEPT !["service"] = l]
      /\ UNCHANGED <<data, kernel, sm, managerVars, newProcessEvent, request, monitor>>
  BY DEF LaunchAppDebug, Launches, Launchers, processVars, managerVars, eventVars
<1>2. l \in LaunchData /\ l.title = title /\ l.flags = flags
  BY LaunchesTyped DEF LaunchFlags, Titles
<1> HIDE DEF l
<1>3. MayBeAt("service", "check", l)
  BY <1>2 DEF MayBeAt, Places, OnItsWay, Loading, Midway, Titles
<1> QED
  BY <1>1, <1>3, MildSame, KernelSame, LaunchStep DEF FollowInv, PmShape

\* A thread that terminates nothing.
LEMMA NoRequestTyped == NoRequest \in RequestData /\ NoRequest.pid = NULL
  BY DEF NoRequest, RequestData

\* The requests, when that of a thread changes.
LEMMA RequestsKnown ==
  ASSUME FollowInv, NEW t \in Launchers, NEW r \in RequestData,
         request' = [request EXCEPT ![t] = r],
         r.pid # NULL => kernel[r.pid] # "none",
         NEW where, Goto(t, where), where = "await" => r.pid # NULL
  PROVE  /\ request' \in [Launchers -> RequestData]
         /\ \A u \in Launchers : request'[u].pid # NULL => kernel[request'[u].pid] # "none"
         /\ \A u \in Launchers : place'[u] = "await" => request'[u].pid # NULL
BY DEF FollowInv, PmShape, TitlesKnown, Goto, Launchers, Threads

\* The title of the application that was ended is launched again.
LEMMA ChainloadsStep ==
  ASSUME FollowInv, Chainloads
  PROVE  FollowInv'
<1> DEFINE app == data[request["runner"].pid]
           flags == (app.launchFlags \ {"QUEUE_DEBUG_APPLICATION"}) \cup {"FAKE_DEPENDENCY_LOADING"}
           l == [NoLaunch EXCEPT !.title = app.title, !.flags = flags]
<1>1. /\ "runner" \in Launchers /\ place["runner"] = "await"
      /\ Goto("runner", "launch title") /\ Locks("runner")
      /\ launch' = [launch EXCEPT !["runner"] = l]
      /\ request' = [request EXCEPT !["runner"] = NoRequest]
      /\ UNCHANGED <<data, kernel, sm, managerVars, newProcessEvent, monitor>>
  BY DEF Chainloads, Launches, Launchers, processVars, managerVars, eventVars
<1>2. app \in ProcessData /\ app.title \in Titles
  <2>1. request["runner"].pid \in Pids
    BY <1>1 DEF FollowInv, PmShape, TitlesKnown, RequestData
  <2>2. kernel[request["runner"].pid] # "none"
    BY <1>1, <2>1 DEF FollowInv, TitlesKnown
  <2> QED
    BY <2>1, <2>2 DEF FollowInv, PmShape, TitlesKnown
<1>3. flags \in SUBSET LaunchFlags
  BY <1>2 DEF ProcessData, LaunchFlags
<1> HIDE DEF app, flags
<1>4. l \in LaunchData /\ l.title \in Titles
  BY <1>2, <1>3, LaunchesTyped
<1> HIDE DEF l
<1>5. MayBeAt("runner", "launch title", l)
  BY <1>4 DEF MayBeAt, Places, OnItsWay, Loading, Midway
<1>6. /\ request' \in [Launchers -> RequestData]
      /\ \A u \in Launchers : request'[u].pid # NULL => kernel[request'[u].pid] # "none"
      /\ \A u \in Launchers : place'[u] = "await" => request'[u].pid # NULL
  BY <1>1, NoRequestTyped, RequestsKnown
<1>7. lock' \in {"balanced", "unbalanced"} \cup Threads
  BY <1>1, LocksTyped DEF Launchers, Threads
<1> QED
  BY <1>1, <1>5, <1>6, <1>7, MildSame, KernelSame, ThreadStep DEF FollowInv, PmShape

-----------------------------------------------------------------------------
(* termination.c *)

\* A thread that terminates processes, or has terminated them.
LEMMA TerminationStep ==
  ASSUME FollowInv, Mild(data, data'), KernelGoesOn,
         NEW t \in Launchers, NEW where \in TerminatingAt \cup {"idle", "await"}, Goto(t, where),
         NEW r \in RequestData, request' = [request EXCEPT ![t] = r],
         r.pid # NULL => kernel[r.pid] # "none", where = "await" => r.pid # NULL,
         lock' \in {"balanced", "unbalanced"} \cup Threads,
         UNCHANGED <<sm, launch, managerVars, newProcessEvent, monitor>>
  PROVE  FollowInv'
<1>1. launch[t] \in LaunchData /\ launch' = [launch EXCEPT ![t] = launch[t]] /\ t \in Threads
  BY DEF FollowInv, PmShape, Launchers, Threads
<1>2. MayBeAt(t, where, launch[t])
  BY <1>1 DEF MayBeAt, Places, OnItsWay, Loading, Midway, TerminatingAt
<1>3. /\ request' \in [Launchers -> RequestData]
      /\ \A u \in Launchers : request'[u].pid # NULL => kernel[request'[u].pid] # "none"
      /\ \A u \in Launchers : place'[u] = "await" => request'[u].pid # NULL
  BY RequestsKnown
<1>4. sm' \in [Pids -> {"none", "registered", "enabled"}]
  BY DEF FollowInv, PmShape
<1> QED
  BY <1>1, <1>2, <1>3, <1>4, ThreadStep

\* A request that stays.
LEMMA RequestSame ==
  ASSUME FollowInv, NEW t \in Launchers
  PROVE  /\ request = [request EXCEPT ![t] = request[t]] /\ request[t] \in RequestData
         /\ request[t].pid # NULL => kernel[request[t].pid] # "none"
BY DEF FollowInv, PmShape, TitlesKnown

\* What is asked to end was created.
LEMMA TargetKnown ==
  ASSUME FollowInv, NEW t \in Launchers
  PROVE  Target(t) \in Pids \cup {NULL} /\ (Target(t) # NULL => kernel[Target(t)] # "none")
<1>1. request[t] \in RequestData
  BY DEF FollowInv, PmShape
<1> QED
  BY <1>1 DEF Target, FollowInv, PmShape, TitlesKnown, RequestData

\* Processes that are told to end change mildly.
LEMMA NotifyMild ==
  ASSUME FollowInv, NEW t \in Launchers, Notify(t)
  PROVE  Mild(data, data') /\ Plain(data, data')
<1> DEFINE p == Target(t)
           e == Prepared(data, t)
<1>1. p \in Pids \cup {NULL}
  BY TargetKnown
<1>2. /\ data \in [Pids -> ProcessData]
      /\ data' = data \/ (p # NULL /\ data' = terminateProcessImpl(e, p))
  BY DEF Notify, FollowInv, PmShape
<1> HIDE DEF p
<1>3. CASE p \in Pids
  <2>1. Mild(data, e) /\ Plain(data, e)
    BY <1>2, <1>3, MildPrepared DEF p
  <2> HIDE DEF e
  <2>2. e \in [Pids -> ProcessData]
    BY <2>1 DEF Mild
  <2>3. Mild(e, terminateProcessImpl(e, p)) /\ Plain(e, terminateProcessImpl(e, p))
    BY <1>3, <2>2, MildTermination
  <2>4. Mild(data, terminateProcessImpl(e, p)) /\ Plain(data, terminateProcessImpl(e, p))
    BY <2>1, <2>3, MildTransitive
  <2> QED
    BY <1>2, <2>4, MildSame
<1> QED
  BY <1>1, <1>2, <1>3, MildSame

\* Processes are told to end.
LEMMA NotifyStep ==
  ASSUME FollowInv, NEW t \in Launchers, Notify(t)
  PROVE  FollowInv'
<1> DEFINE p == Target(t)
           r == IF request[t].waits THEN [request[t] EXCEPT !.pid = p] ELSE NoRequest
           where == IF request[t].waits THEN "commit" ELSE "idle"
<1>1. request[t] \in RequestData /\ request' = [request EXCEPT ![t] = r] /\ Goto(t, where)
      /\ UNCHANGED <<kernel, sm, launch, managerVars, newProcessEvent, monitor>> /\ Locks(t)
  BY DEF Notify, FollowInv, PmShape, managerVars, eventVars
<1>2. p \in Pids \cup {NULL} /\ (p # NULL => kernel[p] # "none")
  BY TargetKnown
<1>3. Mild(data, data')
  BY NotifyMild
<1> HIDE DEF p
<1>4. r \in RequestData /\ (r.pid # NULL => kernel[r.pid] # "none")
  BY <1>1, <1>2, NoRequestTyped DEF RequestData
<1>5. where \in TerminatingAt \cup {"idle", "await"} /\ where # "await"
  BY DEF TerminatingAt
<1>6. lock' \in {"balanced", "unbalanced"} \cup Threads
  BY <1>1, LocksTyped DEF Launchers, Threads
<1> HIDE DEF r, where
<1> QED
  BY <1>1, <1>3, <1>4, <1>5, <1>6, KernelSame, TerminationStep

\* The same, when the request stays.
LEMMA TerminationGoesOn ==
  ASSUME FollowInv, KernelGoesOn,
         NEW t \in Launchers, NEW where \in TerminatingAt \cup {"idle", "await"}, Goto(t, where),
         where = "await" => request[t].pid # NULL,
         lock' \in {"balanced", "unbalanced"} \cup Threads,
         UNCHANGED <<data, sm, launch, managerVars, newProcessEvent, request, monitor>>
  PROVE  FollowInv'
<1> DEFINE r == request[t]
<1>1. request' = [request EXCEPT ![t] = r] /\ r \in RequestData
      /\ (r.pid # NULL => kernel[r.pid] # "none")
  BY RequestSame
<1>2. Mild(data, data')
  BY MildSame
<1>3. where = "await" => r.pid # NULL
  OBVIOUS
<1> HIDE DEF r
<1> QED
  BY <1>1, <1>2, <1>3, TerminationStep

\* Every step of a termination.
LEMMA TerminatesStep ==
  ASSUME FollowInv, NEW t \in Launchers, Terminates(t)
  PROVE  FollowInv'
<1>0. UNCHANGED lock \/ Locks(t) => lock' \in {"balanced", "unbalanced"} \cup Threads
  BY LocksTyped DEF Launchers, Threads
<1>1. CASE TerminationBegins(t)
  <2>1. /\ UNCHANGED <<data, kernel, sm, launch, lock, managerVars, newProcessEvent, request, monitor>>
        /\ Goto(t, "notify")
    BY <1>1 DEF TerminationBegins, processVars, managerVars
  <2> QED
    BY <1>0, <2>1, KernelSame, TerminationGoesOn DEF TerminatingAt
<1>2. CASE Notify(t)
  BY <1>2, NotifyStep
<1>3. CASE Commit(t)
  <2>1. KernelGoesOn
    BY <1>3, KilledGoesOn DEF Commit, FollowInv, PmShape
  <2>2. PICK where \in {"wait", "committed"} : Goto(t, where)
    BY <1>3 DEF Commit
  <2>3. UNCHANGED <<data, sm, launch, managerVars, newProcessEvent, request, monitor>> /\ Locks(t)
    BY <1>3 DEF Commit, managerVars, eventVars
  <2> QED
    BY <1>0, <2>1, <2>2, <2>3, TerminationGoesOn DEF TerminatingAt
<1>4. CASE AllEnded(t)
  <2>1. /\ UNCHANGED <<data, kernel, sm, launch, lock, managerVars, newProcessEvent, request, monitor>>
        /\ Goto(t, "committed")
    BY <1>4 DEF AllEnded, processVars, managerVars
  <2> QED
    BY <1>0, <2>1, KernelSame, TerminationGoesOn DEF TerminatingAt
<1>5. CASE TimesOut(t)
  <2>1. KernelGoesOn
    BY <1>5, KilledGoesOn DEF TimesOut, FollowInv, PmShape
  <2>2. /\ UNCHANGED <<data, sm, launch, managerVars, newProcessEvent, request, monitor>> /\ Locks(t)
        /\ Goto(t, "wait forever")
    BY <1>5 DEF TimesOut, managerVars, eventVars
  <2> QED
    BY <1>0, <2>1, <2>2, TerminationGoesOn DEF TerminatingAt
<1>6. CASE Committed(t)
  <2>1. UNCHANGED <<data, kernel, sm, launch, lock, managerVars, newProcessEvent, monitor>>
    BY <1>6 DEF Committed, processVars, managerVars
  <2>2. CASE request[t].pid # NULL /\ Goto(t, "await") /\ UNCHANGED request
    BY <1>0, <2>1, <2>2, KernelSame, TerminationGoesOn
  <2>3. CASE Goto(t, "idle") /\ request' = [request EXCEPT ![t] = NoRequest]
    <3>1. Mild(data, data')
      BY <2>1, MildSame
    <3>2. KernelGoesOn
      BY <1>0, <2>1, KernelSame
    <3>3. /\ NoRequest \in RequestData /\ (NoRequest.pid # NULL => kernel[NoRequest.pid] # "none")
          /\ "idle" \in TerminatingAt \cup {"idle", "await"}
      BY NoRequestTyped
    <3> QED
      BY <1>0, <2>1, <2>3, <3>1, <3>2, <3>3, TerminationStep
  <2> QED
    BY <1>6, <2>2, <2>3 DEF Committed
<1> QED
  BY <1>1, <1>2, <1>3, <1>4, <1>5, <1>6 DEF Terminates

\* A termination is asked for.
LEMMA AsksToEnd ==
  ASSUME FollowInv, NEW t \in Launchers, Goto(t, "terminate"),
         NEW kind \in RequestKinds, NEW p \in Listed \cup {NULL}, NEW waits \in BOOLEAN,
         request' = [request EXCEPT ![t] = [kind |-> kind, pid |-> p, waits |-> waits]],
         lock' \in {"balanced", "unbalanced"} \cup Threads,
         UNCHANGED <<data, kernel, sm, launch, managerVars, newProcessEvent, monitor>>
  PROVE  FollowInv'
<1> DEFINE r == [kind |-> kind, pid |-> p, waits |-> waits]
<1>1. r \in RequestData
  BY DEF RequestData, Listed
<1>2. r.pid # NULL => kernel[r.pid] # "none"
  BY DEF FollowInv, PidsInOrder, Listed
<1>3. request' = [request EXCEPT ![t] = r] /\ Mild(data, data')
  BY MildSame
<1>4. KernelGoesOn
  BY KernelSame
<1>5. "terminate" \in TerminatingAt \cup {"idle", "await"}
  BY DEF TerminatingAt
<1> HIDE DEF r
<1> QED
  BY <1>1, <1>2, <1>3, <1>4, <1>5, TerminationStep

\* The requests that end processes.
LEMMA EndRequestsStep ==
  ASSUME FollowInv,
         \/ \E p \in Pids, waits \in BOOLEAN : AsksToTerminate(p, waits)
         \/ TerminateApplication
         \/ ChainloadHomebrewDirty
  PROVE  FollowInv'
<1>1. ASSUME NEW p \in Pids, NEW waits \in BOOLEAN, AsksToTerminate(p, waits)
      PROVE  FollowInv'
  <2>1. /\ Goto("runner", "terminate") /\ "runner" \in Launchers /\ "process" \in RequestKinds
        /\ UNCHANGED <<data, kernel, sm, launch, lock, managerVars, newProcessEvent, monitor>>
        /\ request' = [request EXCEPT !["runner"] =
                         [kind |-> "process", pid |-> p, waits |-> waits]]
        /\ p \in Listed
    BY <1>1
    DEF AsksToTerminate, requestVars, processVars, managerVars, eventVars, Launchers, RequestKinds
  <2> QED
    BY <2>1, AsksToEnd DEF FollowInv, PmShape
<1>2. CASE TerminateApplication
  <2>1. /\ Goto("service", "terminate") /\ "service" \in Launchers /\ "application" \in RequestKinds
        /\ UNCHANGED <<data, kernel, sm, launch, lock, managerVars, newProcessEvent, monitor>>
        /\ request' = [request EXCEPT !["service"] =
                         [kind |-> "application", pid |-> NULL, waits |-> TRUE]]
    BY <1>2
    DEF TerminateApplication, requestVars, processVars, managerVars, eventVars, Launchers, RequestKinds
  <2> QED
    BY <2>1, AsksToEnd DEF FollowInv, PmShape
<1>3. CASE ChainloadHomebrewDirty
  <2>1. /\ Goto("runner", "terminate") /\ "runner" \in Launchers /\ "chainload" \in RequestKinds
        /\ UNCHANGED <<data, kernel, sm, launch, managerVars, newProcessEvent, monitor>>
        /\ lock' \in {"balanced", "unbalanced"} \cup Threads
        /\ request' = [request EXCEPT !["runner"] =
                         [kind |-> "chainload", pid |-> NULL, waits |-> TRUE]]
    BY <1>3, LocksTyped
    DEF ChainloadHomebrewDirty, processVars, managerVars, eventVars, Launchers, RequestKinds, Threads
  <2> QED
    BY <2>1, AsksToEnd
<1> QED
  BY <1>1, <1>2, <1>3
-----------------------------------------------------------------------------
(* A process is loaded *)

\* Pids are numbers, and NULL is none of them.
LEMMA PidsTyped == Pids \subseteq Int /\ NULL \notin Pids
  BY PmAssumption DEF Pids, NULL

\* The data of a process that is loaded.
LEMMA LoadedTyped ==
  ASSUME NEW title \in Titles, NEW flags \in SUBSET LaunchFlags
  PROVE  LET new == Loaded(title, flags)
         IN  /\ new \in ProcessData /\ new.listed /\ new.title = title /\ new.status = "RUNNING"
             /\ new.flags = {}
<1>1. NoProcess \in ProcessData
  BY DEF NoProcess, ProcessData, Statuses
<1>2. ASSUME NEW n \in Int
      PROVE  [NoProcess EXCEPT !.listed = TRUE, !.title = title, !.launchFlags = flags,
                               !.refcount = n] \in ProcessData
  BY <1>1 DEF ProcessData
<1>3. 1 \in Int
  OBVIOUS
<1>4. Loaded(title, flags) \in ProcessData
  BY <1>2, <1>3, Zenon DEF Loaded
<1> QED
  BY <1>4 DEF Loaded, NoProcess

\* A process is created and put on the list.
LEMMA LoadedStep ==
  ASSUME FollowInv, NEW t \in Launchers, place[t] \in Loading, Unloaded # {},
         NEW title \in Titles, NEW flags \in SUBSET LaunchFlags,
         LoadedAs(t, NextDependency(Unloaded), title, flags),
         NEW where \in Midway, Goto(t, where),
         NEW l \in LaunchData, launch' = [launch EXCEPT ![t] = l],
         l.title = launch[t].title, l.flags = launch[t].flags,
         where \in {"run dependency", "flag dependency", "merge dependency"} =>
           l.dependency \in Sysmodules,
         \/ l.process = NextDependency(Unloaded)
         \/ place[t] \in Midway /\ l.process = launch[t].process
  PROVE  FollowInv'
<1> DEFINE p == NextDependency(Unloaded)
           new == Loaded(title, flags)
<1>1. p \in Pids /\ kernel[p] = "none" /\ \A q \in Pids : q < p => kernel[q] # "none"
  BY NextUnloaded
<1>2. /\ new \in ProcessData /\ new.listed /\ new.title = title /\ new.status = "RUNNING"
      /\ new.flags = {}
  BY LoadedTyped
<1>3. /\ data' = [data EXCEPT ![p] = new] /\ kernel' = [kernel EXCEPT ![p] = "created"]
      /\ Locks(t) /\ newProcessEvent' = TRUE
      /\ UNCHANGED <<sm, runningApplicationData, debugData, request, monitor>>
  BY DEF LoadedAs, otherVars
<1> HIDE DEF p, new
<1>4. /\ data' \in [Pids -> ProcessData] /\ data'[p] = new
      /\ kernel' \in [Pids -> {"none", "created", "running", "dead"}] /\ kernel'[p] = "created"
      /\ \A q \in Pids : q # p => data'[q] = data[q] /\ kernel'[q] = kernel[q]
  BY <1>1, <1>2, <1>3 DEF FollowInv, PmShape
<1>5. /\ place' \in [Threads -> Places] /\ launch' \in [Launchers -> LaunchData]
      /\ place'[t] = where /\ launch'[t] = l /\ place'["monitor"] = place["monitor"]
      /\ \A u \in Launchers : u # t => place'[u] = place[u] /\ launch'[u] = launch[u]
  BY DEF FollowInv, PmShape, Goto, Launchers, Threads, Places, Loading
<1>6. PmShape'
  <2>1. lock' \in {"balanced", "unbalanced"} \cup Threads
    BY <1>3, LocksTyped DEF Launchers, Threads
  <2> QED
    BY <1>3, <1>4, <1>5, <2>1 DEF FollowInv, PmShape
<1>7. TitlesKnown'
  <2>1. \A u \in Launchers : place'[u] \in OnItsWay \cup Loading => launch'[u].title \in Titles
    BY <1>5 DEF FollowInv, TitlesKnown
  <2>2. \A u \in Launchers :
          place'[u] \in {"run dependency", "flag dependency", "merge dependency"} =>
            launch'[u].dependency \in Sysmodules
    BY <1>5 DEF FollowInv, TitlesKnown
  <2>3. \A u \in Launchers : place'[u] = "await" => request'[u].pid # NULL
    BY <1>3, <1>5 DEF FollowInv, TitlesKnown, Midway
  <2>4. \A q \in Pids : kernel[q] # "none" => kernel'[q] # "none"
    BY <1>1, <1>4
  <2>5. /\ \A u \in Launchers : request'[u].pid # NULL => kernel'[request'[u].pid] # "none"
        /\ runningApplicationData' # NULL => kernel'[runningApplicationData'] # "none"
    BY <1>3, <2>4 DEF FollowInv, PmShape, TitlesKnown, RequestData
  <2>6. \A q \in Pids : kernel'[q] # "none" => data'[q].title \in Titles
    BY <1>2, <1>4 DEF FollowInv, TitlesKnown
  <2> QED
    BY <2>1, <2>2, <2>3, <2>5, <2>6 DEF TitlesKnown
<1>8. PidsInOrder'
  <2>1. Pids \subseteq Int
    BY PidsTyped
  <2>2. ASSUME NEW x \in Pids, NEW q \in Pids, x < q, kernel'[x] = "none"
        PROVE  kernel'[q] = "none"
    <3>1. x # p /\ kernel[x] = "none" /\ ~(x < p)
      BY <1>1, <1>4, <2>2
    <3>2. q # p
      BY <1>1, <2>1, <2>2, <3>1
    <3> QED
      BY <1>4, <2>2, <3>1, <3>2 DEF FollowInv, PidsInOrder
  <2>3. \A q \in Pids : kernel'[q] = "none" => ~data'[q].listed /\ data'[q].flags \cap Reported = {}
    BY <1>4 DEF FollowInv, PidsInOrder
  <2> QED
    BY <2>2, <2>3 DEF PidsInOrder
<1>9. StatusTells'
  BY <1>2, <1>4 DEF FollowInv, StatusTells, Listed
<1>10. LaunchedListed'
  <2>1. ASSUME NEW u \in Launchers, place'[u] \in Midway
        PROVE  \/ launch'[u].process = p
               \/ place[u] \in Midway /\ launch'[u].process = launch[u].process
    BY <1>5, <2>1 DEF p
  <2>2. ASSUME NEW u \in Launchers, place'[u] \in Midway
        PROVE  LET q == launch'[u].process
               IN  q \in Pids /\ kernel'[q] # "none" /\ (kernel'[q] = "created" => data'[q].listed)
    <3>1. CASE launch'[u].process = p
      BY <1>1, <1>2, <1>4, <3>1
    <3>2. CASE place[u] \in Midway /\ launch'[u].process = launch[u].process
      <4> DEFINE q == launch[u].process
      <4>1. q \in Pids /\ kernel[q] # "none" /\ (kernel[q] = "created" => data[q].listed)
        BY <3>2 DEF FollowInv, LaunchedListed
      <4> HIDE DEF q
      <4>2. kernel'[q] = kernel[q] /\ data'[q] = data[q]
        BY <1>1, <1>4, <4>1
      <4> QED
        BY <3>2, <4>1, <4>2 DEF q
    <3> QED
      BY <2>1, <2>2, <3>1, <3>2
  <2> QED
    BY <2>2 DEF LaunchedListed
<1>11. ReportedByRunner'
  <2>1. "service" \in Launchers /\ "runner" \in Launchers
    BY DEF Launchers
  <2>2. /\ place'["service"] = "launch title" => place["service"] = "launch title"
                                                /\ launch'["service"] = launch["service"]
        /\ place'["service"] \in {"check"} \cup Loading =>
             place["service"] \in {"check"} \cup Loading
             /\ launch'["service"].flags = launch["service"].flags
    BY <1>5, <2>1 DEF Midway, Loading
  <2>3. \A q \in Pids : data[q].flags \cap Reported = {} => data'[q].flags \cap Reported = {}
    BY <1>2, <1>4
  <2>4. ASSUME place'["runner"] \in Midway, NEW q \in Pids, launch'["runner"].process < q
        PROVE  data'[q].flags \cap Reported = {}
    <3>1. \/ launch'["runner"].process = p
          \/ place["runner"] \in Midway /\ launch'["runner"].process = launch["runner"].process
      BY <1>5, <2>1, <2>4 DEF p
    <3>2. CASE launch'["runner"].process = p
      <4>1. kernel[q] = "none"
        BY <1>1, <2>4, <3>2 DEF FollowInv, PidsInOrder
      <4> QED
        BY <2>3, <4>1 DEF FollowInv, PidsInOrder
    <3>3. CASE place["runner"] \in Midway /\ launch'["runner"].process = launch["runner"].process
      BY <2>3, <2>4, <3>3 DEF FollowInv, ReportedByRunner
    <3> QED
      BY <3>1, <3>2, <3>3
  <2> QED
    BY <2>2, <2>4 DEF FollowInv, ReportedByRunner
<1>12. ManagersRefer'
  <2>1. /\ runningApplicationData # NULL => runningApplicationData \in Pids \ {p}
        /\ debugData \in Pids \cup {NULL} /\ monitor.pid \in Pids \cup {NULL}
        /\ monitor.pid # NULL => monitor.pid # p
    BY <1>1 DEF FollowInv, PmShape, MonitorData, TitlesKnown, ManagersRefer
  <2>2. ApplicationListed'
    BY <1>3, <1>4, <2>1 DEF FollowInv, ManagersRefer, ApplicationListed, Listed
  <2>3. debugData' # NULL /\ kernel'[debugData'] = "created" => data'[debugData'].listed
    BY <1>2, <1>3, <1>4, <2>1 DEF FollowInv, ManagersRefer
  <2>4. monitor'.pid # NULL => /\ kernel'[monitor'.pid] = "dead"
                              /\ place'["monitor"] \in {"clean dependencies", "clean"}
    BY <1>3, <1>4, <1>5, <2>1 DEF FollowInv, ManagersRefer
  <2> QED
    BY <2>2, <2>3, <2>4 DEF ManagersRefer
<1>13. MonitorKnows'
  BY <1>3 DEF MonitorKnows
<1> QED
  BY <1>6, <1>7, <1>8, <1>9, <1>10, <1>11, <1>12, <1>13 DEF FollowInv

\* The process of the title is loaded.
LEMMA LoadStep ==
  ASSUME FollowInv, NEW t \in Launchers, Load(t)
  PROVE  FollowInv'
<1> DEFINE p == NextDependency(Unloaded)
           l == [launch[t] EXCEPT !.process = p]
<1>1. /\ place[t] = "load" /\ Unloaded # {} /\ LoadedAs(t, p, launch[t].title, launch[t].flags)
      /\ launch' = [launch EXCEPT ![t] = l] /\ Goto(t, "register")
  BY DEF Load, FollowInv, PmShape
<1>2. p \in Pids
  BY <1>1, NextUnloaded
<1>3. launch[t] \in LaunchData /\ launch[t].title \in Titles /\ launch[t].flags \in SUBSET LaunchFlags
  BY <1>1 DEF FollowInv, PmShape, TitlesKnown, LaunchData, Loading
<1> HIDE DEF p
<1>4. /\ l \in LaunchData /\ l.title = launch[t].title /\ l.flags = launch[t].flags
      /\ l.process = p
  BY <1>2, <1>3 DEF LaunchData
<1> HIDE DEF l
<1>5. place[t] \in Loading /\ "register" \in Midway
  BY <1>1 DEF Loading, Midway
<1> QED
  BY <1>1, <1>3, <1>4, <1>5, LoadedStep DEF p

\* The process of a dependency is loaded.
LEMMA LoadDependencyStep ==
  ASSUME FollowInv, NEW t \in Launchers, NEW d \in Sysmodules, LoadDependency(t, d)
  PROVE  FollowInv'
<1> DEFINE p == NextDependency(Unloaded)
           procs == [launch[t].procs EXCEPT ![d] = p]
           l == [launch[t] EXCEPT !.procs = procs, !.dependency = d]
<1>1. /\ place[t] = "dependencies" /\ Unloaded # {} /\ LoadedAs(t, p, d, {})
      /\ launch' = [launch EXCEPT ![t] = l] /\ Goto(t, "run dependency")
  BY DEF LoadDependency, FollowInv, PmShape
<1>2. p \in Pids
  BY <1>1, NextUnloaded
<1>3. launch[t] \in LaunchData /\ launch[t].procs \in [Titles -> Pids \cup {NULL}]
  BY <1>1 DEF FollowInv, PmShape, LaunchData
<1> HIDE DEF p
<1>4. procs \in [Titles -> Pids \cup {NULL}]
  BY <1>2, <1>3, Changed
<1> HIDE DEF procs
<1>5. /\ l \in LaunchData /\ l.title = launch[t].title /\ l.flags = launch[t].flags
      /\ l.process = launch[t].process /\ l.dependency = d
  BY <1>3, <1>4 DEF LaunchData
<1> HIDE DEF l
<1>6. /\ place[t] \in Loading /\ place[t] \in Midway /\ "run dependency" \in Midway
      /\ d \in Titles /\ {} \in SUBSET LaunchFlags
  BY <1>1 DEF Loading, Midway, Titles
<1> QED
  BY <1>1, <1>5, <1>6, LoadedStep DEF p

-----------------------------------------------------------------------------
(* A process is run *)

\* A process that is run is still followed.
LEMMA RunsFollowed ==
  ASSUME FollowInv, KernelGoesOn, NEW p \in Pids,
         kernel[p] = "created" => data[p].listed,
         data' \in [Pids -> ProcessData],
         \A q \in Pids : q # p => data'[q] = data[q],
         data'[p].listed = data[p].listed, data'[p].title = data[p].title,
         data'[p].status = data[p].status,
         kernel[p] = "none" => data'[p].flags \cap Reported = {},
         "NOTIFY_TERMINATION_TERMINATED" \in data[p].flags =>
           "NOTIFY_TERMINATION_TERMINATED" \in data'[p].flags,
         \/ runningApplicationData' = runningApplicationData
         \/ runningApplicationData' = p /\ kernel[p] = "created",
         debugData' \in {debugData, p, NULL},
         place'["monitor"] = place["monitor"], UNCHANGED <<newProcessEvent, monitor>>
  PROVE  /\ PidsInOrder' /\ StatusTells' /\ ManagersRefer' /\ MonitorKnows'
         /\ \A q \in Pids : data'[q].listed = data[q].listed /\ data'[q].title = data[q].title
         /\ \A q \in Pids : kernel[q] # "none" => kernel'[q] # "none"
         /\ \A q \in Pids : kernel'[q] = "created" => kernel[q] = "created"
<1>1. \A q \in Pids : data'[q].listed = data[q].listed /\ data'[q].title = data[q].title
                      /\ data'[q].status = data[q].status
  OBVIOUS
<1>2. \A q \in Pids :
        /\ kernel[q] # "none" => kernel'[q] # "none"
        /\ kernel'[q] # "none" => kernel[q] # "none"
        /\ kernel'[q] = "created" => kernel[q] = "created"
        /\ kernel[q] = "dead" => kernel'[q] = "dead"
        /\ kernel'[q] \in {"created", "running"} => kernel[q] \in {"created", "running"}
  BY DEF KernelGoesOn, Alive
<1>3. PidsInOrder'
  BY <1>1, <1>2 DEF FollowInv, PidsInOrder
<1>4. StatusTells'
  BY <1>1, <1>2 DEF FollowInv, StatusTells, Listed
<1>5. ManagersRefer'
  <2>1. /\ runningApplicationData \in Pids \cup {NULL} /\ debugData \in Pids \cup {NULL}
        /\ monitor.pid \in Pids \cup {NULL} /\ NULL \notin Pids
    BY PmAssumption DEF FollowInv, PmShape, MonitorData, Pids, NULL
  <2>2. ApplicationListed'
    BY <1>1, <2>1 DEF FollowInv, ManagersRefer, ApplicationListed, Listed
  <2>3. debugData' # NULL /\ kernel'[debugData'] = "created" => data'[debugData'].listed
    BY <1>1, <1>2, <2>1 DEF FollowInv, ManagersRefer
  <2>4. monitor'.pid # NULL => /\ kernel'[monitor'.pid] = "dead"
                              /\ place'["monitor"] \in {"clean dependencies", "clean"}
    BY <1>2, <2>1 DEF FollowInv, ManagersRefer
  <2> QED
    BY <2>2, <2>3, <2>4 DEF ManagersRefer
<1>6. MonitorKnows'
  BY <1>1, <1>2 DEF FollowInv, MonitorKnows, Listed, Alive
<1> QED
  BY <1>1, <1>2, <1>3, <1>4, <1>5, <1>6

\* The process of a launch is run.
LEMMA RunStep ==
  ASSUME FollowInv, NEW t \in Launchers, Run(t)
  PROVE  FollowInv'
<1> DEFINE p == launch[t].process
           fs == data[p].flags \cup (launch[t].flags \cap {"NOTIFY_TERMINATION"})
<1>1. /\ data \in [Pids -> ProcessData] /\ p \in Pids /\ kernel[p] # "none"
      /\ kernel[p] = "created" => data[p].listed
      /\ place[t] = "dependencies" /\ launch[t] \in LaunchData
  BY DEF Run, FollowInv, PmShape, LaunchedListed, Midway
<1>2. /\ data' = data \/ data' = [data EXCEPT ![p].flags = fs]
      /\ UNCHANGED <<sm, newProcessEvent, request, monitor>> /\ Locks(t)
      /\ Goto(t, "idle") /\ launch' = [launch EXCEPT ![t] = NoLaunch]
  BY <1>1 DEF Run, eventVars, Forgotten
<1>3. fs \in SUBSET Flags
  BY <1>1 DEF ProcessData, Flags
<1>4. /\ data' \in [Pids -> ProcessData]
      /\ \A q \in Pids : q # p => data'[q] = data[q]
      /\ data'[p].listed = data[p].listed /\ data'[p].title = data[p].title
      /\ data'[p].status = data[p].status
      /\ data'[p].flags = data[p].flags \/ data'[p].flags = fs
  <2> HIDE DEF fs, p
  <2>1. CASE data' = data
    BY <1>1, <2>1
  <2>2. CASE data' = [data EXCEPT ![p].flags = fs]
    <3>1. data[p] \in ProcessData
      BY <1>1
    <3>2. data'[p] = [data[p] EXCEPT !.flags = fs] /\ \A q \in Pids : q # p => data'[q] = data[q]
      BY <1>1, <2>2
    <3>3. /\ data'[p] \in ProcessData /\ data'[p].listed = data[p].listed
          /\ data'[p].title = data[p].title /\ data'[p].status = data[p].status
          /\ data'[p].flags = fs
      BY <1>3, <3>1, <3>2 DEF ProcessData
    <3>4. DOMAIN data' = Pids /\ data' = [q \in DOMAIN data' |-> data'[q]]
      BY <1>1, <2>2
    <3>5. \A q \in Pids : data'[q] \in ProcessData
      BY <1>1, <3>2, <3>3
    <3> QED
      BY <3>2, <3>3, <3>4, <3>5
  <2> QED
    BY <1>2, <2>1, <2>2
<1>5. KernelGoesOn /\ debugData' \in {debugData, p, NULL}
      /\ \/ runningApplicationData' = runningApplicationData
         \/ runningApplicationData' = p /\ kernel[p] = "created"
  <2> DEFINE queued == "QUEUE_DEBUG_APPLICATION" \in launch[t].flags
             succeeds == IF queued THEN debugData = NULL ELSE kernel[p] = "created"
  <2>1. /\ ~succeeds => kernel' = Killed(kernel, {p})
        /\ succeeds /\ queued => kernel' = kernel
        /\ succeeds /\ ~queued => kernel' = [kernel EXCEPT ![p] = "running"]
        /\ debugData' = IF succeeds /\ queued THEN p ELSE debugData
        /\ runningApplicationData' =
             IF succeeds /\ ~queued /\ "NORMAL_APPLICATION" \in launch[t].flags
               THEN p ELSE runningApplicationData
    BY DEF Run
  <2>2. succeeds /\ ~queued => kernel[p] = "created"
    OBVIOUS
  <2> HIDE DEF succeeds, queued, p
  <2>3. CASE ~succeeds
    <3>1. kernel' = Killed(kernel, {p})
      BY <2>1, <2>3
    <3>2. KernelGoesOn
      BY <3>1, KilledGoesOn DEF FollowInv, PmShape
    <3> QED
      BY <2>1, <2>3, <3>2
  <2>4. CASE succeeds /\ queued
    BY <2>1, <2>4, KernelSame
  <2>5. CASE succeeds /\ ~queued
    <3>1. kernel' = [kernel EXCEPT ![p] = "running"]
      BY <2>1, <2>5
    <3>2. KernelGoesOn
      BY <1>1, <2>2, <2>5, <3>1 DEF KernelGoesOn, FollowInv, PmShape
    <3> QED
      BY <2>1, <2>2, <2>5, <3>2
  <2> QED
    BY <2>3, <2>4, <2>5
<1> HIDE DEF p
<1>6. /\ place' \in [Threads -> Places] /\ launch' \in [Launchers -> LaunchData]
      /\ place'[t] = "idle" /\ place'["monitor"] = place["monitor"]
      /\ \A u \in Launchers : u # t => place'[u] = place[u] /\ launch'[u] = launch[u]
  BY <1>2, NoLaunchTyped DEF FollowInv, PmShape, Goto, Launchers, Threads, Places
<1>7. "NOTIFY_TERMINATION_TERMINATED" \in data[p].flags =>
        "NOTIFY_TERMINATION_TERMINATED" \in data'[p].flags
  BY <1>4
<1>8. /\ PidsInOrder' /\ StatusTells' /\ ManagersRefer' /\ MonitorKnows'
      /\ \A q \in Pids : data'[q].listed = data[q].listed /\ data'[q].title = data[q].title
      /\ \A q \in Pids : kernel[q] # "none" => kernel'[q] # "none"
      /\ \A q \in Pids : kernel'[q] = "created" => kernel[q] = "created"
  BY <1>1, <1>2, <1>4, <1>5, <1>6, <1>7, RunsFollowed
<1>9. PmShape'
  <2>1. lock' \in {"balanced", "unbalanced"} \cup Threads
    BY <1>2, LocksTyped DEF Launchers, Threads
  <2>2. runningApplicationData' \in Pids \cup {NULL} /\ debugData' \in Pids \cup {NULL}
    BY <1>1, <1>5 DEF FollowInv, PmShape
  <2>3. kernel' \in [Pids -> {"none", "created", "running", "dead"}]
    BY <1>5 DEF KernelGoesOn
  <2> QED
    BY <1>2, <1>4, <1>6, <2>1, <2>2, <2>3 DEF FollowInv, PmShape
<1>10. TitlesKnown'
  <2>1. \A u \in Launchers : place'[u] # "idle" => place'[u] = place[u] /\ launch'[u] = launch[u]
    BY <1>6
  <2>2. /\ \A u \in Launchers : place'[u] \in OnItsWay \cup Loading => launch'[u].title \in Titles
        /\ \A u \in Launchers :
             place'[u] \in {"run dependency", "flag dependency", "merge dependency"} =>
               launch'[u].dependency \in Sysmodules
        /\ \A u \in Launchers : place'[u] = "await" => request'[u].pid # NULL
    BY <1>2, <2>1 DEF FollowInv, TitlesKnown, OnItsWay, Loading, Midway
  <2>3. /\ \A u \in Launchers : request'[u].pid # NULL => kernel'[request'[u].pid] # "none"
        /\ runningApplicationData' # NULL => kernel'[runningApplicationData'] # "none"
    BY <1>1, <1>2, <1>5, <1>8 DEF FollowInv, PmShape, TitlesKnown, RequestData
  <2>4. \A q \in Pids : kernel'[q] # "none" => data'[q].title \in Titles
    BY <1>5, <1>8 DEF FollowInv, TitlesKnown, KernelGoesOn, Alive
  <2> QED
    BY <2>2, <2>3, <2>4 DEF TitlesKnown
<1>11. LaunchedListed'
  <2>1. \A u \in Launchers : place'[u] \in Midway => place'[u] = place[u] /\ launch'[u] = launch[u]
    BY <1>6 DEF Midway
  <2> QED
    BY <1>8, <2>1 DEF FollowInv, LaunchedListed
<1>12. ReportedByRunner'
  <2>1. "service" \in Launchers /\ "runner" \in Launchers
    BY DEF Launchers
  <2>2. CASE t = "runner"
    BY <1>6, <2>1, <2>2 DEF FollowInv, ReportedByRunner, Midway
  <2>3. CASE t = "service"
    <3>1. "NOTIFY_TERMINATION" \notin launch["service"].flags
      BY <1>1, <2>3 DEF FollowInv, ReportedByRunner, Loading, Midway
    <3>2. \A q \in Pids : data'[q].flags = data[q].flags
      BY <1>4, <2>3, <3>1
    <3> QED
      BY <1>6, <2>1, <2>3, <3>2 DEF FollowInv, ReportedByRunner, Loading, Midway
  <2> QED
    BY <2>2, <2>3 DEF Launchers
<1> QED
  BY <1>8, <1>9, <1>10, <1>11, <1>12 DEF FollowInv

\* Every step of a launch.
LEMMA LaunchingStep ==
  ASSUME FollowInv, NEW t \in Launchers, Launching(t)
  PROVE  FollowInv'
BY LaunchTitleStep, FoundProcessStep, CheckStep, LoadStep, FailsToLoadStep, RegisterStep, MergeStep,
   MergedStep, LoadDependencyStep, RunDependencyStep, FlagDependencyStep, RunStep
   DEF Launching

\* The debugger runs the application that it has queued.
LEMMA RunQueuedProcessStep ==
  ASSUME FollowInv, RunQueuedProcess
  PROVE  FollowInv'
<1> DEFINE p == debugData
           fs == data[p].flags \ {"NOTIFY_TERMINATION"}
<1>1. /\ data \in [Pids -> ProcessData] /\ p \in Pids /\ Locks("service") /\ debugData' = NULL
      /\ UNCHANGED <<sm, newProcessEvent, place, launch, request, monitor>>
  BY DEF RunQueuedProcess, FollowInv, PmShape, eventVars
<1>2. data[p].flags \in SUBSET Flags /\ fs \in SUBSET Flags
  BY <1>1 DEF ProcessData
<1>3. Mild(data, data') /\ \A q \in Pids : data'[q].status = data[q].status
                          /\ (q # p => data'[q] = data[q])
  <2>1. CASE data' = data
    BY <2>1, MildSame
  <2>2. CASE data' = [data EXCEPT ![p].flags = fs]
    <3> HIDE DEF p
    <3>1. Mild(data, data')
      BY <1>1, <1>2, <2>2, MildFlags DEF Reported
    <3>2. \A q \in Pids : data'[q].status = data[q].status /\ (q # p => data'[q] = data[q])
      BY <1>1, <2>2 DEF ProcessData
    <3> QED
      BY <3>1, <3>2
  <2> QED
    BY <1>1, <2>1, <2>2 DEF RunQueuedProcess
<1>4. KernelGoesOn
  <2>1. CASE kernel[p] = "created"
    BY <1>1, <2>1 DEF RunQueuedProcess, KernelGoesOn, FollowInv, PmShape
  <2>2. CASE kernel[p] # "created"
    BY <2>2, KilledGoesOn DEF RunQueuedProcess, FollowInv, PmShape
  <2> QED
    BY <2>1, <2>2
<1>5. \/ runningApplicationData' = runningApplicationData
      \/ runningApplicationData' = p /\ kernel[p] = "created"
  BY DEF RunQueuedProcess
<1>6. kernel[p] = "created" => data[p].listed
  BY <1>1 DEF FollowInv, ManagersRefer, RunQueuedProcess
<1>7. kernel[p] = "none" => data'[p].flags \cap Reported = {}
  BY <1>1, <1>3 DEF FollowInv, PidsInOrder, Mild
<1> HIDE DEF p
<1>8. /\ PidsInOrder' /\ StatusTells' /\ ManagersRefer' /\ MonitorKnows'
      /\ \A q \in Pids : data'[q].listed = data[q].listed /\ data'[q].title = data[q].title
      /\ \A q \in Pids : kernel[q] # "none" => kernel'[q] # "none"
      /\ \A q \in Pids : kernel'[q] = "created" => kernel[q] = "created"
  BY <1>1, <1>3, <1>4, <1>5, <1>6, <1>7, RunsFollowed DEF Mild
<1>9. PmShape'
  <2>1. lock' \in {"balanced", "unbalanced"} \cup Threads
    BY <1>1, LocksTyped DEF Threads
  <2> QED
    BY <1>1, <1>3, <1>4, <1>5, <2>1 DEF FollowInv, PmShape, Mild, KernelGoesOn
<1>10. TitlesKnown'
  <2>1. /\ \A u \in Launchers : request'[u].pid # NULL => kernel'[request'[u].pid] # "none"
        /\ runningApplicationData' # NULL => kernel'[runningApplicationData'] # "none"
    BY <1>1, <1>5, <1>8 DEF FollowInv, PmShape, TitlesKnown, RequestData
  <2>2. \A q \in Pids : kernel'[q] # "none" => data'[q].title \in Titles
    BY <1>4, <1>8 DEF FollowInv, TitlesKnown, KernelGoesOn, Alive
  <2> QED
    BY <1>1, <2>1, <2>2 DEF FollowInv, TitlesKnown
<1>11. LaunchedListed'
  BY <1>1, <1>8 DEF FollowInv, LaunchedListed
<1>12. ReportedByRunner'
  BY <1>1, <1>3 DEF FollowInv, ReportedByRunner, Mild
<1> QED
  BY <1>8, <1>9, <1>10, <1>11, <1>12 DEF FollowInv
-----------------------------------------------------------------------------
(* The processes themselves *)

\* No thread of pm moves.
LEMMA OthersStep ==
  ASSUME FollowInv, Mild(data, data'), KernelGoesOn,
         sm' \in [Pids -> {"none", "registered", "enabled"}],
         UNCHANGED <<managerVars, newProcessEvent, lock, place, launch, request, monitor>>
  PROVE  FollowInv'
<1>1. /\ PidsInOrder' /\ StatusTells' /\ ManagersRefer' /\ MonitorKnows'
      /\ \A q \in Pids : data'[q].listed = data[q].listed /\ data'[q].title = data[q].title
      /\ \A q \in Pids : kernel[q] # "none" => kernel'[q] # "none"
      /\ \A q \in Pids : kernel'[q] = "created" => kernel[q] = "created"
  BY GoesOnFollowed
<1>2. PmShape'
  BY DEF FollowInv, PmShape, Mild, KernelGoesOn, managerVars
<1>3. TitlesKnown'
  <2>1. /\ \A u \in Launchers : request'[u].pid # NULL => kernel'[request'[u].pid] # "none"
        /\ runningApplicationData' # NULL => kernel'[runningApplicationData'] # "none"
    BY <1>1 DEF FollowInv, PmShape, TitlesKnown, RequestData, managerVars
  <2>2. \A q \in Pids : kernel'[q] # "none" => data'[q].title \in Titles
    BY <1>1 DEF FollowInv, TitlesKnown, KernelGoesOn, Alive
  <2> QED
    BY <2>1, <2>2 DEF FollowInv, TitlesKnown
<1>4. LaunchedListed'
  BY <1>1 DEF FollowInv, LaunchedListed
<1>5. ReportedByRunner'
  BY DEF FollowInv, ReportedByRunner, Mild
<1> QED
  BY <1>1, <1>2, <1>3, <1>4, <1>5 DEF FollowInv

\* Processes ask to be notified of their end, and end.
LEMMA ProcessesStep ==
  ASSUME FollowInv, NEW p \in Pids, EnablesNotifications(p) \/ Exits(p)
  PROVE  FollowInv'
<1>1. CASE EnablesNotifications(p)
  <2>1. sm' \in [Pids -> {"none", "registered", "enabled"}]
    BY <1>1 DEF EnablesNotifications, FollowInv, PmShape
  <2>2. /\ UNCHANGED <<data, kernel, managerVars, newProcessEvent, lock, place, launch, request, monitor>>
    BY <1>1 DEF EnablesNotifications, managerVars, eventVars
  <2> QED
    BY <2>1, <2>2, MildSame, KernelSame, OthersStep
<1>2. CASE Exits(p)
  <2>1. KernelGoesOn
    BY <1>2, KilledGoesOn DEF Exits, FollowInv, PmShape
  <2>2. /\ UNCHANGED <<data, sm, managerVars, newProcessEvent, lock, place, launch, request, monitor>>
    BY <1>2 DEF Exits, managerVars, eventVars
  <2> QED
    BY <2>1, <2>2, MildSame, OthersStep DEF FollowInv, PmShape
<1> QED
  BY <1>1, <1>2

\* Of the processes of a title, the oldest is not the one that the task runner
\* is launching while a younger one has been reported.
LEMMA UnregisterProcessStep ==
  ASSUME FollowInv, NEW title \in Titles, UnregisterProcess(title)
  PROVE  FollowInv'
<1> DEFINE p == FindProcessByTitleId(title)
<1>1. PICK ended \in Listed : data[ended].title = title /\ data[ended].status = "TERMINATED"
  BY DEF UnregisterProcess
<1>2. p \in Listed /\ data[p].title = title /\ p =< ended
  BY <1>1, FoundIsOldest
<1>3. /\ data' = [data EXCEPT ![p].listed = FALSE]
      /\ runningApplicationData' = IF runningApplicationData = p THEN NULL ELSE runningApplicationData
      /\ debugData' = IF debugData = p THEN NULL ELSE debugData
      /\ place["service"] = "idle" /\ Locks("service")
      /\ UNCHANGED <<kernel, sm, newProcessEvent, place, launch, request, monitor>>
  BY DEF UnregisterProcess, Takes, eventVars
<1> HIDE DEF p
<1>4. p \in Pids /\ ended \in Pids /\ Pids \subseteq Int /\ NULL \notin Pids
  BY <1>1, <1>2, PidsTyped DEF Listed
<1>5. ASSUME NEW q \in Pids
      PROVE  /\ data'[q] \in ProcessData /\ data'[q].title = data[q].title
             /\ data'[q].flags = data[q].flags /\ data'[q].status = data[q].status
             /\ data'[q].listed <=> data[q].listed /\ q # p
  <2>1. data[q] \in ProcessData /\ data \in [Pids -> ProcessData]
    BY DEF FollowInv, PmShape
  <2>2. CASE q # p
    BY <1>3, <2>1, <2>2
  <2>3. CASE q = p
    <3>1. data'[q] = [data[q] EXCEPT !.listed = FALSE]
      BY <1>3, <2>1, <2>3
    <3> QED
      BY <2>1, <2>3, <3>1 DEF ProcessData
  <2> QED
    BY <2>2, <2>3
<1>6. data' \in [Pids -> ProcessData]
  <2>1. DOMAIN data' = Pids /\ data' = [q \in DOMAIN data' |-> data'[q]]
    BY <1>3 DEF FollowInv, PmShape
  <2> QED
    BY <1>5, <2>1
<1>7. PmShape'
  <2>1. lock' \in {"balanced", "unbalanced"} \cup Threads
    BY <1>3, LocksTyped DEF Threads
  <2> QED
    BY <1>3, <1>6, <2>1 DEF FollowInv, PmShape
<1>8. TitlesKnown'
  BY <1>3, <1>5 DEF FollowInv, TitlesKnown
<1>9. PidsInOrder' /\ StatusTells'
  BY <1>3, <1>5 DEF FollowInv, PidsInOrder, StatusTells, Listed
<1>10. LaunchedListed'
  <2>1. kernel[ended] = "dead" /\ data[ended].flags \cap Reported # {}
    BY <1>1, <1>4 DEF FollowInv, StatusTells, Reported
  <2>2. ASSUME place["runner"] \in Midway, launch["runner"].process = p, kernel[p] = "created"
        PROVE  FALSE
    <3>1. p # ended /\ p < ended
      BY <1>2, <1>4, <2>1, <2>2
    <3> QED
      BY <1>4, <2>1, <2>2, <3>1 DEF FollowInv, ReportedByRunner
  <2>3. ASSUME NEW u \in Launchers, place'[u] \in Midway
        PROVE  LET q == launch'[u].process
               IN  q \in Pids /\ kernel'[q] # "none" /\ (kernel'[q] = "created" => data'[q].listed)
    <3> DEFINE q == launch[u].process
    <3>1. u = "runner" /\ place[u] \in Midway
      BY <1>3, <2>3 DEF Launchers, Midway
    <3>2. q \in Pids /\ kernel[q] # "none" /\ (kernel[q] = "created" => data[q].listed)
      BY <3>1 DEF FollowInv, LaunchedListed
    <3>3. kernel[q] = "created" => q # p
      BY <2>2, <3>1
    <3> HIDE DEF q
    <3>4. kernel[q] = "created" => data'[q].listed
      BY <1>5, <3>2, <3>3
    <3> QED
      BY <1>3, <3>2, <3>4 DEF q
  <2> QED
    BY <2>3 DEF LaunchedListed
<1>11. ReportedByRunner'
  BY <1>3, <1>5 DEF FollowInv, ReportedByRunner
<1>12. ManagersRefer'
  <2>1. /\ runningApplicationData \in Pids \cup {NULL} /\ debugData \in Pids \cup {NULL}
        /\ monitor.pid \in Pids \cup {NULL}
    BY DEF FollowInv, PmShape, MonitorData
  <2>2. ApplicationListed'
    BY <1>3, <1>5, <2>1 DEF FollowInv, ManagersRefer, ApplicationListed, Listed
  <2> QED
    BY <1>3, <1>5, <2>1, <2>2 DEF FollowInv, ManagersRefer
<1>13. MonitorKnows'
  BY <1>3, <1>5 DEF FollowInv, MonitorKnows, Listed, Alive
<1> QED
  BY <1>7, <1>8, <1>9, <1>10, <1>11, <1>12, <1>13 DEF FollowInv

-----------------------------------------------------------------------------
(* process_monitor.c *)

\* A step of the monitor changes the data of processes that have ended, and
\* what refers to them.
LEMMA MonitorStep ==
  ASSUME FollowInv, data' \in [Pids -> ProcessData],
         \A p \in Pids :
           /\ data'[p].title = data[p].title
           /\ data'[p].listed => data[p].listed
           /\ kernel[p] = "created" /\ data[p].listed => data'[p].listed
           /\ data[p].flags \cap Reported = {} => data'[p].flags \cap Reported = {},
         StatusTells', ManagersRefer', MonitorKnows',
         NEW where \in {"rebuild", "signal", "wait", "clean dependencies", "clean"},
         Goto("monitor", where),
         Locks("monitor") \/ UNCHANGED lock,
         runningApplicationData' \in {runningApplicationData, NULL},
         debugData' \in {debugData, NULL},
         sm' \in [Pids -> {"none", "registered", "enabled"}],
         newProcessEvent' \in BOOLEAN, monitor' \in MonitorData,
         UNCHANGED <<kernel, launch, request>>
  PROVE  FollowInv'
<1>1. /\ place' \in [Threads -> Places]
      /\ \A u \in Launchers : place'[u] = place[u]
      /\ place'["service"] = place["service"] /\ place'["runner"] = place["runner"]
  BY DEF FollowInv, PmShape, Goto, Launchers, Threads, Places
<1>2. PmShape'
  <2>1. lock' \in {"balanced", "unbalanced"} \cup Threads
    BY LocksTyped DEF Threads
  <2> QED
    BY <1>1, <2>1 DEF FollowInv, PmShape
<1>3. TitlesKnown'
  BY <1>1 DEF FollowInv, TitlesKnown
<1>4. PidsInOrder'
  BY DEF FollowInv, PidsInOrder
<1>5. LaunchedListed'
  BY <1>1 DEF FollowInv, LaunchedListed
<1>6. ReportedByRunner'
  BY <1>1 DEF FollowInv, ReportedByRunner
<1> QED
  BY <1>2, <1>3, <1>4, <1>5, <1>6 DEF FollowInv

\* The same, when the data stays.
LEMMA MonitorGoesOn ==
  ASSUME FollowInv, MonitorKnows', ManagersRefer',
         NEW where \in {"rebuild", "signal", "wait", "clean dependencies", "clean"},
         Goto("monitor", where),
         Locks("monitor") \/ UNCHANGED lock,
         runningApplicationData' \in {runningApplicationData, NULL},
         debugData' \in {debugData, NULL},
         sm' \in [Pids -> {"none", "registered", "enabled"}],
         newProcessEvent' \in BOOLEAN, monitor' \in MonitorData,
         UNCHANGED <<data, kernel, launch, request>>
  PROVE  FollowInv'
<1>1. data' \in [Pids -> ProcessData] /\ StatusTells'
  BY DEF FollowInv, PmShape, StatusTells, Listed
<1>2. ASSUME NEW p \in Pids
      PROVE  /\ data'[p].title = data[p].title
             /\ data'[p].listed => data[p].listed
             /\ kernel[p] = "created" /\ data[p].listed => data'[p].listed
             /\ data[p].flags \cap Reported = {} => data'[p].flags \cap Reported = {}
  OBVIOUS
<1> QED
  BY <1>1, <1>2, MonitorStep

\* The monitor moves, no other thread does.
LEMMA PlaceOfMonitor ==
  ASSUME FollowInv, NEW where, Goto("monitor", where)
  PROVE  place'["monitor"] = where
BY DEF FollowInv, PmShape, Goto, Threads

\* The monitor collects what it is to watch.
LEMMA RebuildStep ==
  ASSUME FollowInv, Rebuild
  PROVE  FollowInv'
<1> DEFINE watched == {p \in Listed : data[p].status # "TERMINATED"}
           terminating == \E p \in watched : data[p].status = "NOTIFICATION_SENT"
<1>1. /\ monitor \in MonitorData /\ place["monitor"] = "rebuild" /\ place'["monitor"] = "signal"
      /\ monitor' = [monitor EXCEPT !.watched = watched, !.terminating = terminating]
      /\ UNCHANGED <<data, kernel, sm, runningApplicationData, debugData, newProcessEvent, launch,
                     request>>
      /\ Locks("monitor") /\ Goto("monitor", "signal")
  BY PlaceOfMonitor DEF Rebuild, FollowInv, PmShape, processVars, managerVars, eventVars
<1>2. watched \in SUBSET Pids /\ terminating \in BOOLEAN
  BY DEF Listed
<1>3. \A p \in Listed : Alive(p) => p \in watched
  BY DEF FollowInv, StatusTells, Alive
<1> HIDE DEF watched, terminating
<1>4. monitor' \in MonitorData /\ monitor'.watched = watched /\ monitor'.pid = monitor.pid
  BY <1>1, <1>2 DEF MonitorData
<1>5. MonitorKnows'
  BY <1>1, <1>3, <1>4 DEF MonitorKnows, Listed, Alive
<1>6. ManagersRefer'
  BY <1>1, <1>4 DEF FollowInv, ManagersRefer, ApplicationListed, Listed
<1> QED
  BY <1>1, <1>4, <1>5, <1>6, MonitorGoesOn DEF FollowInv, PmShape

\* The monitor tells that all that were notified have ended.
LEMMA SignalStep ==
  ASSUME FollowInv, Signal
  PROVE  FollowInv'
<1>1. /\ monitor \in MonitorData /\ place["monitor"] = "signal" /\ place'["monitor"] = "wait"
      /\ monitor' = [monitor EXCEPT !.terminating = FALSE]
      /\ UNCHANGED <<data, kernel, sm, runningApplicationData, debugData, newProcessEvent, launch,
                     request, lock>>
      /\ Goto("monitor", "wait")
  BY PlaceOfMonitor DEF Signal, FollowInv, PmShape, processVars, managerVars
<1>2. monitor' \in MonitorData /\ monitor'.watched = monitor.watched /\ monitor'.pid = monitor.pid
  BY <1>1 DEF MonitorData
<1>3. MonitorKnows'
  BY <1>1, <1>2 DEF FollowInv, MonitorKnows, Listed, Alive
<1>4. ManagersRefer'
  BY <1>1, <1>2 DEF FollowInv, ManagersRefer, ApplicationListed, Listed
<1> QED
  BY <1>1, <1>2, <1>3, <1>4, MonitorGoesOn DEF FollowInv, PmShape

\* A process was created: the monitor has to collect again.
LEMMA WakesForNewProcessStep ==
  ASSUME FollowInv, WakesForNewProcess
  PROVE  FollowInv'
<1>1. /\ monitor \in MonitorData /\ place["monitor"] = "wait" /\ place'["monitor"] = "rebuild"
      /\ monitor' = [monitor EXCEPT !.watched = {}]
      /\ newProcessEvent' = FALSE
      /\ UNCHANGED <<data, kernel, sm, runningApplicationData, debugData, launch, request, lock>>
      /\ Goto("monitor", "rebuild")
  BY PlaceOfMonitor DEF WakesForNewProcess, FollowInv, PmShape, processVars, managerVars
<1>2. monitor' \in MonitorData /\ monitor'.pid = monitor.pid
  BY <1>1 DEF MonitorData
<1>3. MonitorKnows'
  BY <1>1 DEF MonitorKnows
<1>4. ManagersRefer'
  BY <1>1, <1>2 DEF FollowInv, ManagersRefer, ApplicationListed, Listed
<1> QED
  BY <1>1, <1>2, <1>3, <1>4, MonitorGoesOn DEF FollowInv, PmShape

\* A process has ended.
LEMMA WakesForEndStep ==
  ASSUME FollowInv, NEW p \in Pids, WakesForEnd(p)
  PROVE  FollowInv'
<1> DEFINE flags == IF "NOTIFY_TERMINATION" \in data[p].flags
                      THEN data[p].flags \cup {"NOTIFY_TERMINATION_TERMINATED"} ELSE data[p].flags
           reported == "NOTIFY_TERMINATION_TERMINATED" \in flags
<1>1. /\ monitor \in MonitorData /\ place["monitor"] = "wait" /\ kernel[p] = "dead"
      /\ monitor.pid = NULL /\ data \in [Pids -> ProcessData] /\ Locks("monitor")
      /\ UNCHANGED <<kernel, sm, runningApplicationData, debugData, newProcessEvent, launch, request>>
  BY DEF WakesForEnd, FollowInv, PmShape, ManagersRefer, managerVars, eventVars
<1>2. data[p] \in ProcessData /\ flags \in SUBSET Flags /\ reported \in BOOLEAN
  BY <1>1 DEF ProcessData, Flags
<1>3. data[p].flags \cap Reported = {} => flags \cap Reported = {}
  BY DEF Reported
<1>4. CASE p \notin Listed
  <2>1. /\ data' = data /\ monitor' = [monitor EXCEPT !.watched = {}] /\ Goto("monitor", "rebuild")
        /\ place'["monitor"] = "rebuild"
    BY <1>4, PlaceOfMonitor DEF WakesForEnd
  <2>2. monitor' \in MonitorData /\ monitor'.pid = monitor.pid
    BY <1>1, <2>1 DEF MonitorData
  <2>3. MonitorKnows'
    BY <2>1 DEF MonitorKnows
  <2>4. ManagersRefer'
    BY <1>1, <2>1, <2>2 DEF FollowInv, ManagersRefer, ApplicationListed, Listed
  <2> QED
    BY <1>1, <2>1, <2>2, <2>3, <2>4, MonitorGoesOn DEF FollowInv, PmShape
<1>5. CASE p \in Listed
  <2>1. /\ data' = [data EXCEPT ![p].status = "TERMINATED", ![p].flags = flags,
                                ![p].listed = reported]
        /\ monitor' = [monitor EXCEPT !.watched = {}, !.pid = p, !.flags = flags]
        /\ Goto("monitor", "clean dependencies") /\ place'["monitor"] = "clean dependencies"
    BY <1>5, PlaceOfMonitor DEF WakesForEnd
  <2>2. reported <=> "NOTIFY_TERMINATION_TERMINATED" \in flags
    OBVIOUS
  <2> HIDE DEF flags, reported
  <2>3. monitor' \in MonitorData /\ monitor'.pid = p
    BY <1>1, <1>2, <2>1 DEF MonitorData
  <2>4. data'[p] = [data[p] EXCEPT !.status = "TERMINATED", !.flags = flags, !.listed = reported]
        /\ \A q \in Pids : q # p => data'[q] = data[q]
    BY <1>1, <2>1
  <2>5. /\ data'[p] \in ProcessData /\ data'[p].title = data[p].title /\ data'[p].flags = flags
        /\ data'[p].listed = reported
    BY <1>2, <2>4 DEF ProcessData, Statuses
  <2>6. data' \in [Pids -> ProcessData]
    <3>1. DOMAIN data' = Pids /\ data' = [q \in DOMAIN data' |-> data'[q]]
      BY <1>1, <2>1
    <3> QED
      BY <1>1, <2>4, <2>5, <3>1
  <2>7. ASSUME NEW q \in Pids
        PROVE  /\ data'[q].title = data[q].title
               /\ data'[q].listed => data[q].listed
               /\ kernel[q] = "created" /\ data[q].listed => data'[q].listed
               /\ data[q].flags \cap Reported = {} => data'[q].flags \cap Reported = {}
    BY <1>1, <1>3, <1>5, <2>4, <2>5 DEF Listed
  <2>8. StatusTells'
    BY <1>1, <2>2, <2>4, <2>5, <2>7 DEF FollowInv, StatusTells, Listed
  <2>9. ManagersRefer'
    <3>1. /\ runningApplicationData \in Pids \cup {NULL} /\ debugData \in Pids \cup {NULL}
          /\ p # NULL
      BY PidsTyped DEF FollowInv, PmShape
    <3>2. ApplicationListed'
      BY <1>1, <2>3, <2>4, <3>1 DEF FollowInv, ManagersRefer, ApplicationListed, Listed
    <3>3. debugData' # NULL /\ kernel'[debugData'] = "created" => data'[debugData'].listed
      BY <1>1, <2>7, <3>1 DEF FollowInv, ManagersRefer
    <3> QED
      BY <1>1, <2>1, <2>3, <3>2, <3>3 DEF ManagersRefer
  <2>10. MonitorKnows'
    BY <2>1 DEF MonitorKnows
  <2> QED
    BY <1>1, <2>1, <2>3, <2>6, <2>7, <2>8, <2>9, <2>10, MonitorStep DEF FollowInv, PmShape
<1> QED
  BY <1>4, <1>5

\* The dependencies of a process that has ended are released.
LEMMA CleanDependenciesStep ==
  ASSUME FollowInv, CleanDependencies
  PROVE  FollowInv'
<1>1. /\ place["monitor"] = "clean dependencies" /\ Goto("monitor", "clean")
      /\ place'["monitor"] = "clean" /\ monitor \in MonitorData
      /\ UNCHANGED <<kernel, sm, runningApplicationData, debugData, newProcessEvent, launch, request,
                     monitor>>
      /\ Locks("monitor") \/ UNCHANGED lock
  BY PlaceOfMonitor DEF CleanDependencies, FollowInv, PmShape, managerVars, eventVars
<1>2. Mild(data, data')
  BY MildUnused, MildSame DEF CleanDependencies, FollowInv, PmShape
<1>3. /\ StatusTells'
      /\ \A p \in Pids : data'[p].listed = data[p].listed /\ data'[p].title = data[p].title
  BY <1>1, <1>2, KernelSame, GoesOnFollowed
<1>4. ASSUME NEW p \in Pids
      PROVE  /\ data'[p].title = data[p].title
             /\ data'[p].listed => data[p].listed
             /\ kernel[p] = "created" /\ data[p].listed => data'[p].listed
             /\ data[p].flags \cap Reported = {} => data'[p].flags \cap Reported = {}
  BY <1>2, <1>3 DEF Mild
<1>5. ManagersRefer'
  <2>1. /\ runningApplicationData \in Pids \cup {NULL} /\ debugData \in Pids \cup {NULL}
    BY DEF FollowInv, PmShape
  <2>2. ApplicationListed'
    BY <1>1, <1>3, <2>1 DEF FollowInv, ManagersRefer, ApplicationListed, Listed
  <2> QED
    BY <1>1, <1>3, <2>1, <2>2 DEF FollowInv, ManagersRefer
<1>6. MonitorKnows'
  BY <1>1 DEF MonitorKnows
<1> QED
  BY <1>1, <1>2, <1>3, <1>4, <1>5, <1>6, MonitorStep DEF FollowInv, PmShape, Mild

\* A process that has ended is referred to no more.
LEMMA CleanStep ==
  ASSUME FollowInv, Clean
  PROVE  FollowInv'
<1>1. /\ Goto("monitor", "rebuild") /\ place'["monitor"] = "rebuild" /\ monitor \in MonitorData
      /\ monitor' = [monitor EXCEPT !.pid = NULL, !.flags = {}]
      /\ UNCHANGED <<data, kernel, newProcessEvent, launch, request>> /\ Locks("monitor")
      /\ runningApplicationData' =
           IF runningApplicationData = monitor.pid THEN NULL ELSE runningApplicationData
      /\ debugData' = IF debugData = monitor.pid THEN NULL ELSE debugData
      /\ sm' = [sm EXCEPT ![monitor.pid] = "none"]
  BY PlaceOfMonitor DEF Clean, FollowInv, PmShape, eventVars
<1>2. monitor' \in MonitorData /\ monitor'.pid = NULL
  BY <1>1 DEF MonitorData
<1>3. sm' \in [Pids -> {"none", "registered", "enabled"}]
  BY <1>1, Changed DEF FollowInv, PmShape
<1>4. MonitorKnows'
  BY <1>1 DEF MonitorKnows
<1>5. ManagersRefer'
  BY <1>1, <1>2 DEF FollowInv, ManagersRefer, ApplicationListed, Listed
<1> QED
  BY <1>1, <1>2, <1>3, <1>4, <1>5, MonitorGoesOn DEF FollowInv, PmShape

-----------------------------------------------------------------------------
(* The theorems *)

\* Nothing runs at first.
LEMMA FollowInvInit == PmInit => FollowInv
<1> SUFFICES ASSUME PmInit PROVE FollowInv
  OBVIOUS
<1>1. \A p \in Pids : data[p] = NoProcess /\ kernel[p] = "none"
  BY DEF PmInit
<1>2. NoProcess \in ProcessData /\ ~NoProcess.listed /\ NoProcess.flags = {}
  BY DEF NoProcess, ProcessData, Statuses
<1>3. \A t \in Launchers : place[t] = "idle" /\ request[t].pid = NULL
  BY NoRequestTyped DEF PmInit, Launchers, Threads
<1>4. place["monitor"] = "rebuild" /\ monitor \in MonitorData /\ monitor.pid = NULL
  BY DEF PmInit, Threads, MonitorData
<1>5. PmShape
  BY <1>2, <1>4, NoLaunchTyped, NoRequestTyped DEF PmShape, PmInit, Launchers, Threads, Places
<1>6. TitlesKnown
  BY <1>1, <1>3 DEF TitlesKnown, PmInit, OnItsWay, Loading, Midway
<1>7. PidsInOrder /\ StatusTells
  BY <1>1, <1>2 DEF PidsInOrder, StatusTells, Listed
<1>8. LaunchedListed /\ ReportedByRunner
  BY <1>3 DEF LaunchedListed, ReportedByRunner, Launchers, Loading, Midway
<1>9. ManagersRefer /\ MonitorKnows
  BY <1>4 DEF ManagersRefer, ApplicationListed, MonitorKnows, PmInit
<1> QED
  BY <1>5, <1>6, <1>7, <1>8, <1>9 DEF FollowInv

\* Every step.
LEMMA FollowInvNext ==
  ASSUME FollowInv, [PmNext]_pmVars
  PROVE  FollowInv'
<1>1. CASE ApplicationsNext
  <2>1. ASSUME NEW p \in Pids, EnablesNotifications(p) \/ Exits(p) PROVE FollowInv'
    BY <2>1, ProcessesStep
  <2>2. ASSUME NEW title \in Titles, NEW flags \in SUBSET LaunchFlags, AsksToLaunch(title, flags)
        PROVE  FollowInv'
    BY <2>2, AsksToLaunchStep
  <2>3. ASSUME \/ \E p \in Pids, waits \in BOOLEAN : AsksToTerminate(p, waits)
               \/ TerminateApplication
        PROVE  FollowInv'
    BY <2>3, EndRequestsStep
  <2>4. ASSUME NEW title \in Titles, UnregisterProcess(title) PROVE FollowInv'
    BY <2>4, UnregisterProcessStep
  <2>5. ASSUME NEW t \in Launchers, ThreadSteps(t) PROVE FollowInv'
    BY <2>5, LaunchingStep, TerminatesStep DEF ThreadSteps
  <2>6. ASSUME Monitors PROVE FollowInv'
    BY <2>6, RebuildStep, SignalStep, WakesForNewProcessStep, WakesForEndStep,
       CleanDependenciesStep, CleanStep DEF Monitors
  <2> QED
    BY <1>1, <2>1, <2>2, <2>3, <2>4, <2>5, <2>6, PostLaunchStep DEF ApplicationsNext, Launchers
<1>2. CASE Debugs
  BY <1>2, RunQueuedProcessStep, LaunchAppDebugStep DEF Debugs
<1>3. CASE ChainloadHomebrewDirty \/ Chainloads
  BY <1>3, EndRequestsStep, ChainloadsStep
<1>4. CASE UNCHANGED pmVars
  <2>1. /\ UNCHANGED <<data, kernel, sm, managerVars, newProcessEvent, lock, place, launch, request,
                       monitor>>
    BY <1>4 DEF pmVars, processVars, managerVars, eventVars
  <2> QED
    BY <2>1, MildSame, KernelSame, OthersStep DEF FollowInv, PmShape
<1> QED
  BY <1>1, <1>2, <1>3, <1>4 DEF PmNext

\* FollowInv holds of every state.
LEMMA FollowInvIsInvariant == PmSpec => []FollowInv
<1>1. PmInit => FollowInv
  BY FollowInvInit
<1>2. FollowInv /\ [PmNext]_pmVars => FollowInv'
  BY FollowInvNext
<1> QED
  BY <1>1, <1>2, PTL DEF PmSpec

\* The state of pm has its shape.
THEOREM PmTypeCorrect == PmSpec => []PmTypeOK
<1>1. ASSUME FollowInv PROVE PmTypeOK
  <2>1. ASSUME NEW p \in Pids
        PROVE  /\ data[p].flags \subseteq Flags /\ data[p].status \in Statuses
               /\ data[p].title \in Titles \cup {"none"} /\ data[p].refcount \in Int
    <3>1. data[p] \in ProcessData
      BY <1>1 DEF FollowInv, PmShape
    <3> QED
      BY <3>1 DEF ProcessData
  <2> QED
    BY <1>1, <2>1 DEF FollowInv, PmShape, PmTypeOK
<1> QED
  BY <1>1, FollowInvIsInvariant, PTL

\* The ends of processes are followed by all that refers to them: a pointer to
\* the running application does not outlive the monitor's turn, and the monitor
\* never waits for less than the processes that have not ended.
THEOREM ProcessesAreFollowed == PmSpec => []ProcessesFollowed
<1>1. ASSUME FollowInv PROVE ProcessesFollowed
  <2>1. ApplicationListed
    BY <1>1 DEF FollowInv, ManagersRefer
  <2>2. LiveProcessesWatched
    BY <1>1 DEF FollowInv, MonitorKnows, Alive, LiveProcessesWatched
  <2> QED
    BY <2>1, <2>2 DEF ProcessesFollowed
<1> QED
  BY <1>1, FollowInvIsInvariant, PTL
-----------------------------------------------------------------------------
(* Two applications never run *)

\* A process that was launched as the application.
Application(p) == "NORMAL_APPLICATION" \in data[p].flags

\* Without a debugger, only the task runner launches applications, one at a time.
LaunchesApart ==
  /\ debugData = NULL
  /\ \A t \in Launchers : "QUEUE_DEBUG_APPLICATION" \notin launch[t].flags
  /\ \A t \in Launchers : "NOTIFY_TERMINATION" \in launch[t].flags =>
       "NORMAL_APPLICATION" \in launch[t].flags
  /\ \A p \in Pids : "NOTIFY_TERMINATION" \in data[p].launchFlags =>
       "NORMAL_APPLICATION" \in data[p].launchFlags
  /\ place["service"] \in {"check"} \cup Loading =>
       "NORMAL_APPLICATION" \notin launch["service"].flags
  /\ place["runner"] \in Loading /\ "NORMAL_APPLICATION" \in launch["runner"].flags =>
       runningApplicationData = NULL

\* The processes of the launches, and of their dependencies, are not the same.
ProcessesApart ==
  /\ \A t \in Launchers : place[t] \in Midway => kernel[launch[t].process] # "running"
  /\ \A t \in Launchers : place[t] \in Midway /\ Application(launch[t].process) =>
       "NORMAL_APPLICATION" \in launch[t].flags
  /\ place["service"] \in Midway /\ place["runner"] \in Midway =>
       launch["service"].process # launch["runner"].process
  /\ \A t \in Launchers : place[t] = "run dependency" =>
       LET p == launch[t].procs[launch[t].dependency]
       IN  /\ p \in Pids /\ kernel[p] # "none" /\ ~Application(p)
           /\ \A u \in Launchers : place[u] \in Midway => p # launch[u].process

\* An application that runs is the one that is known, and no younger process
\* was reported, which UnregisterProcess would take it for.
RunningKnown ==
  \A p \in Pids : kernel[p] = "running" /\ Application(p) =>
    /\ p = runningApplicationData
    /\ \A q \in Pids : p < q => data[q].flags \cap Reported = {}

\* The inductive invariant of the application that runs alone.
SoloInv == LaunchesApart /\ ProcessesApart /\ RunningKnown

\* What most steps keep of the processes and of who is the application.
Quiet ==
  /\ \A p \in Pids :
       /\ "NORMAL_APPLICATION" \in data'[p].flags => Application(p)
       /\ data'[p].launchFlags = data[p].launchFlags
       /\ data[p].flags \cap Reported = {} => data'[p].flags \cap Reported = {}
       /\ kernel[p] # "none" => kernel'[p] # "none"
       /\ kernel'[p] = "running" =>
            \/ kernel[p] = "running"
            \/ /\ ~Application(p)
               /\ \A u \in Launchers : place[u] \in Midway => p # launch[u].process
       /\ kernel'[p] = "running" /\ Application(p) /\ p = runningApplicationData =>
            runningApplicationData' = p
  /\ debugData' = NULL
  /\ runningApplicationData = NULL => runningApplicationData' = NULL

\* What most steps do to a thread that launches.
Moves(t) ==
  /\ "QUEUE_DEBUG_APPLICATION" \notin launch'[t].flags
  /\ "NOTIFY_TERMINATION" \in launch'[t].flags => "NORMAL_APPLICATION" \in launch'[t].flags
  /\ t = "service" /\ place'[t] \in {"check"} \cup Loading =>
       "NORMAL_APPLICATION" \notin launch'[t].flags
  /\ t = "runner" /\ place'[t] \in Loading /\ "NORMAL_APPLICATION" \in launch'[t].flags =>
       runningApplicationData = NULL
  /\ place'[t] \in Midway => /\ place[t] \in Midway
                             /\ launch'[t].process = launch[t].process
                             /\ launch'[t].flags = launch[t].flags
  /\ place'[t] = "run dependency" => place[t] = "run dependency" /\ launch'[t] = launch[t]

\* A thread that does not move.
Stays(t) == place'[t] = place[t] /\ launch'[t] = launch[t]

\* A thread that does not move moves as most do.
LEMMA StaysMoves ==
  ASSUME SoloInv, NEW t \in Launchers, Stays(t)
  PROVE  Moves(t)
BY DEF Stays, Moves, SoloInv, LaunchesApart

\* A quiet step, with threads that move as most do.
LEMMA QuietStep ==
  ASSUME FollowInv, SoloInv, Quiet, \A t \in Launchers : Moves(t)
  PROVE  SoloInv'
<1>1. "service" \in Launchers /\ "runner" \in Launchers
  BY DEF Launchers
<1>2. LaunchesApart'
  BY <1>1 DEF SoloInv, LaunchesApart, Quiet, Moves
<1>3. ASSUME NEW t \in Launchers, place'[t] \in Midway
      PROVE  /\ place[t] \in Midway /\ launch'[t].process = launch[t].process
             /\ launch'[t].flags = launch[t].flags /\ launch[t].process \in Pids
  BY <1>3 DEF Moves, FollowInv, LaunchedListed
<1>4. ASSUME NEW t \in Launchers, place'[t] \in Midway
      PROVE  kernel'[launch'[t].process] # "running"
  <2> DEFINE p == launch[t].process
  <2>1. place[t] \in Midway /\ launch'[t].process = p /\ p \in Pids
    BY <1>3, <1>4
  <2>2. kernel[p] # "running"
    BY <2>1 DEF SoloInv, ProcessesApart
  <2> QED
    BY <2>1, <2>2 DEF Quiet
<1>5. ASSUME NEW t \in Launchers, place'[t] \in Midway,
             "NORMAL_APPLICATION" \in data'[launch'[t].process].flags
      PROVE  "NORMAL_APPLICATION" \in launch'[t].flags
  <2> DEFINE p == launch[t].process
  <2>1. /\ place[t] \in Midway /\ launch'[t].process = p /\ launch'[t].flags = launch[t].flags
        /\ p \in Pids
    BY <1>3, <1>5
  <2>2. "NORMAL_APPLICATION" \in data'[p].flags
    BY <1>5, <2>1
  <2>3. Application(p)
    BY <2>1, <2>2 DEF Quiet
  <2> QED
    BY <2>1, <2>3 DEF SoloInv, ProcessesApart
<1>6. place'["service"] \in Midway /\ place'["runner"] \in Midway =>
        launch'["service"].process # launch'["runner"].process
  BY <1>1, <1>3 DEF SoloInv, ProcessesApart
<1>7. ASSUME NEW t \in Launchers, place'[t] = "run dependency"
      PROVE  LET p == launch'[t].procs[launch'[t].dependency]
             IN  /\ p \in Pids /\ kernel'[p] # "none" /\ "NORMAL_APPLICATION" \notin data'[p].flags
                 /\ \A u \in Launchers : place'[u] \in Midway => p # launch'[u].process
  <2> DEFINE p == launch[t].procs[launch[t].dependency]
  <2>1. place[t] = "run dependency" /\ launch'[t] = launch[t]
    BY <1>7 DEF Moves
  <2>2. /\ p \in Pids /\ kernel[p] # "none" /\ ~Application(p)
        /\ \A u \in Launchers : place[u] \in Midway => p # launch[u].process
    BY <2>1 DEF SoloInv, ProcessesApart
  <2> HIDE DEF p
  <2>3. kernel'[p] # "none" /\ "NORMAL_APPLICATION" \notin data'[p].flags
    BY <2>2 DEF Quiet, Application
  <2>4. \A u \in Launchers : place'[u] \in Midway => p # launch'[u].process
    BY <1>3, <2>2
  <2> QED
    BY <2>1, <2>2, <2>3, <2>4 DEF p
<1>8. ProcessesApart'
  BY <1>4, <1>5, <1>6, <1>7 DEF ProcessesApart, Application
<1>9. RunningKnown'
  BY DEF SoloInv, RunningKnown, Quiet, Application
<1> QED
  BY <1>2, <1>8, <1>9 DEF SoloInv

\* A step of one thread.
LEMMA SoloThread ==
  ASSUME FollowInv, SoloInv, Quiet, NEW t \in Launchers, Moves(t),
         \A u \in Launchers : u # t => Stays(u)
  PROVE  SoloInv'
BY StaysMoves, QuietStep

\* Mild changes are quiet when no process becomes an application.
LEMMA QuietData ==
  ASSUME FollowInv, SoloInv, Mild(data, data'), Plain(data, data'), KernelGoesOn,
         \A p \in Pids : kernel'[p] = "running" => kernel[p] = "running",
         UNCHANGED managerVars
  PROVE  Quiet
<1>1. debugData' = NULL /\ runningApplicationData' = runningApplicationData
  BY DEF SoloInv, LaunchesApart, managerVars
<1> QED
  BY <1>1 DEF Mild, Plain, KernelGoesOn, Alive, Quiet, Application

\* Killing processes is quiet.
LEMMA QuietKilled ==
  ASSUME FollowInv, SoloInv, NEW ps, kernel' = Killed(kernel, ps), UNCHANGED <<data, managerVars>>
  PROVE  Quiet
<1>1. KernelGoesOn
  BY KilledGoesOn DEF FollowInv, PmShape
<1>2. \A p \in Pids : kernel'[p] = "running" => kernel[p] = "running"
  BY DEF Killed
<1> QED
  BY <1>1, <1>2, MildSame, QuietData
\* Where a thread may go with a launch.
SoloMayBe(t, where, l) ==
  /\ "QUEUE_DEBUG_APPLICATION" \notin l.flags
  /\ "NOTIFY_TERMINATION" \in l.flags => "NORMAL_APPLICATION" \in l.flags
  /\ t = "service" /\ where \in {"check"} \cup Loading => "NORMAL_APPLICATION" \notin l.flags
  /\ t = "runner" /\ where \in Loading /\ "NORMAL_APPLICATION" \in l.flags =>
       runningApplicationData = NULL
  /\ where \in Midway => /\ place[t] \in Midway
                         /\ l.process = launch[t].process /\ l.flags = launch[t].flags
  /\ where # "run dependency"

\* A thread that goes where it may.
LEMMA GotoMoves ==
  ASSUME FollowInv, NEW t \in Launchers, NEW where, NEW l,
         Goto(t, where), launch' = [launch EXCEPT ![t] = l]
  PROVE  /\ place'[t] = where /\ launch'[t] = l
         /\ \A u \in Launchers : u # t => Stays(u)
BY DEF FollowInv, PmShape, Goto, Launchers, Threads, Stays

\* A step of a launch that is quiet.
LEMMA SoloLaunch ==
  ASSUME FollowInv, SoloInv, Quiet, NEW t \in Launchers, NEW where, NEW l,
         Goto(t, where), launch' = [launch EXCEPT ![t] = l], SoloMayBe(t, where, l)
  PROVE  SoloInv'
<1>1. /\ place'[t] = where /\ launch'[t] = l
      /\ \A u \in Launchers : u # t => Stays(u)
  BY GotoMoves
<1>2. Moves(t)
  BY <1>1 DEF SoloMayBe, Moves
<1> QED
  BY <1>1, <1>2, SoloThread

\* A launch that is over.
LEMMA SoloIdle ==
  ASSUME NEW t
  PROVE  SoloMayBe(t, "idle", NoLaunch)
BY DEF SoloMayBe, NoLaunch, Loading, Midway

\* A launch that goes on with its process.
LEMMA SoloMidway ==
  ASSUME SoloInv, NEW t \in Launchers, place[t] \in Midway,
         NEW where \in Midway \ {"run dependency"}, NEW l,
         l.process = launch[t].process, l.flags = launch[t].flags
  PROVE  SoloMayBe(t, where, l)
<1>1. where \in Loading /\ place[t] \in Loading
  BY DEF Loading
<1> QED
  BY <1>1 DEF SoloInv, LaunchesApart, SoloMayBe

\* LaunchTitle.
LEMMA SoloLaunchTitle ==
  ASSUME FollowInv, SoloInv, NEW t \in Launchers, LaunchTitle(t)
  PROVE  SoloInv'
<1>1. PICK where \in {"idle", "found", "post", "check"}, l \in LaunchData :
        /\ Goes(t, where, l) /\ place[t] = "launch title"
        /\ where = "check" /\ t = "service" =>
             \/ "NORMAL_APPLICATION" \notin launch[t].flags
             \/ "QUEUE_DEBUG_APPLICATION" \in launch[t].flags
  BY LaunchTitleGoes
<1>2. SoloMayBe(t, where, l)
  <2>1. where \notin Loading /\ where \notin Midway
    BY <1>1 DEF Loading, Midway
  <2>2. CASE where = "idle"
    BY <1>1, <2>2, SoloIdle DEF Goes
  <2>3. CASE where # "idle"
    BY <1>1, <2>1, <2>3 DEF Goes, SoloMayBe, SoloInv, LaunchesApart
  <2> QED
    BY <2>2, <2>3
<1>3. UNCHANGED <<data, kernel, managerVars>>
  BY DEF LaunchTitle, processVars, managerVars, otherVars
<1>4. Quiet
  BY <1>3, MildSame, KernelSame, QuietData
<1> QED
  BY <1>1, <1>2, <1>4, SoloLaunch DEF Goes

\* The title runs already.
LEMMA SoloFoundProcess ==
  ASSUME FollowInv, SoloInv, NEW t \in Launchers, FoundProcess(t)
  PROVE  SoloInv'
<1>1. /\ Goto(t, "idle") /\ launch' = [launch EXCEPT ![t] = NoLaunch]
      /\ UNCHANGED <<kernel, managerVars>>
  BY DEF FoundProcess, Forgotten, managerVars, otherVars
<1>2. Mild(data, data') /\ Plain(data, data')
  BY FoundProcessMild
<1>3. Quiet
  BY <1>1, <1>2, KernelSame, QuietData
<1> QED
  BY <1>1, <1>3, SoloIdle, SoloLaunch

\* Only where no application runs does the launch of one go on.
LEMMA SoloCheck ==
  ASSUME FollowInv, SoloInv, NEW t \in Launchers, Check(t)
  PROVE  SoloInv'
<1>1. PICK where \in {"idle", "load"}, l \in LaunchData :
        /\ Goes(t, where, l) /\ place[t] = "check"
        /\ where = "load" /\ "NORMAL_APPLICATION" \in launch[t].flags =>
             runningApplicationData = NULL
  BY CheckGoes
<1>2. SoloMayBe(t, where, l)
  <2>1. CASE where = "idle"
    BY <1>1, <2>1, SoloIdle DEF Goes
  <2>2. CASE where = "load"
    BY <1>1, <2>2 DEF Goes, SoloMayBe, SoloInv, LaunchesApart, Loading, Midway
  <2> QED
    BY <2>1, <2>2
<1>3. UNCHANGED <<data, kernel, managerVars>>
  BY DEF Check, processVars, managerVars, otherVars
<1>4. Quiet
  BY <1>3, MildSame, KernelSame, QuietData
<1> QED
  BY <1>1, <1>2, <1>4, SoloLaunch DEF Goes

\* Loader refuses.
LEMMA SoloFailsToLoad ==
  ASSUME FollowInv, SoloInv, NEW t \in Launchers, FailsToLoad(t)
  PROVE  SoloInv'
<1>1. UNCHANGED <<data, kernel, managerVars>>
  BY DEF FailsToLoad, processVars, managerVars, otherVars
<1>2. Quiet
  BY <1>1, MildSame, KernelSame, QuietData
<1>3. CASE place[t] = "load" /\ Goto(t, "idle") /\ launch' = Forgotten(t)
  BY <1>2, <1>3, SoloIdle, SoloLaunch DEF Forgotten
<1>4. ASSUME place[t] = "dependencies", NEW d \in Todo(t),
             launch' = [launch EXCEPT ![t].seen = @ \cup {d}], UNCHANGED place
      PROVE  SoloInv'
  <2> DEFINE l == [launch[t] EXCEPT !.seen = @ \cup {d}]
  <2>1. /\ launch[t] \in LaunchData /\ launch' = [launch EXCEPT ![t] = l]
        /\ Goto(t, "dependencies")
    BY <1>4 DEF FollowInv, PmShape, Goto
  <2>2. l.process = launch[t].process /\ l.flags = launch[t].flags
    BY <2>1 DEF LaunchData
  <2> HIDE DEF l
  <2>3. SoloMayBe(t, "dependencies", l)
    BY <1>4, <2>2, SoloMidway DEF Midway
  <2> QED
    BY <1>2, <2>1, <2>3, SoloLaunch
<1> QED
  BY <1>3, <1>4 DEF FailsToLoad

\* Dependencies are merged.
LEMMA SoloMerge ==
  ASSUME FollowInv, SoloInv, NEW t \in Launchers, Merge(t)
  PROVE  SoloInv'
<1>1. UNCHANGED <<kernel, managerVars>>
  BY DEF Merge, managerVars, otherVars
<1>2. PICK title \in Titles, where \in {"merged", "dependencies"} :
        /\ place[t] \in {"merge", "merge dependency"}
        /\ Merges(t, title) /\ Goto(t, where)
  <2>1. place[t] \in Loading /\ place[t] = "merge dependency" => launch[t].dependency \in Sysmodules
    BY DEF Merge, FollowInv, TitlesKnown
  <2> QED
    BY <2>1 DEF Merge, FollowInv, TitlesKnown, Loading, Midway, Titles
<1>3. PICK l \in LaunchData :
        /\ launch' = [launch EXCEPT ![t] = l]
        /\ l.process = launch[t].process /\ l.flags = launch[t].flags
  BY <1>2, MergesKeeps
<1>4. Quiet
  BY <1>1, <1>2, MergesKeeps, KernelSame, QuietData
<1>5. SoloMayBe(t, where, l)
  BY <1>2, <1>3, SoloMidway DEF Midway
<1> QED
  BY <1>2, <1>3, <1>4, <1>5, SoloLaunch

\* Dependencies that are found are counted.
LEMMA SoloMerged ==
  ASSUME FollowInv, SoloInv, NEW t \in Launchers, Merged(t)
  PROVE  SoloInv'
<1> DEFINE l == launch'[t]
<1>1. launch[t] \in LaunchData /\ place[t] = "merged" /\ launch' = [launch EXCEPT ![t] = l]
      /\ (l = launch[t] \/ l = [launch[t] EXCEPT !.unique = {}])
  BY DEF FollowInv, PmShape, Merged
<1> HIDE DEF l
<1>2. l.process = launch[t].process /\ l.flags = launch[t].flags
  BY <1>1 DEF LaunchData
<1>3. SoloMayBe(t, "dependencies", l)
  BY <1>1, <1>2, SoloMidway DEF Midway
<1>4. UNCHANGED <<kernel, managerVars>> /\ Goto(t, "dependencies")
  BY DEF Merged, managerVars, otherVars
<1>5. Quiet
  BY <1>4, MergedMild, KernelSame, QuietData
<1> QED
  BY <1>1, <1>3, <1>4, <1>5, SoloLaunch

\* A dependency that was loaded is run.
LEMMA SoloRunDependency ==
  ASSUME FollowInv, SoloInv, NEW t \in Launchers, RunDependency(t)
  PROVE  SoloInv'
<1> DEFINE p == launch[t].procs[launch[t].dependency]
<1>1. /\ place[t] = "run dependency" /\ UNCHANGED <<data, managerVars>>
      /\ kernel \in [Pids -> {"none", "created", "running", "dead"}]
  BY DEF RunDependency, managerVars, otherVars, FollowInv, PmShape
<1>2. /\ p \in Pids /\ ~Application(p)
      /\ \A u \in Launchers : place[u] \in Midway => p # launch[u].process
  BY <1>1 DEF SoloInv, ProcessesApart
<1>3. CASE kernel[p] = "created"
  <2>1. /\ Goto(t, "flag dependency") /\ launch' = [launch EXCEPT ![t] = launch[t]]
        /\ kernel' = [kernel EXCEPT ![p] = "running"]
    BY <1>3 DEF RunDependency, FollowInv, PmShape
  <2> HIDE DEF p
  <2>2. Quiet
    BY <1>1, <1>2, <2>1 DEF Quiet, Application, SoloInv, LaunchesApart, managerVars
  <2>3. SoloMayBe(t, "flag dependency", launch[t])
    BY <1>1, SoloMidway DEF Midway
  <2> QED
    BY <2>1, <2>2, <2>3, SoloLaunch
<1>4. CASE kernel[p] # "created"
  <2>1. /\ Goto(t, "idle") /\ launch' = [launch EXCEPT ![t] = NoLaunch]
        /\ kernel' = Killed(kernel, {launch[t].process})
    BY <1>4 DEF RunDependency, Forgotten
  <2>2. Quiet
    BY <1>1, <2>1, QuietKilled
  <2> QED
    BY <2>1, <2>2, SoloIdle, SoloLaunch
<1> QED
  BY <1>3, <1>4

\* A dependency gets its references.
LEMMA SoloFlagDependency ==
  ASSUME FollowInv, SoloInv, NEW t \in Launchers, FlagDependency(t)
  PROVE  SoloInv'
<1> DEFINE l == launch'[t]
           d == launch[t].dependency
           counts == [launch[t].remrefcounts EXCEPT ![d] = 0]
<1>1. /\ launch[t] \in LaunchData /\ place[t] = "flag dependency"
      /\ launch' = [launch EXCEPT ![t] = [launch[t] EXCEPT !.remrefcounts = counts]]
  BY DEF FollowInv, PmShape, FlagDependency
<1> HIDE DEF counts
<1>2. launch' = [launch EXCEPT ![t] = l] /\ l = [launch[t] EXCEPT !.remrefcounts = counts]
  BY <1>1 DEF FollowInv, PmShape
<1> HIDE DEF l
<1>3. l.process = launch[t].process /\ l.flags = launch[t].flags
  BY <1>1, <1>2 DEF LaunchData
<1>4. SoloMayBe(t, "merge dependency", l)
  BY <1>1, <1>3, SoloMidway DEF Midway
<1>5. UNCHANGED <<kernel, managerVars>> /\ Goto(t, "merge dependency")
  BY DEF FlagDependency, managerVars, otherVars
<1>6. Quiet
  BY <1>5, FlagDependencyMild, KernelSame, QuietData
<1> QED
  BY <1>2, <1>4, <1>5, <1>6, SoloLaunch
\* A process that is loaded is nobody else's.
LEMMA SoloLoaded ==
  ASSUME FollowInv, SoloInv, NEW t \in Launchers, place[t] \in Loading, Unloaded # {},
         NEW title \in Titles, NEW flags \in SUBSET LaunchFlags,
         "NOTIFY_TERMINATION" \in flags => "NORMAL_APPLICATION" \in flags,
         LoadedAs(t, NextDependency(Unloaded), title, flags),
         NEW where \in Midway, NEW l, Goto(t, where), launch' = [launch EXCEPT ![t] = l],
         l.flags = launch[t].flags,
         \/ l.process = NextDependency(Unloaded) /\ where # "run dependency"
         \/ /\ place[t] \in Midway /\ l.process = launch[t].process
            /\ l.procs[l.dependency] = NextDependency(Unloaded)
  PROVE  SoloInv'
<1> DEFINE p == NextDependency(Unloaded)
           new == Loaded(title, flags)
<1>1. p \in Pids /\ kernel[p] = "none"
  BY NextUnloaded
<1>2. new.flags = {} /\ new.launchFlags = flags
  BY DEF Loaded, NoProcess
<1>3. /\ data' = [data EXCEPT ![p] = new] /\ kernel' = [kernel EXCEPT ![p] = "created"]
      /\ UNCHANGED <<runningApplicationData, debugData>>
  BY DEF LoadedAs, otherVars
<1>4. \/ l.process = p /\ where # "run dependency"
      \/ /\ place[t] \in Midway /\ l.process = launch[t].process
         /\ l.procs[l.dependency] = p
  OBVIOUS
<1> HIDE DEF p, new
<1>5. /\ data'[p] = new /\ kernel'[p] = "created"
      /\ \A q \in Pids : q # p => data'[q] = data[q] /\ kernel'[q] = kernel[q]
  BY <1>1, <1>3 DEF FollowInv, PmShape
<1>6. /\ place'[t] = where /\ launch'[t] = l
      /\ \A u \in Launchers : u # t => place'[u] = place[u] /\ launch'[u] = launch[u]
  BY GotoMoves DEF Stays
<1>7. "service" \in Launchers /\ "runner" \in Launchers /\ where \in Loading
  BY DEF Launchers, Loading
<1>8. LaunchesApart'
  <2>1. debugData' = NULL
    BY <1>3 DEF SoloInv, LaunchesApart
  <2>2. \A u \in Launchers : launch'[u].flags = launch[u].flags
    BY <1>6
  <2>3. \A q \in Pids : "NOTIFY_TERMINATION" \in data'[q].launchFlags =>
          "NORMAL_APPLICATION" \in data'[q].launchFlags
    BY <1>2, <1>5 DEF SoloInv, LaunchesApart
  <2>4. place'["service"] \in {"check"} \cup Loading =>
          "NORMAL_APPLICATION" \notin launch'["service"].flags
    BY <1>6, <1>7, <2>2 DEF SoloInv, LaunchesApart
  <2>5. place'["runner"] \in Loading /\ "NORMAL_APPLICATION" \in launch'["runner"].flags =>
          runningApplicationData' = NULL
    BY <1>3, <1>6, <1>7, <2>2 DEF SoloInv, LaunchesApart
  <2> QED
    BY <2>1, <2>2, <2>3, <2>4, <2>5 DEF SoloInv, LaunchesApart
<1>9. ASSUME NEW u \in Launchers, place[u] \in Midway
      PROVE  launch[u].process \in Pids /\ launch[u].process # p
  BY <1>1, <1>9 DEF FollowInv, LaunchedListed
<1>10. ASSUME NEW u \in Launchers, place'[u] \in Midway
       PROVE  \/ /\ place[u] \in Midway /\ launch'[u].process = launch[u].process
                 /\ launch[u].process \in Pids /\ launch[u].process # p
              \/ u = t /\ launch'[u].process = p /\ where # "run dependency"
  BY <1>4, <1>6, <1>9, <1>10
<1>11. ProcessesApart'
  <2>1. ASSUME NEW u \in Launchers, place'[u] \in Midway
        PROVE  /\ kernel'[launch'[u].process] # "running"
               /\ "NORMAL_APPLICATION" \in data'[launch'[u].process].flags =>
                    "NORMAL_APPLICATION" \in launch'[u].flags
    <3>1. CASE launch'[u].process = p
      BY <1>2, <1>5, <3>1
    <3>2. CASE /\ place[u] \in Midway /\ launch'[u].process = launch[u].process
               /\ launch[u].process \in Pids /\ launch[u].process # p
      <4> DEFINE q == launch[u].process
      <4>1. kernel[q] # "running" /\ (Application(q) => "NORMAL_APPLICATION" \in launch[u].flags)
        BY <3>2 DEF SoloInv, ProcessesApart
      <4>2. kernel'[q] = kernel[q] /\ data'[q] = data[q]
        BY <1>5, <3>2
      <4>3. launch'[u].flags = launch[u].flags
        BY <1>6
      <4> HIDE DEF q
      <4> QED
        BY <3>2, <4>1, <4>2, <4>3 DEF Application, q
    <3> QED
      BY <1>10, <2>1, <3>1, <3>2
  <2>2. place'["service"] \in Midway /\ place'["runner"] \in Midway =>
          launch'["service"].process # launch'["runner"].process
    BY <1>7, <1>10 DEF SoloInv, ProcessesApart
  <2>3. ASSUME NEW u \in Launchers, place'[u] = "run dependency"
        PROVE  LET q == launch'[u].procs[launch'[u].dependency]
               IN  /\ q \in Pids /\ kernel'[q] # "none" /\ "NORMAL_APPLICATION" \notin data'[q].flags
                   /\ \A w \in Launchers : place'[w] \in Midway => q # launch'[w].process
    <3>1. CASE u = t
      <4>1. place[t] \in Midway /\ l.process = launch[t].process /\ l.procs[l.dependency] = p
        BY <1>4, <1>6, <2>3, <3>1
      <4>2. ASSUME NEW w \in Launchers, place'[w] \in Midway
            PROVE  p # launch'[w].process
        BY <1>6, <1>9, <1>10, <2>3, <3>1, <4>1, <4>2
      <4>3. launch'[u].procs[launch'[u].dependency] = p
        BY <1>6, <3>1, <4>1
      <4>4. kernel'[p] # "none" /\ "NORMAL_APPLICATION" \notin data'[p].flags
        BY <1>2, <1>5
      <4> QED
        BY <1>1, <4>2, <4>3, <4>4
    <3>2. CASE u # t
      <4> DEFINE q == launch[u].procs[launch[u].dependency]
      <4>1. place[u] = "run dependency" /\ launch'[u] = launch[u]
        BY <1>6, <2>3, <3>2
      <4>2. /\ q \in Pids /\ kernel[q] # "none" /\ ~Application(q)
            /\ \A w \in Launchers : place[w] \in Midway => q # launch[w].process
        BY <4>1 DEF SoloInv, ProcessesApart
      <4> HIDE DEF q
      <4>3. q # p /\ kernel'[q] = kernel[q] /\ data'[q] = data[q]
        BY <1>1, <1>5, <4>2
      <4>4. \A w \in Launchers : place'[w] \in Midway => q # launch'[w].process
        BY <1>10, <4>2, <4>3
      <4> QED
        BY <4>1, <4>2, <4>3, <4>4 DEF Application, q
    <3> QED
      BY <3>1, <3>2
  <2> QED
    BY <2>1, <2>2, <2>3 DEF ProcessesApart, Application
<1>12. RunningKnown'
  <2>1. \A q \in Pids : kernel'[q] = "running" => q # p /\ kernel[q] = "running"
    BY <1>5
  <2>2. \A q \in Pids : data[q].flags \cap Reported = {} => data'[q].flags \cap Reported = {}
    BY <1>2, <1>5
  <2> QED
    BY <1>3, <1>5, <2>1, <2>2 DEF SoloInv, RunningKnown, Application
<1> QED
  BY <1>8, <1>11, <1>12 DEF SoloInv

\* The process of the title is nobody else's.
LEMMA SoloLoad ==
  ASSUME FollowInv, SoloInv, NEW t \in Launchers, Load(t)
  PROVE  SoloInv'
<1> DEFINE p == NextDependency(Unloaded)
           l == [launch[t] EXCEPT !.process = p]
<1>1. /\ place[t] = "load" /\ Unloaded # {} /\ LoadedAs(t, p, launch[t].title, launch[t].flags)
      /\ launch' = [launch EXCEPT ![t] = l] /\ Goto(t, "register")
  BY DEF Load, FollowInv, PmShape
<1>2. launch[t] \in LaunchData /\ launch[t].title \in Titles /\ launch[t].flags \in SUBSET LaunchFlags
  BY <1>1 DEF FollowInv, PmShape, TitlesKnown, LaunchData, Loading
<1>3. "NOTIFY_TERMINATION" \in launch[t].flags => "NORMAL_APPLICATION" \in launch[t].flags
  BY DEF SoloInv, LaunchesApart
<1> HIDE DEF p
<1>4. l.flags = launch[t].flags /\ l.process = p
  BY <1>2 DEF LaunchData
<1> HIDE DEF l
<1>5. place[t] \in Loading /\ "register" \in Midway
  BY <1>1 DEF Loading, Midway
<1> QED
  BY <1>1, <1>2, <1>3, <1>4, <1>5, SoloLoaded DEF p

\* The process of a dependency is nobody else's.
LEMMA SoloLoadDependency ==
  ASSUME FollowInv, SoloInv, NEW t \in Launchers, NEW d \in Sysmodules, LoadDependency(t, d)
  PROVE  SoloInv'
<1> DEFINE p == NextDependency(Unloaded)
           procs == [launch[t].procs EXCEPT ![d] = p]
           l == [launch[t] EXCEPT !.procs = procs, !.dependency = d]
<1>1. /\ place[t] = "dependencies" /\ Unloaded # {} /\ LoadedAs(t, p, d, {})
      /\ launch' = [launch EXCEPT ![t] = l] /\ Goto(t, "run dependency")
  BY DEF LoadDependency, FollowInv, PmShape
<1>2. launch[t] \in LaunchData /\ launch[t].procs \in [Titles -> Pids \cup {NULL}] /\ d \in Titles
  BY <1>1 DEF FollowInv, PmShape, LaunchData, Titles
<1> HIDE DEF p
<1>3. procs[d] = p
  BY <1>2
<1> HIDE DEF procs
<1>4. /\ l.flags = launch[t].flags /\ l.process = launch[t].process /\ l.dependency = d
      /\ l.procs = procs
  BY <1>2 DEF LaunchData
<1> HIDE DEF l
<1>5. /\ place[t] \in Loading /\ place[t] \in Midway /\ "run dependency" \in Midway
      /\ {} \in SUBSET LaunchFlags /\ l.procs[l.dependency] = p
  BY <1>1, <1>3, <1>4 DEF Loading, Midway
<1> QED
  BY <1>1, <1>2, <1>4, <1>5, SoloLoaded DEF p

\* The process of a launch becomes an application.
LEMMA SoloRegister ==
  ASSUME FollowInv, SoloInv, NEW t \in Launchers, Register(t)
  PROVE  SoloInv'
<1> DEFINE p == launch[t].process
           fs == data[p].flags \cup (launch[t].flags \cap {"NORMAL_APPLICATION"})
           where == IF {"LOAD_DEPENDENCIES", "NORMAL_APPLICATION"} \cap launch[t].flags # {}
                      THEN "merge" ELSE "dependencies"
<1>1. /\ place[t] = "register" /\ data \in [Pids -> ProcessData] /\ p \in Pids
      /\ kernel[p] # "running" /\ Goto(t, where) /\ launch' = [launch EXCEPT ![t] = launch[t]]
      /\ data' = [data EXCEPT ![p].flags = fs]
      /\ UNCHANGED <<kernel, runningApplicationData, debugData>>
  BY DEF Register, FollowInv, PmShape, LaunchedListed, SoloInv, ProcessesApart, Midway, otherVars
<1>2. where \in {"merge", "dependencies"}
  OBVIOUS
<1> HIDE DEF where
<1>3. /\ place'[t] = where /\ launch'[t] = launch[t]
      /\ \A u \in Launchers : u # t => place'[u] = place[u] /\ launch'[u] = launch[u]
  BY <1>1, GotoMoves DEF Stays
<1>4. /\ \A u \in Launchers : launch'[u] = launch[u]
      /\ \A u \in Launchers : place'[u] \in Midway <=> place[u] \in Midway
      /\ \A u \in Launchers : place'[u] \in Loading <=> place[u] \in Loading
      /\ \A u \in Launchers : place'[u] = "check" => place[u] = "check"
      /\ \A u \in Launchers : place'[u] = "run dependency" => u # t /\ place[u] = "run dependency"
  BY <1>1, <1>2, <1>3 DEF Midway, Loading
<1>5. ASSUME NEW q \in Pids
      PROVE  /\ data'[q].launchFlags = data[q].launchFlags
             /\ data[q].flags \cap Reported = {} => data'[q].flags \cap Reported = {}
             /\ "NORMAL_APPLICATION" \in data'[q].flags =>
                  Application(q) \/ (q = p /\ "NORMAL_APPLICATION" \in launch[t].flags)
  <2> HIDE DEF p, fs
  <2>1. data[q] \in ProcessData
    BY <1>1
  <2>2. CASE q # p
    BY <1>1, <2>2 DEF Application
  <2>3. CASE q = p
    <3>1. data'[q] = [data[q] EXCEPT !.flags = fs]
      BY <1>1, <2>3
    <3>2. data'[q].flags = fs /\ data'[q].launchFlags = data[q].launchFlags
      BY <2>1, <3>1 DEF ProcessData
    <3> QED
      BY <2>3, <3>2 DEF Application, Reported, fs
  <2> QED
    BY <2>2, <2>3
<1> HIDE DEF p
<1>6. "service" \in Launchers /\ "runner" \in Launchers
  BY DEF Launchers
<1>7. LaunchesApart'
  BY <1>1, <1>4, <1>5, <1>6 DEF SoloInv, LaunchesApart
<1>8. ASSUME NEW u \in Launchers, place[u] \in Midway, u # t
      PROVE  launch[u].process \in Pids /\ launch[u].process # p
  <2>1. place[t] \in Midway
    BY <1>1 DEF Midway
  <2>2. launch[u].process # launch[t].process
    BY <1>8, <2>1 DEF SoloInv, ProcessesApart, Launchers
  <2> QED
    BY <1>8, <2>2 DEF FollowInv, LaunchedListed, p
<1>9. ProcessesApart'
  <2>1. ASSUME NEW u \in Launchers, place'[u] \in Midway
        PROVE  /\ kernel'[launch'[u].process] # "running"
               /\ "NORMAL_APPLICATION" \in data'[launch'[u].process].flags =>
                    "NORMAL_APPLICATION" \in launch'[u].flags
    <3> DEFINE q == launch[u].process
    <3>1. place[u] \in Midway /\ launch'[u] = launch[u]
      BY <1>4, <2>1
    <3>2. /\ q \in Pids /\ kernel[q] # "running"
          /\ Application(q) => "NORMAL_APPLICATION" \in launch[u].flags
      BY <3>1 DEF SoloInv, ProcessesApart, FollowInv, LaunchedListed
    <3>3. q = p => u = t
      BY <1>8, <3>1
    <3> HIDE DEF q
    <3>4. "NORMAL_APPLICATION" \in data'[q].flags => "NORMAL_APPLICATION" \in launch[u].flags
      BY <1>5, <3>2, <3>3
    <3> QED
      BY <1>1, <3>1, <3>2, <3>4 DEF q
  <2>2. place'["service"] \in Midway /\ place'["runner"] \in Midway =>
          launch'["service"].process # launch'["runner"].process
    BY <1>4, <1>6 DEF SoloInv, ProcessesApart
  <2>3. ASSUME NEW u \in Launchers, place'[u] = "run dependency"
        PROVE  LET q == launch'[u].procs[launch'[u].dependency]
               IN  /\ q \in Pids /\ kernel'[q] # "none" /\ "NORMAL_APPLICATION" \notin data'[q].flags
                   /\ \A w \in Launchers : place'[w] \in Midway => q # launch'[w].process
    <3> DEFINE q == launch[u].procs[launch[u].dependency]
    <3>1. place[u] = "run dependency" /\ launch'[u] = launch[u]
      BY <1>4, <2>3
    <3>2. /\ q \in Pids /\ kernel[q] # "none" /\ ~Application(q)
          /\ \A w \in Launchers : place[w] \in Midway => q # launch[w].process
      BY <3>1 DEF SoloInv, ProcessesApart
    <3> HIDE DEF q
    <3>3. q # p
      BY <1>1, <3>2 DEF p, Midway
    <3>4. "NORMAL_APPLICATION" \notin data'[q].flags
      BY <1>5, <3>2, <3>3
    <3>5. \A w \in Launchers : place'[w] \in Midway => q # launch'[w].process
      BY <1>4, <3>2
    <3> QED
      BY <1>1, <3>1, <3>2, <3>4, <3>5 DEF q
  <2> QED
    BY <2>1, <2>2, <2>3 DEF ProcessesApart, Application
<1>10. RunningKnown'
  <2>1. \A q \in Pids : kernel'[q] = "running" => kernel[q] = "running" /\ q # p
    BY <1>1 DEF p
  <2> QED
    BY <1>1, <1>5, <2>1 DEF SoloInv, RunningKnown, Application
<1> QED
  BY <1>7, <1>9, <1>10 DEF SoloInv
\* The process of a launch is run: if it is an application, it is the only one.
LEMMA SoloRun ==
  ASSUME FollowInv, SoloInv, NEW t \in Launchers, Run(t)
  PROVE  SoloInv'
<1> DEFINE p == launch[t].process
           fs == data[p].flags \cup (launch[t].flags \cap {"NOTIFY_TERMINATION"})
           app == "NORMAL_APPLICATION" \in launch[t].flags
<1>1. /\ data \in [Pids -> ProcessData] /\ p \in Pids /\ place[t] = "dependencies"
      /\ kernel \in [Pids -> {"none", "created", "running", "dead"}]
      /\ runningApplicationData \in Pids \cup {NULL}
  BY DEF Run, FollowInv, PmShape, LaunchedListed, Midway
<1>2. /\ "QUEUE_DEBUG_APPLICATION" \notin launch[t].flags /\ debugData = NULL
      /\ "NOTIFY_TERMINATION" \in launch[t].flags => app
      /\ Application(p) => app
  BY <1>1 DEF SoloInv, LaunchesApart, ProcessesApart, Midway
<1>3. /\ launch' = [launch EXCEPT ![t] = NoLaunch] /\ Goto(t, "idle") /\ debugData' = NULL
      /\ kernel[p] # "created" =>
           /\ kernel' = Killed(kernel, {p}) /\ data' = data
           /\ runningApplicationData' = runningApplicationData
      /\ kernel[p] = "created" =>
           /\ kernel' = [kernel EXCEPT ![p] = "running"] /\ data' = [data EXCEPT ![p].flags = fs]
           /\ runningApplicationData' = IF app THEN p ELSE runningApplicationData
  BY <1>1, <1>2 DEF Run, Forgotten
<1>4. CASE kernel[p] # "created"
  <2>1. Quiet
    BY <1>2, <1>3, <1>4, QuietKilled DEF managerVars
  <2> QED
    BY <1>3, <2>1, SoloIdle, SoloLaunch
<1>5. CASE kernel[p] = "created"
  <2>1. ASSUME NEW q \in Pids
        PROVE  /\ data'[q].launchFlags = data[q].launchFlags
               /\ "NORMAL_APPLICATION" \in data'[q].flags <=> Application(q)
               /\ q # p \/ ~app => data'[q].flags = data[q].flags
               /\ q # p => kernel'[q] = kernel[q]
    <3>1. /\ data[q] \in ProcessData /\ data' = [data EXCEPT ![p].flags = fs]
          /\ kernel' = [kernel EXCEPT ![p] = "running"]
      BY <1>1, <1>3, <1>5
    <3>2. ~app => fs = data[p].flags
      BY <1>2
    <3>3. "NORMAL_APPLICATION" \in fs <=> Application(p)
      BY DEF Application
    <3> HIDE DEF p, fs, app
    <3>4. CASE q # p
      BY <1>1, <3>1, <3>4 DEF Application
    <3>5. CASE q = p
      <4>1. data'[q] = [data[q] EXCEPT !.flags = fs]
        BY <1>1, <3>1, <3>5
      <4>2. data'[q].flags = fs /\ data'[q].launchFlags = data[q].launchFlags
        BY <3>1, <4>1 DEF ProcessData
      <4> QED
        BY <3>2, <3>3, <3>5, <4>2
    <3> QED
      BY <3>4, <3>5
  <2>2. /\ kernel'[p] = "running"
        /\ runningApplicationData' = IF app THEN p ELSE runningApplicationData
    BY <1>1, <1>3, <1>5
  <2>3. /\ place'[t] = "idle" /\ launch'[t] = NoLaunch
        /\ \A u \in Launchers : u # t => place'[u] = place[u] /\ launch'[u] = launch[u]
    BY <1>3, GotoMoves DEF Stays
  <2>4. /\ "service" \in Launchers /\ "runner" \in Launchers
        /\ t = "service" \/ t = "runner"
        /\ place[t] \in Midway /\ place[t] \in Loading
        /\ place'[t] \notin Midway /\ place'[t] \notin Loading
    BY <1>1, <2>3 DEF Launchers, Midway, Loading
  <2>5. t = "service" => ~app
    BY <2>4 DEF SoloInv, LaunchesApart
  <2>6. t = "runner" /\ app => runningApplicationData = NULL
    BY <2>4 DEF SoloInv, LaunchesApart
  <2> HIDE DEF app
  <2>7. LaunchesApart'
    <3>1. \A u \in Launchers :
            /\ "QUEUE_DEBUG_APPLICATION" \notin launch'[u].flags
            /\ "NOTIFY_TERMINATION" \in launch'[u].flags => "NORMAL_APPLICATION" \in launch'[u].flags
      BY <2>3 DEF SoloInv, LaunchesApart, NoLaunch
    <3>2. place'["service"] \in {"check"} \cup Loading =>
            "NORMAL_APPLICATION" \notin launch'["service"].flags
      BY <2>3, <2>4 DEF SoloInv, LaunchesApart
    <3>3. place'["runner"] \in Loading /\ "NORMAL_APPLICATION" \in launch'["runner"].flags =>
            runningApplicationData' = NULL
      BY <2>2, <2>3, <2>4, <2>5 DEF SoloInv, LaunchesApart
    <3> QED
      BY <1>3, <2>1, <3>1, <3>2, <3>3 DEF SoloInv, LaunchesApart
  <2>8. ASSUME NEW u \in Launchers, place'[u] \in Midway
        PROVE  /\ u # t /\ place[u] \in Midway /\ launch'[u] = launch[u]
               /\ launch[u].process \in Pids /\ launch[u].process # p
    <3>1. u # t /\ place[u] \in Midway /\ launch'[u] = launch[u]
      BY <2>3, <2>4, <2>8
    <3>2. launch[u].process # launch[t].process
      <4>1. (u = "service" /\ t = "runner") \/ (u = "runner" /\ t = "service")
        BY <2>4, <3>1 DEF Launchers
      <4>2. place["service"] \in Midway /\ place["runner"] \in Midway
        BY <2>4, <3>1, <4>1
      <4>3. launch["service"].process # launch["runner"].process
        BY <4>2 DEF SoloInv, ProcessesApart
      <4> QED
        BY <4>1, <4>3
    <3> QED
      BY <3>1, <3>2 DEF FollowInv, LaunchedListed
  <2>9. ProcessesApart'
    <3>1. ASSUME NEW u \in Launchers, place'[u] \in Midway
          PROVE  /\ kernel'[launch'[u].process] # "running"
                 /\ "NORMAL_APPLICATION" \in data'[launch'[u].process].flags =>
                      "NORMAL_APPLICATION" \in launch'[u].flags
      <4> DEFINE q == launch[u].process
      <4>1. place[u] \in Midway /\ launch'[u] = launch[u] /\ q \in Pids /\ q # p
        BY <2>8, <3>1
      <4>2. kernel[q] # "running" /\ (Application(q) => "NORMAL_APPLICATION" \in launch[u].flags)
        BY <4>1 DEF SoloInv, ProcessesApart
      <4> HIDE DEF q
      <4> QED
        BY <2>1, <4>1, <4>2 DEF q
    <3>2. place'["service"] \in Midway /\ place'["runner"] \in Midway =>
            launch'["service"].process # launch'["runner"].process
      BY <2>4, <2>8
    <3>3. ASSUME NEW u \in Launchers, place'[u] = "run dependency"
          PROVE  LET q == launch'[u].procs[launch'[u].dependency]
                 IN  /\ q \in Pids /\ kernel'[q] # "none"
                     /\ "NORMAL_APPLICATION" \notin data'[q].flags
                     /\ \A w \in Launchers : place'[w] \in Midway => q # launch'[w].process
      <4> DEFINE q == launch[u].procs[launch[u].dependency]
      <4>1. place[u] = "run dependency" /\ launch'[u] = launch[u]
        BY <2>3, <3>3
      <4>2. /\ q \in Pids /\ kernel[q] # "none" /\ ~Application(q)
            /\ \A w \in Launchers : place[w] \in Midway => q # launch[w].process
        BY <4>1 DEF SoloInv, ProcessesApart
      <4> HIDE DEF q
      <4>3. q # p
        BY <2>4, <4>2
      <4>4. kernel'[q] # "none" /\ "NORMAL_APPLICATION" \notin data'[q].flags
        BY <2>1, <4>2, <4>3
      <4>5. \A w \in Launchers : place'[w] \in Midway => q # launch'[w].process
        BY <2>8, <4>2
      <4> QED
        BY <4>1, <4>2, <4>4, <4>5 DEF q
    <3> QED
      BY <3>1, <3>2, <3>3 DEF ProcessesApart, Application
  <2> HIDE DEF p
  <2>10. ASSUME NEW x \in Pids, kernel'[x] = "running", "NORMAL_APPLICATION" \in data'[x].flags
         PROVE  /\ x = runningApplicationData'
                /\ \A q \in Pids : x < q => data'[q].flags \cap Reported = {}
    <3>1. Application(x)
      BY <2>1, <2>10
    <3>2. CASE x = p
      <4>1. app /\ t = "runner"
        BY <1>2, <2>4, <2>5, <3>1, <3>2
      <4>2. \A q \in Pids : p < q => data[q].flags \cap Reported = {}
        BY <2>4, <4>1 DEF FollowInv, ReportedByRunner, p
      <4>3. \A q \in Pids : p < q => q # p
        BY <1>1, PidsTyped
      <4> QED
        BY <2>1, <2>2, <3>2, <4>1, <4>2, <4>3
    <3>3. CASE x # p
      <4>1. kernel[x] = "running"
        BY <2>1, <2>10, <3>3
      <4>2. x = runningApplicationData /\ \A q \in Pids : x < q => data[q].flags \cap Reported = {}
        BY <3>1, <4>1 DEF SoloInv, RunningKnown
      <4>3. ~app
        BY <2>4, <2>5, <2>6, <4>2, PidsTyped
      <4> QED
        BY <2>1, <2>2, <4>2, <4>3
    <3> QED
      BY <3>2, <3>3
  <2>11. RunningKnown'
    BY <2>10 DEF RunningKnown, Application
  <2> QED
    BY <2>7, <2>9, <2>11 DEF SoloInv
<1> QED
  BY <1>4, <1>5

\* Every step of a launch.
LEMMA SoloLaunching ==
  ASSUME FollowInv, SoloInv, NEW t \in Launchers, Launching(t)
  PROVE  SoloInv'
BY SoloLaunchTitle, SoloFoundProcess, SoloCheck, SoloLoad, SoloFailsToLoad, SoloRegister, SoloMerge,
   SoloMerged, SoloLoadDependency, SoloRunDependency, SoloFlagDependency, SoloRun DEF Launching

\* A step of a termination is quiet.
LEMMA SoloTerminating ==
  ASSUME FollowInv, SoloInv, Quiet, NEW t \in Launchers,
         NEW where \in TerminatingAt \cup {"idle", "await"}, Goto(t, where), UNCHANGED launch
  PROVE  SoloInv'
<1>1. launch' = [launch EXCEPT ![t] = launch[t]]
  BY DEF FollowInv, PmShape
<1>2. SoloMayBe(t, where, launch[t])
  BY DEF SoloMayBe, SoloInv, LaunchesApart, TerminatingAt, Loading, Midway
<1> QED
  BY <1>1, <1>2, SoloLaunch

\* Every step of a termination.
LEMMA SoloTerminates ==
  ASSUME FollowInv, SoloInv, NEW t \in Launchers, Terminates(t)
  PROVE  SoloInv'
<1>1. PICK where \in TerminatingAt \cup {"idle", "await"} : Goto(t, where)
  BY DEF Terminates, TerminationBegins, Notify, Commit, AllEnded, TimesOut, Committed, TerminatingAt
<1>2. UNCHANGED <<launch, managerVars>>
  BY DEF Terminates, TerminationBegins, Notify, Commit, AllEnded, TimesOut, Committed, managerVars
<1>3. Quiet
  <2>1. CASE Notify(t)
    <3>1. kernel' = kernel
      BY <2>1 DEF Notify
    <3> QED
      BY <1>2, <2>1, <3>1, NotifyMild, KernelSame, QuietData
  <2>2. CASE Commit(t) \/ TimesOut(t)
    <3>1. UNCHANGED <<data, managerVars>> /\ \E ps : kernel' = Killed(kernel, ps)
      BY <1>2, <2>2 DEF Commit, TimesOut
    <3> QED
      BY <3>1, QuietKilled
  <2>3. CASE TerminationBegins(t) \/ AllEnded(t) \/ Committed(t)
    <3>1. UNCHANGED <<data, kernel, managerVars>>
      BY <2>3 DEF TerminationBegins, AllEnded, Committed, processVars, managerVars
    <3> QED
      BY <3>1, MildSame, KernelSame, QuietData
  <2> QED
    BY <2>1, <2>2, <2>3 DEF Terminates
<1> QED
  BY <1>1, <1>2, <1>3, SoloTerminating

\* The requests that end processes.
LEMMA SoloEndRequests ==
  ASSUME FollowInv, SoloInv,
         \/ \E p \in Pids, waits \in BOOLEAN : AsksToTerminate(p, waits)
         \/ TerminateApplication
         \/ ChainloadHomebrewDirty
  PROVE  SoloInv'
<1>1. UNCHANGED <<data, kernel, managerVars, launch>>
  BY DEF AsksToTerminate, TerminateApplication, ChainloadHomebrewDirty, requestVars, processVars,
         managerVars
<1>2. PICK t \in Launchers : Goto(t, "terminate")
  BY DEF AsksToTerminate, TerminateApplication, ChainloadHomebrewDirty, Launchers
<1>3. Quiet
  BY <1>1, MildSame, KernelSame, QuietData
<1>4. "terminate" \in TerminatingAt \cup {"idle", "await"}
  BY DEF TerminatingAt
<1> QED
  BY <1>1, <1>2, <1>3, <1>4, SoloTerminating

\* The client is answered.
LEMMA SoloPostLaunch ==
  ASSUME FollowInv, SoloInv, PostLaunch
  PROVE  SoloInv'
<1> DEFINE l == [launch["service"] EXCEPT !.process = NULL]
<1>1. /\ place \in [Threads -> Places] /\ launch \in [Launchers -> LaunchData]
      /\ place' = [place EXCEPT !["service"] = "idle", !["runner"] = "check"]
      /\ launch' = [launch EXCEPT !["runner"] = l, !["service"] = NoLaunch]
      /\ UNCHANGED <<data, kernel, managerVars>>
  BY DEF FollowInv, PmShape, PostLaunch, processVars, managerVars, otherVars
<1>2. l.flags = launch["service"].flags
  BY <1>1 DEF LaunchData, Launchers
<1> HIDE DEF l
<1>3. /\ place'["service"] = "idle" /\ place'["runner"] = "check"
      /\ launch'["runner"] = l /\ launch'["service"] = NoLaunch
  BY <1>1 DEF Launchers, Threads
<1>4. Quiet
  BY <1>1, MildSame, KernelSame, QuietData
<1>5. Moves("service")
  BY <1>3 DEF Moves, NoLaunch, Loading, Midway
<1>6. Moves("runner")
  BY <1>2, <1>3 DEF Moves, SoloInv, LaunchesApart, Launchers, Loading, Midway
<1> QED
  BY <1>4, <1>5, <1>6, QuietStep DEF Launchers

\* A client asks for a launch.
LEMMA SoloAsksToLaunch ==
  ASSUME FollowInv, SoloInv, "debug" \notin Requests,
         NEW title \in Titles, NEW flags \in SUBSET LaunchFlags, AsksToLaunch(title, flags)
  PROVE  SoloInv'
<1> DEFINE l == [NoLaunch EXCEPT !.title = title, !.flags = flags]
<1>1. /\ "service" \in Launchers /\ Goto("service", "launch title")
      /\ launch' = [launch EXCEPT !["service"] = l]
      /\ UNCHANGED <<data, kernel, managerVars>>
  BY DEF AsksToLaunch, Launches, Launchers, requestVars, processVars, managerVars
<1>2. l.flags = flags
  BY LaunchesTyped
<1>3. /\ "QUEUE_DEBUG_APPLICATION" \notin flags
      /\ "NOTIFY_TERMINATION" \in flags => "NORMAL_APPLICATION" \in flags
  <2>1. \/ flags \ {"NOTIFY_TERMINATION"} = {"NORMAL_APPLICATION", "LOAD_DEPENDENCIES"}
        \/ flags = {"LOAD_DEPENDENCIES"}
    BY DEF AsksToLaunch
  <2>2. CASE flags \ {"NOTIFY_TERMINATION"} = {"NORMAL_APPLICATION", "LOAD_DEPENDENCIES"}
    <3>1. \A x : x \in flags \ {"NOTIFY_TERMINATION"} <=> x \in {"NORMAL_APPLICATION", "LOAD_DEPENDENCIES"}
      BY <2>2
    <3> QED
      BY <3>1
  <2> QED
    BY <2>1, <2>2
<1> HIDE DEF l
<1>4. SoloMayBe("service", "launch title", l)
  BY <1>2, <1>3 DEF SoloMayBe, Loading, Midway
<1>5. Quiet
  BY <1>1, MildSame, KernelSame, QuietData
<1> QED
  BY <1>1, <1>4, <1>5, SoloLaunch

\* The task runner launches an application where none runs.
LEMMA SoloChainloads ==
  ASSUME FollowInv, SoloInv, Chainloads
  PROVE  SoloInv'
<1> DEFINE app == data[request["runner"].pid]
           flags == (app.launchFlags \ {"QUEUE_DEBUG_APPLICATION"}) \cup {"FAKE_DEPENDENCY_LOADING"}
           l == [NoLaunch EXCEPT !.title = app.title, !.flags = flags]
<1>1. /\ "runner" \in Launchers /\ place["runner"] = "await" /\ Goto("runner", "launch title")
      /\ launch' = [launch EXCEPT !["runner"] = l]
      /\ UNCHANGED <<data, kernel, managerVars>>
  BY DEF Chainloads, Launches, Launchers, processVars, managerVars
<1>2. request["runner"].pid \in Pids
  BY <1>1 DEF FollowInv, PmShape, TitlesKnown, RequestData
<1>3. "NOTIFY_TERMINATION" \in app.launchFlags => "NORMAL_APPLICATION" \in app.launchFlags
  BY <1>2 DEF SoloInv, LaunchesApart
<1> HIDE DEF app
<1>4. l.flags = flags
  BY DEF NoLaunch
<1> HIDE DEF l
<1>5. SoloMayBe("runner", "launch title", l)
  BY <1>3, <1>4 DEF SoloMayBe, Loading, Midway
<1>6. Quiet
  BY <1>1, MildSame, KernelSame, QuietData
<1> QED
  BY <1>1, <1>5, <1>6, SoloLaunch

\* The threads that launch stay where they are.
LEMMA SoloOthers ==
  ASSUME FollowInv, SoloInv, Quiet, \A u \in Launchers : Stays(u)
  PROVE  SoloInv'
BY StaysMoves, QuietStep

\* Processes ask to be notified, and end.
LEMMA SoloProcesses ==
  ASSUME FollowInv, SoloInv, NEW p \in Pids, EnablesNotifications(p) \/ Exits(p)
  PROVE  SoloInv'
<1>1. UNCHANGED <<data, managerVars, place, launch>>
  BY DEF EnablesNotifications, Exits, managerVars
<1>2. Quiet
  <2>1. CASE EnablesNotifications(p)
    BY <1>1, <2>1, MildSame, KernelSame, QuietData DEF EnablesNotifications
  <2>2. CASE Exits(p)
    BY <1>1, <2>2, QuietKilled DEF Exits
  <2> QED
    BY <2>1, <2>2
<1> QED
  BY <1>1, <1>2, SoloOthers DEF Stays

\* The process that is unregistered does not run, if it is an application: a
\* younger one was reported.
LEMMA SoloUnregisterProcess ==
  ASSUME FollowInv, SoloInv, NEW title \in Titles, UnregisterProcess(title)
  PROVE  SoloInv'
<1> DEFINE p == FindProcessByTitleId(title)
<1>1. PICK ended \in Listed : data[ended].title = title /\ data[ended].status = "TERMINATED"
  BY DEF UnregisterProcess
<1>2. p \in Listed /\ data[p].title = title /\ p =< ended
  BY <1>1, FoundIsOldest
<1>3. /\ data' = [data EXCEPT ![p].listed = FALSE]
      /\ runningApplicationData' = IF runningApplicationData = p THEN NULL ELSE runningApplicationData
      /\ debugData' = IF debugData = p THEN NULL ELSE debugData
      /\ UNCHANGED <<kernel, place, launch>>
  BY DEF UnregisterProcess, Takes
<1> HIDE DEF p
<1>4. p \in Pids /\ ended \in Pids /\ Pids \subseteq Int
  BY <1>1, <1>2, PidsTyped DEF Listed
<1>5. kernel[ended] = "dead" /\ data[ended].flags \cap Reported # {}
  BY <1>1, <1>4 DEF FollowInv, StatusTells, Reported
<1>6. ~(kernel[p] = "running" /\ Application(p))
  <2> SUFFICES ASSUME kernel[p] = "running", Application(p) PROVE FALSE
    OBVIOUS
  <2>1. p < ended
    BY <1>2, <1>4, <1>5
  <2> QED
    BY <1>4, <1>5, <2>1 DEF SoloInv, RunningKnown
<1>7. ASSUME NEW q \in Pids
      PROVE  data'[q].launchFlags = data[q].launchFlags /\ data'[q].flags = data[q].flags
  <2>1. data[q] \in ProcessData /\ data \in [Pids -> ProcessData]
    BY DEF FollowInv, PmShape
  <2>2. CASE q # p
    BY <1>3, <2>1, <2>2
  <2>3. CASE q = p
    <3>1. data'[q] = [data[q] EXCEPT !.listed = FALSE]
      BY <1>3, <2>1, <2>3
    <3> QED
      BY <2>1, <3>1 DEF ProcessData
  <2> QED
    BY <2>2, <2>3
<1>8. Quiet
  BY <1>3, <1>6, <1>7 DEF Quiet, Application, SoloInv, LaunchesApart
<1> QED
  BY <1>3, <1>8, SoloOthers DEF Stays

\* The monitor forgets no application that runs.
LEMMA SoloMonitors ==
  ASSUME FollowInv, SoloInv, Monitors
  PROVE  SoloInv'
<1>1. launch' = launch /\ kernel' = kernel /\ \E where : Goto("monitor", where)
  BY DEF Monitors, Rebuild, Signal, WakesForNewProcess, WakesForEnd, CleanDependencies, Clean,
         processVars
<1>2. \A u \in Launchers : Stays(u)
  BY <1>1 DEF Stays, Goto, FollowInv, PmShape, Launchers, Threads
<1>3. CASE Rebuild \/ Signal \/ WakesForNewProcess
  <2>1. UNCHANGED <<data, managerVars>>
    BY <1>3 DEF Rebuild, Signal, WakesForNewProcess, processVars, managerVars
  <2>2. Quiet
    BY <1>1, <2>1, MildSame, KernelSame, QuietData
  <2> QED
    BY <1>2, <2>2, SoloOthers
<1>4. ASSUME NEW p \in Pids, WakesForEnd(p)
      PROVE  SoloInv'
  <2> DEFINE flags == IF "NOTIFY_TERMINATION" \in data[p].flags
                        THEN data[p].flags \cup {"NOTIFY_TERMINATION_TERMINATED"} ELSE data[p].flags
             reported == "NOTIFY_TERMINATION_TERMINATED" \in flags
  <2>1. /\ data \in [Pids -> ProcessData] /\ UNCHANGED managerVars
        /\ \/ data' = data
           \/ data' = [data EXCEPT ![p].status = "TERMINATED", ![p].flags = flags,
                                   ![p].listed = reported]
    BY <1>4 DEF WakesForEnd, FollowInv, PmShape, managerVars
  <2>2. /\ "NORMAL_APPLICATION" \in flags => Application(p)
        /\ data[p].flags \cap Reported = {} => flags \cap Reported = {}
    BY DEF Application, Reported
  <2>3. flags \in SUBSET Flags /\ reported \in BOOLEAN
    BY <2>1 DEF ProcessData, Flags
  <2> HIDE DEF flags, reported
  <2>4. ASSUME NEW q \in Pids
        PROVE  /\ data'[q].launchFlags = data[q].launchFlags
               /\ data'[q].flags = data[q].flags \/ (q = p /\ data'[q].flags = flags)
    <3>1. data[q] \in ProcessData
      BY <2>1
    <3>2. CASE q # p \/ data' = data
      BY <2>1, <3>2
    <3>3. CASE q = p /\ data' = [data EXCEPT ![p].status = "TERMINATED", ![p].flags = flags,
                                             ![p].listed = reported]
      <4>1. data'[p] = [data[p] EXCEPT !.status = "TERMINATED", !.flags = flags,
                                       !.listed = reported]
        BY <2>1, <3>3
      <4>2. data[p] \in ProcessData
        BY <2>1
      <4>3. data'[p].launchFlags = data[p].launchFlags /\ data'[p].flags = flags
        BY <2>3, <4>1, <4>2 DEF ProcessData, Statuses
      <4> QED
        BY <3>3, <4>3
    <3> QED
      BY <2>1, <3>2, <3>3
  <2>5. Quiet
    BY <1>1, <2>1, <2>2, <2>4 DEF Quiet, Application, SoloInv, LaunchesApart, managerVars
  <2> QED
    BY <1>2, <2>5, SoloOthers
<1>5. CASE CleanDependencies
  <2>1. Mild(data, data') /\ Plain(data, data')
    BY <1>5, MildUnused, MildSame DEF CleanDependencies, FollowInv, PmShape
  <2>2. Quiet
    BY <1>1, <1>5, <2>1, KernelSame, QuietData DEF CleanDependencies
  <2> QED
    BY <1>2, <2>2, SoloOthers
<1>6. CASE Clean
  <2>1. /\ data' = data /\ debugData' = NULL
        /\ runningApplicationData' =
             IF runningApplicationData = monitor.pid THEN NULL ELSE runningApplicationData
    BY <1>6 DEF Clean, SoloInv, LaunchesApart
  <2>2. monitor.pid \in Pids => kernel[monitor.pid] = "dead"
    BY PidsTyped DEF FollowInv, ManagersRefer
  <2>3. Quiet
    BY <1>1, <2>1, <2>2 DEF Quiet, Application
  <2> QED
    BY <1>2, <2>3, SoloOthers
<1> QED
  BY <1>3, <1>4, <1>5, <1>6 DEF Monitors

\* Nothing runs at first.
LEMMA SoloInvInit == PmInit => SoloInv
<1> SUFFICES ASSUME PmInit PROVE SoloInv
  OBVIOUS
<1>1. \A p \in Pids : data[p] = NoProcess /\ kernel[p] = "none"
  BY DEF PmInit
<1>2. \A t \in Launchers : place[t] = "idle" /\ launch[t] = NoLaunch
  BY DEF PmInit, Launchers, Threads
<1>3. "service" \in Launchers /\ "runner" \in Launchers
  BY DEF Launchers
<1>4. LaunchesApart
  <2>1. /\ NoProcess.launchFlags = {}
        /\ NoProcess.flags = {}
        /\ NoLaunch.flags = {}
    <3>1. NoProcess.launchFlags = {} /\ NoProcess.flags = {}
      BY DEF NoProcess
    <3>2. NoLaunch.flags = {}
      BY DEF NoLaunch
    <3> QED
      BY <3>1, <3>2
  <2>2. "idle" \notin Loading
    BY DEF Loading, Midway
  <2>3. \A p \in Pids : data[p].launchFlags = {} /\ data[p].flags = {}
    BY <1>1, <2>1
  <2>4. \A t \in Launchers : place[t] = "idle" /\ launch[t].flags = {}
    BY <1>2, <2>1
  <2> QED
    BY <1>1, <1>3, <2>2, <2>3, <2>4 DEF LaunchesApart, PmInit, Midway
<1>5. ProcessesApart
  BY <1>2, <1>3 DEF ProcessesApart, Midway
<1>6. RunningKnown
  BY <1>1 DEF RunningKnown
<1> QED
  BY <1>4, <1>5, <1>6 DEF SoloInv

\* Every step, when no debugger asks.
LEMMA SoloInvNext ==
  ASSUME "debug" \notin Requests, FollowInv, SoloInv, [PmNext]_pmVars
  PROVE  SoloInv'
<1>1. CASE ApplicationsNext
  <2>1. ASSUME NEW t \in Launchers, ThreadSteps(t) PROVE SoloInv'
    BY <2>1, SoloLaunching, SoloTerminates DEF ThreadSteps
  <2> QED
    BY <1>1, <2>1, SoloProcesses, SoloAsksToLaunch, SoloEndRequests, SoloUnregisterProcess,
       SoloPostLaunch, SoloMonitors DEF ApplicationsNext, Launchers
<1>2. ~Debugs
  BY DEF Debugs, Takes
<1>3. CASE ChainloadHomebrewDirty \/ Chainloads
  BY <1>3, SoloEndRequests, SoloChainloads
<1>4. CASE UNCHANGED pmVars
  <2>1. UNCHANGED <<data, kernel, managerVars, place, launch>>
    BY <1>4 DEF pmVars, processVars, managerVars
  <2>2. Quiet
    BY <2>1, MildSame, KernelSame, QuietData
  <2> QED
    BY <2>1, <2>2, SoloOthers DEF Stays
<1> QED
  BY <1>1, <1>2, <1>3, <1>4 DEF PmNext

\* Two applications never run: as long as no debugger launches any, the request
\* is refused or its task stops while an application runs, and the one that
\* runs is not taken for another that has ended.
THEOREM OneApplicationRuns ==
  ASSUME "debug" \notin Requests
  PROVE  PmSpec => []OneApplication
<1>1. PmInit => SoloInv
  BY SoloInvInit
<1>2. FollowInv /\ SoloInv /\ [PmNext]_pmVars => SoloInv'
  BY SoloInvNext
<1>3. SoloInv => OneApplication
  <2> SUFFICES ASSUME SoloInv PROVE OneApplication
    OBVIOUS
  <2> DEFINE apps == {p \in Pids : kernel[p] = "running" /\ "NORMAL_APPLICATION" \in data[p].flags}
  <2>1. apps \subseteq {runningApplicationData}
    BY DEF SoloInv, RunningKnown, Application
  <2>2. apps = {} \/ apps = {runningApplicationData}
    BY <2>1
  <2>3. Cardinality(apps) =< 1
    <3> HIDE DEF apps
    <3>1. CASE apps = {}
      BY <3>1, FS_EmptySet
    <3>2. CASE apps = {runningApplicationData}
      BY <3>2, FS_Singleton
    <3> QED
      BY <2>2, <3>1, <3>2
  <2> QED
    BY <2>3 DEF OneApplication
<1> QED
  BY <1>1, <1>2, <1>3, FollowInvIsInvariant, PTL DEF PmSpec
=============================================================================
