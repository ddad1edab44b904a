---------------------------- MODULE PluginLoader ----------------------------
(***************************************************************************)
(* The plugin loader: plugin/ in rosalina, which keeps the memory of an    *)
(* application's plugin, and the kernel extension, which stops threads of  *)
(* the application at the home menu and at exit until rosalina has moved   *)
(* it.  Rosalina's main thread serves the commands of plg:ldr and the      *)
(* kernel's notification, one at a time; the end of the application is     *)
(* awaited by a task.  A plugin is known by the number of its application. *)
(***************************************************************************)
EXTENDS Naturals

CONSTANTS
  MaxLoads,         \* applications started in a behaviour
  OneAsker,         \* an application has one thread stopped by the kernel at a time
  LaunchAfterTask,  \* none is started before the task for the one before is done
  KillsApps,        \* applications may end without svcExitProcess, or at the home menu
  RemountFails      \* memory read back may fail to be mapped

ASSUME PluginAssumption ==
  MaxLoads \in Nat /\ {OneAsker, LaunchAfterTask, KillsApps, RemountFails} \subseteq BOOLEAN

VARIABLES
  app, game,        \* the last application, and where its threads are
  asks,             \* its threads that wait in PLG_SignalEvent
  signalsOnExit,    \* its flag SignalOnExit
  word,             \* the configuration memory at 0x1FF800F0
  notices,          \* notifications 0x1001 that rosalina has not handled
  wake,             \* signalPluginEvent
  isEnabled, params,      \* settings; params as userLoadParameters, if used
  ctx,              \* of PluginLoaderCtx, what belongs to the application
  block,            \* memblock, where it is mounted and whose data it holds
  swapFile,         \* whose data the file holds
  plgEvent,
  plugin,           \* where the plugin's thread is, in PLGLDR__Status
  locked,           \* bit 0x20 of its threads' scheduling masks
  main, exitTask,   \* where the main thread and WaitForProcessTerminated are
  rebooted

gameVars == <<app, game, asks, signalsOnExit>>
kernelVars == <<word, notices, wake>>
loaderVars == <<isEnabled, params, ctx>>
blockVars == <<block, swapFile, locked>>
plgEventVars == <<plgEvent, plugin>>
mainVars == <<main, exitTask, rebooted>>
plgVars == <<gameVars, kernelVars, loaderVars, blockVars, plgEventVars, mainVars>>

\* Of PLG_STRATEGY_SWAP, and on a New 3DS all, and MODE3, go the way of "none".
Strategies == {"swap", "none"}
NoParams == [strategy |-> "swap", persistent |-> FALSE, used |-> FALSE]
NoBlock == [ready |-> FALSE, mounted |-> 0, data |-> 0]

\* The context as WaitForProcessTerminated leaves it.
FreshCtx == [target |-> 0, swapped |-> FALSE, home |-> FALSE, strategy |-> "swap",
             selfManaged |-> FALSE, swapSet |-> FALSE, menuBlocked |-> FALSE]

Idle == [at |-> "idle", then |-> "reply"]
Status(s) == word' = [status |-> s, events |-> {}]     \* PLG__SetConfigMemoryStatus
WakesThread == wake' = TRUE        \* notification 0x1002, which the kernel catches

-----------------------------------------------------------------------------
(* The application and the kernel extension *)

\* The loader creates a process and asks rosalina for its plugin.
StartsApp ==
  /\ game = "none" /\ app < MaxLoads
  /\ LaunchAfterTask => exitTask = "idle" /\ notices = 0 /\ main.at = "idle"
  /\ app' = app + 1 /\ game' = "loading" /\ signalsOnExit' = FALSE
  /\ UNCHANGED <<asks, kernelVars, loaderVars, blockVars, plgEventVars, mainVars>>

\* PLG_SignalEvent
SignalEvent(e) ==
  /\ game = "runs" /\ e \notin asks
  /\ OneAsker => asks = {}
  /\ asks' = asks \cup {e}
  /\ word' = [word EXCEPT !.events = @ \cup {e}]
  /\ notices' = notices + 1
  /\ UNCHANGED <<app, game, signalsOnExit, wake, loaderVars, blockVars, plgEventVars, mainVars>>

\* APT:ReceiveParameter, on the way to the home menu or back from it.
ReceivesParameter == word.status \in {"running", "in home"} /\ SignalEvent("home")

\* ExitProcessHook up to the wait, which is left out without a running plugin.
AsksToExit == signalsOnExit /\ word.status = "running" /\ SignalEvent("exit")

\* The rest of ExitProcessHook: every thread is unlocked, and the process ends.
GameExits ==
  /\ game' = "exits"
  /\ locked' = (locked /\ ~signalsOnExit)

ExitsUnasked ==
  /\ game = "runs" /\ asks = {}
  /\ ~(signalsOnExit /\ word.status = "running")
  /\ word.status = "in home" => KillsApps
  /\ GameExits
  /\ UNCHANGED <<app, asks, signalsOnExit, kernelVars, loaderVars, block, swapFile, plgEventVars, mainVars>>

\* The wait for 0x1002 ends and takes the signal away.
Woken(e) ==
  /\ e \in asks /\ wake
  /\ wake' = FALSE
  /\ asks' = asks \ {e}
  /\ IF e = "exit" THEN GameExits ELSE UNCHANGED <<game, locked>>
  /\ UNCHANGED <<app, signalsOnExit, word, notices, loaderVars, block, swapFile, plgEventVars, mainVars>>

\* The last thread has ended; or pm ends the process where it is.
GameEnds ==
  /\ game = "exits" \/ (KillsApps /\ game = "runs")
  /\ game' = "none" /\ asks' = {}
  /\ plugin' = [at |-> "none", saw |-> "ok"] /\ locked' = FALSE
  /\ UNCHANGED <<app, signalsOnExit, kernelVars, loaderVars, block, swapFile, plgEvent, mainVars>>

-----------------------------------------------------------------------------
(* The plugin's thread *)

PluginRuns == plugin.at # "none" /\ ~locked /\ game = "runs"

Sees ==
  /\ PluginRuns /\ plugin.at = "runs" /\ ~ctx.selfManaged
  /\ plgEvent \notin {"ok", "wait"}
  /\ plugin' = [at |-> "saw", saw |-> plgEvent]
  /\ UNCHANGED plgEvent

\* The answer, and the mark that the event is seen.
PluginReplies ==
  /\ PluginRuns /\ plugin.at = "saw"
  /\ plgEvent' = "wait"
  /\ plugin' = [plugin EXCEPT !.at = IF plugin.saw = "home" THEN "runs" ELSE "replied"]

\* It waits to be swapped in again, unless that was told already, or ends.
Parks ==
  /\ PluginRuns /\ plugin.at = "replied"
  /\ plugin' = [plugin EXCEPT !.at = IF plugin.saw = "exit" THEN "none"
                                     ELSE IF plgEvent = "wait" THEN "parked" ELSE "runs"]
  /\ UNCHANGED plgEvent

PluginStep ==
  /\ Sees \/ PluginReplies \/ Parks
  /\ UNCHANGED <<gameVars, kernelVars, loaderVars, blockVars, mainVars>>

-----------------------------------------------------------------------------
(* TryToLoadPlugin, for the application that is being loaded *)

\* User parameters for this title are used, and given up unless persistent.
TakesParams(own) ==
  /\ own => params.used
  /\ params' = IF own /\ ~params.persistent THEN NoParams ELSE params

StrategyFor(own) == IF own THEN params.strategy ELSE ctx.strategy

\* The file is read as far as its flags and payloads; the strategies it may leave.
Flagged(s) == IF s = "swap" THEN Strategies ELSE {s}

NoPlugin(own) ==
  /\ ctx' = [ctx EXCEPT !.target = 0, !.strategy = StrategyFor(own)]
  /\ game' = "runs"
  /\ plgEvent' = "ok"
  /\ UNCHANGED <<word, block, signalsOnExit, plugin, main>>

\* exitFail, and PluginLoader__Error after the command: the loader still waits.
BadPlugin(own) ==
  \E s \in Flagged(StrategyFor(own)), self \in BOOLEAN, set \in {ctx.swapSet, TRUE}, mounting \in BOOLEAN :
    /\ ctx' = [ctx EXCEPT !.target = 0, !.strategy = s, !.selfManaged = self, !.swapSet = set]
    /\ block' \in {NoBlock, block}      \* one for emulators is refused early
    /\ signalsOnExit' = (signalsOnExit \/ mounting)
    /\ plgEvent' = "ok"
    /\ main' = [at |-> "shows", then |-> "loaded"]
    /\ UNCHANGED <<word, game, plugin>>

GoodPlugin(own) ==
  \E s \in Flagged(StrategyFor(own)), self \in BOOLEAN, set \in {ctx.swapSet, TRUE} :
    /\ ~block.ready
    /\ ctx' = [ctx EXCEPT !.target = app, !.strategy = s, !.selfManaged = self, !.swapSet = set]
    /\ block' = [ready |-> TRUE, mounted |-> app, data |-> app]
    /\ signalsOnExit' = TRUE
    /\ plgEvent' = "ok"
    /\ plugin' = [at |-> "runs", saw |-> "ok"]
    /\ Status("running")
    /\ game' = "runs"
    /\ UNCHANGED main

\* Command 1 of plg:ldr
LoadPlugin ==
  /\ main.at = "idle" /\ game = "loading"
  /\ \/ ~isEnabled /\ NoPlugin(FALSE) /\ UNCHANGED params
     \/ \E own \in BOOLEAN :
          /\ isEnabled
          /\ TakesParams(own)
          /\ NoPlugin(own) \/ BadPlugin(own) \/ GoodPlugin(own)
  /\ UNCHANGED <<app, asks, notices, wake, isEnabled, swapFile, locked, exitTask, rebooted>>

-----------------------------------------------------------------------------
(* The other commands of plg:ldr *)

\* Command 3 and the menu's entry.
SetsState ==
  /\ isEnabled' = ~isEnabled
  /\ UNCHANGED <<gameVars, kernelVars, params, ctx, blockVars, plgEventVars, mainVars>>

\* Commands 4 and 14.
SetsParams ==
  /\ main.at = "idle"
  /\ params' \in {NoParams} \cup [strategy : Strategies, persistent : BOOLEAN, used : {TRUE}]
  /\ UNCHANGED <<gameVars, kernelVars, isEnabled, ctx, blockVars, plgEventVars, mainVars>>

\* Commands 5, 6 and 7 wait for a key.
ShowsToUser ==
  /\ main.at = "idle" /\ PluginRuns
  /\ main' = [at |-> "shows", then |-> "reply"]
  /\ UNCHANGED <<gameVars, kernelVars, loaderVars, blockVars, plgEventVars, exitTask, rebooted>>

UserCloses ==
  /\ main.at = "shows"
  /\ main' = Idle
  /\ game' = IF main.then = "loaded" THEN "runs" ELSE game
  /\ UNCHANGED <<app, asks, signalsOnExit, kernelVars, loaderVars, blockVars, plgEventVars, exitTask, rebooted>>

\* Commands 11 and 12, from the plugin.
BlocksMenu ==
  /\ main.at = "idle" /\ PluginRuns
  /\ ctx' = [ctx EXCEPT !.menuBlocked = ~@]
  /\ UNCHANGED <<gameVars, kernelVars, isEnabled, params, blockVars, plgEventVars, mainVars>>

SetsSwap ==
  /\ main.at = "idle" /\ PluginRuns
  /\ \E set \in BOOLEAN : ctx' = [ctx EXCEPT !.swapSet = set]
  /\ UNCHANGED <<gameVars, kernelVars, isEnabled, params, blockVars, plgEventVars, mainVars>>

-----------------------------------------------------------------------------
(* PluginLoader__HandleKernelEvent *)

\* PLG__NotifyEvent, with PLG__WaitForReply to come; neither for a plugin that
\* manages its events.
NotifyAndWait(e, next) ==
  /\ plgEvent' = IF ctx.selfManaged THEN plgEvent ELSE e
  /\ main' = [at |-> IF ctx.selfManaged THEN "act" ELSE "waits", then |-> next]

\* IsReady, FromSwapFile, MountInProcess, and the threads go on.  Without
\* memory, or with a file that cannot be read, the console is rebooted.
SwapIn ==
  \/ /\ \E mounts \in {TRUE, ~RemountFails} :
          block' = [ready |-> TRUE, mounted |-> IF mounts THEN ctx.target ELSE 0, data |-> swapFile]
     /\ locked' = FALSE
     /\ plgEvent' = IF ctx.selfManaged THEN plgEvent ELSE "ok"
     /\ plugin' = IF plugin.at = "parked" /\ ~ctx.selfManaged THEN [plugin EXCEPT !.at = "runs"] ELSE plugin
     /\ Status("running")
     /\ ctx' = [ctx EXCEPT !.swapped = FALSE]
     /\ WakesThread
     /\ UNCHANGED <<main, rebooted>>
  \/ /\ rebooted' = TRUE
     /\ UNCHANGED <<block, locked, plgEvent, plugin, word, ctx, wake, main>>

HomeEvent ==
  \/ ctx.strategy = "swap" /\ ctx.swapped /\ SwapIn
  \/ /\ ctx.strategy = "swap" /\ ~ctx.swapped
     /\ NotifyAndWait("swap", "swap")
     /\ UNCHANGED <<block, locked, plugin, word, ctx, wake, rebooted>>
  \/ /\ ctx.strategy = "none"
     /\ \/ block.ready /\ NotifyAndWait("home", "home")     \* header->notifyHomeEvent
        \/ main' = [at |-> "act", then |-> "home"] /\ UNCHANGED plgEvent
     /\ UNCHANGED <<block, locked, plugin, word, ctx, wake, rebooted>>

ExitEvent ==
  /\ Status("exiting")
  /\ \/ ~ctx.swapped /\ NotifyAndWait("exit", "exit")
     \/ ctx.swapped /\ main' = [at |-> "act", then |-> "exit"] /\ UNCHANGED plgEvent
  /\ UNCHANGED <<block, locked, plugin, ctx, wake, rebooted>>

\* Two events at once are none of those looked for.
OtherEvent ==
  /\ WakesThread
  /\ UNCHANGED <<block, locked, plgEvent, plugin, word, ctx, main, rebooted>>

HandleKernelEvent ==
  /\ main.at = "idle" /\ notices > 0
  /\ notices' = notices - 1
  /\ CASE word.status # "exiting" /\ word.events = {"exit"} -> ExitEvent
       [] word.status # "exiting" /\ word.events = {"home"} -> HomeEvent
       [] OTHER -> OtherEvent
  /\ UNCHANGED <<gameVars, isEnabled, params, swapFile, exitTask>>

\* PLG__WaitForReply: the plugin answers, or ten seconds pass, as they do when
\* the answer was given before plgReply is reset.
ReplyOrTimeout ==
  /\ main.at = "waits"
  /\ main' = [main EXCEPT !.at = "act"]
  /\ UNCHANGED <<gameVars, kernelVars, loaderVars, blockVars, plgEventVars, exitTask, rebooted>>

\* Fault: the threads of the plugin are not locked.
SwapOutRunning ==
  /\ main = [at |-> "act", then |-> "swap"]
  /\ \/ /\ block.ready /\ ctx.swapSet
        /\ UNCHANGED locked
        /\ swapFile' = block.data
        /\ block' = NoBlock
        /\ Status("in home")
        /\ ctx' = [ctx EXCEPT !.swapped = TRUE]
        /\ WakesThread
        /\ main' = Idle
        /\ UNCHANGED rebooted
     \/ /\ rebooted' = TRUE      \* no function, or the file cannot be written
        /\ UNCHANGED <<blockVars, word, wake, ctx, main>>
  /\ UNCHANGED <<gameVars, notices, isEnabled, params, plgEventVars, exitTask>>

\* The threads are locked, and the memory is written and freed.
SwapOut ==
  /\ main = [at |-> "act", then |-> "swap"]
  /\ \/ /\ block.ready /\ ctx.swapSet
        /\ locked' = TRUE
        /\ swapFile' = block.data
        /\ block' = NoBlock
        /\ Status("in home")
        /\ ctx' = [ctx EXCEPT !.swapped = TRUE]
        /\ WakesThread
        /\ main' = Idle
        /\ UNCHANGED rebooted
     \/ /\ rebooted' = TRUE      \* no function, or the file cannot be written
        /\ UNCHANGED <<blockVars, word, wake, ctx, main>>
  /\ UNCHANGED <<gameVars, notices, isEnabled, params, plgEventVars, exitTask>>

TogglesHome ==
  /\ main = [at |-> "act", then |-> "home"]
  /\ Status(IF ctx.home THEN "running" ELSE "in home")
  /\ ctx' = [ctx EXCEPT !.home = ~@]
  /\ WakesThread
  /\ main' = Idle
  /\ UNCHANGED <<gameVars, notices, isEnabled, params, blockVars, plgEventVars, exitTask, rebooted>>

\* Fault: without a word to the kernel.
RunsExitTaskQuietly ==
  /\ main = [at |-> "act", then |-> "exit"]
  /\ exitTask = "idle"
  /\ exitTask' = "waits"
  /\ main' = Idle
  /\ UNCHANGED <<gameVars, kernelVars, loaderVars, blockVars, plgEventVars, rebooted>>

RunsExitTask ==
  /\ main = [at |-> "act", then |-> "exit"]
  /\ exitTask = "idle"
  /\ exitTask' = "waits"
  /\ WakesThread
  /\ main' = Idle
  /\ UNCHANGED <<gameVars, word, notices, loaderVars, blockVars, plgEventVars, rebooted>>

\* The process has ended, or 2.5 seconds have passed, which its way from the
\* wait in the kernel to svcExitProcess does not take.
WaitForProcessTerminated ==
  /\ exitTask = "waits" /\ game # "runs"
  /\ block' = IF ctx.swapped THEN block ELSE NoBlock
  /\ Status("none")
  /\ ctx' = FreshCtx
  /\ exitTask' = "idle"
  /\ UNCHANGED <<gameVars, notices, wake, isEnabled, params, swapFile, locked, plgEventVars, main, rebooted>>

-----------------------------------------------------------------------------
PluginInit ==
  /\ app = 0 /\ game = "none" /\ asks = {} /\ signalsOnExit = FALSE
  /\ word = [status |-> "none", events |-> {}] /\ notices = 0 /\ wake = FALSE
  /\ isEnabled \in BOOLEAN /\ params = NoParams /\ ctx = FreshCtx
  /\ block = NoBlock /\ swapFile = 0 /\ locked = FALSE
  /\ plgEvent = "ok" /\ plugin = [at |-> "none", saw |-> "ok"]
  /\ main = Idle /\ exitTask = "idle" /\ rebooted = FALSE

MainHandles == HandleKernelEvent \/ ReplyOrTimeout \/ SwapOut \/ TogglesHome \/ RunsExitTask

PluginNext ==
  /\ ~rebooted
  /\ \/ StartsApp \/ ReceivesParameter \/ AsksToExit \/ ExitsUnasked \/ GameEnds
     \/ \E e \in {"home", "exit"} : Woken(e)
     \/ PluginStep
     \/ LoadPlugin \/ SetsState \/ SetsParams \/ ShowsToUser \/ UserCloses \/ BlocksMenu \/ SetsSwap
     \/ MainHandles
     \/ WaitForProcessTerminated

PluginSpec == PluginInit /\ [][PluginNext]_plgVars

-----------------------------------------------------------------------------
(* Properties *)

\* A thread of the plugin runs only while the block is allocated, holds the
\* data of this application's plugin and is mounted in it.  While nobody is
\* busy with an event, the configuration memory, which decides what the kernel
\* signals next, says what rosalina last did: the plugin is swapped out exactly
\* if its threads are locked, and then its data is in the file and the block is
\* free.  The menu is not blocked for a plugin that is gone.
PluginHasItsMemory ==
  /\ PluginRuns => block = [ready |-> TRUE, mounted |-> app, data |-> app]
  /\ main.at = "idle" /\ notices = 0 /\ exitTask = "idle" /\ game = "runs" =>
       /\ word.status = "in home" <=> ctx.swapped \/ ctx.home
       /\ ctx.swapped <=> locked
       /\ ctx.swapped => ~block.ready /\ swapFile = app
  /\ ctx.menuBlocked => ctx.target # 0

\* A thread of the application that the kernel stopped goes on, or the console
\* is rebooted: the wait in the kernel has no timeout.  (The user closes what
\* rosalina shows, which holds up its main thread.)
KernelAnswered ==
  \A e \in {"home", "exit"} : e \in asks ~> e \notin asks \/ rebooted
=============================================================================
