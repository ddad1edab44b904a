----------------------------- MODULE TaskRunner -----------------------------
(***************************************************************************)
(* task_runner.c, the same in rosalina and pm: threads hand tasks to the   *)
(* runner's thread through one slot and two one-shot events, without a     *)
(* lock.  The events are libctru's: a wait takes the signal away.          *)
(***************************************************************************)
EXTENDS FiniteSets

CONSTANTS
  Callers,        \* threads that call TaskRunner_RunTask
  Ender,          \* the one that calls TaskRunner_Terminate
  TerminateIdle   \* it does so when no task is at hand

ASSUME TaskRunnerAssumption == Ender \in Callers /\ TerminateIdle \in BOOLEAN

VARIABLES
  caller,    \* where each caller is
  runner,    \* where TaskRunner_HandleTasks is
  readyEvent, parametersSetEvent,
  task, argStorage,   \* the slot, each with the name of who wrote it
  ending     \* shouldTerminate

slotVars == <<task, argStorage>>
runnerEvents == <<readyEvent, parametersSetEvent>>
runnerVars == <<caller, runner, runnerEvents, slotVars, ending>>

CallerGoes(c, where) == caller' = [caller EXCEPT ![c] = where]

-----------------------------------------------------------------------------
(* TaskRunner_RunTask *)

Calls(c) ==
  /\ caller[c] = "out"
  /\ ~ending
  /\ CallerGoes(c, "wait")
  /\ UNCHANGED <<runner, runnerEvents, slotVars, ending>>

\* Fault: the readiness of the runner is not waited for.
WaitsForNothing(c) ==
  /\ caller[c] = "wait"
  /\ CallerGoes(c, "set task")
  /\ UNCHANGED <<runner, runnerEvents, slotVars, ending>>

WaitsForReady(c) ==
  /\ caller[c] = "wait"
  /\ readyEvent
  /\ readyEvent' = FALSE
  /\ CallerGoes(c, "set task")
  /\ UNCHANGED <<runner, parametersSetEvent, slotVars, ending>>

SetsTask(c) ==
  /\ caller[c] = "set task"
  /\ task' = c
  /\ CallerGoes(c, "set arguments")
  /\ UNCHANGED <<runner, runnerEvents, argStorage, ending>>

SetsArguments(c) ==
  /\ caller[c] = "set arguments"
  /\ argStorage' = c
  /\ CallerGoes(c, "signal")
  /\ UNCHANGED <<runner, runnerEvents, task, ending>>

Signals(c) ==
  /\ caller[c] = "signal"
  /\ parametersSetEvent' = TRUE
  /\ CallerGoes(c, "out")
  /\ UNCHANGED <<runner, readyEvent, slotVars, ending>>

\* A task is at hand, or the runner is between two of them.
Busy ==
  \/ parametersSetEvent \/ runner \in {"run", "loop"}
  \/ \E c \in Callers : caller[c] # "out"

\* TaskRunner_Terminate: shouldTerminate, then a task that does nothing.
Terminate ==
  /\ caller[Ender] = "out"
  /\ TerminateIdle => ~Busy
  /\ ~ending
  /\ ending' = TRUE
  /\ CallerGoes(Ender, "wait")
  /\ UNCHANGED <<runner, runnerEvents, slotVars>>

-----------------------------------------------------------------------------
(* TaskRunner_HandleTasks *)

RunnerGoes(where) == runner' = where

\* The condition of the loop.
LooksAtEnd ==
  /\ runner = "loop"
  /\ RunnerGoes(IF ending THEN "ended" ELSE "signal")
  /\ UNCHANGED <<caller, runnerEvents, slotVars, ending>>

SignalsReady ==
  /\ runner = "signal"
  /\ readyEvent' = TRUE
  /\ RunnerGoes("wait")
  /\ UNCHANGED <<caller, parametersSetEvent, slotVars, ending>>

WaitsForParameters ==
  /\ runner = "wait"
  /\ parametersSetEvent
  /\ parametersSetEvent' = FALSE
  /\ RunnerGoes("run")
  /\ UNCHANGED <<caller, readyEvent, slotVars, ending>>

\* The task has used its arguments where they are, up to here.
RunsTask ==
  /\ runner = "run"
  /\ RunnerGoes("loop")
  /\ UNCHANGED <<caller, runnerEvents, slotVars, ending>>

HandleTasks == LooksAtEnd \/ SignalsReady \/ WaitsForParameters \/ RunsTask

RunTask(c) == WaitsForReady(c) \/ SetsTask(c) \/ SetsArguments(c) \/ Signals(c)

-----------------------------------------------------------------------------

RunnerInit ==
  /\ caller = [c \in Callers |-> "out"]
  /\ runner = "loop"
  /\ readyEvent = FALSE /\ parametersSetEvent = FALSE
  /\ task = Ender /\ argStorage = Ender
  /\ ending = FALSE

RunnerNext ==
  \/ \E c \in Callers : Calls(c)
  \/ \E c \in Callers : RunTask(c)
  \/ Terminate
  \/ HandleTasks

RunnerSpec == RunnerInit /\ [][RunnerNext]_runnerVars

\* Threads inside a call go on, tasks return.
RunnerFairSpec ==
  /\ RunnerSpec
  /\ WF_runnerVars(HandleTasks)
  /\ \A c \in Callers : WF_runnerVars(RunTask(c))

-----------------------------------------------------------------------------
(* Properties *)

\* Every task that is handed over runs once, with the arguments it was handed
\* over with, and no later one is handed over before it has run: the two
\* events protect the slot although nobody locks it.
HandOver ==
  INSTANCE TaskHandOver WITH
    Posts <- {<<c, c>> : c \in Callers},
    given <- IF parametersSetEvent \/ runner = "run" THEN {<<task, argStorage>>} ELSE {}

SlotImplementsHandOver == HandOver!HandOverSpec
=============================================================================
