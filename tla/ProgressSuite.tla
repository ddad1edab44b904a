---------------------------- MODULE ProgressSuite ----------------------------
(***************************************************************************)
(* Components that share no state, each on its own, as in SafetySuite:     *)
(* those with properties of fair behaviours.                               *)
(***************************************************************************)
EXTENDS SmNotifications, Pxi, ServiceManager, TaskRunner, TakeScreenshot,
  CheatInterpreter, GdbSession

VARIABLE part

suiteVars == <<smVars, pxiVars, serviceVars, runnerVars, vars, cheatVars,
               sessionVars, part>>

SuiteInit ==
  /\ part \in {"sm notifications", "pxi", "service manager", "task runner", "screenshot",
               "cheat", "gdb session"}
  /\ SmInit
  /\ PxiInit
  /\ ServicesInit
  /\ RunnerInit
  /\ Init
  /\ CheatInit
  /\ SessionInit
  /\ part # "screenshot" => mode = "2d" /\ distinct = FALSE

SuiteNext ==
  /\ \/ /\ \/ part = "sm notifications" /\ SmNext
              /\ UNCHANGED <<pxiVars, serviceVars, runnerVars, vars>>
           \/ part = "pxi" /\ PxiNext
              /\ UNCHANGED <<smVars, serviceVars, runnerVars, vars>>
           \/ part = "service manager" /\ ServicesNext
              /\ UNCHANGED <<smVars, pxiVars, runnerVars, vars>>
           \/ part = "task runner" /\ RunnerNext
              /\ UNCHANGED <<smVars, pxiVars, serviceVars, vars>>
           \/ part = "screenshot" /\ Next
              /\ UNCHANGED <<smVars, pxiVars, serviceVars, runnerVars>>
        /\ UNCHANGED <<cheatVars, sessionVars>>
     \/ part = "cheat" /\ CheatNext
        /\ UNCHANGED <<smVars, pxiVars, serviceVars, runnerVars, vars, sessionVars>>
     \/ part = "gdb session" /\ SessionNext
        /\ UNCHANGED <<smVars, pxiVars, serviceVars, runnerVars, vars, cheatVars>>
  /\ UNCHANGED part

SuiteSpec == SuiteInit /\ [][SuiteNext]_suiteVars

\* The fairness of each component, of its own steps.
SuiteFairSpec ==
  /\ SuiteSpec
  /\ \A p \in Pids :
       /\ WF_smVars(part = "sm notifications" /\ Wake(p))
       /\ WF_smVars(part = "sm notifications" /\ ReceiveNotification(p))
  /\ WF_pxiVars(part = "pxi" /\ Sender)
  /\ WF_pxiVars(part = "pxi" /\ Srv11Handler)
  /\ WF_pxiVars(part = "pxi" /\ Receiver)
  /\ \A i \in Services : WF_pxiVars(part = "pxi" /\ Arm9Replies(i))
  /\ WF_pxiVars(part = "pxi" /\ MainSendsEnd)
  /\ WF_pxiVars(part = "pxi" /\ MainJoins)
  /\ WF_runnerVars(part = "task runner" /\ HandleTasks)
  /\ \A c \in Callers : WF_runnerVars(part = "task runner" /\ RunTask(c))
  /\ WF_vars(part = "screenshot" /\ Next)
  /\ WF_cheatVars(part = "cheat" /\ ExecuteLine)
  /\ WF_sessionVars(part = "gdb session" /\ SocketSteps)
  /\ SF_sessionVars(part = "gdb session" /\ MonitorSteps)

\* Servers end when they are asked to, and the thread that asks comes back: pxi,
\* by main's last command to Process9, which stops the other threads; the task
\* runner, if no task is at hand.  (While a task runs, or has just run, it would
\* not: the runner then ends without signalling readyEvent again.)
ServersEnd ==
  \/ part = "pxi" /\ shouldTerminate
  \/ part = "task runner" /\ ending
  ~>
  \/ part = "pxi" /\ place["main"] = "end"
  \/ part = "task runner" /\ runner = "ended" /\ caller[Ender] = "out"

\* What the menu thread runs itself ends, so that the menu is not lost and the
\* application not stopped for ever: the section of a screenshot with room for
\* the picture, and a cheat whatever its lines, loops and data.
MenuComesBack ==
  \/ part = "screenshot"
  \/ part = "cheat" /\ running
  ~>
  \/ part = "screenshot" /\ pc = "done"
  \/ part = "cheat" /\ ~running
=============================================================================
