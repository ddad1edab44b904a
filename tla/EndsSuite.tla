------------------------------ MODULE EndsSuite ------------------------------
(***************************************************************************)
(* Components that share no state, each on its own, as in SafetySuite:     *)
(* those that wait for the end of an application, pm to terminate it and   *)
(* the plugin loader to take its plugin's memory back.                     *)
(***************************************************************************)
EXTENDS MCProcessManager, PluginLoader

VARIABLE part

suiteVars == <<pmVars, plgVars, part>>

SuiteInit ==
  /\ part \in {"process manager", "plugin loader"}
  /\ PmInit
  /\ PluginInit
  /\ part # "plugin loader" => ~isEnabled

SuiteNext ==
  /\ \/ part = "process manager" /\ ApplicationsNext /\ UNCHANGED plgVars
     \/ part = "plugin loader" /\ PluginNext /\ UNCHANGED pmVars
  /\ UNCHANGED part

\* The fairness of each component, of its own steps.
SuiteFairSpec ==
  /\ SuiteInit /\ [][SuiteNext]_suiteVars
  /\ \A t \in {"service", "runner"} : WF_pmVars(part = "process manager" /\ ThreadSteps(t))
  /\ WF_pmVars(part = "process manager" /\ PostLaunch)
  /\ WF_pmVars(part = "process manager" /\ Monitors)
  /\ SF_plgVars(part = "plugin loader" /\ ~rebooted /\ HandleKernelEvent)
  /\ WF_plgVars(part = "plugin loader" /\ ~rebooted /\ (MainHandles \/ UserCloses))
  /\ WF_plgVars(part = "plugin loader" /\ ~rebooted /\ WaitForProcessTerminated)
  /\ WF_plgVars(part = "plugin loader" /\ ~rebooted /\ GameEnds)
  /\ \A e \in {"home", "exit"} : WF_plgVars(part = "plugin loader" /\ ~rebooted /\ Woken(e))
=============================================================================
