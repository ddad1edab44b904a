----------------------------- MODULE SafetySuite -----------------------------
(***************************************************************************)
(* Components that share no state, each on its own: one run checks their   *)
(* invariants.  A behaviour is one of a component; "part" says of which,   *)
(* and the others stay as they begin.                                      *)
(***************************************************************************)
EXTENDS SmSessions, SmLists, ScreenshotMailbox, MCProcessManager, TakeScreenshot,
  KernelDebugMasks, GdbBreakpoints, GdbServer, Cheats,
  LoaderCache, Arm9Boot

VARIABLE part

stubVars == <<maskVars, bpVars, gdbVars>>
bareVars == <<sessionsVars, linkVars, boxVars, pmVars, vars>>
menuVars == <<cheatListVars, cheatVars>>
aloneVars == <<loaderCacheVars, arm9Vars>>
suiteVars == <<bareVars, stubVars, menuVars, aloneVars, part>>

SuiteInit ==
  /\ part \in {"sm sessions", "sm lists", "screenshot mailbox", "process manager",
              "screenshot", "debug masks", "breakpoints", "gdb server", "cheat list", "cheat",
              "loader", "boot"}
  /\ SessionsInit
  /\ buildList
  /\ BoxInit
  /\ PmInit
  /\ Init
  /\ MasksInit
  /\ BpInit
  /\ GdbInit
  /\ ListInit
  /\ CheatInit
  /\ LoaderInit
  /\ Arm9Init
  /\ part # "screenshot" => mode = "2d" /\ distinct = FALSE

SuiteNext ==
  /\ \/ /\ \/ part = "sm sessions" /\ SessionsNext /\ UNCHANGED <<linkVars, boxVars, pmVars, vars>>
           \/ part = "sm lists" /\ LinksNext /\ UNCHANGED <<sessionsVars, boxVars, pmVars, vars>>
           \/ part = "screenshot mailbox" /\ BoxNext
              /\ UNCHANGED <<sessionsVars, linkVars, pmVars, vars>>
           \/ part = "process manager" /\ PmNext
              /\ UNCHANGED <<sessionsVars, linkVars, boxVars, vars>>
           \/ part = "screenshot" /\ Next /\ UNCHANGED <<sessionsVars, linkVars, boxVars, pmVars>>
        /\ UNCHANGED <<stubVars, menuVars, aloneVars>>
     \/ /\ \/ part = "debug masks" /\ MasksNext /\ UNCHANGED <<bpVars, gdbVars>>
           \/ part = "breakpoints" /\ BpNext /\ UNCHANGED <<maskVars, gdbVars>>
           \/ part = "gdb server" /\ GdbNext /\ UNCHANGED <<maskVars, bpVars>>
        /\ UNCHANGED <<bareVars, menuVars, aloneVars>>
     \/ /\ \/ part = "cheat list" /\ ListNext /\ UNCHANGED cheatVars
           \/ part = "cheat" /\ CheatNext /\ UNCHANGED cheatListVars
        /\ UNCHANGED <<bareVars, stubVars, aloneVars>>
     \/ /\ \/ part = "loader" /\ LoaderNext /\ UNCHANGED arm9Vars
           \/ part = "boot" /\ Arm9Next /\ UNCHANGED loaderCacheVars
        /\ UNCHANGED <<bareVars, stubVars, menuVars>>
  /\ UNCHANGED part

SuiteSpec == SuiteInit /\ [][SuiteNext]_suiteVars

\* The shapes of the components' states.
SuiteTypeOK == SessionsTypeOK /\ BoxTypeOK /\ PmTypeOK /\ MasksTypeOK /\ CheatTypeOK /\ Arm9TypeOK
=============================================================================
