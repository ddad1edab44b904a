-------------------------------- MODULE Cheats --------------------------------
(***************************************************************************)
(* The cheats of Rosalina's menu (source/menus/cheats.c).  The menu thread *)
(* goes through the list and runs every cheat that is switched on: which   *)
(* cheats those are is CheatList's, what a run of one does CheatInter-     *)
(* preter's.  A run changes nothing of the list, and the list passes it    *)
(* nothing but the lines, so that each may take any step while the other   *)
(* stays.                                                                  *)
(***************************************************************************)
EXTENDS CheatList, CheatInterpreter

CheatsSpec == ListSpec /\ CheatSpec

\* cheats.c: what is applied is the process's own cheats, whole, and of their
\* lines those that no condition found false excludes.
CheatsActAsWritten == CheatsOfTheProcess /\ SkipsForAFalseCondition
=============================================================================
