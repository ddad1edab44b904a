------------------------------- MODULE CheatList -------------------------------
(***************************************************************************)
(* The cheats of the running title (source/menus/cheats.c): read from a    *)
(* file into one buffer, listed by Rosalina's menu, and applied by the     *)
(* menu thread again and again.  Applications start and end meanwhile.     *)
(*                                                                         *)
(* Sizes are in code lines.  What applying a cheat does to the process is  *)
(* CheatInterpreter's; names, marks and the cursor of the list are left    *)
(* out.                                                                    *)
(***************************************************************************)
EXTENDS Integers, Sequences

CONSTANTS
  CheatTitles,        \* titles of applications that may have cheats
  MaxLaunched,        \* bound on the applications that are launched
  MaxFileLines,       \* bound on the lines of a file of cheats
  BufferSize,         \* cheatBuffer
  DescriptionSize,    \* CheatDescription, without its codes
  CountSize           \* the numbers that cheatCount can hold: 256

ASSUME CheatListAssumption ==
  /\ "none" \notin CheatTitles
  /\ {MaxLaunched, MaxFileLines, BufferSize, DescriptionSize} \subseteq Nat \ {0}
  /\ DescriptionSize < BufferSize
  /\ CountSize \in Nat \ {0, 1}

VARIABLES
  launched,          \* the titles of the processes, by pid
  application,       \* the pid of the running one, or 0
  cheats,            \* the cheats in cheatBuffer: start, codesCount, active
  cheatCount,
  cheatTitleInfo,
  listPlace,         \* what the menu thread does: "idle", "apply", "load" or "list"
  askedPid,               \* the pid it has asked pm for
  nextCheat,         \* the next cheat it applies
  listFailed,        \* the list shows an error
  loadedCheat,       \* where in cheats the one is that lines are added to, or None
  cheatSize,
  fileLines,         \* lines read so far
  sections,          \* history: the code lines of each cheat of the file
  fileRead           \* history: how reading ended: "whole", "full", "failed"

fileVars == <<loadedCheat, cheatSize, fileLines, sections, fileRead>>
bufferVars == <<cheats, cheatCount, cheatTitleInfo>>
appVars == <<launched, application>>
threadVars == <<listPlace, askedPid, nextCheat, listFailed>>
cheatListVars == <<appVars, bufferVars, threadVars, fileVars>>

None == -1
NoCheat == [start |-> 0, codesCount |-> 0, active |-> FALSE]
EndOf(cheat) == cheat.start + DescriptionSize + cheat.codesCount

\* PMDBG_GetCurrentAppInfo.
CurrentTitle == IF application = 0 THEN "none" ELSE launched[application]

-----------------------------------------------------------------------------
(* Applications, which pm launches and which end *)

Launch(title) ==
  /\ application = 0
  /\ Len(launched) < MaxLaunched
  /\ launched' = Append(launched, title)
  /\ application' = Len(launched) + 1
  /\ UNCHANGED <<bufferVars, threadVars, fileVars>>

Ends ==
  /\ application # 0
  /\ application' = 0
  /\ UNCHANGED <<launched, bufferVars, threadVars, fileVars>>

-----------------------------------------------------------------------------
(* Applying *)

\* Mutant: any application's cheats are applied.
StartsToApplyAny ==
  /\ listPlace = "idle"
  /\ cheatCount # 0
  /\ IF CurrentTitle # "none"
     THEN listPlace' = "apply" /\ askedPid' = application /\ nextCheat' = 0 /\ UNCHANGED cheatCount
     ELSE cheatCount' = 0 /\ UNCHANGED <<listPlace, askedPid, nextCheat>>
  /\ UNCHANGED <<appVars, cheats, cheatTitleInfo, listFailed, fileVars>>

\* Cheat_ApplyCheats: the list is dropped when another application runs, or none.
StartsToApply ==
  /\ listPlace = "idle"
  /\ cheatCount # 0
  /\ IF CurrentTitle = cheatTitleInfo
     THEN listPlace' = "apply" /\ askedPid' = application /\ nextCheat' = 0 /\ UNCHANGED cheatCount
     ELSE cheatCount' = 0 /\ UNCHANGED <<listPlace, askedPid, nextCheat>>
  /\ UNCHANGED <<appVars, cheats, cheatTitleInfo, listFailed, fileVars>>

\* The loop over the cheats; an active one is applied, if the process is still there.
AppliesNext ==
  /\ listPlace = "apply"
  /\ nextCheat < cheatCount
  /\ nextCheat' = nextCheat + 1
  /\ UNCHANGED <<appVars, bufferVars, listPlace, askedPid, listFailed, fileVars>>

AllApplied ==
  /\ listPlace = "apply"
  /\ nextCheat >= cheatCount
  /\ listPlace' = "idle"
  /\ UNCHANGED <<appVars, bufferVars, askedPid, nextCheat, listFailed, fileVars>>

-----------------------------------------------------------------------------
(* Loading *)

\* RosalinaMenu_Cheats: the file is read when the list is another title's, or empty.
OpensList ==
  /\ listPlace = "idle"
  /\ askedPid' = application /\ listFailed' = FALSE
  /\ IF CurrentTitle # "none" /\ (cheatTitleInfo # CurrentTitle \/ cheatCount = 0)
     THEN /\ listPlace' = "load"
          /\ cheatCount' = 0 /\ cheatTitleInfo' = CurrentTitle
          /\ loadedCheat' = None /\ cheatSize' = 0 /\ fileLines' = 0
          /\ sections' = <<>> /\ fileRead' = "part"
     ELSE listPlace' = "list" /\ UNCHANGED <<cheatCount, cheatTitleInfo, fileVars>>
  /\ UNCHANGED <<appVars, cheats, nextCheat>>

\* The list is shown; the variables of the reading function are no more.
ShowsList ==
  /\ listPlace' = "list"
  /\ loadedCheat' = None /\ cheatSize' = 0 /\ fileLines' = 0
  /\ UNCHANGED <<appVars, cheats, cheatTitleInfo, askedPid, nextCheat, listFailed, sections, fileRead>>

\* Neither of the files can be opened.
NoFile ==
  /\ listPlace = "load" /\ fileLines = 0 /\ fileRead = "part"
  /\ ShowsList
  /\ UNCHANGED cheatCount

ReadsLine ==
  /\ listPlace = "load" /\ fileRead = "part"
  /\ fileLines < MaxFileLines
  /\ fileLines' = fileLines + 1
  /\ UNCHANGED <<appVars, cheatTitleInfo, threadVars>>

\* Cheat_AllocCheat, behind the cheat before.
AllocCheat ==
  [start |-> IF cheatCount = 0 THEN 0 ELSE EndOf(cheats[cheatCount - 1]),
   codesCount |-> 0, active |-> FALSE]

\* A line that is not a code begins a cheat, or renames one that has no codes yet.
ReadsName ==
  /\ ReadsLine
  /\ IF loadedCheat # None /\ cheats[loadedCheat].codesCount = 0
     THEN UNCHANGED <<cheats, cheatCount, loadedCheat, cheatSize, sections, fileRead>>
     ELSE IF cheatSize + DescriptionSize >= BufferSize
     THEN fileRead' = "full" /\ UNCHANGED <<cheats, cheatCount, loadedCheat, cheatSize, sections>>
     ELSE /\ cheats' = [cheats EXCEPT ![cheatCount] = AllocCheat]
          /\ loadedCheat' = cheatCount
          /\ cheatCount' = (cheatCount + 1) % CountSize
          /\ cheatSize' = cheatSize + DescriptionSize
          /\ sections' = Append(sections, 0)
          /\ UNCHANGED fileRead

\* One more code line of the file's last cheat.
CountsCode == sections' = [sections EXCEPT ![Len(sections)] = @ + 1]

\* Mutant: the cheat whose codes do not fit stays.
ReadsCodeKeepingPart ==
  /\ ReadsLine
  /\ IF cheatSize + 1 >= BufferSize
     THEN /\ fileRead' = "full" /\ CountsCode
          /\ UNCHANGED <<cheats, cheatCount, loadedCheat, cheatSize>>
     ELSE IF loadedCheat = None
     THEN UNCHANGED <<cheats, cheatCount, loadedCheat, cheatSize, sections, fileRead>>
     ELSE /\ cheats' = [cheats EXCEPT ![loadedCheat].codesCount = @ + 1]
          /\ cheatSize' = cheatSize + 1
          /\ CountsCode
          /\ UNCHANGED <<cheatCount, loadedCheat, fileRead>>

\* A code line; the cheat whose codes do not fit is taken off the list.
ReadsCode ==
  /\ ReadsLine
  /\ IF cheatSize + 1 >= BufferSize
     THEN /\ cheatCount' = (cheatCount - 1) % CountSize
          /\ fileRead' = "full" /\ CountsCode
          /\ UNCHANGED <<cheats, loadedCheat, cheatSize>>
     ELSE IF loadedCheat = None
     THEN UNCHANGED <<cheats, cheatCount, loadedCheat, cheatSize, sections, fileRead>>
     ELSE /\ cheats' = [cheats EXCEPT ![loadedCheat].codesCount = @ + 1]
          /\ cheatSize' = cheatSize + 1
          /\ CountsCode
          /\ UNCHANGED <<cheatCount, loadedCheat, fileRead>>

\* The end of the file, or an error of the card.
ReadsNoMore ==
  /\ listPlace = "load" /\ fileRead = "part"
  /\ fileRead' \in {"whole", "failed"}
  /\ UNCHANGED <<appVars, bufferVars, threadVars, loadedCheat, cheatSize, fileLines, sections>>

\* What follows the loop of lines: an empty last cheat is removed.
ListLoaded ==
  /\ listPlace = "load" /\ fileRead # "part"
  /\ cheatCount' = IF cheatCount > 0 /\ cheats[cheatCount - 1].codesCount = 0
                   THEN cheatCount - 1 ELSE cheatCount
  /\ ShowsList

-----------------------------------------------------------------------------
(* The list *)

Deactivates(i) ==
  /\ listPlace = "list" /\ askedPid # 0 /\ ~listFailed
  /\ i < cheatCount /\ cheats[i].active
  /\ cheats' = [cheats EXCEPT ![i].active = FALSE]
  /\ UNCHANGED <<appVars, cheatCount, cheatTitleInfo, threadVars, fileVars>>

\* Cheat_MapMemoryAndApplyCheat: the process may have ended, or not be debuggable.
Activates(i) ==
  /\ listPlace = "list" /\ askedPid # 0 /\ ~listFailed
  /\ i < cheatCount /\ ~cheats[i].active
  /\ \/ application = askedPid /\ cheats' = [cheats EXCEPT ![i].active = TRUE] /\ UNCHANGED listFailed
     \/ listFailed' = TRUE /\ UNCHANGED cheats
  /\ UNCHANGED <<appVars, cheatCount, cheatTitleInfo, listPlace, askedPid, nextCheat, fileVars>>

ClosesList ==
  /\ listPlace = "list"
  /\ listPlace' = "idle"
  /\ UNCHANGED <<appVars, bufferVars, askedPid, nextCheat, listFailed, fileVars>>

-----------------------------------------------------------------------------

ListInit ==
  /\ launched = <<>> /\ application = 0
  /\ cheats = [i \in 0 .. CountSize - 1 |-> NoCheat]
  /\ cheatCount = 0 /\ cheatTitleInfo = "unknown"
  /\ listPlace = "idle" /\ askedPid = 0 /\ nextCheat = 0 /\ listFailed = FALSE
  /\ loadedCheat = None /\ cheatSize = 0 /\ fileLines = 0
  /\ sections = <<>> /\ fileRead = "whole"

ListNext ==
  \/ \E title \in CheatTitles : Launch(title)
  \/ Ends
  \/ StartsToApply \/ AppliesNext \/ AllApplied
  \/ OpensList \/ NoFile \/ ReadsName \/ ReadsCode \/ ReadsNoMore \/ ListLoaded
  \/ \E i \in 0 .. CountSize - 1 : Deactivates(i) \/ Activates(i)
  \/ ClosesList

ListSpec == ListInit /\ [][ListNext]_cheatListVars

-----------------------------------------------------------------------------
(* Properties *)

\* Of a file with fewer cheats than cheatCount can count, every listed cheat is
\* whole, and all are listed but the one that did not fit; in the buffer they
\* lie one behind the other and within it.
ListedCheatsWhole ==
  Len(sections) < CountSize =>
    /\ \A i \in 0 .. cheatCount - 1 :
         /\ cheats[i].codesCount = sections[i + 1] /\ sections[i + 1] > 0
         /\ cheats[i].start = IF i = 0 THEN 0 ELSE EndOf(cheats[i - 1])
    /\ EndOf(cheats[cheatCount - 1]) =< BufferSize
    /\ \A i \in cheatCount + 1 .. Len(sections) :
         i = Len(sections) /\ (sections[i] = 0 \/ fileRead = "full")

\* The cheats that can be applied are the process's own, and whole: the one
\* whose pid the thread holds has the title that the list was read for,
\* whatever applications have started and ended since.
CheatsOfTheProcess ==
  (listPlace \in {"apply", "list"} /\ askedPid # 0 /\ cheatCount > 0) =>
    launched[askedPid] = cheatTitleInfo /\ ListedCheatsWhole
=============================================================================
