---------------------------- MODULE LoaderCache ----------------------------
(***************************************************************************)
(* The state that loader keeps between the commands of pm: the header of   *)
(* the last program asked about, and the .cxi file of a system module that *)
(* replaces the one in the NAND.  Loader serves one command at a time;     *)
(* the threads of pm each send several for one launch, and their commands  *)
(* interleave.  Firmware modules from files are on (CONFIG of loader);     *)
(* homebrew, host titles and the override of the memory mode are left out. *)
(***************************************************************************)
EXTENDS Naturals, FiniteSets

CONSTANTS
  ModuleTitles,   \* titles of system modules
  CxiModules,     \* those of them with a .cxi file on the card
  AppTitles,      \* titles of applications
  Launchers,      \* threads of pm that launch titles or ask about them
  Handles,        \* program handles of the archive in the NAND
  NoTitle,
  Overlap         \* one thread of pm registers while another is in a launch

Cookie(t) == <<"cxi", t>>         \* SYSMODULE_CXI_COOKIE_MASK | title

\* The archive gives no handle that looks like a cookie.
ASSUME LoaderAssumption ==
  /\ CxiModules \subseteq ModuleTitles /\ ModuleTitles \cap AppTitles = {}
  /\ NoTitle \notin ModuleTitles \cup AppTitles \cup Handles
  /\ \A t \in CxiModules : Cookie(t) \notin Handles \cup {NoTitle}
  /\ Overlap \in BOOLEAN

VARIABLES
  cachedHandle,     \* g_cached_programHandle
  exheader,         \* the title of g_exheaderInfo
  lastApp,          \* of g_lastAppExheaderInfo
  cxi,              \* the open file and g_cached_sysmoduleCxiCookie, and the NCCH header
  registered,       \* the title of each handle, in the archive
  launcher,         \* where each thread of pm is in its launch
  processes,        \* those that run
  broken            \* an assertion of loader failed

cacheVars == <<cachedHandle, exheader, lastApp, cxi>>
loaderCacheVars == <<cacheVars, registered, launcher, processes, broken>>

AllTitles == ModuleTitles \cup AppTitles
IsCookie(h) == h \in {Cookie(t) : t \in CxiModules}
InvalidateCachedCxiFile(c) == [c EXCEPT !.file = NoTitle, !.cookie = NoTitle]
Resting == [at |-> "idle", query |-> FALSE, title |-> NoTitle, handle |-> NoTitle]

-----------------------------------------------------------------------------
(* The commands, as steps of loader *)

\* The cache after GetProgramInfoImpl found the program: for a cookie that is
\* not the one of the open file, the file is opened again.
CxiAfterInfo(h) ==
  LET open == IF cxi.cookie # h THEN h[2] ELSE cxi.file
  IN  IF IsCookie(h) THEN [file |-> open, cookie |-> h, ncch |-> open] ELSE cxi

\* GetProgramInfo, when the header is not the one asked for.
RereadInfo(h) ==
  /\ cxi' = CxiAfterInfo(h)
  /\ exheader' = IF IsCookie(h) THEN cxi'.file ELSE registered[h]
  /\ cachedHandle' = h
  /\ lastApp' = IF exheader' \in AppTitles THEN exheader' ELSE lastApp

\* The file is not there, or not to be read.
InfoFails(h) ==
  /\ IF IsCookie(h) /\ cxi.cookie # h
     THEN \/ cxi' = InvalidateCachedCxiFile(cxi)
          \/ \E ncch \in {cxi.ncch, h[2]} : cxi' = [file |-> h[2], cookie |-> h, ncch |-> ncch]
     ELSE UNCHANGED cxi
  /\ cachedHandle' = NoTitle
  /\ UNCHANGED <<exheader, lastApp>>

GetProgramInfo(h) ==
  IF h # cachedHandle THEN RereadInfo(h) ELSE UNCHANGED cacheVars

\* UnregisterProgram.  Fault: the header stays the one of its handle.
UnregisterKeepsHeader(h) ==
  /\ cxi' = IF IsCookie(h) /\ h = cxi.cookie THEN InvalidateCachedCxiFile(cxi) ELSE cxi
  /\ registered' = IF IsCookie(h) THEN registered ELSE [registered EXCEPT ![h] = NoTitle]
  /\ UNCHANGED <<cachedHandle, exheader, lastApp>>

Unregister(h) ==
  /\ cachedHandle' = IF cachedHandle = h THEN NoTitle ELSE cachedHandle
  /\ cxi' = IF IsCookie(h) /\ h = cxi.cookie THEN InvalidateCachedCxiFile(cxi) ELSE cxi
  /\ registered' = IF IsCookie(h) THEN registered ELSE [registered EXCEPT ![h] = NoTitle]
  /\ UNCHANGED <<exheader, lastApp>>

-----------------------------------------------------------------------------
(* The threads of pm *)

Moves(c, at) == launcher' = [launcher EXCEPT ![c].at = at]

\* A file is opened even if it is open already.  Without one, or with one that
\* cannot be opened, the title is registered with the archive.
RegisterProgram(c, t) ==
  /\ launcher[c].at = "idle"
  /\ Overlap \/ \A d \in Launchers : launcher[d].at = "idle"
  /\ \E query \in BOOLEAN, h \in Handles \cup {Cookie(t)} :
       /\ query \/ \A p \in processes : p.title # t
       /\ \/ /\ t \in CxiModules /\ h = Cookie(t)
             /\ cxi' = [cxi EXCEPT !.file = t, !.cookie = h]
             /\ UNCHANGED registered
          \/ /\ h \in Handles /\ registered[h] = NoTitle
             /\ registered' = [registered EXCEPT ![h] = t]
             /\ cxi' = IF t \in ModuleTitles THEN InvalidateCachedCxiFile(cxi) ELSE cxi
       /\ launcher' = [launcher EXCEPT ![c] =
            [at |-> "registered", query |-> query, title |-> t, handle |-> h]]
  /\ UNCHANGED <<cachedHandle, exheader, lastApp, processes, broken>>

AsksForInfo(c) ==
  /\ launcher[c].at = "registered"
  /\ \/ GetProgramInfo(launcher[c].handle)
        /\ Moves(c, IF launcher[c].query THEN "done" ELSE "informed")
     \/ launcher[c].handle # cachedHandle /\ InfoFails(launcher[c].handle) /\ Moves(c, "done")
  /\ UNCHANGED <<registered, processes, broken>>

\* A query ends, or a launch that got no header.
GivesUp(c) ==
  /\ launcher[c].at = "done"
  /\ Unregister(launcher[c].handle)
  /\ launcher' = [launcher EXCEPT ![c] = Resting]
  /\ UNCHANGED <<processes, broken>>

\* loadCode
CodeFrom(h, c) == IF IsCookie(h) THEN c.file ELSE registered[h]

\* LoadProcess asks for the header again.  The code comes from the open file,
\* by what the NCCH header says of it: of none, it cannot be read; of another
\* file, that may fail or not.  pm does not unregister what could not be loaded.
LoadProcess(c) ==
  LET h == launcher[c].handle
      reread == h # cachedHandle
      file == IF reread THEN CxiAfterInfo(h) ELSE cxi
      code == CodeFrom(h, file)
      header == IF reread THEN code ELSE exheader
  IN  /\ launcher[c].at = "informed"
      /\ launcher' = [launcher EXCEPT ![c] = Resting]
      /\ UNCHANGED registered
      /\ \/ reread /\ InfoFails(h) /\ UNCHANGED <<processes, broken>>
         \/ /\ exheader' = header /\ cachedHandle' = h
            /\ lastApp' = IF reread /\ header \in AppTitles THEN header ELSE lastApp
            /\ \/ /\ code # NoTitle
                  /\ cxi' = IF IsCookie(h) THEN InvalidateCachedCxiFile(file) ELSE file
                  /\ processes' = processes \cup
                       {[title |-> launcher[c].title, handle |-> h,
                         header |-> header, code |-> code]}
                  /\ UNCHANGED broken
               \/ /\ IsCookie(h) /\ file.ncch # file.file
                  /\ broken' = TRUE
                  /\ UNCHANGED <<cxi, processes>>

\* pm lists the dependencies of a process, to end or to keep them.
ListsDependencies(p) ==
  /\ GetProgramInfo(p.handle)
  /\ UNCHANGED <<registered, launcher, processes, broken>>

\* cleanupProcess of pm's monitor.
ProcessEnds(p) ==
  /\ Unregister(p.handle)
  /\ processes' = processes \ {p}
  /\ UNCHANGED <<launcher, broken>>

-----------------------------------------------------------------------------
LoaderInit ==
  /\ cachedHandle = NoTitle /\ exheader = NoTitle /\ lastApp = NoTitle
  /\ cxi = [file |-> NoTitle, cookie |-> NoTitle, ncch |-> NoTitle]
  /\ registered = [h \in Handles |-> NoTitle]
  /\ launcher = [c \in Launchers |-> Resting]
  /\ processes = {} /\ broken = FALSE

LoaderNext ==
  /\ ~broken
  /\ \/ \E c \in Launchers :
          \/ \E t \in AllTitles : RegisterProgram(c, t)
          \/ AsksForInfo(c) \/ GivesUp(c) \/ LoadProcess(c)
     \/ \E p \in processes : ListsDependencies(p) \/ ProcessEnds(p)

LoaderSpec == LoaderInit /\ [][LoaderNext]_loaderCacheVars

-----------------------------------------------------------------------------
(* Properties *)

\* loader.c:478, "if GetProgramInfo succeeds we shouldn't be here anyway": a
\* process is made of the header and the code of the title that was asked for,
\* whatever was cached, opened or closed for others since it was registered;
\* and loading does not fail after the header was got.
ProcessOfItsTitle ==
  /\ \A p \in processes : p.header = p.title /\ p.code = p.title
  /\ ~broken

-----------------------------------------------------------------------------
(* What the repository says and the code does not do *)

\* loader.c:167, "Load from CXI, and skip patches, if we were opened from it":
\* what has the handle of a file is loaded from that file.
LoadsWhatItWasOpenedFrom ==
  \A p \in processes : IsCookie(p.handle) => p.code = p.handle[2]
=============================================================================
