---------------------------- MODULE LoaderProofs ----------------------------
(***************************************************************************)
(* Theorems about what loads code.  The loader: while the threads of pm    *)
(* launch one title at a time, every process is made of the header and the *)
(* code of the title that was asked for; for any titles, handles and       *)
(* threads.  The arm9 loader: as long as boot.firm is not replaced, the    *)
(* registers hold what the running system was booted with, from its boot   *)
(* to the end of every firmlaunch; for any set of EmuNANDs and buttons.    *)
(* The plugin loader: a plugin runs only in memory that holds its data,    *)
(* for any number of applications.                                         *)
(***************************************************************************)
EXTENDS LoaderCache, Arm9Boot, PluginLoader, TLAPS

-----------------------------------------------------------------------------
(* The cache of loader *)

\* What can be the handle of title t.
HandleOf(h, t) ==
  \/ h \in Handles /\ registered[h] = t
  \/ t \in CxiModules /\ h = Cookie(t)

Active(c) == launcher[c].at # "idle"

Cookies == {Cookie(t) : t \in CxiModules}

LauncherType ==
  [at : {"idle", "registered", "informed", "done"}, query : BOOLEAN,
   title : AllTitles \cup {NoTitle}, handle : Handles \cup Cookies \cup {NoTitle}]

CxiType ==
  [file : CxiModules \cup {NoTitle}, cookie : Cookies \cup {NoTitle},
   ncch : CxiModules \cup {NoTitle}]

CacheTyped ==
  /\ registered \in [Handles -> AllTitles \cup {NoTitle}]
  /\ launcher \in [Launchers -> LauncherType]
  /\ cxi \in CxiType

\* No two threads are in a launch, and a title that is being launched does not run.
OneLaunch ==
  /\ \A c, d \in Launchers : Active(c) /\ Active(d) => c = d
  /\ \A c \in Launchers :
       /\ launcher[c].at = "informed" => ~launcher[c].query
       /\ launcher[c].at \in {"registered", "informed"} /\ ~launcher[c].query =>
            \A p \in processes : p.title # launcher[c].title

\* Threads and processes have handles of their titles, those of the archive
\* for themselves.
HandlesHeld ==
  /\ \A c \in Launchers : Active(c) =>
       launcher[c].title \in AllTitles /\ HandleOf(launcher[c].handle, launcher[c].title)
  /\ \A p \in processes : p.title \in AllTitles /\ HandleOf(p.handle, p.title)
  /\ \A p, q \in processes : p.handle = q.handle /\ p.handle \in Handles => p = q
  /\ \A p \in processes, c \in Launchers :
       Active(c) /\ p.handle \in Handles => p.handle # launcher[c].handle

\* The file that is open is the one that the cookie is of.
FileOfCookie ==
  \/ cxi.file = NoTitle /\ cxi.cookie = NoTitle
  \/ \E t \in CxiModules : cxi.file = t /\ cxi.cookie = Cookie(t)

\* The header is the one of the handle it was asked for with, and somebody has
\* that handle.
HeaderOfHandle ==
  /\ cachedHandle \in Handles =>
       exheader = registered[cachedHandle] /\ registered[cachedHandle] # NoTitle
  /\ \A t \in CxiModules : cachedHandle = Cookie(t) =>
       /\ exheader = t
       /\ \/ \E c \in Launchers : launcher[c].at \in {"informed", "done"} /\ launcher[c].handle = Cookie(t)
          \/ \E p \in processes : p.handle = Cookie(t)

\* A header that was got from a file is loaded with that file open.
FileOfLaunch ==
  \A c \in Launchers, t \in CxiModules :
    launcher[c].at = "informed" /\ launcher[c].handle = Cookie(t) /\ cachedHandle = Cookie(t) =>
      cxi = [file |-> t, cookie |-> Cookie(t), ncch |-> t]

LoaderInv ==
  /\ ~Overlap /\ CacheTyped /\ OneLaunch /\ HandlesHeld /\ FileOfCookie /\ HeaderOfHandle
  /\ FileOfLaunch /\ ProcessOfItsTitle

-----------------------------------------------------------------------------

\* Handles of the archive, cookies and none are told apart.
LEMMA CookiesDiffer ==
  /\ \A t \in CxiModules : /\ Cookie(t) \notin Handles /\ Cookie(t) # NoTitle /\ IsCookie(Cookie(t))
                           /\ Cookie(t)[2] = t /\ t \in AllTitles /\ t # NoTitle
  /\ \A t, u \in CxiModules : Cookie(t) = Cookie(u) => t = u
  /\ \A h \in Handles : ~IsCookie(h) /\ h # NoTitle
  /\ ~IsCookie(NoTitle) /\ NoTitle \notin AllTitles
<1>1. \A t : Cookie(t)[2] = t
  BY DEF Cookie
<1>2. \A t, u \in CxiModules : Cookie(t) = Cookie(u) => t = u
  BY <1>1
<1>3. /\ \A t \in CxiModules : Cookie(t) \notin Handles /\ Cookie(t) # NoTitle /\ t \in AllTitles
      /\ NoTitle \notin AllTitles /\ NoTitle \notin Handles
  BY LoaderAssumption DEF AllTitles
<1> QED
  BY <1>1, <1>2, <1>3 DEF IsCookie

\* What the commands make of the open file.
LEMMA FileStates ==
  ASSUME NEW c \in CxiType
  PROVE  /\ c.file \in CxiModules \cup {NoTitle} /\ c.cookie \in Cookies \cup {NoTitle}
         /\ InvalidateCachedCxiFile(c) \in CxiType
         /\ InvalidateCachedCxiFile(c).file = NoTitle /\ InvalidateCachedCxiFile(c).cookie = NoTitle
         /\ \A t \in CxiModules : /\ [c EXCEPT !.file = t, !.cookie = Cookie(t)] \in CxiType
                                 /\ [c EXCEPT !.file = t, !.cookie = Cookie(t)].file = t
                                 /\ [c EXCEPT !.file = t, !.cookie = Cookie(t)].cookie = Cookie(t)
                                 /\ [file |-> t, cookie |-> Cookie(t), ncch |-> t] \in CxiType
<1>1. c.file \in CxiModules \cup {NoTitle} /\ c.cookie \in Cookies \cup {NoTitle}
  BY DEF CxiType
<1>2. /\ InvalidateCachedCxiFile(c) \in CxiType
      /\ InvalidateCachedCxiFile(c).file = NoTitle /\ InvalidateCachedCxiFile(c).cookie = NoTitle
  BY DEF CxiType, InvalidateCachedCxiFile
<1>3. ASSUME NEW t \in CxiModules
      PROVE  /\ [c EXCEPT !.file = t, !.cookie = Cookie(t)] \in CxiType
             /\ [c EXCEPT !.file = t, !.cookie = Cookie(t)].file = t
             /\ [c EXCEPT !.file = t, !.cookie = Cookie(t)].cookie = Cookie(t)
             /\ [file |-> t, cookie |-> Cookie(t), ncch |-> t] \in CxiType
  <2> DEFINE k == Cookie(t)
  <2>1. k \in Cookies
    BY DEF Cookies
  <2> HIDE DEF k
  <2>2. [c EXCEPT !.file = t, !.cookie = k] \in CxiType
    BY <2>1 DEF CxiType
  <2>3. [c EXCEPT !.file = t, !.cookie = k].file = t /\ [c EXCEPT !.file = t, !.cookie = k].cookie = k
    BY DEF CxiType
  <2>4. [file |-> t, cookie |-> k, ncch |-> t] \in CxiType
    BY <2>1 DEF CxiType
  <2> QED
    BY <2>2, <2>3, <2>4 DEF k
<1> QED
  BY <1>1, <1>2, <1>3

\* After a header was got from a file, that file is open, and no other.
LEMMA FileAfterInfo ==
  ASSUME cxi \in CxiType, FileOfCookie, NEW t \in CxiModules
  PROVE  CxiAfterInfo(Cookie(t)) = [file |-> t, cookie |-> Cookie(t), ncch |-> t]
<1>1. cxi.cookie = Cookie(t) => cxi.file = t
  BY CookiesDiffer DEF FileOfCookie
<1> QED
  BY <1>1, CookiesDiffer DEF CxiAfterInfo

\* loader starts with nothing cached and nobody served.
LEMMA LoaderBegin == ~Overlap /\ LoaderInit => LoaderInv
<1> SUFFICES ASSUME ~Overlap, LoaderInit
             PROVE  LoaderInv
  OBVIOUS
<1>1. CacheTyped
  BY DEF LoaderInit, CacheTyped, LauncherType, CxiType, Resting
<1>2. \A c \in Launchers : launcher[c].at = "idle"
  BY DEF LoaderInit, Resting
<1>3. OneLaunch /\ HandlesHeld /\ FileOfLaunch
  BY <1>2 DEF LoaderInit, OneLaunch, HandlesHeld, FileOfLaunch, Active
<1>4. FileOfCookie /\ HeaderOfHandle /\ ProcessOfItsTitle
  BY CookiesDiffer DEF LoaderInit, FileOfCookie, HeaderOfHandle, ProcessOfItsTitle
<1> QED
  BY <1>1, <1>3, <1>4 DEF LoaderInv

\* A thread registers a title: no other is in a launch, and the handle is new.
LEMMA RegisterStep ==
  ASSUME LoaderInv, NEW c \in Launchers, NEW t \in AllTitles, RegisterProgram(c, t)
  PROVE  LoaderInv'
<1>1. PICK query \in BOOLEAN, h \in Handles \cup {Cookie(t)} :
        /\ query \/ \A p \in processes : p.title # t
        /\ \/ /\ t \in CxiModules /\ h = Cookie(t)
              /\ cxi' = [cxi EXCEPT !.file = t, !.cookie = h]
              /\ UNCHANGED registered
           \/ /\ h \in Handles /\ registered[h] = NoTitle
              /\ registered' = [registered EXCEPT ![h] = t]
              /\ cxi' = IF t \in ModuleTitles THEN InvalidateCachedCxiFile(cxi) ELSE cxi
        /\ launcher' = [launcher EXCEPT ![c] =
             [at |-> "registered", query |-> query, title |-> t, handle |-> h]]
  BY DEF RegisterProgram
<1>2. /\ UNCHANGED <<cachedHandle, exheader, lastApp, processes, broken>>
      /\ \A d \in Launchers : launcher[d].at = "idle"
  BY DEF RegisterProgram, LoaderInv
<1> DEFINE l == [at |-> "registered", query |-> query, title |-> t, handle |-> h]
<1>3. \A d \in Launchers : launcher'[d] = IF d = c THEN l ELSE launcher[d]
  BY <1>1 DEF LoaderInv, CacheTyped
<1>4. l.at = "registered" /\ l.query = query /\ l.title = t /\ l.handle = h
  OBVIOUS
<1>5. CacheTyped'
  <2>1. registered' \in [Handles -> AllTitles \cup {NoTitle}]
    BY <1>1 DEF LoaderInv, CacheTyped
  <2>2. h \in Handles \cup Cookies \cup {NoTitle}
    BY <1>1 DEF Cookies
  <2>3. l \in LauncherType
    BY <2>2 DEF LauncherType
  <2>4. cxi' \in CxiType
    <3>1. cxi \in CxiType
      BY DEF LoaderInv, CacheTyped
    <3>2. InvalidateCachedCxiFile(cxi) \in CxiType
      BY <3>1, FileStates
    <3>3. CASE t \in CxiModules /\ cxi' = [cxi EXCEPT !.file = t, !.cookie = Cookie(t)]
      BY <3>1, <3>3, FileStates
    <3>4. cxi' \in {cxi, InvalidateCachedCxiFile(cxi)} => cxi' \in CxiType
      BY <3>1, <3>2
    <3> QED
      BY <1>1, <3>3, <3>4
  <2> HIDE DEF l
  <2> QED
    BY <1>1, <2>1, <2>3, <2>4 DEF LoaderInv, CacheTyped, l
<1> HIDE DEF l
<1>6. OneLaunch'
  BY <1>1, <1>2, <1>3, <1>4 DEF LoaderInv, OneLaunch, Active
<1>7. /\ h \in Handles => registered[h] = NoTitle
      /\ \A k \in Handles : registered'[k] = IF k = h THEN t ELSE registered[k]
  BY <1>1, CookiesDiffer DEF LoaderInv, CacheTyped
<1>8. HandlesHeld'
  <2>1. h \in Handles \/ (t \in CxiModules /\ h = Cookie(t))
    BY <1>1
  <2>2. \A p \in processes : /\ p.title \in AllTitles /\ HandleOf(p.handle, p.title)
                             /\ p.handle \in Handles => registered[p.handle] # NoTitle
    BY CookiesDiffer DEF LoaderInv, HandlesHeld, HandleOf
  <2>3. \A p \in processes : p.handle \in Handles => p.handle # h
    BY <1>7, <2>2
  <2>4. \A p \in processes : HandleOf(p.handle, p.title)'
    BY <1>7, <2>2, <2>3 DEF HandleOf
  <2>5. HandleOf(h, t)'
    BY <1>7, <2>1 DEF HandleOf
  <2>6. \A d \in Launchers : Active(d)' => d = c /\ launcher'[d].title = t /\ launcher'[d].handle = h
    BY <1>2, <1>3, <1>4 DEF Active
  <2>7. \A p, q \in processes : p.handle = q.handle /\ p.handle \in Handles => p = q
    BY DEF LoaderInv, HandlesHeld
  <2> QED
    BY <1>2, <2>2, <2>3, <2>4, <2>5, <2>6, <2>7 DEF HandlesHeld
<1>9. FileOfCookie'
  BY <1>1 DEF LoaderInv, CacheTyped, CxiType, FileOfCookie, InvalidateCachedCxiFile
<1>10. HeaderOfHandle'
  BY <1>2, <1>3, <1>7 DEF LoaderInv, HeaderOfHandle
<1>11. FileOfLaunch'
  BY <1>2, <1>3, <1>4 DEF FileOfLaunch
<1>12. ProcessOfItsTitle'
  BY <1>2 DEF LoaderInv, ProcessOfItsTitle
<1> QED
  BY <1>5, <1>6, <1>8, <1>9, <1>10, <1>11, <1>12 DEF LoaderInv

\* GetProgramInfo for a handle that somebody has gets the header of its title
\* or fails, which leaves no header; the file of a cookie stays the right one.
LEMMA InfoFacts ==
  ASSUME LoaderInv, NEW h, NEW t \in AllTitles, HandleOf(h, t),
         GetProgramInfo(h) \/ (h # cachedHandle /\ InfoFails(h)), UNCHANGED registered
  PROVE  /\ cxi' \in CxiType /\ FileOfCookie'
         /\ \/ cachedHandle' = h /\ exheader' = t
            \/ cachedHandle' = NoTitle
         /\ h = cachedHandle => UNCHANGED cacheVars
         /\ h # cachedHandle /\ GetProgramInfo(h) =>
              \A u \in CxiModules : h = Cookie(u) => cxi' = [file |-> u, cookie |-> Cookie(u), ncch |-> u]
         /\ h # cachedHandle /\ h \in Handles => cxi' = cxi
<1>1. cxi \in CxiType /\ FileOfCookie
  BY DEF LoaderInv, CacheTyped
<1>2. cxi' = cxi => cxi' \in CxiType /\ FileOfCookie'
  BY <1>1 DEF FileOfCookie
<1>3. \A u \in CxiModules : cxi'.file = u /\ cxi'.cookie = Cookie(u) => FileOfCookie'
  BY DEF FileOfCookie
<1>4. CASE h = cachedHandle
  <2>1. UNCHANGED cacheVars
    BY <1>4 DEF GetProgramInfo
  <2>2. exheader = t
    BY <1>4, CookiesDiffer DEF LoaderInv, HeaderOfHandle, HandleOf
  <2> QED
    BY <1>2, <1>4, <2>1, <2>2 DEF cacheVars
<1>5. CASE h # cachedHandle /\ GetProgramInfo(h)
  <2>1. /\ cxi' = CxiAfterInfo(h) /\ exheader' = (IF IsCookie(h) THEN cxi'.file ELSE registered[h])
        /\ cachedHandle' = h
    BY <1>5 DEF GetProgramInfo, RereadInfo
  <2>2. CASE t \in CxiModules /\ h = Cookie(t)
    <3>1. cxi' = [file |-> t, cookie |-> Cookie(t), ncch |-> t] /\ cxi' \in CxiType
      BY <1>1, <2>1, <2>2, FileAfterInfo, FileStates
    <3>2. cxi'.file = t /\ cxi'.cookie = Cookie(t)
      BY <3>1
    <3>3. exheader' = t
      BY <2>1, <2>2, <3>2, CookiesDiffer
    <3> QED
      BY <1>3, <1>5, <2>1, <2>2, <3>1, <3>2, <3>3, CookiesDiffer
  <2>3. CASE h \in Handles /\ registered[h] = t
    <3>1. ~IsCookie(h) /\ \A u \in CxiModules : h # Cookie(u)
      BY <2>3, CookiesDiffer
    <3>2. cxi' = cxi /\ exheader' = t
      BY <2>1, <2>3, <3>1 DEF CxiAfterInfo
    <3> QED
      BY <1>2, <1>5, <2>1, <3>1, <3>2
  <2> QED
    BY <2>2, <2>3 DEF HandleOf
<1>6. CASE h # cachedHandle /\ InfoFails(h) /\ ~GetProgramInfo(h)
  <2>1. cachedHandle' = NoTitle
    BY <1>6 DEF InfoFails
  <2>2. CASE t \in CxiModules /\ h = Cookie(t) /\ cxi.cookie # h
    <3>1. ASSUME cxi' = InvalidateCachedCxiFile(cxi)
          PROVE  cxi' \in CxiType /\ FileOfCookie'
      BY <1>1, <3>1, FileStates DEF FileOfCookie
    <3>2. ASSUME NEW ncch \in {cxi.ncch, h[2]}, cxi' = [file |-> h[2], cookie |-> h, ncch |-> ncch]
          PROVE  cxi' \in CxiType /\ FileOfCookie'
      <4>1. h[2] = t /\ ncch \in CxiModules \cup {NoTitle} /\ h \in Cookies
        BY <1>1, <2>2, CookiesDiffer DEF CxiType, Cookies
      <4>2. cxi' = [file |-> t, cookie |-> h, ncch |-> ncch]
        BY <3>2, <4>1
      <4>3. cxi' \in CxiType
        BY <4>1, <4>2, <2>2 DEF CxiType
      <4>4. cxi'.file = t /\ cxi'.cookie = Cookie(t)
        BY <2>2, <4>2
      <4> QED
        BY <1>3, <2>2, <4>3, <4>4
    <3>3. cxi' \in CxiType /\ FileOfCookie'
      <4>1. IsCookie(h)
        BY <2>2, CookiesDiffer
      <4>2. \/ cxi' = InvalidateCachedCxiFile(cxi)
            \/ \E ncch \in {cxi.ncch, h[2]} : cxi' = [file |-> h[2], cookie |-> h, ncch |-> ncch]
        BY <1>6, <2>2, <4>1 DEF InfoFails
      <4> QED
        BY <3>1, <3>2, <4>2
    <3> QED
      BY <1>6, <2>1, <2>2, <3>3, CookiesDiffer
  <2>3. CASE h \in Handles \/ cxi.cookie = h
    <3>1. cxi' = cxi
      BY <1>6, <2>3, CookiesDiffer DEF InfoFails
    <3> QED
      BY <1>2, <1>6, <2>1, <3>1
  <2> QED
    BY <2>2, <2>3 DEF HandleOf
<1> QED
  BY <1>4, <1>5, <1>6

\* A handle is of one title.
LEMMA HandleFacts ==
  ASSUME NEW h, NEW t \in AllTitles, HandleOf(h, t)
  PROVE  /\ h \in Handles => registered[h] = t /\ registered[h] # NoTitle
         /\ \A u \in CxiModules : h = Cookie(u) => u = t
         /\ h \in Handles \/ (t \in CxiModules /\ h = Cookie(t))
<1>1. CASE h \in Handles /\ registered[h] = t
  <2>1. t # NoTitle /\ \A u \in CxiModules : h # Cookie(u)
    BY <1>1, CookiesDiffer
  <2> QED
    BY <1>1, <2>1
<1>2. CASE t \in CxiModules /\ h = Cookie(t)
  <2>1. h \notin Handles /\ \A u \in CxiModules : h = Cookie(u) => u = t
    BY <1>2, CookiesDiffer
  <2> QED
    BY <1>2, <2>1
<1> QED
  BY <1>1, <1>2 DEF HandleOf

\* The thread in a launch, or with a query, asks for the header.
LEMMA AsksStep ==
  ASSUME LoaderInv, NEW c \in Launchers, AsksForInfo(c)
  PROVE  LoaderInv'
<1>0. PICK h, t : h = launcher[c].handle /\ t = launcher[c].title
  OBVIOUS
<1>1. /\ launcher[c].at = "registered" /\ UNCHANGED <<registered, processes, broken>>
      /\ \/ /\ GetProgramInfo(h)
            /\ Moves(c, IF launcher[c].query THEN "done" ELSE "informed")
         \/ h # cachedHandle /\ InfoFails(h) /\ Moves(c, "done")
  BY <1>0 DEF AsksForInfo
<1>2. t \in AllTitles /\ HandleOf(h, t) /\ Active(c)
  BY <1>0, <1>1 DEF LoaderInv, HandlesHeld, Active
<1>3. PICK at \in {"informed", "done"} :
        /\ launcher' = [launcher EXCEPT ![c].at = at]
        /\ at = "informed" => GetProgramInfo(h) /\ ~launcher[c].query
  BY <1>1 DEF Moves
<1>4. \A d \in Launchers :
        /\ launcher'[d].at = IF d = c THEN at ELSE launcher[d].at
        /\ launcher'[d].query = launcher[d].query /\ launcher'[d].title = launcher[d].title
        /\ launcher'[d].handle = launcher[d].handle
  BY <1>3 DEF LoaderInv, CacheTyped, LauncherType
<1>5. /\ cxi' \in CxiType /\ FileOfCookie'
      /\ \/ cachedHandle' = h /\ exheader' = t
         \/ cachedHandle' = NoTitle
      /\ h = cachedHandle => UNCHANGED cacheVars
      /\ h # cachedHandle /\ GetProgramInfo(h) =>
           \A u \in CxiModules : h = Cookie(u) => cxi' = [file |-> u, cookie |-> Cookie(u), ncch |-> u]
  BY <1>1, <1>2, InfoFacts
<1>6. CacheTyped'
  <2>1. [launcher[c] EXCEPT !.at = at] \in LauncherType
    BY DEF LoaderInv, CacheTyped, LauncherType
  <2> QED
    BY <1>1, <1>3, <1>5, <2>1 DEF LoaderInv, CacheTyped
<1>7. \A d \in Launchers : Active(d)' <=> Active(d)
  BY <1>1, <1>4 DEF Active
<1>8. OneLaunch'
  BY <1>1, <1>3, <1>4, <1>7 DEF LoaderInv, OneLaunch
<1>9. HandlesHeld'
  BY <1>1, <1>4, <1>7 DEF LoaderInv, HandlesHeld, HandleOf
<1>10. h \in Handles \cup Cookies /\ launcher'[c].handle = h /\ launcher'[c].at = at
  BY <1>2, <1>4, <1>0, HandleFacts DEF Cookies
<1>11. HeaderOfHandle'
  <2>1. CASE cachedHandle' = h /\ exheader' = t
    BY <1>1, <1>2, <1>10, <2>1, HandleFacts DEF HeaderOfHandle
  <2>2. CASE cachedHandle' = NoTitle
    BY <2>2, CookiesDiffer DEF HeaderOfHandle
  <2> QED
    BY <1>5, <2>1, <2>2
<1>12. ASSUME NEW u \in CxiModules, at = "informed", h = Cookie(u)
       PROVE  h # cachedHandle
  <2>1. u = t
    BY <1>2, <1>12, HandleFacts
  <2>2. \A p \in processes : p.title # t
    BY <1>0, <1>1, <1>3, <1>12 DEF LoaderInv, OneLaunch
  <2>3. \A p \in processes : p.handle # Cookie(u)
    BY <2>1, <2>2, HandleFacts DEF LoaderInv, HandlesHeld
  <2>4. \A d \in Launchers : launcher[d].at \notin {"informed", "done"}
    BY <1>1, <1>2 DEF LoaderInv, OneLaunch, Active
  <2> QED
    BY <1>12, <2>3, <2>4 DEF LoaderInv, HeaderOfHandle
<1>13. FileOfLaunch'
  <2>1. \A d \in Launchers : launcher'[d].at = "informed" => d = c
    BY <1>2, <1>4 DEF LoaderInv, OneLaunch, Active
  <2> QED
    BY <1>3, <1>5, <1>10, <1>12, <2>1 DEF FileOfLaunch
<1>14. ProcessOfItsTitle'
  BY <1>1 DEF LoaderInv, ProcessOfItsTitle
<1> QED
  BY <1>5, <1>6, <1>8, <1>9, <1>11, <1>13, <1>14 DEF LoaderInv

\* pm asks for the header of a process that runs: it is not of the title that
\* is being launched.
LEMMA ListsStep ==
  ASSUME LoaderInv, NEW p \in processes, ListsDependencies(p)
  PROVE  LoaderInv'
<1>0. PICK h, t : h = p.handle /\ t = p.title
  OBVIOUS
<1>1. UNCHANGED <<registered, launcher, processes, broken>> /\ GetProgramInfo(h)
  BY <1>0 DEF ListsDependencies
<1>2. t \in AllTitles /\ HandleOf(h, t)
  BY <1>0 DEF LoaderInv, HandlesHeld
<1>3. /\ cxi' \in CxiType /\ FileOfCookie'
      /\ \/ cachedHandle' = h /\ exheader' = t
         \/ cachedHandle' = NoTitle
      /\ h = cachedHandle => UNCHANGED cacheVars
  BY <1>1, <1>2, InfoFacts
<1>4. CacheTyped' /\ OneLaunch' /\ HandlesHeld' /\ ProcessOfItsTitle'
  BY <1>1, <1>3 DEF LoaderInv, CacheTyped, OneLaunch, HandlesHeld, HandleOf, Active, ProcessOfItsTitle
<1>5. HeaderOfHandle'
  <2>1. CASE cachedHandle' = h /\ exheader' = t
    BY <1>0, <1>1, <1>2, <2>1, HandleFacts DEF HeaderOfHandle
  <2>2. CASE cachedHandle' = NoTitle
    BY <2>2, CookiesDiffer DEF HeaderOfHandle
  <2> QED
    BY <1>3, <2>1, <2>2
<1>6. FileOfLaunch'
  <2> SUFFICES ASSUME NEW c \in Launchers, NEW u \in CxiModules, launcher[c].at = "informed",
                      launcher[c].handle = Cookie(u), cachedHandle' = Cookie(u)
               PROVE  cxi' = [file |-> u, cookie |-> Cookie(u), ncch |-> u]
    BY <1>1 DEF FileOfLaunch
  <2>1. launcher[c].title = u /\ launcher[c].title # t
    BY <1>0, HandleFacts DEF LoaderInv, HandlesHeld, OneLaunch, Active
  <2>2. h # Cookie(u)
    BY <1>2, <2>1, HandleFacts
  <2> QED
    BY <1>3, <2>2, CookiesDiffer
<1> QED
  BY <1>3, <1>4, <1>5, <1>6 DEF LoaderInv

\* What UnregisterProgram leaves.
LEMMA UnregisterFacts ==
  ASSUME LoaderInv, NEW h, NEW t \in AllTitles, HandleOf(h, t), Unregister(h)
  PROVE  /\ cxi' \in CxiType /\ FileOfCookie'
         /\ cxi.cookie # h => cxi' = cxi
         /\ registered' \in [Handles -> AllTitles \cup {NoTitle}]
         /\ \A k \in Handles : registered'[k] = IF k = h THEN NoTitle ELSE registered[k]
         /\ cachedHandle' = IF cachedHandle = h THEN NoTitle ELSE cachedHandle
         /\ exheader' = exheader
<1>1. cxi \in CxiType /\ FileOfCookie
  BY DEF LoaderInv, CacheTyped
<1>2. /\ cachedHandle' = IF cachedHandle = h THEN NoTitle ELSE cachedHandle
      /\ cxi' = IF IsCookie(h) /\ h = cxi.cookie THEN InvalidateCachedCxiFile(cxi) ELSE cxi
      /\ registered' = IF IsCookie(h) THEN registered ELSE [registered EXCEPT ![h] = NoTitle]
      /\ exheader' = exheader
  BY DEF Unregister
<1>3. cxi' \in CxiType /\ FileOfCookie' /\ (cxi.cookie # h => cxi' = cxi)
  <2>1. CASE cxi' = InvalidateCachedCxiFile(cxi) /\ cxi.cookie = h
    BY <1>1, <2>1, FileStates DEF FileOfCookie
  <2>2. CASE cxi' = cxi
    BY <1>1, <2>2 DEF FileOfCookie
  <2> QED
    BY <1>2, <2>1, <2>2
<1>4. /\ registered' \in [Handles -> AllTitles \cup {NoTitle}]
      /\ \A k \in Handles : registered'[k] = IF k = h THEN NoTitle ELSE registered[k]
  <2>1. CASE h \in Handles
    BY <1>2, <2>1, CookiesDiffer DEF LoaderInv, CacheTyped
  <2>2. CASE t \in CxiModules /\ h = Cookie(t)
    BY <1>2, <2>2, CookiesDiffer DEF LoaderInv, CacheTyped
  <2> QED
    BY <2>1, <2>2, HandleFacts
<1> QED
  BY <1>2, <1>3, <1>4

\* A thread gives up its handle, which nobody else has.
LEMMA GivesUpStep ==
  ASSUME LoaderInv, NEW c \in Launchers, GivesUp(c)
  PROVE  LoaderInv'
<1> DEFINE h == launcher[c].handle
           t == launcher[c].title
<1>1. /\ launcher[c].at = "done" /\ Unregister(h) /\ launcher' = [launcher EXCEPT ![c] = Resting]
      /\ UNCHANGED <<processes, broken>>
  BY DEF GivesUp
<1>2. t \in AllTitles /\ HandleOf(h, t) /\ Active(c)
  BY <1>1 DEF LoaderInv, HandlesHeld, Active
<1>3. /\ cxi' \in CxiType /\ FileOfCookie'
      /\ registered' \in [Handles -> AllTitles \cup {NoTitle}]
      /\ \A k \in Handles : registered'[k] = IF k = h THEN NoTitle ELSE registered[k]
      /\ cachedHandle' = IF cachedHandle = h THEN NoTitle ELSE cachedHandle
      /\ exheader' = exheader
  BY <1>1, <1>2, UnregisterFacts
<1>4. \A p \in processes : p.handle \in Handles => p.handle # h
  BY <1>2 DEF LoaderInv, HandlesHeld
<1> HIDE DEF h, t
<1>5. launcher' \in [Launchers -> LauncherType] /\ \A d \in Launchers : launcher'[d].at = "idle"
  <2>1. Resting \in LauncherType /\ Resting.at = "idle"
    BY DEF Resting, LauncherType
  <2>2. \A d \in Launchers \ {c} : launcher[d].at = "idle"
    BY <1>2 DEF LoaderInv, OneLaunch, Active
  <2> QED
    BY <1>1, <2>1, <2>2 DEF LoaderInv, CacheTyped
<1>6. CacheTyped' /\ OneLaunch' /\ FileOfLaunch'
  BY <1>3, <1>5 DEF CacheTyped, OneLaunch, FileOfLaunch, Active
<1>7. HandlesHeld'
  <2>1. \A p \in processes : p.title \in AllTitles /\ HandleOf(p.handle, p.title)'
    BY <1>3, <1>4 DEF LoaderInv, HandlesHeld, HandleOf
  <2> QED
    BY <1>1, <1>5, <2>1 DEF LoaderInv, HandlesHeld, Active
<1>8. HeaderOfHandle'
  <2>1. CASE cachedHandle = h
    BY <1>3, <2>1, CookiesDiffer DEF HeaderOfHandle
  <2>2. CASE cachedHandle # h
    <3>1. \A d \in Launchers : launcher[d].at \in {"informed", "done"} => launcher[d].handle = h
      BY <1>2 DEF LoaderInv, OneLaunch, Active, h
    <3>2. ASSUME NEW u \in CxiModules, cachedHandle = Cookie(u)
          PROVE  exheader = u /\ \E p \in processes : p.handle = Cookie(u)
      BY <2>2, <3>1, <3>2 DEF LoaderInv, HeaderOfHandle
    <3> QED
      BY <1>1, <1>3, <2>2, <3>2 DEF LoaderInv, HeaderOfHandle
  <2> QED
    BY <2>1, <2>2
<1> QED
  BY <1>1, <1>3, <1>6, <1>7, <1>8 DEF LoaderInv, ProcessOfItsTitle

\* A process ends, whose handle nobody else has, or whose title is not launched.
LEMMA EndsStep ==
  ASSUME LoaderInv, NEW p \in processes, ProcessEnds(p)
  PROVE  LoaderInv'
<1> DEFINE h == p.handle
           t == p.title
<1>1. Unregister(h) /\ processes' = processes \ {p} /\ UNCHANGED <<launcher, broken>>
  BY DEF ProcessEnds
<1>2. t \in AllTitles /\ HandleOf(h, t)
  BY DEF LoaderInv, HandlesHeld
<1>3. /\ cxi' \in CxiType /\ FileOfCookie' /\ (cxi.cookie # h => cxi' = cxi)
      /\ registered' \in [Handles -> AllTitles \cup {NoTitle}]
      /\ \A k \in Handles : registered'[k] = IF k = h THEN NoTitle ELSE registered[k]
      /\ cachedHandle' = IF cachedHandle = h THEN NoTitle ELSE cachedHandle
      /\ exheader' = exheader
  BY <1>1, <1>2, UnregisterFacts
<1>4. /\ \A q \in processes' : q \in processes /\ (q.handle \in Handles => q.handle # h)
      /\ \A c \in Launchers : Active(c) /\ launcher[c].handle \in Handles => launcher[c].handle # h
  BY <1>1 DEF LoaderInv, HandlesHeld
<1> HIDE DEF h, t
<1>5. CacheTyped' /\ OneLaunch'
  BY <1>1, <1>3 DEF LoaderInv, CacheTyped, OneLaunch, Active
<1>6. HandlesHeld'
  <2>1. \A q \in processes' : q.title \in AllTitles /\ HandleOf(q.handle, q.title)'
    BY <1>3, <1>4 DEF LoaderInv, HandlesHeld, HandleOf
  <2>2. \A c \in Launchers : Active(c) =>
          launcher[c].title \in AllTitles /\ HandleOf(launcher[c].handle, launcher[c].title)'
    BY <1>1, <1>3, <1>4 DEF LoaderInv, HandlesHeld, HandleOf
  <2> QED
    BY <1>1, <1>4, <2>1, <2>2 DEF LoaderInv, HandlesHeld, Active, HandleOf
<1>7. HeaderOfHandle'
  <2>1. CASE cachedHandle = h
    BY <1>3, <2>1, CookiesDiffer DEF HeaderOfHandle
  <2>2. CASE cachedHandle # h
    <3>1. ASSUME NEW u \in CxiModules, cachedHandle = Cookie(u)
          PROVE  /\ exheader = u
                 /\ \/ \E c \in Launchers : launcher[c].at \in {"informed", "done"} /\ launcher[c].handle = Cookie(u)
                    \/ \E q \in processes' : q.handle = Cookie(u)
      BY <1>1, <2>2, <3>1 DEF LoaderInv, HeaderOfHandle, h
    <3> QED
      BY <1>1, <1>3, <2>2, <3>1 DEF LoaderInv, HeaderOfHandle
  <2> QED
    BY <2>1, <2>2
<1>8. FileOfLaunch'
  <2> SUFFICES ASSUME NEW c \in Launchers, NEW u \in CxiModules, launcher[c].at = "informed",
                      launcher[c].handle = Cookie(u), cachedHandle' = Cookie(u)
               PROVE  cxi' = [file |-> u, cookie |-> Cookie(u), ncch |-> u]
    BY <1>1 DEF FileOfLaunch
  <2>1. launcher[c].title = u /\ launcher[c].title # t
    BY HandleFacts DEF LoaderInv, HandlesHeld, OneLaunch, Active, t
  <2>2. h # Cookie(u)
    BY <1>2, <2>1, HandleFacts
  <2>3. cachedHandle = Cookie(u)
    BY <1>3, CookiesDiffer
  <2>4. cxi = [file |-> u, cookie |-> Cookie(u), ncch |-> u]
    BY <2>3 DEF LoaderInv, FileOfLaunch
  <2>5. cxi.cookie = Cookie(u)
    BY <2>4
  <2> QED
    BY <1>3, <2>2, <2>4, <2>5
<1> QED
  BY <1>1, <1>3, <1>5, <1>6, <1>7, <1>8 DEF LoaderInv, ProcessOfItsTitle

\* What LoadProcess finds: the code and the header of the title.
LEMMA LoadFacts ==
  ASSUME LoaderInv, NEW c \in Launchers, launcher[c].at = "informed",
         NEW h, NEW t, h = launcher[c].handle, t = launcher[c].title,
         NEW file, file = IF h # cachedHandle THEN CxiAfterInfo(h) ELSE cxi
  PROVE  /\ CodeFrom(h, file) = t
         /\ h = cachedHandle => exheader = t
         /\ IsCookie(h) => file.ncch = file.file
         /\ file \in CxiType
         /\ IF IsCookie(h) THEN TRUE ELSE file = cxi
<1>1. t \in AllTitles /\ HandleOf(h, t) /\ cxi \in CxiType /\ FileOfCookie
  BY DEF LoaderInv, HandlesHeld, Active, CacheTyped
<1>2. h = cachedHandle => exheader = t
  BY <1>1, HandleFacts DEF LoaderInv, HeaderOfHandle
<1>3. CASE t \in CxiModules /\ h = Cookie(t)
  <2>1. IsCookie(h)
    BY <1>3, CookiesDiffer
  <2>2. file = [file |-> t, cookie |-> Cookie(t), ncch |-> t]
    <3>1. CASE h # cachedHandle
      BY <1>1, <1>3, <3>1, FileAfterInfo
    <3>2. CASE h = cachedHandle
      BY <1>3, <3>2 DEF LoaderInv, FileOfLaunch
    <3> QED
      BY <3>1, <3>2
  <2>3. file \in CxiType /\ file.file = t /\ file.ncch = t
    <3>1. [file |-> t, cookie |-> Cookie(t), ncch |-> t] \in CxiType
      BY <1>1, <1>3, FileStates
    <3> QED
      BY <2>2, <3>1
  <2> QED
    BY <1>2, <2>1, <2>3 DEF CodeFrom
<1>4. CASE h \in Handles
  <2>1. ~IsCookie(h) /\ registered[h] = t
    BY <1>1, <1>4, HandleFacts, CookiesDiffer
  <2>2. file = cxi
    BY <2>1 DEF CxiAfterInfo
  <2> QED
    BY <1>1, <1>2, <2>1, <2>2 DEF CodeFrom
<1> QED
  BY <1>1, <1>3, <1>4, HandleFacts

\* A process is made, or the header cannot be read again.
LEMMA LoadStep ==
  ASSUME LoaderInv, NEW c \in Launchers, LoadProcess(c)
  PROVE  LoaderInv'
<1>0. PICK h, t, file : /\ h = launcher[c].handle /\ t = launcher[c].title
                        /\ file = IF h # cachedHandle THEN CxiAfterInfo(h) ELSE cxi
  OBVIOUS
<1>1. launcher[c].at = "informed"
  BY DEF LoadProcess
<1>2. t \in AllTitles /\ HandleOf(h, t) /\ Active(c) /\ cxi \in CxiType /\ FileOfCookie
  BY <1>0, <1>1 DEF LoaderInv, HandlesHeld, Active, CacheTyped
<1>3. /\ CodeFrom(h, file) = t
      /\ h = cachedHandle => exheader = t
      /\ IsCookie(h) => file.ncch = file.file
      /\ file \in CxiType
      /\ IF IsCookie(h) THEN TRUE ELSE file = cxi
  BY <1>0, <1>1, LoadFacts
<1> DEFINE made == [title |-> t, handle |-> h, header |-> t, code |-> t]
<1>4. /\ launcher' = [launcher EXCEPT ![c] = Resting] /\ UNCHANGED <<registered, broken>>
      /\ \/ h # cachedHandle /\ InfoFails(h) /\ processes' = processes
         \/ /\ exheader' = t /\ cachedHandle' = h
            /\ cxi' = IF IsCookie(h) THEN InvalidateCachedCxiFile(file) ELSE file
            /\ processes' = processes \cup {made}
  <2>1. (IF h # cachedHandle THEN CodeFrom(h, file) ELSE exheader) = t
    BY <1>3
  <2> QED
    BY <1>0, <1>3, <2>1 DEF LoadProcess
<1>5. made.title = t /\ made.handle = h /\ made.header = t /\ made.code = t
  OBVIOUS
<1> HIDE DEF made
<1>6. launcher' \in [Launchers -> LauncherType] /\ \A d \in Launchers : launcher'[d].at = "idle"
  <2>1. Resting \in LauncherType /\ Resting.at = "idle"
    BY DEF Resting, LauncherType
  <2>2. \A d \in Launchers \ {c} : launcher[d].at = "idle"
    BY <1>2 DEF LoaderInv, OneLaunch, Active
  <2> QED
    BY <1>4, <2>1, <2>2 DEF LoaderInv, CacheTyped
<1>7. OneLaunch' /\ FileOfLaunch'
  BY <1>6 DEF OneLaunch, FileOfLaunch, Active
<1>8. \A p \in processes : p.handle \in Handles => p.handle # h
  BY <1>0, <1>2 DEF LoaderInv, HandlesHeld
<1>9. /\ \A p \in processes : p.title \in AllTitles /\ HandleOf(p.handle, p.title)'
      /\ HandleOf(h, t)'
  BY <1>2, <1>4 DEF LoaderInv, HandlesHeld, HandleOf
<1>10. CASE h # cachedHandle /\ InfoFails(h) /\ processes' = processes
  <2>1. cxi' \in CxiType /\ FileOfCookie'
    BY <1>2, <1>4, <1>10, InfoFacts
  <2>2. cachedHandle' = NoTitle
    BY <1>10 DEF InfoFails
  <2>3. HeaderOfHandle'
    BY <2>2, CookiesDiffer DEF HeaderOfHandle
  <2>4. HandlesHeld'
    BY <1>6, <1>9, <1>10 DEF LoaderInv, HandlesHeld, Active
  <2>5. CacheTyped' /\ ProcessOfItsTitle'
    BY <1>4, <1>6, <1>10, <2>1 DEF LoaderInv, CacheTyped, ProcessOfItsTitle
  <2> QED
    BY <1>7, <2>1, <2>3, <2>4, <2>5 DEF LoaderInv
<1>11. CASE /\ exheader' = t /\ cachedHandle' = h
            /\ cxi' = IF IsCookie(h) THEN InvalidateCachedCxiFile(file) ELSE file
            /\ processes' = processes \cup {made}
  <2>1. cxi' \in CxiType /\ FileOfCookie'
    <3>1. CASE IsCookie(h)
      BY <1>3, <1>11, <3>1, FileStates DEF FileOfCookie
    <3>2. CASE ~IsCookie(h)
      <4>1. cxi' = cxi
        BY <1>3, <1>11, <3>2
      <4> QED
        BY <1>2, <4>1 DEF FileOfCookie
    <3> QED
      BY <3>1, <3>2
  <2>2. HeaderOfHandle'
    BY <1>2, <1>4, <1>5, <1>11, HandleFacts DEF HeaderOfHandle
  <2>3. HandlesHeld'
    <3>1. \A p \in processes' : p = made \/ p \in processes
      BY <1>11
    <3>2. \A p \in processes' : p.title \in AllTitles /\ HandleOf(p.handle, p.title)'
      BY <1>2, <1>5, <1>9, <3>1
    <3>3. \A p, q \in processes' : p.handle = q.handle /\ p.handle \in Handles => p = q
      BY <1>5, <1>8, <3>1 DEF LoaderInv, HandlesHeld
    <3> QED
      BY <1>6, <3>2, <3>3 DEF HandlesHeld, Active
  <2>4. CacheTyped' /\ ProcessOfItsTitle'
    BY <1>4, <1>5, <1>6, <1>11, <2>1 DEF LoaderInv, CacheTyped, ProcessOfItsTitle
  <2> QED
    BY <1>7, <2>1, <2>2, <2>3, <2>4 DEF LoaderInv
<1> QED
  BY <1>4, <1>10, <1>11

\* Every command of pm.
LEMMA LoaderStep ==
  ASSUME LoaderInv, [LoaderNext]_loaderCacheVars
  PROVE  LoaderInv'
<1>1. CASE UNCHANGED loaderCacheVars
  <2>1. UNCHANGED <<cachedHandle, exheader, cxi, registered, launcher, processes, broken>>
    BY <1>1 DEF loaderCacheVars, cacheVars
  <2> QED
    BY <2>1 DEF LoaderInv, CacheTyped, OneLaunch, HandlesHeld, HandleOf, FileOfCookie,
                HeaderOfHandle, FileOfLaunch, ProcessOfItsTitle, Active
<1> QED
  BY <1>1, RegisterStep, AsksStep, GivesUpStep, LoadStep, ListsStep, EndsStep DEF LoaderNext

\* While the threads of pm launch one title at a time, loader does not mix up
\* titles: the header and the code of every process are those of the title that
\* was asked for, and no assertion fails, for any titles, handles and threads.
THEOREM ProcessesAreOfTheirTitles == ~Overlap => (LoaderSpec => []ProcessOfItsTitle)
<1>1. ~Overlap /\ LoaderInit => LoaderInv
  BY LoaderBegin
<1>2. LoaderInv /\ [LoaderNext]_loaderCacheVars => LoaderInv'
  BY LoaderStep
<1>3. LoaderInv => ProcessOfItsTitle
  BY DEF LoaderInv
<1> QED
  BY <1>1, <1>2, <1>3, PTL DEF LoaderSpec

-----------------------------------------------------------------------------
(* The arm9 loader *)

\* The registers hold the options of the last boot, whose EmuNAND is there.
SavedIsLast ==
  /\ mcu.state = "valid" /\ mcu.bootCfg = lastBoot
  /\ lastBoot.nand # "sys" => lastBoot.nand = "emu" /\ lastBoot.emu \in emuNands

\* A boot from power-on knows what the registers hold.
RegistersKnown ==
  bootType = "B9S" /\ bootPlace \in {"read", "options", "defaults", "forced", "chosen"} =>
    mcu.state = "valid" /\ mcu.bootCfg = oldBootConfig

\* Of a system that runs, and of a firmlaunch that has not chosen yet.
RunsLast ==
  bootPlace = "running" =>
    /\ nandType = "emu" => emunandIndex \in emuNands
    /\ ~updated => SavedIsLast /\ nandType = lastBoot.nand /\ emunandIndex = lastBoot.emu

\* A firmlaunch goes straight on with what it reads.
FirmlaunchFollows ==
  bootType = "FIRMLAUNCH" =>
    /\ bootPlace \in {"start", "read", "chosen", "running"}
    /\ ~updated =>
         /\ SavedIsLast
         /\ bootPlace = "read" => bootConfig = lastBoot
         /\ bootPlace = "chosen" => nandType = lastBoot.nand /\ emunandIndex = lastBoot.emu

Arm9Inv ==
  /\ bootType \in {"B9S", "FIRMLAUNCH"} /\ updated \in BOOLEAN
  /\ RegistersKnown /\ RunsLast /\ FirmlaunchFollows

LEMMA Arm9InitInv == Arm9Init => Arm9Inv
BY DEF Arm9Init, Arm9Inv, RegistersKnown, RunsLast, FirmlaunchFollows

\* A machine that is off has nothing to keep.
LEMMA OffKeeps == ASSUME Arm9Inv, Off PROVE Arm9Inv'
BY DEF Off, bootHistory, Arm9Inv, RegistersKnown, RunsLast, FirmlaunchFollows

\* A boot, and a firmlaunch by a system that runs.
LEMMA StartsKeeps ==
  ASSUME Arm9Inv, NEW type \in {"B9S", "FIRMLAUNCH"}, NEW firm, NEW env,
         bootPlace = "running" \/ type = "B9S", Starts(type, firm, env)
  PROVE  Arm9Inv'
BY DEF Starts, cardVars, bootHistory, Arm9Inv, RegistersKnown, RunsLast, FirmlaunchFollows, SavedIsLast

\* What is read leaves valid registers valid.
LEMMA ReadsConfigKeeps == ASSUME Arm9Inv, ReadsConfig PROVE Arm9Inv'
<1>1. mcu'.state = "valid" /\ mcu'.bootCfg = oldBootConfig'
  BY DEF ReadsConfig, ReadMcu
<1>2. SavedIsLast => SavedIsLast' /\ bootConfig' = lastBoot
  BY DEF ReadsConfig, ReadMcu, SavedIsLast, cardVars, bootHistory
<1>3. QED
  BY <1>1, <1>2 DEF ReadsConfig, bootHistory, Arm9Inv, RegistersKnown, RunsLast, FirmlaunchFollows

\* Steps by which a boot from power-on comes closer to its options.
LEMMA ChoosingKeeps ==
  ASSUME Arm9Inv, ShowsConfigMenu \/ NoConfigMenu \/ ComesFromAgb \/ ForcesLastOptions
                  \/ AsksForOptions \/ EntersSafeMode \/ UsesSettings
  PROVE  Arm9Inv'
<1> USE DEF Arm9Inv, RegistersKnown, RunsLast, FirmlaunchFollows
<1>1. /\ bootType = "B9S" /\ bootPlace \in {"read", "options", "defaults"}
      /\ bootPlace' \in {"options", "defaults", "forced", "chosen"}
      /\ UNCHANGED <<bootType, mcu, oldBootConfig, updated>>
  <2>1. CASE ShowsConfigMenu \/ NoConfigMenu
    BY <2>1 DEF ShowsConfigMenu, NoConfigMenu, memoryVars, bootHistory
  <2>2. CASE ComesFromAgb \/ ForcesLastOptions \/ AsksForOptions
    BY <2>2 DEF ComesFromAgb, ForcesLastOptions, AsksForOptions, MayForce, Chooses, memoryVars, bootHistory
  <2>3. CASE EntersSafeMode \/ UsesSettings
    <3>1. /\ bootPlace = "defaults" /\ bootPlace' = "chosen"
          /\ UNCHANGED <<bootType, mcu, oldBootConfig, updated>>
      BY <2>3 DEF EntersSafeMode, UsesSettings, Chooses, memoryVars, bootHistory
    <3>2. QED BY <3>1
  <2>4. QED BY <2>1, <2>2, <2>3
<1>2. QED BY <1>1

\* A firmlaunch chooses what it has read.
LEMMA FirmlaunchGoesKeeps == ASSUME Arm9Inv, FirmlaunchGoes PROVE Arm9Inv'
BY DEF FirmlaunchGoes, Chooses, memoryVars, cardVars, bootHistory, SavedIsLast,
       Arm9Inv, RegistersKnown, RunsLast, FirmlaunchFollows

\* An EmuNAND that is booted exists; options whose EmuNAND exists stay.
LEMMA LocatedExists ==
  /\ Located.nand # "sys" => Located.nand = "emu" /\ Located.emu \in emuNands
  /\ (nandType # "sys" => emunandIndex \in emuNands /\ nandType = "emu") =>
       Located.nand = nandType /\ Located.emu = emunandIndex
BY DEF Located

\* The boot saves its options, unless the registers hold them.
LEMMA BootsKeeps == ASSUME Arm9Inv, Boots PROVE Arm9Inv'
<1> USE DEF Boots, cardVars
<1>1. CASE bootType = "FIRMLAUNCH"
  <2>1. UNCHANGED <<mcu, lastBoot, updated, emuNands, bootType>>
    BY <1>1 DEF bootHistory
  <2>2. ~updated => SavedIsLast /\ nandType' = lastBoot.nand /\ emunandIndex' = lastBoot.emu
    BY <1>1, LocatedExists DEF Arm9Inv, FirmlaunchFollows, SavedIsLast
  <2>3. SavedIsLast => SavedIsLast'
    BY <2>1 DEF SavedIsLast
  <2>4. QED BY <1>1, <2>1, <2>2, <2>3, LocatedExists DEF Arm9Inv, RegistersKnown, RunsLast, FirmlaunchFollows
<1>2. CASE bootType = "B9S"
  <2>1. WritesBootConfig /\ bootType' = "B9S" /\ emuNands' = emuNands
    BY <1>2
  <2>2. mcu'.state = "valid" /\ mcu'.bootCfg = lastBoot'
    BY <1>2, <2>1 DEF WritesBootConfig, Arm9Inv, RegistersKnown
  <2>3. lastBoot'.nand = Located.nand /\ lastBoot'.emu = Located.emu
    BY <2>1 DEF WritesBootConfig, Config
  <2>4. SavedIsLast'
    BY <2>1, <2>2, <2>3, LocatedExists DEF SavedIsLast
  <2>5. QED
    BY <2>1, <2>3, <2>4, LocatedExists
    DEF WritesBootConfig, Arm9Inv, RegistersKnown, RunsLast, FirmlaunchFollows
<1>3. QED BY <1>1, <1>2 DEF Arm9Inv

LEMMA Arm9StepInv == Arm9Inv /\ [Arm9Next]_arm9Vars => Arm9Inv'
<1> SUFFICES ASSUME Arm9Inv, [Arm9Next]_arm9Vars PROVE Arm9Inv'
  OBVIOUS
<1>1. CASE PowersOn \/ Reboots \/ (\E firm \in {"native", "twl", "agb"} : Firmlaunches(firm))
  <2>1. CASE PowersOn
    BY <2>1, StartsKeeps DEF PowersOn
  <2>2. CASE Reboots
    BY <2>2, StartsKeeps DEF Reboots
  <2>3. ASSUME NEW firm, Firmlaunches(firm) PROVE Arm9Inv'
    BY <2>3, StartsKeeps DEF Firmlaunches
  <2>4. QED BY <1>1, <2>1, <2>2, <2>3
<1>2. CASE LosesPower \/ ConfigNotWritten \/ FirmlaunchRefused \/ RefusesLockedCard
  BY <1>2, OffKeeps DEF LosesPower, ConfigNotWritten, FirmlaunchRefused, RefusesLockedCard
<1>3. CASE ChangesCard
  BY <1>3 DEF ChangesCard, bootHistory, Arm9Inv, RegistersKnown, RunsLast, FirmlaunchFollows
<1>4. CASE ReplacesBootFirm \/ LosesIni
  BY <1>4 DEF ReplacesBootFirm, LosesIni, memoryVars, optionVars, cardVars, bootHistory,
              SavedIsLast, Arm9Inv, RegistersKnown, RunsLast, FirmlaunchFollows
<1>5. CASE ReadsConfig
  BY <1>5, ReadsConfigKeeps
<1>6. CASE ShowsConfigMenu \/ NoConfigMenu \/ ComesFromAgb \/ ForcesLastOptions
           \/ AsksForOptions \/ EntersSafeMode \/ UsesSettings
  BY <1>6, ChoosingKeeps
<1>7. CASE FirmlaunchGoes
  BY <1>7, FirmlaunchGoesKeeps
<1>8. CASE Boots
  BY <1>8, BootsKeeps
<1>9. CASE UNCHANGED arm9Vars
  BY <1>9 DEF arm9Vars, memoryVars, optionVars, cardVars, bootHistory,
              SavedIsLast, Arm9Inv, RegistersKnown, RunsLast, FirmlaunchFollows
<1>10. QED BY <1>1, <1>2, <1>3, <1>4, <1>5, <1>6, <1>7, <1>8, <1>9 DEF Arm9Next

\* What is asked for is an index that there is.
LEMMA AskedExists ==
  ASSUME NEW held \in Presses, NEW otherwise \in EmuIndices
  PROVE  AskedIndex(held, otherwise) \in EmuIndices
<1>1. AskedIndex(held, 0) \in EmuIndices
  BY Arm9BootAssumption
<1>2. AskedIndex(held, otherwise) = AskedIndex(held, 0) \/ AskedIndex(held, otherwise) = otherwise
  BY DEF AskedIndex
<1> QED
  BY <1>1, <1>2

\* What comes of no boot at all.
LEMMA DefaultsTyped ==
  /\ ZeroConfig \in BootConfigs /\ DefaultSettings \in Settings
  /\ NoIni \in [whole : BOOLEAN, settings : Settings]
  /\ 0 \in EmuIndices /\ {} \in Presses
<1>1. 0 \in EmuIndices /\ {} \in Presses /\ 0 \in AutobootModes
  BY Arm9BootAssumption
<1>2. ZeroConfig \in BootConfigs /\ DefaultSettings \in Settings
  BY <1>1 DEF ZeroConfig, BootConfigs, DefaultSettings, Settings
<1>3. NoIni \in [whole : BOOLEAN, settings : Settings]
  BY <1>2 DEF NoIni
<1> QED
  BY <1>1, <1>2, <1>3

LEMMA Arm9InitTyped == Arm9Init => Arm9TypeOK
<1> SUFFICES ASSUME Arm9Init
             PROVE  Arm9TypeOK
  OBVIOUS
<1>1. mcu \in [state : {"valid", "older", "invalid"}, bootCfg : BootConfigs]
  BY DefaultsTyped DEF Arm9Init
<1> QED
  BY <1>1, DefaultsTyped DEF Arm9Init, Arm9TypeOK

LEMMA OffTyped ==
  ASSUME Arm9TypeOK, Off, ini' \in [whole : BOOLEAN, settings : Settings],
         mcu' \in [state : {"valid", "older", "invalid"}, bootCfg : BootConfigs]
  PROVE  Arm9TypeOK'
BY DefaultsTyped DEF Off, cardVars, bootHistory, Arm9TypeOK

LEMMA StartsTyped ==
  ASSUME Arm9TypeOK, NEW type \in {"B9S", "FIRMLAUNCH"},
         NEW firm \in {"native", "twl", "agb", "safe"}, NEW env \in {0, 1, 3, 7},
         Starts(type, firm, env)
  PROVE  Arm9TypeOK'
BY DefaultsTyped DEF Starts, cardVars, bootHistory, Arm9TypeOK

LEMMA AutobootedTyped ==
  ASSUME NEW env \in {0, 1, 3, 7}, NEW empty
  PROVE  Autobooted(env, empty) \in {0, 1, 3, 7}
BY DEF Autobooted

LEMMA ChoosesTyped ==
  ASSUME Arm9TypeOK, NEW place \in {"options", "forced", "chosen"}, NEW nand \in {"sys", "emu"},
         NEW i \in EmuIndices, NEW noForce \in BOOLEAN, Chooses(place, nand, i, noForce),
         bootenv' \in {0, 1, 3, 7}, firmType' \in {"native", "twl", "agb", "safe"}
  PROVE  Arm9TypeOK'
BY DEF Chooses, memoryVars, cardVars, bootHistory, Arm9TypeOK

LEMMA LocatedTyped == Arm9TypeOK => Config \in BootConfigs
BY DefaultsTyped DEF Arm9TypeOK, Config, Located, BootConfigs

LEMMA Arm9StepTyped == Arm9TypeOK /\ [Arm9Next]_arm9Vars => Arm9TypeOK'
<1> SUFFICES ASSUME Arm9TypeOK, [Arm9Next]_arm9Vars
             PROVE  Arm9TypeOK'
  OBVIOUS
<1> DEFINE McuValues == [state : {"valid", "older", "invalid"}, bootCfg : BootConfigs]
           IniValues == [whole : BOOLEAN, settings : Settings]
<1>typed. /\ mcu \in McuValues /\ ini \in IniValues /\ bootenv \in {0, 1, 3, 7}
          /\ firmType \in {"native", "twl", "agb", "safe"} /\ pressed \in Presses
          /\ mcu.bootCfg \in BootConfigs /\ ini.settings \in Settings
          /\ configData.defaultEmu \in EmuIndices
          /\ bootConfig.nand \in {"sys", "emu"} /\ bootConfig.emu \in EmuIndices
  BY DEF Arm9TypeOK, BootConfigs, Settings
<1>invalid. [state |-> "invalid", bootCfg |-> ZeroConfig] \in McuValues
  BY DefaultsTyped
<1>1. CASE PowersOn \/ Reboots \/ (\E firm \in {"native", "twl", "agb"} : Firmlaunches(firm))
  <2>1. CASE PowersOn
    BY <2>1, StartsTyped DEF PowersOn
  <2>2. CASE Reboots
    <3>1. EnvAfter(firmType) \in {0, 1, 3, 7}
      BY DEF EnvAfter
    <3> QED
      BY <2>2, <3>1, StartsTyped DEF Reboots
  <2>3. ASSUME NEW firm \in {"native", "twl", "agb"}, Firmlaunches(firm)
        PROVE  Arm9TypeOK'
    BY <1>typed, <2>3, StartsTyped DEF Firmlaunches
  <2> QED
    BY <1>1, <2>1, <2>2, <2>3
<1>2. CASE LosesPower \/ ConfigNotWritten \/ FirmlaunchRefused \/ RefusesLockedCard
  <2>1. Off /\ mcu' \in McuValues /\ ini' \in IniValues
    BY <1>2, <1>typed, <1>invalid, DefaultsTyped
    DEF LosesPower, ConfigNotWritten, FirmlaunchRefused, RefusesLockedCard
  <2> QED
    BY <2>1, OffTyped
<1>3. CASE ChangesCard
  <2>1. /\ emuNands' \subseteq EmuIndices /\ isSdMode' \in BOOLEAN /\ ini' \in IniValues
    BY <1>3, DefaultsTyped DEF ChangesCard
  <2> QED
    BY <1>3, <2>1 DEF ChangesCard, memoryVars, optionVars, bootHistory, Arm9TypeOK
<1>4. CASE ReplacesBootFirm
  <2>1. mcu' \in McuValues
    BY <1>4, <1>typed DEF ReplacesBootFirm
  <2> QED
    BY <1>4, <2>1 DEF ReplacesBootFirm, memoryVars, optionVars, cardVars, Arm9TypeOK
<1>5. CASE LosesIni
  BY <1>5, DefaultsTyped DEF LosesIni, memoryVars, optionVars, cardVars, bootHistory, Arm9TypeOK
<1>6. CASE ReadsConfig
  <2>1. ReadMcu \in McuValues /\ ReadMcu.bootCfg \in BootConfigs
    BY <1>typed, DefaultsTyped DEF ReadMcu
  <2>2. /\ configData' \in Settings /\ needConfig' \in {"create", "modify"}
        /\ mcu' \in McuValues /\ {bootConfig', oldBootConfig'} \subseteq BootConfigs
    BY <1>6, <1>typed, <2>1, DefaultsTyped DEF ReadsConfig
  <2> QED
    BY <1>6, <2>2 DEF ReadsConfig, optionVars, cardVars, bootHistory, Arm9TypeOK
<1>7. CASE ShowsConfigMenu
  BY <1>7 DEF ShowsConfigMenu, optionVars, cardVars, bootHistory, Arm9TypeOK
<1>8. CASE NoConfigMenu
  BY <1>8 DEF NoConfigMenu, memoryVars, optionVars, cardVars, bootHistory, Arm9TypeOK
<1>9. CASE FirmlaunchGoes
  BY <1>9, <1>typed, ChoosesTyped DEF FirmlaunchGoes
<1>10. CASE ComesFromAgb
  BY <1>10, <1>typed, DefaultsTyped, ChoosesTyped DEF ComesFromAgb
<1>11. CASE ForcesLastOptions
  <2>1. bootenv' \in {0, 1, 3, 7}
    BY <1>11, <1>typed, AutobootedTyped DEF ForcesLastOptions
  <2>2. Chooses("forced", bootConfig.nand, bootConfig.emu, FALSE) /\ firmType' = firmType
    BY <1>11 DEF ForcesLastOptions
  <2> QED
    BY <1>typed, <2>1, <2>2, ChoosesTyped
<1>12. CASE AsksForOptions
  <2>1. bootenv' \in {0, 1, 3, 7}
    BY <1>12, <1>typed, AutobootedTyped DEF AsksForOptions
  <2>2. Chooses("options", "sys", 0, FALSE) /\ firmType' = firmType
    BY <1>12 DEF AsksForOptions
  <2> QED
    BY <1>typed, <2>1, <2>2, DefaultsTyped, ChoosesTyped
<1>13. CASE EntersSafeMode
  BY <1>13, <1>typed, DefaultsTyped, ChoosesTyped DEF EntersSafeMode
<1>14. CASE UsesSettings
  <2>1. bootenv' \in {0, 1, 3, 7} /\ firmType' = firmType
    BY <1>14, <1>typed, AutobootedTyped DEF UsesSettings
  <2>2. AskedIndex(pressed, configData.defaultEmu) \in EmuIndices
    BY <1>typed, AskedExists
  <2>3. \/ Chooses("chosen", "emu", AskedIndex(pressed, configData.defaultEmu), FALSE)
        \/ Chooses("chosen", "sys", 0, FALSE)
    BY <1>14 DEF UsesSettings
  <2> QED
    BY <1>typed, <2>1, <2>2, <2>3, DefaultsTyped, ChoosesTyped
<1>15. CASE Boots
  <2>1. /\ Config \in BootConfigs /\ Located.nand \in {"sys", "emu"} /\ Located.emu \in EmuIndices
    BY LocatedTyped, DefaultsTyped DEF Config, Located, Arm9TypeOK
  <2>2. /\ mcu' \in McuValues /\ {bootConfig', lastBoot'} \subseteq BootConfigs
        /\ updated' \in BOOLEAN
    <3>1. CASE bootType = "FIRMLAUNCH"
      BY <1>15, <3>1 DEF Boots, bootHistory, Arm9TypeOK
    <3>2. CASE bootType # "FIRMLAUNCH"
      <4>1. WritesBootConfig
        BY <1>15, <3>2 DEF Boots
      <4>2. [state |-> "valid", bootCfg |-> Config] \in McuValues
        BY <2>1
      <4> QED
        BY <1>typed, <2>1, <4>1, <4>2 DEF WritesBootConfig
    <3> QED
      BY <3>1, <3>2
  <2> QED
    BY <1>15, <2>1, <2>2 DEF Boots, cardVars, Arm9TypeOK
<1>16. CASE UNCHANGED arm9Vars
  BY <1>16 DEF arm9Vars, memoryVars, optionVars, cardVars, bootHistory, Arm9TypeOK
<1> QED
  BY <1>1, <1>2, <1>3, <1>4, <1>5, <1>6, <1>7, <1>8, <1>9, <1>10, <1>11, <1>12, <1>13, <1>14,
     <1>15, <1>16 DEF Arm9Next

\* arm9/source/main.c, config.c: whatever is pressed, read and lost, an EmuNAND that is
\* chosen, saved or read is one of those there are, and CFG_BOOTENV has one of its values.
THEOREM BootsTyped == Arm9Spec => []Arm9TypeOK
BY Arm9InitTyped, Arm9StepTyped, PTL DEF Arm9Spec

\* A firmlaunch stays on the NAND of the system that launched it.
THEOREM FirmlaunchesStay == Arm9Spec => []FirmlaunchKeepsNand
<1>1. Arm9Inv => FirmlaunchKeepsNand
  BY DEF Arm9Inv, RunsLast, FirmlaunchKeepsNand
<1>2. QED BY <1>1, Arm9InitInv, Arm9StepInv, PTL DEF Arm9Spec

-----------------------------------------------------------------------------
(***************************************************************************)
(* The plugin's memory (PluginLoader).  At most one event of the           *)
(* application is on its way, and the place it has reached, with the       *)
(* status in the configuration memory, says where the plugin's memory is.  *)
(***************************************************************************)
PluginEvents == {"home", "exit"}

\* The types that the steps need: what is counted, what may wait, and the records.
PluginTyped ==
  /\ app \in Nat /\ notices \in {0, 1}
  /\ asks \in {{}, {"home"}, {"exit"}}
  /\ word = [status |-> word.status, events |-> word.events]
  /\ word.status \in {"none", "running", "in home", "exiting"}
  /\ plugin = [at |-> plugin.at, saw |-> plugin.saw]
  /\ main = [at |-> main.at, then |-> main.then]
  /\ ctx = [target |-> ctx.target, swapped |-> ctx.swapped, home |-> ctx.home,
            strategy |-> ctx.strategy, selfManaged |-> ctx.selfManaged,
            swapSet |-> ctx.swapSet, menuBlocked |-> ctx.menuBlocked]

Busy == main.at \in {"waits", "act"}

\* What becomes of the event that a thread of the application waits for: it has not
\* been handled, or the main thread is busy with it, or the thread is to be woken.
EventUnhandled ==
  /\ notices = 1 /\ ~wake /\ ~Busy
  /\ word.events = asks /\ exitTask = "idle"
  /\ word.status = "running" \/ (word.status = "in home" /\ asks = {"home"})

HandlesAskedEvent ==
  /\ notices = 0 /\ ~wake /\ Busy
  /\ exitTask = "idle"
  /\ \/ asks = {"exit"} /\ main.then = "exit" /\ word.status = "exiting" /\ word.events = {}
     \/ asks = {"home"} /\ main.then = "swap" /\ word.status = "running" /\ ctx.strategy = "swap"
     \/ asks = {"home"} /\ main.then = "home" /\ word.status \in {"running", "in home"}
        /\ ctx.strategy = "none"

EventHandled ==
  /\ notices = 0 /\ wake /\ ~Busy
  /\ word.events = {}
  /\ \/ asks = {"exit"} /\ word.status = "exiting" /\ exitTask = "waits"
     \/ asks = {"home"} /\ word.status \in {"running", "in home"} /\ exitTask = "idle"

NoEvent == notices = 0 /\ ~wake /\ ~Busy /\ word.events = {}

OneEvent ==
  IF asks = {} THEN NoEvent
  ELSE game = "runs" /\ (EventUnhandled \/ HandlesAskedEvent \/ EventHandled)

\* Which applications have a status.
StatusOfApp ==
  /\ game # "none" => app > 0
  /\ word.status # "none" => ctx.target = app /\ app > 0 /\ signalsOnExit
  /\ word.status = "none" => ctx.target = 0 /\ block = NoBlock /\ ~ctx.menuBlocked
  /\ game = "loading" => word.status = "none" /\ plugin.at = "none"
  /\ game = "none" => plugin.at = "none"
  /\ game = "runs" /\ word.status = "none" => plugin.at = "none"
  /\ word.status # "none" /\ game # "runs" => word.status = "exiting" /\ exitTask = "waits"
  /\ exitTask # "idle" => word.status = "exiting"
  /\ main.at = "shows" /\ main.then = "loaded" => game = "loading"
  /\ word.status = "exiting" /\ game = "runs" => asks = {"exit"}

MemoryOfStatus ==
  /\ locked <=> ctx.swapped
  /\ word.status = "in home" <=> ctx.swapped \/ ctx.home
  /\ ctx.swapped => ctx.strategy = "swap" /\ ~ctx.home /\ block = NoBlock /\ swapFile = app
  /\ ctx.home => ctx.strategy = "none"
  /\ word.status # "none" /\ ~ctx.swapped => block = [ready |-> TRUE, mounted |-> app, data |-> app]

PluginInv ==
  /\ PluginTyped
  /\ ~rebooted => OneEvent
  /\ StatusOfApp
  /\ MemoryOfStatus

\* An application that is loaded has no status yet.
LEMMA LoadingApp ==
  ASSUME PluginInv, ~rebooted, game = "loading"
  PROVE  /\ asks = {} /\ NoEvent /\ exitTask = "idle" /\ app > 0
         /\ word.status = "none" /\ plugin.at = "none" /\ block = NoBlock
         /\ ctx.target = 0 /\ ~ctx.menuBlocked /\ ~ctx.swapped /\ ~ctx.home /\ ~locked
BY DEF PluginInv, OneEvent, StatusOfApp, MemoryOfStatus

LEMMA NextNumber == 0 + 1 = 1 /\ \A n \in Nat : n + 1 \in Nat /\ n + 1 > 0
OBVIOUS

LEMMA EventAdded ==
  ASSUME NEW w, w = [status |-> w.status, events |-> w.events], w.events = {}, NEW e
  PROVE  [w EXCEPT !.events = w.events \cup {e}] = [status |-> w.status, events |-> {e}]
<1>1. w.events \cup {e} = {e}
  BY Zenon
<1>2. \A E : [w EXCEPT !.events = E] = [status |-> w.status, events |-> E]
  OBVIOUS
<1> QED
  BY <1>1, <1>2, Zenon

\* The kernel signals an event only while none is on its way.
LEMMA SignalKeeps ==
  ASSUME OneAsker, PluginInv, ~rebooted, NEW e \in PluginEvents, SignalEvent(e),
         word.status = "running" \/ (word.status = "in home" /\ e = "home")
  PROVE  PluginInv'
<1>1. /\ asks = {} /\ asks' = {e} /\ NoEvent
      /\ asks' \in {{}, {"home"}, {"exit"}}
  BY DEF SignalEvent, PluginInv, OneEvent, PluginEvents
<1>2. word' = [status |-> word.status, events |-> {e}] /\ notices' = 1
  <2>1. word.events = {}
    BY <1>1 DEF NoEvent
  <2>2. word' = [word EXCEPT !.events = word.events \cup {e}]
    BY DEF SignalEvent
  <2>3. word = [status |-> word.status, events |-> word.events]
    BY DEF PluginInv, PluginTyped
  <2>4. notices = 0 /\ notices' = notices + 1
    BY <1>1 DEF NoEvent, SignalEvent
  <2>5. notices' = 1
    BY <2>4, NextNumber, Zenon
  <2>6. word' = [status |-> word.status, events |-> {e}]
    BY <2>1, <2>2, <2>3, EventAdded, Zenon
  <2> QED
    BY <2>5, <2>6
<1>3. UNCHANGED <<app, game, signalsOnExit, wake, loaderVars, blockVars, plgEventVars, mainVars>>
  BY DEF SignalEvent
<1>4. PluginTyped'
  BY <1>1, <1>2, <1>3 DEF PluginInv, PluginTyped, loaderVars, plgEventVars, mainVars
<1>5. game = "runs" /\ asks' # {} /\ exitTask = "idle" /\ word.status \notin {"exiting", "none"}
  BY <1>1 DEF SignalEvent, PluginInv, StatusOfApp
<1>6. OneEvent'
  <2>1. EventUnhandled'
    BY <1>1, <1>2, <1>3, <1>5 DEF EventUnhandled, NoEvent, Busy, mainVars
  <2> QED
    BY <1>3, <1>5, <2>1 DEF OneEvent
<1>7. StatusOfApp'
  <2>1. word'.status = word.status
    BY <1>2
  <2> QED
    BY <1>3, <1>5, <2>1 DEF PluginInv, StatusOfApp, loaderVars, blockVars, plgEventVars, mainVars
<1>8. MemoryOfStatus'
  BY <1>2, <1>3 DEF PluginInv, MemoryOfStatus, loaderVars, blockVars
<1> QED
  BY <1>4, <1>6, <1>7, <1>8 DEF PluginInv

\* Loading leaves the application without a plugin, or with its memory.
LEMMA LoadKeeps ==
  ASSUME PluginInv, ~rebooted, LoadPlugin
  PROVE  PluginInv'
<1>1. /\ main.at = "idle" /\ game = "loading"
      /\ asks = {} /\ NoEvent /\ exitTask = "idle" /\ app > 0
      /\ word.status = "none" /\ plugin.at = "none" /\ block = NoBlock
      /\ ctx.target = 0 /\ ~ctx.menuBlocked /\ ~ctx.swapped /\ ~ctx.home /\ ~locked
  BY LoadingApp DEF LoadPlugin
<1>2. PICK own \in BOOLEAN : NoPlugin(own) \/ BadPlugin(own) \/ GoodPlugin(own)
  BY DEF LoadPlugin
<1>3. UNCHANGED <<app, asks, notices, wake, isEnabled, swapFile, locked, exitTask, rebooted>>
  BY DEF LoadPlugin
<1>4. PluginTyped
  BY DEF PluginInv
<1>5. CASE NoPlugin(own) \/ BadPlugin(own)
  <2>1. /\ ctx'.target = 0 /\ ctx'.swapped = ctx.swapped /\ ctx'.home = ctx.home
        /\ ctx'.menuBlocked = ctx.menuBlocked
        /\ ctx' = [target |-> ctx'.target, swapped |-> ctx'.swapped, home |-> ctx'.home,
                   strategy |-> ctx'.strategy, selfManaged |-> ctx'.selfManaged,
                   swapSet |-> ctx'.swapSet, menuBlocked |-> ctx'.menuBlocked]
    BY <1>4, <1>5 DEF PluginTyped, NoPlugin, BadPlugin
  <2>2. UNCHANGED <<word, plugin>> /\ block' = NoBlock
    BY <1>1, <1>5 DEF NoPlugin, BadPlugin
  <2>3. \/ game' = "runs" /\ main' = main
        \/ game' = "loading" /\ main' = [at |-> "shows", then |-> "loaded"]
    BY <1>1, <1>5 DEF NoPlugin, BadPlugin
  <2>4. PluginTyped'
    BY <1>3, <1>4, <2>1, <2>2, <2>3 DEF PluginTyped
  <2>5. OneEvent'
    BY <1>1, <1>3, <2>2, <2>3 DEF OneEvent, NoEvent, Busy
  <2>6. StatusOfApp'
    BY <1>1, <1>3, <2>1, <2>2, <2>3 DEF StatusOfApp
  <2>7. MemoryOfStatus'
    BY <1>1, <1>3, <2>1, <2>2 DEF MemoryOfStatus
  <2> QED
    BY <2>4, <2>5, <2>6, <2>7 DEF PluginInv
<1>6. CASE GoodPlugin(own)
  <2>1. /\ ctx'.target = app /\ ctx'.swapped = ctx.swapped /\ ctx'.home = ctx.home
        /\ ctx' = [target |-> ctx'.target, swapped |-> ctx'.swapped, home |-> ctx'.home,
                   strategy |-> ctx'.strategy, selfManaged |-> ctx'.selfManaged,
                   swapSet |-> ctx'.swapSet, menuBlocked |-> ctx'.menuBlocked]
    BY <1>4, <1>6 DEF PluginTyped, GoodPlugin
  <2>2. /\ word' = [status |-> "running", events |-> {}]
        /\ plugin' = [at |-> "runs", saw |-> "ok"]
        /\ block' = [ready |-> TRUE, mounted |-> app, data |-> app]
        /\ signalsOnExit' = TRUE /\ game' = "runs" /\ main' = main
    BY <1>6 DEF GoodPlugin, Status
  <2>4. PluginTyped'
    BY <1>3, <1>4, <2>1, <2>2 DEF PluginTyped
  <2>5. OneEvent'
    BY <1>1, <1>3, <2>2 DEF OneEvent, NoEvent, Busy
  <2>6. StatusOfApp'
    BY <1>1, <1>3, <2>1, <2>2 DEF StatusOfApp
  <2>7. MemoryOfStatus'
    BY <1>1, <1>3, <2>1, <2>2 DEF MemoryOfStatus
  <2> QED
    BY <2>4, <2>5, <2>6, <2>7 DEF PluginInv
<1> QED
  BY <1>2, <1>5, <1>6

\* The notification that is handled is the one event on its way.
LEMMA HandlesOne ==
  ASSUME PluginInv, ~rebooted, HandleKernelEvent
  PROVE  /\ EventUnhandled /\ asks # {} /\ game = "runs"
         /\ word.status # "none" /\ signalsOnExit /\ ctx.target = app /\ app > 0
         /\ notices' = 0
         /\ UNCHANGED <<gameVars, isEnabled, params, swapFile, exitTask>>
         /\ \/ asks = {"exit"} /\ ExitEvent
            \/ asks = {"home"} /\ HomeEvent
<1>1. EventUnhandled /\ asks # {} /\ game = "runs" /\ asks \in {{"home"}, {"exit"}}
  <2>1. notices > 0
    BY DEF HandleKernelEvent
  <2>2. ~(notices = 0)
    BY <2>1
  <2> QED
    BY <2>2 DEF PluginInv, PluginTyped, OneEvent, NoEvent, HandlesAskedEvent, EventHandled
<1>2. word.events = asks /\ word.status # "exiting" /\ word.status # "none"
  BY <1>1 DEF EventUnhandled
<1>3. asks = {"exit"} => ExitEvent
  BY <1>2 DEF HandleKernelEvent
<1>4. asks = {"home"} => HomeEvent
  <2>1. {"home"} # {"exit"}
    OBVIOUS
  <2> QED
    BY <1>2, <2>1 DEF HandleKernelEvent
<1>5. notices' = 0 /\ UNCHANGED <<gameVars, isEnabled, params, swapFile, exitTask>>
  <2>1. notices' = notices - 1 /\ UNCHANGED <<gameVars, isEnabled, params, swapFile, exitTask>>
    BY DEF HandleKernelEvent
  <2>2. notices = 1
    BY <1>1 DEF EventUnhandled
  <2> QED
    BY <2>1, <2>2
<1>6. signalsOnExit /\ ctx.target = app /\ app > 0
  BY <1>2 DEF PluginInv, StatusOfApp
<1> QED
  BY <1>1, <1>2, <1>3, <1>4, <1>5, <1>6

\* The main thread waits for the plugin, or goes on without its answer.
LEMMA NotifyBusies ==
  ASSUME NEW e, NEW next, NotifyAndWait(e, next)
  PROVE  /\ main' = [at |-> main'.at, then |-> main'.then]
         /\ main'.at \in {"waits", "act"} /\ main'.then = next
BY DEF NotifyAndWait

LEMMA ExitEventKeeps ==
  ASSUME PluginInv, ~rebooted, HandleKernelEvent, asks = {"exit"}
  PROVE  PluginInv'
<1>1. /\ EventUnhandled /\ game = "runs"
      /\ word.status # "none" /\ signalsOnExit /\ ctx.target = app /\ app > 0
      /\ notices' = 0
      /\ UNCHANGED <<gameVars, isEnabled, params, swapFile, exitTask>>
      /\ ExitEvent
  <2>1. {"home"} # {"exit"}
    OBVIOUS
  <2> QED
    BY <2>1, HandlesOne
<1>2. word.status = "running" /\ ~ctx.swapped /\ ~ctx.home /\ ~locked /\ exitTask = "idle" /\ ~wake
  <2>1. {"home"} # {"exit"}
    OBVIOUS
  <2> QED
    BY <1>1, <2>1 DEF EventUnhandled, PluginInv, MemoryOfStatus
<1>3. /\ main' = [at |-> main'.at, then |-> main'.then]
      /\ main'.at \in {"waits", "act"} /\ main'.then = "exit"
  BY <1>1, <1>2, NotifyBusies DEF ExitEvent
<1>4. /\ word' = [status |-> "exiting", events |-> {}]
      /\ UNCHANGED <<block, locked, plugin, ctx, wake, rebooted>>
  BY <1>1 DEF ExitEvent, Status
<1>5. PluginTyped'
  BY <1>1, <1>3, <1>4 DEF PluginInv, PluginTyped, gameVars
<1>6. OneEvent'
  BY <1>1, <1>2, <1>3, <1>4 DEF OneEvent, HandlesAskedEvent, Busy, gameVars
<1>7. StatusOfApp'
  BY <1>1, <1>3, <1>4 DEF PluginInv, StatusOfApp, gameVars
<1>8. MemoryOfStatus'
  BY <1>1, <1>2, <1>4 DEF PluginInv, MemoryOfStatus, gameVars
<1> QED
  BY <1>5, <1>6, <1>7, <1>8 DEF PluginInv

LEMMA HomeEventKeeps ==
  ASSUME ~RemountFails, PluginInv, ~rebooted, HandleKernelEvent, asks = {"home"}
  PROVE  PluginInv'
<1>1. /\ EventUnhandled /\ game = "runs"
      /\ word.status # "none" /\ signalsOnExit /\ ctx.target = app /\ app > 0
      /\ notices' = 0
      /\ UNCHANGED <<gameVars, isEnabled, params, swapFile, exitTask>>
      /\ HomeEvent
  <2>1. {"home"} # {"exit"}
    OBVIOUS
  <2> QED
    BY <2>1, HandlesOne
<1>2. word.status \in {"running", "in home"} /\ exitTask = "idle" /\ ~wake /\ ~Busy
  BY <1>1 DEF EventUnhandled
<1>3. PluginTyped /\ StatusOfApp /\ MemoryOfStatus
  BY DEF PluginInv
<1>4. CASE rebooted'
  <2>1. UNCHANGED <<block, locked, plugin, word, ctx, main>>
    BY <1>1, <1>4 DEF HomeEvent, SwapIn
  <2>2. PluginTyped' /\ StatusOfApp' /\ MemoryOfStatus'
    BY <1>1, <1>3, <2>1 DEF PluginTyped, StatusOfApp, MemoryOfStatus, gameVars
  <2> QED
    BY <1>4, <2>2 DEF PluginInv
<1>5. CASE ~rebooted' /\ ctx.strategy = "swap" /\ ctx.swapped /\ SwapIn
  <2>1. /\ word' = [status |-> "running", events |-> {}]
        /\ block' = [ready |-> TRUE, mounted |-> app, data |-> swapFile]
        /\ ~locked' /\ wake' /\ main' = main
        /\ ctx' = [ctx EXCEPT !.swapped = FALSE]
        /\ plugin' = plugin \/ plugin' = [plugin EXCEPT !.at = "runs"]
    BY <1>1, <1>5 DEF SwapIn, Status, WakesThread
  <2>2. /\ ctx'.target = app /\ ~ctx'.swapped /\ ctx'.home = ctx.home
        /\ ctx'.strategy = ctx.strategy /\ ctx'.menuBlocked = ctx.menuBlocked
        /\ ctx' = [target |-> ctx'.target, swapped |-> ctx'.swapped, home |-> ctx'.home,
                   strategy |-> ctx'.strategy, selfManaged |-> ctx'.selfManaged,
                   swapSet |-> ctx'.swapSet, menuBlocked |-> ctx'.menuBlocked]
    BY <1>1, <1>3, <2>1 DEF PluginTyped
  <2>3. PluginTyped'
    BY <1>1, <1>3, <2>1, <2>2 DEF PluginTyped, gameVars
  <2>4. OneEvent'
    BY <1>1, <1>2, <2>1 DEF OneEvent, EventHandled, Busy, gameVars
  <2>5. StatusOfApp'
    BY <1>1, <1>2, <1>3, <2>1, <2>2 DEF StatusOfApp, gameVars, Busy
  <2>6. MemoryOfStatus'
    BY <1>1, <1>3, <1>5, <2>1, <2>2 DEF MemoryOfStatus, gameVars
  <2> QED
    BY <2>3, <2>4, <2>5, <2>6 DEF PluginInv
<1>6. CASE \/ ctx.strategy = "swap" /\ ~ctx.swapped /\ NotifyAndWait("swap", "swap")
           \/ /\ ctx.strategy = "none"
              /\ NotifyAndWait("home", "home") \/ main' = [at |-> "act", then |-> "home"]
  <2>1. /\ main' = [at |-> main'.at, then |-> main'.then]
        /\ main'.at \in {"waits", "act"}
        /\ main'.then = ctx.strategy \/ (main'.then = "home" /\ ctx.strategy = "none")
        /\ ctx.strategy = "none" => main'.then = "home"
        /\ ctx.strategy \in {"swap", "none"}
    BY <1>6, NotifyBusies
  <2>2. UNCHANGED <<block, locked, plugin, word, ctx, wake, rebooted>>
    BY <1>1, <1>6 DEF HomeEvent, SwapIn
  <2>3. ctx.strategy = "swap" => word.status = "running"
    BY <1>2, <1>3, <1>6 DEF MemoryOfStatus
  <2>4. PluginTyped'
    BY <1>1, <1>3, <2>1, <2>2 DEF PluginTyped, gameVars
  <2>5. OneEvent'
    BY <1>1, <1>2, <2>1, <2>2, <2>3 DEF OneEvent, HandlesAskedEvent, Busy, gameVars
  <2>6. StatusOfApp'
    BY <1>1, <1>3, <2>1, <2>2 DEF StatusOfApp, gameVars
  <2>7. MemoryOfStatus'
    BY <1>1, <1>3, <2>2 DEF MemoryOfStatus, gameVars
  <2> QED
    BY <2>4, <2>5, <2>6, <2>7 DEF PluginInv
<1> QED
  BY <1>1, <1>4, <1>5, <1>6 DEF HomeEvent

\* The swapped out plugin is locked, its data in the file and the block free.
LEMMA SwapOutKeeps ==
  ASSUME PluginInv, ~rebooted, SwapOut
  PROVE  PluginInv'
<1>1. main.at = "act" /\ main.then = "swap" /\ Busy
  BY DEF SwapOut, Busy
<1>2. /\ HandlesAskedEvent /\ game = "runs" /\ asks = {"home"}
      /\ word.status = "running" /\ ctx.strategy = "swap" /\ notices = 0 /\ exitTask = "idle"
  BY <1>1 DEF PluginInv, OneEvent, NoEvent, EventUnhandled, HandlesAskedEvent, EventHandled
<1>3. /\ ctx.target = app /\ app > 0 /\ signalsOnExit /\ ~ctx.swapped /\ ~ctx.home
      /\ block = [ready |-> TRUE, mounted |-> app, data |-> app]
  BY <1>2 DEF PluginInv, StatusOfApp, MemoryOfStatus
<1>4. UNCHANGED <<gameVars, notices, isEnabled, params, plgEventVars, exitTask>>
  BY DEF SwapOut
<1>5. PluginTyped /\ StatusOfApp /\ MemoryOfStatus
  BY DEF PluginInv
<1>6. CASE rebooted'
  <2>1. UNCHANGED <<block, locked, swapFile, word, ctx, main>>
    BY <1>6 DEF SwapOut, blockVars
  <2>2. PluginTyped' /\ StatusOfApp' /\ MemoryOfStatus'
    BY <1>4, <1>5, <2>1 DEF PluginTyped, StatusOfApp, MemoryOfStatus, gameVars, plgEventVars
  <2> QED
    BY <1>6, <2>2 DEF PluginInv
<1>7. CASE ~rebooted'
  <2>1. /\ locked' /\ swapFile' = app /\ block' = NoBlock
        /\ word' = [status |-> "in home", events |-> {}]
        /\ ctx' = [ctx EXCEPT !.swapped = TRUE]
        /\ wake' /\ main' = [at |-> "idle", then |-> "reply"]
    BY <1>3, <1>7 DEF SwapOut, Status, WakesThread, Idle
  <2>2. /\ ctx'.target = app /\ ctx'.swapped /\ ~ctx'.home
        /\ ctx'.strategy = "swap" /\ ctx'.menuBlocked = ctx.menuBlocked
        /\ ctx' = [target |-> ctx'.target, swapped |-> ctx'.swapped, home |-> ctx'.home,
                   strategy |-> ctx'.strategy, selfManaged |-> ctx'.selfManaged,
                   swapSet |-> ctx'.swapSet, menuBlocked |-> ctx'.menuBlocked]
    BY <1>2, <1>3, <1>5, <2>1 DEF PluginTyped
  <2>3. PluginTyped'
    BY <1>4, <1>5, <2>1, <2>2 DEF PluginTyped, gameVars, plgEventVars
  <2>4. OneEvent'
    BY <1>2, <1>4, <2>1 DEF OneEvent, EventHandled, Busy, gameVars
  <2>5. StatusOfApp'
    BY <1>2, <1>3, <1>4, <1>5, <2>1, <2>2 DEF StatusOfApp, gameVars, plgEventVars
  <2>6. MemoryOfStatus'
    BY <1>4, <1>5, <2>1, <2>2 DEF MemoryOfStatus, gameVars
  <2> QED
    BY <2>3, <2>4, <2>5, <2>6 DEF PluginInv
<1> QED
  BY <1>6, <1>7

LEMMA TogglesHomeKeeps ==
  ASSUME PluginInv, ~rebooted, TogglesHome
  PROVE  PluginInv'
<1>1. main.at = "act" /\ main.then = "home" /\ Busy
  BY DEF TogglesHome, Busy
<1>2. /\ game = "runs" /\ asks = {"home"} /\ notices = 0 /\ exitTask = "idle"
      /\ word.status \in {"running", "in home"} /\ ctx.strategy = "none"
  BY <1>1 DEF PluginInv, OneEvent, NoEvent, EventUnhandled, HandlesAskedEvent, EventHandled
<1>3. PluginTyped /\ StatusOfApp /\ MemoryOfStatus
  BY DEF PluginInv
<1>4. /\ ctx.target = app /\ app > 0 /\ signalsOnExit /\ ~ctx.swapped
      /\ block = [ready |-> TRUE, mounted |-> app, data |-> app]
  BY <1>2, <1>3 DEF StatusOfApp, MemoryOfStatus
<1>5. /\ word'.status \in {"running", "in home"}
      /\ word'.status = "in home" <=> ~ctx.home
      /\ word' = [status |-> word'.status, events |-> word'.events] /\ word'.events = {}
      /\ wake' /\ main' = [at |-> "idle", then |-> "reply"]
  BY DEF TogglesHome, Status, WakesThread, Idle
<1>6. UNCHANGED <<gameVars, notices, isEnabled, params, blockVars, plgEventVars, exitTask, rebooted>>
  BY DEF TogglesHome
<1>7. /\ ctx'.target = app /\ ctx'.swapped = ctx.swapped
      /\ ctx'.home <=> ~ctx.home
      /\ ctx'.strategy = "none" /\ ctx'.menuBlocked = ctx.menuBlocked
      /\ ctx' = [target |-> ctx'.target, swapped |-> ctx'.swapped, home |-> ctx'.home,
                 strategy |-> ctx'.strategy, selfManaged |-> ctx'.selfManaged,
                 swapSet |-> ctx'.swapSet, menuBlocked |-> ctx'.menuBlocked]
  BY <1>2, <1>3, <1>4 DEF TogglesHome, PluginTyped
<1>8. PluginTyped'
  BY <1>3, <1>5, <1>6, <1>7 DEF PluginTyped, gameVars, plgEventVars
<1>9. OneEvent'
  BY <1>2, <1>5, <1>6 DEF OneEvent, EventHandled, Busy, gameVars
<1>10. StatusOfApp'
  BY <1>2, <1>3, <1>4, <1>5, <1>6, <1>7 DEF StatusOfApp, gameVars, plgEventVars
<1>11. MemoryOfStatus'
  BY <1>3, <1>4, <1>5, <1>6, <1>7 DEF MemoryOfStatus, gameVars, blockVars
<1> QED
  BY <1>8, <1>9, <1>10, <1>11 DEF PluginInv

\* The task is started while the thread of the application that exits is woken.
LEMMA ExitTaskKeeps ==
  ASSUME PluginInv, ~rebooted, RunsExitTask
  PROVE  PluginInv'
<1>1. main.at = "act" /\ main.then = "exit" /\ Busy
  BY DEF RunsExitTask, Busy
<1>2. /\ game = "runs" /\ asks = {"exit"} /\ notices = 0
      /\ word.status = "exiting" /\ word.events = {}
  BY <1>1 DEF PluginInv, OneEvent, NoEvent, EventUnhandled, HandlesAskedEvent, EventHandled
<1>3. PluginTyped /\ StatusOfApp /\ MemoryOfStatus
  BY DEF PluginInv
<1>4. /\ UNCHANGED <<gameVars, word, notices, loaderVars, blockVars, plgEventVars, rebooted>>
      /\ wake' /\ exitTask' = "waits" /\ main' = [at |-> "idle", then |-> "reply"]
  BY DEF RunsExitTask, WakesThread, Idle
<1>5. PluginTyped'
  BY <1>3, <1>4 DEF PluginTyped, gameVars, loaderVars, plgEventVars
<1>6. OneEvent'
  BY <1>2, <1>4 DEF OneEvent, EventHandled, Busy, gameVars
<1>7. StatusOfApp'
  BY <1>2, <1>3, <1>4 DEF StatusOfApp, gameVars, loaderVars, blockVars, plgEventVars
<1>8. MemoryOfStatus'
  BY <1>3, <1>4 DEF MemoryOfStatus, gameVars, loaderVars, blockVars
<1> QED
  BY <1>5, <1>6, <1>7, <1>8 DEF PluginInv

\* The thread goes on, to the home menu or to the end of the process.
LEMMA WokenKeeps ==
  ASSUME PluginInv, ~rebooted, NEW e \in PluginEvents, Woken(e)
  PROVE  PluginInv'
<1>1. EventHandled /\ game = "runs" /\ asks = {e}
  BY DEF Woken, PluginInv, PluginTyped, OneEvent, NoEvent, EventUnhandled, HandlesAskedEvent,
     PluginEvents
<1>2. PluginTyped /\ StatusOfApp /\ MemoryOfStatus
  BY DEF PluginInv
<1>3. asks' = {} /\ ~wake'
  BY <1>1 DEF Woken
<1>4. UNCHANGED <<app, signalsOnExit, word, notices, loaderVars, block, swapFile, plgEventVars, mainVars>>
  BY DEF Woken
<1>5. PluginTyped'
  BY <1>2, <1>3, <1>4 DEF PluginTyped, loaderVars, plgEventVars, mainVars
<1>6. OneEvent'
  BY <1>1, <1>3, <1>4 DEF OneEvent, NoEvent, EventHandled, Busy, mainVars
<1>7. CASE e = "home"
  <2>1. {e} # {"exit"} /\ e # "exit"
    BY <1>7
  <2>2. word.status \in {"running", "in home"} /\ UNCHANGED <<game, locked>>
    BY <1>1, <2>1 DEF EventHandled, Woken
  <2>3. StatusOfApp' /\ MemoryOfStatus'
    BY <1>2, <1>4, <2>2 DEF StatusOfApp, MemoryOfStatus, loaderVars, plgEventVars, mainVars
  <2> QED
    BY <1>5, <1>6, <2>3 DEF PluginInv
<1>8. CASE e = "exit"
  <2>1. {e} # {"home"}
    BY <1>8
  <2>2. word.status = "exiting" /\ exitTask = "waits" /\ game' = "exits"
    BY <1>1, <1>8, <2>1 DEF EventHandled, Woken, GameExits
  <2>3. ~locked /\ ~locked'
    BY <1>2, <1>8, <2>2 DEF StatusOfApp, MemoryOfStatus, Woken, GameExits
  <2>4. StatusOfApp' /\ MemoryOfStatus'
    BY <1>1, <1>2, <1>4, <2>2, <2>3 DEF StatusOfApp, MemoryOfStatus, EventHandled, Busy, loaderVars, plgEventVars, mainVars
  <2> QED
    BY <1>5, <1>6, <2>4 DEF PluginInv
<1> QED
  BY <1>7, <1>8 DEF PluginEvents

\* The steps that are not about an event.
LEMMA OtherStepsKeep ==
  ASSUME LaunchAfterTask, ~KillsApps, PluginInv, ~rebooted,
         \/ StartsApp \/ ExitsUnasked \/ GameEnds \/ PluginStep
         \/ SetsState \/ SetsParams \/ ShowsToUser \/ UserCloses \/ BlocksMenu \/ SetsSwap
         \/ ReplyOrTimeout \/ WaitForProcessTerminated
  PROVE  PluginInv'
<1>1. PluginTyped /\ OneEvent /\ StatusOfApp /\ MemoryOfStatus
  BY DEF PluginInv
<1>2. CASE StartsApp
  <2>5. app' \in Nat /\ app' > 0
    <3>1. app' = app + 1
      BY <1>2 DEF StartsApp
    <3>2. app \in Nat
      BY <1>1 DEF PluginTyped
    <3> QED
      BY <3>1, <3>2, NextNumber, Zenon
  <2>6. main.at = "idle" /\ notices = 0 /\ exitTask = "idle" /\ game' = "loading" /\ game = "none"
    BY LaunchAfterTask, <1>2 DEF StartsApp
  <2>1. PluginTyped'
    BY <1>1, <1>2, <2>5 DEF StartsApp, PluginTyped, gameVars,
       kernelVars, loaderVars, blockVars, plgEventVars, mainVars
  <2>2. OneEvent'
    BY LaunchAfterTask, ~KillsApps, <1>1, <1>2 DEF StartsApp, PluginTyped, OneEvent,
       NoEvent, EventUnhandled, HandlesAskedEvent, EventHandled, Busy, Idle, gameVars,
       kernelVars, loaderVars, blockVars, plgEventVars, mainVars
  <2>3. StatusOfApp'
    BY <1>1, <1>2, <2>5, <2>6 DEF StartsApp, PluginTyped, StatusOfApp,
       Busy, Idle, NoBlock, OneEvent, NoEvent, EventUnhandled, HandlesAskedEvent,
       EventHandled, gameVars, kernelVars, loaderVars, blockVars, plgEventVars, mainVars
  <2>4. MemoryOfStatus'
    BY LaunchAfterTask, ~KillsApps, <1>1, <1>2 DEF StartsApp, PluginTyped, MemoryOfStatus,
       StatusOfApp, NoBlock, gameVars, kernelVars, loaderVars, blockVars, plgEventVars,
       mainVars
  <2> QED
    BY <2>1, <2>2, <2>3, <2>4 DEF PluginInv
<1>3. CASE ExitsUnasked
  <2>1. PluginTyped'
    BY LaunchAfterTask, ~KillsApps, <1>1, <1>3 DEF ExitsUnasked, GameExits, PluginTyped,
       gameVars, kernelVars, loaderVars, blockVars, plgEventVars, mainVars
  <2>2. OneEvent'
    BY LaunchAfterTask, ~KillsApps, <1>1, <1>3 DEF ExitsUnasked, GameExits, PluginTyped,
       OneEvent, NoEvent, EventUnhandled, HandlesAskedEvent, EventHandled, Busy, Idle,
       gameVars, kernelVars, loaderVars, blockVars, plgEventVars, mainVars
  <2>3. StatusOfApp'
    BY LaunchAfterTask, ~KillsApps, <1>1, <1>3 DEF ExitsUnasked, GameExits, PluginTyped,
       StatusOfApp, Busy, Idle, NoBlock, OneEvent, NoEvent, EventUnhandled,
       HandlesAskedEvent, EventHandled, gameVars, kernelVars, loaderVars, blockVars,
       plgEventVars, mainVars
  <2>4. MemoryOfStatus'
    BY LaunchAfterTask, ~KillsApps, <1>1, <1>3 DEF ExitsUnasked, GameExits, PluginTyped,
       MemoryOfStatus, StatusOfApp, NoBlock, gameVars, kernelVars, loaderVars, blockVars,
       plgEventVars, mainVars
  <2> QED
    BY <2>1, <2>2, <2>3, <2>4 DEF PluginInv
<1>4. CASE GameEnds
  <2>1. PluginTyped'
    BY LaunchAfterTask, ~KillsApps, <1>1, <1>4 DEF GameEnds, PluginTyped, gameVars,
       kernelVars, loaderVars, blockVars, plgEventVars, mainVars
  <2>2. OneEvent'
    BY LaunchAfterTask, ~KillsApps, <1>1, <1>4 DEF GameEnds, PluginTyped, OneEvent,
       NoEvent, EventUnhandled, HandlesAskedEvent, EventHandled, Busy, Idle, gameVars,
       kernelVars, loaderVars, blockVars, plgEventVars, mainVars
  <2>3. StatusOfApp'
    BY LaunchAfterTask, ~KillsApps, <1>1, <1>4 DEF GameEnds, PluginTyped, StatusOfApp,
       Busy, Idle, NoBlock, OneEvent, NoEvent, EventUnhandled, HandlesAskedEvent,
       EventHandled, gameVars, kernelVars, loaderVars, blockVars, plgEventVars, mainVars
  <2>4. MemoryOfStatus'
    BY LaunchAfterTask, ~KillsApps, <1>1, <1>4 DEF GameEnds, PluginTyped, MemoryOfStatus,
       StatusOfApp, NoBlock, gameVars, kernelVars, loaderVars, blockVars, plgEventVars,
       mainVars
  <2> QED
    BY <2>1, <2>2, <2>3, <2>4 DEF PluginInv
<1>5. CASE PluginStep
  <2>1. PluginTyped'
    BY LaunchAfterTask, ~KillsApps, <1>1, <1>5 DEF PluginStep, Sees, PluginReplies, Parks,
       PluginRuns, PluginTyped, gameVars, kernelVars, loaderVars, blockVars, plgEventVars,
       mainVars
  <2>2. OneEvent'
    BY LaunchAfterTask, ~KillsApps, <1>1, <1>5 DEF PluginStep, Sees, PluginReplies, Parks,
       PluginRuns, PluginTyped, OneEvent, NoEvent, EventUnhandled, HandlesAskedEvent,
       EventHandled, Busy, Idle, gameVars, kernelVars, loaderVars, blockVars, plgEventVars,
       mainVars
  <2>3. StatusOfApp'
    BY LaunchAfterTask, ~KillsApps, <1>1, <1>5 DEF PluginStep, Sees, PluginReplies, Parks,
       PluginRuns, PluginTyped, StatusOfApp, Busy, Idle, NoBlock, OneEvent, NoEvent,
       EventUnhandled, HandlesAskedEvent, EventHandled, gameVars, kernelVars, loaderVars,
       blockVars, plgEventVars, mainVars
  <2>4. MemoryOfStatus'
    BY LaunchAfterTask, ~KillsApps, <1>1, <1>5 DEF PluginStep, Sees, PluginReplies, Parks,
       PluginRuns, PluginTyped, MemoryOfStatus, StatusOfApp, NoBlock, gameVars, kernelVars,
       loaderVars, blockVars, plgEventVars, mainVars
  <2> QED
    BY <2>1, <2>2, <2>3, <2>4 DEF PluginInv
<1>6. CASE SetsState
  <2>1. PluginTyped'
    BY LaunchAfterTask, ~KillsApps, <1>1, <1>6 DEF SetsState, PluginTyped, gameVars,
       kernelVars, loaderVars, blockVars, plgEventVars, mainVars
  <2>2. OneEvent'
    BY LaunchAfterTask, ~KillsApps, <1>1, <1>6 DEF SetsState, PluginTyped, OneEvent,
       NoEvent, EventUnhandled, HandlesAskedEvent, EventHandled, Busy, Idle, gameVars,
       kernelVars, loaderVars, blockVars, plgEventVars, mainVars
  <2>3. StatusOfApp'
    BY LaunchAfterTask, ~KillsApps, <1>1, <1>6 DEF SetsState, PluginTyped, StatusOfApp,
       Busy, Idle, NoBlock, OneEvent, NoEvent, EventUnhandled, HandlesAskedEvent,
       EventHandled, gameVars, kernelVars, loaderVars, blockVars, plgEventVars, mainVars
  <2>4. MemoryOfStatus'
    BY LaunchAfterTask, ~KillsApps, <1>1, <1>6 DEF SetsState, PluginTyped, MemoryOfStatus,
       StatusOfApp, NoBlock, gameVars, kernelVars, loaderVars, blockVars, plgEventVars,
       mainVars
  <2> QED
    BY <2>1, <2>2, <2>3, <2>4 DEF PluginInv
<1>7. CASE SetsParams
  <2>1. PluginTyped'
    BY LaunchAfterTask, ~KillsApps, <1>1, <1>7 DEF SetsParams, PluginTyped, gameVars,
       kernelVars, loaderVars, blockVars, plgEventVars, mainVars
  <2>2. OneEvent'
    BY LaunchAfterTask, ~KillsApps, <1>1, <1>7 DEF SetsParams, PluginTyped, OneEvent,
       NoEvent, EventUnhandled, HandlesAskedEvent, EventHandled, Busy, Idle, gameVars,
       kernelVars, loaderVars, blockVars, plgEventVars, mainVars
  <2>3. StatusOfApp'
    BY LaunchAfterTask, ~KillsApps, <1>1, <1>7 DEF SetsParams, PluginTyped, StatusOfApp,
       Busy, Idle, NoBlock, OneEvent, NoEvent, EventUnhandled, HandlesAskedEvent,
       EventHandled, gameVars, kernelVars, loaderVars, blockVars, plgEventVars, mainVars
  <2>4. MemoryOfStatus'
    BY LaunchAfterTask, ~KillsApps, <1>1, <1>7 DEF SetsParams, PluginTyped,
       MemoryOfStatus, StatusOfApp, NoBlock, gameVars, kernelVars, loaderVars, blockVars,
       plgEventVars, mainVars
  <2> QED
    BY <2>1, <2>2, <2>3, <2>4 DEF PluginInv
<1>8. CASE ShowsToUser
  <2>1. PluginTyped'
    BY LaunchAfterTask, ~KillsApps, <1>1, <1>8 DEF ShowsToUser, PluginRuns, PluginTyped,
       gameVars, kernelVars, loaderVars, blockVars, plgEventVars, mainVars
  <2>2. OneEvent'
    BY LaunchAfterTask, ~KillsApps, <1>1, <1>8 DEF ShowsToUser, PluginRuns, PluginTyped,
       OneEvent, NoEvent, EventUnhandled, HandlesAskedEvent, EventHandled, Busy, Idle,
       gameVars, kernelVars, loaderVars, blockVars, plgEventVars, mainVars
  <2>3. StatusOfApp'
    BY LaunchAfterTask, ~KillsApps, <1>1, <1>8 DEF ShowsToUser, PluginRuns, PluginTyped,
       StatusOfApp, Busy, Idle, NoBlock, OneEvent, NoEvent, EventUnhandled,
       HandlesAskedEvent, EventHandled, gameVars, kernelVars, loaderVars, blockVars,
       plgEventVars, mainVars
  <2>4. MemoryOfStatus'
    BY LaunchAfterTask, ~KillsApps, <1>1, <1>8 DEF ShowsToUser, PluginRuns, PluginTyped,
       MemoryOfStatus, StatusOfApp, NoBlock, gameVars, kernelVars, loaderVars, blockVars,
       plgEventVars, mainVars
  <2> QED
    BY <2>1, <2>2, <2>3, <2>4 DEF PluginInv
<1>9. CASE UserCloses
  <2>1. PluginTyped'
    BY LaunchAfterTask, ~KillsApps, <1>1, <1>9 DEF UserCloses, Idle, PluginTyped, gameVars,
       kernelVars, loaderVars, blockVars, plgEventVars, mainVars
  <2>2. OneEvent'
    BY LaunchAfterTask, ~KillsApps, <1>1, <1>9 DEF UserCloses, PluginTyped, OneEvent,
       NoEvent, EventUnhandled, HandlesAskedEvent, EventHandled, Busy, Idle, gameVars,
       kernelVars, loaderVars, blockVars, plgEventVars, mainVars
  <2>3. StatusOfApp'
    BY LaunchAfterTask, ~KillsApps, <1>1, <1>9 DEF UserCloses, PluginTyped, StatusOfApp,
       Busy, Idle, NoBlock, OneEvent, NoEvent, EventUnhandled, HandlesAskedEvent,
       EventHandled, gameVars, kernelVars, loaderVars, blockVars, plgEventVars, mainVars
  <2>4. MemoryOfStatus'
    BY LaunchAfterTask, ~KillsApps, <1>1, <1>9 DEF UserCloses, PluginTyped,
       MemoryOfStatus, StatusOfApp, NoBlock, gameVars, kernelVars, loaderVars, blockVars,
       plgEventVars, mainVars
  <2> QED
    BY <2>1, <2>2, <2>3, <2>4 DEF PluginInv
<1>10. CASE BlocksMenu
  <2>1. PluginTyped'
    BY LaunchAfterTask, ~KillsApps, <1>1, <1>10 DEF BlocksMenu, PluginRuns, PluginTyped,
       gameVars, kernelVars, loaderVars, blockVars, plgEventVars, mainVars
  <2>2. OneEvent'
    BY LaunchAfterTask, ~KillsApps, <1>1, <1>10 DEF BlocksMenu, PluginRuns, PluginTyped,
       OneEvent, NoEvent, EventUnhandled, HandlesAskedEvent, EventHandled, Busy, Idle,
       gameVars, kernelVars, loaderVars, blockVars, plgEventVars, mainVars
  <2>3. StatusOfApp'
    BY LaunchAfterTask, ~KillsApps, <1>1, <1>10 DEF BlocksMenu, PluginRuns, PluginTyped,
       StatusOfApp, Busy, Idle, NoBlock, OneEvent, NoEvent, EventUnhandled,
       HandlesAskedEvent, EventHandled, gameVars, kernelVars, loaderVars, blockVars,
       plgEventVars, mainVars
  <2>4. MemoryOfStatus'
    BY LaunchAfterTask, ~KillsApps, <1>1, <1>10 DEF BlocksMenu, PluginRuns, PluginTyped,
       MemoryOfStatus, StatusOfApp, NoBlock, gameVars, kernelVars, loaderVars, blockVars,
       plgEventVars, mainVars
  <2> QED
    BY <2>1, <2>2, <2>3, <2>4 DEF PluginInv
<1>11. CASE SetsSwap
  <2>1. PluginTyped'
    BY LaunchAfterTask, ~KillsApps, <1>1, <1>11 DEF SetsSwap, PluginRuns, PluginTyped,
       gameVars, kernelVars, loaderVars, blockVars, plgEventVars, mainVars
  <2>2. OneEvent'
    BY LaunchAfterTask, ~KillsApps, <1>1, <1>11 DEF SetsSwap, PluginRuns, PluginTyped,
       OneEvent, NoEvent, EventUnhandled, HandlesAskedEvent, EventHandled, Busy, Idle,
       gameVars, kernelVars, loaderVars, blockVars, plgEventVars, mainVars
  <2>3. StatusOfApp'
    BY LaunchAfterTask, ~KillsApps, <1>1, <1>11 DEF SetsSwap, PluginRuns, PluginTyped,
       StatusOfApp, Busy, Idle, NoBlock, OneEvent, NoEvent, EventUnhandled,
       HandlesAskedEvent, EventHandled, gameVars, kernelVars, loaderVars, blockVars,
       plgEventVars, mainVars
  <2>4. MemoryOfStatus'
    BY LaunchAfterTask, ~KillsApps, <1>1, <1>11 DEF SetsSwap, PluginRuns, PluginTyped,
       MemoryOfStatus, StatusOfApp, NoBlock, gameVars, kernelVars, loaderVars, blockVars,
       plgEventVars, mainVars
  <2> QED
    BY <2>1, <2>2, <2>3, <2>4 DEF PluginInv
<1>12. CASE ReplyOrTimeout
  <2>1. PluginTyped'
    BY LaunchAfterTask, ~KillsApps, <1>1, <1>12 DEF ReplyOrTimeout, PluginTyped, gameVars,
       kernelVars, loaderVars, blockVars, plgEventVars, mainVars
  <2>2. OneEvent'
    BY LaunchAfterTask, ~KillsApps, <1>1, <1>12 DEF ReplyOrTimeout, PluginTyped, OneEvent,
       NoEvent, EventUnhandled, HandlesAskedEvent, EventHandled, Busy, Idle, gameVars,
       kernelVars, loaderVars, blockVars, plgEventVars, mainVars
  <2>3. StatusOfApp'
    BY LaunchAfterTask, ~KillsApps, <1>1, <1>12 DEF ReplyOrTimeout, PluginTyped,
       StatusOfApp, Busy, Idle, NoBlock, OneEvent, NoEvent, EventUnhandled,
       HandlesAskedEvent, EventHandled, gameVars, kernelVars, loaderVars, blockVars,
       plgEventVars, mainVars
  <2>4. MemoryOfStatus'
    BY LaunchAfterTask, ~KillsApps, <1>1, <1>12 DEF ReplyOrTimeout, PluginTyped,
       MemoryOfStatus, StatusOfApp, NoBlock, gameVars, kernelVars, loaderVars, blockVars,
       plgEventVars, mainVars
  <2> QED
    BY <2>1, <2>2, <2>3, <2>4 DEF PluginInv
<1>13. CASE WaitForProcessTerminated
  <2>1. PluginTyped'
    BY LaunchAfterTask, ~KillsApps, <1>1, <1>13 DEF WaitForProcessTerminated, Status,
       FreshCtx, PluginTyped, gameVars, kernelVars, loaderVars, blockVars, plgEventVars,
       mainVars
  <2>2. OneEvent'
    BY LaunchAfterTask, ~KillsApps, <1>1, <1>13 DEF WaitForProcessTerminated, Status,
       FreshCtx, PluginTyped, OneEvent, NoEvent, EventUnhandled, HandlesAskedEvent,
       EventHandled, Busy, Idle, gameVars, kernelVars, loaderVars, blockVars, plgEventVars,
       mainVars
  <2>3. StatusOfApp'
    BY LaunchAfterTask, ~KillsApps, <1>1, <1>13 DEF WaitForProcessTerminated, Status,
       FreshCtx, PluginTyped, MemoryOfStatus, StatusOfApp, Busy, Idle, NoBlock, OneEvent, NoEvent,
       EventUnhandled, HandlesAskedEvent, EventHandled, gameVars, kernelVars, loaderVars,
       blockVars, plgEventVars, mainVars
  <2>4. MemoryOfStatus'
    BY LaunchAfterTask, ~KillsApps, <1>1, <1>13 DEF WaitForProcessTerminated, Status,
       FreshCtx, PluginTyped, MemoryOfStatus, StatusOfApp, NoBlock, gameVars, kernelVars,
       loaderVars, blockVars, plgEventVars, mainVars
  <2> QED
    BY <2>1, <2>2, <2>3, <2>4 DEF PluginInv
<1> QED
  BY <1>2, <1>3, <1>4, <1>5, <1>6, <1>7, <1>8, <1>9, <1>10, <1>11, <1>12, <1>13

LEMMA PluginStepKeeps ==
  ASSUME OneAsker, LaunchAfterTask, ~KillsApps, ~RemountFails, PluginInv, PluginNext
  PROVE  PluginInv'
<1>1. ~rebooted
  BY DEF PluginNext
<1>2. CASE ReceivesParameter
  <2>1. SignalEvent("home") /\ word.status \in {"running", "in home"}
    BY <1>2 DEF ReceivesParameter
  <2> QED
    BY OneAsker, PluginInv, <1>1, <2>1, SignalKeeps DEF PluginEvents
<1>3. CASE AsksToExit
  <2>1. SignalEvent("exit") /\ word.status = "running"
    BY <1>3 DEF AsksToExit
  <2> QED
    BY OneAsker, PluginInv, <1>1, <2>1, SignalKeeps DEF PluginEvents
<1>4. CASE \E e \in {"home", "exit"} : Woken(e)
  BY <1>1, <1>4, WokenKeeps DEF PluginEvents
<1>5. CASE HandleKernelEvent
  BY ~RemountFails, <1>1, <1>5, HandlesOne, ExitEventKeeps, HomeEventKeeps
<1>6. CASE LoadPlugin
  BY <1>1, <1>6, LoadKeeps
<1>7. CASE SwapOut \/ TogglesHome \/ RunsExitTask
  BY <1>1, <1>7, SwapOutKeeps, TogglesHomeKeeps, ExitTaskKeeps
<1>8. CASE \/ StartsApp \/ ExitsUnasked \/ GameEnds \/ PluginStep
           \/ SetsState \/ SetsParams \/ ShowsToUser \/ UserCloses \/ BlocksMenu \/ SetsSwap
           \/ ReplyOrTimeout \/ WaitForProcessTerminated
  BY LaunchAfterTask, ~KillsApps, <1>1, <1>8, OtherStepsKeep
<1> QED
  BY <1>2, <1>3, <1>4, <1>5, <1>6, <1>7, <1>8 DEF PluginNext, MainHandles

\* plugin/plgloader.c, plugin/memoryblock.c: when an application stops one thread at a
\* time in the kernel, ends only by svcExitProcess, and the next one starts after the
\* task for it is done, a plugin's thread runs only in the memory that holds its data.
THEOREM PluginKeepsMemory ==
  ASSUME OneAsker, LaunchAfterTask, ~KillsApps, ~RemountFails
  PROVE  PluginSpec => []PluginHasItsMemory
<1>1. PluginInit => PluginInv
  <2>1. PluginInit => PluginTyped
    BY DEF PluginInit, PluginTyped, FreshCtx, Idle
  <2>2. PluginInit => OneEvent
    BY DEF PluginInit, OneEvent, NoEvent, Busy, Idle
  <2>3. PluginInit => StatusOfApp
    BY DEF PluginInit, StatusOfApp, FreshCtx, Idle
  <2>4. PluginInit => MemoryOfStatus
    BY DEF PluginInit, MemoryOfStatus, FreshCtx
  <2> QED
    BY <2>1, <2>2, <2>3, <2>4 DEF PluginInv
<1>2. PluginInv /\ [PluginNext]_plgVars => PluginInv'
  <2>1. CASE UNCHANGED plgVars
    BY <2>1 DEF plgVars, gameVars, kernelVars, loaderVars, blockVars, plgEventVars, mainVars,
       PluginInv, PluginTyped, OneEvent, NoEvent, EventUnhandled, HandlesAskedEvent,
       EventHandled, Busy, StatusOfApp, MemoryOfStatus
  <2> QED
    BY OneAsker, LaunchAfterTask, ~KillsApps, ~RemountFails, <2>1, PluginStepKeeps
<1>3. PluginInv => PluginHasItsMemory
  <2> SUFFICES ASSUME PluginInv
               PROVE  PluginHasItsMemory
    OBVIOUS
  <2>1. StatusOfApp /\ MemoryOfStatus
    BY DEF PluginInv
  <2>2. PluginRuns => block = [ready |-> TRUE, mounted |-> app, data |-> app]
    BY <2>1 DEF PluginRuns, StatusOfApp, MemoryOfStatus
  <2>3. word.status = "in home" <=> ctx.swapped \/ ctx.home
    BY <2>1 DEF MemoryOfStatus
  <2>4. (ctx.swapped <=> locked) /\ (ctx.swapped => ~block.ready /\ swapFile = app)
    <3>1. ctx.swapped <=> locked
      BY <2>1 DEF MemoryOfStatus
    <3>2. ctx.swapped => ~block.ready /\ swapFile = app
      <4>1. ~NoBlock.ready
        BY DEF NoBlock
      <4>2. ctx.swapped => block = NoBlock /\ swapFile = app
        BY <2>1 DEF MemoryOfStatus
      <4> QED
        BY <4>1, <4>2
    <3> QED
      BY <3>1, <3>2
  <2>5. ctx.menuBlocked => ctx.target # 0
    BY <2>1 DEF StatusOfApp
  <2> QED
    BY <2>2, <2>3, <2>4, <2>5 DEF PluginHasItsMemory
<1> QED
  BY <1>1, <1>2, <1>3, PTL DEF PluginSpec
=============================================================================
