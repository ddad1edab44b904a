------------------------ MODULE RosalinaScreenProofs ------------------------
(***************************************************************************)
(* Safety of module RosalinaScreen for every value of its constants, and   *)
(* of the captures of module ScreenSuite.                                  *)
(***************************************************************************)
EXTENDS ScreenSuite, SequenceTheorems, TLAPS

-----------------------------------------------------------------------------
(* The lock *)

LEMMA ThreadsAreNotNoThread == NoThread \notin Threads
  BY DEF NoThread, Threads

LEMMA DepthIsNat == \A t \in Threads : \A l : DepthAt(t, l) \in Nat
  BY DEF DepthAt, Threads

\* A thread that goes to a label where it holds the lock as deep as before.
LEMMA MoveKeepingLock ==
  ASSUME ControlOK, LockOK, DrawLockExclusive,
         NEW t \in Threads, NEW l \in Labels(t),
         Goto(t, l), UNCHANGED lockVars, DepthAt(t, l) = DepthAt(t, pc[t])
  PROVE  ControlOK' /\ LockOK' /\ DrawLockExclusive'
BY DEF DrawLockExclusive, ControlOK, LockOK, Goto, lockVars

\* A thread that acquires the lock, once more.
LEMMA MoveAcquiring ==
  ASSUME ControlOK, LockOK, DrawLockExclusive,
         NEW t \in Threads, NEW l \in Labels(t),
         Goto(t, l), AcquireLock(t), DepthAt(t, l) = DepthAt(t, pc[t]) + 1
  PROVE  ControlOK' /\ LockOK' /\ DrawLockExclusive'
<1>1. ControlOK'
  BY DEF ControlOK, Goto
<1>2. DrawLockExclusive' /\ LockOK'
  BY ThreadsAreNotNoThread
  DEF DrawLockExclusive, ControlOK, LockOK, Goto, AcquireLock, CanAcquire, Acquired
<1> QED
  BY <1>1, <1>2

\* A thread that leaves one level of the lock.
LEMMA MoveReleasing ==
  ASSUME ControlOK, LockOK, DrawLockExclusive,
         NEW t \in Threads, NEW l \in Labels(t),
         Goto(t, l), ReleaseLock, DepthAt(t, pc[t]) = DepthAt(t, l) + 1
  PROVE  ControlOK' /\ LockOK' /\ DrawLockExclusive'
<1>1. DepthAt(t, pc[t]) > 0 /\ DepthAt(t, l) \in Nat
  <2>1. DepthAt(t, l) \in Nat
    BY DepthIsNat
  <2>2. \A m, n : m \in Nat /\ n = m + 1 => n > 0
    OBVIOUS
  <2> QED
    BY <2>1, <2>2, Zenon
<1>2. lock.tag = t /\ lock.counter = DepthAt(t, pc[t])
  BY <1>1 DEF DrawLockExclusive
<1>3. lock' = IF lock.counter = 1 THEN FreeLock ELSE [lock EXCEPT !.counter = @ - 1]
  BY DEF ReleaseLock, Released
<1>4. /\ lock.counter = 1 => lock'.tag = NoThread /\ lock'.counter = 0
      /\ lock.counter # 1 => lock'.tag = t /\ lock'.counter = lock.counter - 1
  BY <1>2, <1>3 DEF FreeLock, LockOK
<1>5. LockOK'
  BY <1>1, <1>2, <1>3 DEF FreeLock, LockOK
<1>6. ASSUME NEW u \in Threads
      PROVE  /\ DepthAt(u, pc'[u]) = IF lock'.tag = u THEN lock'.counter ELSE 0
             /\ lock'.tag = u => lock'.counter > 0
  <2>1. CASE u = t
    <3>1. pc'[u] = l
      BY <2>1 DEF Goto, ControlOK
    <3> QED
      BY <1>1, <1>2, <1>4, <2>1, <3>1, ThreadsAreNotNoThread DEF LockOK
  <2>2. CASE u # t
    <3>1. pc'[u] = pc[u]
      BY <2>2 DEF Goto, ControlOK
    <3>2. DepthAt(u, pc[u]) = 0
      BY <1>2, <2>2 DEF DrawLockExclusive
    <3> QED
      BY <1>2, <1>4, <2>2, <3>1, <3>2, ThreadsAreNotNoThread
  <2> QED
    BY <2>1, <2>2
<1>7. ControlOK'
  BY DEF ControlOK, Goto
<1> QED
  BY <1>5, <1>6, <1>7 DEF DrawLockExclusive

-----------------------------------------------------------------------------
(* The labels of each thread and the depth of the lock there *)

LEMMA MenuDepths ==
  /\ "menu" \in Threads
  /\ \A l \in MenuUnlocked \cup MenuLocked : l \in Labels("menu")
  /\ \A l \in MenuUnlocked : DepthAt("menu", l) = 0
  /\ \A l \in MenuLocked : DepthAt("menu", l) = 1
<1>1. \A l : DepthAt("menu", l) = IF l \in MenuLocked THEN 1 ELSE 0
  BY DEF DepthAt
<1>2. Labels("menu") = MenuLabels
  BY DEF Labels
<1>3. \A l \in MenuUnlocked : l \notin MenuLocked
  BY DEF MenuUnlocked, MenuLocked
<1> QED
  BY <1>1, <1>2, <1>3 DEF MenuLabels, Threads

LEMMA ErrDispDepths ==
  /\ "errdisp" \in Threads
  /\ \A l \in ErrDispUnlocked \cup ErrDispLocked : l \in Labels("errdisp")
  /\ \A l \in ErrDispUnlocked : DepthAt("errdisp", l) = 0
  /\ \A l \in ErrDispLocked : DepthAt("errdisp", l) = 1
<1>1. \A l : DepthAt("errdisp", l) = IF l \in ErrDispLocked THEN 1 ELSE 0
  BY DEF DepthAt
<1>2. Labels("errdisp") = ErrDispLabels
  BY DEF Labels
<1>3. \A l \in ErrDispUnlocked : l \notin ErrDispLocked
  BY DEF ErrDispUnlocked, ErrDispLocked
<1> QED
  BY <1>1, <1>2, <1>3 DEF ErrDispLabels, Threads

LEMMA CaptureDepths ==
  /\ "capture" \in Threads
  /\ \A l \in CaptureUnlocked \cup CaptureLocked : l \in Labels("capture")
  /\ \A l \in CaptureUnlocked : DepthAt("capture", l) = 0
  /\ \A l \in CaptureLocked : DepthAt("capture", l) = 1
<1>1. \A l : DepthAt("capture", l) = IF l \in CaptureLocked THEN 1 ELSE 0
  BY DEF DepthAt
<1>2. Labels("capture") = CaptureLabels
  BY DEF Labels
<1>3. \A l \in CaptureUnlocked : l \notin CaptureLocked
  BY DEF CaptureUnlocked, CaptureLocked
<1> QED
  BY <1>1, <1>2, <1>3 DEF CaptureLabels, Threads

LEMMA WriterDepths ==
  /\ "writer" \in Threads
  /\ \A l \in WriterLabels : l \in Labels("writer")
  /\ \A l \in WriterUnlocked : l \in WriterLabels /\ DepthAt("writer", l) = 0
  /\ \A l \in WriterLocked : l \in WriterLabels /\ DepthAt("writer", l) = 1
  /\ \A l \in WriterNested : l \in WriterLabels /\ DepthAt("writer", l) = 2
<1>1. \A l : DepthAt("writer", l) =
               IF l \in WriterNested THEN 2 ELSE IF l \in WriterLocked THEN 1 ELSE 0
  BY DEF DepthAt
<1>2. Labels("writer") = WriterLabels
  BY DEF Labels
<1>3. /\ \A l \in WriterUnlocked : l \notin WriterLocked /\ l \notin WriterNested
      /\ \A l \in WriterLocked : l \notin WriterNested
  BY DEF WriterUnlocked, WriterLocked, WriterNested
<1> QED
  BY <1>1, <1>2, <1>3 DEF WriterLabels, Threads

LEMMA MainDepths ==
  /\ "main" \in Threads
  /\ \A l \in MainLabels : l \in Labels("main") /\ DepthAt("main", l) = 0
<1>1. \A l : DepthAt("main", l) = 0
  BY DEF DepthAt
<1>2. Labels("main") = MainLabels
  BY DEF Labels
<1> QED
  BY <1>1, <1>2 DEF Threads

\* Every step keeps the threads at their labels and the lock exclusive.
LEMMA LockStep ==
  ASSUME ControlOK, LockOK, DrawLockExclusive, [Next]_vars
  PROVE  ControlOK' /\ LockOK' /\ DrawLockExclusive'
<1>1. CASE MenuServices \/ MenuLoop \/ MenuNoCombo \/ MenuCombo \/ PowerConfirm
  BY <1>1, MenuDepths, MoveKeepingLock
  DEF MenuServices, At, MenuUnlocked, MenuLocked, MenuLoop, MenuNoCombo, MenuCombo,
      PowerConfirm
<1>2. CASE MenuShow \/ MenuRedraw \/ MenuBack \/ DimCancel \/ PowerReturn(menuShouldExit)
  BY <1>2, MenuDepths, MoveKeepingLock
  DEF MenuShow, DrawAndGoto, At, MenuUnlocked, MenuLocked, MenuRedraw, MenuBack, DimCancel,
      PowerReturn
<1>3. CASE MenuChoose
  BY <1>3, MenuDepths, MoveKeepingLock, ScreenAssumption
  DEF MenuChoose, DrawAndGoto, At, MenuUnlocked, MenuLocked, AllMethods
<1>4. CASE ShotBegin \/ DimBegin(menuShouldExit) \/ DimBegin(KeysRead) \/
           LeaveLock("leave", "leaving") \/ LeaveLock("powerleave", "powerleaving")
  BY <1>4, MenuDepths, MoveAcquiring
  DEF ShotBegin, At, MenuUnlocked, MenuLocked, DimBegin, LeaveLock
<1>5. CASE ShotEnd \/ DimEnd(menuShouldExit) \/ DimEnd(KeysRead) \/
           LeaveRestores("leaving", "poll") \/ LeaveRestores("powerleaving", "browse")
  BY <1>5, MenuDepths, MoveReleasing
  DEF ShotEnd, ReclaimScreen, At, MenuUnlocked, MenuLocked, DimEnd, LeaveRestores
<1>6. CASE PowerReturn(KeysRead) \/ EnterSkip("menu") \/ EnterFreeze("menu") \/
           EnterAllocFails("menu") \/ EnterSetup("menu")
  BY <1>6, MenuDepths, MoveKeepingLock
  DEF PowerReturn, DrawAndGoto, At, MenuUnlocked, MenuLocked, EnterSkip, EnterFreeze,
      EnterAllocFails, EnterSetup
<1>7. CASE LeaveKeepsScreen("leaving", "poll") \/ LeaveKeepsScreen("powerleaving", "browse")
  BY <1>7, MenuDepths, MoveReleasing
  DEF LeaveKeepsScreen, At, MenuUnlocked, MenuLocked
<1>8. CASE EnterLock("menu")
  BY <1>8, MenuDepths, MoveAcquiring
  DEF EnterLock, At, MenuUnlocked, MenuLocked
<1>9. CASE EnterUnlock("menu", "show")
  BY <1>9, MenuDepths, MoveReleasing
  DEF EnterUnlock, At, MenuUnlocked, MenuLocked
<1>10. CASE EnterLock("errdisp") \/ ErrDispDisplay
  BY <1>10, ErrDispDepths, MoveAcquiring
  DEF EnterLock, At, ErrDispUnlocked, ErrDispLocked, ErrDispDisplay
<1>11. CASE EnterSkip("errdisp") \/ EnterFreeze("errdisp") \/ EnterAllocFails("errdisp") \/
            EnterSetup("errdisp") \/ ErrDispThrow
  BY <1>11, ErrDispDepths, MoveKeepingLock
  DEF EnterSkip, At, ErrDispUnlocked, ErrDispLocked, EnterFreeze, EnterAllocFails,
      EnterSetup, ErrDispThrow
<1>12. CASE EnterUnlock("errdisp", "errlock")
  BY <1>12, ErrDispDepths, MoveReleasing
  DEF EnterUnlock, At, ErrDispUnlocked, ErrDispLocked
<1>13. CASE ErrDispExits
  BY <1>13, ErrDispDepths, MoveKeepingLock
  DEF ErrDispExits, At, ErrDispUnlocked, ErrDispLocked
<1>14. CASE AwaitServices("capture") \/ LoopOrExit("capture") \/ CaptureNap \/
            CaptureAlloc \/ CaptureRest
  BY <1>14, CaptureDepths, MoveKeepingLock
  DEF AwaitServices, At, CaptureUnlocked, CaptureLocked, LoopOrExit, CaptureNap,
      CaptureAlloc, CaptureRest
<1>15. CASE AwaitServices("writer") \/ LoopOrExit("writer") \/ WriterNap \/ WriterOpens \/
            WriterOpenFails
  BY <1>15, WriterDepths, MoveKeepingLock
  DEF AwaitServices, At, WriterUnlocked, WriterLocked, WriterNested, LoopOrExit, WriterNap,
      WriterOpens, WriterOpenFails
<1>16. CASE CaptureLock
  BY <1>16, CaptureDepths, MoveAcquiring
  DEF CaptureLock, At, CaptureUnlocked, CaptureLocked
<1>17. CASE CaptureConvert
  BY <1>17, CaptureDepths, MoveReleasing
  DEF CaptureConvert, At, CaptureUnlocked, CaptureLocked
<1>18. CASE WriterLock \/ WriterNestedLock
  BY <1>18, WriterDepths, MoveAcquiring
  DEF WriterLock, At, WriterUnlocked, WriterLocked, WriterNested, WriterNestedLock
<1>19. CASE WriterWrites
  BY <1>19, WriterDepths, MoveKeepingLock
  DEF WriterWrites, At, WriterUnlocked, WriterLocked, WriterNested
<1>20. CASE WriterRealloc \/ WriterReset
  BY <1>20, WriterDepths, MoveReleasing
  DEF WriterRealloc, At, WriterUnlocked, WriterLocked, WriterNested, WriterReset
<1>21. CASE MainPreTerm \/ MainRequestTermination \/ MainTerm \/ MainJoins
  BY <1>21, MainDepths, MoveKeepingLock
  DEF MainPreTerm, At, MainLabels, MainRequestTermination, MainTerm, MainJoins
<1>22. CASE UNCHANGED <<pc, lockVars>>
  BY <1>22 DEF ControlOK, LockOK, DrawLockExclusive, lockVars
<1>23. CASE EnterAllocTrap("menu") \/ EnterAllocTrap("errdisp") \/
            LeaveAborts("leaving") \/ LeaveAborts("powerleaving") \/ ShotAborts
  BY <1>23, <1>22
  DEF EnterAllocTrap, Halt, LeaveAborts, ShotAborts
<1>24. CASE ShotTraps \/ DimAborts(menuShouldExit) \/ DimAborts(KeysRead) \/
            DimTraps(menuShouldExit) \/ DimTraps(KeysRead)
  BY <1>24, <1>22
  DEF ShotTraps, ReclaimTraps, Halt, DimAborts, DimTraps
<1>25. CASE ErrDispReset(~KeysRead) \/ ErrDispReset(KeysRead) \/ CaptureAborts \/
            WriterAborts \/ WriterTraps
  BY <1>25, <1>22
  DEF ErrDispReset, Halt, CaptureAborts, WriterAborts, WriterTraps
<1>26. CASE ServicesComeUp \/ MoveSlider \/ AppDraws \/ MainSleepRequested \/ MainAwake
  BY <1>26, <1>22
  DEF ServicesComeUp, MoveSlider, AppDraws, MainSleepRequested, MainAwake
<1>27. CASE UNCHANGED vars
  BY <1>27, <1>22 DEF vars
<1> QED
  BY <1>1, <1>2, <1>3, <1>4, <1>5, <1>6, <1>7, <1>8, <1>9, <1>10, <1>11, <1>12, <1>13,
     <1>14, <1>15, <1>16, <1>17, <1>18, <1>19, <1>20, <1>21, <1>22, <1>23, <1>24, <1>25,
     <1>26, <1>27
  DEF Next, MenuSteps, MenuKeys, ErrDispSteps, ErrDispKeys, CaptureSteps, WriterSteps,
      MainSteps, MainNotified, World, menuEnter, menuLeave

-----------------------------------------------------------------------------
(* The other variables *)

\* A capture in progress is within the bound.
CaptureRoom ==
  pc["capture"] \in {"lock", "alloc", "convert"} => captures < MaxCaptures

\* What the functions of draw.c return is a cache.
LEMMA CacheTyped ==
  /\ NoCache \in CacheType
  /\ Draw_AllocateFramebufferCache(FbPages) \subseteq CacheType
  /\ Draw_AllocateFramebufferCacheForScreenshot(ShotPages) \subseteq CacheType
<1>1. NoCache \in CacheType
  BY DEF NoCache, CacheType, Pictures
<1>2. \A n \in Nat : Mapped(n) \in CacheType
  BY DEF Mapped, CacheType, Pictures
<1>3. \A n, free \in Nat : AllocationOf(n, free) \in CacheType
  BY <1>1, <1>2 DEF AllocationOf
<1> QED
  BY <1>1, <1>3, ScreenAssumption
  DEF Draw_AllocateFramebufferCache, Draw_AllocateFramebufferCacheForScreenshot

\* A successful allocation of n pages has n pages.
LEMMA AllocatedPages ==
  \A c \in Draw_AllocateFramebufferCache(FbPages) \ {NoCache} : c.pages = FbPages
BY DEF Draw_AllocateFramebufferCache, AllocationOf, Mapped

LEMMA SetupTyped ==
  ASSUME DataOK,
         \E c \in Draw_AllocateFramebufferCache(FbPages) \ {NoCache} :
           Draw_SetupFramebuffer(c)
  PROVE  /\ cache' \in CacheType /\ cache'.pages = FbPages
         /\ vram' \in Pictures
         /\ display' = "rosalina" /\ savedDisplay' = display
<1>1. PICK c \in Draw_AllocateFramebufferCache(FbPages) \ {NoCache} :
         Draw_SetupFramebuffer(c)
  OBVIOUS
<1>2. c \in CacheType /\ c.pages = FbPages
  BY CacheTyped, AllocatedPages
<1> QED
  BY <1>1, <1>2 DEF Draw_SetupFramebuffer, CacheType, DataOK, Pictures

LEMMA ToggledTyped ==
  \A mask \in SUBSET {1, 2} : rosalinaState \subseteq {1, 2} => Toggled(mask) \subseteq {1, 2}
BY DEF Toggled

LEMMA RestoreTyped ==
  ASSUME DataOK, Draw_RestoreFramebuffer
  PROVE  /\ vram' \in Pictures
         /\ display' \in {"app", "rosalina"} /\ savedDisplay' \in {"app", "rosalina"}
BY DEF DataOK, CacheType, Draw_RestoreFramebuffer

LEMMA RecordedTyped ==
  ASSUME DataOK
  PROVE  Recorded \in [holds : Pictures, id : Nat]
BY DEF DataOK, CacheType, Recorded, Pictures

LEMMA DataStep ==
  ASSUME DataOK, CaptureRoom, [Next]_vars
  PROVE  DataOK'
<1> USE DEF DataOK
<1>1. CASE UNCHANGED <<cache, screenVars, menuVars, shotVars, flagVars, envVars, halted>>
  BY <1>1 DEF screenVars, menuVars, shotVars, flagVars, envVars
<1>2. CASE MenuServices \/ MenuShow \/ MenuRedraw \/ MenuBack \/ MenuChoose
  <2>1. CASE MenuServices
    BY <2>1
    DEF MenuServices, lockVars, screenVars, menuVars, shotVars, envVars
  <2>2. CASE MenuShow
    BY <2>2
    DEF Pictures, lockVars, menuVars, shotVars, flagVars, envVars, MenuShow, DrawAndGoto
  <2>3. CASE MenuRedraw
    BY <2>3
    DEF Pictures, lockVars, menuVars, shotVars, flagVars, envVars, DrawAndGoto, MenuRedraw
  <2>4. CASE MenuBack
    BY <2>4
    DEF Pictures, lockVars, menuVars, shotVars, flagVars, envVars, DrawAndGoto, MenuBack
  <2>5. CASE MenuChoose
    BY <2>5
    DEF Pictures, lockVars, menuVars, shotVars, flagVars, envVars, DrawAndGoto, MenuChoose
  <2> QED
    BY <1>2, <2>1, <2>2, <2>3, <2>4, <2>5
<1>3. CASE MenuLoop \/ MenuNoCombo \/ MenuCombo \/ PowerConfirm \/
           LeaveLock("leave", "leaving")
  BY <1>3, <1>1
  DEF MenuLoop, MenuNoCombo, MenuCombo, PowerConfirm, LeaveLock
<1>4. CASE DimCancel \/ PowerReturn(menuShouldExit) \/ PowerReturn(KeysRead) \/
           ErrDispDisplay \/ WriterReset
  <2>1. CASE DimCancel
    BY <2>1
    DEF Pictures, DimCancel, DrawAndGoto, lockVars, menuVars, shotVars, flagVars, envVars
  <2>2. CASE PowerReturn(menuShouldExit)
    BY <2>2
    DEF Pictures, DrawAndGoto, lockVars, menuVars, shotVars, flagVars, envVars, PowerReturn
  <2>3. CASE PowerReturn(KeysRead)
    BY <2>3
    DEF Pictures, DrawAndGoto, lockVars, menuVars, shotVars, flagVars, envVars, PowerReturn
  <2>4. CASE ErrDispDisplay
    BY <2>4
    DEF Pictures, menuVars, shotVars, flagVars, envVars, ErrDispDisplay
  <2>5. CASE WriterReset
    BY <2>5
    DEF screenVars, menuVars, flagVars, envVars, WriterReset
  <2> QED
    BY <1>4, <2>1, <2>2, <2>3, <2>4, <2>5
<1>5. CASE ShotBegin
  BY <1>5, CacheTyped, RestoreTyped
  DEF ShotBegin, lockVars, screenVars, menuVars, shotVars, flagVars, envVars,
      Draw_FreeFramebufferCache
<1>6. CASE ShotEnd \/ EnterSetup("menu") \/ EnterSetup("errdisp")
  <2>1. CASE ShotEnd
    BY <2>1, SetupTyped
    DEF ShotEnd, ReclaimScreen, menuVars, shotVars, flagVars, envVars
  <2>2. CASE EnterSetup("menu")
    BY <2>2, SetupTyped
    DEF lockVars, menuVars, shotVars, flagVars, envVars, EnterSetup
  <2>3. CASE EnterSetup("errdisp")
    BY <2>3, SetupTyped
    DEF lockVars, menuVars, shotVars, flagVars, envVars, EnterSetup
  <2> QED
    BY <1>6, <2>1, <2>2, <2>3
<1>7. CASE DimBegin(menuShouldExit) \/ DimBegin(KeysRead) \/
           LeaveRestores("leaving", "poll") \/ LeaveRestores("powerleaving", "browse")
  <2>1. CASE DimBegin(menuShouldExit)
    BY <2>1, ToggledTyped, CacheTyped, RestoreTyped
    DEF DimBegin, shotVars, flagVars, envVars, Draw_FreeFramebufferCache
  <2>2. CASE DimBegin(KeysRead)
    BY <2>2, ToggledTyped, CacheTyped, RestoreTyped
    DEF DimBegin, shotVars, flagVars, envVars, Draw_FreeFramebufferCache
  <2>3. CASE LeaveRestores("leaving", "poll")
    BY <2>3, ToggledTyped, CacheTyped, RestoreTyped
    DEF shotVars, flagVars, envVars, Draw_FreeFramebufferCache, LeaveRestores
  <2>4. CASE LeaveRestores("powerleaving", "browse")
    BY <2>4, ToggledTyped, CacheTyped, RestoreTyped
    DEF shotVars, flagVars, envVars, Draw_FreeFramebufferCache, LeaveRestores
  <2> QED
    BY <1>7, <2>1, <2>2, <2>3, <2>4
<1>8. CASE DimEnd(menuShouldExit) \/ DimEnd(KeysRead)
  BY <1>8, SetupTyped, ToggledTyped
  DEF DimEnd, ReclaimScreen, lockVars, screenVars, menuVars, shotVars, flagVars, envVars
<1>9. CASE LeaveKeepsScreen("leaving", "poll") \/ LeaveKeepsScreen("powerleaving", "browse")
  <2>1. CASE LeaveKeepsScreen("leaving", "poll")
    BY <2>1
    DEF LeaveKeepsScreen, lockVars, screenVars, menuVars, shotVars, flagVars,
        envVars
  <2>2. CASE LeaveKeepsScreen("powerleaving", "browse")
    BY <2>2
    DEF LeaveKeepsScreen, lockVars, screenVars, menuVars, shotVars, flagVars,
        envVars
  <2> QED
    BY <1>9, <2>1, <2>2
<1>10. CASE LeaveLock("powerleave", "powerleaving") \/ EnterLock("menu") \/
            EnterSkip("menu") \/ EnterUnlock("menu", "show") \/ EnterLock("errdisp")
  BY <1>10, <1>1
  DEF LeaveLock, EnterLock, EnterSkip, EnterUnlock
<1>11. CASE EnterFreeze("menu") \/ EnterAllocFails("menu") \/ EnterFreeze("errdisp") \/
            EnterAllocFails("errdisp")
  BY <1>11, ToggledTyped
  DEF EnterFreeze, lockVars, screenVars, menuVars, shotVars, flagVars, envVars,
      EnterAllocFails
<1>12. CASE EnterSkip("errdisp") \/ EnterUnlock("errdisp", "errlock") \/ ErrDispThrow \/
            ErrDispExits \/ AwaitServices("capture")
  BY <1>12, <1>1
  DEF EnterSkip, EnterUnlock, ErrDispThrow, ErrDispExits, AwaitServices
<1>13. CASE LoopOrExit("capture") \/ AwaitServices("writer") \/ LoopOrExit("writer") \/
            CaptureNap \/ CaptureRest
  BY <1>13, <1>1
  DEF LoopOrExit, AwaitServices, CaptureNap, CaptureRest
<1>14. CASE CaptureLock \/ CaptureAlloc \/ WriterRealloc
  <2>1. CASE CaptureLock
    BY <2>1, CacheTyped
    DEF CaptureLock, screenVars, menuVars, shotVars, flagVars, envVars,
        Draw_FreeFramebufferCache
  <2>2. CASE CaptureAlloc
    BY <2>2, CacheTyped
    DEF lockVars, screenVars, menuVars, shotVars, flagVars, envVars, CaptureAlloc
  <2>3. CASE WriterRealloc
    BY <2>3, CacheTyped
    DEF screenVars, menuVars, shotVars, flagVars, envVars, WriterRealloc
  <2> QED
    BY <1>14, <2>1, <2>2, <2>3
<1>15. CASE CaptureConvert
  <2>1. captures' = captures + 1 /\ captures' \in 0..MaxCaptures
    BY <1>15, ScreenAssumption DEF CaptureConvert, CaptureRoom, At
  <2>2. cache' \in CacheType
    <3>1. captures' \in Nat
      BY <2>1, ScreenAssumption
    <3>2. cache' = [cache EXCEPT !.holds = "shot", !.id = captures']
      BY <1>15 DEF CaptureConvert
    <3> QED
      BY <3>1, <3>2 DEF CacheType, Pictures
  <2> QED
    BY <1>15, <2>1, <2>2
    DEF CaptureConvert, lockVars, screenVars, menuVars, shotVars, flagVars, envVars
<1>16. CASE WriterNap \/ WriterLock \/ WriterNestedLock \/ WriterOpens \/ WriterOpenFails
  BY <1>16, <1>1
  DEF WriterNap, WriterLock, WriterNestedLock, WriterOpens, WriterOpenFails
<1>17. CASE WriterWrites
  BY <1>17, CacheTyped, RecordedTyped
  DEF WriterWrites, lockVars, screenVars, menuVars, shotVars, flagVars, envVars,
      Draw_FreeFramebufferCache, Pictures
<1>18. CASE MainPreTerm \/ MainTerm \/ MainJoins
  BY <1>18, <1>1
  DEF MainPreTerm, MainTerm, MainJoins
<1>19. CASE MainRequestTermination \/ ServicesComeUp \/ MoveSlider \/ AppDraws \/
            MainSleepRequested
  <2>1. CASE MainRequestTermination
    BY <2>1
    DEF MainRequestTermination, lockVars, screenVars, menuVars, shotVars, envVars
  <2>2. CASE ServicesComeUp
    BY <2>2
    DEF lockVars, screenVars, menuVars, shotVars, flagVars, ServicesComeUp
  <2>3. CASE MoveSlider
    BY <2>3
    DEF lockVars, screenVars, menuVars, shotVars, flagVars, MoveSlider
  <2>4. CASE AppDraws
    BY <2>4
    DEF Pictures, lockVars, menuVars, shotVars, flagVars, envVars, AppDraws
  <2>5. CASE MainSleepRequested
    BY <2>5
    DEF lockVars, screenVars, menuVars, shotVars, envVars, MainSleepRequested
  <2> QED
    BY <1>19, <2>1, <2>2, <2>3, <2>4, <2>5
<1>20. CASE EnterAllocTrap("menu") \/ EnterAllocTrap("errdisp") \/
            LeaveAborts("leaving") \/ LeaveAborts("powerleaving") \/ ShotAborts
  BY <1>20
  DEF EnterAllocTrap, Halt, lockVars, screenVars, menuVars, shotVars, flagVars, envVars,
      LeaveAborts, ShotAborts
<1>21. CASE ShotTraps \/ DimAborts(menuShouldExit) \/ DimAborts(KeysRead) \/
            DimTraps(menuShouldExit) \/ DimTraps(KeysRead)
  BY <1>21
  DEF ShotTraps, ReclaimTraps, Halt, lockVars, screenVars, menuVars, shotVars, flagVars,
      envVars, DimAborts, DimTraps
<1>22. CASE ErrDispReset(~KeysRead) \/ ErrDispReset(KeysRead) \/ CaptureAborts \/
            WriterAborts \/ WriterTraps
  BY <1>22
  DEF ErrDispReset, Halt, lockVars, screenVars, menuVars, shotVars, flagVars, envVars,
      CaptureAborts, WriterAborts, WriterTraps
<1>23. CASE MainAwake
  <2>1. CASE MainAwake
    BY <2>1
    DEF MainAwake, lockVars, screenVars, menuVars, shotVars, envVars
  <2> QED
    BY <1>23, <2>1
<1>24. CASE UNCHANGED vars
  BY <1>1, <1>24 DEF vars
<1> QED
  BY <1>2, <1>3, <1>4, <1>5, <1>6, <1>7, <1>8, <1>9, <1>10, <1>11, <1>12, <1>13, <1>14,
     <1>15, <1>16, <1>17, <1>18, <1>19, <1>20, <1>21, <1>22, <1>23, <1>24
  DEF Next, MenuSteps, MenuKeys, ErrDispSteps, ErrDispKeys, CaptureSteps, WriterSteps,
      MainSteps, MainNotified, World, menuEnter, menuLeave

LEMMA RoomStep ==
  ASSUME ControlOK, CaptureRoom, [Next]_vars
  PROVE  CaptureRoom'
<1> DEFINE CaptureHasPc == pc \in [Threads -> UNION {Labels(t) : t \in Threads}]
                           /\ "capture" \in Threads
<1>0. CaptureHasPc
  BY CaptureDepths DEF ControlOK
<1> HIDE DEF CaptureHasPc
<1> USE DEF CaptureRoom
<1>1. CASE pc'["capture"] = pc["capture"] /\ captures' = captures
  BY <1>1
<1>2. CASE MenuServices \/ MenuLoop \/ MenuNoCombo \/ MenuCombo \/ PowerConfirm
  BY <1>2, <1>1, <1>0
  DEF CaptureHasPc, MenuServices, Goto, shotVars, MenuLoop, MenuNoCombo, MenuCombo,
      PowerConfirm
<1>3. CASE MenuShow \/ MenuRedraw \/ MenuBack \/ MenuChoose \/ DimCancel
  BY <1>3, <1>1, <1>0
  DEF CaptureHasPc, MenuShow, DrawAndGoto, Goto, shotVars, MenuRedraw, MenuBack,
      MenuChoose, DimCancel
<1>4. CASE ShotBegin \/ ShotEnd \/ DimBegin(menuShouldExit) \/ DimEnd(menuShouldExit) \/
           PowerReturn(menuShouldExit)
  BY <1>4, <1>1, <1>0
  DEF CaptureHasPc, ShotBegin, Goto, shotVars, ShotEnd, ReclaimScreen, DimBegin, DimEnd,
      PowerReturn, DrawAndGoto
<1>5. CASE DimBegin(KeysRead) \/ DimEnd(KeysRead) \/ PowerReturn(KeysRead) \/
           LeaveLock("leave", "leaving") \/ LeaveRestores("leaving", "poll")
  BY <1>5, <1>1, <1>0
  DEF CaptureHasPc, DimBegin, Goto, shotVars, DimEnd, ReclaimScreen, PowerReturn,
      DrawAndGoto, LeaveLock, LeaveRestores
<1>6. CASE LeaveKeepsScreen("leaving", "poll") \/ LeaveKeepsScreen("powerleaving", "browse")
  BY <1>6, <1>1, <1>0
  DEF CaptureHasPc, LeaveKeepsScreen, Goto, shotVars
<1>7. CASE LeaveLock("powerleave", "powerleaving") \/
           LeaveRestores("powerleaving", "browse") \/ EnterLock("menu") \/
           EnterSkip("menu") \/ EnterFreeze("menu")
  BY <1>7, <1>1, <1>0
  DEF CaptureHasPc, LeaveLock, Goto, shotVars, LeaveRestores, EnterLock, EnterSkip,
      EnterFreeze
<1>8. CASE EnterAllocFails("menu") \/ EnterSetup("menu") \/ EnterUnlock("menu", "show") \/
           EnterLock("errdisp") \/ EnterSkip("errdisp")
  BY <1>8, <1>1, <1>0
  DEF CaptureHasPc, EnterAllocFails, Goto, shotVars, EnterSetup, EnterUnlock, EnterLock,
      EnterSkip
<1>9. CASE EnterFreeze("errdisp") \/ EnterAllocFails("errdisp") \/ EnterSetup("errdisp") \/
           EnterUnlock("errdisp", "errlock") \/ ErrDispThrow
  BY <1>9, <1>1, <1>0
  DEF CaptureHasPc, EnterFreeze, Goto, shotVars, EnterAllocFails, EnterSetup, EnterUnlock,
      ErrDispThrow
<1>10. CASE ErrDispExits \/ ErrDispDisplay \/ AwaitServices("writer") \/
            LoopOrExit("writer") \/ WriterNap
  BY <1>10, <1>1, <1>0
  DEF CaptureHasPc, ErrDispExits, Goto, shotVars, ErrDispDisplay, AwaitServices,
      LoopOrExit, WriterNap
<1>11. CASE AwaitServices("capture") \/ LoopOrExit("capture") \/ CaptureNap \/
            CaptureLock \/ CaptureAlloc
  BY <1>11, <1>0
  DEF CaptureHasPc, AwaitServices, Goto, At, shotVars, LoopOrExit, CaptureNap, CaptureLock,
      CaptureAlloc
<1>12. CASE CaptureConvert
  BY <1>12, <1>0
  DEF CaptureHasPc, CaptureConvert, Goto, At, shotVars
<1>13. CASE CaptureRest
  BY <1>13, <1>0
  DEF CaptureHasPc, CaptureRest, Goto, At, shotVars
<1>14. CASE WriterLock \/ WriterNestedLock \/ WriterOpens \/ WriterOpenFails \/
            WriterRealloc
  BY <1>14, <1>1, <1>0
  DEF CaptureHasPc, WriterLock, Goto, shotVars, WriterNestedLock, WriterOpens,
      WriterOpenFails, WriterRealloc
<1>15. CASE WriterWrites
  BY <1>15, <1>1, <1>0
  DEF CaptureHasPc, WriterWrites, Goto, shotVars
<1>16. CASE WriterReset \/ MainPreTerm \/ MainRequestTermination \/ MainTerm \/ MainJoins
  BY <1>16, <1>1, <1>0
  DEF CaptureHasPc, WriterReset, Goto, shotVars, MainPreTerm, MainRequestTermination,
      MainTerm, MainJoins
<1>17. CASE EnterAllocTrap("menu") \/ EnterAllocTrap("errdisp") \/
            LeaveAborts("leaving") \/ LeaveAborts("powerleaving") \/ ShotAborts
  BY <1>17, <1>1
  DEF EnterAllocTrap, Halt, shotVars, LeaveAborts, ShotAborts
<1>18. CASE ShotTraps \/ DimAborts(menuShouldExit) \/ DimAborts(KeysRead) \/
            DimTraps(menuShouldExit) \/ DimTraps(KeysRead)
  BY <1>18, <1>1
  DEF ShotTraps, ReclaimTraps, Halt, shotVars, DimAborts, DimTraps
<1>19. CASE ErrDispReset(~KeysRead) \/ ErrDispReset(KeysRead) \/ CaptureAborts \/
            WriterAborts \/ WriterTraps
  BY <1>19, <1>1
  DEF ErrDispReset, Halt, shotVars, CaptureAborts, WriterAborts, WriterTraps
<1>20. CASE ServicesComeUp \/ MoveSlider \/ AppDraws \/ MainSleepRequested \/ MainAwake
  BY <1>20, <1>1
  DEF ServicesComeUp, shotVars, MoveSlider, AppDraws, MainSleepRequested, MainAwake
<1>21. CASE UNCHANGED vars
  BY <1>1, <1>21 DEF vars, shotVars
<1> QED
  BY <1>2, <1>3, <1>4, <1>5, <1>6, <1>7, <1>8, <1>9, <1>10, <1>11, <1>12, <1>13, <1>14,
     <1>15, <1>16, <1>17, <1>18, <1>19, <1>20, <1>21
  DEF Next, MenuSteps, MenuKeys, ErrDispSteps, ErrDispKeys, CaptureSteps, WriterSteps,
      MainSteps, MainNotified, World, menuEnter, menuLeave

-----------------------------------------------------------------------------
(* The session of the menu *)

\* A thread inside a critical section that took the cache away for a while.
CacheAway ==
  \/ At("menu", "allocating") \/ At("errdisp", "allocating")
  \/ At("menu", "shot") \/ At("menu", "dim")
  \/ At("capture", "alloc") \/ At("capture", "convert")
  \/ At("writer", "realloc")

\* OpenSessionHasCache, strengthened to the inside of critical sections.
SessionCache == menuRefCount = 1 /\ ~CacheAway => cache.pages >= FbPages

\* Between the two halves of menuEnter the count is the one it has set.
FreezeIsOpen ==
  At("menu", "allocating") \/ At("errdisp", "allocating") => menuRefCount = 1

SessionInv == AppsFrozenIffOpen /\ GspFrozenParity /\ SessionCache /\ FreezeIsOpen

LEMMA OneInside ==
  ASSUME DrawLockExclusive
  PROVE  ~(pc["menu"] \in MenuLocked /\ pc["errdisp"] \in ErrDispLocked)
<1>1. pc["menu"] \in MenuLocked => lock.tag = "menu"
  BY MenuDepths DEF DrawLockExclusive
<1>2. pc["errdisp"] \in ErrDispLocked => lock.tag = "errdisp"
  BY ErrDispDepths DEF DrawLockExclusive
<1> QED
  BY <1>1, <1>2

LEMMA SessionStep ==
  ASSUME ControlOK, DrawLockExclusive, DataOK, SessionInv, [Next]_vars
  PROVE  SessionInv'
<1> USE DEF SessionInv, AppsFrozenIffOpen, GspFrozenParity, SessionCache, CacheAway, FreezeIsOpen, At
<1>1. CASE MenuServices \/ MenuLoop \/ MenuNoCombo \/ MenuCombo \/ PowerConfirm
  BY <1>1
  DEF MenuServices, Goto, ControlOK, Threads, menuVars, MenuLoop, MenuNoCombo, MenuCombo,
      PowerConfirm
<1>2. CASE MenuShow \/ MenuRedraw \/ MenuBack \/ DimCancel \/ PowerReturn(menuShouldExit)
  BY <1>2
  DEF MenuShow, DrawAndGoto, Goto, ControlOK, Threads, menuVars, MenuRedraw, MenuBack,
      DimCancel, PowerReturn
<1>3. CASE MenuChoose \/ ShotBegin \/ DimBegin(menuShouldExit) \/ DimBegin(KeysRead) \/
           CaptureLock
  BY <1>3, ScreenAssumption
  DEF MenuChoose, DrawAndGoto, Goto, ControlOK, Threads, AllMethods, menuVars, ShotBegin,
      Draw_FreeFramebufferCache, NoCache, DimBegin, Toggled, CaptureLock
<1>4. CASE ShotEnd \/ DimEnd(menuShouldExit) \/ DimEnd(KeysRead) \/ EnterSetup("menu") \/
           EnterSetup("errdisp")
  BY <1>4, SetupTyped, ScreenAssumption
  DEF ShotEnd, ReclaimScreen, Goto, ControlOK, Threads, menuVars, DimEnd, Toggled,
      EnterSetup
<1>5. CASE PowerReturn(KeysRead) \/ LeaveLock("leave", "leaving") \/
           LeaveLock("powerleave", "powerleaving") \/ EnterLock("menu") \/ EnterSkip("menu")
  BY <1>5
  DEF PowerReturn, DrawAndGoto, Goto, ControlOK, Threads, menuVars, LeaveLock, EnterLock,
      EnterSkip
<1>6. CASE LeaveKeepsScreen("leaving", "poll") \/ LeaveKeepsScreen("powerleaving", "browse")
  BY <1>6, ScreenAssumption, OneInside
  DEF LeaveKeepsScreen, Goto, ControlOK, Threads, DataOK, menuVars, MenuLocked,
      ErrDispLocked
<1>7. CASE LeaveRestores("leaving", "poll") \/ LeaveRestores("powerleaving", "browse") \/
           EnterFreeze("menu") \/ EnterAllocFails("menu") \/ EnterFreeze("errdisp")
  BY <1>7, ScreenAssumption, OneInside
  DEF LeaveRestores, Goto, ControlOK, Threads, Toggled, menuVars, MenuLocked,
      ErrDispLocked, Draw_FreeFramebufferCache, NoCache, EnterFreeze, EnterAllocFails
<1>8. CASE EnterUnlock("menu", "show") \/ EnterLock("errdisp") \/ EnterSkip("errdisp") \/
           EnterUnlock("errdisp", "errlock") \/ ErrDispThrow
  BY <1>8
  DEF EnterUnlock, Goto, ControlOK, Threads, menuVars, EnterLock, EnterSkip, ErrDispThrow
<1>9. CASE EnterAllocFails("errdisp")
  BY <1>9, ScreenAssumption, OneInside
  DEF EnterAllocFails, Goto, ControlOK, Threads, Toggled, menuVars, MenuLocked,
      ErrDispLocked
<1>10. CASE ErrDispExits \/ ErrDispDisplay \/ AwaitServices("capture") \/
            LoopOrExit("capture") \/ AwaitServices("writer")
  BY <1>10
  DEF ErrDispExits, Goto, ControlOK, Threads, menuVars, ErrDispDisplay, AwaitServices,
      LoopOrExit
<1>11. CASE LoopOrExit("writer") \/ CaptureNap \/ CaptureRest \/ WriterNap \/ WriterLock
  BY <1>11
  DEF LoopOrExit, Goto, ControlOK, Threads, menuVars, CaptureNap, CaptureRest, WriterNap,
      WriterLock
<1>12. CASE CaptureAlloc
  BY <1>12, ScreenAssumption
  DEF CaptureAlloc, Goto, ControlOK, Threads, menuVars
<1>13. CASE CaptureConvert
  BY <1>13, ScreenAssumption
  DEF CaptureConvert, Goto, ControlOK, Threads, menuVars, DataOK, CacheType
<1>14. CASE WriterNestedLock \/ WriterOpens \/ WriterOpenFails \/ WriterReset \/ MainPreTerm
  BY <1>14
  DEF WriterNestedLock, Goto, ControlOK, Threads, menuVars, WriterOpens, WriterOpenFails,
      WriterReset, MainPreTerm
<1>15. CASE WriterWrites
  BY <1>15, ScreenAssumption
  DEF WriterWrites, Goto, ControlOK, Threads, menuVars, Draw_FreeFramebufferCache, NoCache
<1>16. CASE WriterRealloc
  BY <1>16, ScreenAssumption, AllocatedPages
  DEF WriterRealloc, Goto, ControlOK, Threads, menuVars
<1>17. CASE MainRequestTermination \/ MainTerm \/ MainJoins \/ ServicesComeUp \/ MoveSlider
  BY <1>17
  DEF MainRequestTermination, Goto, ControlOK, Threads, menuVars, MainTerm, MainJoins,
      ServicesComeUp, MoveSlider
<1>18. CASE EnterAllocTrap("menu") \/ EnterAllocTrap("errdisp") \/
            LeaveAborts("leaving") \/ LeaveAborts("powerleaving") \/ ShotAborts
  BY <1>18
  DEF EnterAllocTrap, Halt, menuVars, LeaveAborts, ShotAborts
<1>19. CASE ShotTraps \/ DimAborts(menuShouldExit) \/ DimAborts(KeysRead) \/
            DimTraps(menuShouldExit) \/ DimTraps(KeysRead)
  BY <1>19
  DEF ShotTraps, ReclaimTraps, Halt, menuVars, DimAborts, DimTraps
<1>20. CASE ErrDispReset(~KeysRead) \/ ErrDispReset(KeysRead) \/ CaptureAborts \/
            WriterAborts \/ WriterTraps
  BY <1>20
  DEF ErrDispReset, Halt, menuVars, CaptureAborts, WriterAborts, WriterTraps
<1>21. CASE AppDraws \/ MainSleepRequested \/ MainAwake
  BY <1>21
  DEF AppDraws, menuVars, MainSleepRequested, MainAwake
<1>22. CASE UNCHANGED vars
  BY <1>22 DEF vars, menuVars
<1> QED
  BY <1>1, <1>2, <1>3, <1>4, <1>5, <1>6, <1>7, <1>8, <1>9, <1>10, <1>11, <1>12, <1>13,
     <1>14, <1>15, <1>16, <1>17, <1>18, <1>19, <1>20, <1>21, <1>22
  DEF Next, MenuSteps, MenuKeys, ErrDispSteps, ErrDispKeys, CaptureSteps, WriterSteps,
      MainSteps, MainNotified, World, menuEnter, menuLeave

-----------------------------------------------------------------------------
(* Who changes the shared state *)

\* The step of SharedChangesUnderLock.
Changes ==
  \/ UNCHANGED <<cache, display, savedDisplay, menuVars, shotVars>>
  \/ \E t \in Threads : /\ pc'[t] # pc[t]
                        /\ lock.tag = t \/ lock'.tag = t

\* A thread that moves from a label where it holds the lock to another label.
LEMMA Inside ==
  ASSUME ControlOK, DrawLockExclusive,
         NEW t \in Threads, NEW l, Goto(t, l), l # pc[t],
         DepthAt(t, pc[t]) = 1 \/ DepthAt(t, pc[t]) = 2
  PROVE  Changes
<1>1. pc'[t] # pc[t]
  BY DEF Goto, ControlOK
<1>2. lock.tag = t
  BY DEF DrawLockExclusive
<1> QED
  BY <1>1, <1>2 DEF Changes

\* A thread that acquires the lock and moves to another label.
LEMMA Acquires ==
  ASSUME ControlOK, NEW t \in Threads, NEW l, Goto(t, l), l # pc[t], AcquireLock(t)
  PROVE  Changes
<1>1. pc'[t] # pc[t]
  BY DEF Goto, ControlOK
<1>2. lock'.tag = t
  BY DEF AcquireLock, Acquired
<1> QED
  BY <1>1, <1>2 DEF Changes

LEMMA ChangesStep ==
  ASSUME ControlOK, DrawLockExclusive, [Next]_vars
  PROVE  Changes
<1>1. CASE MenuServices \/ MenuLoop \/ MenuNoCombo \/ MenuCombo \/ PowerConfirm
  BY <1>1
  DEF MenuServices, Changes, screenVars, menuVars, shotVars, MenuLoop, MenuNoCombo,
      MenuCombo, PowerConfirm
<1>2. CASE MenuShow \/ MenuRedraw \/ MenuBack \/ MenuChoose \/ DimCancel
  BY <1>2
  DEF MenuShow, DrawAndGoto, Changes, screenVars, menuVars, shotVars, MenuRedraw, MenuBack,
      MenuChoose, DimCancel
<1>3. CASE ShotBegin \/ DimBegin(menuShouldExit) \/ DimBegin(KeysRead)
  BY <1>3, Acquires, MenuDepths
  DEF ShotBegin, At, MenuLocked, DimBegin
<1>4. CASE ShotEnd \/ DimEnd(menuShouldExit) \/ DimEnd(KeysRead) \/
           LeaveRestores("leaving", "poll") \/ LeaveRestores("powerleaving", "browse")
  BY <1>4, Inside, MenuDepths
  DEF ShotEnd, ReclaimScreen, At, MenuLocked, DimEnd, LeaveRestores
<1>5. CASE PowerReturn(menuShouldExit) \/ PowerReturn(KeysRead) \/
           LeaveLock("leave", "leaving") \/ LeaveLock("powerleave", "powerleaving") \/
           EnterLock("menu")
  BY <1>5
  DEF PowerReturn, DrawAndGoto, Changes, screenVars, menuVars, shotVars, LeaveLock,
      EnterLock
<1>6. CASE LeaveKeepsScreen("leaving", "poll") \/ LeaveKeepsScreen("powerleaving", "browse")
  BY <1>6, Inside, MenuDepths
  DEF LeaveKeepsScreen, At, MenuLocked
<1>7. CASE EnterSkip("menu") \/ EnterUnlock("menu", "show") \/ EnterLock("errdisp") \/
           EnterSkip("errdisp") \/ EnterUnlock("errdisp", "errlock")
  BY <1>7
  DEF EnterSkip, Changes, screenVars, menuVars, shotVars, EnterUnlock, EnterLock
<1>8. CASE EnterFreeze("menu") \/ EnterAllocFails("menu") \/ EnterSetup("menu")
  BY <1>8, Inside, MenuDepths
  DEF EnterFreeze, At, MenuLocked, EnterAllocFails, EnterSetup
<1>9. CASE EnterFreeze("errdisp") \/ EnterAllocFails("errdisp") \/ EnterSetup("errdisp")
  BY <1>9, Inside, ErrDispDepths
  DEF EnterFreeze, At, ErrDispLocked, EnterAllocFails, EnterSetup
<1>10. CASE ErrDispThrow \/ ErrDispExits \/ ErrDispDisplay \/ AwaitServices("capture") \/
            LoopOrExit("capture")
  BY <1>10
  DEF ErrDispThrow, Changes, screenVars, menuVars, shotVars, ErrDispExits, ErrDispDisplay,
      AwaitServices, LoopOrExit
<1>11. CASE AwaitServices("writer") \/ LoopOrExit("writer") \/ CaptureNap \/ CaptureRest \/
            WriterNap
  BY <1>11
  DEF AwaitServices, Changes, screenVars, menuVars, shotVars, LoopOrExit, CaptureNap,
      CaptureRest, WriterNap
<1>12. CASE CaptureLock
  BY <1>12, Acquires, CaptureDepths
  DEF CaptureLock, At, CaptureLocked
<1>13. CASE CaptureAlloc
  BY <1>13, Inside, CaptureDepths
  DEF CaptureAlloc, At, CaptureLocked
<1>14. CASE CaptureConvert
  BY <1>14, Inside, CaptureDepths
  DEF CaptureConvert, At, CaptureLocked
<1>15. CASE WriterLock \/ WriterNestedLock \/ WriterOpens \/ WriterOpenFails \/ MainPreTerm
  BY <1>15
  DEF WriterLock, Changes, screenVars, menuVars, shotVars, WriterNestedLock, WriterOpens,
      WriterOpenFails, MainPreTerm
<1>16. CASE WriterWrites
  BY <1>16, Inside, WriterDepths
  DEF WriterWrites, At, WriterLocked, WriterNested
<1>17. CASE WriterRealloc \/ WriterReset
  BY <1>17, Inside, WriterDepths
  DEF WriterRealloc, At, WriterLocked, WriterNested, WriterReset
<1>18. CASE MainRequestTermination \/ MainTerm \/ MainJoins \/ ServicesComeUp \/ MoveSlider
  BY <1>18
  DEF MainRequestTermination, Changes, screenVars, menuVars, shotVars, MainTerm, MainJoins,
      ServicesComeUp, MoveSlider
<1>19. CASE EnterAllocTrap("menu") \/ EnterAllocTrap("errdisp") \/
            LeaveAborts("leaving") \/ LeaveAborts("powerleaving") \/ ShotAborts
  BY <1>19
  DEF EnterAllocTrap, Halt, Changes, screenVars, menuVars, shotVars, LeaveAborts, ShotAborts
<1>20. CASE ShotTraps \/ DimAborts(menuShouldExit) \/ DimAborts(KeysRead) \/
            DimTraps(menuShouldExit) \/ DimTraps(KeysRead)
  BY <1>20
  DEF ShotTraps, ReclaimTraps, Halt, Changes, screenVars, menuVars, shotVars, DimAborts,
      DimTraps
<1>21. CASE ErrDispReset(~KeysRead) \/ ErrDispReset(KeysRead) \/ CaptureAborts \/
            WriterAborts \/ WriterTraps
  BY <1>21
  DEF ErrDispReset, Halt, Changes, screenVars, menuVars, shotVars, CaptureAborts,
      WriterAborts, WriterTraps
<1>22. CASE AppDraws \/ MainSleepRequested \/ MainAwake
  BY <1>22
  DEF AppDraws, Changes, screenVars, menuVars, shotVars, MainSleepRequested, MainAwake
<1>23. CASE UNCHANGED vars
  BY <1>23 DEF vars, Changes, screenVars, menuVars, shotVars
<1> QED
  BY <1>1, <1>2, <1>3, <1>4, <1>5, <1>6, <1>7, <1>8, <1>9, <1>10, <1>11, <1>12, <1>13,
     <1>14, <1>15, <1>16, <1>17, <1>18, <1>19, <1>20, <1>21, <1>22, <1>23
  DEF Next, MenuSteps, MenuKeys, ErrDispSteps, ErrDispKeys, CaptureSteps, WriterSteps,
      MainSteps, MainNotified, World, menuEnter, menuLeave

-----------------------------------------------------------------------------
(***************************************************************************)
(* The application's screen, until a capture or an error.  The cache may   *)
(* be lost in the hands of the capture thread only if a capture is made.   *)
(***************************************************************************)

Quiet ==
  captures = 0 /\ At("errdisp", "serve") /\ ~At("capture", "alloc") /\ ~At("capture", "convert")

\* Nothing is to be written before the first capture.
WriterIdle ==
  captures = 0 => ~ready /\ pc["writer"] \in {"services", "poll", "nap", "done"}

\* The menu thread has the lock and has given the screen back, or not yet taken it.
ScreenGivenBack == At("menu", "allocating") \/ At("menu", "shot") \/ At("menu", "dim")

\* The menu is not on the screen, and was not drawn by mistake.
OffScreen == pc["menu"] \in {"services", "poll", "nap", "enter", "entering"}

ScreenTaken == cache.holds = "app" /\ savedDisplay = "app" /\ display = "rosalina"
ScreenFree == CacheIsNull /\ display = "app"

QuietInv ==
  /\ WriterIdle
  /\ Quiet =>
       /\ menuRefCount = 1 /\ ~ScreenGivenBack => ScreenTaken
       /\ menuRefCount = 1 /\ ScreenGivenBack => ScreenFree /\ vram = "app"
       /\ menuRefCount # 1 => ScreenFree /\ ~ScreenGivenBack
       /\ menuRefCount = 0 /\ OffScreen => vram = "app"

\* What Draw_SetupFramebuffer keeps of the screen it takes.
LEMMA SetupKeeps ==
  ASSUME \E c \in Draw_AllocateFramebufferCache(FbPages) \ {NoCache} :
           Draw_SetupFramebuffer(c)
  PROVE  cache'.holds = vram /\ savedDisplay' = display /\ display' = "rosalina"
<1>1. PICK c \in Draw_AllocateFramebufferCache(FbPages) \ {NoCache} :
         Draw_SetupFramebuffer(c)
  OBVIOUS
<1>2. c \in CacheType
  BY CacheTyped
<1> QED
  BY <1>1, <1>2 DEF Draw_SetupFramebuffer, CacheType

\* A restored screen was the application's, in a session.
LEMMA RestoreGivesBack ==
  ASSUME QuietInv, Quiet, CanRestore, Draw_RestoreFramebuffer, ~ScreenGivenBack
  PROVE  menuRefCount = 1 /\ vram' = "app" /\ display' = "app"
<1>1. ~CacheIsNull
  BY ScreenAssumption DEF CanRestore, CacheIsNull
<1> QED
  BY <1>1 DEF QuietInv, ScreenFree, ScreenTaken, Draw_RestoreFramebuffer

LEMMA QuietStep ==
  ASSUME ControlOK, DataOK, SessionInv, QuietInv, [Next]_vars
  PROVE  QuietInv'
<1> USE DEF QuietInv, Quiet, WriterIdle, ScreenGivenBack, OffScreen, ScreenTaken, ScreenFree,
        CacheIsNull, At, Goto, ControlOK, Threads, screenVars, menuVars, shotVars
<1>1. CASE MenuServices \/ MenuLoop \/ MenuNoCombo \/ MenuCombo \/ PowerConfirm
  BY <1>1 DEF MenuServices, MenuLoop, MenuNoCombo, MenuCombo, PowerConfirm
<1>2. CASE MenuShow \/ MenuRedraw \/ MenuBack \/ DimCancel
  BY <1>2 DEF MenuShow, DrawAndGoto, MenuRedraw, MenuBack, DimCancel
<1>3. CASE MenuChoose
  BY <1>3, ScreenAssumption DEF MenuChoose, DrawAndGoto, AllMethods
<1>4. CASE PowerReturn(menuShouldExit) \/ PowerReturn(KeysRead)
  BY <1>4 DEF PowerReturn, DrawAndGoto
<1>5. CASE ShotBegin \/ DimBegin(menuShouldExit) \/ DimBegin(KeysRead)
  BY <1>5, RestoreGivesBack DEF ShotBegin, DimBegin, Draw_FreeFramebufferCache, NoCache
<1>6. CASE ShotEnd \/ DimEnd(menuShouldExit) \/ DimEnd(KeysRead)
  BY <1>6, SetupKeeps DEF ShotEnd, DimEnd, ReclaimScreen
<1>7. CASE EnterLock("menu") \/ EnterSkip("menu") \/ EnterUnlock("menu", "show")
           \/ LeaveLock("leave", "leaving") \/ LeaveLock("powerleave", "powerleaving")
  BY <1>7 DEF EnterLock, EnterSkip, EnterUnlock, LeaveLock
<1>8. CASE EnterFreeze("menu")
  BY <1>8 DEF EnterFreeze
<1>9. CASE EnterAllocFails("menu")
  BY <1>9 DEF EnterAllocFails, SessionInv, FreezeIsOpen
<1>10. CASE EnterSetup("menu")
  BY <1>10, SetupKeeps DEF EnterSetup, SessionInv, FreezeIsOpen
<1>11. CASE LeaveKeepsScreen("leaving", "poll") \/ LeaveKeepsScreen("powerleaving", "browse")
  BY <1>11 DEF LeaveKeepsScreen, DataOK
<1>12. CASE LeaveRestores("leaving", "poll") \/ LeaveRestores("powerleaving", "browse")
  BY <1>12, RestoreGivesBack DEF LeaveRestores, Draw_FreeFramebufferCache, NoCache
<1>13. CASE EnterLock("errdisp") \/ EnterSkip("errdisp") \/ EnterFreeze("errdisp") \/
            EnterAllocFails("errdisp") \/ EnterSetup("errdisp")
  BY <1>13 DEF EnterLock, EnterSkip, EnterFreeze, EnterAllocFails, EnterSetup
<1>14. CASE EnterUnlock("errdisp", "errlock") \/ ErrDispThrow \/ ErrDispExits \/ ErrDispDisplay
  BY <1>14 DEF EnterUnlock, ErrDispThrow, ErrDispExits, ErrDispDisplay
<1>15. CASE AwaitServices("capture") \/ LoopOrExit("capture") \/ CaptureNap \/ CaptureRest
  BY <1>15 DEF AwaitServices, LoopOrExit, CaptureNap, CaptureRest
<1>16. CASE CaptureLock \/ CaptureAlloc
  BY <1>16 DEF CaptureLock, CaptureAlloc
<1>17. CASE CaptureConvert
  BY <1>17 DEF CaptureConvert, DataOK
<1>18. CASE AwaitServices("writer") \/ LoopOrExit("writer") \/ WriterNap \/ WriterLock
            \/ WriterNestedLock
  BY <1>18 DEF AwaitServices, LoopOrExit, WriterNap, WriterLock, WriterNestedLock
<1>19. CASE WriterOpens \/ WriterOpenFails \/ WriterWrites \/ WriterRealloc \/ WriterReset
  BY <1>19 DEF WriterOpens, WriterOpenFails, WriterWrites, WriterRealloc, WriterReset
<1>20. CASE MainPreTerm \/ MainRequestTermination \/ MainTerm \/ MainJoins \/ ServicesComeUp
  BY <1>20 DEF MainPreTerm, MainRequestTermination, MainTerm, MainJoins, ServicesComeUp
<1>21. CASE MainSleepRequested \/ MainAwake \/ MoveSlider \/ AppDraws
  BY <1>21 DEF MainSleepRequested, MainAwake, MoveSlider, AppDraws
<1>22. CASE EnterAllocTrap("menu") \/ EnterAllocTrap("errdisp") \/
            LeaveAborts("leaving") \/ LeaveAborts("powerleaving") \/ ShotAborts
  BY <1>22 DEF EnterAllocTrap, Halt, LeaveAborts, ShotAborts
<1>23. CASE ShotTraps \/ DimAborts(menuShouldExit) \/ DimAborts(KeysRead) \/
            DimTraps(menuShouldExit) \/ DimTraps(KeysRead)
  BY <1>23 DEF ShotTraps, ReclaimTraps, Halt, DimAborts, DimTraps
<1>24. CASE ErrDispReset(~KeysRead) \/ ErrDispReset(KeysRead) \/ CaptureAborts \/
            WriterAborts \/ WriterTraps
  BY <1>24 DEF ErrDispReset, Halt, CaptureAborts, WriterAborts, WriterTraps
<1>25. CASE UNCHANGED vars
  BY <1>25 DEF vars
<1> QED
  BY <1>1, <1>2, <1>3, <1>4, <1>5, <1>6, <1>7, <1>8, <1>9, <1>10, <1>11, <1>12, <1>13,
     <1>14, <1>15, <1>16, <1>17, <1>18, <1>19, <1>20, <1>21, <1>22, <1>23, <1>24, <1>25
  DEF Next, MenuSteps, MenuKeys, ErrDispSteps, ErrDispKeys, CaptureSteps, WriterSteps,
      MainSteps, MainNotified, World, menuEnter, menuLeave

-----------------------------------------------------------------------------
(* The theorems *)

\* The inductive invariant.
IInv == TypeOK /\ DrawLockExclusive /\ CaptureRoom /\ SessionInv /\ QuietInv

LEMMA InitEstablishes == Init => IInv
<1> SUFFICES ASSUME Init PROVE IInv
  OBVIOUS
<1>1. \A t \in Threads : pc[t] \in {"run", "serve", "services"}
  BY DEF Init, InitAfter
<1>2. /\ pc["menu"] = "services" /\ pc["errdisp"] = "serve" /\ pc["capture"] = "services"
      /\ pc["writer"] = "services" /\ pc["main"] = "run"
  BY DEF Init, InitAfter, Threads
<1>3. \A t \in Threads : pc[t] \in Labels(t) /\ DepthAt(t, pc[t]) = 0
  <2>1. pc["menu"] \in Labels("menu") /\ DepthAt("menu", pc["menu"]) = 0
    BY <1>2, MenuDepths DEF MenuUnlocked
  <2>2. pc["errdisp"] \in Labels("errdisp") /\ DepthAt("errdisp", pc["errdisp"]) = 0
    BY <1>2, ErrDispDepths DEF ErrDispUnlocked
  <2>3. pc["capture"] \in Labels("capture") /\ DepthAt("capture", pc["capture"]) = 0
    BY <1>2, CaptureDepths DEF CaptureUnlocked
  <2>4. pc["writer"] \in Labels("writer") /\ DepthAt("writer", pc["writer"]) = 0
    BY <1>2, WriterDepths DEF WriterUnlocked
  <2>5. pc["main"] \in Labels("main") /\ DepthAt("main", pc["main"]) = 0
    BY <1>2, MainDepths DEF MainLabels
  <2> QED
    BY <2>1, <2>2, <2>3, <2>4, <2>5 DEF Threads
<1>4. ControlOK
  BY <1>3 DEF Init, InitAfter, ControlOK
<1>5. LockOK /\ DrawLockExclusive
  BY <1>3, ThreadsAreNotNoThread DEF Init, InitAfter, LockOK, DrawLockExclusive, FreeLock
<1>6. DataOK
  <2>1. captures \in 0..MaxCaptures
    BY ScreenAssumption DEF Init, InitAfter
  <2>2. files \in Seq([holds : Pictures, id : Nat])
    BY DEF Init, InitAfter
  <2>3. cache \in CacheType
    BY CacheTyped DEF Init, InitAfter
  <2>4. vram \in Pictures /\ rosalinaState \subseteq {1, 2} /\ menuRefCount \in Int
        /\ menuRefCount =< 1
    BY DEF Init, InitAfter, Pictures
  <2>5. /\ display \in {"app", "rosalina"} /\ savedDisplay \in {"app", "rosalina"}
        /\ ready \in BOOLEAN /\ menuShouldExit \in BOOLEAN
        /\ preTerminationRequested \in BOOLEAN /\ isHidInitialized \in BOOLEAN
        /\ servicesUsable \in BOOLEAN /\ sliderMax \in BOOLEAN
        /\ halted \in {"no", "trap", "abort", "reset"}
    BY DEF Init, InitAfter
  <2> QED
    BY <2>1, <2>2, <2>3, <2>4, <2>5 DEF DataOK
<1>7. CaptureRoom
  BY <1>2 DEF CaptureRoom
<1>8. SessionInv
  BY <1>2 DEF Init, InitAfter, SessionInv, AppsFrozenIffOpen, GspFrozenParity, SessionCache,
              FreezeIsOpen, At
<1>9. QuietInv
  BY <1>2 DEF Init, InitAfter, QuietInv, Quiet, WriterIdle, ScreenGivenBack, OffScreen,
              ScreenFree, CacheIsNull, NoCache, At
<1> QED
  BY <1>4, <1>5, <1>6, <1>7, <1>8, <1>9 DEF IInv, TypeOK

LEMMA NextKeeps == IInv /\ [Next]_vars => IInv'
BY LockStep, DataStep, RoomStep, SessionStep, QuietStep DEF IInv, TypeOK

LEMMA Inductive == Spec => []IInv
<1>1. Init => IInv
  BY InitEstablishes
<1>2. IInv /\ [Next]_vars => IInv'
  BY NextKeeps
<1> QED
  BY <1>1, <1>2, PTL DEF Spec

\* Every thread stays at labels of its own code and every variable in its
\* range, for any sizes, memory, bounds and user.
THEOREM TypeCorrect == Spec => []TypeOK
<1>1. IInv => TypeOK
  BY DEF IInv
<1> QED
  BY <1>1, Inductive, PTL

\* Draw_Lock and Draw_Unlock of draw.c are balanced on every path of the five
\* threads, so the lock is exclusive.
THEOREM LockIsExclusive == Spec => []DrawLockExclusive
<1>1. IInv => DrawLockExclusive
  BY DEF IInv
<1> QED
  BY <1>1, Inductive, PTL

\* The exclusive or of svcKernelSetState never gets out of step with
\* menuRefCount: applications are frozen exactly while the count is 1.
THEOREM AppsFrozenCorrect == Spec => []AppsFrozenIffOpen
<1>1. IInv => AppsFrozenIffOpen
  BY DEF IInv, SessionInv
<1> QED
  BY <1>1, Inductive, PTL

\* The same for gsp, which the brightness screen toggles once more.
THEOREM GspFrozenCorrect == Spec => []GspFrozenParity
<1>1. IInv => GspFrozenParity
  BY DEF IInv, SessionInv
<1> QED
  BY <1>1, Inductive, PTL

\* No interleaving of the capture threads with the menu leaves an open session
\* without a cache large enough to restore the screen from.
THEOREM OpenSessionKeepsCache == Spec => []OpenSessionHasCache
<1>1. IInv => OpenSessionHasCache
  <2> SUFFICES ASSUME IInv, menuRefCount = 1, lock.tag = NoThread
               PROVE  CanRestore
    BY DEF OpenSessionHasCache
  <2>1. \A t \in Threads : DepthAt(t, pc[t]) = 0
    BY ThreadsAreNotNoThread DEF IInv, DrawLockExclusive
  <2>2. ~CacheAway
    BY <2>1, MenuDepths, ErrDispDepths, CaptureDepths, WriterDepths
    DEF CacheAway, At, MenuLocked, ErrDispLocked, CaptureLocked, WriterNested
  <2> QED
    BY <2>2 DEF IInv, SessionInv, SessionCache, CanRestore
<1> QED
  BY <1>1, Inductive, PTL

\* With nobody in a critical section and neither a capture nor an error so far,
\* the conjuncts of QuietInv that are about it say what is on the screen.
LEMMA UndisturbedScreen ==
  ASSUME IInv, Undisturbed
  PROVE  /\ menuRefCount = 1 => ScreenTaken
         /\ menuRefCount # 1 => ScreenFree
<1>1. \A t \in Threads : DepthAt(t, pc[t]) = 0
  BY ThreadsAreNotNoThread DEF IInv, DrawLockExclusive, Undisturbed
<1>2. ~At("capture", "alloc") /\ ~At("capture", "convert") /\ ~ScreenGivenBack
  BY <1>1, MenuDepths, CaptureDepths DEF At, MenuLocked, CaptureLocked, ScreenGivenBack
<1> QED
  BY <1>2 DEF IInv, QuietInv, Quiet, Undisturbed

\* Until a capture is made or an error shown, the cache and the saved registers
\* of an open session are the application's, whatever the entries of the menu
\* gave back and took again and however their allocations failed: menuLeave
\* gives back what menuEnter found.
THEOREM SavedScreenKept == Spec => []SavedScreenIntact
<1>1. IInv => SavedScreenIntact
  BY UndisturbedScreen DEF SavedScreenIntact, ScreenTaken
<1> QED
  BY <1>1, Inductive, PTL

\* Until then a closed session leaves the application its display and no cache
\* for the next menuEnter to trap on.
THEOREM ClosedSessionIsClean == Spec => []ClosedSessionLeavesNothing
<1>1. IInv => ClosedSessionLeavesNothing
  BY UndisturbedScreen DEF ClosedSessionLeavesNothing, ScreenFree
<1> QED
  BY <1>1, Inductive, PTL

\* The state the threads share around the screens only changes in the hands of
\* the thread that has the draw lock.
THEOREM SharedStateLocked == Spec => SharedChangesUnderLock
<1>1. IInv /\ [Next]_vars => [Changes]_vars
  BY ChangesStep DEF IInv, TypeOK
<1>2. Spec => [][Changes]_vars
  BY <1>1, Inductive, PTL DEF Spec
<1> QED
  BY <1>2 DEF Changes, SharedChangesUnderLock

-----------------------------------------------------------------------------
(* The captures alone: module ScreenSuite *)

\* There is always memory for a pair of images, and files can be opened.
EnoughMemory == (\A free \in FreePages : free >= ShotPages) /\ CardFails = FALSE

\* The menu is closed and no error is shown.
MenuAway ==
  /\ pc["menu"] \in {"services", "poll", "nap", "done"}
  /\ pc["errdisp"] \in {"serve", "done"}

\* The cache holds the latest capture.
ShotThere == cache.pages = ShotPages /\ cache.holds = "shot" /\ cache.id = captures

WriterBusy == {"lock", "create", "open", "write", "realloc", "reset"}

\* readyToWrite is raised from the capture until the writer resets it, and
\* means a capture in the cache but while one of the threads has the lock to
\* replace or to write it.
Alone ==
  /\ MenuAway
  /\ pc["writer"] \in WriterBusy => ready
  /\ ready /\ pc["capture"] \notin CaptureLocked /\ pc["writer"] \notin {"realloc", "reset"} =>
       ShotThere
  /\ pc["capture"] = "convert" => cache.pages = ShotPages
  /\ pc["writer"] = "realloc" => cache = NoCache
  /\ halted \notin {"trap", "abort"}

LEMMA GoneTo ==
  ASSUME ControlOK, NEW t \in Threads, NEW l, Goto(t, l)
  PROVE  pc'[t] = l /\ \A u \in Threads : u # t => pc'[u] = pc[u]
BY DEF ControlOK, Goto

LEMMA FiveThreads ==
  /\ "menu" \in Threads /\ "errdisp" \in Threads /\ "capture" \in Threads
  /\ "writer" \in Threads /\ "main" \in Threads
BY DEF Threads

\* Who has the lock, or gets it, is alone inside.
LEMMA CaptureApart ==
  ASSUME DrawLockExclusive
  PROVE  /\ ~(pc["capture"] \in CaptureLocked /\ pc["writer"] \in WriterLocked \cup WriterNested)
         /\ CanAcquire(lock, "capture") => pc["writer"] \notin WriterLocked \cup WriterNested
         /\ CanAcquire(lock, "writer") => pc["capture"] \notin CaptureLocked
<1>1. pc["capture"] \in CaptureLocked => lock.tag = "capture"
  BY CaptureDepths DEF DrawLockExclusive
<1>2. pc["writer"] \in WriterLocked \cup WriterNested => lock.tag = "writer"
  BY WriterDepths DEF DrawLockExclusive
<1> QED
  BY <1>1, <1>2 DEF CanAcquire, NoThread

LEMMA PagesToHave ==
  ASSUME EnoughMemory
  PROVE  /\ ShotPages \in Nat /\ ShotPages > 0
         /\ \A c \in Draw_AllocateFramebufferCacheForScreenshot(ShotPages) : c.pages = ShotPages
         /\ NoCache \notin Draw_AllocateFramebufferCache(FbPages)
<1>1. /\ FbPages \in Nat /\ FbPages > 0 /\ ShotPages \in Nat /\ ShotPages >= FbPages
      /\ \A free \in FreePages : free \in Nat /\ free >= ShotPages /\ free >= FbPages
  BY ScreenAssumption DEF EnoughMemory
<1>2. ASSUME NEW remaining \in FreePages, NEW free \in FreePages
      PROVE  AllocationOf(IF remaining < ShotPages THEN remaining ELSE ShotPages, free).pages
               = ShotPages
  <2>1. (IF remaining < ShotPages THEN remaining ELSE ShotPages) = ShotPages
    BY <1>1
  <2>2. ShotPages =< free
    BY <1>1
  <2> QED
    BY <2>1, <2>2 DEF AllocationOf, Mapped
<1>3. ASSUME NEW free \in FreePages
      PROVE  AllocationOf(FbPages, free) # NoCache
  <2>1. FbPages =< free
    BY <1>1
  <2>2. AllocationOf(FbPages, free).pages = FbPages
    BY <2>1 DEF AllocationOf, Mapped
  <2>3. NoCache.pages = 0
    BY DEF NoCache
  <2> QED
    BY <1>1, <2>2, <2>3
<1> QED
  BY <1>1, <1>2, <1>3 DEF Draw_AllocateFramebufferCacheForScreenshot, Draw_AllocateFramebufferCache

\* The menu thread only looks for its keys, and the error display thread ends.
LEMMA MenuStaysAway ==
  ASSUME ControlOK, MenuAway, MenuSteps \/ MenuKeys \/ ErrDispSteps \/ ErrDispKeys,
         pc'["menu"] # "enter", pc'["errdisp"] # "enter"
  PROVE  /\ MenuAway'
         /\ pc'["capture"] = pc["capture"] /\ pc'["writer"] = pc["writer"]
         /\ UNCHANGED <<cache, shotVars, preTerminationRequested, halted>>
<1>1. MenuServices \/ MenuLoop \/ MenuNoCombo \/ MenuCombo \/ ErrDispExits \/ ErrDispThrow
  <2>1. CASE MenuSteps
    BY <2>1 DEF MenuAway, At, MenuSteps, menuEnter, EnterLock, EnterSkip, EnterFreeze,
       EnterAllocTrap, EnterAllocFails, EnterSetup, EnterUnlock, MenuShow, MenuRedraw, menuLeave,
       LeaveLock, LeaveKeepsScreen, LeaveRestores, LeaveAborts, ShotBegin, ShotAborts, ShotEnd,
       ShotTraps, DimBegin, DimAborts, DimEnd, DimTraps, PowerReturn
  <2>2. CASE MenuKeys
    BY <2>2 DEF MenuAway, At, MenuKeys, MenuBack, MenuChoose, DimCancel, DimBegin, DimAborts,
       DimEnd, DimTraps, PowerConfirm, PowerReturn
  <2>3. CASE ErrDispSteps \/ ErrDispKeys
    BY <2>3 DEF MenuAway, At, ErrDispSteps, ErrDispKeys, menuEnter, EnterLock, EnterSkip,
       EnterFreeze, EnterAllocTrap, EnterAllocFails, EnterSetup, EnterUnlock, ErrDispDisplay,
       ErrDispReset
  <2> QED
    BY <2>1, <2>2, <2>3
<1>2. CASE MenuServices
  BY <1>2, GoneTo, FiveThreads DEF MenuServices, MenuAway
<1>3. CASE MenuLoop
  BY <1>3, GoneTo, FiveThreads DEF MenuLoop, MenuAway, flagVars
<1>4. CASE MenuNoCombo
  BY <1>4, GoneTo, FiveThreads DEF MenuNoCombo, MenuAway, flagVars
<1>5. ~MenuCombo
  BY GoneTo, FiveThreads DEF MenuCombo
<1>6. CASE ErrDispExits
  BY <1>6, GoneTo, FiveThreads DEF ErrDispExits, MenuAway, flagVars
<1>7. ~ErrDispThrow
  BY GoneTo, FiveThreads DEF ErrDispThrow
<1> QED
  BY <1>1, <1>2, <1>3, <1>4, <1>5, <1>6, <1>7

LEMMA AloneStays ==
  ASSUME Alone, MenuAway', pc'["capture"] = pc["capture"], pc'["writer"] = pc["writer"],
         UNCHANGED <<cache, shotVars, halted>>
  PROVE  Alone'
BY DEF Alone, ShotThere, shotVars

LEMMA CaptureKeepsAlone ==
  ASSUME EnoughMemory, ControlOK, DrawLockExclusive, Alone, CaptureSteps
  PROVE  Alone'
<1> USE DEF CaptureLocked, WriterLocked, WriterNested, At
<1>1. ASSUME NEW l, Goto("capture", l)
      PROVE  /\ pc'["capture"] = l /\ pc'["writer"] = pc["writer"]
             /\ MenuAway'
  BY <1>1, GoneTo, FiveThreads DEF Alone, MenuAway
<1>2. CASE AwaitServices("capture") \/ LoopOrExit("capture") \/ CaptureNap \/ CaptureRest
  BY <1>1, <1>2 DEF AwaitServices, LoopOrExit, CaptureNap, CaptureRest, Alone, ShotThere, shotVars
<1>3. CASE CaptureLock
  <2>1. pc["writer"] \notin WriterLocked \cup WriterNested
    BY <1>3, CaptureApart DEF CaptureLock, AcquireLock
  <2> QED
    BY <1>1, <1>3, <2>1 DEF CaptureLock, Alone, shotVars
<1>4. CASE CaptureAlloc
  <2>1. pc["writer"] \notin WriterLocked \cup WriterNested /\ cache'.pages = ShotPages
    BY <1>4, CaptureApart, PagesToHave DEF CaptureAlloc
  <2> QED
    BY <1>1, <1>4, <2>1 DEF CaptureAlloc, Alone, shotVars
<1>5. CASE CaptureConvert
  <2>1. pc["writer"] \notin WriterLocked \cup WriterNested /\ cache.pages = ShotPages
    BY <1>5, CaptureApart DEF CaptureConvert, Alone
  <2>2. /\ captures' = captures + 1 /\ ready' = TRUE /\ halted' = halted
        /\ cache' = [cache EXCEPT !.holds = "shot", !.id = captures']
        /\ Goto("capture", "rest")
    BY <1>5 DEF CaptureConvert
  <2>3. ShotThere'
    BY <2>1, <2>2 DEF ShotThere
  <2> QED
    BY <1>1, <2>1, <2>2, <2>3 DEF Alone
<1>6. ~CaptureAborts
  BY PagesToHave DEF CaptureAborts, Alone
<1> QED
  BY <1>2, <1>3, <1>4, <1>5, <1>6 DEF CaptureSteps

LEMMA WriterKeepsAlone ==
  ASSUME EnoughMemory, ControlOK, DrawLockExclusive, Alone, WriterSteps
  PROVE  Alone'
<1> USE DEF CaptureLocked, WriterLocked, WriterNested, At, WriterBusy
<1>1. ASSUME NEW l, Goto("writer", l)
      PROVE  /\ pc'["writer"] = l /\ pc'["capture"] = pc["capture"]
             /\ MenuAway'
  BY <1>1, GoneTo, FiveThreads DEF Alone, MenuAway
<1>2. CASE AwaitServices("writer") \/ LoopOrExit("writer") \/ WriterNap \/ WriterOpens
  BY <1>1, <1>2 DEF AwaitServices, LoopOrExit, WriterNap, WriterOpens, Alone, ShotThere, shotVars
<1>3. CASE WriterLock \/ WriterNestedLock
  BY <1>1, <1>3 DEF WriterLock, WriterNestedLock, Alone, ShotThere, shotVars
<1>4. ~WriterOpenFails
  BY DEF WriterOpenFails, EnoughMemory
<1>5. CASE WriterWrites
  <2>1. pc["capture"] \notin CaptureLocked
    BY <1>5, CaptureApart DEF WriterWrites
  <2> QED
    BY <1>1, <1>5, <2>1 DEF WriterWrites, Alone, Draw_FreeFramebufferCache
<1>6. ~WriterAborts
  <2> SUFFICES ASSUME WriterAborts
               PROVE  FALSE
    OBVIOUS
  <2>1. pc["capture"] \notin CaptureLocked
    BY CaptureApart DEF WriterAborts
  <2>2. cache.pages = ShotPages
    BY <2>1 DEF WriterAborts, Alone, ShotThere
  <2> QED
    BY <2>2, PagesToHave DEF WriterAborts, CacheIsNull
<1>7. CASE WriterRealloc
  <2>1. pc["capture"] \notin CaptureLocked
    BY <1>7, CaptureApart DEF WriterRealloc
  <2> QED
    BY <1>1, <1>7, <2>1 DEF WriterRealloc, Alone, shotVars
<1>8. ~WriterTraps
  BY PagesToHave DEF WriterTraps, Alone, CacheIsNull, NoCache
<1>9. CASE WriterReset
  <2>1. pc["capture"] \notin CaptureLocked
    BY <1>9, CaptureApart DEF WriterReset
  <2> QED
    BY <1>1, <1>9, <2>1 DEF WriterReset, Alone
<1> QED
  BY <1>2, <1>3, <1>4, <1>5, <1>6, <1>7, <1>8, <1>9 DEF WriterSteps

LEMMA OthersKeepAlone ==
  ASSUME ControlOK, Alone, MainSteps \/ MainNotified \/ World
  PROVE  Alone'
<1>1. ASSUME NEW l, Goto("main", l)
      PROVE  /\ pc'["writer"] = pc["writer"] /\ pc'["capture"] = pc["capture"]
             /\ MenuAway'
  BY <1>1, GoneTo, FiveThreads DEF Alone, MenuAway
<1>2. CASE MainSteps
  BY <1>1, <1>2, AloneStays DEF MainSteps, MainRequestTermination, MainTerm, MainJoins
<1>3. CASE MainNotified
  <2>1. CASE MainPreTerm
    BY <1>1, <2>1, AloneStays DEF MainPreTerm
  <2>2. CASE MainSleepRequested \/ MainAwake
    BY <2>2, AloneStays DEF MainSleepRequested, MainAwake, Alone, MenuAway
  <2> QED
    BY <1>3, <2>1, <2>2 DEF MainNotified
<1>4. CASE World
  BY <1>4, AloneStays DEF World, ServicesComeUp, MoveSlider, AppDraws, Alone, MenuAway
<1> QED
  BY <1>2, <1>3, <1>4

SuiteInv == part = "captures" => IInv /\ Alone

LEMMA SuiteInitially == SuiteInit => SuiteInv
<1> SUFFICES ASSUME SuiteInit, part = "captures"
             PROVE  IInv /\ Alone
  BY DEF SuiteInv
<1>1. Init
  BY DEF SuiteInit, Init
<1>2. /\ pc["menu"] = "services" /\ pc["errdisp"] = "serve" /\ pc["capture"] = "services"
      /\ pc["writer"] = "services" /\ ready = FALSE /\ halted = "no"
  BY <1>1, FiveThreads DEF Init, InitAfter
<1> QED
  BY <1>1, <1>2, InitEstablishes DEF Alone, MenuAway, WriterBusy

LEMMA SuiteStep ==
  ASSUME EnoughMemory
  PROVE  SuiteInv /\ [SuiteNext]_suiteVars => SuiteInv'
<1> SUFFICES ASSUME SuiteInv, [SuiteNext]_suiteVars, part' = "captures"
             PROVE  IInv' /\ Alone'
  BY DEF SuiteInv
<1>1. part = "captures" /\ [Next]_vars
  BY DEF SuiteNext, suiteVars
<1>2. IInv /\ Alone /\ ControlOK /\ DrawLockExclusive
  BY <1>1 DEF SuiteInv, IInv, TypeOK
<1>3. IInv'
  BY <1>1, <1>2, NextKeeps
<1> SUFFICES Alone'
  BY <1>3
<1>4. CASE SuiteNext
  <2>1. Next /\ pc'["menu"] # "enter" /\ pc'["errdisp"] # "enter"
    BY <1>1, <1>4 DEF SuiteNext
  <2>2. CASE MenuSteps \/ MenuKeys \/ ErrDispSteps \/ ErrDispKeys
    <3>1. MenuAway
      BY <1>2 DEF Alone
    <3>2. /\ MenuAway'
          /\ pc'["capture"] = pc["capture"] /\ pc'["writer"] = pc["writer"]
          /\ UNCHANGED <<cache, shotVars, preTerminationRequested, halted>>
      BY <1>2, <2>1, <2>2, <3>1, MenuStaysAway
    <3> QED
      BY <1>2, <3>2, AloneStays
  <2>3. CASE CaptureSteps
    BY <1>2, <2>3, CaptureKeepsAlone, EnoughMemory
  <2>4. CASE WriterSteps
    BY <1>2, <2>4, WriterKeepsAlone, EnoughMemory
  <2>5. CASE MainSteps \/ MainNotified \/ World
    BY <1>2, <2>5, OthersKeepAlone
  <2> QED
    BY <2>1, <2>2, <2>3, <2>4, <2>5 DEF Next
<1>5. CASE UNCHANGED suiteVars
  BY <1>2, <1>5, AloneStays DEF suiteVars, vars, Alone, MenuAway
<1> QED
  BY <1>1, <1>4, <1>5

\* While nobody opens the menu and nothing reports an error, the program does not
\* die of a capture: the cache is there, and large enough, whenever one of the
\* threads of datasetCapture.c goes through its address, and gone whenever one
\* asks for another.
THEOREM CapturesSurvive ==
  ASSUME EnoughMemory
  PROVE  SuiteSpec => []NeverDies
<1>1. SuiteInv => NeverDies
  BY DEF SuiteInv, Alone, NeverDies
<1>2. SuiteInv /\ [SuiteNext]_suiteVars => SuiteInv'
  BY SuiteStep, EnoughMemory
<1> QED
  BY SuiteInitially, <1>1, <1>2, PTL DEF SuiteSpec

-----------------------------------------------------------------------------
(* The captures implement the mailbox, but for its fairness *)

NumberOf(r) == IF r.holds = "shot" THEN r.id ELSE 0

NumbersOf(s) == [i \in DOMAIN s |-> NumberOf(s[i])]

LEMMA NumbersOfAppend ==
  ASSUME NEW S, NEW s \in Seq(S), NEW r \in S
  PROVE  NumbersOf(Append(s, r)) = Append(NumbersOf(s), NumberOf(r))
<1>1. /\ Len(s) \in Nat /\ DOMAIN s = 1..Len(s)
      /\ DOMAIN Append(s, r) = 1..(Len(s) + 1)
      /\ Append(s, r)[Len(s) + 1] = r
      /\ \A i \in 1..Len(s) : Append(s, r)[i] = s[i]
  BY AppendProperties
<1>2. NumbersOf(s) \in Seq({NumberOf(x) : x \in S}) /\ Len(NumbersOf(s)) = Len(s)
  BY <1>1 DEF NumbersOf
<1> DEFINE T == {NumberOf(x) : x \in S}
           left == NumbersOf(Append(s, r))
           right == Append(NumbersOf(s), NumberOf(r))
<1>3. /\ right \in Seq(T)
      /\ Len(right) = Len(s) + 1
      /\ \A i \in 1..Len(s) : right[i] = NumbersOf(s)[i]
      /\ right[Len(s) + 1] = NumberOf(r)
  <2>1. NumberOf(r) \in T
    OBVIOUS
  <2> QED
    BY <1>2, <2>1, AppendProperties
<1>4. left \in Seq(T) /\ Len(left) = Len(s) + 1
  <2>1. Append(s, r) \in Seq(S)
    BY AppendProperties
  <2> QED
    BY <1>1, <2>1 DEF NumbersOf
<1>5. \A i \in 1..(Len(s) + 1) : left[i] = right[i]
  BY <1>1, <1>3 DEF NumbersOf
<1> QED
  BY <1>3, <1>4, <1>5, SeqEqual

LEMMA MailboxInitially == SuiteInit => Mailbox!BoxInit
<1> SUFFICES ASSUME SuiteInit
             PROVE  Mailbox!BoxInit
  OBVIOUS
<1>1. part = "captures" =>
        captures = 0 /\ ready = FALSE /\ files = <<>> /\ preTerminationRequested = FALSE
  BY DEF SuiteInit, InitAfter
<1>2. [i \in DOMAIN <<>> |-> IF <<>>[i].holds = "shot" THEN <<>>[i].id ELSE 0] = <<>>
  OBVIOUS
<1> QED
  BY <1>1, <1>2 DEF Mailbox!BoxInit

\* The variables of the mailbox, of which a step changes at most those named.
Pending == ready /\ pc["writer"] \notin {"realloc", "reset"}

LEMMA MailboxStutters ==
  ASSUME part = "captures", part' = part, Pending' <=> Pending,
         UNCHANGED <<captures, files>>,
         preTerminationRequested \in BOOLEAN,
         preTerminationRequested' = preTerminationRequested \/ preTerminationRequested' = TRUE
  PROVE  [Mailbox!BoxNext]_Mailbox!boxVars
<1>1. (part = "captures" /\ ready /\ pc["writer"] \notin {"realloc", "reset"})
        = (part = "captures" /\ ready /\ pc["writer"] \notin {"realloc", "reset"})'
  BY DEF Pending
<1>2. CASE preTerminationRequested' = preTerminationRequested
  BY <1>1, <1>2 DEF Mailbox!boxVars
<1>3. CASE ~preTerminationRequested /\ preTerminationRequested' = TRUE
  BY <1>1, <1>3 DEF Mailbox!boxVars, Mailbox!BoxNext, Mailbox!AskToEnd
<1> QED
  BY <1>2, <1>3

LEMMA CaptureTakes ==
  ASSUME IInv, Alone, part = "captures", part' = part, CaptureConvert
  PROVE  Mailbox!Take
<1>1. /\ captures < MaxCaptures /\ captures' = captures + 1 /\ ready' = TRUE
      /\ UNCHANGED <<files, preTerminationRequested>>
  BY DEF IInv, CaptureRoom, CaptureConvert, At, flagVars
<1>2. pc'["writer"] \notin {"realloc", "reset"}
  BY GoneTo, FiveThreads, CaptureApart
  DEF IInv, TypeOK, CaptureConvert, At, CaptureLocked, WriterLocked, WriterNested
<1> QED
  BY <1>1, <1>2 DEF Mailbox!Take

LEMMA WriterSaves ==
  ASSUME IInv, Alone, part = "captures", part' = part, WriterWrites
  PROVE  Mailbox!Save
<1>1. /\ files' = Append(files, Recorded) /\ pc["writer"] = "write" /\ ready
      /\ UNCHANGED <<captures, preTerminationRequested>>
  BY DEF WriterWrites, At, Alone, WriterBusy, flagVars
<1>2. pc'["writer"] = "realloc"
  BY GoneTo, FiveThreads DEF IInv, TypeOK, WriterWrites
<1>3. NumberOf(Recorded) = captures
  <2>1. pc["capture"] \notin CaptureLocked
    BY <1>1, CaptureApart DEF IInv, WriterNested
  <2>2. ShotThere
    BY <1>1, <2>1 DEF Alone
  <2>3. cache.pages >= ShotPages
    BY <2>2, ScreenAssumption DEF ShotThere
  <2> QED
    BY <2>2, <2>3 DEF ShotThere, Recorded, NumberOf
<1>4. NumbersOf(files') = Append(NumbersOf(files), captures)
  <2>1. files \in Seq([holds : Pictures, id : Nat]) /\ Recorded \in [holds : Pictures, id : Nat]
    BY RecordedTyped DEF IInv, TypeOK, DataOK
  <2> QED
    BY <1>1, <1>3, <2>1, NumbersOfAppend
<1>5. [i \in DOMAIN files |-> IF files[i].holds = "shot" THEN files[i].id ELSE 0]'
        = Append([i \in DOMAIN files |-> IF files[i].holds = "shot" THEN files[i].id ELSE 0],
                 captures)
  BY <1>4 DEF NumbersOf, NumberOf
<1> QED
  BY <1>1, <1>2, <1>5 DEF Mailbox!Save

LEMMA MailboxStep ==
  ASSUME EnoughMemory, SuiteInv
  PROVE  [SuiteNext]_suiteVars => [Mailbox!BoxNext]_Mailbox!boxVars
<1> SUFFICES ASSUME [SuiteNext]_suiteVars
             PROVE  [Mailbox!BoxNext]_Mailbox!boxVars
  OBVIOUS
<1>1. part' = part
  BY DEF SuiteNext, suiteVars
<1>2. CASE part # "captures"
  BY <1>1, <1>2 DEF Mailbox!boxVars
<1>3. CASE part = "captures" /\ UNCHANGED suiteVars
  BY <1>3 DEF Mailbox!boxVars, suiteVars, vars, shotVars, flagVars
<1>4. CASE part = "captures" /\ SuiteNext
  <2>1. /\ Next /\ pc'["menu"] # "enter" /\ pc'["errdisp"] # "enter"
        /\ part = "captures" /\ part' = part
    BY <1>1, <1>4 DEF SuiteNext
  <2>2. IInv /\ Alone /\ ControlOK /\ preTerminationRequested \in BOOLEAN /\ ready \in BOOLEAN
    BY <2>1 DEF SuiteInv, IInv, TypeOK, DataOK
  <2> SUFFICES CaptureConvert \/ WriterWrites \/
               /\ Pending' <=> Pending
               /\ UNCHANGED <<captures, files>>
               /\ \/ preTerminationRequested' = preTerminationRequested
                  \/ preTerminationRequested' = TRUE
    BY <2>1, <2>2, CaptureTakes, WriterSaves, MailboxStutters
    DEF Mailbox!BoxNext
  <2>3. CASE MenuSteps \/ MenuKeys \/ ErrDispSteps \/ ErrDispKeys
    <3>1. /\ pc'["writer"] = pc["writer"]
          /\ UNCHANGED <<shotVars, preTerminationRequested>>
      BY <2>1, <2>2, <2>3, MenuStaysAway DEF Alone
    <3> QED
      BY <3>1 DEF Pending, shotVars
  <2>4. CASE CaptureSteps
    <3>1. ASSUME NEW l, Goto("capture", l)
          PROVE  pc'["writer"] = pc["writer"]
      BY <2>2, <3>1, GoneTo, FiveThreads
    <3>2. CaptureConvert \/
          /\ UNCHANGED <<shotVars, flagVars>>
          /\ pc'["writer"] = pc["writer"]
      BY <2>4, <3>1 DEF CaptureSteps, AwaitServices, LoopOrExit, CaptureNap, CaptureLock,
         CaptureAlloc, CaptureAborts, CaptureRest, Halt
    <3> QED
      BY <3>2 DEF Pending, shotVars, flagVars
  <2>5. CASE WriterSteps
    <3>1. ASSUME NEW l, Goto("writer", l)
          PROVE  pc'["writer"] = l
      BY <2>2, <3>1, GoneTo, FiveThreads
    <3>2. CASE AwaitServices("writer") \/ LoopOrExit("writer") \/ WriterNap \/ WriterLock
               \/ WriterNestedLock \/ WriterOpens \/ WriterRealloc
      BY <3>1, <3>2 DEF AwaitServices, LoopOrExit, WriterNap, WriterLock, WriterNestedLock,
         WriterOpens, WriterRealloc, Pending, shotVars, flagVars, At
    <3>3. CASE WriterOpenFails \/ WriterAborts \/ WriterTraps
      <4>1. ~WriterOpenFails
        BY EnoughMemory DEF EnoughMemory, WriterOpenFails
      <4>2. UNCHANGED <<pc, shotVars, flagVars>>
        BY <3>3, <4>1 DEF WriterAborts, WriterTraps, Halt
      <4> QED
        BY <4>2 DEF Pending, shotVars, flagVars
    <3>4. CASE WriterReset
      BY <3>1, <3>4 DEF WriterReset, Pending, At, flagVars
    <3> QED
      BY <2>5, <3>2, <3>3, <3>4 DEF WriterSteps
  <2>6. CASE MainSteps \/ MainNotified
    <3>1. ASSUME NEW l, Goto("main", l)
          PROVE  pc'["writer"] = pc["writer"]
      BY <2>2, <3>1, GoneTo, FiveThreads
    <3>2. /\ UNCHANGED shotVars /\ pc'["writer"] = pc["writer"]
          /\ \/ preTerminationRequested' = preTerminationRequested
             \/ preTerminationRequested' = TRUE
      BY <2>6, <3>1 DEF MainSteps, MainNotified, MainRequestTermination, MainTerm, MainJoins,
         MainSleepRequested, MainAwake, MainPreTerm, flagVars
    <3> QED
      BY <3>2 DEF Pending, shotVars
  <2>7. CASE World
    BY <2>7 DEF World, ServicesComeUp, MoveSlider, AppDraws, Pending, shotVars, flagVars
  <2> QED
    BY <2>1, <2>3, <2>4, <2>5, <2>6, <2>7 DEF Next
<1> QED
  BY <1>2, <1>3, <1>4

\* The two threads of datasetCapture.c are a mailbox with room for one picture:
\* what reaches the card is the latest capture, whole and once, and in order.
THEOREM CapturesAreAMailbox ==
  ASSUME EnoughMemory
  PROVE  SuiteSpec => Mailbox!BoxSpec
<1>1. SuiteInv /\ [SuiteNext]_suiteVars => SuiteInv'
  BY SuiteStep, EnoughMemory
<1>2. SuiteInv /\ [SuiteNext]_suiteVars => [Mailbox!BoxNext]_Mailbox!boxVars
  BY MailboxStep, EnoughMemory
<1> QED
  BY SuiteInitially, MailboxInitially, <1>1, <1>2, PTL DEF SuiteSpec, Mailbox!BoxSpec
=============================================================================
