----------------------------- MODULE MenuThread -----------------------------
(***************************************************************************)
(* menu.c and the handlers of menus.c that touch the screen: the thread    *)
(* that polls the key combo, opens the menu, runs the chosen entry and     *)
(* closes the menu.  menuEnter and menuLeave are parameterised by the      *)
(* calling thread, since errdisp.c calls menuEnter too.                    *)
(*                                                                         *)
(* Between two steps the thread sleeps, waits for the draw lock, or waits  *)
(* for keys.  A handler that only draws takes and leaves the lock in the   *)
(* step that draws.                                                        *)
(***************************************************************************)
EXTENDS ScreenState

\* Labels at which a thread inside these functions holds the draw lock once.
MenuLocked == {"entering", "allocating", "entered", "leaving", "powerleaving",
               "shot", "dim"}

MenuUnlocked == {"services", "poll", "nap", "enter", "show", "browse", "screenshot",
                 "brightness", "power", "powerleave", "leave", "done"}

MenuLabels == MenuLocked \cup MenuUnlocked

-----------------------------------------------------------------------------
(* menuEnter *)

EnterLock(t) ==
  /\ At(t, "enter")
  /\ AcquireLock(t)
  /\ Goto(t, "entering")
  /\ UNCHANGED <<cache, screenVars, menuVars, shotVars, flagVars, envVars, halted>>

\* The menu is closing, or some thread already has it open.
EnterSkip(t) ==
  /\ At(t, "entering")
  /\ menuShouldExit \/ menuRefCount # 0
  /\ Goto(t, "entered")
  /\ UNCHANGED <<lockVars, cache, screenVars, menuVars, shotVars, flagVars, envVars, halted>>

\* Fault: menuEnter does not look at the reference count.
EnterFreezeUncounted(t) ==
  /\ At(t, "entering")
  /\ ~menuShouldExit
  /\ menuRefCount' = menuRefCount + 1
  /\ rosalinaState' = Toggled({1, 2})
  /\ Goto(t, "allocating")
  /\ UNCHANGED <<lockVars, cache, screenVars, shotVars, flagVars, envVars, halted>>

\* Freezes the applications and gsp, then sleeps with the lock held.
EnterFreeze(t) ==
  /\ At(t, "entering")
  /\ ~menuShouldExit /\ menuRefCount = 0
  /\ menuRefCount' = menuRefCount + 1
  /\ rosalinaState' = Toggled({1, 2})
  /\ Goto(t, "allocating")
  /\ UNCHANGED <<lockVars, cache, screenVars, shotVars, flagVars, envVars, halted>>

EnterAllocTrap(t) ==
  /\ At(t, "allocating")
  /\ ~CacheIsNull
  /\ Halt("trap")

\* Fault: the failed allocation leaves the applications and gsp frozen.
EnterAllocFailsFrozen(t) ==
  /\ At(t, "allocating")
  /\ CacheIsNull
  /\ NoCache \in Draw_AllocateFramebufferCache(FbPages)
  /\ menuRefCount' = 0
  /\ Goto(t, "entered")
  /\ UNCHANGED <<lockVars, cache, screenVars, rosalinaState, shotVars, flagVars, envVars, halted>>

EnterAllocFails(t) ==
  /\ At(t, "allocating")
  /\ CacheIsNull
  /\ NoCache \in Draw_AllocateFramebufferCache(FbPages)
  /\ menuRefCount' = 0
  /\ rosalinaState' = Toggled({1, 2})
  /\ Goto(t, "entered")
  /\ UNCHANGED <<lockVars, cache, screenVars, shotVars, flagVars, envVars, halted>>

EnterSetup(t) ==
  /\ At(t, "allocating")
  /\ CacheIsNull
  /\ \E c \in Draw_AllocateFramebufferCache(FbPages) \ {NoCache} :
       Draw_SetupFramebuffer(c)
  /\ Goto(t, "entered")
  /\ UNCHANGED <<lockVars, menuVars, shotVars, flagVars, envVars, halted>>

EnterUnlock(t, next) ==
  /\ At(t, "entered")
  /\ ReleaseLock
  /\ Goto(t, next)
  /\ UNCHANGED <<cache, screenVars, menuVars, shotVars, flagVars, envVars, halted>>

menuEnter(t, next) ==
  \/ EnterLock(t) \/ EnterSkip(t) \/ EnterFreeze(t)
  \/ EnterAllocTrap(t) \/ EnterAllocFails(t) \/ EnterSetup(t)
  \/ EnterUnlock(t, next)

-----------------------------------------------------------------------------
(* menuLeave, called by the menu thread from two places: at label from it   *)
(* waits for the lock, at label held it has it.                             *)

LeaveLock(from, held) ==
  /\ At("menu", from)
  /\ AcquireLock("menu")
  /\ Goto("menu", held)
  /\ UNCHANGED <<cache, screenVars, menuVars, shotVars, flagVars, envVars, halted>>

\* Another thread still has the menu open, or it was not open at all.
LeaveKeepsScreen(held, next) ==
  /\ At("menu", held)
  /\ menuRefCount # 1
  /\ menuRefCount' = menuRefCount - 1
  /\ ReleaseLock
  /\ Goto("menu", next)
  /\ UNCHANGED <<cache, screenVars, rosalinaState, shotVars, flagVars, envVars, halted>>

\* Fault: menuLeave does not free the cache.
LeaveRestoresKeepsCache(held, next) ==
  /\ At("menu", held)
  /\ menuRefCount = 1
  /\ CanRestore
  /\ menuRefCount' = 0
  /\ Draw_RestoreFramebuffer
  /\ rosalinaState' = Toggled({1, 2})
  /\ ReleaseLock
  /\ Goto("menu", next)
  /\ UNCHANGED <<cache, shotVars, flagVars, envVars, halted>>

LeaveRestores(held, next) ==
  /\ At("menu", held)
  /\ menuRefCount = 1
  /\ CanRestore
  /\ menuRefCount' = 0
  /\ Draw_RestoreFramebuffer
  /\ cache' = Draw_FreeFramebufferCache
  /\ rosalinaState' = Toggled({1, 2})
  /\ ReleaseLock
  /\ Goto("menu", next)
  /\ UNCHANGED <<shotVars, flagVars, envVars, halted>>

LeaveAborts(held) ==
  /\ At("menu", held)
  /\ menuRefCount = 1
  /\ ~CanRestore
  /\ Halt("abort")

menuLeave(from, held, next) ==
  \/ LeaveLock(from, held)
  \/ LeaveKeepsScreen(held, next) \/ LeaveRestores(held, next) \/ LeaveAborts(held)

-----------------------------------------------------------------------------
(* menuThreadMain and menuShow *)

KeysRead == isHidInitialized /\ ~menuShouldExit

MenuServices ==
  /\ At("menu", "services")
  /\ servicesUsable
  /\ isHidInitialized' = TRUE
  /\ Goto("menu", "poll")
  /\ UNCHANGED <<lockVars, cache, screenVars, menuVars, shotVars, menuShouldExit,
                 preTerminationRequested, envVars, halted>>

\* The head of the loop, then 50 ms of sleep.
MenuLoop ==
  /\ At("menu", "poll")
  /\ Goto("menu", IF preTerminationRequested THEN "done" ELSE "nap")
  /\ UNCHANGED <<lockVars, cache, screenVars, menuVars, shotVars, flagVars, envVars, halted>>

MenuNoCombo ==
  /\ At("menu", "nap")
  /\ menuShouldExit \/ LockIsFree("menu")
  /\ Goto("menu", "poll")
  /\ UNCHANGED <<lockVars, cache, screenVars, menuVars, shotVars, flagVars, envVars, halted>>

MenuCombo ==
  /\ At("menu", "nap")
  /\ MenuOpens /\ menuRefCount > -MaxExtraLeaves
  /\ LockIsFree("menu") /\ KeysRead
  /\ Goto("menu", "enter")
  /\ UNCHANGED <<lockVars, cache, screenVars, menuVars, shotVars, flagVars, envVars, halted>>

\* A step of the menu thread that only draws.
DrawAndGoto(next) ==
  /\ LockIsFree("menu")
  /\ vram' = "rosalina"
  /\ Goto("menu", next)
  /\ UNCHANGED <<lockVars, cache, display, savedDisplay, menuVars, shotVars, flagVars,
                 envVars, halted>>

MenuShow == At("menu", "show") /\ DrawAndGoto("browse")

\* Fault: the loop of menuShow does not look at menuShouldExit.
MenuRedrawForever ==
  /\ At("menu", "browse")
  /\ DrawAndGoto("browse")

\* The end of a turn of menuShow's loop: after a key that chooses nothing, a
\* timeout, or the return of an entry.
MenuRedraw ==
  /\ At("menu", "browse")
  /\ DrawAndGoto(IF menuShouldExit THEN "leave" ELSE "browse")

MenuBack ==
  /\ At("menu", "browse")
  /\ KeysRead
  /\ DrawAndGoto("leave")

\* An entry that touches nothing but the screen is a redraw.
MenuChoose ==
  /\ At("menu", "browse")
  /\ KeysRead
  /\ \E method \in MenuMethods : DrawAndGoto(method)

-----------------------------------------------------------------------------
(* RosalinaMenu_TakeScreenshot.  Module TakeScreenshot has what happens     *)
(* between ShotBegin and ShotEnd, and shows that it leaves no cache.        *)

ShotBegin ==
  /\ At("menu", "screenshot")
  /\ AcquireLock("menu")
  /\ CanRestore
  /\ Draw_RestoreFramebuffer
  /\ cache' = Draw_FreeFramebufferCache
  /\ Goto("menu", "shot")
  /\ UNCHANGED <<menuVars, shotVars, flagVars, envVars, halted>>

ShotAborts ==
  /\ At("menu", "screenshot")
  /\ LockIsFree("menu")
  /\ ~CanRestore
  /\ Halt("abort")

\* The tail common to the handlers that gave the framebuffer back for a while.
ReclaimScreen ==
  /\ \E c \in Draw_AllocateFramebufferCache(FbPages) \ {NoCache} :
       Draw_SetupFramebuffer(c)
  /\ ReleaseLock
  /\ Goto("menu", "browse")

ReclaimTraps ==
  /\ NoCache \in Draw_AllocateFramebufferCache(FbPages)
  /\ Halt("trap")

ShotEnd ==
  /\ At("menu", "shot")
  /\ ReclaimScreen
  /\ UNCHANGED <<menuVars, shotVars, flagVars, envVars, halted>>

ShotTraps == At("menu", "shot") /\ ReclaimTraps

-----------------------------------------------------------------------------
(* RosalinaMenu_ChangeScreenBrightness: from "brightness", where A starts   *)
(* and B returns, to "dim", where gsp runs and the draw lock stays held.    *)

DimCancel ==
  /\ At("menu", "brightness")
  /\ KeysRead
  /\ DrawAndGoto("browse")

\* go: the key A, or menuShouldExit, which ends the first loop as well.
DimBegin(go) ==
  /\ At("menu", "brightness")
  /\ go
  /\ AcquireLock("menu")
  /\ CanRestore
  /\ Draw_RestoreFramebuffer
  /\ cache' = Draw_FreeFramebufferCache
  /\ rosalinaState' = Toggled({2})
  /\ Goto("menu", "dim")
  /\ UNCHANGED <<menuRefCount, shotVars, flagVars, envVars, halted>>

DimAborts(go) ==
  /\ At("menu", "brightness")
  /\ go
  /\ LockIsFree("menu")
  /\ ~CanRestore
  /\ Halt("abort")

\* Fault: gsp is not blocked again.
DimEndLeavesGsp(go) ==
  /\ At("menu", "dim")
  /\ go
  /\ ReclaimScreen
  /\ UNCHANGED <<menuVars, shotVars, flagVars, envVars, halted>>

DimEnd(go) ==
  /\ At("menu", "dim")
  /\ go
  /\ rosalinaState' = Toggled({2})
  /\ ReclaimScreen
  /\ UNCHANGED <<menuRefCount, shotVars, flagVars, envVars, halted>>

DimTraps(go) ==
  /\ At("menu", "dim")
  /\ go
  /\ ReclaimTraps

-----------------------------------------------------------------------------
(* RosalinaMenu_Reboot and RosalinaMenu_PowerOff: menuLeave is called here, *)
(* and again by menuThreadMain when menuShow returns.                       *)

PowerConfirm ==
  /\ At("menu", "power")
  /\ KeysRead /\ LockIsFree("menu")
  /\ menuRefCount > -MaxExtraLeaves
  /\ Goto("menu", "powerleave")
  /\ UNCHANGED <<lockVars, cache, screenVars, menuVars, shotVars, flagVars, envVars, halted>>

PowerReturn(go) ==
  /\ At("menu", "power")
  /\ go
  /\ DrawAndGoto("browse")

-----------------------------------------------------------------------------
\* What the thread does by itself.
MenuSteps ==
  \/ MenuServices \/ MenuLoop \/ MenuNoCombo
  \/ menuEnter("menu", "show") \/ MenuShow \/ MenuRedraw
  \/ menuLeave("leave", "leaving", "poll")
  \/ menuLeave("powerleave", "powerleaving", "browse")
  \/ ShotBegin \/ ShotAborts \/ ShotEnd \/ ShotTraps
  \/ DimBegin(menuShouldExit) \/ DimAborts(menuShouldExit)
  \/ DimEnd(menuShouldExit) \/ DimTraps(menuShouldExit)
  \/ PowerReturn(menuShouldExit)

\* What it does because the user pressed a key.
MenuKeys ==
  \/ MenuCombo \/ MenuBack \/ MenuChoose
  \/ DimCancel \/ DimBegin(KeysRead) \/ DimAborts(KeysRead)
  \/ DimEnd(KeysRead) \/ DimTraps(KeysRead)
  \/ PowerConfirm \/ PowerReturn(KeysRead)
=============================================================================
