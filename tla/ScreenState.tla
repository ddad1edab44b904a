---------------------------- MODULE ScreenState ----------------------------
(***************************************************************************)
(* The state the threads of the Rosalina process share around the screens, *)
(* and the functions of draw.c on it: the draw lock, the framebuffer cache *)
(* (one block of memory at a fixed address), the bottom screen and the     *)
(* registers that say whose picture is displayed, the menu's reference     *)
(* count, the kernel's rosalinaState bits, the screenshot mailbox of       *)
(* datasetCapture.c and the process-wide flags of main.c.                  *)
(*                                                                         *)
(* Sizes are in pages.  A picture is abstracted to what it shows; a        *)
(* capture of the top screen also has the number of the capture.           *)
(***************************************************************************)
EXTENDS Integers, Sequences, RecursiveLock

CONSTANTS
  FbPages,        \* pages of FB_BOTTOM_SIZE
  ShotPages,      \* pages of the pair of images datasetCapture.c asks for
  FreePages,      \* what MEMREGION_SYSTEM may have free when asked
  MaxCaptures,    \* bound on the captures of a behaviour
  MaxExtraLeaves, \* bound on how far below zero menuRefCount may go
  MenuMethods,    \* the menu entries the user chooses from
  SliderMoves,    \* whether the user moves the 3D slider
  MenuOpens,      \* whether the user presses the menu combo
  SystemSleeps,   \* whether sleep and shell notifications arrive
  ErrorsThrown,   \* whether a process reports a fatal error to err:f
  CardFails       \* whether IFile_Open may fail

AllMethods == {"screenshot", "brightness", "power"}

ASSUME ScreenAssumption ==
  /\ FbPages \in Nat \ {0}
  /\ ShotPages \in Nat
  /\ ShotPages >= FbPages
  /\ FreePages \subseteq Nat \ {0}
  /\ MaxCaptures \in Nat
  /\ MaxExtraLeaves \in Nat
  /\ MenuMethods \subseteq AllMethods
  /\ {SliderMoves, MenuOpens, SystemSleeps, ErrorsThrown, CardFails} \subseteq BOOLEAN

VARIABLES
  pc,              \* where each thread is
  lock,            \* draw.c: the recursive lock behind Draw_Lock
  cache,           \* framebufferCache, framebufferCacheSize and its contents
  vram,            \* what the bottom framebuffer in VRAM shows
  display,         \* whose framebuffer the GPU registers point at
  savedDisplay,    \* gpuSavedFramebufferAddr1 and its companions
  menuRefCount,    \* menu.c
  rosalinaState,   \* the kernel's bits: 1 applications frozen, 2 gsp frozen
  ready,           \* datasetCapture.c: readyToWrite
  captures,        \* number of captures made
  files,           \* the pictures written to the card, oldest first
  menuShouldExit, preTerminationRequested, isHidInitialized,  \* main.c, menu.c
  servicesUsable,  \* ac:u, hid:USER, gsp::Gpu and cdc:CHK are registered
  sliderMax,       \* osGet3DSliderState() == 1
  halted           \* how the program stopped, if it did

lockVars   == <<lock>>
screenVars == <<vram, display, savedDisplay>>
menuVars   == <<menuRefCount, rosalinaState>>
shotVars   == <<ready, captures, files>>
flagVars   == <<menuShouldExit, preTerminationRequested, isHidInitialized>>
envVars    == <<servicesUsable, sliderMax>>

vars == <<pc, lockVars, cache, screenVars, menuVars, shotVars, flagVars,
          envVars, halted>>

Threads == {"menu", "errdisp", "capture", "writer", "main"}

Pictures == {"nothing", "fresh", "app", "rosalina", "shot"}

CacheType == [pages : Nat, holds : Pictures, id : Nat]

NoCache == [pages |-> 0, holds |-> "nothing", id |-> 0]

Mapped(n) == [pages |-> n, holds |-> "fresh", id |-> 0]

(***************************************************************************)
(* Control.                                                                *)
(***************************************************************************)
At(t, l) == pc[t] = l

Goto(t, l) == pc' = [pc EXCEPT ![t] = l]

AcquireLock(t) == CanAcquire(lock, t) /\ lock' = Acquired(lock, t)

ReleaseLock == lock' = Released(lock)

\* A critical section that neither sleeps nor calls another process: taken
\* and left in one step.
LockIsFree(t) == CanAcquire(lock, t)

\* The program dies in the step: __builtin_trap, an access to unmapped memory,
\* or the reset of the console.
Halt(how) ==
  /\ halted' = how
  /\ UNCHANGED <<pc, lockVars, cache, screenVars, menuVars, shotVars,
                 flagVars, envVars>>

(***************************************************************************)
(* draw.c on the framebuffer cache.  An allocation succeeds when the       *)
(* region has enough free pages at that moment; the screenshot variant     *)
(* reads the amount first and asks for no more than that.                  *)
(***************************************************************************)
CacheIsNull == cache.pages = 0

AllocationOf(n, free) == IF n <= free THEN Mapped(n) ELSE NoCache

Draw_AllocateFramebufferCache(n) == {AllocationOf(n, free) : free \in FreePages}

Draw_AllocateFramebufferCacheForScreenshot(n) ==
  {AllocationOf(IF remaining < n THEN remaining ELSE n, free) :
     remaining \in FreePages, free \in FreePages}

Draw_FreeFramebufferCache == NoCache

\* Draw_SetupFramebuffer copies the bottom framebuffer to the new cache c,
\* clears it, and points the GPU at it after saving where it pointed.
Draw_SetupFramebuffer(c) ==
  /\ cache' = [c EXCEPT !.holds = vram]
  /\ vram' = "rosalina"
  /\ savedDisplay' = display
  /\ display' = "rosalina"

\* Draw_RestoreFramebuffer reads FB_BOTTOM_SIZE bytes of the cache.
CanRestore == cache.pages >= FbPages

\* Fault: the GPU registers are not written back.
Draw_RestoreFramebufferInMemoryOnly ==
  /\ vram' = cache.holds
  /\ UNCHANGED <<display, savedDisplay>>

Draw_RestoreFramebuffer ==
  /\ vram' = cache.holds
  /\ display' = savedDisplay
  /\ UNCHANGED savedDisplay

\* svcKernelSetState(0x10000, mask) of KernelSetState.c: exclusive or.
Toggled(mask) == (rosalinaState \ mask) \cup (mask \ rosalinaState)

\* The start, with a number of captures made before the behaviour.
InitAfter(taken) ==
  /\ pc = [t \in Threads |->
             CASE t = "main" -> "run"
               [] t = "errdisp" -> "serve"
               [] OTHER -> "services"]
  /\ lock = FreeLock
  /\ cache = NoCache
  /\ vram = "app" /\ display = "app" /\ savedDisplay = "app"
  /\ menuRefCount = 0 /\ rosalinaState = {}
  /\ ready = FALSE /\ captures = taken /\ files = <<>>
  /\ menuShouldExit = FALSE /\ preTerminationRequested = FALSE
  /\ isHidInitialized = FALSE
  /\ servicesUsable = FALSE /\ sliderMax = FALSE
  /\ halted = "no"

Init == InitAfter(0)
=============================================================================
