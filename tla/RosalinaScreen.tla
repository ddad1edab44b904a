--------------------------- MODULE RosalinaScreen ---------------------------
(***************************************************************************)
(* The threads of the Rosalina process around the screens, composed: the   *)
(* menu thread, the error display thread, the two threads of               *)
(* datasetCapture.c, the main thread (main.c), which receives the          *)
(* notifications and joins the others, and the world outside.              *)
(***************************************************************************)
EXTENDS DatasetCapture, ErrDispThread

MainLabels == {"run", "preterm", "join", "done"}

-----------------------------------------------------------------------------
(* The main thread *)

\* handleSleepNotification (sleep requested), handleShellNotification (closed).
MainSleepRequested ==
  /\ At("main", "run")
  /\ SystemSleeps
  /\ menuShouldExit' = TRUE
  /\ UNCHANGED <<pc, lockVars, cache, screenVars, menuVars, shotVars,
                 preTerminationRequested, isHidInitialized, envVars, halted>>

\* Sleep denied, fully awake, shell opened.
MainAwake ==
  /\ At("main", "run")
  /\ SystemSleeps
  /\ menuShouldExit' = FALSE
  /\ UNCHANGED <<pc, lockVars, cache, screenVars, menuVars, shotVars,
                 preTerminationRequested, isHidInitialized, envVars, halted>>

\* handlePreTermNotification, up to the draw lock.
MainPreTerm ==
  /\ At("main", "run")
  /\ ~preTerminationRequested
  /\ Goto("main", "preterm")
  /\ UNCHANGED <<lockVars, cache, screenVars, menuVars, shotVars, flagVars, envVars, halted>>

\* The rest of it.  hidExit does not reset isHidInitialized.
MainRequestTermination ==
  /\ At("main", "preterm")
  /\ LockIsFree("main")
  /\ menuShouldExit' = TRUE
  /\ preTerminationRequested' = TRUE
  /\ Goto("main", "run")
  /\ UNCHANGED <<lockVars, cache, screenVars, menuVars, shotVars, isHidInitialized,
                 envVars, halted>>

\* Notification 0x100 ends ServiceManager_Run.  PM sends it after 0x2000.
MainTerm ==
  /\ At("main", "run")
  /\ preTerminationRequested
  /\ Goto("main", "join")
  /\ UNCHANGED <<lockVars, cache, screenVars, menuVars, shotVars, flagVars, envVars, halted>>

MainJoins ==
  /\ At("main", "join")
  /\ \A t \in Threads \ {"main"} : At(t, "done")
  /\ Goto("main", "done")
  /\ UNCHANGED <<lockVars, cache, screenVars, menuVars, shotVars, flagVars, envVars, halted>>

MainSteps == MainRequestTermination \/ MainTerm \/ MainJoins

MainNotified == MainSleepRequested \/ MainAwake \/ MainPreTerm

-----------------------------------------------------------------------------
(* The world outside *)

ServicesComeUp ==
  /\ ~servicesUsable
  /\ servicesUsable' = TRUE
  /\ UNCHANGED <<pc, lockVars, cache, screenVars, menuVars, shotVars, flagVars,
                 sliderMax, halted>>

MoveSlider ==
  /\ SliderMoves
  /\ sliderMax' = ~sliderMax
  /\ UNCHANGED <<pc, lockVars, cache, screenVars, menuVars, shotVars, flagVars,
                 servicesUsable, halted>>

\* The application, unless frozen, draws its own picture again.
AppDraws ==
  /\ 1 \notin rosalinaState
  /\ vram' = "app"
  /\ UNCHANGED <<pc, lockVars, cache, display, savedDisplay, menuVars, shotVars,
                 flagVars, envVars, halted>>

World == ServicesComeUp \/ MoveSlider \/ AppDraws

-----------------------------------------------------------------------------
Next ==
  /\ halted = "no"
  /\ \/ MenuSteps \/ MenuKeys
     \/ ErrDispSteps \/ ErrDispKeys
     \/ CaptureSteps \/ WriterSteps
     \/ MainSteps \/ MainNotified
     \/ World

Spec == Init /\ [][Next]_vars

(***************************************************************************)
(* The kernel schedules every thread that is ready; the threads around the *)
(* screens are never frozen by rosalinaState.  A thread's wait for the     *)
(* draw lock ends although others take it again and again, since these     *)
(* sleep between two acquisitions (strong fairness of WriterLock).         *)
(* Nothing is assumed of the user, the notifications or the slider.        *)
(***************************************************************************)
Live(step) == halted = "no" /\ step

Fairness ==
  /\ WF_vars(Live(ServicesComeUp))
  /\ WF_vars(Live(MenuSteps))
  /\ WF_vars(Live(ErrDispSteps))
  /\ WF_vars(Live(CaptureSteps))
  /\ WF_vars(Live(WriterSteps))
  /\ SF_vars(Live(WriterLock))
  /\ WF_vars(Live(MainSteps))

FairSpec == Spec /\ Fairness

-----------------------------------------------------------------------------
(* Type invariant *)

Labels(t) ==
  CASE t = "menu" -> MenuLabels
    [] t = "errdisp" -> ErrDispLabels
    [] t = "capture" -> CaptureLabels
    [] t = "writer" -> WriterLabels
    [] t = "main" -> MainLabels

\* Every thread is at a label of its own code, and every variable keeps its
\* range; the menu's reference count never exceeds 1.
ControlOK ==
  /\ pc \in [Threads -> UNION {Labels(t) : t \in Threads}]
  /\ \A t \in Threads : pc[t] \in Labels(t)

LockOK == lock \in [tag : Threads \cup {NoThread}, counter : Nat]

DataOK ==
  /\ cache \in CacheType
  /\ vram \in Pictures
  /\ display \in {"app", "rosalina"} /\ savedDisplay \in {"app", "rosalina"}
  /\ menuRefCount \in Int /\ menuRefCount =< 1
  /\ rosalinaState \subseteq {1, 2}
  /\ ready \in BOOLEAN
  /\ captures \in 0..MaxCaptures
  /\ files \in Seq([holds : Pictures, id : Nat])
  /\ menuShouldExit \in BOOLEAN /\ preTerminationRequested \in BOOLEAN
  /\ isHidInitialized \in BOOLEAN
  /\ servicesUsable \in BOOLEAN /\ sliderMax \in BOOLEAN
  /\ halted \in {"no", "trap", "abort", "reset"}

TypeOK == ControlOK /\ LockOK /\ DataOK

-----------------------------------------------------------------------------
(* The draw lock *)

\* How many times thread t has the draw lock when it is at label l.
DepthAt(t, l) ==
  CASE t = "menu" -> IF l \in MenuLocked THEN 1 ELSE 0
    [] t = "errdisp" -> IF l \in ErrDispLocked THEN 1 ELSE 0
    [] t = "capture" -> IF l \in CaptureLocked THEN 1 ELSE 0
    [] t = "writer" -> IF l \in WriterNested THEN 2 ELSE IF l \in WriterLocked THEN 1 ELSE 0
    [] t = "main" -> 0

\* Draw_Lock is exclusive and balanced on every path, early ends and nested
\* calls included: the lock is tagged with the one thread that is inside, as
\* deep as its calls are nested, and is free when nobody is.
DrawLockExclusive ==
  \A t \in Threads :
    /\ DepthAt(t, pc[t]) = IF lock.tag = t THEN lock.counter ELSE 0
    /\ lock.tag = t => lock.counter > 0

\* The cache, the display registers, the menu's reference count, the frozen
\* threads and the mailbox are only changed by a thread that has the lock
\* before or after the step.
SharedChangesUnderLock ==
  [][\/ UNCHANGED <<cache, display, savedDisplay, menuVars, shotVars>>
     \/ \E t \in Threads : /\ pc'[t] # pc[t]
                           /\ lock.tag = t \/ lock'.tag = t]_vars

-----------------------------------------------------------------------------
(* The menu's session *)

\* Applications are frozen exactly while menuRefCount is 1: the exclusive or
\* of svcKernelSetState is applied an even number of times on every path back
\* to another count, although the count itself may go below zero.
AppsFrozenIffOpen == (1 \in rosalinaState) <=> (menuRefCount = 1)

\* gsp is frozen in a session, except at the brightness screen.  Outside a
\* session that screen does the opposite.
GspFrozenParity ==
  (2 \in rosalinaState) <=> ((menuRefCount = 1) # At("menu", "dim"))

\* Whenever a session is open and nobody is in a critical section, the cache
\* is there to be restored by menuLeave or by an entry of the menu, whatever
\* the capture threads did to it meanwhile.
OpenSessionHasCache ==
  menuRefCount = 1 /\ lock.tag = NoThread => CanRestore

\* Until a capture is made or an error shown, the cache of an open session is
\* the application's screen and the registers saved are the application's: what
\* menuLeave restores is what menuEnter found.
Undisturbed == captures = 0 /\ At("errdisp", "serve") /\ lock.tag = NoThread

SavedScreenIntact ==
  Undisturbed /\ menuRefCount = 1 =>
    /\ cache.holds = "app" /\ savedDisplay = "app" /\ display = "rosalina"

\* Until then, the display is given back whenever no session is open and
\* nobody is in a critical section, and no leftover cache awaits the trap of
\* the next menuEnter, however little memory there was.
ClosedSessionLeavesNothing ==
  Undisturbed /\ menuRefCount # 1 => display = "app" /\ CacheIsNull

-----------------------------------------------------------------------------
(* Termination *)

\* If termination is requested, and no awake notification resets
\* menuShouldExit afterwards, every thread ends and main has joined them all,
\* unless an error screen resets the console or the program dies.
TerminationCompletes ==
  <>[](preTerminationRequested /\ menuShouldExit)
    => <>(At("main", "done") \/ halted # "no")

-----------------------------------------------------------------------------
(* What the repository says and the code does not do *)

\* datasetCapture.c:250: the writer "writes cache to a file, deallocates
\* cache, and resets readyToWrite".
WriterDeallocatesCache == [][ready /\ ~ready' => cache'.pages = 0]_vars
=============================================================================
