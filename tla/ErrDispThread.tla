--------------------------- MODULE ErrDispThread ---------------------------
(***************************************************************************)
(* errdisp.c: the thread that serves err:f.  A fatal error opens the menu  *)
(* screen, draws with the lock taken, waits for a key with the lock still  *)
(* taken, and resets the console: it never leaves the screen.              *)
(***************************************************************************)
EXTENDS MenuThread

ErrDispLocked == {"entering", "allocating", "entered", "display"}
ErrDispUnlocked == {"serve", "enter", "errlock", "done"}
ErrDispLabels == ErrDispLocked \cup ErrDispUnlocked

\* ERRF_HandleCommands, Throw: an error that is not to be shown changes nothing.
ErrDispThrow ==
  /\ At("errdisp", "serve")
  /\ ErrorsThrown
  /\ ~menuShouldExit
  /\ Goto("errdisp", "enter")
  /\ UNCHANGED <<lockVars, cache, screenVars, menuVars, shotVars, flagVars, envVars, halted>>

\* preTerminationEvent is signalled.
ErrDispExits ==
  /\ At("errdisp", "serve")
  /\ preTerminationRequested
  /\ Goto("errdisp", "done")
  /\ UNCHANGED <<lockVars, cache, screenVars, menuVars, shotVars, flagVars, envVars, halted>>

ErrDispDisplay ==
  /\ At("errdisp", "errlock")
  /\ AcquireLock("errdisp")
  /\ vram' = "rosalina"
  /\ Goto("errdisp", "display")
  /\ UNCHANGED <<cache, display, savedDisplay, menuVars, shotVars, flagVars, envVars, halted>>

\* waitInput also returns when menuShouldExit is set, or hid is not initialised.
ErrDispReset(go) ==
  /\ At("errdisp", "display")
  /\ go
  /\ Halt("reset")

ErrDispSteps ==
  \/ ErrDispExits
  \/ menuEnter("errdisp", "errlock")
  \/ ErrDispDisplay
  \/ ErrDispReset(~KeysRead)

ErrDispKeys == ErrDispThrow \/ ErrDispReset(KeysRead)
=============================================================================
