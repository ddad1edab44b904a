--------------------------- MODULE DatasetCapture ---------------------------
(***************************************************************************)
(* datasetCapture.c: the capture thread (CacheThread), which copies the    *)
(* two images of the top screen to a new framebuffer cache when the 3D     *)
(* slider is at its maximum, and the writer thread (WriteThread), which    *)
(* writes that cache to a file when it sees readyToWrite.                  *)
(***************************************************************************)
EXTENDS ScreenState

CaptureLocked == {"alloc", "convert"}
CaptureUnlocked == {"services", "poll", "nap", "lock", "rest", "done"}
CaptureLabels == CaptureLocked \cup CaptureUnlocked

WriterLocked == {"create", "reset"}
WriterNested == {"open", "write", "realloc"}
WriterUnlocked == {"services", "poll", "nap", "lock", "done"}
WriterLabels == WriterNested \cup WriterLocked \cup WriterUnlocked

\* The loops of both threads start alike.
AwaitServices(t) ==
  /\ At(t, "services")
  /\ servicesUsable
  /\ Goto(t, "poll")
  /\ UNCHANGED <<lockVars, cache, screenVars, menuVars, shotVars, flagVars, envVars, halted>>

LoopOrExit(t) ==
  /\ At(t, "poll")
  /\ Goto(t, IF preTerminationRequested THEN "done" ELSE "nap")
  /\ UNCHANGED <<lockVars, cache, screenVars, menuVars, shotVars, flagVars, envVars, halted>>

-----------------------------------------------------------------------------
(* ScreenToCacheThreadMain *)

\* After the bound on captures the thread stays in its loop.
CaptureNap ==
  /\ At("capture", "nap")
  /\ Goto("capture", IF sliderMax /\ captures < MaxCaptures THEN "lock" ELSE "poll")
  /\ UNCHANGED <<lockVars, cache, screenVars, menuVars, shotVars, flagVars, envVars, halted>>

\* Fault: the cache is freed before the lock is taken.
CaptureFreesUnlocked ==
  /\ At("capture", "lock")
  /\ cache' = Draw_FreeFramebufferCache
  /\ Goto("capture", "alloc")
  /\ UNCHANGED <<lockVars, screenVars, menuVars, shotVars, flagVars, envVars, halted>>

CaptureLock ==
  /\ At("capture", "lock")
  /\ AcquireLock("capture")
  /\ cache' = Draw_FreeFramebufferCache
  /\ Goto("capture", "alloc")
  /\ UNCHANGED <<screenVars, menuVars, shotVars, flagVars, envVars, halted>>

\* The result of the allocation is not looked at.
CaptureAlloc ==
  /\ At("capture", "alloc")
  /\ cache' \in Draw_AllocateFramebufferCacheForScreenshot(ShotPages)
  /\ Goto("capture", "convert")
  /\ UNCHANGED <<lockVars, screenVars, menuVars, shotVars, flagVars, envVars, halted>>

\* ConvertFrameBufferLines writes to the last page asked for.
CaptureConvert ==
  /\ At("capture", "convert")
  /\ cache.pages >= ShotPages
  /\ captures' = captures + 1
  /\ cache' = [cache EXCEPT !.holds = "shot", !.id = captures']
  /\ ready' = TRUE
  /\ ReleaseLock
  /\ Goto("capture", "rest")
  /\ UNCHANGED <<screenVars, menuVars, files, flagVars, envVars, halted>>

CaptureAborts ==
  /\ At("capture", "convert")
  /\ cache.pages < ShotPages
  /\ Halt("abort")

\* 3.5 s of sleep.
CaptureRest ==
  /\ At("capture", "rest")
  /\ Goto("capture", "poll")
  /\ UNCHANGED <<lockVars, cache, screenVars, menuVars, shotVars, flagVars, envVars, halted>>

CaptureSteps ==
  \/ AwaitServices("capture") \/ LoopOrExit("capture")
  \/ CaptureNap \/ CaptureLock \/ CaptureAlloc
  \/ CaptureConvert \/ CaptureAborts \/ CaptureRest

-----------------------------------------------------------------------------
(* CacheToFileThreadMain, createImageFiles and CacheToFile *)

\* readyToWrite is read without the lock.
WriterNap ==
  /\ At("writer", "nap")
  /\ Goto("writer", IF ready THEN "lock" ELSE "poll")
  /\ UNCHANGED <<lockVars, cache, screenVars, menuVars, shotVars, flagVars, envVars, halted>>

WriterLock ==
  /\ At("writer", "lock")
  /\ AcquireLock("writer")
  /\ Goto("writer", "create")
  /\ UNCHANGED <<cache, screenVars, menuVars, shotVars, flagVars, envVars, halted>>

\* createImageFiles takes the lock a second time.
WriterNestedLock ==
  /\ At("writer", "create")
  /\ AcquireLock("writer")
  /\ Goto("writer", "open")
  /\ UNCHANGED <<cache, screenVars, menuVars, shotVars, flagVars, envVars, halted>>

WriterOpens ==
  /\ At("writer", "open")
  /\ Goto("writer", "write")
  /\ UNCHANGED <<lockVars, cache, screenVars, menuVars, shotVars, flagVars, envVars, halted>>

\* goto end: the cache is not freed.
WriterOpenFails ==
  /\ At("writer", "open")
  /\ CardFails
  /\ Goto("writer", "realloc")
  /\ UNCHANGED <<lockVars, cache, screenVars, menuVars, shotVars, flagVars, envVars, halted>>

\* CacheToFile works through ScreenshotCache, which has the fixed address of
\* every cache since the first capture.  It writes the header there, then
\* passes the pages of a whole capture to IFile_Write, which fails, unnoticed,
\* when they are not all mapped.
Recorded == IF cache.pages >= ShotPages
            THEN [holds |-> cache.holds, id |-> cache.id]
            ELSE [holds |-> "nothing", id |-> 0]

\* Fault: CacheToFile does not free the cache.
WriterKeepsCache ==
  /\ At("writer", "write")
  /\ ~CacheIsNull
  /\ files' = Append(files, Recorded)
  /\ Goto("writer", "realloc")
  /\ UNCHANGED <<lockVars, cache, screenVars, menuVars, ready, captures, flagVars, envVars, halted>>

WriterWrites ==
  /\ At("writer", "write")
  /\ ~CacheIsNull
  /\ files' = Append(files, Recorded)
  /\ cache' = Draw_FreeFramebufferCache
  /\ Goto("writer", "realloc")
  /\ UNCHANGED <<lockVars, screenVars, menuVars, ready, captures, flagVars, envVars, halted>>

WriterAborts ==
  /\ At("writer", "write")
  /\ CacheIsNull
  /\ Halt("abort")

\* Fault: createImageFiles returns without its Draw_Unlock.
WriterReallocKeepsLock ==
  /\ At("writer", "realloc")
  /\ CacheIsNull
  /\ cache' \in Draw_AllocateFramebufferCache(FbPages) \ {NoCache}
  /\ Goto("writer", "reset")
  /\ UNCHANGED <<lockVars, screenVars, menuVars, shotVars, flagVars, envVars, halted>>

\* Fault: the lock is not nested, so that createImageFiles leaves it open to
\* the capture thread before readyToWrite is reset.
WriterReallocOpensLock ==
  /\ At("writer", "realloc")
  /\ CacheIsNull
  /\ cache' \in Draw_AllocateFramebufferCache(FbPages) \ {NoCache}
  /\ lock' = FreeLock
  /\ Goto("writer", "reset")
  /\ UNCHANGED <<screenVars, menuVars, shotVars, flagVars, envVars, halted>>

\* Fault: createImageFiles does not allocate the cache again.
WriterReallocOmitted ==
  /\ At("writer", "realloc")
  /\ ReleaseLock
  /\ Goto("writer", "reset")
  /\ UNCHANGED <<cache, screenVars, menuVars, shotVars, flagVars, envVars, halted>>

\* The end label: a cache of FB_BOTTOM_SIZE is left allocated.
WriterRealloc ==
  /\ At("writer", "realloc")
  /\ CacheIsNull
  /\ cache' \in Draw_AllocateFramebufferCache(FbPages) \ {NoCache}
  /\ ReleaseLock
  /\ Goto("writer", "reset")
  /\ UNCHANGED <<screenVars, menuVars, shotVars, flagVars, envVars, halted>>

WriterTraps ==
  /\ At("writer", "realloc")
  /\ ~CacheIsNull \/ NoCache \in Draw_AllocateFramebufferCache(FbPages)
  /\ Halt("trap")

WriterReset ==
  /\ At("writer", "reset")
  /\ ready' = FALSE
  /\ ReleaseLock
  /\ Goto("writer", "poll")
  /\ UNCHANGED <<cache, screenVars, menuVars, captures, files, flagVars, envVars, halted>>

WriterSteps ==
  \/ AwaitServices("writer") \/ LoopOrExit("writer")
  \/ WriterNap \/ WriterLock \/ WriterNestedLock
  \/ WriterOpens \/ WriterOpenFails \/ WriterWrites \/ WriterAborts
  \/ WriterRealloc \/ WriterTraps \/ WriterReset
=============================================================================
