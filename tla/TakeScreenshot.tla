--------------------------- MODULE TakeScreenshot ---------------------------
(***************************************************************************)
(* The critical section of RosalinaMenu_TakeScreenshot (menus.c), which    *)
(* module MenuThread passes through between ShotBegin and ShotEnd: up to   *)
(* three files, each written by RosalinaMenu_WriteScreenshot through a     *)
(* framebuffer cache of its own, in chunks when MEMREGION_SYSTEM has less  *)
(* room than the picture needs.  Sizes are the bytes of the code.          *)
(***************************************************************************)
EXTENDS Naturals, FiniteSets

CONSTANTS
  FreePages,   \* what MEMREGION_SYSTEM may have free when asked, in pages
  TopModes,    \* the modes of the top screen, in "800px", "2d", "3d"
  CardFails    \* whether the calls to the card and the allocation may fail

ASSUME ScreenshotAssumption ==
  /\ FreePages \subseteq Nat \ {0}
  /\ TopModes \subseteq {"800px", "2d", "3d"}
  /\ CardFails \in BOOLEAN

VARIABLES
  pc,         \* where the section is
  mode,       \* the mode of the top screen, read at its start
  distinct,   \* the right image of the top screen has an address of its own
  picture,    \* the file at hand
  cacheSize,  \* framebufferCacheSize, 0 when framebufferCache is NULL
  y,          \* lines done, of 240
  remaining,  \* bytes to do
  failed,     \* res
  open,       \* the files that are open
  file,       \* what each file holds
  halted      \* how the program stopped, if it did

vars == <<pc, mode, distinct, picture, cacheSize, y, remaining, failed, open,
          file, halted>>

Files == {"top", "bot", "top_right"}
PageSize == 4096
Header == 54
Lines == 240

-----------------------------------------------------------------------------
\* Draw_GetCurrentScreenInfo
Width(f) == IF f = "bot" THEN 320 ELSE IF mode = "800px" THEN 800 ELSE 400

\* Bytes a line of the screen takes in the file: twice in 800px mode.
ScaleFactorY(f) == IF Width(f) > 400 THEN 2 ELSE 1
LineBytes(f) == 3 * Width(f) * ScaleFactorY(f)

InPages(bytes) == (bytes + PageSize - 1) \div PageSize

\* Draw_AllocateFramebufferCacheForScreenshot
Granted(bytes, free) ==
  PageSize * InPages(IF PageSize * free < bytes THEN PageSize * free ELSE bytes)

\* Where a chunk starts in the cache: the first one after the header.
BufOffset == IF y = 0 THEN Header ELSE 0

\* The lines of a chunk.
NLines ==
  LET available == cacheSize - BufOffset
      size == IF available < remaining THEN available ELSE remaining
  IN  size \div LineBytes(picture)

\* Draw_ConvertFrameBufferLines puts line l at buf + LineBytes * l, counting l
\* from the first line of the screen, not of the chunk.
ChunkEnd == BufOffset + LineBytes(picture) * (y + NLines)

\* The bytes written start at the place of line 0 whatever the chunk.
FirstLineWritten == 0

-----------------------------------------------------------------------------
Init ==
  /\ pc = "open" /\ picture = "top"
  /\ mode \in TopModes
  /\ distinct \in BOOLEAN
  /\ cacheSize = 0 /\ y = 0 /\ remaining = 0
  /\ failed = FALSE /\ open = {}
  /\ file = [f \in Files |-> [headers |-> 0, lines |-> 0, inOrder |-> TRUE]]
  /\ halted = "no"

Step(next) == pc' = next /\ UNCHANGED <<mode, distinct>>

Open ==
  /\ pc = "open"
  /\ open' = open \cup {picture}
  /\ Step("alloc")
  /\ UNCHANGED <<picture, cacheSize, y, remaining, failed, file, halted>>

OpenFails ==
  /\ pc = "open"
  /\ CardFails
  /\ failed' = TRUE
  /\ Step("end")
  /\ UNCHANGED <<picture, cacheSize, y, remaining, open, file, halted>>

\* A cache that is still there is a trap, never reached (SectionLeavesNothing).
Alloc ==
  /\ pc = "alloc"
  /\ cacheSize = 0
  /\ y' = 0
  /\ remaining' = LineBytes(picture) * Lines
  /\ \E free \in FreePages : cacheSize' = Granted(remaining', free)
  /\ Step("convert")
  /\ UNCHANGED <<picture, failed, open, file, halted>>

AllocFails ==
  /\ pc = "alloc"
  /\ cacheSize = 0
  /\ CardFails
  /\ failed' = TRUE
  /\ Step("free")
  /\ UNCHANGED <<picture, cacheSize, y, remaining, open, file, halted>>

Convert ==
  /\ pc = "convert"
  /\ NLines = 0 \/ ChunkEnd =< cacheSize
  /\ Step("write")
  /\ UNCHANGED <<picture, cacheSize, y, remaining, failed, open, file, halted>>

\* The address after the cache is not mapped.
ConvertAborts ==
  /\ pc = "convert"
  /\ NLines > 0 /\ ChunkEnd > cacheSize
  /\ halted' = "abort"
  /\ UNCHANGED <<pc, mode, distinct, picture, cacheSize, y, remaining, failed, open, file>>

\* One IFile_Write and the end of the turn of the loop.  Two headers stand for
\* any larger number of them.
Written(old) ==
  [headers |-> IF y = 0 /\ old.headers < 2 THEN old.headers + 1 ELSE old.headers,
   lines   |-> old.lines + NLines,
   inOrder |-> old.inOrder /\ (NLines > 0 => FirstLineWritten = old.lines)]

\* Fault: y counts the lines of the file.
WriteCountsScaledLines ==
  /\ pc = "write"
  /\ file' = [file EXCEPT ![picture] = Written(@)]
  /\ y' = y + NLines * ScaleFactorY(picture)
  /\ remaining' = remaining - LineBytes(picture) * NLines
  /\ Step(IF remaining' = 0 THEN "free" ELSE "convert")
  /\ UNCHANGED <<picture, cacheSize, failed, open, halted>>

Write ==
  /\ pc = "write"
  /\ file' = [file EXCEPT ![picture] = Written(@)]
  /\ y' = y + NLines
  /\ remaining' = remaining - LineBytes(picture) * NLines
  /\ Step(IF remaining' = 0 THEN "free" ELSE "convert")
  /\ UNCHANGED <<picture, cacheSize, failed, open, halted>>

\* Fault: the result of IFile_Write is not looked at.
WriteFailsUnnoticed ==
  /\ pc = "write"
  /\ CardFails
  /\ Step("free")
  /\ UNCHANGED <<picture, cacheSize, y, remaining, failed, open, file, halted>>

WriteFails ==
  /\ pc = "write"
  /\ CardFails
  /\ failed' = TRUE
  /\ Step("free")
  /\ UNCHANGED <<picture, cacheSize, y, remaining, open, file, halted>>

\* Fault: the cache is freed after a success only.
FreeAfterSuccess ==
  /\ pc = "free"
  /\ cacheSize' = IF failed THEN cacheSize ELSE 0
  /\ Step(IF failed THEN "end" ELSE "close")
  /\ UNCHANGED <<picture, y, remaining, failed, open, file, halted>>

\* The end label of RosalinaMenu_WriteScreenshot.
Free ==
  /\ pc = "free"
  /\ cacheSize' = 0
  /\ Step(IF failed THEN "end" ELSE "close")
  /\ UNCHANGED <<picture, y, remaining, failed, open, file, halted>>

Close ==
  /\ pc = "close"
  /\ open' = open \ {picture}
  /\ \/ /\ picture = "top"
        /\ picture' = "bot"
        /\ Step("open")
     \/ /\ picture = "bot" /\ mode = "3d" /\ distinct
        /\ picture' = "top_right"
        /\ Step("open")
     \/ /\ picture = "top_right" \/ (picture = "bot" /\ ~(mode = "3d" /\ distinct))
        /\ picture' = picture
        /\ Step("end")
  /\ UNCHANGED <<cacheSize, y, remaining, failed, file, halted>>

CloseFails ==
  /\ pc = "close"
  /\ CardFails
  /\ failed' = TRUE
  /\ Step("end")
  /\ UNCHANGED <<picture, cacheSize, y, remaining, open, file, halted>>

\* The end label of RosalinaMenu_TakeScreenshot: the file is closed, again
\* after a success.
End ==
  /\ pc = "end"
  /\ open' = open \ {picture}
  /\ Step("done")
  /\ UNCHANGED <<picture, cacheSize, y, remaining, failed, file, halted>>

Next ==
  /\ halted = "no"
  /\ \/ Open \/ OpenFails
     \/ Alloc \/ AllocFails
     \/ Convert \/ ConvertAborts \/ Write \/ WriteFails \/ Free
     \/ Close \/ CloseFails \/ End

Spec == Init /\ [][Next]_vars

\* The thread runs on: it is never frozen, and holds the draw lock.
FairSpec == Spec /\ WF_vars(Next)

-----------------------------------------------------------------------------
(* Properties *)

\* The files the screens call for.
Wanted == IF mode = "3d" /\ distinct THEN Files ELSE {"top", "bot"}

\* menus.c draws "Operation succeeded." only when every file of the screens'
\* current mode was written: one header, then the 240 lines in their order.
SuccessMeansWholeFiles ==
  pc = "done" /\ ~failed =>
    \A f \in Wanted : file[f] = [headers |-> 1, lines |-> Lines, inOrder |-> TRUE]

\* Whatever failed, the section ends without a file open and without a cache,
\* so that the Draw_AllocateFramebufferCache after it does not trap, and no
\* allocation inside it does.  ShotBegin and ShotEnd of MenuThread rest on it.
SectionLeavesNothing ==
  /\ pc = "done" => open = {} /\ cacheSize = 0
  /\ pc = "alloc" => open = {picture} /\ cacheSize = 0

\* The counters of the loop agree at each turn: the lines still to do are the
\* bytes still to do, and the file has the lines done.
LinesAccounted ==
  pc \in {"convert", "write"} =>
    /\ remaining = LineBytes(picture) * (Lines - y)
    /\ y =< Lines
    /\ file[picture].lines = y

-----------------------------------------------------------------------------
(* menus.c:382, on the loop over the chunks: "Our buffer might be smaller     *)
(* than the size of the screenshot..."                                      *)

\* The chunks of a smaller buffer stay inside it.
SmallBufferSuffices == halted # "abort"
=============================================================================
