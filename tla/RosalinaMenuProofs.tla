-------------------------- MODULE RosalinaMenuProofs --------------------------
(***************************************************************************)
(* The mailbox of pictures keeps their order, whatever their number.  The  *)
(* screenshot section leaves nothing behind, keeps its counters and claims *)
(* success of whole files only, whatever memory is free and whatever fails. *)
(* The cheats that are applied are the process's own and whole, however    *)
(* long their file is, and of their lines those are skipped that are in a  *)
(* condition found false, however deep the conditions are nested; its      *)
(* counters fit their widths.                                              *)
(***************************************************************************)
EXTENDS ScreenshotMailbox, TakeScreenshot, Cheats, SequenceTheorems, TLAPS

-----------------------------------------------------------------------------
(* The mailbox *)

\* A picture that is pending has been taken.
PendingTaken == pending => taken > 0

BoxInv == BoxTypeOK /\ PendingTaken /\ SavedInOrder

LEMMA BoxInitially == BoxInit => BoxInv
<1> SUFFICES ASSUME BoxInit
             PROVE  BoxInv
  OBVIOUS
<1>1. saved \in Seq(1..MaxTaken) /\ DOMAIN saved = {}
  BY DEF BoxInit
<1>2. taken \in 0..MaxTaken
  BY MaxTakenAssumption DEF BoxInit
<1>3. PendingTaken /\ pending \in BOOLEAN /\ closed \in BOOLEAN
  BY DEF BoxInit, PendingTaken
<1>4. SavedInOrder
  BY <1>1, Zenon DEF SavedInOrder
<1> QED
  BY <1>1, <1>2, <1>3, <1>4 DEF BoxInv, BoxTypeOK

\* Saving appends a picture later than every one on the card.
LEMMA SaveKeepsOrder ==
  ASSUME BoxInv, Save
  PROVE  BoxInv'
<1> USE MaxTakenAssumption
<1>1. taken \in 1..MaxTaken /\ saved \in Seq(1..MaxTaken) /\ taken' = taken
  BY DEF BoxInv, BoxTypeOK, PendingTaken, Save
<1>2. /\ DOMAIN saved' = 1..(Len(saved) + 1)
      /\ \A i \in DOMAIN saved : saved'[i] = saved[i] /\ saved[i] \in 1..MaxTaken
      /\ saved'[Len(saved) + 1] = taken
      /\ DOMAIN saved = 1..Len(saved) /\ Len(saved) \in Nat
  BY <1>1 DEF Save
<1>3. \A i \in DOMAIN saved : saved[i] < taken
  BY DEF BoxInv, SavedInOrder, Save
<1>4. BoxTypeOK' /\ PendingTaken'
  <2>1. saved' \in Seq(1..MaxTaken)
    BY <1>1 DEF Save
  <2> QED
    BY <1>1, <2>1 DEF BoxInv, BoxTypeOK, PendingTaken, Save
<1>5. ASSUME NEW i \in DOMAIN saved', NEW j \in DOMAIN saved', i < j
      PROVE  saved'[i] < saved'[j]
  <2>1. i \in DOMAIN saved
    BY <1>2, <1>5
  <2>2. CASE j = Len(saved) + 1
    BY <1>2, <1>3, <2>1, <2>2
  <2>3. CASE j \in DOMAIN saved
    BY <1>2, <1>5, <2>1, <2>3 DEF BoxInv, SavedInOrder
  <2> QED
    BY <1>2, <2>2, <2>3
<1>6. ASSUME NEW i \in DOMAIN saved'
      PROVE  saved'[i] =< taken'
  <2>1. CASE i = Len(saved) + 1
    BY <1>1, <1>2, <2>1
  <2>2. CASE i \in DOMAIN saved
    BY <1>1, <1>2, <1>3, <2>2
  <2> QED
    BY <1>2, <2>1, <2>2
<1>7. pending' = FALSE
  BY DEF Save
<1> QED
  BY <1>4, <1>5, <1>6, <1>7 DEF BoxInv, SavedInOrder

LEMMA BoxStep == BoxInv /\ [BoxNext]_boxVars => BoxInv'
<1> SUFFICES ASSUME BoxInv, [BoxNext]_boxVars
             PROVE  BoxInv'
  OBVIOUS
<1>1. CASE Take
  BY <1>1, MaxTakenAssumption
  DEF BoxInv, BoxTypeOK, PendingTaken, SavedInOrder, Take
<1>2. CASE Save
  BY <1>2, SaveKeepsOrder
<1>3. CASE AskToEnd
  BY <1>3 DEF BoxInv, BoxTypeOK, PendingTaken, SavedInOrder, AskToEnd
<1>4. CASE UNCHANGED boxVars
  BY <1>4 DEF BoxInv, BoxTypeOK, PendingTaken, SavedInOrder, boxVars
<1> QED
  BY <1>1, <1>2, <1>3, <1>4 DEF BoxNext

\* No picture reaches the card twice, and none after a later one.
THEOREM PicturesInOrder == BoxSpec => [](BoxTypeOK /\ SavedInOrder)
<1>1. BoxInv => BoxTypeOK /\ SavedInOrder
  BY DEF BoxInv
<1> QED
  BY BoxInitially, BoxStep, <1>1, PTL DEF BoxSpec

-----------------------------------------------------------------------------
(* The cache and the open file *)

\* What is open and allocated at each place of the section.
Held ==
  /\ pc = "open" => open = {} /\ cacheSize = 0
  /\ pc = "alloc" => open = {picture} /\ cacheSize = 0
  /\ pc \in {"convert", "write", "free"} => open = {picture}
  /\ pc = "close" => open = {picture} /\ cacheSize = 0
  /\ pc = "end" => open \subseteq {picture} /\ cacheSize = 0
  /\ pc = "done" => open = {} /\ cacheSize = 0

LEMMA HeldInitially == Init => Held
  BY DEF Init, Held

LEMMA HeldStep == Held /\ [Next]_vars => Held'
<1> SUFFICES ASSUME Held, [Next]_vars
             PROVE  Held'
  OBVIOUS
<1> USE DEF Held, Step
<1>1. CASE Open \/ OpenFails
  BY <1>1 DEF Open, OpenFails
<1>2. CASE Alloc \/ AllocFails
  BY <1>2 DEF Alloc, AllocFails
<1>3. CASE Convert \/ ConvertAborts
  BY <1>3 DEF Convert, ConvertAborts
<1>4. CASE Write
  BY <1>4 DEF Write
<1>5. CASE WriteFails \/ Free
  BY <1>5 DEF WriteFails, Free
<1>6. CASE Close \/ CloseFails \/ End
  BY <1>6 DEF Close, CloseFails, End
<1>7. CASE UNCHANGED vars
  BY <1>7 DEF vars
<1> QED
  BY <1>1, <1>2, <1>3, <1>4, <1>5, <1>6, <1>7 DEF Next

\* Whatever failed, RosalinaMenu_TakeScreenshot reaches its last allocation
\* without a cache and without an open file.
THEOREM SectionIsClean == Spec => []SectionLeavesNothing
<1>1. Held => SectionLeavesNothing
  BY DEF Held, SectionLeavesNothing
<1> QED
  BY HeldInitially, HeldStep, <1>1, PTL DEF Spec

-----------------------------------------------------------------------------
(* The loop over the chunks *)

\* The three sizes a line has in the files.
LEMMA LineSizes ==
  ASSUME NEW f
  PROVE  LineBytes(f) \in {960, 1200, 4800}
  BY DEF LineBytes, ScaleFactorY, Width

\* A chunk has at most the lines that are left.
LEMMA ChunkBounded ==
  ASSUME y \in 0..Lines, cacheSize \in Nat, cacheSize >= BufOffset,
         remaining = LineBytes(picture) * (Lines - y)
  PROVE  NLines \in Nat /\ NLines =< Lines - y
<1> DEFINE available == cacheSize - BufOffset
           size == IF available < remaining THEN available ELSE remaining
<1>1. available \in Nat
  BY DEF BufOffset, Header, Lines
<1>2. CASE LineBytes(picture) = 960
  <2>1. size \in Nat /\ size =< 960 * (240 - y)
    BY <1>1, <1>2 DEF Lines
  <2> HIDE DEF size
  <2>2. size \div 960 \in Nat /\ size \div 960 =< 240 - y
    BY <2>1 DEF Lines
  <2> QED
    BY <1>2, <2>2 DEF NLines, size, Lines
<1>3. CASE LineBytes(picture) = 1200
  <2>1. size \in Nat /\ size =< 1200 * (240 - y)
    BY <1>1, <1>3 DEF Lines
  <2> HIDE DEF size
  <2>2. size \div 1200 \in Nat /\ size \div 1200 =< 240 - y
    BY <2>1 DEF Lines
  <2> QED
    BY <1>3, <2>2 DEF NLines, size, Lines
<1>4. CASE LineBytes(picture) = 4800
  <2>1. size \in Nat /\ size =< 4800 * (240 - y)
    BY <1>1, <1>4 DEF Lines
  <2> HIDE DEF size
  <2>2. size \div 4800 \in Nat /\ size \div 4800 =< 240 - y
    BY <2>1 DEF Lines
  <2> QED
    BY <1>4, <2>2 DEF NLines, size, Lines
<1> QED
  BY <1>2, <1>3, <1>4, LineSizes

\* A cache of the section has room for the header at least.
LEMMA GrantedRoom ==
  ASSUME NEW f, NEW free \in FreePages
  PROVE  /\ Granted(LineBytes(f) * Lines, free) \in Nat
         /\ Granted(LineBytes(f) * Lines, free) >= Header
<1> DEFINE bytes == IF PageSize * free < LineBytes(f) * Lines
                    THEN PageSize * free ELSE LineBytes(f) * Lines
<1>1. bytes \in Nat /\ bytes >= 1
  BY LineSizes, ScreenshotAssumption DEF PageSize, Lines
<1> HIDE DEF bytes
<1>2. InPages(bytes) \in Nat /\ InPages(bytes) >= 1
  BY <1>1 DEF InPages, PageSize
<1>3. Granted(LineBytes(f) * Lines, free) = PageSize * InPages(bytes)
  BY DEF Granted, bytes
<1> QED
  BY <1>2, <1>3 DEF PageSize, Header

\* The files after the one at hand.
Later ==
  CASE picture = "top" -> {"bot", "top_right"}
    [] picture = "bot" -> {"top_right"}
    [] OTHER -> {}

FilesOK ==
  /\ picture \in Files
  /\ file \in [Files -> [headers : Nat, lines : Nat, inOrder : BOOLEAN]]
  /\ \A f \in Later : file[f].lines = 0
  /\ pc \in {"open", "alloc"} => file[picture].lines = 0

LoopOK ==
  pc \in {"convert", "write"} =>
    /\ y \in 0..Lines
    /\ cacheSize \in Nat /\ cacheSize >= Header
    /\ remaining = LineBytes(picture) * (Lines - y)
    /\ file[picture].lines = y

LoopInv == FilesOK /\ LoopOK

LEMMA LoopInitially == Init => LoopInv
  BY DEF Init, LoopInv, FilesOK, LoopOK, Later, Files

\* A turn of the loop takes the same lines from each counter.
LEMMA WriteStep ==
  ASSUME LoopInv, Write
  PROVE  LoopInv'
<1>1. /\ y \in 0..Lines /\ cacheSize \in Nat /\ cacheSize >= BufOffset
      /\ remaining = LineBytes(picture) * (Lines - y)
      /\ file[picture].lines = y
  BY DEF LoopInv, LoopOK, Write, BufOffset, Header
<1>2. NLines \in Nat /\ NLines =< Lines - y
  BY <1>1, ChunkBounded
<1>3. picture' = picture /\ LineBytes(picture)' = LineBytes(picture)
  BY DEF Write, Step, LineBytes, ScaleFactorY, Width
<1>4. y' \in 0..Lines
  BY <1>1, <1>2 DEF Write, Lines
<1>5. remaining' = LineBytes(picture) * (Lines - y')
  <2> DEFINE n == NLines
  <2>1. remaining' = LineBytes(picture) * (Lines - y) - LineBytes(picture) * n /\ y' = y + n
    BY <1>1 DEF Write
  <2>2. n \in Nat
    BY <1>2
  <2> HIDE DEF n
  <2> QED
    BY <1>1, <2>1, <2>2, LineSizes DEF Lines
<1>6. Written(file[picture]) \in [headers : Nat, lines : Nat, inOrder : BOOLEAN]
  BY <1>1, <1>2 DEF Written, LoopInv, FilesOK, Lines
<1>7. Written(file[picture]).lines = y + NLines
  BY <1>1 DEF Written
<1>8. FilesOK'
  BY <1>3, <1>6 DEF LoopInv, FilesOK, Write, Step, Later
<1>9. LoopOK'
  BY <1>1, <1>3, <1>4, <1>5, <1>7 DEF LoopInv, FilesOK, LoopOK, Write, Step
<1> QED
  BY <1>8, <1>9 DEF LoopInv

LEMMA LoopStep == LoopInv /\ [Next]_vars => LoopInv'
<1> SUFFICES ASSUME LoopInv, [Next]_vars
             PROVE  LoopInv'
  OBVIOUS
<1> USE DEF LoopInv, FilesOK, LoopOK, Step
<1>1. CASE Open \/ OpenFails
  BY <1>1 DEF Open, OpenFails, Later
<1>2. CASE Alloc
  <2>1. PICK free \in FreePages : cacheSize' = Granted(LineBytes(picture) * Lines, free)
    BY <1>2 DEF Alloc
  <2>2. cacheSize' \in Nat /\ cacheSize' >= Header
    BY <2>1, GrantedRoom
  <2>3. picture' = picture /\ LineBytes(picture)' = LineBytes(picture)
    BY <1>2 DEF Alloc, LineBytes, ScaleFactorY, Width
  <2>4. remaining' = LineBytes(picture) * (Lines - 0) /\ y' = 0
    BY <1>2 DEF Alloc, Lines
  <2> QED
    BY <1>2, <2>2, <2>3, <2>4 DEF Alloc, Later, Lines
<1>3. CASE AllocFails \/ WriteFails \/ Free
  BY <1>3 DEF AllocFails, WriteFails, Free, Later
<1>4. CASE Convert \/ ConvertAborts
  <2>1. LineBytes(picture)' = LineBytes(picture)
    BY <1>4 DEF Convert, ConvertAborts, LineBytes, ScaleFactorY, Width
  <2> QED
    BY <1>4, <2>1 DEF Convert, ConvertAborts, Later
<1>5. CASE Write
  BY <1>5, WriteStep
<1>6. CASE Close
  BY <1>6 DEF Close, Later, Files
<1>7. CASE CloseFails \/ End
  BY <1>7 DEF CloseFails, End, Later
<1>8. CASE UNCHANGED vars
  <2>1. LineBytes(picture)' = LineBytes(picture)
    BY <1>8 DEF vars, LineBytes, ScaleFactorY, Width
  <2> QED
    BY <1>8, <2>1 DEF vars, Later
<1> QED
  BY <1>1, <1>2, <1>3, <1>4, <1>5, <1>6, <1>7, <1>8 DEF Next

\* At each turn of the loop of RosalinaMenu_WriteScreenshot, the bytes to do,
\* the lines done and the lines in the file agree.
THEOREM CountersAgree == Spec => []LinesAccounted
<1>1. LoopInv => LinesAccounted
  BY DEF LoopInv, LoopOK, LinesAccounted, Lines
<1> QED
  BY LoopInitially, LoopStep, <1>1, PTL DEF Spec

-----------------------------------------------------------------------------
(***************************************************************************)
(* What success means.  Of the files that are reported as written, each    *)
(* was written as one chunk: after a first chunk that was not the whole    *)
(* picture, the next conversion leaves the cache.                          *)
(***************************************************************************)

\* A chunk fits the room of the cache, and no more lines would.
LEMMA ChunkFillsRoom ==
  ASSUME y \in 0..Lines, cacheSize \in Nat, cacheSize >= BufOffset,
         remaining = LineBytes(picture) * (Lines - y)
  PROVE  /\ NLines \in Nat /\ NLines =< Lines - y
         /\ LineBytes(picture) * NLines =< cacheSize - BufOffset
         /\ NLines < Lines - y => cacheSize - BufOffset < LineBytes(picture) * (NLines + 1)
<1> DEFINE room == cacheSize - BufOffset
           size == IF room < remaining THEN room ELSE remaining
<1>1. room \in Nat
  BY DEF BufOffset, Header, Lines
<1>2. ASSUME NEW b \in {960, 1200, 4800}, LineBytes(picture) = b
      PROVE  /\ b * NLines =< room
             /\ NLines < Lines - y => room < b * (NLines + 1)
  <2>1. size \in Nat /\ size =< room /\ (size = room \/ size = b * (Lines - y))
    BY <1>1, <1>2 DEF Lines
  <2>2. NLines = size \div b
    BY <1>2 DEF NLines
  <2> HIDE DEF size, room
  <2>3. (b * (Lines - y)) \div b = Lines - y
    BY DEF Lines
  <2> DEFINE n == size \div b
  <2>4. n \in Nat /\ b * n =< size /\ size < b * (n + 1)
    BY <2>1
  <2>5. n < Lines - y => size = room
    BY <2>1, <2>3
  <2> HIDE DEF n
  <2> QED
    BY <1>1, <2>1, <2>2, <2>4, <2>5 DEF n
<1> QED
  BY <1>2, LineSizes, ChunkBounded

\* A cache has room for the picture and the header, or not for the picture.
LEMMA GrantedAllOrLess ==
  ASSUME NEW f, NEW free \in FreePages
  PROVE  \/ Granted(LineBytes(f) * Lines, free) >= LineBytes(f) * Lines + Header
         \/ Granted(LineBytes(f) * Lines, free) < LineBytes(f) * Lines
<1>1. free \in Nat
  BY ScreenshotAssumption
<1>2. CASE PageSize * free < LineBytes(f) * Lines
  <2>1. InPages(PageSize * free) = free
    BY <1>1 DEF InPages, PageSize
  <2>2. Granted(LineBytes(f) * Lines, free) = PageSize * free
    BY <1>2, <2>1 DEF Granted
  <2> QED
    BY <1>2, <2>2
<1>3. CASE ~(PageSize * free < LineBytes(f) * Lines)
  <2>1. Granted(LineBytes(f) * Lines, free) = PageSize * InPages(LineBytes(f) * Lines)
    BY <1>3 DEF Granted
  <2> QED
    BY <2>1, LineSizes DEF InPages, PageSize, Lines, Header
<1> QED
  BY <1>2, <1>3

WholeFile == [headers |-> 1, lines |-> Lines, inOrder |-> TRUE]
NewFile == [headers |-> 0, lines |-> 0, inOrder |-> TRUE]

\* The files before the one at hand.
Earlier ==
  CASE picture = "top" -> {}
    [] picture = "bot" -> {"top"}
    [] OTHER -> {"top", "bot"}

\* What is written at each place of the section.
WrittenOK ==
  /\ \A f \in Earlier : file[f] = WholeFile
  /\ \A f \in Later : file[f] = NewFile
  /\ pc \in {"open", "alloc"} => file[picture] = NewFile
  /\ pc \in {"open", "alloc", "convert", "write", "close"} => ~failed
  /\ pc \in {"free", "close"} /\ ~failed => file[picture] = WholeFile
  /\ pc \in {"end", "done"} /\ ~failed => \A f \in Wanted : file[f] = WholeFile

\* At the start of the loop, or after a chunk that was not the whole picture.
ChunksOK ==
  LET bytes == LineBytes(picture)
  IN  pc \in {"convert", "write"} =>
        /\ cacheSize >= bytes * Lines + Header \/ cacheSize < bytes * Lines
        /\ file[picture].inOrder
        /\ y = 0 => file[picture].headers = 0 \/ cacheSize - Header < bytes
        /\ y # 0 => pc = "convert" /\ y < Lines /\ bytes =< cacheSize /\ cacheSize < bytes * Lines

WholeInv == LoopInv /\ WrittenOK /\ ChunksOK

LEMMA WholeInitially == Init => WholeInv
  BY LoopInitially DEF Init, WholeInv, WrittenOK, ChunksOK, Earlier, Later, NewFile, Files

\* The second chunk of a picture is never written.
LEMMA SecondChunkAborts ==
  ASSUME WholeInv, Convert
  PROVE  y = 0
<1> SUFFICES ASSUME y # 0
             PROVE  FALSE
  OBVIOUS
<1> DEFINE b == LineBytes(picture)
           n == NLines
<1>1. /\ y \in 0..Lines /\ cacheSize \in Nat
      /\ remaining = b * (Lines - y)
      /\ y < Lines /\ b =< cacheSize /\ cacheSize < b * Lines
  BY DEF WholeInv, LoopInv, LoopOK, ChunksOK, Convert
<1>2. BufOffset = 0
  BY DEF BufOffset
<1>3. /\ n \in Nat /\ n =< Lines - y
      /\ n < Lines - y => cacheSize < b * (n + 1)
  <2>1. cacheSize >= BufOffset /\ cacheSize - BufOffset = cacheSize
    BY <1>1, <1>2
  <2>2. /\ NLines \in Nat /\ NLines =< Lines - y
        /\ NLines < Lines - y => cacheSize - BufOffset < LineBytes(picture) * (NLines + 1)
    BY <1>1, <2>1, ChunkFillsRoom
  <2> QED
    BY <2>1, <2>2
<1>4. b \in {960, 1200, 4800}
  BY LineSizes
<1>5. n = 0 \/ b * (y + n) =< cacheSize
  <2>1. n = 0 \/ 0 + b * (y + n) =< cacheSize
    <3>1. NLines = 0 \/ BufOffset + LineBytes(picture) * (y + NLines) =< cacheSize
      BY DEF Convert, ChunkEnd
    <3> QED
      BY <1>2, <3>1
  <2> HIDE DEF b, n
  <2> QED
    BY <1>1, <1>3, <1>4, <2>1
<1> HIDE DEF b, n
<1>6. n # 0
  BY <1>1, <1>3, <1>4 DEF Lines
<1>7. CASE n = Lines - y
  BY <1>1, <1>4, <1>5, <1>6, <1>7 DEF Lines
<1>8. CASE n < Lines - y
  BY <1>1, <1>3, <1>4, <1>5, <1>6, <1>8 DEF Lines
<1> QED
  BY <1>1, <1>3, <1>7, <1>8 DEF Lines

LEMMA WholeWrite ==
  ASSUME WholeInv, Write
  PROVE  WrittenOK' /\ ChunksOK'
<1> DEFINE b == LineBytes(picture)
           n == NLines
<1>1. /\ y = 0 /\ cacheSize \in Nat /\ cacheSize >= Header
      /\ remaining = b * (Lines - y)
      /\ cacheSize >= b * Lines + Header \/ cacheSize < b * Lines
      /\ file[picture].inOrder /\ file[picture].lines = 0
      /\ file[picture].headers = 0 \/ cacheSize - Header < b
      /\ ~failed
  BY DEF WholeInv, LoopInv, LoopOK, ChunksOK, WrittenOK, Write
<1>2. BufOffset = Header /\ y \in 0..Lines
  BY <1>1 DEF BufOffset, Lines
<1>3. /\ n \in Nat /\ n =< Lines
      /\ b * n =< cacheSize - Header
      /\ n < Lines => cacheSize - Header < b * (n + 1)
  <2>1. Lines - y = Lines
    BY <1>1 DEF Lines
  <2> QED
    BY <1>1, <1>2, <2>1, ChunkFillsRoom
<1>4. b \in {960, 1200, 4800}
  BY LineSizes
<1>5. picture' = picture /\ LineBytes(picture)' = b /\ Wanted' = Wanted
  BY DEF Write, Step, LineBytes, ScaleFactorY, Width, Wanted
<1>6. y' = n /\ remaining' = b * Lines - b * n /\ cacheSize' = cacheSize /\ failed' = failed
  BY <1>1, <1>3 DEF Write, Lines
<1>7. file' = [file EXCEPT ![picture] = Written(@)] /\ picture \in Files
      /\ file \in [Files -> [headers : Nat, lines : Nat, inOrder : BOOLEAN]]
  BY DEF Write, WholeInv, LoopInv, FilesOK
<1>8. Written(file[picture]).inOrder
  BY <1>1 DEF Written, FirstLineWritten
<1>9. pc' = (IF remaining' = 0 THEN "free" ELSE "convert")
  BY DEF Write, Step
<1>10. CASE n = Lines
  <2>1. remaining' = 0
    BY <1>4, <1>6, <1>10 DEF Lines
  <2>2. file[picture].headers = 0
    <3> HIDE DEF b, n
    <3> QED
      BY <1>1, <1>3, <1>4, <1>10 DEF Lines, Header
  <2>3. Written(file[picture]) = WholeFile
    <3>1. /\ Written(file[picture]).headers = 1
          /\ Written(file[picture]).lines = 0 + n
      BY <1>1, <2>2 DEF Written
    <3>2. Written(file[picture]).inOrder = TRUE /\ 0 + n = Lines
      BY <1>1, <1>8, <1>10 DEF Written, Lines, FirstLineWritten
    <3> DEFINE w == Written(file[picture])
    <3>3. w = [headers |-> w.headers, lines |-> w.lines, inOrder |-> w.inOrder]
      BY DEF Written
    <3> HIDE DEF w
    <3> QED
      BY <3>1, <3>2, <3>3 DEF WholeFile, w
  <2> QED
    BY <1>5, <1>6, <1>7, <1>9, <2>1, <2>3 DEF WholeInv, WrittenOK, ChunksOK, Earlier, Later
<1>11. CASE n < Lines
  <2>1. remaining' # 0 /\ cacheSize < b * Lines /\ (n = 0 => cacheSize - Header < b)
        /\ (n # 0 => b =< cacheSize)
    <3> HIDE DEF b, n
    <3> QED
      BY <1>1, <1>3, <1>4, <1>6, <1>11 DEF Lines, Header
  <2>2. WrittenOK'
    BY <1>1, <1>5, <1>6, <1>7, <1>9, <2>1 DEF WholeInv, WrittenOK, Earlier, Later
  <2>3. ChunksOK'
    BY <1>1, <1>3, <1>5, <1>6, <1>7, <1>8, <1>9, <1>11, <2>1 DEF ChunksOK
  <2> QED
    BY <2>2, <2>3
<1> QED
  BY <1>3, <1>10, <1>11 DEF Lines

LEMMA WholeStep == WholeInv /\ [Next]_vars => WholeInv'
<1> SUFFICES ASSUME WholeInv, [Next]_vars
             PROVE  WrittenOK' /\ ChunksOK'
  BY LoopStep DEF WholeInv
<1> USE DEF Step
<1>0. ASSUME UNCHANGED <<mode, distinct>>
      PROVE  (picture' = picture => LineBytes(picture)' = LineBytes(picture)) /\ Wanted' = Wanted
  BY <1>0 DEF LineBytes, ScaleFactorY, Width, Wanted
<1>1. CASE Open \/ OpenFails \/ AllocFails \/ WriteFails \/ Free
  BY <1>0, <1>1 DEF Open, OpenFails, AllocFails, WriteFails, Free, WholeInv, WrittenOK, ChunksOK,
       Earlier, Later
<1>2. CASE Alloc
  <2>1. PICK free \in FreePages : cacheSize' = Granted(LineBytes(picture) * Lines, free)
    BY <1>2 DEF Alloc
  <2>2. LineBytes(picture)' = LineBytes(picture) /\ Wanted' = Wanted
    BY <1>0, <1>2 DEF Alloc
  <2>3. \/ cacheSize' >= LineBytes(picture) * Lines + Header
        \/ cacheSize' < LineBytes(picture) * Lines
    BY <2>1, GrantedAllOrLess
  <2> QED
    BY <1>2, <2>2, <2>3 DEF Alloc, WholeInv, WrittenOK, ChunksOK, Earlier, Later, NewFile
<1>3. CASE Convert
  <2>1. y = 0
    BY <1>3, SecondChunkAborts
  <2> QED
    BY <1>0, <1>3, <2>1 DEF Convert, WholeInv, WrittenOK, ChunksOK, Earlier, Later
<1>4. CASE ConvertAborts
  BY <1>0, <1>4 DEF ConvertAborts, WholeInv, WrittenOK, ChunksOK, Earlier, Later
<1>5. CASE Write
  BY <1>5, WholeWrite
<1>6. CASE Close
  <2>1. \A f \in Earlier \cup {picture} : file[f] = WholeFile
    BY <1>6 DEF Close, WholeInv, WrittenOK
  <2>2. ~failed
    BY <1>6 DEF Close, WholeInv, WrittenOK
  <2>3. picture' = picture => Wanted \subseteq Earlier \cup {picture}
    BY <1>6 DEF Close, Wanted, Earlier, Files
  <2> QED
    BY <1>0, <1>6, <2>1, <2>2, <2>3 DEF Close, WholeInv, WrittenOK, ChunksOK, Earlier, Later
<1>7. CASE CloseFails \/ End
  BY <1>0, <1>7 DEF CloseFails, End, WholeInv, WrittenOK, ChunksOK, Earlier, Later
<1>8. CASE UNCHANGED vars
  BY <1>0, <1>8 DEF vars, WholeInv, WrittenOK, ChunksOK, Earlier, Later
<1> QED
  BY <1>1, <1>2, <1>3, <1>4, <1>5, <1>6, <1>7, <1>8 DEF Next

\* RosalinaMenu_TakeScreenshot reports success only of files that are whole,
\* whatever memory the system has free: a picture that would need a second
\* chunk is never reported as written.
THEOREM SuccessIsWhole == Spec => []SuccessMeansWholeFiles
<1>1. WholeInv => SuccessMeansWholeFiles
  BY DEF WholeInv, WrittenOK, WholeFile, SuccessMeansWholeFiles
<1> QED
  BY WholeInitially, WholeStep, <1>1, PTL DEF Spec

-----------------------------------------------------------------------------
(* The list of cheats *)

\* A description of a cheat.
Described(cheat) ==
  /\ cheat = [start |-> cheat.start, codesCount |-> cheat.codesCount, active |-> cheat.active]
  /\ cheat.start \in Nat /\ cheat.codesCount \in Nat

\* What is used of the sizes.
LEMMA ListSizes ==
  /\ CountSize \in Nat /\ CountSize > 1
  /\ DescriptionSize \in Nat /\ DescriptionSize > 0
  /\ BufferSize \in Nat /\ BufferSize > DescriptionSize
  /\ "none" \notin CheatTitles
BY CheatListAssumption

LEMMA EarlierOnes ==
  ASSUME NEW a \in Nat, NEW b \in Nat, a =< b
  PROVE  \A i \in 0 .. a - 1 : i \in 0 .. b - 1
OBVIOUS

LEMMA SmallRemainder ==
  ASSUME NEW a \in Nat, NEW m \in Nat, a < m
  PROVE  a % m = a
OBVIOUS

LEMMA EndsSomewhere ==
  ASSUME NEW cheat, Described(cheat)
  PROVE  EndOf(cheat) \in Nat /\ EndOf(cheat) = cheat.start + DescriptionSize + cheat.codesCount
BY ListSizes DEF Described, EndOf

\* One cheat is changed: the others stay.
LEMMA OneChanged ==
  ASSUME NEW n \in Nat, NEW f, f = [i \in 0 .. n - 1 |-> f[i]], \A i \in 0 .. n - 1 : Described(f[i]),
         NEW k \in 0 .. n - 1, NEW c, Described(c), NEW g, g = [f EXCEPT ![k] = c]
  PROVE  /\ g = [i \in 0 .. n - 1 |-> g[i]] /\ \A i \in 0 .. n - 1 : Described(g[i])
         /\ g[k] = c /\ \A i \in 0 .. n - 1 : i # k => g[i] = f[i]
<1>1. g[k] = c /\ \A i \in 0 .. n - 1 : i # k => g[i] = f[i]
  OBVIOUS
<1>2. \A i \in 0 .. n - 1 : Described(g[i])
  BY <1>1
<1> QED
  BY <1>1, <1>2

\* A cheat is switched, or gets one more code.
LEMMA FieldsChanged ==
  ASSUME NEW c, Described(c)
  PROVE  /\ \A b : LET d == [c EXCEPT !.active = b]
                   IN  Described(d) /\ d.start = c.start /\ d.codesCount = c.codesCount
         /\ LET d == [c EXCEPT !.codesCount = @ + 1]
            IN  Described(d) /\ d.start = c.start /\ d.codesCount = c.codesCount + 1
BY DEF Described

\* The i-th cheat lies behind the one before, in the buffer.
Lies(i) ==
  /\ cheats[i].start = IF i = 0 THEN 0 ELSE EndOf(cheats[i - 1])
  /\ EndOf(cheats[i]) =< BufferSize
\* The first n cheats have all the codes of their sections.
WholeTo(n) == \A i \in 0 .. n - 1 : Lies(i) /\ cheats[i].codesCount = sections[i + 1]
\* The first n sections have codes.
NoneEmpty(n) == \A i \in 1 .. n : sections[i] > 0

\* What the variables hold.
ListTyped ==
  /\ launched \in Seq(CheatTitles) /\ application \in 0 .. Len(launched)
  /\ cheats = [i \in 0 .. CountSize - 1 |-> cheats[i]]
  /\ \A i \in 0 .. CountSize - 1 : Described(cheats[i])
  /\ cheatCount \in 0 .. CountSize - 1 /\ cheatTitleInfo # "none"
  /\ listPlace \in {"idle", "apply", "load", "list"}
  /\ askedPid \in 0 .. Len(launched)
  /\ loadedCheat \in {None} \cup 0 .. CountSize - 1
  /\ cheatSize \in Nat /\ fileLines \in Nat
  /\ sections \in Seq(Nat)

\* The list is the asked process's, already while it is read.
ListOfTheAsked ==
  /\ listPlace = "load" => askedPid # 0 /\ launched[askedPid] = cheatTitleInfo
  /\ listPlace \in {"apply", "list"} /\ askedPid # 0 /\ cheatCount > 0 =>
       launched[askedPid] = cheatTitleInfo

\* Between two lines: the last section is the cheat that lines are added to.
ReadsOn ==
  /\ cheatCount = Len(sections)
  /\ loadedCheat = cheatCount - 1
  /\ NoneEmpty(cheatCount - 1)
  /\ cheatSize = IF cheatCount = 0 THEN 0 ELSE EndOf(cheats[cheatCount - 1])
  /\ fileRead = "full" /\ cheatCount > 0 => sections[cheatCount] > 0

\* The last section did not fit: its cheat is no longer counted.
LastDropped ==
  /\ fileRead = "full"
  /\ cheatCount = Len(sections) - 1
  /\ NoneEmpty(cheatCount)

\* While the file is read.
LoadsWhole ==
  listPlace = "load" =>
    /\ fileRead = "part" /\ fileLines = 0 => cheatCount = 0
    /\ Len(sections) < CountSize => WholeTo(cheatCount) /\ (ReadsOn \/ LastDropped)

\* Afterwards.
ListsWhole ==
  listPlace # "load" /\ cheatCount > 0 /\ Len(sections) < CountSize =>
    /\ WholeTo(cheatCount) /\ NoneEmpty(cheatCount)
    /\ cheatCount =< Len(sections)
    /\ cheatCount < Len(sections) =>
         /\ cheatCount = Len(sections) - 1
         /\ sections[cheatCount + 1] = 0 \/ fileRead = "full"

ListInv == ListTyped /\ ListOfTheAsked /\ LoadsWhole /\ ListsWhole

\* While only lines are counted that change nothing, the invariant stays.
LEMMA ListStays ==
  ASSUME ListInv, listPlace = "load", fileLines \in Nat, fileLines' = fileLines + 1,
         UNCHANGED <<launched, application, cheatTitleInfo, listPlace, askedPid>>,
         UNCHANGED <<cheats, cheatCount, loadedCheat, cheatSize, sections, fileRead>>
  PROVE  ListInv'
<1>1. ListTyped'
  BY DEF ListInv, ListTyped
<1>2. ListOfTheAsked' /\ ListsWhole'
  BY DEF ListInv, ListOfTheAsked, ListsWhole
<1>3. LoadsWhole'
  <2>1. fileLines' # 0 /\ listPlace' = listPlace
    OBVIOUS
  <2>2. WholeTo(cheatCount)' <=> WholeTo(cheatCount)
    BY DEF WholeTo, Lies, EndOf
  <2>3. (ReadsOn \/ LastDropped)' <=> ReadsOn \/ LastDropped
    BY DEF ReadsOn, LastDropped, NoneEmpty, EndOf
  <2>4. LoadsWhole
    BY DEF ListInv
  <2> QED
    BY <2>1, <2>2, <2>3, <2>4 DEF LoadsWhole
<1> QED
  BY <1>1, <1>2, <1>3 DEF ListInv

\* Switching cheats on and off moves none of them.
LEMMA ListOnlyMarked ==
  ASSUME ListInv, listPlace = "list",
         UNCHANGED <<appVars, cheatCount, cheatTitleInfo, listPlace, askedPid, fileVars>>,
         cheats' = [i \in 0 .. CountSize - 1 |-> cheats'[i]],
         \A i \in 0 .. CountSize - 1 : Described(cheats'[i]),
         \A j \in 0 .. CountSize - 1 :
           cheats'[j].start = cheats[j].start /\ cheats'[j].codesCount = cheats[j].codesCount
  PROVE  ListInv'
<1>1. ListTyped'
  BY DEF ListInv, ListTyped, appVars, fileVars
<1>2. ListOfTheAsked' /\ LoadsWhole'
  BY DEF ListInv, ListOfTheAsked, LoadsWhole, appVars
<1>3. ASSUME WholeTo(cheatCount)
      PROVE  WholeTo(cheatCount)'
  <2>1. \A j \in 0 .. CountSize - 1 : EndOf(cheats'[j]) = EndOf(cheats[j])
    BY DEF EndOf
  <2>2. cheatCount \in 0 .. CountSize - 1 /\ CountSize \in Nat
    BY ListSizes DEF ListInv, ListTyped
  <2>3. \A j \in 0 .. cheatCount - 1 :
          /\ j \in 0 .. CountSize - 1
          /\ j # 0 => j - 1 \in 0 .. CountSize - 1
    BY <2>2
  <2>4. ASSUME NEW j \in 0 .. cheatCount - 1
        PROVE  Lies(j)' /\ cheats'[j].codesCount = sections'[j + 1]
    BY <1>3, <2>1, <2>3, fileVars' = fileVars DEF WholeTo, Lies, EndOf, fileVars
  <2> QED
    BY <2>4 DEF WholeTo
<1>4. ListsWhole'
  BY <1>3 DEF ListInv, ListsWhole, NoneEmpty, fileVars
<1> QED
  BY <1>1, <1>2, <1>4 DEF ListInv

\* The last cheat has codes, unless it is the one that lines are added to.
LEMMA LastHasCodes ==
  ASSUME ListInv, WholeTo(cheatCount), ReadsOn, cheatCount > 0,
         ~(loadedCheat # None /\ cheats[loadedCheat].codesCount = 0)
  PROVE  sections[cheatCount] > 0
<1>1. cheatCount - 1 \in 0 .. cheatCount - 1 /\ cheatCount - 1 \in 0 .. CountSize - 1
  BY ListSizes DEF ListInv, ListTyped
<1>2. cheats[cheatCount - 1].codesCount = sections[cheatCount - 1 + 1]
  BY <1>1 DEF WholeTo
<1>3. cheats[cheatCount - 1].codesCount \in Nat
  BY <1>1 DEF ListInv, ListTyped, Described
<1>4. cheats[cheatCount - 1].codesCount # 0
  BY <1>1 DEF ReadsOn, None
<1>5. cheatCount - 1 + 1 = cheatCount
  BY DEF ListInv, ListTyped
<1> QED
  BY <1>2, <1>3, <1>4, <1>5

\* The lines that are counted are the last cheat's.
LEMMA OneMoreCode ==
  ASSUME sections \in Seq(Nat), CountsCode
  PROVE  /\ sections' \in Seq(Nat) /\ Len(sections') = Len(sections)
         /\ \A i \in 1 .. Len(sections) :
              sections'[i] = IF i = Len(sections) THEN sections[i] + 1 ELSE sections[i]
<1>1. CASE sections = <<>>
  <2>1. sections' = sections
    BY <1>1 DEF CountsCode
  <2> QED
    BY <1>1, <2>1
<1>2. CASE sections # <<>>
  <2>1. Len(sections) \in 1 .. Len(sections) /\ sections[Len(sections)] + 1 \in Nat
    BY <1>2
  <2>2. sections' = [sections EXCEPT ![Len(sections)] = sections[Len(sections)] + 1]
    BY DEF CountsCode
  <2> QED
    BY <2>1, <2>2, ExceptSeq
<1> QED
  BY <1>1, <1>2

LEMMA ListStep == ListInv /\ [ListNext]_cheatListVars => ListInv'
<1> SUFFICES ASSUME ListInv, [ListNext]_cheatListVars
             PROVE  ListInv'
  OBVIOUS
<1> USE ListSizes
<1>1. CASE \E title \in CheatTitles : Launch(title)
  <2>1. ListTyped'
    BY <1>1 DEF ListInv, ListTyped, EndOf, NoCheat, Launch, cheatListVars, appVars, bufferVars, threadVars, fileVars, None
  <2>2. ListOfTheAsked'
    BY <1>1 DEF ListInv, ListOfTheAsked, ListTyped, Launch, cheatListVars, appVars, bufferVars, threadVars, fileVars, None
  <2>3. LoadsWhole'
    BY <1>1 DEF ListInv, LoadsWhole, ListTyped, WholeTo, Lies, ReadsOn, LastDropped, NoneEmpty, EndOf, Launch, cheatListVars, appVars, bufferVars, threadVars, fileVars, None
  <2>4. ListsWhole'
    BY <1>1 DEF ListInv, ListsWhole, ListTyped, WholeTo, Lies, NoneEmpty, EndOf, LoadsWhole, ReadsOn, LastDropped, Launch, cheatListVars, appVars, bufferVars, threadVars, fileVars, None
  <2> QED
    BY <2>1, <2>2, <2>3, <2>4 DEF ListInv
<1>2. CASE Ends
  <2>1. ListTyped'
    BY <1>2 DEF ListInv, ListTyped, EndOf, NoCheat, Ends, cheatListVars, appVars, bufferVars, threadVars, fileVars, None
  <2>2. ListOfTheAsked'
    BY <1>2 DEF ListInv, ListOfTheAsked, ListTyped, Ends, cheatListVars, appVars, bufferVars, threadVars, fileVars, None
  <2>3. LoadsWhole'
    BY <1>2 DEF ListInv, LoadsWhole, ListTyped, WholeTo, Lies, ReadsOn, LastDropped, NoneEmpty, EndOf, Ends, cheatListVars, appVars, bufferVars, threadVars, fileVars, None
  <2>4. ListsWhole'
    BY <1>2 DEF ListInv, ListsWhole, ListTyped, WholeTo, Lies, NoneEmpty, EndOf, LoadsWhole, ReadsOn, LastDropped, Ends, cheatListVars, appVars, bufferVars, threadVars, fileVars, None
  <2> QED
    BY <2>1, <2>2, <2>3, <2>4 DEF ListInv
<1>3. CASE StartsToApply
  <2>1. CASE CurrentTitle = cheatTitleInfo
    <3>1. /\ application # 0 /\ launched[application] = cheatTitleInfo
          /\ listPlace' = "apply" /\ askedPid' = application /\ cheatCount' = cheatCount
          /\ UNCHANGED <<appVars, cheats, cheatTitleInfo, fileVars>>
      BY <1>3, <2>1 DEF StartsToApply, CurrentTitle, ListInv, ListTyped
    <3>2. ListTyped'
      BY <3>1 DEF ListInv, ListTyped, appVars, fileVars
    <3>3. ListOfTheAsked' /\ LoadsWhole'
      BY <3>1 DEF ListOfTheAsked, LoadsWhole, appVars
    <3>4. ListsWhole'
      BY <1>3, <3>1 DEF StartsToApply, ListInv, ListsWhole, WholeTo, Lies, NoneEmpty, EndOf, fileVars
    <3> QED
      BY <3>2, <3>3, <3>4 DEF ListInv
  <2>2. CASE CurrentTitle # cheatTitleInfo
    <3>1. /\ cheatCount' = 0
          /\ UNCHANGED <<appVars, cheats, cheatTitleInfo, listPlace, askedPid, fileVars>>
      BY <1>3, <2>2 DEF StartsToApply
    <3>2. ListTyped'
      BY <3>1 DEF ListInv, ListTyped, appVars, fileVars
    <3>3. ListOfTheAsked' /\ LoadsWhole' /\ ListsWhole'
      BY <1>3, <3>1 DEF StartsToApply, ListInv, ListTyped, ListOfTheAsked, LoadsWhole, ListsWhole, appVars
    <3> QED
      BY <3>2, <3>3 DEF ListInv
  <2> QED
    BY <2>1, <2>2
<1>4. CASE AppliesNext
  <2>1. ListTyped'
    BY <1>4 DEF ListInv, ListTyped, EndOf, NoCheat, AppliesNext, cheatListVars, appVars, bufferVars, threadVars, fileVars, None
  <2>2. ListOfTheAsked'
    BY <1>4 DEF ListInv, ListOfTheAsked, ListTyped, AppliesNext, cheatListVars, appVars, bufferVars, threadVars, fileVars, None
  <2>3. LoadsWhole'
    BY <1>4 DEF ListInv, LoadsWhole, ListTyped, WholeTo, Lies, ReadsOn, LastDropped, NoneEmpty, EndOf, AppliesNext, cheatListVars, appVars, bufferVars, threadVars, fileVars, None
  <2>4. ListsWhole'
    BY <1>4 DEF ListInv, ListsWhole, ListTyped, WholeTo, Lies, NoneEmpty, EndOf, LoadsWhole, ReadsOn, LastDropped, AppliesNext, cheatListVars, appVars, bufferVars, threadVars, fileVars, None
  <2> QED
    BY <2>1, <2>2, <2>3, <2>4 DEF ListInv
<1>5. CASE AllApplied
  <2>1. ListTyped'
    BY <1>5 DEF ListInv, ListTyped, EndOf, NoCheat, AllApplied, cheatListVars, appVars, bufferVars, threadVars, fileVars, None
  <2>2. ListOfTheAsked'
    BY <1>5 DEF ListInv, ListOfTheAsked, ListTyped, AllApplied, cheatListVars, appVars, bufferVars, threadVars, fileVars, None
  <2>3. LoadsWhole'
    BY <1>5 DEF ListInv, LoadsWhole, ListTyped, WholeTo, Lies, ReadsOn, LastDropped, NoneEmpty, EndOf, AllApplied, cheatListVars, appVars, bufferVars, threadVars, fileVars, None
  <2>4. ListsWhole'
    BY <1>5 DEF ListInv, ListsWhole, ListTyped, WholeTo, Lies, NoneEmpty, EndOf, LoadsWhole, ReadsOn, LastDropped, AllApplied, cheatListVars, appVars, bufferVars, threadVars, fileVars, None
  <2> QED
    BY <2>1, <2>2, <2>3, <2>4 DEF ListInv
<1>6. CASE OpensList
  <2>1. CASE CurrentTitle # "none" /\ (cheatTitleInfo # CurrentTitle \/ cheatCount = 0)
    <3>1. /\ application # 0 /\ launched[application] = CurrentTitle
          /\ listPlace' = "load" /\ askedPid' = application
          /\ cheatCount' = 0 /\ cheatTitleInfo' = CurrentTitle
          /\ loadedCheat' = -1 /\ cheatSize' = 0 /\ fileLines' = 0
          /\ sections' = <<>> /\ fileRead' = "part"
          /\ UNCHANGED <<launched, application, cheats>>
      BY <1>6, <2>1 DEF OpensList, CurrentTitle, appVars, None
    <3>2. ListTyped'
      BY <2>1, <3>1, EmptySeq DEF ListInv, ListTyped, None
    <3>3. ListOfTheAsked'
      BY <3>1 DEF ListOfTheAsked
    <3>4. WholeTo(cheatCount)' /\ ReadsOn'
      BY <3>1, EmptySeq DEF WholeTo, ReadsOn, NoneEmpty
    <3>5. LoadsWhole' /\ ListsWhole'
      BY <3>1, <3>4 DEF LoadsWhole, ListsWhole
    <3> QED
      BY <3>2, <3>3, <3>5 DEF ListInv
  <2>2. CASE ~(CurrentTitle # "none" /\ (cheatTitleInfo # CurrentTitle \/ cheatCount = 0))
    <3>1. /\ listPlace' = "list" /\ askedPid' = application
          /\ UNCHANGED <<launched, application, cheats, cheatCount, cheatTitleInfo, loadedCheat,
                         cheatSize, fileLines, sections, fileRead>>
      BY <1>6, <2>2 DEF OpensList, appVars, fileVars
    <3>2. listPlace = "idle"
      BY <1>6 DEF OpensList
    <3>3. ListTyped'
      BY <3>1 DEF ListInv, ListTyped, None
    <3>4. application # 0 => CurrentTitle \in CheatTitles /\ CurrentTitle = launched[application]
      BY DEF CurrentTitle, ListInv, ListTyped
    <3>5. ListOfTheAsked'
      BY <2>2, <3>1, <3>4 DEF ListOfTheAsked
    <3>6. LoadsWhole' /\ ListsWhole'
      BY <3>1, <3>2 DEF ListInv, LoadsWhole, ListsWhole, WholeTo, Lies, NoneEmpty, EndOf
    <3> QED
      BY <3>3, <3>5, <3>6 DEF ListInv
  <2> QED
    BY <2>1, <2>2
<1>7. CASE NoFile
  <2>1. ListTyped'
    BY <1>7 DEF ListInv, ListTyped, EndOf, NoCheat, NoFile, ShowsList, cheatListVars, appVars, bufferVars, threadVars, fileVars, None
  <2>2. ListOfTheAsked'
    BY <1>7 DEF ListInv, ListOfTheAsked, ListTyped, NoFile, ShowsList, cheatListVars, appVars, bufferVars, threadVars, fileVars, None
  <2>3. LoadsWhole'
    BY <1>7 DEF ListInv, LoadsWhole, ListTyped, WholeTo, Lies, ReadsOn, LastDropped, NoneEmpty, EndOf, NoFile, ShowsList, cheatListVars, appVars, bufferVars, threadVars, fileVars, None
  <2>4. ListsWhole'
    BY <1>7 DEF ListInv, ListsWhole, ListTyped, WholeTo, Lies, NoneEmpty, EndOf, LoadsWhole, ReadsOn, LastDropped, NoFile, ShowsList, cheatListVars, appVars, bufferVars, threadVars, fileVars, None
  <2> QED
    BY <2>1, <2>2, <2>3, <2>4 DEF ListInv
<1>8. CASE ReadsName
  <2>1. /\ listPlace = "load" /\ fileRead = "part" /\ fileLines' = fileLines + 1
        /\ UNCHANGED <<launched, application, cheatTitleInfo, listPlace, askedPid>>
    BY <1>8 DEF ReadsName, ReadsLine, appVars, threadVars
  <2>2. CASE loadedCheat # None /\ cheats[loadedCheat].codesCount = 0
    <3>1. UNCHANGED <<cheats, cheatCount, loadedCheat, cheatSize, sections, fileRead>>
      BY <1>8, <2>2 DEF ReadsName
    <3> QED
      BY <2>1, <3>1, ListStays DEF ListInv, ListTyped
  <2>3. CASE /\ ~(loadedCheat # None /\ cheats[loadedCheat].codesCount = 0)
             /\ cheatSize + DescriptionSize >= BufferSize
    <3>1. fileRead' = "full" /\ UNCHANGED <<cheats, cheatCount, loadedCheat, cheatSize, sections>>
      BY <1>8, <2>3 DEF ReadsName
    <3>2. ListTyped' /\ ListOfTheAsked' /\ ListsWhole'
      BY <2>1, <3>1 DEF ListInv, ListTyped, ListOfTheAsked, ListsWhole
    <3>3. Len(sections) < CountSize => WholeTo(cheatCount) /\ ReadsOn
      BY <2>1 DEF ListInv, LoadsWhole, LastDropped
    <3>4. ASSUME Len(sections) < CountSize
          PROVE  WholeTo(cheatCount)' /\ ReadsOn'
      <4>1. cheatCount > 0 => sections[cheatCount] > 0
        BY <2>3, <3>3, <3>4, LastHasCodes
      <4> QED
        BY <3>1, <3>3, <3>4, <4>1 DEF ReadsOn, WholeTo, Lies, NoneEmpty, EndOf
    <3>5. LoadsWhole'
      BY <2>1, <3>1, <3>4 DEF LoadsWhole
    <3> QED
      BY <3>2, <3>5 DEF ListInv
  <2>4. CASE /\ ~(loadedCheat # None /\ cheats[loadedCheat].codesCount = 0)
             /\ ~(cheatSize + DescriptionSize >= BufferSize)
    <3> DEFINE new == AllocCheat
    <3>1. /\ cheats' = [cheats EXCEPT ![cheatCount] = new]
          /\ loadedCheat' = cheatCount
          /\ cheatCount' = (cheatCount + 1) % CountSize
          /\ cheatSize' = cheatSize + DescriptionSize
          /\ sections' = Append(sections, 0) /\ fileRead' = fileRead
      BY <1>8, <2>4 DEF ReadsName
    <3>2. /\ new = [start |-> new.start, codesCount |-> 0, active |-> FALSE]
          /\ new.start = IF cheatCount = 0 THEN 0 ELSE EndOf(cheats[cheatCount - 1])
          /\ new.codesCount = 0 /\ new.active = FALSE
      BY DEF AllocCheat
    <3> HIDE DEF new
    <3>3. new.start \in Nat
      <4>1. cheatCount # 0 => EndOf(cheats[cheatCount - 1]) \in Nat
        BY EndsSomewhere DEF ListInv, ListTyped
      <4> QED
        BY <3>2, <4>1
    <3>4. Described(new)
      BY <3>2, <3>3 DEF Described
    <3>11. cheatCount \in 0 .. CountSize - 1
      BY DEF ListInv, ListTyped
    <3>12. /\ cheats' = [i \in 0 .. CountSize - 1 |-> cheats'[i]]
           /\ \A i \in 0 .. CountSize - 1 : Described(cheats'[i])
           /\ cheats'[cheatCount] = new
           /\ \A i \in 0 .. CountSize - 1 : i # cheatCount => cheats'[i] = cheats[i]
      BY <3>1, <3>4, <3>11, OneChanged DEF ListInv, ListTyped
    <3>5. /\ sections' \in Seq(Nat) /\ Len(sections') = Len(sections) + 1
          /\ sections'[Len(sections) + 1] = 0
          /\ \A i \in 1 .. Len(sections) : sections'[i] = sections[i]
      BY <3>1, AppendProperties DEF ListInv, ListTyped
    <3>6. (cheatCount + 1) % CountSize \in 0 .. CountSize - 1
      BY DEF ListInv, ListTyped
    <3>7. ListTyped'
      <4>1. /\ launched' \in Seq(CheatTitles) /\ application' \in 0 .. Len(launched')
            /\ cheatCount' \in 0 .. CountSize - 1 /\ cheatTitleInfo' # "none"
            /\ listPlace' \in {"idle", "apply", "load", "list"}
            /\ askedPid' \in 0 .. Len(launched')
            /\ loadedCheat' \in {None} \cup 0 .. CountSize - 1
            /\ cheatSize' \in Nat /\ fileLines' \in Nat
        <5>1. fileLines' \in Nat /\ cheatSize' \in Nat
          <6>1. fileLines \in Nat /\ cheatSize \in Nat
            BY DEF ListInv, ListTyped
          <6> QED
            BY <2>1, <3>1, <6>1
        <5>2. cheatCount' \in 0 .. CountSize - 1 /\ loadedCheat' \in {None} \cup 0 .. CountSize - 1
          BY <3>1, <3>6, <3>11
        <5> QED
          BY <2>1, <5>1, <5>2 DEF ListInv, ListTyped
      <4> QED
        BY <3>5, <3>12, <4>1 DEF ListTyped
    <3>8. ListOfTheAsked' /\ ListsWhole'
      BY <2>1, <3>1 DEF ListInv, ListOfTheAsked, ListsWhole
    <3>9. ASSUME Len(sections') < CountSize
          PROVE  WholeTo(cheatCount)' /\ ReadsOn'
      <4>1. WholeTo(cheatCount) /\ ReadsOn /\ Len(sections) \in Nat
        BY <2>1, <3>5, <3>9 DEF ListInv, ListTyped, LoadsWhole, LastDropped
      <4>2. cheatCount' = cheatCount + 1 /\ cheatCount = Len(sections) /\ cheatCount \in Nat
        <5>1. cheatCount + 1 < CountSize /\ cheatCount = Len(sections) /\ cheatCount \in Nat
          BY <3>5, <3>9, <4>1 DEF ReadsOn
        <5> QED
          BY <3>1, <5>1, SmallRemainder
      <4>3. /\ cheats'[cheatCount] = new
            /\ \A i \in 0 .. cheatCount - 1 : cheats'[i] = cheats[i]
        BY <3>11, <3>12, <4>2
      <4>4. new.start = cheatSize
        BY <3>2, <4>1 DEF ReadsOn
      <4>5. EndOf(new) = cheatSize + DescriptionSize /\ EndOf(new) =< BufferSize
        BY <2>4, <3>2, <3>4, <4>4, EndsSomewhere DEF ListInv, ListTyped
      <4>6. ASSUME NEW i \in 0 .. cheatCount
            PROVE  Lies(i)' /\ cheats'[i].codesCount = sections'[i + 1]
        <5>1. CASE i = cheatCount
          <6>1. cheats'[i] = new /\ sections'[i + 1] = 0
            BY <3>5, <4>2, <4>3, <5>1
          <6>2. cheats'[i].codesCount = sections'[i + 1]
            BY <3>2, <6>1
          <6>3. i # 0 => i - 1 \in 0 .. cheatCount - 1 /\ cheats'[i - 1] = cheats[i - 1]
            BY <4>2, <4>3, <5>1
          <6>4. cheats'[i].start = IF i = 0 THEN 0 ELSE EndOf(cheats'[i - 1])
            <7>1. CASE i = 0
              BY <3>2, <5>1, <6>1, <7>1
            <7>2. CASE i # 0
              BY <3>2, <5>1, <6>1, <6>3, <7>2
            <7> QED
              BY <7>1, <7>2
          <6>5. EndOf(cheats'[i]) =< BufferSize
            BY <4>5, <6>1
          <6>6. Lies(i)'
            BY <6>4, <6>5 DEF Lies, EndOf
          <6> QED
            BY <6>2, <6>6
        <5>2. CASE i \in 0 .. cheatCount - 1
          <6>1. /\ cheats'[i] = cheats[i] /\ sections'[i + 1] = sections[i + 1]
                /\ i # 0 => cheats'[i - 1] = cheats[i - 1]
            <7>1. i + 1 \in 1 .. Len(sections) /\ (i # 0 => i - 1 \in 0 .. cheatCount - 1)
              BY <4>2, <5>2
            <7> QED
              BY <3>5, <4>3, <5>2, <7>1
          <6> QED
            BY <4>1, <5>2, <6>1 DEF WholeTo, Lies, EndOf
        <5> QED
          BY <4>2, <5>1, <5>2
      <4>7. NoneEmpty(cheatCount)
        <5>1. cheatCount > 0 => sections[cheatCount] > 0
          BY <2>4, <4>1, LastHasCodes
        <5> QED
          BY <4>1, <4>2, <5>1 DEF ReadsOn, NoneEmpty
      <4>8. ReadsOn'
        BY <2>1, <3>1, <3>5, <4>2, <4>3, <4>5, <4>7 DEF ReadsOn, NoneEmpty
      <4> QED
        BY <4>2, <4>6, <4>8 DEF WholeTo
    <3>10. LoadsWhole'
      <4>1. fileLines' # 0
        BY <2>1 DEF ListInv, ListTyped
      <4> QED
        BY <3>9, <4>1 DEF LoadsWhole
    <3> QED
      BY <3>7, <3>8, <3>10 DEF ListInv
  <2> QED
    BY <2>2, <2>3, <2>4
<1>9. CASE ReadsCode
  <2>1. /\ listPlace = "load" /\ fileRead = "part" /\ fileLines' = fileLines + 1
        /\ UNCHANGED <<launched, application, cheatTitleInfo, listPlace, askedPid>>
    BY <1>9 DEF ReadsCode, ReadsLine, appVars, threadVars
  <2>2. fileLines' \in Nat /\ fileLines' # 0
    BY <2>1 DEF ListInv, ListTyped
  <2>3. Len(sections) < CountSize => WholeTo(cheatCount) /\ ReadsOn
    BY <2>1 DEF ListInv, LoadsWhole, LastDropped
  <2>4. ASSUME CountsCode
        PROVE  /\ sections' \in Seq(Nat) /\ Len(sections') = Len(sections)
               /\ \A i \in 1 .. Len(sections) :
                    sections'[i] = IF i = Len(sections) THEN sections[i] + 1 ELSE sections[i]
    BY <2>4, OneMoreCode DEF ListInv, ListTyped
  <2>5. CASE cheatSize + 1 >= BufferSize
    <3>1. /\ cheatCount' = (cheatCount - 1) % CountSize /\ fileRead' = "full" /\ CountsCode
          /\ UNCHANGED <<cheats, loadedCheat, cheatSize>>
      BY <1>9, <2>5 DEF ReadsCode
    <3>2. (cheatCount - 1) % CountSize \in 0 .. CountSize - 1
      BY DEF ListInv, ListTyped
    <3>3. ListTyped'
      BY <2>1, <2>2, <2>4, <3>1, <3>2 DEF ListInv, ListTyped
    <3>4. ListOfTheAsked' /\ ListsWhole'
      BY <2>1 DEF ListInv, ListOfTheAsked, ListsWhole
    <3>5. ASSUME Len(sections') < CountSize
          PROVE  WholeTo(cheatCount)' /\ LastDropped'
      <4>1. WholeTo(cheatCount) /\ ReadsOn /\ Len(sections) \in Nat
        BY <2>3, <2>4, <3>1, <3>5 DEF ListInv, ListTyped
      <4>2. cheatCount # 0
        BY <2>5, <4>1 DEF ReadsOn
      <4>3. cheatCount' = cheatCount - 1 /\ cheatCount \in Nat /\ cheatCount = Len(sections)
        <5>1. /\ cheatCount - 1 \in Nat /\ cheatCount - 1 < CountSize
              /\ cheatCount \in Nat /\ cheatCount = Len(sections)
          BY <4>1, <4>2 DEF ReadsOn, ListInv, ListTyped
        <5> QED
          BY <3>1, <5>1, SmallRemainder
      <4>4. \A i \in 1 .. cheatCount - 1 : sections'[i] = sections[i]
        BY <2>4, <3>1, <4>3
      <4>5. WholeTo(cheatCount)'
        <5>1. \A i \in 0 .. cheatCount - 2 : i \in 0 .. cheatCount - 1 /\ i + 1 \in 1 .. cheatCount - 1
          BY <4>3
        <5>2. \A i \in 0 .. cheatCount - 2 : Lies(i) /\ cheats[i].codesCount = sections'[i + 1]
          BY <4>1, <4>4, <5>1 DEF WholeTo
        <5>3. cheatCount' - 1 = cheatCount - 2
          BY <4>3
        <5>4. \A i \in 0 .. cheatCount - 2 : Lies(i)' /\ cheats'[i].codesCount = sections'[i + 1]
          BY <3>1, <5>2 DEF Lies, EndOf
        <5> QED
          BY <5>3, <5>4 DEF WholeTo
      <4>6. NoneEmpty(cheatCount)'
        BY <4>1, <4>3, <4>4 DEF ReadsOn, NoneEmpty
      <4> QED
        BY <2>4, <3>1, <4>3, <4>5, <4>6 DEF LastDropped
    <3>6. LoadsWhole'
      BY <2>2, <3>5 DEF LoadsWhole
    <3> QED
      BY <3>3, <3>4, <3>6 DEF ListInv
  <2>6. CASE ~(cheatSize + 1 >= BufferSize) /\ loadedCheat = None
    <3>1. UNCHANGED <<cheats, cheatCount, loadedCheat, cheatSize, sections, fileRead>>
      BY <1>9, <2>6 DEF ReadsCode
    <3> QED
      BY <2>1, <3>1, ListStays DEF ListInv, ListTyped
  <2>7. CASE ~(cheatSize + 1 >= BufferSize) /\ loadedCheat # None
    <3>1. /\ cheats' = [cheats EXCEPT ![loadedCheat].codesCount = @ + 1]
          /\ cheatSize' = cheatSize + 1
          /\ CountsCode
          /\ UNCHANGED <<cheatCount, loadedCheat, fileRead>>
      BY <1>9, <2>7 DEF ReadsCode
    <3>2. loadedCheat \in 0 .. CountSize - 1
      BY <2>7 DEF ListInv, ListTyped
    <3>3. /\ cheats' = [i \in 0 .. CountSize - 1 |-> cheats'[i]]
          /\ \A i \in 0 .. CountSize - 1 : Described(cheats'[i])
          /\ \A i \in 0 .. CountSize - 1 :
               /\ cheats'[i].start = cheats[i].start
               /\ cheats'[i].codesCount = IF i = loadedCheat THEN cheats[i].codesCount + 1
                                          ELSE cheats[i].codesCount
      <4> DEFINE new == [cheats[loadedCheat] EXCEPT !.codesCount = @ + 1]
      <4>1. /\ Described(new) /\ new.start = cheats[loadedCheat].start
            /\ new.codesCount = cheats[loadedCheat].codesCount + 1
        BY <3>2, FieldsChanged DEF ListInv, ListTyped
      <4>2. cheats' = [cheats EXCEPT ![loadedCheat] = new]
        BY <3>1
      <4> HIDE DEF new
      <4> QED
        BY <3>2, <4>1, <4>2, OneChanged DEF ListInv, ListTyped
    <3>4. ListTyped'
      <4>1. /\ launched' \in Seq(CheatTitles) /\ application' \in 0 .. Len(launched')
            /\ cheatCount' \in 0 .. CountSize - 1 /\ cheatTitleInfo' # "none"
            /\ listPlace' \in {"idle", "apply", "load", "list"}
            /\ askedPid' \in 0 .. Len(launched')
            /\ loadedCheat' \in {None} \cup 0 .. CountSize - 1
            /\ cheatSize' \in Nat /\ fileLines' \in Nat
        BY <2>1, <2>2, <3>1 DEF ListInv, ListTyped
      <4> QED
        BY <2>4, <3>1, <3>3, <4>1 DEF ListTyped
    <3>5. ListOfTheAsked' /\ ListsWhole'
      BY <2>1, <3>1 DEF ListInv, ListOfTheAsked, ListsWhole
    <3>6. ASSUME Len(sections') < CountSize
          PROVE  WholeTo(cheatCount)' /\ ReadsOn'
      <4>1. WholeTo(cheatCount) /\ ReadsOn /\ Len(sections) \in Nat
        BY <2>3, <2>4, <3>1, <3>6 DEF ListInv, ListTyped
      <4>2. /\ loadedCheat = cheatCount - 1 /\ cheatCount = Len(sections) /\ cheatCount > 0
            /\ cheatCount \in 0 .. CountSize - 1
        BY <3>2, <4>1 DEF ReadsOn, ListInv, ListTyped
      <4>3. cheatSize = EndOf(cheats[loadedCheat])
        BY <4>1, <4>2 DEF ReadsOn
      <4>4. EndOf(cheats'[loadedCheat]) = cheatSize + 1
        <5>1. Described(cheats[loadedCheat]) /\ Described(cheats'[loadedCheat])
          BY <3>2, <3>3 DEF ListInv, ListTyped
        <5>2. cheats[loadedCheat].start \in Nat /\ cheats[loadedCheat].codesCount \in Nat
          BY <5>1 DEF Described
        <5> QED
          <6>1. /\ cheats'[loadedCheat].start = cheats[loadedCheat].start
                /\ cheats'[loadedCheat].codesCount = cheats[loadedCheat].codesCount + 1
            BY <3>2, <3>3
          <6>2. /\ EndOf(cheats'[loadedCheat]) = cheats'[loadedCheat].start + DescriptionSize
                                                  + cheats'[loadedCheat].codesCount
                /\ cheatSize = cheats[loadedCheat].start + DescriptionSize
                               + cheats[loadedCheat].codesCount
            BY <4>3, <5>1, EndsSomewhere
          <6> QED
            BY <5>2, <6>1, <6>2
      <4>5. cheatSize + 1 =< BufferSize
        BY <2>7 DEF ListInv, ListTyped
      <4>6. \A i \in 0 .. cheatCount - 2 : EndOf(cheats'[i]) = EndOf(cheats[i])
        <5> SUFFICES ASSUME NEW i \in 0 .. cheatCount - 2
                     PROVE  EndOf(cheats'[i]) = EndOf(cheats[i])
          OBVIOUS
        <5>1. i \in 0 .. CountSize - 1 /\ i # loadedCheat
          BY <4>2
        <5>2. cheats'[i].start = cheats[i].start /\ cheats'[i].codesCount = cheats[i].codesCount
          BY <3>3, <5>1
        <5> QED
          BY <5>2 DEF EndOf
      <4>7. ASSUME NEW i \in 0 .. cheatCount - 1
            PROVE  Lies(i)' /\ cheats'[i].codesCount = sections'[i + 1]
        <5>1. /\ cheats[i].start = IF i = 0 THEN 0 ELSE EndOf(cheats[i - 1])
              /\ EndOf(cheats[i]) =< BufferSize
              /\ cheats[i].codesCount = sections[i + 1]
          BY <4>1 DEF WholeTo, Lies
        <5>2. cheats'[i].start = IF i = 0 THEN 0 ELSE EndOf(cheats'[i - 1])
          <6>1. CASE i = 0
            BY <3>3, <4>2, <5>1, <6>1
          <6>2. CASE i # 0
            BY <3>3, <4>2, <4>6, <5>1, <6>2
          <6> QED
            BY <6>1, <6>2
        <5>3. EndOf(cheats'[i]) =< BufferSize
          BY <4>2, <4>4, <4>5, <4>6, <5>1
        <5>4. cheats'[i].codesCount = sections'[i + 1]
          <6>1. i + 1 \in 1 .. Len(sections) /\ i \in 0 .. CountSize - 1
            BY <4>2
          <6>2. sections'[i + 1] = IF i + 1 = Len(sections) THEN sections[i + 1] + 1
                                   ELSE sections[i + 1]
            BY <2>4, <3>1, <6>1
          <6>3. i + 1 = Len(sections) <=> i = loadedCheat
            BY <4>2
          <6>4. cheats'[i].codesCount = IF i = loadedCheat THEN cheats[i].codesCount + 1
                                        ELSE cheats[i].codesCount
            BY <3>3, <6>1
          <6> QED
            BY <5>1, <6>2, <6>3, <6>4
        <5>5. Lies(i)'
          BY <5>2, <5>3 DEF Lies, EndOf
        <5> QED
          BY <5>4, <5>5
      <4>8. ReadsOn'
        <5>1. NoneEmpty(cheatCount - 1)'
          BY <2>4, <3>1, <4>1, <4>2 DEF ReadsOn, NoneEmpty
        <5> QED
          BY <2>1, <2>4, <3>1, <4>2, <4>4, <5>1 DEF ReadsOn, EndOf
      <4> QED
        BY <3>1, <4>7, <4>8 DEF WholeTo
    <3>7. LoadsWhole'
      BY <2>2, <3>6 DEF LoadsWhole
    <3> QED
      BY <3>4, <3>5, <3>7 DEF ListInv
  <2> QED
    BY <2>5, <2>6, <2>7
<1>10. CASE ReadsNoMore
  <2>1. ListTyped'
    BY <1>10 DEF ListInv, ListTyped, EndOf, NoCheat, ReadsNoMore, cheatListVars, appVars, bufferVars, threadVars, fileVars, None
  <2>2. ListOfTheAsked'
    BY <1>10 DEF ListInv, ListOfTheAsked, ListTyped, ReadsNoMore, cheatListVars, appVars, bufferVars, threadVars, fileVars, None
  <2>3. LoadsWhole'
    BY <1>10 DEF ListInv, LoadsWhole, ListTyped, WholeTo, Lies, ReadsOn, LastDropped, NoneEmpty, EndOf, ReadsNoMore, cheatListVars, appVars, bufferVars, threadVars, fileVars, None
  <2>4. ListsWhole'
    BY <1>10 DEF ListInv, ListsWhole, ListTyped, WholeTo, Lies, NoneEmpty, EndOf, LoadsWhole, ReadsOn, LastDropped, ReadsNoMore, cheatListVars, appVars, bufferVars, threadVars, fileVars, None
  <2> QED
    BY <2>1, <2>2, <2>3, <2>4 DEF ListInv
<1>11. CASE ListLoaded
  <2>1. /\ listPlace = "load" /\ fileRead # "part" /\ listPlace' = "list"
        /\ loadedCheat' = -1 /\ cheatSize' = 0 /\ fileLines' = 0
        /\ UNCHANGED <<launched, application, cheats, cheatTitleInfo, askedPid, sections, fileRead>>
    BY <1>11 DEF ListLoaded, ShowsList, None, appVars
  <2>2. cheatCount' = IF cheatCount > 0 /\ cheats[cheatCount - 1].codesCount = 0
                      THEN cheatCount - 1 ELSE cheatCount
    BY <1>11 DEF ListLoaded
  <2>3. cheatCount' \in 0 .. CountSize - 1 /\ cheatCount' \in {cheatCount, cheatCount - 1}
    BY <2>2 DEF ListInv, ListTyped
  <2>4. ListTyped'
    BY <2>1, <2>3 DEF ListInv, ListTyped, None
  <2>5. ListOfTheAsked'
    BY <2>1 DEF ListInv, ListOfTheAsked
  <2>6. LoadsWhole'
    BY <2>1 DEF LoadsWhole
  <2>7. ASSUME cheatCount' > 0, Len(sections) < CountSize
        PROVE  /\ WholeTo(cheatCount') /\ NoneEmpty(cheatCount')
               /\ cheatCount' =< Len(sections)
               /\ cheatCount' < Len(sections) =>
                    /\ cheatCount' = Len(sections) - 1
                    /\ sections[cheatCount' + 1] = 0 \/ fileRead = "full"
    <3>1. /\ ReadsOn \/ LastDropped
          /\ WholeTo(cheatCount)
          /\ cheatCount \in Nat /\ Len(sections) \in Nat /\ sections \in Seq(Nat)
      BY <2>1, <2>7 DEF ListInv, ListTyped, LoadsWhole
    <3>2. cheatCount > 0
      BY <2>3, <2>7, <3>1
    <3>3. cheats[cheatCount - 1].codesCount = sections[cheatCount]
      BY <3>1, <3>2 DEF WholeTo
    <3>4. WholeTo(cheatCount')
      <4>1. \A i \in 0 .. cheatCount' - 1 : i \in 0 .. cheatCount - 1
        <5>1. cheatCount' \in Nat /\ cheatCount' =< cheatCount
          BY <2>3, <3>1
        <5>2. cheatCount \in Nat
          BY <3>1
        <5> QED
          BY <5>1, <5>2, EarlierOnes
      <4> QED
        BY <3>1, <4>1 DEF WholeTo
    <3>5. CASE ReadsOn
      <4>1. sections[cheatCount] \in Nat
        BY <3>1, <3>2, <3>5 DEF ReadsOn
      <4>2. CASE cheats[cheatCount - 1].codesCount = 0
        BY <2>2, <3>1, <3>2, <3>3, <3>4, <3>5, <4>2 DEF ReadsOn, NoneEmpty
      <4>3. CASE cheats[cheatCount - 1].codesCount # 0
        BY <2>2, <3>1, <3>2, <3>3, <3>4, <3>5, <4>1, <4>3 DEF ReadsOn, NoneEmpty
      <4> QED
        BY <4>2, <4>3
    <3>6. CASE LastDropped
      <4>1. sections[cheatCount] > 0
        BY <3>1, <3>2, <3>6 DEF LastDropped, NoneEmpty
      <4>2. cheatCount' = cheatCount
        BY <2>2, <3>3, <4>1
      <4> QED
        BY <3>1, <3>4, <3>6, <4>2 DEF LastDropped
    <3> QED
      BY <3>1, <3>5, <3>6
  <2>8. ListsWhole'
    BY <2>1, <2>7 DEF ListsWhole, WholeTo, Lies, NoneEmpty, EndOf
  <2> QED
    BY <2>4, <2>5, <2>6, <2>8 DEF ListInv
<1>12. CASE \E i \in 0 .. CountSize - 1 : Deactivates(i)
  <2> SUFFICES ASSUME NEW i \in 0 .. CountSize - 1, Deactivates(i)
               PROVE  ListInv'
    BY <1>12
  <2>1. /\ listPlace = "list"
        /\ UNCHANGED <<appVars, cheatCount, cheatTitleInfo, listPlace, askedPid, fileVars>>
        /\ cheats' = cheats \/ cheats' = [cheats EXCEPT ![i].active = FALSE]
    BY DEF Deactivates, threadVars
  <2>2. /\ cheats' = [j \in 0 .. CountSize - 1 |-> cheats'[j]]
        /\ \A j \in 0 .. CountSize - 1 : Described(cheats'[j])
        /\ \A j \in 0 .. CountSize - 1 :
             cheats'[j].start = cheats[j].start /\ cheats'[j].codesCount = cheats[j].codesCount
    <3>1. CASE cheats' = cheats
      BY <3>1 DEF ListInv, ListTyped
    <3>2. CASE cheats' # cheats
      <4> DEFINE new == [cheats[i] EXCEPT !.active = FALSE]
      <4>1. /\ Described(new) /\ new.start = cheats[i].start
            /\ new.codesCount = cheats[i].codesCount
        BY FieldsChanged DEF ListInv, ListTyped
      <4>2. cheats' = [cheats EXCEPT ![i] = new]
        BY <2>1, <3>2
      <4> HIDE DEF new
      <4> QED
        BY <4>1, <4>2, OneChanged DEF ListInv, ListTyped
    <3> QED
      BY <3>1, <3>2
  <2> QED
    BY <2>1, <2>2, ListOnlyMarked
<1>13. CASE \E i \in 0 .. CountSize - 1 : Activates(i)
  <2> SUFFICES ASSUME NEW i \in 0 .. CountSize - 1, Activates(i)
               PROVE  ListInv'
    BY <1>13
  <2>1. /\ listPlace = "list"
        /\ UNCHANGED <<appVars, cheatCount, cheatTitleInfo, listPlace, askedPid, fileVars>>
        /\ cheats' = cheats \/ cheats' = [cheats EXCEPT ![i].active = TRUE]
    BY DEF Activates, threadVars
  <2>2. /\ cheats' = [j \in 0 .. CountSize - 1 |-> cheats'[j]]
        /\ \A j \in 0 .. CountSize - 1 : Described(cheats'[j])
        /\ \A j \in 0 .. CountSize - 1 :
             cheats'[j].start = cheats[j].start /\ cheats'[j].codesCount = cheats[j].codesCount
    <3>1. CASE cheats' = cheats
      BY <3>1 DEF ListInv, ListTyped
    <3>2. CASE cheats' # cheats
      <4> DEFINE new == [cheats[i] EXCEPT !.active = TRUE]
      <4>1. /\ Described(new) /\ new.start = cheats[i].start
            /\ new.codesCount = cheats[i].codesCount
        BY FieldsChanged DEF ListInv, ListTyped
      <4>2. cheats' = [cheats EXCEPT ![i] = new]
        BY <2>1, <3>2
      <4> HIDE DEF new
      <4> QED
        BY <4>1, <4>2, OneChanged DEF ListInv, ListTyped
    <3> QED
      BY <3>1, <3>2
  <2> QED
    BY <2>1, <2>2, ListOnlyMarked
<1>14. CASE ClosesList
  <2>1. ListTyped'
    BY <1>14 DEF ListInv, ListTyped, EndOf, NoCheat, ClosesList, cheatListVars, appVars, bufferVars, threadVars, fileVars, None
  <2>2. ListOfTheAsked'
    BY <1>14 DEF ListInv, ListOfTheAsked, ListTyped, ClosesList, cheatListVars, appVars, bufferVars, threadVars, fileVars, None
  <2>3. LoadsWhole'
    BY <1>14 DEF ListInv, LoadsWhole, ListTyped, WholeTo, Lies, ReadsOn, LastDropped, NoneEmpty, EndOf, ClosesList, cheatListVars, appVars, bufferVars, threadVars, fileVars, None
  <2>4. ListsWhole'
    BY <1>14 DEF ListInv, ListsWhole, ListTyped, WholeTo, Lies, NoneEmpty, EndOf, LoadsWhole, ReadsOn, LastDropped, ClosesList, cheatListVars, appVars, bufferVars, threadVars, fileVars, None
  <2> QED
    BY <2>1, <2>2, <2>3, <2>4 DEF ListInv
<1>15. CASE UNCHANGED cheatListVars
  <2>1. ListTyped'
    BY <1>15 DEF ListInv, ListTyped, EndOf, NoCheat, cheatListVars, cheatListVars, appVars, bufferVars, threadVars, fileVars, None
  <2>2. ListOfTheAsked'
    BY <1>15 DEF ListInv, ListOfTheAsked, ListTyped, cheatListVars, cheatListVars, appVars, bufferVars, threadVars, fileVars, None
  <2>3. LoadsWhole'
    BY <1>15 DEF ListInv, LoadsWhole, ListTyped, WholeTo, Lies, ReadsOn, LastDropped, NoneEmpty, EndOf, cheatListVars, cheatListVars, appVars, bufferVars, threadVars, fileVars, None
  <2>4. ListsWhole'
    BY <1>15 DEF ListInv, ListsWhole, ListTyped, WholeTo, Lies, NoneEmpty, EndOf, LoadsWhole, ReadsOn, LastDropped, cheatListVars, cheatListVars, appVars, bufferVars, threadVars, fileVars, None
  <2> QED
    BY <2>1, <2>2, <2>3, <2>4 DEF ListInv
<1> QED
  BY <1>1, <1>2, <1>3, <1>4, <1>5, <1>6, <1>7, <1>8, <1>9, <1>10, <1>11, <1>12, <1>13, <1>14, <1>15 DEF ListNext

LEMMA ListInitially == ListInit => ListInv
<1> SUFFICES ASSUME ListInit
             PROVE  ListInv
  OBVIOUS
<1>1. ListTyped
  BY ListSizes, EmptySeq DEF ListInit, ListTyped, Described, NoCheat, None
<1>2. ListOfTheAsked /\ LoadsWhole /\ ListsWhole
  BY DEF ListInit, ListOfTheAsked, LoadsWhole, ListsWhole
<1> QED
  BY <1>1, <1>2 DEF ListInv

LEMMA ListWhole ==
  ASSUME ListInv, listPlace # "load", cheatCount > 0
  PROVE  ListedCheatsWhole
<1> SUFFICES ASSUME Len(sections) < CountSize
             PROVE  /\ \A i \in 0 .. cheatCount - 1 :
                         /\ cheats[i].codesCount = sections[i + 1] /\ sections[i + 1] > 0
                         /\ cheats[i].start = IF i = 0 THEN 0 ELSE EndOf(cheats[i - 1])
                    /\ EndOf(cheats[cheatCount - 1]) =< BufferSize
                    /\ \A i \in cheatCount + 1 .. Len(sections) :
                         i = Len(sections) /\ (sections[i] = 0 \/ fileRead = "full")
  BY DEF ListedCheatsWhole
<1>1. /\ WholeTo(cheatCount) /\ NoneEmpty(cheatCount)
      /\ cheatCount < Len(sections) =>
           /\ cheatCount = Len(sections) - 1
           /\ sections[cheatCount + 1] = 0 \/ fileRead = "full"
      /\ cheatCount \in Nat /\ Len(sections) \in Nat
  BY DEF ListInv, ListTyped, ListsWhole
<1>2. \A i \in 0 .. cheatCount - 1 :
        /\ cheats[i].codesCount = sections[i + 1]
        /\ cheats[i].start = IF i = 0 THEN 0 ELSE EndOf(cheats[i - 1])
        /\ EndOf(cheats[i]) =< BufferSize
  BY <1>1 DEF WholeTo, Lies
<1>3. \A i \in 0 .. cheatCount - 1 : sections[i + 1] > 0
  BY <1>1 DEF NoneEmpty
<1>4. EndOf(cheats[cheatCount - 1]) =< BufferSize
  BY <1>1, <1>2
<1>5. \A i \in cheatCount + 1 .. Len(sections) :
        i = Len(sections) /\ (sections[i] = 0 \/ fileRead = "full")
  BY <1>1
<1> QED
  BY <1>2, <1>3, <1>4, <1>5

-----------------------------------------------------------------------------
(* The lines of a cheat *)

\* One of the first n conditions was found false.
AnyFalse(found, n) == \E i \in 1 .. n : ~found[i]

\* What ifStack was with each of the conditions: a bit more for every one,
\* which is set from the first one on that was found false.
StackOf(s, found) ==
  /\ s[0] = 0
  /\ \A i \in 0 .. Len(found) : s[i] \in Nat
  /\ \A i \in 1 .. Len(found) :
       /\ s[i] \in {2 * s[i - 1], 2 * s[i - 1] + 1}
       /\ s[i] % 2 = 1 <=> AnyFalse(found, i)

Encodes(stack, count, found) ==
  /\ found \in Seq(BOOLEAN) /\ count = Len(found)
  /\ \E s : StackOf(s, found) /\ s[Len(found)] = stack

\* While no bit was lost, ifStack holds the open conditions, and what is
\* stored those that were open at the repeat.
CheatInv ==
  ~forgotten => /\ Encodes(ifStack, ifCount, conditions)
                /\ Encodes(stored.stack, stored.count, stored.conditions)

LEMMA Halves ==
  ASSUME NEW a \in Nat, NEW b, b \in {2 * a, 2 * a + 1}
  PROVE  b \in Nat /\ b \div 2 = a
OBVIOUS

LEMMA OddBit ==
  ASSUME NEW a \in Nat
  PROVE  (2 * a) % 2 = 0 /\ (2 * a + 1) % 2 = 1
OBVIOUS

LEMMA NoRemainder ==
  ASSUME NEW a \in Nat, NEW m \in Int, ~(a >= m)
  PROVE  a % m = a
OBVIOUS

LEMMA CheatConstants ==
  /\ StackValues \in Nat \ {0} /\ CountValues \in Nat \ {0} /\ MaxRepeat \in Nat
  /\ Sizes \subseteq Nat
  /\ LineValues \in Nat \ {0} /\ LineValues \div 2 \in Nat \ {0}
  /\ LineValues = 2 * (LineValues \div 2)
<1>1. LineValues \in Nat \ {0} /\ LineValues % 2 = 0
  BY CheatAssumption
<1>2. LineValues \div 2 \in Nat \ {0} /\ LineValues = 2 * (LineValues \div 2)
  BY <1>1
<1> QED
  BY <1>1, <1>2, CheatAssumption

LEMMA NothingEncoded == Encodes(0, 0, <<>>)
<1> DEFINE s == [i \in 0 .. 0 |-> 0]
<1>1. StackOf(s, <<>>) /\ s[Len(<<>>)] = 0
  BY DEF StackOf
<1>2. <<>> \in Seq(BOOLEAN) /\ 0 = Len(<<>>)
  OBVIOUS
<1> HIDE DEF s
<1> QED
  BY <1>1, <1>2 DEF Encodes

\* The lowest bit tells whether lines are skipped.
LEMMA EncodedSkips ==
  ASSUME NEW stack, NEW count, NEW found, Encodes(stack, count, found)
  PROVE  /\ stack \in Nat /\ count \in Nat
         /\ stack % 2 = 1 <=> AnyFalse(found, Len(found))
<1>1. PICK s : StackOf(s, found) /\ s[Len(found)] = stack
  BY DEF Encodes
<1>2. found \in Seq(BOOLEAN) /\ count = Len(found) /\ Len(found) \in Nat
  BY DEF Encodes
<1>3. stack \in Nat
  BY <1>1, <1>2 DEF StackOf
<1>4. CASE Len(found) = 0
  <2>1. stack = 0 /\ ~AnyFalse(found, Len(found))
    BY <1>1, <1>4 DEF StackOf, AnyFalse
  <2>2. stack % 2 # 1
    BY <2>1
  <2> QED
    BY <1>2, <1>3, <2>1, <2>2
<1>5. CASE Len(found) # 0
  <2>1. Len(found) \in 1 .. Len(found)
    BY <1>2, <1>5
  <2>2. stack % 2 = 1 <=> AnyFalse(found, Len(found))
    BY <1>1, <2>1 DEF StackOf
  <2> QED
    BY <1>2, <1>3, <2>2
<1> QED
  BY <1>4, <1>5

LEMMA AppendedFalse ==
  ASSUME NEW found \in Seq(BOOLEAN), NEW f \in BOOLEAN
  PROVE  /\ Append(found, f) \in Seq(BOOLEAN) /\ Len(Append(found, f)) = Len(found) + 1
         /\ \A i \in 0 .. Len(found) : AnyFalse(Append(found, f), i) <=> AnyFalse(found, i)
         /\ AnyFalse(Append(found, f), Len(found) + 1) <=> AnyFalse(found, Len(found)) \/ ~f
<1> DEFINE g == Append(found, f)
           n == Len(found)
<1>1. /\ g \in Seq(BOOLEAN) /\ Len(g) = n + 1 /\ n \in Nat
      /\ \A i \in 1 .. n : g[i] = found[i]
      /\ g[n + 1] = f
  BY AppendProperties
<1> HIDE DEF g, n
<1>2. \A i \in 0 .. n : \A j \in 1 .. i : j \in 1 .. n
  BY <1>1
<1>3. \A i \in 0 .. n : AnyFalse(g, i) <=> AnyFalse(found, i)
  BY <1>1, <1>2, Zenon DEF AnyFalse
<1>4. \A j : j \in 1 .. n + 1 <=> j \in 1 .. n \/ j = n + 1
  BY <1>1
<1>5. AnyFalse(g, n + 1) <=> AnyFalse(found, n) \/ ~f
  BY <1>1, <1>4, Zenon DEF AnyFalse
<1> QED
  BY <1>1, <1>3, <1>5 DEF g, n

LEMMA OneMoreEncoded ==
  ASSUME NEW stack, NEW count, NEW found, NEW f \in BOOLEAN, NEW bit \in {0, 1},
         Encodes(stack, count, found), bit = 1 <=> AnyFalse(found, Len(found)) \/ ~f
  PROVE  Encodes(2 * stack + bit, count + 1, Append(found, f))
<1> DEFINE g == Append(found, f)
           n == Len(found)
<1>1. PICK s : StackOf(s, found) /\ s[n] = stack
  BY DEF Encodes
<1>2. found \in Seq(BOOLEAN) /\ count = n /\ n \in Nat
  BY DEF Encodes
<1>3. /\ g \in Seq(BOOLEAN) /\ Len(g) = n + 1
      /\ \A i \in 0 .. n : AnyFalse(g, i) <=> AnyFalse(found, i)
      /\ AnyFalse(g, n + 1) <=> AnyFalse(found, n) \/ ~f
  BY <1>2, AppendedFalse
<1>13. AnyFalse(g, n + 1) <=> bit = 1
  BY <1>3, Zenon DEF n
<1>4. stack \in Nat
  BY <1>1, <1>2 DEF StackOf
<1> DEFINE t == [i \in 0 .. n + 1 |-> IF i = n + 1 THEN 2 * stack + bit ELSE s[i]]
<1>5. t[n + 1] = 2 * stack + bit /\ \A i \in 0 .. n : t[i] = s[i]
  BY <1>2
<1> HIDE DEF g, n, t
<1>6. 2 * stack + bit \in Nat /\ ((2 * stack + bit) % 2 = 1 <=> bit = 1)
  <2>1. CASE bit = 1
    BY <1>4, <2>1, OddBit
  <2>2. CASE bit = 0
    BY <1>4, <2>2, OddBit
  <2> QED
    BY <2>1, <2>2
<1>7. t[0] = 0 /\ \A i \in 0 .. n : s[i] \in Nat
  BY <1>1, <1>2, <1>5 DEF StackOf, n
<1>8. \A i \in 0 .. n + 1 : t[i] \in Nat
  <2>1. \A i \in 0 .. n + 1 : i = n + 1 \/ i \in 0 .. n
    BY <1>2
  <2> QED
    BY <1>5, <1>6, <1>7, <2>1
<1>9. ASSUME NEW i \in 1 .. n + 1
      PROVE  /\ t[i] \in {2 * t[i - 1], 2 * t[i - 1] + 1}
             /\ t[i] % 2 = 1 <=> AnyFalse(g, i)
  <2>1. CASE i = n + 1
    <3>1. t[i - 1] = stack
      BY <1>1, <1>2, <1>5, <2>1
    <3>2. t[i] = 2 * stack + bit
      BY <1>5, <2>1
    <3>3. t[i] \in {2 * t[i - 1], 2 * t[i - 1] + 1}
      BY <1>4, <3>1, <3>2
    <3>4. t[i] % 2 = 1 <=> AnyFalse(g, i)
      BY <1>6, <1>13, <2>1, <3>2, Zenon
    <3> QED
      BY <3>3, <3>4
  <2>2. CASE i # n + 1
    <3>1. i \in 1 .. n /\ i \in 0 .. n /\ i - 1 \in 0 .. n
      BY <1>2, <2>2
    <3>2. t[i] = s[i] /\ t[i - 1] = s[i - 1]
      BY <1>5, <3>1
    <3>3. s[i] \in {2 * s[i - 1], 2 * s[i - 1] + 1} /\ (s[i] % 2 = 1 <=> AnyFalse(found, i))
      BY <1>1, <3>1 DEF StackOf, n
    <3> QED
      BY <1>3, <3>1, <3>2, <3>3
  <2> QED
    BY <2>1, <2>2
<1>10. StackOf(t, g) /\ t[Len(g)] = 2 * stack + bit
  BY <1>3, <1>5, <1>7, <1>8, <1>9 DEF StackOf
<1>11. count + 1 = Len(g)
  BY <1>2, <1>3
<1>12. Encodes(2 * stack + bit, count + 1, g)
  BY <1>3, <1>10, <1>11 DEF Encodes
<1> QED
  BY <1>12 DEF g

LEMMA OneLessEncoded ==
  ASSUME NEW stack, NEW count, NEW found, Encodes(stack, count, found), found # <<>>
  PROVE  Encodes(stack \div 2, count - 1, Front(found))
<1> DEFINE g == Front(found)
           n == Len(found)
<1>1. PICK s : StackOf(s, found) /\ s[n] = stack
  BY DEF Encodes
<1>2. found \in Seq(BOOLEAN) /\ count = n /\ n \in Nat /\ n # 0
  BY DEF Encodes
<1>3. /\ g \in Seq(BOOLEAN) /\ Len(g) = n - 1
      /\ \A i \in 1 .. n - 1 : g[i] = found[i]
  BY <1>2 DEF Front
<1> HIDE DEF g, n
<1>4. \A i \in 0 .. n - 1 : /\ i \in 0 .. n
                            /\ \A j \in 1 .. i : j \in 1 .. n - 1
  BY <1>2
<1>5. \A i \in 0 .. n - 1 : AnyFalse(g, i) <=> AnyFalse(found, i)
  BY <1>3, <1>4, Zenon DEF AnyFalse
<1>6. \A i \in 1 .. n - 1 : i \in 1 .. n /\ i \in 0 .. n - 1
  BY <1>2
<1>7. StackOf(s, g)
  BY <1>1, <1>3, <1>4, <1>5, <1>6 DEF StackOf, n
<1>8. stack \div 2 = s[n - 1]
  <2>1. n \in 1 .. n /\ n - 1 \in 0 .. n
    BY <1>2
  <2>2. s[n] \in {2 * s[n - 1], 2 * s[n - 1] + 1} /\ s[n - 1] \in Nat
    BY <1>1, <2>1 DEF StackOf, n
  <2> QED
    BY <1>1, <2>2, Halves
<1>9. count - 1 = Len(g) /\ s[Len(g)] = stack \div 2
  BY <1>2, <1>3, <1>8
<1> QED
  BY <1>3, <1>7, <1>9 DEF Encodes, g

-----------------------------------------------------------------------------

LEMMA CheatInitially == CheatInit => CheatInv
BY NothingEncoded DEF CheatInit, CheatInv

LEMMA CheatEmptied == Cleared => CheatInv'
<1> SUFFICES ASSUME Cleared
             PROVE  CheatInv'
  OBVIOUS
<1>1. /\ ifStack' = 0 /\ ifCount' = 0 /\ conditions' = <<>>
      /\ stored'.stack = 0 /\ stored'.count = 0 /\ stored'.conditions = <<>>
  BY DEF Cleared
<1> QED
  BY <1>1, NothingEncoded DEF CheatInv

LEMMA CheatUntouched ==
  ASSUME CheatInv, UNCHANGED conditionVars, UNCHANGED stored
  PROVE  CheatInv'
BY DEF CheatInv, conditionVars

LEMMA CheatOpens ==
  ASSUME CheatInv, NEW found \in BOOLEAN, OpensCondition(found)
  PROVE  CheatInv'
<1> SUFFICES ASSUME ~forgotten'
             PROVE  /\ Encodes(ifStack, ifCount, conditions)'
                    /\ Encodes(stored.stack, stored.count, stored.conditions)'
  BY DEF CheatInv
<1> DEFINE bit == IF found /\ ~skipExecution THEN 0 ELSE 1
<1>1. /\ ifStack' = (2 * ifStack + bit) % StackValues
      /\ ifCount' = (ifCount + 1) % CountValues
      /\ forgotten' = (forgotten \/ 2 * ifStack + bit >= StackValues \/ ifCount + 1 >= CountValues)
      /\ conditions' = Append(conditions, found) /\ stored' = stored
  BY DEF OpensCondition, loopVars
<1>2. bit \in {0, 1} /\ (bit = 1 <=> skipExecution \/ ~found)
  OBVIOUS
<1> HIDE DEF bit
<1>3. ~forgotten /\ ~(2 * ifStack + bit >= StackValues) /\ ~(ifCount + 1 >= CountValues)
  BY <1>1
<1>4. /\ Encodes(ifStack, ifCount, conditions)
      /\ Encodes(stored.stack, stored.count, stored.conditions)
  BY <1>3 DEF CheatInv
<1>5. /\ ifStack \in Nat /\ ifCount \in Nat
      /\ skipExecution <=> AnyFalse(conditions, Len(conditions))
  BY <1>4, EncodedSkips DEF skipExecution
<1>6. 2 * ifStack + bit \in Nat /\ ifCount + 1 \in Nat
  BY <1>2, <1>5
<1>7. ifStack' = 2 * ifStack + bit /\ ifCount' = ifCount + 1
  BY <1>1, <1>3, <1>6, CheatConstants, NoRemainder
<1>8. bit = 1 <=> AnyFalse(conditions, Len(conditions)) \/ ~found
  BY <1>2, <1>5, Zenon
<1>9. Encodes(2 * ifStack + bit, ifCount + 1, Append(conditions, found))
  BY <1>2, <1>4, <1>8, OneMoreEncoded
<1> QED
  BY <1>1, <1>4, <1>7, <1>9

LEMMA CheatCloses ==
  ASSUME CheatInv, ClosesCondition, UNCHANGED stored,
         ~forgotten => ifCount > 0
  PROVE  CheatInv'
<1> SUFFICES ASSUME ~forgotten'
             PROVE  /\ Encodes(ifStack, ifCount, conditions)'
                    /\ Encodes(stored.stack, stored.count, stored.conditions)'
  BY DEF CheatInv
<1>1. /\ ifStack' = ifStack \div 2 /\ ifCount' = ifCount - 1 /\ ~forgotten
      /\ conditions' = IF conditions = <<>> THEN <<>> ELSE Front(conditions)
  BY DEF ClosesCondition
<1>2. /\ Encodes(ifStack, ifCount, conditions)
      /\ Encodes(stored.stack, stored.count, stored.conditions)
  BY <1>1 DEF CheatInv
<1>3. conditions # <<>>
  BY <1>1, <1>2 DEF Encodes
<1>4. Encodes(ifStack \div 2, ifCount - 1, Front(conditions))
  BY <1>2, <1>3, OneLessEncoded
<1> QED
  BY <1>1, <1>2, <1>3, <1>4

LEMMA CheatClosesAll ==
  ASSUME CheatInv, ClosesAllConditions, UNCHANGED stored
  PROVE  CheatInv'
BY NothingEncoded DEF CheatInv, ClosesAllConditions

\* The end of a condition closes one that was opened since the repeat.
LEMMA EndClosesOne ==
  ASSUME CheatInv, ~forgotten,
         ifCount > (IF loopLine = -1 THEN 0 ELSE stored.count)
  PROVE  ifCount > 0
<1>1. ifCount \in Nat /\ stored.count \in Nat
  BY EncodedSkips DEF CheatInv
<1> QED
  BY <1>1

LEMMA CheatStep == CheatInv /\ [CheatNext]_cheatVars => CheatInv'
<1> SUFFICES ASSUME CheatInv, [CheatNext]_cheatVars
             PROVE  CheatInv'
  OBVIOUS
<1>1. ASSUME Proceeds
      PROVE  CheatInv'
  BY <1>1, CheatUntouched DEF Proceeds, loopVars
<1>2. ASSUME Fails
      PROVE  CheatInv'
  BY <1>2, CheatEmptied DEF Fails, ReturnsToMenu
<1>3. CASE StartCheat
  BY <1>3, CheatEmptied DEF StartCheat
<1>4. CASE ReadLine
  BY <1>4, CheatUntouched DEF ReadLine, loopVars
<1>5. CASE WriteImmediate \/ LoadOffset \/ StoreData \/ LoadData \/ ChangeMemory \/ CopyBytes
  BY <1>1, <1>2, <1>5 DEF WriteImmediate, LoadOffset, StoreData, LoadData, ChangeMemory,
     CopyBytes, Accesses
<1>6. CASE SetRegisters \/ MoveOffset \/ ExchangeRegisters \/ SetModes \/ ChangeRegister
           \/ RandomNumber \/ LastLine
  BY <1>1, <1>2, <1>6 DEF SetRegisters, MoveOffset, ExchangeRegisters, SetModes, ChangeRegister,
     RandomNumber, LastLine
<1>7. CASE WordCondition \/ HalfWordCondition \/ ButtonCondition \/ TouchCondition
  BY <1>2, <1>7, CheatOpens DEF WordCondition, HalfWordCondition, ButtonCondition, TouchCondition
<1>8. CASE Repeat
  BY <1>8 DEF Repeat, conditionVars, CheatInv
<1>9. CASE EndCondition
  <2> DEFINE closes == ifCount > (IF loopLine = -1 THEN 0 ELSE stored.count)
  <2>1. \/ closes /\ ClosesCondition /\ UNCHANGED loopVars
        \/ NextPass /\ UNCHANGED conditionVars
        \/ Proceeds
    BY <1>9 DEF EndCondition
  <2>2. CASE closes /\ ClosesCondition /\ UNCHANGED loopVars
    <3>1. ~forgotten => ifCount > 0
      BY <2>2, EndClosesOne
    <3> QED
      BY <2>2, <3>1, CheatCloses DEF loopVars
  <2>3. CASE NextPass /\ UNCHANGED conditionVars
    BY <2>3, CheatUntouched DEF NextPass
  <2> QED
    BY <1>1, <2>1, <2>2, <2>3
<1>10. CASE BreakRepeat
  BY <1>1, <1>10, CheatUntouched DEF BreakRepeat
<1>11. CASE EndRepeat
  <2>1. CASE loopCount = 0
    BY <1>1, <1>11, <2>1 DEF EndRepeat
  <2>2. CASE loopCount # 0
    <3>1. /\ ifStack' = stored.stack /\ ifCount' = stored.count
          /\ conditions' = stored.conditions
          /\ forgotten' = forgotten /\ stored' = stored
      BY <1>11, <2>2 DEF EndRepeat, NextPass
    <3> QED
      BY <3>1 DEF CheatInv
  <2> QED
    BY <2>1, <2>2
<1>12. CASE EndAll
  <2>1. UNCHANGED stored
    BY <1>12 DEF EndAll, NextPass, loopVars
  <2>2. ClosesAllConditions \/ UNCHANGED conditionVars
    BY <1>12 DEF EndAll
  <2> QED
    BY <2>1, <2>2, CheatClosesAll, CheatUntouched
<1>13. CASE Return
  BY <1>1, <1>13, CheatUntouched DEF Return, loopVars
<1>14. ASSUME NEW size \in Sizes, WriteBytes(size)
       PROVE  CheatInv'
  BY <1>2, <1>14, CheatUntouched DEF WriteBytes, loopVars
<1>15. ASSUME NEW size \in Sizes, Search(size)
       PROVE  CheatInv'
  BY <1>2, <1>15, CheatOpens DEF Search
<1>16. CASE RunsOut
  BY <1>16, CheatEmptied DEF RunsOut, ReturnsToMenu
<1>17. CASE UNCHANGED cheatVars
  BY <1>17, CheatUntouched DEF cheatVars, loopVars
<1> QED
  BY <1>3, <1>4, <1>5, <1>6, <1>7, <1>8, <1>9, <1>10, <1>11, <1>12, <1>13, <1>14, <1>15, <1>16,
     <1>17 DEF CheatNext, ExecuteLine

LEMMA CheatSkips == CheatInv => SkipsForAFalseCondition
<1> SUFFICES ASSUME CheatInv, ~forgotten
             PROVE  /\ skipExecution <=> \E i \in DOMAIN conditions : ~conditions[i]
                    /\ ifCount = Len(conditions)
  BY DEF SkipsForAFalseCondition
<1>1. Encodes(ifStack, ifCount, conditions)
  BY DEF CheatInv
<1>2. conditions \in Seq(BOOLEAN) /\ ifCount = Len(conditions)
  BY <1>1 DEF Encodes
<1>3. DOMAIN conditions = 1 .. Len(conditions)
  BY <1>2
<1>4. skipExecution <=> AnyFalse(conditions, Len(conditions))
  BY <1>1, EncodedSkips DEF skipExecution
<1>5. skipExecution <=> \E i \in DOMAIN conditions : ~conditions[i]
  BY <1>3, <1>4, Zenon DEF AnyFalse
<1> QED
  BY <1>2, <1>5

-----------------------------------------------------------------------------
(* The shape of the interpreter's state *)

\* A line has a number, and what a repeat stored is a stack and a counter.
CheatKnown ==
  /\ CheatTypeOK
  /\ index \in Nat /\ codesCount \in Nat
  /\ stored.stack \in 0 .. StackValues - 1 /\ stored.count \in 0 .. CountValues - 1

LEMMA Remainders ==
  ASSUME NEW a \in Int, NEW m \in Nat \ {0}
  PROVE  a % m \in 0 .. m - 1
OBVIOUS

\* A line's number is a signed byte's.
LEMMA SignedIsAByte ==
  ASSUME NEW line \in Int
  PROVE  Signed(line) \in -(LineValues \div 2) .. LineValues \div 2 - 1
<1>1. (line + LineValues \div 2) % LineValues \in 0 .. LineValues - 1
  BY CheatConstants, Remainders
<1> QED
  BY <1>1, CheatConstants DEF Signed

\* What the fields begin with is of their types.
LEMMA ZerosFit ==
  /\ 0 \in 0 .. StackValues - 1 /\ 0 \in 0 .. CountValues - 1 /\ 0 \in 0 .. MaxRepeat
  /\ -1 \in -(LineValues \div 2) .. LineValues \div 2 - 1
BY CheatConstants

LEMMA KnownInitially == CheatInit => CheatKnown
<1> SUFFICES ASSUME CheatInit
             PROVE  CheatKnown
  OBVIOUS
<1>1. codesCount = 0 /\ stored.stack = 0 /\ stored.count = 0
  BY DEF CheatInit, codesCount
<1> QED
  BY <1>1, ZerosFit DEF CheatInit, CheatKnown, CheatTypeOK

LEMMA KnownEmptied ==
  ASSUME Cleared, running' \in BOOLEAN, valid' \in BOOLEAN, codesCount' \in Nat
  PROVE  CheatKnown'
<1>1. /\ index' = 0 /\ ifStack' = 0 /\ ifCount' = 0 /\ loopLine' = -1 /\ loopCount' = 0
      /\ stored'.stack = 0 /\ stored'.count = 0
  BY DEF Cleared
<1> QED
  BY <1>1, ZerosFit DEF CheatKnown, CheatTypeOK

LEMMA KnownReturns ==
  ASSUME NEW value \in BOOLEAN, ReturnsToMenu(value)
  PROVE  CheatKnown'
<1>1. running' = FALSE /\ valid' = value /\ codesCount' = 0 /\ Cleared
  BY DEF ReturnsToMenu, codesCount
<1> QED
  BY <1>1, KnownEmptied

\* The next line is known, and the conditions and the loop are.
LEMMA KnownContinues ==
  ASSUME CheatKnown, NEW i \in Nat, Continues(i),
         ifStack' \in 0 .. StackValues - 1, ifCount' \in 0 .. CountValues - 1,
         UNCHANGED <<loopLine, loopCount>> \/
           (/\ loopLine' \in -(LineValues \div 2) .. LineValues \div 2 - 1
            /\ loopCount' \in 0 .. MaxRepeat),
         stored'.stack \in 0 .. StackValues - 1, stored'.count \in 0 .. CountValues - 1
  PROVE  CheatKnown'
BY DEF CheatKnown, CheatTypeOK, Continues, codesCount

LEMMA KnownOpens ==
  ASSUME CheatKnown, NEW found, OpensCondition(found), NEW i \in Nat, Continues(i)
  PROVE  CheatKnown'
<1> DEFINE shifted == 2 * ifStack + (IF found /\ ~skipExecution THEN 0 ELSE 1)
<1>1. ifStack \in Nat /\ ifCount \in Nat
  BY CheatConstants DEF CheatKnown, CheatTypeOK
<1>2. shifted \in Nat /\ ifCount + 1 \in Nat
  BY <1>1
<1>3. /\ ifStack' = shifted % StackValues /\ ifCount' = (ifCount + 1) % CountValues
      /\ UNCHANGED <<loopLine, loopCount, stored>>
  BY DEF OpensCondition, loopVars
<1> HIDE DEF shifted
<1>4. ifStack' \in 0 .. StackValues - 1 /\ ifCount' \in 0 .. CountValues - 1
  <2>1. \A a \in Int, m \in Nat \ {0} : a % m \in 0 .. m - 1
    BY Remainders
  <2>2. StackValues \in Nat \ {0} /\ CountValues \in Nat \ {0}
    BY CheatConstants
  <2>3. shifted % StackValues \in 0 .. StackValues - 1
    BY <1>2, <2>1, <2>2
  <2>4. (ifCount + 1) % CountValues \in 0 .. CountValues - 1
    BY <1>2, <2>1, <2>2
  <2> QED
    BY <1>3, <2>3, <2>4
<1> QED
  BY <1>3, <1>4, KnownContinues DEF CheatKnown

\* The counter is not decreased below zero, even after it has overflowed.
LEMMA KnownCloses ==
  ASSUME CheatKnown, ClosesCondition, UNCHANGED loopVars,
         ifCount > (IF loopLine = -1 THEN 0 ELSE stored.count),
         NEW i \in Nat, Continues(i)
  PROVE  CheatKnown'
<1>1. /\ ifStack \in 0 .. StackValues - 1 /\ ifCount \in 0 .. CountValues - 1
      /\ stored.count \in Nat
  BY CheatConstants DEF CheatKnown, CheatTypeOK
<1>2. /\ ifStack' = ifStack \div 2 /\ ifCount' = ifCount - 1
      /\ UNCHANGED <<loopLine, loopCount, stored>>
  BY DEF ClosesCondition, loopVars
<1>3. ifCount > 0
  BY <1>1
<1>4. ifStack \div 2 \in 0 .. StackValues - 1
  BY <1>1, CheatConstants
<1>5. ifStack' \in 0 .. StackValues - 1 /\ ifCount' \in 0 .. CountValues - 1
  BY <1>1, <1>2, <1>3, <1>4, CheatConstants
<1> QED
  BY <1>2, <1>5, KnownContinues DEF CheatKnown

\* A pass counts down only what is above zero.
LEMMA KnownNextPass ==
  ASSUME CheatKnown, NextPass, loopCount # 0,
         ifStack' \in 0 .. StackValues - 1, ifCount' \in 0 .. CountValues - 1
  PROVE  CheatKnown'
<1>1. /\ loopLine \in -(LineValues \div 2) .. LineValues \div 2 - 1
      /\ loopCount \in 0 .. MaxRepeat /\ index \in Nat /\ codesCount \in Nat
  BY DEF CheatKnown, CheatTypeOK
<1> DEFINE next == IF loopCount = 1 THEN index + 1 ELSE AfterLoopLine
<1>2. next \in Nat
  BY <1>1, CheatConstants DEF AfterLoopLine
<1>3. /\ loopCount' = loopCount - 1 /\ loopLine' = IF loopCount = 1 THEN -1 ELSE loopLine
      /\ Continues(next) /\ stored' = stored
  BY DEF NextPass
<1> HIDE DEF next
<1>4. /\ loopCount' \in 0 .. MaxRepeat
      /\ loopLine' \in -(LineValues \div 2) .. LineValues \div 2 - 1
  BY <1>1, <1>3, CheatConstants
<1> QED
  BY <1>2, <1>3, <1>4, KnownContinues DEF CheatKnown

LEMMA KnownStep == CheatKnown /\ [CheatNext]_cheatVars => CheatKnown'
<1> SUFFICES ASSUME CheatKnown, [CheatNext]_cheatVars
             PROVE  CheatKnown'
  OBVIOUS
<1>known. /\ index \in Nat /\ codesCount \in Nat
      /\ ifStack \in 0 .. StackValues - 1 /\ ifCount \in 0 .. CountValues - 1
      /\ loopCount \in 0 .. MaxRepeat
      /\ stored.stack \in 0 .. StackValues - 1 /\ stored.count \in 0 .. CountValues - 1
  BY DEF CheatKnown, CheatTypeOK
<1>1. ASSUME NEW i \in Nat, Continues(i), UNCHANGED <<conditionVars, loopVars>>
      PROVE  CheatKnown'
  BY <1>1, <1>known, KnownContinues DEF conditionVars, loopVars
<1>proceeds. ASSUME Proceeds
      PROVE  CheatKnown'
  <2>1. index + 1 \in Nat
    BY <1>known
  <2> QED
    BY <1>1, <1>proceeds, <2>1 DEF Proceeds
<1>2. ASSUME Fails
      PROVE  CheatKnown'
  BY <1>2, KnownReturns DEF Fails
<1>opens. ASSUME NEW found, OpensCondition(found), Continues(index + 1)
      PROVE  CheatKnown'
  <2>1. index + 1 \in Nat
    BY <1>known
  <2> QED
    BY <1>opens, <2>1, KnownOpens
<1>3. CASE StartCheat
  <2>1. PICK n \in 0 .. MaxLines : codes' = [i \in 1 .. n |-> Unread]
    BY <1>3 DEF StartCheat
  <2>2. codesCount' \in Nat
    BY <2>1 DEF codesCount
  <2> QED
    BY <1>3, <2>2, KnownEmptied DEF StartCheat, CheatKnown, CheatTypeOK
<1>4. CASE ReadLine
  <2>1. codesCount' = codesCount
    <3>1. PICK line \in LineKinds :
            codes' = [i \in 1 .. codesCount |->
                       IF i = index + 1 THEN line
                       ELSE IF i - 1 < (IF loopLine >= 0 THEN loopLine ELSE index) THEN Unread
                       ELSE codes[i]]
      BY <1>4 DEF ReadLine
    <3> QED
      BY <1>known, <3>1 DEF codesCount
  <2> QED
    BY <1>4, <2>1 DEF ReadLine, CheatKnown, CheatTypeOK, conditionVars, loopVars
<1>5. CASE WriteImmediate \/ LoadOffset \/ StoreData \/ LoadData \/ ChangeMemory \/ CopyBytes
  BY <1>proceeds, <1>2, <1>5 DEF WriteImmediate, LoadOffset, StoreData, LoadData, ChangeMemory,
     CopyBytes, Accesses
<1>6. CASE SetRegisters \/ MoveOffset \/ ExchangeRegisters \/ SetModes \/ ChangeRegister
           \/ RandomNumber \/ LastLine
  BY <1>proceeds, <1>2, <1>6 DEF SetRegisters, MoveOffset, ExchangeRegisters, SetModes, ChangeRegister,
     RandomNumber, LastLine
<1>7. CASE WordCondition \/ HalfWordCondition \/ ButtonCondition \/ TouchCondition
  BY <1>2, <1>7, <1>opens DEF WordCondition, HalfWordCondition, ButtonCondition, TouchCondition
<1>8. CASE Repeat
  <2>1. /\ loopCount' \in 0 .. MaxRepeat /\ loopLine' = Signed(index)
        /\ stored'.stack = ifStack /\ stored'.count = ifCount
        /\ ifStack' = ifStack /\ ifCount' = ifCount /\ Continues(index + 1)
    BY <1>8 DEF Repeat, conditionVars
  <2>2. index + 1 \in Nat /\ Signed(index) \in -(LineValues \div 2) .. LineValues \div 2 - 1
    BY <1>known, SignedIsAByte
  <2> QED
    BY <1>known, <2>1, <2>2, KnownContinues
<1>9. CASE EndCondition
  <2> DEFINE closes == ifCount > (IF loopLine = -1 THEN 0 ELSE stored.count)
  <2>1. \/ closes /\ ClosesCondition /\ Continues(index + 1) /\ UNCHANGED loopVars
        \/ loopCount > 0 /\ NextPass /\ UNCHANGED conditionVars
        \/ Proceeds
    BY <1>9 DEF EndCondition
  <2>2. CASE closes /\ ClosesCondition /\ Continues(index + 1) /\ UNCHANGED loopVars
    <3>1. index + 1 \in Nat
      BY <1>known
    <3> QED
      BY <2>2, <3>1, KnownCloses
  <2>3. CASE loopCount > 0 /\ NextPass /\ UNCHANGED conditionVars
    <3>1. loopCount # 0 /\ ifStack' = ifStack /\ ifCount' = ifCount
      BY <1>known, <2>3 DEF conditionVars
    <3> QED
      BY <1>known, <2>3, <3>1, KnownNextPass
  <2> QED
    BY <1>proceeds, <2>1, <2>2, <2>3
<1>10. CASE BreakRepeat
  <2>1. CASE skipExecution
    BY <1>proceeds, <1>10, <2>1 DEF BreakRepeat
  <2>2. CASE ~skipExecution
    <3>1. PICK end \in BreakEnds : Continues(end + 2)
      BY <1>10, <2>2 DEF BreakRepeat
    <3>2. end + 2 \in Nat
      BY <1>known DEF BreakEnds
    <3>3. /\ loopCount' = 0 /\ loopLine' = -1 /\ stored' = stored
          /\ ifStack' = ifStack /\ ifCount' = ifCount
      BY <1>10, <2>2 DEF BreakRepeat, conditionVars
    <3>4. /\ loopLine' \in -(LineValues \div 2) .. LineValues \div 2 - 1
          /\ loopCount' \in 0 .. MaxRepeat
      BY <3>3, CheatConstants
    <3> QED
      BY <1>known, <3>1, <3>2, <3>3, <3>4, KnownContinues
  <2> QED
    BY <2>1, <2>2
<1>11. CASE EndRepeat
  <2>1. CASE loopCount = 0
    BY <1>proceeds, <1>11, <2>1 DEF EndRepeat
  <2>2. CASE loopCount # 0
    <3>1. ifStack' = stored.stack /\ ifCount' = stored.count /\ NextPass
      BY <1>11, <2>2 DEF EndRepeat
    <3> QED
      BY <1>known, <2>2, <3>1, KnownNextPass
  <2> QED
    BY <2>1, <2>2
<1>12. CASE EndAll
  <2>1. ClosesAllConditions \/ UNCHANGED conditionVars
    BY <1>12 DEF EndAll
  <2>2. ifStack' \in 0 .. StackValues - 1 /\ ifCount' \in 0 .. CountValues - 1
    BY <1>known, <2>1, CheatConstants DEF ClosesAllConditions, conditionVars
  <2>3. CASE loopCount = 0
    <3>1. index + 1 \in Nat /\ Continues(index + 1) /\ UNCHANGED loopVars
      <4>1. Continues(index + 1) /\ UNCHANGED loopVars
        BY <1>12, <2>3, Zenon DEF EndAll
      <4> QED
        BY <1>known, <4>1
    <3> QED
      BY <1>known, <2>2, <3>1, KnownContinues DEF loopVars
  <2>4. CASE loopCount # 0
    <3>1. NextPass
      BY <1>12, <2>4 DEF EndAll
    <3> QED
      BY <2>2, <2>4, <3>1, KnownNextPass
  <2> QED
    BY <2>3, <2>4
<1>13. CASE Return
  <2>1. codesCount + 1 \in Nat
    BY <1>known
  <2> QED
    BY <1>1, <1>proceeds, <1>13, <2>1 DEF Return
<1>14. ASSUME NEW size \in Sizes, WriteBytes(size)
       PROVE  CheatKnown'
  <2> DEFINE over == 1 + ((index + DataLines(size)) % LineValues)
  <2>1. size \in Nat /\ DataLines(size) \in Nat
    BY CheatConstants DEF DataLines
  <2>2. over \in Nat
    <3>1. (index + DataLines(size)) % LineValues \in 0 .. LineValues - 1
      <4>1. index + DataLines(size) \in Int
        BY <1>known, <2>1
      <4> QED
        BY <4>1, CheatConstants, Remainders
    <3> QED
      BY <3>1, CheatConstants
  <2>3. Fails \/ (Continues(over) /\ UNCHANGED <<conditionVars, loopVars>>)
    BY <1>14 DEF WriteBytes
  <2> HIDE DEF over
  <2> QED
    BY <1>1, <1>2, <2>2, <2>3
<1>15. ASSUME NEW size \in Sizes, Search(size)
       PROVE  CheatKnown'
  <2>1. size \in Nat /\ DataLines(size) \in Nat
    BY CheatConstants DEF DataLines
  <2>2. index + DataLines(size) + 1 \in Nat
    BY <1>known, <2>1
  <2>3. \/ Fails
        \/ OpensCondition(FALSE) /\ Continues(index + 1)
        \/ \E found \in BOOLEAN : OpensCondition(found) /\ Continues(index + DataLines(size) + 1)
    BY <1>15 DEF Search
  <2> QED
    BY <1>2, <1>opens, <2>2, <2>3, KnownOpens
<1>16. CASE RunsOut
  BY <1>16, KnownReturns DEF RunsOut
<1>17. CASE UNCHANGED cheatVars
  BY <1>17 DEF cheatVars, conditionVars, loopVars, CheatKnown, CheatTypeOK, codesCount
<1> QED
  BY <1>3, <1>4, <1>5, <1>6, <1>7, <1>8, <1>9, <1>10, <1>11, <1>12, <1>13, <1>14, <1>15, <1>16,
     <1>17 DEF CheatNext, ExecuteLine

\* Whatever the lines of a cheat do, Cheat_ApplyCheat's counters stay within
\* their widths, and ifCount is never decreased below zero, even after it has
\* overflowed (cheats.c).
THEOREM CheatCountersFit == CheatSpec => []CheatTypeOK
<1>1. CheatKnown => CheatTypeOK
  BY DEF CheatKnown
<1> QED
  BY KnownInitially, KnownStep, <1>1, PTL DEF CheatSpec

-----------------------------------------------------------------------------

\* Whatever title starts or ends, whatever a file of cheats holds and wherever
\* it stops fitting, what is applied is the process's own list, whole; and
\* whatever conditions, loops and breaks a cheat is made of, a line is skipped
\* exactly if an open condition was found false (cheats.c).
THEOREM CheatsAct == CheatsSpec => []CheatsActAsWritten
<1>1. ListSpec => []CheatsOfTheProcess
  <2>1. ListInv => CheatsOfTheProcess
    BY ListWhole DEF CheatsOfTheProcess, ListInv, ListOfTheAsked
  <2> QED
    BY ListInitially, ListStep, <2>1, PTL DEF ListSpec
<1>2. CheatSpec => []SkipsForAFalseCondition
  BY CheatInitially, CheatStep, CheatSkips, PTL DEF CheatSpec
<1>3. CheatsOfTheProcess /\ SkipsForAFalseCondition => CheatsActAsWritten
  BY DEF CheatsActAsWritten
<1> QED
  BY <1>1, <1>2, <1>3, PTL DEF CheatsSpec
=============================================================================
