--------------------------- MODULE CheatInterpreter ---------------------------
(***************************************************************************)
(* Cheat_ApplyCheat (source/menus/cheats.c): runs the lines of one cheat   *)
(* over the memory of the application, which is stopped by a debug handle. *)
(*                                                                         *)
(* Of the registers and of the memory nothing is kept: what a condition    *)
(* finds, whether an address can be accessed and what a count register     *)
(* holds are chosen when a line asks.  All of the control is kept: the     *)
(* stack of conditions, one bit each, the loop, and the lines that hold    *)
(* data instead of code.  The lines of the cheat are chosen as they are    *)
(* read; lines that treat the control alike are of one kind.               *)
(***************************************************************************)
EXTENDS Integers, SequencesExt

CONSTANTS
  MaxLines,     \* bound on the lines of a cheat
  MaxRepeat,    \* bound on the passes a repeat line asks for
  Sizes,        \* numbers of bytes of data that a line may be followed by
  StackValues,  \* how many values ifStack has: 2^32
  CountValues,  \* and ifCount: 256
  LineValues    \* and loopLine, which is signed, and typeELine: 256

\* Bytes of data are held eight to a line.
DataLines(size) == (size + 7) \div 8

\* The longest cheat that the narrow line numbers can tell the lines of.
ASSUME CheatAssumption ==
  /\ {MaxLines, MaxRepeat, StackValues, CountValues, LineValues} \subseteq Nat \ {0}
  /\ Sizes \subseteq Nat
  /\ LineValues % 2 = 0
  /\ \A size \in Sizes : MaxLines + DataLines(size) =< LineValues

VARIABLES
  running,      \* a cheat is being run
  valid,        \* what the run before returned
  codes,        \* the kinds of the lines, as far as they were read
  index, ifStack, ifCount, loopLine, loopCount,    \* cheat_state
  stored,       \* storedStack, storedIfCount, and the conditions of that moment
  conditions,   \* history: what the open conditions found, the outermost first
  forgotten     \* history: a false condition was shifted out, or ifCount has overflowed

conditionVars == <<ifStack, ifCount, conditions, forgotten>>
loopVars == <<loopLine, loopCount, stored>>
cheatVars == <<running, valid, codes, index, conditionVars, loopVars>>

Kinds == {"memory", "register", "condition", "repeat", "end condition", "break",
          "end repeat", "end all", "return", "end"}
Line(kind) == [kind |-> kind, size |-> 0]
Data(kind, size) == [kind |-> kind, size |-> size]
Unread == Line("unread")
LineKinds == {Line(k) : k \in Kinds} \cup {Data(k, n) : k \in {"bytes", "search"}, n \in Sizes}

codesCount == Len(codes)
LineAt(i) == codes[i + 1]              \* lines count from 0
skipExecution == ifStack % 2 = 1

-----------------------------------------------------------------------------
(* Where a line leads *)

\* A line that was not read before is any line.  Those that no loop leads
\* back to are not remembered.
ReadLine ==
  /\ running
  /\ index < codesCount
  /\ LineAt(index) = Unread
  /\ \E line \in LineKinds :
       codes' = [i \in 1 .. codesCount |->
                   IF i = index + 1 THEN line
                   ELSE IF i - 1 < (IF loopLine >= 0 THEN loopLine ELSE index) THEN Unread
                   ELSE codes[i]]
  /\ UNCHANGED <<running, valid, index, conditionVars, loopVars>>

\* The line that is executed is this one.
LineIs(line) == running /\ index < codesCount /\ LineAt(index) = line

\* The next line is i.
Continues(i) == index' = i /\ UNCHANGED <<running, valid, codes>>

\* cheat_state as a cheat begins with it.
Cleared ==
  /\ index' = 0
  /\ ifStack' = 0 /\ ifCount' = 0 /\ conditions' = <<>> /\ forgotten' = FALSE
  /\ loopLine' = -1 /\ loopCount' = 0
  /\ stored' = [stack |-> 0, count |-> 0, conditions |-> <<>>]

\* The cheat ends.  Its state, which only the next one sets, is cleared here.
ReturnsToMenu(value) == running' = FALSE /\ valid' = value /\ codes' = <<>> /\ Cleared

\* return 0.
Fails == ReturnsToMenu(FALSE)

\* The rest of the loop of lines: index++.
Proceeds == Continues(index + 1) /\ UNCHANGED <<conditionVars, loopVars>>

\* A read or write of the process's memory fails at an address it does not have.
Accesses == Proceeds \/ (~skipExecution /\ Fails)

\* A condition is opened: ifStack and ifCount, shifted and counted.  Within a
\* false one it counts as false.
OpensCondition(found) ==
  LET shifted == 2 * ifStack + (IF found /\ ~skipExecution THEN 0 ELSE 1)
  IN  /\ ifStack' = shifted % StackValues
      /\ ifCount' = (ifCount + 1) % CountValues
      /\ conditions' = Append(conditions, found)
      /\ forgotten' = (forgotten \/ shifted >= StackValues \/ ifCount + 1 >= CountValues)
      /\ UNCHANGED loopVars

ClosesCondition ==
  /\ ifStack' = ifStack \div 2
  /\ ifCount' = ifCount - 1
  /\ conditions' = IF conditions = <<>> THEN <<>> ELSE Front(conditions)
  /\ UNCHANGED forgotten

ClosesAllConditions ==
  /\ ifStack' = 0 /\ ifCount' = 0 /\ conditions' = <<>>
  /\ UNCHANGED forgotten

\* What a signed byte makes of a line number.
Signed(line) == ((line + LineValues \div 2) % LineValues) - LineValues \div 2

\* The line after loopLine; a negative one is behind every cheat, as a u32.
AfterLoopLine == IF loopLine >= 0 THEN loopLine + 1
                 ELSE IF loopLine = -1 THEN index + 1 ELSE codesCount

\* Once more, or no more.
NextPass ==
  /\ loopCount' = loopCount - 1
  /\ loopLine' = IF loopCount = 1 THEN -1 ELSE loopLine
  /\ Continues(IF loopCount = 1 THEN index + 1 ELSE AfterLoopLine)
  /\ UNCHANGED stored

-----------------------------------------------------------------------------
(* The lines *)

\* Types 0 to 2.
WriteImmediate == LineIs(Line("memory")) /\ Accesses

\* Type B.
LoadOffset == LineIs(Line("memory")) /\ Accesses

\* Types 3 to 6, and 7 to A: the memory is read even if nothing is executed.
WordCondition ==
  /\ LineIs(Line("condition"))
  /\ \/ Fails
     \/ \E found \in BOOLEAN : OpensCondition(found) /\ Continues(index + 1)

HalfWordCondition ==
  /\ LineIs(Line("condition"))
  /\ \/ Fails
     \/ \E found \in BOOLEAN : OpensCondition(found) /\ Continues(index + 1)

\* Types DD and DE: buttons and touch screen.
ButtonCondition ==
  /\ LineIs(Line("condition"))
  /\ \E found \in BOOLEAN : OpensCondition(found)
  /\ Continues(index + 1)

TouchCondition ==
  /\ LineIs(Line("condition"))
  /\ \/ Fails
     \/ \E found \in BOOLEAN : OpensCondition(found) /\ Continues(index + 1)

\* Mutant: the line of the repeat is repeated too.
RepeatItself ==
  /\ LineIs(Line("repeat"))
  /\ \E count \in 0 .. MaxRepeat : loopCount' = count
  /\ loopLine' = Signed(index - 1)
  /\ stored' = [stack |-> ifStack, count |-> ifCount, conditions |-> conditions]
  /\ Continues(index + 1)
  /\ UNCHANGED conditionVars

\* Type C, executed in a false condition as well; the count is the line's or a register's.
Repeat ==
  /\ LineIs(Line("repeat"))
  /\ \E count \in 0 .. MaxRepeat : loopCount' = count
  /\ loopLine' = Signed(index)
  /\ stored' = [stack |-> ifStack, count |-> ifCount, conditions |-> conditions]
  /\ Continues(index + 1)
  /\ UNCHANGED conditionVars

\* D0 0: the last condition since the repeat; without one, the pass.
EndCondition ==
  /\ LineIs(Line("end condition"))
  /\ LET closes == ifCount > (IF loopLine = -1 THEN 0 ELSE stored.count)
         passEnds == loopLine # -1 /\ loopCount > 0
     IN  \/ closes /\ ClosesCondition /\ Continues(index + 1) /\ UNCHANGED loopVars
         \/ ~closes /\ passEnds /\ NextPass /\ UNCHANGED conditionVars
         \/ ~closes /\ ~passEnds /\ Proceeds

\* The break looks for the end of the loop, and goes on after the line behind it.
LoopEnd(line) == line \in {Line("end repeat"), Line("end all")}
BreakEnds == {end \in index + 1 .. codesCount :
                /\ end < codesCount => LineAt(end) = Unread \/ LoopEnd(LineAt(end))
                /\ \A i \in index + 1 .. end - 1 : ~LoopEnd(LineAt(i))}

\* D0 1.
BreakRepeat ==
  /\ LineIs(Line("break"))
  /\ IF skipExecution THEN Proceeds
     ELSE /\ loopCount' = 0 /\ loopLine' = -1
          /\ \E end \in BreakEnds : Continues(end + 2)
          /\ UNCHANGED <<stored, conditionVars>>

\* D1: the conditions since the repeat, and the pass.
EndRepeat ==
  /\ LineIs(Line("end repeat"))
  /\ IF loopCount = 0 THEN Proceeds
     ELSE /\ ifStack' = stored.stack /\ ifCount' = stored.count
          /\ conditions' = stored.conditions
          /\ NextPass
          /\ UNCHANGED forgotten

\* D2 0: the pass; after the last one, or without a loop, all conditions.
EndAll ==
  /\ LineIs(Line("end all"))
  /\ IF loopCount = 0
     THEN ClosesAllConditions /\ Continues(index + 1) /\ UNCHANGED loopVars
     ELSE NextPass /\ IF loopCount = 1 THEN ClosesAllConditions ELSE UNCHANGED conditionVars

\* D2 1.
Return ==
  /\ LineIs(Line("return"))
  /\ IF skipExecution THEN Proceeds
     ELSE Continues(codesCount + 1) /\ UNCHANGED <<conditionVars, loopVars>>

\* Types D3 to D5: offsets and data.
SetRegisters == LineIs(Line("register")) /\ Proceeds

\* Types D6 to D8, and D9 to DB.
StoreData == LineIs(Line("memory")) /\ Accesses
LoadData == LineIs(Line("memory")) /\ Accesses

\* Type DC: the offset moves on.
MoveOffset == LineIs(Line("register")) /\ Proceeds

\* Type DF, executed in a false condition as well: offsets, data and storage
\* are exchanged; modes are set, those that the interpreter knows.
ExchangeRegisters == LineIs(Line("register")) /\ Proceeds
SetModes ==
  \/ LineIs(Line("register")) /\ Proceeds
  \/ LineIs(Line("end")) /\ Fails

\* Type E: as many bytes as the line says, from the lines behind it.
WriteBytes(size) ==
  /\ LineIs(Data("bytes", size))
  /\ \/ /\ Continues(1 + ((index + DataLines(size)) % LineValues))
        /\ UNCHANGED <<conditionVars, loopVars>>
     \/ size > 0 /\ ~skipExecution /\ Fails

\* Types F1 to F3 and FC; F4 to FB, F0 and FF.
ChangeMemory == LineIs(Line("memory")) /\ Accesses
CopyBytes == LineIs(Line("memory")) /\ Accesses
ChangeRegister == LineIs(Line("register")) /\ Proceeds
RandomNumber == LineIs(Line("register")) /\ Proceeds

\* Type FE: looks for the bytes behind the line.  The data is passed over only
\* if it was looked for: in a false condition it is executed.
Search(size) ==
  /\ LineIs(Data("search", size))
  /\ \/ Fails
     \/ /\ size + index < codesCount
        /\ IF skipExecution
           THEN OpensCondition(FALSE) /\ Continues(index + 1)
           ELSE /\ \E found \in BOOLEAN : OpensCondition(found)
                /\ Continues(index + DataLines(size) + 1)

\* A line of zeros, and those the interpreter does not know.
LastLine == LineIs(Line("end")) /\ Fails

\* The end of the while.
RunsOut ==
  /\ running
  /\ index >= codesCount
  /\ ReturnsToMenu(TRUE)

-----------------------------------------------------------------------------

CheatInit ==
  /\ running = FALSE /\ valid = TRUE
  /\ codes = <<>> /\ index = 0
  /\ ifStack = 0 /\ ifCount = 0 /\ conditions = <<>> /\ forgotten = FALSE
  /\ loopLine = -1 /\ loopCount = 0
  /\ stored = [stack |-> 0, count |-> 0, conditions |-> <<>>]

\* A cheat of any number of lines.
StartCheat ==
  /\ ~running
  /\ running' = TRUE
  /\ \E n \in 0 .. MaxLines : codes' = [i \in 1 .. n |-> Unread]
  /\ Cleared
  /\ UNCHANGED valid

ExecuteLine ==
  \/ ReadLine
  \/ WriteImmediate \/ LoadOffset \/ WordCondition \/ HalfWordCondition
  \/ ButtonCondition \/ TouchCondition
  \/ Repeat \/ EndCondition \/ BreakRepeat \/ EndRepeat \/ EndAll \/ Return
  \/ SetRegisters \/ StoreData \/ LoadData \/ MoveOffset
  \/ ExchangeRegisters \/ SetModes
  \/ \E size \in Sizes : WriteBytes(size) \/ Search(size)
  \/ ChangeMemory \/ CopyBytes \/ ChangeRegister \/ RandomNumber
  \/ LastLine \/ RunsOut

CheatNext == StartCheat \/ ExecuteLine

CheatSpec == CheatInit /\ [][CheatNext]_cheatVars

CheatFairSpec == CheatSpec /\ WF_cheatVars(ExecuteLine)

-----------------------------------------------------------------------------
(* Properties *)

\* The shape of the state.
CheatTypeOK ==
  /\ running \in BOOLEAN /\ valid \in BOOLEAN
  /\ ifStack \in 0 .. StackValues - 1
  /\ ifCount \in 0 .. CountValues - 1
  /\ loopLine \in -(LineValues \div 2) .. LineValues \div 2 - 1
  /\ loopCount \in 0 .. MaxRepeat

\* Lines are skipped exactly when one of the conditions that are open, in the
\* sense of the ends, repeats and breaks executed so far, was found false; until
\* ifStack loses the bit of one that counts as false, or ifCount overflows.
SkipsForAFalseCondition ==
  running /\ ~forgotten =>
    /\ skipExecution <=> \E i \in DOMAIN conditions : ~conditions[i]
    /\ ifCount = Len(conditions)
=============================================================================
