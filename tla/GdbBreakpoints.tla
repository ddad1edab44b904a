--------------------------- MODULE GdbBreakpoints ---------------------------
(***************************************************************************)
(* The software breakpoints of one context of Rosalina's GDB stub          *)
(* (source/gdb/breakpoints.c): a table sorted by address, searched by      *)
(* bisection, whose entries hold the instruction that the breakpoint has   *)
(* replaced in the memory of the process.  The stub's socket thread is the *)
(* only one that changes it.                                               *)
(*                                                                         *)
(* An instruction of the program is represented by its address; gdb asks   *)
(* for the size that the code at an address has.  A persistent breakpoint  *)
(* stays in the process that is detached from.                             *)
(***************************************************************************)
EXTENDS Integers

CONSTANTS
  ArmCode, ThumbCode,    \* addresses of the program's instructions, of 4 and of 2 bytes
  MaxBreakpoint          \* MAX_BREAKPOINT

ASSUME CodeAssumption ==
  /\ MaxBreakpoint \in Nat \ {0}
  /\ \A a \in ArmCode : a \in Nat /\ a % 4 = 0
  /\ \A a \in ThumbCode : a \in Nat /\ a % 2 = 0
  /\ ArmCode \cap ThumbCode = {}

VARIABLES
  bpTable,    \* ctx->breakpoints
  bpCount,    \* ctx->nbBreakpoints
  bpMemory,   \* what is in memory at the address of each instruction
  attached    \* the context debugs a process

bpVars == <<bpTable, bpCount, bpMemory, attached>>

Code == ArmCode \cup ThumbCode
Svc == -1                              \* BREAKPOINT_INSTRUCTION_ARM and _THUMB
FreeBreakpoint == [address |-> 0, saved |-> 0, size |-> 0, persistent |-> FALSE]

SlotsOf(n) == 0 .. n - 1
ClearBit0(address) == 2 * (address \div 2)

\* The loop of GDB_FindClosestBreakpointSlot, from slots a and b of p = <<a, b>>.
Bisect(table, address) ==
  LET from[p \in SlotsOf(MaxBreakpoint) \X SlotsOf(MaxBreakpoint)] ==
        LET m == (p[1] + p[2]) \div 2
            next == IF table[m].address < address THEN <<m, p[2]>> ELSE <<p[1], m>>
        IN  IF table[m].address = address THEN m
            ELSE IF next[2] - next[1] > 1 THEN from[next]
            ELSE next[2]
  IN  from[<<0, bpCount - 1>>]

FindClosestSlot(address) ==
  IF bpCount = 0 \/ address <= bpTable[0].address THEN 0
  ELSE IF address > bpTable[bpCount - 1].address THEN bpCount
  ELSE Bisect(bpTable, address)

\* Entries id and up one slot further, and the entries after id one slot back.
MakeRoom(table, id, n) ==
  [i \in DOMAIN table |-> IF i > id /\ i <= n THEN table[i - 1] ELSE table[i]]
CloseGapOneShort(table, id, n) ==      \* mutant: the loop stops before the last entry
  [i \in DOMAIN table |->
     IF i = n - 1 THEN FreeBreakpoint ELSE IF i >= id /\ i < n - 2 THEN table[i + 1] ELSE table[i]]
CloseGap(table, id, n) ==
  [i \in DOMAIN table |->
     IF i = n - 1 THEN FreeBreakpoint ELSE IF i >= id /\ i < n - 1 THEN table[i + 1] ELSE table[i]]

HasBreakpoint(id, address) == id # bpCount /\ bpTable[id].address = address

(***************************************************************************)
(* Packet Z0.  A refused request changes nothing; one whose memory cannot  *)
(* be read or written makes room for the entry and closes the gap again.   *)
(***************************************************************************)
AddBreakpoint(asked, thumb, persist, readable, writable) ==
  LET address == ClearBit0(asked)
      id == FindClosestSlot(address)
      size == IF thumb THEN 2 ELSE 4
  IN  /\ attached
      /\ thumb \/ asked % 4 = 0
      /\ address \in (IF thumb THEN ThumbCode ELSE ArmCode)
      /\ ~(HasBreakpoint(id, address) /\ bpTable[id].size # 0)
      /\ bpCount # MaxBreakpoint
      /\ IF readable /\ writable
         THEN /\ bpTable' = [MakeRoom(bpTable, id, bpCount) EXCEPT
                               ![id] = [address |-> address, saved |-> bpMemory[address],
                                        size |-> size, persistent |-> persist]]
              /\ bpCount' = bpCount + 1
              /\ bpMemory' = [bpMemory EXCEPT ![address] = Svc]
         ELSE /\ bpTable' = CloseGap(MakeRoom(bpTable, id, bpCount), id, bpCount + 1)
              /\ UNCHANGED <<bpCount, bpMemory>>
      /\ UNCHANGED attached

\* GDB_DisableBreakpointById: writes the saved instruction back over the breakpoint.
Restored(memory, entry) == [memory EXCEPT ![entry.address] = entry.saved]

\* Packet z0; if the memory cannot be written, nothing changes.
RemoveBreakpoint(asked) ==
  LET address == ClearBit0(asked)
      id == FindClosestSlot(address)
  IN  /\ attached
      /\ HasBreakpoint(id, address)
      /\ bpMemory' = Restored(bpMemory, bpTable[id])
      /\ bpTable' = CloseGap(bpTable, id, bpCount)
      /\ bpCount' = bpCount - 1
      /\ UNCHANGED attached

(***************************************************************************)
(* GDB_DetachFromProcess takes the breakpoints out of the process, but for *)
(* the persistent ones and those it cannot write to, and empties the table.*)
(***************************************************************************)
Detach(failing) ==
  /\ attached
  /\ LET undone == {i \in SlotsOf(bpCount) \ failing : ~bpTable[i].persistent} IN
     bpMemory' = [a \in Code |->
       IF \E i \in undone : bpTable[i].address = a
       THEN bpTable[CHOOSE i \in undone : bpTable[i].address = a].saved
       ELSE bpMemory[a]]
  /\ bpTable' = [i \in SlotsOf(MaxBreakpoint) |-> FreeBreakpoint]
  /\ bpCount' = 0
  /\ attached' = FALSE

\* The context is given another process.
AttachAnother ==
  /\ ~attached
  /\ bpMemory' = [a \in Code |-> a]
  /\ attached' = TRUE
  /\ UNCHANGED <<bpTable, bpCount>>

BpInit ==
  /\ bpTable = [i \in SlotsOf(MaxBreakpoint) |-> FreeBreakpoint]
  /\ bpCount = 0
  /\ bpMemory = [a \in Code |-> a]
  /\ attached = TRUE

\* The addresses that gdb sends: those of instructions, and with bit 0 set for Thumb code.
Asked == Code \cup {a + 1 : a \in ThumbCode}

BpNext ==
  \/ \E asked \in Asked, thumb, persist, readable, writable \in BOOLEAN :
       AddBreakpoint(asked, thumb, persist, readable, writable)
  \/ \E asked \in Asked : RemoveBreakpoint(asked)
  \/ \E failing \in SUBSET SlotsOf(bpCount) : Detach(failing)
  \/ AttachAnother

BpSpec == BpInit /\ [][BpNext]_bpVars

(***************************************************************************)
(* Of a debugged process, the table and the memory tell the same: exactly  *)
(* the listed instructions are replaced, each entry has the program's own  *)
(* one to put back, and the bisection finds each entry where it is.  An    *)
(* entry lost, doubled or out of order leaves a breakpoint in the program  *)
(* for good, or writes an instruction where it does not belong.            *)
(***************************************************************************)
BreakpointsMatchMemory ==
  attached =>
  /\ \A a \in Code : bpMemory[a] = Svc <=> \E i \in SlotsOf(bpCount) : bpTable[i].address = a
  /\ \A i \in SlotsOf(bpCount) : /\ bpTable[i].saved = bpTable[i].address
                                 /\ FindClosestSlot(bpTable[i].address) = i
=============================================================================
