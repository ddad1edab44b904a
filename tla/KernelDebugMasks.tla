-------------------------- MODULE KernelDebugMasks --------------------------
(***************************************************************************)
(* The table of the kernel extension that says which system calls of which *)
(* processes become debug events (k11_extension, svc/KernelSetState.c).    *)
(* Rosalina's GDB stub changes it, from two threads: the socket thread     *)
(* when gdb asks to catch system calls (gdb/query.c) and when it detaches  *)
(* (gdb.c), the monitor when it detaches from a process that has ended     *)
(* (gdb/monitor.c).  Every system call of every process reads it.          *)
(*                                                                         *)
(* SetSyscallDebugEventMask looks for room before it takes its locks; what *)
(* it does with the locks is one step.                                     *)
(***************************************************************************)
EXTENDS Integers

CONSTANTS
  Processes,    \* ids of the processes that are debugged one after another
  Syscalls,     \* numbers of system calls
  MaxMasked      \* MAX_DEBUG of the kernel extension

ASSUME MasksAssumption == MaxMasked \in Nat \ {0} /\ Processes \subseteq Nat \ {0}

VARIABLES
  nbEnabled,       \* how many entries are used
  maskedPids,      \* the process of each entry, or Nobody
  masks,           \* the system calls of each entry
  signalling,      \* bit 0 of svcSignalingEnabled
  debugged,        \* the processes that a context of the stub is attached to
  enabling         \* what the socket thread asks for, past the look for room, or NotEnabling

maskVars == <<nbEnabled, maskedPids, masks, signalling, debugged, enabling>>

Nobody == 0
NotEnabling == <<Nobody, {}>>

Slots == 0 .. MaxMasked - 1
Used == 0 .. nbEnabled - 1

MasksTypeOK ==
  /\ nbEnabled \in 0 .. MaxMasked
  /\ maskedPids \in [Slots -> Processes \cup {Nobody}]
  /\ masks \in [Slots -> SUBSET Syscalls]
  /\ signalling \in BOOLEAN
  /\ debugged \subseteq Processes
  /\ enabling \in (Processes \X SUBSET Syscalls) \cup {NotEnabling}

\* The loops that look for the entry of a process: nbEnabled if there is none.
EntryOf(p) ==
  IF \E i \in Used : maskedPids[i] = p
  THEN CHOOSE i \in Used : maskedPids[i] = p /\ \A j \in 0 .. i - 1 : maskedPids[j] # p
  ELSE nbEnabled

(***************************************************************************)
(* shouldSignalSyscallDebugEvent, for a debugged process (signalSvcReturn  *)
(* looks at signalling besides).  A search without success ends at         *)
(* nbEnabled, and is taken for one only if that is MAX_DEBUG.              *)
(***************************************************************************)
ShouldSignal(p, svc) == EntryOf(p) # MaxMasked /\ svc \in masks[EntryOf(p)]

Attach(p) ==
  /\ debugged' = debugged \cup {p}
  /\ UNCHANGED <<nbEnabled, maskedPids, masks, signalling, enabling>>

\* gdb asks to catch the calls in mask of p, and there is room.
AsksToCatch(p, mask) ==
  /\ enabling = NotEnabling
  /\ p \in debugged
  /\ nbEnabled # MaxMasked
  /\ enabling' = <<p, mask>>
  /\ UNCHANGED <<nbEnabled, maskedPids, masks, signalling, debugged>>

\* A process that has an entry already gets another one.
Enable ==
  /\ enabling # NotEnabling
  /\ maskedPids' = [maskedPids EXCEPT ![nbEnabled] = enabling[1]]
  /\ masks' = [masks EXCEPT ![nbEnabled] = enabling[2]]
  /\ nbEnabled' = nbEnabled + 1
  /\ signalling' = TRUE
  /\ enabling' = NotEnabling
  /\ UNCHANGED debugged

\* mutant: the mask of the entry that becomes free stays
DisableKeepsMask(p) ==
  LET id == EntryOf(p) IN
  IF id = nbEnabled THEN UNCHANGED <<nbEnabled, maskedPids, masks, signalling>>
  ELSE /\ maskedPids' = [i \in Slots |->
            IF i = nbEnabled - 1 THEN Nobody
            ELSE IF i >= id /\ i < nbEnabled - 1 THEN maskedPids[i + 1] ELSE maskedPids[i]]
       /\ masks' = [i \in Slots |->
            IF i >= id /\ i < nbEnabled - 1 THEN masks[i + 1] ELSE masks[i]]
       /\ nbEnabled' = nbEnabled - 1
       /\ signalling' = FALSE

\* Removes the first entry of p; the bit is cleared for all processes.
Disable(p) ==
  LET id == EntryOf(p) IN
  IF id = nbEnabled THEN UNCHANGED <<nbEnabled, maskedPids, masks, signalling>>
  ELSE /\ maskedPids' = [i \in Slots |->
            IF i = nbEnabled - 1 THEN Nobody
            ELSE IF i >= id /\ i < nbEnabled - 1 THEN maskedPids[i + 1] ELSE maskedPids[i]]
       /\ masks' = [i \in Slots |->
            IF i = nbEnabled - 1 THEN {}
            ELSE IF i >= id /\ i < nbEnabled - 1 THEN masks[i + 1] ELSE masks[i]]
       /\ nbEnabled' = nbEnabled - 1
       /\ signalling' = FALSE

\* gdb asks to catch no call: the socket thread, between two requests.
StopsCatching(p) ==
  /\ enabling = NotEnabling
  /\ p \in debugged
  /\ Disable(p)
  /\ UNCHANGED <<debugged, enabling>>

\* The monitor, or the socket thread between two requests, detaches from p.
\* The lock of p's context is taken, as it is for a request to catch calls.
DetachFromProcess(p) ==
  /\ p \in debugged
  /\ enabling # NotEnabling => enabling[1] # p
  /\ Disable(p)
  /\ debugged' = debugged \ {p}
  /\ UNCHANGED enabling

MasksInit ==
  /\ nbEnabled = 0
  /\ maskedPids = [i \in Slots |-> Nobody]
  /\ masks = [i \in Slots |-> {}]
  /\ signalling = FALSE
  /\ debugged = {}
  /\ enabling = NotEnabling

MasksNext ==
  \/ \E p \in Processes : \/ Attach(p)
                          \/ \E mask \in SUBSET Syscalls : AsksToCatch(p, mask)
                          \/ StopsCatching(p)
                          \/ DetachFromProcess(p)
  \/ Enable

MasksSpec == MasksInit /\ [][MasksNext]_maskVars

(***************************************************************************)
(* A process that is debugged, and has no entry, gets no events of system  *)
(* calls: what the search without success reads is empty, however often    *)
(* entries were taken, moved and given back by two threads.                *)
(***************************************************************************)
UnlistedNotSignalled ==
  \A p \in Processes, svc \in Syscalls :
    ShouldSignal(p, svc) => \E i \in Used : maskedPids[i] = p
=============================================================================
