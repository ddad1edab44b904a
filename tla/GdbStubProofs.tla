---------------------------- MODULE GdbStubProofs ----------------------------
(***************************************************************************)
(* What the GDB stub keeps about a process, for any numbers of entries, of *)
(* processes, of system calls, of breakpoints and of contexts: the table   *)
(* of event masks stays within its bounds although the room is looked for  *)
(* without the locks, a process without an entry gets no events, the       *)
(* sorted table of breakpoints and the code of the process agree, so do    *)
(* the table of sockets, the contexts and their ports, and a session that  *)
(* is over leaves nothing behind.                                          *)
(***************************************************************************)
EXTENDS KernelDebugMasks, GdbBreakpoints, GdbServer, GdbSession, SetInduction,
  FunctionTheorems, FiniteSetTheorems, SequenceTheorems

-----------------------------------------------------------------------------
(* The table of event masks *)

\* Only the socket thread takes entries, so that the room it has seen is still there.
RoomKept == enabling # NotEnabling => nbEnabled < MaxMasked

\* What a search without success reads.
FreeMasksEmpty == \A i \in Slots : i >= nbEnabled => masks[i] = {}

MasksInv == MasksTypeOK /\ RoomKept /\ FreeMasksEmpty

\* Removing the entry of a process, from either thread, keeps the table in order
\* and does not make it longer.
LEMMA DisableKeeps ==
  ASSUME MasksInv, NEW p \in Processes, Disable(p)
  PROVE  /\ nbEnabled' \in 0 .. MaxMasked /\ nbEnabled' <= nbEnabled
         /\ maskedPids' \in [Slots -> Processes \cup {Nobody}]
         /\ masks' \in [Slots -> SUBSET Syscalls]
         /\ signalling' \in BOOLEAN
         /\ FreeMasksEmpty'
<1> USE MasksAssumption
<1>1. CASE EntryOf(p) = nbEnabled
  BY <1>1 DEF Disable, MasksInv, MasksTypeOK, FreeMasksEmpty, Slots
<1>2. CASE EntryOf(p) # nbEnabled
  <2>1. nbEnabled \in 1 .. MaxMasked
    <3>1. PICK i \in Used : maskedPids[i] = p
      BY <1>2 DEF EntryOf
    <3>2. QED BY <3>1 DEF Used, MasksInv, MasksTypeOK
  <2>2. nbEnabled' = nbEnabled - 1 /\ signalling' = FALSE
    BY <1>2 DEF Disable
  <2>3. maskedPids' \in [Slots -> Processes \cup {Nobody}]
    <3>1. \A i \in Slots : i < nbEnabled - 1 => i + 1 \in Slots
      BY <2>1 DEF Slots
    <3>2. QED BY <1>2, <2>1, <3>1 DEF Disable, MasksInv, MasksTypeOK
  <2>4. masks' \in [Slots -> SUBSET Syscalls]
    <3>1. \A i \in Slots : i < nbEnabled - 1 => i + 1 \in Slots
      BY <2>1 DEF Slots
    <3>2. QED BY <1>2, <2>1, <3>1 DEF Disable, MasksInv, MasksTypeOK
  <2>5. FreeMasksEmpty'
    <3>1. SUFFICES ASSUME NEW i \in Slots, i >= nbEnabled - 1
                   PROVE  masks'[i] = {}
      BY <2>2 DEF FreeMasksEmpty, Slots
    <3>2. i \in Nat
      BY DEF Slots
    <3>3. CASE i = nbEnabled - 1
      BY <1>2, <3>3 DEF Disable
    <3>4. CASE i # nbEnabled - 1
      <4>1. masks'[i] = masks[i]
        BY <1>2, <2>1, <3>1, <3>2, <3>4 DEF Disable
      <4>2. QED BY <2>1, <3>1, <3>2, <3>4, <4>1 DEF MasksInv, FreeMasksEmpty
    <3>5. QED BY <3>3, <3>4
  <2>6. nbEnabled' \in 0 .. MaxMasked /\ nbEnabled' <= nbEnabled
    BY <2>1, <2>2
  <2>7. QED BY <2>2, <2>3, <2>4, <2>5, <2>6, Zenon
<1>3. QED BY <1>1, <1>2

\* The invariant holds to begin with.
LEMMA MasksInitInv == MasksInit => MasksInv
<1> SUFFICES ASSUME MasksInit PROVE MasksInv
  OBVIOUS
<1>1. nbEnabled \in 0 .. MaxMasked
  BY MasksAssumption DEF MasksInit
<1>2. MasksTypeOK
  BY <1>1 DEF MasksInit, MasksTypeOK
<1>3. QED BY <1>2 DEF MasksInit, MasksInv, RoomKept, FreeMasksEmpty

\* Every step of the two threads keeps the invariant.
LEMMA MasksStepInv == MasksInv /\ [MasksNext]_maskVars => MasksInv'
<1> SUFFICES ASSUME MasksInv, [MasksNext]_maskVars PROVE MasksInv'
  OBVIOUS
<1> USE MasksAssumption
<1>1. ASSUME NEW p \in Processes, Attach(p) PROVE MasksInv'
  BY <1>1 DEF Attach, MasksInv, MasksTypeOK, RoomKept, FreeMasksEmpty, Slots
<1>2. ASSUME NEW p \in Processes, NEW mask \in SUBSET Syscalls, AsksToCatch(p, mask)
      PROVE  MasksInv'
  <2>1. RoomKept'
    BY <1>2 DEF AsksToCatch, RoomKept, MasksInv, MasksTypeOK
  <2>2. QED BY <1>2, <2>1 DEF AsksToCatch, MasksInv, MasksTypeOK, FreeMasksEmpty, Slots
<1>3. ASSUME NEW p \in Processes, StopsCatching(p) PROVE MasksInv'
  <2>1. Disable(p) /\ enabling' = enabling /\ debugged' = debugged /\ enabling = NotEnabling
    BY <1>3 DEF StopsCatching
  <2>2. QED BY <2>1, DisableKeeps DEF MasksInv, MasksTypeOK, RoomKept
<1>4. ASSUME NEW p \in Processes, DetachFromProcess(p) PROVE MasksInv'
  <2>1. Disable(p) /\ enabling' = enabling /\ debugged' \subseteq debugged
    BY <1>4 DEF DetachFromProcess
  <2>2. nbEnabled' \in 0 .. MaxMasked /\ nbEnabled' <= nbEnabled /\ FreeMasksEmpty'
    BY <2>1, DisableKeeps
  <2>3. MasksTypeOK'
    BY <2>1, DisableKeeps DEF MasksInv, MasksTypeOK
  <2>4. RoomKept'
    BY <2>1, <2>2 DEF MasksInv, MasksTypeOK, RoomKept
  <2>5. QED BY <2>2, <2>3, <2>4 DEF MasksInv
<1>5. ASSUME Enable PROVE MasksInv'
  <2>1. nbEnabled \in Slots /\ nbEnabled' = nbEnabled + 1 /\ enabling' = NotEnabling
    BY <1>5 DEF Enable, MasksInv, MasksTypeOK, RoomKept, Slots
  <2>2. enabling[1] \in Processes /\ enabling[2] \in SUBSET Syscalls
    BY <1>5 DEF Enable, MasksInv, MasksTypeOK
  <2>3. MasksTypeOK'
    BY <1>5, <2>1, <2>2 DEF Enable, MasksInv, MasksTypeOK, Slots
  <2>4. FreeMasksEmpty'
    <3>1. \A i \in Slots : i # nbEnabled => masks'[i] = masks[i]
      BY <1>5 DEF Enable, MasksInv, MasksTypeOK
    <3>2. \A i \in Slots : i >= nbEnabled' => i >= nbEnabled /\ i # nbEnabled
      BY <2>1 DEF Slots
    <3> QED
      BY <3>1, <3>2 DEF MasksInv, FreeMasksEmpty
  <2>5. QED BY <2>1, <2>3, <2>4 DEF MasksInv, RoomKept
<1>6. CASE UNCHANGED maskVars
  BY <1>6 DEF maskVars, MasksInv, MasksTypeOK, RoomKept, FreeMasksEmpty, Slots
<1>7. QED BY <1>1, <1>2, <1>3, <1>4, <1>5, <1>6 DEF MasksNext

\* An entry that is free has an empty mask, which is what the search ends on.
LEMMA InvNotSignalled == MasksInv => UnlistedNotSignalled
<1> SUFFICES ASSUME MasksInv, NEW p \in Processes, NEW svc \in Syscalls, ShouldSignal(p, svc),
                    ~ \E i \in Used : maskedPids[i] = p
             PROVE  FALSE
  BY DEF UnlistedNotSignalled
<1>1. EntryOf(p) = nbEnabled
  BY DEF EntryOf
<1>2. nbEnabled \in Slots /\ svc \in masks[nbEnabled]
  BY <1>1, MasksAssumption DEF ShouldSignal, MasksInv, MasksTypeOK, Slots
<1>3. QED BY <1>2 DEF MasksInv, FreeMasksEmpty, Slots

\* The table stays within its bounds.
THEOREM MasksTypeCorrect == MasksSpec => []MasksTypeOK
<1>1. MasksInv => MasksTypeOK
  BY DEF MasksInv
<1>2. QED BY <1>1, MasksInitInv, MasksStepInv, PTL DEF MasksSpec

\* A process without an entry gets no events of system calls.
THEOREM NobodyElseSignalled == MasksSpec => []UnlistedNotSignalled
BY InvNotSignalled, MasksInitInv, MasksStepInv, PTL DEF MasksSpec

-----------------------------------------------------------------------------
(* The bisection *)

SlotPairs == SlotsOf(MaxBreakpoint) \X SlotsOf(MaxBreakpoint)

\* The turn of the loop between two slots, and the slots of the next one.
Middle(p) == (p[1] + p[2]) \div 2
NextPair(table, address, p) ==
  IF table[Middle(p)].address < address THEN <<Middle(p), p[2]>> ELSE <<p[1], Middle(p)>>
Turn(f, table, address, p) ==
  LET next == NextPair(table, address, p)
  IN  IF table[Middle(p)].address = address THEN Middle(p)
      ELSE IF next[2] - next[1] > 1 THEN f[next]
      ELSE next[2]
LoopOf(f, table, address) == f = [p \in SlotPairs |-> Turn(f, table, address, p)]

\* The loop goes on between two slots that are nearer to each other.
LEMMA NextPairNearer ==
  ASSUME NEW table, NEW address, NEW p \in SlotPairs
  PROVE  LET next == NextPair(table, address, p)
         IN  /\ next \in SlotPairs
             /\ next[2] - next[1] > 1 => next[2] - next[1] < p[2] - p[1]
<1>1. PICK a \in SlotsOf(MaxBreakpoint), b \in SlotsOf(MaxBreakpoint) : p = <<a, b>>
  BY DEF SlotPairs
<1>2. a \in Nat /\ b \in Nat /\ MaxBreakpoint \in Nat
  BY CodeAssumption DEF SlotsOf
<1> DEFINE m == (a + b) \div 2
<1>3. m \in SlotsOf(MaxBreakpoint)
  BY <1>2 DEF SlotsOf
<1>4. Middle(p) = m
  BY <1>1 DEF Middle
<1>5. b - m > 1 => b - m < b - a
  BY <1>2
<1>6. m - a > 1 => m - a < b - a
  BY <1>2
<1> HIDE DEF m
<1>7. CASE table[m].address < address
  BY <1>1, <1>3, <1>4, <1>5, <1>7 DEF NextPair, SlotPairs
<1>8. CASE ~(table[m].address < address)
  BY <1>1, <1>3, <1>4, <1>6, <1>8 DEF NextPair, SlotPairs
<1> QED
  BY <1>7, <1>8

\* The distance of two slots.
LEMMA Distances ==
  ASSUME NEW p \in SlotPairs
  PROVE  p[2] - p[1] \in Int /\ p[2] - p[1] < MaxBreakpoint
  BY CodeAssumption DEF SlotPairs, SlotsOf

\* The loop ends: the recursive function that stands for it exists.
LEMMA LoopExists ==
  ASSUME NEW table, NEW address
  PROVE  \E f : LoopOf(f, table, address)
<1> DEFINE T(f, p) == Turn(f, table, address, p)
           N(p) == NextPair(table, address, p)
           Upto(f, d) == f = [p \in SlotPairs |-> IF p[2] - p[1] =< d THEN T(f, p) ELSE 0]
           Ends == {d \in Nat : \E f : Upto(f, d)}
<1>1. ASSUME NEW f, NEW g, NEW p \in SlotPairs,
             N(p)[2] - N(p)[1] > 1 => f[N(p)] = g[N(p)]
      PROVE  T(f, p) = T(g, p)
  BY <1>1 DEF Turn
<1>2. 0 \in Ends
  <2> DEFINE z == [p \in SlotPairs |-> 0]
             f == [p \in SlotPairs |-> IF p[2] - p[1] =< 0 THEN T(z, p) ELSE 0]
  <2>1. ASSUME NEW p \in SlotPairs, p[2] - p[1] =< 0
        PROVE  T(z, p) = T(f, p)
    <3>1. ~(N(p)[2] - N(p)[1] > 1)
      <4>1. N(p)[2] - N(p)[1] \in Int
        BY NextPairNearer, Distances
      <4> QED
        BY <2>1, <4>1, NextPairNearer, Distances
    <3> HIDE DEF z, f, N, T
    <3> QED
      BY <1>1, <3>1
  <2>2. \A p \in SlotPairs : f[p] = IF p[2] - p[1] =< 0 THEN T(f, p) ELSE 0
    <3> HIDE DEF T
    <3> QED
      BY <2>1
  <2>3. f = [p \in SlotPairs |-> f[p]]
    OBVIOUS
  <2> HIDE DEF f, T
  <2>4. Upto(f, 0)
    BY <2>2, <2>3
  <2> QED
    BY <2>4
<1>3. ASSUME NEW d \in Ends
      PROVE  d + 1 \in Ends
  <2>1. PICK g : Upto(g, d)
    BY <1>3
  <2>2. d \in Nat
    BY <1>3
  <2> DEFINE f == [p \in SlotPairs |-> IF p[2] - p[1] =< d + 1 THEN T(g, p) ELSE 0]
  <2>3. ASSUME NEW p \in SlotPairs, p[2] - p[1] =< d + 1
        PROVE  T(g, p) = T(f, p)
    <3>1. ASSUME N(p)[2] - N(p)[1] > 1
          PROVE  f[N(p)] = g[N(p)]
      <4> DEFINE q == N(p)
      <4>1. q \in SlotPairs /\ q[2] - q[1] \in Int /\ q[2] - q[1] < p[2] - p[1]
        BY <3>1, NextPairNearer, Distances
      <4> HIDE DEF q, T
      <4>2. q[2] - q[1] =< d /\ q[2] - q[1] =< d + 1
        BY <2>2, <2>3, <4>1, Distances
      <4>3. f[q] = T(g, q) /\ g[q] = T(g, q)
        BY <2>1, <4>1, <4>2
      <4> QED
        BY <4>3 DEF q
    <3> HIDE DEF f, N, T
    <3> QED
      BY <1>1, <3>1
  <2>4. \A p \in SlotPairs : f[p] = IF p[2] - p[1] =< d + 1 THEN T(f, p) ELSE 0
    <3> HIDE DEF T
    <3> QED
      BY <2>3
  <2>5. f = [p \in SlotPairs |-> f[p]]
    OBVIOUS
  <2> HIDE DEF f, T
  <2>6. Upto(f, d + 1)
    BY <2>4, <2>5
  <2>7. d + 1 \in Nat
    BY <2>2
  <2> QED
    BY <2>6, <2>7
<1>4. Ends = Nat
  <2> HIDE DEF Ends
  <2> QED
    BY <1>2, <1>3, Induction DEF Ends
<1>5. MaxBreakpoint \in Nat
  BY CodeAssumption
<1>6. PICK f : Upto(f, MaxBreakpoint)
  BY <1>4, <1>5
<1>7. \A p \in SlotPairs : p[2] - p[1] =< MaxBreakpoint
  BY <1>5, Distances
<1>8. LoopOf(f, table, address)
  <2> HIDE DEF T
  <2>1. f = [p \in SlotPairs |-> T(f, p)]
    BY <1>6, <1>7
  <2> QED
    BY <2>1 DEF LoopOf, T
<1> QED
  BY <1>8

LEMMA BisectDef ==
  ASSUME NEW table, NEW address
  PROVE  \E f : LoopOf(f, table, address) /\ Bisect(table, address) = f[<<0, bpCount - 1>>]
<1> DEFINE f == CHOOSE g : LoopOf(g, table, address)
<1>1. LoopOf(f, table, address)
  BY LoopExists
<1>2. Bisect(table, address) = f[<<0, bpCount - 1>>]
  BY DEF Bisect, LoopOf, SlotPairs, Turn, NextPair, Middle
<1> HIDE DEF f
<1> QED
  BY <1>1, <1>2

\* The n entries of a table are in the order of their addresses.
Sorted(table, n) ==
  /\ \A i \in SlotsOf(n) : table[i].address \in Nat
  /\ \A i, j \in SlotsOf(n) : i < j => table[i].address < table[j].address

\* id is where an address is in the table, or where it belongs.
RightSlot(table, n, address, id) ==
  /\ id \in 0..n
  /\ \A i \in SlotsOf(n) : i < id => table[i].address < address
  /\ \A i \in SlotsOf(n) : id =< i => address =< table[i].address

LEMMA BetweenNeighbours ==
  ASSUME NEW table, NEW n \in Nat, NEW address \in Nat, Sorted(table, n),
         NEW i \in Nat, i + 1 < n,
         table[i].address < address, address =< table[i + 1].address
  PROVE  RightSlot(table, n, address, i + 1)
<1>1. i \in SlotsOf(n) /\ i + 1 \in SlotsOf(n) /\ \A j \in SlotsOf(n) : j \in Nat
  BY DEF SlotsOf
<1>2. ASSUME NEW j \in SlotsOf(n), j < i + 1
      PROVE  table[j].address < address
  BY <1>1, <1>2 DEF Sorted
<1>3. ASSUME NEW j \in SlotsOf(n), i + 1 =< j
      PROVE  address =< table[j].address
  BY <1>1, <1>3 DEF Sorted
<1> QED
  BY <1>2, <1>3 DEF RightSlot

LEMMA AtTheAddress ==
  ASSUME NEW table, NEW n \in Nat, Sorted(table, n), NEW i \in SlotsOf(n)
  PROVE  RightSlot(table, n, table[i].address, i)
<1>1. i \in 0..n /\ \A j \in SlotsOf(n) : j \in Nat
  BY DEF SlotsOf
<1>2. ASSUME NEW j \in SlotsOf(n), i =< j
      PROVE  table[i].address =< table[j].address
  <2>1. CASE i = j
    <3>1. Nat \subseteq Int /\ table[i].address \in Nat
      BY DEF Sorted
    <3> QED
      BY <2>1, <3>1
  <2>2. CASE i < j
    <3>1. table[i].address \in Nat /\ table[j].address \in Nat
      BY <1>2 DEF Sorted
    <3>2. table[i].address < table[j].address
      BY <2>2, <1>2 DEF Sorted
    <3>3. \A a, b \in Nat : a < b => a =< b
      OBVIOUS
    <3> QED
      BY <3>1, <3>2, <3>3, Zenon
  <2>3. i = j \/ i < j
    BY <1>2 DEF SlotsOf
  <2> QED
    BY <2>1, <2>2, <2>3
<1> QED
  BY <1>1, <1>2 DEF RightSlot, Sorted

\* In a sorted table, the loop finds the right slot.
LEMMA LoopFinds ==
  ASSUME NEW table, NEW n \in 0..MaxBreakpoint, NEW address \in Nat, Sorted(table, n),
         NEW f, LoopOf(f, table, address),
         NEW q \in SlotPairs, q[2] < n,
         table[q[1]].address < address, address =< table[q[2]].address
  PROVE  q[1] < q[2] => RightSlot(table, n, address, f[q])
<1> DEFINE Between(p) == /\ p[1] < p[2] /\ p[2] < n
                         /\ table[p[1]].address < address /\ address =< table[p[2]].address
           Good == {d \in Nat : \A p \in SlotPairs :
                      Between(p) /\ p[2] - p[1] =< d => RightSlot(table, n, address, f[p])}
<1>1. n \in Nat /\ MaxBreakpoint \in Nat /\ n =< MaxBreakpoint
  BY CodeAssumption
<1>2. 0 \in Good
  BY Distances DEF SlotPairs, SlotsOf
<1>3. ASSUME NEW d \in Good
      PROVE  d + 1 \in Good
  <2>1. SUFFICES ASSUME NEW p \in SlotPairs, Between(p), p[2] - p[1] =< d + 1
                 PROVE  RightSlot(table, n, address, f[p])
    OBVIOUS
  <2>2. PICK a \in SlotsOf(MaxBreakpoint), b \in SlotsOf(MaxBreakpoint) : p = <<a, b>>
    BY DEF SlotPairs
  <2>3. a \in Nat /\ b \in Nat /\ d \in Nat
    BY DEF SlotsOf
  <2>4. /\ a < b /\ b < n /\ table[a].address < address /\ address =< table[b].address
        /\ b - a =< d + 1
    BY <2>1, <2>2
  <2> DEFINE m == (a + b) \div 2
  <2>5. m \in Nat /\ a =< m /\ m < b
    BY <2>3, <2>4
  <2>6. Middle(p) = m
    BY <2>2 DEF Middle
  <2> HIDE DEF m
  <2>7. m \in SlotsOf(n) /\ m \in SlotsOf(MaxBreakpoint) /\ table[m].address \in Nat
    BY <1>1, <2>3, <2>4, <2>5 DEF SlotsOf, Sorted
  <2>8. f[p] = Turn(f, table, address, p)
    BY DEF LoopOf
  <2>9. CASE table[m].address = address
    <3>1. f[p] = m
      BY <2>6, <2>8, <2>9 DEF Turn
    <3> QED
      BY <1>1, <2>7, <2>9, <3>1, AtTheAddress
  <2>10. CASE table[m].address < address
    <3>1. NextPair(table, address, p) = <<m, b>>
      BY <2>2, <2>6, <2>10 DEF NextPair
    <3>2. f[p] = IF b - m > 1 THEN f[<<m, b>>] ELSE b
      BY <2>6, <2>7, <2>8, <2>10, <3>1 DEF Turn
    <3>3. CASE b - m > 1
      <4>1. <<m, b>> \in SlotPairs /\ b - m < b - a
        BY <2>2, <3>1, <3>3, NextPairNearer
      <4>2. Between(<<m, b>>) /\ b - m =< d
        BY <2>3, <2>4, <2>5, <2>10, <4>1
      <4> QED
        BY <3>2, <3>3, <4>1, <4>2
    <3>4. CASE ~(b - m > 1)
      <4>1. b = m + 1
        BY <2>3, <2>5, <3>4
      <4> QED
        BY <1>1, <2>4, <2>5, <2>10, <3>2, <3>4, <4>1, BetweenNeighbours
    <3> QED
      BY <3>3, <3>4
  <2>11. CASE address < table[m].address
    <3>1. ~(table[m].address < address) /\ table[m].address # address /\ a < m
      BY <2>3, <2>4, <2>5, <2>7, <2>11
    <3>2. NextPair(table, address, p) = <<a, m>>
      BY <2>2, <2>6, <3>1 DEF NextPair
    <3>3. f[p] = IF m - a > 1 THEN f[<<a, m>>] ELSE m
      BY <2>6, <2>8, <3>1, <3>2 DEF Turn
    <3>4. CASE m - a > 1
      <4>1. <<a, m>> \in SlotPairs /\ m - a < b - a
        BY <2>2, <3>2, <3>4, NextPairNearer
      <4>2. Between(<<a, m>>) /\ m - a =< d
        BY <1>1, <2>3, <2>4, <2>5, <2>7, <2>11, <3>1, <4>1
      <4> QED
        BY <3>3, <3>4, <4>1, <4>2
    <3>5. CASE ~(m - a > 1)
      <4>1. m = a + 1 /\ a + 1 < n
        BY <1>1, <2>3, <2>4, <2>5, <3>1, <3>5
      <4>2. address =< table[a + 1].address
        BY <2>7, <2>11, <4>1
      <4> QED
        BY <1>1, <2>3, <2>4, <3>3, <3>5, <4>1, <4>2, BetweenNeighbours
    <3> QED
      BY <3>4, <3>5
  <2> QED
    BY <2>7, <2>9, <2>10, <2>11
<1>4. Good = Nat
  <2> HIDE DEF Good
  <2> QED
    BY <1>2, <1>3, Induction DEF Good
<1>5. q[2] - q[1] =< MaxBreakpoint
  BY <1>1, Distances
<1> QED
  BY <1>1, <1>4, <1>5

\* GDB_FindClosestBreakpointSlot finds an address where it is or belongs.
LEMMA ClosestSlotIsRight ==
  ASSUME NEW address \in Nat, bpCount \in 0..MaxBreakpoint, Sorted(bpTable, bpCount)
  PROVE  RightSlot(bpTable, bpCount, address, FindClosestSlot(address))
<1>1. bpCount \in Nat /\ MaxBreakpoint \in Nat
  BY CodeAssumption
<1>2. CASE bpCount = 0
  BY <1>2 DEF FindClosestSlot, RightSlot, SlotsOf
<1>3. CASE bpCount # 0 /\ address <= bpTable[0].address
  <2>1. FindClosestSlot(address) = 0
    BY <1>3 DEF FindClosestSlot
  <2>2. 0 \in SlotsOf(bpCount) /\ \A i \in SlotsOf(bpCount) : i \in Nat
    BY <1>1, <1>3 DEF SlotsOf
  <2>3. ASSUME NEW i \in SlotsOf(bpCount)
        PROVE  address =< bpTable[i].address
    BY <1>3, <2>2 DEF Sorted
  <2> QED
    BY <1>1, <2>1, <2>2, <2>3 DEF RightSlot
<1>4. CASE bpCount # 0 /\ ~(address <= bpTable[0].address)
             /\ address > bpTable[bpCount - 1].address
  <2>1. FindClosestSlot(address) = bpCount
    BY <1>4 DEF FindClosestSlot
  <2>2. bpCount - 1 \in SlotsOf(bpCount)
        /\ \A i \in SlotsOf(bpCount) : i \in Nat /\ i =< bpCount - 1 /\ i # bpCount
    BY <1>1, <1>4 DEF SlotsOf
  <2>3. ASSUME NEW i \in SlotsOf(bpCount)
        PROVE  bpTable[i].address < address
    BY <1>1, <1>4, <2>2 DEF Sorted
  <2> QED
    BY <1>1, <2>1, <2>2, <2>3 DEF RightSlot
<1>5. CASE bpCount # 0 /\ ~(address <= bpTable[0].address)
             /\ ~(address > bpTable[bpCount - 1].address)
  <2>1. FindClosestSlot(address) = Bisect(bpTable, address)
    BY <1>5 DEF FindClosestSlot
  <2>2. PICK f : /\ LoopOf(f, bpTable, address)
                 /\ Bisect(bpTable, address) = f[<<0, bpCount - 1>>]
    BY BisectDef
  <2> DEFINE q == <<0, bpCount - 1>>
  <2>3. 0 \in SlotsOf(bpCount) /\ bpCount - 1 \in SlotsOf(bpCount)
    BY <1>1, <1>5 DEF SlotsOf
  <2>4. q \in SlotPairs /\ q[2] < bpCount
    BY <1>1, <1>5 DEF SlotPairs, SlotsOf
  <2>5. bpTable[0].address \in Nat /\ bpTable[bpCount - 1].address \in Nat
    BY <2>3 DEF Sorted
  <2>6. bpTable[q[1]].address < address /\ address =< bpTable[q[2]].address
    BY <1>5, <2>5
  <2>7. 0 # bpCount - 1
    <3>1. SUFFICES ASSUME bpCount - 1 = 0
                   PROVE  FALSE
      OBVIOUS
    <3>2. bpTable[bpCount - 1] = bpTable[0]
      BY <3>1
    <3> QED
      BY <1>5, <2>5, <3>2
  <2>8. q[1] < q[2]
    BY <1>1, <1>5, <2>7
  <2> HIDE DEF q
  <2>9. RightSlot(bpTable, bpCount, address, f[q])
    BY <2>2, <2>4, <2>6, <2>8, LoopFinds
  <2> QED
    BY <2>1, <2>2, <2>9 DEF q
<1> QED
  BY <1>2, <1>3, <1>4, <1>5
-----------------------------------------------------------------------------
(* The table *)

Breakpoint == [address : Nat, saved : Int, size : Nat, persistent : BOOLEAN]

\* An entry replaces an instruction of the program, and can put it back.
PutsBack(entry) == entry.address \in Code /\ entry.saved = entry.address /\ entry.size # 0

Entries(table, n) ==
  /\ table \in [SlotsOf(MaxBreakpoint) -> Breakpoint]
  /\ n \in 0..MaxBreakpoint
  /\ \A i \in SlotsOf(n) : PutsBack(table[i])
  /\ Sorted(table, n)

IsListed(table, n, address) == \E i \in SlotsOf(n) : table[i].address = address

LEMMA EmptyTable == Entries([i \in SlotsOf(MaxBreakpoint) |-> FreeBreakpoint], 0)
<1>1. FreeBreakpoint \in Breakpoint
  BY DEF FreeBreakpoint, Breakpoint
<1>2. SlotsOf(0) = {} /\ 0 \in 0..MaxBreakpoint
  BY CodeAssumption DEF SlotsOf
<1> QED
  BY <1>1, <1>2 DEF Entries, Sorted

\* An address that is not listed gets an entry in its right slot.
LEMMA InsertKeepsEntries ==
  ASSUME NEW table, NEW n, Entries(table, n), n # MaxBreakpoint,
         NEW entry \in Breakpoint, PutsBack(entry), ~IsListed(table, n, entry.address),
         NEW id, RightSlot(table, n, entry.address, id)
  PROVE  LET new == [MakeRoom(table, id, n) EXCEPT ![id] = entry]
         IN  /\ Entries(new, n + 1)
             /\ \A a : IsListed(new, n + 1, a) <=> IsListed(table, n, a) \/ a = entry.address
<1> DEFINE new == [MakeRoom(table, id, n) EXCEPT ![id] = entry]
<1>1. /\ n \in Nat /\ MaxBreakpoint \in Nat /\ n < MaxBreakpoint /\ id \in Nat /\ id =< n
      /\ DOMAIN table = SlotsOf(MaxBreakpoint)
  BY CodeAssumption DEF Entries, RightSlot
<1>2. /\ \A i \in SlotsOf(n + 1) : /\ i \in Nat /\ i \in SlotsOf(MaxBreakpoint)
                                   /\ i < id => i \in SlotsOf(n)
                                   /\ i > id => i - 1 \in SlotsOf(n) /\ i =< n
      /\ \A i \in SlotsOf(n) : /\ i \in Nat /\ i \in SlotsOf(n + 1) /\ i + 1 \in SlotsOf(n + 1)
                               /\ i \in SlotsOf(MaxBreakpoint)
      /\ id \in SlotsOf(n + 1)
      /\ \A i \in SlotsOf(MaxBreakpoint) : i > id /\ i <= n => i - 1 \in SlotsOf(MaxBreakpoint)
  BY <1>1 DEF SlotsOf
<1>3. new \in [SlotsOf(MaxBreakpoint) -> Breakpoint]
  <2>1. MakeRoom(table, id, n) \in [SlotsOf(MaxBreakpoint) -> Breakpoint]
    BY <1>1, <1>2 DEF MakeRoom, Entries
  <2> QED
    BY <2>1
<1>4. ASSUME NEW i \in SlotsOf(n + 1)
      PROVE  /\ i < id => new[i] = table[i]
             /\ i = id => new[i] = entry
             /\ i > id => new[i] = table[i - 1]
  BY <1>1, <1>2 DEF MakeRoom
<1> HIDE DEF new
<1>5. ASSUME NEW i \in SlotsOf(n)
      PROVE  /\ i < id => table[i].address < entry.address /\ new[i] = table[i]
             /\ i >= id => entry.address < table[i].address /\ new[i + 1] = table[i]
             /\ table[i].address \in Nat
  <2>1. table[i].address \in Nat /\ entry.address \in Nat /\ table[i].address # entry.address
    BY DEF Entries, Sorted, Breakpoint, IsListed
  <2>2. /\ i < id => table[i].address < entry.address
        /\ i >= id => entry.address =< table[i].address
    BY DEF RightSlot
  <2>3. i >= id => i + 1 > id /\ (i + 1) - 1 = i
    BY <1>1, <1>2
  <2> QED
    BY <1>1, <1>2, <1>4, <2>1, <2>2, <2>3
<1>6. \A i \in SlotsOf(n + 1) : PutsBack(new[i])
  BY <1>1, <1>2, <1>4 DEF Entries
<1>7. Sorted(new, n + 1)
  <2>1. \A i \in SlotsOf(n + 1) : new[i].address \in Nat
    BY <1>2, <1>3 DEF Breakpoint
  <2>2. ASSUME NEW i \in SlotsOf(n + 1), NEW j \in SlotsOf(n + 1), i < j
        PROVE  new[i].address < new[j].address
    <3>1. CASE j < id
      BY <1>1, <1>2, <1>4, <2>2, <3>1 DEF Entries, Sorted
    <3>2. CASE j = id
      BY <1>2, <1>4, <1>5, <2>2, <3>2
    <3>3. CASE j > id
      <4>1. j - 1 \in SlotsOf(n) /\ j - 1 >= id /\ new[j] = table[j - 1] /\ j - 1 \in Nat
        BY <1>1, <1>2, <1>4, <3>3
      <4>2. CASE i < id
        <5>1. i \in SlotsOf(n) /\ i < j - 1 /\ new[i] = table[i]
          BY <1>1, <1>2, <1>4, <4>1, <4>2
        <5> QED
          BY <4>1, <5>1 DEF Entries, Sorted
      <4>3. CASE i = id
        BY <1>4, <1>5, <4>1, <4>3
      <4>4. CASE i > id
        <5>1. i - 1 \in SlotsOf(n) /\ i - 1 < j - 1 /\ new[i] = table[i - 1]
          BY <1>1, <1>2, <1>4, <2>2, <4>4
        <5> QED
          BY <4>1, <5>1 DEF Entries, Sorted
      <4> QED
        BY <1>1, <1>2, <4>2, <4>3, <4>4
    <3>4. i \in Nat /\ j \in Nat /\ id \in Nat
      BY <1>1, <1>2
    <3> QED
      BY <3>1, <3>2, <3>3, <3>4
  <2> QED
    BY <2>1, <2>2 DEF Sorted
<1>8. ASSUME NEW a
      PROVE  IsListed(new, n + 1, a) <=> IsListed(table, n, a) \/ a = entry.address
  <2>1. ASSUME NEW i \in SlotsOf(n + 1), new[i].address = a
        PROVE  IsListed(table, n, a) \/ a = entry.address
    BY <1>1, <1>2, <1>4, <2>1 DEF IsListed
  <2>2. ASSUME NEW i \in SlotsOf(n), table[i].address = a
        PROVE  IsListed(new, n + 1, a)
    BY <1>1, <1>2, <1>5, <2>2 DEF IsListed
  <2>3. IsListed(new, n + 1, entry.address)
    BY <1>2, <1>4 DEF IsListed
  <2> QED
    BY <2>1, <2>2, <2>3 DEF IsListed
<1>9. n + 1 \in 0..MaxBreakpoint
  BY <1>1
<1>10. Entries(new, n + 1)
  BY <1>3, <1>6, <1>7, <1>9 DEF Entries
<1> QED
  BY <1>8, <1>10 DEF new

\* An entry is taken out, and no other.
LEMMA RemoveKeepsEntries ==
  ASSUME NEW table, NEW n, Entries(table, n), NEW id \in SlotsOf(n)
  PROVE  LET new == CloseGap(table, id, n)
         IN  /\ Entries(new, n - 1)
             /\ \A a : IsListed(new, n - 1, a) <=> IsListed(table, n, a) /\ a # table[id].address
<1> DEFINE new == CloseGap(table, id, n)
<1>1. /\ n \in Nat /\ MaxBreakpoint \in Nat /\ n =< MaxBreakpoint /\ id \in Nat /\ id < n
      /\ DOMAIN table = SlotsOf(MaxBreakpoint)
  BY CodeAssumption DEF Entries, SlotsOf
<1>2. /\ \A i \in SlotsOf(n - 1) : /\ i \in Nat /\ i \in SlotsOf(MaxBreakpoint) /\ i < n - 1
                                   /\ i \in SlotsOf(n) /\ i + 1 \in SlotsOf(n)
      /\ \A i \in SlotsOf(n) : /\ i \in Nat
                               /\ i < id => i \in SlotsOf(n - 1)
                               /\ i > id => i - 1 \in SlotsOf(n - 1) /\ i - 1 >= id
      /\ \A i \in SlotsOf(MaxBreakpoint) : i >= id /\ i < n - 1 => i + 1 \in SlotsOf(MaxBreakpoint)
  BY <1>1 DEF SlotsOf
<1>3. new \in [SlotsOf(MaxBreakpoint) -> Breakpoint]
  <2>1. FreeBreakpoint \in Breakpoint
    BY DEF FreeBreakpoint, Breakpoint
  <2> QED
    BY <1>1, <1>2, <2>1 DEF CloseGap, Entries
<1>4. ASSUME NEW i \in SlotsOf(n - 1)
      PROVE  /\ i < id => new[i] = table[i]
             /\ i >= id => new[i] = table[i + 1]
  BY <1>1, <1>2 DEF CloseGap
<1> HIDE DEF new
<1>5. \A i \in SlotsOf(n - 1) : PutsBack(new[i])
  BY <1>1, <1>2, <1>4 DEF Entries
<1>6. Sorted(new, n - 1)
  <2>1. \A i \in SlotsOf(n - 1) : new[i].address \in Nat
    BY <1>2, <1>3 DEF Breakpoint
  <2>2. ASSUME NEW i \in SlotsOf(n - 1), NEW j \in SlotsOf(n - 1), i < j
        PROVE  new[i].address < new[j].address
    <3>1. CASE j < id
      BY <1>1, <1>2, <1>4, <2>2, <3>1 DEF Entries, Sorted
    <3>2. CASE j >= id /\ i < id
      BY <1>1, <1>2, <1>4, <2>2, <3>2 DEF Entries, Sorted
    <3>3. CASE i >= id
      <4>1. i + 1 \in SlotsOf(n) /\ j + 1 \in SlotsOf(n) /\ i + 1 < j + 1 /\ j >= id
        BY <1>1, <1>2, <2>2, <3>3
      <4> QED
        BY <1>4, <3>3, <4>1 DEF Entries, Sorted
    <3>4. i \in Nat /\ j \in Nat /\ id \in Nat
      BY <1>1, <1>2
    <3> QED
      BY <3>1, <3>2, <3>3, <3>4
  <2> QED
    BY <2>1, <2>2 DEF Sorted
<1>7. ASSUME NEW i \in SlotsOf(n), i # id
      PROVE  table[i].address # table[id].address
  BY <1>1, <1>2, <1>7 DEF Entries, Sorted
<1>8. ASSUME NEW a
      PROVE  IsListed(new, n - 1, a) <=> IsListed(table, n, a) /\ a # table[id].address
  <2>1. ASSUME NEW i \in SlotsOf(n - 1), new[i].address = a
        PROVE  IsListed(table, n, a) /\ a # table[id].address
    <3>1. CASE i < id
      BY <1>1, <1>2, <1>4, <1>7, <2>1, <3>1 DEF IsListed
    <3>2. CASE i >= id
      <4>1. i + 1 \in SlotsOf(n) /\ i + 1 # id
        BY <1>1, <1>2, <3>2
      <4> QED
        BY <1>4, <1>7, <2>1, <3>2, <4>1 DEF IsListed
    <3> QED
      BY <1>1, <1>2, <3>1, <3>2
  <2>2. ASSUME NEW i \in SlotsOf(n), table[i].address = a, i # id
        PROVE  IsListed(new, n - 1, a)
    <3>1. CASE i < id
      BY <1>1, <1>2, <1>4, <2>2, <3>1 DEF IsListed
    <3>2. CASE i > id
      <4>1. i - 1 \in SlotsOf(n - 1) /\ i - 1 >= id /\ (i - 1) + 1 = i
        BY <1>1, <1>2, <3>2
      <4>2. new[i - 1] = table[i]
        BY <1>4, <4>1
      <4> QED
        BY <2>2, <4>1, <4>2 DEF IsListed
    <3> QED
      BY <1>1, <1>2, <2>2, <3>1, <3>2
  <2> QED
    BY <2>1, <2>2 DEF IsListed
<1>9. n - 1 \in 0..MaxBreakpoint
  BY <1>1
<1>10. Entries(new, n - 1)
  BY <1>3, <1>5, <1>6, <1>9 DEF Entries
<1> QED
  BY <1>8, <1>10 DEF new

\* The room made for an entry that cannot be set is closed again.
LEMMA RoomClosedAgain ==
  ASSUME NEW table, NEW n, Entries(table, n), n # MaxBreakpoint, NEW id \in 0..n
  PROVE  LET new == CloseGap(MakeRoom(table, id, n), id, n + 1)
         IN  /\ Entries(new, n)
             /\ \A i \in SlotsOf(n) : new[i] = table[i]
<1> DEFINE room == MakeRoom(table, id, n)
           new == CloseGap(room, id, n + 1)
<1>1. /\ n \in Nat /\ MaxBreakpoint \in Nat /\ n < MaxBreakpoint
      /\ DOMAIN table = SlotsOf(MaxBreakpoint)
  BY CodeAssumption DEF Entries
<1>2. /\ \A i \in SlotsOf(n) : /\ i \in SlotsOf(MaxBreakpoint) /\ i \in Nat /\ i < n
                               /\ i + 1 \in SlotsOf(MaxBreakpoint) /\ (i + 1) - 1 = i
      /\ \A i \in SlotsOf(MaxBreakpoint) :
           /\ i >= id /\ i < n => i + 1 \in SlotsOf(MaxBreakpoint)
           /\ i > id /\ i <= n => i - 1 \in SlotsOf(MaxBreakpoint)
      /\ (n + 1) - 1 = n
  BY <1>1 DEF SlotsOf
<1>3. room \in [SlotsOf(MaxBreakpoint) -> Breakpoint] /\ DOMAIN room = SlotsOf(MaxBreakpoint)
  BY <1>1, <1>2 DEF MakeRoom, Entries
<1>4. ASSUME NEW i \in SlotsOf(n)
      PROVE  (i < id => room[i] = table[i]) /\ (i >= id => room[i + 1] = table[i])
  BY <1>1, <1>2 DEF MakeRoom
<1> HIDE DEF room
<1>5. ASSUME NEW i \in SlotsOf(n)
      PROVE  new[i] = table[i]
  BY <1>1, <1>2, <1>3, <1>4 DEF CloseGap
<1>6. new \in [SlotsOf(MaxBreakpoint) -> Breakpoint]
  <2>1. FreeBreakpoint \in Breakpoint
    BY DEF FreeBreakpoint, Breakpoint
  <2> QED
    BY <1>1, <1>2, <1>3, <2>1 DEF CloseGap
<1> HIDE DEF new
<1>7. Entries(new, n)
  BY <1>5, <1>6 DEF Entries, Sorted
<1> QED
  BY <1>5, <1>7 DEF new, room

-----------------------------------------------------------------------------
(* The table and the memory *)

BpInv ==
  /\ Entries(bpTable, bpCount)
  /\ attached \in BOOLEAN
  /\ attached => bpMemory = [a \in Code |-> IF IsListed(bpTable, bpCount, a) THEN Svc ELSE a]
  /\ ~attached => bpCount = 0

LEMMA BpInitially == BpInit => BpInv
<1>1. \A a : ~IsListed(bpTable, 0, a)
  BY DEF IsListed, SlotsOf
<1> QED
  BY <1>1, EmptyTable DEF BpInit, BpInv

\* What the search tells of an address.
LEMMA FoundOrNot ==
  ASSUME Entries(bpTable, bpCount), NEW address \in Nat
  PROVE  LET id == FindClosestSlot(address)
         IN  /\ RightSlot(bpTable, bpCount, address, id)
             /\ IsListed(bpTable, bpCount, address) <=> HasBreakpoint(id, address)
             /\ HasBreakpoint(id, address) => id \in SlotsOf(bpCount)
<1> DEFINE id == FindClosestSlot(address)
<1>1. bpCount \in Nat /\ \A i \in SlotsOf(bpCount) : i \in Nat /\ bpTable[i].address \in Nat
  BY DEF Entries, SlotsOf, Sorted
<1>2. RightSlot(bpTable, bpCount, address, id)
  BY ClosestSlotIsRight DEF Entries
<1> HIDE DEF id
<1>3. id \in 0..bpCount /\ (id # bpCount => id \in SlotsOf(bpCount))
  BY <1>1, <1>2 DEF RightSlot, SlotsOf
<1>4. ASSUME NEW i \in SlotsOf(bpCount), bpTable[i].address = address
      PROVE  i = id
  <2>1. ~(i < id)
    BY <1>1, <1>2, <1>4 DEF RightSlot
  <2>2. ASSUME id < i
        PROVE  FALSE
    <3>1. id \in SlotsOf(bpCount)
      BY <1>1, <1>3, <2>2 DEF SlotsOf
    <3>2. address =< bpTable[id].address /\ bpTable[id].address < bpTable[i].address
      BY <1>1, <1>2, <1>3, <2>2, <3>1 DEF RightSlot, Entries, Sorted
    <3> QED
      BY <1>1, <1>4, <3>1, <3>2
  <2> QED
    BY <1>1, <1>3, <2>1, <2>2
<1>5. \A i \in SlotsOf(bpCount) : i # bpCount
  BY <1>1 DEF SlotsOf
<1> QED
  BY <1>2, <1>3, <1>4, <1>5 DEF HasBreakpoint, IsListed, id

LEMMA AddressesAreNumbers ==
  ASSUME NEW asked \in Asked
  PROVE  ClearBit0(asked) \in Nat
<1>1. asked \in Nat
  BY CodeAssumption DEF Asked, Code
<1> QED
  BY <1>1 DEF ClearBit0

LEMMA AddKeeps ==
  ASSUME BpInv, NEW asked \in Asked, NEW thumb \in BOOLEAN, NEW persist \in BOOLEAN,
         NEW readable \in BOOLEAN, NEW writable \in BOOLEAN,
         AddBreakpoint(asked, thumb, persist, readable, writable)
  PROVE  BpInv'
<1> DEFINE address == ClearBit0(asked)
           id == FindClosestSlot(address)
           entry == [address |-> address, saved |-> bpMemory[address],
                     size |-> IF thumb THEN 2 ELSE 4, persistent |-> persist]
<1>1. /\ attached /\ attached' = attached
      /\ address \in Code /\ address \in Nat
      /\ ~(HasBreakpoint(id, address) /\ bpTable[id].size # 0)
      /\ bpCount # MaxBreakpoint
  BY AddressesAreNumbers DEF AddBreakpoint, Code
<1>2. /\ Entries(bpTable, bpCount)
      /\ bpMemory = [a \in Code |-> IF IsListed(bpTable, bpCount, a) THEN Svc ELSE a]
  BY <1>1 DEF BpInv
<1>3. /\ RightSlot(bpTable, bpCount, address, id)
      /\ IsListed(bpTable, bpCount, address) <=> HasBreakpoint(id, address)
      /\ HasBreakpoint(id, address) => id \in SlotsOf(bpCount)
  BY <1>1, <1>2, FoundOrNot
<1>4. ~IsListed(bpTable, bpCount, address)
  BY <1>1, <1>2, <1>3 DEF Entries, PutsBack
<1>5. CASE readable /\ writable
  <2>1. /\ bpTable' = [MakeRoom(bpTable, id, bpCount) EXCEPT ![id] = entry]
        /\ bpCount' = bpCount + 1
        /\ bpMemory' = [bpMemory EXCEPT ![address] = Svc]
    BY <1>5 DEF AddBreakpoint
  <2>2. bpMemory[address] = address
    BY <1>1, <1>2, <1>4
  <2>3. entry \in Breakpoint /\ PutsBack(entry) /\ entry.address = address
    BY <1>1, <2>2 DEF Breakpoint, PutsBack
  <2> HIDE DEF entry, id, address
  <2>4. /\ Entries(bpTable', bpCount')
        /\ \A a : IsListed(bpTable', bpCount', a) <=> IsListed(bpTable, bpCount, a) \/ a = address
    BY <1>1, <1>2, <1>3, <1>4, <2>1, <2>3, InsertKeepsEntries
  <2>5. bpMemory' = [a \in Code |-> IF IsListed(bpTable', bpCount', a) THEN Svc ELSE a]
    BY <1>1, <1>2, <2>1, <2>4
  <2> QED
    BY <1>1, <2>4, <2>5 DEF BpInv, IsListed
<1>6. CASE ~(readable /\ writable)
  <2>1. /\ bpTable' = CloseGap(MakeRoom(bpTable, id, bpCount), id, bpCount + 1)
        /\ bpCount' = bpCount /\ bpMemory' = bpMemory
    BY <1>6 DEF AddBreakpoint
  <2>2. id \in 0..bpCount
    BY <1>3 DEF RightSlot
  <2> HIDE DEF id, address
  <2>3. Entries(bpTable', bpCount) /\ \A i \in SlotsOf(bpCount) : bpTable'[i] = bpTable[i]
    BY <1>1, <1>2, <2>1, <2>2, RoomClosedAgain
  <2>4. \A a : IsListed(bpTable', bpCount', a) <=> IsListed(bpTable, bpCount, a)
    BY <2>1, <2>3 DEF IsListed
  <2>5. bpMemory' = [a \in Code |-> IF IsListed(bpTable', bpCount', a) THEN Svc ELSE a]
    BY <1>2, <2>1, <2>4
  <2> QED
    BY <1>1, <2>1, <2>3, <2>5 DEF BpInv, IsListed
<1> QED
  BY <1>5, <1>6

LEMMA RemoveKeeps ==
  ASSUME BpInv, NEW asked \in Asked, RemoveBreakpoint(asked)
  PROVE  BpInv'
<1> DEFINE address == ClearBit0(asked)
           id == FindClosestSlot(address)
<1>1. /\ attached /\ attached' = attached /\ address \in Nat
      /\ HasBreakpoint(id, address)
      /\ bpMemory' = Restored(bpMemory, bpTable[id])
      /\ bpTable' = CloseGap(bpTable, id, bpCount)
      /\ bpCount' = bpCount - 1
  BY AddressesAreNumbers DEF RemoveBreakpoint
<1>2. /\ Entries(bpTable, bpCount)
      /\ bpMemory = [a \in Code |-> IF IsListed(bpTable, bpCount, a) THEN Svc ELSE a]
  BY <1>1 DEF BpInv
<1>3. id \in SlotsOf(bpCount)
  BY <1>1, <1>2, FoundOrNot
<1> HIDE DEF id, address
<1>4. /\ Entries(bpTable', bpCount')
      /\ \A a : IsListed(bpTable', bpCount', a)
                  <=> IsListed(bpTable, bpCount, a) /\ a # bpTable[id].address
  BY <1>1, <1>2, <1>3, RemoveKeepsEntries
<1>5. bpTable[id].address \in Code /\ bpTable[id].saved = bpTable[id].address
  BY <1>2, <1>3 DEF Entries, PutsBack
<1>6. bpMemory' = [a \in Code |-> IF IsListed(bpTable', bpCount', a) THEN Svc ELSE a]
  BY <1>1, <1>2, <1>4, <1>5 DEF Restored
<1> QED
  BY <1>1, <1>4, <1>6 DEF BpInv, IsListed

LEMMA BpStep == BpInv /\ [BpNext]_bpVars => BpInv'
<1> SUFFICES ASSUME BpInv, [BpNext]_bpVars
             PROVE  BpInv'
  OBVIOUS
<1>0. \A t, a : ~IsListed(t, 0, a)
  BY DEF IsListed, SlotsOf
<1>1. ASSUME NEW asked \in Asked, NEW thumb \in BOOLEAN, NEW persist \in BOOLEAN,
             NEW readable \in BOOLEAN, NEW writable \in BOOLEAN,
             AddBreakpoint(asked, thumb, persist, readable, writable)
      PROVE  BpInv'
  BY <1>1, AddKeeps
<1>2. ASSUME NEW asked \in Asked, RemoveBreakpoint(asked)
      PROVE  BpInv'
  BY <1>2, RemoveKeeps
<1>3. ASSUME NEW failing \in SUBSET SlotsOf(bpCount), Detach(failing)
      PROVE  BpInv'
  BY <1>3, EmptyTable DEF Detach, BpInv
<1>4. CASE AttachAnother
  BY <1>0, <1>4 DEF AttachAnother, BpInv, IsListed
<1>5. CASE UNCHANGED bpVars
  BY <1>5 DEF bpVars, BpInv, IsListed
<1> QED
  BY <1>1, <1>2, <1>3, <1>4, <1>5 DEF BpNext

\* For any number of breakpoints, at any addresses: the table and the memory of
\* the process that is debugged tell the same, and the bisection of
\* GDB_FindClosestBreakpointSlot finds each entry where it is.
THEOREM BreakpointsAreRight == BpSpec => []BreakpointsMatchMemory
<1>1. BpInv => BreakpointsMatchMemory
  <2> SUFFICES ASSUME BpInv, attached
               PROVE  BreakpointsMatchMemory
    BY DEF BreakpointsMatchMemory
  <2>1. ASSUME NEW a \in Code
        PROVE  bpMemory[a] = Svc <=> \E i \in SlotsOf(bpCount) : bpTable[i].address = a
    <3>1. a # Svc
      BY CodeAssumption DEF Code, Svc
    <3> QED
      BY <3>1 DEF BpInv, IsListed
  <2>2. ASSUME NEW i \in SlotsOf(bpCount)
        PROVE  FindClosestSlot(bpTable[i].address) = i
    <3> DEFINE id == FindClosestSlot(bpTable[i].address)
    <3>1. bpTable[i].address \in Nat /\ IsListed(bpTable, bpCount, bpTable[i].address)
      BY DEF BpInv, Entries, Sorted, IsListed
    <3>2. id \in SlotsOf(bpCount) /\ bpTable[id].address = bpTable[i].address
      BY <3>1, FoundOrNot DEF BpInv, HasBreakpoint
    <3> HIDE DEF id
    <3>3. \A j \in SlotsOf(bpCount) : j \in Nat /\ bpTable[j].address \in Nat
      BY DEF BpInv, Entries, Sorted, SlotsOf
    <3>4. id = i
      BY <3>2, <3>3 DEF BpInv, Entries, Sorted
    <3> QED
      BY <3>4 DEF id
  <2> QED
    BY <2>1, <2>2 DEF BreakpointsMatchMemory, BpInv, Entries, PutsBack
<1> QED
  BY BpInitially, BpStep, <1>1, PTL DEF BpSpec

-----------------------------------------------------------------------------
(* The sockets and the contexts *)

Sockets == {Listening(p) : p \in Ports} \cup {Client(c) : c \in Contexts}
Slot == [open : BOOLEAN, who : Sockets \cup {Nothing}]
Places ==
  {"top", "polled", "slot", "accepted", "got client", "added client", "close", "slots done",
   "compact", "ended", "finalized", "died"}
Thread == [at : Places, slot : Int, polled : Int, who : Sockets \cup {Nothing}]
InTable(who) == \E i \in DOMAIN slots : slots[i].who = who
ClientsAt(p) == {c \in Contexts : InTable(Client(c)) /\ listener[c] = p}

StubShape ==
  /\ slots \in Seq(Slot)
  /\ sockIndex \in [Sockets -> Int]
  /\ listener \in [Contexts -> Int]
  /\ clients \in [Ports -> Int]
  /\ flags \in [Contexts -> SUBSET {"selected", "used"}]
  /\ localPort \in [Contexts -> Int]
  /\ socketThread \in Thread

\* A socket that is in the table knows where.
Indexed == \A i \in DOMAIN slots : slots[i].who # Nothing => sockIndex[slots[i].who] = i

\* An open slot has a socket, and until the server stops a socket's slot is open.
OpenKnown ==
  \A i \in DOMAIN slots : /\ slots[i].open => slots[i].who # Nothing
                          /\ ~stopping /\ slots[i].who # Nothing => slots[i].open

\* The context of a client that is in the table is taken.
InUse == \A c \in Contexts : InTable(Client(c)) => "used" \in flags[c] /\ listener[c] \in Ports

\* What the socket thread, and the menu, rely on at the places between two steps.
PlacesKnown ==
  /\ At("slot") \/ At("accepted") \/ At("got client") \/ At("added client") \/ At("close")
     => socketThread.slot >= 1
  /\ At("accepted") \/ At("got client") =>
       socketThread.slot \in DOMAIN slots /\ \E p \in Ports : Here.who = Listening(p)
  /\ At("got client") =>
       \E c \in Contexts : /\ socketThread.who = Client(c)
                           /\ "used" \in flags[c] /\ ~InTable(Client(c))
  /\ At("added client") =>
       \E c \in Contexts : socketThread.who = Client(c) /\ InTable(Client(c))
  /\ At("close") => socketThread.who # Nothing /\ InTable(socketThread.who)
  /\ At("ended") => stopping
  /\ menuAt[1] = "kills" => stopping

ClientsCounted == ~stopping => \A p \in Ports : clients[p] = Cardinality(ClientsAt(p))

\* A context that is not taken is not tied to a port.
FreeHaveNone == \A c \in Contexts : ~Allocated(c) => localPort[c] = NoLocalPort

TableInv == Indexed /\ OpenKnown /\ InUse /\ ClientsCounted
PortsInv == FreeHaveNone /\ OnePortEach
GdbInv == StubShape /\ TableInv /\ PlacesKnown /\ PortsInv

\* Sockets are told apart.
LEMMA SocketsDiffer ==
  /\ \A c, d : Client(c) = Client(d) => c = d
  /\ \A p, q : Listening(p) = Listening(q) => p = q
  /\ \A c, p : Client(c) # Listening(p)
  /\ \A c : Client(c) # Nothing /\ Listening(c) # Nothing
  /\ \A c : Client(c)[1] = "client" /\ Client(c)[2] = c
  /\ \A p : Listening(p)[1] = "port" /\ Listening(p)[2] = p
  /\ Nothing[1] = "none"
BY DEF Client, Listening, Nothing

LEMMA LeastOf ==
  ASSUME NEW S \in SUBSET Nat, S # {}
  PROVE  Least(S) \in S
BY LeastElement DEF Least

\* The free context that is chosen is free.
LEMMA LeastFree ==
  ASSUME FreeContexts # {}
  PROVE  Least(FreeContexts) \in Contexts /\ flags[Least(FreeContexts)] = {}
<1>1. FreeContexts \in SUBSET Nat
  BY DEF FreeContexts, Contexts
<1> QED
  BY <1>1, LeastOf DEF FreeContexts, Allocated

\* The socket thread stays at places it has.
LEMMA ThreadMoves ==
  ASSUME NEW t \in Thread, NEW a \in Places, NEW n \in Int, NEW w \in Sockets \cup {Nothing}
  PROVE  /\ [t EXCEPT !.at = a] \in Thread
         /\ [t EXCEPT !.at = a, !.slot = n] \in Thread
         /\ [t EXCEPT !.at = a, !.polled = n] \in Thread
         /\ [t EXCEPT !.at = a, !.who = w] \in Thread
         /\ [t EXCEPT !.at = a, !.slot = n, !.who = w] \in Thread
BY DEF Thread

LEMMA NextSlotMoves ==
  ASSUME StubShape, NextSlot
  PROVE  /\ socketThread' \in Thread /\ socketThread'.at = "slot"
         /\ socketThread'.slot = socketThread.slot + 1
<1>1. socketThread \in Thread /\ "slot" \in Places
  BY DEF StubShape, Places
<1>2. socketThread.slot + 1 \in Int
  BY <1>1 DEF Thread
<1>3. [socketThread EXCEPT !.at = "slot", !.slot = socketThread.slot + 1, !.who = Nothing] \in Thread
  BY <1>1, <1>2, ThreadMoves
<1> QED
  BY <1>1, <1>3 DEF NextSlot, Thread

LEMMA GoToMoves ==
  ASSUME StubShape, NEW a \in Places, GoTo(a)
  PROVE  /\ socketThread' \in Thread /\ socketThread'.at = a
         /\ socketThread'.slot = socketThread.slot /\ socketThread'.who = socketThread.who
<1>1. socketThread \in Thread /\ 0 \in Int
  BY DEF StubShape
<1>2. [socketThread EXCEPT !.at = a] \in Thread
  BY <1>1, ThreadMoves
<1> QED
  BY <1>1, <1>2 DEF GoTo, Thread

LEMMA LeaveMoves ==
  ASSUME NEW a \in Places, Leave(a)
  PROVE  socketThread' \in Thread /\ socketThread'.at = a
BY DEF Leave, Outside, Thread

\* There are finitely many contexts.
LEMMA ContextsFinite ==
  ASSUME NEW S \in SUBSET Contexts
  PROVE  IsFiniteSet(S) /\ Cardinality(S) \in Nat
<1>1. 1 \in Int /\ MaxDebug \in Int
  BY StubAssumption
<1>2. IsFiniteSet(Contexts)
  BY <1>1, FS_Interval, Zenon DEF Contexts
<1>3. IsFiniteSet(S)
  BY <1>2, FS_Subset
<1> QED
  BY <1>3, FS_CardinalityType

-----------------------------------------------------------------------------
(* Ports *)

\* Contexts are given back, and one, k, gets a port that no other has.
LEMMA PortsKept ==
  ASSUME PortsInv, NEW k,
         \A c \in Contexts \ {k} :
           \/ flags'[c] = {} /\ localPort'[c] = NoLocalPort
           \/ localPort'[c] = localPort[c] /\ (flags'[c] = {} <=> flags[c] = {}),
         flags'[k] # {} \/ localPort'[k] = NoLocalPort,
         \/ localPort'[k] = NoLocalPort
         \/ \A c \in Contexts \ {k} : flags[c] # {} => localPort[c] # localPort'[k]
  PROVE  PortsInv'
<1>1. FreeHaveNone'
  BY DEF PortsInv, FreeHaveNone, Allocated
<1>2. OnePortEach'
  <2> SUFFICES ASSUME NEW c \in Contexts, NEW d \in Contexts, flags'[c] # {}, flags'[d] # {},
                      localPort'[c] = localPort'[d], localPort'[c] # NoLocalPort, c # d
               PROVE  FALSE
    BY DEF OnePortEach, Allocated
  <2>1. CASE c # k /\ d # k
    BY <2>1 DEF PortsInv, OnePortEach, Allocated
  <2>2. CASE c = k
    BY <2>2
  <2>3. CASE d = k
    BY <2>3
  <2> QED
    BY <2>1, <2>2, <2>3
<1> QED
  BY <1>1, <1>2 DEF PortsInv

LEMMA PortsUnchanged ==
  ASSUME PortsInv, UNCHANGED <<flags, localPort>>
  PROVE  PortsInv'
BY DEF PortsInv, FreeHaveNone, OnePortEach, Allocated

\* A context is given a port.
LEMMA SelectKeepsPorts ==
  ASSUME StubShape, PortsInv, NEW ports \in SUBSET Ports, NEW p,
         FreeContexts # {}, SelectContext(Least(FreeContexts), ports, p)
  PROVE  /\ PortsInv'
         /\ flags' \in [Contexts -> SUBSET {"selected", "used"}]
         /\ localPort' \in [Contexts -> Int]
         /\ \A c \in Contexts : "used" \in flags[c] => "used" \in flags'[c]
<1> DEFINE k == Least(FreeContexts)
           available == {port \in ports : PortFree(port)}
           x == Least(available)
<1>1. k \in Contexts /\ flags[k] = {}
  BY LeastFree
<1>2. available \in SUBSET Nat /\ available # {}
  <2>1. Ports \in SUBSET Nat
    BY DEF Ports
  <2>2. available # {}
    BY DEF SelectContext
  <2> QED
    BY <2>1, <2>2
<1>3. x \in available
  BY <1>2, LeastOf
<1>4. localPort' = [localPort EXCEPT ![k] = x] /\ flags' = [flags EXCEPT ![k] = {"selected"}]
  BY DEF SelectContext
<1>5. x \in Int /\ \A c \in Contexts : flags[c] # {} => localPort[c] # x
  BY <1>2, <1>3 DEF PortFree, Allocated
<1> HIDE DEF k, x, available
<1>6. /\ flags' \in [Contexts -> SUBSET {"selected", "used"}]
      /\ localPort' \in [Contexts -> Int]
      /\ localPort'[k] = x /\ flags'[k] = {"selected"}
      /\ \A c \in Contexts \ {k} : localPort'[c] = localPort[c] /\ flags'[c] = flags[c]
  BY <1>1, <1>4, <1>5 DEF StubShape
<1>7. PortsInv'
  BY <1>5, <1>6, PortsKept
<1> QED
  BY <1>1, <1>6, <1>7

\* The context that a client gets is not a client's, and no other has the port.
LEMMA ContextIsFor ==
  ASSUME PortsInv, StubShape, NEW p \in Ports, NEW c \in ContextsFor(p)
  PROVE  /\ c \in Contexts /\ "used" \notin flags[c]
         /\ \A d \in Contexts \ {c} : flags[d] # {} => localPort[d] # p
<1>1. TiedTo(p) \in SUBSET Nat /\ TiedTo(p) \in SUBSET Contexts
  BY DEF TiedTo, Contexts
<1>2. CASE TiedTo(p) # {}
  <2>1. c = Least(TiedTo(p)) /\ "used" \notin flags[c]
    BY <1>2 DEF ContextsFor
  <2>2. c \in Contexts /\ localPort[c] = p
    BY <2>1, <1>1, <1>2, LeastOf DEF TiedTo
  <2>3. p # NoLocalPort
    BY StubAssumption DEF Ports, NextPort, NoLocalPort
  <2>4. flags[c] # {}
    BY <2>2, <2>3 DEF PortsInv, FreeHaveNone, Allocated
  <2> QED
    BY <2>1, <2>2, <2>3, <2>4 DEF PortsInv, OnePortEach, Allocated
<1>3. CASE TiedTo(p) = {}
  <2>1. c = Least(FreeContexts) /\ FreeContexts # {}
    BY <1>3 DEF ContextsFor
  <2>2. c \in Contexts /\ flags[c] = {}
    BY <2>1, LeastFree
  <2> QED
    BY <2>2, <1>3 DEF TiedTo
<1> QED
  BY <1>2, <1>3

\* A client that comes, in the table's words: a context that is not in it.
LEMMA GetsClientKeeps ==
  ASSUME GdbInv, GetsClient
  PROVE  /\ PortsInv'
         /\ flags' \in [Contexts -> SUBSET {"selected", "used"}]
         /\ localPort' \in [Contexts -> Int]
         /\ \A c \in Contexts : "used" \in flags[c] => "used" \in flags'[c]
         /\ \E c \in Contexts :
              /\ socketThread' = [socketThread EXCEPT !.at = "got client", !.who = Client(c)]
              /\ "used" \in flags'[c] /\ ~InTable(Client(c))
<1>1. PICK p \in Ports : Here.who = Listening(p)
  BY DEF GetsClient, GdbInv, PlacesKnown
<1>2. Here.who[2] = p
  BY <1>1, SocketsDiffer
<1>3. PICK c \in ContextsFor(p) :
        /\ localPort' = [localPort EXCEPT ![c] = p]
        /\ flags' = [flags EXCEPT ![c] = @ \cup {"used"}]
        /\ socketThread' = [socketThread EXCEPT !.at = "got client", !.who = Client(c)]
  BY <1>2 DEF GetsClient
<1>4. /\ c \in Contexts /\ "used" \notin flags[c]
      /\ \A d \in Contexts \ {c} : flags[d] # {} => localPort[d] # p
  BY ContextIsFor DEF GdbInv
<1>5. ~InTable(Client(c))
  BY <1>4 DEF GdbInv, TableInv, InUse
<1>6. /\ flags' \in [Contexts -> SUBSET {"selected", "used"}]
      /\ localPort' \in [Contexts -> Int]
      /\ localPort'[c] = p /\ flags'[c] = flags[c] \cup {"used"}
      /\ \A d \in Contexts \ {c} : localPort'[d] = localPort[d] /\ flags'[d] = flags[d]
  <2>1. p \in Int
    BY DEF Ports
  <2> QED
    BY <1>3, <1>4, <2>1 DEF GdbInv, StubShape
<1>7. PortsInv'
  BY <1>4, <1>6, PortsKept DEF GdbInv
<1> QED
  BY <1>3, <1>4, <1>5, <1>6, <1>7

-----------------------------------------------------------------------------
(* The table *)

\* What does not touch the table, and takes no context from a client, keeps
\* what is known of them.
LEMMA TableKept ==
  ASSUME GdbInv, UNCHANGED <<slots, sockIndex, listener, clients>>, stopping => stopping',
         \A c \in Contexts : "used" \in flags[c] => "used" \in flags'[c]
  PROVE  TableInv'
<1>1. \A who : InTable(who)' <=> InTable(who)
  BY DEF InTable
<1>2. Indexed' /\ OpenKnown' /\ InUse'
  BY <1>1 DEF GdbInv, TableInv, Indexed, OpenKnown, InUse
<1>3. \A p : ClientsAt(p)' = ClientsAt(p)
  BY <1>1 DEF ClientsAt
<1>4. ClientsCounted'
  BY <1>3 DEF GdbInv, TableInv, ClientsCounted
<1> QED
  BY <1>2, <1>4 DEF TableInv

\* Then, if the socket thread stays where it is, its place is still known.
LEMMA PlacesKept ==
  ASSUME GdbInv, UNCHANGED <<slots, socketThread>>, stopping => stopping',
         menuAt'[1] = "kills" => stopping',
         \A c \in Contexts : "used" \in flags[c] => "used" \in flags'[c]
  PROVE  PlacesKnown'
<1>1. \A who : InTable(who)' <=> InTable(who)
  BY DEF InTable
<1> QED
  BY <1>1 DEF GdbInv, PlacesKnown, At, Here

\* The open sockets are closed: the table stays, and the server is stopping.
LEMMA KilledKeepsTable ==
  ASSUME GdbInv, AllKilled, stopping', UNCHANGED <<sockIndex, listener, flags>>
  PROVE  /\ TableInv' /\ slots' \in Seq(Slot) /\ DOMAIN slots' = DOMAIN slots
         /\ \A i \in DOMAIN slots : slots'[i].who = slots[i].who
         /\ \A who : InTable(who)' <=> InTable(who)
<1>1. slots' = [i \in DOMAIN slots |-> [slots[i] EXCEPT !.open = FALSE]]
  BY DEF AllKilled
<1>2. slots \in Seq(Slot) /\ DOMAIN slots = 1..Len(slots) /\ \A i \in DOMAIN slots : slots[i] \in Slot
  BY DEF GdbInv, StubShape
<1>3. DOMAIN slots' = DOMAIN slots
  BY <1>1
<1>4. \A i \in DOMAIN slots : slots'[i] \in Slot /\ slots'[i].who = slots[i].who /\ ~slots'[i].open
  BY <1>1, <1>2 DEF Slot
<1>5. slots' \in Seq(Slot)
  <2>1. slots' = [i \in 1..Len(slots) |-> slots'[i]] /\ Len(slots) \in Nat
    BY <1>1, <1>2
  <2> QED
    BY <1>2, <1>4, <2>1
<1>6. \A who : InTable(who)' <=> InTable(who)
  BY <1>3, <1>4 DEF InTable
<1>7. Indexed' /\ OpenKnown' /\ InUse'
  BY <1>3, <1>4, <1>6 DEF GdbInv, TableInv, Indexed, OpenKnown, InUse
<1>8. ClientsCounted'
  BY DEF ClientsCounted
<1> QED
  BY <1>3, <1>4, <1>5, <1>6, <1>7, <1>8 DEF TableInv

\* One client more, or less, is one more or less at its port.
LEMMA OneMoreOrLess ==
  ASSUME NEW S \in SUBSET Contexts, NEW c \in Contexts
  PROVE  /\ c \notin S => Cardinality(S \cup {c}) = Cardinality(S) + 1
         /\ c \in S => Cardinality(S \ {c}) = Cardinality(S) - 1
<1>1. IsFiniteSet(S) /\ Cardinality(S) \in Nat
  BY ContextsFinite
<1> QED
  BY <1>1, FS_AddElement, FS_RemoveElement

LEMMA Appended ==
  ASSUME NEW S, NEW s \in Seq(S), NEW e \in S
  PROVE  /\ Append(s, e) \in Seq(S) /\ DOMAIN Append(s, e) = 1..Len(s) + 1
         /\ \A i \in 1..Len(s) : Append(s, e)[i] = s[i]
         /\ Append(s, e)[Len(s) + 1] = e
OBVIOUS

\* A client is added behind the other sockets.
LEMMA AddsKeeps ==
  ASSUME GdbInv, AddsClient
  PROVE  GdbInv'
<1> USE DEF GdbInv
<1>1. PICK c \in Contexts : /\ socketThread.who = Client(c)
                            /\ "used" \in flags[c] /\ ~InTable(Client(c))
  BY DEF AddsClient, PlacesKnown
<1>2. PICK p \in Ports : Here.who = Listening(p)
  BY DEF AddsClient, PlacesKnown
<1>3. socketThread.who[2] = c /\ Here.who[2] = p
  BY <1>1, <1>2, SocketsDiffer
<1> DEFINE n == Len(slots)
<1>4. /\ slots' = Append(slots, [open |-> TRUE, who |-> Client(c)])
      /\ sockIndex' = [sockIndex EXCEPT ![Client(c)] = n + 1]
      /\ listener' = [listener EXCEPT ![c] = p]
      /\ clients' = [clients EXCEPT ![p] = @ + 1]
      /\ socketThread' = [socketThread EXCEPT !.at = "added client"]
      /\ UNCHANGED <<flags, localPort, menuAt, stopping>>
  BY <1>3 DEF AddsClient, GoTo, contextVars
<1>5. slots \in Seq(Slot) /\ n \in Nat /\ DOMAIN slots = 1..n /\ Client(c) \in Sockets
  BY DEF StubShape, Sockets
<1>6. /\ slots' \in Seq(Slot) /\ DOMAIN slots' = 1..n + 1
      /\ \A i \in 1..n : slots'[i] = slots[i]
      /\ slots'[n + 1].who = Client(c) /\ slots'[n + 1].open = TRUE
  <2>1. [open |-> TRUE, who |-> Client(c)] \in Slot
    BY <1>5 DEF Slot
  <2>2. slots' = Append(slots, [open |-> TRUE, who |-> Client(c)]) /\ slots \in Seq(Slot)
    BY <1>4, <1>5
  <2>3. /\ slots' \in Seq(Slot) /\ DOMAIN slots' = 1..n + 1
        /\ \A i \in 1..n : slots'[i] = slots[i]
        /\ slots'[n + 1] = [open |-> TRUE, who |-> Client(c)]
    BY <2>1, <2>2, Appended
  <2> QED
    BY <2>3
<1> HIDE DEF n
<1>7. \A i \in 1..n + 1 : i = n + 1 \/ i \in 1..n
  BY <1>5
<1>8. \A who : InTable(who)' <=> InTable(who) \/ who = Client(c)
  BY <1>5, <1>6, <1>7 DEF InTable
<1>9. StubShape'
  <2>1. sockIndex' \in [Sockets -> Int]
    <3>1. sockIndex \in [Sockets -> Int] /\ n + 1 \in Int
      BY <1>5 DEF StubShape
    <3> QED
      BY <1>4, <3>1
  <2>2. listener' \in [Contexts -> Int] /\ clients' \in [Ports -> Int]
    <3>1. listener \in [Contexts -> Int] /\ clients \in [Ports -> Int]
      BY DEF StubShape
    <3>2. p \in Int /\ clients[p] + 1 \in Int
      BY <3>1 DEF Ports
    <3>3. listener' \in [Contexts -> Int]
      BY <1>4, <3>1, <3>2
    <3>4. clients' \in [Ports -> Int]
      BY <1>4, <3>1, <3>2
    <3> QED
      BY <3>3, <3>4
  <2>3. socketThread' \in Thread
    <3>1. GoTo("added client") /\ "added client" \in Places
      BY DEF AddsClient, Places
    <3> QED
      BY <3>1, GoToMoves
  <2> QED
    BY <1>4, <1>6, <2>1, <2>2, <2>3 DEF StubShape
<1>10. Indexed'
  <2> SUFFICES ASSUME NEW i \in 1..n + 1, slots'[i].who # Nothing
               PROVE  sockIndex'[slots'[i].who] = i
    BY <1>6 DEF Indexed
  <2>1. CASE i = n + 1
    BY <2>1, <1>4, <1>5, <1>6 DEF StubShape
  <2>2. CASE i \in 1..n
    <3>1. slots[i].who # Client(c) /\ slots'[i] = slots[i] /\ slots[i] \in Slot
      BY <2>2, <1>1, <1>5, <1>6 DEF InTable
    <3>2. sockIndex[slots[i].who] = i /\ slots[i].who \in Sockets
      BY <2>2, <3>1, <1>5 DEF TableInv, Indexed, Slot
    <3> QED
      BY <1>4, <3>1, <3>2 DEF StubShape
  <2> QED
    BY <1>7, <2>1, <2>2
<1>11. OpenKnown'
  <2>1. \A i \in 1..n : /\ slots[i].open => slots[i].who # Nothing
                        /\ ~stopping /\ slots[i].who # Nothing => slots[i].open
    BY <1>5 DEF TableInv, OpenKnown
  <2>2. Client(c) # Nothing
    BY SocketsDiffer
  <2> QED
    BY <1>4, <1>6, <1>7, <2>1, <2>2 DEF OpenKnown
<1>12. listener'[c] = p /\ \A d \in Contexts \ {c} : listener'[d] = listener[d]
  BY <1>4 DEF StubShape
<1>13. InUse'
  BY <1>1, <1>4, <1>8, <1>12, SocketsDiffer DEF TableInv, InUse
<1>14. ClientsCounted'
  <2> SUFFICES ASSUME ~stopping, NEW q \in Ports
               PROVE  clients'[q] = Cardinality(ClientsAt(q)')
    BY <1>4 DEF ClientsCounted
  <2>1. clients[q] = Cardinality(ClientsAt(q)) /\ ClientsAt(q) \in SUBSET Contexts
    BY DEF TableInv, ClientsCounted, ClientsAt
  <2>2. CASE q = p
    <3>1. ClientsAt(q)' = ClientsAt(q) \cup {c}
      BY <1>8, <1>12, <2>2, SocketsDiffer DEF ClientsAt
    <3>2. c \notin ClientsAt(q)
      BY <1>1 DEF ClientsAt
    <3>3. clients'[q] = clients[q] + 1
      BY <1>4, <2>2 DEF StubShape
    <3> QED
      BY <2>1, <3>1, <3>2, <3>3, OneMoreOrLess
  <2>3. CASE q # p
    <3>1. ClientsAt(q)' = ClientsAt(q)
      BY <1>1, <1>8, <1>12, <2>3, SocketsDiffer DEF ClientsAt
    <3>2. clients'[q] = clients[q]
      BY <1>4, <2>3 DEF StubShape
    <3> QED
      BY <2>1, <3>1, <3>2
  <2> QED
    BY <2>2, <2>3
<1>15. PlacesKnown'
  <2>1. socketThread'.at = "added client" /\ socketThread'.who = Client(c)
        /\ socketThread'.slot = socketThread.slot
    <3>1. GoTo("added client") /\ "added client" \in Places
      BY DEF AddsClient, Places
    <3> QED
      BY <1>1, <3>1, GoToMoves
  <2>2. socketThread.slot >= 1
    BY DEF AddsClient, PlacesKnown
  <2> QED
    BY <1>4, <1>8, <2>1, <2>2 DEF PlacesKnown, At
<1>16. PortsInv'
  BY <1>4, PortsUnchanged
<1> QED
  BY <1>9, <1>10, <1>11, <1>13, <1>14, <1>15, <1>16 DEF TableInv

\* A socket is closed: no slot has it any more.
LEMMA ClosesKeeps ==
  ASSUME GdbInv, Closes
  PROVE  GdbInv'
<1> USE DEF GdbInv
<1> DEFINE who == socketThread.who
           i == sockIndex[who]
<1>1. who # Nothing /\ InTable(who)
  BY DEF Closes, PlacesKnown
<1>2. slots \in Seq(Slot) /\ DOMAIN slots = 1..Len(slots) /\ Len(slots) \in Nat
      /\ \A j \in DOMAIN slots : slots[j] \in Slot
  BY DEF StubShape
<1>3. i \in DOMAIN slots /\ slots[i].who = who
  BY <1>1 DEF InTable, TableInv, Indexed
<1>4. who \in Sockets
  BY <1>1, <1>2, <1>3 DEF Slot
<1>5. /\ slots' = [slots EXCEPT ![i] = [open |-> FALSE, who |-> Nothing]]
      /\ sockIndex' = [sockIndex EXCEPT ![who] = 0]
      /\ Released(who) /\ NextSlot /\ UNCHANGED <<menuAt, stopping>>
  BY DEF Closes
<1> HIDE DEF who, i
<1>6. /\ slots' \in Seq(Slot) /\ DOMAIN slots' = DOMAIN slots
      /\ \A j \in DOMAIN slots : j # i => slots'[j] = slots[j]
      /\ slots'[i].who = Nothing /\ slots'[i].open = FALSE
  <2>1. [open |-> FALSE, who |-> Nothing] \in Slot
    BY DEF Slot
  <2> QED
    BY <1>2, <1>3, <1>5, <2>1
<1>7. \A w : w # Nothing => (InTable(w)' <=> InTable(w) /\ w # who)
  <2>1. \A j \in DOMAIN slots : slots[j].who = who => j = i
    BY <1>1 DEF TableInv, Indexed, i
  <2> QED
    BY <1>3, <1>6, <2>1 DEF InTable
<1>8. Indexed'
  <2> SUFFICES ASSUME NEW j \in DOMAIN slots, slots'[j].who # Nothing
               PROVE  sockIndex'[slots'[j].who] = j
    BY <1>6 DEF Indexed
  <2>1. j # i /\ slots'[j] = slots[j] /\ slots[j] \in Slot
    BY <1>2, <1>6
  <2>2. sockIndex[slots[j].who] = j /\ slots[j].who # who /\ slots[j].who \in Sockets
    BY <2>1 DEF TableInv, Indexed, i, Slot
  <2> QED
    BY <1>5, <2>1, <2>2 DEF StubShape
<1>9. OpenKnown'
  BY <1>5, <1>6 DEF TableInv, OpenKnown
<1>10. socketThread.slot >= 1 /\ socketThread.slot \in Int
  BY DEF Closes, PlacesKnown, StubShape, Thread
<1>11. socketThread' \in Thread /\ socketThread'.at = "slot" /\ socketThread'.slot >= 1
  BY <1>5, <1>10, NextSlotMoves
<1>12. PlacesKnown'
  <2>1. menuAt'[1] = "kills" => stopping'
    BY <1>5 DEF PlacesKnown
  <2> QED
    BY <1>11, <2>1 DEF PlacesKnown, At
<1>13. sockIndex' \in [Sockets -> Int]
  BY <1>4, <1>5 DEF StubShape
<1>14. CASE \E p \in Ports : who = Listening(p)
  <2>1. UNCHANGED <<flags, localPort, clients, listener>>
    BY <1>5, <1>14, SocketsDiffer DEF Released, contextVars
  <2>2. \A c : InTable(Client(c))' <=> InTable(Client(c))
    BY <1>7, <1>14, SocketsDiffer
  <2>3. InUse'
    BY <2>1, <2>2 DEF TableInv, InUse
  <2>4. ClientsCounted'
    <3>1. \A q : ClientsAt(q)' = ClientsAt(q)
      BY <2>1, <2>2 DEF ClientsAt
    <3> QED
      BY <1>5, <2>1, <3>1 DEF TableInv, ClientsCounted
  <2>5. StubShape'
    BY <1>6, <1>11, <1>13, <2>1 DEF StubShape
  <2>6. PortsInv'
    BY <2>1, PortsUnchanged
  <2> QED
    BY <1>8, <1>9, <1>12, <2>3, <2>4, <2>5, <2>6 DEF TableInv
<1>15. ASSUME NEW c \in Contexts, who = Client(c)
       PROVE  GdbInv'
  <2>1. who[1] = "client" /\ who[2] = c
    BY <1>15, SocketsDiffer
  <2>2. /\ flags' = [flags EXCEPT ![c] = {}]
        /\ localPort' = [localPort EXCEPT ![c] = NoLocalPort]
        /\ clients' = [clients EXCEPT ![listener[c]] = @ - 1]
        /\ listener' = [listener EXCEPT ![c] = NoLocalPort]
    BY <1>5, <2>1 DEF Released
  <2>3. listener[c] \in Ports
    BY <1>1, <1>15 DEF TableInv, InUse
  <2>4. /\ flags'[c] = {} /\ localPort'[c] = NoLocalPort
        /\ \A d \in Contexts \ {c} : /\ flags'[d] = flags[d] /\ localPort'[d] = localPort[d]
                                     /\ listener'[d] = listener[d]
        /\ clients'[listener[c]] = clients[listener[c]] - 1
        /\ \A q \in Ports : q # listener[c] => clients'[q] = clients[q]
    BY <2>2, <2>3 DEF StubShape
  <2>5. \A d : InTable(Client(d))' <=> InTable(Client(d)) /\ d # c
    BY <1>7, <1>15, SocketsDiffer
  <2>6. InUse'
    BY <2>4, <2>5 DEF TableInv, InUse
  <2>7. ClientsCounted'
    <3> SUFFICES ASSUME ~stopping, NEW q \in Ports
                 PROVE  clients'[q] = Cardinality(ClientsAt(q)')
      BY <1>5 DEF ClientsCounted
    <3>1. clients[q] = Cardinality(ClientsAt(q)) /\ ClientsAt(q) \in SUBSET Contexts
      BY DEF TableInv, ClientsCounted, ClientsAt
    <3>2. ClientsAt(q)' = ClientsAt(q) \ {c}
      BY <2>4, <2>5 DEF ClientsAt
    <3>3. CASE q = listener[c]
      <4>1. c \in ClientsAt(q)
        BY <1>1, <1>15, <3>3 DEF ClientsAt
      <4> QED
        BY <2>4, <3>1, <3>2, <3>3, <4>1, OneMoreOrLess
    <3>4. CASE q # listener[c]
      <4>1. ClientsAt(q)' = ClientsAt(q)
        BY <3>2, <3>4 DEF ClientsAt
      <4> QED
        BY <2>4, <3>1, <3>4, <4>1
    <3> QED
      BY <3>3, <3>4
  <2>8. StubShape'
    <3>1. NoLocalPort \in Int
      BY DEF NoLocalPort
    <3>2. listener' \in [Contexts -> Int] /\ clients' \in [Ports -> Int]
      BY <2>2, <2>3, <3>1 DEF StubShape
    <3>3. flags' \in [Contexts -> SUBSET {"selected", "used"}] /\ localPort' \in [Contexts -> Int]
      BY <2>2, <3>1 DEF StubShape
    <3> QED
      BY <1>6, <1>11, <1>13, <3>2, <3>3 DEF StubShape
  <2>9. PortsInv'
    BY <2>4, PortsKept
  <2> QED
    BY <1>8, <1>9, <1>12, <2>6, <2>7, <2>8, <2>9 DEF TableInv
<1> QED
  BY <1>4, <1>14, <1>15 DEF Sockets

\* The closed slots are taken out: the others keep their order, and know their places.
LEMMA CompactsKeeps ==
  ASSUME GdbInv, Compacts
  PROVE  GdbInv'
<1> USE DEF GdbInv
<1>1. slots \in Seq(Slot) /\ DOMAIN slots = 1..Len(slots) /\ Len(slots) \in Nat
      /\ \A j \in DOMAIN slots : slots[j] \in Slot
  BY DEF StubShape
<1>2. UNCHANGED <<listener, clients, flags, localPort, menuAt, stopping>>
  BY DEF Compacts, contextVars
<1>3. /\ slots' \in Seq(Slot)
      /\ \A i \in DOMAIN slots' : \E j \in DOMAIN slots : slots'[i] = slots[j]
      /\ \A i, j \in DOMAIN slots' : slots'[i].who = slots'[j].who /\ slots'[i].who # Nothing => i = j
      /\ ~stopping => \A j \in DOMAIN slots : slots[j].who # Nothing =>
                        \E i \in DOMAIN slots' : slots'[i] = slots[j]
  <2>1. CASE ~compactNeeded
    <3>1. slots' = slots
      BY <2>1 DEF Compacts
    <3>2. \A i, j \in DOMAIN slots : slots[i].who = slots[j].who /\ slots[i].who # Nothing => i = j
      BY DEF TableInv, Indexed
    <3> QED
      BY <1>1, <3>1, <3>2
  <2>2. CASE compactNeeded
    <3>1. slots' = Kept(slots, OpenSlots)
      BY <2>2 DEF Compacts
    <3>2. \A i, j \in DOMAIN slots : slots[i].open /\ slots[i] = slots[j] => i = j
      BY DEF TableInv, Indexed, OpenKnown
    <3>3. ListedOnce(slots, OpenSlots)
      BY <3>2 DEF ListedOnce, OpenSlots
    <3>4. /\ slots' \in Seq(Slot) /\ Range(slots') = Range(slots) \cap OpenSlots
          /\ IsInjective(slots')
      BY <1>1, <3>1, <3>3, KeptFacts
    <3>5. ASSUME NEW i \in DOMAIN slots'
          PROVE  \E j \in DOMAIN slots : slots'[i] = slots[j] /\ slots[j].open
      <4>1. slots'[i] \in Range(slots) /\ slots'[i] \in OpenSlots
        BY <3>4 DEF Range
      <4> QED
        BY <4>1 DEF Range, OpenSlots
    <3>6. ASSUME NEW i \in DOMAIN slots', NEW j \in DOMAIN slots', slots'[i].who = slots'[j].who
          PROVE  i = j
      <4>1. PICK a \in DOMAIN slots : slots'[i] = slots[a] /\ slots[a].open
        BY <3>5
      <4>2. PICK b \in DOMAIN slots : slots'[j] = slots[b] /\ slots[b].open
        BY <3>5
      <4>3. slots[a].who # Nothing /\ slots[a].who = slots[b].who
        BY <3>6, <4>1, <4>2 DEF TableInv, OpenKnown
      <4>4. a = b
        BY <4>3 DEF TableInv, Indexed
      <4>5. slots'[i] = slots'[j]
        BY <4>1, <4>2, <4>4
      <4> QED
        BY <3>4, <4>5 DEF IsInjective
    <3>7. ASSUME ~stopping, NEW j \in DOMAIN slots, slots[j].who # Nothing
          PROVE  \E i \in DOMAIN slots' : slots'[i] = slots[j]
      <4>1. slots[j].open
        BY <3>7 DEF TableInv, OpenKnown
      <4>2. slots[j] \in Range(slots')
        BY <3>4, <4>1 DEF Range, OpenSlots
      <4> QED
        BY <4>2 DEF Range
    <3> QED
      BY <3>4, <3>5, <3>6, <3>7
  <2> QED
    BY <2>1, <2>2
<1>4. sockIndex' = [who \in Sockets |->
        IF \E i \in DOMAIN slots' : slots'[i].who = who
        THEN CHOOSE i \in DOMAIN slots' : slots'[i].who = who
        ELSE sockIndex[who]]
  BY DEF Compacts, StubShape
<1>5. ASSUME NEW who \in Sockets, NEW i \in DOMAIN slots', slots'[i].who = who
      PROVE  sockIndex'[who] = i
  <2>1. sockIndex'[who] = CHOOSE j \in DOMAIN slots' : slots'[j].who = who
    BY <1>4, <1>5
  <2>2. sockIndex'[who] \in DOMAIN slots' /\ slots'[sockIndex'[who]].who = who
    BY <1>5, <2>1
  <2>3. who # Nothing
    BY SocketsDiffer DEF Sockets
  <2> QED
    BY <1>3, <1>5, <2>2, <2>3
<1>6. sockIndex' \in [Sockets -> Int]
  <2> SUFFICES ASSUME NEW who \in Sockets PROVE sockIndex'[who] \in Int
    BY <1>4
  <2>1. CASE \E i \in DOMAIN slots' : slots'[i].who = who
    BY <1>3, <1>5, <2>1
  <2>2. CASE ~ \E i \in DOMAIN slots' : slots'[i].who = who
    BY <1>4, <2>2 DEF StubShape
  <2> QED
    BY <2>1, <2>2
<1>7. /\ \A who : InTable(who)' => InTable(who)
      /\ ~stopping => \A who : who # Nothing /\ InTable(who) => InTable(who)'
  BY <1>3 DEF InTable
<1>8. Indexed'
  <2> SUFFICES ASSUME NEW i \in DOMAIN slots', slots'[i].who # Nothing
               PROVE  sockIndex'[slots'[i].who] = i
    BY DEF Indexed
  <2>1. slots'[i].who \in Sockets
    BY <1>1, <1>3 DEF Slot
  <2> QED
    BY <1>5, <2>1
<1>9. OpenKnown'
  BY <1>2, <1>3 DEF TableInv, OpenKnown
<1>10. InUse'
  BY <1>2, <1>7 DEF TableInv, InUse
<1>11. ClientsCounted'
  <2> SUFFICES ASSUME ~stopping PROVE \A q : ClientsAt(q)' = ClientsAt(q)
    BY <1>2 DEF TableInv, ClientsCounted
  <2>1. \A c : InTable(Client(c))' <=> InTable(Client(c))
    BY <1>7, SocketsDiffer
  <2> QED
    BY <1>2, <2>1 DEF ClientsAt
<1>12. socketThread' \in Thread /\ socketThread'.at = "top"
  BY LeaveMoves DEF Compacts, Places
<1>13. PlacesKnown'
  BY <1>2, <1>12 DEF PlacesKnown, At
<1>14. StubShape'
  BY <1>2, <1>3, <1>6, <1>12 DEF StubShape
<1>15. PortsInv'
  BY <1>2, PortsUnchanged
<1> QED
  BY <1>8, <1>9, <1>10, <1>11, <1>13, <1>14, <1>15 DEF TableInv

\* What is left is closed when the server has stopped.
LEMMA FinalizesKeeps ==
  ASSUME GdbInv, Finalizes
  PROVE  GdbInv'
<1> USE DEF GdbInv
<1> DEFINE left == {c \in Contexts : Client(c) \in {slots[i].who : i \in DOMAIN slots}}
           closed == left \cup handles
<1>1. /\ flags' = [c \in Contexts |-> IF c \in closed THEN {} ELSE flags[c]]
      /\ localPort' = [c \in Contexts |-> IF c \in closed THEN NoLocalPort ELSE localPort[c]]
      /\ clients' = [p \in Ports |-> clients[p] - Cardinality({c \in left : listener[c] = p})]
      /\ slots' = [i \in DOMAIN slots |-> [open |-> FALSE, who |-> Nothing]]
      /\ Leave("finalized") /\ UNCHANGED <<sockIndex, listener, menuAt, stopping>>
  BY DEF Finalizes
<1>2. stopping /\ stopping'
  <2>1. At("ended")
    BY DEF Finalizes
  <2>2. stopping
    BY <2>1 DEF PlacesKnown
  <2>3. stopping' = stopping
    BY <1>1
  <2> QED
    BY <2>2, <2>3, Zenon
<1>3. clients' \in [Ports -> Int]
  <2> SUFFICES ASSUME NEW p \in Ports
               PROVE  clients[p] - Cardinality({c \in left : listener[c] = p}) \in Int
    BY <1>1
  <2>1. {c \in left : listener[c] = p} \in SUBSET Contexts
    OBVIOUS
  <2>2. Cardinality({c \in left : listener[c] = p}) \in Nat
    BY <2>1, ContextsFinite
  <2>3. clients[p] \in Int
    BY DEF StubShape
  <2> QED
    BY <2>2, <2>3
<1> HIDE DEF left, closed
<1>4. slots' \in Seq(Slot) /\ DOMAIN slots' = DOMAIN slots
      /\ \A i \in DOMAIN slots : slots'[i].who = Nothing /\ ~slots'[i].open
  <2>1. DOMAIN slots = 1..Len(slots) /\ Len(slots) \in Nat
    BY DEF StubShape
  <2>2. [open |-> FALSE, who |-> Nothing] \in Slot
    BY DEF Slot
  <2> QED
    BY <1>1, <2>1, <2>2
<1>5. /\ flags' \in [Contexts -> SUBSET {"selected", "used"}] /\ localPort' \in [Contexts -> Int]
      /\ \A c \in Contexts : \/ flags'[c] = {} /\ localPort'[c] = NoLocalPort
                             \/ flags'[c] = flags[c] /\ localPort'[c] = localPort[c]
  <2>1. NoLocalPort \in Int
    BY DEF NoLocalPort
  <2> QED
    BY <1>1, <2>1 DEF StubShape
<1>6. \A c : ~InTable(Client(c))'
  BY <1>4, SocketsDiffer DEF InTable
<1>7. TableInv'
  BY <1>2, <1>4, <1>6 DEF TableInv, Indexed, OpenKnown, InUse, ClientsCounted
<1>8. socketThread' \in Thread /\ socketThread'.at = "finalized"
  BY <1>1, LeaveMoves DEF Places
<1>9. PlacesKnown'
  BY <1>2, <1>8 DEF PlacesKnown, At
<1>10. StubShape'
  BY <1>1, <1>3, <1>4, <1>5, <1>8 DEF StubShape
<1>11. PortsInv'
  BY <1>5 DEF PortsInv, FreeHaveNone, OnePortEach, Allocated
<1> QED
  BY <1>7, <1>9, <1>10, <1>11

\* The state that the server begins in.
Fresh ==
  /\ slots = FreshServer.slots /\ sockIndex = FreshServer.index
  /\ listener = [c \in Contexts |-> NoLocalPort] /\ clients = [p \in Ports |-> 0]
  /\ flags = [c \in Contexts |-> {}] /\ localPort = [c \in Contexts |-> NoLocalPort]
  /\ socketThread = Outside("top") /\ menuAt[1] = "idle" /\ stopping = FALSE

LEMMA FreshInv == Fresh => GdbInv
<1> SUFFICES ASSUME Fresh PROVE GdbInv
  OBVIOUS
<1>1. MaxDebug \in Nat /\ NoLocalPort \in Int /\ Contexts = 1..MaxDebug /\ Ports = 0..MaxDebug
  BY StubAssumption DEF NoLocalPort, Contexts, Ports, NextPort
<1>2. /\ slots = [i \in 1 .. MaxDebug + 1 |-> [open |-> TRUE, who |-> Listening(i - 1)]]
      /\ sockIndex = [who \in Sockets |-> IF who[1] = "port" THEN who[2] + 1 ELSE 0]
  BY DEF Fresh, FreshServer, Sockets
<1>3. \A i \in 1 .. MaxDebug + 1 : i - 1 \in Ports /\ Listening(i - 1) \in Sockets
  BY <1>1 DEF Sockets
<1>4. slots \in Seq(Slot) /\ DOMAIN slots = 1 .. MaxDebug + 1
      /\ \A i \in 1 .. MaxDebug + 1 : slots[i].open = TRUE /\ slots[i].who = Listening(i - 1)
  <2>1. \A i \in 1 .. MaxDebug + 1 : [open |-> TRUE, who |-> Listening(i - 1)] \in Slot
    BY <1>3 DEF Slot
  <2> QED
    BY <1>1, <1>2, <2>1
<1>5. sockIndex \in [Sockets -> Int] /\ \A p \in Ports : sockIndex[Listening(p)] = p + 1
  <2>1. \A p \in Ports : p \in Int
    BY DEF Ports
  <2>2. ASSUME NEW who \in Sockets
        PROVE  (IF who[1] = "port" THEN who[2] + 1 ELSE 0) \in Int
    <3>1. CASE \E p \in Ports : who = Listening(p)
      BY <2>1, <3>1, SocketsDiffer
    <3>2. CASE \E c \in Contexts : who = Client(c)
      BY <3>2, SocketsDiffer
    <3> QED
      BY <3>1, <3>2 DEF Sockets
  <2>3. ASSUME NEW p \in Ports
        PROVE  sockIndex[Listening(p)] = p + 1
    <3>1. Listening(p) \in Sockets
      BY DEF Sockets
    <3> QED
      BY <1>2, <3>1, SocketsDiffer
  <2> QED
    BY <1>2, <2>2, <2>3
<1>6. \A c : ~InTable(Client(c))
  BY <1>4, SocketsDiffer DEF InTable
<1>7. Indexed
  <2> SUFFICES ASSUME NEW i \in 1 .. MaxDebug + 1
               PROVE  sockIndex[Listening(i - 1)] = i
    BY <1>4 DEF Indexed
  <2> QED
    BY <1>1, <1>3, <1>5
<1>8. OpenKnown
  BY <1>4, SocketsDiffer DEF OpenKnown
<1>9. InUse
  BY <1>6 DEF InUse
<1>10. ClientsCounted
  <2>1. \A p : ClientsAt(p) = {}
    BY <1>6 DEF ClientsAt
  <2>2. Cardinality({}) = 0
    BY FS_EmptySet
  <2>3. \A p \in Ports : clients[p] = 0
    BY DEF Fresh
  <2> QED
    BY <2>1, <2>2, <2>3 DEF ClientsCounted
<1>11. socketThread \in Thread /\ socketThread.at = "top"
  BY DEF Fresh, Outside, Thread, Places
<1>12. PlacesKnown
  BY <1>11 DEF PlacesKnown, At, Fresh
<1>13. StubShape
  BY <1>1, <1>4, <1>5, <1>11 DEF StubShape, Fresh
<1>14. PortsInv
  BY DEF Fresh, PortsInv, FreeHaveNone, OnePortEach, Allocated
<1> QED
  BY <1>7, <1>8, <1>9, <1>10, <1>12, <1>13, <1>14 DEF GdbInv, TableInv

\* Steps of the socket thread that change its place, and handles at most.
LEMMA OnlyMoves ==
  ASSUME GdbInv, socketThread' \in Thread, PlacesKnown',
         UNCHANGED <<slots, sockIndex, listener, clients, flags, localPort, stopping>>
  PROVE  GdbInv'
<1>1. StubShape'
  BY DEF GdbInv, StubShape
<1>2. TableInv'
  BY TableKept
<1>3. PortsInv'
  BY PortsUnchanged DEF GdbInv
<1> QED
  BY <1>1, <1>2, <1>3 DEF GdbInv

LEMMA MovesKeep ==
  ASSUME GdbInv, Polls \/ Polled \/ LooksAtSlot \/ AllSlotsSeen \/ Refuses \/ AcceptsClient \/ SlotsDone
  PROVE  GdbInv'
<1> USE DEF GdbInv
<1>1. UNCHANGED <<slots, sockIndex, listener, clients, flags, localPort, menuAt, stopping>>
  BY DEF Polls, Polled, LooksAtSlot, AllSlotsSeen, Refuses, AcceptsClient, SlotsDone, socketVars, contextVars
<1>2. menuAt'[1] = "kills" => stopping'
  <2>1. menuAt'[1] = "kills" <=> menuAt[1] = "kills"
    BY <1>1
  <2>2. stopping' <=> stopping
    BY <1>1
  <2> QED
    BY <2>1, <2>2 DEF PlacesKnown
<1>3. \A who : InTable(who)' <=> InTable(who)
  BY <1>1 DEF InTable
<1>4. socketThread \in Thread /\ socketThread.slot \in Int /\ DOMAIN slots = 1..Len(slots)
      /\ Len(slots) \in Nat /\ 1 \in Int /\ \A i \in DOMAIN slots : slots[i] \in Slot
  BY DEF StubShape, Thread
<1>5. ASSUME NEW a \in {"slots done", "compact", "top", "died", "polled"}, socketThread' \in Thread,
             socketThread'.at = a
      PROVE  GdbInv'
  <2>1. PlacesKnown'
    BY <1>2, <1>5 DEF PlacesKnown, At
  <2> QED
    BY <1>1, <1>5, <2>1, OnlyMoves
<1>6. ASSUME socketThread' \in Thread, socketThread'.at = "slot", socketThread'.slot >= 1
      PROVE  GdbInv'
  <2>1. PlacesKnown'
    BY <1>2, <1>6 DEF PlacesKnown, At
  <2> QED
    BY <1>1, <1>6, <2>1, OnlyMoves
<1>7. ASSUME NextSlot, socketThread.slot >= 1
      PROVE  GdbInv'
  BY <1>4, <1>6, <1>7, NextSlotMoves
<1>8. ASSUME NEW who \in Sockets, ToClose(who), InTable(who), socketThread.slot >= 1
      PROVE  GdbInv'
  <2>1. "close" \in Places
    BY DEF Places
  <2>2. socketThread' \in Thread
    BY <1>4, <1>8, <2>1, ThreadMoves DEF ToClose
  <2>3. /\ socketThread'.at = "close" /\ socketThread'.who = who
        /\ socketThread'.slot = socketThread.slot
    BY <1>4, <1>8 DEF ToClose, Thread
  <2>4. who # Nothing
    BY SocketsDiffer DEF Sockets
  <2>5. PlacesKnown'
    BY <1>2, <1>3, <1>8, <2>3, <2>4 DEF PlacesKnown, At
  <2> QED
    BY <1>1, <2>2, <2>5, OnlyMoves
<1>9. CASE Polls
  <2>1. socketThread' = [socketThread EXCEPT !.at = "polled", !.polled = Len(slots)]
        /\ "polled" \in Places /\ Len(slots) \in Int
    BY <1>4, <1>9 DEF Polls, Places
  <2>2. socketThread' \in Thread
    BY <1>4, <2>1, ThreadMoves
  <2>3. socketThread'.at = "polled"
    BY <1>4, <2>1 DEF Thread
  <2> QED
    BY <1>5, <2>2, <2>3
<1>10. CASE Polled
  <2>1. CASE socketThread' = [socketThread EXCEPT !.at = "slot", !.slot = 1]
    <3>1. "slot" \in Places
      BY DEF Places
    <3>2. socketThread' \in Thread
      BY <1>4, <2>1, <3>1, ThreadMoves
    <3>3. socketThread'.at = "slot" /\ socketThread'.slot = 1
      BY <1>4, <2>1 DEF Thread
    <3> QED
      BY <1>6, <3>2, <3>3
  <2>2. CASE Leave("slots done")
    BY <1>5, <2>2, LeaveMoves DEF Places
  <2> QED
    BY <1>10, <2>1, <2>2 DEF Polled
<1>11. CASE LooksAtSlot
  <2>1. socketThread.slot >= 1 /\ socketThread.slot \in DOMAIN slots
    <3>1. At("slot") /\ socketThread.slot <= Len(slots)
      BY <1>11 DEF LooksAtSlot
    <3>2. socketThread.slot >= 1
      BY <3>1 DEF PlacesKnown
    <3> QED
      BY <1>4, <3>1, <3>2
  <2>2. Here \in Slot
    BY <1>4, <2>1 DEF Here
  <2>3. CASE GoTo("died")
    BY <1>5, <2>3, GoToMoves DEF Places
  <2>4. CASE ToClose(Here.who) /\ Here.who # Nothing
    <3>1. Here.who \in Sockets /\ InTable(Here.who)
      BY <2>1, <2>2, <2>4 DEF Slot, InTable, Here
    <3> QED
      BY <1>8, <2>1, <2>4, <3>1
  <2>5. CASE NextSlot
    BY <1>7, <2>1, <2>5
  <2>6. CASE Here.who[1] = "port" /\ GoTo("accepted")
    <3>1. \E p \in Ports : Here.who = Listening(p)
      BY <2>2, <2>6, SocketsDiffer DEF Slot, Sockets
    <3>2. "accepted" \in Places
      BY DEF Places
    <3>3. socketThread' \in Thread /\ socketThread'.at = "accepted"
          /\ socketThread'.slot = socketThread.slot
      BY <2>6, <3>2, GoToMoves
    <3>4. PlacesKnown'
      BY <1>1, <1>2, <2>1, <3>1, <3>3 DEF PlacesKnown, At, Here
    <3> QED
      BY <1>1, <3>3, <3>4, OnlyMoves
  <2> QED
    BY <1>11, <2>3, <2>4, <2>5, <2>6 DEF LooksAtSlot
<1>12. CASE AllSlotsSeen
  BY <1>5, <1>12, LeaveMoves DEF AllSlotsSeen, Places
<1>13. CASE Refuses
  BY <1>7, <1>13 DEF Refuses, PlacesKnown
<1>14. CASE AcceptsClient
  <2>1. socketThread.slot >= 1
    BY <1>14 DEF AcceptsClient, PlacesKnown
  <2>2. CASE NextSlot
    BY <1>7, <2>1, <2>2
  <2>3. CASE GoTo("close")
    <3>1. PICK c \in Contexts : socketThread.who = Client(c) /\ InTable(Client(c))
      BY <1>14 DEF AcceptsClient, PlacesKnown
    <3>2. "close" \in Places
      BY DEF Places
    <3>3. socketThread' \in Thread /\ socketThread'.at = "close" /\ socketThread'.who = Client(c)
          /\ socketThread'.slot = socketThread.slot
      BY <2>3, <3>1, <3>2, GoToMoves
    <3>4. PlacesKnown'
      BY <1>2, <1>3, <2>1, <3>1, <3>3, SocketsDiffer DEF PlacesKnown, At
    <3> QED
      BY <1>1, <3>3, <3>4, OnlyMoves
  <2> QED
    BY <1>14, <2>2, <2>3 DEF AcceptsClient
<1>15. CASE SlotsDone
  BY <1>5, <1>15, LeaveMoves DEF SlotsDone, Places
<1> QED
  BY <1>9, <1>10, <1>11, <1>12, <1>13, <1>14, <1>15

\* The menu and its task do not touch the table.
LEMMA MenuKeeps ==
  ASSUME GdbInv, UNCHANGED <<slots, sockIndex, listener, clients, socketThread>>,
         stopping => stopping', menuAt'[1] = "kills" => stopping', PortsInv',
         flags' \in [Contexts -> SUBSET {"selected", "used"}], localPort' \in [Contexts -> Int],
         \A c \in Contexts : "used" \in flags[c] => "used" \in flags'[c]
  PROVE  GdbInv'
<1>1. StubShape'
  BY DEF GdbInv, StubShape
<1>2. TableInv'
  BY TableKept
<1>3. PlacesKnown'
  BY PlacesKept
<1> QED
  BY <1>1, <1>2, <1>3 DEF GdbInv

\* The process list selects a process, or gives up one.
LEMMA ChooseKeeps ==
  ASSUME GdbInv, NEW p \in DebugPids, ChoosesProcess(p)
  PROVE  GdbInv'
<1> USE DEF GdbInv
<1>1. UNCHANGED <<slots, sockIndex, listener, clients, socketThread, stopping>>
  BY DEF ChoosesProcess, socketVars
<1>2. stopping' <=> stopping
  BY <1>1
<1>3. CASE SelectsProcess(p)
  <2>1. /\ FreeContexts # {} /\ SelectContext(Least(FreeContexts), Ports \ {NextPort}, p)
        /\ menuAt' = menuAt
    BY <1>3 DEF SelectsProcess
  <2>2. menuAt'[1] = "kills" => stopping'
    BY <1>2, <2>1 DEF PlacesKnown
  <2>3. Ports \ {NextPort} \in SUBSET Ports
    OBVIOUS
  <2>4. /\ PortsInv'
        /\ flags' \in [Contexts -> SUBSET {"selected", "used"}]
        /\ localPort' \in [Contexts -> Int]
        /\ \A c \in Contexts : "used" \in flags[c] => "used" \in flags'[c]
    BY <2>1, <2>3, SelectKeepsPorts
  <2> QED
    BY <1>1, <1>2, <2>2, <2>4, MenuKeeps
<1>4. CASE UnselectsUnused(p)
  <2> DEFINE c == Greatest(AllocatedFor(p))
  <2>1. /\ flags[c] = {"selected"} /\ flags' = [flags EXCEPT ![c] = {}]
        /\ localPort' = [localPort EXCEPT ![c] = NoLocalPort] /\ menuAt' = menuAt
    BY <1>4 DEF UnselectsUnused
  <2> HIDE DEF c
  <2>2. NoLocalPort \in Int
    BY DEF NoLocalPort
  <2>3. /\ flags' \in [Contexts -> SUBSET {"selected", "used"}]
        /\ localPort' \in [Contexts -> Int]
        /\ \A d \in Contexts : \/ flags'[d] = {} /\ localPort'[d] = NoLocalPort
                               \/ flags'[d] = flags[d] /\ localPort'[d] = localPort[d]
        /\ \A d \in Contexts : d # c => flags'[d] = flags[d]
    BY <2>1, <2>2 DEF StubShape
  <2>4. \A d \in Contexts : "used" \in flags[d] => "used" \in flags'[d]
    BY <2>1, <2>3
  <2>5. PortsInv'
    BY <2>3 DEF PortsInv, FreeHaveNone, OnePortEach, Allocated
  <2>6. menuAt'[1] = "kills" => stopping'
    BY <1>2, <2>1 DEF PlacesKnown
  <2> QED
    BY <1>1, <1>2, <2>3, <2>4, <2>5, <2>6, MenuKeeps
<1>5. CASE UnselectsUsed(p)
  <2>1. UNCHANGED <<flags, localPort>> /\ menuAt'[1] = "waits"
    BY <1>5 DEF UnselectsUsed, contextVars
  <2>2. PortsInv'
    BY <2>1, PortsUnchanged
  <2> QED
    BY <1>1, <1>2, <2>1, <2>2, MenuKeeps DEF StubShape
<1> QED
  BY <1>3, <1>4, <1>5 DEF ChoosesProcess

\* The next application gets a context and a port, or none.
LEMMA NextApplicationKeeps ==
  ASSUME GdbInv, DebugsNextApplication
  PROVE  GdbInv'
<1> USE DEF GdbInv
<1> DEFINE c == Least(FreeContexts)
<1>1. UNCHANGED <<slots, sockIndex, listener, clients, socketThread, menuAt, stopping>>
      /\ FreeContexts # {}
  BY DEF DebugsNextApplication, socketVars
<1>2. (stopping => stopping') /\ (menuAt'[1] = "kills" => stopping')
  <2>1. (stopping' <=> stopping) /\ menuAt' = menuAt
    BY <1>1
  <2> QED
    BY <2>1 DEF PlacesKnown
<1>3. c \in Contexts /\ flags[c] = {} /\ localPort[c] = NoLocalPort
  BY <1>1, LeastFree DEF PortsInv, FreeHaveNone, Allocated
<1>4. CASE SelectContext(c, {NextPort}, NoPid)
  <2>1. {NextPort} \in SUBSET Ports
    BY StubAssumption DEF Ports, NextPort
  <2>2. /\ PortsInv'
        /\ flags' \in [Contexts -> SUBSET {"selected", "used"}]
        /\ localPort' \in [Contexts -> Int]
        /\ \A d \in Contexts : "used" \in flags[d] => "used" \in flags'[d]
    BY <1>1, <1>4, <2>1, SelectKeepsPorts
  <2> QED
    BY <1>1, <1>2, <2>2, MenuKeeps
<1> HIDE DEF c
<1>5. CASE localPort' = [localPort EXCEPT ![c] = NoLocalPort] /\ UNCHANGED flags
  <2>1. localPort' = localPort
    BY <1>3, <1>5 DEF StubShape
  <2>2. PortsInv'
    BY <1>5, <2>1, PortsUnchanged
  <2> QED
    BY <1>1, <1>2, <1>5, <2>1, <2>2, MenuKeeps DEF StubShape
<1>6. CASE flags' = [flags EXCEPT ![c] = {"used"}] /\ UNCHANGED localPort
  <2>1. /\ flags' \in [Contexts -> SUBSET {"selected", "used"}]
        /\ flags'[c] = {"used"} /\ \A d \in Contexts \ {c} : flags'[d] = flags[d]
    BY <1>3, <1>6 DEF StubShape
  <2>2. PortsInv'
    BY <1>3, <1>6, <2>1, PortsKept
  <2> QED
    BY <1>1, <1>2, <1>3, <1>6, <2>1, <2>2, MenuKeeps DEF StubShape
<1> QED
  BY <1>4, <1>5, <1>6 DEF DebugsNextApplication, c

\* Connections are killed by the socket thread itself, when it ends.
LEMMA SeesEndKeeps ==
  ASSUME GdbInv, SeesEnd
  PROVE  GdbInv'
<1> USE DEF GdbInv
<1>1. /\ AllKilled /\ stopping' = TRUE /\ Leave("ended")
      /\ UNCHANGED <<sockIndex, listener, clients, flags, localPort, menuAt>>
  BY DEF SeesEnd, contextVars
<1>2. TableInv' /\ slots' \in Seq(Slot)
  BY <1>1, KilledKeepsTable
<1>3. socketThread' \in Thread /\ socketThread'.at = "ended"
  BY <1>1, LeaveMoves DEF Places
<1>4. PlacesKnown'
  BY <1>1, <1>3 DEF PlacesKnown, At
<1>5. StubShape'
  BY <1>1, <1>2, <1>3 DEF StubShape
<1>6. PortsInv'
  BY <1>1, PortsUnchanged
<1> QED
  BY <1>2, <1>4, <1>5, <1>6

\* Connections are killed by the menu, wherever the socket thread is.
LEMMA KillsKeeps ==
  ASSUME GdbInv, KillsConnections
  PROVE  GdbInv'
<1> USE DEF GdbInv
<1>1. /\ AllKilled /\ menuAt'[1] = "joins"
      /\ UNCHANGED <<sockIndex, listener, clients, flags, localPort, socketThread, stopping>>
  BY DEF KillsConnections, contextVars
<1>2. stopping /\ stopping'
  <2>1. stopping
    BY DEF KillsConnections, PlacesKnown
  <2>2. stopping' = stopping
    BY <1>1
  <2> QED
    BY <2>1, <2>2, Zenon
<1>3. /\ TableInv' /\ slots' \in Seq(Slot) /\ DOMAIN slots' = DOMAIN slots
      /\ \A i \in DOMAIN slots : slots'[i].who = slots[i].who
      /\ \A who : InTable(who)' <=> InTable(who)
  BY <1>1, <1>2, KilledKeepsTable
<1>4. PlacesKnown'
  BY <1>1, <1>2, <1>3 DEF PlacesKnown, At, Here
<1>5. StubShape'
  BY <1>1, <1>3 DEF StubShape
<1>6. PortsInv'
  BY <1>1, PortsUnchanged
<1> QED
  BY <1>3, <1>4, <1>5, <1>6

\* Every step keeps the invariant, if pm has a debug handle when the task fetches it.
LEMMA GdbStep ==
  ASSUME FetchResults \subseteq {TRUE}, GdbInv, [GdbNext]_gdbVars
  PROVE  GdbInv'
<1>1. CASE SeesEnd
  BY <1>1, SeesEndKeeps
<1>2. CASE Polls \/ Polled \/ LooksAtSlot \/ AllSlotsSeen \/ Refuses \/ AcceptsClient \/ SlotsDone
  BY <1>2, MovesKeep
<1>3. CASE GetsClient
  <2>1. UNCHANGED <<slots, sockIndex, listener, clients, menuAt, stopping>>
    BY <1>3 DEF GetsClient, socketVars
  <2>2. PICK c \in Contexts :
          /\ socketThread' = [socketThread EXCEPT !.at = "got client", !.who = Client(c)]
          /\ "used" \in flags'[c] /\ ~InTable(Client(c))
    BY <1>3, GetsClientKeeps
  <2>3. /\ PortsInv'
        /\ flags' \in [Contexts -> SUBSET {"selected", "used"}]
        /\ localPort' \in [Contexts -> Int]
        /\ \A d \in Contexts : "used" \in flags[d] => "used" \in flags'[d]
    BY <1>3, GetsClientKeeps
  <2>4. /\ socketThread \in Thread /\ "got client" \in Places /\ 0 \in Int
        /\ Client(c) \in Sockets \cup {Nothing}
    BY DEF GdbInv, StubShape, Places, Sockets
  <2>5. socketThread' \in Thread
    BY <2>2, <2>4, ThreadMoves
  <2>6. /\ socketThread'.at = "got client" /\ socketThread'.who = Client(c)
        /\ socketThread'.slot = socketThread.slot
    BY <2>2, <2>4 DEF Thread
  <2>7. StubShape'
    BY <2>1, <2>3, <2>5 DEF GdbInv, StubShape
  <2>8. stopping' <=> stopping
    BY <2>1
  <2>9. TableInv'
    BY <2>1, <2>3, <2>8, TableKept
  <2>10. \A who : InTable(who)' <=> InTable(who)
    BY <2>1 DEF InTable
  <2>11. menuAt'[1] = "kills" => stopping'
    BY <2>1, <2>8 DEF GdbInv, PlacesKnown
  <2>12. /\ socketThread.slot >= 1 /\ socketThread.slot \in DOMAIN slots
         /\ \E p \in Ports : Here.who = Listening(p)
    BY <1>3 DEF GetsClient, GdbInv, PlacesKnown
  <2>13. PlacesKnown'
    BY <2>1, <2>2, <2>6, <2>10, <2>11, <2>12 DEF PlacesKnown, At, Here
  <2> QED
    BY <2>3, <2>7, <2>9, <2>13 DEF GdbInv
<1>4. CASE AddsClient
  BY <1>4, AddsKeeps
<1>5. CASE Closes
  BY <1>5, ClosesKeeps
<1>6. CASE Compacts
  BY <1>6, CompactsKeeps
<1>7. CASE Finalizes
  BY <1>7, FinalizesKeeps
<1>8. CASE \E p \in DebugPids : ChoosesProcess(p)
  BY <1>8, ChooseKeeps
<1>9. CASE DebugsNextApplication
  BY <1>9, NextApplicationKeeps
<1>10. CASE ClientIsClosed \/ FetchesNextApplication \/ Disables \/ JoinsThreads
  <2>1. UNCHANGED <<slots, sockIndex, listener, clients, localPort, socketThread>>
    BY <1>10 DEF ClientIsClosed, FetchesNextApplication, Disables, JoinsThreads, socketVars, contextVars
  <2>2. flags' = flags
    <3>1. CASE FetchesNextApplication
      <4>1. PICK fetched \in FetchResults :
              flags' = IF fetched THEN flags ELSE [flags EXCEPT ![nextApp] = {}]
        BY <3>1 DEF FetchesNextApplication
      <4>2. fetched = TRUE
        OBVIOUS
      <4> QED
        BY <4>1, <4>2, Zenon
    <3>2. CASE ClientIsClosed \/ Disables \/ JoinsThreads
      BY <3>2 DEF ClientIsClosed, Disables, JoinsThreads, contextVars
    <3> QED
      BY <1>10, <3>1, <3>2
  <2>3. \/ stopping'
        \/ (stopping' <=> stopping) /\ (menuAt'[1] = "kills" => menuAt[1] = "kills")
    <3>1. CASE Disables
      BY <3>1 DEF Disables
    <3>2. CASE ClientIsClosed \/ JoinsThreads
      BY <3>2 DEF ClientIsClosed, JoinsThreads
    <3>3. CASE FetchesNextApplication
      BY <3>3 DEF FetchesNextApplication
    <3> QED
      BY <1>10, <3>1, <3>2, <3>3
  <2>4. (stopping => stopping') /\ (menuAt'[1] = "kills" => stopping')
    BY <2>3 DEF GdbInv, PlacesKnown
  <2>5. PortsInv'
    BY <2>1, <2>2, PortsUnchanged DEF GdbInv
  <2> QED
    BY <2>1, <2>2, <2>4, <2>5, MenuKeeps DEF GdbInv, StubShape
<1>11. CASE KillsConnections
  BY <1>11, KillsKeeps
<1>12. CASE Enables
  <2>1. Fresh'
    BY <1>12 DEF Enables, Fresh, MenuIdle, Leave, FreshServer
  <2> QED
    BY <2>1, FreshInv, PTL
<1>13. CASE UNCHANGED gdbVars
  <2>1. /\ UNCHANGED <<slots, sockIndex, listener, clients, flags, localPort, socketThread>>
        /\ menuAt' = menuAt /\ (stopping' <=> stopping)
    BY <1>13 DEF gdbVars, socketVars, contextVars
  <2>2. PortsInv'
    BY <2>1, PortsUnchanged DEF GdbInv
  <2> QED
    BY <2>1, <2>2, MenuKeeps DEF GdbInv, StubShape, PlacesKnown
<1> QED
  BY <1>1, <1>2, <1>3, <1>4, <1>5, <1>6, <1>7, <1>8, <1>9, <1>10, <1>11, <1>12, <1>13
     DEF GdbNext, SocketThread

\* The invariant says what is promised of the table and of the ports.
LEMMA GdbInvPromises == GdbInv => ClientsKeepTheirContexts
<1> SUFFICES ASSUME GdbInv PROVE TableAgrees /\ OnePortEach
  BY DEF ClientsKeepTheirContexts
<1> USE DEF GdbInv
<1>1. ASSUME ~stopping, NEW p \in Ports
      PROVE  clients[p] = Cardinality({i \in DOMAIN slots : /\ slots[i].who[1] = "client"
                                                           /\ listener[slots[i].who[2]] = p})
  <2> DEFINE I == {i \in DOMAIN slots : /\ slots[i].who[1] = "client"
                                        /\ listener[slots[i].who[2]] = p}
             f == [i \in I |-> slots[i].who[2]]
  <2>1. \A i \in DOMAIN slots : slots[i] \in Slot
    BY DEF StubShape
  <2>2. \A i \in I : /\ f[i] \in Contexts /\ slots[i].who = Client(f[i])
                    /\ listener[f[i]] = p
    BY <2>1, SocketsDiffer DEF Slot, Sockets
  <2>3. \A i \in I : f[i] \in ClientsAt(p)
    BY <2>2 DEF ClientsAt, InTable
  <2>4. ASSUME NEW i \in I, NEW j \in I, f[i] = f[j]
        PROVE  i = j
    <3>1. slots[i].who = slots[j].who /\ slots[i].who # Nothing
      <4>1. slots[i].who = Client(f[i]) /\ slots[j].who = Client(f[j])
        BY <2>2
      <4> HIDE DEF f
      <4> QED
        BY <2>4, <4>1, SocketsDiffer
    <3>2. i \in DOMAIN slots /\ j \in DOMAIN slots
      OBVIOUS
    <3> HIDE DEF f, I
    <3> QED
      BY <3>1, <3>2 DEF TableInv, Indexed
  <2>5. \A c \in ClientsAt(p) : \E i \in I : f[i] = c
    BY SocketsDiffer DEF ClientsAt, InTable
  <2>6. f \in [I -> ClientsAt(p)]
    BY <2>3
  <2> HIDE DEF f, I
  <2>7. f \in Bijection(I, ClientsAt(p))
    BY <2>4, <2>5, <2>6, Fun_IsBij
  <2>8. IsFiniteSet(I)
    <3>1. 1 \in Int /\ Len(slots) \in Int /\ DOMAIN slots = 1..Len(slots)
      BY DEF StubShape
    <3>2. IsFiniteSet(DOMAIN slots)
      BY <3>1, FS_Interval, Zenon
    <3> QED
      BY <3>2, FS_Subset DEF I
  <2>9. Cardinality(I) = Cardinality(ClientsAt(p))
    BY <2>7, <2>8, FS_Bijection, Fun_ExistsBij
  <2> QED
    BY <1>1, <2>9 DEF I, TableInv, ClientsCounted
<1>2. TableAgrees
  BY <1>1 DEF TableAgrees, TableInv, Indexed
<1> QED
  BY <1>2 DEF PortsInv

\* What the table of sockets, the contexts and the ports say of a client is the
\* same, for any number of contexts, whatever clients and the menu do, as long
\* as pm has a debug handle when the task fetches it.
THEOREM ClientsKept ==
  ASSUME FetchResults \subseteq {TRUE}
  PROVE  GdbSpec => []ClientsKeepTheirContexts
<1>1. GdbInit => GdbInv
  <2>1. GdbInit => Fresh
    BY DEF GdbInit, Fresh, FreshServer
  <2> QED
    BY <2>1, FreshInv
<1>2. GdbInv /\ [GdbNext]_gdbVars => GdbInv'
  BY GdbStep
<1> QED
  BY <1>1, <1>2, GdbInvPromises, PTL DEF GdbSpec

-----------------------------------------------------------------------------
(***************************************************************************)
(* The session of the first context (GdbSession).  Where its threads stand *)
(* when a session is over follows from two facts on the way there: the     *)
(* monitor rests until it is asked to look again, and once it is asked it  *)
(* can only come back to wait for the next process.                        *)
(***************************************************************************)
SessionPackets == {"continue", "continue another thread", "break", "detach", "kill", "attach"}
Beliefs == {"away", "gone", "stopped", "running", "leaves", "detached", "attaches", "ended"}
SocketPlaces == {"poll", "packet", "close", "closing", "detaches"}
MonitorPlaces == {"top", "looked", "waits", "woken", "ended"}
SessionEvents == {"attached", "continued", "debug"}

\* The types of the session's state.
SessionTyped ==
  /\ client \in Beliefs
  /\ socket \in SocketPlaces
  /\ gdbMonitor \in [at : MonitorPlaces, on : SessionEvents \cup {"closed"}]
  /\ raised \in SUBSET {"attached", "continued", "updated", "received"}
  /\ state \in {"disconnected", "connected", "attached", "detaching"}
  /\ eventToWaitFor \in SessionEvents

InboxTyped == inbox \in Seq(SessionPackets)

\* The monitor has not ended, and will not: it is not on its way with a closed handle.
MonitorRuns ==
  /\ gdbMonitor.at # "ended"
  /\ gdbMonitor.at # "top" => gdbMonitor.on # "closed"

\* Only a process that is debugged is held.
NotHeld == ~debug => debuggee # "held"

\* Between two sessions nothing is left of the last one: nobody can send, no handle
\* of it is waited for, and the monitor is not on its way with one.
BetweenSessions ==
  state = "disconnected" =>
    /\ client = "away" /\ inbox = <<>> /\ socket = "poll"
    /\ ~debug
    /\ eventToWaitFor = "attached" /\ "attached" \notin raised
    /\ gdbMonitor.at \in {"top", "looked", "waits"}
    /\ gdbMonitor.at # "top" => gdbMonitor.on = "attached"

\* The packet that the socket thread has begun to receive is there.
PacketIsThere == socket = "packet" => client = "gone" \/ inbox # <<>>

\* The monitor rests when a session is about to end, until it is asked.
RestsUntilAsked ==
  socket = "close" \/ (socket = "packet" /\ EndsOrAsks) => MonitorRests

\* Once asked, it has not answered yet, or it waits for the next process.
AskedMonitor ==
  IF socket \in {"closing", "detaches"}
  THEN /\ eventToWaitFor = "attached" /\ "attached" \notin raised
       /\ \/ "updated" \in raised /\ "received" \notin raised /\ gdbMonitor.at = "waits"
          \/ /\ "updated" \notin raised
             /\ gdbMonitor.at \in {"top", "looked", "waits"}
             /\ gdbMonitor.at # "top" => gdbMonitor.on = "attached"
  ELSE "updated" \notin raised

SessionInv ==
  /\ SessionTyped /\ InboxTyped
  /\ MonitorRuns
  /\ NotHeld
  /\ BetweenSessions
  /\ PacketIsThere
  /\ RestsUntilAsked
  /\ AskedMonitor

\* A packet that is sent does not come before those that were.
LEMMA SessionSent ==
  ASSUME InboxTyped, NEW p \in SessionPackets
  PROVE  /\ Append(inbox, p) \in Seq(SessionPackets)
         /\ Append(inbox, p) # <<>>
         /\ inbox # <<>> => Head(Append(inbox, p)) = Head(inbox)
<1>1. Append(inbox, p) \in Seq(SessionPackets) /\ Append(inbox, p) # <<>>
  BY AppendProperties DEF InboxTyped
<1>2. ASSUME inbox # <<>>
      PROVE  Head(Append(inbox, p)) = Head(inbox)
  <2>1. Len(inbox) > 0 /\ Len(inbox) \in Nat
    BY <1>2, EmptySeq, LenProperties DEF InboxTyped
  <2>2. Append(inbox, p)[1] = inbox[1]
    BY <2>1, AppendProperties DEF InboxTyped
  <2> QED
    BY <2>1, <2>2, HeadTailProperties, <1>1 DEF InboxTyped
<1> QED
  BY <1>1, <1>2

\* What gdb's packets do to the inbox.
LEMMA SessionSends ==
  ASSUME InboxTyped, ClientSends
  PROVE  /\ inbox' \in Seq(SessionPackets)
         /\ inbox' # <<>>
         /\ inbox # <<>> => Head(inbox') = Head(inbox)
         /\ client \notin {"away", "gone"} /\ client' \in Beliefs \ {"away", "gone"}
         /\ UNCHANGED <<threadVars, stateVars, debugVars>>
<1>1. PICK p \in SessionPackets, belief \in Beliefs \ {"away", "gone"} :
        Sends(p, belief) /\ client \notin {"away", "gone"}
  BY DEF ClientSends, SessionPackets, Beliefs
<1>2. inbox' = Append(inbox, p) /\ client' = belief
  BY <1>1 DEF Sends
<1> QED
  BY <1>1, <1>2, SessionSent DEF ClientSends

\* Every step of the session keeps the invariant.
LEMMA SessionStep ==
  ASSUME ~Crossing, SessionInv, SessionNext
  PROVE  SessionInv'
<1>1. SessionTyped'
  <2>1. CASE ClientSends
    BY <2>1, SessionSends DEF SessionInv, SessionTyped, Beliefs, SocketPlaces,
       MonitorPlaces, SessionEvents, threadVars, stateVars, debugVars
  <2>2. CASE HangsUp \/ AcceptClient \/ ProcessRuns \/ ProcessStarts
    BY ~Crossing, <2>2 DEF HangsUp, AcceptClient, ProcessRuns, ProcessStarts, SessionInv,
       SessionTyped, Beliefs, SocketPlaces, MonitorPlaces, SessionEvents, peerVars,
       threadVars, stateVars, debugVars, Told, AwaitsReply, Unlocks, ReceivesPacket,
       AttachToProcess, DetachesProcess, LeftWithout, AsksMonitor
  <2>3. CASE TakesPacket \/ FindsNobody \/ ContinuesProcess \/ ContinuesAnother \/ Breaks
            \/ Leaves \/ AttachesAgain \/ DetachesExtended \/ AsksBeforeClose
            \/ CloseClient
    BY ~Crossing, <2>3 DEF TakesPacket, FindsNobody, ContinuesProcess, ContinuesAnother,
       Breaks, Leaves, AttachesAgain, DetachesExtended, AsksBeforeClose, CloseClient,
       SessionInv, SessionTyped, Beliefs, SocketPlaces, MonitorPlaces, SessionEvents,
       peerVars, threadVars, stateVars, debugVars, Told, AwaitsReply, Unlocks,
       ReceivesPacket, AttachToProcess, DetachesProcess, LeftWithout, AsksMonitor
  <2>4. CASE LooksAgain \/ BeginsToWait \/ AnswersUpdate \/ Wakes \/ WokenTooLate
            \/ Advances \/ WokenByAnother
    BY ~Crossing, <2>4 DEF LooksAgain, BeginsToWait, AnswersUpdate, Wakes, WokenTooLate,
       Advances, WokenByAnother, SessionInv, SessionTyped, Beliefs, SocketPlaces,
       MonitorPlaces, SessionEvents, peerVars, threadVars, stateVars, debugVars, Told,
       AwaitsReply, Unlocks, ReceivesPacket, AttachToProcess, DetachesProcess, LeftWithout,
       AsksMonitor, MonitorGoes, GotEvent, SessionEnds, Handles, Delivered
  <2>5. CASE HandlesNothing \/ HandlesNotice
    BY ~Crossing, <2>5 DEF HandlesNothing, HandlesNotice, SessionInv, SessionTyped,
       Beliefs, SocketPlaces, MonitorPlaces, SessionEvents, peerVars, threadVars,
       stateVars, debugVars, Told, AwaitsReply, Unlocks, ReceivesPacket, AttachToProcess,
       DetachesProcess, LeftWithout, AsksMonitor, MonitorGoes, GotEvent, SessionEnds,
       Handles, Delivered
  <2>6. CASE HandlesExit \/ HandlesStop
    BY ~Crossing, <2>6 DEF HandlesExit, HandlesStop, SessionInv, SessionTyped, Beliefs,
       SocketPlaces, MonitorPlaces, SessionEvents, peerVars, threadVars, stateVars,
       debugVars, Told, AwaitsReply, Unlocks, ReceivesPacket, AttachToProcess,
       DetachesProcess, LeftWithout, AsksMonitor, MonitorGoes, GotEvent, SessionEnds,
       Handles, Delivered
  <2> QED
    BY <2>1, <2>2, <2>3, <2>4, <2>5, <2>6 DEF SessionNext, SocketSteps, MonitorSteps
<1>2. MonitorRuns'
  <2>1. CASE ClientSends
    BY <2>1, SessionSends DEF SessionInv, MonitorRuns, AskedMonitor, RestsUntilAsked,
       MonitorRests, SessionTyped, Beliefs, SocketPlaces, MonitorPlaces, SessionEvents,
       threadVars, stateVars, debugVars
  <2>2. CASE HangsUp \/ AcceptClient \/ ProcessRuns \/ ProcessStarts
    BY ~Crossing, <2>2 DEF HangsUp, AcceptClient, ProcessRuns, ProcessStarts, SessionInv,
       MonitorRuns, AskedMonitor, RestsUntilAsked, MonitorRests, SessionTyped, Beliefs,
       SocketPlaces, MonitorPlaces, SessionEvents, peerVars, threadVars, stateVars,
       debugVars, Told, AwaitsReply, Unlocks, ReceivesPacket, AttachToProcess,
       DetachesProcess, LeftWithout, AsksMonitor
  <2>3. CASE TakesPacket \/ FindsNobody \/ ContinuesProcess \/ ContinuesAnother \/ Breaks
            \/ Leaves \/ AttachesAgain
    BY ~Crossing, <2>3 DEF TakesPacket, FindsNobody, ContinuesProcess, ContinuesAnother,
       Breaks, Leaves, AttachesAgain, SessionInv, MonitorRuns, AskedMonitor, RestsUntilAsked,
       MonitorRests, SessionTyped, Beliefs, SocketPlaces, MonitorPlaces, SessionEvents,
       peerVars, threadVars, stateVars, debugVars, Told, AwaitsReply, Unlocks,
       ReceivesPacket, AttachToProcess, DetachesProcess, LeftWithout, AsksMonitor
  <2>4. CASE DetachesExtended \/ AsksBeforeClose \/ CloseClient
    BY ~Crossing, <2>4 DEF DetachesExtended, AsksBeforeClose, CloseClient, SessionInv,
       MonitorRuns, AskedMonitor, RestsUntilAsked, MonitorRests, SessionTyped, Beliefs,
       SocketPlaces, MonitorPlaces, SessionEvents, peerVars, threadVars, stateVars,
       debugVars, Told, AwaitsReply, Unlocks, ReceivesPacket, AttachToProcess,
       DetachesProcess, LeftWithout, AsksMonitor
  <2>5. CASE LooksAgain \/ BeginsToWait \/ AnswersUpdate \/ Wakes \/ WokenTooLate
            \/ Advances \/ WokenByAnother
    BY ~Crossing, <2>5 DEF LooksAgain, BeginsToWait, AnswersUpdate, Wakes, WokenTooLate,
       Advances, WokenByAnother, SessionInv, MonitorRuns, AskedMonitor, RestsUntilAsked,
       MonitorRests, SessionTyped, Beliefs, SocketPlaces, MonitorPlaces, SessionEvents,
       peerVars, threadVars, stateVars, debugVars, Told, AwaitsReply, Unlocks,
       ReceivesPacket, AttachToProcess, DetachesProcess, LeftWithout, AsksMonitor,
       MonitorGoes, GotEvent, SessionEnds, Handles, Delivered
  <2>6. CASE HandlesNothing \/ HandlesNotice \/ HandlesExit \/ HandlesStop
    BY ~Crossing, <2>6 DEF HandlesNothing, HandlesNotice, HandlesExit, HandlesStop,
       SessionInv, MonitorRuns, AskedMonitor, RestsUntilAsked, MonitorRests, SessionTyped,
       Beliefs, SocketPlaces, MonitorPlaces, SessionEvents, peerVars, threadVars,
       stateVars, debugVars, Told, AwaitsReply, Unlocks, ReceivesPacket, AttachToProcess,
       DetachesProcess, LeftWithout, AsksMonitor, MonitorGoes, GotEvent, SessionEnds,
       Handles, Delivered
  <2> QED
    BY <2>1, <2>2, <2>3, <2>4, <2>5, <2>6 DEF SessionNext, SocketSteps, MonitorSteps
<1>3. NotHeld'
  <2>1. CASE ClientSends
    BY <2>1, SessionSends DEF SessionInv, NotHeld, ContinueDebugEvent, threadVars,
       stateVars, debugVars
  <2>2. CASE HangsUp \/ AcceptClient \/ ProcessRuns \/ ProcessStarts
    BY ~Crossing, <2>2 DEF HangsUp, AcceptClient, ProcessRuns, ProcessStarts, SessionInv,
       NotHeld, ContinueDebugEvent, peerVars, threadVars, stateVars, debugVars, Told,
       AwaitsReply, Unlocks, ReceivesPacket, AttachToProcess, DetachesProcess, LeftWithout,
       AsksMonitor
  <2>3. CASE TakesPacket \/ FindsNobody \/ ContinuesAnother
    BY ~Crossing, <2>3 DEF TakesPacket, FindsNobody, ContinuesAnother, SessionInv,
       NotHeld, ContinueDebugEvent, peerVars, threadVars, stateVars, debugVars, Told,
       AwaitsReply, Unlocks, ReceivesPacket, AttachToProcess, DetachesProcess, LeftWithout,
       AsksMonitor
  <2>4. CASE ContinuesProcess
    BY ~Crossing, <2>4 DEF ContinuesProcess, SessionInv, NotHeld, ContinueDebugEvent,
       peerVars, threadVars, stateVars, debugVars, Told, AwaitsReply, Unlocks,
       ReceivesPacket, AttachToProcess, DetachesProcess, LeftWithout, AsksMonitor
  <2>5. CASE Breaks
    BY ~Crossing, <2>5 DEF Breaks, SessionInv, NotHeld, ContinueDebugEvent, peerVars,
       threadVars, stateVars, debugVars, Told, AwaitsReply, Unlocks, ReceivesPacket,
       AttachToProcess, DetachesProcess, LeftWithout, AsksMonitor
  <2>6. CASE Leaves \/ AttachesAgain \/ DetachesExtended \/ AsksBeforeClose
            \/ CloseClient
    BY ~Crossing, <2>6 DEF Leaves, AttachesAgain, DetachesExtended, AsksBeforeClose,
       CloseClient, SessionInv, NotHeld, ContinueDebugEvent, peerVars, threadVars,
       stateVars, debugVars, Told, AwaitsReply, Unlocks, ReceivesPacket, AttachToProcess,
       DetachesProcess, LeftWithout, AsksMonitor
  <2>7. CASE LooksAgain \/ BeginsToWait \/ AnswersUpdate \/ Wakes \/ WokenTooLate
            \/ Advances \/ WokenByAnother \/ HandlesNothing \/ HandlesNotice
            \/ HandlesExit \/ HandlesStop
    BY ~Crossing, <2>7 DEF LooksAgain, BeginsToWait, AnswersUpdate, Wakes, WokenTooLate,
       Advances, WokenByAnother, HandlesNothing, HandlesNotice, HandlesExit, HandlesStop,
       SessionInv, NotHeld, ContinueDebugEvent, peerVars, threadVars, stateVars, debugVars,
       Told, AwaitsReply, Unlocks, ReceivesPacket, AttachToProcess, DetachesProcess,
       LeftWithout, AsksMonitor, MonitorGoes, GotEvent, SessionEnds, Handles, Delivered
  <2> QED
    BY <2>1, <2>2, <2>3, <2>4, <2>5, <2>6, <2>7 DEF SessionNext, SocketSteps, MonitorSteps
<1>4. BetweenSessions'
  <2>1. CASE ClientSends
    BY <2>1, SessionSends DEF SessionInv, BetweenSessions, AskedMonitor, RestsUntilAsked,
       MonitorRests, IsSignalled, SessionTyped, Beliefs, SocketPlaces, MonitorPlaces,
       SessionEvents, threadVars, stateVars, debugVars
  <2>2. CASE HangsUp \/ AcceptClient \/ ProcessRuns \/ ProcessStarts
    BY ~Crossing, <2>2 DEF HangsUp, AcceptClient, ProcessRuns, ProcessStarts, SessionInv,
       BetweenSessions, AskedMonitor, RestsUntilAsked, MonitorRests, IsSignalled,
       SessionTyped, Beliefs, SocketPlaces, MonitorPlaces, SessionEvents, peerVars,
       threadVars, stateVars, debugVars, Told, AwaitsReply, Unlocks, ReceivesPacket,
       AttachToProcess, DetachesProcess, LeftWithout, AsksMonitor
  <2>3. CASE TakesPacket \/ FindsNobody \/ ContinuesProcess \/ ContinuesAnother \/ Breaks
            \/ Leaves \/ AttachesAgain
    BY ~Crossing, <2>3 DEF TakesPacket, FindsNobody, ContinuesProcess, ContinuesAnother,
       Breaks, Leaves, AttachesAgain, SessionInv, BetweenSessions, AskedMonitor,
       RestsUntilAsked, MonitorRests, IsSignalled, SessionTyped, Beliefs, SocketPlaces,
       MonitorPlaces, SessionEvents, peerVars, threadVars, stateVars, debugVars, Told,
       AwaitsReply, Unlocks, ReceivesPacket, AttachToProcess, DetachesProcess, LeftWithout,
       AsksMonitor
  <2>4. CASE DetachesExtended \/ AsksBeforeClose \/ CloseClient
    BY ~Crossing, <2>4 DEF DetachesExtended, AsksBeforeClose, CloseClient, SessionInv,
       BetweenSessions, AskedMonitor, RestsUntilAsked, MonitorRests, IsSignalled,
       SessionTyped, Beliefs, SocketPlaces, MonitorPlaces, SessionEvents, peerVars,
       threadVars, stateVars, debugVars, Told, AwaitsReply, Unlocks, ReceivesPacket,
       AttachToProcess, DetachesProcess, LeftWithout, AsksMonitor
  <2>5. CASE LooksAgain \/ BeginsToWait \/ AnswersUpdate \/ Wakes \/ WokenTooLate
            \/ Advances \/ WokenByAnother
    BY ~Crossing, <2>5 DEF LooksAgain, BeginsToWait, AnswersUpdate, Wakes, WokenTooLate,
       Advances, WokenByAnother, SessionInv, BetweenSessions, AskedMonitor, RestsUntilAsked,
       MonitorRests, IsSignalled, SessionTyped, Beliefs, SocketPlaces, MonitorPlaces,
       SessionEvents, peerVars, threadVars, stateVars, debugVars, Told, AwaitsReply,
       Unlocks, ReceivesPacket, AttachToProcess, DetachesProcess, LeftWithout, AsksMonitor,
       MonitorGoes, GotEvent, SessionEnds, Handles, Delivered
  <2>6. CASE HandlesNothing \/ HandlesNotice \/ HandlesExit \/ HandlesStop
    BY ~Crossing, <2>6 DEF HandlesNothing, HandlesNotice, HandlesExit, HandlesStop,
       SessionInv, BetweenSessions, AskedMonitor, RestsUntilAsked, MonitorRests, IsSignalled,
       SessionTyped, Beliefs, SocketPlaces, MonitorPlaces, SessionEvents, peerVars,
       threadVars, stateVars, debugVars, Told, AwaitsReply, Unlocks, ReceivesPacket,
       AttachToProcess, DetachesProcess, LeftWithout, AsksMonitor, MonitorGoes, GotEvent,
       SessionEnds, Handles, Delivered
  <2> QED
    BY <2>1, <2>2, <2>3, <2>4, <2>5, <2>6 DEF SessionNext, SocketSteps, MonitorSteps
<1>5. PacketIsThere'
  <2>1. CASE ClientSends
    BY <2>1, SessionSends DEF SessionInv, PacketIsThere, BetweenSessions, SessionTyped,
       Beliefs, SocketPlaces, MonitorPlaces, SessionEvents, threadVars, stateVars, debugVars
  <2>2. CASE HangsUp \/ AcceptClient \/ ProcessRuns \/ ProcessStarts
    BY ~Crossing, <2>2 DEF HangsUp, AcceptClient, ProcessRuns, ProcessStarts, SessionInv,
       PacketIsThere, BetweenSessions, SessionTyped, Beliefs, SocketPlaces, MonitorPlaces,
       SessionEvents, peerVars, threadVars, stateVars, debugVars, Told, AwaitsReply,
       Unlocks, ReceivesPacket, AttachToProcess, DetachesProcess, LeftWithout, AsksMonitor
  <2>3. CASE TakesPacket \/ FindsNobody \/ ContinuesProcess \/ ContinuesAnother \/ Breaks
            \/ Leaves \/ AttachesAgain
    BY ~Crossing, <2>3 DEF TakesPacket, FindsNobody, ContinuesProcess, ContinuesAnother,
       Breaks, Leaves, AttachesAgain, SessionInv, PacketIsThere, BetweenSessions,
       SessionTyped, Beliefs, SocketPlaces, MonitorPlaces, SessionEvents, peerVars,
       threadVars, stateVars, debugVars, Told, AwaitsReply, Unlocks, ReceivesPacket,
       AttachToProcess, DetachesProcess, LeftWithout, AsksMonitor
  <2>4. CASE DetachesExtended \/ AsksBeforeClose \/ CloseClient
    BY ~Crossing, <2>4 DEF DetachesExtended, AsksBeforeClose, CloseClient, SessionInv,
       PacketIsThere, BetweenSessions, SessionTyped, Beliefs, SocketPlaces, MonitorPlaces,
       SessionEvents, peerVars, threadVars, stateVars, debugVars, Told, AwaitsReply,
       Unlocks, ReceivesPacket, AttachToProcess, DetachesProcess, LeftWithout, AsksMonitor
  <2>5. CASE LooksAgain \/ BeginsToWait \/ AnswersUpdate \/ Wakes \/ WokenTooLate
            \/ Advances \/ WokenByAnother
    BY ~Crossing, <2>5 DEF LooksAgain, BeginsToWait, AnswersUpdate, Wakes, WokenTooLate,
       Advances, WokenByAnother, SessionInv, PacketIsThere, BetweenSessions, SessionTyped,
       Beliefs, SocketPlaces, MonitorPlaces, SessionEvents, peerVars, threadVars,
       stateVars, debugVars, Told, AwaitsReply, Unlocks, ReceivesPacket, AttachToProcess,
       DetachesProcess, LeftWithout, AsksMonitor, MonitorGoes, GotEvent, SessionEnds,
       Handles, Delivered
  <2>6. CASE HandlesNothing \/ HandlesNotice \/ HandlesExit \/ HandlesStop
    BY ~Crossing, <2>6 DEF HandlesNothing, HandlesNotice, HandlesExit, HandlesStop,
       SessionInv, PacketIsThere, BetweenSessions, SessionTyped, Beliefs, SocketPlaces,
       MonitorPlaces, SessionEvents, peerVars, threadVars, stateVars, debugVars, Told,
       AwaitsReply, Unlocks, ReceivesPacket, AttachToProcess, DetachesProcess, LeftWithout,
       AsksMonitor, MonitorGoes, GotEvent, SessionEnds, Handles, Delivered
  <2> QED
    BY <2>1, <2>2, <2>3, <2>4, <2>5, <2>6 DEF SessionNext, SocketSteps, MonitorSteps
<1>6. RestsUntilAsked'
  <2>1. CASE ClientSends
    BY <2>1, SessionSends DEF SessionInv, RestsUntilAsked, AskedMonitor, MonitorRests,
       IsSignalled, MayWake, EndsOrAsks, PacketIsThere, SessionTyped, Beliefs, SocketPlaces,
       MonitorPlaces, SessionEvents, threadVars, stateVars, debugVars
  <2>2. CASE HangsUp \/ AcceptClient \/ ProcessRuns \/ ProcessStarts
    BY ~Crossing, <2>2 DEF HangsUp, AcceptClient, ProcessRuns, ProcessStarts, SessionInv,
       RestsUntilAsked, AskedMonitor, MonitorRests, IsSignalled, MayWake, EndsOrAsks,
       PacketIsThere, SessionTyped, Beliefs, SocketPlaces, MonitorPlaces, SessionEvents,
       peerVars, threadVars, stateVars, debugVars, Told, AwaitsReply, Unlocks,
       ReceivesPacket, AttachToProcess, DetachesProcess, LeftWithout, AsksMonitor
  <2>3. CASE TakesPacket \/ FindsNobody
    BY ~Crossing, <2>3 DEF TakesPacket, FindsNobody, SessionInv, RestsUntilAsked,
       AskedMonitor, MonitorRests, IsSignalled, MayWake, EndsOrAsks, PacketIsThere,
       SessionTyped, Beliefs, SocketPlaces, MonitorPlaces, SessionEvents, peerVars,
       threadVars, stateVars, debugVars, Told, AwaitsReply, Unlocks, ReceivesPacket,
       AttachToProcess, DetachesProcess, LeftWithout, AsksMonitor
  <2>4. CASE ContinuesProcess \/ ContinuesAnother \/ Breaks
    BY ~Crossing, <2>4 DEF ContinuesProcess, ContinuesAnother, Breaks, SessionInv,
       RestsUntilAsked, AskedMonitor, MonitorRests, IsSignalled, MayWake, EndsOrAsks,
       PacketIsThere, SessionTyped, Beliefs, SocketPlaces, MonitorPlaces, SessionEvents,
       peerVars, threadVars, stateVars, debugVars, Told, AwaitsReply, Unlocks,
       ReceivesPacket, AttachToProcess, DetachesProcess, LeftWithout, AsksMonitor
  <2>5. CASE Leaves \/ AttachesAgain
    BY ~Crossing, <2>5 DEF Leaves, AttachesAgain, SessionInv, RestsUntilAsked,
       AskedMonitor, MonitorRests, IsSignalled, MayWake, EndsOrAsks, PacketIsThere,
       SessionTyped, Beliefs, SocketPlaces, MonitorPlaces, SessionEvents, peerVars,
       threadVars, stateVars, debugVars, Told, AwaitsReply, Unlocks, ReceivesPacket,
       AttachToProcess, DetachesProcess, LeftWithout, AsksMonitor
  <2>6. CASE DetachesExtended \/ AsksBeforeClose \/ CloseClient
    BY ~Crossing, <2>6 DEF DetachesExtended, AsksBeforeClose, CloseClient, SessionInv,
       RestsUntilAsked, AskedMonitor, MonitorRests, IsSignalled, MayWake, EndsOrAsks,
       PacketIsThere, SessionTyped, Beliefs, SocketPlaces, MonitorPlaces, SessionEvents,
       peerVars, threadVars, stateVars, debugVars, Told, AwaitsReply, Unlocks,
       ReceivesPacket, AttachToProcess, DetachesProcess, LeftWithout, AsksMonitor
  <2>7. CASE LooksAgain \/ BeginsToWait \/ AnswersUpdate \/ Wakes \/ WokenTooLate
            \/ Advances \/ WokenByAnother
    BY ~Crossing, <2>7 DEF LooksAgain, BeginsToWait, AnswersUpdate, Wakes, WokenTooLate,
       Advances, WokenByAnother, SessionInv, RestsUntilAsked, AskedMonitor, MonitorRests,
       IsSignalled, MayWake, EndsOrAsks, PacketIsThere, SessionTyped, Beliefs, SocketPlaces,
       MonitorPlaces, SessionEvents, peerVars, threadVars, stateVars, debugVars, Told,
       AwaitsReply, Unlocks, ReceivesPacket, AttachToProcess, DetachesProcess, LeftWithout,
       AsksMonitor, MonitorGoes, GotEvent, SessionEnds, Handles, Delivered
  <2>8. CASE HandlesNothing \/ HandlesNotice \/ HandlesExit \/ HandlesStop
    BY ~Crossing, <2>8 DEF HandlesNothing, HandlesNotice, HandlesExit, HandlesStop,
       SessionInv, RestsUntilAsked, AskedMonitor, MonitorRests, IsSignalled, MayWake,
       EndsOrAsks, PacketIsThere, SessionTyped, Beliefs, SocketPlaces, MonitorPlaces,
       SessionEvents, peerVars, threadVars, stateVars, debugVars, Told, AwaitsReply,
       Unlocks, ReceivesPacket, AttachToProcess, DetachesProcess, LeftWithout, AsksMonitor,
       MonitorGoes, GotEvent, SessionEnds, Handles, Delivered
  <2> QED
    BY <2>1, <2>2, <2>3, <2>4, <2>5, <2>6, <2>7, <2>8 DEF SessionNext, SocketSteps,
       MonitorSteps
<1>7. AskedMonitor'
  <2>1. CASE ClientSends
    BY <2>1, SessionSends DEF SessionInv, AskedMonitor, RestsUntilAsked, MonitorRests,
       IsSignalled, EndsOrAsks, SessionTyped, Beliefs, SocketPlaces, MonitorPlaces,
       SessionEvents, threadVars, stateVars, debugVars
  <2>2. CASE HangsUp \/ AcceptClient \/ ProcessRuns \/ ProcessStarts
    BY ~Crossing, <2>2 DEF HangsUp, AcceptClient, ProcessRuns, ProcessStarts, SessionInv,
       AskedMonitor, RestsUntilAsked, MonitorRests, IsSignalled, EndsOrAsks, SessionTyped,
       Beliefs, SocketPlaces, MonitorPlaces, SessionEvents, peerVars, threadVars,
       stateVars, debugVars, Told, AwaitsReply, Unlocks, ReceivesPacket, AttachToProcess,
       DetachesProcess, LeftWithout, AsksMonitor
  <2>3. CASE TakesPacket \/ FindsNobody \/ ContinuesProcess \/ ContinuesAnother \/ Breaks
            \/ Leaves \/ AttachesAgain
    BY ~Crossing, <2>3 DEF TakesPacket, FindsNobody, ContinuesProcess, ContinuesAnother,
       Breaks, Leaves, AttachesAgain, SessionInv, AskedMonitor, RestsUntilAsked,
       MonitorRests, IsSignalled, EndsOrAsks, SessionTyped, Beliefs, SocketPlaces,
       MonitorPlaces, SessionEvents, peerVars, threadVars, stateVars, debugVars, Told,
       AwaitsReply, Unlocks, ReceivesPacket, AttachToProcess, DetachesProcess, LeftWithout,
       AsksMonitor
  <2>4. CASE DetachesExtended \/ AsksBeforeClose \/ CloseClient
    BY ~Crossing, <2>4 DEF DetachesExtended, AsksBeforeClose, CloseClient, SessionInv,
       AskedMonitor, RestsUntilAsked, MonitorRests, IsSignalled, EndsOrAsks, SessionTyped,
       Beliefs, SocketPlaces, MonitorPlaces, SessionEvents, peerVars, threadVars,
       stateVars, debugVars, Told, AwaitsReply, Unlocks, ReceivesPacket, AttachToProcess,
       DetachesProcess, LeftWithout, AsksMonitor
  <2>5. CASE LooksAgain \/ BeginsToWait \/ AnswersUpdate \/ Wakes \/ WokenTooLate
            \/ Advances \/ WokenByAnother
    BY ~Crossing, <2>5 DEF LooksAgain, BeginsToWait, AnswersUpdate, Wakes, WokenTooLate,
       Advances, WokenByAnother, SessionInv, AskedMonitor, RestsUntilAsked, MonitorRests,
       IsSignalled, EndsOrAsks, SessionTyped, Beliefs, SocketPlaces, MonitorPlaces,
       SessionEvents, peerVars, threadVars, stateVars, debugVars, Told, AwaitsReply,
       Unlocks, ReceivesPacket, AttachToProcess, DetachesProcess, LeftWithout, AsksMonitor,
       MonitorGoes, GotEvent, SessionEnds, Handles, Delivered
  <2>6. CASE HandlesNothing \/ HandlesNotice \/ HandlesExit \/ HandlesStop
    BY ~Crossing, <2>6 DEF HandlesNothing, HandlesNotice, HandlesExit, HandlesStop,
       SessionInv, AskedMonitor, RestsUntilAsked, MonitorRests, IsSignalled, EndsOrAsks,
       SessionTyped, Beliefs, SocketPlaces, MonitorPlaces, SessionEvents, peerVars,
       threadVars, stateVars, debugVars, Told, AwaitsReply, Unlocks, ReceivesPacket,
       AttachToProcess, DetachesProcess, LeftWithout, AsksMonitor, MonitorGoes, GotEvent,
       SessionEnds, Handles, Delivered
  <2> QED
    BY <2>1, <2>2, <2>3, <2>4, <2>5, <2>6 DEF SessionNext, SocketSteps, MonitorSteps
<1>8. InboxTyped'
  <2>1. CASE ClientSends
    BY <2>1, SessionSends DEF InboxTyped, SessionInv
  <2>2. CASE inbox # <<>> /\ inbox' = Tail(inbox)
    <3>1. inbox \in Seq(SessionPackets) /\ inbox # <<>>
      BY <2>2 DEF InboxTyped, SessionInv
    <3>2. Tail(inbox) \in Seq(SessionPackets)
      BY <3>1, HeadTailProperties
    <3> QED
      BY <3>2, <2>2 DEF InboxTyped
  <2>3. CASE inbox' = inbox \/ inbox' = <<>>
    BY <2>3, EmptySeq DEF InboxTyped, SessionInv
  <2>4. CASE TakesPacket \/ FindsNobody \/ ContinuesProcess \/ ContinuesAnother \/ Breaks
            \/ Leaves \/ AttachesAgain
    <3>1. inbox # <<>> \/ UNCHANGED inbox
      BY <2>4 DEF TakesPacket, FindsNobody, ContinuesProcess, ContinuesAnother, Breaks,
         Leaves, AttachesAgain, ReceivesPacket, SessionInv, PacketIsThere, peerVars
    <3>2. inbox' = Tail(inbox) \/ UNCHANGED inbox
      BY <2>4 DEF TakesPacket, FindsNobody, ContinuesProcess, ContinuesAnother, Breaks,
         Leaves, AttachesAgain, ReceivesPacket, peerVars
    <3> QED
      BY <3>1, <3>2, <2>2, <2>3
  <2>5. CASE HangsUp \/ AcceptClient \/ ProcessRuns \/ ProcessStarts \/ DetachesExtended
            \/ AsksBeforeClose \/ CloseClient \/ LooksAgain \/ BeginsToWait
            \/ AnswersUpdate \/ Wakes \/ WokenTooLate \/ Advances \/ WokenByAnother
            \/ HandlesNothing \/ HandlesNotice \/ HandlesExit \/ HandlesStop
    <3>1. inbox' = inbox \/ inbox' = <<>>
      BY <2>5 DEF HangsUp, AcceptClient, ProcessRuns, ProcessStarts, DetachesExtended,
         AsksBeforeClose, CloseClient, LooksAgain, BeginsToWait, AnswersUpdate, Wakes,
         WokenTooLate, Advances, WokenByAnother, HandlesNothing, HandlesNotice, HandlesExit,
         HandlesStop, peerVars
    <3> QED
      BY <3>1, <2>3
  <2> QED
    BY <2>1, <2>4, <2>5 DEF SessionNext, SocketSteps, MonitorSteps
<1> QED
  BY <1>1, <1>2, <1>3, <1>4, <1>5, <1>6, <1>7, <1>8 DEF SessionInv

\* gdb/server.c, gdb/monitor.c: when the answer of the monitor is waited for while it
\* rests, a session that was closed leaves the process free and the monitor at its
\* wait for the next session's process, in every mode.
THEOREM SessionsRelease ==
  ASSUME ~Crossing
  PROVE  SessionInit /\ [][SessionNext]_sessionVars => []ClosedSessionReleases
<1>1. SessionInit => SessionInv
  <2>1. SessionInit => InboxTyped
    BY EmptySeq DEF SessionInit, InboxTyped
  <2>2. SessionInit => SessionTyped /\ MonitorRuns
    BY DEF SessionInit, SessionTyped, MonitorRuns, Beliefs, SocketPlaces, MonitorPlaces,
       SessionEvents
  <2>3. SessionInit => NotHeld /\ BetweenSessions
    BY DEF SessionInit, NotHeld, BetweenSessions
  <2>4. SessionInit => PacketIsThere /\ RestsUntilAsked /\ AskedMonitor
    BY DEF SessionInit, PacketIsThere, RestsUntilAsked, AskedMonitor
  <2> QED
    BY <2>1, <2>2, <2>3, <2>4 DEF SessionInv
<1>2. SessionInv /\ [SessionNext]_sessionVars => SessionInv'
  <2>1. CASE UNCHANGED sessionVars
    BY <2>1 DEF sessionVars, peerVars, threadVars, stateVars, debugVars, SessionInv,
       SessionTyped, InboxTyped, MonitorRuns, NotHeld, BetweenSessions, PacketIsThere,
       RestsUntilAsked, AskedMonitor, EndsOrAsks, MonitorRests, IsSignalled
  <2> QED
    BY <2>1, SessionStep
<1>3. SessionInv => ClosedSessionReleases
  BY DEF SessionInv, SessionTyped, MonitorRuns, NotHeld, BetweenSessions,
     ClosedSessionReleases, MonitorPlaces
<1> QED
  BY <1>1, <1>2, <1>3, PTL
=============================================================================
