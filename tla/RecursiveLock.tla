--------------------------- MODULE RecursiveLock ---------------------------
(***************************************************************************)
(* libctru's RecursiveLock, as the modules of this project use it: the     *)
(* draw lock of Rosalina (draw.c) and the process list lock of PM.  The    *)
(* lock is external code: a record of the thread it is tagged with and of  *)
(* the number of nested acquisitions.  Operators only, no state.           *)
(***************************************************************************)
EXTENDS Integers

NoThread == "no thread"

FreeLock == [tag |-> NoThread, counter |-> 0]

\* RecursiveLock_Lock returns at once when the lock is free or already tagged
\* with the caller; otherwise the caller sleeps.
CanAcquire(l, t) == l.tag \in {NoThread, t}

Acquired(l, t) ==
  [tag |-> t, counter |-> IF l.tag = t THEN l.counter + 1 ELSE 1]

\* RecursiveLock_Unlock: the outermost unlock clears the tag.
Released(l) ==
  IF l.counter = 1 THEN FreeLock ELSE [l EXCEPT !.counter = @ - 1]
=============================================================================
