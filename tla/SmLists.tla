------------------------------- MODULE SmLists -------------------------------
(***************************************************************************)
(* list.c of sm: the lists that sessions and processes   *)
(* are moved between.  A node has pointers to its neighbours and to its    *)
(* list, a list to its first and last node; NoNode is 0.                     *)
(***************************************************************************)
EXTENDS Integers, FiniteSets, SequencesExt

CONSTANTS PoolSize, Lists, FreeList

ASSUME ListsAssumption == PoolSize \in Nat \ {0} /\ FreeList \in Lists

Nodes == 1..PoolSize

NoNode == 0

VARIABLES prev, next, parent, first, last

linkVars == <<prev, next, parent, first, last>>

\* buildList makes a list of the whole pool.
buildList ==
  /\ prev = [n \in Nodes |-> n - 1]
  /\ next = [n \in Nodes |-> IF n = PoolSize THEN NoNode ELSE n + 1]
  /\ parent = [n \in Nodes |-> FreeList]
  /\ first = [l \in Lists |-> IF l = FreeList THEN 1 ELSE NoNode]
  /\ last = [l \in Lists |-> IF l = FreeList THEN PoolSize ELSE NoNode]

\* Fault: the first node of the source list is not replaced.
firstAfterRemovalKept(n, src) == first

\* The source list without the node.
firstAfterRemoval(n, src) ==
  [first EXCEPT ![src] = IF @ = n THEN next[n] ELSE @]

lastAfterRemoval(n, src) ==
  [last EXCEPT ![src] = IF @ = n THEN prev[n] ELSE @]

\* A pointer of the node's neighbour is led past the node.
Bypassed(link, from, to) == IF from = NoNode THEN link ELSE [link EXCEPT ![from] = to]

moveNode(n, dst, back) ==
  LET src == parent[n]
      fst == firstAfterRemoval(n, src)
      lst == lastAfterRemoval(n, src)
      nxt == Bypassed(next, prev[n], next[n])
      prv == Bypassed(prev, next[n], prev[n])
  IN  /\ dst # src
      /\ IF back
           THEN /\ next' = [Bypassed(nxt, lst[dst], n) EXCEPT ![n] = NoNode]
                /\ prev' = [prv EXCEPT ![n] = lst[dst]]
                /\ last' = [lst EXCEPT ![dst] = n]
                /\ first' = [fst EXCEPT ![dst] = IF @ = NoNode THEN n ELSE @]
           ELSE /\ prev' = [Bypassed(prv, fst[dst], n) EXCEPT ![n] = NoNode]
                /\ next' = [nxt EXCEPT ![n] = fst[dst]]
                /\ first' = [fst EXCEPT ![dst] = n]
                /\ last' = [lst EXCEPT ![dst] = IF @ = NoNode THEN n ELSE @]
      /\ parent' = [parent EXCEPT ![n] = dst]

\* allocateNode clears the rest of the node; an empty free list is a panic.
allocateNode(dst, back) ==
  /\ first[FreeList] # NoNode
  /\ moveNode(first[FreeList], dst, back)

LinksNext ==
  \/ \E n \in Nodes, dst \in Lists, back \in BOOLEAN : moveNode(n, dst, back)
  \/ \E dst \in Lists, back \in BOOLEAN : allocateNode(dst, back)

LinksSpec == buildList /\ [][LinksNext]_linkVars

-----------------------------------------------------------------------------
(* Properties *)

\* The nodes on the way along a link, which ends at NoNode or after PoolSize.
Walk(link, start) ==
  LET at[k \in 1..PoolSize] ==
        IF k = 1 THEN start
        ELSE LET before == at[k - 1] IN IF before = NoNode THEN NoNode ELSE link[before]
  IN  [k \in 1..Cardinality({j \in 1..PoolSize : at[j] # NoNode}) |-> at[k]]

\* The sequence of nodes of each list, if its pointers do not disagree: read
\* forwards it is what it is read backwards, and its nodes are those that have
\* it for their parent.
Content ==
  [l \in Lists |->
    LET forwards == Walk(next, first[l])
    IN  IF /\ Walk(prev, last[l]) = Reverse(forwards)
           /\ {n \in Nodes : parent[n] = l} = Range(forwards)
        THEN forwards ELSE <<NoNode>>]

Links == INSTANCE ListSequences WITH content <- Content

\* list.c: pointers never disagree, and moving a node changes the sequences the
\* way it should.
ListsImplementSequences ==
  Links!SequencesInit /\ [][UNCHANGED linkVars \/ Links!SequencesNext]_linkVars
=============================================================================
