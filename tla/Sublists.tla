------------------------------ MODULE Sublists ------------------------------
(***************************************************************************)
(* Loops over a list, of sm over its own and of Rosalina over its sockets: *)
(* the list is gone through from its front, and the elements of a set are  *)
(* treated, in this order.                                                 *)
(***************************************************************************)
EXTENDS Integers, Sequences, Functions

\* The elements of s that are in T, in the order of s.
Kept(s, T) ==
  LET kept[i \in 0..Len(s)] ==
        IF i = 0 THEN <<>>
        ELSE IF s[i] \in T THEN Append(kept[i - 1], s[i]) ELSE kept[i - 1]
  IN  kept[Len(s)]
=============================================================================
