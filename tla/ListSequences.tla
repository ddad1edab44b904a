---------------------------- MODULE ListSequences ----------------------------
(***************************************************************************)
(* What list.c promises: a few sequences of nodes, between whose ends a    *)
(* node moves.  A move to the list it is on does nothing.                  *)
(***************************************************************************)
EXTENDS SequencesExt

CONSTANTS Nodes, Lists

VARIABLE content   \* the sequence of nodes of each list

MoveSequences(n, dst, back) ==
  \E src \in Lists \ {dst} :
    \E i \in DOMAIN content[src] :
      /\ content[src][i] = n
      /\ content' = [content EXCEPT ![src] = RemoveAt(@, i),
                                    ![dst] = IF back THEN Append(@, n) ELSE Cons(n, @)]

SequencesNext ==
  \E n \in Nodes, dst \in Lists, back \in BOOLEAN : MoveSequences(n, dst, back)

SequencesInit ==
  \E l \in Lists :
    /\ \A n \in Nodes : \E i \in DOMAIN content[l] : content[l][i] = n
    /\ \A m \in Lists \ {l} : content[m] = <<>>

SequencesSpec == SequencesInit /\ [][SequencesNext]_content
=============================================================================
