------------------------- MODULE ScreenshotMailbox -------------------------
(***************************************************************************)
(* What datasetCapture.c promises, without threads, locks or memory: a     *)
(* mailbox with room for one picture.  Taking a picture replaces a picture *)
(* that was not saved yet; saving appends the latest picture to the card,  *)
(* once.  A picture that is pending is saved, unless another replaces it   *)
(* or the program is asked to terminate.                                   *)
(***************************************************************************)
EXTENDS Naturals, Sequences

CONSTANT MaxTaken   \* bound on the pictures of a behaviour

ASSUME MaxTakenAssumption == MaxTaken \in Nat

VARIABLES
  taken,    \* the number of the latest picture
  pending,  \* the latest picture is not saved
  saved,    \* the numbers of the saved pictures, oldest first
  closed    \* termination has been requested

boxVars == <<taken, pending, saved, closed>>

BoxInit == taken = 0 /\ pending = FALSE /\ saved = <<>> /\ closed = FALSE

Take ==
  /\ taken < MaxTaken
  /\ taken' = taken + 1
  /\ pending' = TRUE
  /\ UNCHANGED <<saved, closed>>

\* Fault: the picture stays pending after it is saved.
SaveAgain ==
  /\ pending
  /\ saved' = Append(saved, taken)
  /\ UNCHANGED <<taken, pending, closed>>

Save ==
  /\ pending
  /\ saved' = Append(saved, taken)
  /\ pending' = FALSE
  /\ UNCHANGED <<taken, closed>>

AskToEnd == ~closed /\ closed' = TRUE /\ UNCHANGED <<taken, pending, saved>>

BoxNext == Take \/ Save \/ AskToEnd

BoxSpec == BoxInit /\ [][BoxNext]_boxVars

BoxFairSpec == BoxSpec /\ WF_boxVars(Save /\ ~closed)

BoxTypeOK ==
  /\ taken \in 0..MaxTaken
  /\ pending \in BOOLEAN /\ closed \in BOOLEAN
  /\ saved \in Seq(1..MaxTaken)

\* No picture is saved twice and none overtakes a later one; the latest one,
\* while it is pending, has not been saved yet.
SavedInOrder ==
  /\ \A i, j \in DOMAIN saved : i < j => saved[i] < saved[j]
  /\ \A i \in DOMAIN saved :
       IF pending THEN saved[i] < taken ELSE saved[i] =< taken
=============================================================================
