---------------------------- MODULE ScreenSuite ----------------------------
(***************************************************************************)
(* Two parts of RosalinaScreen with its fairness, in one run: "captures",  *)
(* where nobody opens the menu and nothing reports an error, so that the   *)
(* two threads of datasetCapture.c have the screen to themselves, and      *)
(* "ending", where everything gets in the way of a termination, with one   *)
(* capture (the count of the pictures begins one below its bound).  The    *)
(* part never changes.  What it excludes are acts of the user and of other *)
(* processes, of which no fairness is assumed.                             *)
(***************************************************************************)
EXTENDS RosalinaScreen

VARIABLE part

suiteVars == <<vars, part>>

SuiteInit ==
  /\ part \in {"captures", "ending"}
  /\ InitAfter(IF part = "captures" THEN 0 ELSE MaxCaptures - 1)

SuiteNext ==
  /\ Next
  /\ part = "captures" => pc'["menu"] # "enter" /\ pc'["errdisp"] # "enter"
  /\ UNCHANGED part

SuiteSpec == SuiteInit /\ [][SuiteNext]_suiteVars

SuiteFairSpec == SuiteSpec /\ Fairness

-----------------------------------------------------------------------------
(***************************************************************************)
(* The mailbox of datasetCapture.c.  A picture is in it from the moment    *)
(* readyToWrite is raised until the write; a file that holds anything but  *)
(* a capture is number 0, which no behaviour of the mailbox allows.  The   *)
(* other part's mailbox is never used.                                     *)
(***************************************************************************)
Mailbox ==
  INSTANCE ScreenshotMailbox WITH
    MaxTaken <- MaxCaptures,
    taken <- IF part = "captures" THEN captures ELSE 0,
    pending <- part = "captures" /\ ready /\ pc["writer"] \notin {"realloc", "reset"},
    saved <- IF part = "captures"
             THEN [i \in DOMAIN files |-> IF files[i].holds = "shot" THEN files[i].id ELSE 0]
             ELSE <<>>,
    closed <- part = "captures" /\ preTerminationRequested

\* datasetCapture.c: the two threads implement the mailbox: no torn, empty,
\* repeated or reordered picture reaches the card, and a pending picture is
\* saved.
CaptureImplementsMailbox == Mailbox!BoxFairSpec

\* datasetCapture.c, draw.c: the program does not die of a capture.
NeverDies == part = "captures" => halted \notin {"trap", "abort"}
=============================================================================
