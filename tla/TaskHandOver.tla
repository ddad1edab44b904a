---------------------------- MODULE TaskHandOver ----------------------------
(***************************************************************************)
(* What a task runner promises: a task is handed over with its arguments   *)
(* when the one before has run, and then runs, once and with them.         *)
(***************************************************************************)
CONSTANT Posts   \* pairs of a task and its arguments

VARIABLE given   \* the pair that was handed over and has not run, or none

Hand == given = {} /\ \E post \in Posts : given' = {post}

RunGiven == given # {} /\ given' = {}

\* The part of the promise that says what may happen.
HandOverSafety == given = {} /\ [][Hand \/ RunGiven]_given

HandOverSpec == HandOverSafety /\ WF_given(RunGiven)
=============================================================================
