------------------------------- MODULE Delivery -------------------------------
(***************************************************************************)
(* What the worker promises of one cascade job: its result takes effect at *)
(* least once before the job counts as done, an effect is never taken      *)
(* back, and a job that is done or dead stays so.  Nothing is said of how  *)
(* often the job runs, or of effects left behind by a job that died.       *)
(***************************************************************************)
CONSTANT Job

VARIABLES
    status,   \* status[j]: the job waits or runs, is done, or is dead
    effect    \* effect[j]: a complete result of j is in the asset graph

deliveryVars == <<status, effect>>

Init ==
    /\ status = [j \in Job |-> "open"]
    /\ effect \in [Job -> BOOLEAN]

\* Results become complete; several jobs may share their assets.
Grow == effect' \in {e \in [Job -> BOOLEAN] : \A j \in Job : effect[j] => e[j]}

TakeEffect == UNCHANGED status /\ Grow

Done(j) ==
    /\ status[j] = "open"
    /\ effect[j]
    /\ status' = [status EXCEPT ![j] = "done"]
    /\ UNCHANGED effect

\* Cancelled, or out of attempts.  The last attempt may have failed because
\* the answer to its last statement was lost.
Die(j) ==
    /\ status[j] = "open"
    /\ status' = [status EXCEPT ![j] = "dead"]
    /\ Grow

Next == TakeEffect \/ \E j \in Job : Done(j) \/ Die(j)

Spec == Init /\ [][Next]_deliveryVars
=============================================================================
