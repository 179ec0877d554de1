------------------------------- MODULE MCHealth -------------------------------
(***************************************************************************)
(* A small instance of Health: a process where two runs may end at once,   *)
(* its healthLoop and the goroutines of its HealthErrors.                  *)
(***************************************************************************)
EXTENDS Health, TLC

CONSTANTS p1, s1, s2, k1

MCHost == (s1 :> p1) @@ (s2 :> p1)

MCEnded == {[err |-> "nil", key |-> NoKey], [err |-> "plain", key |-> NoKey],
            [err |-> "api_key", key |-> k1], [err |-> "other", key |-> k1]}

MCChecked == {[status |-> "healthy", class |-> "ok"],
              [status |-> "unhealthy", class |-> "api_key"],
              [status |-> "unknown", class |-> "unknown"]}
=============================================================================
