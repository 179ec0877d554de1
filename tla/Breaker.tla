-------------------------------- MODULE Breaker --------------------------------
(***************************************************************************)
(* The circuit breaker of sdk/proxyclient/breaker.go.  Its methods hold    *)
(* b.mu from start to end, so each is a function from breaker to breaker.  *)
(* The times firstFail and openedAt are kept as ages, and an age stops     *)
(* growing where no comparison in the code can tell it from a larger one.  *)
(***************************************************************************)
EXTENDS Naturals

CONSTANTS
    Threshold,   \* BreakerErrors
    Window,      \* BreakerWindow, in ticks of the clock
    Cooldown     \* BreakerCooldown, in ticks of the clock

\* applyDefaults replaces values that are not positive.
ASSUME BreakerOK ==
    /\ Threshold \in Nat \ {0}
    /\ Window \in Nat \ {0}
    /\ Cooldown \in Nat \ {0}

BreakerState == {"closed", "open", "half-open"}

BreakerType == [state : BreakerState, failures : 0..(Threshold + 1),
                sinceFirst : 0..(Window + 1),   \* age of firstFail
                sinceOpen : 0..Cooldown]        \* age of openedAt

newBreaker == [state |-> "closed", failures |-> 0, sinceFirst |-> 0, sinceOpen |-> 0]

Older(age, limit) == IF age < limit THEN age + 1 ELSE limit

\* One tick of b.now().
Aged(b) == [b EXCEPT !.sinceFirst = Older(@, Window + 1),
                     !.sinceOpen = Older(@, Cooldown)]

CooledDown(b) == b.state = "open" /\ b.sinceOpen >= Cooldown

\* mutant: callers are let through while a probe is out
allows_half_open(b) == b.state # "open" \/ CooledDown(b)

\* The answer of allow().
allows(b) == b.state = "closed" \/ CooledDown(b)

\* The breaker after allow(): the caller that ends the cooldown is the probe.
allow(b) == IF CooledDown(b) THEN [b EXCEPT !.state = "half-open"] ELSE b

\* mutant: the counter survives a success
success_keeps_count(b) == [b EXCEPT !.state = "closed"]

\* success() also closes a breaker that is open.
success(b) == [b EXCEPT !.state = "closed", !.failures = 0, !.sinceFirst = 0]

Opened(b) == [b EXCEPT !.state = "open", !.sinceOpen = 0]

\* mutant: failures are counted while the breaker is open
failure_open_counts(b) ==
    CASE b.state = "half-open" -> Opened(b)
      [] b.state # "half-open" /\ (b.failures = 0 \/ b.sinceFirst > Window) ->
            [b EXCEPT !.failures = 1, !.sinceFirst = 0]
      [] b.state # "half-open" /\ ~(b.failures = 0 \/ b.sinceFirst > Window) ->
            IF b.failures + 1 >= Threshold
            THEN Opened([b EXCEPT !.failures = @ + 1])
            ELSE [b EXCEPT !.failures = @ + 1]

\* mutant: a failed probe is ignored like a failure while open
failure_probe_ignored(b) ==
    CASE b.state \in {"half-open", "open"} -> b
      [] b.state = "closed" /\ (b.failures = 0 \/ b.sinceFirst > Window) ->
            [b EXCEPT !.failures = 1, !.sinceFirst = 0]
      [] b.state = "closed" /\ ~(b.failures = 0 \/ b.sinceFirst > Window) ->
            IF b.failures + 1 >= Threshold
            THEN Opened([b EXCEPT !.failures = @ + 1])
            ELSE [b EXCEPT !.failures = @ + 1]

\* failure() reopens after a failed probe, does nothing while open, starts a
\* new count, or counts and opens at the threshold.
failure(b) ==
    CASE b.state = "half-open" -> Opened(b)
      [] b.state = "open" -> b
      [] b.state = "closed" /\ (b.failures = 0 \/ b.sinceFirst > Window) ->
            [b EXCEPT !.failures = 1, !.sinceFirst = 0]
      [] b.state = "closed" /\ ~(b.failures = 0 \/ b.sinceFirst > Window) ->
            IF b.failures + 1 >= Threshold
            THEN Opened([b EXCEPT !.failures = @ + 1])
            ELSE [b EXCEPT !.failures = @ + 1]
=============================================================================
