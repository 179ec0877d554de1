------------------------------ MODULE ProxyClient ------------------------------
(***************************************************************************)
(* Client of sdk/proxyclient/client.go: a breaker and an assignment shared *)
(* by the goroutines of a worker.  Callers take clients from HTTPClient    *)
(* and send requests through them whenever they like; the refresher, the   *)
(* Start call and the admin path fetch the assignment concurrently; Close  *)
(* stops the refresher.  A step ends at each access to shared state.       *)
(***************************************************************************)
EXTENDS Breaker, Sequences

CONSTANTS
    Caller,      \* goroutines that call HTTPClient(true)
    Closer,      \* goroutines that call Close
    Address,     \* proxy addresses
    Garbled,     \* those that url.Parse refuses
    None         \* no assignment, no answer

ASSUME ClientOK == Garbled \subseteq Address /\ None \notin Address

\* The goroutines that run refreshOnce.
Fetcher == {"start", "loop", "admin"}

VARIABLES
    br,         \* the breaker
    current,    \* the assignment, None before the first success
    caller,     \* where each caller is
    fetch,      \* fetch[p]: where refreshOnce is in p
    answer,     \* answer[p]: the assignment p was given and has not stored
    started,    \* c.started
    stop,       \* c.stop is closed
    done,       \* c.done is closed
    closer,     \* where each Close call is
    cancelled,  \* the context given to Start is done
    ticked,     \* the ticker has fired
    log,        \* history: ages of the failures since the last success
    probes      \* history: callers let through since the breaker last opened

fetchVars == <<current, fetch, answer>>
lifeVars == <<started, stop, done, closer, cancelled, ticked>>
history == <<log, probes>>
vars == <<br, current, caller, fetch, answer, started, stop, done,
          closer, cancelled, ticked, log, probes>>

ClientTypeOK ==
    /\ br \in BreakerType
    /\ current \in Address \cup {None}
    /\ caller \in [Caller -> {"idle", "allowed", "holding"}]
    /\ fetch \in [Fetcher -> {"idle", "waiting", "sent", "answered", "stored", "leaving",
                          "ended"}]
    /\ answer \in [Fetcher -> Address \cup {None}]
    /\ started \in BOOLEAN /\ stop \in BOOLEAN /\ done \in BOOLEAN
    /\ closer \in [Closer -> {"idle", "closing", "closed", "waiting", "returned", "panic"}]
    /\ cancelled \in BOOLEAN /\ ticked \in BOOLEAN
    /\ log \in Seq(0..(Window + 1))
    /\ probes \in Nat

-----------------------------------------------------------------------------
(* The breaker's methods, with the history of failures beside them. *)

\* The log keeps as many failures as decide whether the breaker may open.
Logged == SubSeq(<<0>> \o log, 1, IF Len(log) < Threshold THEN Len(log) + 1 ELSE Threshold)

Fail ==
    /\ br' = failure(br)
    /\ log' = Logged
    /\ probes' = IF br.state = "half-open" THEN 0 ELSE probes

Succeed == br' = success(br) /\ log' = <<>> /\ probes' = 0

Tick ==
    /\ br' = Aged(br)
    /\ log' = [i \in DOMAIN log |-> Older(log[i], Window + 1)]
    /\ UNCHANGED <<current, caller, fetch, answer, lifeVars, probes>>

-----------------------------------------------------------------------------
(* HTTPClient(true) and the requests sent through what it returned. *)

\* c.br.allow().  Refused callers get a direct client.
Allow(c) ==
    /\ caller[c] = "idle"
    /\ br' = allow(br)
    /\ caller' = [caller EXCEPT ![c] = IF allows(br) THEN "allowed" ELSE "idle"]
    /\ probes' = IF allows(br) /\ br.state # "closed" THEN probes + 1 ELSE probes
    /\ UNCHANGED <<current, fetch, answer, lifeVars, log>>

\* c.current.Load(): no assignment (a direct client, the breaker is not
\* told), an address that does not parse, or a client with the observer.
Build(c) ==
    /\ caller[c] = "allowed"
    /\ caller' = [caller EXCEPT ![c] =
                    IF current = None \/ current \in Garbled THEN "idle" ELSE "holding"]
    /\ IF current \in Garbled THEN Fail ELSE UNCHANGED <<br, history>>
    /\ UNCHANGED <<current, fetch, answer, lifeVars>>

\* A request through a proxied client ends: a transport error or a 5xx
\* branded by the proxy, or anything else.
RoundTrip(c) ==
    /\ caller[c] = "holding"
    /\ Fail \/ Succeed
    /\ UNCHANGED <<current, caller, fetch, answer, lifeVars>>

\* The caller lets go of its client.
Drop(c) ==
    /\ caller[c] = "holding"
    /\ caller' = [caller EXCEPT ![c] = "idle"]
    /\ UNCHANGED <<br, current, fetch, answer, lifeVars, history>>

-----------------------------------------------------------------------------
(* refreshOnce. *)

\* Where refreshOnce returns to: Start spawns the loop, the loop selects again.
After(p) ==
    CASE p = "start" -> [fetch EXCEPT ![p] = "ended", !["loop"] = "waiting"]
      [] p = "loop"  -> [fetch EXCEPT ![p] = "waiting"]
      [] p = "admin" -> [fetch EXCEPT ![p] = "idle"]

\* The controlplane answers with the address it assigns at this moment.
Answer(p) ==
    /\ fetch[p] = "sent"
    /\ fetch' = [fetch EXCEPT ![p] = "answered"]
    /\ \E a \in Address : answer' = [answer EXCEPT ![p] = a]
    /\ UNCHANGED <<br, current, caller, lifeVars, history>>

\* An error, a 503, an empty or malformed body, a timeout, a cancelled context.
FetchFailed(p) ==
    /\ fetch[p] \in {"sent", "answered"}
    /\ Fail
    /\ fetch' = After(p)
    /\ answer' = [answer EXCEPT ![p] = None]
    /\ UNCHANGED <<current, caller, lifeVars>>

\* c.current.Store(a)
StoreAssignment(p) ==
    /\ fetch[p] = "answered"
    /\ current' = answer[p]
    /\ fetch' = [fetch EXCEPT ![p] = "stored"]
    /\ answer' = [answer EXCEPT ![p] = None]
    /\ UNCHANGED <<br, caller, lifeVars, history>>

\* c.br.success()
FetchSucceeded(p) ==
    /\ fetch[p] = "stored"
    /\ Succeed
    /\ fetch' = After(p)
    /\ UNCHANGED <<current, caller, answer, lifeVars>>

refreshOnce(p) == Answer(p) \/ FetchFailed(p) \/ StoreAssignment(p) \/ FetchSucceeded(p)

\* The admin "force reroll" path.
Refresh ==
    /\ fetch["admin"] = "idle"
    /\ fetch' = [fetch EXCEPT !["admin"] = "sent"]
    /\ UNCHANGED <<br, current, caller, answer, lifeVars, history>>

-----------------------------------------------------------------------------
(* Start, refreshLoop, Close. *)

\* With a controlplane and a worker id, Start fetches before it spawns the
\* loop; without, it goes on to close done (and a Refresh may still be answered,
\* for it does not look at the worker id).  Later calls lose the
\* CompareAndSwap.
Start(configured) ==
    /\ ~started
    /\ started' = TRUE
    /\ fetch' = [fetch EXCEPT !["start"] = IF configured THEN "sent" ELSE "leaving"]
    /\ UNCHANGED <<br, current, caller, answer, stop, done, closer, cancelled, ticked, history>>

\* mutant: without a controlplane Start returns without closing done
StartLeaves_keeps_done ==
    /\ fetch["start"] = "leaving"
    /\ fetch' = [fetch EXCEPT !["start"] = "ended"]
    /\ UNCHANGED <<br, current, caller, answer, lifeVars, history>>

\* close(c.done) of a Start without a controlplane.
StartLeaves ==
    /\ fetch["start"] = "leaving"
    /\ fetch' = [fetch EXCEPT !["start"] = "ended"]
    /\ done' = TRUE
    /\ UNCHANGED <<br, current, caller, answer, started, stop, closer, cancelled, ticked, history>>

LoopTick ==
    /\ fetch["loop"] = "waiting"
    /\ ticked
    /\ ticked' = FALSE
    /\ fetch' = [fetch EXCEPT !["loop"] = "sent"]
    /\ UNCHANGED <<br, current, caller, answer, started, stop, done, closer, cancelled, history>>

\* refreshLoop returns; the deferred close(c.done) runs.
LoopExit ==
    /\ fetch["loop"] = "waiting"
    /\ stop \/ cancelled
    /\ fetch' = [fetch EXCEPT !["loop"] = "ended"]
    /\ done' = TRUE
    /\ UNCHANGED <<br, current, caller, answer, started, stop, closer, cancelled, ticked, history>>

\* The select of Close: stop is closed already, or it is still open.
CloseSelect(k) ==
    /\ closer[k] = "idle"
    /\ closer' = [closer EXCEPT ![k] = IF stop THEN "returned" ELSE "closing"]
    /\ UNCHANGED <<br, fetchVars, caller, started, stop, done, cancelled, ticked, history>>

\* close(c.stop) panics when another goroutine closed it after the select.
CloseStop(k) ==
    /\ closer[k] = "closing"
    /\ stop' = TRUE
    /\ closer' = [closer EXCEPT ![k] = IF stop THEN "panic" ELSE "closed"]
    /\ UNCHANGED <<br, fetchVars, caller, started, done, cancelled, ticked, history>>

\* mutant: Close waits for the loop of a client that was never started
CloseStarted_always_waits(k) ==
    /\ closer[k] = "closed"
    /\ closer' = [closer EXCEPT ![k] = "waiting"]
    /\ UNCHANGED <<br, fetchVars, caller, started, stop, done, cancelled, ticked, history>>

\* mutant: Close returns without waiting for the loop
CloseStarted_no_wait(k) ==
    /\ closer[k] = "closed"
    /\ closer' = [closer EXCEPT ![k] = "returned"]
    /\ UNCHANGED <<br, fetchVars, caller, started, stop, done, cancelled, ticked, history>>

\* c.started.Load()
CloseStarted(k) ==
    /\ closer[k] = "closed"
    /\ closer' = [closer EXCEPT ![k] = IF started THEN "waiting" ELSE "returned"]
    /\ UNCHANGED <<br, fetchVars, caller, started, stop, done, cancelled, ticked, history>>

\* <-c.done
CloseDone(k) ==
    /\ closer[k] = "waiting"
    /\ done
    /\ closer' = [closer EXCEPT ![k] = "returned"]
    /\ UNCHANGED <<br, fetchVars, caller, started, stop, done, cancelled, ticked, history>>

Close(k) == CloseSelect(k) \/ CloseStop(k) \/ CloseStarted(k) \/ CloseDone(k)

-----------------------------------------------------------------------------
(* The environment. *)

TickerFires ==
    /\ ~ticked /\ ticked' = TRUE
    /\ UNCHANGED <<br, fetchVars, caller, started, stop, done, closer, cancelled, history>>

Cancel ==
    /\ ~cancelled /\ cancelled' = TRUE
    /\ UNCHANGED <<br, fetchVars, caller, started, stop, done, closer, ticked, history>>

Init ==
    /\ br = newBreaker
    /\ current = None
    /\ caller = [c \in Caller |-> "idle"]
    /\ fetch = [p \in Fetcher |-> "idle"]
    /\ answer = [p \in Fetcher |-> None]
    /\ started = FALSE /\ stop = FALSE /\ done = FALSE
    /\ closer = [k \in Closer |-> "idle"]
    /\ cancelled = FALSE /\ ticked = FALSE
    /\ log = <<>> /\ probes = 0

Next ==
    \/ \E c \in Caller : Allow(c) \/ Build(c) \/ RoundTrip(c) \/ Drop(c)
    \/ \E p \in Fetcher : refreshOnce(p)
    \/ Refresh
    \/ \E configured \in BOOLEAN : Start(configured)
    \/ StartLeaves \/ LoopTick \/ LoopExit
    \/ \E k \in Closer : Close(k)
    \/ TickerFires \/ Tick \/ Cancel

\* A fetch ends by HTTPTimeout, the ticker keeps firing, the scheduler runs
\* every goroutine that can run, and select chooses at random between ready
\* cases, so an exit that stays possible is taken.  Nothing is assumed of
\* callers, the admin, the controlplane or the clock.
Fairness ==
    /\ \A p \in Fetcher : WF_vars(refreshOnce(p))
    /\ WF_vars(StartLeaves)
    /\ WF_vars(TickerFires) /\ WF_vars(LoopTick) /\ SF_vars(LoopExit)
    /\ \A k \in Closer : WF_vars(closer[k] # "idle" /\ Close(k))

Spec == Init /\ [][Next]_vars /\ Fairness

-----------------------------------------------------------------------------
(* Correctness. *)

\* The breaker never opens without cause: when a closed breaker opens, the
\* last Threshold outcomes were failures, none older than Window, whatever
\* goroutines they came from (failure and success count for all clients).
OpensForCause ==
    [][br.state = "closed" /\ br'.state = "open" =>
          /\ Len(log') = Threshold
          /\ log'[Threshold] <= Window]_vars

\* One probe per cooldown: of all the callers that ask while the breaker is
\* open or half-open, however their calls interleave with late failures and
\* with refreshes, one at most is let through to the proxy until the breaker
\* closes or opens again (allow, "half-open allows nothing more").
OneProbe == probes <= 1

\* A probe that is never sent, or whose client is dropped, does not leave the
\* breaker half-open for ever: the next refresh closes or reopens it.
HalfOpenResolves ==
    br.state = "half-open" ~> (br.state # "half-open" \/ fetch["loop"] \in {"idle", "ended"})

\* Close of a started client returns only after the refresher goroutine has
\* ended: nothing the loop does can follow it.
CloseEndsLoop ==
    [][\A k \in Closer : closer[k] # "returned" /\ closer'[k] = "returned" =>
          (started /\ closer[k] # "idle" => done /\ fetch["loop"] \in {"idle", "ended"})]_vars

\* Close never hangs, whether it runs before, during or after Start, while a
\* fetch is in flight, or beside another Close.
CloseReturns ==
    \A k \in Closer : closer[k] # "idle" ~> closer[k] \in {"returned", "panic"}

\* Whoever waits in Close waits for somebody: done is closed already, or Start
\* is about to close it, or the loop is at work, or the fetch of a Start that
\* will spawn it is, and stop is closed for the loop to see.  No order of Start, Close and fetches leaves a
\* Close behind with nobody to wake it.
CloseIsAwaited ==
    LET InFlight == {"sent", "answered", "stored"} IN
    \A k \in Closer : closer[k] = "waiting" =>
        /\ stop
        /\ \/ done
           \/ fetch["start"] \in InFlight \cup {"leaving"}
           \/ fetch["loop"] \in InFlight \cup {"waiting"}

\* "Idempotent" and "safe for concurrent use": no Close call panics.
NoPanic == \A k \in Closer : closer[k] # "panic"

\* "Opens the breaker when threshold is hit inside the rolling window": with
\* Threshold failures since the last success, none older than Window, the
\* breaker is not closed.
ThresholdOpens ==
    Len(log) = Threshold /\ log[Threshold] <= Window => br.state # "closed"
=============================================================================
