-------------------------- MODULE ProxyClientProofs --------------------------
(***************************************************************************)
(* Proofs about ProxyClient for any number of callers and Close calls, any *)
(* addresses, threshold, window and cooldown.  A step of the client is, on *)
(* the breaker and its history, one of five (BreakerStep), whichever       *)
(* goroutine takes it; the rest is about the life of the refresher.        *)
(***************************************************************************)
EXTENDS ProxyClient, SequenceTheorems, TLAPS

Age == 0..(Window + 1)

BreakerTypes == br \in BreakerType /\ log \in Seq(Age) /\ probes \in Nat

\* A closed breaker has not reached the threshold; its count is of failures
\* that are all in the log, and the oldest of them is firstFail.
CountIsLogged ==
    br.state = "closed" =>
        /\ br.failures < Threshold \/ br.failures <= 1
        /\ br.failures <= Len(log)
        /\ br.failures > 0 => log[br.failures] = br.sinceFirst

\* The probe that is out is the one caller let through.
ProbeIsOut == probes = IF br.state = "half-open" THEN 1 ELSE 0

BreakerInv == BreakerTypes /\ CountIsLogged /\ ProbeIsOut

\* What any goroutine does to the breaker.
Ticks == /\ br' = Aged(br)
         /\ log' = [i \in DOMAIN log |-> Older(log[i], Window + 1)]
         /\ probes' = probes

Asks == /\ br' = allow(br)
        /\ probes' = IF allows(br) /\ br.state # "closed" THEN probes + 1 ELSE probes
        /\ log' = log

BreakerStep == Fail \/ Succeed \/ Ticks \/ Asks \/ UNCHANGED <<br, log, probes>>

-----------------------------------------------------------------------------
(* The breaker. *)

\* The log after a failure.
LEMMA LoggedSeq ==
    ASSUME log \in Seq(Age)
    PROVE  /\ Logged \in Seq(Age)
           /\ Len(Logged) = IF Len(log) < Threshold THEN Len(log) + 1 ELSE Threshold
           /\ Logged[1] = 0
           /\ \A i \in 1..Len(log) : i + 1 <= Len(Logged) => Logged[i + 1] = log[i]
<1> DEFINE long == <<0>> \o log
           n == IF Len(log) < Threshold THEN Len(log) + 1 ELSE Threshold
<1>1. 0 \in Age
  BY BreakerOK DEF Age
<1>2. <<0>> \in Seq(Age) /\ Len(<<0>>) = 1
  BY <1>1
<1>3. /\ long \in Seq(Age) /\ Len(long) = Len(log) + 1
      /\ long[1] = 0
      /\ \A i \in 1..Len(log) : long[i + 1] = log[i]
  BY <1>2, ConcatProperties
<1>4. Len(log) \in Nat
  BY LenProperties
<1>5. n \in 1..Len(long)
  BY <1>3, <1>4, BreakerOK
<1> HIDE DEF long, n
<1>6. /\ SubSeq(long, 1, n) \in Seq(Age)
      /\ Len(SubSeq(long, 1, n)) = n
      /\ \A i \in 1..n : SubSeq(long, 1, n)[i] = long[i]
  BY <1>3, <1>5, SubSeqProperties
<1>7. Logged = SubSeq(long, 1, n)
  BY DEF Logged, long, n
<1> QED
  BY <1>3, <1>4, <1>5, <1>6, <1>7 DEF n

\* An age that stops growing.
LEMMA OlderAge ==
    /\ \A a \in Age : Older(a, Window + 1) \in Age
    /\ \A a \in 0..Cooldown : Older(a, Cooldown) \in 0..Cooldown
BY BreakerOK DEF Older, Age

\* A breaker put together from its fields.
LEMMA BreakerRecord ==
    ASSUME NEW s \in BreakerState, NEW n \in 0..(Threshold + 1),
           NEW f \in Age, NEW o \in 0..Cooldown
    PROVE  [state |-> s, failures |-> n, sinceFirst |-> f, sinceOpen |-> o] \in BreakerType
BY DEF BreakerType, Age

\* failure() in a breaker whose count is logged.
LEMMA FailInv ==
    ASSUME BreakerInv, Fail
    PROVE  /\ BreakerInv'
           /\ br.state = "closed" /\ br'.state = "open" =>
                 Len(log') = Threshold /\ log'[Threshold] <= Window
<1> USE BreakerOK
<1>1. /\ br.state \in BreakerState
      /\ br.failures \in 0..(Threshold + 1)
      /\ br.sinceFirst \in Age /\ br.sinceOpen \in 0..Cooldown
      /\ br \in BreakerType
  BY DEF BreakerInv, BreakerTypes, BreakerType, Age
<1>2. /\ log' \in Seq(Age)
      /\ Len(log') = IF Len(log) < Threshold THEN Len(log) + 1 ELSE Threshold
      /\ log'[1] = 0
      /\ \A i \in 1..Len(log) : i + 1 <= Len(log') => log'[i + 1] = log[i]
      /\ Len(log) \in Nat
  BY LoggedSeq, LenProperties DEF Fail, BreakerInv, BreakerTypes
<1>3. CASE br.state = "half-open"
  <2>1. /\ br' = [state |-> "open", failures |-> br.failures,
                  sinceFirst |-> br.sinceFirst, sinceOpen |-> 0]
        /\ probes' = 0
    BY <1>1, <1>3 DEF Fail, failure, Opened, BreakerType
  <2> QED
    <3>1. br' \in BreakerType /\ br'.state = "open"
      BY <1>1, <2>1, BreakerRecord DEF BreakerState
    <3> QED
      BY <1>2, <1>3, <2>1, <3>1
         DEF BreakerInv, BreakerTypes, CountIsLogged, ProbeIsOut
<1>4. CASE br.state = "open"
  <2>1. br' = br /\ probes' = probes
    BY <1>4 DEF Fail, failure
  <2> QED
    BY <1>2, <1>4, <2>1 DEF BreakerInv, BreakerTypes, CountIsLogged, ProbeIsOut
<1>5. CASE br.state = "closed" /\ (br.failures = 0 \/ br.sinceFirst > Window)
  <2>1. /\ br' = [state |-> br.state, failures |-> 1,
                  sinceFirst |-> 0, sinceOpen |-> br.sinceOpen]
        /\ probes' = probes
    BY <1>1, <1>5 DEF Fail, failure, BreakerType
  <2>2. br' \in BreakerType
    <3>1. 1 \in 0..(Threshold + 1) /\ 0 \in Age
      BY DEF Age
    <3> QED
      BY <1>1, <2>1, <3>1, BreakerRecord
  <2>3. br'.state = "closed" /\ br'.failures = 1 /\ br'.sinceFirst = 0
    BY <1>1, <1>5, <2>1
  <2>4. Len(log') >= 1
    BY <1>2
  <2> QED
    BY <1>2, <1>5, <2>1, <2>2, <2>3, <2>4
       DEF BreakerInv, BreakerTypes, CountIsLogged, ProbeIsOut
<1>6. CASE br.state = "closed" /\ ~(br.failures = 0 \/ br.sinceFirst > Window)
  <2> DEFINE n == br.failures
  <2>1. /\ n \in 1..Len(log) /\ (n < Threshold \/ n = 1)
        /\ log[n] = br.sinceFirst /\ br.sinceFirst <= Window
        /\ probes = 0
    BY <1>1, <1>2, <1>6 DEF BreakerInv, CountIsLogged, ProbeIsOut, Age
  <2>2. n + 1 \in 0..(Threshold + 1)
    BY <2>1
  <2>3. probes' = 0
    BY <1>6, <2>1 DEF Fail
  <2>4. CASE n + 1 >= Threshold
    <3>1. br' = [state |-> "open", failures |-> n + 1,
                 sinceFirst |-> br.sinceFirst, sinceOpen |-> 0]
      BY <1>1, <1>6, <2>4 DEF Fail, failure, Opened, BreakerType
    <3>2. br' \in BreakerType /\ br'.state = "open"
      BY <1>1, <2>2, <3>1, BreakerRecord DEF BreakerState
    <3>3. Len(log') = Threshold
      BY <1>2, <2>1, <2>4
    <3>4. log'[Threshold] <= Window
      <4>1. CASE Threshold = 1
        BY <4>1, <1>2
      <4>2. CASE Threshold # 1
        <5>1. n + 1 = Threshold
          BY <2>1, <2>4, <4>2
        <5> QED
          BY <5>1, <1>2, <2>1, <3>3
      <4> QED
        BY <4>1, <4>2
    <3> QED
      BY <1>2, <2>3, <3>2, <3>3, <3>4
         DEF BreakerInv, BreakerTypes, CountIsLogged, ProbeIsOut
  <2>5. CASE n + 1 < Threshold
    <3>1. br' = [br EXCEPT !.failures = n + 1]
      BY <1>1, <1>6, <2>5 DEF Fail, failure
    <3>2. /\ br' \in BreakerType /\ br'.state = "closed"
          /\ br'.failures = n + 1 /\ br'.sinceFirst = br.sinceFirst
      BY <1>1, <1>6, <2>2, <3>1 DEF BreakerType
    <3>3. n + 1 <= Len(log')
      BY <1>2, <2>1, <2>5
    <3>4. log'[n + 1] = br.sinceFirst
      BY <1>2, <2>1, <3>3
    <3> QED
      BY <1>2, <2>1, <2>3, <2>5, <3>2, <3>3, <3>4
         DEF BreakerInv, BreakerTypes, CountIsLogged, ProbeIsOut
  <2> QED
    BY <2>1, <2>4, <2>5
<1> QED
  BY <1>1, <1>3, <1>4, <1>5, <1>6 DEF BreakerState

\* success() empties the count and the log.
LEMMA SucceedInv ==
    ASSUME BreakerInv, Succeed
    PROVE  BreakerInv' /\ br'.state = "closed"
<1>1. br' = [state |-> "closed", failures |-> 0, sinceFirst |-> 0,
             sinceOpen |-> br.sinceOpen]
  BY DEF Succeed, success, BreakerInv, BreakerTypes, BreakerType
<1>2. br.sinceOpen \in 0..Cooldown /\ 0 \in Age /\ 0 \in 0..(Threshold + 1)
  BY BreakerOK DEF BreakerInv, BreakerTypes, BreakerType, Age
<1>3. br' \in BreakerType
  BY <1>1, <1>2, BreakerRecord DEF BreakerState
<1>4. log' = << >> /\ probes' = 0
  BY DEF Succeed
<1> QED
  BY <1>1, <1>3, <1>4 DEF BreakerInv, BreakerTypes, CountIsLogged, ProbeIsOut

\* The clock ages firstFail and the log alike.
LEMMA TicksInv ==
    ASSUME BreakerInv, Ticks
    PROVE  BreakerInv' /\ br'.state = br.state
<1>1. br' = [state |-> br.state, failures |-> br.failures,
             sinceFirst |-> Older(br.sinceFirst, Window + 1),
             sinceOpen |-> Older(br.sinceOpen, Cooldown)]
  BY DEF Ticks, Aged, BreakerInv, BreakerTypes, BreakerType
<1>2. /\ br.state \in BreakerState
      /\ br.failures \in 0..(Threshold + 1)
      /\ br.sinceFirst \in Age /\ br.sinceOpen \in 0..Cooldown
  BY DEF BreakerInv, BreakerTypes, BreakerType, Age
<1>3. br' \in BreakerType
  BY <1>1, <1>2, OlderAge, BreakerRecord
<1>4. Len(log) \in Nat /\ DOMAIN log = 1..Len(log) /\ log \in [1..Len(log) -> Age]
  BY LenProperties DEF BreakerInv, BreakerTypes
<1>5. log' \in [1..Len(log) -> Age]
  BY <1>4, OlderAge DEF Ticks
<1>6. log' \in Seq(Age) /\ Len(log') = Len(log)
  BY <1>4, <1>5
<1>7. CountIsLogged'
  <2> SUFFICES ASSUME br.state = "closed"
               PROVE  CountIsLogged'
    BY <1>1 DEF CountIsLogged
  <2>1. br.failures > 0 => log'[br.failures] = Older(br.sinceFirst, Window + 1)
    BY <1>2, <1>4 DEF BreakerInv, CountIsLogged, Ticks
  <2> QED
    BY <1>1, <1>2, <1>6, <2>1 DEF BreakerInv, CountIsLogged
<1> QED
  BY <1>1, <1>3, <1>6, <1>7 DEF BreakerInv, BreakerTypes, ProbeIsOut, Ticks

\* allow() lets the probe out, and nobody after it.
LEMMA AsksInv ==
    ASSUME BreakerInv, Asks
    PROVE  BreakerInv' /\ br'.state \in {br.state, "half-open"}
<1>1. CASE CooledDown(br)
  <2>1. br' = [state |-> "half-open", failures |-> br.failures,
               sinceFirst |-> br.sinceFirst, sinceOpen |-> br.sinceOpen]
    BY <1>1 DEF Asks, allow, BreakerInv, BreakerTypes, BreakerType
  <2>2. br' \in BreakerType
    BY <2>1, BreakerRecord
       DEF BreakerInv, BreakerTypes, BreakerType, BreakerState, Age
  <2>3. br.state = "open" /\ probes = 0
    BY <1>1 DEF CooledDown, BreakerInv, ProbeIsOut
  <2>4. probes' = 1 /\ log' = log
    BY <1>1, <2>3 DEF Asks, allows
  <2> QED
    BY <2>1, <2>2, <2>4 DEF BreakerInv, BreakerTypes, CountIsLogged, ProbeIsOut
<1>2. CASE ~CooledDown(br)
  BY <1>2 DEF Asks, allow, allows, BreakerInv, BreakerTypes, CountIsLogged, ProbeIsOut
<1> QED
  BY <1>1, <1>2

\* Every step, whoever takes it, keeps the invariant and opens for cause.
LEMMA BreakerStepInv ==
    ASSUME BreakerInv, BreakerStep
    PROVE  /\ BreakerInv'
           /\ br.state = "closed" /\ br'.state = "open" =>
                 Len(log') = Threshold /\ log'[Threshold] <= Window
<1>1. CASE Fail
  BY <1>1, FailInv
<1>2. CASE Succeed
  BY <1>2, SucceedInv
<1>3. CASE Ticks
  BY <1>3, TicksInv
<1>4. CASE Asks
  BY <1>4, AsksInv
<1>5. CASE UNCHANGED <<br, log, probes>>
  BY <1>5 DEF BreakerInv, BreakerTypes, CountIsLogged, ProbeIsOut
<1> QED
  BY <1>1, <1>2, <1>3, <1>4, <1>5 DEF BreakerStep

\* Every goroutine goes through the breaker's methods.
LEMMA NextIsBreakerStep == [Next]_vars => BreakerStep
<1> SUFFICES ASSUME [Next]_vars PROVE BreakerStep
  OBVIOUS
<1> USE DEF BreakerStep, history, lifeVars
<1>1. CASE \E c \in Caller : Allow(c) \/ Build(c) \/ RoundTrip(c) \/ Drop(c)
  BY <1>1 DEF Allow, Build, RoundTrip, Drop, Asks
<1>2. CASE \E p \in Fetcher : refreshOnce(p)
  BY <1>2 DEF refreshOnce, Answer, FetchFailed, StoreAssignment, FetchSucceeded
<1>3. CASE Refresh \/ StartLeaves \/ LoopTick \/ LoopExit \/ TickerFires \/ Cancel
  BY <1>3 DEF Refresh, StartLeaves, LoopTick, LoopExit, TickerFires, Cancel
<1>4. CASE \E configured \in BOOLEAN : Start(configured)
  BY <1>4 DEF Start
<1>5. CASE \E k \in Closer : Close(k)
  BY <1>5 DEF Close, CloseSelect, CloseStop, CloseStarted, CloseDone
<1>6. CASE Tick
  BY <1>6 DEF Tick, Ticks
<1>7. CASE UNCHANGED vars
  BY <1>7 DEF vars
<1> QED
  BY <1>1, <1>2, <1>3, <1>4, <1>5, <1>6, <1>7 DEF Next

-----------------------------------------------------------------------------
(* The life of the refresher. *)

FetchPlace == {"idle", "waiting", "sent", "answered", "stored", "leaving", "ended"}

LifeTypes ==
    /\ current \in Address \cup {None}
    /\ caller \in [Caller -> {"idle", "allowed", "holding"}]
    /\ fetch \in [Fetcher -> FetchPlace]
    /\ answer \in [Fetcher -> Address \cup {None}]
    /\ started \in BOOLEAN /\ stop \in BOOLEAN /\ done \in BOOLEAN
    /\ closer \in [Closer -> {"idle", "closing", "closed", "waiting", "returned", "panic"}]
    /\ cancelled \in BOOLEAN /\ ticked \in BOOLEAN

\* The loop runs only after Start's own fetch, and done says both are over.
LoopLife ==
    /\ ~started => fetch["start"] = "idle" /\ fetch["loop"] = "idle" /\ ~done
    /\ fetch["loop"] # "idle" => fetch["start"] = "ended"
    /\ done => fetch["start"] \in {"idle", "ended"} /\ fetch["loop"] \in {"idle", "ended"}
    /\ started => \/ done
                  \/ fetch["start"] \in {"sent", "answered", "stored", "leaving"}
                  \/ fetch["loop"] \in {"waiting", "sent", "answered", "stored"}

\* Close reads started after it closed stop, and neither is ever undone.
CloseLives ==
    \A k \in Closer : /\ closer[k] \in {"closed", "waiting"} => stop
                      /\ closer[k] = "waiting" => started

LifeInv == LifeTypes /\ LoopLife /\ CloseLives

\* Callers leave the refresher alone.
LEMMA CallerLife ==
    ASSUME LifeInv, NEW c \in Caller, Allow(c) \/ Build(c) \/ RoundTrip(c) \/ Drop(c)
    PROVE  LifeInv'
BY DEF LifeInv, LifeTypes, LoopLife, CloseLives, Allow, Build, RoundTrip, Drop, lifeVars

\* A fetch ends in the goroutine it began in, or hands over to the loop.
LEMMA FetchLife ==
    ASSUME LifeInv, NEW p \in Fetcher, refreshOnce(p)
    PROVE  LifeInv'
<1> USE DEF LifeInv, CloseLives
<1>1. fetch[p] \in {"sent", "answered", "stored"}
  BY DEF refreshOnce, Answer, FetchFailed, StoreAssignment, FetchSucceeded
<1>2. p \in {"start", "loop"} => ~done /\ started
  BY <1>1 DEF LoopLife, LifeTypes, Fetcher
<1>3. UNCHANGED lifeVars /\ UNCHANGED caller
  BY DEF refreshOnce, Answer, FetchFailed, StoreAssignment, FetchSucceeded
<1>4. CASE fetch' = After(p)
  <2>1. CASE p = "start"
    <3>1. fetch' = [fetch EXCEPT !["start"] = "ended", !["loop"] = "waiting"]
      BY <1>4, <2>1 DEF After
    <3>2. LoopLife'
      BY <1>2, <1>3, <2>1, <3>1 DEF LoopLife, LifeTypes, Fetcher, lifeVars
    <3>3. fetch' \in [Fetcher -> FetchPlace]
      BY <3>1 DEF LifeTypes, Fetcher, FetchPlace
    <3> QED
      BY <1>3, <3>2, <3>3
         DEF LifeTypes, lifeVars, refreshOnce, Answer, FetchFailed, StoreAssignment, FetchSucceeded
  <2>2. CASE p \in {"loop", "admin"}
    <3>1. fetch' \in {[fetch EXCEPT ![p] = "waiting"], [fetch EXCEPT ![p] = "idle"]}
          /\ (p = "loop" => fetch' = [fetch EXCEPT ![p] = "waiting"])
      BY <1>4, <2>2 DEF After
    <3>2. LoopLife'
      BY <1>1, <1>2, <1>3, <2>2, <3>1 DEF LoopLife, LifeTypes, Fetcher, lifeVars
    <3>3. fetch' \in [Fetcher -> FetchPlace]
      BY <3>1 DEF LifeTypes, Fetcher, FetchPlace
    <3> QED
      BY <1>3, <3>2, <3>3
         DEF LifeTypes, lifeVars, refreshOnce, Answer, FetchFailed, StoreAssignment, FetchSucceeded
  <2> QED
    BY <2>1, <2>2 DEF Fetcher
<1>5. CASE \E v \in {"answered", "stored"} : fetch' = [fetch EXCEPT ![p] = v]
  <2>1. LoopLife'
    BY <1>1, <1>2, <1>3, <1>5 DEF LoopLife, LifeTypes, Fetcher, lifeVars
  <2> QED
    BY <1>3, <1>5, <2>1
       DEF LifeTypes, FetchPlace, lifeVars, refreshOnce, Answer, FetchFailed, StoreAssignment, FetchSucceeded
<1> QED
  BY <1>4, <1>5 DEF refreshOnce, Answer, FetchFailed, StoreAssignment, FetchSucceeded

\* Start, the loop, the ticker and the admin.
LEMMA LoopLifeStep ==
    ASSUME LifeInv,
           \/ Refresh \/ StartLeaves \/ LoopTick \/ LoopExit \/ TickerFires \/ Cancel \/ Tick
           \/ \E configured \in BOOLEAN : Start(configured)
    PROVE  LifeInv'
<1> USE DEF LifeInv, LifeTypes, FetchPlace, LoopLife, CloseLives, Fetcher, lifeVars, fetchVars
<1>1. CASE Refresh
  BY <1>1 DEF Refresh
<1>2. CASE LoopTick
  BY <1>2 DEF LoopTick
<1>3. CASE LoopExit
  BY <1>3 DEF LoopExit
<1>4. CASE TickerFires \/ Cancel \/ Tick
  <2>1. UNCHANGED <<current, caller, fetch, answer, started, stop, done, closer>>
    BY <1>4 DEF TickerFires, Cancel, Tick
  <2>2. cancelled' \in BOOLEAN /\ ticked' \in BOOLEAN
    <3>1. CASE TickerFires
      BY <3>1 DEF TickerFires
    <3>2. CASE Cancel
      BY <3>2 DEF Cancel
    <3>3. CASE Tick
      BY <3>3 DEF Tick
    <3> QED
      BY <1>4, <3>1, <3>2, <3>3
  <2> QED
    BY <2>1, <2>2
<1>5. CASE \E configured \in BOOLEAN : Start(configured)
  <2>1. PICK configured \in BOOLEAN : Start(configured)
    BY <1>5
  <2>2. CASE configured
    BY <2>1, <2>2 DEF Start
  <2>3. CASE ~configured
    BY <2>1, <2>3 DEF Start
  <2> QED
    BY <2>2, <2>3
<1>6. CASE StartLeaves
  <2>1. /\ UNCHANGED <<current, caller, answer, started, stop, closer, cancelled, ticked>>
        /\ fetch["start"] = "leaving" /\ fetch' = [fetch EXCEPT !["start"] = "ended"]
        /\ done'
    BY <1>6 DEF StartLeaves
  <2>2. started /\ fetch["loop"] = "idle"
    BY <2>1
  <2>3. LoopLife'
    BY <2>1, <2>2
  <2> QED
    BY <1>6, <2>1, <2>3 DEF StartLeaves
<1> QED
  BY <1>1, <1>2, <1>3, <1>4, <1>5, <1>6

\* Close changes nothing but stop and its own place.
LEMMA CloseLife ==
    ASSUME LifeInv, NEW k \in Closer, Close(k)
    PROVE  LifeInv'
<1>1. /\ UNCHANGED <<current, caller, fetch, answer, started, done, cancelled, ticked>>
      /\ stop' \in {stop, TRUE}
      /\ \E v \in {"closing", "closed", "waiting", "returned", "panic"} :
            closer' = [closer EXCEPT ![k] = v]
  BY DEF fetchVars, Close, CloseSelect, CloseStop, CloseStarted, CloseDone
<1>2. stop' \in BOOLEAN
  BY <1>1 DEF LifeInv, LifeTypes
<1>3. closer' \in [Closer -> {"idle", "closing", "closed", "waiting", "returned", "panic"}]
  BY <1>1 DEF LifeInv, LifeTypes
<1>4. CloseLives'
  BY DEF LifeInv, LifeTypes, CloseLives, Close, CloseSelect, CloseStop, CloseStarted, CloseDone
<1> QED
  BY <1>1, <1>2, <1>3, <1>4 DEF LifeInv, LifeTypes, LoopLife

-----------------------------------------------------------------------------

Inv == BreakerInv /\ LifeInv

\* A client that New returned.
LEMMA InitInv == Init => Inv
<1> SUFFICES ASSUME Init PROVE Inv
  OBVIOUS
<1>1. br \in BreakerType
  BY BreakerOK, BreakerRecord DEF Init, newBreaker, BreakerState, Age
<1>2. BreakerInv
  BY <1>1 DEF Init, newBreaker, BreakerInv, BreakerTypes, CountIsLogged, ProbeIsOut
<1>3. LifeInv
  BY DEF Init, LifeInv, LifeTypes, FetchPlace, LoopLife, CloseLives, Fetcher
<1> QED
  BY <1>2, <1>3 DEF Inv

\* Every step keeps both halves of the invariant.
LEMMA StepInv == Inv /\ [Next]_vars => Inv'
<1> SUFFICES ASSUME Inv, [Next]_vars PROVE Inv'
  OBVIOUS
<1>1. BreakerInv'
  BY NextIsBreakerStep, BreakerStepInv DEF Inv
<1>2. LifeInv'
  <2>1. CASE \E c \in Caller : Allow(c) \/ Build(c) \/ RoundTrip(c) \/ Drop(c)
    BY <2>1, CallerLife DEF Inv
  <2>2. CASE \E p \in Fetcher : refreshOnce(p)
    BY <2>2, FetchLife DEF Inv
  <2>3. CASE \/ Refresh \/ StartLeaves \/ LoopTick \/ LoopExit \/ TickerFires \/ Cancel \/ Tick
             \/ \E configured \in BOOLEAN : Start(configured)
    BY <2>3, LoopLifeStep DEF Inv
  <2>4. CASE \E k \in Closer : Close(k)
    BY <2>4, CloseLife DEF Inv
  <2>5. CASE UNCHANGED vars
    BY <2>5 DEF Inv, LifeInv, LifeTypes, LoopLife, CloseLives, vars
  <2> QED
    BY <2>1, <2>2, <2>3, <2>4, <2>5 DEF Next
<1> QED
  BY <1>1, <1>2 DEF Inv

\* The invariant holds in every reachable state.
LEMMA AlwaysInv == Spec => []Inv
BY InitInv, StepInv, PTL DEF Spec

\* The client of HTTPClient, refreshOnce and Close stays well typed; the
\* breaker's counter stays within one of its threshold.
THEOREM ClientTypeCorrect == Spec => []ClientTypeOK
<1>1. Inv => ClientTypeOK
  BY DEF Inv, BreakerInv, BreakerTypes, LifeInv, LifeTypes, FetchPlace, ClientTypeOK, Age
<1> QED
  BY <1>1, AlwaysInv, PTL

\* allow() lets out one probe per cooldown, whatever calls interleave.
THEOREM ProbesAreSingle == Spec => []OneProbe
<1>1. Inv => OneProbe
  BY DEF Inv, BreakerInv, ProbeIsOut, OneProbe
<1> QED
  BY <1>1, AlwaysInv, PTL

\* failure() opens a closed breaker only when the last Threshold outcomes
\* failed within the window.
THEOREM OpensOnlyForCause == Spec => OpensForCause
<1>1. Inv /\ [Next]_vars =>
        [br.state = "closed" /\ br'.state = "open" =>
            Len(log') = Threshold /\ log'[Threshold] <= Window]_vars
  BY NextIsBreakerStep, BreakerStepInv DEF Inv
<1> QED
  BY <1>1, AlwaysInv, PTL DEF Spec, OpensForCause

\* A Close that waits for done has a goroutine that will close it, in every
\* order of New, Start, Close and the fetches.
THEOREM CloseHasWaker == Spec => []CloseIsAwaited
<1>1. Inv => CloseIsAwaited
  BY DEF Inv, LifeInv, LoopLife, CloseLives, CloseIsAwaited
<1> QED
  BY <1>1, AlwaysInv, PTL

\* A Close that waited returns after refreshLoop returned.
THEOREM CloseIsLast == Spec => CloseEndsLoop
<1>1. Inv /\ [Next]_vars =>
        [\A k \in Closer : closer[k] # "returned" /\ closer'[k] = "returned" =>
            (started /\ closer[k] # "idle" => done /\ fetch["loop"] \in {"idle", "ended"})]_vars
  <2> SUFFICES ASSUME Inv, Next, NEW k \in Closer,
                      closer[k] # "returned", closer'[k] = "returned",
                      started, closer[k] # "idle"
               PROVE  done /\ fetch["loop"] \in {"idle", "ended"}
    OBVIOUS
  <2>1. closer \in [Closer -> {"idle", "closing", "closed", "waiting", "returned", "panic"}]
    BY DEF Inv, LifeInv, LifeTypes
  <2>2. closer' # closer
    OBVIOUS
  <2>3. PICK j \in Closer : Close(j)
    <3> USE DEF lifeVars
    <3>1. CASE \E c \in Caller : Allow(c) \/ Build(c) \/ RoundTrip(c) \/ Drop(c)
      BY <2>2, <3>1 DEF Allow, Build, RoundTrip, Drop
    <3>2. CASE \E p \in Fetcher : refreshOnce(p)
      BY <2>2, <3>2 DEF refreshOnce, Answer, FetchFailed, StoreAssignment, FetchSucceeded
    <3>3. CASE \/ Refresh \/ StartLeaves \/ LoopTick \/ LoopExit \/ TickerFires \/ Cancel \/ Tick
               \/ \E configured \in BOOLEAN : Start(configured)
      BY <2>2, <3>3 DEF Refresh, StartLeaves, LoopTick, LoopExit, TickerFires, Cancel, Tick, Start
    <3> QED
      BY <3>1, <3>2, <3>3 DEF Next
  <2>4. done
    BY <2>1, <2>3 DEF Close, CloseSelect, CloseStop, CloseStarted, CloseDone
  <2> QED
    BY <2>4 DEF Inv, LifeInv, LoopLife
<1> QED
  BY <1>1, AlwaysInv, PTL DEF Spec, CloseEndsLoop
=============================================================================
