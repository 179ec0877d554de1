--------------------------- MODULE LifecycleProofs ---------------------------
(***************************************************************************)
(* Proofs about Lifecycle for any tool and manifest, any number of jobs    *)
(* and any expiry.  The inductive invariant says, for each place of Serve, *)
(* what exists there and what is already released; the other goroutines    *)
(* matter only through what they may still touch.                          *)
(***************************************************************************)
EXTENDS Lifecycle, SequenceTheorems, TLAPS

BeforePool == {"load", "once", "tracing", "runtime", "pool"}
BeforeAdmin == BeforePool \cup {"ping", "register", "admin"}
BeforeConsumer == BeforeAdmin \cup {"consume"}
Stopping == {"drain", "listening", "handlers", "pgclose", "pgwait", "closed"}
Gone == {"flush", "returned", "panicked"}

NoJobs == \A j \in Job : task[j] = "none"
Released == pool \in {"none", "closed"} /\ admin # "up" /\ rc \in {"none", "stopped"}

\* What boot has not created yet is not there.
BootOrder ==
    /\ pc \in BeforePool => pool = "none"
    /\ pc \in BeforeAdmin => admin = "none"
    /\ pc \in BeforeConsumer => rc = "none" /\ closing = "nobody"

\* There is a consumer only for a manifest that was read.
HasManifest ==
    /\ pc \notin {"load", "died", "crashed"} => setup.file # NoFile
    /\ rc # "none" => setup.file # NoFile

\* A running row is some goroutine's, and goroutines are River's.
RowsAreHeld ==
    /\ \A j \in Job : row[j] = "running" => task[j] # "none"
    /\ rc = "none" => NoJobs

\* What shutdown has reached so far.  The deferred Close does the work only
\* when there was no consumer.  An error keeps Run from returning normally.
ShutdownOrder ==
    /\ pc \in Stopping \cup {"close", "flush"} => ctxDone
    /\ pc \in Stopping => closing # "nobody"
    /\ pc = "close" => closing # "Close"
    /\ closing = "Close" \/ (pc = "close" /\ closing = "nobody") => rc = "none"
    /\ pc \in Stopping \ {"drain"} /\ ~firstErr => NoJobs /\ rc \in {"none", "stopped"}
    /\ pc \in {"handlers", "pgclose", "pgwait", "closed"} => admin # "up"
    /\ pc = "closed" => pool = "closed"
    /\ pc \in Gone \/ (pc = "close" /\ closing = "Run") => NoJobs /\ Released

\* How old the row in workers is, at each place of the heartbeat loop.
BeatOrder ==
    /\ pc \in BeforeConsumer => beat = "off" /\ missed = 0
    /\ pc \in {"admin", "consume"} => age = 0
    /\ beat = "wait" /\ ~ctxDone => age <= missed
    /\ beat = "due" /\ ~ctxDone => age <= Capped(missed + 1)
    /\ beat = "ended" => ctxDone

LifeInv ==
    /\ LifeTypeOK /\ BootOrder /\ HasManifest /\ RowsAreHeld /\ ShutdownOrder
    /\ BeatOrder /\ RefusedIsForeign

\* The fact about constants that most steps need.
LEMMA ExpiryIsNat == Expiry \in Nat \ {0}
BY LifecycleOK

-----------------------------------------------------------------------------
(* The main goroutine. *)

\* Up to the wait for the signal, each call creates one thing, and a call that
\* fails ends the process or leaves it to the deferred Close.
LEMMA BootStep ==
    ASSUME LifeInv, Boot
    PROVE  LifeInv'
<1> USE DEF LifeInv, LifeTypeOK, BootOrder, HasManifest, RowsAreHeld,
      ShutdownOrder, BeatOrder, RefusedIsForeign, NoJobs, Released, BeforePool, BeforeAdmin,
      BeforeConsumer, Stopping, Gone, Ended, Outcome, main, registry, jobs
<1>1. CASE LoadManifest
  BY <1>1 DEF LoadManifest, Goto, die
<1>2. CASE runOnce
  BY <1>2 DEF runOnce, Goto, die
<1>3. ASSUME NEW ok \in BOOLEAN, InitTracing(ok)
      PROVE  LifeInv'
  BY <1>3 DEF InitTracing
<1>4. ASSUME NEW ok \in BOOLEAN, startAdmin(ok)
      PROVE  LifeInv'
  BY <1>4 DEF startAdmin
<1>5. CASE newRuntime
  BY <1>5 DEF newRuntime, Goto, die
<1>6. CASE NewPool
  BY <1>6 DEF NewPool
<1>7. CASE PoolFails
  BY <1>7 DEF PoolFails, Goto, die
<1>8. CASE Ping
  BY <1>8 DEF Ping, Goto
<1>9. CASE registerWorker
  BY <1>9, ExpiryIsNat DEF registerWorker
<1>10. CASE startConsumer
  BY <1>10 DEF startConsumer
<1>11. CASE BootFails
  BY <1>11, ExpiryIsNat DEF BootFails, Refusal, RegisterUnanswered, Goto, die
<1>12. CASE Configure
  BY <1>12 DEF Configure
<1>13. CASE Woken
  BY <1>13 DEF Woken
<1> QED
  BY <1>1, <1>2, <1>3, <1>4, <1>5, <1>6, <1>7, <1>8, <1>9, <1>10, <1>11, <1>12, <1>13 DEF Boot

\* Each step of shutdown releases one thing, or notes that it could not.
LEMMA ShutdownStep ==
    ASSUME LifeInv, shutdown
    PROVE  LifeInv'
<1> USE DEF LifeInv, LifeTypeOK, BootOrder, HasManifest, RowsAreHeld,
      ShutdownOrder, BeatOrder, RefusedIsForeign, NoJobs, Released, BeforePool, BeforeAdmin,
      BeforeConsumer, Stopping, Gone, Ended, Outcome, main, registry, jobs
<1>1. CASE Drained
  BY <1>1 DEF Drained, Working
<1>2. CASE DrainTimesOut
  BY <1>2 DEF DrainTimesOut, Working
<1>3. CASE StopListening
  BY <1>3 DEF StopListening
<1>4. CASE HandlersDone
  BY <1>4 DEF HandlersDone, Goto
<1>5. CASE HandlersTimeOut
  BY <1>5 DEF HandlersTimeOut
<1>6. CASE ClosePool
  BY <1>6 DEF ClosePool
<1>7. CASE PoolClosed
  BY <1>7 DEF PoolClosed
<1>8. CASE ShutdownReturns
  BY <1>8 DEF ShutdownReturns, Goto, die
<1>9. CASE Close
  BY <1>9 DEF Close, Goto
<1>10. CASE Flush
  BY <1>10 DEF Flush, Goto
<1> QED
  BY <1>1, <1>2, <1>3, <1>4, <1>5, <1>6, <1>7, <1>8, <1>9, <1>10 DEF shutdown

-----------------------------------------------------------------------------
(* The other goroutines. *)

\* The row ages by one beat between two beats, and a failed beat is counted.
LEMMA BeatStep ==
    ASSUME LifeInv, Tick \/ heartbeatLoop
    PROVE  LifeInv'
<1> USE DEF LifeInv, LifeTypeOK, BootOrder, HasManifest, RowsAreHeld,
      ShutdownOrder, BeatOrder, RefusedIsForeign, NoJobs, Released, BeforePool, BeforeAdmin,
      BeforeConsumer, Stopping, Gone, Ended, Outcome, main, registry, jobs
<1>1. CASE Tick
  BY <1>1, ExpiryIsNat DEF Tick, Capped
<1>2. CASE BeatsEnd
  BY <1>2 DEF BeatsEnd
<1>3. ASSUME NEW ok \in BOOLEAN, Beat(ok)
      PROVE  LifeInv'
  BY <1>3, ExpiryIsNat DEF Beat, Capped
<1> QED
  BY <1>1, <1>2, <1>3 DEF heartbeatLoop

\* The configuration loop, the admin handlers and the signal.
LEMMA BesidesStep ==
    ASSUME LifeInv, configLoop \/ Handlers \/ Signal
    PROVE  LifeInv'
<1> USE DEF LifeInv, LifeTypeOK, BootOrder, HasManifest, RowsAreHeld,
      ShutdownOrder, BeatOrder, RefusedIsForeign, NoJobs, Released, BeforePool, BeforeAdmin,
      BeforeConsumer, Stopping, Gone, Ended, Outcome, main, registry, jobs
<1>1. CASE configLoop
  BY <1>1 DEF configLoop, ListenerEnds, Listener
<1>2. CASE MapRace
  BY <1>2 DEF MapRace
<1>3. ASSUME NEW h \in Handler, Request(h) \/ Reply(h)
      PROVE  LifeInv'
  BY <1>3 DEF Request, Reply
<1>4. CASE Signal
  BY <1>4 DEF Signal
<1> QED
  BY <1>1, <1>2, <1>3, <1>4 DEF Handlers

\* Work refuses a job of the only queue there is, or none.
LEMMA FetchIsFair ==
    ASSUME LifeInv, NEW j \in Job, Fetch(j), task'[j] = "refused"
    PROVE  PhaseOf[j] # QueueOf[j]
<1>1. task'[j] = IF workerPhase # "" /\ PhaseOf[j] # workerPhase THEN "refused" ELSE "run"
  BY DEF Fetch, LifeInv, LifeTypeOK
<1>2. workerPhase # "" /\ PhaseOf[j] # workerPhase
  BY <1>1
<1>3. Len(Phases) = 1 /\ workerPhase = Phases[1].name
  BY <1>2 DEF workerPhase
<1>4. Phases \in Seq(Phase)
  <2>1. setup \in Setup /\ setup.file # NoFile
    BY DEF LifeInv, LifeTypeOK, HasManifest, Fetch
  <2> QED
    BY <2>1, LifecycleOK DEF Phases
<1>5. DOMAIN Phases = {1}
  BY <1>3, <1>4, LenProperties
<1>6. QueueOf[j] = Phases[1].name
  BY <1>5 DEF Fetch, phaseNames
<1> QED
  BY <1>2, <1>3, <1>6

\* A job goroutine changes its own row and nothing that Serve decides on.
LEMMA WorkStep ==
    ASSUME LifeInv, Work
    PROVE  LifeInv'
<1> USE DEF LifeInv, LifeTypeOK, RowsAreHeld, RefusedIsForeign, NoJobs, Outcome
<1>1. PICK j \in Job : Fetch(j) \/ RunTool(j) \/ Persist(j) \/ Complete(j)
  BY DEF Work
<1>2. UNCHANGED <<setup, pc, ctxDone, flush, pool, admin, rc, closing, firstErr,
                  beat, age, missed, listener, busy>>
  BY <1>1 DEF Fetch, RunTool, Persist, Complete, Becomes, main, registry
<1>3. BootOrder' /\ HasManifest' /\ BeatOrder'
  BY <1>2 DEF BootOrder, HasManifest, BeatOrder, Capped
<1>4. CASE Fetch(j)
  <2>1. /\ row' = [row EXCEPT ![j] = "running"] /\ rc = "running" /\ ~ctxDone
        /\ \E t \in {"refused", "run"} : task' = [task EXCEPT ![j] = t]
    BY <1>4 DEF Fetch
  <2>2. ~(pc \in Stopping \cup {"close", "flush"}) /\ closing # "Close" /\ pc \notin Gone
    BY <2>1 DEF ShutdownOrder, Gone, Released
  <2>3. ShutdownOrder'
    BY <1>2, <2>2 DEF ShutdownOrder, Stopping, Gone
  <2>4. RefusedIsForeign'
    BY <1>4, <2>1, FetchIsFair
  <2> QED
    BY <1>2, <1>3, <2>1, <2>3, <2>4
<1>5. CASE RunTool(j) \/ Persist(j)
  <2>1. /\ task[j] # "none" /\ row' = row
        /\ \E t \in {"ok", "failed", "write", "cut"} : task' = [task EXCEPT ![j] = t]
    BY <1>5 DEF RunTool, Persist, Becomes
  <2>2. ShutdownOrder'
    BY <1>2, <2>1 DEF ShutdownOrder, Released
  <2> QED
    BY <1>2, <1>3, <2>1, <2>2
<1>6. CASE Complete(j)
  <2>1. task[j] \in Outcome
    BY <1>6 DEF Complete
  <2>2. /\ Settled(task[j]) \in {"completed", "retryable", "refused"}
        /\ Settled(task[j]) = "refused" => task[j] = "refused"
    BY <2>1 DEF Settled
  <2>3. \/ row' = [row EXCEPT ![j] = Settled(task[j])] /\ task' = [task EXCEPT ![j] = "none"]
        \/ row' = row /\ task' = [task EXCEPT ![j] = "lost"]
    BY <1>6 DEF Complete
  <2>4. ShutdownOrder'
    BY <1>2, <2>1, <2>3 DEF ShutdownOrder, Released
  <2> QED
    BY <1>2, <1>3, <2>1, <2>2, <2>3, <2>4
<1> QED
  BY <1>1, <1>4, <1>5, <1>6

-----------------------------------------------------------------------------
(* The theorems. *)

\* A process starts with nothing.
LEMMA InitInv == Init => LifeInv
<1> SUFFICES ASSUME Init PROVE LifeInv
  OBVIOUS
<1>1. LifeTypeOK
  <2>1. task \in [Job -> {"none", "run", "write", "lost"} \cup Outcome]
    BY DEF Init
  <2>2. row \in [Job -> {"available", "running", "completed", "retryable", "refused"}]
    BY DEF Init
  <2>3. age \in -1..Expiry /\ missed \in 0..Expiry
    BY ExpiryIsNat DEF Init
  <2> QED
    BY <2>1, <2>2, <2>3, Zenon DEF Init, LifeTypeOK
<1>2. RowsAreHeld /\ RefusedIsForeign
  BY DEF Init, RowsAreHeld, RefusedIsForeign, NoJobs
<1>3. BootOrder /\ HasManifest /\ BeatOrder
  BY DEF Init, BootOrder, HasManifest, BeatOrder, BeforePool, BeforeAdmin, BeforeConsumer
<1>4. ShutdownOrder
  BY DEF Init, ShutdownOrder, Stopping, Gone
<1> QED
  BY <1>1, <1>2, <1>3, <1>4 DEF LifeInv

\* Every step keeps the invariant.
LEMMA NextInv ==
    ASSUME LifeInv, [Next]_vars
    PROVE  LifeInv'
<1>1. CASE UNCHANGED vars
  BY <1>1 DEF vars, LifeInv, LifeTypeOK, BootOrder, HasManifest, RowsAreHeld, ShutdownOrder,
       BeatOrder, RefusedIsForeign, NoJobs, Released, Capped
<1> QED
  BY <1>1, BootStep, ShutdownStep, WorkStep, BeatStep, BesidesStep DEF Next, Main

\* The invariant holds in every reachable state.
LEMMA Invariance == Spec => []LifeInv
<1>1. LifeInv /\ [Next]_vars => LifeInv'
  BY NextInv
<1> QED
  BY <1>1, InitInv, PTL DEF Spec

\* The state of a process stays well typed from main to exit.
THEOREM LifeTypeCorrect == Spec => []LifeTypeOK
<1>1. LifeInv => LifeTypeOK
  BY DEF LifeInv
<1> QED
  BY <1>1, Invariance, PTL

\* A process that ends without an error has written the outcome of every job.
THEOREM ExitSettles == Spec => []SettledBeforeExit
<1>1. LifeInv => SettledBeforeExit
  BY DEF LifeInv, RowsAreHeld, ShutdownOrder, NoJobs, Gone, SettledBeforeExit
<1> QED
  BY <1>1, Invariance, PTL

\* Serve reaches its end with everything released, by whatever way.
THEOREM ExitReleases == Spec => []ReleasedOnReturn
<1>1. LifeInv => ReleasedOnReturn
  BY DEF LifeInv, ShutdownOrder, Gone, Released, ReleasedOnReturn
<1> QED
  BY <1>1, Invariance, PTL

\* The phase check refuses no job of a queue's own phase.
THEOREM OwnJobsAreTaken == Spec => []RefusedIsForeign
<1>1. LifeInv => RefusedIsForeign
  BY DEF LifeInv
<1> QED
  BY <1>1, Invariance, PTL

\* A worker that beats is dropped only for UPDATEs that failed.
THEOREM BeatsKeepRouted == Spec => []StaysRouted
<1>1. LifeInv => StaysRouted
  BY ExpiryIsNat DEF LifeInv, LifeTypeOK, BeatOrder, StaysRouted, Capped
<1> QED
  BY <1>1, Invariance, PTL
=============================================================================
