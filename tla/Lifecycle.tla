------------------------------- MODULE Lifecycle -------------------------------
(***************************************************************************)
(* One worker process from main to exit (worker/serve.go, worker/          *)
(* runtime.go, the consumer set up by worker/river_adapter.go, the checks  *)
(* of worker/manifest.go).  The main goroutine boots, waits for the signal *)
(* and shuts down in order; River's job goroutines, the heartbeat loop,    *)
(* the configuration loop and the admin handlers run beside it until the   *)
(* process is gone.                                                        *)
(*                                                                         *)
(* What a job writes is the business of CascadeJobs, what a reload         *)
(* computes that of ConfigReload; here only the goroutines' lives and the  *)
(* connections they hold matter.  Every job is one attempt.                *)
(***************************************************************************)
EXTENDS Naturals, Integers, Sequences, FiniteSets

CONSTANTS
    Setup,        \* how a process may be started: its tool (a name and what it
                  \* implements), the file manifest.yaml, and the mode
    NoFile,       \* a file that cannot be read or parsed
    Identifier,   \* the names that nameRe matches
    Job,          \* attempts River may start
    QueueOf,      \* QueueOf[j]: the queue the cascade put j in
    PhaseOf,      \* PhaseOf[j]: j.Args.Phase
    Expiry,       \* heartbeats of 30 s after which the control plane drops a worker
    MaxRequests   \* bound: admin requests at a time

Phase == [name : STRING, kinds : SUBSET STRING, concurrencyPerHost : Int,
          timeoutSeconds : Int, priorityHint : Int]

ASSUME LifecycleOK ==
    /\ \A s \in Setup : /\ s.mode \in {"serve", "once", "validate"}
                        /\ s.tool.configurable \in BOOLEAN /\ s.tool.updatable \in BOOLEAN
                        /\ s.file = NoFile \/ s.file.phases \in Seq(Phase)
    /\ "" \notin Identifier
    /\ DOMAIN QueueOf = Job /\ DOMAIN PhaseOf = Job
    /\ Expiry \in Nat \ {0} /\ MaxRequests \in Nat

VARIABLES
    setup,    \* the tool, the file and the mode the process was started with
    pc,       \* where Serve is
    ctxDone,  \* ctx is cancelled: SIGINT or SIGTERM came
    flush,    \* tracing.Init returned a shutdown function
    pool,     \* rt.pool
    admin,    \* rt.admin and its listener
    rc,       \* rt.rc, the River client
    closing,  \* who runs the body of closeOnce: Run, Close, or nobody yet
    firstErr, \* shutdown met an error
    task,     \* task[j]: the goroutine that works j
    row,      \* row[j]: j's row in river_job
    beat,     \* the heartbeat loop
    age,      \* beats since last_heartbeat; -1: no row in workers
    missed,   \* UPDATEs in a row that failed
    listener, \* configLoop
    busy      \* admin requests being handled

main == <<setup, flush, closing, firstErr>>
registry == <<beat, age, missed>>
jobs == <<task, row>>
vars == <<setup, pc, ctxDone, flush, pool, admin, rc, closing, firstErr, task, row,
          beat, age, missed, listener, busy>>

Ended == {"returned", "died", "panicked", "crashed"}
Alive == pc \notin Ended
Outcome == {"ok", "failed", "cut", "refused"}
Handler == {"readyz", "manifest", "update"}

LifeTypeOK ==
    /\ setup \in Setup
    /\ pc \in {"load", "once", "tracing", "runtime", "pool", "ping", "register", "admin",
               "consume", "configure", "serving", "drain", "listening", "handlers",
               "pgclose", "pgwait", "closed", "close", "flush"} \cup Ended
    /\ ctxDone \in BOOLEAN /\ flush \in BOOLEAN /\ firstErr \in BOOLEAN
    /\ pool \in {"none", "open", "closing", "closed"}
    /\ admin \in {"none", "up", "down"}
    /\ rc \in {"none", "running", "stopping", "stopped"}
    /\ closing \in {"nobody", "Run", "Close"}
    /\ task \in [Job -> {"none", "run", "write", "lost"} \cup Outcome]
    /\ row \in [Job -> {"available", "running", "completed", "retryable", "refused"}]
    /\ beat \in {"off", "wait", "due", "ended"}
    /\ age \in -1..Expiry /\ missed \in 0..Expiry
    /\ listener \in {"off", "acquire", "wait", "reload", "backoff", "ended"}
    /\ busy \subseteq Handler

-----------------------------------------------------------------------------
(* The manifest. *)

\* A manifest that LoadManifest accepts.
Validate(m) ==
    /\ m.tool \in Identifier
    /\ m.version # ""
    /\ m.phases # <<>>
    /\ \A i \in DOMAIN m.phases :
        LET p == m.phases[i] IN
        /\ p.name \in Identifier
        /\ \A k \in 1..(i - 1) : m.phases[k].name # p.name
        /\ p.kinds # {} /\ p.kinds \subseteq Identifier
        /\ p.priorityHint \in 0..9
        /\ p.timeoutSeconds >= 0

\* A limit of zero, or none, is the default of 8.
queueParallelism(p) == IF p.concurrencyPerHost > 0 THEN p.concurrencyPerHost ELSE 8

Phases == setup.file.phases
phaseNames == {Phases[i].name : i \in DOMAIN Phases}
MaxWorkers(q) == queueParallelism(Phases[CHOOSE i \in DOMAIN Phases : Phases[i].name = q])

\* mutant: the registered worker always checks for the first phase
workerPhase_first == Phases[1].name

\* The phase of the registered cascadeWorker; "" for a manifest with several.
workerPhase == IF Len(Phases) = 1 THEN Phases[1].name ELSE ""

-----------------------------------------------------------------------------
(* Serve and Run up to the wait for the signal. *)

\* main goes from here to there and touches nothing else.
Goto(here, there) ==
    /\ pc = here /\ pc' = there
    /\ UNCHANGED <<ctxDone, main, pool, admin, rc, jobs, registry, listener, busy>>

\* die is os.Exit(1): no deferred call runs.
die(here) == Goto(here, "died")

LoadManifest ==
    LET accepted == /\ setup.file # NoFile
                    /\ Validate(setup.file)
                    /\ setup.file.tool = setup.tool.name IN
    \/ ~accepted /\ die("load")
    \/ accepted /\ setup.mode = "validate" /\ Goto("load", "returned")
    \/ accepted /\ setup.mode = "once" /\ Goto("load", "once")
    \/ accepted /\ setup.mode = "serve" /\ Goto("load", "tracing")

\* One synthetic job, without database and River.
runOnce == Goto("once", "returned") \/ die("once")

\* An exporter that cannot be built leaves no shutdown function.
InitTracing(ok) ==
    /\ pc = "tracing" /\ pc' = "runtime"
    /\ flush' = ok
    /\ UNCHANGED <<ctxDone, setup, closing, firstErr, pool, admin, rc, jobs, registry,
                   listener, busy>>

\* Without a DSN there is no runtime.
newRuntime == Goto("runtime", "pool") \/ die("runtime")

\* pgxpool.New connects lazily; it fails on a DSN it cannot parse.
NewPool ==
    /\ pc = "pool" /\ pc' = "ping"
    /\ pool' = "open"
    /\ UNCHANGED <<ctxDone, main, admin, rc, jobs, registry, listener, busy>>

PoolFails == die("pool")

\* A cancelled context fails the call, with an error that Serve knows.
Ping == ~ctxDone /\ Goto("ping", "register")

registerWorker ==
    /\ pc = "register" /\ ~ctxDone
    /\ pc' = "admin" /\ age' = 0
    /\ UNCHANGED <<ctxDone, main, pool, admin, rc, jobs, beat, missed, listener, busy>>

\* The row is written and the answer does not arrive.
RegisterUnanswered(there) ==
    /\ pc = "register" /\ pc' = there
    /\ age' = 0
    /\ UNCHANGED <<ctxDone, main, pool, admin, rc, jobs, beat, missed, listener, busy>>

\* A port that is taken is only logged, by the goroutine that listens.
startAdmin(ok) ==
    /\ pc = "admin" /\ pc' = "consume"
    /\ admin' = IF ok THEN "up" ELSE "down"
    /\ UNCHANGED <<ctxDone, main, pool, rc, jobs, registry, listener, busy>>

\* River runs under ctx; then the two loops are started.
startConsumer ==
    /\ pc = "consume" /\ ~ctxDone
    /\ rc' = "running"
    /\ beat' = "wait"
    /\ pc' = IF setup.tool.configurable THEN "configure" ELSE "serving"
    /\ UNCHANGED <<ctxDone, main, pool, admin, jobs, age, missed, listener, busy>>

\* Run returns the error of a call.  Serve dies, unless the error is the
\* cancellation of ctx: then it returns through its deferred calls.
Refusal(here) == die(here) \/ (ctxDone /\ Goto(here, "close"))

BootFails ==
    \/ \E here \in {"ping", "register", "consume"} : Refusal(here)
    \/ RegisterUnanswered("died")
    \/ ctxDone /\ RegisterUnanswered("close")

\* The first applyConfig returns, with or without an error, and configLoop
\* is started.
Configure ==
    /\ pc = "configure" /\ pc' = "serving"
    /\ listener' = "acquire"
    /\ UNCHANGED <<ctxDone, main, pool, admin, rc, jobs, registry, busy>>

\* Run's wait ends, and Run calls shutdown.
Woken ==
    /\ pc = "serving" /\ ctxDone
    /\ pc' = "drain" /\ closing' = "Run"
    /\ UNCHANGED <<ctxDone, setup, flush, firstErr, pool, admin, rc, jobs, registry,
                   listener, busy>>

Boot ==
    \/ LoadManifest \/ runOnce
    \/ \E ok \in BOOLEAN : InitTracing(ok) \/ startAdmin(ok)
    \/ newRuntime \/ NewPool \/ PoolFails
    \/ Ping \/ registerWorker \/ startConsumer \/ BootFails
    \/ Configure \/ Woken

-----------------------------------------------------------------------------
(* shutdown, and the end of Serve. *)

Working == {j \in Job : task[j] # "none"}
\* Connections of the pool that are out for longer than a statement.
Holders == (IF listener \in {"wait", "reload", "backoff"} THEN {"listener"} ELSE {})
           \cup (busy \cap {"readyz"})

\* rc.Stop returns when every job goroutine and the completer are done.
Drained ==
    /\ pc = "drain"
    /\ Working = {}
    /\ pc' = "listening"
    /\ rc' = IF rc = "none" THEN "none" ELSE "stopped"
    /\ UNCHANGED <<ctxDone, main, pool, admin, jobs, registry, listener, busy>>

\* mutant: only the order counts, the error of Stop is dropped
DrainTimesOut_silently ==
    /\ pc = "drain"
    /\ Working # {}
    /\ pc' = "listening" /\ rc' = "stopping"
    /\ UNCHANGED <<ctxDone, main, pool, admin, jobs, registry, listener, busy>>

\* 30 s are over; what is still at work stays there.
DrainTimesOut ==
    /\ pc = "drain"
    /\ Working # {}
    /\ pc' = "listening" /\ rc' = "stopping"
    /\ firstErr' = TRUE
    /\ UNCHANGED <<ctxDone, setup, flush, closing, pool, admin, jobs, registry, listener,
                   busy>>

\* admin.Shutdown closes the listener before it waits for the handlers.
StopListening ==
    /\ pc = "listening" /\ pc' = "handlers"
    /\ admin' = IF admin = "none" THEN "none" ELSE "down"
    /\ UNCHANGED <<ctxDone, main, pool, rc, jobs, registry, listener, busy>>

HandlersDone == busy = {} /\ Goto("handlers", "pgclose")

\* 5 s are over.
HandlersTimeOut ==
    /\ pc = "handlers" /\ pc' = "pgclose"
    /\ busy # {}
    /\ firstErr' = TRUE
    /\ UNCHANGED <<ctxDone, setup, flush, closing, pool, admin, rc, jobs, registry,
                   listener, busy>>

\* From here on the pool gives out no connection.
ClosePool ==
    /\ pc = "pgclose" /\ pc' = "pgwait"
    /\ pool' = "closing"
    /\ UNCHANGED <<ctxDone, main, admin, rc, jobs, registry, listener, busy>>

\* pool.Close has no timeout: it waits for every connection that is out.
PoolClosed ==
    /\ pc = "pgwait" /\ pc' = "closed"
    /\ Holders = {}
    /\ pool' = "closed"
    /\ UNCHANGED <<ctxDone, main, admin, rc, jobs, registry, listener, busy>>

\* Run's error ends the process; the error of a deferred Close is dropped.
ShutdownReturns ==
    \/ closing = "Run" /\ firstErr /\ die("closed")
    \/ closing = "Run" /\ ~firstErr /\ Goto("closed", "close")
    \/ closing = "Close" /\ Goto("closed", "flush")

\* mutant: Serve forgets the deferred Close
Close_forgotten == Goto("close", "flush")

\* The deferred rt.Close, which closeOnce makes a no-op after Run's shutdown.
Close ==
    \/ closing # "nobody" /\ Goto("close", "flush")
    \/ /\ pc = "close" /\ closing = "nobody"
       /\ pc' = "drain" /\ closing' = "Close"
       /\ UNCHANGED <<ctxDone, setup, flush, firstErr, pool, admin, rc, jobs, registry,
                      listener, busy>>

\* The deferred flush of the spans calls a nil function if there is none.
Flush ==
    \/ flush /\ Goto("flush", "returned")
    \/ ~flush /\ Goto("flush", "panicked")

shutdown ==
    \/ Drained \/ DrainTimesOut
    \/ StopListening \/ HandlersDone \/ HandlersTimeOut
    \/ ClosePool \/ PoolClosed
    \/ ShutdownReturns \/ Close \/ Flush

Main == Boot \/ shutdown

-----------------------------------------------------------------------------
(* The goroutines of the jobs.  Their context comes from ctx. *)

At(q) == {j \in Job : QueueOf[j] = q /\ task[j] # "none"}

\* River fetches j for its queue, and Work checks the phase.
Fetch(j) ==
    /\ rc = "running" /\ ~ctxDone
    /\ row[j] = "available"
    /\ QueueOf[j] \in phaseNames
    /\ Cardinality(At(QueueOf[j])) < MaxWorkers(QueueOf[j])
    /\ row' = [row EXCEPT ![j] = "running"]
    /\ task' = [task EXCEPT ![j] =
                  IF workerPhase # "" /\ PhaseOf[j] # workerPhase THEN "refused" ELSE "run"]
    /\ UNCHANGED <<pc, ctxDone, main, pool, admin, rc, registry, listener, busy>>

Becomes(j, t) ==
    /\ task' = [task EXCEPT ![j] = t]
    /\ UNCHANGED <<pc, ctxDone, main, pool, admin, rc, row, registry, listener, busy>>

\* Tool.Run ends, in its own time even after the cancellation: with nothing to
\* write, with an error, or with a result of which the first statement is
\* committed.  FetchAsset and that statement fail under a cancelled context.
RunTool(j) ==
    /\ task[j] = "run"
    /\ \/ Becomes(j, "ok") \/ Becomes(j, "failed")
       \/ ~ctxDone /\ pool = "open" /\ Becomes(j, "write")

\* The rest of persist.  The cancellation stops it between two statements or
\* in one, unless the last one is committed.
Persist(j) ==
    /\ task[j] = "write"
    /\ \/ pool # "closed" /\ Becomes(j, "ok")
       \/ Becomes(j, "failed")
       \/ ctxDone /\ Becomes(j, "cut")

\* mutant: the outcome is stored as it is
Settled_raw(t) == t

Settled(t) ==
    CASE t = "ok" -> "completed"
      [] t \in {"failed", "cut"} -> "retryable"
      [] t = "refused" -> "refused"

\* River's completer does not use ctx, but it needs the pool.
Complete(j) ==
    /\ task[j] \in Outcome
    /\ IF pool = "open"
       THEN /\ row' = [row EXCEPT ![j] = Settled(task[j])]
            /\ task' = [task EXCEPT ![j] = "none"]
       ELSE task' = [task EXCEPT ![j] = "lost"] /\ UNCHANGED row
    /\ UNCHANGED <<pc, ctxDone, main, pool, admin, rc, registry, listener, busy>>

Work == \E j \in Job : Fetch(j) \/ RunTool(j) \/ Persist(j) \/ Complete(j)

-----------------------------------------------------------------------------
(* The heartbeat loop, and the clock it runs by. *)

Capped(n) == IF n > Expiry THEN Expiry ELSE n

\* 30 s pass.  A beat takes at most 5 s, so none is skipped; boot is taken to
\* be shorter than a beat, and a worker told to stop needs no more of them.
Tick ==
    /\ beat \in {"wait", "ended"} /\ ~ctxDone
    /\ age' = Capped(age + 1)
    /\ beat' = IF beat = "wait" THEN "due" ELSE beat
    /\ UNCHANGED <<pc, ctxDone, main, pool, admin, rc, jobs, missed, listener, busy>>

\* mutant: a beat that fails ends the loop
Beat_gives_up(ok) ==
    /\ beat = "due" /\ ~ctxDone
    /\ beat' = IF ok THEN "wait" ELSE "ended"
    /\ age' = IF ok THEN 0 ELSE age
    /\ missed' = IF ok THEN 0 ELSE Capped(missed + 1)
    /\ UNCHANGED <<pc, ctxDone, main, pool, admin, rc, jobs, listener, busy>>

\* An UPDATE that fails is logged; the next one is tried all the same.
Beat(ok) ==
    /\ beat = "due" /\ ~ctxDone
    /\ beat' = "wait"
    /\ age' = IF ok THEN 0 ELSE age
    /\ missed' = IF ok THEN 0 ELSE Capped(missed + 1)
    /\ UNCHANGED <<pc, ctxDone, main, pool, admin, rc, jobs, listener, busy>>

BeatsEnd ==
    /\ beat \in {"wait", "due"} /\ ctxDone
    /\ beat' = "ended"
    /\ UNCHANGED <<pc, ctxDone, main, pool, admin, rc, jobs, age, missed, listener, busy>>

heartbeatLoop == BeatsEnd \/ \E ok \in BOOLEAN : Beat(ok)

-----------------------------------------------------------------------------
(* configLoop, which keeps a connection of the pool while it listens. *)

Listener(here, there) ==
    /\ listener \in here /\ listener' = there
    /\ UNCHANGED <<pc, ctxDone, main, pool, admin, rc, jobs, registry, busy>>

\* mutant: the loop waits without the context
ListenerEnds_deaf == Listener({"acquire", "backoff"}, "ended")

\* Acquire or LISTEN fails; or the wait is over because ctx is.
ListenerEnds ==
    \/ Listener({"acquire", "backoff"}, "ended")
    \/ ctxDone /\ Listener({"wait"}, "ended")

configLoop ==
    \/ ~ctxDone /\ pool = "open" /\ Listener({"acquire", "backoff"}, "wait")
    \/ ~ctxDone /\ Listener({"wait"}, "reload")
    \/ ~ctxDone /\ Listener({"wait"}, "backoff")
    \/ Listener({"reload"}, "wait")
    \/ ListenerEnds

-----------------------------------------------------------------------------
(* The admin server's handlers. *)

\* /admin/update answers at once for a tool that is not Updatable, and /readyz
\* for a pool that is being closed: it gives out no connection to Ping.
Request(h) ==
    /\ admin = "up" /\ h \notin busy /\ Cardinality(busy) < MaxRequests
    /\ h = "update" => setup.tool.updatable
    /\ h = "readyz" => pool = "open"
    /\ busy' = busy \cup {h}
    /\ UNCHANGED <<pc, ctxDone, main, pool, admin, rc, jobs, registry, listener>>

Reply(h) ==
    /\ h \in busy /\ busy' = busy \ {h}
    /\ UNCHANGED <<pc, ctxDone, main, pool, admin, rc, jobs, registry, listener>>

\* /manifest ranges over the maps that a reload decrypts in place.  Go stops
\* the process if it sees that, and it need not see it.
MapRace ==
    /\ "manifest" \in busy
    /\ pc = "configure" \/ listener = "reload"
    /\ pc' = "crashed"
    /\ UNCHANGED <<ctxDone, main, pool, admin, rc, jobs, registry, listener, busy>>

Handlers == MapRace \/ \E h \in Handler : Request(h) \/ Reply(h)

-----------------------------------------------------------------------------

\* SIGINT or SIGTERM, once NotifyContext is in place.
Signal ==
    /\ pc \notin {"load", "once"} /\ ~ctxDone
    /\ ctxDone' = TRUE
    /\ UNCHANGED <<pc, main, pool, admin, rc, jobs, registry, listener, busy>>

Init ==
    /\ setup \in Setup
    /\ pc = "load"
    /\ ctxDone = FALSE /\ flush = FALSE /\ firstErr = FALSE
    /\ pool = "none" /\ admin = "none" /\ rc = "none" /\ closing = "nobody"
    /\ task = [j \in Job |-> "none"]
    /\ row = [j \in Job |-> "available"]
    /\ beat = "off" /\ age = -1 /\ missed = 0
    /\ listener = "off"
    /\ busy = {}

Next == Alive /\ (Main \/ Work \/ Tick \/ heartbeatLoop \/ configLoop \/ Handlers \/ Signal)

\* The scheduler runs main and configLoop, /readyz answers within its second,
\* ReloadConfig returns when its context ends.  Neither Tool.Run nor
\* Tool.Update need return.
Fairness ==
    /\ WF_vars(Alive /\ Main)
    /\ WF_vars(Alive /\ configLoop)
    /\ WF_vars(Alive /\ Reply("readyz"))

Spec == Init /\ [][Next]_vars /\ Fairness

-----------------------------------------------------------------------------
(* Properties. *)

\* A process that ends without an error leaves no job of its own as running in
\* river_job: shutdown keeps the pool open until River has written every
\* outcome, and reports it when it could not wait that long.  River's completer
\* is taken to succeed, with its retries, as long as the pool is open.
SettledBeforeExit ==
    pc \in {"returned", "panicked"} => \A j \in Job : row[j] # "running"

\* However Serve gets to its end, be it by a signal in the middle of boot, the
\* pool is closed, the admin port is free and River is not running.
ReleasedOnReturn ==
    pc \in {"flush", "returned", "panicked"} =>
        pool \in {"none", "closed"} /\ admin # "up" /\ rc \in {"none", "stopped"}

\* Work refuses a job for its phase only if the job is in a queue of another
\* phase, whatever phases the manifest lists.
RefusedIsForeign ==
    \A j \in Job : task[j] = "refused" \/ row[j] = "refused" => PhaseOf[j] # QueueOf[j]

\* As long as no signal came, the row in workers is at most one beat older than
\* the failed UPDATEs in a row account for: a worker is dropped from the
\* routing because the database was out of reach, and for nothing else.
StaysRouted ==
    Alive /\ ~ctxDone /\ beat # "off" => age <= Capped(missed + 1)

\* After the signal the process ends, though Tool.Run and Tool.Update may never
\* return: the steps of shutdown have a timeout or wait for what ends with ctx.
\* ReloadConfig is among the latter: it is assumed to return when its context
\* is done, as it keeps configLoop from giving its connection back.
ShutdownEnds == ctxDone ~> pc \in Ended

\* "drain in-flight jobs so we don't kill ToolRun mid-write to PG".
NoKillMidWrite == \A j \in Job : task[j] # "cut"

\* "PG pool last: River has stopped and admin is down, no one will use it
\* anymore": no outcome of a job is lost because the pool was closed before
\* River wrote it.
PoolIsUnused == \A j \in Job : task[j] # "lost"
=============================================================================
