-------------------------------- MODULE Health --------------------------------
(***************************************************************************)
(* Module health (worker/health.go).  Every process of a tool writes the   *)
(* one module_health row of that tool: its healthLoop reports what         *)
(* Healthcheck says or what the two run counters show, and a run that ends *)
(* with a HealthError starts a goroutine of its own that writes the row    *)
(* whenever it gets there.  The counters are read and written one atomic   *)
(* operation at a time, by several runs at once.                           *)
(***************************************************************************)
EXTENDS Naturals, FiniteSets

CONSTANTS
    Process,         \* worker processes of one tool
    Slot,            \* goroutines that call recordRunOutcome
    Host,            \* Host[s]: the process of slot s
    ApiKey,          \* rows of api_keys
    NoKey,           \* a job without a resolved key, a NULL failed_api_key_id
    Ended,           \* how runs may end
    Checked,         \* reports that gatherHealth may make of a Healthcheck
    Null,            \* nothing recorded, gathered or stored
    UnhealthyAfter,  \* the 5 of gatherHealth
    MaxRuns,         \* bound: runs of one process
    MaxCount         \* bound: consecutive_failures is not counted beyond

ASSUME HealthOK ==
    /\ Host \in [Slot -> Process]
    /\ IsFiniteSet(Slot)
    /\ NoKey \notin ApiKey
    /\ UnhealthyAfter \in Nat \ {0}
    /\ MaxRuns \in Nat
    /\ MaxCount \in Nat \ {0}

Status == {"healthy", "degraded", "unhealthy", "unknown"}

\* "api_key" stands for api_key_invalid and api_key_quota_exceeded, "other"
\* for the classes that blame no key.
Class == {"ok", "api_key", "other", "unknown"}

Report == [status : Status, class : Class]

ASSUME CheckedOK == Checked \subseteq Report

\* What Tool.Run returned: nil, a plain error, or a HealthError with its class
\* and the key of the job.
HealthErr == [err : {"api_key", "other"}, key : ApiKey \cup {NoKey}]
Outcome == [err : {"nil", "plain"}, key : {NoKey}] \cup HealthErr

ASSUME EndedOK == Ended \subseteq Outcome

HealthRow == [status : Status, class : Class, consecutive : 0..MaxCount,
              failedKey : ApiKey \cup {NoKey}]

ASSUME NullIsNothing ==
    Null \notin Outcome \cup Report \cup HealthRow \cup 0..MaxRuns

VARIABLES
    explicit,     \* the tool implements Healthchecker
    totalRuns,    \* the counters of each process
    consecutiveFailures,
    run,          \* run[s]: an outcome counted in totalRuns and nowhere else
    seen,         \* seen[p]: consecutiveFailures as gatherHealth loaded it
    report,       \* report[p]: gathered by reportHealth and not yet written
    late,         \* late[o]: goroutines about to write the HealthError o
    row,          \* the module_health row
    guilty        \* history: keys a run failed with, by its HealthError

vars == <<explicit, totalRuns, consecutiveFailures, run, seen, report, late, row, guilty>>

HealthTypeOK ==
    /\ explicit \in BOOLEAN
    /\ totalRuns \in [Process -> 0..MaxRuns]
    /\ consecutiveFailures \in [Process -> 0..MaxRuns]
    /\ run \in [Slot -> Outcome \cup {Null}]
    /\ seen \in [Process -> 0..MaxRuns \cup {Null}]
    /\ report \in [Process -> Report \cup {Null}]
    /\ late \in [HealthErr -> Nat]
    /\ row \in HealthRow \cup {Null}
    /\ guilty \in SUBSET ApiKey

-----------------------------------------------------------------------------
(* upsertHealth: one statement. *)

Failing(status) == status \notin {"healthy", "unknown"}

\* mutant: any failure of a run that had a key blames the key
FailedID_any_class(r, key) == key

\* failedID: the key is blamed only by a class about keys.
FailedID(r, key) == IF r.class = "api_key" THEN key ELSE NoKey

Counted(n) == IF n < MaxCount THEN n + 1 ELSE MaxCount

\* mutant: a healthy report leaves the blamed key behind
Upserted_key_stays(old, r, key) ==
    [status |-> r.status, class |-> r.class,
     consecutive |-> IF old = Null THEN (IF Failing(r.status) THEN 1 ELSE 0)
                     ELSE CASE r.status = "healthy" -> 0
                            [] r.status = "unknown" -> old.consecutive
                            [] Failing(r.status)    -> Counted(old.consecutive),
     failedKey |-> IF old = Null \/ FailedID(r, key) # NoKey THEN FailedID(r, key)
                   ELSE old.failedKey]

\* INSERT ... ON CONFLICT (tool) DO UPDATE.  A report without a key keeps the
\* key of an earlier failure until the tool is healthy.
Upserted(old, r, key) ==
    [status |-> r.status, class |-> r.class,
     consecutive |-> IF old = Null THEN (IF Failing(r.status) THEN 1 ELSE 0)
                     ELSE CASE r.status = "healthy" -> 0
                            [] r.status = "unknown" -> old.consecutive
                            [] Failing(r.status)    -> Counted(old.consecutive),
     failedKey |-> CASE old = Null -> FailedID(r, key)
                     [] old # Null /\ r.status = "healthy" -> NoKey
                     [] old # Null /\ r.status # "healthy" ->
                           IF FailedID(r, key) # NoKey THEN FailedID(r, key)
                                                       ELSE old.failedKey]

-----------------------------------------------------------------------------
(* recordRunOutcome. *)

\* A run of slot s ends; AddInt32(&totalRuns, 1).
CountRun(s, o) ==
    /\ run[s] = Null
    /\ totalRuns[Host[s]] < MaxRuns
    /\ totalRuns' = [totalRuns EXCEPT ![Host[s]] = @ + 1]
    /\ run' = [run EXCEPT ![s] = o]
    /\ UNCHANGED <<explicit, consecutiveFailures, seen, report, late, row, guilty>>

\* mutant: the fast path of a HealthError counts the failure again
CountOutcome_twice(s) ==
    /\ run[s] # Null
    /\ LET o == run[s] IN
       /\ consecutiveFailures' = [consecutiveFailures EXCEPT ![Host[s]] =
                                    CASE o.err = "nil" -> 0
                                      [] o.err = "plain" -> @ + 1
                                      [] o \in HealthErr -> @ + 2]
       /\ late' = IF o \in HealthErr THEN [late EXCEPT ![o] = @ + 1] ELSE late
       /\ guilty' = IF o.err = "api_key" THEN guilty \cup ({o.key} \ {NoKey}) ELSE guilty
    /\ run' = [run EXCEPT ![s] = Null]
    /\ UNCHANGED <<explicit, totalRuns, seen, report, row>>

\* StoreInt32(0), or AddInt32 and, for a HealthError, go upsertHealth.
CountOutcome(s) ==
    /\ run[s] # Null
    /\ LET o == run[s] IN
       /\ consecutiveFailures' = [consecutiveFailures EXCEPT ![Host[s]] =
                                    IF o.err = "nil" THEN 0 ELSE @ + 1]
       /\ late' = IF o \in HealthErr THEN [late EXCEPT ![o] = @ + 1] ELSE late
       /\ guilty' = IF o.err = "api_key" THEN guilty \cup ({o.key} \ {NoKey}) ELSE guilty
    /\ run' = [run EXCEPT ![s] = Null]
    /\ UNCHANGED <<explicit, totalRuns, seen, report, row>>

\* The goroutine of a HealthError writes the row, or fails unheard.
WriteLate(o, ok) ==
    /\ late[o] > 0
    /\ late' = [late EXCEPT ![o] = @ - 1]
    /\ row' = IF ok THEN Upserted(row, [status |-> "unhealthy", class |-> o.err], o.key)
                    ELSE row
    /\ UNCHANGED <<explicit, totalRuns, consecutiveFailures, run, seen, report, guilty>>

-----------------------------------------------------------------------------
(* healthLoop. *)

\* Healthcheck answers; gatherHealth fills in a missing status or class.
GatherExplicit(p, r) ==
    /\ explicit
    /\ report[p] = Null
    /\ report' = [report EXCEPT ![p] = r]
    /\ UNCHANGED <<explicit, totalRuns, consecutiveFailures, run, seen, late, row, guilty>>

\* LoadInt32(&consecutiveFailures)
LoadFailures(p) ==
    /\ ~explicit
    /\ report[p] = Null
    /\ seen[p] = Null
    /\ seen' = [seen EXCEPT ![p] = consecutiveFailures[p]]
    /\ UNCHANGED <<explicit, totalRuns, consecutiveFailures, run, report, late, row, guilty>>

\* mutant: many failures are still only degraded
Passive_never_unhealthy(runs, fails) ==
    CASE runs = 0              -> [status |-> "unknown", class |-> "unknown"]
      [] runs # 0 /\ fails = 0 -> [status |-> "healthy", class |-> "ok"]
      [] runs # 0 /\ fails > 0 -> [status |-> "degraded", class |-> "unknown"]

\* The report that the two counters give.
Passive(runs, fails) ==
    CASE runs = 0 -> [status |-> "unknown", class |-> "unknown"]
      [] runs # 0 /\ fails = 0 -> [status |-> "healthy", class |-> "ok"]
      [] runs # 0 /\ fails >= UnhealthyAfter ->
            [status |-> "unhealthy", class |-> "unknown"]
      [] runs # 0 /\ fails \in 1..(UnhealthyAfter - 1) ->
            [status |-> "degraded", class |-> "unknown"]

\* LoadInt32(&totalRuns) and the report.
GatherPassive(p) ==
    /\ seen[p] # Null
    /\ report' = [report EXCEPT ![p] = Passive(totalRuns[p], seen[p])]
    /\ seen' = [seen EXCEPT ![p] = Null]
    /\ UNCHANGED <<explicit, totalRuns, consecutiveFailures, run, late, row, guilty>>

\* upsertHealth of reportHealth, without a key.
WriteReport(p) ==
    /\ report[p] # Null
    /\ row' = Upserted(row, report[p], NoKey)
    /\ report' = [report EXCEPT ![p] = Null]
    /\ UNCHANGED <<explicit, totalRuns, consecutiveFailures, run, seen, late, guilty>>

\* The statement fails or times out; the loop goes on.
WriteFails(p) ==
    /\ report[p] # Null
    /\ report' = [report EXCEPT ![p] = Null]
    /\ UNCHANGED <<explicit, totalRuns, consecutiveFailures, run, seen, late, row, guilty>>

-----------------------------------------------------------------------------

Init ==
    /\ explicit \in BOOLEAN
    /\ totalRuns = [p \in Process |-> 0]
    /\ consecutiveFailures = [p \in Process |-> 0]
    /\ run = [s \in Slot |-> Null]
    /\ seen = [p \in Process |-> Null]
    /\ report = [p \in Process |-> Null]
    /\ late = [o \in HealthErr |-> 0]
    /\ row = Null
    /\ guilty = {}

recordRunOutcome(s) == CountOutcome(s) \/ \E o \in Ended : CountRun(s, o)

gatherHealth(p) ==
    \/ LoadFailures(p)
    \/ GatherPassive(p)
    \/ \E r \in Checked : GatherExplicit(p, r)

Next ==
    \/ \E s \in Slot : recordRunOutcome(s)
    \/ \E o \in HealthErr, ok \in BOOLEAN : WriteLate(o, ok)
    \/ \E p \in Process : gatherHealth(p) \/ WriteReport(p) \/ WriteFails(p)

\* The ticker keeps firing, goroutines that can run do, and a write that is
\* tried again and again gets through: Postgres is not down for ever.
Fairness ==
    /\ \A s \in Slot : WF_vars(CountOutcome(s))
    /\ \A o \in HealthErr : WF_vars(\E ok \in BOOLEAN : WriteLate(o, ok))
    /\ \A p \in Process : WF_vars(gatherHealth(p)) /\ SF_vars(WriteReport(p))

Spec == Init /\ [][Next]_vars /\ Fairness

-----------------------------------------------------------------------------
(* Correctness. *)

\* The auditor disables the key that failed_api_key_id names: it is one that
\* some run had when the provider refused it, never the key of a run that
\* failed for another reason.
BlamedKeyFailed == row # Null /\ row.failedKey # NoKey => row.failedKey \in guilty

\* A tool without Healthcheck whose processes all succeed in the end is shown
\* healthy in the end, without a blamed key: neither a late HealthError nor a
\* report gathered before the recovery has the last word.
RecoveryIsShown ==
    <>[](~explicit /\ \A p \in Process : totalRuns[p] > 0 /\ consecutiveFailures[p] = 0)
        => <>[](row # Null /\ row.status = "healthy" /\ row.failedKey = NoKey)

\* A tool without Healthcheck whose processes all keep failing is shown
\* unhealthy in the end.
FailureIsShown ==
    <>[](~explicit /\ \A p \in Process : consecutiveFailures[p] >= UnhealthyAfter)
        => <>[](row # Null /\ row.status = "unhealthy")

\* "nil clears the column on healthy / unrelated-failure transitions": a row
\* that shows health, or a failure of a class that is not about keys, blames
\* no key.
UnrelatedClearsBlame ==
    row # Null /\ (row.status = "healthy" \/ row.class = "other") => row.failedKey = NoKey
=============================================================================
