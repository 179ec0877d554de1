------------------------------ MODULE CascadeJobs ------------------------------
(***************************************************************************)
(* cascadeWorker (worker/river_adapter.go) between the River queue and the *)
(* assets table.  A slot is a goroutine River gives a job to; it runs Work *)
(* step by step, and every statement it sends to Postgres is a step of     *)
(* AssetStore.  Between two steps the process may crash, the job may be    *)
(* rescued and given to another slot while the first still runs, the       *)
(* operator may delete rows, and other slots write the same rows.  A       *)
(* statement may fail, and its answer may be lost after it committed.      *)
(*                                                                         *)
(* River itself is a library: its steps are modelled from the options      *)
(* startConsumer gives it and the errors Work returns to it.               *)
(*                                                                         *)
(* recordRunOutcome, metrics and spans change nothing that a step of this  *)
(* module reads, and are left out.                                         *)
(***************************************************************************)
EXTENDS AssetStore

CONSTANTS
    Job,           \* River jobs
    Slot,          \* goroutines that work on jobs, in all worker processes
    Target,        \* Target[j]: the asset whose change makes the cascade insert j
    Results,       \* Results[j]: what Tool.Run may return for j
    Misrouted,     \* jobs that landed on the queue of another phase
    Root,          \* assets that exist at the start
    ChunkSize,     \* const chunk of UpsertAssetsBatch
    MaxAttempts    \* River's limit of attempts

Result == [update : Attrs, children : Seq(Item)]

ASSUME JobsOK ==
    /\ Target \in [Job -> Asset]
    /\ Results \in [Job -> SUBSET Result]
    /\ Misrouted \subseteq Job
    /\ Root \subseteq Asset
    /\ ChunkSize \in Nat \ {0}
    /\ MaxAttempts \in Nat \ {0}

VARIABLES
    queue,   \* queue[j]: the row of job j in river_job
    slot,    \* slot[w]: where slot w is in Work, Null when it is idle
    fed      \* jobs whose SecretFeedback reached the api_keys row

jobVars == <<queue, slot, fed>>
vars == <<rows, deletions, feed, queue, slot, fed>>

Terminal == {"completed", "cancelled", "discarded"}

QueueRow == [state : {"none", "available", "running", "retryable"} \cup Terminal,
             attempt : 0..MaxAttempts, id : Id]

\* next is the first child not yet sent; it stands past the last at the end.
Attempt == [pc : {"work", "run", "merge", "chunk"}, job : Job,
            res : Result \cup {Null}, next : Nat \ {0}]

ASSUME NullIsNoAttempt == Null \notin Attempt

JobsTypeOK ==
    /\ TypeOK
    /\ queue \in [Job -> QueueRow]
    /\ slot \in [Slot -> Attempt \cup {Null}]
    /\ fed \in SUBSET Job

-----------------------------------------------------------------------------
(* River. *)

\* The cascade engine reads the events of an asset and inserts its jobs;
\* UniqueOpts keep a job from being inserted twice.
Cascade(a) ==
    /\ a \in feed
    /\ feed' = feed \ {a}
    /\ queue' = [j \in Job |->
                   IF Target[j] = a /\ rows[a] # Null /\ queue[j].state = "none"
                   THEN [state |-> "available", attempt |-> 0, id |-> IdOf(a)]
                   ELSE queue[j]]
    /\ UNCHANGED <<rows, deletions, slot, fed>>

\* An idle slot is given a job and calls Work.
Claim(w, j) ==
    /\ slot[w] = Null
    /\ queue[j].state = "available"
    /\ queue' = [queue EXCEPT ![j].state = "running", ![j].attempt = @ + 1]
    /\ slot' = [slot EXCEPT ![w] = [pc |-> "work", job |-> j, res |-> Null, next |-> 1]]
    /\ UNCHANGED <<rows, deletions, feed, fed>>

Retried(q) ==
    IF q.attempt < MaxAttempts THEN [q EXCEPT !.state = "retryable"]
                               ELSE [q EXCEPT !.state = "discarded"]

\* Work returned nil, river.JobCancel or another error.
Settled(q, verdict) ==
    CASE verdict = "ack"    -> [q EXCEPT !.state = "completed"]
      [] verdict = "cancel" -> [q EXCEPT !.state = "cancelled"]
      [] verdict = "nack"   -> Retried(q)

\* River settles a job only while its row is still running.
Return(w, verdict) ==
    LET j == slot[w].job IN
    /\ slot' = [slot EXCEPT ![w] = Null]
    /\ queue' = IF queue[j].state = "running"
                THEN [queue EXCEPT ![j] = Settled(@, verdict)]
                ELSE queue

\* The backoff of a failed job ends.
RetryDue(j) ==
    /\ queue[j].state = "retryable"
    /\ queue' = [queue EXCEPT ![j].state = "available"]
    /\ UNCHANGED <<rows, deletions, feed, slot, fed>>

\* mutant: a job on its last attempt is never rescued
Rescue_not_last_attempt(j) ==
    /\ queue[j].state = "running"
    /\ queue[j].attempt < MaxAttempts
    /\ queue' = [queue EXCEPT ![j] = Retried(@)]
    /\ UNCHANGED <<rows, deletions, feed, slot, fed>>

\* RescueStuckJobsAfter: the job has been running for ten minutes, because
\* its process died or because the tool ignores its cancelled context.
Rescue(j) ==
    /\ queue[j].state = "running"
    /\ queue' = [queue EXCEPT ![j] = Retried(@)]
    /\ UNCHANGED <<rows, deletions, feed, slot, fed>>

\* The process of a slot dies.
Crash(w) ==
    /\ slot[w] # Null
    /\ slot' = [slot EXCEPT ![w] = Null]
    /\ UNCHANGED <<rows, deletions, feed, queue, fed>>

-----------------------------------------------------------------------------
(* Work. *)

At(w, pc) == slot[w] # Null /\ slot[w].pc = pc

AssetID(w) == queue[slot[w].job].id

\* A single-phase worker refuses a job of another phase with a plain error.
RefusePhase(w) ==
    /\ At(w, "work")
    /\ slot[w].job \in Misrouted
    /\ Return(w, "nack")
    /\ UNCHANGED <<rows, deletions, feed, fed>>

\* The row cannot be read, is gone (nothing to do), or is there.
FetchAsset(w) ==
    /\ At(w, "work")
    /\ slot[w].job \notin Misrouted
    /\ \/ Return(w, "nack")
       \/ /\ ~HasId(AssetID(w))
          /\ Return(w, "ack")
       \/ /\ HasId(AssetID(w))
          /\ slot' = [slot EXCEPT ![w].pc = "run"]
          /\ UNCHANGED queue
    /\ UNCHANGED <<rows, deletions, feed, fed>>

\* mutant: persist starts with the children
AfterRun_children_first == "chunk"

\* persist merges the update before it writes the children.
AfterRun == "merge"

\* Tool.Run returns a result, an error IsFatal recognises, or another error
\* (transient, a HealthError, a fatal error wrapped in another).
Run(w) ==
    /\ At(w, "run")
    /\ \/ Return(w, "cancel")
       \/ Return(w, "nack")
       \/ \E r \in Results[slot[w].job] :
             /\ slot' = [slot EXCEPT ![w].pc = AfterRun, ![w].res = r]
             /\ UNCHANGED queue
    /\ UNCHANGED <<rows, deletions, feed, fed>>

\* The first half of persist.  An error is returned to River, whether the
\* statement committed or not.
PersistUpdate(w) ==
    /\ At(w, "merge")
    /\ LET update == slot[w].res.update IN
       \/ /\ MergeUpdate(AssetID(w), update)
          /\ slot' = [slot EXCEPT ![w].pc = "chunk"]
          /\ UNCHANGED queue
       \/ /\ NonEmpty(update)
          /\ UNCHANGED storeVars \/ MergeUpdate(AssetID(w), update)
          /\ Return(w, "nack")
    /\ UNCHANGED fed

\* The slice of res.NewAssets that the next statement writes.
NextChunk(res, next) ==
    LET end == next + ChunkSize - 1 IN
    SubSeq(res.children, next, IF end < Len(res.children) THEN end ELSE Len(res.children))

\* mutant: an error of a chunk is logged and the loop goes on
PersistChunk_ignore_error(w) ==
    /\ At(w, "chunk")
    /\ slot[w].next <= Len(slot[w].res.children)
    /\ \/ upsertChunk(NextChunk(slot[w].res, slot[w].next), AssetID(w))
       \/ UNCHANGED storeVars
    /\ slot' = [slot EXCEPT ![w].next = @ + ChunkSize]
    /\ UNCHANGED <<queue, fed>>

\* One turn of the loop of UpsertAssetsBatch, the second half of persist.
PersistChunk(w) ==
    /\ At(w, "chunk")
    /\ slot[w].next <= Len(slot[w].res.children)
    /\ LET chunk == NextChunk(slot[w].res, slot[w].next) IN
       \/ /\ upsertChunk(chunk, AssetID(w))
          /\ slot' = [slot EXCEPT ![w].next = @ + ChunkSize]
          /\ UNCHANGED queue
       \/ /\ UNCHANGED storeVars \/ upsertChunk(chunk, AssetID(w))
          /\ Return(w, "nack")
    /\ UNCHANGED fed

\* mutant: the feedback is sent while chunks are still to be written
Finish_early_feedback(w) ==
    /\ At(w, "chunk")
    /\ fed' \in {fed, fed \cup {slot[w].job}}
    /\ IF slot[w].next > Len(slot[w].res.children)
       THEN Return(w, "ack") ELSE UNCHANGED <<queue, slot>>
    /\ UNCHANGED <<rows, deletions, feed>>

\* The result is persisted.  SecretFeedback is sent if there is any, the
\* job's API key was resolved and the update succeeds; Work returns nil.
Finish(w) ==
    /\ At(w, "chunk")
    /\ slot[w].next > Len(slot[w].res.children)
    /\ fed' \in {fed, fed \cup {slot[w].job}}
    /\ Return(w, "ack")
    /\ UNCHANGED <<rows, deletions, feed>>

Work(w) ==
    \/ RefusePhase(w)
    \/ FetchAsset(w)
    \/ Run(w)
    \/ PersistUpdate(w)
    \/ PersistChunk(w)
    \/ Finish(w)

-----------------------------------------------------------------------------

RootRow == [attrs |-> [k \in Key |-> Null],
            fingerprint |-> fingerprintAttrs([k \in Key |-> Null]),
            stale |-> FALSE, parent |-> Null]

Init ==
    /\ rows = [a \in Asset |-> IF a \in Root THEN RootRow ELSE Null]
    /\ deletions = [a \in Asset |-> 0]
    /\ feed = Root
    /\ queue = [j \in Job |-> [state |-> "none", attempt |-> 0, id |-> <<Target[j], 0>>]]
    /\ slot = [w \in Slot |-> Null]
    /\ fed = {}

Operator(a) ==
    /\ Delete(a) \/ Age(a)
    /\ UNCHANGED jobVars

Next ==
    \/ \E w \in Slot : Work(w) \/ Crash(w)
    \/ \E w \in Slot, j \in Job : Claim(w, j)
    \/ \E j \in Job : RetryDue(j) \/ Rescue(j)
    \/ \E a \in Asset : Cascade(a) \/ Operator(a)

\* A slot that runs goes on (JobTimeout ends a tool that hangs), and River's
\* producer, scheduler and rescuer keep polling.  Nothing is assumed of the
\* cascade, the operator or crashes.
Fairness ==
    /\ \A w \in Slot : WF_vars(Work(w))
    /\ \A j \in Job : /\ WF_vars(\E w \in Slot : Claim(w, j))
                      /\ WF_vars(RetryDue(j))
                      /\ WF_vars(Rescue(j))

Spec == Init /\ [][Next]_vars /\ Fairness

-----------------------------------------------------------------------------
(* Correctness. *)

Holds(a, x) ==
    \/ deletions[a] > 0
    \/ rows[a] # Null /\ \A k \in Key : x[k] # Null => rows[a].attrs[k] # Null

\* A complete result r of j is in the asset graph: the keys of the update are
\* in the consumed asset and every child is there with its keys, except for
\* what the operator deleted.
Visible(j, r) ==
    /\ Holds(Target[j], r.update)
    /\ \A i \in DOMAIN r.children :
          r.children[i].asset # Null /\ Holds(r.children[i].asset, r.children[i].attrs)

Effective(j) ==
    deletions[Target[j]] > 0 \/ \E r \in Results[j] : Visible(j, r)

\* An acknowledged job left a complete result behind, unless its asset was
\* deleted: no crash, retry, rescue, skipped upsert or concurrent attempt
\* lets River complete a job with a part of its result missing (Work returns
\* nil only after persist).
CompletedIsVisible ==
    \A j \in Job : queue[j].state = "completed" => Effective(j)

\* "The runtime persists assets and findings transactionally": of a result
\* that River gave up on, the asset does not carry the update while a child is
\* missing.
PersistsTransactionally ==
    \A j \in Job : queue[j].state = "discarded" =>
        \A r \in Results[j] :
            NonEmpty(r.update) /\ Holds(Target[j], r.update) => Visible(j, r)

\* Quota and expiry of an API key are recorded only for a run whose result
\* was persisted (the SecretFeedback path of Work comes after persist).
FeedbackFollowsResult == \A j \in fed : Effective(j)

\* A child enters the graph only under a parent that already carries the
\* update of the same result: the cascade never works on a child whose
\* parent it would find without it (the order of persist).
ChildrenFollowUpdate ==
    [][\A a \in Asset : rows[a] = Null /\ rows'[a] # Null =>
          \E j \in Job : \E r \in Results[j] :
              /\ \E i \in DOMAIN r.children : r.children[i].asset = a
              /\ Holds(Target[j], r.update)]_vars

\* The adapter and River implement Delivery.
Status(q) == CASE q.state = "completed" -> "done"
               [] q.state \in {"cancelled", "discarded"} -> "dead"
               [] OTHER -> "open"

D == INSTANCE Delivery WITH
        status <- [j \in Job |-> Status(queue[j])],
        effect <- [j \in Job |-> Effective(j)]

\* The refinement: results take effect at least once before a job is done,
\* are never taken back by later writers, and a settled job stays settled
\* although late attempts and the rescuer still report on it.
DeliveryHolds == D!Spec

\* Every job the cascade inserts is completed, cancelled or discarded in the
\* end, whatever fails on the way: errors use up attempts, crashes are
\* rescued.
JobsSettle ==
    \A j \in Job : queue[j].state # "none" ~> queue[j].state \in Terminal
=============================================================================
